---------------------------- MODULE LibraryProofs ----------------------------
(***************************************************************************)
(* Theorems of Library, for any requests, cards, files and bounds: what    *)
(* the columns hold, that a pinned version is frozen, that a picture that  *)
(* is shown is kept, that what a new chat is offered is whole and the      *)
(* latest, and that a chat file is imported once.                          *)
(***************************************************************************)
EXTENDS Library, FiniteSetTheorems, WellFoundedInduction, SequenceTheorems, TLAPS

-----------------------------------------------------------------------------
(***************************************************************************)
(* Max and Min of a set of naturals.                                       *)
(***************************************************************************)
\* A set of naturals has a least element.
LEMMA LeastNat ==
  ASSUME NEW S, S \subseteq Nat, S # {}
  PROVE  \E m \in S : \A n \in S : m <= n
<1>. DEFINE R == OpToRel(<, Nat)
<1>1. PICK m \in S : \A n \in S : <<n, m>> \notin R
  <2>. HIDE DEF R
  <2>1. IsWellFoundedOn(R, Nat)
    BY NatLessThanWellFounded DEF R
  <2>. QED  BY <2>1, WFMin
<1>2. \A n \in S : ~(n < m)
  <2>. SUFFICES ASSUME NEW n \in S, n < m PROVE FALSE
    OBVIOUS
  <2>1. <<n, m>> \in Nat \X Nat
    OBVIOUS
  <2>. QED  BY <1>1, <2>1 DEF OpToRel
<1>3. \A n \in S : m <= n
  BY <1>2
<1>. QED  BY <1>3

\* A finite set of naturals has an upper bound.
LEMMA FiniteNatsBounded ==
  ASSUME NEW S, S \subseteq Nat, IsFiniteSet(S)
  PROVE  \E b \in Nat : \A n \in S : n <= b
<1>. DEFINE Bounded(A) == \E b \in Nat : \A n \in A : n <= b
            T == {A \in SUBSET S : ~Bounded(A)}
            R == StrictSubsetOrdering(S)
<1>1. SUFFICES ASSUME T # {} PROVE FALSE
  OBVIOUS
<1>2. IsWellFoundedOn(R, SUBSET S)
  BY FS_StrictSubsetOrderingWellFounded, FS_FiniteSubsetsOfFinite
<1>3. PICK A \in T : \A B \in T : <<B, A>> \notin R
  <2>1. T \subseteq SUBSET S
    OBVIOUS
  <2>. HIDE DEF T, R
  <2>. QED  BY <1>1, <1>2, <2>1, WFMin
<1>4. PICK x \in A : TRUE
  <2>1. Bounded({})
    OBVIOUS
  <2>. QED  BY <2>1
<1>5. A \ {x} \notin T
  <2>1. <<A \ {x}, A>> \in R
    BY <1>4 DEF StrictSubsetOrdering
  <2>. QED  BY <1>3, <2>1
<1>6. PICK b \in Nat : \A n \in A \ {x} : n <= b
  BY <1>5
<1>7. x \in Nat /\ b + x \in Nat /\ \A n \in A : n <= b + x
  BY <1>6
<1>. QED  BY <1>7

\* The values of a function on a finite set are finitely many.
LEMMA FiniteImage ==
  ASSUME NEW S, IsFiniteSet(S), NEW f
  PROVE  IsFiniteSet({f[x] : x \in S})
<1>. DEFINE T == {f[x] : x \in S}
            g == [x \in S |-> f[x]]
<1>1. g \in Surjection(S, T)
  BY DEF Surjection
<1>. QED  BY <1>1, FS_Surjection

\* Max of a finite set of naturals is one of them, and no other is greater.
LEMMA MaxOfNats ==
  ASSUME NEW S, S \subseteq Nat, S # {}, IsFiniteSet(S)
  PROVE  Max(S) \in S /\ \A n \in S : n <= Max(S)
<1>. DEFINE B == {m \in Nat : \A n \in S : n <= m}
<1>1. PICK m \in B : \A k \in B : m <= k
  <2>1. B \subseteq Nat /\ B # {}
    BY FiniteNatsBounded
  <2>. HIDE DEF B
  <2>. QED  BY <2>1, LeastNat
<1>2. m \in S
  <2>. SUFFICES ASSUME m \notin S PROVE FALSE
    OBVIOUS
  <2>1. PICK n \in S : TRUE
    OBVIOUS
  <2>2. m # 0 /\ m - 1 \in Nat
    BY <2>1
  <2>3. \A k \in S : k <= m - 1
    BY <2>2
  <2>. QED  BY <1>1, <2>2, <2>3
<1>3. \A n \in S : n <= m
  BY <1>1
<1>4. \E x \in S : \A n \in S : x >= n
  BY <1>2, <1>3
<1>. QED  BY <1>4 DEF Max

-----------------------------------------------------------------------------
(***************************************************************************)
(* The inductive invariant: ids count, rows refer to rows, and what each   *)
(* process remembers still fits the step it is at.                         *)
(***************************************************************************)
\* What a process remembers.  todo and links hold what they hold.
Local(r) ==
  r \in [item : {None} \cup 1..last.item, cur : {None} \cup 1..last.ver,
         ver : {None} \cup 1..last.ver, num : Nat, text : Texts \cup Cards \cup {None},
         handle : Handles \cup {None}, avatar : PngCards \cup {None},
         card : Cards \cup {None}, files : Seq(Files), chat : {None} \cup 1..last.chat,
         todo : {r.todo}, links : {r.links}]

\* The item is of kind k, if it is still there.
KindIs(i, k) == i \in DOMAIN items => items[i].kind = k

\* The version that was written for the item is there as long as the item is.
Written(r) == r.item \in DOMAIN items => r.ver \in DOMAIN vers /\ vers[r.ver].of = r.item

Edits   == {"create.insert", "create.version", "update.pinned", "update.mint", "update.fork",
            "update.insert", "update.mutate"}
Numbers == {"create.version", "update.mint", "update.insert", "import.version"}
Stores  == {"import.put", "import.row", "backfill.put", "backfill.row", "backfill.link",
            "rebuild.row", "gc.row"}
Brings  == {"import.put", "import.row", "import.read", "import.char", "import.max",
            "import.version", "import.lore", "import.point"}
Renames == {"update.pinned", "update.mint", "update.fork", "update.insert", "update.mutate",
            "update.point", "update.identity"}

\* What a process at step l can rely on.
At(l, r) ==
  /\ l \in Edits => r.text \in Texts
  /\ l \in Numbers => r.num # 0
  /\ l \in Stores => r.card \in PngCards
  /\ l \in Brings => r.card \in Cards /\ r.text = r.card
  /\ l \in Renames /\ r.handle # None => KindIs(r.item, "character")
  /\ l \in {"create.version", "create.point"} => r.handle = None
  /\ l \in {"import.max", "import.version"} => KindIs(r.item, "character")
  /\ l \in {"create.point", "update.point", "import.lore", "import.point"} => Written(r)
  /\ l \in {"open.preset", "open.insert"} => r.ver # None
  /\ l = "open.preset" => KindIs(r.item, "preset")
  /\ l = "open.insert" /\ r.cur \in DOMAIN vers => items[vers[r.cur].of].kind = "preset"
  /\ l \in {"chats.insert", "chats.message"} => r.files # <<>>

Fits(q) == Local(loc[q]) /\ At(pc[q], loc[q])

\* An identity row points to a version of its own; only a card's slug or a user's
\* names it, and a preset has no name.
ItemsOK ==
  \A i \in DOMAIN items :
    /\ items[i] \in [kind : Kinds, handle : Handles \cup {None},
                     cur : DOMAIN vers \cup {None}, hash : Hash]
    /\ items[i].kind = "preset" => items[i].handle = None
    /\ items[i].cur # None => vers[items[i].cur].of = i

\* Only characters come from cards.
VersOK ==
  \A v \in DOMAIN vers :
    /\ vers[v] \in [of : DOMAIN items, num : Nat \ {0}, text : Texts \cup Cards,
                    avatar : assets \cup {None}, lore : Nat]
    /\ vers[v].text \in Cards => items[vers[v].of].kind = "character"

\* What a chat records of a preset's text is a user's text.
ChatsOK ==
  \A c \in DOMAIN chats :
    /\ chats[c] \in [ver : DOMAIN vers, preset : DOMAIN vers \cup {None},
                     file : Files \cup {None}, parent : DOMAIN chats \cup {None},
                     have : Nat, seen : Texts \cup Cards \cup {None},
                     config : Texts \cup {None}]
    /\ chats[c].preset = None => chats[c].config = None

IdsOK ==
  /\ last \in [item : Nat, ver : Nat, chat : Nat]
  /\ DOMAIN items \subseteq 1..last.item
  /\ DOMAIN vers \subseteq 1..last.ver
  /\ DOMAIN chats \subseteq 1..last.chat

DiskOK ==
  /\ DOMAIN personas \subseteq Personas
  /\ \A u \in DOMAIN personas : personas[u] \in assets \cup {None}
  /\ assets \subseteq PngCards /\ DOMAIN blobs \subseteq PngCards
  /\ \A h \in DOMAIN blobs : blobs[h] \in {"young", "old"}

ProcsOK ==
  /\ DOMAIN pc = Procs /\ DOMAIN loc = Procs
  /\ mix \in Mixes /\ ops \in 0..mix.ops /\ crashes \in 0..MaxCrashes

RowsOK == IdsOK /\ ItemsOK /\ VersOK /\ ChatsOK
TypeInv == RowsOK /\ DiskOK /\ ProcsOK /\ \A q \in Procs : Fits(q)

-----------------------------------------------------------------------------
(***************************************************************************)
(* Frames: what a step of one process leaves true of the others.           *)
(***************************************************************************)
\* Ids are not given twice, a row keeps its kind and its owner, and a version
\* only goes with its item.
Evolve ==
  /\ last.item <= last'.item /\ last.ver <= last'.ver /\ last.chat <= last'.chat
  /\ \A i \in 1..last.item : i \in DOMAIN items' =>
        i \in DOMAIN items /\ items'[i].kind = items[i].kind
  /\ \A v \in 1..last.ver : v \in DOMAIN vers' =>
        v \in DOMAIN vers /\ vers'[v].of = vers[v].of
  /\ \A v \in DOMAIN vers : v \notin DOMAIN vers' => vers[v].of \notin DOMAIN items'

LEMMA StillFits ==
  ASSUME RowsOK, RowsOK', Evolve, NEW q \in Procs, Fits(q), pc'[q] = pc[q], loc'[q] = loc[q]
  PROVE  Fits(q)'
<1>1. Local(loc[q])'
  <2>1. last.item \in Nat /\ last'.item \in Nat /\ last.item <= last'.item
        /\ last.ver \in Nat /\ last'.ver \in Nat /\ last.ver <= last'.ver
        /\ last.chat \in Nat /\ last'.chat \in Nat /\ last.chat <= last'.chat
    BY DEF RowsOK, IdsOK, Evolve
  <2>2. 1..last.item \subseteq 1..last'.item /\ 1..last.ver \subseteq 1..last'.ver
        /\ 1..last.chat \subseteq 1..last'.chat
    BY <2>1
  <2>. QED  BY <2>2 DEF Fits, Local
<1>2. None \notin Nat
  BY LibraryAssumption
<1>3. /\ \A i \in {None} \cup 1..last.item : i \in DOMAIN items' => i \in DOMAIN items
      /\ \A i \in {None} \cup 1..last.item : i \in DOMAIN items' => items'[i].kind = items[i].kind
      /\ \A v \in {None} \cup 1..last.ver : v \in DOMAIN vers' => v \in DOMAIN vers
      /\ \A v \in {None} \cup 1..last.ver : v \in DOMAIN vers' => vers'[v].of = vers[v].of
  BY <1>2 DEF Evolve, RowsOK, IdsOK
<1>4. \A k : KindIs(loc[q].item, k) => KindIs(loc[q].item, k)'
  <2>1. loc[q].item \in {None} \cup 1..last.item
    BY DEF Fits, Local
  <2>. QED  BY <1>3, <2>1 DEF KindIs
<1>5. Written(loc[q]) => Written(loc[q])'
  <2>1. loc[q].item \in {None} \cup 1..last.item /\ loc[q].ver \in {None} \cup 1..last.ver
    BY DEF Fits, Local
  <2>. QED  BY <1>3, <2>1 DEF Written, Evolve
<1>6. ASSUME pc[q] = "open.insert", loc[q].cur \in DOMAIN vers'
      PROVE  items'[vers'[loc[q].cur].of].kind = "preset"
  <2>1. loc[q].cur \in {None} \cup 1..last.ver
    BY DEF Fits, Local
  <2>2. loc[q].cur \in DOMAIN vers /\ vers'[loc[q].cur].of = vers[loc[q].cur].of
    BY <1>3, <1>6, <2>1
  <2>3. vers[loc[q].cur].of \in DOMAIN items' /\ vers[loc[q].cur].of \in DOMAIN items
    BY <1>6, <2>2 DEF RowsOK, VersOK
  <2>4. vers[loc[q].cur].of \in 1..last.item
    BY <2>3 DEF RowsOK, IdsOK
  <2>5. items[vers[loc[q].cur].of].kind = "preset"
    BY <1>6, <2>2 DEF Fits, At
  <2>. QED  BY <1>3, <2>2, <2>3, <2>4, <2>5
<1>. QED  BY <1>1, <1>4, <1>5, <1>6 DEF Fits, At

Others(p) == \A q \in Procs \ {p} : pc'[q] = pc[q] /\ loc'[q] = loc[q]

\* A step of p keeps the invariant if it keeps the rows, evolves them, and p
\* goes where what it remembers fits.
LEMMA OneStep ==
  ASSUME TypeInv, NEW p \in Procs, RowsOK', DiskOK', ProcsOK', Evolve, Others(p), Fits(p)'
  PROVE  TypeInv'
<1>. SUFFICES ASSUME NEW q \in Procs PROVE Fits(q)'
  BY DEF TypeInv
<1>1. CASE q = p
  BY <1>1
<1>2. CASE q # p
  BY <1>2, StillFits DEF Others, TypeInv
<1>. QED  BY <1>1, <1>2

LEMMA Going ==
  ASSUME TypeInv, NEW p \in Procs, NEW l, NEW r, Goto(p, l, r), UNCHANGED budget
  PROVE  ProcsOK' /\ Others(p) /\ pc'[p] = l /\ loc'[p] = r
BY DEF TypeInv, ProcsOK, Goto, Others, budget

LEMMA Beginning ==
  ASSUME TypeInv, NEW p \in Procs, NEW op, NEW l, NEW r, Begin(p, op, l, r)
  PROVE  ProcsOK' /\ Others(p) /\ pc'[p] = l /\ loc'[p] = r /\ pc[p] = "idle"
<1>1. mix.ops \in Nat
  BY LibraryAssumption DEF TypeInv, ProcsOK
<1>. QED  BY <1>1 DEF TypeInv, ProcsOK, Goto, Others, Begin, Request

\* A step that writes no table and no file.
LEMMA Quiet ==
  ASSUME TypeInv, NEW p \in Procs, UNCHANGED <<tables, disk>>, ProcsOK', Others(p),
         NEW l, NEW r, pc'[p] = l, loc'[p] = r, Local(r), At(l, r)
  PROVE  TypeInv'
<1>1. RowsOK' /\ DiskOK'
  BY DEF TypeInv, RowsOK, IdsOK, ItemsOK, VersOK, ChatsOK, DiskOK, tables, disk
<1>2. Evolve
  BY DEF TypeInv, RowsOK, IdsOK, Evolve, tables
<1>3. Local(loc[p])'
  BY DEF Local, tables
<1>4. At(pc[p], loc[p])'
  BY DEF At, KindIs, Written, tables
<1>. QED  BY <1>1, <1>2, <1>3, <1>4, OneStep DEF Fits

LEMMA Opens ==
  ASSUME TypeInv, NEW p \in Procs, NEW op, NEW l, NEW r, Begin(p, op, l, r),
         UNCHANGED <<tables, disk>>, Local(r), At(l, r)
  PROVE  TypeInv'
BY Beginning, Quiet

LEMMA GoesOn ==
  ASSUME TypeInv, NEW p \in Procs, NEW l, NEW r, Goto(p, l, r),
         UNCHANGED <<tables, disk, budget>>, Local(r), At(l, r)
  PROVE  TypeInv'
BY Going, Quiet

\* A process that is idle remembers nothing.
LEMMA IdleFits ==
  ASSUME RowsOK
  PROVE  Local(Idle) /\ At("idle", Idle)
BY EmptySeq DEF Local, At, Idle, Edits, Numbers, Stores, Brings, Renames, RowsOK, IdsOK

-----------------------------------------------------------------------------
(***************************************************************************)
(* Characters, presets and chats.                                          *)
(***************************************************************************)
\* What the proofs use of the constants.
LEMMA Constants ==
  /\ None \notin Nat /\ None \notin Cards /\ None \notin Texts /\ Texts \cap Cards = {} /\ PngCards \subseteq Cards
  /\ <<>> \in Seq(Files)
  /\ \A m \in Mixes : m.handles \subseteq Handles /\ m.cards \subseteq Cards
                      /\ m.bundles \subseteq Seq(Files)
BY LibraryAssumption, EmptySeq

\* What the invariant says of the ids a request can read.
LEMMA ReadIds ==
  ASSUME TypeInv
  PROVE  /\ last.item \in Nat /\ last.ver \in Nat /\ last.chat \in Nat
         /\ \A i \in DOMAIN items : i \in 1..last.item /\ i # None
         /\ \A i \in DOMAIN items : items[i].cur \in {None} \cup 1..last.ver
         /\ \A v \in DOMAIN vers : v \in 1..last.ver /\ v # None
         /\ \A c \in DOMAIN chats : c \in 1..last.chat /\ c # None
         /\ assets \subseteq PngCards
BY Constants DEF TypeInv, RowsOK, IdsOK, ItemsOK, DiskOK

\* A request that starts: what it remembers of the rows it read.
LEMMA Starts ==
  ASSUME TypeInv, NEW p \in Procs,
         CharacterCreate(p) \/ PresetCreate(p) \/ RemoveRead(p) \/ OpenLook(p)
  PROVE  TypeInv'
<1>0. mix.handles \subseteq Handles
  BY Constants DEF TypeInv, ProcsOK
<1>1. CASE CharacterCreate(p)
  <2>1. PICK h \in mix.handles, t \in Texts, a \in {None} \cup assets :
          /\ Begin(p, "create", "create.insert", [Idle EXCEPT !.handle = h, !.text = t, !.avatar = a])
          /\ UNCHANGED <<tables, disk, history>>
    BY <1>1 DEF CharacterCreate
  <2>. DEFINE r == [Idle EXCEPT !.handle = h, !.text = t, !.avatar = a]
  <2>2. Local(r) /\ At("create.insert", r)
    BY <1>0, Constants, ReadIds DEF Local, Idle, At, Edits, Numbers, Stores, Brings, Renames
  <2>. QED  BY <2>1, <2>2, Opens
<1>2. CASE PresetCreate(p)
  <2>1. PICK t \in Texts :
          /\ Begin(p, "preset", "create.insert", [Idle EXCEPT !.text = t])
          /\ UNCHANGED <<tables, disk, history>>
    BY <1>2 DEF PresetCreate
  <2>. DEFINE r == [Idle EXCEPT !.text = t]
  <2>2. Local(r) /\ At("create.insert", r)
    BY Constants, ReadIds DEF Local, Idle, At, Edits, Numbers, Stores, Brings, Renames
  <2>. QED  BY <2>1, <2>2, Opens
<1>3. CASE RemoveRead(p)
  <2>1. PICK i \in DOMAIN items :
          /\ Begin(p, "remove", "remove.list", [Idle EXCEPT !.item = i])
          /\ UNCHANGED <<tables, disk>>
    BY <1>3 DEF RemoveRead
  <2>. DEFINE r == [Idle EXCEPT !.item = i]
  <2>2. Local(r) /\ At("remove.list", r)
    BY Constants, ReadIds DEF Local, Idle, At, Edits, Numbers, Stores, Brings, Renames
  <2>. QED  BY <2>1, <2>2, Opens
<1>4. CASE OpenLook(p)
  <2>1. PICK v \in DOMAIN vers, s \in {None} \cup DOMAIN items :
          /\ s # None => items[s].kind = "preset"
          /\ Begin(p, "open", "open.preset", [Idle EXCEPT !.ver = v, !.item = s])
          /\ UNCHANGED <<tables, disk, history>>
    BY <1>4 DEF OpenLook
  <2>. DEFINE r == [Idle EXCEPT !.ver = v, !.item = s]
  <2>2. Local(r) /\ At("open.preset", r)
    BY <2>1, Constants, ReadIds DEF Local, Idle, At, KindIs, Edits, Numbers, Stores, Brings, Renames
  <2>. QED  BY <2>1, <2>2, Opens
<1>. QED  BY <1>1, <1>2, <1>3, <1>4

\* An edit that starts; its handle is a new one of a character.
LEMMA Edited ==
  ASSUME TypeInv, NEW p \in Procs, NEW i \in DOMAIN items, NEW t \in Texts \cup {None},
         NEW h \in Handles \cup {None}, NEW a \in {None} \cup assets,
         h # None => items[i].kind = "character",
         UpdateRead(p, i, t, h, a)
  PROVE  TypeInv'
<1>. DEFINE rename == IF h = items[i].handle THEN None ELSE h
            r == [Idle EXCEPT !.item = i, !.cur = items[i].cur, !.text = t,
                              !.handle = rename, !.avatar = a]
            l == IF t # None THEN "update.pinned" ELSE "update.identity"
<1>1. Begin(p, "update", l, r) /\ UNCHANGED <<tables, disk>>
  BY DEF UpdateRead
<1>a. rename \in Handles \cup {None} /\ i \in 1..last.item /\ items[i].cur \in {None} \cup 1..last.ver
      /\ a \in PngCards \cup {None}
  BY ReadIds
<1>2. Local(r)
  <2>. HIDE DEF rename
  <2>. QED  BY <1>a, Constants DEF Local, Idle
<1>3. r.text = t /\ r.item = i /\ (r.handle # None => h # None)
  BY DEF Idle
<1>4. At(l, r)
  <2>. HIDE DEF r
  <2>. QED  BY <1>3, Constants DEF At, KindIs, Edits, Numbers, Stores, Brings, Renames
<1>. HIDE DEF r, l
<1>. QED  BY <1>1, <1>2, <1>4, Opens

LEMMA UpdateReads ==
  ASSUME TypeInv, NEW p \in Procs, CharacterUpdate(p) \/ PresetUpdate(p)
  PROVE  TypeInv'
<1>0. mix.handles \subseteq Handles
  BY Constants DEF TypeInv, ProcsOK
<1>1. CASE CharacterUpdate(p)
  BY <1>0, <1>1, Edited DEF CharacterUpdate
<1>2. CASE PresetUpdate(p)
  BY <1>2, Edited DEF PresetUpdate
<1>. QED  BY <1>1, <1>2

\* A step that goes on with what it remembers and what it reads.
LEMMA ReadsOn ==
  ASSUME TypeInv, NEW p \in Procs,
         UpdatePinned(p) \/ RemoveList(p) \/ RemoveCheck(p) \/ OpenPreset(p)
  PROVE  TypeInv'
<1>0. Local(loc[p]) /\ At(pc[p], loc[p])
  BY DEF TypeInv, Fits
<1>1. CASE UpdatePinned(p)
  <2>. DEFINE r == [loc[p] EXCEPT !.num = 1]
              l == IF loc[p].cur = None THEN "update.mint"
                   ELSE IF Pinned(loc[p].cur) THEN "update.fork" ELSE "update.mutate"
  <2>1. Goto(p, l, r) /\ UNCHANGED <<tables, disk, budget>> /\ pc[p] = "update.pinned"
    BY <1>1 DEF UpdatePinned
  <2>2. Local(r)
    BY <1>0 DEF Local
  <2>3. r.num = 1 /\ r.text = loc[p].text /\ r.handle = loc[p].handle /\ r.item = loc[p].item
    BY <1>0 DEF Local
  <2>4. At(l, r)
    <3>. HIDE DEF r
    <3>. QED  BY <1>0, <2>1, <2>3 DEF At, KindIs, Edits, Numbers, Stores, Brings, Renames
  <2>. HIDE DEF r, l
  <2>. QED  BY <2>1, <2>2, <2>4, GoesOn
<1>2. CASE RemoveList(p)
  <2>. DEFINE r == [loc[p] EXCEPT !.todo = VersionsOf(loc[p].item)]
  <2>1. Goto(p, "remove.check", r) /\ UNCHANGED <<tables, disk, budget>>
    BY <1>2 DEF RemoveList
  <2>2. Local(r)
    BY <1>0 DEF Local
  <2>3. At("remove.check", r)
    BY DEF At, Edits, Numbers, Stores, Brings, Renames
  <2>. HIDE DEF r
  <2>. QED  BY <2>1, <2>2, <2>3, GoesOn
<1>3. CASE RemoveCheck(p)
  <2>. DEFINE r == [loc[p] EXCEPT !.todo = @ \ {Min(loc[p].todo)}]
  <2>0. Local(r) /\ At("remove.check", r) /\ At("remove.unpoint", loc[p])
    BY <1>0 DEF Local, At, Edits, Numbers, Stores, Brings, Renames
  <2>1. UNCHANGED <<tables, disk, budget>>
    BY <1>3 DEF RemoveCheck
  <2>2. \/ Goto(p, "remove.check", r) \/ Goto(p, "remove.unpoint", loc[p])
        \/ Goto(p, "idle", Idle)
    BY <1>3 DEF RemoveCheck, Finish
  <2>3. Local(Idle) /\ At("idle", Idle)
    BY IdleFits DEF TypeInv
  <2>. HIDE DEF r
  <2>. QED  BY <1>0, <2>0, <2>1, <2>2, <2>3, GoesOn
<1>4. CASE OpenPreset(p)
  <2>. DEFINE s == loc[p].item
              c == IF s \in DOMAIN items THEN items[s].cur ELSE None
              r == [loc[p] EXCEPT !.cur = c]
  <2>1. Goto(p, "open.insert", r) /\ UNCHANGED <<tables, disk, budget>> /\ pc[p] = "open.preset"
    BY <1>4 DEF OpenPreset
  <2>2. c \in {None} \cup 1..last.ver
    BY ReadIds
  <2>3. Local(r) /\ r.cur = c /\ r.ver = loc[p].ver
    <3>. HIDE DEF c
    <3>. QED  BY <1>0, <2>2 DEF Local
  <2>4. c \in DOMAIN vers => items[vers[c].of].kind = "preset"
    BY <1>0, <2>1, Constants, ReadIds DEF At, KindIs, TypeInv, RowsOK, ItemsOK
  <2>5. At("open.insert", r)
    <3>. HIDE DEF r, c
    <3>. QED  BY <1>0, <2>1, <2>3, <2>4 DEF At, Edits, Numbers, Stores, Brings, Renames
  <2>. HIDE DEF r
  <2>. QED  BY <2>1, <2>3, <2>5, GoesOn
<1>. QED  BY <1>1, <1>2, <1>3, <1>4

\* The numbers of an item's versions have a maximum; the next one is not 0.
LEMMA MaxNumberIsNat ==
  ASSUME TypeInv, NEW i
  PROVE  MaxNumber(i) \in Nat
<1>. DEFINE N == {0} \cup {vers[v].num : v \in VersionsOf(i)}
<1>1. N \subseteq Nat /\ N # {}
  BY DEF TypeInv, RowsOK, VersOK, VersionsOf
<1>2. IsFiniteSet(VersionsOf(i))
  <2>1. last.ver \in Int /\ VersionsOf(i) \subseteq 1..last.ver
    BY DEF TypeInv, RowsOK, IdsOK, VersionsOf
  <2>. QED  BY <2>1, FS_Interval, FS_Subset
<1>3. IsFiniteSet({vers[v].num : v \in VersionsOf(i)})
  <2>. DEFINE f == [v \in VersionsOf(i) |-> vers[v].num]
  <2>1. IsFiniteSet({f[v] : v \in VersionsOf(i)})
    <3>. HIDE DEF f
    <3>. QED  BY <1>2, FiniteImage
  <2>. QED  BY <2>1
<1>4. IsFiniteSet(N)
  BY <1>3, FS_Singleton, FS_Union
<1>. HIDE DEF N
<1>5. Max(N) \in Nat
  BY <1>1, <1>4, MaxOfNats
<1>. QED  BY <1>5 DEF N, MaxNumber

LEMMA Forks ==
  ASSUME TypeInv, NEW p \in Procs, CharacterFork(p) \/ PresetFork(p)
  PROVE  TypeInv'
<1>. DEFINE old == IF loc[p].cur \in DOMAIN vers THEN vers[loc[p].cur].avatar ELSE None
            n == MaxNumber(loc[p].item) + 1
            a == IF loc[p].avatar = None THEN old ELSE loc[p].avatar
            r == [loc[p] EXCEPT !.num = n, !.avatar = a]
<1>0. Local(loc[p]) /\ At(pc[p], loc[p])
  BY DEF TypeInv, Fits
<1>1. /\ pc[p] = "update.fork" /\ UNCHANGED <<tables, disk, budget>>
      /\ Goto(p, "update.insert", r) \/ Goto(p, "idle", Idle)
  BY DEF CharacterFork, PresetFork, ForkRead, Finish
<1>2. n \in Nat \ {0}
  BY MaxNumberIsNat
<1>3. a \in PngCards \cup {None}
  <2>1. old \in PngCards \cup {None}
    BY DEF TypeInv, RowsOK, VersOK, DiskOK
  <2>. QED  BY <1>0, <2>1 DEF Local
<1>4. Local(r) /\ r.num = n /\ r.text = loc[p].text /\ r.handle = loc[p].handle
      /\ r.item = loc[p].item
  <2>. HIDE DEF n, a, old
  <2>1. Local(r)
    BY <1>0, <1>2, <1>3 DEF Local
  <2>2. r.num = n
    BY <1>0, <1>2, <1>3 DEF Local
  <2>3. r.text = loc[p].text /\ r.handle = loc[p].handle
      /\ r.item = loc[p].item
    BY <1>0, <1>2, <1>3 DEF Local
  <2>. QED  BY <2>1, <2>2, <2>3
<1>5. At("update.insert", r)
  <2>. HIDE DEF r, n
  <2>. QED  BY <1>0, <1>1, <1>2, <1>4 DEF At, KindIs, Edits, Numbers, Stores, Brings, Renames
<1>6. Local(Idle) /\ At("idle", Idle)
  BY IdleFits DEF TypeInv
<1>. HIDE DEF r
<1>. QED  BY <1>1, <1>4, <1>5, <1>6, GoesOn

\* A version that is inserted: a new id, and the number is nobody else's.
LEMMA NewVersion ==
  ASSUME TypeInv, NEW p \in Procs, NEW l,
         VersionFits(loc[p].item, loc[p].num, loc[p].avatar),
         loc[p].num # 0, loc[p].text # None,
         loc[p].text \in Cards => items[loc[p].item].kind = "character",
         vers' = Row(vers, NewVer, Version(loc[p].item, loc[p].num, loc[p].text, loc[p].avatar)),
         Counts("ver"), UNCHANGED <<items, chats, personas, disk>>
  PROVE  RowsOK' /\ DiskOK' /\ Evolve /\ NewVer \in DOMAIN vers' /\ NewVer \in 1..last'.ver
         /\ vers'[NewVer].of = loc[p].item /\ NewVer \notin DOMAIN vers
<1>0. Local(loc[p]) /\ IdsOK /\ ItemsOK /\ VersOK /\ ChatsOK /\ DiskOK
  BY DEF TypeInv, Fits, RowsOK
<1>1. /\ last' \in [item : Nat, ver : Nat, chat : Nat]
      /\ last'.ver = NewVer /\ last'.item = last.item /\ last'.chat = last.chat
      /\ NewVer \in Nat /\ NewVer \notin DOMAIN vers /\ NewVer \in 1..last'.ver
      /\ last.ver \in Nat /\ last'.ver = last.ver + 1
  <2>1. last.ver \in Nat /\ DOMAIN vers \subseteq 1..last.ver
    BY <1>0 DEF IdsOK
  <2>2. /\ last' \in [item : Nat, ver : Nat, chat : Nat]
        /\ last'.ver = NewVer /\ last'.item = last.item /\ last'.chat = last.chat
    BY <1>0 DEF IdsOK, Counts, NewVer
  <2>. QED  BY <2>1, <2>2 DEF NewVer
<1>2. /\ DOMAIN vers' = DOMAIN vers \cup {NewVer}
      /\ \A v \in DOMAIN vers : vers'[v] = vers[v]
      /\ vers'[NewVer] = Version(loc[p].item, loc[p].num, loc[p].text, loc[p].avatar)
  BY <1>1 DEF Row
<1>3. IdsOK'
  BY <1>0, <1>1, <1>2 DEF IdsOK
<1>4. ItemsOK'
  <2>. SUFFICES ASSUME NEW i \in DOMAIN items
       PROVE  /\ items[i] \in [kind : Kinds, handle : Handles \cup {None},
                               cur : DOMAIN vers' \cup {None}, hash : Hash]
              /\ items[i].kind = "preset" => items[i].handle = None
              /\ items[i].cur # None => vers'[items[i].cur].of = i
    BY DEF ItemsOK
  <2>. QED  BY <1>0, <1>2 DEF ItemsOK
<1>5. VersOK'
  <2>1. Version(loc[p].item, loc[p].num, loc[p].text, loc[p].avatar)
          \in [of : DOMAIN items, num : Nat \ {0}, text : Texts \cup Cards,
               avatar : assets \cup {None}, lore : Nat]
    BY <1>0 DEF Version, Local, VersionFits
  <2>. QED  BY <1>0, <1>2, <2>1 DEF VersOK, Version, disk
<1>6. ChatsOK'
  BY <1>0, <1>2 DEF ChatsOK
<1>7. DiskOK'
  BY <1>0 DEF DiskOK, disk
<1>8. Evolve
  <2>1. NewVer \notin 1..last.ver /\ last.ver <= last'.ver /\ last.item \in Nat /\ last.chat \in Nat
    BY <1>0, <1>1 DEF IdsOK
  <2>. QED  BY <1>0, <1>1, <1>2, <2>1 DEF Evolve, IdsOK
<1>9. vers'[NewVer].of = loc[p].item
  BY <1>2 DEF Version
<1>. QED  BY <1>1, <1>2, <1>3, <1>4, <1>5, <1>6, <1>7, <1>8, <1>9 DEF RowsOK

\* A step that ends the request.
LEMMA Ends ==
  ASSUME TypeInv, NEW p \in Procs, Finish(p), UNCHANGED budget, RowsOK', DiskOK', Evolve
  PROVE  TypeInv'
<1>1. ProcsOK' /\ Others(p) /\ pc'[p] = "idle" /\ loc'[p] = Idle
  BY Going DEF Finish
<1>2. Fits(p)'
  BY <1>1, EmptySeq DEF Fits, Local, At, Idle, Edits, Numbers, Stores, Brings, Renames, RowsOK, IdsOK
<1>. QED  BY <1>1, <1>2, OneStep

\* A step after which everything is as it was: the request ends with an error.
LEMMA Throws ==
  ASSUME TypeInv, NEW p \in Procs, Finish(p), UNCHANGED <<tables, disk, budget>>
  PROVE  TypeInv'
BY IdleFits, GoesOn DEF Finish, TypeInv

\* A new identity row: a new id, no versions and no pointer yet.
LEMMA NewItemRow ==
  ASSUME TypeInv, NEW r, r \in [kind : Kinds, handle : Handles \cup {None},
                                cur : {None}, hash : Hash],
         r.kind = "preset" => r.handle = None,
         Counts("item"), items' = Row(items, NewItem, r),
         UNCHANGED <<vers, chats, personas, disk>>
  PROVE  /\ RowsOK' /\ DiskOK' /\ Evolve /\ NewItem \in 1..last'.item
         /\ items'[NewItem].kind = r.kind
<1>1. last \in [item : Nat, ver : Nat, chat : Nat] /\ DOMAIN items \subseteq 1..last.item
  BY DEF TypeInv, RowsOK, IdsOK
<1>2. /\ last' \in [item : Nat, ver : Nat, chat : Nat]
      /\ last'.ver = last.ver /\ last'.chat = last.chat /\ last'.item = NewItem
      /\ NewItem = last.item + 1 /\ last.item \in Nat /\ last.ver \in Nat /\ last.chat \in Nat
  BY <1>1 DEF Counts, NewItem
<1>3. /\ DOMAIN items' = DOMAIN items \cup {NewItem}
      /\ items'[NewItem] = r /\ \A i \in DOMAIN items : i # NewItem => items'[i] = items[i]
  BY DEF Row
<1>4. NewItem \notin DOMAIN items /\ NewItem \in 1..last'.item /\ NewItem \notin 1..last.item
      /\ DOMAIN items' \subseteq 1..last'.item
  BY <1>1, <1>2, <1>3
<1>5. ItemsOK'
  BY <1>3, <1>4 DEF TypeInv, RowsOK, ItemsOK
<1>6. VersOK'
  BY <1>3, <1>4 DEF TypeInv, RowsOK, VersOK, disk
<1>7. IdsOK' /\ ChatsOK' /\ DiskOK'
  BY <1>2, <1>4 DEF TypeInv, RowsOK, IdsOK, ChatsOK, DiskOK, disk
<1>8. Evolve
  BY <1>2, <1>3, <1>4 DEF TypeInv, RowsOK, IdsOK, Evolve
<1>. QED  BY <1>3, <1>4, <1>5, <1>6, <1>7, <1>8 DEF RowsOK

LEMMA Creates ==
  ASSUME TypeInv, NEW p \in Procs, CreateInsert(p)
  PROVE  TypeInv'
<1>. DEFINE r == loc[p]
            kind == IF r.handle = None THEN "preset" ELSE "character"
            row == [kind |-> kind, handle |-> r.handle, cur |-> None, hash |-> None]
            s == [r EXCEPT !.item = NewItem, !.num = 1, !.handle = None]
<1>0. Local(r) /\ At(pc[p], r)
  BY DEF TypeInv, Fits
<1>1. pc[p] = "create.insert" /\ UNCHANGED <<vers, chats, personas, disk, budget>>
  BY DEF CreateInsert
<1>2. CASE r.handle # None /\ HandleTaken(r.handle)
  BY <1>1, <1>2, Throws DEF CreateInsert, tables
<1>3. CASE ~(r.handle # None /\ HandleTaken(r.handle))
  <2>1. Counts("item") /\ items' = Row(items, NewItem, row) /\ Goto(p, "create.version", s)
    BY <1>3 DEF CreateInsert
  <2>2. /\ row \in [kind : Kinds, handle : Handles \cup {None}, cur : {None}, hash : Hash]
        /\ row.kind = "preset" => row.handle = None
    BY <1>0 DEF Local, Kinds, Hash
  <2>3. RowsOK' /\ DiskOK' /\ Evolve /\ NewItem \in 1..last'.item
    <3>. HIDE DEF row
    <3>. QED  BY <1>1, <2>1, <2>2, NewItemRow
  <2>4. ProcsOK' /\ Others(p) /\ pc'[p] = "create.version" /\ loc'[p] = s
    <3>. HIDE DEF s
    <3>. QED  BY <1>1, <2>1, Going
  <2>5. s.text = r.text /\ s.num = 1 /\ s.handle = None
    BY <1>0 DEF Local
  <2>6. Local(loc[p])'
    <3>1. 1..last.ver \subseteq 1..last'.ver /\ 1..last.chat \subseteq 1..last'.chat
      BY <2>3 DEF Evolve, RowsOK, IdsOK, TypeInv
    <3>2. s \in [item : {NewItem}, cur : {None} \cup 1..last.ver,
                 ver : {None} \cup 1..last.ver, num : Nat, text : Texts \cup Cards \cup {None},
                 handle : {None}, avatar : PngCards \cup {None},
                 card : Cards \cup {None}, files : Seq(Files), chat : {None} \cup 1..last.chat,
                 todo : {s.todo}, links : {s.links}]
      BY <1>0 DEF Local
    <3>. HIDE DEF s
    <3>. QED  BY <2>3, <2>4, <3>1, <3>2 DEF Local
  <2>7. At(pc[p], loc[p])'
    <3>1. loc'[p].text \in Texts /\ loc'[p].num = 1 /\ loc'[p].handle = None
      BY <1>0, <1>1, <2>4, <2>5 DEF At, Edits
    <3>. QED  BY <2>4, <3>1 DEF At, Edits, Numbers, Stores, Brings, Renames
  <2>. QED  BY <2>3, <2>4, <2>6, <2>7, OneStep DEF Fits
<1>. QED  BY <1>2, <1>3

\* The version of a create or an edit is inserted, or the index throws.
LEMMA Inserts ==
  ASSUME TypeInv, NEW p \in Procs, CreateVersion(p) \/ UpdateMint(p) \/ UpdateInsert(p)
  PROVE  TypeInv'
<1>0. Local(loc[p]) /\ At(pc[p], loc[p])
  BY DEF TypeInv, Fits
<1>1. PICK l \in {"create.point", "update.point"} :
        /\ InsertVersion(p, l) /\ UNCHANGED <<items, chats, personas, disk, budget, torn>>
        /\ pc[p] \in {"create.version", "update.mint", "update.insert"}
        /\ pc[p] = "create.version" <=> l = "create.point"
  BY DEF CreateVersion, UpdateMint, UpdateInsert
<1>2. CASE VersionFits(loc[p].item, loc[p].num, loc[p].avatar)
  <2>. DEFINE r == [loc[p] EXCEPT !.ver = NewVer]
  <2>1. /\ vers' = Row(vers, NewVer, Version(loc[p].item, loc[p].num, loc[p].text, loc[p].avatar))
        /\ Counts("ver") /\ Goto(p, l, r) /\ UNCHANGED <<items, chats, personas, disk, budget>>
    BY <1>1, <1>2 DEF InsertVersion
  <2>2. loc[p].num # 0 /\ loc[p].text \in Texts /\ loc[p].text # None /\ loc[p].text \notin Cards
    BY <1>0, <1>1, Constants DEF At, Edits, Numbers
  <2>3. RowsOK' /\ DiskOK' /\ Evolve /\ NewVer \in DOMAIN vers' /\ NewVer \in 1..last'.ver
        /\ vers'[NewVer].of = loc[p].item
    BY <1>2, <2>1, <2>2, NewVersion
  <2>4. ProcsOK' /\ Others(p) /\ pc'[p] = l /\ loc'[p] = r
    <3>. HIDE DEF r
    <3>. QED  BY <2>1, Going
  <2>5. /\ r.item = loc[p].item /\ r.ver = NewVer /\ r.text = loc[p].text
        /\ r.handle = loc[p].handle
    BY <1>0 DEF Local
  <2>6. Local(loc[p])'
    <3>1. 1..last.item \subseteq 1..last'.item /\ 1..last.ver \subseteq 1..last'.ver
          /\ 1..last.chat \subseteq 1..last'.chat
      BY <2>3 DEF Evolve, RowsOK, IdsOK, TypeInv
    <3>. QED  BY <1>0, <2>3, <2>4, <3>1 DEF Local
  <2>7. At(pc[p], loc[p])'
    <3>1. Written(loc[p])'
      BY <2>3, <2>4, <2>5 DEF Written
    <3>2. l = "create.point" => loc'[p].handle = None
      BY <1>0, <1>1, <2>4, <2>5 DEF At
    <3>3. l = "update.point" /\ loc'[p].handle # None => KindIs(loc[p].item, "character")'
      BY <1>0, <1>1, <2>1, <2>4, <2>5 DEF At, Renames, KindIs
    <3>. QED
      BY <1>1, <2>4, <3>1, <3>2, <3>3 DEF At, Edits, Numbers, Stores, Brings, Renames
  <2>. QED  BY <2>3, <2>4, <2>6, <2>7, OneStep DEF Fits
<1>3. CASE ~VersionFits(loc[p].item, loc[p].num, loc[p].avatar)
  BY <1>1, <1>3, Throws DEF InsertVersion, tables
<1>. QED  BY <1>2, <1>3

\* Writes to identity rows: no row comes or goes, none changes its kind.
LEMMA KeepsItems ==
  ASSUME TypeInv, DOMAIN items' = DOMAIN items, ItemsOK',
         \A i \in DOMAIN items : items'[i].kind = items[i].kind,
         UNCHANGED <<last, vers, chats, personas, disk>>
  PROVE  RowsOK' /\ DiskOK' /\ Evolve
<1>1. IdsOK' /\ ChatsOK' /\ DiskOK'
  BY DEF TypeInv, RowsOK, IdsOK, ChatsOK, DiskOK, disk
<1>2. VersOK'
  BY DEF TypeInv, RowsOK, VersOK, disk
<1>3. Evolve
  BY DEF TypeInv, RowsOK, IdsOK, Evolve
<1>. QED  BY <1>1, <1>2, <1>3 DEF RowsOK

\* The columns of an identity row.
ItemRow == [kind : Kinds, handle : Handles \cup {None}, cur : DOMAIN vers \cup {None}, hash : Hash]

\* One identity row gets other columns, fit for its kind.
LEMMA OneItem ==
  ASSUME TypeInv, NEW i \in DOMAIN items, DOMAIN items' = DOMAIN items,
         \A j \in DOMAIN items : j # i => items'[j] = items[j],
         items'[i] \in ItemRow, items'[i].kind = items[i].kind,
         items'[i].kind = "preset" => items'[i].handle = None,
         items'[i].cur # None => vers[items'[i].cur].of = i,
         UNCHANGED <<last, vers, chats, personas, disk>>
  PROVE  RowsOK' /\ DiskOK' /\ Evolve
<1>1. ItemsOK'
  BY DEF TypeInv, RowsOK, ItemsOK, ItemRow
<1>2. \A j \in DOMAIN items : items'[j].kind = items[j].kind
  OBVIOUS
<1>. QED  BY <1>1, <1>2, KeepsItems

\* Pointers and handles.
LEMMA Points ==
  ASSUME TypeInv, NEW p \in Procs,
         CreatePoint(p) \/ UpdatePoint(p) \/ UpdateIdentity(p)
  PROVE  TypeInv'
<1>. DEFINE r == loc[p]
            i == r.item
<1>0. Local(r) /\ At(pc[p], r)
  BY DEF TypeInv, Fits
<1>1. Finish(p) /\ UNCHANGED <<last, vers, chats, personas, disk, budget>>
  BY DEF CreatePoint, UpdatePoint, UpdateIdentity, SetPointer
<1>2. i \in DOMAIN items =>
        /\ items[i] \in ItemRow
        /\ items[i].kind = "preset" => items[i].handle = None
        /\ items[i].cur # None => vers[items[i].cur].of = i
  BY DEF TypeInv, RowsOK, ItemsOK, ItemRow
<1>3. CASE items' = items
  BY <1>1, <1>3, Throws DEF tables
<1>4. CASE items' # items /\ (CreatePoint(p) \/ UpdatePoint(p))
  <2>. DEFINE h == IF r.handle = None THEN items[i].handle ELSE r.handle
  <2>1. i \in DOMAIN items /\ items' = [items EXCEPT ![i].cur = r.ver, ![i].handle = h]
    BY <1>4 DEF CreatePoint, UpdatePoint, SetPointer
  <2>2. r.ver \in DOMAIN vers /\ vers[r.ver].of = i
    BY <1>0, <1>4, <2>1 DEF At, Written, CreatePoint, UpdatePoint
  <2>3. r.handle # None => items[i].kind = "character"
    BY <1>0, <1>4, <2>1, <2>2 DEF At, KindIs, Renames, CreatePoint, UpdatePoint
  <2>4. h \in Handles \cup {None} /\ (items[i].kind = "preset" => h = None)
    BY <1>0, <1>2, <2>1, <2>3 DEF Local, ItemRow
  <2>5. RowsOK' /\ DiskOK' /\ Evolve
    <3>1. /\ DOMAIN items' = DOMAIN items /\ \A j \in DOMAIN items : j # i => items'[j] = items[j]
          /\ items'[i] = [items[i] EXCEPT !.cur = r.ver, !.handle = h]
      BY <2>1
    <3>2. /\ items'[i] \in ItemRow /\ items'[i].kind = items[i].kind
          /\ items'[i].handle = h /\ items'[i].cur = r.ver
      <4>. HIDE DEF h, r
      <4>. QED  BY <1>2, <2>1, <2>2, <2>4, <3>1 DEF ItemRow
    <3>. HIDE DEF h, r
    <3>. QED  BY <1>1, <2>1, <2>2, <2>4, <3>1, <3>2, OneItem
  <2>. QED  BY <1>1, <2>5, Ends
<1>5. CASE items' # items /\ UpdateIdentity(p)
  <2>1. i \in DOMAIN items /\ items' = [items EXCEPT ![i].handle = r.handle] /\ pc[p] = "update.identity"
    BY <1>5 DEF UpdateIdentity
  <2>2. r.handle \in Handles \cup {None} /\ (items[i].kind = "preset" => r.handle = None)
    BY <1>0, <2>1 DEF At, KindIs, Renames, Local
  <2>3. /\ DOMAIN items' = DOMAIN items /\ \A j \in DOMAIN items : j # i => items'[j] = items[j]
        /\ items'[i] = [items[i] EXCEPT !.handle = r.handle]
    BY <2>1
  <2>4. /\ items'[i] \in ItemRow /\ items'[i].kind = items[i].kind
        /\ items'[i].handle = r.handle /\ items'[i].cur = items[i].cur
    <3>. HIDE DEF r
    <3>. QED  BY <1>2, <2>1, <2>2, <2>3 DEF ItemRow
  <2>5. RowsOK' /\ DiskOK' /\ Evolve
    <3>. HIDE DEF r
    <3>. QED  BY <1>1, <1>2, <2>1, <2>2, <2>3, <2>4, OneItem
  <2>. QED  BY <1>1, <2>5, Ends
<1>. QED  BY <1>3, <1>4, <1>5

LEMMA Unpoints ==
  ASSUME TypeInv, NEW p \in Procs, RemoveUnpoint(p)
  PROVE  TypeInv'
<1>. DEFINE r == loc[p]
            i == r.item
<1>0. Local(r) /\ At(pc[p], r)
  BY DEF TypeInv, Fits
<1>1. /\ Goto(p, "remove.delete", r) /\ UNCHANGED <<last, vers, chats, personas, disk, budget>>
      /\ items' = IF i \in DOMAIN items THEN [items EXCEPT ![i].cur = None] ELSE items
  BY DEF RemoveUnpoint
<1>2. RowsOK' /\ DiskOK' /\ Evolve
  <2>1. CASE i \in DOMAIN items
    <3>1. /\ DOMAIN items' = DOMAIN items /\ \A j \in DOMAIN items : j # i => items'[j] = items[j]
          /\ items'[i] = [items[i] EXCEPT !.cur = None]
      BY <1>1, <2>1
    <3>2. items[i] \in ItemRow /\ (items[i].kind = "preset" => items[i].handle = None)
      BY <2>1 DEF TypeInv, RowsOK, ItemsOK, ItemRow
    <3>3. /\ items'[i] \in ItemRow /\ items'[i].kind = items[i].kind
          /\ items'[i].handle = items[i].handle /\ items'[i].cur = None
      BY <3>1, <3>2 DEF ItemRow
    <3>. HIDE DEF r
    <3>. QED  BY <1>1, <2>1, <3>1, <3>2, <3>3, OneItem
  <2>2. CASE i \notin DOMAIN items
    BY <1>1, <2>2, KeepsItems DEF TypeInv, RowsOK, ItemsOK
  <2>. QED  BY <2>1, <2>2
<1>3. ProcsOK' /\ Others(p) /\ pc'[p] = "remove.delete" /\ loc'[p] = r
  BY <1>1, Going
<1>4. Fits(p)'
  BY <1>0, <1>1, <1>3 DEF Fits, Local, At, Edits, Numbers, Stores, Brings, Renames
<1>. QED  BY <1>2, <1>3, <1>4, OneStep

\* Versions that are written in place.
LEMMA KeepsVers ==
  ASSUME TypeInv, DOMAIN vers' = DOMAIN vers, VersOK', DiskOK',
         \A v \in DOMAIN vers : vers'[v].of = vers[v].of,
         UNCHANGED <<last, items, chats>>
  PROVE  RowsOK' /\ Evolve
<1>1. IdsOK' /\ ChatsOK'
  BY DEF TypeInv, RowsOK, IdsOK, ChatsOK
<1>2. ItemsOK'
  BY DEF TypeInv, RowsOK, ItemsOK
<1>3. Evolve
  BY DEF TypeInv, RowsOK, IdsOK, Evolve
<1>. QED  BY <1>1, <1>2, <1>3 DEF RowsOK

\* The columns of a version.
VersRow == [of : DOMAIN items, num : Nat \ {0}, text : Texts \cup Cards,
            avatar : assets \cup {None}, lore : Nat]

\* One version gets other columns, and keeps its owner.
LEMMA OneVersion ==
  ASSUME TypeInv, NEW v \in DOMAIN vers, DOMAIN vers' = DOMAIN vers,
         \A w \in DOMAIN vers : w # v => vers'[w] = vers[w],
         vers'[v] \in VersRow, vers'[v].of = vers[v].of,
         vers'[v].text \in Cards => vers[v].text \in Cards,
         UNCHANGED <<last, items, chats, personas, disk>>
  PROVE  RowsOK' /\ DiskOK' /\ Evolve
<1>1. VersOK'
  BY DEF TypeInv, RowsOK, VersOK, VersRow, disk
<1>2. DiskOK'
  BY DEF TypeInv, DiskOK, disk
<1>3. \A w \in DOMAIN vers : vers'[w].of = vers[w].of
  OBVIOUS
<1>. QED  BY <1>1, <1>2, <1>3, KeepsVers

LEMMA Mutates ==
  ASSUME TypeInv, NEW p \in Procs, UpdateMutate(p)
  PROVE  TypeInv'
<1>. DEFINE r == loc[p]
            v == r.cur
            next == IF r.handle = None THEN "idle" ELSE "update.identity"
            a == IF r.avatar = None THEN vers[v].avatar ELSE r.avatar
            fits == r.avatar \in assets \cup {None}
<1>0. Local(r) /\ At(pc[p], r)
  BY DEF TypeInv, Fits
<1>1. /\ pc[p] = "update.mutate"
      /\ vers' = IF v \in DOMAIN vers /\ fits
                 THEN [vers EXCEPT ![v].text = r.text, ![v].avatar = a] ELSE vers
      /\ IF fits THEN Goto(p, next, IF next = "idle" THEN Idle ELSE r) ELSE Finish(p)
      /\ UNCHANGED <<last, items, chats, personas, disk, budget>>
  BY DEF UpdateMutate
<1>2. r.text \in Texts /\ r.text \notin Cards
  BY <1>0, <1>1, Constants DEF At, Edits
<1>3. RowsOK' /\ DiskOK' /\ Evolve
  <2>1. CASE v \in DOMAIN vers /\ fits
    <3>1. /\ DOMAIN vers' = DOMAIN vers /\ \A w \in DOMAIN vers : w # v => vers'[w] = vers[w]
          /\ vers'[v] = [vers[v] EXCEPT !.text = r.text, !.avatar = a]
      BY <1>1, <2>1
    <3>2. vers[v] \in VersRow
      BY <2>1 DEF TypeInv, RowsOK, VersOK, VersRow
    <3>3. a \in assets \cup {None}
      BY <2>1, <3>2 DEF VersRow
    <3>4. vers'[v] \in VersRow /\ vers'[v].of = vers[v].of /\ vers'[v].text = r.text
      <4>. HIDE DEF r, a, v
      <4>. QED  BY <1>2, <2>1, <3>1, <3>2, <3>3 DEF VersRow
    <3>. HIDE DEF r, v
    <3>. QED  BY <1>1, <1>2, <2>1, <3>1, <3>4, OneVersion
  <2>2. CASE ~(v \in DOMAIN vers /\ fits)
    <3>1. vers' = vers
      BY <1>1, <2>2
    <3>2. VersOK' /\ DiskOK'
      BY <1>1, <3>1 DEF TypeInv, RowsOK, VersOK, DiskOK, disk
    <3>. QED  BY <1>1, <3>1, <3>2, KeepsVers
  <2>. QED  BY <2>1, <2>2
<1>4. CASE fits /\ next # "idle"
  <2>1. ProcsOK' /\ Others(p) /\ pc'[p] = "update.identity" /\ loc'[p] = r
    BY <1>1, <1>4, Going
  <2>2. Local(loc[p])'
    BY <1>0, <1>1, <2>1 DEF Local
  <2>3. KindIs(r.item, "character")'
    BY <1>0, <1>1, <1>4, <2>1 DEF At, KindIs, Renames
  <2>4. At(pc[p], loc[p])'
    BY <2>1, <2>3 DEF At, Edits, Numbers, Stores, Brings, Renames
  <2>. QED  BY <1>3, <2>1, <2>2, <2>4, OneStep DEF Fits
<1>5. CASE ~(fits /\ next # "idle")
  BY <1>1, <1>3, <1>5, Ends DEF Finish
<1>. QED  BY <1>4, <1>5

\* An item goes with all its versions, none of which a chat pins.
LEMMA Deletes ==
  ASSUME TypeInv, NEW p \in Procs, RemoveDelete(p)
  PROVE  TypeInv'
<1>. DEFINE i == loc[p].item
<1>1. Finish(p) /\ UNCHANGED <<last, chats, personas, disk, budget>>
  BY DEF RemoveDelete
<1>2. CASE \E v \in VersionsOf(i) : Pinned(v)
  BY <1>1, <1>2, Throws DEF RemoveDelete, tables
<1>3. CASE ~\E v \in VersionsOf(i) : Pinned(v)
  <2>1. /\ DOMAIN items' = DOMAIN items \ {i} /\ \A j \in DOMAIN items' : items'[j] = items[j]
        /\ DOMAIN vers' = DOMAIN vers \ VersionsOf(i)
        /\ \A v \in DOMAIN vers' : vers'[v] = vers[v]
    BY <1>3 DEF RemoveDelete, Without
  <2>2. \A v \in DOMAIN vers : v \in DOMAIN vers' <=> vers[v].of # i
    BY <2>1 DEF VersionsOf
  <2>3. IdsOK' /\ DiskOK'
    BY <1>1, <2>1 DEF TypeInv, RowsOK, IdsOK, DiskOK, disk
  <2>4. ItemsOK'
    <3>. SUFFICES ASSUME NEW j \in DOMAIN items'
         PROVE  /\ items[j] \in [kind : Kinds, handle : Handles \cup {None},
                                 cur : DOMAIN vers' \cup {None}, hash : Hash]
                /\ items[j].kind = "preset" => items[j].handle = None
                /\ items[j].cur # None => vers'[items[j].cur].of = j
      BY <2>1 DEF ItemsOK
    <3>1. /\ j \in DOMAIN items /\ j # i /\ items[j] \in ItemRow
          /\ items[j].kind = "preset" => items[j].handle = None
          /\ items[j].cur # None => vers[items[j].cur].of = j
      BY <2>1 DEF TypeInv, RowsOK, ItemsOK, ItemRow
    <3>2. items[j].cur \in DOMAIN vers' \cup {None}
      BY <2>2, <3>1 DEF ItemRow
    <3>. QED  BY <2>1, <3>1, <3>2, Constants DEF ItemRow
  <2>5. VersOK'
    BY <1>1, <2>1, <2>2 DEF TypeInv, RowsOK, VersOK, disk
  <2>6. ChatsOK'
    <3>. SUFFICES ASSUME NEW c \in DOMAIN chats
         PROVE  chats[c].ver \in DOMAIN vers' /\ chats[c].preset \in DOMAIN vers' \cup {None}
      BY <1>1 DEF TypeInv, RowsOK, ChatsOK
    <3>. QED  BY <1>3, <2>1 DEF TypeInv, RowsOK, ChatsOK, Pinned, VersionsOf
  <2>7. Evolve
    BY <1>1, <2>1, <2>2 DEF TypeInv, RowsOK, IdsOK, Evolve
  <2>8. RowsOK'
    BY <2>3, <2>4, <2>5, <2>6 DEF RowsOK
  <2>. QED  BY <1>1, <2>3, <2>7, <2>8, Ends
<1>. QED  BY <1>2, <1>3

\* Writes to the chats only.
LEMMA KeepsLibrary ==
  ASSUME TypeInv, ChatsOK', last' \in [item : Nat, ver : Nat, chat : Nat],
         last'.item = last.item, last'.ver = last.ver, last.chat <= last'.chat,
         DOMAIN chats' \subseteq 1..last'.chat,
         UNCHANGED <<items, vers, personas, disk>>
  PROVE  RowsOK' /\ DiskOK' /\ Evolve
<1>1. IdsOK' /\ DiskOK'
  BY DEF TypeInv, RowsOK, IdsOK, DiskOK, disk
<1>2. ItemsOK' /\ VersOK'
  BY DEF TypeInv, RowsOK, ItemsOK, VersOK, disk
<1>3. Evolve
  BY DEF TypeInv, RowsOK, IdsOK, Evolve
<1>. QED  BY <1>1, <1>2, <1>3 DEF RowsOK

\* The columns of a chat.
ChatRow == [ver : DOMAIN vers, preset : DOMAIN vers \cup {None}, file : Files \cup {None},
            parent : DOMAIN chats \cup {None}, have : Nat,
            seen : Texts \cup Cards \cup {None}, config : Texts \cup {None}]

\* A new chat.
LEMMA NewChatRow ==
  ASSUME TypeInv, NEW r, r \in ChatRow, r.preset = None => r.config = None,
         Counts("chat"), chats' = Row(chats, NewChat, r),
         UNCHANGED <<items, vers, personas, disk>>
  PROVE  /\ RowsOK' /\ DiskOK' /\ Evolve /\ NewChat \in 1..last'.chat
         /\ NewChat \notin DOMAIN chats
<1>1. last \in [item : Nat, ver : Nat, chat : Nat] /\ DOMAIN chats \subseteq 1..last.chat
  BY DEF TypeInv, RowsOK, IdsOK
<1>2. /\ last' \in [item : Nat, ver : Nat, chat : Nat]
      /\ last'.item = last.item /\ last'.ver = last.ver /\ last'.chat = NewChat
      /\ NewChat = last.chat + 1 /\ last.chat \in Nat
  BY <1>1 DEF Counts, NewChat
<1>3. /\ DOMAIN chats' = DOMAIN chats \cup {NewChat}
      /\ chats'[NewChat] = r /\ \A c \in DOMAIN chats : c # NewChat => chats'[c] = chats[c]
  BY DEF Row
<1>4. NewChat \notin DOMAIN chats /\ NewChat \in 1..last'.chat /\ last.chat <= last'.chat
      /\ DOMAIN chats' \subseteq 1..last'.chat
  BY <1>1, <1>2, <1>3
<1>5. ChatsOK'
  BY <1>3, <1>4 DEF TypeInv, RowsOK, ChatsOK, ChatRow
<1>. QED  BY <1>2, <1>4, <1>5, KeepsLibrary

\* What a chat sees of the version it pins.
LEMMA SeenIs ==
  ASSUME TypeInv, NEW v \in DOMAIN vers \cup {None}
  PROVE  /\ Seen(v) \in Texts \cup Cards \cup {None}
         /\ v = None => Seen(v) = None
         /\ Seen(v) # None => v \in DOMAIN vers /\ Seen(v) = vers[v].text /\ ~Mutating(v)
<1>1. v \in DOMAIN vers => vers[v].text \in Texts \cup Cards
  BY DEF TypeInv, RowsOK, VersOK
<1>. QED  BY <1>1 DEF Seen

LEMMA OpenInserts ==
  ASSUME TypeInv, NEW p \in Procs, OpenInsert(p)
  PROVE  TypeInv'
<1>. DEFINE r == loc[p]
            c == [ver |-> r.ver, preset |-> r.cur, file |-> None, parent |-> None,
                  have |-> 0, seen |-> Seen(r.ver), config |-> Seen(r.cur)]
<1>0. Local(r) /\ At(pc[p], r)
  BY DEF TypeInv, Fits
<1>1. /\ pc[p] = "open.insert" /\ Finish(p)
      /\ UNCHANGED <<items, vers, personas, disk, budget>>
  BY DEF OpenInsert
<1>2. CASE {r.ver, r.cur} \subseteq DOMAIN vers \cup {None}
  <2>1. Counts("chat") /\ chats' = Row(chats, NewChat, c)
    BY <1>2 DEF OpenInsert
  <2>2. r.ver \in DOMAIN vers /\ r.cur \in DOMAIN vers \cup {None}
    BY <1>0, <1>1, <1>2 DEF At
  <2>3. Seen(r.cur) \in Texts \cup {None} /\ (r.cur = None => Seen(r.cur) = None)
    <3>1. r.cur \in DOMAIN vers => vers[r.cur].text \in Texts
      <4>1. r.cur \in DOMAIN vers => items[vers[r.cur].of].kind = "preset"
        BY <1>0, <1>1 DEF At
      <4>. QED  BY <4>1 DEF TypeInv, RowsOK, VersOK
    <3>. QED  BY <2>2, <3>1, SeenIs
  <2>4. Seen(r.ver) \in Texts \cup Cards \cup {None}
    BY <2>2, SeenIs
  <2>5. c \in ChatRow /\ (c.preset = None => c.config = None)
    <3>. HIDE DEF r
    <3>. QED  BY <2>2, <2>3, <2>4 DEF ChatRow
  <2>6. RowsOK' /\ DiskOK' /\ Evolve
    <3>. HIDE DEF c
    <3>. QED  BY <1>1, <2>1, <2>5, NewChatRow
  <2>. QED  BY <1>1, <2>6, Ends
<1>3. CASE ~({r.ver, r.cur} \subseteq DOMAIN vers \cup {None})
  BY <1>1, <1>3, Throws DEF OpenInsert, tables
<1>. QED  BY <1>2, <1>3

\* A request that is one statement: no process moves.
LEMMA OneShot ==
  ASSUME TypeInv, NEW p \in Procs, NEW op, Request(p, op), UNCHANGED <<pc, loc>>,
         RowsOK', DiskOK', Evolve
  PROVE  TypeInv'
<1>1. mix.ops \in Nat
  BY LibraryAssumption DEF TypeInv, ProcsOK
<1>2. ProcsOK'
  BY <1>1 DEF TypeInv, ProcsOK, Request
<1>3. \A q \in Procs : Fits(q)'
  BY StillFits DEF TypeInv
<1>. QED  BY <1>2, <1>3 DEF TypeInv

LEMMA Removes ==
  ASSUME TypeInv, NEW p \in Procs, ChatRemove(p)
  PROVE  TypeInv'
<1>1. PICK c \in DOMAIN chats :
        /\ Request(p, "delete")
        /\ chats' = [d \in DOMAIN chats \ {c} |->
                        [chats[d] EXCEPT !.parent = IF @ = c THEN None ELSE @]]
        /\ UNCHANGED <<last, items, vers, personas, disk, pc, loc>>
  BY DEF ChatRemove
<1>2. DOMAIN chats' = DOMAIN chats \ {c}
  BY <1>1
<1>3. ChatsOK'
  <2>. SUFFICES ASSUME NEW d \in DOMAIN chats'
       PROVE  /\ chats'[d] \in [ver : DOMAIN vers, preset : DOMAIN vers \cup {None},
                                file : Files \cup {None}, parent : DOMAIN chats' \cup {None},
                                have : Nat, seen : Texts \cup Cards \cup {None},
                                config : Texts \cup {None}]
              /\ chats'[d].preset = None => chats'[d].config = None
    BY <1>1 DEF ChatsOK
  <2>1. chats[d] \in ChatRow /\ (chats[d].preset = None => chats[d].config = None)
    BY <1>2 DEF TypeInv, RowsOK, ChatsOK, ChatRow
  <2>2. chats'[d] = [chats[d] EXCEPT !.parent = IF chats[d].parent = c THEN None ELSE chats[d].parent]
    BY <1>1, <1>2
  <2>. QED  BY <1>2, <2>1, <2>2 DEF ChatRow
<1>4. RowsOK' /\ DiskOK' /\ Evolve
  BY <1>1, <1>2, <1>3, KeepsLibrary DEF TypeInv, RowsOK, IdsOK
<1>. QED  BY <1>1, <1>4, OneShot

LEMMA VersionStepsKeep ==
  ASSUME TypeInv, NEW p \in Procs, VersionSteps(p)
  PROVE  TypeInv'
BY Starts, UpdateReads, ReadsOn, Forks, Creates, Inserts, Points, Unpoints, Mutates, Deletes,
   OpenInserts, Removes DEF VersionSteps

-----------------------------------------------------------------------------
(***************************************************************************)
(* Assets, personas and what sweeps them.                                  *)
(***************************************************************************)
\* Writes to the files and the personas only.
LEMMA KeepsRows ==
  ASSUME TypeInv, DiskOK', assets \subseteq assets', UNCHANGED <<items, vers, chats, last>>
  PROVE  RowsOK' /\ Evolve
<1>1. VersOK'
  BY DEF TypeInv, RowsOK, VersOK
<1>2. IdsOK' /\ ItemsOK' /\ ChatsOK'
  BY DEF TypeInv, RowsOK, IdsOK, ItemsOK, ChatsOK
<1>3. Evolve
  BY DEF TypeInv, RowsOK, IdsOK, Evolve
<1>. QED  BY <1>1, <1>2, <1>3 DEF RowsOK

LEMMA AssetReads ==
  ASSUME TypeInv, NEW p \in Procs,
         BackfillRead(p) \/ GcStart(p) \/ GcEnd(p) \/ RebuildRead(p)
  PROVE  TypeInv'
<1>1. CASE BackfillRead(p)
  <2>1. PICK k \in PngCards \cap mix.cards, i \in DOMAIN items :
          /\ items[i].cur # None
          /\ Begin(p, "backfill", "backfill.put",
                   [Idle EXCEPT !.ver = items[i].cur, !.card = k, !.text = items[i].hash])
          /\ UNCHANGED <<tables, disk, history>>
    BY <1>1 DEF BackfillRead
  <2>. DEFINE r == [Idle EXCEPT !.ver = items[i].cur, !.card = k, !.text = items[i].hash]
  <2>2. items[i].hash \in Cards \cup {None} /\ items[i].cur \in {None} \cup 1..last.ver
    BY ReadIds DEF TypeInv, RowsOK, ItemsOK, Hash
  <2>3. Local(r) /\ At("backfill.put", r)
    BY <2>1, <2>2, Constants, ReadIds DEF Local, Idle, At, Edits, Numbers, Stores, Brings, Renames
  <2>. QED  BY <2>1, <2>3, Opens
<1>2. CASE GcStart(p)
  <2>. DEFINE r == [Idle EXCEPT !.todo = {h \in DOMAIN blobs : blobs[h] = "old"} \ Referenced]
  <2>1. Begin(p, "gc", "gc.stat", r) /\ UNCHANGED <<tables, disk, history>>
    BY <1>2 DEF GcStart
  <2>2. Local(r) /\ At("gc.stat", r)
    BY Constants, ReadIds DEF Local, Idle, At, Edits, Numbers, Stores, Brings, Renames
  <2>. HIDE DEF r
  <2>. QED  BY <2>1, <2>2, Opens
<1>3. CASE GcEnd(p)
  BY <1>3, Throws DEF GcEnd
<1>4. CASE RebuildRead(p)
  <2>1. PICK h \in DOMAIN blobs \ assets :
          /\ Begin(p, "rebuild", "rebuild.row", [Idle EXCEPT !.card = h])
          /\ UNCHANGED <<tables, disk, history>>
    BY <1>4 DEF RebuildRead
  <2>. DEFINE r == [Idle EXCEPT !.card = h]
  <2>2. h \in PngCards
    BY DEF TypeInv, DiskOK
  <2>3. Local(r) /\ At("rebuild.row", r)
    BY <2>2, Constants, ReadIds DEF Local, Idle, At, Edits, Numbers, Stores, Brings, Renames
  <2>. QED  BY <2>1, <2>3, Opens
<1>. QED  BY <1>1, <1>2, <1>3, <1>4

\* A process goes on with the same locals after a write to the files.
LEMMA StoresOn ==
  ASSUME TypeInv, NEW p \in Procs, NEW l, Goto(p, l, loc[p]), At(l, loc[p]), DiskOK',
         assets \subseteq assets', UNCHANGED <<items, vers, chats, last, budget>>
  PROVE  TypeInv'
<1>1. RowsOK' /\ Evolve
  BY KeepsRows
<1>2. ProcsOK' /\ Others(p) /\ pc'[p] = l /\ loc'[p] = loc[p]
  BY Going
<1>3. Local(loc[p])'
  BY <1>2 DEF TypeInv, Fits, Local
<1>4. At(pc[p], loc[p])'
  BY <1>2 DEF At, KindIs, Written
<1>. QED  BY <1>1, <1>2, <1>3, <1>4, OneStep DEF Fits

\* Bytes and rows are stored, and an avatar is linked.
LEMMA StoresAvatar ==
  ASSUME TypeInv, NEW p \in Procs,
         BackfillPut(p) \/ BackfillRow(p) \/ RebuildRow(p) \/ ImportPut(p) \/ ImportRow(p)
  PROVE  TypeInv'
<1>. DEFINE r == loc[p]
<1>0. Local(r) /\ At(pc[p], r)
  BY DEF TypeInv, Fits
<1>1. pc[p] \in {"backfill.put", "backfill.row", "rebuild.row", "import.put", "import.row"}
      /\ r.card \in PngCards
  BY <1>0 DEF At, Stores, BackfillPut, BackfillRow, RebuildRow, ImportPut, ImportRow
<1>2. DiskOK' /\ assets \subseteq assets'
  BY <1>1 DEF BackfillPut, BackfillRow, RebuildRow, ImportPut, ImportRow, PutBytes, StoreRow, Row,
              TypeInv, DiskOK, tables
<1>3. UNCHANGED <<items, vers, chats, last, budget>>
  BY DEF BackfillPut, BackfillRow, RebuildRow, ImportPut, ImportRow, tables
<1>4. CASE RebuildRow(p)
  <2>1. RowsOK' /\ Evolve
    BY <1>2, <1>3, KeepsRows
  <2>. QED  BY <1>2, <1>3, <1>4, <2>1, Ends DEF RebuildRow
<1>5. CASE ~RebuildRow(p)
  <2>1. PICK l \in {"backfill.row", "backfill.link", "import.row", "import.read"} :
          /\ Goto(p, l, loc[p])
          /\ l \in {"import.row", "import.read"} <=> pc[p] \in {"import.put", "import.row"}
    BY <1>5 DEF BackfillPut, BackfillRow, ImportPut, ImportRow, Stores
  <2>2. At(l, loc[p])
    BY <1>0, <1>1, <2>1 DEF At, Edits, Numbers, Stores, Brings, Renames
  <2>. QED  BY <1>2, <1>3, <2>1, <2>2, StoresOn
<1>. QED  BY <1>4, <1>5

LEMMA Links ==
  ASSUME TypeInv, NEW p \in Procs, BackfillLink(p)
  PROVE  TypeInv'
<1>. DEFINE r == loc[p]
            v == r.ver
            link == r.text \in {None, r.card} /\ v \in DOMAIN vers /\ r.card \in assets
<1>1. /\ Finish(p) /\ UNCHANGED <<last, items, chats, personas, disk, budget>>
      /\ vers' = IF link THEN [vers EXCEPT ![v].avatar = r.card] ELSE vers
  BY DEF BackfillLink
<1>2. CASE link
  <2>1. /\ DOMAIN vers' = DOMAIN vers /\ \A w \in DOMAIN vers : w # v => vers'[w] = vers[w]
        /\ vers'[v] = [vers[v] EXCEPT !.avatar = r.card]
    BY <1>1, <1>2
  <2>2. vers[v] \in VersRow
    BY <1>2 DEF TypeInv, RowsOK, VersOK, VersRow
  <2>3. vers'[v] \in VersRow /\ vers'[v].of = vers[v].of /\ vers'[v].text = vers[v].text
    BY <1>2, <2>1, <2>2 DEF VersRow
  <2>4. RowsOK' /\ DiskOK' /\ Evolve
    <3>. HIDE DEF r, v
    <3>. QED  BY <1>1, <1>2, <2>1, <2>3, OneVersion
  <2>. QED  BY <1>1, <2>4, Ends
<1>3. CASE ~link
  BY <1>1, <1>3, Throws DEF tables
<1>. QED  BY <1>2, <1>3

\* The sweep removes a file, then its row and what points to it.
LEMMA Sweeps ==
  ASSUME TypeInv, NEW p \in Procs, GcRemove(p) \/ GcRow(p)
  PROVE  TypeInv'
<1>. DEFINE r == loc[p]
            h == CHOOSE x \in r.todo : TRUE
<1>0. Local(r) /\ At(pc[p], r)
  BY DEF TypeInv, Fits
<1>1. CASE GcRemove(p)
  <2>. DEFINE rest == [r EXCEPT !.todo = @ \ {h}]
              gone == [rest EXCEPT !.card = h]
  <2>1. UNCHANGED <<tables, assets, budget>>
    BY <1>1 DEF GcRemove
  <2>2. CASE h \in DOMAIN blobs /\ blobs[h] = "old"
    <3>1. blobs' = Without(blobs, {h}) /\ Goto(p, "gc.row", gone)
      BY <1>1, <2>2 DEF GcRemove
    <3>2. h \in PngCards
      BY <2>2 DEF TypeInv, DiskOK
    <3>3. DiskOK'
      BY <2>1, <3>1 DEF TypeInv, DiskOK, Without, tables
    <3>4. RowsOK' /\ Evolve
      BY <2>1, <3>3, KeepsRows DEF tables
    <3>5. ProcsOK' /\ Others(p) /\ pc'[p] = "gc.row" /\ loc'[p] = gone
      <4>. HIDE DEF gone
      <4>. QED  BY <2>1, <3>1, Going
    <3>6. Local(gone) /\ gone.card = h
      <4>. HIDE DEF h
      <4>. QED  BY <1>0, <3>2, Constants DEF Local
    <3>7. Local(loc[p])' /\ At(pc[p], loc[p])'
      <4>. HIDE DEF gone, h
      <4>. QED  BY <2>1, <3>2, <3>5, <3>6 DEF Local, At, tables, Edits, Numbers, Stores, Brings, Renames
    <3>. QED  BY <3>3, <3>4, <3>5, <3>7, OneStep DEF Fits
  <2>3. CASE ~(h \in DOMAIN blobs /\ blobs[h] = "old")
    <3>1. Goto(p, "gc.stat", rest) /\ UNCHANGED <<tables, disk, budget>>
      BY <1>1, <2>1, <2>3 DEF GcRemove, disk
    <3>2. Local(rest) /\ At("gc.stat", rest)
      BY <1>0 DEF Local, At, Edits, Numbers, Stores, Brings, Renames
    <3>. HIDE DEF rest
    <3>. QED  BY <3>1, <3>2, GoesOn
  <2>. QED  BY <2>2, <2>3
<1>2. CASE GcRow(p)
  <2>. DEFINE k == r.card
              s == [r EXCEPT !.card = None]
  <2>1. /\ assets' = assets \ {k} /\ Goto(p, "gc.stat", s)
        /\ vers' = [v \in DOMAIN vers |-> [vers[v] EXCEPT !.avatar = IF @ = k THEN None ELSE @]]
        /\ personas' = [u \in DOMAIN personas |-> IF personas[u] = k THEN None ELSE personas[u]]
        /\ UNCHANGED <<last, items, chats, blobs, budget>>
    BY <1>2 DEF GcRow
  <2>2. DiskOK'
    BY <2>1 DEF TypeInv, DiskOK
  <2>3. \A v \in DOMAIN vers :
           /\ vers'[v] \in [of : DOMAIN items, num : Nat \ {0}, text : Texts \cup Cards,
                            avatar : assets' \cup {None}, lore : Nat]
           /\ vers'[v].of = vers[v].of /\ vers'[v].text = vers[v].text
    <3>. SUFFICES ASSUME NEW v \in DOMAIN vers
         PROVE  /\ vers'[v] \in [of : DOMAIN items, num : Nat \ {0}, text : Texts \cup Cards,
                                 avatar : assets' \cup {None}, lore : Nat]
                /\ vers'[v].of = vers[v].of /\ vers'[v].text = vers[v].text
      OBVIOUS
    <3>. DEFINE a == IF vers[v].avatar = k THEN None ELSE vers[v].avatar
    <3>1. vers'[v] = [vers[v] EXCEPT !.avatar = a]
      BY <2>1
    <3>2. vers[v] \in VersRow
      BY DEF TypeInv, RowsOK, VersOK, VersRow
    <3>3. a \in assets' \cup {None}
      BY <2>1, <3>2 DEF VersRow
    <3>. HIDE DEF a
    <3>. QED  BY <3>1, <3>2, <3>3 DEF VersRow
  <2>4. DOMAIN vers' = DOMAIN vers
    BY <2>1
  <2>5. VersOK'
    BY <2>1, <2>3, <2>4 DEF TypeInv, RowsOK, VersOK
  <2>6. RowsOK' /\ Evolve
    BY <2>1, <2>2, <2>3, <2>4, <2>5, KeepsVers
  <2>7. ProcsOK' /\ Others(p) /\ pc'[p] = "gc.stat" /\ loc'[p] = s
    BY <2>1, Going
  <2>8. Local(s)
    BY <1>0 DEF Local
  <2>9. Local(loc[p])' /\ At(pc[p], loc[p])'
    <3>. HIDE DEF s
    <3>. QED  BY <2>1, <2>7, <2>8 DEF Local, At, Edits, Numbers, Stores, Brings, Renames
  <2>. QED  BY <2>2, <2>6, <2>7, <2>9, OneStep DEF Fits
<1>. QED  BY <1>1, <1>2

\* Personas are written in one statement.
LEMMA PersonaWrites ==
  ASSUME TypeInv, NEW p \in Procs, PersonaCreate(p) \/ PersonaUpdate(p) \/ PersonaRemove(p)
  PROVE  TypeInv'
<1>1. CASE PersonaRemove(p)
  <2>1. PICK u \in DOMAIN personas :
          /\ Request(p, "persona") /\ personas' = Without(personas, {u})
          /\ UNCHANGED <<last, items, vers, chats, disk, pc, loc, history>>
    BY <1>1 DEF PersonaRemove
  <2>2. DiskOK' /\ assets' = assets
    BY <2>1 DEF TypeInv, DiskOK, Without, disk
  <2>. QED  BY <2>1, <2>2, KeepsRows, OneShot
<1>2. CASE PersonaCreate(p) \/ PersonaUpdate(p)
  <2>1. PICK u \in Personas, a \in {None} \cup assets :
          /\ Request(p, "persona") /\ personas' = Row(personas, u, a)
          /\ UNCHANGED <<last, items, vers, chats, disk, pc, loc>>
    BY <1>2 DEF PersonaCreate, PersonaUpdate, PersonaWrite, TypeInv, DiskOK
  <2>2. DiskOK' /\ assets' = assets
    BY <2>1 DEF TypeInv, DiskOK, Row, disk
  <2>. QED  BY <2>1, <2>2, KeepsRows, OneShot
<1>. QED  BY <1>1, <1>2

LEMMA AssetStepsKeep ==
  ASSUME TypeInv, NEW p \in Procs, AssetSteps(p)
  PROVE  TypeInv'
BY AssetReads, StoresAvatar, Links, Sweeps, PersonaWrites DEF AssetSteps

-----------------------------------------------------------------------------
(***************************************************************************)
(* Imports.                                                                *)
(***************************************************************************)
\* What an import starts from, and what it reads of the character.
LEMMA ImportReads ==
  ASSUME TypeInv, NEW p \in Procs,
         ImportCard(p) \/ ImportRead(p) \/ ImportMax(p) \/ ImportLoose(p)
  PROVE  TypeInv'
<1>a. Local(loc[p]) /\ At(pc[p], loc[p])
  BY DEF TypeInv, Fits
<1>b. mix.cards \subseteq Cards /\ mix.bundles \subseteq Seq(Files)
  BY Constants DEF TypeInv, ProcsOK
<1>1. CASE ImportCard(p)
  <2>1. PICK k \in mix.cards, fs \in mix.bundles :
          /\ Begin(p, "import", IF k \in PngCards THEN "import.put" ELSE "import.read",
                   [Idle EXCEPT !.card = k, !.files = fs, !.text = k,
                                !.avatar = IF k \in PngCards THEN k ELSE None])
          /\ UNCHANGED <<tables, disk, history>>
    BY <1>1 DEF ImportCard
  <2>. DEFINE a == IF k \in PngCards THEN k ELSE None
              l == IF k \in PngCards THEN "import.put" ELSE "import.read"
              r == [Idle EXCEPT !.card = k, !.files = fs, !.text = k, !.avatar = a]
  <2>2. k \in Cards /\ fs \in Seq(Files) /\ a \in PngCards \cup {None}
    BY <1>b
  <2>3. Local(r) /\ r.card = k /\ r.text = k
    <3>. HIDE DEF a
    <3>. QED  BY <2>2, Constants, ReadIds DEF Local, Idle
  <2>4. At(l, r)
    <3>. HIDE DEF r
    <3>. QED  BY <2>2, <2>3 DEF At, Edits, Numbers, Stores, Brings, Renames
  <2>. QED  BY <2>1, <2>3, <2>4, Opens
<1>2. CASE ImportRead(p)
  <2>. DEFINE r == loc[p]
              found == {i \in DOMAIN items : items[i].handle = CardHandle[r.card]}
              i == CHOOSE x \in found : TRUE
              dup == [r EXCEPT !.item = i, !.ver = items[i].cur]
              max == [r EXCEPT !.item = i]
  <2>1. /\ pc[p] = "import.read" /\ UNCHANGED <<tables, disk, budget>>
        /\ IF found = {} THEN Goto(p, "import.char", r)
           ELSE \/ items[i].cur # None /\ Goto(p, "chats.dup", dup)
                \/ Goto(p, "import.max", max)
    BY <1>2 DEF ImportRead
  <2>2. At("import.char", r)
    BY <1>a, <2>1 DEF At, Edits, Numbers, Stores, Brings, Renames
  <2>3. CASE found # {}
    <3>1. i \in DOMAIN items /\ items[i].handle = CardHandle[r.card]
      BY <2>3
    <3>2. items[i].kind = "character"
      <4>1. r.card \in Cards
        BY <1>a, <2>1 DEF At, Brings
      <4>2. CardHandle[r.card] # None
        BY <4>1, LibraryAssumption
      <4>. QED  BY <3>1, <4>2 DEF TypeInv, RowsOK, ItemsOK, Kinds
    <3>3. i \in 1..last.item /\ items[i].cur \in {None} \cup 1..last.ver
      BY <3>1, ReadIds
    <3>4. Local(dup) /\ dup.ver = items[i].cur /\ Local(max) /\ max.item = i
          /\ max.card = r.card /\ max.text = r.text
      <4>. HIDE DEF i, found
      <4>1. Local(dup) /\ dup.ver = items[i].cur
        <5>1. dup \in [item : {i}, cur : {None} \cup 1..last.ver,
                       ver : {items[i].cur}, num : Nat, text : Texts \cup Cards \cup {None},
                       handle : Handles \cup {None}, avatar : PngCards \cup {None},
                       card : Cards \cup {None}, files : Seq(Files), chat : {None} \cup 1..last.chat,
                       todo : {dup.todo}, links : {dup.links}]
          BY <1>a DEF Local
        <5>. HIDE DEF dup
        <5>. QED  BY <3>3, <5>1 DEF Local
      <4>2. Local(max) /\ max.item = i /\ max.card = r.card /\ max.text = r.text
        BY <1>a, <3>3 DEF Local
      <4>. QED  BY <4>1, <4>2
    <3>5. items[i].cur # None => At("chats.dup", dup)
      <4>. HIDE DEF dup, i
      <4>. QED  BY <3>4 DEF At, Edits, Numbers, Stores, Brings, Renames
    <3>6. At("import.max", max)
      <4>. HIDE DEF max, i
      <4>. QED  BY <1>a, <2>1, <3>2, <3>4 DEF At, KindIs, Edits, Numbers, Stores, Brings, Renames
    <3>. HIDE DEF dup, max, i
    <3>. QED  BY <2>1, <2>3, <3>4, <3>5, <3>6, GoesOn
  <2>4. CASE found = {}
    BY <1>a, <2>1, <2>2, <2>4, GoesOn
  <2>. QED  BY <2>3, <2>4
<1>3. CASE ImportMax(p)
  <2>. DEFINE n == MaxNumber(loc[p].item) + 1
              r == [loc[p] EXCEPT !.num = n]
  <2>1. Goto(p, "import.version", r) /\ UNCHANGED <<tables, disk, budget>> /\ pc[p] = "import.max"
    BY <1>3 DEF ImportMax
  <2>2. n \in Nat \ {0}
    BY MaxNumberIsNat
  <2>3. Local(r) /\ r.num = n /\ r.item = loc[p].item /\ r.card = loc[p].card /\ r.text = loc[p].text
    <3>. HIDE DEF n
    <3>. QED  BY <1>a, <2>2 DEF Local
  <2>4. At("import.version", r)
    <3>. HIDE DEF r, n
    <3>. QED  BY <1>a, <2>1, <2>2, <2>3 DEF At, KindIs, Edits, Numbers, Stores, Brings, Renames
  <2>. HIDE DEF r
  <2>. QED  BY <2>1, <2>3, <2>4, GoesOn
<1>4. CASE ImportLoose(p)
  <2>1. PICK i \in DOMAIN items, fs \in mix.bundles :
          /\ items[i].cur # None
          /\ Begin(p, "loose", "chats.dup", [Idle EXCEPT !.item = i, !.ver = items[i].cur, !.files = fs])
          /\ UNCHANGED <<tables, disk, history>>
    BY <1>4 DEF ImportLoose
  <2>. DEFINE r == [Idle EXCEPT !.item = i, !.ver = items[i].cur, !.files = fs]
  <2>2. fs \in Seq(Files) /\ items[i].cur \in {None} \cup 1..last.ver /\ i \in 1..last.item
    BY <1>b, ReadIds
  <2>3. Local(r) /\ At("chats.dup", r)
    BY <2>1, <2>2, Constants DEF Local, Idle, At, Edits, Numbers, Stores, Brings, Renames
  <2>. QED  BY <2>1, <2>3, Opens
<1>. QED  BY <1>1, <1>2, <1>3, <1>4

\* The rows an import writes: the character, its version, the lorebook, the pointer.
LEMMA ImportWrites ==
  ASSUME TypeInv, NEW p \in Procs,
         ImportCharacter(p) \/ ImportVersion(p) \/ ImportLore(p) \/ ImportPoint(p)
  PROVE  TypeInv'
<1>. DEFINE r == loc[p]
<1>a. Local(r) /\ At(pc[p], r)
  BY DEF TypeInv, Fits
<1>1. CASE ImportCharacter(p)
  <2>. DEFINE h == CardHandle[r.card]
              row == [kind |-> "character", handle |-> h, cur |-> None, hash |-> r.card]
              s == [r EXCEPT !.item = NewItem, !.num = 1]
  <2>1. pc[p] = "import.char" /\ UNCHANGED <<vers, chats, personas, disk, budget>>
    BY <1>1 DEF ImportCharacter
  <2>2. CASE HandleTaken(h)
    BY <1>1, <2>1, <2>2, Throws DEF ImportCharacter, tables
  <2>3. CASE ~HandleTaken(h)
    <3>1. Counts("item") /\ items' = Row(items, NewItem, row) /\ Goto(p, "import.version", s)
      BY <1>1, <2>3 DEF ImportCharacter
    <3>2. r.card \in Cards /\ h \in Handles /\ r.text = r.card
      BY <1>a, <2>1, LibraryAssumption DEF At, Brings
    <3>3. /\ row \in [kind : Kinds, handle : Handles \cup {None}, cur : {None}, hash : Hash]
          /\ row.kind = "character"
      <4>. HIDE DEF h, r
      <4>. QED  BY <3>2 DEF Kinds, Hash
    <3>4. /\ RowsOK' /\ DiskOK' /\ Evolve /\ NewItem \in 1..last'.item
          /\ items'[NewItem].kind = "character"
      <4>. HIDE DEF row
      <4>. QED  BY <2>1, <3>1, <3>3, NewItemRow
    <3>5. ProcsOK' /\ Others(p) /\ pc'[p] = "import.version" /\ loc'[p] = s
      <4>. HIDE DEF s
      <4>. QED  BY <2>1, <3>1, Going
    <3>6. /\ s \in [item : {NewItem}, cur : {None} \cup 1..last.ver,
                    ver : {None} \cup 1..last.ver, num : Nat, text : Texts \cup Cards \cup {None},
                    handle : Handles \cup {None}, avatar : PngCards \cup {None},
                    card : Cards \cup {None}, files : Seq(Files), chat : {None} \cup 1..last.chat,
                    todo : {s.todo}, links : {s.links}]
          /\ s.num = 1 /\ s.item = NewItem
      BY <1>a DEF Local
    <3>7. s.card = r.card /\ s.text = r.text
      BY <1>a DEF Local
    <3>8. Local(loc[p])'
      <4>1. 1..last.ver \subseteq 1..last'.ver /\ 1..last.chat \subseteq 1..last'.chat
        BY <3>4 DEF Evolve, RowsOK, IdsOK, TypeInv
      <4>. HIDE DEF s
      <4>. QED  BY <3>4, <3>5, <3>6, <4>1 DEF Local
    <3>9. At(pc[p], loc[p])'
      <4>. HIDE DEF s, r
      <4>. QED  BY <3>2, <3>4, <3>5, <3>6, <3>7 DEF At, KindIs, Edits, Numbers, Stores, Brings, Renames
    <3>. QED  BY <3>4, <3>5, <3>8, <3>9, OneStep DEF Fits
  <2>. QED  BY <2>2, <2>3
<1>2. CASE ImportVersion(p)
  <2>1. pc[p] = "import.version" /\ UNCHANGED <<items, chats, personas, disk, budget>>
    BY <1>2 DEF ImportVersion
  <2>2. CASE ~VersionFits(r.item, r.num, r.avatar)
    BY <1>2, <2>1, <2>2, Throws DEF ImportVersion, tables
  <2>3. CASE VersionFits(r.item, r.num, r.avatar)
    <3>. DEFINE s == [r EXCEPT !.ver = NewVer]
                l == AfterVersion(p, 0)
    <3>1. /\ vers' = Row(vers, NewVer, Version(r.item, r.num, r.text, r.avatar))
          /\ Counts("ver") /\ Goto(p, l, s)
      BY <1>2, <2>3 DEF ImportVersion, Version
    <3>2. r.card \in Cards /\ r.text = r.card /\ r.num # 0 /\ items[r.item].kind = "character"
      BY <1>a, <2>1, <2>3 DEF At, Brings, Numbers, KindIs, VersionFits
    <3>3. RowsOK' /\ DiskOK' /\ Evolve /\ NewVer \in DOMAIN vers' /\ NewVer \in 1..last'.ver
          /\ vers'[NewVer].of = r.item
      BY <2>1, <2>3, <3>1, <3>2, NewVersion, Constants
    <3>4. ProcsOK' /\ Others(p) /\ pc'[p] = l /\ loc'[p] = s
      <4>. HIDE DEF s, l
      <4>. QED  BY <2>1, <3>1, Going
    <3>5. s.item = r.item /\ s.ver = NewVer /\ s.card = r.card /\ s.text = r.text
      BY <1>a DEF Local
    <3>6. Local(loc[p])'
      <4>1. 1..last.item \subseteq 1..last'.item /\ 1..last.ver \subseteq 1..last'.ver
            /\ 1..last.chat \subseteq 1..last'.chat
        BY <3>3 DEF Evolve, RowsOK, IdsOK, TypeInv
      <4>2. s \in [item : {None} \cup 1..last.item, cur : {None} \cup 1..last.ver,
                   ver : {NewVer}, num : Nat, text : Texts \cup Cards \cup {None},
                   handle : Handles \cup {None}, avatar : PngCards \cup {None},
                   card : Cards \cup {None}, files : Seq(Files), chat : {None} \cup 1..last.chat,
                   todo : {s.todo}, links : {s.links}]
        BY <1>a DEF Local
      <4>. HIDE DEF l, s
      <4>. QED  BY <3>3, <3>4, <4>1, <4>2 DEF Local
    <3>7. l \in {"import.lore", "import.point"}
      BY DEF AfterVersion
    <3>8. At(pc[p], loc[p])'
      <4>1. Written(loc[p])'
        <5>. HIDE DEF s
        <5>. QED  BY <3>3, <3>4, <3>5 DEF Written
      <4>. HIDE DEF s, l
      <4>. QED  BY <3>2, <3>4, <3>5, <3>7, <4>1 DEF At, Edits, Numbers, Stores, Brings, Renames
    <3>. QED  BY <3>3, <3>4, <3>6, <3>8, OneStep DEF Fits
  <2>. QED  BY <2>2, <2>3
<1>3. CASE ImportLore(p)
  <2>1. pc[p] = "import.lore" /\ UNCHANGED <<last, items, chats, personas, disk, budget>>
    BY <1>3 DEF ImportLore
  <2>2. CASE r.ver \notin DOMAIN vers
    BY <1>3, <2>1, <2>2, Throws DEF ImportLore, tables
  <2>3. CASE r.ver \in DOMAIN vers
    <3>. DEFINE v == r.ver
                l == AfterVersion(p, vers[v].lore + 1)
    <3>1. vers' = [vers EXCEPT ![v].lore = @ + 1] /\ Goto(p, l, r)
      BY <1>3, <2>3 DEF ImportLore
    <3>2. /\ DOMAIN vers' = DOMAIN vers /\ \A w \in DOMAIN vers : w # v => vers'[w] = vers[w]
          /\ vers'[v] = [vers[v] EXCEPT !.lore = vers[v].lore + 1]
      BY <2>3, <3>1
    <3>3. vers[v] \in VersRow
      BY <2>3 DEF TypeInv, RowsOK, VersOK, VersRow
    <3>4. vers'[v] \in VersRow /\ vers'[v].of = vers[v].of /\ vers'[v].text = vers[v].text
      BY <3>2, <3>3 DEF VersRow
    <3>5. RowsOK' /\ DiskOK' /\ Evolve
      <4>1. v \in DOMAIN vers
        BY <2>3
      <4>. HIDE DEF v, r
      <4>. QED  BY <2>1, <3>2, <3>4, <4>1, OneVersion
    <3>6. ProcsOK' /\ Others(p) /\ pc'[p] = l /\ loc'[p] = r
      <4>. HIDE DEF l
      <4>. QED  BY <2>1, <3>1, Going
    <3>7. l \in {"import.lore", "import.point"}
      BY DEF AfterVersion
    <3>8. Local(loc[p])'
      BY <1>a, <2>1, <3>6 DEF Local
    <3>9. Written(loc[p])'
      BY <1>a, <2>1, <2>3, <3>2, <3>4, <3>6 DEF At, Written
    <3>10. At(pc[p], loc[p])'
      <4>. HIDE DEF l
      <4>. QED  BY <1>a, <2>1, <3>6, <3>7, <3>9 DEF At, Edits, Numbers, Stores, Brings, Renames
    <3>. QED  BY <3>5, <3>6, <3>8, <3>10, OneStep DEF Fits
  <2>. QED  BY <2>2, <2>3
<1>4. CASE ImportPoint(p)
  <2>. DEFINE i == r.item
  <2>1. /\ pc[p] = "import.point" /\ UNCHANGED <<last, vers, chats, personas, disk, budget>>
        /\ Goto(p, "chats.dup", r)
        /\ items' = IF i \in DOMAIN items
                    THEN [items EXCEPT ![i].cur = r.ver, ![i].hash = r.card] ELSE items
    BY <1>4 DEF ImportPoint
  <2>2. RowsOK' /\ DiskOK' /\ Evolve
    <3>1. CASE i \in DOMAIN items
      <4>1. /\ DOMAIN items' = DOMAIN items /\ \A j \in DOMAIN items : j # i => items'[j] = items[j]
            /\ items'[i] = [items[i] EXCEPT !.cur = r.ver, !.hash = r.card]
        BY <2>1, <3>1
      <4>2. items[i] \in ItemRow /\ (items[i].kind = "preset" => items[i].handle = None)
        BY <3>1 DEF TypeInv, RowsOK, ItemsOK, ItemRow
      <4>3. r.ver \in DOMAIN vers /\ vers[r.ver].of = i /\ r.card \in Hash
        BY <1>a, <2>1, <3>1 DEF At, Written, Brings, Hash
      <4>4. /\ items'[i] \in ItemRow /\ items'[i].kind = items[i].kind
            /\ items'[i].handle = items[i].handle /\ items'[i].cur = r.ver
        <5>. HIDE DEF r, i
        <5>. QED  BY <4>1, <4>2, <4>3 DEF ItemRow
      <4>. HIDE DEF r, i
      <4>. QED  BY <2>1, <3>1, <4>1, <4>2, <4>3, <4>4, OneItem
    <3>2. CASE i \notin DOMAIN items
      BY <2>1, <3>2, KeepsItems DEF TypeInv, RowsOK, ItemsOK
    <3>. QED  BY <3>1, <3>2
  <2>3. ProcsOK' /\ Others(p) /\ pc'[p] = "chats.dup" /\ loc'[p] = r
    BY <2>1, Going
  <2>4. Local(loc[p])'
    BY <1>a, <2>1, <2>3 DEF Local
  <2>5. At(pc[p], loc[p])'
    BY <2>3 DEF At, Edits, Numbers, Stores, Brings, Renames
  <2>. QED  BY <2>2, <2>3, <2>4, <2>5, OneStep DEF Fits
<1>. QED  BY <1>1, <1>2, <1>3, <1>4

\* Chats are read, inserted, filled with messages and linked.
LEMMA ImportChats ==
  ASSUME TypeInv, NEW p \in Procs,
         ChatDup(p) \/ ChatInsert(p) \/ ChatMessage(p) \/ ChatBranches(p) \/ ChatLink(p)
  PROVE  TypeInv'
<1>. DEFINE r == loc[p]
            f == Head(r.files)
            tail == [r EXCEPT !.files = Tail(r.files)]
<1>a. Local(r) /\ At(pc[p], r) /\ r.files \in Seq(Files)
  BY DEF TypeInv, Fits, Local
<1>b. r.files # <<>> => f \in Files /\ Tail(r.files) \in Seq(Files)
  BY <1>a, HeadTailProperties
<1>c. \A s : At("chats.dup", s) /\ At("chats.branch", s) /\ At("chats.link", s)
  BY DEF At, Edits, Numbers, Stores, Brings, Renames
<1>d. r.files # <<>> => At("chats.insert", r) /\ At("chats.message", r)
  BY DEF At, Edits, Numbers, Stores, Brings, Renames
<1>1. CASE ChatDup(p)
  <2>1. /\ UNCHANGED <<tables, disk, budget>>
        /\ IF r.files = <<>> THEN Goto(p, "chats.branch", r)
           ELSE Goto(p, "chats.dup", tail) \/ Goto(p, "chats.insert", r)
    BY <1>1 DEF ChatDup
  <2>2. r.files # <<>> => Local(tail)
    BY <1>a, <1>b DEF Local
  <2>. HIDE DEF r, tail
  <2>. QED  BY <1>a, <1>c, <1>d, <2>1, <2>2, GoesOn
<1>2. CASE ChatInsert(p)
  <2>1. pc[p] = "chats.insert" /\ UNCHANGED <<items, vers, personas, disk, budget>>
    BY <1>2 DEF ChatInsert
  <2>2. CASE r.ver \notin DOMAIN vers
    BY <1>2, <2>1, <2>2, Throws DEF ChatInsert, tables
  <2>3. CASE r.ver \in DOMAIN vers
    <3>. DEFINE row == [ver |-> r.ver, preset |-> None, file |-> f, parent |-> None,
                        have |-> 0, seen |-> Seen(r.ver), config |-> None]
                todo == IF ParentRef[f] = None THEN r.todo ELSE r.todo \cup {NewChat}
                s == [r EXCEPT !.chat = NewChat, !.todo = todo]
                e == [r EXCEPT !.todo = todo]
                done == [e EXCEPT !.files = Tail(e.files), !.chat = None]
    <3>1. /\ Counts("chat") /\ chats' = Row(chats, NewChat, row)
          /\ Goto(p, "chats.message", s) \/ Goto(p, "chats.dup", done)
      BY <1>2, <2>3 DEF ChatInsert, NextFile
    <3>2. r.files # <<>> /\ f \in Files /\ Tail(r.files) \in Seq(Files)
      BY <1>a, <1>b, <2>1 DEF At
    <3>3. row \in ChatRow /\ (row.preset = None => row.config = None)
      <4>1. Seen(r.ver) \in Texts \cup Cards \cup {None}
        BY <2>3, SeenIs
      <4>. HIDE DEF f
      <4>. QED  BY <2>3, <3>2, <4>1 DEF ChatRow
    <3>4. RowsOK' /\ DiskOK' /\ Evolve /\ NewChat \in 1..last'.chat
      <4>. HIDE DEF row
      <4>. QED  BY <2>1, <3>1, <3>3, NewChatRow
    <3>5. PICK l, t : /\ Goto(p, l, t)
                      /\ (l = "chats.message" /\ t = s) \/ (l = "chats.dup" /\ t = done)
      <4>. HIDE DEF s, done
      <4>. QED  BY <3>1
    <3>6. ProcsOK' /\ Others(p) /\ pc'[p] = l /\ loc'[p] = t
      BY <2>1, <3>5, Going
    <3>7. /\ t \in [item : {None} \cup 1..last.item, cur : {None} \cup 1..last.ver,
                    ver : {None} \cup 1..last.ver, num : Nat, text : Texts \cup Cards \cup {None},
                    handle : Handles \cup {None}, avatar : PngCards \cup {None},
                    card : Cards \cup {None}, files : Seq(Files), chat : {None, NewChat},
                    todo : {t.todo}, links : {t.links}]
          /\ l = "chats.message" => t.files = r.files
      <4>. HIDE DEF todo
      <4>1. CASE l = "chats.message" /\ t = s
        BY <1>a, <4>1 DEF Local
      <4>2. CASE l = "chats.dup" /\ t = done
        <5>1. Local(e) /\ e.files = r.files
          BY <1>a DEF Local
        <5>. HIDE DEF e
        <5>. QED  BY <3>2, <4>2, <5>1 DEF Local
      <4>. QED  BY <3>5, <4>1, <4>2
    <3>8. Local(loc[p])'
      <4>1. 1..last.item \subseteq 1..last'.item /\ 1..last.ver \subseteq 1..last'.ver
        BY <3>4 DEF Evolve, RowsOK, IdsOK, TypeInv
      <4>. QED  BY <3>4, <3>6, <3>7, <4>1 DEF Local
    <3>9. At(pc[p], loc[p])'
      <4>1. l \in {"chats.message", "chats.dup"}
        BY <3>5
      <4>. QED  BY <3>2, <3>6, <3>7, <4>1 DEF At, Edits, Numbers, Stores, Brings, Renames
    <3>. QED  BY <3>4, <3>6, <3>8, <3>9, OneStep DEF Fits
  <2>. QED  BY <2>2, <2>3
<1>3. CASE ChatMessage(p)
  <2>. DEFINE c == r.chat
              done == [r EXCEPT !.files = Tail(r.files), !.chat = None]
  <2>1. /\ pc[p] = "chats.message"
        /\ UNCHANGED <<last, items, vers, personas, disk, budget>>
    BY <1>3 DEF ChatMessage
  <2>2. CASE c \notin DOMAIN chats
    BY <1>3, <2>1, <2>2, Throws DEF ChatMessage, tables
  <2>3. CASE c \in DOMAIN chats
    <3>1. /\ chats' = [chats EXCEPT ![c].have = @ + 1]
          /\ Goto(p, "chats.message", r) \/ Goto(p, "chats.dup", done)
      BY <1>3, <2>3 DEF ChatMessage, NextFile
    <3>2. ChatsOK'
      <4>1. /\ DOMAIN chats' = DOMAIN chats /\ \A d \in DOMAIN chats : d # c => chats'[d] = chats[d]
            /\ chats'[c] = [chats[c] EXCEPT !.have = chats[c].have + 1]
        BY <2>3, <3>1
      <4>2. chats[c] \in ChatRow
        BY <2>3 DEF TypeInv, RowsOK, ChatsOK, ChatRow
      <4>3. chats'[c] \in ChatRow /\ chats'[c].preset = chats[c].preset
            /\ chats'[c].config = chats[c].config
        <5>. HIDE DEF c
        <5>. QED  BY <4>1, <4>2 DEF ChatRow
      <4>. HIDE DEF c
      <4>. QED  BY <2>1, <4>1, <4>3 DEF TypeInv, RowsOK, ChatsOK, ChatRow
    <3>3. RowsOK' /\ DiskOK' /\ Evolve
      BY <2>1, <3>1, <3>2, KeepsLibrary DEF TypeInv, RowsOK, IdsOK
    <3>4. CASE Goto(p, "chats.message", r)
      <4>1. ProcsOK' /\ Others(p) /\ pc'[p] = "chats.message" /\ loc'[p] = r
        BY <2>1, <3>4, Going
      <4>2. Local(loc[p])' /\ At(pc[p], loc[p])'
        BY <1>a, <2>1, <4>1 DEF Local, At, Edits, Numbers, Stores, Brings, Renames
      <4>. QED  BY <3>3, <4>1, <4>2, OneStep DEF Fits
    <3>5. CASE Goto(p, "chats.dup", done)
      <4>1. ProcsOK' /\ Others(p) /\ pc'[p] = "chats.dup" /\ loc'[p] = done
        <5>. HIDE DEF done
        <5>. QED  BY <2>1, <3>5, Going
      <4>2. Local(done)
        <5>1. r.files # <<>>
          BY <1>a, <2>1 DEF At
        <5>. QED  BY <1>a, <1>b, <5>1 DEF Local
      <4>3. Local(loc[p])' /\ At(pc[p], loc[p])'
        <5>. HIDE DEF done
        <5>. QED  BY <2>1, <4>1, <4>2 DEF Local, At, Edits, Numbers, Stores, Brings, Renames
      <4>. QED  BY <3>3, <4>1, <4>3, OneStep DEF Fits
    <3>. QED  BY <3>1, <3>4, <3>5
  <2>. QED  BY <2>2, <2>3
<1>4. CASE ChatBranches(p)
  <2>1. PICK s : /\ Goto(p, "chats.link", s) /\ UNCHANGED <<tables, disk, budget>>
                 /\ \E ls : s = [r EXCEPT !.todo = {}, !.links = ls]
    BY <1>4 DEF ChatBranches
  <2>2. Local(s)
    BY <1>a, <2>1 DEF Local
  <2>. QED  BY <1>c, <2>1, <2>2, GoesOn
<1>5. CASE ChatLink(p)
  <2>. DEFINE l == CHOOSE x \in r.links : TRUE
              rest == [r EXCEPT !.links = @ \ {l}]
  <2>1. UNCHANGED <<last, items, vers, personas, disk, budget>>
    BY <1>5 DEF ChatLink
  <2>2. CASE r.links = {} \/ (l[1] \in DOMAIN chats /\ l[2] \notin DOMAIN chats)
    BY <1>5, <2>1, <2>2, Throws DEF ChatLink, tables
  <2>3. CASE ~(r.links = {} \/ (l[1] \in DOMAIN chats /\ l[2] \notin DOMAIN chats))
    <3>. DEFINE c == l[1]
    <3>1. /\ chats' = IF c \in DOMAIN chats THEN [chats EXCEPT ![c].parent = l[2]] ELSE chats
          /\ Goto(p, "chats.link", rest)
      BY <1>5, <2>3 DEF ChatLink
    <3>2. ChatsOK'
      <4>1. CASE c \in DOMAIN chats
        <5>1. /\ DOMAIN chats' = DOMAIN chats
              /\ \A d \in DOMAIN chats : d # c => chats'[d] = chats[d]
              /\ chats'[c] = [chats[c] EXCEPT !.parent = l[2]]
              /\ l[2] \in DOMAIN chats
          BY <2>3, <3>1, <4>1
        <5>2. chats[c] \in ChatRow
          BY <4>1 DEF TypeInv, RowsOK, ChatsOK, ChatRow
        <5>3. chats'[c] \in ChatRow /\ chats'[c].preset = chats[c].preset
              /\ chats'[c].config = chats[c].config
          <6>. HIDE DEF l
          <6>. QED  BY <5>1, <5>2 DEF ChatRow
        <5>. HIDE DEF l
        <5>. QED  BY <2>1, <5>1, <5>3 DEF TypeInv, RowsOK, ChatsOK, ChatRow
      <4>2. CASE c \notin DOMAIN chats
        BY <2>1, <3>1, <4>2 DEF TypeInv, RowsOK, ChatsOK
      <4>. QED  BY <4>1, <4>2
    <3>3. RowsOK' /\ DiskOK' /\ Evolve
      BY <2>1, <3>1, <3>2, KeepsLibrary DEF TypeInv, RowsOK, IdsOK
    <3>4. ProcsOK' /\ Others(p) /\ pc'[p] = "chats.link" /\ loc'[p] = rest
      <4>. HIDE DEF rest
      <4>. QED  BY <2>1, <3>1, Going
    <3>5. Local(rest)
      BY <1>a DEF Local
    <3>6. Local(loc[p])' /\ At(pc[p], loc[p])'
      <4>. HIDE DEF rest
      <4>. QED  BY <2>1, <3>4, <3>5 DEF Local, At, Edits, Numbers, Stores, Brings, Renames
    <3>. QED  BY <3>3, <3>4, <3>6, OneStep DEF Fits
  <2>. QED  BY <2>2, <2>3
<1>. QED  BY <1>1, <1>2, <1>3, <1>4, <1>5

LEMMA ImportStepsKeep ==
  ASSUME TypeInv, NEW p \in Procs, ImportSteps(p)
  PROVE  TypeInv'
BY ImportReads, StoresAvatar, ImportWrites, ImportChats DEF ImportSteps

-----------------------------------------------------------------------------
(***************************************************************************)
(* The clock, the crashes, and the theorem.                                *)
(***************************************************************************)
LEMMA AgeKeeps ==
  ASSUME TypeInv, Age
  PROVE  TypeInv'
<1>1. DiskOK' /\ assets' = assets /\ UNCHANGED <<items, vers, chats, last, pc, loc, budget>>
  BY DEF Age, TypeInv, DiskOK, tables
<1>2. RowsOK' /\ Evolve
  BY <1>1, KeepsRows
<1>3. ProcsOK'
  BY <1>1 DEF TypeInv, ProcsOK, budget
<1>4. \A q \in Procs : Fits(q)'
  BY <1>1, <1>2, StillFits DEF TypeInv
<1>. QED  BY <1>1, <1>2, <1>3, <1>4 DEF TypeInv

LEMMA CrashKeeps ==
  ASSUME TypeInv, Crash
  PROVE  TypeInv'
<1>1. PICK S \in SUBSET Procs :
        /\ crashes < MaxCrashes /\ crashes' = crashes + 1
        /\ pc' = [p \in Procs |-> IF p \in S THEN "idle" ELSE pc[p]]
        /\ loc' = [p \in Procs |-> IF p \in S THEN Idle ELSE loc[p]]
        /\ UNCHANGED <<tables, disk, mix, ops>>
  BY DEF Crash
<1>2. RowsOK' /\ DiskOK'
  BY <1>1 DEF TypeInv, RowsOK, IdsOK, ItemsOK, VersOK, ChatsOK, DiskOK, tables, disk
<1>3. Evolve
  BY <1>1 DEF TypeInv, RowsOK, IdsOK, Evolve, tables
<1>4. ProcsOK'
  BY <1>1, LibraryAssumption DEF TypeInv, ProcsOK
<1>5. ASSUME NEW q \in Procs PROVE Fits(q)'
  <2>1. CASE q \in S
    <3>1. pc'[q] = "idle" /\ loc'[q] = Idle
      BY <1>1, <2>1
    <3>. QED
      BY <1>2, <3>1, EmptySeq DEF Fits, Local, At, Idle, Edits, Numbers, Stores, Brings, Renames, RowsOK, IdsOK
  <2>2. CASE q \notin S
    BY <1>1, <1>2, <1>3, <2>2, StillFits DEF TypeInv
  <2>. QED  BY <2>1, <2>2
<1>. QED  BY <1>2, <1>4, <1>5 DEF TypeInv

LEMMA TypeInit == Init => TypeInv
<1>. SUFFICES ASSUME Init PROVE TypeInv
  OBVIOUS
<1>1. RowsOK /\ DiskOK
  BY DEF Init, RowsOK, IdsOK, ItemsOK, VersOK, ChatsOK, DiskOK
<1>2. ProcsOK
  BY LibraryAssumption DEF Init, ProcsOK
<1>3. \A q \in Procs : Fits(q)
  BY <1>1, IdleFits DEF Init, Fits
<1>. QED  BY <1>1, <1>2, <1>3 DEF TypeInv

LEMMA TypeStep == TypeInv /\ [Next]_libVars => TypeInv'
<1>. SUFFICES ASSUME TypeInv, [Next]_libVars PROVE TypeInv'
  OBVIOUS
<1>1. CASE Next
  BY <1>1, VersionStepsKeep, AssetStepsKeep, ImportStepsKeep, AgeKeeps, CrashKeeps DEF Next
<1>2. CASE UNCHANGED libVars
  <2>1. RowsOK' /\ DiskOK' /\ ProcsOK'
    BY <1>2 DEF TypeInv, RowsOK, IdsOK, ItemsOK, VersOK, ChatsOK, DiskOK, ProcsOK, libVars, tables,
                disk, budget
  <2>2. Evolve
    BY <1>2 DEF TypeInv, RowsOK, IdsOK, Evolve, libVars, tables
  <2>3. \A q \in Procs : Fits(q)'
    BY <1>2, <2>1, <2>2, StillFits DEF TypeInv, libVars
  <2>. QED  BY <2>1, <2>3 DEF TypeInv
<1>. QED  BY <1>1, <1>2

\* Every row refers to a row of its kind that is there, for any requests, cards and
\* files: no interleaving of edits, forks, imports, deletions, sweeps and crashes
\* leaves an identity row on a version that is gone, a version without its item, or a
\* chat without the version it pins.  The invariant adds that an identity row points to
\* a version of its own, and what each statement relies on.
THEOREM TypeCorrect == Spec => []TypeOK
<1>1. TypeInv => TypeOK
  BY DEF TypeInv, RowsOK, ItemsOK, VersOK, ChatsOK, DiskOK, ProcsOK, TypeOK
<1>. QED  BY <1>1, TypeInit, TypeStep, PTL DEF Spec

-----------------------------------------------------------------------------
(***************************************************************************)
(* A version freezes once a chat pins it.  PinnedFrozen alone is not       *)
(* inductive: an edit in place writes the version it found unpinned some   *)
(* statements ago.  What a chat may rely on is what Seen gave it, so while *)
(* an edit is on its way every chat that pins its version relies on        *)
(* nothing.                                                                *)
(***************************************************************************)
EditedUnseen ==
  \A q \in Procs : pc[q] = "update.mutate" =>
    \A c \in DOMAIN chats :
      /\ chats[c].ver = loc[q].cur => chats[c].seen = None
      /\ chats[c].preset = loc[q].cur => chats[c].config = None

PinInv == TypeInv /\ PinnedFrozen /\ EditedUnseen

SameTexts == \A v \in DOMAIN vers : v \in DOMAIN vers' => vers'[v].text = vers[v].text
SamePins  == \A c \in DOMAIN chats' :
               /\ c \in DOMAIN chats
               /\ chats'[c].ver = chats[c].ver /\ chats'[c].preset = chats[c].preset
               /\ chats'[c].seen = chats[c].seen /\ chats'[c].config = chats[c].config
NoNewEdit == \A q \in Procs : pc'[q] = "update.mutate" => pc[q] = "update.mutate" /\ loc'[q] = loc[q]

\* Most steps touch neither a text, nor what a chat pins, nor begin an edit.
LEMMA PinsStay ==
  ASSUME PinInv, TypeInv', SameTexts, SamePins, NoNewEdit
  PROVE  PinInv'
<1>1. \A c \in DOMAIN chats' :
         /\ chats[c].ver \in DOMAIN vers /\ chats[c].ver \in DOMAIN vers'
         /\ chats[c].config # None => chats[c].preset \in DOMAIN vers /\ chats[c].preset \in DOMAIN vers'
  BY DEF PinInv, TypeInv, RowsOK, ChatsOK, SamePins
<1>2. PinnedFrozen'
  BY <1>1 DEF PinInv, PinnedFrozen, SameTexts, SamePins
<1>3. EditedUnseen'
  BY DEF PinInv, EditedUnseen, SamePins, NoNewEdit
<1>. QED  BY <1>2, <1>3 DEF PinInv

\* The look-up finds no chat on the version.
LEMMA PinLookUp ==
  ASSUME PinInv, TypeInv', NEW p \in Procs, UpdatePinned(p)
  PROVE  PinInv'
<1>1. PinnedFrozen'
  BY DEF PinInv, PinnedFrozen, UpdatePinned, tables
<1>2. EditedUnseen'
  <2>. SUFFICES ASSUME NEW q \in Procs, pc'[q] = "update.mutate", NEW c \in DOMAIN chats
       PROVE  /\ chats[c].ver = loc'[q].cur => chats[c].seen = None
              /\ chats[c].preset = loc'[q].cur => chats[c].config = None
    BY DEF EditedUnseen, UpdatePinned, tables
  <2>1. CASE q = p
    <3>1. ~Pinned(loc[p].cur)
      BY <2>1 DEF UpdatePinned, Goto, PinInv, TypeInv, ProcsOK
    <3>2. loc'[p].cur = loc[p].cur
      BY DEF UpdatePinned, Goto, PinInv, TypeInv, ProcsOK, Fits, Local
    <3>. QED  BY <2>1, <3>1, <3>2 DEF Pinned
  <2>2. CASE q # p
    BY <2>2 DEF PinInv, EditedUnseen, UpdatePinned, Goto
  <2>. QED  BY <2>1, <2>2
<1>. QED  BY <1>1, <1>2 DEF PinInv

\* The edit in place: who pins the version relies on nothing.
LEMMA PinEdit ==
  ASSUME PinInv, TypeInv', NEW p \in Procs, UpdateMutate(p)
  PROVE  PinInv'
<1>1. /\ pc[p] = "update.mutate" /\ UNCHANGED chats
      /\ DOMAIN vers' = DOMAIN vers
      /\ \A v \in DOMAIN vers : v # loc[p].cur => vers'[v].text = vers[v].text
  BY DEF UpdateMutate
<1>2. PinnedFrozen'
  BY <1>1 DEF PinInv, PinnedFrozen, EditedUnseen, TypeInv, RowsOK, ChatsOK
<1>3. NoNewEdit
  BY DEF UpdateMutate, Goto, Finish, NoNewEdit, PinInv, TypeInv, ProcsOK
<1>4. EditedUnseen'
  BY <1>1, <1>3 DEF PinInv, EditedUnseen, NoNewEdit
<1>. QED  BY <1>2, <1>4 DEF PinInv

\* A new chat relies on what it sees.
LEMMA PinNew ==
  ASSUME PinInv, TypeInv', UNCHANGED vers, NoNewEdit,
         NEW c, NEW v \in DOMAIN vers, NEW s \in DOMAIN vers \cup {None}, NEW row,
         chats' = Row(chats, c, row), row.ver = v, row.preset = s, row.seen = Seen(v),
         row.config \in {None, Seen(s)}, row.preset = None => row.config = None
  PROVE  PinInv'
<1>1. /\ DOMAIN chats' = DOMAIN chats \cup {c} /\ chats'[c] = row
      /\ \A d \in DOMAIN chats : d # c => chats'[d] = chats[d]
  BY DEF Row
<1>2. TypeInv
  BY DEF PinInv
<1>3. /\ row.seen # None => row.seen = vers[v].text /\ ~Mutating(v)
      /\ row.config # None => s \in DOMAIN vers /\ row.config = vers[s].text /\ ~Mutating(s)
  BY <1>2, SeenIs
<1>4. PinnedFrozen'
  BY <1>1, <1>3 DEF PinInv, PinnedFrozen
<1>5. EditedUnseen'
  <2>. SUFFICES ASSUME NEW q \in Procs, pc[q] = "update.mutate", NEW d \in DOMAIN chats'
       PROVE  /\ chats'[d].ver = loc[q].cur => chats'[d].seen = None
              /\ chats'[d].preset = loc[q].cur => chats'[d].config = None
    BY DEF EditedUnseen, NoNewEdit
  <2>1. CASE d = c
    BY <1>1, <1>3, <2>1 DEF Mutating
  <2>2. CASE d # c
    BY <1>1, <2>2 DEF PinInv, EditedUnseen
  <2>. QED  BY <2>1, <2>2
<1>. QED  BY <1>4, <1>5 DEF PinInv

LEMMA PinOpens ==
  ASSUME PinInv, TypeInv', NEW p \in Procs, OpenInsert(p) \/ ChatInsert(p)
  PROVE  PinInv'
<1>1. NoNewEdit
  BY DEF OpenInsert, ChatInsert, NextFile, Goto, Finish, NoNewEdit, PinInv, TypeInv, ProcsOK
<1>2. CASE chats' = chats
  BY <1>1, <1>2, PinsStay DEF OpenInsert, ChatInsert, SameTexts, SamePins
<1>3. CASE OpenInsert(p) /\ chats' # chats
  <2>. DEFINE r == loc[p]
              row == [ver |-> r.ver, preset |-> r.cur, file |-> None, parent |-> None,
                      have |-> 0, seen |-> Seen(r.ver), config |-> Seen(r.cur)]
  <2>1. /\ pc[p] = "open.insert" /\ r.cur \in DOMAIN vers \cup {None} /\ r.ver \in DOMAIN vers \cup {None}
        /\ chats' = Row(chats, NewChat, row) /\ UNCHANGED vers
    BY <1>3 DEF OpenInsert
  <2>2. r.ver \in DOMAIN vers
    BY <2>1 DEF PinInv, TypeInv, Fits, At
  <2>3. row.preset = None => row.config = None
    BY DEF Seen
  <2>4. row.ver = r.ver /\ row.preset = r.cur /\ row.seen = Seen(r.ver) /\ row.config = Seen(r.cur)
    OBVIOUS
  <2>. HIDE DEF row, r
  <2>. QED  BY <1>1, <2>1, <2>2, <2>3, <2>4, PinNew
<1>4. CASE ChatInsert(p) /\ chats' # chats
  <2>. DEFINE r == loc[p]
              row == [ver |-> r.ver, preset |-> None, file |-> Head(r.files), parent |-> None,
                      have |-> 0, seen |-> Seen(r.ver), config |-> None]
  <2>1. r.ver \in DOMAIN vers /\ chats' = Row(chats, NewChat, row) /\ UNCHANGED vers
    BY <1>4 DEF ChatInsert
  <2>2. row.ver = r.ver /\ row.preset = None /\ row.seen = Seen(r.ver) /\ row.config = None
    OBVIOUS
  <2>. HIDE DEF row, r
  <2>. QED  BY <1>1, <2>1, <2>2, PinNew
<1>. QED  BY <1>2, <1>3, <1>4

\* The other steps: versions come, go or get an avatar or lore, chats go or get
\* messages and a parent, and no edit begins.
Untouching == SameTexts /\ SamePins /\ NoNewEdit

LEMMA VersionsUntouched ==
  ASSUME TypeInv, NEW p \in Procs, VersionSteps(p),
         ~UpdatePinned(p), ~UpdateMutate(p), ~OpenInsert(p)
  PROVE  Untouching
<1>0. DOMAIN pc = Procs /\ DOMAIN loc = Procs
  BY DEF TypeInv, ProcsOK
<1>1. CASE CharacterCreate(p) \/ PresetCreate(p) \/ CharacterUpdate(p) \/ PresetUpdate(p)
           \/ RemoveRead(p) \/ OpenLook(p)
  <2>1. \/ \E l, r : Goto(p, l, r) /\ l # "update.mutate" /\ UNCHANGED tables
        \/ CharacterUpdate(p) \/ PresetUpdate(p)
    BY <1>1 DEF CharacterCreate, PresetCreate, RemoveRead, OpenLook, Begin
  <2>2. CASE CharacterUpdate(p) \/ PresetUpdate(p)
    <3>1. PICK i, t, h, a : UpdateRead(p, i, t, h, a)
      BY <2>2 DEF CharacterUpdate, PresetUpdate
    <3>. QED  BY <1>0, <3>1 DEF UpdateRead, Begin, Goto, tables, Untouching, SameTexts, SamePins,
         NoNewEdit
  <2>3. CASE \E l, r : Goto(p, l, r) /\ l # "update.mutate" /\ UNCHANGED tables
    BY <1>0, <2>3 DEF Goto, tables, Untouching, SameTexts, SamePins, NoNewEdit
  <2>. QED  BY <2>1, <2>2, <2>3
<1>2. CASE CharacterFork(p) \/ PresetFork(p) \/ RemoveList(p) \/ RemoveCheck(p) \/ OpenPreset(p)
  BY <1>0, <1>2 DEF CharacterFork, PresetFork, ForkRead, RemoveList, RemoveCheck, OpenPreset,
     Goto, Finish, tables, Untouching, SameTexts, SamePins, NoNewEdit
<1>3. CASE CreateInsert(p) \/ CreatePoint(p) \/ UpdatePoint(p) \/ UpdateIdentity(p) \/ RemoveUnpoint(p)
  BY <1>0, <1>3 DEF CreateInsert, CreatePoint, UpdatePoint, SetPointer, UpdateIdentity, RemoveUnpoint,
     Goto, Finish, Untouching, SameTexts, SamePins, NoNewEdit
<1>4. CASE CreateVersion(p) \/ UpdateMint(p) \/ UpdateInsert(p)
  <2>1. NewVer \notin DOMAIN vers
    BY DEF TypeInv, RowsOK, IdsOK, NewVer
  <2>. QED  BY <1>0, <1>4, <2>1 DEF CreateVersion, UpdateMint, UpdateInsert, InsertVersion, Row,
     Goto, Finish, Untouching, SameTexts, SamePins, NoNewEdit
<1>5. CASE RemoveDelete(p)
  BY <1>0, <1>5 DEF RemoveDelete, Without, Goto, Finish, Untouching, SameTexts, SamePins, NoNewEdit
<1>6. CASE ChatRemove(p)
  <2>1. \A c \in DOMAIN chats : chats[c] \in ChatRow
    BY DEF TypeInv, RowsOK, ChatsOK, ChatRow
  <2>. QED
    BY <1>0, <1>6, <2>1 DEF ChatRemove, ChatRow, Untouching, SameTexts, SamePins, NoNewEdit
<1>. QED  BY <1>1, <1>2, <1>3, <1>4, <1>5, <1>6 DEF VersionSteps

LEMMA AssetsUntouched ==
  ASSUME TypeInv, NEW p \in Procs, AssetSteps(p)
  PROVE  Untouching
<1>0. DOMAIN pc = Procs /\ DOMAIN loc = Procs
  BY DEF TypeInv, ProcsOK
<1>1. CASE BackfillRead(p) \/ GcStart(p) \/ GcEnd(p) \/ RebuildRead(p)
  BY <1>0, <1>1 DEF BackfillRead, GcStart, GcEnd, RebuildRead, Begin, Goto, Finish, tables,
     Untouching, SameTexts, SamePins, NoNewEdit
<1>2. CASE BackfillPut(p) \/ BackfillRow(p) \/ RebuildRow(p) \/ GcRemove(p)
  BY <1>0, <1>2 DEF BackfillPut, BackfillRow, RebuildRow, GcRemove, Goto, Finish, tables,
     Untouching, SameTexts, SamePins, NoNewEdit
<1>3. \A v \in DOMAIN vers : vers[v] \in VersRow
  BY DEF TypeInv, RowsOK, VersOK, VersRow
<1>4. CASE BackfillLink(p)
  BY <1>0, <1>3, <1>4 DEF BackfillLink, VersRow, Goto, Finish, Untouching, SameTexts, SamePins, NoNewEdit
<1>5. CASE GcRow(p)
  BY <1>0, <1>3, <1>5 DEF GcRow, VersRow, Goto, Untouching, SameTexts, SamePins, NoNewEdit
<1>6. CASE PersonaCreate(p) \/ PersonaUpdate(p) \/ PersonaRemove(p)
  BY <1>6 DEF PersonaCreate, PersonaUpdate, PersonaWrite, PersonaRemove,
     Untouching, SameTexts, SamePins, NoNewEdit
<1>. QED  BY <1>1, <1>2, <1>4, <1>5, <1>6 DEF AssetSteps

LEMMA ImportsUntouched ==
  ASSUME TypeInv, NEW p \in Procs, ImportSteps(p), ~ChatInsert(p)
  PROVE  Untouching
<1>0. DOMAIN pc = Procs /\ DOMAIN loc = Procs
  BY DEF TypeInv, ProcsOK
<1>1. CASE ImportCard(p) \/ ImportRead(p) \/ ImportMax(p) \/ ImportLoose(p)
           \/ ChatDup(p) \/ ChatBranches(p)
  BY <1>0, <1>1 DEF ImportCard, ImportRead, ImportMax, ImportLoose, ChatDup, ChatBranches,
     Begin, Goto, tables, Untouching, SameTexts, SamePins, NoNewEdit
<1>2. CASE ImportPut(p) \/ ImportRow(p) \/ ImportCharacter(p) \/ ImportPoint(p)
  BY <1>0, <1>2 DEF ImportPut, ImportRow, ImportCharacter, ImportPoint, Goto, Finish, tables,
     Untouching, SameTexts, SamePins, NoNewEdit
<1>3. CASE ImportVersion(p)
  <2>1. NewVer \notin DOMAIN vers
    BY DEF TypeInv, RowsOK, IdsOK, NewVer
  <2>2. AfterVersion(p, 0) # "update.mutate"
    BY DEF AfterVersion
  <2>. QED  BY <1>0, <1>3, <2>1, <2>2 DEF ImportVersion, Row, Goto, Finish,
     Untouching, SameTexts, SamePins, NoNewEdit
<1>4. CASE ImportLore(p)
  <2>1. \A v \in DOMAIN vers : vers[v] \in VersRow
    BY DEF TypeInv, RowsOK, VersOK, VersRow
  <2>2. AfterVersion(p, vers[loc[p].ver].lore + 1) # "update.mutate"
    BY DEF AfterVersion
  <2>. QED  BY <1>0, <1>4, <2>1, <2>2 DEF ImportLore, VersRow, Goto, Finish,
     Untouching, SameTexts, SamePins, NoNewEdit
<1>5. CASE ChatMessage(p) \/ ChatLink(p)
  <2>1. \A c \in DOMAIN chats : chats[c] \in ChatRow
    BY DEF TypeInv, RowsOK, ChatsOK, ChatRow
  <2>. QED  BY <1>0, <1>5, <2>1 DEF ChatMessage, NextFile, ChatLink, ChatRow, Goto, Finish,
     Untouching, SameTexts, SamePins, NoNewEdit
<1>. QED  BY <1>1, <1>2, <1>3, <1>4, <1>5 DEF ImportSteps

LEMMA PinStep == PinInv /\ [Next]_libVars => PinInv'
<1>. SUFFICES ASSUME PinInv, [Next]_libVars PROVE PinInv'
  OBVIOUS
<1>0. TypeInv /\ TypeInv'
  BY TypeStep DEF PinInv
<1>1. ASSUME NEW p \in Procs, VersionSteps(p) \/ AssetSteps(p) \/ ImportSteps(p)
      PROVE  PinInv'
  BY <1>0, <1>1, VersionsUntouched, AssetsUntouched, ImportsUntouched, PinsStay, PinLookUp,
     PinEdit, PinOpens DEF Untouching
<1>2. CASE Age \/ UNCHANGED libVars
  BY <1>0, <1>2, PinsStay DEF Age, SameTexts, SamePins, NoNewEdit, libVars, tables
<1>3. CASE Crash
  BY <1>0, <1>3, PinsStay DEF Crash, SameTexts, SamePins, NoNewEdit, tables
<1>. QED  BY <1>1, <1>2, <1>3 DEF Next

\* A version freezes once a chat pins it, for any requests and whatever edits,
\* imports, removals and crashes come between.
THEOREM PinsFreeze == Spec => []PinnedFrozen
<1>1. Init => PinInv
  <2>1. Init => PinnedFrozen /\ EditedUnseen
    BY DEF Init, PinnedFrozen, EditedUnseen
  <2>. QED  BY <2>1, TypeInit DEF PinInv
<1>2. PinInv => PinnedFrozen
  BY DEF PinInv
<1>. QED  BY <1>1, <1>2, PinStep, PTL DEF Spec

-----------------------------------------------------------------------------
(***************************************************************************)
(* The blob tree: a picture that is shown has its file, whatever sweeps,   *)
(* backfills, imports, rebuilds and crashes come between.                  *)
(***************************************************************************)
(***************************************************************************)
(* The inductive invariant.                                                *)
(***************************************************************************)
\* A sweep that is under way: what it still calls garbage is shown nowhere, or
\* was linked behind its back.
GarbageUnlinked ==
  \A q \in Procs : pc[q] \in Jobs =>
     Referenced \cap (loc[q].todo \cup {loc[q].card}) \subseteq exposed \cup {None}

\* A row of the index has its file, or the sweep is between its two deletions.
IndexedKept ==
  \A h \in assets : \/ h \in DOMAIN blobs \cup exposed
                    \/ \E q \in Procs : pc[q] = "gc.row" /\ loc[q].card = h

\* A process about to index a picture has seen its file in the tree.
Indexing == {"backfill.row", "import.row", "rebuild.row"}
StoredKept ==
  \A q \in Procs : pc[q] \in Indexing => loc[q].card \in DOMAIN blobs \cup exposed

KeptInv == TypeInv /\ ReferencedKept /\ GarbageUnlinked /\ IndexedKept /\ StoredKept

-----------------------------------------------------------------------------
(***************************************************************************)
(* Frames.                                                                 *)
(***************************************************************************)
\* After the step the avatars are those of before, cleared or replaced by a.
AvatarsFrom(a) ==
  /\ \A v \in DOMAIN vers' : \/ vers'[v].avatar \in {a, None}
                             \/ v \in DOMAIN vers /\ vers'[v].avatar = vers[v].avatar
  /\ \A u \in DOMAIN personas' : \/ personas'[u] \in {a, None}
                                 \/ u \in DOMAIN personas /\ personas'[u] = personas[u]

LEMMA ShownFrom ==
  ASSUME NEW a, AvatarsFrom(a)
  PROVE  Referenced' \subseteq Referenced \cup {a, None}
BY DEF AvatarsFrom, Referenced

\* No process takes up a sweep or an index row, and none ends between the two
\* deletions of a sweep.
SameJobs ==
  \A q \in Procs : pc[q] = "gc.row" \/ pc'[q] \in Jobs \cup Indexing
                      => pc'[q] = pc[q] /\ loc'[q] = loc[q]

\* A step that links a picture of the index, or none at all.
Linking(a) ==
  /\ a \in assets \cup {None}
  /\ AvatarsFrom(a) /\ SameJobs
  /\ exposed' = Exposes(a)
  /\ UNCHANGED disk

\* What is exposed stays exposed.
LEMMA ExposedGrows ==
  ASSUME NEW a, exposed' = Exposes(a)
  PROVE  exposed \subseteq exposed'
BY DEF Exposes

LEMMA LinkKeeps ==
  ASSUME KeptInv, TypeInv', NEW a, Linking(a)
  PROVE  KeptInv'
<1>1. exposed \subseteq exposed' /\ Referenced' \subseteq Referenced \cup {a, None}
      /\ assets' = assets /\ blobs' = blobs
  BY ExposedGrows, ShownFrom DEF Linking, disk
<1>2. a \in exposed' \cup {None} \/ \A q \in Procs : pc[q] \in Jobs => a \notin loc[q].todo \cup {loc[q].card}
  BY DEF Linking, Exposes, Sweeping
<1>3. a \in DOMAIN blobs \cup exposed' \cup {None}
  BY <1>1, <1>2 DEF KeptInv, IndexedKept, Linking, Jobs
<1>4. ReferencedKept'
  BY <1>1, <1>3 DEF KeptInv, ReferencedKept
<1>5. GarbageUnlinked'
  <2>. SUFFICES ASSUME NEW q \in Procs, pc'[q] \in Jobs
       PROVE  Referenced' \cap (loc'[q].todo \cup {loc'[q].card}) \subseteq exposed' \cup {None}
    BY DEF GarbageUnlinked
  <2>1. pc[q] \in Jobs /\ loc'[q] = loc[q]
    BY DEF Linking, SameJobs
  <2>2. Referenced \cap (loc[q].todo \cup {loc[q].card}) \subseteq exposed \cup {None}
    BY <2>1 DEF KeptInv, GarbageUnlinked
  <2>. QED  BY <1>1, <1>2, <2>1, <2>2
<1>6. IndexedKept'
  BY <1>1 DEF KeptInv, IndexedKept, Linking, SameJobs
<1>7. StoredKept'
  BY <1>1 DEF KeptInv, StoredKept, Linking, SameJobs
<1>. QED  BY <1>4, <1>5, <1>6, <1>7 DEF KeptInv

\* A step that links nothing.
LEMMA Unlinked ==
  ASSUME KeptInv, TypeInv', AvatarsFrom(None), SameJobs, exposed' = exposed, UNCHANGED disk
  PROVE  KeptInv'
<1>1. exposed' = Exposes(None)
  BY DEF Exposes
<1>. QED  BY <1>1, LinkKeeps DEF Linking

-----------------------------------------------------------------------------
(***************************************************************************)
(* The steps.                                                              *)
(***************************************************************************)
\* No step of an editor or of a chat that opens links a picture that is not in
\* the index.
LEMMA VersionStepsLink ==
  ASSUME KeptInv, NEW p \in Procs, VersionSteps(p)
  PROVE  (AvatarsFrom(None) /\ SameJobs /\ exposed' = exposed /\ UNCHANGED disk) \/ \E a : Linking(a)
<1>0. DOMAIN pc = Procs /\ DOMAIN loc = Procs
  BY DEF KeptInv, TypeInv, ProcsOK
<1>a. \A v \in DOMAIN vers : vers[v] \in VersRow
  BY DEF KeptInv, TypeInv, RowsOK, VersOK, VersRow
<1>1. CASE CharacterCreate(p) \/ PresetCreate(p) \/ RemoveRead(p) \/ OpenLook(p)
  <2>1. \E l, r : Goto(p, l, r) /\ l \in {"create.insert", "remove.list", "open.preset"}
                  /\ UNCHANGED <<tables, disk, exposed>> /\ pc[p] = "idle"
    BY <1>1 DEF CharacterCreate, PresetCreate, RemoveRead, OpenLook, Begin, Request, history
  <2>. QED  BY <1>0, <2>1 DEF Goto, tables, AvatarsFrom, SameJobs, Jobs, Indexing
<1>2. CASE CharacterUpdate(p) \/ PresetUpdate(p)
  <2>1. PICK i, t, h, a : UpdateRead(p, i, t, h, a)
    BY <1>2 DEF CharacterUpdate, PresetUpdate
  <2>2. \E l, r : Goto(p, l, r) /\ l \in {"update.pinned", "update.identity"}
                  /\ UNCHANGED <<tables, disk, exposed>> /\ pc[p] = "idle"
    BY <2>1 DEF UpdateRead, Begin, Request
  <2>. QED  BY <1>0, <2>2 DEF Goto, tables, AvatarsFrom, SameJobs, Jobs, Indexing
<1>3. CASE UpdatePinned(p) \/ CharacterFork(p) \/ PresetFork(p) \/ RemoveList(p) \/ RemoveCheck(p)
           \/ OpenPreset(p)
  BY <1>0, <1>3 DEF UpdatePinned, CharacterFork, PresetFork, ForkRead, RemoveList, RemoveCheck,
     OpenPreset, Goto, Finish, tables, history, AvatarsFrom, SameJobs, Jobs, Indexing
<1>4. CASE CreateInsert(p) \/ CreatePoint(p) \/ UpdatePoint(p) \/ UpdateIdentity(p) \/ RemoveUnpoint(p)
           \/ OpenInsert(p)
  BY <1>0, <1>4 DEF CreateInsert, CreatePoint, UpdatePoint, SetPointer, UpdateIdentity, RemoveUnpoint,
     OpenInsert, Goto, Finish, history, AvatarsFrom, SameJobs, Jobs, Indexing
<1>5. CASE CreateVersion(p) \/ UpdateMint(p) \/ UpdateInsert(p)
  <2>1. PICK l \in {"create.point", "update.point"} : InsertVersion(p, l)
    BY <1>5 DEF CreateVersion, UpdateMint, UpdateInsert
  <2>2. /\ pc[p] \in {"create.version", "update.mint", "update.insert"}
        /\ UNCHANGED <<personas, disk>>
    BY <1>5 DEF CreateVersion, UpdateMint, UpdateInsert
  <2>3. SameJobs
    BY <1>0, <2>1, <2>2 DEF InsertVersion, Goto, Finish, SameJobs, Jobs, Indexing
  <2>4. CASE VersionFits(loc[p].item, loc[p].num, loc[p].avatar)
    <3>1. AvatarsFrom(loc[p].avatar)
      BY <2>1, <2>2, <2>4 DEF InsertVersion, Row, Version, AvatarsFrom
    <3>. QED  BY <2>1, <2>2, <2>3, <2>4, <3>1 DEF InsertVersion, VersionFits, Linking
  <2>5. CASE ~VersionFits(loc[p].item, loc[p].num, loc[p].avatar)
    BY <2>1, <2>2, <2>3, <2>5 DEF InsertVersion, AvatarsFrom
  <2>. QED  BY <2>4, <2>5
<1>6. CASE UpdateMutate(p)
  <2>1. SameJobs
    BY <1>0, <1>6 DEF UpdateMutate, Goto, Finish, SameJobs, Jobs, Indexing
  <2>2. CASE loc[p].cur \in DOMAIN vers /\ loc[p].avatar \in assets \cup {None}
    <3>1. AvatarsFrom(loc[p].avatar)
      BY <1>6, <1>a, <2>2 DEF UpdateMutate, VersRow, AvatarsFrom
    <3>. QED  BY <1>6, <2>1, <2>2, <3>1 DEF UpdateMutate, Linking
  <2>3. CASE ~(loc[p].cur \in DOMAIN vers /\ loc[p].avatar \in assets \cup {None})
    BY <1>6, <2>1, <2>3 DEF UpdateMutate, AvatarsFrom
  <2>. QED  BY <2>2, <2>3
<1>7. CASE RemoveDelete(p)
  BY <1>0, <1>7 DEF RemoveDelete, Without, Goto, Finish, AvatarsFrom, SameJobs, Jobs, Indexing
<1>8. CASE ChatRemove(p)
  BY <1>8 DEF ChatRemove, history, AvatarsFrom, SameJobs
<1>. QED  BY <1>1, <1>2, <1>3, <1>4, <1>5, <1>6, <1>7, <1>8 DEF VersionSteps

\* Of an import, only the version may link a picture; its file and its index row
\* come before.
LEMMA ImportStepsLink ==
  ASSUME KeptInv, NEW p \in Procs, ImportSteps(p), ~ImportPut(p), ~ImportRow(p)
  PROVE  (AvatarsFrom(None) /\ SameJobs /\ exposed' = exposed /\ UNCHANGED disk) \/ \E a : Linking(a)
<1>0. DOMAIN pc = Procs /\ DOMAIN loc = Procs
  BY DEF KeptInv, TypeInv, ProcsOK
<1>a. \A v \in DOMAIN vers : vers[v] \in VersRow
  BY DEF KeptInv, TypeInv, RowsOK, VersOK, VersRow
<1>1. CASE ImportCard(p) \/ ImportRead(p) \/ ImportMax(p) \/ ImportLoose(p)
           \/ ChatDup(p) \/ ChatBranches(p)
  BY ZenonT(60), <1>0, <1>1 DEF ImportCard, ImportRead, ImportMax, ImportLoose, ChatDup, ChatBranches, Request,
     Begin, Goto, tables, history, AvatarsFrom, SameJobs, Jobs, Indexing
<1>2. CASE ImportCharacter(p) \/ ImportPoint(p) \/ ChatInsert(p) \/ ChatMessage(p) \/ ChatLink(p)
  BY <1>0, <1>2 DEF ImportCharacter, ImportPoint, ChatInsert, ChatMessage, NextFile, ChatLink, Goto, Finish,
     history, AvatarsFrom, SameJobs, Jobs, Indexing
<1>3. CASE ImportVersion(p)
  <2>1. AfterVersion(p, 0) \notin Jobs \cup Indexing
    BY DEF AfterVersion, Jobs, Indexing
  <2>2. SameJobs
    BY <1>0, <1>3, <2>1 DEF ImportVersion, Goto, Finish, SameJobs, Jobs, Indexing
  <2>4. CASE VersionFits(loc[p].item, loc[p].num, loc[p].avatar)
    <3>1. AvatarsFrom(loc[p].avatar)
      BY <1>3, <2>4 DEF ImportVersion, Row, AvatarsFrom
    <3>. QED  BY <1>3, <2>2, <2>4, <3>1 DEF ImportVersion, VersionFits, Linking
  <2>5. CASE ~VersionFits(loc[p].item, loc[p].num, loc[p].avatar)
    BY <1>3, <2>2, <2>5 DEF ImportVersion, AvatarsFrom
  <2>. QED  BY <2>4, <2>5
<1>4. CASE ImportLore(p)
  <2>1. AfterVersion(p, vers[loc[p].ver].lore + 1) \notin Jobs \cup Indexing
    BY DEF AfterVersion, Jobs, Indexing
  <2>. QED  BY <1>0, <1>a, <1>4, <2>1 DEF ImportLore, VersRow, Goto, Finish, history,
     AvatarsFrom, SameJobs, Jobs, Indexing
<1>. QED  BY <1>1, <1>2, <1>3, <1>4 DEF ImportSteps

\* The bytes are there before anything else is done with them.
LEMMA PutKeeps ==
  ASSUME KeptInv, TypeInv', NEW p \in Procs, BackfillPut(p) \/ ImportPut(p)
  PROVE  KeptInv'
<1>0. DOMAIN pc = Procs /\ DOMAIN loc = Procs
  BY DEF KeptInv, TypeInv, ProcsOK
<1>1. /\ DOMAIN blobs' = DOMAIN blobs \cup {loc[p].card}
      /\ exposed' = exposed /\ assets' = assets /\ UNCHANGED <<vers, personas>>
      /\ Goto(p, "backfill.row", loc[p]) \/ Goto(p, "import.row", loc[p])
      /\ pc[p] \in {"backfill.put", "import.put"}
  BY DEF BackfillPut, ImportPut, PutBytes, Row, tables, history
<1>2. Referenced' = Referenced
  BY <1>1 DEF Referenced
<1>3. /\ \A q \in Procs : q # p => pc'[q] = pc[q] /\ loc'[q] = loc[q]
      /\ loc'[p] = loc[p] /\ pc'[p] \in {"backfill.row", "import.row"}
  BY <1>0, <1>1 DEF Goto
<1>4. ReferencedKept'
  BY <1>1, <1>2 DEF KeptInv, ReferencedKept
<1>5. GarbageUnlinked'
  BY <1>1, <1>2, <1>3 DEF KeptInv, GarbageUnlinked, Jobs
<1>6. IndexedKept'
  BY <1>1, <1>3 DEF KeptInv, IndexedKept
<1>7. StoredKept'
  BY <1>1, <1>3 DEF KeptInv, StoredKept
<1>. QED  BY <1>4, <1>5, <1>6, <1>7 DEF KeptInv

\* The index row of a file that was seen in the tree.
LEMMA RowKeeps ==
  ASSUME KeptInv, TypeInv', NEW p \in Procs, BackfillRow(p) \/ ImportRow(p) \/ RebuildRow(p)
  PROVE  KeptInv'
<1>0. DOMAIN pc = Procs /\ DOMAIN loc = Procs
  BY DEF KeptInv, TypeInv, ProcsOK
<1>1. /\ assets' = assets \cup {loc[p].card}
      /\ exposed' = exposed /\ blobs' = blobs /\ UNCHANGED <<vers, personas>>
      /\ \E l, r : Goto(p, l, r) /\ l \in {"backfill.link", "import.read", "idle"}
      /\ pc[p] \in Indexing
  BY DEF BackfillRow, ImportRow, RebuildRow, StoreRow, Indexing, Finish, tables, history
<1>2. Referenced' = Referenced
  BY <1>1 DEF Referenced
<1>3. /\ \A q \in Procs : q # p => pc'[q] = pc[q] /\ loc'[q] = loc[q]
      /\ pc'[p] \notin Jobs \cup Indexing /\ pc[p] # "gc.row"
  BY <1>0, <1>1 DEF Goto, Jobs, Indexing
<1>4. loc[p].card \in DOMAIN blobs \cup exposed
  BY <1>1 DEF KeptInv, StoredKept
<1>5. ReferencedKept'
  BY <1>1, <1>2 DEF KeptInv, ReferencedKept
<1>6. GarbageUnlinked'
  BY <1>1, <1>2, <1>3 DEF KeptInv, GarbageUnlinked
<1>7. IndexedKept'
  BY <1>1, <1>3, <1>4 DEF KeptInv, IndexedKept
<1>8. StoredKept'
  BY <1>1, <1>3 DEF KeptInv, StoredKept
<1>. QED  BY <1>5, <1>6, <1>7, <1>8 DEF KeptInv

\* Requests that start on the tree, and the link of a backfill.
LEMMA AssetStepsLink ==
  ASSUME KeptInv, NEW p \in Procs, BackfillRead(p) \/ BackfillLink(p) \/ GcEnd(p)
                                   \/ PersonaCreate(p) \/ PersonaUpdate(p) \/ PersonaRemove(p)
  PROVE  (AvatarsFrom(None) /\ SameJobs /\ exposed' = exposed /\ UNCHANGED disk) \/ \E a : Linking(a)
<1>0. DOMAIN pc = Procs /\ DOMAIN loc = Procs
  BY DEF KeptInv, TypeInv, ProcsOK
<1>a. \A v \in DOMAIN vers : vers[v] \in VersRow
  BY DEF KeptInv, TypeInv, RowsOK, VersOK, VersRow
<1>1. CASE BackfillRead(p) \/ GcEnd(p)
  <2>1. \E l, r : Goto(p, l, r) /\ l \in {"backfill.put", "idle"}
                  /\ UNCHANGED <<tables, disk, exposed>> /\ pc[p] \in {"idle", "gc.stat"}
    BY <1>1 DEF BackfillRead, GcEnd, Begin, Request, Finish, history
  <2>. QED  BY <1>0, <2>1 DEF Goto, tables, AvatarsFrom, SameJobs, Jobs, Indexing
<1>2. CASE BackfillLink(p)
  <2>1. SameJobs
    BY <1>0, <1>2 DEF BackfillLink, Goto, Finish, SameJobs, Jobs, Indexing
  <2>. DEFINE link == loc[p].text \in {None, loc[p].card} /\ loc[p].ver \in DOMAIN vers
                      /\ loc[p].card \in assets
  <2>2. CASE link
    <3>1. AvatarsFrom(loc[p].card)
      BY <1>2, <1>a, <2>2 DEF BackfillLink, VersRow, AvatarsFrom
    <3>. QED  BY <1>2, <2>1, <2>2, <3>1 DEF BackfillLink, Linking
  <2>3. CASE ~link
    BY <1>2, <2>1, <2>3 DEF BackfillLink, AvatarsFrom
  <2>. QED  BY <2>2, <2>3
<1>3. CASE PersonaCreate(p) \/ PersonaUpdate(p)
  <2>1. PICK u, a : PersonaWrite(p, u, a)
    BY <1>3 DEF PersonaCreate, PersonaUpdate
  <2>. QED  BY <2>1 DEF PersonaWrite, Row, AvatarsFrom, SameJobs, Linking
<1>4. CASE PersonaRemove(p)
  BY <1>4 DEF PersonaRemove, Without, history, AvatarsFrom, SameJobs
<1>. QED  BY <1>1, <1>2, <1>3, <1>4

\* A sweep, or a rebuild, that starts.
LEMMA SweepStarts ==
  ASSUME KeptInv, TypeInv', NEW p \in Procs, GcStart(p) \/ RebuildRead(p)
  PROVE  KeptInv'
<1>0. DOMAIN pc = Procs /\ DOMAIN loc = Procs
  BY DEF KeptInv, TypeInv, ProcsOK
<1>1. /\ exposed' = exposed /\ blobs' = blobs /\ assets' = assets /\ UNCHANGED <<vers, personas>>
      /\ pc[p] = "idle"
  BY DEF GcStart, RebuildRead, Begin, Request, tables, disk, history
<1>2. Referenced' = Referenced
  BY <1>1 DEF Referenced
<1>3. \A q \in Procs : q # p => pc'[q] = pc[q] /\ loc'[q] = loc[q]
  BY <1>0 DEF GcStart, RebuildRead, Begin, Goto
<1>4. /\ pc'[p] \in {"gc.stat", "rebuild.row"}
      /\ pc'[p] = "gc.stat" => loc'[p].todo \cap Referenced = {} /\ loc'[p].card = None
      /\ pc'[p] = "rebuild.row" => loc'[p].card \in DOMAIN blobs
  BY <1>0 DEF GcStart, RebuildRead, Begin, Goto, Idle
<1>5. ReferencedKept'
  BY <1>1, <1>2 DEF KeptInv, ReferencedKept
<1>6. GarbageUnlinked'
  BY <1>1, <1>2, <1>3, <1>4 DEF KeptInv, GarbageUnlinked, Jobs
<1>7. IndexedKept'
  BY <1>1, <1>3 DEF KeptInv, IndexedKept
<1>8. StoredKept'
  BY <1>1, <1>3, <1>4 DEF KeptInv, StoredKept, Indexing
<1>. QED  BY <1>5, <1>6, <1>7, <1>8 DEF KeptInv

\* The first deletion of a sweep: the file, unless somebody has just stored it.
LEMMA SweepRemoves ==
  ASSUME KeptInv, TypeInv', NEW p \in Procs, GcRemove(p)
  PROVE  KeptInv'
<1>. DEFINE h == CHOOSE x \in loc[p].todo : TRUE
            gone == h \in DOMAIN blobs /\ blobs[h] = "old"
            rest == [loc[p] EXCEPT !.todo = @ \ {h}]
<1>0. DOMAIN pc = Procs /\ DOMAIN loc = Procs
  BY DEF KeptInv, TypeInv, ProcsOK
<1>1. /\ assets' = assets /\ UNCHANGED <<vers, personas>> /\ pc[p] = "gc.stat"
      /\ h \in loc[p].todo
  BY DEF GcRemove, tables
<1>2. Referenced' = Referenced
  BY <1>1 DEF Referenced
<1>3. \A q \in Procs : q # p => pc'[q] = pc[q] /\ loc'[q] = loc[q]
  BY <1>0 DEF GcRemove, Goto
<1>4. Referenced \cap (loc[p].todo \cup {loc[p].card}) \subseteq exposed \cup {None}
  BY <1>1 DEF KeptInv, GarbageUnlinked, Jobs
<1>5. Local(loc[p])
  BY DEF KeptInv, TypeInv, Fits
<1>6. /\ exposed \subseteq exposed' /\ pc'[p] \in Jobs
      /\ loc'[p].todo \cup {loc'[p].card} \subseteq loc[p].todo \cup {loc[p].card}
      /\ DOMAIN blobs \subseteq DOMAIN blobs' \cup {h}
      /\ h \notin DOMAIN blobs \/ h \in DOMAIN blobs' \/ (pc'[p] = "gc.row" /\ loc'[p].card = h)
      /\ h \notin DOMAIN blobs \/ h \in DOMAIN blobs' \/ Storing(h) = {} \/ h \in exposed'
  <2>1. CASE gone
    <3>1. blobs' = Without(blobs, {h}) /\ Goto(p, "gc.row", [rest EXCEPT !.card = h])
          /\ exposed' = IF Storing(h) = {} THEN exposed ELSE exposed \cup {h}
      BY <2>1 DEF GcRemove
    <3>2. loc'[p].todo = loc[p].todo \ {h} /\ loc'[p].card = h /\ pc'[p] = "gc.row"
      BY <1>0, <1>5, <3>1 DEF Goto, Local
    <3>3. DOMAIN blobs' = DOMAIN blobs \ {h}
      BY <3>1 DEF Without
    <3>. HIDE DEF h
    <3>. QED  BY <1>1, <3>1, <3>2, <3>3 DEF Jobs
  <2>2. CASE ~gone
    <3>1. blobs' = blobs /\ exposed' = exposed /\ Goto(p, "gc.stat", rest)
      BY <2>2 DEF GcRemove
    <3>2. loc'[p].todo = loc[p].todo \ {h} /\ loc'[p].card = loc[p].card /\ pc'[p] = "gc.stat"
      BY <1>0, <1>5, <3>1 DEF Goto, Local
    <3>. HIDE DEF h
    <3>. QED  BY <1>1, <3>1, <3>2 DEF Jobs
  <2>. QED  BY <2>1, <2>2
<1>. HIDE DEF h
<1>7. ReferencedKept'
  BY <1>1, <1>2, <1>4, <1>6 DEF KeptInv, ReferencedKept
<1>8. GarbageUnlinked'
  <2>. SUFFICES ASSUME NEW q \in Procs, pc'[q] \in Jobs
       PROVE  Referenced \cap (loc'[q].todo \cup {loc'[q].card}) \subseteq exposed' \cup {None}
    BY <1>2 DEF GarbageUnlinked
  <2>1. CASE q = p
    BY <1>4, <1>6, <2>1
  <2>2. CASE q # p
    BY <1>3, <1>6, <2>2 DEF KeptInv, GarbageUnlinked
  <2>. QED  BY <2>1, <2>2
<1>9. IndexedKept'
  <2>. SUFFICES ASSUME NEW k \in assets
       PROVE  \/ k \in DOMAIN blobs' \cup exposed'
              \/ \E q \in Procs : pc'[q] = "gc.row" /\ loc'[q].card = k
    BY <1>1 DEF IndexedKept
  <2>1. CASE k \in DOMAIN blobs \cup exposed
    BY <1>6, <2>1
  <2>2. CASE \E q \in Procs : pc[q] = "gc.row" /\ loc[q].card = k
    BY <1>1, <1>3, <2>2
  <2>. QED  BY <2>1, <2>2 DEF KeptInv, IndexedKept
<1>10. StoredKept'
  <2>. SUFFICES ASSUME NEW q \in Procs, pc'[q] \in Indexing
       PROVE  loc'[q].card \in DOMAIN blobs' \cup exposed'
    BY DEF StoredKept
  <2>1. q # p /\ pc[q] \in Indexing /\ loc'[q] = loc[q]
    BY <1>3, <1>6 DEF Jobs, Indexing
  <2>2. loc[q].card \in DOMAIN blobs \cup exposed
    BY <2>1 DEF KeptInv, StoredKept
  <2>3. loc[q].card = h => Storing(h) # {}
    BY <2>1 DEF Storing, Indexing
  <2>. QED  BY <1>6, <2>1, <2>2, <2>3
<1>. QED  BY <1>7, <1>8, <1>9, <1>10 DEF KeptInv

\* The second deletion: the index row, and with it every link to the picture.
LEMMA SweepUnlinks ==
  ASSUME KeptInv, TypeInv', NEW p \in Procs, GcRow(p)
  PROVE  KeptInv'
<1>. DEFINE h == loc[p].card
<1>0. DOMAIN pc = Procs /\ DOMAIN loc = Procs
  BY DEF KeptInv, TypeInv, ProcsOK
<1>1. /\ pc[p] = "gc.row" /\ exposed' = exposed /\ blobs' = blobs /\ assets' = assets \ {h}
      /\ vers' = [v \in DOMAIN vers |-> [vers[v] EXCEPT !.avatar = IF @ = h THEN None ELSE @]]
      /\ personas' = [u \in DOMAIN personas |-> IF personas[u] = h THEN None ELSE personas[u]]
      /\ Goto(p, "gc.stat", [loc[p] EXCEPT !.card = None])
  BY DEF GcRow, history
<1>2. Local(loc[p])
  BY DEF KeptInv, TypeInv, Fits
<1>3. /\ \A q \in Procs : q # p => pc'[q] = pc[q] /\ loc'[q] = loc[q]
      /\ pc'[p] = "gc.stat" /\ loc'[p].card = None /\ loc'[p].todo = loc[p].todo
  BY <1>0, <1>1, <1>2 DEF Goto, Local
<1>4. Referenced' \subseteq Referenced \cup {None}
  <2>1. \A v \in DOMAIN vers : vers[v] \in VersRow
    BY DEF KeptInv, TypeInv, RowsOK, VersOK, VersRow
  <2>2. AvatarsFrom(None)
    BY <1>1, <2>1 DEF AvatarsFrom, VersRow
  <2>. QED  BY <2>2, ShownFrom
<1>5. ReferencedKept'
  BY <1>1, <1>4 DEF KeptInv, ReferencedKept
<1>6. GarbageUnlinked'
  <2>. SUFFICES ASSUME NEW q \in Procs, pc'[q] \in Jobs
       PROVE  Referenced' \cap (loc'[q].todo \cup {loc'[q].card}) \subseteq exposed \cup {None}
    BY <1>1 DEF GarbageUnlinked
  <2>1. pc[q] \in Jobs /\ loc'[q].todo \cup {loc'[q].card} \subseteq loc[q].todo \cup {loc[q].card, None}
    BY <1>1, <1>3 DEF Jobs
  <2>2. Referenced \cap (loc[q].todo \cup {loc[q].card}) \subseteq exposed \cup {None}
    BY <2>1 DEF KeptInv, GarbageUnlinked
  <2>. QED  BY <1>4, <2>1, <2>2
<1>7. IndexedKept'
  BY <1>1, <1>3 DEF KeptInv, IndexedKept
<1>8. StoredKept'
  BY <1>1, <1>3 DEF KeptInv, StoredKept, Indexing
<1>. QED  BY <1>5, <1>6, <1>7, <1>8 DEF KeptInv

\* An hour passes: no file comes or goes.
LEMMA AgeKeepsFiles ==
  ASSUME KeptInv, TypeInv', Age
  PROVE  KeptInv'
<1>1. DOMAIN blobs' = DOMAIN blobs /\ UNCHANGED <<assets, vers, personas, pc, loc, exposed>>
  BY DEF Age, tables, history
<1>2. Referenced' = Referenced
  BY <1>1 DEF Referenced
<1>3. ReferencedKept' /\ GarbageUnlinked'
  BY <1>1, <1>2 DEF KeptInv, ReferencedKept, GarbageUnlinked
<1>4. IndexedKept' /\ StoredKept'
  BY <1>1 DEF KeptInv, IndexedKept, StoredKept
<1>. QED  BY <1>3, <1>4 DEF KeptInv

\* A sweep that dies between its two deletions leaves an index row without file.
LEMMA CrashKeepsFiles ==
  ASSUME KeptInv, TypeInv', Crash
  PROVE  KeptInv'
<1>0. DOMAIN pc = Procs /\ DOMAIN loc = Procs
  BY DEF KeptInv, TypeInv, ProcsOK
<1>1. PICK S \in SUBSET {p \in Procs : pc[p] # "idle"} :
        /\ pc' = [p \in Procs |-> IF p \in S THEN "idle" ELSE pc[p]]
        /\ loc' = [p \in Procs |-> IF p \in S THEN Idle ELSE loc[p]]
        /\ exposed' = exposed \cup {loc[p].card : p \in {q \in S : pc[q] = "gc.row"}}
        /\ UNCHANGED <<tables, disk>>
  BY DEF Crash
<1>2. blobs' = blobs /\ assets' = assets /\ Referenced' = Referenced /\ exposed \subseteq exposed'
  BY <1>1 DEF tables, disk, Referenced
<1>3. \A q \in Procs : pc'[q] # "idle" => pc'[q] = pc[q] /\ loc'[q] = loc[q]
  BY <1>1
<1>4. ReferencedKept'
  BY <1>2 DEF KeptInv, ReferencedKept
<1>5. GarbageUnlinked'
  BY <1>2, <1>3 DEF KeptInv, GarbageUnlinked, Jobs
<1>6. IndexedKept'
  <2>1. \A q \in Procs : pc[q] = "gc.row" => \/ pc'[q] = "gc.row" /\ loc'[q] = loc[q]
                                             \/ loc[q].card \in exposed'
    BY <1>1
  <2>. QED  BY <1>2, <2>1 DEF KeptInv, IndexedKept
<1>7. StoredKept'
  BY <1>2, <1>3 DEF KeptInv, StoredKept, Indexing
<1>. QED  BY <1>4, <1>5, <1>6, <1>7 DEF KeptInv

-----------------------------------------------------------------------------
(***************************************************************************)
(* The theorem.                                                            *)
(***************************************************************************)
LEMMA KeptStep == KeptInv /\ [Next]_libVars => KeptInv'
<1>. SUFFICES ASSUME KeptInv, [Next]_libVars PROVE KeptInv'
  OBVIOUS
<1>0. TypeInv'
  BY TypeStep DEF KeptInv
<1>1. ASSUME NEW p \in Procs, VersionSteps(p)
      PROVE  KeptInv'
  BY <1>0, <1>1, VersionStepsLink, LinkKeeps, Unlinked
<1>2. ASSUME NEW p \in Procs, AssetSteps(p)
      PROVE  KeptInv'
  <2>1. CASE BackfillRead(p) \/ BackfillLink(p) \/ GcEnd(p)
             \/ PersonaCreate(p) \/ PersonaUpdate(p) \/ PersonaRemove(p)
    BY <1>0, <2>1, AssetStepsLink, LinkKeeps, Unlinked
  <2>2. CASE BackfillPut(p) \/ BackfillRow(p) \/ RebuildRow(p)
    BY <1>0, <2>2, PutKeeps, RowKeeps
  <2>3. CASE GcStart(p) \/ RebuildRead(p) \/ GcRemove(p) \/ GcRow(p)
    BY <1>0, <2>3, SweepStarts, SweepRemoves, SweepUnlinks
  <2>. QED  BY <1>2, <2>1, <2>2, <2>3 DEF AssetSteps
<1>3. ASSUME NEW p \in Procs, ImportSteps(p)
      PROVE  KeptInv'
  BY <1>0, <1>3, ImportStepsLink, LinkKeeps, Unlinked, PutKeeps, RowKeeps
<1>4. CASE Age \/ Crash
  BY <1>0, <1>4, AgeKeepsFiles, CrashKeepsFiles
<1>5. CASE UNCHANGED libVars
  <2>1. UNCHANGED <<vers, personas, assets, blobs, pc, loc, exposed>>
    BY <1>5 DEF libVars, tables, disk, history
  <2>2. Referenced' = Referenced
    BY <2>1 DEF Referenced
  <2>. QED  BY <1>0, <2>1, <2>2 DEF KeptInv, ReferencedKept, GarbageUnlinked, IndexedKept, StoredKept
<1>. QED  BY <1>1, <1>2, <1>3, <1>4, <1>5 DEF Next

\* An avatar that is shown has its file, for any requests and jobs: a picture
\* loses its bytes only if it was linked while a sweep already counted it as
\* garbage, or if the sweep died between its two deletions.
THEOREM ShownIsKept == Spec => []ReferencedKept
<1>1. Init => KeptInv
  <2>1. Init => ReferencedKept /\ GarbageUnlinked /\ IndexedKept /\ StoredKept
    BY DEF Init, ReferencedKept, GarbageUnlinked, IndexedKept, StoredKept, Referenced, Jobs, Indexing
  <2>. QED  BY <2>1, TypeInit DEF KeptInv
<1>2. KeptInv => ReferencedKept
  BY DEF KeptInv
<1>. QED  BY <1>1, <1>2, KeptStep, PTL DEF Spec

-----------------------------------------------------------------------------
(***************************************************************************)
(* What is pointed to is whole.  A version is written, given its lorebook  *)
(* and only then pointed to; until then nobody else knows of it.           *)
(***************************************************************************)
\* Steps of an edit of a version that is there, and steps at which a version is
\* written and nobody points to it.
Editors == {"update.pinned", "update.mint", "update.fork", "update.insert", "update.mutate"}
Holding == {"create.point", "update.point", "import.lore", "import.point"}

\* A version made from a card has its lorebook.
Whole(v) == vers[v].text \in Cards => vers[v].lore = LoreOf[vers[v].text]
PointedWhole == \A i \in DOMAIN items : items[i].cur # None => Whole(items[i].cur)

HeldAlone ==
  \A q \in Procs : pc[q] \in Holding =>
    /\ loc[q].ver # None
    /\ \A i \in DOMAIN items : items[i].cur # loc[q].ver
    /\ \A p \in Procs : /\ pc[p] \in Editors => loc[p].cur # loc[q].ver
                        /\ pc[p] \in Holding /\ p # q => loc[p].ver # loc[q].ver

\* How far its writer is.
HeldSoFar ==
  \A q \in Procs : pc[q] \in Holding /\ loc[q].ver \in DOMAIN vers =>
    LET v == vers[loc[q].ver]
    IN  /\ pc[q] \in {"create.point", "update.point"} => v.text \in Texts
        /\ pc[q] = "import.lore" => v.text = loc[q].card /\ v.lore < LoreOf[loc[q].card]
        /\ pc[q] = "import.point" => v.text = loc[q].card /\ v.lore = LoreOf[loc[q].card]

WholeInv == TypeInv /\ PointedWhole /\ HeldAlone /\ HeldSoFar

\* A step that moves no pointer but to nowhere, and writes no text or lorebook.
Unmoved ==
  /\ \A i \in DOMAIN items' : \/ items'[i].cur = None
                              \/ i \in DOMAIN items /\ items'[i].cur = items[i].cur
  /\ \A v \in DOMAIN vers' : v \in DOMAIN vers /\ vers'[v].text = vers[v].text /\ vers'[v].lore = vers[v].lore
  /\ \A q \in Procs : pc'[q] \in Holding => pc'[q] = pc[q] /\ loc'[q] = loc[q]
  /\ \A q \in Procs : pc'[q] \in Editors => pc[q] \in Editors /\ loc'[q].cur = loc[q].cur

\* A step that writes no version and no pointer, and after which nobody new holds one.
LEMMA UnmovedStaysWhole ==
  ASSUME WholeInv, TypeInv', Unmoved
  PROVE  WholeInv'
<1>1. PointedWhole'
  <2>. SUFFICES ASSUME NEW i \in DOMAIN items', items'[i].cur # None
       PROVE  vers'[items'[i].cur].text \in Cards =>
                vers'[items'[i].cur].lore = LoreOf[vers'[items'[i].cur].text]
    BY DEF PointedWhole, Whole
  <2>1. items'[i].cur \in DOMAIN vers'
    BY DEF TypeInv, RowsOK, ItemsOK
  <2>2. i \in DOMAIN items /\ items'[i].cur = items[i].cur
    BY DEF Unmoved
  <2>. QED  BY <2>1, <2>2 DEF Unmoved, WholeInv, PointedWhole, Whole
<1>2. HeldAlone'
  <2>. SUFFICES ASSUME NEW q \in Procs, pc'[q] \in Holding
       PROVE  /\ loc'[q].ver # None
              /\ \A i \in DOMAIN items' : items'[i].cur # loc'[q].ver
              /\ \A p \in Procs : /\ pc'[p] \in Editors => loc'[p].cur # loc'[q].ver
                                  /\ pc'[p] \in Holding /\ p # q => loc'[p].ver # loc'[q].ver
    BY DEF HeldAlone
  <2>. QED  BY DEF Unmoved, WholeInv, HeldAlone
<1>3. HeldSoFar'
  BY DEF Unmoved, WholeInv, HeldSoFar
<1>. QED  BY <1>1, <1>2, <1>3 DEF WholeInv

\* Nobody knows of the next version yet.
LEMMA NextIsFresh ==
  ASSUME TypeInv
  PROVE  /\ NewVer \notin DOMAIN vers /\ NewVer # None
         /\ \A i \in DOMAIN items : items[i].cur # NewVer
         /\ \A q \in Procs : loc[q].cur # NewVer /\ loc[q].ver # NewVer
<1>1. last.ver \in Nat /\ None \notin Nat /\ DOMAIN vers \subseteq 1..last.ver
      /\ \A i \in DOMAIN items : items[i].cur \in {None} \cup 1..last.ver
  BY ReadIds, Constants DEF TypeInv, RowsOK, IdsOK
<1>2. \A q \in Procs : loc[q].cur \in {None} \cup 1..last.ver /\ loc[q].ver \in {None} \cup 1..last.ver
  BY DEF TypeInv, Fits, Local
<1>. QED  BY <1>1, <1>2 DEF NewVer

\* A new version is held by the process that wrote it.
LEMMA NewStaysWhole ==
  ASSUME WholeInv, TypeInv', NEW p \in Procs, NEW l, NEW row, Others(p),
         pc'[p] = l, loc'[p].ver = NewVer, l \in Holding,
         items' = items, vers' = Row(vers, NewVer, row),
         l \in {"create.point", "update.point"} => row.text \in Texts,
         l = "import.lore" => row.text = loc'[p].card /\ row.lore < LoreOf[loc'[p].card],
         l = "import.point" => row.text = loc'[p].card /\ row.lore = LoreOf[loc'[p].card]
  PROVE  WholeInv'
<1>. DEFINE n == NewVer
<1>0. /\ n \notin DOMAIN vers /\ n # None
      /\ \A i \in DOMAIN items : items[i].cur # n
      /\ \A q \in Procs : loc[q].cur # n /\ loc[q].ver # n
  BY NextIsFresh DEF WholeInv
<1>. HIDE DEF n
<1>1. /\ DOMAIN vers' = DOMAIN vers \cup {n} /\ vers'[n] = row
      /\ \A v \in DOMAIN vers : vers'[v] = vers[v]
      /\ loc'[p].ver = n
  BY <1>0 DEF Row, n
<1>2. PointedWhole'
  <2>. SUFFICES ASSUME NEW i \in DOMAIN items, items[i].cur # None
       PROVE  vers'[items[i].cur].text \in Cards =>
                vers'[items[i].cur].lore = LoreOf[vers'[items[i].cur].text]
    BY DEF PointedWhole, Whole
  <2>1. items[i].cur \in DOMAIN vers
    BY DEF WholeInv, TypeInv, RowsOK, ItemsOK
  <2>. QED  BY <1>1, <2>1 DEF WholeInv, PointedWhole, Whole
<1>3. HeldAlone'
  <2>. SUFFICES ASSUME NEW q \in Procs, pc'[q] \in Holding
       PROVE  /\ loc'[q].ver # None
              /\ \A i \in DOMAIN items' : items'[i].cur # loc'[q].ver
              /\ \A x \in Procs : /\ pc'[x] \in Editors => loc'[x].cur # loc'[q].ver
                                  /\ pc'[x] \in Holding /\ x # q => loc'[x].ver # loc'[q].ver
    BY DEF HeldAlone
  <2>1. pc'[p] \notin Editors
    BY DEF Holding, Editors
  <2>2. CASE q = p
    BY <1>0, <1>1, <2>1, <2>2 DEF Others
  <2>3. CASE q # p
    BY <1>0, <1>1, <2>1, <2>3 DEF Others, WholeInv, HeldAlone
  <2>. QED  BY <2>2, <2>3
<1>4. HeldSoFar'
  <2>. SUFFICES ASSUME NEW q \in Procs, pc'[q] \in Holding, loc'[q].ver \in DOMAIN vers'
       PROVE  LET v == vers'[loc'[q].ver]
              IN  /\ pc'[q] \in {"create.point", "update.point"} => v.text \in Texts
                  /\ pc'[q] = "import.lore" => v.text = loc'[q].card /\ v.lore < LoreOf[loc'[q].card]
                  /\ pc'[q] = "import.point" => v.text = loc'[q].card /\ v.lore = LoreOf[loc'[q].card]
    BY DEF HeldSoFar
  <2>1. CASE q = p
    BY <1>1, <2>1
  <2>2. CASE q # p
    BY <1>0, <1>1, <2>2 DEF Others, WholeInv, HeldSoFar
  <2>. QED  BY <2>1, <2>2
<1>. QED  BY <1>2, <1>3, <1>4 DEF WholeInv

\* The pointer moves to the version its process holds.
LEMMA PointStaysWhole ==
  ASSUME WholeInv, TypeInv', NEW p \in Procs, Others(p), pc[p] \in Holding \ {"import.lore"},
         pc'[p] \notin Holding \cup Editors, vers' = vers, DOMAIN items' = DOMAIN items,
         \A i \in DOMAIN items : \/ items'[i].cur = items[i].cur
                                 \/ i = loc[p].item /\ items'[i].cur = loc[p].ver
  PROVE  WholeInv'
<1>0. At(pc[p], loc[p])
  BY DEF WholeInv, TypeInv, Fits
<1>1. loc[p].item \in DOMAIN items => loc[p].ver \in DOMAIN vers /\ Whole(loc[p].ver)
  <2>1. Written(loc[p])
    BY <1>0 DEF At, Holding
  <2>2. /\ LoreOf \in [Cards -> Nat] /\ Texts \cap Cards = {}
    BY LibraryAssumption
  <2>. QED  BY <2>1, <2>2 DEF Written, WholeInv, HeldSoFar, Holding, Whole
<1>2. PointedWhole'
  BY <1>1 DEF WholeInv, PointedWhole, Whole
<1>3. HeldAlone'
  BY DEF WholeInv, HeldAlone, Others
<1>4. HeldSoFar'
  BY DEF WholeInv, HeldSoFar, Others
<1>. QED  BY <1>2, <1>3, <1>4 DEF WholeInv

\* Requests of an editor that begin, look, delete or change a name.
LEMMA VersionsUnmoved ==
  ASSUME TypeInv, NEW p \in Procs, VersionSteps(p), ~CharacterUpdate(p), ~PresetUpdate(p),
         ~CreateVersion(p), ~UpdateMint(p), ~UpdateInsert(p), ~CreatePoint(p), ~UpdatePoint(p),
         ~UpdateMutate(p)
  PROVE  Unmoved
<1>0. DOMAIN pc = Procs /\ DOMAIN loc = Procs
  BY DEF TypeInv, ProcsOK
<1>a. \A i \in DOMAIN items : items[i] \in ItemRow
  BY DEF TypeInv, RowsOK, ItemsOK, ItemRow
<1>b. Local(loc[p])
  BY DEF TypeInv, Fits
<1>1. CASE CharacterCreate(p) \/ PresetCreate(p) \/ RemoveRead(p) \/ OpenLook(p)
  <2>1. \E l, r : Goto(p, l, r) /\ l \in {"create.insert", "remove.list", "open.preset"}
                  /\ UNCHANGED <<items, vers>>
    BY <1>1 DEF CharacterCreate, PresetCreate, RemoveRead, OpenLook, Begin, Request, tables
  <2>. QED  BY <1>0, <2>1 DEF Goto, Unmoved, Holding, Editors
<1>2. CASE UpdatePinned(p) \/ CharacterFork(p) \/ PresetFork(p)
  <2>1. UNCHANGED <<items, vers>> /\ pc[p] \in Editors
    BY <1>2 DEF UpdatePinned, CharacterFork, PresetFork, ForkRead, tables, Editors
  <2>2. /\ pc'[p] \notin Holding
        /\ \A q \in Procs : q # p => pc'[q] = pc[q] /\ loc'[q] = loc[q]
    BY <1>0, <1>2 DEF UpdatePinned, CharacterFork, PresetFork, ForkRead, Goto, Finish, Holding
  <2>3. pc'[p] \in Editors => loc'[p].cur = loc[p].cur
    <3>1. CASE UpdatePinned(p)
      BY <1>0, <1>b, <3>1 DEF UpdatePinned, Goto, Local
    <3>2. CASE CharacterFork(p) \/ PresetFork(p)
      <4>1. Finish(p) \/ \E l, n, a : Goto(p, l, [loc[p] EXCEPT !.num = n, !.avatar = a])
        BY <3>2 DEF CharacterFork, PresetFork, ForkRead
      <4>. QED  BY <1>0, <1>b, <4>1 DEF Goto, Finish, Local, Editors
    <3>. QED  BY <1>2, <3>1, <3>2
  <2>. QED  BY <2>1, <2>2, <2>3 DEF Unmoved
<1>3. CASE RemoveList(p) \/ RemoveCheck(p) \/ OpenPreset(p) \/ OpenInsert(p)
  <2>1. UNCHANGED <<items, vers>>
    BY <1>3 DEF RemoveList, RemoveCheck, OpenPreset, OpenInsert, tables
  <2>. QED  BY <1>0, <1>3, <2>1 DEF RemoveList, RemoveCheck, OpenPreset, OpenInsert, Goto, Finish,
       Unmoved, Holding, Editors
<1>4. CASE CreateInsert(p)
  BY <1>0, <1>4 DEF CreateInsert, Row, Goto, Finish, Unmoved, Holding, Editors
<1>5. CASE UpdateIdentity(p) \/ RemoveUnpoint(p)
  BY <1>0, <1>a, <1>5 DEF UpdateIdentity, RemoveUnpoint, ItemRow, Goto, Finish, Unmoved, Holding, Editors
<1>6. CASE RemoveDelete(p)
  BY <1>0, <1>6 DEF RemoveDelete, Without, Goto, Finish, Unmoved, Holding, Editors
<1>7. CASE ChatRemove(p)
  BY <1>7 DEF ChatRemove, Unmoved
<1>. QED  BY <1>1, <1>2, <1>3, <1>4, <1>5, <1>6, <1>7 DEF VersionSteps

\* The tree and the avatars.
LEMMA AssetsUnmoved ==
  ASSUME TypeInv, NEW p \in Procs, AssetSteps(p)
  PROVE  Unmoved
<1>0. DOMAIN pc = Procs /\ DOMAIN loc = Procs
  BY DEF TypeInv, ProcsOK
<1>a. \A v \in DOMAIN vers : vers[v] \in VersRow
  BY DEF TypeInv, RowsOK, VersOK, VersRow
<1>1. items' = items
  BY DEF AssetSteps, BackfillRead, BackfillPut, BackfillRow, BackfillLink, GcStart, GcRemove, GcRow, GcEnd,
     RebuildRead, RebuildRow, PersonaCreate, PersonaUpdate, PersonaWrite, PersonaRemove, tables
<1>2. /\ DOMAIN vers' = DOMAIN vers
      /\ \A v \in DOMAIN vers : vers'[v].text = vers[v].text /\ vers'[v].lore = vers[v].lore
  <2>1. CASE BackfillLink(p)
    BY <1>a, <2>1 DEF BackfillLink, VersRow
  <2>2. CASE GcRow(p)
    BY <1>a, <2>2 DEF GcRow, VersRow
  <2>3. CASE ~BackfillLink(p) /\ ~GcRow(p)
    <3>1. vers' = vers
      BY <2>3 DEF AssetSteps, BackfillRead, BackfillPut, BackfillRow, GcStart, GcRemove, GcEnd,
         RebuildRead, RebuildRow, PersonaCreate, PersonaUpdate, PersonaWrite, PersonaRemove, tables
    <3>. QED  BY <3>1
  <2>. QED  BY <2>1, <2>2, <2>3
<1>3. /\ \A q \in Procs : q # p => pc'[q] = pc[q] /\ loc'[q] = loc[q]
      /\ pc'[p] \in Holding \cup Editors => pc'[p] = pc[p] /\ loc'[p] = loc[p]
  BY <1>0 DEF AssetSteps, BackfillRead, BackfillPut, BackfillRow, BackfillLink, GcStart, GcRemove, GcRow, GcEnd,
     RebuildRead, RebuildRow, PersonaCreate, PersonaUpdate, PersonaWrite, PersonaRemove, Begin, Goto, Finish,
     Holding, Editors
<1>. QED  BY <1>1, <1>2, <1>3 DEF Unmoved

\* An import but for its version, its lorebook and its pointer.
LEMMA ImportsUnmoved ==
  ASSUME TypeInv, NEW p \in Procs, ImportSteps(p), ~ImportVersion(p), ~ImportLore(p), ~ImportPoint(p)
  PROVE  Unmoved
<1>0. DOMAIN pc = Procs /\ DOMAIN loc = Procs
  BY DEF TypeInv, ProcsOK
<1>1. CASE ImportCharacter(p)
  BY <1>0, <1>1 DEF ImportCharacter, Row, Goto, Finish, Unmoved, Holding, Editors
<1>2. CASE ~ImportCharacter(p)
  <2>1. UNCHANGED <<items, vers>>
    BY <1>2 DEF ImportSteps, ImportCard, ImportPut, ImportRow, ImportRead, ImportMax, ImportLoose,
       ChatDup, ChatInsert, ChatMessage, ChatBranches, ChatLink, tables
  <2>2. /\ \A q \in Procs : q # p => pc'[q] = pc[q] /\ loc'[q] = loc[q]
        /\ pc'[p] \notin Holding \cup Editors
    BY <1>0, <1>2 DEF ImportSteps, ImportCard, ImportPut, ImportRow, ImportRead, ImportMax, ImportLoose,
       ChatDup, ChatInsert, ChatMessage, NextFile, ChatBranches, ChatLink, Begin, Goto, Finish, Holding, Editors
  <2>. QED  BY <2>1, <2>2 DEF Unmoved
<1>. QED  BY <1>1, <1>2

-----------------------------------------------------------------------------
\* An edit takes up a version that is pointed to, so nobody holds it.
LEMMA UpdateStaysWhole ==
  ASSUME WholeInv, TypeInv', NEW p \in Procs, CharacterUpdate(p) \/ PresetUpdate(p)
  PROVE  WholeInv'
<1>0. DOMAIN pc = Procs /\ DOMAIN loc = Procs
  BY DEF WholeInv, TypeInv, ProcsOK
<1>1. PICK i \in DOMAIN items : \E t, h, a : UpdateRead(p, i, t, h, a)
  BY DEF CharacterUpdate, PresetUpdate
<1>2. /\ UNCHANGED <<items, vers>>
      /\ \A q \in Procs : q # p => pc'[q] = pc[q] /\ loc'[q] = loc[q]
      /\ pc'[p] \in {"update.pinned", "update.identity"} /\ loc'[p].cur = items[i].cur
  BY <1>0, <1>1 DEF UpdateRead, Begin, Goto, tables, Idle
<1>3. pc'[p] \notin Holding
  BY <1>2 DEF Holding
<1>4. PointedWhole' /\ HeldSoFar'
  BY <1>2, <1>3 DEF WholeInv, PointedWhole, Whole, HeldSoFar
<1>5. HeldAlone'
  BY <1>2, <1>3 DEF WholeInv, HeldAlone
<1>. QED  BY <1>4, <1>5 DEF WholeInv

\* The version of a new row, of a fork, or the first one of an edit.
LEMMA InsertStaysWhole ==
  ASSUME WholeInv, TypeInv', NEW p \in Procs, CreateVersion(p) \/ UpdateMint(p) \/ UpdateInsert(p)
  PROVE  WholeInv'
<1>. DEFINE r == loc[p]
            row == Version(r.item, r.num, r.text, r.avatar)
<1>0. DOMAIN pc = Procs /\ DOMAIN loc = Procs /\ Local(r) /\ At(pc[p], r)
  BY DEF WholeInv, TypeInv, ProcsOK, Fits
<1>1. /\ pc[p] \in {"create.version", "update.mint", "update.insert"} /\ UNCHANGED items
      /\ \E l \in {"create.point", "update.point"} : InsertVersion(p, l)
  BY DEF CreateVersion, UpdateMint, UpdateInsert
<1>2. r.text \in Texts
  BY <1>0, <1>1 DEF At, Edits
<1>3. CASE VersionFits(r.item, r.num, r.avatar)
  <2>1. PICK l \in {"create.point", "update.point"} : InsertVersion(p, l)
    BY <1>1
  <2>2. /\ vers' = Row(vers, NewVer, row)
        /\ Goto(p, l, [r EXCEPT !.ver = NewVer])
    BY <1>3, <2>1 DEF InsertVersion
  <2>3. Others(p) /\ pc'[p] = l /\ loc'[p].ver = NewVer
    BY <1>0, <2>2 DEF Goto, Others, Local
  <2>4. row.text \in Texts
    BY <1>2 DEF Version
  <2>. HIDE DEF row
  <2>. QED  BY <1>1, <2>2, <2>3, <2>4, NewStaysWhole DEF Holding
<1>4. CASE ~VersionFits(r.item, r.num, r.avatar)
  <2>1. UNCHANGED <<items, vers>> /\ Finish(p)
    BY <1>1, <1>4 DEF InsertVersion
  <2>2. Unmoved
    BY <1>0, <2>1 DEF Goto, Finish, Unmoved, Holding, Editors
  <2>. QED  BY <2>2, UnmovedStaysWhole
<1>. QED  BY <1>3, <1>4

\* The last statement of a write.
LEMMA PointsStayWhole ==
  ASSUME WholeInv, TypeInv', NEW p \in Procs, CreatePoint(p) \/ UpdatePoint(p) \/ ImportPoint(p)
  PROVE  WholeInv'
<1>0. DOMAIN pc = Procs /\ DOMAIN loc = Procs /\ \A i \in DOMAIN items : items[i] \in ItemRow
  BY DEF WholeInv, TypeInv, ProcsOK, RowsOK, ItemsOK, ItemRow
<1>1. /\ pc[p] \in Holding \ {"import.lore"} /\ vers' = vers
      /\ Others(p) /\ pc'[p] \notin Holding \cup Editors
  BY <1>0 DEF CreatePoint, UpdatePoint, ImportPoint, SetPointer, Goto, Finish, Others, Holding, Editors
<1>2. /\ DOMAIN items' = DOMAIN items
      /\ \A i \in DOMAIN items : \/ items'[i].cur = items[i].cur
                                 \/ i = loc[p].item /\ items'[i].cur = loc[p].ver
  BY <1>0 DEF CreatePoint, UpdatePoint, ImportPoint, SetPointer, ItemRow
<1>. QED  BY <1>1, <1>2, PointStaysWhole

\* An edit in place writes a user's text into a version that nobody holds.
LEMMA MutateStaysWhole ==
  ASSUME WholeInv, TypeInv', NEW p \in Procs, UpdateMutate(p)
  PROVE  WholeInv'
<1>. DEFINE v == loc[p].cur
<1>0. DOMAIN pc = Procs /\ DOMAIN loc = Procs /\ At(pc[p], loc[p]) /\ \A w \in DOMAIN vers : vers[w] \in VersRow
  BY DEF WholeInv, TypeInv, ProcsOK, Fits, RowsOK, VersOK, VersRow
<1>1. /\ items' = items /\ pc[p] = "update.mutate" /\ DOMAIN vers' = DOMAIN vers
      /\ \A w \in DOMAIN vers : w # v => vers'[w] = vers[w]
      /\ Others(p) /\ pc'[p] \notin Holding \cup Editors
  BY <1>0 DEF UpdateMutate, Goto, Finish, Others, Holding, Editors
<1>2. loc[p].text \in Texts /\ Texts \cap Cards = {}
  BY <1>0, <1>1, Constants DEF At, Edits
<1>3. v \in DOMAIN vers => vers'[v] = vers[v] \/ vers'[v].text \in Texts
  BY <1>0, <1>2 DEF UpdateMutate, VersRow
<1>4. PointedWhole'
  <2>. SUFFICES ASSUME NEW i \in DOMAIN items, items[i].cur # None
       PROVE  vers'[items[i].cur].text \in Cards =>
                vers'[items[i].cur].lore = LoreOf[vers'[items[i].cur].text]
    BY <1>1 DEF PointedWhole, Whole
  <2>1. items[i].cur \in DOMAIN vers
    BY DEF WholeInv, TypeInv, RowsOK, ItemsOK
  <2>2. \/ vers'[items[i].cur].text \in Texts
        \/ vers'[items[i].cur] = vers[items[i].cur]
    BY <1>1, <1>3, <2>1
  <2>. QED  BY <1>2, <2>2 DEF WholeInv, PointedWhole, Whole
<1>5. HeldAlone'
  BY <1>1 DEF WholeInv, HeldAlone, Others
<1>6. HeldSoFar'
  <2>. SUFFICES ASSUME NEW q \in Procs, pc'[q] \in Holding, loc'[q].ver \in DOMAIN vers'
       PROVE  q # p /\ pc'[q] = pc[q] /\ loc'[q] = loc[q] /\ vers'[loc[q].ver] = vers[loc[q].ver]
    BY <1>1 DEF WholeInv, HeldSoFar
  <2>1. q # p /\ pc'[q] = pc[q] /\ loc'[q] = loc[q]
    BY <1>1 DEF Others
  <2>2. loc[q].ver # v
    BY <1>1, <2>1 DEF WholeInv, HeldAlone, Editors
  <2>. QED  BY <1>1, <2>1, <2>2
<1>. QED  BY <1>4, <1>5, <1>6 DEF WholeInv

\* The version of a card, without its lorebook.
LEMMA ImportVersionStaysWhole ==
  ASSUME WholeInv, TypeInv', NEW p \in Procs, ImportVersion(p)
  PROVE  WholeInv'
<1>. DEFINE r == loc[p]
            row == [of |-> r.item, num |-> r.num, text |-> r.text, avatar |-> r.avatar, lore |-> 0]
            l == AfterVersion(p, 0)
<1>0. DOMAIN pc = Procs /\ DOMAIN loc = Procs /\ Local(r) /\ At(pc[p], r) /\ LoreOf \in [Cards -> Nat]
  BY LibraryAssumption DEF WholeInv, TypeInv, ProcsOK, Fits
<1>1. /\ pc[p] = "import.version" /\ UNCHANGED items
      /\ r.card \in Cards /\ r.text = r.card
  BY <1>0 DEF ImportVersion, At, Brings
<1>2. /\ l = "import.lore" => 0 < LoreOf[r.card]
      /\ l = "import.point" => 0 = LoreOf[r.card]
      /\ l \in {"import.lore", "import.point"}
  BY <1>0, <1>1 DEF AfterVersion
<1>3. CASE VersionFits(r.item, r.num, r.avatar)
  <2>2. vers' = Row(vers, NewVer, row) /\ Goto(p, l, [r EXCEPT !.ver = NewVer])
    BY <1>3 DEF ImportVersion
  <2>3. Others(p) /\ pc'[p] = l /\ loc'[p].ver = NewVer /\ loc'[p].card = r.card
    BY <1>0, <2>2 DEF Goto, Others, Local
  <2>4. row.text = r.card /\ row.lore = 0
    BY <1>1
  <2>. HIDE DEF row, l
  <2>. QED  BY <1>1, <1>2, <2>2, <2>3, <2>4, NewStaysWhole DEF Holding
<1>4. CASE ~VersionFits(r.item, r.num, r.avatar)
  <2>1. UNCHANGED <<items, vers>> /\ Finish(p)
    BY <1>1, <1>4 DEF ImportVersion
  <2>2. Unmoved
    BY <1>0, <2>1 DEF Goto, Finish, Unmoved, Holding, Editors
  <2>. QED  BY <2>2, UnmovedStaysWhole
<1>. QED  BY <1>3, <1>4

\* One entry more, of a version that nobody else knows of.
LEMMA LoreStaysWhole ==
  ASSUME WholeInv, TypeInv', NEW p \in Procs, ImportLore(p)
  PROVE  WholeInv'
<1>. DEFINE r == loc[p]
            v == r.ver
            n == vers[v].lore + 1
<1>0. /\ DOMAIN pc = Procs /\ DOMAIN loc = Procs /\ At(pc[p], r)
      /\ LoreOf \in [Cards -> Nat] /\ \A w \in DOMAIN vers : vers[w] \in VersRow
  BY LibraryAssumption DEF WholeInv, TypeInv, ProcsOK, Fits, RowsOK, VersOK, VersRow
<1>1. items' = items /\ pc[p] = "import.lore" /\ r.card \in Cards
  BY <1>0 DEF ImportLore, At, Brings
<1>2. CASE v \in DOMAIN vers
  <2>1. /\ vers' = [vers EXCEPT ![v].lore = n] /\ Goto(p, AfterVersion(p, n), r)
    BY <1>2 DEF ImportLore
  <2>2. vers[v].text = r.card /\ n - 1 < LoreOf[r.card] /\ n \in Nat
    BY <1>0, <1>1, <1>2 DEF WholeInv, HeldSoFar, Holding, VersRow
  <2>3. /\ DOMAIN vers' = DOMAIN vers /\ \A w \in DOMAIN vers : w # v => vers'[w] = vers[w]
        /\ vers'[v].text = r.card /\ vers'[v].lore = n
    BY <1>0, <1>2, <2>1, <2>2 DEF VersRow
  <2>4. /\ Others(p) /\ loc'[p] = r /\ pc'[p] \in {"import.lore", "import.point"}
        /\ pc'[p] = "import.lore" => n < LoreOf[r.card]
        /\ pc'[p] = "import.point" => n = LoreOf[r.card]
    BY <1>0, <1>1, <2>1, <2>2 DEF Goto, Others, AfterVersion
  <2>. HIDE DEF n
  <2>5. /\ v # None
        /\ \A i \in DOMAIN items : items[i].cur # v
        /\ \A q \in Procs : /\ pc[q] \in Editors => loc[q].cur # v
                            /\ pc[q] \in Holding /\ q # p => loc[q].ver # v
    BY <1>1 DEF WholeInv, HeldAlone, Holding
  <2>6. PointedWhole'
    <3>. SUFFICES ASSUME NEW i \in DOMAIN items, items[i].cur # None
         PROVE  vers'[items[i].cur].text \in Cards =>
                  vers'[items[i].cur].lore = LoreOf[vers'[items[i].cur].text]
      BY <1>1 DEF PointedWhole, Whole
    <3>1. items[i].cur \in DOMAIN vers
      BY DEF WholeInv, TypeInv, RowsOK, ItemsOK
    <3>. QED  BY <2>3, <2>5, <3>1 DEF WholeInv, PointedWhole, Whole
  <2>7. HeldAlone'
    BY <1>1, <2>4 DEF WholeInv, HeldAlone, Others, Holding, Editors
  <2>8. HeldSoFar'
    <3>. SUFFICES ASSUME NEW q \in Procs, pc'[q] \in Holding, loc'[q].ver \in DOMAIN vers'
         PROVE  LET x == vers'[loc'[q].ver]
                IN  /\ pc'[q] \in {"create.point", "update.point"} => x.text \in Texts
                    /\ pc'[q] = "import.lore" => x.text = loc'[q].card /\ x.lore < LoreOf[loc'[q].card]
                    /\ pc'[q] = "import.point" => x.text = loc'[q].card /\ x.lore = LoreOf[loc'[q].card]
      BY DEF HeldSoFar
    <3>1. CASE q = p
      BY <2>3, <2>4, <3>1
    <3>2. CASE q # p
      <4>1. pc'[q] = pc[q] /\ loc'[q] = loc[q] /\ loc[q].ver # v
        BY <2>4, <2>5, <3>2 DEF Others
      <4>2. vers'[loc[q].ver] = vers[loc[q].ver] /\ loc[q].ver \in DOMAIN vers
        BY <2>3, <4>1
      <4>. QED  BY <4>1, <4>2 DEF WholeInv, HeldSoFar
    <3>. QED  BY <3>1, <3>2
  <2>. QED  BY <2>6, <2>7, <2>8 DEF WholeInv
<1>3. CASE v \notin DOMAIN vers
  <2>1. UNCHANGED <<items, vers>> /\ Finish(p)
    BY <1>1, <1>3 DEF ImportLore
  <2>2. Unmoved
    BY <1>0, <2>1 DEF Goto, Finish, Unmoved, Holding, Editors
  <2>. QED  BY <2>2, UnmovedStaysWhole
<1>. QED  BY <1>2, <1>3

\* Every step keeps what is pointed to whole.
LEMMA WholeStep == WholeInv /\ [Next]_libVars => WholeInv'
<1>. SUFFICES ASSUME WholeInv, [Next]_libVars PROVE WholeInv'
  OBVIOUS
<1>0. TypeInv /\ TypeInv'
  BY TypeStep DEF WholeInv
<1>1. ASSUME NEW p \in Procs, VersionSteps(p)
      PROVE  WholeInv'
  BY <1>0, <1>1, VersionsUnmoved, UnmovedStaysWhole, UpdateStaysWhole, InsertStaysWhole,
     PointsStayWhole, MutateStaysWhole
<1>2. ASSUME NEW p \in Procs, AssetSteps(p)
      PROVE  WholeInv'
  BY <1>0, <1>2, AssetsUnmoved, UnmovedStaysWhole
<1>3. ASSUME NEW p \in Procs, ImportSteps(p)
      PROVE  WholeInv'
  BY <1>0, <1>3, ImportsUnmoved, UnmovedStaysWhole, ImportVersionStaysWhole, LoreStaysWhole,
     PointsStayWhole
<1>4. CASE Age \/ UNCHANGED libVars
  <2>1. UNCHANGED <<items, vers, pc, loc>>
    BY <1>4 DEF Age, libVars, tables
  <2>. QED  BY <1>0, <2>1, UnmovedStaysWhole DEF Unmoved
<1>5. CASE Crash
  <2>1. /\ UNCHANGED <<items, vers>>
        /\ \A q \in Procs : pc'[q] = "idle" \/ (pc'[q] = pc[q] /\ loc'[q] = loc[q])
    BY <1>5 DEF Crash, tables
  <2>2. Unmoved
    BY <2>1 DEF Unmoved, Holding, Editors
  <2>. QED  BY <1>0, <2>2, UnmovedStaysWhole
<1>. QED  BY <1>1, <1>2, <1>3, <1>4, <1>5 DEF Next

\* Nothing is pointed to at first.
LEMMA WholeInit == Init => WholeInv
<1>1. Init => PointedWhole /\ HeldAlone /\ HeldSoFar
  BY DEF Init, PointedWhole, HeldAlone, HeldSoFar, Holding
<1>. QED  BY <1>1, TypeInit DEF WholeInv

-----------------------------------------------------------------------------
(***************************************************************************)
(* What is pointed to is the latest.                                       *)
(***************************************************************************)
\* The numbers of a row's versions; no two versions of a row have the same.
Nums(i) == {vers[v].num : v \in VersionsOf(i)}
NumbersApart ==
  \A v, w \in DOMAIN vers : vers[v].of = vers[w].of /\ vers[v].num = vers[w].num => v = w

\* v is the last version of i, or there is none.
AtLast(i, v) ==
  IF v = None THEN VersionsOf(i) = {} ELSE v \in VersionsOf(i) /\ vers[v].num = MaxNumber(i)

\* What a writer of i has seen or done, if it is the only one.
SoFar(p, i) ==
  /\ pc[p] \in {"create.version", "update.mint"} => loc[p].num = 1 /\ VersionsOf(i) = {}
  /\ pc[p] \in Holding => AtLast(i, loc[p].ver)
  /\ pc[p] \in Writing \ (Holding \cup {"create.version", "remove.delete"}) => AtLast(i, items[i].cur)
  /\ pc[p] \in Editors => loc[p].cur = items[i].cur
  /\ pc[p] \in {"update.insert", "import.version"} => loc[p].num = MaxNumber(i) + 1

\* A row nobody met on: numbers without a gap, one writer at most, and between
\* writes the pointer at the last version.
Tidy(i) ==
  i \notin tangled =>
    /\ Nums(i) = 1..MaxNumber(i)
    /\ Writers(i) = {} => AtLast(i, items[i].cur)
    /\ \A p, q \in Writers(i) : p = q
    /\ \A p \in Writers(i) : SoFar(p, i)

NumberInv == TypeInv /\ NumbersApart /\ \A i \in DOMAIN items : Tidy(i)

-----------------------------------------------------------------------------
\* The maximum of the numbers up to n.
LEMMA MaxOfRun ==
  ASSUME NEW n \in Nat
  PROVE  Max({0} \cup 1..n) = n
<1>. DEFINE S == {0} \cup 1..n
<1>0. S = 0..n
  <2>1. \A x : x \in S <=> x \in 0..n
    OBVIOUS
  <2>. HIDE DEF S
  <2>. QED  BY <2>1
<1>1. S \subseteq Nat /\ S # {} /\ IsFiniteSet(S)
  <2>1. IsFiniteSet(0..n) /\ 0..n \subseteq Nat /\ 0 \in 0..n
    BY FS_Interval
  <2>. HIDE DEF S
  <2>. QED  BY <1>0, <2>1
<1>2. n \in S /\ \A m \in S : m <= n
  OBVIOUS
<1>. HIDE DEF S
<1>3. Max(S) \in S /\ \A m \in S : m <= Max(S)
  BY <1>1, MaxOfNats
<1>4. Max(S) <= n /\ n <= Max(S) /\ Max(S) \in Nat
  BY <1>1, <1>2, <1>3
<1>5. Max(S) = n
  BY <1>4
<1>. QED  BY <1>5 DEF S

\* The versions of i are those of before.
SameVersions(i) ==
  /\ VersionsOf(i)' = VersionsOf(i)
  /\ \A v \in VersionsOf(i) : vers'[v].num = vers[v].num

\* Versions that stay as they are have the numbers they had.
LEMMA SameNumbers ==
  ASSUME NEW i, SameVersions(i)
  PROVE  /\ Nums(i)' = Nums(i) /\ MaxNumber(i)' = MaxNumber(i)
         /\ \A v : AtLast(i, v)' = AtLast(i, v)
<1>1. Nums(i)' = Nums(i)
  BY DEF SameVersions, Nums
<1>2. MaxNumber(i) = Max({0} \cup Nums(i)) /\ MaxNumber(i)' = Max({0} \cup Nums(i)')
  BY DEF MaxNumber, Nums
<1>3. MaxNumber(i)' = MaxNumber(i)
  BY <1>1, <1>2
<1>4. ASSUME NEW v PROVE AtLast(i, v)' = AtLast(i, v)
  BY <1>3 DEF AtLast, SameVersions
<1>. QED  BY <1>1, <1>3, <1>4

\* A write to a version that keeps its owner and number changes no numbers.
LEMMA KeepsNumbers ==
  ASSUME NumberInv, DOMAIN vers' = DOMAIN vers,
         \A v \in DOMAIN vers : vers'[v].of = vers[v].of /\ vers'[v].num = vers[v].num
  PROVE  NumbersApart' /\ \A i : SameVersions(i)
<1>1. NumbersApart'
  BY DEF NumberInv, NumbersApart
<1>2. ASSUME NEW i PROVE SameVersions(i)
  BY DEF SameVersions, VersionsOf
<1>. QED  BY <1>1, <1>2

\* A row that the step does not concern.
LEMMA StaysTidy ==
  ASSUME NumberInv, NEW i \in DOMAIN items, SameVersions(i), items'[i].cur = items[i].cur,
         i \in tangled => i \in tangled', NEW p \in Procs, Others(p),
         pc[p] \in Writing => loc[p].item # i, pc'[p] \in Writing => loc'[p].item # i
  PROVE  Tidy(i)'
<1>. SUFFICES ASSUME i \notin tangled' PROVE Tidy(i)'
  BY DEF Tidy
<1>1. Tidy(i) /\ i \notin tangled
  BY DEF NumberInv
<1>2. Writers(i)' = Writers(i) /\ p \notin Writers(i)
  BY DEF Writers, Others
<1>3. \A q \in Writers(i) : q \in Procs /\ pc'[q] = pc[q] /\ loc'[q] = loc[q]
  BY <1>2 DEF Writers, Others
<1>4. /\ Nums(i)' = Nums(i) /\ MaxNumber(i)' = MaxNumber(i) /\ VersionsOf(i)' = VersionsOf(i)
      /\ \A v : AtLast(i, v)' = AtLast(i, v)
  BY SameNumbers DEF SameVersions
<1>5. AtLast(i, items[i].cur)' = AtLast(i, items[i].cur)
  BY <1>4
<1>6. ASSUME NEW q \in Writers(i) PROVE SoFar(q, i)'
  <2>1. SoFar(q, i)
    BY <1>1 DEF Tidy
  <2>2. AtLast(i, loc[q].ver)' = AtLast(i, loc[q].ver)
    BY <1>3, <1>4
  <2>. QED  BY <1>3, <1>4, <1>5, <2>1, <2>2 DEF SoFar
<1>. QED  BY <1>1, <1>2, <1>4, <1>5, <1>6 DEF Tidy

\* The row i that a process p takes up, writes or leaves.
LEMMA MyRow ==
  ASSUME NumberInv, TypeInv', NumbersApart', NEW p \in Procs, Others(p), NEW i,
         pc[p] \in Writing => loc[p].item = i,
         pc'[p] \in Writing => loc'[p].item = i,
         \A j \in DOMAIN items' : j # i =>
            /\ j \in DOMAIN items /\ SameVersions(j) /\ items'[j].cur = items[j].cur
            /\ j \in tangled => j \in tangled',
         i \in DOMAIN items' /\ i \notin tangled' =>
            /\ \A q \in Procs \ {p} : pc[q] \in Writing => loc[q].item # i
            /\ (Nums(i) = 1..MaxNumber(i))'
            /\ pc'[p] \in Writing => SoFar(p, i)'
            /\ pc'[p] \notin Writing => AtLast(i, items[i].cur)'
  PROVE  NumberInv'
<1>1. ASSUME NEW j \in DOMAIN items', j # i PROVE Tidy(j)'
  BY <1>1, StaysTidy
<1>2. ASSUME i \in DOMAIN items', i \notin tangled' PROVE Tidy(i)'
  <2>1. Writers(i)' = IF pc'[p] \in Writing THEN {p} ELSE {}
    BY <1>2 DEF Writers, Others
  <2>. QED  BY <1>2, <2>1 DEF Tidy
<1>3. \A j \in DOMAIN items' : Tidy(j)'
  BY <1>1, <1>2 DEF Tidy
<1>. QED  BY <1>3 DEF NumberInv

\* A step of a process that writes no row, neither before nor after.
LEMMA Bystander ==
  ASSUME NumberInv, TypeInv', NEW p \in Procs, Others(p), pc[p] \notin Writing, pc'[p] \notin Writing,
         DOMAIN items' = DOMAIN items, \A i \in DOMAIN items : items'[i].cur = items[i].cur,
         DOMAIN vers' = DOMAIN vers, tangled \subseteq tangled',
         \A v \in DOMAIN vers : vers'[v].of = vers[v].of /\ vers'[v].num = vers[v].num
  PROVE  NumberInv'
<1>1. NumbersApart' /\ \A i : SameVersions(i)
  BY KeepsNumbers
<1>2. None \notin DOMAIN items
  BY ReadIds DEF NumberInv
<1>. QED  BY <1>1, <1>2, MyRow

\* A writer of a row that nobody met on is alone with it.
LEMMA Alone ==
  ASSUME NumberInv, NEW p \in Procs, NEW i, pc[p] \in Writing, loc[p].item = i,
         i \in DOMAIN items, i \notin tangled
  PROVE  /\ \A q \in Procs \ {p} : pc[q] \in Writing => loc[q].item # i
         /\ Nums(i) = 1..MaxNumber(i) /\ SoFar(p, i)
<1>1. Tidy(i) /\ p \in Writers(i)
  BY DEF NumberInv, Writers
<1>. QED  BY <1>1 DEF Tidy, Writers

-----------------------------------------------------------------------------
(***************************************************************************)
(* The steps.                                                              *)
(***************************************************************************)
\* What no step at a version reads again.
NumFrame(p) ==
  /\ Others(p) /\ DOMAIN items' = DOMAIN items /\ DOMAIN vers' = DOMAIN vers
  /\ \A i \in DOMAIN items : items'[i].cur = items[i].cur
  /\ \A v \in DOMAIN vers : vers'[v].of = vers[v].of /\ vers'[v].num = vers[v].num

\* A process takes up a row, unless another is writing it.
LEMMA TakesUp ==
  ASSUME NumberInv, TypeInv', NEW p \in Procs, NumFrame(p), pc[p] \notin Writing, NEW i \in DOMAIN items,
         loc'[p].item = i, loc'[p].cur = items[i].cur \/ pc'[p] \notin Editors,
         pc'[p] \in {"update.pinned", "update.identity", "remove.list", "import.max"}, Meets(p, i)
  PROVE  NumberInv'
<1>1. NumbersApart' /\ \A j : SameVersions(j)
  BY KeepsNumbers DEF NumFrame
<1>2. tangled \subseteq tangled' /\ (i \notin tangled' => i \notin tangled /\ Writers(i) \ {p} = {})
  BY DEF Meets
<1>3. ASSUME i \notin tangled'
      PROVE  /\ \A q \in Procs \ {p} : pc[q] \in Writing => loc[q].item # i
             /\ (Nums(i) = 1..MaxNumber(i))'
             /\ pc'[p] \in Writing => SoFar(p, i)'
             /\ pc'[p] \notin Writing => AtLast(i, items[i].cur)'
  <2>1. Writers(i) = {} /\ Tidy(i) /\ i \notin tangled
    BY <1>2, <1>3 DEF Writers, NumberInv
  <2>2. /\ Nums(i)' = Nums(i) /\ MaxNumber(i)' = MaxNumber(i)
        /\ AtLast(i, items[i].cur)' = AtLast(i, items'[i].cur)
    BY <1>1, SameNumbers
  <2>3. AtLast(i, items[i].cur)' /\ Nums(i) = 1..MaxNumber(i)
    BY <2>1, <2>2 DEF Tidy, NumFrame
  <2>4. SoFar(p, i)'
    BY <2>3 DEF SoFar, NumFrame, Holding, Editors
  <2>5. \A q \in Procs \ {p} : pc[q] \in Writing => loc[q].item # i
    BY <2>1 DEF Writers
  <2>. QED  BY <2>2, <2>3, <2>4, <2>5
<1>. QED  BY <1>1, <1>2, <1>3, MyRow DEF NumFrame

\* A writer that takes up an item meets another, or finds it tidy.
LEMMA TakeUps ==
  ASSUME NumberInv, TypeInv', NEW p \in Procs,
         CharacterUpdate(p) \/ PresetUpdate(p) \/ RemoveRead(p)
  PROVE  NumberInv'
<1>0. DOMAIN pc = Procs /\ DOMAIN loc = Procs
  BY DEF NumberInv, TypeInv, ProcsOK
<1>1. CASE CharacterUpdate(p) \/ PresetUpdate(p)
  <2>1. PICK i \in DOMAIN items : \E t, h, a : UpdateRead(p, i, t, h, a)
    BY <1>1 DEF CharacterUpdate, PresetUpdate
  <2>2. /\ UNCHANGED <<items, vers>> /\ pc[p] = "idle" /\ Others(p) /\ Meets(p, i)
        /\ pc'[p] \in {"update.pinned", "update.identity"} /\ loc'[p].cur = items[i].cur
        /\ loc'[p].item = i
    BY <1>0, <2>1 DEF UpdateRead, Begin, Request, Goto, Others, tables, Idle
  <2>. QED  BY <2>2, TakesUp DEF NumFrame, Writing
<1>2. CASE RemoveRead(p)
  <2>1. PICK i \in DOMAIN items : /\ Begin(p, "remove", "remove.list", [Idle EXCEPT !.item = i])
                                  /\ Meets(p, i) /\ UNCHANGED tables
    BY <1>2 DEF RemoveRead
  <2>2. /\ UNCHANGED <<items, vers>> /\ pc[p] = "idle" /\ Others(p)
        /\ pc'[p] = "remove.list" /\ loc'[p].item = i
    BY <1>0, <2>1 DEF Begin, Request, Goto, Others, tables, Idle
  <2>. QED  BY <2>1, <2>2, TakesUp DEF NumFrame, Writing, Editors
<1>. QED  BY <1>1, <1>2

\* A writer goes on, or ends, without a change to what is pointed to.
LEMMA WritesOn ==
  ASSUME NumberInv, TypeInv', NEW p \in Procs, NumFrame(p), pc[p] \in Writing, tangled \subseteq tangled',
         pc'[p] \in Writing => loc'[p].item = loc[p].item,
         \A i \in DOMAIN items :
           i = loc[p].item /\ i \notin tangled' /\ SoFar(p, i) /\ Nums(i) = 1..MaxNumber(i) =>
              /\ pc'[p] \in Writing => SoFar(p, i)'
              /\ pc'[p] \notin Writing => AtLast(i, items[i].cur)
  PROVE  NumberInv'
<1>1. NumbersApart' /\ \A j : SameVersions(j)
  BY KeepsNumbers DEF NumFrame
<1>2. PICK i : i = loc[p].item
  OBVIOUS
<1>3. ASSUME i \in DOMAIN items, i \notin tangled'
      PROVE  /\ \A q \in Procs \ {p} : pc[q] \in Writing => loc[q].item # i
             /\ (Nums(i) = 1..MaxNumber(i))'
             /\ pc'[p] \in Writing => SoFar(p, i)'
             /\ pc'[p] \notin Writing => AtLast(i, items[i].cur)'
  <2>1. /\ \A q \in Procs \ {p} : pc[q] \in Writing => loc[q].item # i
        /\ Nums(i) = 1..MaxNumber(i) /\ SoFar(p, i)
    BY <1>2, <1>3, Alone
  <2>2. /\ Nums(i)' = Nums(i) /\ MaxNumber(i)' = MaxNumber(i)
        /\ AtLast(i, items[i].cur)' = AtLast(i, items'[i].cur)
    BY <1>1, SameNumbers
  <2>3. /\ pc'[p] \in Writing => SoFar(p, i)'
        /\ pc'[p] \notin Writing => AtLast(i, items[i].cur)
    BY <1>2, <1>3, <2>1
  <2>4. items'[i].cur = items[i].cur
    BY <1>3 DEF NumFrame
  <2>. QED  BY <2>1, <2>2, <2>3, <2>4
<1>. QED  BY <1>1, <1>2, <1>3, MyRow DEF NumFrame

\* A step that looks only.
LEMMA LooksOn ==
  ASSUME NumberInv, TypeInv', NEW p \in Procs,
         \/ UpdatePinned(p) \/ CharacterFork(p) \/ PresetFork(p) \/ RemoveList(p) \/ RemoveCheck(p)
         \/ ImportMax(p)
  PROVE  NumberInv'
<1>0. DOMAIN pc = Procs /\ DOMAIN loc = Procs /\ Local(loc[p])
  BY DEF NumberInv, TypeInv, ProcsOK, Fits
<1>1. /\ UNCHANGED <<items, vers, tangled>> /\ Others(p)
      /\ pc[p] \in {"update.pinned", "update.fork", "remove.list", "remove.check", "import.max"}
  BY <1>0 DEF UpdatePinned, CharacterFork, PresetFork, ForkRead, RemoveList, RemoveCheck, ImportMax,
     Goto, Finish, Others, tables, history
<1>2. /\ pc'[p] = "idle" \/ (loc'[p].item = loc[p].item /\ loc'[p].cur = loc[p].cur)
      /\ pc'[p] \in {"idle", "update.mint", "update.fork", "update.mutate", "update.insert", "remove.check",
                     "remove.unpoint", "import.version"}
  <2>1. CASE UpdatePinned(p) \/ RemoveList(p) \/ ImportMax(p)
    BY <1>0, <2>1 DEF UpdatePinned, RemoveList, ImportMax, Goto, Local
  <2>2. CASE RemoveCheck(p)
    BY <1>0, <2>2 DEF RemoveCheck, Goto, Finish, Local
  <2>3. CASE CharacterFork(p) \/ PresetFork(p)
    <3>. DEFINE old == IF loc[p].cur \in DOMAIN vers THEN vers[loc[p].cur].avatar ELSE None
                n == MaxNumber(loc[p].item) + 1
                a == IF loc[p].avatar = None THEN old ELSE loc[p].avatar
    <3>1. Finish(p) \/ Goto(p, "update.insert", [loc[p] EXCEPT !.num = n, !.avatar = a])
      BY <2>3 DEF CharacterFork, PresetFork, ForkRead
    <3>. HIDE DEF n, a
    <3>. QED  BY <1>0, <3>1 DEF Goto, Finish, Local
  <2>. QED  BY <2>1, <2>2, <2>3
<1>3. /\ pc'[p] = "update.mint" => pc[p] = "update.pinned" /\ loc[p].cur = None /\ loc'[p].num = 1
      /\ pc'[p] \in {"update.insert", "import.version"} => loc'[p].num = MaxNumber(loc[p].item) + 1
      /\ pc'[p] \in Editors => pc[p] \in Editors
  <2>1. CASE UpdatePinned(p)
    BY <1>0, <2>1 DEF UpdatePinned, Goto, Local, Editors
  <2>2. CASE RemoveList(p) \/ RemoveCheck(p) \/ ImportMax(p)
    BY <1>0, <2>2 DEF RemoveList, RemoveCheck, ImportMax, Goto, Finish, Local, Editors
  <2>3. CASE CharacterFork(p) \/ PresetFork(p)
    <3>. DEFINE n == MaxNumber(loc[p].item) + 1
    <3>1. /\ pc[p] = "update.fork"
          /\ Finish(p) \/ \E a : Goto(p, "update.insert", [loc[p] EXCEPT !.num = n, !.avatar = a])
      BY <2>3 DEF CharacterFork, PresetFork, ForkRead
    <3>. HIDE DEF n
    <3>2. pc'[p] \in {"idle", "update.insert"} /\ (pc'[p] = "update.insert" => loc'[p].num = n)
      BY <1>0, <3>1 DEF Goto, Finish, Local
    <3>. QED  BY <3>1, <3>2 DEF Editors, n
  <2>. QED  BY <2>1, <2>2, <2>3
<1>4. ASSUME NEW i \in DOMAIN items, i = loc[p].item, SoFar(p, i), Nums(i) = 1..MaxNumber(i)
      PROVE  /\ pc'[p] \in Writing => SoFar(p, i)'
             /\ pc'[p] \notin Writing => AtLast(i, items[i].cur)
  <2>1. AtLast(i, items[i].cur) /\ (pc[p] \in Editors => loc[p].cur = items[i].cur)
    BY <1>1, <1>4 DEF SoFar, Writing, Holding
  <2>2. /\ MaxNumber(i)' = MaxNumber(i) /\ VersionsOf(i)' = VersionsOf(i)
        /\ AtLast(i, items[i].cur)' = AtLast(i, items[i].cur)
    <3>1. SameVersions(i)
      BY <1>1 DEF SameVersions, VersionsOf
    <3>2. AtLast(i, items[i].cur)' = AtLast(i, items'[i].cur)
      BY <3>1, SameNumbers
    <3>. QED  BY <1>1, <3>1, <3>2, SameNumbers DEF SameVersions
  <2>3. pc'[p] = "update.mint" => VersionsOf(i) = {}
    BY <1>1, <1>3, <2>1 DEF AtLast, Editors
  <2>4. pc'[p] \notin Holding /\ pc'[p] # "create.version"
    BY <1>2 DEF Holding
  <2>5. pc'[p] \in Editors => loc'[p].cur = items[i].cur
    BY <1>2, <1>3, <2>1 DEF Editors
  <2>. QED  BY <1>1, <1>3, <1>4, <2>1, <2>2, <2>3, <2>4, <2>5 DEF SoFar
<1>5. NumFrame(p)
  BY <1>1 DEF NumFrame
<1>6. pc[p] \in Writing /\ (pc'[p] \in Writing => loc'[p].item = loc[p].item)
  BY <1>1, <1>2 DEF Writing
<1>. QED  BY <1>1, <1>4, <1>5, <1>6, WritesOn

\* The next version of a row: the numbers go on by one.
LEMMA NewNumber ==
  ASSUME NumberInv, TypeInv', NEW p \in Procs, Others(p), NEW i \in DOMAIN items, loc[p].item = i,
         pc[p] \in {"create.version", "update.mint", "update.insert", "import.version"}, NEW a,
         VersionFits(i, loc[p].num, a), items' = items, tangled' = tangled, NEW row,
         vers' = Row(vers, NewVer, row), row.of = i, row.num = loc[p].num,
         pc'[p] \in Holding, loc'[p].item = i, loc'[p].ver = NewVer
  PROVE  NumberInv'
<1>. DEFINE m == MaxNumber(i)
<1>a. PICK n : n = NewVer
  OBVIOUS
<1>0. n \notin DOMAIN vers /\ n # None /\ m \in Nat /\ pc[p] \in Writing
  BY <1>a, NextIsFresh, MaxNumberIsNat DEF NumberInv, Writing
<1>1. /\ DOMAIN vers' = DOMAIN vers \cup {n} /\ vers'[n] = row
      /\ \A v \in DOMAIN vers : vers'[v] = vers[v]
      /\ loc'[p].ver = n
  BY <1>0, <1>a DEF Row
<1>2. \A j : j # i => SameVersions(j)
  BY <1>0, <1>1 DEF SameVersions, VersionsOf
<1>3. VersionsOf(i)' = VersionsOf(i) \cup {n} /\ n \notin VersionsOf(i)
  BY <1>0, <1>1 DEF VersionsOf
<1>4. NumbersApart'
  <2>1. \A v \in DOMAIN vers : vers[v].of = i => vers[v].num # row.num
    BY DEF VersionFits, VersionsOf
  <2>. QED  BY <1>0, <1>1, <2>1 DEF NumberInv, NumbersApart
<1>5. ASSUME i \notin tangled'
      PROVE  /\ \A q \in Procs \ {p} : pc[q] \in Writing => loc[q].item # i
             /\ (Nums(i) = 1..MaxNumber(i))'
             /\ SoFar(p, i)'
  <2>1. /\ \A q \in Procs \ {p} : pc[q] \in Writing => loc[q].item # i
        /\ Nums(i) = 1..m /\ SoFar(p, i)
    BY <1>0, <1>5, Alone
  <2>2. row.num = m + 1
    <3>1. CASE pc[p] \in {"update.insert", "import.version"}
      BY <2>1, <3>1 DEF SoFar
    <3>2. CASE pc[p] \in {"create.version", "update.mint"}
      <4>1. row.num = 1 /\ Nums(i) = {}
        BY <2>1, <3>2 DEF SoFar, Nums
      <4>. HIDE DEF m
      <4>2. m = 0
        <5>1. m # 0 => 1 \in 1..m
          BY <1>0
        <5>. QED  BY <2>1, <4>1, <5>1
      <4>. QED  BY <4>1, <4>2
    <3>. QED  BY <3>1, <3>2
  <2>3. Nums(i)' = 1..(m + 1)
    <3>1. Nums(i)' = Nums(i) \cup {row.num}
      BY <1>1, <1>3 DEF Nums, VersionsOf
    <3>. HIDE DEF m
    <3>2. \A x : x \in 1..m \cup {m + 1} <=> x \in 1..(m + 1)
      BY <1>0
    <3>. QED  BY <2>1, <2>2, <3>1, <3>2
  <2>4. MaxNumber(i)' = m + 1
    <3>1. MaxNumber(i)' = Max({0} \cup Nums(i)')
      BY DEF MaxNumber, Nums
    <3>. HIDE DEF m
    <3>. QED  BY <1>0, <2>3, <3>1, MaxOfRun
  <2>5. AtLast(i, n)'
    BY <1>0, <1>1, <1>3, <2>2, <2>4 DEF AtLast
  <2>6. SoFar(p, i)'
    BY <1>1, <2>5 DEF SoFar, Holding, Editors, AtLast
  <2>. QED  BY <2>1, <2>3, <2>4, <2>6
<1>. QED  BY <1>0, <1>2, <1>4, <1>5, MyRow DEF Holding, Writing

\* A new version is the next after the last, or its item is tangled.
LEMMA InsertsOn ==
  ASSUME NumberInv, TypeInv', NEW p \in Procs,
         CreateVersion(p) \/ UpdateMint(p) \/ UpdateInsert(p) \/ ImportVersion(p)
  PROVE  NumberInv'
<1>. DEFINE r == loc[p]
<1>0. DOMAIN pc = Procs /\ DOMAIN loc = Procs /\ Local(r)
  BY DEF NumberInv, TypeInv, ProcsOK, Fits
<1>1. /\ pc[p] \in {"create.version", "update.mint", "update.insert", "import.version"}
      /\ items' = items
  BY DEF CreateVersion, UpdateMint, UpdateInsert, ImportVersion
<1>2. CASE VersionFits(r.item, r.num, r.avatar)
  <2>1. \E l, row :
          /\ l \in Holding
          /\ vers' = Row(vers, NewVer, row) /\ row.of = r.item /\ row.num = r.num
          /\ Goto(p, l, [r EXCEPT !.ver = NewVer]) /\ tangled' = tangled
    <3>1. CASE ImportVersion(p)
      <4>. DEFINE row == [of |-> r.item, num |-> r.num, text |-> r.text, avatar |-> r.avatar, lore |-> 0]
                  l == AfterVersion(p, 0)
      <4>1. /\ vers' = Row(vers, NewVer, row) /\ tangled' = tangled
            /\ Goto(p, l, [r EXCEPT !.ver = NewVer])
        BY <1>2, <3>1 DEF ImportVersion
      <4>2. row.of = r.item /\ row.num = r.num /\ l \in Holding
        BY DEF AfterVersion, Holding
      <4>. HIDE DEF row, l
      <4>. QED  BY <4>1, <4>2
    <3>2. CASE ~ImportVersion(p)
      <4>. DEFINE row == Version(r.item, r.num, r.text, r.avatar)
      <4>1. PICK l \in Holding : InsertVersion(p, l)
        BY <3>2 DEF CreateVersion, UpdateMint, UpdateInsert, Holding
      <4>2. /\ vers' = Row(vers, NewVer, row) /\ tangled' = tangled
            /\ Goto(p, l, [r EXCEPT !.ver = NewVer])
        BY <1>2, <4>1 DEF InsertVersion
      <4>3. row.of = r.item /\ row.num = r.num
        BY DEF Version
      <4>. HIDE DEF row
      <4>. QED  BY <4>2, <4>3
    <3>. QED  BY <3>1, <3>2
  <2>4. PICK l, row :
          /\ l \in Holding
          /\ vers' = Row(vers, NewVer, row) /\ row.of = r.item /\ row.num = r.num
          /\ Goto(p, l, [r EXCEPT !.ver = NewVer]) /\ tangled' = tangled
    BY <2>1
  <2>2. Others(p) /\ pc'[p] = l /\ loc'[p].ver = NewVer /\ loc'[p].item = r.item
    BY <1>0, <2>4 DEF Goto, Others, Local
  <2>3. r.item \in DOMAIN items
    BY <1>2 DEF VersionFits
  <2>. QED  BY <1>1, <1>2, <2>2, <2>3, <2>4, NewNumber
<1>3. CASE ~VersionFits(r.item, r.num, r.avatar)
  <2>1. vers' = vers /\ Finish(p) /\ tangled' = tangled \cup {r.item}
    BY <1>1, <1>3 DEF CreateVersion, UpdateMint, UpdateInsert, ImportVersion, InsertVersion
  <2>2. NumFrame(p) /\ pc'[p] = "idle"
    BY <1>0, <1>1, <2>1 DEF NumFrame, Others, Finish, Goto
  <2>. QED  BY <1>1, <2>1, <2>2, WritesOn DEF Writing
<1>. QED  BY <1>2, <1>3

\* The pointer moves to what its process holds, the last version.
LEMMA PointsOn ==
  ASSUME NumberInv, TypeInv', NEW p \in Procs, CreatePoint(p) \/ UpdatePoint(p) \/ ImportPoint(p)
  PROVE  NumberInv'
<1>0. DOMAIN pc = Procs /\ DOMAIN loc = Procs /\ \A i \in DOMAIN items : items[i] \in ItemRow
  BY DEF NumberInv, TypeInv, ProcsOK, RowsOK, ItemsOK, ItemRow
<1>1. /\ pc[p] \in {"create.point", "update.point", "import.point"} /\ vers' = vers
      /\ Others(p) /\ pc'[p] \in {"idle", "chats.dup"} /\ DOMAIN items' = DOMAIN items
      /\ tangled \subseteq tangled'
  BY <1>0 DEF CreatePoint, UpdatePoint, ImportPoint, SetPointer, Goto, Finish, Others, history
<1>2. PICK i : i = loc[p].item
  OBVIOUS
<1>3. /\ \A j \in DOMAIN items : j # i => items'[j].cur = items[j].cur
      /\ i \in DOMAIN items => items'[i].cur = loc[p].ver \/ i \in tangled'
  <2>1. CASE ImportPoint(p)
    <3>1. items' = IF i \in DOMAIN items
                   THEN [items EXCEPT ![i].cur = loc[p].ver, ![i].hash = loc[p].card] ELSE items
      BY <1>2, <2>1 DEF ImportPoint
    <3>. QED  BY <1>0, <3>1 DEF ItemRow
  <2>2. CASE ~ImportPoint(p)
    <3>1. SetPointer(p)
      BY <2>2 DEF CreatePoint, UpdatePoint
    <3>. DEFINE h == IF loc[p].handle = None THEN items[i].handle ELSE loc[p].handle
    <3>2. \/ items' = items /\ (i \in DOMAIN items => i \in tangled')
          \/ items' = [items EXCEPT ![i].cur = loc[p].ver, ![i].handle = h]
      BY <1>2, <3>1 DEF SetPointer
    <3>. HIDE DEF h
    <3>. QED  BY <1>0, <3>2 DEF ItemRow
  <2>. QED  BY <2>1, <2>2
<1>4. NumbersApart' /\ \A j : SameVersions(j)
  BY <1>1, KeepsNumbers
<1>5. ASSUME i \in DOMAIN items, i \notin tangled'
      PROVE  /\ \A q \in Procs \ {p} : pc[q] \in Writing => loc[q].item # i
             /\ (Nums(i) = 1..MaxNumber(i))'
             /\ AtLast(i, items[i].cur)'
  <2>1. /\ \A q \in Procs \ {p} : pc[q] \in Writing => loc[q].item # i
        /\ Nums(i) = 1..MaxNumber(i) /\ SoFar(p, i)
    BY <1>1, <1>2, <1>5, Alone DEF Writing
  <2>2. AtLast(i, loc[p].ver)
    BY <1>1, <2>1 DEF SoFar, Holding
  <2>3. /\ Nums(i)' = Nums(i) /\ MaxNumber(i)' = MaxNumber(i)
        /\ AtLast(i, items[i].cur)' = AtLast(i, items'[i].cur)
    BY <1>4, SameNumbers
  <2>. QED  BY <1>3, <1>5, <2>1, <2>2, <2>3
<1>. QED  BY <1>1, <1>2, <1>3, <1>4, <1>5, MyRow DEF Writing

\* An edit in place, or a lorebook entry, leaves the numbers and the pointer.
LEMMA TextsOn ==
  ASSUME NumberInv, TypeInv', NEW p \in Procs, UpdateMutate(p) \/ ImportLore(p)
  PROVE  NumberInv'
<1>0. /\ DOMAIN pc = Procs /\ DOMAIN loc = Procs /\ \A v \in DOMAIN vers : vers[v] \in VersRow
      /\ At(pc[p], loc[p])
  BY DEF NumberInv, TypeInv, ProcsOK, RowsOK, VersOK, VersRow, Fits
<1>1. CASE UpdateMutate(p)
  <2>1. /\ items' = items /\ tangled' = tangled /\ pc[p] = "update.mutate"
        /\ pc'[p] \in {"idle", "update.identity"} /\ Others(p)
    BY <1>0, <1>1 DEF UpdateMutate, Goto, Finish, Others
  <2>2. /\ DOMAIN vers' = DOMAIN vers
        /\ \A v \in DOMAIN vers : vers'[v].of = vers[v].of /\ vers'[v].num = vers[v].num
    BY <1>0, <1>1 DEF UpdateMutate, VersRow
  <2>. QED  BY <2>1, <2>2, WritesOn DEF NumFrame, Writing, SoFar, Holding
<1>2. CASE ImportLore(p)
  <2>1. /\ items' = items /\ tangled' = tangled /\ pc[p] = "import.lore" /\ Others(p)
        /\ loc[p].ver \in DOMAIN vers => pc'[p] \in {"import.lore", "import.point"} /\ loc'[p] = loc[p]
        /\ loc[p].ver \notin DOMAIN vers => pc'[p] = "idle"
    BY <1>0, <1>2 DEF ImportLore, AfterVersion, Goto, Finish, Others, history
  <2>2. /\ DOMAIN vers' = DOMAIN vers
        /\ \A v \in DOMAIN vers : vers'[v].of = vers[v].of /\ vers'[v].num = vers[v].num
    BY <1>0, <1>2 DEF ImportLore, VersRow
  <2>3. ASSUME NEW i \in DOMAIN items, i = loc[p].item, SoFar(p, i)
        PROVE  pc'[p] \in Writing /\ SoFar(p, i)'
    <3>1. loc[p].ver \in DOMAIN vers
      BY <1>0, <2>1, <2>3 DEF At, Written
    <3>2. AtLast(i, loc[p].ver)
      BY <2>1, <2>3 DEF SoFar, Holding
    <3>3. AtLast(i, loc[p].ver)' = AtLast(i, loc'[p].ver)
      <4>1. SameVersions(i)
        BY <2>2, KeepsNumbers
      <4>. QED  BY <4>1, SameNumbers
    <3>. QED  BY <2>1, <3>1, <3>2, <3>3 DEF SoFar, Writing, Holding, Editors
  <2>4. NumFrame(p)
    BY <2>1, <2>2 DEF NumFrame
  <2>5. pc[p] \in Writing /\ (pc'[p] \in Writing => loc'[p].item = loc[p].item)
    BY <2>1 DEF Writing
  <2>. QED  BY <2>1, <2>3, <2>4, <2>5, WritesOn
<1>. QED  BY <1>1, <1>2

\* A new row has no version yet, and nobody else knows of it.
LEMMA NewRow ==
  ASSUME NumberInv, TypeInv', NEW p \in Procs, Others(p), pc[p] \notin Writing,
         DOMAIN items' = DOMAIN items \cup {NewItem}, items'[NewItem].cur = None,
         \A j \in DOMAIN items : j # NewItem => items'[j] = items[j], vers' = vers, tangled' = tangled,
         pc'[p] \in {"create.version", "import.version"}, loc'[p].item = NewItem, loc'[p].num = 1
  PROVE  NumberInv'
<1>1. PICK i : i = NewItem
  OBVIOUS
<1>2. i \in Nat /\ i # None /\ i \notin {None} \cup 1..last.item
  BY <1>1, ReadIds, Constants DEF NumberInv, NewItem
<1>3. i \notin DOMAIN items
  BY <1>2, ReadIds DEF NumberInv
<1>4. \A q \in Procs : loc[q].item # i
  BY <1>2 DEF NumberInv, TypeInv, Fits, Local
<1>5. VersionsOf(i) = {}
  BY <1>3 DEF NumberInv, TypeInv, RowsOK, VersOK, VersionsOf
<1>6. NumbersApart' /\ \A j : SameVersions(j)
  BY KeepsNumbers
<1>7. /\ DOMAIN items' = DOMAIN items \cup {i} /\ items'[i].cur = None
      /\ \A j \in DOMAIN items : items'[j] = items[j]
  BY <1>1, <1>3
<1>8. Nums(i) = {} /\ MaxNumber(i) = 0
  <2>1. Nums(i) = {}
    BY <1>5 DEF Nums
  <2>2. MaxNumber(i) = Max({0} \cup Nums(i))
    BY DEF MaxNumber, Nums
  <2>3. 1..0 = {}
    OBVIOUS
  <2>. QED  BY <2>1, <2>2, <2>3, MaxOfRun
<1>9. (Nums(i) = 1..MaxNumber(i))' /\ MaxNumber(i)' = 0 /\ VersionsOf(i)' = {}
  <2>1. SameVersions(i)
    BY <1>6
  <2>2. Nums(i)' = Nums(i) /\ MaxNumber(i)' = MaxNumber(i)
    BY <2>1, SameNumbers
  <2>3. 1..0 = {}
    OBVIOUS
  <2>. QED  BY <1>5, <1>8, <2>1, <2>2, <2>3 DEF SameVersions
<1>10. SoFar(p, i)'
  BY <1>1, <1>7, <1>9 DEF SoFar, AtLast, Holding, Editors
<1>11. \A j \in DOMAIN items' : j # i =>
         /\ j \in DOMAIN items /\ SameVersions(j) /\ items'[j].cur = items[j].cur
         /\ j \in tangled => j \in tangled'
  BY <1>6, <1>7
<1>12. pc'[p] \in Writing /\ loc'[p].item = i
  BY <1>1 DEF Writing
<1>13. /\ \A q \in Procs \ {p} : pc[q] \in Writing => loc[q].item # i
       /\ (Nums(i) = 1..MaxNumber(i))'
       /\ pc'[p] \in Writing => SoFar(p, i)'
       /\ pc'[p] \notin Writing => AtLast(i, items[i].cur)'
  BY <1>4, <1>9, <1>10, <1>12
<1>. QED  BY <1>6, <1>11, <1>12, <1>13, MyRow

\* A new identity row has no versions and one writer.
LEMMA RowsGoOn ==
  ASSUME NumberInv, TypeInv', NEW p \in Procs, CreateInsert(p) \/ ImportCharacter(p)
  PROVE  NumberInv'
<1>. DEFINE r == loc[p]
            h == CardHandle[r.card]
            k == IF r.handle = None THEN "preset" ELSE "character"
            new == [kind |-> k, handle |-> r.handle, cur |-> None, hash |-> None]
            brought == [kind |-> "character", handle |-> h, cur |-> None, hash |-> r.card]
<1>0. DOMAIN pc = Procs /\ DOMAIN loc = Procs /\ Local(r)
  BY DEF NumberInv, TypeInv, ProcsOK, Fits
<1>1. /\ UNCHANGED <<vers, tangled>> /\ pc[p] \notin Writing
  BY DEF CreateInsert, ImportCharacter, Writing, history
<1>2. \/ Finish(p) /\ items' = items
      \/ /\ items' = Row(items, NewItem, new)
         /\ Goto(p, "create.version", [r EXCEPT !.item = NewItem, !.num = 1, !.handle = None])
      \/ /\ items' = Row(items, NewItem, brought)
         /\ Goto(p, "import.version", [r EXCEPT !.item = NewItem, !.num = 1])
  <2>1. CASE CreateInsert(p)
    BY <2>1 DEF CreateInsert
  <2>2. CASE ImportCharacter(p)
    BY <2>2 DEF ImportCharacter
  <2>. QED  BY <2>1, <2>2
<1>3. new.cur = None /\ brought.cur = None
  OBVIOUS
<1>. HIDE DEF new, brought
<1>4. CASE Finish(p) /\ items' = items
  <2>1. Others(p) /\ pc'[p] = "idle"
    BY <1>0, <1>4 DEF Finish, Goto, Others
  <2>. QED  BY <1>1, <1>4, <2>1, Bystander DEF Writing
<1>5. CASE /\ items' = Row(items, NewItem, new)
           /\ Goto(p, "create.version", [r EXCEPT !.item = NewItem, !.num = 1, !.handle = None])
  <2>1. Others(p) /\ pc'[p] = "create.version" /\ loc'[p].item = NewItem /\ loc'[p].num = 1
    BY <1>0, <1>5 DEF Goto, Others, Local
  <2>. QED  BY <1>1, <1>3, <1>5, <2>1, NewRow DEF Row
<1>6. CASE /\ items' = Row(items, NewItem, brought)
           /\ Goto(p, "import.version", [r EXCEPT !.item = NewItem, !.num = 1])
  <2>1. Others(p) /\ pc'[p] = "import.version" /\ loc'[p].item = NewItem /\ loc'[p].num = 1
    BY <1>0, <1>6 DEF Goto, Others, Local
  <2>. QED  BY <1>1, <1>3, <1>6, <2>1, NewRow DEF Row
<1>. QED  BY <1>2, <1>4, <1>5, <1>6

\* A changed card takes up its character.
LEMMA ReadGoesOn ==
  ASSUME NumberInv, TypeInv', NEW p \in Procs, ImportRead(p)
  PROVE  NumberInv'
<1>. DEFINE r == loc[p]
            found == {i \in DOMAIN items : items[i].handle = CardHandle[r.card]}
<1>0. DOMAIN pc = Procs /\ DOMAIN loc = Procs /\ Local(r)
  BY DEF NumberInv, TypeInv, ProcsOK, Fits
<1>1. PICK i : i = CHOOSE x \in found : TRUE
  OBVIOUS
<1>2. /\ UNCHANGED <<items, vers>> /\ pc[p] = "import.read" /\ Others(p)
  BY <1>0 DEF ImportRead, Goto, Others, tables
<1>3. \/ pc'[p] \in {"import.char", "chats.dup"} /\ tangled' = tangled
      \/ found # {} /\ Goto(p, "import.max", [r EXCEPT !.item = i]) /\ Meets(p, i)
  BY <1>0, <1>1 DEF ImportRead, Goto
<1>4. CASE pc'[p] \in {"import.char", "chats.dup"} /\ tangled' = tangled
  BY <1>2, <1>4, Bystander DEF Writing
<1>5. CASE found # {} /\ Goto(p, "import.max", [r EXCEPT !.item = i]) /\ Meets(p, i)
  <2>1. i \in DOMAIN items
    BY <1>1, <1>5
  <2>2. pc'[p] = "import.max" /\ loc'[p].item = i
    BY <1>0, <1>5 DEF Goto, Local
  <2>. QED  BY <1>2, <1>5, <2>1, <2>2, TakesUp DEF NumFrame, Writing, Editors
<1>. QED  BY <1>3, <1>4, <1>5

\* A deletion first lets go of the pointer ...
LEMMA UnpointsOn ==
  ASSUME NumberInv, TypeInv', NEW p \in Procs, RemoveUnpoint(p)
  PROVE  NumberInv'
<1>0. DOMAIN pc = Procs /\ DOMAIN loc = Procs /\ \A i \in DOMAIN items : items[i] \in ItemRow
  BY DEF NumberInv, TypeInv, ProcsOK, RowsOK, ItemsOK, ItemRow
<1>1. PICK i : i = loc[p].item
  OBVIOUS
<1>2. /\ UNCHANGED <<vers, tangled>> /\ Others(p) /\ DOMAIN items' = DOMAIN items
      /\ pc[p] = "remove.unpoint" /\ pc'[p] = "remove.delete" /\ loc'[p] = loc[p]
      /\ \A j \in DOMAIN items : j # i => items'[j].cur = items[j].cur
  BY <1>0, <1>1 DEF RemoveUnpoint, Goto, Others, ItemRow, history
<1>3. NumbersApart' /\ \A j : SameVersions(j)
  BY <1>2, KeepsNumbers
<1>4. ASSUME i \in DOMAIN items, i \notin tangled
      PROVE  /\ \A q \in Procs \ {p} : pc[q] \in Writing => loc[q].item # i
             /\ (Nums(i) = 1..MaxNumber(i))'
             /\ SoFar(p, i)'
  <2>1. /\ \A q \in Procs \ {p} : pc[q] \in Writing => loc[q].item # i
        /\ Nums(i) = 1..MaxNumber(i)
    BY <1>1, <1>2, <1>4, Alone DEF Writing
  <2>2. (Nums(i) = 1..MaxNumber(i))'
    BY <1>3, <2>1, SameNumbers
  <2>3. SoFar(p, i)'
    BY <1>2 DEF SoFar, Holding, Editors
  <2>. QED  BY <2>1, <2>2, <2>3
<1>. QED  BY <1>1, <1>2, <1>3, <1>4, MyRow DEF Writing

\* ... then takes the row, with its versions.
LEMMA DeletesOn ==
  ASSUME NumberInv, TypeInv', NEW p \in Procs, RemoveDelete(p)
  PROVE  NumberInv'
<1>. DEFINE i == loc[p].item
<1>0. DOMAIN pc = Procs /\ DOMAIN loc = Procs
  BY DEF NumberInv, TypeInv, ProcsOK
<1>1. pc[p] = "remove.delete" /\ Others(p) /\ pc'[p] = "idle"
  BY <1>0 DEF RemoveDelete, Finish, Goto, Others
<1>2. CASE \E v \in VersionsOf(i) : Pinned(v)
  <2>1. items' = items /\ vers' = vers /\ tangled' = tangled \cup {i}
    BY <1>2 DEF RemoveDelete
  <2>. QED  BY <1>1, <2>1, WritesOn DEF NumFrame, Writing
<1>3. CASE ~\E v \in VersionsOf(i) : Pinned(v)
  <2>1. PICK j : j = i
    OBVIOUS
  <2>2. /\ items' = Without(items, {j}) /\ vers' = Without(vers, VersionsOf(j))
        /\ tangled' = tangled \ {j}
    BY <1>3, <2>1 DEF RemoveDelete
  <2>3. /\ DOMAIN items' = DOMAIN items \ {j} /\ \A k \in DOMAIN items' : items'[k] = items[k]
        /\ DOMAIN vers' = DOMAIN vers \ VersionsOf(j) /\ \A v \in DOMAIN vers' : vers'[v] = vers[v]
    BY <2>2 DEF Without
  <2>4. NumbersApart'
    BY <2>3 DEF NumberInv, NumbersApart
  <2>5. ASSUME NEW k, k # j PROVE SameVersions(k)
    BY <2>3, <2>5 DEF SameVersions, VersionsOf
  <2>6. pc[p] \in Writing /\ pc'[p] \notin Writing /\ j \notin DOMAIN items' /\ loc[p].item = j
    BY <1>1, <2>1, <2>3 DEF Writing
  <2>7. \A k \in DOMAIN items' : k # j =>
          /\ k \in DOMAIN items /\ SameVersions(k) /\ items'[k].cur = items[k].cur
          /\ k \in tangled => k \in tangled'
    BY <2>2, <2>3, <2>5
  <2>. QED  BY <1>1, <2>4, <2>6, <2>7, MyRow
<1>. QED  BY <1>2, <1>3

\* Everything else of the three components concerns no row's versions.
LEMMA StandsBy ==
  ASSUME NumberInv, TypeInv', NEW p \in Procs,
         \/ CharacterCreate(p) \/ PresetCreate(p) \/ UpdateIdentity(p)
         \/ OpenLook(p) \/ OpenPreset(p) \/ OpenInsert(p) \/ ChatRemove(p)
         \/ AssetSteps(p)
         \/ ImportCard(p) \/ ImportPut(p) \/ ImportRow(p) \/ ImportLoose(p)
         \/ ChatDup(p) \/ ChatInsert(p) \/ ChatMessage(p) \/ ChatBranches(p) \/ ChatLink(p)
  PROVE  NumberInv'
<1>0. /\ DOMAIN pc = Procs /\ DOMAIN loc = Procs
      /\ \A i \in DOMAIN items : items[i] \in ItemRow
      /\ \A v \in DOMAIN vers : vers[v] \in VersRow
  BY DEF NumberInv, TypeInv, ProcsOK, RowsOK, ItemsOK, VersOK, ItemRow, VersRow
<1>1. CASE UpdateIdentity(p)
  <2>1. /\ UNCHANGED <<vers, tangled>> /\ pc[p] = "update.identity" /\ Finish(p)
        /\ DOMAIN items' = DOMAIN items /\ \A i \in DOMAIN items : items'[i].cur = items[i].cur
    BY <1>0, <1>1 DEF UpdateIdentity, ItemRow, history
  <2>2. Others(p) /\ pc'[p] = "idle"
    BY <1>0, <2>1 DEF Finish, Goto, Others
  <2>. QED  BY <2>1, <2>2, Bystander DEF Writing
<1>2. CASE CharacterCreate(p) \/ PresetCreate(p) \/ OpenLook(p) \/ OpenPreset(p) \/ OpenInsert(p)
  <2>1. UNCHANGED <<items, vers, tangled>> /\ Others(p)
        /\ pc[p] \in {"idle", "open.preset", "open.insert"}
        /\ pc'[p] \in {"idle", "create.insert", "open.preset", "open.insert"}
    BY <1>0, <1>2 DEF CharacterCreate, PresetCreate, OpenLook, OpenPreset, OpenInsert, Begin, Request,
       Goto, Finish, Others, tables, history
  <2>. QED  BY <2>1, Bystander DEF Writing
<1>3. CASE ChatRemove(p)
  <2>1. UNCHANGED <<items, vers, tangled, pc, loc>> /\ pc[p] = "idle"
    BY <1>3 DEF ChatRemove, Request
  <2>. QED  BY <2>1, Bystander DEF Others, Writing
<1>4. CASE AssetSteps(p)
  <2>1. UNCHANGED <<items, tangled>>
    BY <1>4 DEF AssetSteps, BackfillRead, BackfillPut, BackfillRow, BackfillLink, GcStart, GcRemove, GcRow,
       GcEnd, RebuildRead, RebuildRow, PersonaCreate, PersonaUpdate, PersonaWrite, PersonaRemove, tables,
       history
  <2>2. /\ DOMAIN vers' = DOMAIN vers
        /\ \A v \in DOMAIN vers : vers'[v].of = vers[v].of /\ vers'[v].num = vers[v].num
    <3>1. CASE BackfillLink(p)
      BY <1>0, <3>1 DEF BackfillLink, VersRow
    <3>2. CASE GcRow(p)
      BY <1>0, <3>2 DEF GcRow, VersRow
    <3>3. CASE ~BackfillLink(p) /\ ~GcRow(p)
      <4>1. vers' = vers
        BY <1>4, <3>3 DEF AssetSteps, BackfillRead, BackfillPut, BackfillRow, GcStart, GcRemove, GcEnd,
           RebuildRead, RebuildRow, PersonaCreate, PersonaUpdate, PersonaWrite, PersonaRemove, tables
      <4>. QED  BY <4>1
    <3>. QED  BY <3>1, <3>2, <3>3
  <2>3. Others(p) /\ pc[p] \notin Writing /\ pc'[p] \notin Writing
    <3>1. CASE PersonaCreate(p) \/ PersonaUpdate(p) \/ PersonaRemove(p)
      BY <3>1 DEF PersonaCreate, PersonaUpdate, PersonaWrite, PersonaRemove, Request, Others, Writing
    <3>2. CASE ~(PersonaCreate(p) \/ PersonaUpdate(p) \/ PersonaRemove(p))
      BY <1>0, <1>4, <3>2 DEF AssetSteps, BackfillRead, BackfillPut, BackfillRow, BackfillLink, GcStart,
         GcRemove, GcRow, GcEnd, RebuildRead, RebuildRow, Begin, Request, Goto, Finish, Others, Writing
    <3>. QED  BY <3>1, <3>2
  <2>. QED  BY <2>1, <2>2, <2>3, Bystander
<1>5. CASE \/ ImportCard(p) \/ ImportPut(p) \/ ImportRow(p) \/ ImportLoose(p)
           \/ ChatDup(p) \/ ChatInsert(p) \/ ChatMessage(p) \/ ChatBranches(p) \/ ChatLink(p)
  <2>1. UNCHANGED <<items, vers, tangled>>
    BY <1>5 DEF ImportCard, ImportPut, ImportRow, ImportLoose, ChatDup, ChatInsert, ChatMessage,
       ChatBranches, ChatLink, tables, history
  <2>2. Others(p) /\ pc[p] \notin Writing /\ pc'[p] \notin Writing
    <3>1. CASE ImportCard(p) \/ ImportPut(p) \/ ImportRow(p) \/ ImportLoose(p)
      <4>1. \E l, r : Goto(p, l, r) /\ l \in {"import.put", "import.row", "import.read", "chats.dup"}
        BY <3>1 DEF ImportCard, ImportPut, ImportRow, ImportLoose, Begin
      <4>2. pc[p] \in {"idle", "import.put", "import.row"}
        BY <3>1 DEF ImportCard, ImportPut, ImportRow, ImportLoose, Begin, Request
      <4>. QED  BY <1>0, <4>1, <4>2 DEF Goto, Others, Writing
    <3>2. CASE ChatDup(p) \/ ChatInsert(p) \/ ChatMessage(p) \/ ChatBranches(p) \/ ChatLink(p)
      <4>1. \E l, r : Goto(p, l, r) /\ l \in {"idle"} \cup ImportsChats
        BY <3>2 DEF ChatDup, ChatInsert, ChatMessage, NextFile, ChatBranches, ChatLink, Finish, ImportsChats
      <4>2. pc[p] \in ImportsChats
        BY <3>2 DEF ChatDup, ChatInsert, ChatMessage, ChatBranches, ChatLink, ImportsChats
      <4>. QED  BY <1>0, <4>1, <4>2 DEF Goto, Others, Writing, ImportsChats
    <3>. QED  BY <1>5, <3>1, <3>2
  <2>. QED  BY <2>1, <2>2, Bystander
<1>. QED  BY <1>1, <1>2, <1>3, <1>4, <1>5

\* Time passes, or processes die: the rows they wrote count as tangled.
LEMMA DiesOn ==
  ASSUME NumberInv, TypeInv', UNCHANGED <<items, vers>>, tangled \subseteq tangled',
         \A q \in Procs : \/ pc'[q] = pc[q] /\ loc'[q] = loc[q]
                          \/ pc'[q] = "idle" /\ (pc[q] \in Writing => loc[q].item \in tangled' \cup {None})
  PROVE  NumberInv'
<1>1. NumbersApart' /\ \A i : SameVersions(i)
  BY KeepsNumbers
<1>2. ASSUME NEW i \in DOMAIN items', i \notin tangled' PROVE Tidy(i)'
  <2>1. i \in DOMAIN items /\ i # None /\ Tidy(i) /\ i \notin tangled
    BY <1>2, ReadIds DEF NumberInv
  <2>2. Writers(i)' = Writers(i) /\ \A q \in Writers(i) : q \in Procs /\ pc'[q] = pc[q] /\ loc'[q] = loc[q]
    <3>1. ASSUME NEW q \in Procs, q \in Writers(i)' PROVE q \in Writers(i)
      BY <3>1 DEF Writers, Writing
    <3>2. ASSUME NEW q \in Writers(i) PROVE q \in Procs /\ pc'[q] = pc[q] /\ loc'[q] = loc[q]
      BY <1>2, <2>1, <3>2 DEF Writers
    <3>. QED  BY <3>1, <3>2 DEF Writers
  <2>3. /\ Nums(i)' = Nums(i) /\ MaxNumber(i)' = MaxNumber(i) /\ VersionsOf(i)' = VersionsOf(i)
        /\ \A v : AtLast(i, v)' = AtLast(i, v)
    BY <1>1, SameNumbers DEF SameVersions
  <2>4. AtLast(i, items[i].cur)' = AtLast(i, items[i].cur)
    BY <2>3
  <2>5. ASSUME NEW q \in Writers(i) PROVE SoFar(q, i)'
    <3>1. SoFar(q, i)
      BY <2>1 DEF Tidy
    <3>2. AtLast(i, loc[q].ver)' = AtLast(i, loc[q].ver)
      BY <2>2, <2>3
    <3>. QED  BY <2>2, <2>3, <2>4, <3>1, <3>2 DEF SoFar
  <2>. QED  BY <2>1, <2>2, <2>3, <2>4, <2>5 DEF Tidy
<1>3. \A i \in DOMAIN items' : Tidy(i)'
  BY <1>2 DEF Tidy
<1>. QED  BY <1>1, <1>3 DEF NumberInv

\* Every step keeps the numbers.
LEMMA NumberStep == NumberInv /\ [Next]_libVars => NumberInv'
<1>. SUFFICES ASSUME NumberInv, [Next]_libVars PROVE NumberInv'
  OBVIOUS
<1>0. TypeInv'
  BY TypeStep DEF NumberInv
<1>1. ASSUME NEW p \in Procs, VersionSteps(p)
      PROVE  NumberInv'
  BY <1>0, <1>1, StandsBy, RowsGoOn, InsertsOn, PointsOn, TakeUps, LooksOn, TextsOn, UnpointsOn, DeletesOn
     DEF VersionSteps
<1>2. ASSUME NEW p \in Procs, AssetSteps(p)
      PROVE  NumberInv'
  BY <1>0, <1>2, StandsBy
<1>3. ASSUME NEW p \in Procs, ImportSteps(p)
      PROVE  NumberInv'
  BY <1>0, <1>3, StandsBy, ReadGoesOn, RowsGoOn, LooksOn, InsertsOn, TextsOn, PointsOn DEF ImportSteps
<1>4. CASE Age \/ UNCHANGED libVars
  <2>1. UNCHANGED <<items, vers, pc, loc, tangled>>
    BY <1>4 DEF Age, libVars, tables, history
  <2>. QED  BY <1>0, <2>1, DiesOn
<1>5. CASE Crash
  <2>1. PICK S \in SUBSET {q \in Procs : pc[q] # "idle"} :
          /\ pc' = [q \in Procs |-> IF q \in S THEN "idle" ELSE pc[q]]
          /\ loc' = [q \in Procs |-> IF q \in S THEN Idle ELSE loc[q]]
          /\ tangled' = tangled \cup ({loc[q].item : q \in {x \in S : pc[x] \in Writing}} \ {None})
          /\ UNCHANGED <<items, vers>>
    BY <1>5 DEF Crash, tables
  <2>. QED  BY <1>0, <2>1, DiesOn
<1>. QED  BY <1>1, <1>2, <1>3, <1>4, <1>5 DEF Next

\* There are no versions at first.
LEMMA NumberInit == Init => NumberInv
<1>1. Init => NumbersApart /\ \A i \in DOMAIN items : Tidy(i)
  BY DEF Init, NumbersApart
<1>. QED  BY <1>1, TypeInit DEF NumberInv

-----------------------------------------------------------------------------
\* Numbers without a gap are as many as the versions that have them.
LEMMA NumbersCount ==
  ASSUME NumberInv, NEW i, Nums(i) = 1..MaxNumber(i)
  PROVE  Cardinality(VersionsOf(i)) = MaxNumber(i)
<1>. DEFINE V == VersionsOf(i)
            m == MaxNumber(i)
            f == [v \in V |-> vers[v].num]
<1>1. m \in Nat
  BY MaxNumberIsNat DEF NumberInv
<1>2. f \in [V -> 1..m] /\ \A n \in 1..m : \E v \in V : f[v] = n
  BY DEF Nums
<1>3. \A v, w \in V : f[v] = f[w] => v = w
  BY DEF NumberInv, NumbersApart, VersionsOf
<1>4. IsFiniteSet(V)
  <2>1. last.ver \in Int /\ V \subseteq 1..last.ver
    BY DEF NumberInv, TypeInv, RowsOK, IdsOK, VersionsOf
  <2>2. IsFiniteSet(1..last.ver)
    BY <2>1, FS_Interval
  <2>. HIDE DEF V
  <2>. QED  BY <2>1, <2>2, FS_Subset
<1>. HIDE DEF V, m, f
<1>5. f \in Bijection(V, 1..m)
  BY <1>2, <1>3 DEF Bijection, Injection, Surjection, IsInjective
<1>6. ExistsBijection(V, 1..m)
  BY <1>5 DEF ExistsBijection
<1>7. Cardinality(1..m) = m
  <2>1. Cardinality(1..m) = IF 1 > m THEN 0 ELSE m - 1 + 1
    BY <1>1, FS_Interval
  <2>. QED  BY <1>1, <2>1
<1>8. Cardinality(1..m) = Cardinality(V)
  BY <1>4, <1>6, FS_Bijection
<1>. QED  BY <1>7, <1>8 DEF V, m

\* What a new chat is offered is whole and the latest, for any editors, imports
\* and deaths of processes: the pointer of a row moves last, to a version whose
\* lorebook is written, and while one writer at a time has a row its versions
\* count up from 1 and the pointer is at the highest.
THEOREM OfferedIsWhole == Spec => []CurrentIsWhole
<1>1. WholeInv /\ NumberInv => CurrentIsWhole
  <2>. SUFFICES ASSUME WholeInv, NumberInv PROVE CurrentIsWhole
    OBVIOUS
  <2>1. ASSUME NEW i \in DOMAIN items, items[i].cur # None
        PROVE  /\ vers[items[i].cur].of = i
               /\ vers[items[i].cur].text \in Cards =>
                    vers[items[i].cur].lore = LoreOf[vers[items[i].cur].text]
    BY <2>1 DEF WholeInv, TypeInv, RowsOK, ItemsOK, PointedWhole, Whole
  <2>2. ASSUME NEW i \in DOMAIN items \ tangled, Writers(i) = {}
        PROVE  /\ {vers[w].num : w \in VersionsOf(i)} = 1..Cardinality(VersionsOf(i))
               /\ IF items[i].cur = None THEN VersionsOf(i) = {} ELSE vers[items[i].cur].num = MaxNumber(i)
    <3>1. Nums(i) = 1..MaxNumber(i) /\ AtLast(i, items[i].cur)
      BY <2>2 DEF NumberInv, Tidy
    <3>2. Cardinality(VersionsOf(i)) = MaxNumber(i)
      BY <3>1, NumbersCount
    <3>. QED  BY <3>1, <3>2 DEF Nums, AtLast
  <2>. QED  BY <2>1, <2>2 DEF CurrentIsWhole
<1>. QED  BY <1>1, WholeInit, WholeStep, NumberInit, NumberStep, PTL DEF Spec

-----------------------------------------------------------------------------
(***************************************************************************)
(* A chat file is imported once.                                           *)
(***************************************************************************)
\* Steps of an import before its chats, those that write chats, and those before
\* the branches are looked for.
BeforeChats == {"import.put", "import.row", "import.read", "import.char", "import.max",
                "import.version", "import.lore", "import.point"}
Busy  == ImportsChats \ {"chats.dup"}
Lists == ImportsChats \ {"chats.link"}

\* Process q will see to the parent of chat c.
Awaits(q, c) == pc[q] \in ImportsChats /\ (c \in loc[q].todo \/ \E l \in loc[q].links : l[1] = c)

\* Chats of the name that chat c branched from.
Named(c) == ByFile(vers[chats[c].ver].of, ParentRef[chats[c].file])

\* What an import remembers of its character and its chats.
OfItem(q) == loc[q].ver # None /\ (loc[q].ver \in DOMAIN vers => vers[loc[q].ver].of = loc[q].item)
Listed(q) ==
  /\ pc[q] \in BeforeChats => loc[q].todo = {} /\ loc[q].links = {}
  /\ pc[q] \in {"import.lore", "import.point"} \cup Lists => OfItem(q)
  /\ pc[q] \in Lists =>
       /\ loc[q].links = {} /\ loc[q].todo \subseteq 1..last.chat
       /\ \A c \in loc[q].todo \cap DOMAIN chats : chats[c].ver = loc[q].ver /\ chats[c].file # None
  /\ pc[q] = "chats.link" =>
       /\ loc[q].todo = {} /\ loc[q].links \subseteq (1..last.chat) \X (1..last.chat)
       /\ \A l \in loc[q].links :
            /\ l[1] \in DOMAIN chats => chats[l[1]].file # None
            /\ {l[1], l[2]} \subseteq DOMAIN chats => l[2] \in Named(l[1])
  /\ pc[q] = "chats.message" =>
       /\ loc[q].chat # None
       /\ loc[q].chat \in DOMAIN chats => chats[loc[q].chat].file = Head(loc[q].files)

\* A file that is not torn is written by one import at a time, once, line by line.
OneImport ==
  \A p, q \in Procs : pc[p] \in Busy /\ pc[q] \in Busy /\ p # q =>
    Pending(p) \cap Pending(q) \subseteq torn
OneChat ==
  \A c, d \in DOMAIN chats :
    chats[c].file = chats[d].file => c = d \/ chats[c].file \in torn \cup {None}
NotYetThere(q) ==
  pc[q] = "chats.insert" /\ Head(loc[q].files) \notin torn =>
    \A c \in DOMAIN chats : chats[c].file # Head(loc[q].files)
LinesLeft(q) ==
  pc[q] = "chats.message" /\ Head(loc[q].files) \notin torn /\ loc[q].chat \in DOMAIN chats =>
    chats[loc[q].chat].have < LinesOf[Head(loc[q].files)]
Filled(c) ==
  chats[c].file \notin torn \cup {None} =>
    \/ chats[c].have = LinesOf[chats[c].file]
    \/ \E q \in Procs : pc[q] = "chats.message" /\ loc[q].chat = c

\* A branch hangs on a chat of that name, or somebody will see to it.
Hangs(c) ==
  /\ chats[c].file \notin torn \cup {None}
  /\ c \notin torn \cup Named(c) /\ (\E d \in Named(c) : d < c)
  => chats[c].parent \in Named(c) \/ \E q \in Procs : Awaits(q, c)

ImportInv ==
  /\ TypeInv /\ OneImport /\ OneChat
  /\ \A q \in Procs : Listed(q) /\ NotYetThere(q) /\ LinesLeft(q)
  /\ \A c \in DOMAIN chats : Filled(c) /\ Hangs(c)

-----------------------------------------------------------------------------
\* A version that is there was there with the same owner, or is new.
OwnersKept ==
  \A v \in 1..last.ver : v \in DOMAIN vers' => v \in DOMAIN vers /\ vers'[v].of = vers[v].of

\* No step gives a version another owner, or its id to another version.
LEMMA OwnersStay ==
  ASSUME TypeInv, [Next]_libVars
  PROVE  OwnersKept
<1>0. /\ \A v \in DOMAIN vers : vers[v] \in VersRow
      /\ last.ver \in Nat /\ NewVer \notin 1..last.ver
  BY ReadIds DEF TypeInv, RowsOK, VersOK, VersRow, NewVer
<1>1. ASSUME NEW p \in Procs, VersionSteps(p)
      PROVE  OwnersKept
  <2>1. CASE CreateVersion(p) \/ UpdateMint(p) \/ UpdateInsert(p)
    <3>1. \/ vers' = vers
          \/ vers' = Row(vers, NewVer, Version(loc[p].item, loc[p].num, loc[p].text, loc[p].avatar))
      BY <2>1 DEF CreateVersion, UpdateMint, UpdateInsert, InsertVersion
    <3>. QED  BY <1>0, <3>1 DEF OwnersKept, Row
  <2>2. CASE UpdateMutate(p)
    BY <1>0, <2>2 DEF UpdateMutate, OwnersKept, VersRow
  <2>3. CASE RemoveDelete(p)
    BY <2>3 DEF RemoveDelete, Without, OwnersKept
  <2>4. CASE ~(CreateVersion(p) \/ UpdateMint(p) \/ UpdateInsert(p) \/ UpdateMutate(p) \/ RemoveDelete(p))
    <3>1. vers' = vers
      BY <1>1, <2>4 DEF VersionSteps, CharacterCreate, PresetCreate, CreateInsert, CreatePoint,
         CharacterUpdate, PresetUpdate, UpdateRead, UpdatePinned, CharacterFork, PresetFork, ForkRead,
         UpdatePoint, UpdateIdentity, RemoveRead, RemoveList, RemoveCheck, RemoveUnpoint,
         OpenLook, OpenPreset, OpenInsert, ChatRemove, tables
    <3>. QED  BY <3>1 DEF OwnersKept
  <2>. QED  BY <2>1, <2>2, <2>3, <2>4
<1>2. ASSUME NEW p \in Procs, AssetSteps(p)
      PROVE  OwnersKept
  <2>1. CASE BackfillLink(p)
    BY <1>0, <2>1 DEF BackfillLink, OwnersKept, VersRow
  <2>2. CASE GcRow(p)
    BY <1>0, <2>2 DEF GcRow, OwnersKept, VersRow
  <2>3. CASE ~BackfillLink(p) /\ ~GcRow(p)
    <3>1. vers' = vers
      BY <1>2, <2>3 DEF AssetSteps, BackfillRead, BackfillPut, BackfillRow, GcStart, GcRemove, GcEnd,
         RebuildRead, RebuildRow, PersonaCreate, PersonaUpdate, PersonaWrite, PersonaRemove, tables
    <3>. QED  BY <3>1 DEF OwnersKept
  <2>. QED  BY <2>1, <2>2, <2>3
<1>3. ASSUME NEW p \in Procs, ImportSteps(p)
      PROVE  OwnersKept
  <2>1. CASE ImportVersion(p)
    BY <1>0, <2>1 DEF ImportVersion, OwnersKept, Row
  <2>2. CASE ImportLore(p)
    BY <1>0, <2>2 DEF ImportLore, OwnersKept, VersRow
  <2>3. CASE ~ImportVersion(p) /\ ~ImportLore(p)
    <3>1. vers' = vers
      BY <1>3, <2>3 DEF ImportSteps, ImportCard, ImportPut, ImportRow, ImportRead, ImportCharacter, ImportMax,
         ImportPoint, ImportLoose, ChatDup, ChatInsert, ChatMessage, ChatBranches, ChatLink, tables
    <3>. QED  BY <3>1 DEF OwnersKept
  <2>. QED  BY <2>1, <2>2, <2>3
<1>4. CASE Age \/ Crash \/ UNCHANGED libVars
  <2>1. vers' = vers
    BY <1>4 DEF Age, Crash, libVars, tables
  <2>. QED  BY <2>1 DEF OwnersKept
<1>. QED  BY <1>1, <1>2, <1>3, <1>4 DEF Next

\* What a step that imports no chat does to the rows of chats: a chat goes, with
\* its branches torn, or one comes that has no file.
ChatsKept ==
  /\ last.chat <= last'.chat /\ torn \subseteq torn'
  /\ \A c \in DOMAIN chats' :
       \/ /\ c \in DOMAIN chats /\ chats'[c].ver = chats[c].ver /\ chats'[c].file = chats[c].file
          /\ chats'[c].have = chats[c].have
          /\ chats'[c].parent = chats[c].parent \/ c \in torn'
       \/ c \notin 1..last.chat /\ chats'[c].file = None
  /\ \A c \in DOMAIN chats \ DOMAIN chats' : \A d \in DOMAIN chats : chats[d].parent = c => d \in torn'

\* What it does to a process: nothing, or the process imports no chats before and
\* after, or it begins to, or it ends, and what it should have seen to is torn.
LetsGo(q) ==
  /\ \A c \in DOMAIN chats : Awaits(q, c) => chats[c].file \in torn'
  /\ pc[q] = "chats.message" => Head(loc[q].files) \in torn'
Moves(q) ==
  \/ pc'[q] = pc[q] /\ loc'[q] = loc[q]
  \/ /\ pc[q] \in ImportsChats => pc'[q] = "idle" /\ LetsGo(q)
     /\ pc'[q] \notin Busy
     /\ Listed(q)'

\* What a process at a chat has in hand is a file.
LEMMA InHand ==
  ASSUME TypeInv, NEW q \in Procs
  PROVE  /\ pc[q] \in {"chats.insert", "chats.message"} =>
              loc[q].files # <<>> /\ Head(loc[q].files) \in Pending(q)
         /\ loc[q].files # <<>> =>
              /\ Head(loc[q].files) \in Files \ {None} /\ Head(loc[q].files) \in Pending(q)
              /\ Tail(loc[q].files) \in Seq(Files)
              /\ \A n \in DOMAIN Tail(loc[q].files) :
                    \E m \in DOMAIN loc[q].files : Tail(loc[q].files)[n] = loc[q].files[m]
         /\ loc[q].files \in Seq(Files) /\ loc[q].chat \in {None} \cup 1..last.chat
         /\ loc[q].ver \in {None} \cup 1..last.ver
<1>. DEFINE s == loc[q].files
<1>1. /\ s \in Seq(Files) /\ loc[q].chat \in {None} \cup 1..last.chat
      /\ loc[q].ver \in {None} \cup 1..last.ver /\ At(pc[q], loc[q])
  BY DEF TypeInv, Fits, Local
<1>2. pc[q] \in {"chats.insert", "chats.message"} => s # <<>>
  BY <1>1 DEF At
<1>3. ASSUME s # <<>>
      PROVE  /\ Head(s) \in Files \ {None} /\ Head(s) \in Pending(q)
             /\ Tail(s) \in Seq(Files)
             /\ \A n \in DOMAIN Tail(s) : \E m \in DOMAIN s : Tail(s)[n] = s[m]
  <2>1. Head(s) \in Files /\ Tail(s) \in Seq(Files) /\ None \notin Files
    BY <1>1, <1>3, HeadTailProperties, LibraryAssumption
  <2>2. Head(s) = s[1] /\ 1 \in DOMAIN s
    BY <1>1, <1>3
  <2>3. ASSUME NEW n \in DOMAIN Tail(s)
        PROVE  \E m \in DOMAIN s : Tail(s)[n] = s[m]
    <3>1. n + 1 \in DOMAIN s /\ Tail(s)[n] = s[n + 1]
      BY <1>1, <1>3
    <3>. QED  BY <3>1
  <2>. QED  BY <2>1, <2>2, <2>3 DEF Pending
<1>. QED  BY <1>1, <1>2, <1>3

\* Rows of a name, after such a step.
LEMMA NamesStay ==
  ASSUME TypeInv, TypeInv', OwnersKept, ChatsKept, NEW c \in DOMAIN chats, c \in DOMAIN chats'
  PROVE  Named(c)' = Named(c) \cap DOMAIN chats'
<1>1. \A d \in DOMAIN chats \cap DOMAIN chats' :
        /\ chats'[d].ver = chats[d].ver /\ chats'[d].file = chats[d].file
        /\ vers'[chats[d].ver].of = vers[chats[d].ver].of
  <2>. SUFFICES ASSUME NEW d \in DOMAIN chats \cap DOMAIN chats'
       PROVE  /\ chats'[d].ver = chats[d].ver /\ chats'[d].file = chats[d].file
              /\ vers'[chats[d].ver].of = vers[chats[d].ver].of
    OBVIOUS
  <2>1. d \in 1..last.chat
    BY ReadIds
  <2>2. chats'[d].ver = chats[d].ver /\ chats'[d].file = chats[d].file
    BY <2>1 DEF ChatsKept
  <2>3. chats[d].ver \in DOMAIN vers /\ chats[d].ver \in DOMAIN vers'
    BY <2>2 DEF TypeInv, RowsOK, ChatsOK
  <2>. QED  BY <2>2, <2>3, ReadIds DEF OwnersKept
<1>2. \A d \in DOMAIN chats' : d \notin DOMAIN chats => chats'[d].file = None
  BY DEF ChatsKept
<1>. QED  BY <1>1, <1>2 DEF Named, ByFile

\* What a process that stays where it is has to do is no more than before.
LEMMA PendingStays ==
  ASSUME TypeInv, ChatsKept, NEW q \in Procs, Listed(q), pc[q] \in ImportsChats,
         pc'[q] = pc[q], loc'[q] = loc[q]
  PROVE  Pending(q)' \subseteq Pending(q)
<1>1. ASSUME NEW c \in DOMAIN chats', c \in loc[q].todo \/ \E l \in loc[q].links : l[1] = c
      PROVE  c \in DOMAIN chats /\ chats'[c].file = chats[c].file
  <2>1. c \in 1..last.chat
    BY <1>1 DEF Listed, ImportsChats, Lists
  <2>. QED  BY <2>1 DEF ChatsKept
<1>. QED  BY <1>1 DEF Pending

\* What a process that stays where it is remembers of its chats stays true.
LEMMA ListedStays ==
  ASSUME TypeInv, TypeInv', OwnersKept, ChatsKept, NEW q \in Procs, Listed(q),
         pc'[q] = pc[q], loc'[q] = loc[q]
  PROVE  Listed(q)'
<1>0. /\ last.chat \in Nat /\ last'.chat \in Nat /\ last.chat <= last'.chat
      /\ loc[q].chat \in {None} \cup 1..last.chat /\ loc[q].ver \in {None} \cup 1..last.ver
  BY ReadIds, InHand DEF ChatsKept, TypeInv, RowsOK, IdsOK
<1>1. 1..last.chat \subseteq 1..last'.chat
  BY <1>0
<1>2. OfItem(q) => OfItem(q)'
  BY <1>0 DEF OfItem, OwnersKept
<1>3. \A c \in 1..last.chat : c \in DOMAIN chats' =>
        c \in DOMAIN chats /\ chats'[c].ver = chats[c].ver /\ chats'[c].file = chats[c].file
  BY DEF ChatsKept
<1>4. ASSUME pc[q] = "chats.link", NEW l \in loc[q].links, {l[1], l[2]} \subseteq DOMAIN chats'
      PROVE  l[2] \in Named(l[1])'
  <2>1. l[1] \in 1..last.chat /\ l[2] \in 1..last.chat
    BY <1>4 DEF Listed
  <2>2. {l[1], l[2]} \subseteq DOMAIN chats
    BY <1>3, <1>4, <2>1
  <2>3. l[2] \in Named(l[1])
    BY <1>4, <2>2 DEF Listed
  <2>4. Named(l[1])' = Named(l[1]) \cap DOMAIN chats'
    BY <1>4, <2>2, NamesStay
  <2>. QED  BY <1>4, <2>3, <2>4
<1>5. pc[q] = "chats.link" => \A l \in loc[q].links : l[1] \in 1..last.chat
  BY DEF Listed
<1>. QED  BY <1>0, <1>1, <1>2, <1>3, <1>4, <1>5 DEF Listed

\* A step that imports no chat keeps what the imports rely on.
LEMMA ImportsStay ==
  ASSUME ImportInv, TypeInv', OwnersKept, ChatsKept, \A q \in Procs : Moves(q)
  PROVE  ImportInv'
<1>0. TypeInv /\ \A q \in Procs : Listed(q)
  BY DEF ImportInv
<1>1. \A q \in Procs : pc'[q] \in Busy => pc'[q] = pc[q] /\ loc'[q] = loc[q] /\ pc[q] \in ImportsChats
  BY DEF Moves, Busy
<1>2. \A c \in DOMAIN chats' : c \in 1..last.chat \/ chats'[c].file # None =>
        /\ c \in DOMAIN chats /\ chats'[c].ver = chats[c].ver /\ chats'[c].file = chats[c].file
        /\ chats'[c].have = chats[c].have
        /\ chats'[c].parent = chats[c].parent \/ c \in torn'
  BY DEF ChatsKept
<1>3. torn \subseteq torn'
  BY DEF ChatsKept
<1>4. OneImport'
  <2>. SUFFICES ASSUME NEW p \in Procs, NEW q \in Procs, pc'[p] \in Busy, pc'[q] \in Busy, p # q
       PROVE  Pending(p)' \cap Pending(q)' \subseteq torn'
    BY DEF OneImport
  <2>1. Pending(p)' \subseteq Pending(p) /\ Pending(q)' \subseteq Pending(q)
    BY <1>0, <1>1, PendingStays
  <2>2. Pending(p) \cap Pending(q) \subseteq torn
    BY <1>1 DEF ImportInv, OneImport
  <2>. QED  BY <1>3, <2>1, <2>2
<1>5. OneChat'
  BY <1>2, <1>3 DEF OneChat, ImportInv
<1>6. ASSUME NEW q \in Procs PROVE Listed(q)'
  BY <1>0, ListedStays DEF Moves
<1>7. ASSUME NEW q \in Procs PROVE NotYetThere(q)'
  <2>. SUFFICES ASSUME pc'[q] = "chats.insert", Head(loc'[q].files) \notin torn',
                       NEW c \in DOMAIN chats'
       PROVE  chats'[c].file # Head(loc'[q].files)
    BY DEF NotYetThere
  <2>1. pc[q] = "chats.insert" /\ loc'[q] = loc[q]
    BY <1>1 DEF Busy, ImportsChats
  <2>2. Head(loc[q].files) \in Files \ {None}
    BY <1>0, <2>1, InHand
  <2>. QED  BY <1>2, <1>3, <2>1, <2>2 DEF ImportInv, NotYetThere
<1>8. ASSUME NEW q \in Procs PROVE LinesLeft(q)'
  <2>. SUFFICES ASSUME pc'[q] = "chats.message", Head(loc'[q].files) \notin torn',
                       loc'[q].chat \in DOMAIN chats'
       PROVE  chats'[loc'[q].chat].have < LinesOf[Head(loc'[q].files)]
    BY DEF LinesLeft
  <2>1. pc[q] = "chats.message" /\ loc'[q] = loc[q]
    BY <1>1 DEF Busy, ImportsChats
  <2>2. loc[q].chat \in 1..last.chat
    BY <1>0, <2>1, InHand DEF Listed
  <2>. QED  BY <1>2, <1>3, <2>1, <2>2 DEF ImportInv, LinesLeft
<1>9. ASSUME NEW c \in DOMAIN chats', chats'[c].file \notin torn' \cup {None} PROVE Filled(c)'
  <2>1. /\ c \in DOMAIN chats /\ chats'[c].file = chats[c].file /\ chats'[c].have = chats[c].have
        /\ chats[c].file \notin torn \cup {None}
    BY <1>2, <1>3, <1>9
  <2>2. CASE chats[c].have = LinesOf[chats[c].file]
    BY <2>1, <2>2 DEF Filled
  <2>3. CASE \E q \in Procs : pc[q] = "chats.message" /\ loc[q].chat = c
    <3>1. PICK q \in Procs : pc[q] = "chats.message" /\ loc[q].chat = c
      BY <2>3
    <3>2. chats[c].file = Head(loc[q].files)
      BY <1>0, <2>1, <3>1 DEF Listed
    <3>3. pc'[q] = pc[q] /\ loc'[q] = loc[q]
      BY <1>9, <2>1, <3>1, <3>2 DEF Moves, LetsGo, ImportsChats
    <3>. QED  BY <3>1, <3>3 DEF Filled
  <2>. QED  BY <2>1, <2>2, <2>3 DEF ImportInv, Filled
<1>10. ASSUME NEW c \in DOMAIN chats', chats'[c].file \notin torn' \cup {None},
              c \notin torn' \cup Named(c)', NEW d \in Named(c)', d < c
       PROVE  chats'[c].parent \in Named(c)' \/ \E q \in Procs : Awaits(q, c)'
  <2>1. /\ c \in DOMAIN chats /\ chats'[c].file = chats[c].file
        /\ chats'[c].parent = chats[c].parent /\ chats[c].file \notin torn \cup {None} /\ c \notin torn
    BY <1>2, <1>3, <1>10
  <2>2. Named(c)' = Named(c) \cap DOMAIN chats'
    BY <1>0, <2>1, NamesStay
  <2>3. c \notin Named(c) /\ d \in Named(c)
    BY <1>10, <2>2
  <2>4. chats[c].parent \in Named(c) \/ \E q \in Procs : Awaits(q, c)
    BY <1>10, <2>1, <2>3 DEF ImportInv, Hangs
  <2>5. CASE chats[c].parent \in Named(c)
    <3>1. chats[c].parent \in DOMAIN chats
      BY <2>5 DEF Named, ByFile
    <3>2. chats[c].parent \in DOMAIN chats'
      BY <1>10, <2>1, <3>1 DEF ChatsKept
    <3>. QED  BY <2>1, <2>2, <2>5, <3>2
  <2>6. CASE \E q \in Procs : Awaits(q, c)
    <3>1. PICK q \in Procs : Awaits(q, c)
      BY <2>6
    <3>2. pc'[q] = pc[q] /\ loc'[q] = loc[q]
      BY <1>10, <2>1, <3>1 DEF Moves, LetsGo, Awaits
    <3>. QED  BY <3>1, <3>2 DEF Awaits
  <2>. QED  BY <2>4, <2>5, <2>6
<1>11. \A c \in DOMAIN chats' : Filled(c)' /\ Hangs(c)'
  BY <1>9, <1>10 DEF Filled, Hangs
<1>. QED  BY <1>4, <1>5, <1>6, <1>7, <1>8, <1>11 DEF ImportInv

-----------------------------------------------------------------------------
(***************************************************************************)
(* The steps that import no chat.                                          *)
(***************************************************************************)
\* One process moves, and chats stay as they are.
LEMMA Moving ==
  ASSUME ImportInv, TypeInv', OwnersKept, UNCHANGED chats, last.chat <= last'.chat, torn \subseteq torn',
         NEW p \in Procs, Others(p), Moves(p)
  PROVE  ImportInv'
<1>1. ChatsKept
  BY DEF ChatsKept
<1>2. \A q \in Procs : Moves(q)
  BY DEF Others, Moves
<1>. QED  BY <1>1, <1>2, ImportsStay

\* Editing, forking, removing and opening import nothing.
LEMMA VersionStepsImportNothing ==
  ASSUME ImportInv, TypeInv', OwnersKept, NEW p \in Procs, VersionSteps(p)
  PROVE  ImportInv'
<1>0. /\ DOMAIN pc = Procs /\ DOMAIN loc = Procs
      /\ last \in [item : Nat, ver : Nat, chat : Nat] /\ \A c \in DOMAIN chats : chats[c] \in ChatRow
  BY DEF ImportInv, TypeInv, ProcsOK, RowsOK, IdsOK, ChatsOK, ChatRow
<1>1. CASE OpenInsert(p)
  <2>1. /\ pc[p] = "open.insert" /\ Finish(p) /\ torn' = torn
        /\ \/ UNCHANGED <<chats, last>>
           \/ /\ Counts("chat")
              /\ chats' = Row(chats, NewChat,
                     [ver |-> loc[p].ver, preset |-> loc[p].cur, file |-> None, parent |-> None,
                      have |-> 0, seen |-> Seen(loc[p].ver), config |-> Seen(loc[p].cur)])
    BY <1>1 DEF OpenInsert, history
  <2>2. ChatsKept
    BY <1>0, <2>1 DEF ChatsKept, Counts, Row, NewChat
  <2>3. \A q \in Procs : Moves(q)
    BY <1>0, <2>1 DEF Moves, Finish, Goto, Listed, ImportsChats, Busy, Lists, BeforeChats
  <2>. QED  BY <2>2, <2>3, ImportsStay
<1>2. CASE ChatRemove(p)
  <2>1. PICK c \in DOMAIN chats :
          /\ chats' = [d \in DOMAIN chats \ {c} |-> [chats[d] EXCEPT !.parent = IF @ = c THEN None ELSE @]]
          /\ torn' = torn \cup {d \in DOMAIN chats : chats[d].parent = c}
          /\ UNCHANGED <<last, pc, loc>>
    BY <1>2 DEF ChatRemove
  <2>2. \A d \in DOMAIN chats' :
          /\ d \in DOMAIN chats /\ chats'[d].ver = chats[d].ver /\ chats'[d].file = chats[d].file
          /\ chats'[d].have = chats[d].have
          /\ chats'[d].parent = chats[d].parent \/ d \in torn'
    BY <1>0, <2>1 DEF ChatRow
  <2>3. ChatsKept
    <3>1. DOMAIN chats' = DOMAIN chats \ {c} /\ last' = last /\ torn \subseteq torn'
          /\ \A d \in DOMAIN chats : chats[d].parent = c => d \in torn'
      BY <2>1
    <3>2. last.chat <= last'.chat
      BY <1>0, <3>1
    <3>. QED  BY <2>2, <3>1, <3>2 DEF ChatsKept
  <2>4. \A q \in Procs : Moves(q)
    BY <2>1 DEF Moves
  <2>. QED  BY <2>3, <2>4, ImportsStay
<1>3. CASE ~OpenInsert(p) /\ ~ChatRemove(p)
  <2>1. chats' = chats /\ torn' = torn
    BY <1>3 DEF VersionSteps, CharacterCreate, PresetCreate, CreateInsert, CreateVersion, CreatePoint,
       CharacterUpdate, PresetUpdate, UpdateRead, UpdatePinned, UpdateMint, CharacterFork, PresetFork, ForkRead,
       UpdateInsert, UpdatePoint, UpdateMutate, UpdateIdentity, RemoveRead, RemoveList, RemoveCheck,
       RemoveUnpoint, RemoveDelete, OpenLook, OpenPreset, tables, history
  <2>2. last.chat <= last'.chat
    <3>1. last' = last \/ Counts("item") \/ Counts("ver")
      BY <1>3 DEF VersionSteps, CharacterCreate, PresetCreate, CreateInsert, CreateVersion, CreatePoint,
         CharacterUpdate, PresetUpdate, UpdateRead, UpdatePinned, UpdateMint, CharacterFork, PresetFork, ForkRead,
         UpdateInsert, UpdatePoint, UpdateMutate, UpdateIdentity, RemoveRead, RemoveList, RemoveCheck,
         RemoveUnpoint, RemoveDelete, OpenLook, OpenPreset, InsertVersion, tables
    <3>. QED  BY <1>0, <3>1 DEF Counts
  <2>3. \E l, r : Goto(p, l, r) /\ pc[p] \notin ImportsChats /\ l \notin ImportsChats \cup BeforeChats
    <3>1. CASE CharacterCreate(p) \/ PresetCreate(p) \/ RemoveRead(p) \/ OpenLook(p)
      <4>1. \E l, r : Goto(p, l, r) /\ pc[p] = "idle" /\ l \in {"create.insert", "remove.list", "open.preset"}
        BY <3>1 DEF CharacterCreate, PresetCreate, RemoveRead, OpenLook, Begin, Request
      <4>. QED  BY <4>1 DEF ImportsChats, BeforeChats
    <3>2. CASE CharacterUpdate(p) \/ PresetUpdate(p)
      <4>1. PICK i, t, h, a : UpdateRead(p, i, t, h, a)
        BY <3>2 DEF CharacterUpdate, PresetUpdate
      <4>2. PICK l, r : Begin(p, "update", l, r) /\ l \in {"update.pinned", "update.identity"}
        <5>. DEFINE s == [Idle EXCEPT !.item = i, !.cur = items[i].cur, !.text = t,
                             !.handle = IF h = items[i].handle THEN None ELSE h, !.avatar = a]
        <5>1. Begin(p, "update", IF t # None THEN "update.pinned" ELSE "update.identity", s)
          BY <4>1 DEF UpdateRead
        <5>. HIDE DEF s
        <5>. QED  BY <5>1
      <4>3. Goto(p, l, r) /\ pc[p] = "idle"
        BY <4>2 DEF Begin, Request
      <4>. QED  BY <4>2, <4>3 DEF ImportsChats, BeforeChats
    <3>3. CASE CreateInsert(p) \/ CreateVersion(p) \/ CreatePoint(p)
      BY <3>3 DEF CreateInsert, CreateVersion, CreatePoint, SetPointer, InsertVersion, Finish,
         ImportsChats, BeforeChats
    <3>4. CASE UpdatePinned(p) \/ UpdateMint(p) \/ CharacterFork(p) \/ PresetFork(p)
      BY <3>4 DEF UpdatePinned, UpdateMint, CharacterFork, PresetFork, ForkRead, InsertVersion, Finish,
         ImportsChats, BeforeChats
    <3>5. CASE UpdateInsert(p) \/ UpdatePoint(p) \/ UpdateMutate(p) \/ UpdateIdentity(p)
      BY <3>5 DEF UpdateInsert, UpdatePoint, UpdateMutate, UpdateIdentity, SetPointer, InsertVersion, Finish,
         ImportsChats, BeforeChats
    <3>6. CASE RemoveList(p) \/ RemoveCheck(p) \/ RemoveUnpoint(p) \/ RemoveDelete(p) \/ OpenPreset(p)
      BY <3>6 DEF RemoveList, RemoveCheck, RemoveUnpoint, RemoveDelete, OpenPreset, Finish,
         ImportsChats, BeforeChats
    <3>. QED  BY <1>3, <3>1, <3>2, <3>3, <3>4, <3>5, <3>6 DEF VersionSteps
  <2>4. Others(p) /\ Moves(p)
    <3>1. PICK l, r : Goto(p, l, r) /\ pc[p] \notin ImportsChats /\ l \notin ImportsChats \cup BeforeChats
      BY <2>3
    <3>2. Others(p) /\ pc'[p] = l
      BY <1>0, <3>1 DEF Goto, Others
    <3>. QED  BY <3>1, <3>2 DEF Moves, Listed, ImportsChats, Busy, Lists, BeforeChats
  <2>. QED  BY <2>1, <2>2, <2>4, Moving
<1>. QED  BY <1>1, <1>2, <1>3

\* The backfill, the sweep, the rebuild and personas import nothing.
LEMMA AssetStepsImportNothing ==
  ASSUME ImportInv, TypeInv', OwnersKept, NEW p \in Procs, AssetSteps(p)
  PROVE  ImportInv'
<1>0. /\ DOMAIN pc = Procs /\ DOMAIN loc = Procs /\ last.chat \in Nat
  BY ReadIds DEF ImportInv, TypeInv, ProcsOK
<1>1. chats' = chats /\ torn' = torn /\ last' = last
  BY DEF AssetSteps, BackfillRead, BackfillPut, BackfillRow, BackfillLink, GcStart, GcRemove, GcRow, GcEnd,
     RebuildRead, RebuildRow, PersonaCreate, PersonaUpdate, PersonaWrite, PersonaRemove, tables, history
<1>2. /\ Others(p)
      /\ \/ pc'[p] = pc[p] /\ loc'[p] = loc[p]
         \/ pc[p] \notin ImportsChats /\ pc'[p] \notin ImportsChats \cup BeforeChats
  <2>1. CASE PersonaCreate(p) \/ PersonaUpdate(p) \/ PersonaRemove(p)
    <3>1. pc' = pc /\ loc' = loc
      BY <2>1 DEF PersonaCreate, PersonaUpdate, PersonaWrite, PersonaRemove
    <3>. QED  BY <3>1 DEF Others
  <2>2. CASE ~(PersonaCreate(p) \/ PersonaUpdate(p) \/ PersonaRemove(p))
    BY <1>0, <2>2 DEF AssetSteps, BackfillRead, BackfillPut, BackfillRow, BackfillLink, GcStart,
       GcRemove, GcRow, GcEnd, RebuildRead, RebuildRow, Begin, Request, Goto, Finish, Others,
       ImportsChats, BeforeChats
  <2>. QED  BY <2>1, <2>2
<1>3. Moves(p)
  BY <1>2 DEF Moves, Listed, ImportsChats, Busy, Lists, BeforeChats
<1>. QED  BY <1>0, <1>1, <1>2, <1>3, Moving

\* The steps of an import before its chats.
LEMMA ImportBegins ==
  ASSUME ImportInv, TypeInv', OwnersKept, NEW p \in Procs,
         \/ ImportCard(p) \/ ImportPut(p) \/ ImportRow(p) \/ ImportRead(p) \/ ImportCharacter(p)
         \/ ImportMax(p) \/ ImportVersion(p) \/ ImportLore(p) \/ ImportPoint(p) \/ ImportLoose(p)
  PROVE  ImportInv'
<1>. DEFINE r == loc[p]
<1>0. /\ DOMAIN pc = Procs /\ DOMAIN loc = Procs /\ Local(r) /\ Listed(p)
      /\ last \in [item : Nat, ver : Nat, chat : Nat] /\ TypeInv
  BY DEF ImportInv, TypeInv, ProcsOK, Fits, RowsOK, IdsOK
<1>1. chats' = chats /\ torn' = torn /\ pc[p] \in BeforeChats \cup {"idle"}
  BY DEF ImportCard, ImportPut, ImportRow, ImportRead, ImportCharacter, ImportMax, ImportVersion, ImportLore,
     ImportPoint, ImportLoose, Begin, Request, tables, history, BeforeChats
<1>2. last.chat <= last'.chat
  <2>1. last' = last \/ Counts("item") \/ Counts("ver")
    BY DEF ImportCard, ImportPut, ImportRow, ImportRead, ImportCharacter, ImportMax, ImportVersion, ImportLore,
       ImportPoint, ImportLoose, tables
  <2>. QED  BY <1>0, <2>1 DEF Counts
<1>3. Others(p)
  BY <1>0 DEF ImportCard, ImportPut, ImportRow, ImportRead, ImportCharacter, ImportMax, ImportVersion,
     ImportLore, ImportPoint, ImportLoose, Begin, Goto, Finish, Others
<1>4. pc'[p] \in BeforeChats \cup {"idle", "chats.dup"}
  BY <1>0 DEF ImportCard, ImportPut, ImportRow, ImportRead, ImportCharacter, ImportMax, ImportVersion,
     ImportLore, ImportPoint, ImportLoose, AfterVersion, Begin, Goto, Finish, BeforeChats
<1>5. pc'[p] # "idle" => loc'[p].todo = {} /\ loc'[p].links = {}
  <2>1. CASE ImportCard(p) \/ ImportLoose(p)
    <3>1. CASE ImportCard(p)
      <4>1. PICK k, fs, l :
              Goto(p, l, [Idle EXCEPT !.card = k, !.files = fs, !.text = k,
                                      !.avatar = IF k \in PngCards THEN k ELSE None])
        BY <3>1 DEF ImportCard, Begin
      <4>. DEFINE a == IF k \in PngCards THEN k ELSE None
                  s == [Idle EXCEPT !.card = k, !.files = fs, !.text = k, !.avatar = a]
      <4>2. s.todo = {} /\ s.links = {}
        <5>. HIDE DEF a
        <5>. QED  BY DEF Idle
      <4>3. loc'[p] = s
        BY <1>0, <4>1 DEF Goto
      <4>. QED  BY <4>2, <4>3
    <3>2. CASE ImportLoose(p)
      <4>1. PICK i, v, fs : Goto(p, "chats.dup", [Idle EXCEPT !.item = i, !.ver = v, !.files = fs])
        BY <3>2 DEF ImportLoose, Begin
      <4>. QED  BY <1>0, <4>1 DEF Goto, Idle
    <3>. QED  BY <2>1, <3>1, <3>2
  <2>2. CASE ~ImportCard(p) /\ ~ImportLoose(p)
    <3>1. pc[p] \in BeforeChats
      BY <2>2 DEF ImportPut, ImportRow, ImportRead, ImportCharacter, ImportMax, ImportVersion, ImportLore,
         ImportPoint, BeforeChats
    <3>2. r.todo = {} /\ r.links = {}
      BY <1>0, <3>1 DEF Listed
    <3>3. \/ Finish(p)
          \/ \E l : Goto(p, l, r)
          \/ \E l, i, v : Goto(p, l, [r EXCEPT !.item = i, !.ver = v])
          \/ \E l, i : Goto(p, l, [r EXCEPT !.item = i])
          \/ \E l, i, n : Goto(p, l, [r EXCEPT !.item = i, !.num = n])
          \/ \E l, n : Goto(p, l, [r EXCEPT !.num = n])
          \/ \E l, v : Goto(p, l, [r EXCEPT !.ver = v])
      BY <2>2 DEF ImportPut, ImportRow, ImportRead, ImportCharacter, ImportMax, ImportVersion, ImportLore,
         ImportPoint
    <3>4. CASE Finish(p)
      BY <1>0, <3>4 DEF Goto, Finish
    <3>5. CASE \E l : Goto(p, l, r)
      BY <1>0, <3>2, <3>5 DEF Goto
    <3>6. CASE \E l, i, v : Goto(p, l, [r EXCEPT !.item = i, !.ver = v])
      BY <1>0, <3>2, <3>6 DEF Goto, Local
    <3>7. CASE \E l, i : Goto(p, l, [r EXCEPT !.item = i])
      BY <1>0, <3>2, <3>7 DEF Goto, Local
    <3>8. CASE \E l, i, n : Goto(p, l, [r EXCEPT !.item = i, !.num = n])
      BY <1>0, <3>2, <3>8 DEF Goto, Local
    <3>9. CASE \E l, n : Goto(p, l, [r EXCEPT !.num = n])
      BY <1>0, <3>2, <3>9 DEF Goto, Local
    <3>10. CASE \E l, v : Goto(p, l, [r EXCEPT !.ver = v])
      BY <1>0, <3>2, <3>10 DEF Goto, Local
    <3>. QED  BY <3>3, <3>4, <3>5, <3>6, <3>7, <3>8, <3>9, <3>10
  <2>. QED  BY <2>1, <2>2
<1>6. pc'[p] \in {"import.lore", "import.point", "chats.dup"} => OfItem(p)'
  <2>1. CASE ImportVersion(p)
    <3>. DEFINE row == [of |-> r.item, num |-> r.num, text |-> r.text, avatar |-> r.avatar, lore |-> 0]
    <3>1. \/ Finish(p)
          \/ vers' = Row(vers, NewVer, row) /\ \E l : Goto(p, l, [r EXCEPT !.ver = NewVer])
      BY <2>1 DEF ImportVersion
    <3>2. row.of = r.item /\ NewVer # None
      BY <1>0, NextIsFresh
    <3>. HIDE DEF row
    <3>3. CASE Finish(p)
      BY <1>0, <3>3 DEF Finish, Goto
    <3>4. CASE vers' = Row(vers, NewVer, row) /\ \E l : Goto(p, l, [r EXCEPT !.ver = NewVer])
      <4>1. PICK n : n = NewVer
        OBVIOUS
      <4>2. vers'[n] = row /\ loc'[p].ver = n /\ loc'[p].item = r.item
        BY <1>0, <3>4, <4>1 DEF Row, Goto, Local
      <4>. QED  BY <3>2, <4>1, <4>2 DEF OfItem
    <3>. QED  BY <3>1, <3>3, <3>4
  <2>2. CASE ImportLore(p) \/ ImportPoint(p)
    <3>1. OfItem(p) /\ (pc'[p] = "idle" \/ loc'[p] = r)
      BY <1>0, <2>2 DEF ImportLore, ImportPoint, Goto, Finish, Listed
    <3>2. r.ver \in 1..last.ver
      BY <1>0, <3>1 DEF OfItem, Local
    <3>. QED  BY <3>1, <3>2 DEF OfItem, OwnersKept
  <2>3. CASE ImportRead(p) \/ ImportLoose(p)
    <3>1. ASSUME pc'[p] = "chats.dup"
          PROVE  \E i \in DOMAIN items : items[i].cur # None /\ loc'[p].item = i /\ loc'[p].ver = items[i].cur
      <4>1. CASE ImportLoose(p)
        <5>1. PICK i, fs :
                /\ i \in DOMAIN items /\ items[i].cur # None
                /\ Goto(p, "chats.dup", [Idle EXCEPT !.item = i, !.ver = items[i].cur, !.files = fs])
          BY <4>1 DEF ImportLoose, Begin
        <5>2. loc'[p].item = i /\ loc'[p].ver = items[i].cur
          BY <1>0, <5>1 DEF Goto, Idle
        <5>. QED  BY <5>1, <5>2
      <4>2. CASE ImportRead(p)
        <5>. DEFINE found == {i \in DOMAIN items : items[i].handle = CardHandle[r.card]}
        <5>1. PICK i : i = CHOOSE x \in found : TRUE
          OBVIOUS
        <5>2. /\ found # {} /\ items[i].cur # None
              /\ Goto(p, "chats.dup", [r EXCEPT !.item = i, !.ver = items[i].cur])
          BY <1>0, <3>1, <4>2, <5>1 DEF ImportRead, Goto
        <5>3. i \in DOMAIN items
          BY <5>1, <5>2
        <5>. QED  BY <1>0, <5>2, <5>3 DEF Goto, Local
      <4>. QED  BY <2>3, <4>1, <4>2
    <3>2. vers' = vers /\ pc'[p] \notin {"import.lore", "import.point"}
      BY <1>0, <2>3 DEF ImportRead, ImportLoose, Begin, Goto, tables
    <3>3. \A i \in DOMAIN items : items[i].cur # None => vers[items[i].cur].of = i
      BY <1>0 DEF TypeInv, RowsOK, ItemsOK
    <3>. QED  BY <3>1, <3>2, <3>3 DEF OfItem
  <2>4. CASE ImportCard(p) \/ ImportPut(p) \/ ImportRow(p) \/ ImportCharacter(p) \/ ImportMax(p)
    BY <1>0, <2>4 DEF ImportCard, ImportPut, ImportRow, ImportCharacter, ImportMax, Begin, Goto, Finish
  <2>. QED  BY <2>1, <2>2, <2>3, <2>4
<1>7. Moves(p)
  <2>1. pc[p] \notin ImportsChats /\ pc'[p] \notin Busy
    BY <1>1, <1>4 DEF BeforeChats, ImportsChats, Busy
  <2>2. Listed(p)'
    BY <1>4, <1>5, <1>6 DEF Listed, BeforeChats, Lists, ImportsChats
  <2>. QED  BY <2>1, <2>2 DEF Moves
<1>. QED  BY <1>1, <1>2, <1>3, <1>7, Moving

-----------------------------------------------------------------------------
(***************************************************************************)
(* The steps that import chats.                                            *)
(***************************************************************************)
\* The chats are those of before, with their files.
SameFiles ==
  /\ vers' = vers /\ last' = last /\ torn \subseteq torn' /\ DOMAIN chats' = DOMAIN chats
  /\ \A c \in DOMAIN chats : chats'[c].ver = chats[c].ver /\ chats'[c].file = chats[c].file

\* Then what the other processes have to do stays the same.
LEMMA FilesStay ==
  ASSUME TypeInv, SameFiles, NEW p \in Procs, Others(p)
  PROVE  /\ \A c \in DOMAIN chats : Named(c)' = Named(c)
         /\ \A q \in Procs \ {p} :
              /\ Pending(q)' = Pending(q) /\ (Listed(q) => Listed(q)')
              /\ \A c : Awaits(q, c)' = Awaits(q, c)
<1>1. ASSUME NEW c \in DOMAIN chats PROVE Named(c)' = Named(c)
  BY DEF SameFiles, Named, ByFile
<1>2. ASSUME NEW q \in Procs \ {p} PROVE Pending(q)' = Pending(q)
  BY DEF SameFiles, Others, Pending
<1>3. ASSUME NEW q \in Procs \ {p}, Listed(q) PROVE Listed(q)'
  <2>1. pc'[q] = pc[q] /\ loc'[q] = loc[q]
    BY DEF Others
  <2>2. OfItem(q)' = OfItem(q)
    BY <2>1 DEF SameFiles, OfItem
  <2>. QED  BY <1>1, <1>3, <2>1, <2>2 DEF SameFiles, Listed
<1>4. ASSUME NEW q \in Procs \ {p}, NEW c PROVE Awaits(q, c)' = Awaits(q, c)
  BY DEF Others, Awaits
<1>. QED  BY <1>1, <1>2, <1>3, <1>4

\* A process goes on with its chats.
LEMMA ChatsGoOn ==
  ASSUME ImportInv, TypeInv', SameFiles, NEW p \in Procs, Others(p), pc[p] \in ImportsChats,
         Listed(p)', NotYetThere(p)', LinesLeft(p)', Pending(p)' \subseteq Pending(p),
         pc[p] \in Busy \/ pc'[p] \notin Busy
           \/ \A q \in Procs \ {p} : pc[q] \in Busy => Pending(p) \cap Pending(q) \subseteq torn',
         \A c \in DOMAIN chats : \/ chats'[c].have = chats[c].have
                                 \/ pc[p] = "chats.message" /\ c = loc[p].chat,
         \A c \in DOMAIN chats : pc[p] = "chats.message" /\ c = loc[p].chat => Filled(c)',
         \A c \in DOMAIN chats : \/ chats'[c].parent = chats[c].parent
                                 \/ chats'[c].parent \in Named(c),
         \A c \in DOMAIN chats : \A d \in Named(c) : Awaits(p, c) /\ c \notin Named(c) =>
           Awaits(p, c)' \/ chats'[c].parent \in Named(c) \/ chats[c].file \in torn'
  PROVE  ImportInv'
<1>0. TypeInv /\ \A q \in Procs : Listed(q) /\ NotYetThere(q) /\ LinesLeft(q)
  BY DEF ImportInv
<1>a. /\ \A c \in DOMAIN chats : Named(c)' = Named(c)
      /\ \A q \in Procs \ {p} : Pending(q)' = Pending(q) /\ Listed(q)' /\ \A c : Awaits(q, c)' = Awaits(q, c)
  BY <1>0, FilesStay
<1>b. /\ torn \subseteq torn' /\ DOMAIN chats' = DOMAIN chats
      /\ \A c \in DOMAIN chats : chats'[c].file = chats[c].file
      /\ \A q \in Procs \ {p} : pc'[q] = pc[q] /\ loc'[q] = loc[q]
  BY DEF SameFiles, Others
<1>1. OneImport'
  <2>. SUFFICES ASSUME NEW x \in Procs, NEW y \in Procs, pc'[x] \in Busy, pc'[y] \in Busy, x # y
       PROVE  Pending(x)' \cap Pending(y)' \subseteq torn'
    BY DEF OneImport
  <2>1. Pending(x)' \subseteq Pending(x) /\ Pending(y)' \subseteq Pending(y)
    BY <1>a
  <2>2. CASE pc[x] \in Busy /\ pc[y] \in Busy
    BY <1>b, <2>1, <2>2 DEF ImportInv, OneImport
  <2>3. CASE ~(pc[x] \in Busy /\ pc[y] \in Busy)
    BY <1>b, <2>1, <2>3
  <2>. QED  BY <2>2, <2>3
<1>2. OneChat'
  BY <1>b DEF OneChat, ImportInv
<1>3. ASSUME NEW q \in Procs PROVE Listed(q)' /\ NotYetThere(q)'
  BY <1>0, <1>a, <1>b, <1>3 DEF NotYetThere
<1>4. ASSUME NEW q \in Procs PROVE LinesLeft(q)'
  <2>1. CASE q = p
    BY <2>1
  <2>2. CASE q # p
    <3>. SUFFICES ASSUME pc[q] = "chats.message", Head(loc[q].files) \notin torn',
                         loc[q].chat \in DOMAIN chats
         PROVE  chats'[loc[q].chat].have < LinesOf[Head(loc[q].files)]
      BY <1>b, <2>2 DEF LinesLeft
    <3>1. chats[loc[q].chat].have < LinesOf[Head(loc[q].files)]
      BY <1>0, <1>b DEF LinesLeft
    <3>2. chats[loc[q].chat].file = Head(loc[q].files) /\ Head(loc[q].files) \in Pending(q)
      BY <1>0, InHand DEF Listed
    <3>3. ~(pc[p] = "chats.message" /\ loc[q].chat = loc[p].chat)
      <4>. SUFFICES ASSUME pc[p] = "chats.message", loc[q].chat = loc[p].chat PROVE FALSE
        OBVIOUS
      <4>1. Head(loc[q].files) \in Pending(p)
        BY <1>0, <3>2, InHand DEF Listed
      <4>. QED  BY <1>b, <2>2, <3>2, <4>1 DEF ImportInv, OneImport, Busy, ImportsChats
    <3>. QED  BY <3>1, <3>3
  <2>. QED  BY <2>1, <2>2
<1>5. ASSUME NEW c \in DOMAIN chats PROVE Filled(c)'
  <2>1. CASE pc[p] = "chats.message" /\ c = loc[p].chat
    BY <2>1
  <2>2. CASE ~(pc[p] = "chats.message" /\ c = loc[p].chat)
    <3>1. Filled(c) /\ chats'[c].have = chats[c].have
      BY <2>2 DEF ImportInv
    <3>2. \A q \in Procs : pc[q] = "chats.message" /\ loc[q].chat = c =>
                              pc'[q] = "chats.message" /\ loc'[q].chat = c
      BY <1>b, <2>2
    <3>. QED  BY <1>b, <3>1, <3>2 DEF Filled
  <2>. QED  BY <2>1, <2>2
<1>6. ASSUME NEW c \in DOMAIN chats, chats'[c].file \notin torn' \cup {None},
             c \notin torn' \cup Named(c)', NEW d \in Named(c)', d < c
      PROVE  chats'[c].parent \in Named(c)' \/ \E q \in Procs : Awaits(q, c)'
  <2>1. c \notin torn \cup Named(c) /\ d \in Named(c) /\ chats[c].file \notin torn \cup {None}
        /\ chats[c].file \notin torn'
    BY <1>6, <1>a, <1>b
  <2>2. chats[c].parent \in Named(c) \/ \E q \in Procs : Awaits(q, c)
    BY <1>6, <2>1 DEF ImportInv, Hangs
  <2>3. CASE chats[c].parent \in Named(c)
    BY <1>a, <2>3
  <2>4. CASE \E q \in Procs : Awaits(q, c)
    <3>1. PICK q \in Procs : Awaits(q, c)
      BY <2>4
    <3>2. CASE q = p
      BY <1>a, <2>1, <3>1, <3>2
    <3>3. CASE q # p
      BY <1>a, <3>1, <3>3
    <3>. QED  BY <3>2, <3>3
  <2>. QED  BY <2>2, <2>3, <2>4
<1>7. \A c \in DOMAIN chats' : Filled(c)' /\ Hangs(c)'
  BY <1>b, <1>5, <1>6 DEF Hangs
<1>. QED  BY <1>1, <1>2, <1>3, <1>4, <1>7 DEF ImportInv

\* What it remembers of its files is shorter, of its chats the same.
LEMMA FewerFiles ==
  ASSUME TypeInv, NEW p \in Procs, SameFiles, loc'[p].files = loc[p].files \/
           (loc[p].files # <<>> /\ loc'[p].files = Tail(loc[p].files)),
         loc'[p].todo \subseteq loc[p].todo, loc'[p].links \subseteq loc[p].links
  PROVE  Pending(p)' \subseteq Pending(p)
<1>1. \A n \in DOMAIN loc'[p].files : \E m \in DOMAIN loc[p].files : loc'[p].files[n] = loc[p].files[m]
  <2>1. CASE loc'[p].files = loc[p].files
    BY <2>1
  <2>2. CASE loc[p].files # <<>> /\ loc'[p].files = Tail(loc[p].files)
    <3>1. \A n \in DOMAIN Tail(loc[p].files) : \E m \in DOMAIN loc[p].files : Tail(loc[p].files)[n] = loc[p].files[m]
      BY <2>2, InHand
    <3>. QED  BY <2>2, <3>1
  <2>. QED  BY <2>1, <2>2
<1>. QED  BY <1>1 DEF Pending, SameFiles

\* A file that is there is skipped, another is taken up: if it is in two hands, it is torn.
LEMMA DupImportsOnce ==
  ASSUME ImportInv, TypeInv', NEW p \in Procs, ChatDup(p)
  PROVE  ImportInv'
<1>. DEFINE r == loc[p]
            f == Head(r.files)
            tail == [r EXCEPT !.files = Tail(@)]
<1>0. DOMAIN pc = Procs /\ DOMAIN loc = Procs /\ Local(r) /\ Listed(p) /\ TypeInv
  BY DEF ImportInv, TypeInv, ProcsOK, Fits
<1>1. /\ pc[p] = "chats.dup" /\ vers' = vers /\ chats' = chats /\ last' = last
      /\ torn' = torn \cup {g \in Pending(p) : Importing(g) \ {p} # {}}
      /\ \/ r.files = <<>> /\ Goto(p, "chats.branch", r)
         \/ r.files # <<>> /\ Goto(p, "chats.dup", tail)
         \/ /\ Goto(p, "chats.insert", r)
            /\ \A c \in DOMAIN chats : chats[c].file # f
  BY DEF ChatDup, tables
<1>2. SameFiles
  BY <1>1 DEF SameFiles
<1>3. Others(p) /\ pc'[p] \in {"chats.dup", "chats.branch", "chats.insert"}
  BY <1>0, <1>1 DEF Goto, Others
<1>4. /\ loc'[p].ver = r.ver /\ loc'[p].item = r.item /\ loc'[p].todo = r.todo /\ loc'[p].links = r.links
      /\ loc'[p].files = r.files \/ (r.files # <<>> /\ loc'[p].files = Tail(r.files))
      /\ pc'[p] = "chats.insert" => loc'[p] = r
  BY <1>0, <1>1 DEF Goto, Local
<1>5. Listed(p)'
  <2>1. OfItem(p)' = OfItem(p)
    BY <1>1, <1>4 DEF OfItem
  <2>. QED  BY <1>0, <1>1, <1>3, <1>4, <2>1 DEF Listed, Lists, ImportsChats, BeforeChats
<1>6. NotYetThere(p)' /\ LinesLeft(p)'
  BY <1>0, <1>1, <1>3, <1>4 DEF NotYetThere, LinesLeft, Goto
<1>7. Pending(p)' \subseteq Pending(p)
  BY <1>0, <1>2, <1>4, FewerFiles
<1>8. ASSUME NEW q \in Procs \ {p}, pc[q] \in Busy PROVE Pending(p) \cap Pending(q) \subseteq torn'
  BY <1>1, <1>8 DEF Importing, Busy
<1>9. \A c : Awaits(p, c) => Awaits(p, c)'
  BY <1>3, <1>4 DEF Awaits, ImportsChats
<1>. QED  BY <1>1, <1>2, <1>3, <1>5, <1>6, <1>7, <1>8, <1>9, ChatsGoOn DEF ImportsChats

\* A chat that has all its lines is left, another gets one more.
LEMMA MessageImportsOnce ==
  ASSUME ImportInv, TypeInv', OwnersKept, NEW p \in Procs, ChatMessage(p)
  PROVE  ImportInv'
<1>. DEFINE r == loc[p]
            rest == [r EXCEPT !.files = Tail(@), !.chat = None]
<1>0. DOMAIN pc = Procs /\ DOMAIN loc = Procs /\ Local(r) /\ Listed(p) /\ TypeInv
      /\ \A d \in DOMAIN chats : chats[d] \in ChatRow
  BY DEF ImportInv, TypeInv, ProcsOK, Fits, RowsOK, ChatsOK, ChatRow
<1>a. PICK f, c : f = Head(r.files) /\ c = r.chat
  OBVIOUS
<1>1. /\ pc[p] = "chats.message" /\ vers' = vers /\ last' = last
  BY DEF ChatMessage
<1>2. /\ r.files # <<>> /\ f \in Pending(p) /\ f \in Files
  BY <1>0, <1>1, <1>a, InHand
<1>3. CASE c \notin DOMAIN chats
  <2>1. chats' = chats /\ torn' = torn \cup Pending(p) /\ Finish(p)
    BY <1>3, <1>a DEF ChatMessage
  <2>2. Others(p) /\ pc'[p] = "idle"
    BY <1>0, <2>1 DEF Finish, Goto, Others
  <2>3. LetsGo(p)
    BY <1>2, <1>a, <2>1 DEF LetsGo, Awaits, Pending
  <2>4. Moves(p)
    BY <2>2, <2>3 DEF Moves, Listed, Busy, ImportsChats, Lists, BeforeChats
  <2>5. last.chat <= last'.chat
    BY <1>0, <1>1, ReadIds
  <2>. QED  BY <2>1, <2>2, <2>4, <2>5, Moving
<1>4. CASE c \in DOMAIN chats
  <2>0. PICK n : n = chats[c].have + 1
    OBVIOUS
  <2>1. /\ torn' = torn /\ chats' = [chats EXCEPT ![c].have = n]
        /\ \/ Goto(p, "chats.message", r) /\ n < LinesOf[f]
           \/ Goto(p, "chats.dup", rest) /\ ~(n < LinesOf[f])
    BY <1>4, <1>a, <2>0 DEF ChatMessage, NextFile
  <2>2. /\ DOMAIN chats' = DOMAIN chats
        /\ \A d \in DOMAIN chats : /\ chats'[d].ver = chats[d].ver /\ chats'[d].file = chats[d].file
                                   /\ chats'[d].parent = chats[d].parent
                                   /\ chats'[d].have = IF d = c THEN n ELSE chats[d].have
    BY <1>0, <2>1 DEF ChatRow
  <2>3. SameFiles
    BY <1>1, <2>1, <2>2 DEF SameFiles
  <2>4. Others(p) /\ pc'[p] \in {"chats.message", "chats.dup"}
    BY <1>0, <2>1 DEF Goto, Others
  <2>5. /\ loc'[p].ver = r.ver /\ loc'[p].item = r.item /\ loc'[p].todo = r.todo /\ loc'[p].links = r.links
        /\ loc'[p].files = r.files \/ (r.files # <<>> /\ loc'[p].files = Tail(r.files))
        /\ pc'[p] = "chats.message" => loc'[p] = r /\ n < LinesOf[f]
        /\ pc'[p] = "chats.dup" => ~(n < LinesOf[f])
    BY <1>0, <1>2, <2>1 DEF Goto, Local
  <2>6. chats[c].file = f
    BY <1>0, <1>1, <1>4, <1>a DEF Listed
  <2>7. Listed(p)'
    <3>1. OfItem(p)' = OfItem(p)
      BY <1>1, <2>5 DEF OfItem
    <3>. QED  BY <1>0, <1>1, <2>2, <2>3, <2>4, <2>5, <3>1 DEF Listed, Lists, ImportsChats, BeforeChats, SameFiles
  <2>8. NotYetThere(p)' /\ LinesLeft(p)'
    BY <1>4, <1>a, <2>2, <2>4, <2>5 DEF NotYetThere, LinesLeft
  <2>9. Pending(p)' \subseteq Pending(p)
    BY <1>0, <2>3, <2>5, FewerFiles
  <2>10. Filled(c)'
    <3>1. CASE pc'[p] = "chats.message"
      BY <1>a, <2>5, <3>1 DEF Filled
    <3>2. CASE pc'[p] = "chats.dup"
      <4>0. chats'[c].file = f /\ chats'[c].have = n /\ torn' = torn
        BY <1>4, <2>1, <2>2, <2>6
      <4>. SUFFICES ASSUME f \notin torn PROVE n = LinesOf[f]
        BY <4>0 DEF Filled
      <4>1. chats[c].have < LinesOf[f]
        BY <1>1, <1>4, <1>a DEF ImportInv, LinesLeft
      <4>2. chats[c].have \in Nat /\ LinesOf[f] \in Nat
        BY <1>0, <1>2, <1>4, LibraryAssumption DEF ChatRow
      <4>. QED  BY <2>0, <2>5, <3>2, <4>1, <4>2
    <3>. QED  BY <2>4, <3>1, <3>2
  <2>11. \A d : Awaits(p, d) => Awaits(p, d)'
    BY <2>4, <2>5 DEF Awaits, ImportsChats
  <2>12. pc[p] \in Busy /\ pc[p] \in ImportsChats
    BY <1>1 DEF Busy, ImportsChats
  <2>13. \A d \in DOMAIN chats : d = c => Filled(d)'
    BY <2>10
  <2>14. \A d \in DOMAIN chats : /\ chats'[d].have = chats[d].have \/ d = c
                                 /\ chats'[d].parent = chats[d].parent
    BY <2>2
  <2>. QED  BY <1>1, <1>a, <2>3, <2>4, <2>7, <2>8, <2>9, <2>11, <2>12, <2>13, <2>14, ChatsGoOn
<1>. QED  BY <1>3, <1>4

\* The branches find the chats of their name, each but itself.
LEMMA BranchesImportOnce ==
  ASSUME ImportInv, TypeInv', NEW p \in Procs, ChatBranches(p)
  PROVE  ImportInv'
<1>. DEFINE r == loc[p]
            ours == {c \in DOMAIN chats : vers[chats[c].ver].of = r.item /\ chats[c].file # None}
<1>0. DOMAIN pc = Procs /\ DOMAIN loc = Procs /\ Local(r) /\ Listed(p) /\ TypeInv
  BY DEF ImportInv, TypeInv, ProcsOK, Fits
<1>1. /\ pc[p] = "chats.branch" /\ vers' = vers /\ chats' = chats /\ last' = last /\ torn' = torn
  BY DEF ChatBranches, tables, history
<1>2. PICK W, ls :
        /\ W \in Winners(r.item)
        /\ ls = {l \in (r.todo \cap DOMAIN chats) \X W :
                   /\ FileName[chats[l[2]].file] = ParentRef[chats[l[1]].file]
                   /\ l[1] # l[2]}
        /\ Goto(p, "chats.link", [r EXCEPT !.todo = {}, !.links = ls])
  BY DEF ChatBranches
<1>3. SameFiles
  BY <1>1 DEF SameFiles
<1>4. /\ Others(p) /\ pc'[p] = "chats.link" /\ loc'[p].todo = {} /\ loc'[p].links = ls
      /\ loc'[p].files = r.files
  BY <1>0, <1>2 DEF Goto, Others, Local
<1>5. /\ W \subseteq ours
      /\ \A c \in ours : \E w \in W : FileName[chats[w].file] = FileName[chats[c].file]
  <2>1. /\ W \subseteq ours
        /\ \A c \in ours : \E w \in W :
             {x \in W : FileName[chats[x].file] = FileName[chats[c].file]} = {w}
    BY <1>2 DEF Winners
  <2>. QED  BY <2>1
<1>6. \A c \in r.todo \cap DOMAIN chats :
        /\ c \in 1..last.chat /\ chats[c].file # None /\ vers[chats[c].ver].of = r.item
        /\ Named(c) = {d \in ours : FileName[chats[d].file] = ParentRef[chats[c].file]}
  <2>. SUFFICES ASSUME NEW c \in r.todo \cap DOMAIN chats
       PROVE  /\ c \in 1..last.chat /\ chats[c].file # None /\ vers[chats[c].ver].of = r.item
              /\ Named(c) = {d \in ours : FileName[chats[d].file] = ParentRef[chats[c].file]}
    OBVIOUS
  <2>1. /\ c \in 1..last.chat /\ chats[c].file # None /\ chats[c].ver = r.ver /\ OfItem(p)
    BY <1>0, <1>1 DEF Listed, Lists, ImportsChats
  <2>2. chats[c].ver \in DOMAIN vers
    BY <1>0 DEF TypeInv, RowsOK, ChatsOK
  <2>3. vers[chats[c].ver].of = r.item
    BY <2>1, <2>2 DEF OfItem
  <2>. QED  BY <2>1, <2>3 DEF Named, ByFile
<1>7. \A l \in ls : /\ l \in (1..last.chat) \X (1..last.chat) /\ chats[l[1]].file # None
                    /\ l[2] \in Named(l[1])
  <2>. SUFFICES ASSUME NEW l \in ls
       PROVE  /\ l \in (1..last.chat) \X (1..last.chat) /\ chats[l[1]].file # None
              /\ l[2] \in Named(l[1])
    OBVIOUS
  <2>1. /\ l \in (r.todo \cap DOMAIN chats) \X W
        /\ FileName[chats[l[2]].file] = ParentRef[chats[l[1]].file]
    BY <1>2
  <2>2. l[1] \in r.todo \cap DOMAIN chats /\ l[2] \in ours /\ l = <<l[1], l[2]>>
    BY <1>5, <2>1
  <2>3. l[2] \in 1..last.chat
    BY <1>0, <2>2, ReadIds
  <2>. QED  BY <1>6, <2>1, <2>2, <2>3
<1>8. Listed(p)'
  <2>1. \A c \in DOMAIN chats : Named(c)' = Named(c)
    BY <1>0, <1>3, <1>4, FilesStay
  <2>2. last'.chat = last.chat
    BY <1>1
  <2>. QED  BY <1>1, <1>4, <1>7, <2>1, <2>2 DEF Listed, Lists, ImportsChats, BeforeChats
<1>9. NotYetThere(p)' /\ LinesLeft(p)'
  BY <1>4 DEF NotYetThere, LinesLeft
<1>10. Pending(p)' \subseteq Pending(p)
  <2>1. \A c : (\E l \in ls : l[1] = c) => c \in r.todo
    BY <1>2
  <2>. QED  BY <1>1, <1>4, <2>1 DEF Pending
<1>11. ASSUME NEW c \in DOMAIN chats, NEW d \in Named(c), Awaits(p, c), c \notin Named(c)
       PROVE  Awaits(p, c)'
  <2>1. c \in r.todo
    BY <1>0, <1>1, <1>11 DEF Awaits, Listed, Lists, ImportsChats
  <2>2. Named(c) = {x \in ours : FileName[chats[x].file] = ParentRef[chats[c].file]}
    BY <1>6, <1>11, <2>1
  <2>3. PICK w \in W : FileName[chats[w].file] = FileName[chats[d].file]
    BY <1>5, <1>11, <2>2
  <2>4. w \in Named(c)
    BY <1>5, <1>11, <2>2, <2>3
  <2>5. <<c, w>> \in ls
    BY <1>2, <1>11, <2>1, <2>2, <2>4
  <2>. QED  BY <1>4, <2>5 DEF Awaits, ImportsChats
<1>12. pc[p] \in Busy /\ pc[p] \in ImportsChats /\ pc[p] # "chats.message"
  BY <1>1 DEF Busy, ImportsChats
<1>. QED  BY <1>1, <1>3, <1>4, <1>8, <1>9, <1>10, <1>11, <1>12, ChatsGoOn

\* A branch is hung on its parent, or the parent is gone and the import throws.
LEMMA LinkImportsOnce ==
  ASSUME ImportInv, TypeInv', OwnersKept, NEW p \in Procs, ChatLink(p)
  PROVE  ImportInv'
<1>. DEFINE r == loc[p]
<1>0. DOMAIN pc = Procs /\ DOMAIN loc = Procs /\ Local(r) /\ Listed(p) /\ TypeInv
      /\ \A d \in DOMAIN chats : chats[d] \in ChatRow
  BY DEF ImportInv, TypeInv, ProcsOK, Fits, RowsOK, ChatsOK, ChatRow
<1>1. pc[p] = "chats.link" /\ vers' = vers /\ last' = last /\ r.todo = {} /\ last.chat <= last'.chat
  BY <1>0, ReadIds DEF ChatLink, Listed
<1>2. PICK l : l = CHOOSE x \in r.links : TRUE
  OBVIOUS
<1>3. CASE Finish(p) /\ chats' = chats /\ torn \subseteq torn' /\ (r.links = {} \/ Pending(p) \subseteq torn')
  <2>1. Others(p) /\ pc'[p] = "idle"
    BY <1>0, <1>3 DEF Finish, Goto, Others
  <2>2. LetsGo(p)
    BY <1>1, <1>3 DEF LetsGo, Awaits, Pending
  <2>3. Moves(p)
    BY <2>1, <2>2 DEF Moves, Listed, Busy, ImportsChats, Lists, BeforeChats
  <2>. QED  BY <1>1, <1>3, <2>1, <2>3, Moving
<1>4. CASE /\ r.links # {} /\ torn' = torn /\ Goto(p, "chats.link", [r EXCEPT !.links = r.links \ {l}])
           /\ \/ l[1] \notin DOMAIN chats /\ chats' = chats
              \/ {l[1], l[2]} \subseteq DOMAIN chats /\ chats' = [chats EXCEPT ![l[1]].parent = l[2]]
  <2>1. l \in r.links
    BY <1>2, <1>4
  <2>2. /\ Others(p) /\ pc'[p] = "chats.link" /\ loc'[p].todo = {} /\ loc'[p].links = r.links \ {l}
        /\ loc'[p].files = r.files
    BY <1>0, <1>1, <1>4 DEF Goto, Others, Local
  <2>3. {l[1], l[2]} \subseteq DOMAIN chats => l[2] \in Named(l[1])
    BY <1>0, <1>1, <2>1 DEF Listed
  <2>4. /\ DOMAIN chats' = DOMAIN chats
        /\ \A d \in DOMAIN chats : /\ chats'[d].ver = chats[d].ver /\ chats'[d].file = chats[d].file
                                   /\ chats'[d].have = chats[d].have
                                   /\ d # l[1] => chats'[d].parent = chats[d].parent
                                   /\ d = l[1] => chats'[d].parent \in Named(d)
    <3>1. CASE l[1] \notin DOMAIN chats /\ chats' = chats
      BY <3>1
    <3>2. CASE {l[1], l[2]} \subseteq DOMAIN chats /\ chats' = [chats EXCEPT ![l[1]].parent = l[2]]
      <4>1. /\ DOMAIN chats' = DOMAIN chats
            /\ \A d \in DOMAIN chats : /\ chats'[d].ver = chats[d].ver /\ chats'[d].file = chats[d].file
                                       /\ chats'[d].have = chats[d].have
                                       /\ chats'[d].parent = IF d = l[1] THEN l[2] ELSE chats[d].parent
        BY <1>0, <3>2 DEF ChatRow
      <4>. QED  BY <2>3, <3>2, <4>1
    <3>. QED  BY <1>4, <3>1, <3>2
  <2>5. SameFiles
    BY <1>1, <1>4, <2>4 DEF SameFiles
  <2>6. Listed(p)'
    <3>1. \A d \in DOMAIN chats : Named(d)' = Named(d)
      BY <1>0, <2>2, <2>5, FilesStay
    <3>. QED  BY <1>0, <1>1, <2>2, <2>4, <3>1 DEF Listed, Lists, ImportsChats, BeforeChats
  <2>7. NotYetThere(p)' /\ LinesLeft(p)'
    BY <2>2 DEF NotYetThere, LinesLeft
  <2>8. Pending(p)' \subseteq Pending(p)
    BY <1>0, <1>1, <2>2, <2>5, FewerFiles
  <2>9. \A d \in DOMAIN chats : Awaits(p, d) => Awaits(p, d)' \/ chats'[d].parent \in Named(d)
    BY <1>1, <2>2, <2>4 DEF Awaits, ImportsChats
  <2>10. pc[p] \in Busy /\ pc[p] \in ImportsChats /\ pc[p] # "chats.message"
    BY <1>1 DEF Busy, ImportsChats
  <2>. QED  BY <2>2, <2>4, <2>5, <2>6, <2>7, <2>8, <2>9, <2>10, ChatsGoOn
<1>. QED  BY <1>2, <1>3, <1>4 DEF ChatLink

\* A chat is written for the file that was not there, and waits for its lines
\* and its parent.
LEMMA InsertImportsOnce ==
  ASSUME ImportInv, TypeInv', OwnersKept, NEW p \in Procs, ChatInsert(p)
  PROVE  ImportInv'
<1>. DEFINE r == loc[p]
<1>0. /\ DOMAIN pc = Procs /\ DOMAIN loc = Procs /\ Local(r) /\ TypeInv
      /\ \A q \in Procs : Listed(q)
      /\ last \in [item : Nat, ver : Nat, chat : Nat] /\ DOMAIN chats \subseteq 1..last.chat /\ None \notin Nat
  BY Constants DEF ImportInv, TypeInv, ProcsOK, Fits, RowsOK, IdsOK
<1>a. PICK f, n : f = Head(r.files) /\ n = NewChat
  OBVIOUS
<1>1. pc[p] = "chats.insert" /\ vers' = vers /\ torn' = torn
  BY DEF ChatInsert, history
<1>2. r.files # <<>> /\ f \in Pending(p) /\ f \in Files \ {None} /\ r.links = {} /\ r.todo \subseteq 1..last.chat
      /\ OfItem(p)
  BY <1>0, <1>1, <1>a, InHand DEF Listed, Lists, ImportsChats
<1>3. CASE r.ver \notin DOMAIN vers
  <2>1. Finish(p) /\ chats' = chats /\ last' = last
    BY <1>3 DEF ChatInsert
  <2>2. Others(p) /\ pc'[p] = "idle"
    BY <1>0, <2>1 DEF Finish, Goto, Others
  <2>3. \A c \in r.todo \cap DOMAIN chats : chats[c].ver = r.ver
    BY <1>0, <1>1 DEF Listed, Lists, ImportsChats
  <2>4. \A c \in DOMAIN chats : chats[c].ver \in DOMAIN vers
    BY <1>0 DEF TypeInv, RowsOK, ChatsOK
  <2>5. LetsGo(p)
    BY <1>1, <1>2, <1>3, <2>3, <2>4 DEF LetsGo, Awaits
  <2>6. Moves(p)
    BY <2>2, <2>5 DEF Moves, Listed, Busy, ImportsChats, Lists, BeforeChats
  <2>7. last.chat <= last'.chat
    BY <1>0, <2>1
  <2>. QED  BY <1>1, <2>1, <2>2, <2>6, <2>7, Moving
<1>4. CASE r.ver \in DOMAIN vers
  <2>. DEFINE row == [ver |-> r.ver, preset |-> None, file |-> f, parent |-> None, have |-> 0,
                      seen |-> Seen(r.ver), config |-> None]
              todo == IF ParentRef[f] = None THEN r.todo ELSE r.todo \cup {n}
              s == [r EXCEPT !.chat = n, !.todo = todo]
              e == [r EXCEPT !.todo = todo]
              done == [e EXCEPT !.files = Tail(e.files), !.chat = None]
  <2>1. /\ chats' = Row(chats, n, row) /\ Counts("chat")
        /\ \/ Goto(p, "chats.message", s) /\ LinesOf[f] # 0
           \/ Goto(p, "chats.dup", done) /\ LinesOf[f] = 0
    BY <1>4, <1>a DEF ChatInsert, NextFile
  <2>2. row.ver = r.ver /\ row.file = f /\ row.have = 0
    OBVIOUS
  <2>3. n \notin DOMAIN chats /\ n \notin 1..last.chat /\ n # None /\ last'.chat = n /\ 1..last.chat \subseteq 1..n
        /\ n \in 1..n /\ n > last.chat
    BY <1>0, <1>a, <2>1 DEF NewChat, Counts
  <2>. HIDE DEF row
  <2>4. /\ DOMAIN chats' = DOMAIN chats \cup {n} /\ chats'[n] = row
        /\ \A c \in DOMAIN chats : chats'[c] = chats[c]
    BY <2>1, <2>3 DEF Row
  <2>5. /\ Others(p) /\ loc'[p].todo = todo /\ loc'[p].links = {}
        /\ loc'[p].ver = r.ver /\ loc'[p].item = r.item
        /\ loc'[p].files \in {r.files, Tail(r.files)}
        /\ \/ pc'[p] = "chats.message" /\ loc'[p].chat = n /\ loc'[p].files = r.files /\ LinesOf[f] # 0
           \/ pc'[p] = "chats.dup" /\ LinesOf[f] = 0
    <3>. HIDE DEF todo
    <3>1. CASE Goto(p, "chats.message", s) /\ LinesOf[f] # 0
      BY <1>0, <1>2, <3>1 DEF Goto, Others, Local
    <3>2. CASE Goto(p, "chats.dup", done) /\ LinesOf[f] = 0
      BY <1>0, <1>2, <3>2 DEF Goto, Others, Local
    <3>. HIDE DEF s, done
    <3>. QED  BY <2>1, <3>1, <3>2
  <2>6. /\ \A q \in Procs \ {p} : pc'[q] = pc[q] /\ loc'[q] = loc[q]
        /\ \A q \in Procs \ {p} : \A c : Awaits(q, c)' = Awaits(q, c)
    BY <2>5 DEF Others, Awaits
  <2>7. \A c \in DOMAIN chats : Named(c) \subseteq Named(c)' /\ Named(c)' \subseteq Named(c) \cup {n}
    BY <1>1, <2>3, <2>4 DEF Named, ByFile
  <2>8. \A q \in Procs : pc[q] \in ImportsChats =>
           loc[q].todo \subseteq 1..last.chat /\ \A l \in loc[q].links : l[1] \in 1..last.chat
    BY <1>0 DEF Listed, Lists, ImportsChats
  <2>9. \A q \in Procs \ {p} : pc[q] \in ImportsChats => Pending(q)' \subseteq Pending(q)
    BY <2>3, <2>4, <2>6, <2>8 DEF Pending
  <2>10. Pending(p)' \subseteq Pending(p)
    <3>1. \A c : c \in todo => c \in r.todo \/ c = n
      OBVIOUS
    <3>2. \A k \in DOMAIN loc'[p].files : \E m \in DOMAIN r.files : loc'[p].files[k] = r.files[m]
      <4>1. CASE loc'[p].files = r.files
        BY <4>1
      <4>2. CASE loc'[p].files = Tail(r.files)
        <5>1. \A k \in DOMAIN Tail(r.files) : \E m \in DOMAIN r.files : Tail(r.files)[k] = r.files[m]
          BY <1>0, <1>2, InHand
        <5>. QED  BY <4>2, <5>1
      <4>. QED  BY <2>5, <4>1, <4>2
    <3>. HIDE DEF todo
    <3>. QED  BY <1>2, <2>2, <2>3, <2>4, <2>5, <3>1, <3>2 DEF Pending
  <2>11. OneImport'
    <3>. SUFFICES ASSUME NEW x \in Procs, NEW y \in Procs, pc'[x] \in Busy, pc'[y] \in Busy, x # y
         PROVE  Pending(x)' \cap Pending(y)' \subseteq torn'
      BY DEF OneImport
    <3>1. pc[x] \in Busy /\ pc[y] \in Busy
      BY <1>1, <2>6 DEF Busy, ImportsChats
    <3>2. Pending(x)' \subseteq Pending(x) /\ Pending(y)' \subseteq Pending(y)
      BY <2>9, <2>10, <3>1 DEF Busy
    <3>. QED  BY <1>1, <3>1, <3>2 DEF ImportInv, OneImport
  <2>12. OneChat'
    <3>1. f \in torn \/ \A c \in DOMAIN chats : chats[c].file # f
      BY <1>1, <1>a DEF ImportInv, NotYetThere
    <3>. QED  BY <1>1, <2>2, <2>4, <3>1 DEF ImportInv, OneChat
  <2>13. ASSUME NEW q \in Procs PROVE Listed(q)'
    <3>1. OfItem(q)' = OfItem(q)
      BY <1>1, <2>5, <2>6 DEF OfItem
    <3>2. CASE q = p
      <4>1. todo \subseteq 1..n
        BY <1>2, <2>3
      <4>2. \A c \in todo \cap DOMAIN chats' : chats'[c].ver = r.ver /\ chats'[c].file # None
        <5>1. \A c \in r.todo \cap DOMAIN chats : chats[c].ver = r.ver /\ chats[c].file # None
          BY <1>0, <1>1 DEF Listed, Lists, ImportsChats
        <5>. QED  BY <1>2, <2>2, <2>3, <2>4, <5>1
      <4>. HIDE DEF todo
      <4>. QED  BY <1>2, <1>a, <2>2, <2>3, <2>4, <2>5, <3>1, <3>2, <4>1, <4>2
             DEF Listed, Lists, ImportsChats, BeforeChats
    <3>3. CASE q # p
      <4>1. pc'[q] = pc[q] /\ loc'[q] = loc[q] /\ Listed(q) /\ loc[q].chat \in {None} \cup 1..last.chat
        BY <1>0, <2>6, <3>3, InHand
      <4>2. \A c \in 1..last.chat : c \in DOMAIN chats' => c \in DOMAIN chats /\ chats'[c] = chats[c]
        BY <2>3, <2>4
      <4>3. \A c \in DOMAIN chats : Named(c) \subseteq Named(c)'
        BY <2>7
      <4>4. last'.chat = n /\ 1..last.chat \subseteq 1..n
        BY <2>3
      <4>5. pc[q] \in Lists => Listed(q)'
        <5>. SUFFICES ASSUME pc[q] \in Lists PROVE Listed(q)'
          OBVIOUS
        <5>1. pc[q] # "chats.link" /\ pc[q] \notin BeforeChats
          BY DEF Lists, ImportsChats, BeforeChats
        <5>. QED  BY <3>1, <4>1, <4>2, <4>4, <5>1 DEF Listed
      <4>6. pc[q] = "chats.link" => Listed(q)'
        <5>. SUFFICES ASSUME pc[q] = "chats.link" PROVE Listed(q)'
          OBVIOUS
        <5>1. \A l \in loc[q].links : l[1] \in 1..last.chat /\ l[2] \in 1..last.chat
          BY <4>1 DEF Listed
        <5>2. loc[q].links \subseteq (1..n) \X (1..n)
          BY <4>1, <4>4 DEF Listed
        <5>3. \A l \in loc[q].links :
                 /\ l[1] \in DOMAIN chats' => chats'[l[1]].file # None
                 /\ {l[1], l[2]} \subseteq DOMAIN chats' => l[2] \in Named(l[1])'
          BY <4>1, <4>2, <4>3, <5>1 DEF Listed
        <5>. QED  BY <4>1, <4>4, <5>2, <5>3 DEF Listed, Lists, BeforeChats
      <4>7. pc[q] \notin Lists /\ pc[q] # "chats.link" => Listed(q)'
        BY <3>1, <4>1 DEF Listed, Lists, ImportsChats
      <4>. QED  BY <4>5, <4>6, <4>7
    <3>. QED  BY <3>2, <3>3
  <2>14. ASSUME NEW q \in Procs PROVE NotYetThere(q)'
    <3>1. CASE q = p
      BY <2>5, <3>1 DEF NotYetThere
    <3>2. CASE q # p
      <4>. SUFFICES ASSUME pc[q] = "chats.insert", Head(loc[q].files) \notin torn, NEW c \in DOMAIN chats'
           PROVE  chats'[c].file # Head(loc[q].files)
        BY <1>1, <2>6, <3>2 DEF NotYetThere
      <4>1. \A d \in DOMAIN chats : chats[d].file # Head(loc[q].files)
        BY DEF ImportInv, NotYetThere
      <4>2. Head(loc[q].files) \in Pending(q)
        BY <1>0, InHand
      <4>3. Head(loc[q].files) # f
        BY <1>1, <1>2, <3>2, <4>2 DEF ImportInv, OneImport, Busy, ImportsChats
      <4>. QED  BY <2>2, <2>4, <4>1, <4>3
    <3>. QED  BY <3>1, <3>2
  <2>15. ASSUME NEW q \in Procs PROVE LinesLeft(q)'
    <3>1. CASE q = p
      <4>1. LinesOf[f] \in Nat
        BY <1>2, LibraryAssumption
      <4>2. LinesOf[f] # 0 => chats'[n].have < LinesOf[f]
        BY <2>2, <2>4, <4>1
      <4>. QED  BY <1>a, <2>5, <3>1, <4>2 DEF LinesLeft
    <3>2. CASE q # p
      <4>1. pc[q] = "chats.message" => loc[q].chat \in 1..last.chat
        BY <1>0, InHand DEF Listed
      <4>. QED  BY <1>1, <2>3, <2>4, <2>6, <3>2, <4>1 DEF ImportInv, LinesLeft
    <3>. QED  BY <3>1, <3>2
  <2>16. ASSUME NEW c \in DOMAIN chats' PROVE Filled(c)'
    <3>1. CASE c = n
      BY <2>2, <2>4, <2>5, <3>1 DEF Filled
    <3>2. CASE c # n
      <4>1. c \in DOMAIN chats /\ chats'[c] = chats[c] /\ Filled(c)
        BY <2>4, <3>2 DEF ImportInv
      <4>2. \A q \in Procs : pc[q] = "chats.message" => pc'[q] = pc[q] /\ loc'[q] = loc[q]
        BY <1>1, <2>6
      <4>. QED  BY <1>1, <4>1, <4>2 DEF Filled
    <3>. QED  BY <3>1, <3>2
  <2>17. ASSUME NEW c \in DOMAIN chats' PROVE Hangs(c)'
    <3>. SUFFICES ASSUME chats'[c].file \notin torn' \cup {None}, c \notin torn' \cup Named(c)',
                         NEW d \in Named(c)', d < c
         PROVE  chats'[c].parent \in Named(c)' \/ \E q \in Procs : Awaits(q, c)'
      BY DEF Hangs
    <3>1. CASE c = n
      <4>1. ParentRef[f] # None
        <5>1. d \in DOMAIN chats' /\ chats'[d].file # None /\ FileName[chats'[d].file] = ParentRef[f]
          BY <2>2, <2>4, <3>1 DEF Named, ByFile
        <5>2. chats'[d].file \in Files
          BY <5>1 DEF TypeInv, RowsOK, ChatsOK
        <5>. QED  BY <5>1, <5>2, LibraryAssumption
      <4>. QED  BY <2>5, <3>1, <4>1 DEF Awaits, ImportsChats
    <3>2. CASE c # n
      <4>1. c \in DOMAIN chats /\ chats'[c] = chats[c] /\ c \in Nat /\ c < n
        BY <1>0, <2>3, <2>4, <3>2
      <4>2. d \in Named(c) /\ c \notin Named(c)
        BY <2>3, <2>7, <4>1
      <4>3. chats[c].parent \in Named(c) \/ \E q \in Procs : Awaits(q, c)
        BY <1>1, <4>1, <4>2 DEF ImportInv, Hangs
      <4>4. \A q \in Procs : Awaits(q, c) => Awaits(q, c)'
        <5>1. Awaits(p, c) => Awaits(p, c)'
          BY <1>2, <2>5 DEF Awaits, ImportsChats
        <5>. QED  BY <2>6, <5>1
      <4>. QED  BY <2>7, <4>1, <4>3, <4>4
    <3>. QED  BY <3>1, <3>2
  <2>. QED  BY <2>11, <2>12, <2>13, <2>14, <2>15, <2>16, <2>17 DEF ImportInv
<1>. QED  BY <1>3, <1>4

-----------------------------------------------------------------------------
\* Every step keeps the invariant of imports; a crash tears what it cuts off.
LEMMA ImportStep == ImportInv /\ [Next]_libVars => ImportInv'
<1>. SUFFICES ASSUME ImportInv, [Next]_libVars PROVE ImportInv'
  OBVIOUS
<1>0. TypeInv /\ TypeInv' /\ OwnersKept /\ last.chat \in Nat
  BY TypeStep, OwnersStay, ReadIds DEF ImportInv
<1>1. ASSUME NEW p \in Procs, VersionSteps(p) PROVE ImportInv'
  BY <1>0, <1>1, VersionStepsImportNothing
<1>2. ASSUME NEW p \in Procs, AssetSteps(p) PROVE ImportInv'
  BY <1>0, <1>2, AssetStepsImportNothing
<1>3. ASSUME NEW p \in Procs, ImportSteps(p) PROVE ImportInv'
  BY <1>0, <1>3, ImportBegins, DupImportsOnce, InsertImportsOnce, MessageImportsOnce,
     BranchesImportOnce, LinkImportsOnce DEF ImportSteps
<1>4. CASE Age \/ UNCHANGED libVars
  <2>1. UNCHANGED <<chats, last, torn, pc, loc>>
    BY <1>4 DEF Age, libVars, tables, history
  <2>2. ChatsKept /\ \A q \in Procs : Moves(q)
    BY <1>0, <2>1 DEF ChatsKept, Moves
  <2>. QED  BY <1>0, <2>2, ImportsStay
<1>5. CASE Crash
  <2>1. PICK S \in SUBSET Procs :
          /\ UNCHANGED <<chats, last>>
          /\ pc' = [q \in Procs |-> IF q \in S THEN "idle" ELSE pc[q]]
          /\ loc' = [q \in Procs |-> IF q \in S THEN Idle ELSE loc[q]]
          /\ torn' = torn \cup UNION {Pending(q) : q \in {x \in S : pc[x] \in ImportsChats}}
    BY <1>5 DEF Crash, tables
  <2>2. ChatsKept
    BY <1>0, <2>1 DEF ChatsKept
  <2>3. ASSUME NEW q \in Procs PROVE Moves(q)
    <3>1. CASE q \notin S
      BY <2>1, <3>1 DEF Moves
    <3>2. CASE q \in S
      <4>1. pc'[q] = "idle" /\ (pc[q] \in ImportsChats => Pending(q) \subseteq torn')
        BY <2>1, <3>2
      <4>2. pc[q] \in ImportsChats => LetsGo(q)
        BY <1>0, <4>1, InHand DEF LetsGo, Awaits, Pending
      <4>. QED  BY <4>1, <4>2 DEF Moves, Listed, Busy, ImportsChats, Lists, BeforeChats
    <3>. QED  BY <3>1, <3>2
  <2>. QED  BY <1>0, <2>2, <2>3, ImportsStay
<1>. QED  BY <1>1, <1>2, <1>3, <1>4, <1>5 DEF Next

\* There are no chats at first.
LEMMA ImportInit == Init => ImportInv
<1>. SUFFICES ASSUME Init PROVE ImportInv
  OBVIOUS
<1>1. TypeInv /\ DOMAIN chats = {} /\ \A q \in Procs : pc[q] = "idle"
  BY TypeInit DEF Init
<1>. QED  BY <1>1 DEF ImportInv, OneImport, OneChat, Listed, NotYetThere, LinesLeft, Filled, Hangs,
         Busy, ImportsChats, Lists, BeforeChats

\* A chat file that is not torn, and that nobody is importing, is one chat with
\* all its messages, and hangs on a chat of its parent's name if one was first.
THEOREM FilesImportedOnce == Spec => []ImportOnce
<1>1. ImportInv => ImportOnce
  <2>. SUFFICES ASSUME ImportInv, NEW c \in DOMAIN chats, chats[c].file # None,
                       chats[c].file \notin torn, Importing(chats[c].file) = {}
       PROVE  /\ \A d \in DOMAIN chats : chats[d].file = chats[c].file => d = c
              /\ chats[c].have = LinesOf[chats[c].file]
              /\ c \notin torn \cup Named(c) /\ (\E d \in Named(c) : d < c) => chats[c].parent \in Named(c)
    BY DEF ImportOnce, Named
  <2>0. TypeInv /\ Filled(c) /\ Hangs(c) /\ \A q \in Procs : Listed(q)
    BY DEF ImportInv
  <2>1. \A d \in DOMAIN chats : chats[d].file = chats[c].file => d = c
    BY DEF ImportInv, OneChat
  <2>2. chats[c].have = LinesOf[chats[c].file]
    <3>. SUFFICES ASSUME NEW q \in Procs, pc[q] = "chats.message", loc[q].chat = c PROVE FALSE
      BY <2>0 DEF Filled
    <3>1. chats[c].file \in Pending(q)
      BY <2>0, InHand DEF Listed
    <3>. QED  BY <3>1 DEF Importing, ImportsChats
  <2>3. c \notin torn \cup Named(c) /\ (\E d \in Named(c) : d < c) => chats[c].parent \in Named(c)
    <3>1. \A q \in Procs : Awaits(q, c) => q \in Importing(chats[c].file)
      BY DEF Awaits, Importing, Pending
    <3>. QED  BY <2>0, <3>1 DEF Hangs
  <2>. QED  BY <2>1, <2>2, <2>3
<1>. QED  BY <1>1, ImportInit, ImportStep, PTL DEF Spec
=============================================================================
