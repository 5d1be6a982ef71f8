# A TLA+ model of neo-tavern

neo-tavern is a self-hosted role-play chat server: characters, personas and
presets in a libsql database, chats that are answered by the Claude Agent SDK or
by OpenRouter, long-term memory over a local embedding model, an importer for
SillyTavern archives. This directory models its stateful core in TLA+, checks it
with TLC, and proves what can be proved with TLAPS.

Paths are relative to the repository; `chat/` stands for
`src/server/domain/chat/`.

## 1. Inventory

| component | code | state it keeps | operations | what makes it correct |
|---|---|---|---|---|
| chat lock | `domain/_shared/lock.ts` | one promise tail per chat | `withChatLock` | one function at a time per chat, in order of arrival, a throw does not stop the chain |
| chat tables | `db/schema/chats.ts`, `chat/context/*`, `chat/store.ts`, `chat/seed.ts` | `chats`, `messages`, `message_variants`, `session_entries` | canon reads, seeding, transcript append and load | seqs without gaps, sessions that say what the canon says |
| generation | `providers/*`, `chat/routing.ts` | none of its own; appends transcript frames | one turn that replies or fails | the model is told the canon and nothing else |
| send | `chat/send.ts` | holds the chat row across the turn | optimistic check, user row, turn, reply row, chat row, rollback | a turn enters whole or not at all |
| swipe, variants | `chat/swipe.ts` | variants of the tip | `swipe`, `selectVariant` | the shown text is the active variant, totals count every generation, no transcript is left behind |
| lifecycle | `chat/lifecycle.ts` | the chat row | `startChat`, `generateOpening`, `editMessage`, `deleteChat`, patches | an opening, greeting or edit keeps canon and session together |
| fork, provider switch | `chat/branch.ts` | a copy of the canon in flight | `forkChat`, `setProvider` | the fork is a coherent chat; a chat on OpenRouter has no session |
| compaction | `chat/compaction.ts` | summary and anchor of a chat | manual and managed compact | the summary stands for the canon up to its anchor |
| chat memory | `chat/memory/*`, `domain/search/memory.ts` | digests and segments, two in-flight sets | background generation, retrieval | an edited block is digested again, tiers cover the canon |
| import | `domain/import/*`, `import-http.ts` | rows of all the above | import of a character with its chats, of loose chats | re-import adds nothing, a crash is repaired, no file is lost on the way in |
| characters, presets | `domain/character`, `domain/preset` | versions, current pointer | create, update (copy on write), remove | a pinned version never changes, the current one is whole and the latest |
| assets | `domain/assets`, `storage/cas.ts` | blobs on disk, index rows | store, backfill, collect, fsck, rebuild | no referenced blob is collected |
| accounts | `domain/_shared/users.ts`, `domain/sessions`, `domain/admin`, `auth*` | users, browser sessions, logins that wait for the provider | provision, log in, slide, revoke, disable, set role | a revoked session stays so, one enabled admin remains, one tenant per person |
| settings | `domain/settings`, `config/app-config.ts` | overrides, a cache in the process, one row per user | read, merge, write, reload | the cache is what the table says |
| access and credentials | `auth/*`, `middleware/ip-allowlist.ts`, `trpc/rate-limit.ts`, `crypto/secrets.ts`, `domain/_shared/credentials.ts`, `providers/*/env.ts` | buckets of a limiter | who a request is, whether it is let in, which key it gets | no identity without what its mode asks for, a key for its owner only |
| embedding models | `embeddings/*` | a lazily loaded instance | use, warm up, evict | never unloaded under a use, none held twice |
| prompt | `shared/prompt-*.ts`, `shared/macro/*`, `_shared/regex.ts`, `chat/context/assemble.ts` | none | assembly of a send and of a preview | the cached half does not move, the card keeps its pinned persona |
| streams | `providers/claude-sdk/*`, `providers/openrouter/*` | none | reading three dialects of a turn | one contract: reply, cause, usage |
| search | `domain/search`, `chat/memory/retrieve.ts` | none | nearest rows, reranked, scoped | own rows only, nothing nearer hidden |
| corpus | `domain/corpus`, `scripts/*` | rollup tables | five passes that replace rows, the embed pass | a finished pass leaves what the sources say |
| the rest | world info, tags, export, tRPC, HTTP, logging, client | single rows or none | reads and writes of one row | -- |

**How they interact.** Every chat operation but `startChat`, `generateOpening`
and `forkChat` runs inside `withChatLock`. An operation is a Node async function:
between two awaits it is atomic, at an await any other request may run. A send
reads the chat row once, at its start, and bases its last write on it; the
Agent SDK writes `session_entries` through `DbSessionStore` while the turn is
running. Send, swipe, edit and select re-seed or extend the transcript; the fork
and the switch of provider create or drop it. Memory generation is started after
a send and outlives the lock. There are almost no transactions: a restart can
fall between any two writes.

Around the chats, the library (characters, presets, their versions, pictures,
imports) meets them in one place: a chat pins versions, and a pinned version must
not change or go. Accounts stand in front of every request. The scripts under
`scripts/` are processes of their own that write the same database.

**Hard behaviours.** The three operations outside the lock; state read before an
await and used after it; the transcript, which is append-only and must follow a
canon that is rewritten in place; generations that fail after the transcript has
already been written; restarts between two writes; checks that are a statement of
their own before the write they guard (pins, the last administrator, names, the
settings' merge); sweeps that delete what another request is about to use (blobs,
sessions, models); rollups that are cleared and rewritten row by row. Each is a line of `hazards` in
`PROJECT.json`, with the properties that would catch it.

## 2. Plan

1. *Chat core* (done): the lock, the tables, send, swipe, lifecycle, branch,
   compaction; `ChatService` composes them; `ChatLog` is the abstract
   specification of the whole, `FifoMutex` of the lock.
2. *Proofs of the core* (done): the lock; for `ChatService` the discipline of
   the lines and, from it, one lock holder and one generation per chat; then the
   types of its tables, the seqs without gaps and the order of replies; then what
   the rows of a chat say of its variants, its messages and its generations; then
   what its session, its summary and its clients have heard of them; then that it
   implements `ChatLog`.
3. *Chat memory* (done): `ChatMemory` with digests and segments generated against
   sends, edits and swipes, and the tiered bridge of `retrieveMemory`.
4. *Library* (done): characters, presets, imports, assets, one run.
   *Accounts* (done): logins, sessions, administration, settings, access, one run.
   These share no state with the chat core but the pins, which the library keeps
   as rows of chats of its own.
5. *Pipeline* (done): prompts, streams, search, retrieval, model lifecycle, corpus
   rollups, a part of one run each.
6. *Proofs about 4* (done): the types of the library and of the accounts and all the
   safety properties of both.
7. *Next*: proofs about `ChatMemory`; `NothingHeldTwice` of a model.

## 3. Modules

| module | models |
|---|---|
| `FifoMutex` | what a lock promises: waiting and inside, first come first served |
| `ChatLock` | `withChatLock` as the chain of promises it is |
| `ChatLockProofs` | theorems of `ChatLock` |
| `ChatStore` | the shared state and helpers of all chat operations |
| `ChatTurn` | one generation |
| `ChatCompaction`, `ChatSend`, `ChatSwipe`, `ChatLifecycle`, `ChatBranch` | the file of the same name in `chat/`, one action per stretch between two awaits that write |
| `ChatService` | requests of clients, all operations, restarts |
| `ChatLog` | the abstract log of turns the service implements |
| `ChatProperties` | properties and the refinement mapping |
| `ChatCanonProofs` | theorems of `ChatService` about its lines and its rows |
| `ChatRecordsProofs` | theorems of `ChatService` about variants, counts and totals |
| `ChatSessionProofs` | theorems of `ChatService` about what a client saw; which texts a chat's session says at every step |
| `ChatSummaryProofs` | theorems of `ChatService` about what the model is told, summaries, and whose the sessions are |
| `ChatLogProofs` | the theorem that `ChatService` implements `ChatLog` |
| `MCChat` | symmetry for TLC |
| `ChatMemory` | `chat/memory/*`: the two background calls that index a chat, the bridge |
| `LibraryStore` | tables, blob tree and control of the library |
| `LibraryVersions` | `domain/character/service.ts`, `domain/preset/service.ts`, and chats as far as they pin versions |
| `LibraryImport` | `domain/import/service.ts` |
| `LibraryAssets` | `domain/assets/service.ts`, `storage/cas.ts`, personas as holders of an avatar |
| `Library` | all of these together, crashes, the properties |
| `ImportFormats` | `import/card.ts`, `import/chat.ts`, `import/loader.ts`: what files become |
| `LibraryProofs` | theorems of `Library`: rows, pins and pictures; current versions and imported chats |
| `MCLibrary` | the mixes of operations for TLC |
| `AccountsStore` | tables, caches, the provider and control of the accounts |
| `AccountsIdentity` | `_shared/users.ts`, `domain/sessions/service.ts`, the three ways to log in |
| `AccountsAdmin` | `domain/admin/service.ts`, `_shared/admin.ts` |
| `Accounts` | settings, the clock, renames, restarts, the properties |
| `AccountsProofs` | theorems of `Accounts`: types; the four safety properties |
| `AccessRules` | address ranges, identity of a request, limits, secrets, the environment of a runner, as operators |
| `MCAccounts` | the mixes of requests for TLC |
| `PromptMacros`, `PromptRules` | the macro engine and the regex scripts; the assembly of a prompt |
| `StreamRules` | one turn in the three dialects of a stream, and what is asked |
| `SearchRules` | the searches and `retrieveMemory` |
| `WarmModels` | `embeddings/warm-model.ts` and its users, the packing of `embedder.ts` |
| `CorpusRollups` | the passes of `domain/corpus` |
| `MCPipeline` | one part per behaviour: a chat's memory, the models and the rollups as state machines, and samples for the rules |

**State.** `chats`, `messages` and `sessions` are the tables: `messages[c]` maps
a seq to a row with its role, its text, its variants and the active one;
`sessions[s]` holds the frames of a transcript. `queue[c]` is the line of the
chat's lock: `ChatLock` shows that the promise chain is such a line, so the
operations use the line. `pc`, `req` and `loc` are an async function's position,
parameters and locals. A text is a number that is new whenever somebody writes
something new, so two texts are equal exactly when one was copied from the other:
this is all the properties compare. A reply that an AI_OUTPUT script rewrote exists in two
forms under one number: `scripted`, of a message and of a frame, says which form is
stored, and a transcript seeded from the canon takes the canon's form along. So
`TurnSeesCanon`, `SessionMirrorsCanon` and `SummaryCoversCanon` speak of which texts
are told, in which order; `MessagesWin` and `OnlyScriptsDiffer` of their form. `used`
counts requests, failures and restarts against their bounds.

**Actions.** A handler is cut at each await behind which shared state is written
or re-read. `BeginSend`, for example, is send from the lock to its first insert
(`send.ts:41-133`, which only reads), `SendInsert` the insert of the user row,
`SendStart` and `SendReply` the turn, which the SDK stores as the model wrote it,
`SendPersist` (`send.ts:240-260`) the scripts and the insert of what they leave
(`AfterScripts`: none matches, or one rewrites the reply), `SendUpdate` the last write, `SendRollback` the catch of a `TurnError`, `SendThrows` an insert refused by
the unique index, which is no `TurnError`. What else may throw there without being a
`TurnError` (a read of the database, prompt assembly or retrieval behind the user row's
insert, `send.ts:146-237`) leaves the user row without an answer, as a restart at the same
await does, and is not an action of its own. `Refuse` stands for the early returns and
typed errors of all handlers, `Deny` for the credential check of a turn.

**Memory.** `ChatMemory` stands apart from `ChatService`: the background calls share
no variable with a locked operation but the messages they read, so it has a chat of
its own, of which it keeps what the index can see: each seq's text and `editedAt`.
`canon`, `digests` and `segments` are the three tables; `run` and `indexing` are the
one call of `generateDigests` and the one of `generateSegments` the in-flight sets
let through, with the history they read and the step they are at. Summaries are
asked for one by one, but only their order against the embedding pass, which stamps
them, can be observed: all summaries of a tier are one step, each of its writes is
another. A digest "says" the pairs of seq and text it was made from; a stale one
says a text the canon no longer has. `editMessage` stamps and writes in one step, and
the clock moves between any two stamps. A chat whose memory is switched off for some
turns is one whose calls throw at once. Bulk backfill (`scripts/memory-backfill.ts`)
is another process, which the in-flight sets do not see, and is left out.

**Library.** `items`, `vers`, `chats`, `personas` and `assets` are tables, `blobs`
the tree of files with their age. A request or a job is a process: `pc` is the
statement it is about to run, `loc` what it has read. A card or a chat file stands
for its bytes and hash, a version's fields are one text. Characters and presets are
rows of one kind (their services are the same code but for handles). One owner:
every query is filtered by owner first. `avatarAssetId` and lorebook are kept, stars
and archiving are not; `preset/service.ts:50-55`
also takes a version for pinned that a message names in `messages.presetVersionId`, but nothing
writes that column, so it is left out. `backfillAvatars` reads twice in a row; the model reads once.

**Accounts.** The same discipline: a process per request, a step per statement. A proxy
vouches for a person with a stable id or, for those in a mix's `nameless`, by name alone
(`trust-header.ts:229-260`: a custom header without one for the id, Authelia, authentik
without a uid); `who` and `own` then remember, as history, whose request and whose row it
is, which the code does not know. The
clock counts in ticks of five minutes, the throttle of a sliding session; a tick
never falls between the read that decides on a slide and its write. `idp` is the
provider with the names people have and had. A login that fails changes no table and
is not started; the audit log, an append behind each change, is left out;
`EnsureInsert` is the insert with the re-read behind it, which nothing can come
between to any effect.

**Rules.** `AccessRules`, `ImportFormats`, `PromptMacros`, `PromptRules`,
`StreamRules` and `SearchRules` are pure: each function of the code is an operator,
and a property asks it about every input of a bounded set, in the initial states.
Where a text matters it is a sequence of a few words and macros; a vector is a
distance or a place on a line.

**Models and rollups.** In `WarmModels`, `models` are the instances a process ever
loaded, `warm` the fields of one `WarmModel`, `users` its callers and the warm-up at
boot. In `CorpusRollups`, `world` is what the passes read, `table` what they write,
`pass` the one that runs; a pass reads an owner (or all) at once and then clears and
writes one statement at a time. Clustering is of the scenes, the arcs being the same
code again, and its centroids are the digests themselves: where k-means puts them
does not matter to what is checked, that each digest is assigned to the nearest and
counted there.

**Assumptions about what is external.** The Agent SDK appends the prompt's frame
before it generates and the reply's frame after; a resumed transcript without
frames starts a fresh one; a resume keeps the session's id, or (constant
`SdkForks`) may go on under a new id with a copy; `/compact` keeps the id and
leaves a summary of everything before. A summary "says" exactly the texts it
summarises. SQLite executes one statement at a time, enforces the unique index on
(chat, seq) and cascades the deletion of a chat.

## 4. Runs

| run | instance | shows |
|---|---|---|
| `chat_lock` | 2 chats, 4 calls | `MutualExclusion`, `ArrivalOrder`, `EveryCallSettles` under fairness, `ImplementsMutex`: the chain of promises is a fair per-chat FIFO mutex (its types are proved, §6) |
| `chat_turns` | 2 requests in flight, 1 chat, 5 requests: start, send, swipe, edit, select | `OneGenerationInFlight`, `TurnSeesCanon`, `SessionMirrorsCanon`, `OnlyScriptsDiffer`, `TotalsCoverGenerations`, `VariantsCoherent` |
| `chat_branches` | 2 in flight, 2 chats, 4 requests: start, send with managed compaction, fork, provider switch | `SummaryCoversCanon`, `SessionMirrorsCanon`, `TurnSeesCanon`, `AcceptedTurnIsCoherent`, `CountMatches` |
| `chat_races` | 2 in flight, 2 chats, 3 requests: opening, greeting, send, delete, fork by eager clients; 1 failure, 1 restart, SDK forks | `CanonContiguous`, `RepliesFollowTurns` |
| `chat_log` | 2 in flight, 1 chat, 3 requests: opening, send, swipe, edit, delete, patch, compact, provider switch by eager clients; 1 failure, 1 restart | `TypeOK`, `ImplementsLog`, and `RequestsFinish` under fairness |
| `library` | 2 processes, 6 mixes of 3 to 5 operations, 2 cards of one slug, 2 chat files (one with 2 messages, one a branch without messages), 1 crash | `TypeOK`, `PinnedFrozen`, `CurrentIsWhole`, `ImportOnce`, `ReferencedKept`, and `FormatsHold` of the readers |
| `accounts` | 2 requests in flight, 9 mixes of 3 or 4 requests in three modes, clock up to 6 ticks, 1 rename, 1 restart; a proxy with and without ids | `TypeOK`, `SessionsEnd`, `AnAdminRemains`, `TenantsArePersons`, `ConfigIsCurrent`, and `AccessHolds` of the rules |
| `pipeline` | a part per behaviour: 1 chat of 2 to 6 messages, settings with blocks of 1, 2 and 3 messages, windows of 2 and 1, up to 2 tiers above the lowest, 1 edit or swipe, 1 failure, 1 restart; 2 callers and the warm-up on one model with 2 loads; each kind of pass over 4 chats, 3 cards and 2 owners with 2 changes; samples for the rules | `RebuiltFromCanon`, `BridgeTellsOnce`, `SegmentsVerbatim` of a chat's memory: a call that met no change and lost no summary leaves the index of the canon, but for texts no stamp tells of; `ModelsHold`, `RollupsHold`, `PromptHolds`, `StreamHolds`, `SearchHolds` |
| `greeting_swipe` | 1 in flight, greeting then swipe | **violation** of `SessionsStartUserFirst` |
| `opening_race` | 2 in flight, opening and send | **violation** of `OneGenerationInFlight` |
| `imported_chat` | 1 send on an imported chat | **violation** of `TurnSeesCanon` |
| `scripted_reply` | 2 in flight, a start and 2 sends, a preset with an AI_OUTPUT script | **violation** of `MessagesWin` |

An *eager* client acts on a chat whose `startChat` or `forkChat` is still
writing: the row is listed from its first insert on, and the client can supply
the chat's id itself.

**Bounds.** Two requests in flight are enough for every interleaving of the
hazards listed: each of them is a race of two, and a third request waits in the
same line as the second, which `chat_lock` covers with four calls. Three to five
requests let a chat begin, be extended, be rewritten and be used again; two chats
are needed for forks only. One failure and one restart each fall at every await.
`MaxRequests`, `MaxFailures` and `MaxCrashes` are the only caps; texts and session
ids are drawn as needed. `OutputScripts` is on wherever sends are checked: each reply is
rewritten by a script or not. Requests are symmetric, and in `chat_branches` and
`chat_races` the chats are, too.

For `ChatMemory`, in `pipeline`, six messages are what three tiers with a fan-out of two need; the
settings change from turn to turn, so grids grow, shrink and are cut anew, and a block of
three has an inside, of which its span does not tell. Either
digests or segments are on (`OneOfTwo`): the two calls share nothing but the
messages, and together they would only multiply the states. One edit or swipe, one
failure and one restart, each at every point, suffice for a stamp to be missed, a
summary to be skipped and a call to die between two tiers.

In `library` and `accounts` a *mix* says which operations are started together and
how many, so that the interesting ones meet: editors and chats, imports of the same
files, imports beside removals, pictures beside the sweep; locks, resets,
administrators against each other, sliding, first logins. Two processes are enough for
the races of the hazards, each of which is of two; three to five operations let one be
a leftover of an earlier one. A crash falls at every await. `Ttl = 3` and
`Throttle = 1` keep the proportions: an expiry is slid before it is reached and a use
within the throttle does not slide it. Processes are symmetric.

In `pipeline`, `MaxLoads = 2` lets a model be unloaded (or fail) and be loaded again,
`IdleTicks = 1` lets the sweep find it idle. `MaxChanges = 2` lets a source change
before a pass and between its read and its write, or twice. The chats are one, its fork,
the fork of that, and one of another owner. Constants of the code that are numbers of
rows (pools, neighbours, least sizes of a cluster) are 1 or 2 so that they are reached.
The samples of the rules are listed in `MCPipeline`.

**Fairness.** `FairSpec` has weak fairness on each request's own step: every
promise the server awaits settles (a turn is bounded by the provider's timeouts, a
query returns), and the event loop runs what waits for it. Nobody has to send a
request, fail or crash.

**Deadlock** is switched off: when the bounds are used up and every request has
ended, nothing remains to do (in the memory of `pipeline`, the chat is full and its index done; its parts that are about rules have no steps). `RequestsFinish` and `EveryCallSettles` say what
deadlock freedom would.

## 5. What the model found

The four violation runs are disagreements between the code and what it says:

* *A swipe behind a greeting* seeds its transcript with the history as it is, so
  it opens with an assistant frame. `chat/seed.ts:15-33` says that this does not
  resume and that a stub must come first; only the other two seeding paths put it
  there. `forkChat` has the same gap.
* *The opening is generated outside the lock*, although `lock.ts:1` promises one
  generation in flight per chat.
* *An imported chat is not seeded*: the first send on it starts an empty
  transcript, although `import/service.ts:334` says it is seeded or resumed then.
* *A scripted reply is resumed as it was before*: `send.ts:241` rewrites the reply with the
  preset's AI_OUTPUT scripts before the canon gets it, when the SDK has already stored
  what the model wrote, and nothing brings the two together. Every later send resumes the
  unscripted text, and a compaction summarises it, until a swipe, an edit, a fork or a
  switch of provider seeds the session anew; `data-model.md:43-45` says that `messages` is
  the truth for all modes and wins where they diverge. `OnlyScriptsDiffer` is what is left:
  where a session and the canon have a reply in two forms, the canon's is the script's.

Five more disagreements were seen with TLC while the properties were being stated; the runs avoid the
ingredient that causes them, and the property is then checked without it:

* `AcceptedTurnIsCoherent` fails with swipes or edits: they do not move the tip's
  seq, which is all `send.ts:46` compares (`data-model.md:102` promises more).
* `TurnSeesCanon` and `SessionMirrorsCanon` fail with `MaxFailures = 1` in
  `chat_turns`: `send.ts:221` deletes the user row, not the frames the SDK had
  already appended.
* `SummaryCoversCanon` and `TurnSeesCanon` fail with edits on OpenRouter: an edit
  at or behind the compaction anchor never reaches the summary
  (`lifecycle.ts:307` says the model sees it on the next turn).
* `VariantsCoherent` fails with a restart: variant and message are two writes
  (`lifecycle.ts:316-320`, `swipe.ts:187-217`; `types.ts:28` says they agree).
* A fork can copy the user turn of a send that is later rolled back;
  `branch.ts:34` says that a read without the lock is point-consistent.

`ChatMemory` shows more texts that change where no stamp tells. Its passing properties
except the seqs concerned (the history variable `silent`, and `Buried`), and fail without the exception:

* A swipe or a chosen variant does not set `editedAt` (`swipe.ts:204-217`): a segment
  that holds the tip keeps the old reply, although `generate.ts:238` says "the tip
  just re-embeds on change". A variant chosen on an old message does the same to a
  digest.
* An edit while a call is running is older than the digests the call then writes
  (`db.ts:169` stamps the write, `generate.ts:55` read the text), so they are never
  made again although they say the old text.
* A message edited to nothing inside a block (`Buried`) is not in the history any more, so
  nobody asks when it was edited (`generate.ts:90`, 248-252 for segments). If the block
  size shrinks at the same time, a block can keep its span without it, and its digest or
  segment goes on telling the text, although `db.ts:215` calls a block stale when a
  contained message was edited and `db.ts:112-115` knows of messages edited to empty. The
  schema lets such an edit in: a blank is not empty for it, and is for `loadHistory`.
* A user turn that is rolled back frees its seq; a segment that took it in keeps its
  text if the next turn's block has the same span.

Two more are outside what the properties claim. A call that finds too few old
messages returns before it prunes (`generate.ts:56-63`), so digests of a chat that
shrank below one block stay, against `db.ts:112-115`. And `generate.ts:131` says that
parent block i covers the children numbered from i times the fan-out, where the code
takes them by position, which differs when a summary was skipped.
`generate.ts:203-205` says that the trailing partial block is skipped; line 235 says
that it is included, and so it is.

### Library

The properties hold apart from windows the code leaves open, each kept as a history
variable, and fail without the exception:

* `Seen` (in `PinnedFrozen`): an editor that found the version unpinned writes it in
  place although a chat has pinned it since (`character/service.ts:234`).
* `tangled` (in the second part of `CurrentIsWhole`): two writers of one character
  leave the pointer at the older version, or a gap in the numbers; a `remove` that the
  foreign key refuses has already cleared the pointer, and from then on every edit
  fails on version 1 (`character/service.ts:242`).
* `torn` (in `ImportOnce`): two imports of one file at the same time make two chats;
  an import that dies between a chat's row and its last message leaves a chat that no
  import completes, although `import/service.ts:14` calls a re-run safe and resumable
  after a partial failure. A branch whose parent is deleted loses it (`chats.ts:69`,
  set null) even where another chat has the parent's name, and an import that finds a
  chat already there does not hang it again. TLC had not met this, as it takes four
  operations in a row; the proof did, and such branches are `torn` since. So are not
  files that name themselves as their parent, which the code leaves without one, and
  which of several rows of one name becomes the parent is any of them (`Winners`): the
  query does not order its rows.
* `exposed` (in `ReferencedKept`): a sweep takes a blob that was stored again and
  linked after the sweep had listed it, because storing does not renew its age:
  `scripts/assets-gc.ts:10-11` and `assets/service.ts:38-39` say that the grace window
  protects this; or a sweep dies between the file and its row.

### Accounts

* `raced`, `unswept` (in `SessionsEnd`): a login that read the user before he was
  disabled mints a session afterwards; a crash between the disabling and the
  revocation leaves his sessions, which answer again when he is enabled.
* `unslid` (in `SessionsEnd`): a server that dies between a session's use and the
  slide of its expiry leaves the expiry of before, so the session ends sooner than its
  last use promises. TLC had not met it, as no mix had both a slide and a restart; the
  proof did, and the mix of sliding sessions has a restart since.
* `unseated` (in `AnAdminRemains`): two administrators demote or disable each other,
  each on a count of before (`admin/service.ts:109`).
* `crossed`, `passedOn` (in `TenantsArePersons`): a name that goes, by a rename, while
  a request still uses it; a name the provider gives to somebody else.
* `nameless` (in `TenantsArePersons`): where the proxy gives no id, `provisionIdentity` looks
  the row up by name and stores no id with it (`users.ts:106-138`), so a person who is
  renamed gets a second row. The plan knows this of Authelia
  (`auth-and-credentials-plan.md:587`: keyed on the handle). Such a person is excepted
  once renamed; that the row is still one person's, and that those with an id have one,
  is checked in the same run.
* `clashed`, `direct` (in `ConfigIsCurrent`): two merges of the settings overlap and
  one is lost; the application settings are written as a generic setting
  (`settings/service.ts:90`), and the cache stays as it was until a reload.

### Pipeline

* *Models.* The warm-up is not counted in flight and `lastUsedAt` starts at zero, so a
  sweep can unload a model that is warming (`warm-model.ts:15`: "Eviction never fires
  mid-inference"); only callers are claimed safe. The summarizer has one session for all,
  so of two summaries at a time one is read with the other's history, against
  `summarizer.ts:122`; these are `crossed`. An unload that fails is logged and leaks.
* *Rollups.* Exact after a finished pass, except for an owner whose last digest, segment
  or vector went: no pass visits him and his rows stay. Between passes,
  `duplicate_pairs` has no foreign key, so pairs of deleted chats are listed until the
  next one; a card that is edited keeps its first vector (`embed-corpus.ts` skips what
  has one); themes are cleared before their names are asked for, so a crash leaves the
  level empty until the next run; a digest that is written anew keeps its row's id and
  the theme of its old text until then.
* *Prompts.* `Unwarned` is what changes the cached half without the warning of
  `findVolatileMacros`: a name in another case (the registry ignores case, the detector
  does not), a macro in the card's name, a regex script's replacement, and a preset with
  memory or keyed lore before the boundary. A script that touches a character's lore reads
  it with the active persona, against `prompt-assemble.ts:14-16`; `PersonaPinned` is of
  lore no script touches. A pinned persona that was deleted is no pin. Scripts run in
  `send` only (what becomes of the reply then, see `scripted_reply`): `read.ts:83-84` says that the preview uses the same helpers, and it does
  not run them, nor do swipes, edits and compaction.
* *Streams.* A stream that is cut without an error counts as success. The last retry's
  cause is kept although the turn went on; an "error" event of Responses has no status
  and is told by its words. `responses.ts` hashes the whole prompt for `promptCacheKey`,
  the changing half too.
* *Search.* `Crowded`: the index returns the nearest rows of all owners and `find` and
  `discover` filter afterwards, so others' rows can take the places of one's own;
  `find` also drops cards it cannot read after it cut the list to k; `discover` ignores
  the scope.

## 6. Proofs

`ChatLockProofs` proves, for any set of chats and any number of calls,

* `TypeCorrect`: `Spec => []TypeOK`,
* `ServedInOrder`: `Spec => []ArrivalOrder`,
* `OneAtATime`: `Spec => []MutualExclusion`,
* `ChainImplementsMutex`: `Spec => ImplementsMutex`, the refinement of `FifoMutex`
  for every chat at once.

`ArrivalOrder` is not inductive: the code never looks at earlier calls, only at the
tail it finds in the map. `ChainInv` adds what makes the tail speak for them all:
the map's entry is the latest call of its chat (`TailIsLatest`), and every call
waits for the latest earlier call of its chat (`PriorIsLatestBefore`). When a call
starts, the call it waited for has settled; that one, having started, had seen
everything before it settle (`EarlierSettled`). Mutual exclusion follows, and the
three lemmas `WithChatLockIsAsk`, `RunFnIsEnter`, `SettleFnIsLeave` map each action
to an action of the mutex or, for the other chats, to a stutter. The only
assumption is `MaxCalls \in Nat`.

`ChatCanonProofs` proves, for any requests, chats, bounds and options, of the lock

* `LockIsHeldOnce`: `Spec => []OneLockHolder`, at most one operation of a chat is
  past its wait for the lock, whatever openings, forks and restarts do beside it,
* `OneGenerationPerChat`: `Spec => []OneGenerationInFlight` when no client asks for
  an opening. The premise is needed: `opening_race` is the counterexample without it.

`OneGenerationInFlight` is not inductive: that nobody else generates follows only
from the line. `LineInv` says where a request can be (`Shapes`), that one running
under the lock heads its chat's line (`HeadRuns`), and that an opening is generated
only where one can be asked for (`NoOpening`). A step goes on in the line, goes on
outside it, leaves it, returns, joins it, or starts outside it: one lemma for each
way, and each action is one of them. The assumption used is `KindsAssumption`, the
list of the kinds of request there are.

and of the rows

* `TablesAreTyped`: `Spec => []TypeOK`,
* `SeqsHaveNoGap`: `Spec => []CanonContiguous`,
* `NoTwoRepliesInARow`: `Spec => []RepliesFollowTurns`.

The order of replies is not inductive: a send writes its reply at the seq it computed
before the generation, so its user row must still be the tip (`SendsAtTip`), and that is
so because whoever writes behind a tip holds the lock. What is written without the lock
is the opening, which only enters a chat that has no row yet (`CanonRuns` says that a
chat's rows are 1 to its tip; the insert at 1 is refused by the unique index otherwise),
and a fork, which copies a prefix from 1 on (`ForksCopy`). `CanonAlternates` is what is
left to say of the rows, `LineInv` is used for the lock. `TypeOK` asks that the frames of
a session are turns of the canon, so the two recursive functions that make frames
(`FlattenSeq`, and `Said` of a canon) must be bounded on every input: this is done
without the library's induction theorems, by a least counterexample (`LeastNatural`).

`ChatRecordsProofs` proves, for any requests, chats, failures and options,

* `TextIsTheActiveVariant`: `Spec => [](used.crashes = 0 => VariantsCoherent)`. A swipe
  stores the old text, the new one, and then moves the row: three statements, so
  `VariantInv` says which request has a row half written (`RowsCoherent`: every other one
  is coherent) and how far it is (`RowInHand`: the texts are kept, the last is the new
  one). What other requests do leaves the row in hand alone (`OthersInHand`), because
  rewriting needs the lock and an opening or a fork only adds rows.
* `MessageCountIsRight`: `Spec => [](used.crashes = 0 => CountMatches)` and
  `NoGenerationIsLost`: `Spec => [](used.crashes = 0 => TotalsCoverGenerations)`, where no
  client acts on a chat that is still being made (`~Eager`). The columns are written from
  the row an operation read at its start, statements ago. `OneWriter` says that nobody
  else wrote since: of the requests that start a chat, fork one or run under its lock one
  at most is in a chat (`BuildInv`), an absent chat has no rows and nobody in its line
  (`AbsentInv`), and what a start or a fork is about to make is known to it alone
  (`AimInv`). `LedgerInv` then is a balance: the columns and what the writer of the chat
  has yet to book are the rows' number and the sum of their generations (`Books`), with
  nothing to book when nobody writes. `Generations` is a recursive sum, so a lemma for
  each kind of change of a table (a row at its end, the last row gone, one generation
  more on a row, other fields) says what it does to the sum and to the cardinality.

Both premises are needed. A restart between two of the statements leaves what
`used.crashes = 0` excludes, and nothing in the code repairs it; with `Eager` a send that
comes while the opening is generated loses its counts when the opening's last write sets
them to constants (`opening_race`, and §5).

`ChatSessionProofs` proves, for any requests, chats, imports, failures and restarts,

* `AcceptedSendsAreNotStale`: `Spec => []AcceptedTurnIsCoherent`, where no client acts on a
  chat that is still being made (`~Eager`) and none rewrites a text in place (no swipe,
  select or edit among `Kinds`). A client's `expectedSeq` is the tip it saw, and the tip
  comes back: a send that fails takes its user row away, and the next one may put other
  words at the same seq. So what is inductive is not the tip but `AnsweredTip`, the tip
  without a user row whose reply is not there yet: it never falls, and it is reached again
  only with the same words. `ClientsInv` says of every waiting send that its client saw
  an earlier answered tip, this one to the last text, or a user row behind it that may go
  again; once the send holds the lock nothing is in flight, so an equal tip means equal
  texts (`AcceptedInv`). `OneWriter` of `ChatRecordsProofs` says who may change the words,
  `GreetedInv` that a chat started with a greeting has it when its client first sends.
  `ShownIs` turns the two renderings of a chat, `Canon` and the list of its texts, into
  each other. A restart only ends requests, and so needs no premise here.

It also proves `VoiceAlways`: `SessionInv`, on which the next theorems rest, is
invariant. A chat's messages and its session are written by different statements, and
in a different order by each operation: a send has the model's turn in the session
before its reply is a row, a swipe answers in a new session and drops the old one last,
an edit drops the session and seeds another, a fork is given its frames after its rows.
So that the two agree (`Stable`) holds only between operations, and the invariant says
for every step of a chat's one writer which session is the one that counts (`Hand`),
what it owes at that step (`Due`: the texts before the reply, the texts with the reply
that is not written yet, nothing) and that it says so (`Speaks`). `Heard` adds what makes
the next step keep it: the row, the session and the tip the writer read are still those
of the tables. `HeldInv` keeps chats out of each other's way: they claim different
sessions (`Apart`), a session bears the name of the chat that claims it (`Bound`), and
new ones have a new number (`Numbered`). Each step is one lemma for its own chat, and a
frame for all the others.

`ChatSummaryProofs` proves, while nothing fails and nothing restarts (`Undisturbed`), for
any requests and bounds of clients that do not act on a chat before its startChat or
fork has answered (`~Eager`) and of chats none of which was imported (`Imported = {}`),

* `TurnsSeeTheCanon`: `Spec => [](Undisturbed => TurnSeesCanon)` and
  `SummariesCoverTheCanon`: `Spec => [](Undisturbed => SummaryCoversCanon)`, where no text
  is rewritten in place or nothing compacts (`~Rewords \/ ~Condenses`). `SumInv` says that
  a summary tells the messages up to its anchor (`Covers`), those of the fork's copy while
  the fork has its row but not its messages (`Summed`), and that what a fork has read
  of its source's row fits what it has read of its messages, or is dropped (`Sourced`).
* `SessionsMirrorAlways`: `Spec => [](Undisturbed => SessionsMirror)`, the two parts of
  `SessionMirrorsCanon` about what a session says, with no further premise.
* `SessionsMirrorTheCanon`: `Spec => [](Undisturbed => SessionMirrorsCanon)`, with its third
  part, where the SDK goes on in the session it resumes (`~SdkForks`). `TidyInv`
  says which sessions a chat may have frames in, at each step of its writer (`Keeps`):
  the ones it goes on from, takes along or is about to drop.

The three properties compare texts, in whichever form (§3), and hold for presets with
output scripts and without; that the forms agree is false (`scripted_reply`).

Every premise is there because the statement is false without it: TLC refutes each of the
three properties on two requests in flight, two chats and four requests when a failure, a
restart, an imported chat or an eager client is let in. A send that fails after the
model's turn leaves that turn in the session; a restart leaves whatever was half done; an
imported chat has messages and no session (`imported_chat`); an eager send comes into a
chat that is still being made. An edit, a swipe or a selection leaves the summary as it
was, and on openrouter the model is then told the old text. An SDK that answers in a
session of its own leaves the resumed one behind. The runs `chat_turns` and
`chat_branches`, which check these properties, take the same constants (§5).

`ChatLogProofs` proves, for any requests, chats, imports, failures and restarts, for
eager clients too,

* `ServiceImplementsLog`: without forks (`"fork" \notin Kinds`; a fork brings a whole
  log, which `ChatLog` does not have), `Spec => ImplementsLog`. The log of a chat is
  its rows without the user row that is being answered (`Committed`).

The mapping is a filter over the seqs up to the tip, built with a fold. `KeptEntries`
turns it into a function of two numbers, the chat's first seq and its last answered one
(`CommittedIs`), because a canon has no gap and at most its last row is unanswered.
After that a step is seen from the tables alone:

* the rows of other chats stay (`OtherLogs`), and a step that leaves the chat's table
  alone leaves its log alone (`QuietStep`);
* a user row enters and leaves unseen (`UserTurnUnseen`, `FailureUnseen`), since the send
  that wrote it counts as unanswered from the statement that inserts it to the one that
  removes it; with the reply, two entries appear (`ReplyExchanges`);
* a swipe, an edit or a chosen variant writes one row, for the same speaker
  (`RewriteMoves`); an opening writes the first one (`OpeningMoves`);
* a restart forgets the sends, and so shows the user rows they had written
  (`RestartLogs`); that their chats are still there is the discipline of the lock.

The log's texts are of a finite set, `Bodies`, so the invariant `LogInv` also has to say
where texts come from and that they do not run out: each text in a row, a variant or a
request's hands was drawn from `nextBody` (`TextsDrawn`, `HandsDrawn`), and what the
requests in flight may still draw is paid for by the requests that were made
(`Funded`, a cardinality).

`LibraryProofs` proves, for any cards, files, names, texts, mixes and crashes,

* `TypeCorrect`: `Spec => []TypeOK`. No two statements are in one transaction, so what a
  process remembers may be gone when it uses it: `TypeInv` is the types of the rows
  (`RowsOK`), of files and index (`DiskOK`) and, for each process, what it can rely on at
  its step (`Fits`) whatever the others did: the item it took up kept its kind, the
  version it wrote is there as long as its item is.
* `PinsFreeze`: `Spec => []PinnedFrozen`. An edit in place writes a version that it found
  unpinned some statements ago, so the invariant `PinInv` says who may be in that window
  (`EditedUnseen`): a chat that has the text on record is never on such a version.
* `ShownIsKept`: `Spec => []ReferencedKept`. `KeptInv` relates the sweep's list with what
  is linked: what a sweep still means to remove is linked by nobody, or exposed
  (`GarbageUnlinked`); what has a row has a file or a sweep is between the two deletions
  (`IndexedKept`); and what a process stored and has not linked yet is there
  (`StoredKept`).

and, further down,

* `OfferedIsWhole`: `Spec => []CurrentIsWhole`. Its first part holds whatever dies,
  since a version is written, given its lorebook and only then pointed to: `WholeInv`
  says that until then nobody else knows of it (`HeldAlone`) and how far its writer is
  (`HeldSoFar`). Its second part needs the numbers: no two versions of an item share one
  (`NumbersApart`, the unique index), and an item that is not tangled is `Tidy`: nobody
  writes it and it points to its last version, or one does and `SoFar` says what that
  one has seen or done. `NumbersCount` turns numbers without gap and repetition into a
  cardinality.
* `FilesImportedOnce`: `Spec => []ImportOnce`. Looking for a file's hash and inserting
  its chat are two statements with nothing behind them, so `ImportInv` says that of two
  imports past the look none has a file of the other, unless torn (`OneImport`), and
  that what one is about to insert is not there (`NotYetThere`); a chat short of lines
  is in the hands of an import (`Filled`), a branch without its parent in those of one
  that will hang it (`Hangs`). `Listed` says that what an import remembers of its chats
  is still of its character. Steps that import nothing are one frame (`ImportsStay`):
  a chat goes with its branches torn, or one comes that has no file.

`AccountsProofs` proves `TypeCorrect`: `Spec => []TypeOK`, with unique names and subjects,
for any requests, renames and restarts, and on top of it

* `SettingsAreCurrent`: `Spec => []ConfigIsCurrent`,
* `SomebodyRemains`: `Spec => []AnAdminRemains`. The guard counts and the write comes
  later; `SeatsOK` says what a counted write can rely on when nobody else wrote since.
* `SessionsDoEnd`: `Spec => []SessionsEnd`, by `SlidesOK` (an expiry is a lifetime after
  the session was last marked as seen, and a use is not more than a throttle later
  unless its mark is being written or the server died on it) and `ErasOK` (a session
  of before a lock or a new password is revoked, or somebody is about to revoke it).
* `OneTenantPerPerson`: `Spec => []TenantsArePersons`, by `PeopleInv`: whose row each
  request has in hand, and under which name. A row without an id is known by its name
  only (`Named`), so that two rows of one person have two names, and the person was
  renamed or its name passed on (`NoTwins`).

**Assumptions** on constants, all evaluated by TLC too. `LibraryAssumption`: a card has a
slug and a number of lorebook entries, a chat file a name and a number of lines
(a file of a header alone is imported as a chat without messages), hashes and texts are
told apart, and bundles are of the files. `AccountsAssumption`: the owner's handle, the
initial password and those who sign in as bosses are among the handles, passwords and
subjects there are, the environment gives a value to every field, a throttle is shorter
than a session's life, and each mix has one of the three modes and first users that can
be. `KindsAssumption` lists the kinds of request there are. The rest say that bounds are
numbers and switches Booleans.

**Only model-checked.** `ChatMemory` is left to the plan: its tables are compared with a recursive rendering of
the canon. `FormatsHold`, `AccessHolds` and the parts of
`pipeline` ask rules about samples, which is what a run is for; their recursive
operators are out of the provers' reach. So are liveness and fairness
(`RequestsFinish`, `EveryCallSettles`), and what a recursive definition computes for
every input.

## 7. Not modelled

* Timeouts, sampling parameters, pricing and the catalogue of models with its cache.
* The upload of an archive (`import-http.ts`), export, titles, tags, the editing of
  world info: one conversion or one row at a time.
* Image vectors and image search; `assets/embed-pass.ts`. k-means itself, and the
  read-only views over the rollups.
* Failed logins and the audit log; setting and deleting a user's key (one row).
* HTTP and tRPC but for what `AccessRules` says of them, logging, the client, and
  `scripts/memory-backfill.ts`, which no in-flight set of the server sees.

Every part is listed in `PROJECT.json`, with its hazards.
