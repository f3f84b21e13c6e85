# near-git-storage in TLA+

A verification project for near-git-storage: git repositories kept in NEAR
contracts, reached through a git remote helper, an HTTP server, or a service
worker in the browser. Modules, model-checking configurations and proofs are in
this directory; `PROJECT.json` maps every definition to the lines it models.
Paths below are relative to the repository.

## 1. Inventory

| Part | Source | State | Operations |
|---|---|---|---|
| repository contract | `src/lib.rs` | `refs`, `packs`, `pack_count`, `owner` | `new`, `push` (a pack and ref updates with compare-and-swap), `clear_storage`, `self_delete`, views `get_refs`, `get_packs`, `get_pack_count`, `get_owner` |
| factory contract | `factory/src/lib.rs` | hash of the repository code, owner | `create_repo` (one batch: account, deposit, code, `new`), `set_global_contract_hash` |
| remote helper | `git-remote-near/src/main.rs` | per `git` process: the batch of push specs, `remote_ref_map` | `list`, `fetch`, `push`, driven by git over stdin |
| HTTP server | `git-server/src/main.rs` | none of its own | `info/refs`, `receive-pack`, `upload-pack` |
| service worker | `e2e/public/near-git-sw.js` | `config`, `lastUsedNonces` | the same requests, transactions signed in the browser |
| packfile codec | `git-core/src/packfile.rs` | none | parse, build, delta encoding and application |
| pkt-line | `git-core/src/pktline.rs` | none | framing |
| bindings, pages, worker | `wasm-lib/src/lib.rs`, `e2e/` | page state | wrappers, forms, an RPC proxy |

**How they interact.** Only the contract keeps anything. A client learns the
refs by one view call, the packs by another, and changes both by one
transaction, which the chain executes at once and possibly long after the client
stopped waiting. Views answer from an older state than the one the last
transaction made. Packs are deltas against objects of earlier packs, chosen by a
client from what it saw; nobody on chain looks inside a pack. git itself checks
fast-forwards before it calls a helper, against the refs it was shown.

**What is hard.** Every client works on a copy of the refs and packs that may be
stale when its push is executed; transactions have unknown outcomes; nonces of
concurrent transactions collide; a push with several refs must be whole or
nothing; a helper may be killed in a batch, the browser may stop the service
worker, and any page may point it at another contract between two awaits;
`clear_storage` puts the log back to its beginning under the feet of readers and
pushers; and the order of the packs has to be such that each can be read with
those before it. `PROJECT.json` lists these hazards at their lines.

**What correctness means, by part.**
- *Contract*: a push is applied whole or not at all; each update is checked
  against the refs as the earlier ones of the push left them; the packs are a log
  without holes; every call is answered.
- *Clients*: whatever a ref reaches can be had from the packs; a reader is given
  what it was shown; a push replaces what its author saw; a push is never applied
  twice; what git is told is so; every request is answered.
- *Reading packs*: exactly the objects the packs determine are served, in
  whatever order deltas and bases are met.

## 2. Modules

| Module | Models | Of |
|---|---|---|
| `RefUpdates` | ref maps and lists of compare-and-swap updates, as pure operators | `src/lib.rs` 10-20, 79-97 |
| `GitRepo` | what a repository promises: calls that take effect at once | abstract specification |
| `GitStorage` | the contract, one loop iteration a step | `src/lib.rs` |
| `GitStorageProofs` | proofs about it, its refinement of `GitRepo` included | |
| `RemoteHelper` | clones with `git-remote-near` against the contract | `git-remote-near/src/main.rs` |
| `RemoteHelperProofs` | proofs about it | |
| `SmartHttp` | info/refs, receive-pack, upload-pack of both servers, and the configuration of the service worker | `near-git-sw.js`, `git-server/src/main.rs` |
| `SmartHttpProofs` | proofs about it | |
| `FunctionCall` | the transactions of the service worker and their nonces | `near-git-sw.js` 147-271 |
| `FunctionCallProofs` | proofs about them | |
| `DeltaResolve` | the passes that resolve deltas when packs are served | `near-git-sw.js` 409-450, 556-603, `git-server/src/main.rs` 437-479 |
| `DeltaResolveProofs` | proofs about them | |
| `Factory` | creation of repositories, their owner, code and funds, up to their deletion | `factory/src/lib.rs`, `new` and `self_delete` of `src/lib.rs` |
| `FactoryProofs` | proofs about it | |
| `Delta` | delta instructions and their numbers, written and applied | `git-core/src/packfile.rs` 277-507 |
| `Packfile` | entries, sizes and offsets, `build_with_bases`, `parse` | `git-core/src/packfile.rs` |
| `PktLine` | framing of lines | `git-core/src/pktline.rs` |
| `Codec` | a push on its way through the three | `git-server/src/main.rs`, `wasm-lib/src/lib.rs` |
| `CodecProofs` | proofs about the four | |
| `Induction` | induction, recursive functions and finite sums in a form the provers can use | |
| `MC...` | small constants and symmetry for TLC | |

Composition: `GitStorage` is shown to implement `GitRepo`, so the client modules
(`RemoteHelper`, `SmartHttp`) execute a push in one step, with the rules of
`RefUpdates`. `SmartHttp` takes a transaction as executed at most once, at any
time, with an answer that may be missing: what `FunctionCall` shows of it. Both
client modules read packs as sets of commits; that the passes over deltas give
that set is `DeltaResolve`, which takes parsing and applying a delta as given;
that these give back what was written is `Codec`. `Factory` takes a repository
from its creation to its deletion and leaves out what is pushed to it.

### GitStorage and GitRepo

`self` is the copy near-sdk reads at the start of a call and writes at its end,
`trie` the committed state; a panic or running out of gas anywhere drops the
copy (`Rollback`). `push` is `StorePack`, then one `UpdateRef` for each update,
then `ReturnFromPush`; `clear_storage` is `RemovePack`, `CollectKeys`,
`RemoveRef`, `ReturnFromClear`. `self_delete` sends a receipt that deletes the
account some time later; other calls may be executed before it. `GitRepo` has
each call as one step whose effect on several updates is described without a
loop, by the last update to each name.

### RemoteHelper

A sha stands for a commit with its trees and blobs, `history[s]` is what is
reachable from it, a pack is a set of commits and possibly one its deltas need.
`List` is git's own view of the refs; `DoPush` takes the batch of specs and the
second view, `remote_ref_map`; `SendPush`, `Execute` and `NextOp` go through the
batch, `RefuseSpec` is a spec answered without a transaction. git hands over the
names of the sources, not their commits, and `SendPush` looks them up: `src[c]`
is the commit a source named when it was last looked up, and a destination is
`unchecked` when git's fast-forward check does not speak for it, because it was
given with "+" or because its source has moved since. `PushedPack` is
`collect_new_shas` and `build_packfile`, whose git commands may fail: a failing
`rev-list` counts as nothing new, a failing `pack-objects` (constant
`PackObjectsMayFail`) as an empty pack. `LoseAnswer` gives a transaction up,
`PushDies` is a helper killed or panicking anywhere in its batch, `ExecuteOrphan`
executes later what either left behind. `DoFetch` reads the packs and gives them
to `git index-pack --fix-thin` one by one, a refused pack being passed over;
`FetchDies` stops after some of them. What the loop leaves is defined without a
loop, as the most packs that need only what came before them (`Imported`), so
that it can be proved about; the assumption `IndexedInTurn` of `MCRemoteHelper`
has TLC compare the two on every list of up to three packs over two commits.

### SmartHttp

`hist` keeps every version of the chain, what each contract held; a view is the
choice of a version, never an earlier one than the last view's if there is a
single node (`oneNode`). `program`, chosen at the start, says which of the two
answers. `Configure` and `Stop` are the pages and the browser: `config` is one
variable for all requests, read again by each step that needs it, so that a
request may look at one contract and push to another. `from[r]` is the contract
the refs came from, `to[r]` the one the transaction calls, `lives[r]` every
contract looked at, and in which of its lives between two `clear_storage`.
`GitPush` and `GitFetch` are git; `CountForPush`, `ReadBases`, `Sign`, `Answer`,
`CallFails`, `Poll`, `Deadline` the steps of `handleReceivePack` between its
awaits, and `Resign` the retry of `nearFunctionCall`, which signs for the
contract configured by then; `ReceivePack` the server's only call;
`CountForFetch`, `ReadPacks` those of `handleUploadPack` and
`handle_upload_pack`. A request whose worker is stopped is "failed", and so is
one whose view fails. Thin packs reach the server only: the service worker's
client is libgit2, which makes none, and the service worker makes its own from
the bases it reads. Deletions (`new_sha` of forty zeros) may be alone, without a
pack, or mixed with updates.

### FunctionCall

`Start` asks for the access key, `Sign` is everything from the answer to the
broadcast (no await between), `InvalidNonce` the retry loop, `Answer` and
`OtherError` the ways out. A node refuses or forwards according to any nonce the
key has had; forwarded transactions stay in `pool` until executed or dropped,
whatever became of the call. `Restart` empties `lastUsedNonces`.

### DeltaResolve

`reader`, chosen at the start, is the server, which makes its passes after each
pack and over that pack's deltas, or the service worker, which gathers all of
them first. A delta is the object it needs and the one it gives, a chain stacked
on it included. The order within a pass is left open, so every order the code
may choose is covered.

### Factory

A call of `create_repo` is a record: what it asked for, and the hash that was
current. `CreateRepo` only sends the batch; `BatchSucceeds` and `BatchFails`
are its execution some time later, whole or not at all, with the refund going to
the batch's predecessor, the factory. `call[c].signer` and
`call[c].predecessor` differ when the call is made through a contract: `new`
stores the signer. `SelfDelete` appends a receipt to `deletes[n]`,
`DeleteAccount` executes one: on the account that has the name then. `asked` and
`fresh` are history variables for the properties. Amounts are tenths of a NEAR;
a transfer counts as received when it is sent.

### Delta, Packfile, PktLine, Codec

A pack is a sequence of bytes, in which what zlib makes of some data, a SHA-1
and the pack's header are one element each. The radices of the encodings (2^7
and 2^8 of a delta's numbers, the 16 of an object's first size digit, the 16 of
a line's length, the 4 bytes of an index block) are the constants `High`,
`Digit`, `Nibble`, `Hex` and `Block`, small in the run so that short contents
reach every boundary; the lengths at which copies and inserts are split follow
from them as in the code. `compute_delta` is `ComputeDelta`, its loop
`Instructions`; `apply_delta` is `ApplyDelta`, with the lengths it does and does
not check. The loops of the code are recursive functions of the place they have
reached, what they return is what they give from there to the end, so that they
can be proved about. `parse` is `Parse`: `Entries`, then `Resolve` for each. Which
base gives the shortest delta is left open (`Forms`), and so covers every
choice; git's own packs may in addition delta against any earlier entry. Errors
and panics are results of their own. Left out: shifts by 64 bits or more, and an
offset of 0, which no program writes (an endless recursion in `resolve`, a panic
here). `Codec` is one push: `Send` or `Build`, `Receive`, `Read`.

## 3. What is checked

TLC runs, with what they show:

| Run | Question | Bounds |
|---|---|---|
| `contract` | Does the contract, panicking anywhere, implement `GitRepo`? Is the pack log dense, is `get_packs` its suffix, is every call answered? | two refs, two shas, every push of at most two updates, `pack_count` up to 2, two pending deletions |
| `helper_race` | Two clones push, also forced, with branches that move, helpers that die, a `pack-objects` that fails, an answer lost and a clear: do refs stay closed, do packs come after their bases, is a fetch connected, what may an unforced push discard? | three commits in every graph, one ref, a push starts with at most one pack stored |
| `helper_one_pusher` | Does a single pusher ever send a ref without its objects? | the same over two refs, batches included; git's commands do not fail |
| `helper_nothing_new` | *violation*, see 6 | two commits |
| `http` | The same through the HTTP programs: is "ok" true, does a push replace what was shown, are refs closed and fetches complete, is no view after an answer in time older than the push? Which of this remains when views go back in time? | both programs, one node or many; one contract, two refs, three commits, two pushes, a fetch, a clear |
| `http_live` | Is every request answered, and does "ok" stay true when the contract changes or the worker stops in the middle of it? | two contracts, two configure messages, a stop, two pushes, a fetch, one ref, no symmetry |
| `http_delete` | *violation*, see 6 | one ref |
| `function_call` | At most once, true answers, when may a call be refused, do sequential calls collide? | three calls, two foreign transactions, one restart |
| `delta` | Is exactly what the packs determine served, by which program, and do the passes end? | both programs; every two packs with up to one object and two deltas over three objects, corrupt deltas and unreadable packs |
| `delta_later_base` | *violation*, see 6 | as `delta` |
| `factory` | Where are the deposits, who owns which repository with which code, for which reasons does a creation fail, whom does a deletion serve? | three creations of one name or one with a dot, two users and a contract, three hashes of which two are deployed, two deletions under way |
| `codec` | Are the objects and lines that come out those that went in, in every form a pack may take, without an error or a panic? | radices 2 and 4; every two contents of up to 6 bytes over two letters as base and object; three objects and a base of up to 14 bytes |

**Why the bounds are enough to be interesting.** Two updates are the least for
which a push can fail half-way or name a ref twice, and with two shas each can
match or not. `pack_count` reaches its largest value. Two pushers and three
commits give every fork, merge and amended commit that a compare-and-swap, a
fast-forward check and a thin pack can disagree about; one clear separates the
lives of the log. A third call refused for good takes three foreign nonces:
three calls and two transactions signed elsewhere allow it in several ways. Two
packs with two deltas each contain every chain across a pack boundary in both
directions, and cycles. Three creations of one name are the least for which a
repository can be created, deleted and created again while a third batch waits,
and two deletions under way the least for one to outlive its repository. With
radices of 2 and 4, 14 bytes are longer than the longest copy and the longest
insert, sizes have up to three digits, and offsets to the entry before last have
two. Counters that only bound a run (`MaxLost`, `MaxClears`, `MaxConfigures`,
`MaxStops`, `MaxForeign`, `MaxRestarts`, `MaxPacks`, `MaxDeletes`) are constants
named as such. `helper_race` has the constraint `Sighted`: nothing is claimed of
what follows a push that was sent blind, which is a finding of its own.

**Conditions in properties.** A push is *blind* when what it sends is not what
the value it replaces leaves to be sent; `ClosedUnlessBlind` and its neighbours
exclude what follows one. `FetchConnects` excludes a clear, which may fall
between `list` and `fetch`. `FastForwardUnlessMoved` excludes a ref that moved
between git's `list` and the helper's own read of the refs: git's check is then
about another value than the CAS, and the push discards what came in between; it
also excludes what is `unchecked`. In `SmartHttp`, `Unmixed` excludes pushes
that looked at more than one contract, or at one both before and after a
`clear_storage`: those leave out objects that their contract does not have, and
do leave refs dangling (6). `FetchIsComplete` and `ReadYourWrites` are about a
single RPC node, and the second excludes a push each of whose refs had the
awaited value, and lost it again, between a push's `info/refs` and its execution
(the wait compares values, not versions), and a wait that polled another
contract. `OkIsApplied` and `ReplacesWhatWasShown` have no such condition: they
hold across clears, stops and configure messages. `CHECK_DEADLOCK FALSE` is
given where a bounded system stops because its work is done.

**Fairness.** `RemoteHelper`, `FunctionCall`, `Factory` and `Codec`: none, only
safety is claimed. `GitStorage`: the runtime executes a receipt it has started.
Of `DeltaResolve`: synchronous code runs. `SmartHttp`: the next step of a
handler happens, because an RPC node answers or fails (a transaction that is
never executed is one whose call fails), and the deadline of the wait passes.
Nothing is assumed of when a transaction is executed, there is no fairness of
git, and none of the pages: `ensureReady` waits without a deadline, so `Answered`
has the disjunct that the worker was stopped and never configured again.

## 4. What is proved

TLAPS checks, for every value of the constants that satisfies the named
assumptions:

- `GitStorageProofs`: type correctness, `PackLogNeverHasHoles`, `LoopsCorrect`
  and `Refinement` (`Spec => RepoSpec`), from `Constants`. The invariant that
  carries them is `LoopInv`: in the middle of a push, `self` is the committed
  state with `RefsAfter` of the updates so far, and those were `Accepted`; in
  the middle of a clear, it is the committed state less the packs or refs
  removed so far. Density alone is not inductive: a clear makes holes in `self`
  until it sets `pack_count` to 0, and only the commit must not see them.
  `GetPacksAnswersAll`: since the committed log is dense, `get_packs` drops none
  of the packs from the index it is asked for, and keeps their order.
- `RemoteHelperProofs`, from `HelperConstants`: type correctness and all
  properties of `helper_race`, for any number of clones, commits, refs, lost
  answers and deaths; and, if there is one pusher and `pack-objects` does not
  fail, `NeverBlind`. The invariant `IInv` has four parts. `Graph`: a history
  contains the histories of its commits and never changes once made. `Real`:
  whatever a ref, a view, a pack or a transaction names has been made, so it
  falls under the first. `Batches`: git's fast-forward check still holds of the
  commit about to be sent, unless it is `unchecked`, and a transaction is for
  the value in `remote_ref_map`. `Store`: every transaction that may still be
  executed carries the history of its new value less that of its old one and is
  thin against the old one only (`Built`), with the properties themselves. A
  transaction executes, however late, only if the ref has the very value its
  pack was built against, and whatever that reaches is stored: so `Built` is
  what makes closedness and the order of bases inductive. For one pusher the
  strengthening is that every value the contract, a view or a transaction holds
  is in its object database.
- `SmartHttpProofs`, from `HttpConstants`: type correctness, `OkIsApplied`,
  `ReplacesWhatWasShown`, `RefsClosed`, `FetchIsComplete` and `ReadYourWrites`,
  for any number of requests, contracts, clears, configure messages and stops.
  The first two need that versions are only added (`OldStays`), so that what a
  request was shown stays where it was, and how far each push has got (`Flow`),
  with what it replaced and by what (`Landed`). `ReadYourWrites` needs in
  addition that nothing of a push is under way while it waits for its refs
  (`Settled`), and that no view is older than the one it was shown: a poll that
  finds the awaited values in a version before the push would find them in one
  where some ref did not have them. The other two need that within a life of a
  contract packs are only added (`Grows`), that a push which looked at one life
  of one contract leaves out only what that life has held (`Builds`), and hence
  that its pack completes whatever version of that life it is applied to.
- `DeltaResolveProofs`, from `ResolveConstants`: `ServedWasStored` (both
  programs), `WorkerServesEverything` and `ServerServesInStep`, for any list of
  packs. The invariant `Gathered` says that every gathered delta is pending or
  has its object, and that while a pass has made no progress every delta it has
  passed over has no base: when the last pass ends this is closedness. For the
  server `InStep` says the same of the packs read so far, after each of them,
  provided no base comes in a later pack than a delta on it: what the server has
  dropped from `pending` it then cannot need again (`EarlyEnough`).
- `FunctionCallProofs`, from `CallConstants`: `AtMostOnce` and `Honest` from the
  invariant that a call has at most one transaction that may still be executed;
  `NoCollision` from one that bounds every nonce under way by `lastUsed`;
  `Overtaken` by counting: each retry is paid for by a nonce the key has had
  below the new one (`Paid`).
- `FactoryProofs`, from `FactoryConstants` and `RepoConstants`: type
  correctness, `RepoIsPinned`, `FailsForAReason` and `DeletedForItsOwner`, for
  any number of calls, users, names and deletions. `Promised` (a pending batch
  carries the hash that was current when it was sent, and pays the fee) gives
  pinning; `FreshDeletes` (all deletions waiting for a repository created
  without any are its owner's) gives the last one, which says nothing of
  deletions by itself. `NotTakenOver` is the action property `NoTakeover`: a
  batch only takes a name that is free, a deletion removes whole accounts.
  `NoDepositLost` is `DepositsAccounted`, that what was deposited is what the
  repositories hold, what deletions paid out, what is under way and what the
  factory has of failed batches; each step moves one summand of these sums over
  finite sets (the accounts and calls are assumed finite) from one to another.
- `CodecProofs`, from `DeltaConstants`, `PackConstants`, `PktLineConstants`,
  `CommandsAreLines`, saying that what git puts into a request is lines of bytes
  no longer than one can be, and `ObjectsAreAddressed`, that objects have a type
  and at most `MaxSource` bytes (2^32 in the code), which is what the four bytes
  of a copy's offset can say. `RequestRead`: encoded lines, a
  flush and anything behind it are read as those lines and that rest, whatever
  the number and length of the lines. `LinesReceived` follows from it: every
  request that was sent is lines, a flush and a pack. `DeltaRoundTrip`: applying
  `ComputeDelta(base, target)` to `base` gives `target`, for all contents and
  radices, if the source is no longer than `MaxSource`. It rests on the round trip of numbers
  (`SizeRead`, `DigitsRead`), of a copy whose zero arguments are left out
  (`CopyRead`), and of runs that are split at the longest copy and insert
  (`CopiesGive`, `InsertsGive`); the induction over the target carries what is
  still to be inserted as a part of the target (`Rest`), and of a match uses only
  that it is one (`BestMatch`), not that it is the longest.
  `ObjectsReadBack` (`ObjectsIntact`), `SizesWritten` (`SizesRight`) and
  `CodecTypeCorrect` (`TypeOK`) are about whole packs, of any number of objects,
  compressed in any of the forms of `PackForms`. The inductive invariant
  `PackInv` says what the pack is in each state: one that `BuildWithBases` makes
  of the push (`Carried`, `Requested`), so that nothing but the pack has to be
  remembered between writing and reading it. A header and an offset are read as
  written (`HeaderRead`, `OfsRead`), hence an entry (`EntryRead`); the entries
  lie one behind the other, each with the position a later delta names
  (`PackLayout`), so reading from the front finds them all (`EntriesRead`); and
  by induction over the entries each is resolved to its object, or to the chain
  of deltas that makes the object from a base outside (`Resolutions`,
  `ChainMore`, `PackRead`), with `DeltaRoundTrip` for each delta. That the sort
  is one (`SortedIs`) is what makes the order of the entries exist at all.

Induction. The library's induction theorems are about an operator, which the
provers cannot instantiate. `Induction` states them about sets and functions
(`MeasureInduction`, `NaturalInduction`), proves them from the well-foundedness
of the naturals, and shows that a recursive definition whose steps look at
elements of smaller measure only has a function that satisfies it
(`RecursiveFunction`); every recursive function of the codec is an instance.

Only model-checked: liveness (`Answered` of `GitStorage` and of `SmartHttp`,
`Ends` of `DeltaResolve`) and `ENABLED`, which are beyond the prover.

## 5. What is not modelled

- zlib, SHA-1, borsh, JSON and base64; storage cost; credentials, their cache
  and network selection. Trees and blobs are part of their commit, except in
  `Codec`, whose objects are of any type. git, libgit2 and NEAR are modelled
  from how the code uses them and marked external.
- Of the HTTP server: its startup, a fixed list of transactions on a fresh
  sandbox that must all succeed (what the last of them, `create_repo`, does is
  `Factory`), and its other routes. `near-info`, `near-credentials`, `near-rpc`
  and `parse-packfile` keep nothing and change nothing; `near-call` makes one
  call of the contract with the owner's key for whoever asks, without reading
  the contract first, and nothing in the repository sends it anything: the calls
  it can make are those of `GitStorage`.
- `wasm-lib`: every function turns JSON or base64 into arguments of `git-core`,
  or of near-primitives for signing, and back, without state;
  `borsh_encode_push_objects` and `borsh_decode_objects` are for methods the
  contract no longer has. What its `build_packfile` functions write is `Build`
  of `Codec`.
- The browser's git worker runs libgit2 commands of one page one at a time; the
  pages are forms; `serve.mjs` serves files and forwards requests.
- Bodies that are cut short: a framework that has the content length refuses
  them before the code is reached. `readPktLines` of the service worker differs
  from `read_until_flush` on those only, and so has no operator of its own.

## 6. Where code and claims differ

- `helper_nothing_new`: when the clone does not have the remote's current value,
  `git rev-list` fails, the helper takes that for "nothing new"
  (`main.rs` 348, 424-435) and pushes the ref without a pack.
- `http_delete`: the service worker answers "ok" to a deletion without calling
  the contract. A deletion among other updates, and any through the server,
  stores forty zeros as the ref's value. Both advertise `delete-refs`.
- `delta_later_base`: the server drops a delta whose base is in a later pack,
  which its comment (450-452) says it waits for.

Remarks that no run is kept for. A configure message between two awaits of a
push, or a `clear_storage` between its views, makes the service worker leave out
objects that the contract it ends up calling does not have: the CAS compares
refs only, and where the refs agree (two empty repositories, a fork) the push is
accepted and its ref dangles; `RefsClosed` holds of `Unmixed` pushes only. The
server answers a failed push with one line "ng unpack ..."
(`git-server/src/main.rs` 334, 338), of which the service worker says, where it
answers with "unpack" and a line per ref, that libgit2 takes it for a protocol
error (`near-git-sw.js` 471-474): a failure either way. `lastUsedNonces` is not
the highest nonce used, as its comment says (`near-git-sw.js` 151), once the
retry of a concurrent call has lowered it; the retries make up for it
(`RefusedOnlyIfOvertaken`). And a second `self_delete` sent before the first is
executed may delete a repository somebody else has created under the name in
between, in favour of the former owner: `DeletedForItsOwner` holds for
repositories created `fresh` only.

## 7. Plan

Done in this order: the contract and its proof, the helper, the delta passes,
the transactions, the smart HTTP requests, the factory and its proof, the codec;
then several contracts, configure messages and stops in `SmartHttp`, dying
helpers, failing git commands and moving branches in `RemoteHelper`, and the
proofs of both and of the server's passes; then deposits, pack order, the
codec and its packs by induction. Left, in this order:

1. `SmartHttp` over `FunctionCall` instead of the summary of it, as far as TLC
   reaches: `ExecutedAtMostOnce` and `AnswersAreTrue` are what it would use.
2. Liveness of a single call in `FunctionCall`: its retries are bounded, but
   without symmetry the run has seven million states.
