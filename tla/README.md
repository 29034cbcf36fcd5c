# Verification of the Teaclave TrustZone SDK

TLA+ models of the SDK, TLC runs on small instances of them, and TLAPS proofs
for instances of any size. `PROJECT.json` ties every definition to the source
lines it models, every property to a mutation of the code that breaks it, and
every known hazard to the properties or theorems that cover it.

1. [The system](#the-system) – parts, state, what makes them hard
2. [The modules](#the-modules) – how state and actions correspond to the code
3. [The runs](#the-runs) – what TLC checks, bounds, fairness
4. [Where code and comments differ](#where-code-and-comments-differ)
5. [The proofs](#the-proofs) – theorems, hypotheses, inductive invariants
6. [Not modelled](#not-modelled)

## The system

A Client Application (CA, normal world) opens sessions to Trusted Applications
(TAs, secure world) and invokes commands with up to four parameters. The SDK is
the Rust library on both sides, the macros that generate the entry points of a
TA, libraries on top of them, the build tools and examples. libteec, the OP-TEE
core, trusted storage, the supplicant and cargo are outside the repository; they
appear in the models only through the way the code uses them, and are marked
external in `PROJECT.json`.

| Part | State | What makes it hard | Modules | Shown by |
|---|---|---|---|---|
| `optee-teec`: `Context`, `Session` | a raw context behind `Arc<Mutex<..>>`, raw sessions, values moved between threads | any drop order on any thread; an open that fails with the lock held | `TeecClient` | proofs, run `tee_system` |
| `optee-utee-macros`: entry points | a session context as a leaked `Box` whose pointer the core keeps | error paths that must not free or leak the Box; a panic kills every session of the instance | `TaSessions` | proofs, run `tee_system` |
| both together | two tables of open sessions | both sides must agree after every call, failed ones included | `TeeSystem` | proofs, run `tee_system` |
| parameters: `Operation`, `TeeParams`, `parameter/*`; TA-to-TA sessions | types, buffers, sizes, capacity | sizes overwritten by the callee, reuse over calls, `offset + len` | `Parameters` | proofs, run `parameters` |
| crypto operations: `crypto_op.rs` | operation handles in Boxes, the TEE's keys and data behind them | methods in any order; null values, failed allocations, short buffers, copies | `CryptoOps` | proofs, run `crypto_ops` |
| objects: `object/*` | transient and persistent handles, data position, enumerators | consumed or forgotten handles; a size that is stale when it is used | `ObjectHandles`, `TransientObjects`, `PersistentObjects` | proofs, runs `transient_objects`, `persistent_objects` |
| error codes | – | a code is converted to a kind and back in every TA of a chain | `ErrorCodes` | proofs |
| sockets: `net/*` | a handle, two timeouts | transfers cut and failed anywhere, lengths and durations beyond a u32 | `Sockets` | proofs |
| supplicant plugins: both `extension.rs` | one buffer for request and answer, a reported length | output operations that fail, a length from the normal world | `SuppPlugin` | proofs |
| `secure_db` | one object per entry, one with the key list, a copy of the list per client | two writes per call, failures and crashes in between, two clients | `SecureDb`, `KeyValueStore` | proofs, runs `secure_db*` |
| TA properties: `optee-utee-build`, `property.rs` | a configuration, a generated header | values cross a text, a loader and two calls | `TaProperties` | proofs, run `ta_properties` |
| TA build script: `linker.rs`, `builder.rs` | generated files, what cargo watches | a script that is not run again, or run for ever | `TaBuild` | proofs, run `ta_build` |
| `cargo-optee` | a configuration, a child process and its pipe, an ELF file, files in shared directories | priorities of four sources; a full pipe; overflowing addresses; concurrent and killed builds | `CargoConfig`, `CargoRun`, `ElfUuid`, `CargoTool`, `CargoPublish` | proofs, runs `cargo_tool`, `cargo_publish` |
| eth_wallet | wallets in a `secure_db` | overlapping instances with stale key lists | `EthWallet` | proofs |
| example secure_storage | objects | create and write are two calls | `SecureStorage` | proofs |
| example client_pool | sessions in a pool | a session that died since it was checked | `ClientPool` | proofs |
| examples aes, authentication | a cipher and a key object, or an AE operation, per session | a command that stops half-way; output held back over calls | `AesSession`, `AeSession` | proofs |
| example mnist | a data set, a model file, three processes, two TAs | processes killed anywhere, a file rewritten in place | `Mnist` | proofs, run `mnist` |

## The modules

A definition keeps the name of the function it models where it can. Definitions
whose comment begins with "Mutant" are the mutations listed in `PROJECT.json`;
no specification uses them. An `MC` module gives the constants of a module their
values where a `.cfg` cannot. The lines `PROJECT.json` gives for a method begin
at the Errors and Panics sections of its documentation where these state its
guards, and at its code otherwise.

### Sessions: `TeecClient`, `TaSessions`, `TeeSystem`

`TeecClient` (context.rs, session.rs): `strong[c]` is the set of holders of the
`Arc` of context `c`: the `Context` value, each `Session` (field `_ctx`), and a
thread inside `Session::new` (its local clone). `DropArc` removes a holder and
goes to `Finalize` when it was the last. `OpenBegin`, `Lock`,
`OpenSucceeds`/`OpenFails`, `Release` are the steps of `Session::new`;
`InvokeBegin`/`InvokeReturns` bracket TEEC_InvokeCommand, which runs without the
lock; `CloseBegin`/`CloseReturns`, then `DropCtx`, are the drop of a `Session`,
in field order. `Move` hands a value to another thread; what Rust's borrow rules
exclude is excluded by `owner`.

`TaSessions` (the macros and the panic handler): one action for each outcome of
a generated entry point: `OpenFails`, `OpenSucceeds` (`Box::into_raw`),
`InvokeRefused`, `InvokeBorrow` and `InvokeReturns` (`Box::from_raw` …
`mem::forget` on both results), `CloseReturns`, `Panic`. `heap[i]` is the set of
live boxes of instance `i`, `sess_ctx[s]` the pointer the core passes back;
`expected[s]` is history: what the session's own commands left in its context.
The core is external: one call at a time into an instance, instances shared or
not according to `ta_flags`, a panicked instance answered with TARGET_DEAD.

`TeeSystem` joins the two by `call`: a thread makes a request (`Request`), the
core dispatches it (`Dispatch`), the entry point runs (`Execute`), and the
thread gets the code that the TA side produced (`Response`).

### `Parameters`

One call after another with the same four parameters. The caller is a CA
(`Operation`: sizes are sent as the last call left them) or a TA (`TeeParams`:
whole buffers are sent, results are checked by `update_from_raw` slot by slot,
and a session whose parameters fail the check is closed). The callee uses the
typed wrappers, which check kinds and remember the capacity, or the deprecated
ones, which check kinds only when a value is used and forget the capacity. A
buffer is its length and how far it was read or written.
`usize` is bounded by `MaxUsize`, so that an addition that overflows is within
the run.

### `CryptoOps`, `TransientObjects`, `PersistentObjects`

`CryptoOps` has the values of a TA (`slot`), the heap cells of their Boxes, the
operation the TEE holds for each, and `told`: the key and the data the TA was
told were accepted. Every method of `Digest`, `Cipher`, `Mac`, `AE`,
`Asymmetric` and `DeriveKey` is an action; called in a state its documentation
forbids, it ends the TA. Dropping a null value is undefined in the code and a
choice in the model. The buffer that `info_multiple` offers is always too short.

`TransientObjects` has object values and an enumerator, with every method of
`TransientObject`, `GenericObject` and `ObjectEnumHandle`; a key is a model
value, an object knows its size limit, usage and attributes. `ObjectHandles` holds
the constants that the two modules of objects share.

`PersistentObjects` has several instances on one storage. A method is one call
to the TEE, but `read_remaining_to_vec` is two (`ReadRemainingInfo`,
`ReadRemainingRead`), and other instances act in between. `Corrupt` reports a
corrupt object; `KeepsHandle` says whether the TEE leaves its handle open.

### `KeyValueStore` and `SecureDb`

`SecureDb` has trusted storage (`objects`, `listObject`), the clients
(`opened`, `key_list`: the copy each `SecureStorageDb` holds), the call each is
executing, and two history variables. A call that writes twice is two actions:
`PutSave` then `PutList`, `DeleteObject` then `DeleteList`, `ClearStart` then
`ClearObject`/`ClearList` for every key. Each write may fail, which makes the
call return its error with whatever it had changed, and `Crash` may come at any
point. `permitted[k]` records what a read of `k` may answer: an acknowledged
call leaves one answer, a failed or interrupted one adds its own.
`KeyValueStore` is the promise in those terms: what a fresh client finds is
always a permitted answer, and only a call on a key changes it.

### `cargo-optee`

`CargoTool` is one invocation. It extends `CargoConfig`: the project a command
line names, the package of the workspace whose metadata apply, the configuration
from flags, metadata, environment and defaults, and the cargo command that is
run, with its features, linker and environment (for clippy, after cargo fmt). A
package of a workspace is matched by its manifest; where the root of the
workspace is itself a package, cargo_metadata names it first, and a member gets
the table of the root (config.rs:334). `CargoTool` has
`CargoRun` as an instance, the pipe between cargo and the tool, the reader that
drains it and the choice of the artifact; and it has `ElfUuid` as an instance,
from the symbol to the file offset of the UUID in bounded unsigned arithmetic.
State that no later step reads is forgotten when a part ends. `GivesUp` is every
failure between the parts; `InspectUuid` is the command that enters at the last
one. `CargoPublish` is what follows, for builds that share a target directory:
strip, sign, rename into place, change of mode, install, clean, with failing
commands, killed builds and edits of the source.

### `TaBuild` and `TaProperties` (optee-utee-build, property.rs)

`TaBuild` is the build script in its steps, under repeated invocations of cargo
that run it or take its last run for current; the kit, the compiler, the
environment, the template and build.rs change between and during runs, and a
script may be cut off. `TaProperties` is every short sequence of `TaConfig`
calls, the table of properties, the head and the heap generated from it, and the
calls by which a TA reads a key of `property.rs`, of its own set, of its client's
or of the TEE's, or one it added itself. A text is a sequence of characters among
which NUL matters; a block is encoded and decoded; a UUID is its four fields.

### What crosses the border of a TA: `ErrorCodes`, `Sockets`, `SuppPlugin`

`ErrorCodes` has every conversion of a code, along a chain of TAs of any length.

`Sockets` is one socket, opened and dropped repeatedly. A turn of `write_all` or
`read_exact`, of the crate or of std::io, is one call of the TEE (`Transfer`),
which is offered what is left as a u32, moves any part of it, and may fail after
it moved some. `moved` is history: the place in the buffer of each byte that
crossed. Codes become kinds as in `from_raw_error`, with the protocol error of
the instance that the adapter asks.

`SuppPlugin` is a TA that puts a request together and calls a plugin, which
writes into the same buffer by any sequence of the operations of
`PluginParameters` and may drop their errors. A byte is who wrote it: the
request, the padding or the plugin. `Checked` tells builds that panic where a sum
overflows from those that wrap around; the panic ends the supplicant.
`ForeignReturns` is a plugin that is not written with the crate and reports any
length.

### Examples

`EthWallet`, `SecureStorage`, `ClientPool`, `AesSession` and `AeSession` model
every command of their example for any number of instances or tasks, with the
failures each call may report. The clients of the two ciphers follow the main of
the example or send the commands in any order; in `AeSession` a byte is encrypted
under a key and a nonce at a position, whole blocks go out before the final call,
and a tag stands for the parameters and the text. `Mnist` has the client's train, infer and
serve commands as processes that share files, each with its TA. A model is the
number of times it was trained on each pair of image and label, so that a wrong
label, a repeated batch or a test image shows.

## The runs

| Run | Instance | Distinct states |
|---|---|---|
| `tee_system` | 2 threads, 1 context, 2 sessions, 2 instances, 2 addresses, any flags; fair | 645,036 |
| `parameters` | buffers of 0 to 2 bytes, a `usize` of 2 bits | 2,177,602 |
| `crypto_ops` | 2 values, 2 Boxes, an algorithm of each class, 2 keys, 2 chunks, 2 per operation; symmetric | 483,921 |
| `transient_objects` | 2 values, 3 handles, 2 keys, sizes to 2, an enumerator; symmetric | 77,385 |
| `persistent_objects` | 2 instances, 2 ids, 2 handles, positions to 2; symmetric | 261,135 |
| `secure_db` | 2 tables, 1 id, 2 values, 1 client at a time | 19,198 |
| `secure_db_shared` | the same with 2 clients; `AckedPutVisible` is violated | – |
| `cargo_tool` | every flag, workspace and table of `MCCargoTool`, 3 messages, a pipe of 1, 2 segments, addresses to 7; fair | 466,247 |
| `cargo_publish` | 2 builds, 2 edits | 173,974 |
| `ta_build` | 2 kits, 2 compilers, 2 targets, 3 changes; fair | 719,792 |
| `ta_properties` | 2 calls, words of 8 values, texts with NUL, 2 UUIDs, every type and set | 1,470,087 |
| `mnist` | 3 training images, 1 test image, 4 trainings, 4 calls, 10 requests | 542,422 |

**`tee_system`.** `ContextOwned`: the pointer kept for a usable session is a
live Box, of no other session. `NoContextLeak`: every live Box belongs to a
usable session. `DeadForGood`: a session the TEE has declared dead gets no other
answer. `ContextOutlivesSessions`: libteec is never handed a finalized context,
or a session of one. `WorldsAgree`: once no call on a session is in progress, it
is open in the client exactly when it is open in the TEE. `FinalizedClean`,
`NothingLeft`: the values dropped in the normal world free everything in the
secure world. `EventuallyFinalized`: a context that has been dropped, and whose
sessions have been or are being dropped, is finalized. Two sessions are enough
for one to be freed and its address reused by the other, and for one to be
executing while the other opens or closes; the theorems say the same for any
number. *Fairness*: a thread inside the library goes on
(`Finish`, `Response`), entry points end (`Execute`), both weak. A call that
waits for a busy instance is not passed over for ever (`Dispatch`, strong): that
is assumed of the queue in the OP-TEE core, since with weak fairness the other
session's calls may always come first. Nothing obliges the program to begin a
call or to drop a value.

**`parameters`.** `AccessInBounds`: no read or write of a callee with typed
wrappers, at any offset and after any reported size, leaves the buffer, and the
sizes that come back are within it, to a calling TA from any callee. `WholeBufferOffered`: reuse of `TeeParams` and a size reported early
in a call take nothing away from the buffer. `UpdateNeverFails`: a callee with
typed wrappers never trips the caller's check. `SessionNotLost`: an open session
has a value that will close it, also where `build` fails after opening. Lengths
0, 1 and 2 allow a size below, at and above the buffer and a second write after
the first; 3 is the largest `usize`, so offset and length overflow.

**`crypto_ops`.** `OneOwner` and `LeaksAreFailures`: operations and Boxes have
one owner, and a Box is leaked exactly when an allocation failed.
`HoldsWhatWasTold`: an operation holds exactly the key and data the TA was told
were accepted, over short buffers, failed comparisons, copies, resets and changes
of the key object. Two values are what `copy` needs. One algorithm of a class is
enough, because the code does not look at algorithms.

**`transient_objects`, `persistent_objects`.** `ObjectOwned`, `HandleOwned`: one
owner, closed once, nothing left open but what a failed `close_and_delete` left.
`FilledOnce`: key material is replaced only after reset. `LimitedNotExtracted`:
nothing protected is read after `restrict_usage`. `HandleHasObject`: no other
instance deletes or renames an object that is open. `ReadRemainingExact`: the
vector is exactly the bytes the position moved over, although the object may be
truncated or extended between the two calls. `KeepsHandle` is TRUE, as for a TA
built with TA_FLAG_DONT_CLOSE_HANDLE_ON_CORRUPT_OBJECT; see below for the other.

**`secure_db`.** `AckedDurable`: what a client opened now and the open client
would find for a key is the effect of the last acknowledged call on it or of a
later unacknowledged one. `ReadsPermitted`: so is every answer given by get or
list, and a listing that succeeds leaves no entry out. `DanglingIsCut`: a listed
key without an object, on which `list_entries` fails as a whole, comes only from
a delete that stopped between its two writes. `ImplementsKeyValueStore`: the
refinement. Two keys suffice: keys meet only in the key list. One client stands
for any number in sequence, because it can be dropped and opened again. Neither
table name is a prefix of the other.

**`cargo_tool`.** `DirForArch`, `EnvironmentLast`, `ToolchainMatches`: the
directory is the one of the architecture that is built, the environment comes
last, and custom variables do not replace the toolchain. `ResultIsTheProduct`:
the path handed on is the only product of the package, and a failed build is
reported. `ReadsWhatIsLoaded`: the bytes read are those the loader finds at the
symbol. `Ends`: no invocation hangs in its build. *Fairness*: cargo runs on, and
so does the tool up to the end of the build; a pipe of one message blocks cargo
at every second one. The address space is small enough for every sum to overflow.

**`cargo_publish`.** `PublishedWhole`: what is at the published name is a
complete product of one version of the source. `UnreadableOnlyMidway`: a TA that
the supplicant cannot read is there only between rename and chmod, or because a
build stopped there. `OwnProduct`: a build that ran by itself published what it
built. Two builds are the conflict; two edits tell three versions apart.

**`ta_build`.** `FreshIsCurrent`: what cargo takes for current is what a run
would leave now. `Settles`: when nothing changes any more, cargo stops running
the script. *Fairness*: the developer goes on building, and a script that runs
goes on.

**`ta_properties`.** `StandardAsConfigured`: what a TA reads is what was
configured and what its loader goes by (flags, stack, heap), and an additional
property of the same name does not get in its way. `ExtReadsBack`: an additional
property reads back in its own type as it was added, and in another, other than
as a text, it is refused. Two calls are a property and one that collides with it.

**`mnist`.** `ExportSawAll`: an exported model saw the training set, with its own
labels, once per epoch, and no test image. `AnswersWhole`: classes come from a
completely exported model and are those of the image that was sent. Three images
in batches of two make the last batch shorter.

Deadlock is checked in `secure_db`, `secure_db_shared` and `parameters`, where
something can always be called. Elsewhere a behaviour may end: every value is
dropped, the TA has panicked, or the tool has ended.

## Where code and comments differ

`secure_db_shared` is a run of its own. Two sessions of a multi-instance TA open
the database; each writes back the key list it read when it was opened, so the
second acknowledged put removes the first one's key from the stored list,
although that put returned `Ok`.

The others were met while modelling. Each is visible at one line; the models
follow the code.

- `secure_db/client.rs:94`: `list_entries` matches by the bare table name,
  without the `#` that ends it in a storage key, so a type named `Wallet` also
  lists what is stored under `WalletBackup`.
- `crypto_op.rs:250`: the drop of a value made by `null()` turns a null pointer
  into a Box, outside the check "free before check it's not null" (line 241).
- `crypto_op.rs:199`: `info_multiple` hands the TEE a size of 0, so every buffer
  is short; line 448 promises that only of one "not large enough".
- `persistent_object.rs:375`: after `CorruptObject` the value still holds a
  handle that the TEE has closed, unless the TA has
  TA_FLAG_DONT_CLOSE_HANDLE_ON_CORRUPT_OBJECT, and its drop closes it again.
- `ta_builder.rs:331`: variables of `--env` are set after RUSTFLAGS, so a custom
  RUSTFLAGS, which `cli.rs:175` recommends, loses the `panic=abort` that line 321
  says is added to it.
- `net/socket.rs:96`: a timeout of exactly u32::MAX milliseconds is accepted and
  means no timeout; line 66 reserves that for `None`.
- `net/optee.rs:120`: what is left is cut to a u32, so with a multiple of 2^32
  bytes left the TEE is offered none, and `write_all` and `read_exact` end with
  an error: a buffer of 2^32 bytes or more never gets `Ok`, unlike "the std
  version" (`net/optee_no_std.rs:51`) on other sockets.
- `optee-teec/extension.rs:120`: `pos + data.len()` is unchecked, so a position
  near usize::MAX panics where line 116 promises `ShortBuffer`.
- `mnist-rs commands/infer.rs:79`: every image is printed with the class of the
  first.
- `mnist-rs commands/train.rs:109`: a file is skipped when it is as long as the
  compressed download, but what is stored is not compressed: complete files are
  downloaded again.

## The proofs

Every theorem holds for any sets given to the constants, finite or not but for
the training set of `Mnist`. Where a model has a run, the conditions on its
constants are `ASSUME`s, which TLC evaluates; the models that have none carry
them as a hypothesis of each theorem (`SizeAssumption`, `WalletsAssumption`,
`NoneAssumption`, `CAAssumption`, `HandlesAssumption`, `SocketsAssumption`,
`UsizeAssumption`, and `ConstantsAssumption` of `TeecClient`, which `TeeSystem`
assumes of its instance). They ask only that bounds are natural numbers, that a
buffer is no longer than a `usize` can say, that special values (`Null`, `None`,
`Absent`) are not members of the sets they complement, that holders of an Arc
can be told apart, that parameters have kinds and algorithms classes, that there
is a table, an id, a value 0 and a target, that a chain of TAs has at least one
TA, that a command line was parsed, that the sizes of a TA are words, its
properties have one of the seven types and a UUID four fields, that addresses of
an ELF file are bounded, and that the training set is finite and not empty.
`DataAssumption` of `Mnist` also says that its cardinality is a natural number,
as that of every finite set is.

| Module | Theorems |
|---|---|
| `LibraryProofs` | secure_db: `TypeCorrect`, with one client at a time `Durable`, `OnlyCutDangles`, `ReadsAlwaysPermitted`, `Refinement`; crypto operations: `AlwaysOneOwner`, `AlwaysLeaksAreFailures`, `AlwaysHoldsWhatWasTold` |
| `TeecClientProofs` | `TypeCorrect`, `ContextValid`, `NothingLostOrTwice`, `NoneLost` |
| `TeeSystemProofs` | a TA: `TypeCorrect`, `ContextSafe`, `NothingLeaked`, `ContextsKept`, `DeadStaysDead`; clients and a TA: `SystemContextSafe`, `SystemContextValid`, `AlwaysAgree`, `AlwaysFinalizedClean`, `AlwaysNothingLeft`, `SystemDeadStaysDead` |
| `InterfaceProofs` | parameters: `AlwaysInBounds`, `AlwaysWholeBuffer`, `UpdateAlwaysSucceeds`, `SessionNeverLost`; errors: `CodeAlwaysCrosses`, `KindAlwaysCrosses`, `DeadAlwaysMeansMine`; sockets: `AlwaysInOrder`, `OkAlwaysMeansAll`, `HandlesAlwaysOwned`, `AlwaysWaitsAsAsked`, `ErrorAlwaysOwn`; plugins: `LengthAlwaysInBuffer`, `AnswerAlwaysLastOutput`, `AnswerAlwaysWhole` |
| `ObjectProofs` | transient: `AlwaysObjectOwned`, `AlwaysFilledOnce`, `NeverExtracted`; persistent: `AlwaysHandleOwned`, `AlwaysHandleHasObject`, `AlwaysReadExact` |
| `BuildProofs` | build script: `FreshAlwaysCurrent`; publishing: `AlwaysWhole`, `UnreadableIsMidway`, `AlwaysOwnProduct`; mnist: `ExportsAlwaysSawAll`, `AnswersAlwaysWhole` |
| `CargoProofs` | cargo-optee: `AlwaysDirForArch`, `AlwaysEnvironmentLast`, `AlwaysToolchainMatches`, `AlwaysTheProduct`, `AlwaysReadsWhatIsLoaded`; TA properties: `AlwaysAsConfigured`, `AlwaysReadsBack` |
| `ApplicationProofs` | aes: `AlwaysStreamAsTold`, `HandlesKept`, `MainIsSafe`; authentication: `AlwaysAuthentic`, `MainAlwaysServed`, `MainAlwaysDecodes`; client_pool: `AlwaysHandedOutAlive`, `NeverWasted`; eth_wallet: `AlwaysSignedByOwn`, `RemovedStaysGone`; secure_storage: `ReadsLastWrite`, `SizeAlwaysStable`, `EmptyAlwaysTorn` |

**`LibraryProofs`.** *secure_db*: `AckedDurable` alone is not inductive: whether
a write of the list is harmless depends on what the client's copy may contain.
`IInv` says, for a key named by the stored list or by the copy
(`ListedPermitted`), by neither (`UnlistedOptional`), or only by storage
(`StoredOnly`), what its object may be; what holds between the two writes of a
call (`BetweenWrites`); that clear still visits exactly the keys of the copy
(`ClearLeft`); where listed keys without an object come from (`Dangling`); and
that one client is open (`OneOpen`), which is where `Shared = FALSE` enters. The
refinement maps `dict` to what a fresh client finds. `ReadsPermitted` speaks of
answers given in the past; `AnswersHeld` adds that whoever holds one is the open
client, so no write has come since. It needs that no table name is a prefix of
another, without which a listing is wrong (see above). *Crypto operations*: the
pointer of a value is a live Box of no other value (`BoxOwned`), an operation of
the TEE has its handle in the Box of some value (`OpOwned`), what it holds is
what its value was told (`AllTold`), and the Boxes of no value are as many as
the allocations that failed (`LeaksCounted`). The methods reduce to a few kinds
of step (a value dropped, replaced or copied, an operation fed, ended or reset),
each shown to keep the invariant once.

**`TeeSystemProofs`.** *A TA*: the properties speak of pointers the core keeps;
an entry point works on a pointer it borrowed. `Running` ties the two. `Placed`
ties a session to an instance that exists and, while it is being opened, to the
entry point that opens it. `Unused` (a fresh instance has an empty heap) is
needed when one starts, `DeadKnown` (told dead means panicked or closed) for the
action property. *Clients and a TA*: a step of the system is a step of
`TaSessions`, of `TeecClient` or of both (`TaStep`, `ClientStep`), so both
invariants carry over. What ties the worlds is new: a call is in progress
exactly while a thread waits for it and running exactly while an instance
executes it (`CallsMatch`); each waiting thread knows what state its session can
be in (`Expects`), which is where the codes of the entry points meet the
branches of `Session::new`; between calls neither world has a session half open
(`Settled`); and a live instance that is not kept alive has a session
(`Occupied`).

**`TeecClientProofs`.** The argument is that of a reference count: `Holders`
(whoever may use the context holds its Arc) and `HeldLive` (a held context is
live; one being finalized has no holder). They need `Using` and `Apart`: what
each thread inside the library knows about its session, and that no two threads
are inside on the same one. `Owned` ties `Session` values to open raw sessions.

**`InterfaceProofs`.** *Parameters*: what a caller keeps, what is in the array
of the call and what was offered are all within the buffer (`KeptInBounds`,
`RawInBounds`, `OfferedInBounds`). A reported size overwrites the size in the
array, so the bounds checks are right only because the capacity a wrapper took
at entry is still what was offered (`EnteredAsOffered`, `CapAsOffered`).
*Errors*: at every level the error made there stands for what the levels below
should have answered (`StandsFor`), and the code on its way has the origin of
the level it left (`Underway`); `RoundTrip` says that `raw_code` undoes
`from_raw_error` in both crates, `Unknown` kinds included. *Sockets*: a running
call has moved exactly the places before its position, in order (`CallRuns`,
`Front`), and what the TEE is offered is no more than what is left, also after
the cut to a u32; no kind of error is one on which the loops of std call again
(`NeverInterrupted`). *Plugins*: the invocation has the buffer of the TA, its
length is the end of the last output operation that succeeded, and the bytes of
that operation are still the plugin's (`PluginFits`); while a request is put
together there is no answer (`CommandFits`), so the record of the last output is
the one of the answer.

**`ApplicationProofs`.** *secure_storage*: the access flags make a writer
exclusive (`Exclusive`), so an instance knows the object it has open (`Local`);
an object nobody writes holds what the last successful command left, or is empty
and torn (`Settled`). *eth_wallet*: a wallet being created is known to no other
host (`Fresh`), so the object of an id is its own entropy or nothing (`Stored`),
and what a command has loaded stays its own although the key list is stale
(`Loaded`). A key that another instance brings back into the list points to no
object. *client_pool*: `ErrTells`: the error of the last command tells a dead
connection from a live one, which holds because a task has its connection alone
(`Alone`) and, from `ErrorCodes`, because TARGET_DEAD with an origin other than
the TA means the TA itself. *aes*: what the cipher holds is what the client was
told, unless it holds nothing (`Told`), after commands that stopped anywhere;
the two handles differ (`Apart`); and the calls of main leave a session that
takes the next one (`OnTrack`). *authentication*: an operation that takes data
has the parameters of the last prepare that succeeded (`AsPrepared`), since one
that failed leaves the old operation or one without a key, which takes none;
before each call of main the operation and the buffers are what the earlier
calls make of the two chunks (`At1` to `At7`), 3 bytes of the first held back
over the border.

**`ObjectProofs`.** *Transient*: a handle is open exactly while one value owns
it (`OpenHeld`, `HeldOpen`, `HeldAlone`), and a value that was restricted still
has its object without EXTRACTABLE (`LimitedHolds`). *Persistent*: the same for
the values of several instances, but for what a failed `close_and_delete` left
(`ValueAlone`, `OpenOwned`, `LeftOpen`); a handle that may delete or rename is
the only one of its object (`MetaAlone`), which is why no other handle loses its
object; and an instance inside `read_remaining_to_vec` has its position where it
was when it asked for the size (`ReadingKnows`). Ownership needs the TA flag
(`KeepsHandle`, see above); the other two theorems hold in either build. Both
specifications are abstracted to kinds of step (`Fills`, `Replaces`, `Works`,
`Closes`, ...), and every method is shown to be one of them.

**`BuildProofs`.** *Build script*: what a run that has ended left is what its
settings make of what cargo watches since, unless that was modified
(`RunsEnded`), and a run in progress is ahead of both by a known amount
(`InProgress`): a template changed during a run is among what was modified when
the run ends. *Publishing*: what each build owns at each step (`Owns`) and what
the builds share (`SharedWhole`); a name that is published is only ever given to
a complete file, by rename. `AlwaysOwnProduct` needs `Alone`: a build that has
not overlapped with another is the only one running, and its files are those of
its own version at every step (`OnTrack`). *mnist*: a model that infer or serve
holds, and a record that is whole, is one that an export finished with, although
the file is rewritten in place (`AnswerIInv`); a model has seen each pair once
for every epoch that ended and once more if the pair comes before the position
in the shuffled set of this epoch (`TrainIInv`, `ShownIn`).

**`CargoProofs`.** *cargo-optee*: the invariants of the stages are proved apart
and joined (`ToolIInv`). Once a configuration is resolved it is a function of
the command line, the table of the manifest and the environment (`FromInputs`),
and of a TA the child that is ready to run has the environment that function
gives (`ConfigIInv`). What the parent has read is a prefix of what cargo wrote,
what is in the pipe is the rest of it, and the artifacts are those the prefix
names (`ReadSoFar`); the parent is done only after cargo is, with the outcome of
the whole (`RunIInv`). The UUID is one read of the file at the end: the symbol
and the segment that are found are among those of the file (the first of a set
of places exists by well-foundedness), and no sum on the way to the offset wraps
(`CheckedSum`, `OffsetIsLoaded`). *TA properties*: the header is the one the
configuration generates, which does not change after it (`HeaderIs`). The
standard properties come first, at known places, so no additional property can
hide one, and a read of an additional one finds the first place of its name
(`PropIInv`).

**Only model-checked.** The liveness properties `EventuallyFinalized`, `Ends`
and `Settles` depend on fairness, which is out of the prover's reach, as is
anything about ENABLED or about recursive definitions over all inputs. **Only
proved**: `ErrorCodes`, `Sockets`, `SuppPlugin`, `SecureStorage`, `EthWallet`,
`ClientPool`, `AesSession` and `AeSession` have no run; whatever their theorems
do not state, such as that the tasks of a pool or the loops of a socket end, is
not shown.

## Not modelled

- Big integers: arithmetic of the TEE on storage whose size is computed from bit
  counts, with no state between calls.
- tls_server, hotp and the other examples that are a straight line of calls on
  the libraries modelled here.
- FFI declarations, the plugin build helper, the rustls adapters and one-call
  wrappers (time, random, identity, UUID).
- `optee-utee-build`: the spelling of linker arguments, the trace level and
  prefix. `property.rs`: what the client and the TEE have in their sets, and the
  appID of the TA, are external.
- libteec, the core, trusted storage, the supplicant and cargo are assumed to
  behave as the code expects: a failed call of theirs has no effect unless a
  model says otherwise, creating an object with OVERWRITE replaces the object or
  leaves it, a panicked instance is gone with its memory.
- Bytes: values are opaque and buffers are lengths unless a property is about
  them. Nothing is said about cryptographic results or serialization formats.
- Compile-time checks of the macros (signatures of the annotated functions).
