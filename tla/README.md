# Verification of the CAPL REST DLL

TLA+ models of RestifyCAPL (`src/`), TLC configurations that check them on small
instances, and TLAPS proofs of what matters most for every value of the
constants. The DLL gives CAPL scripts in CANoe HTTP requests, blocking and
asynchronous, and JSON documents to read the answers with.

- [The system](#the-system)
- [Modules and the code they model](#modules-and-the-code-they-model)
- [Runs, bounds and fairness](#runs-bounds-and-fairness)
- [Where code and documents disagree](#where-code-and-documents-disagree)
- [Proofs](#proofs)
- [What is not modelled](#what-is-not-modelled)
- [What is left](#what-is-left)

To check a run: `tlc -config engine_safety.cfg MCAsyncEngine` (the module of each
run is in the table below). To check the proofs: `tlapm JsonFlattenProofs.tla`, and
so on for each `*Proofs` module.

## The system

A CAPL script calls an export of the DLL on a CANoe thread. Several scripts share
one copy of the DLL and so one engine, one client and one document store.

```
 CAPL scripts ── exports.cpp (shims) ──┬── sync-text-api ── sync-operations ──┐
                                       ├── async-text-api ── async-operations ┤── http-client ── libcurl
                                       └── json-text-api ── document store ── flatten / path / accessors
```

| component | state | operations | what is hard | what makes it correct |
|---|---|---|---|---|
| Asynchronous engine, `http/async-operations.cpp` | 8 slots, id counter, worker and idle counts, module references, wake generation, two condition variables, one mutex | Dispatch, Poll, Await, Read, Discard, DiscardAll; the worker loop; thread start and exit | threads that start, sleep and leave while scripts dispatch and cancel; transfers outside the lock; notifies; an id counter that wraps; failing starts and allocations | a slot in use belongs to one worker; an answer is that of its id; every pending slot has a worker on its way; nobody waits for ever; capacity and module references come back |
| HTTP transport, `http/http-client.cpp` | per call: body, cap flag, libcurl's options; one process-wide initialisation | Perform, its write and progress callbacks | libcurl calls back in any order, any chunking; the cancel flag is set by another thread; 32-bit `size_t` and `long` | the cap is exact, success is whole, each status is somebody's doing, every call ends |
| Synchronous calls, `http/sync-text-api.cpp`, `sync-operations.cpp` | the script's three out-variables | six exports | order of checks and of writes; partial failure | what a script concludes from a status is true of its variables |
| Asynchronous text API, `http/async-text-api.cpp` | none of its own | the engine's calls over CAPL buffers | a transfer that runs while its slot is cancelled, freed and refilled; a read that is repeated | a script reads its own transfer's answer, and the same one each time |
| JSON document store, `mapping/json-document-store.cpp`, `json-text-api.cpp` | 8 slots, id counter, one mutex; a script keeps ids and counts | parse, count, read (four kinds), discard, discard all | ids kept after a discard; scripts that discard each other's documents; two buffers filled by one call | an id never comes to name another document; replies are whole |
| JSON flattening, `mapping/json-flatten.cpp` | a SAX pass with a fixed frame array, a byte count per container; a traversal with one shared path | FlattenJson | byte counts kept without the paths they count; limits met exactly; empty containers; repeated keys | the count is that of the list; limits are exact; the list is the document's leaves, in order |
| JSON paths, `core/json-path.cpp` | the tokens left to follow | ParsePath, ResolvePath, ParseIndex | an escape codec written in one file and read in another; indexes beyond 32 bits | every key of an entry leads back to it, no other spelling leads anywhere |
| Apostrophe strings, `mapping/json-quotes.cpp` | a scanner state | NormalizeJsonText | backslashes before quotes, quotes within strings, the end of the text | the strings keep their meaning, valid JSON is left alone |
| Accessors and conversions, `mapping/json-accessors.cpp`, `core/type-conversion.cpp` | none | number, boolean, text of a value | numeric boundaries, three ways to store a number | no value is silently another |
| Text buffers, `core/buffer-copy.cpp`, `core/input-text.cpp` | none | CopyToBuffer, BoundedText | a NUL exactly at the end | never a torn or unterminated text |
| Export table, `module/exports.cpp` | the engine, client and store (static) | shims, table of exports | host unloads the DLL while workers run | module references |
| CAPL library, `capl/` | script variables | wrappers that print | | |

Components interact by plain calls, except for three pieces of shared state: the
engine's table (scripts and workers, under `mutex_`), the slot that a worker reads
without the lock while it performs (`cancelFlag` is the only part another thread
writes meanwhile), and the document store (scripts, under its own mutex).
`PROJECT.json` lists each hazard at the line where it bites with the properties
that cover it.

## Modules and the code they model

`PROJECT.json`, "map", names the lines every definition stands for. Operators
whose name begins with `Bug`, or whose comment says *fault* or *mutant*, are
deliberate errors; each breaks the property it was written for and none is part of
the specification.

### AsyncEngine

`AsyncEngine.tla` models `AsyncOperations`. An action is one critical section of
`mutex_`; a worker's section runs from the relock after `HttpClient::Perform`
through the next turn of the loop, up to the unlock or the wait that ends it.

| code | model |
|---|---|
| `Dispatch` | `Dispatch`; `DispatchStartFails` (no module reference, or no thread), `DispatchCopyThrows` and `DispatchContextThrows` (std::bad_alloc at its two allocations) |
| `MintIdLocked` | `Mint`, the first value from the counter on that is neither 0 nor in use, modulo `IdModulus` |
| `Read`, `Discard`, `DiscardAll` | actions of the same names |
| `Await` | `AwaitBegin`, `AwaitWake` after a notify, `AwaitTimeout` |
| `Poll` | `Poll(id)`, a state function: it changes nothing |
| `WorkerLoop` | `WorkerBegin`, `PerformReturn`, `Finish`, `IdleClaim`, `IdleExit`, `ExitThread`; `Claim` and `GoIdle` are the two ends of a turn |
| `wakeGeneration_` | `woken`: why it has moved since the worker went idle; `"work"` for a dispatch, `"shrink"` for DiscardAll |

A spurious wake-up that finds nothing changes nothing and is a stutter; one that
finds work is `IdleClaim`, which needs no notify. `Perform` is its outcome:
`RequestCancelled` only if the slot's flag is set; `CurlTransport` opens it up.

`AsyncContract.tla` is what the exports promise, in terms of ids alone: unknown,
outstanding, complete, or cancelled and still holding its share of the capacity.
`AsyncRefinement.tla` maps the table to it.

### CurlTransport

`CurlTransport.tla` models `CurlTransport::Perform`. A body is its size, because
the write callback only appends. The environment is libcurl and the server: they
deliver chunks of any size, stall, fail, or finish. `WouldExceedResponseCap`
computes modulo `SizeModulus` as `size_t` does; `TimerFor` follows a timeout from
the option through the default, the clamp and the cast to `long` into libcurl,
where a negative value is refused and 0 means none.

`TransferEnds` ends a transfer with success or with one of `OtherErrors`, which stand
for the classes `MapCurlCode` tells apart. The cancel flag may be set before the
transfer starts, as it is when a request is discarded between the claim and the
worker's `Perform`.

### RequestTexts and SyncTextApi

`RequestTexts.tla` holds what the blocking and the asynchronous exports share: texts
as the classes that the checks tell apart, the checks of each export in the code's
order (`Checks`, `AsyncChecks`; the first failure answers), and `CopyToBuffer`.

`SyncTextApi.tla` EXTENDS it and the transport: a call checks its texts, runs a
transfer and reports. `FinishResponse` writes both out-parameters, copies the body
and answers.

### AsyncTextApi

`AsyncTextApi.tla` composes the engine and the transport into the asynchronous
exports. It EXTENDS the engine and instantiates the transport with the worker
threads as the ones that transfer and, as a worker's cancel flag, the flag of the
slot it is on. Every step is one of the engine joined with what it does to the
request and the answer in a slot (`DispatchAsync`, `ReadAsync`, `DiscardAsync`,
`FinishAsync`), or one of the transport while the engine stands still (`PerformBegins`,
`Transfers`, `PerformEnds`). In the engine alone a worker's transfer is one
step with any outcome; here it is as long as libcurl makes it, and Discard,
DiscardAll and failed dispatches fall between any two of its chunks.

A dispatch takes any options that a call passing `AsyncChecks` can ask for. A
dispatch that fails its checks, a Poll and a Read that finds no answer change no shared
state: what they answer is `ReadReply` and `Poll`. A Read that finds one is
`ReadAsync`, whether or not the buffer has room; the history variable `told` keeps
what it told the script (`Short`), and under which ids there is an answer to come
(`Unread`) or none (`Gone`). The code leaves the contents of a
Consumed slot in place until it is refilled; nobody reads them, and the model drops
them with the id.

`UsesTransport` and `ImplementsEngine` say that the composition is a behaviour of
each of its two parts, so that what is shown of a part alone holds of it here.

### JsonDocumentStore

`JsonDocumentStore.tla` models the store behind `json-text-api.cpp`. Each call takes
the mutex once and is one action. A document is its number of entries and the
position of the id counter when it was stored, so that two documents are never
equal by accident. Scripts are part of the model: a script keeps the id its last
parse gave it and the count it was told, and goes on using both after a discard,
its own or another script's. A path is here the class of what `JsonPath` would make
of it (`PathStatus`). Statuses that differ in wording only are merged: a read
of a value it cannot convert answers `TypeMismatch`, whatever the reason, and a text
without a NUL `InvalidArgument`. `JsonStoreContract.tla` is a bounded set of documents
under ids; `JsonStoreRefinement.tla` maps the table to it.

### JsonFlatten

`JsonFlatten.tla` models `FlattenJson`. The text is the sequence of events the JSON
parser reports, so every text is some behaviour, malformed ones included.
`LimitCheckingSax` keeps per container a byte count only; the model also builds the
document the second parse would build, with the paths, and relates the two.
`FlattenDocument`, `Pop` and `Step` are the traversal with its shared path. A token
is its length and the number of bytes that escaping adds; spelling is left out.

### JsonPath

`JsonPath.tla` models a read at a path, from the script's text to its variable, on a
document that stays stored: `ParsePath`, the walk of `ResolvePath` one token at a
time, and the conversions of `ReadLong`, `ReadDouble`, `ReadBool`, `ReadValue` and
`CountElements`. Paths are sequences of characters, because the escapes are about
characters; a path is typed, or is the key of an entry as `FlattenDocument` writes
it (`PathOf`). A null or unterminated path is `Refuse`. Keys and paths are over one
`Alphabet`, of which a script types some `Characters`; documents are no deeper than
`MaxDepth` and arrays no longer than `IndexModulus`, which are what `kMaxJsonDepth` and
`kMaxFlatEntries` of `FlattenJson` ensure for every stored document.

Numbers are points of a grid, `Scale` to 1. Some of them are doubles (`Doubles`, of
which a few facts are assumed in `DoublesAssumption`: the whole numbers around a long
are doubles, and of two neighbours one is even), any of them can be a literal, and the
32-bit and 64-bit widths are constants. `Stored` is the parser's choice among
unsigned, signed and double; as a double it is the nearest one, and of two as near the
even one (`Rounded`), so that a fraction finer than the doubles around it is lost
before `ToLong` looks at the number. The copy of a text value into the
script's buffer is `JsonDocumentStore`'s.

### JsonQuotes

`JsonQuotes.tla` models `ConvertApostropheStrings`, one turn of the loop per action,
and `NormalizeJsonText` around it. Two history variables hold what a reader of JSON
has read: one reads the input, where a string may stand between apostrophes; the
other reads the output, where it may not. Both are one definition (`Read`) with a
different set of delimiters, and it is stated character by character with a memory
of one backslash, where the scanner jumps over pairs. Whether the parser then accepts
the text is left open (`Deliver`).

## Runs, bounds and fairness

All run on two TLC workers in less than three minutes each.

| run | module | instance | shows |
|---|---|---|---|
| `engine_safety` | `MCAsyncEngine` | 2 slots, 3 threads, 2 scripts, ids modulo 4, starts may fail | ownership, counters, ids, answers, waiters; the engine implements `AsyncContract` |
| `engine_liveness` | `MCAsyncEngine` | 2 slots, 2 threads, 2 scripts, ids modulo 3, `FairSpec` | every request ends, waiters are released, capacity and references come back |
| `async_text` | `MCAsyncTextApi` | 2 slots, 2 threads, 1 script, ids modulo 3, starts and allocations may fail, bodies up to 2 | a script reads its own transfer, and the answer it was told of when there was no room; the composition keeps the contracts of both parts |
| `engine_exit` | `MCAsyncEngine` | 2 slots, 2 threads, 1 script | violated, see below |
| `engine_oom_pending` | `MCAsyncEngine` | the same, allocations may fail | violated, see below |
| `transport_safety` | `MCCurlTransport` | worker and script, `size_t` of 2 bits, `CancelFairSpec` | exact cap, whole success, cancellations on request, the cancel hook ends a transfer |
| `sync_safety` | `MCSyncTextApi` | one script, five buffer sizes, `SyncFairSpec` | write order, what Ok and BufferTooSmall mean, no torn buffer, the call returns |
| `sync_failure` | `MCSyncTextApi` | the same | violated, see below |
| `store_safety` | `MCJsonStoreRefinement` | 2 slots, 2 scripts, ids modulo 3, 5 counter steps | stale handles, counts, replies, the store implements `JsonStoreContract` |
| `flatten_limits` | `MCJsonFlatten` | depth 3, 3 entries, 12 key bytes, radix 2 | limits exact, count and list agree, order |
| `json_path` | `MCJsonPath` | two documents, every typed path of up to 5 characters, every entry's key, 5 exports | a key leads to its entry and nothing else does; numbers are the nearest there is, or refused for what is true of them |
| `json_quotes` | `MCJsonQuotes` | every text of up to 7 characters over 4 | meaning kept, plain JSON untouched, buffer whole or empty |

**Bounds.**

- `N`/`SlotCount` = 2 where the code has 8. Two slots are what it takes for one
  request to be reused, starved or confused with another; the proofs hold for any
  number.
- `Workers` is one larger than `N` in the safety runs, so that a thread on its way
  out and a full pool exist together. The code bounds only the workers that are in
  the pool.
- `IdModulus` = 3 or 4 where the code has 2^32: the counter wraps within one
  behaviour, skips 0 and ids in use. It must exceed the number of slots, as 2^32
  does, or minting would not end.
- `LeakBound` = 1: module references lost to bad_alloc in one behaviour. The code
  has no bound; one is enough to see the effect.
- In `async_text` the caps are 1 and 2, chunks are of one byte and the server sends
  at most 2, so that a transfer ends below, at and above its cap. Other network
  errors are left to `transport_safety`: a failure, a timeout and a cancellation
  are enough to tell the answers of two requests apart. There is one script, since
  two scripts differ in what they wait for only, which `engine_safety` checks. `BufferSizes` 2 and 3: a buffer that a body of one byte just
  fits in and one of two does not, and one for both; every other boundary of the copy
  is `sync_safety`'s.
- `StepBound` = 5: increments of the store's id counter, more than a full turn of
  `IdModulus` = 3. `HandleNamesOwnDocument` and its companions are promised only
  until the counter has gone round; the run passes that point, so the condition
  in the property is met and left.
- In the transport's own runs `SizeModulus` = 4, caps 2 and 3, `MaxChunk` 2 or 3, `PageBound` = 5: sums of a
  body and a chunk pass the width of `size_t`, and a server sends more than either
  cap. `LongMax` = 3 with a timeout of 5 is a `uint32_t` that a 32-bit `long`
  cannot hold.
- `OtherErrors` has one libcurl code for each status `MapCurlCode` answers that no
  callback and no timer leads to.
- `BufferSizes` 0 to 4: no room, room for the NUL only, one too small, exact, one
  to spare for every body size that occurs.
- `MaxDepth` = `MaxEntries` = 3 and `MaxKeyBytes` = 12 make every limit reachable,
  together and alone; `Radix` = 2 makes the third element of an array the first
  whose index has two digits, as the eleventh has in the code. The three key names
  are a plain one, one that escaping lengthens, and one with a NUL.

- `MaxPath` = 5 spells an escape in an escape, two tokens, and an index with leading
  zeros; the documents have keys with both escaped characters, an empty key, keys
  that look like indexes, an array of more than ten elements and numbers on both
  sides of every width. `IndexModulus` = 100 stands for 2^32, so that an index of
  three digits passes it; `LongMax` = 3, `Int64Max` = 31, `UInt64Max` = 63
  keep the order of the code's widths. The doubles have four bits, more than the two
  of `LongMax` and fewer than the six of `UInt64Max`, as the code's 53 are between 31 and
  64. `Scale` = 32 puts literals between all of them: doubles, points midway between two,
  and points next to 0, 1 and the bounds of a long that round to those.
- `MaxLength` = 7 with `MaxInputBytes` = 6: every text of six characters is scanned
  (two strings, or one with two escapes), one of seven is too large. `BufferSizes`
  0, 5 and 13 are no buffer, one that some conversions fit in, and one that holds
  the longest, in which every character but the first doubles.

Deadlock is checked in every run except `flatten_limits`, `json_path` and
`json_quotes`, where a call that has returned stops.

**Fairness.** `FairSpec` of the engine assumes that worker threads run
(`WF_vars(Worker(w))`) and that a notified waiter gets the mutex. A worker's step
includes the end of its transfer, which the total timeout guarantees, as
`SyncCallReturns` checks, and the passing of its idle deadline. Nothing is assumed
of scripts: they may never call again. `AwaitTimeout` has no fairness, so that
`AwaitReturns` cannot be owed to the caller's own timeout. `CancelFairSpec` assumes
the progress callback only, which libcurl makes about once a second even when the
server is silent; `SyncFairSpec` assumes libcurl's timer and the calling thread.
The server owes nothing in either. `AsyncSpec` states no fairness: its properties
are safety, and liveness is checked of its parts.

Weak fairness is enough: what it is assumed of a thread stays enabled until that
thread takes a step. The one exception is a notified waiter, which its own timeout
may release first, and that is what `AwaitReturns` asks for.

## Where code and documents disagree

Three runs refute what a document of the repository says.

- `engine_exit`: a worker leaves the pool on the wake-up of an ordinary Dispatch,
  although the design has it stay for its idle timeout unless DiscardAll raises the
  exit flag. Any move of `wakeGeneration_` is taken for the flag. Capacity is not
  lost (`PendingHasWorker` holds); threads are started more often than planned.
- `engine_oom_pending`: std::bad_alloc while a worker's start context is allocated
  leaves a slot Pending and a module reference taken, with no worker for either.
  The design says a pending slot always has a worker able to claim it.
- `sync_failure`: a transfer that fails after part of the body has arrived reports
  the length of that part, where the documentation of the synchronous surface
  promises 0.

One more is in `json_path` without a run of its own, because there the property that
holds is the weaker one. The documentation of the JSON surface
(`docs/capl-json-surface.md:350`) has `-17` for a number with a fractional part. The
fraction that `ToLong` looks for is that of the parser's double, so
`2147483647.0000000001`, `0.99999999999999999999` and `1e-400` are read as 2147483647, 1
and 0 with Ok. `NumbersAreNearest` says what is true instead: a long that is read is
the whole number nearest to the literal among all doubles, and `NotIntegral` is answered
for a fraction only, though not for every one.

## Proofs

Proved with TLAPS for every value of the constants that meets the modules' named
assumptions: slots at least one, `IdModulus` above the number of slots, finite sets
of threads, sizes within the width of `size_t`, number widths in the code's order,
distinct special characters, documents within the limits of `FlattenJson`. Two theorems
assume besides that memory does not run out.

**Engine** (`AsyncEngineProofs`). `TableInv` is the inductive
invariant: types, `SlotOwnership`, `LiveIdsDistinct`, `AnswerIsOwn`,
`AwaitNotLost`, and `CancelFlagIsAbandoned`. The last is the strengthening.
`AnswerIsOwn` alone is not inductive: a worker about to store `RequestCancelled`
in a slot that is Running would break it, and only the exact meaning of the flag
rules such a worker out. Ownership carries the rest: a worker outside the lock is
alone on a slot that still has the id it claimed. These hold whether or not
threads fail to start or memory runs out.

`EngineImplementsContract` proves, under the same conditions, that the table
implements `AsyncContract`. With `LiveIdsDistinct` an id stands as its one slot does;
`OneSlotChanges` and `NoSlotChanges` turn what a step does to slots into what it does
to ids. A worker's `Finish`, which ends one request and claims another, is a single
step of the contract because a claim changes nothing for the holder of the id. The
capacity is counted: occupied ids map one to one into the slots that are not
reusable. TLC checks the contract without bad_alloc; the proof covers it.

`MintTerminates` is about the loop of `MintIdLocked`, which runs under the lock: while
a slot is reusable there are fewer ids in use than nonzero ids, so counting from
anywhere meets a free one. The action `Mint` assumes as much by being enabled.

Three theorems count the pool. `ModuleStaysLoaded` needs no assumption about memory:
there is a module reference for every thread that runs, also one on its way out, so
the host cannot unload the code a worker is in; std::bad_alloc can only leave
references too many. `PoolAccounted` (the counters are exact) and `PendingServed`
(`PendingHasWorker`) assume `AllocMayFail = FALSE`, without which
`engine_oom_pending` refutes them. The argument is a count: when Dispatch starts no
thread, either the pending slots are no more than the idle workers, all of which it
wakes, or the pool is at its cap `N`; then busy workers hold distinct slots
(`SlotOwnership`) and the rest of the pool is at least as many as the other slots.

**Transport** (`TransportProofs`). The invariant says of each transfer what its
body, flag, code and offered bytes know of each other: until a callback stops it
the body is everything offered, afterwards flag and code tell why it stopped. The
lemma `CapCheck` shows that the check does not wrap at any width.

**Asynchronous text API** (`AsyncTextProofs`). `WorkersUseTransport` shows that the
exports, with their dispatches and cancellations at any moment, drive libcurl as the
transport's specification allows, and `TextImplementsEngine` that they use the table
as the engine's does; so every theorem about either holds of the exports
(`PoolTransfersSafe`, `TextImplementsContract`). The inductive invariant `AsyncInv`
joins those of both parts with what ties them: a worker is in a transfer exactly
while it is outside the lock, with the request of the slot it holds; its cancel flag
is the one of that slot; and a Complete slot has the answer that the transfer of its
own request ended with. The last part, `ToldIsTrue`, is about
what scripts know: an id of which nothing is known names no slot, and an answer that a
script was told of is in the Complete slot of that id, as it was told. A worker never
takes a slot from an id, a Read without room takes nothing, and a call that gives the
slot of an id up leaves no other under it, since ids are distinct. From the invariant
follow `OwnTransferIsRead` (`ReadReportsOwnTransfer`) and `ReadAgainGetsIt`
(`ReadAgain`), whether or not memory runs out or threads fail to start.

**Synchronous calls** (`SyncProofs`). `SyncUsesTransport` shows that the exports
drive the transport as its specification allows, so the transport's invariant holds
inside every call; `CallInv` then relates the out-variables to it.

**Store** (`JsonStoreProofs`). `HandleNamesOwnDocument` is far from inductive. The
strengthening `CounterPosition` fixes, for every stored document and every id a
script has kept, its distance from the counter modulo `IdModulus`; two equal ids
then have the same distance, so that within one turn of the counter they are the
same document. The module proves the arithmetic of `%` it rests on.
`StoreImplementsContract` proves the refinement: initial states map to initial
states and each call to a step of the contract or a stutter.

**Flattening** (`JsonFlattenProofs`). Five theorems, for texts of every length and
documents of every shape. `FlattenInv` has a part for each half of the code and one
for the parser between them:

- `IInv`: `depth` is the parser's own nesting, so the fixed array is never indexed past
  either end and `MaxKeyBytes - keyTotal` never wraps (`ScanStaysInBounds`).
- `TextInv` is about the parser. The document is a tree: every path but the root's
  leads through a member of the one before. The open containers are the way down to
  the innermost one. Every leaf of the document has been reported, and until a key is
  repeated the reported leaves are those of the document, in its order.
- `FramesAgree`: each frame has the byte length of its container's path, the next
  index is the number of elements so far (`FramesAreExact`).
- `Counted`: entries and key text are those of the leaves reported so far, and a
  refusal names the limit that the last one passed (`RefusedAtTheLimit`).
- `WalkInv` is about the traversal. The frames are the prefixes of the shared path;
  of the document's leaves, those in members that some frame is done with are exactly
  the entries, and come before all others (`ListIsTheLeaves`).

The theorem `CountedBeforeBuilt` needs two facts about lists more. Two lists of the
same leaves, both in document order, are equal, so without repeated keys the list
is what was counted. With repeated keys it is a part of what was counted, and a part of
a list has no more entries and no more key text: leaves are taken off one at a time.
The proofs by induction along a list take a least counterexample; what a recursive
sum gives is proved the same way (`Total`).

**Apostrophe strings** (`JsonQuotesProofs`). The scanner keeps the meaning of every
text of every length. The invariant ties the scanner's state to both readers: they
stand in the same kind of string, with the same items, and no backslash is pending
between two turns except the last character's. That a turn takes two characters
where the readers take one at a time is the lemma about pairs. `PlainTextUnchanged` and
`NormalizedOnlyOnOk` follow from the same invariant.

**Numbers** (`JsonPathProofs`). `NumbersReachScripts` is `NumbersAreNearest` for all
widths that are ordered as the code's are, every grid and every set of doubles as
`DoublesAssumption` has it. The invariant says that a walk stays among the document's
values, and that what the call returned is the conversion of the node it stopped at.
The rest is about rounding: every number has a nearest double and a tie is decided
(`NearestExists`, `TieIsDecided`), rounding keeps the order with respect to doubles
(`RoundedStays`), and a whole number rounds to a whole number (`RoundedWhole`). So a
double that is a fraction comes from a literal that is one, a double outside the long's
range from a literal outside it, and of an integer literal that is a long nothing is
lost.

**Paths** (`JsonPathProofs`). `KeysLeadToEntries` is `ResolvesExactly` for every set of
documents within those bounds and every alphabet: a key leads back to its entry and to
no other, and a path that is no node's key leads nowhere. It is the composition of
inverses, each shown by adding one character or one token:

- `EscapedWrites` and `DecodedIsRewritten`: `DecodeToken` reads what
  `AppendEscapedToken` writes, and a token it accepts is what the escapes of its
  reading are; so neither has a second spelling.
- `JoinedIsSplit` and `SplitIsJoined`: the same of the slashes between tokens.
- `DecimalTextIsRead` and `ReadIsDecimalText`: the same of `to_string` and `ParseIndex`,
  which refuses leading zeros and the empty token.
- `NodesAreTold`: two nodes of a document have different tokens, although a key and an
  index may be spelled alike, because one node has either keys or indexes.

The invariant `WalkInv` says that the walk is at a node whose tokens are those it has
taken off, with the others ahead. `OneTurn` then has two halves: a token that `Follow`
accepts leads to the one child it is written for, and if it accepts none, no node of
the document has tokens that go on like this, for such a node would have an ancestor at
that child (`NodesHaveAncestors`).

**Only model-checked**: all liveness (`RequestSettles`, `AwaitReturns`,
`AbandonedFreed`, `PoolDrains`, `CancelEnds`, `SyncCallReturns`), since fairness and
ENABLED are beyond the prover. Every safety invariant and every action property that a
passing run checks is also a theorem.

## What is not modelled

- **ToText, ParseLong and ParseDouble** (`type-conversion.cpp`) have no caller but
  the tests.
- **The export table and the version string** (`exports.cpp`, `version.rc`) are data
  and a query of the Windows module. The shims forward their arguments.
- **Response headers** are collected and given to nobody. Request headers, methods
  and TLS options go to libcurl unexamined.
- **libcurl, the JSON parser and Windows** are the environment: the transport calls
  back in any order, the parser reports any sequence of events.
- **The host's load and unload** of the DLL: the engine counts its references, and
  what the host does with its own is outside the repository.
- **The CAPL library, build scripts, tests and examples** hold no state of the DLL;
  scripts appear as callers.

`ExecuteRequestSync` copies the request outside any try block, so std::bad_alloc
there would leave an export as an exception. No model shows it: it is the absence
of a handler.

## What is left

1. Liveness for every value of the constants, which stays with TLC.
2. The copy of a text value found at a path is checked in `JsonDocumentStore` by the
   class of the path, not by the path itself; one model of both would join
   `KeysLeadToEntries` to the store's theorems.
