# Verification of zipologger

TLA+ models of zipologger's asynchronous logger and of the elliptic-curve library in
its tree, model-checked with TLC, and theorems about every modelled component of the logger and
about the library's arithmetic in limbs and words, proved with TLAPS. Paths and line numbers refer to the repository's `src/`.

## 1. The system

zipologger is a Go library. A program calls `NewLogger(filename, ...)` and prints
to the `*Logger` it gets. Printing only puts a message on a package-wide channel;
one goroutine, started by `init()`, takes the messages off the channel, encrypts
them when a key is set, and writes each to its logger's file through a rotating
writer. `Wait`, `Flush`, `Close` and `Fatalf` wait until a logger's messages have
been dealt with, by means of a `sync.WaitGroup` in each logger.

| Component | State | Operations | Source |
|---|---|---|---|
| Write path | channel `tologCh`, per logger `logTasks` (WaitGroup), `waitStarted`, `log`, `zlog`; `dropAlert` | `print` and its callers, the consumer, `Wait`, `Flush`, `Close`, `Fatalf` | `logger.go` 73-117, 208-243, 320-374, 388-408, 472-504 |
| Cache of loggers | LRU `initializedLoggers`, `newLoggerMutex`, `wMutex` | `NewLogger`, `GetLoggerBySuffix`, package `Wait`, eviction callback | `logger.go` 60-71, 149-195, 506-508 |
| Encryption | `l.encryptionKey`, `mainGlobalEncryptor` | `SetEncryptionKey`, `SetGlobalEncryption`, the consumer's choice of a key | `logger_enc.go`, `logger.go` 94-110 |
| Decrypter | none (a command) | reads a log file line by line | `decrypter/main.go` |
| Rate limit | `l.limitedPrint`, an expiring LRU | `LimitedPrintf` | `logger.go` 376-386 |
| Panic reports | `panicMutex`, the report files | `HandlePanic`, `HandlePanicLog`, `savePanicToFile` | `logger.go` 410-463, 493-504 |
| Caller prefix | `startCallerDepth`, `maxCallerDepth` | `formatCaller` and the setters | `logger.go` 245-318 |
| Settings | `logSourcePath`, `logDateTime`, `alsoToStdout` | `WriteSourcePath`, `WriteDateTime`, `SetAlsoToStdout`, `GetFileName`, `Writer` | `logger.go` 124-147, 197-206 |
| Keys and ECIES | none | `enc`, vendored go-ethereum code | `enc/`, `internal/` |
| libsecp256k1: limbs and words | none; a number with its magnitude and flag | field elements in 10 limbs of 26 bits or 5 of 52, scalars in 8 words of 32 bits or 4 of 64 | `internal/crypto/secp256k1/libsecp256k1/src/field_*`, `scalar_*` |
| libsecp256k1: curve | the context's tables and blinding | group law, the three multiplications, keys, ECDSA, recovery, encodings, `ext.h` | the same directory, `group*`, `ecmult*`, `eckey*`, `ecdsa*`, `secp256k1.c`, `modules/recovery`; `internal/crypto/secp256k1/ext.h` |
| Gost adapter, examples | none | call the above | `gost_compability.go`, `example/` |

How they interact:

* Application goroutines and the consumer share `tologCh` and, for each logger, the
  WaitGroup: `print` calls `Add(1)` before its send, the consumer `Done()` after the
  write. When the channel is full `print` drops its message and calls `Done` itself.
* `l.Wait` sets `waitStarted` under `l.m`, waits on the WaitGroup with no lock held,
  and resets the flag under `l.m`. While the flag is set every `print` of that logger
  returns without printing, and every other `Wait` of it returns at once.
* `NewLogger` calls the LRU library, which calls the eviction callback, which calls
  `Flush`: a flush runs while `newLoggerMutex` is held.
* The package `Wait` visits the cached loggers one by one under `wMutex`.
* `SetEncryptionKey` writes a field under `l.m` that the consumer reads under `l.em`.
* A panic in the consumer is recovered by `defer HandlePanic()`: the goroutine is over.
* `HandlePanicLog` holds `panicMutex` while it saves a report, `HandlePanic` does not; both
  create the same file of the hour.
* `LimitedPrintf` looks up, compares and stores in a cache shared by all callers, then
  prints by way of `print`.
* libsecp256k1 is layered: limbs under field elements and scalars, these under the group,
  the group under the multiplications, these under the public functions. A layer counts
  on the preconditions of the one below (magnitudes, normalized operands, digits inside
  their tables), which only a VERIFY build tests.

How far the library is used: it is vendored with go-ethereum's wrapper
(`internal/crypto/secp256k1/secp256.go`), which compiles it through cgo with the
endomorphism, the builtin inverses, no assembly and no big numbers, with five limbs and
four words where the compiler has `__int128` and ten and eight elsewhere. The one Go file
that imports the wrapper is disabled by its name (`signature_cgo.go_`), so the logger as
built today does not call it: it encrypts through the pure Go code of `ecies`. It is the
bulk of the repository's implementation, and the code in it that most needs a model.

What is hard here: `print` tests `waitStarted` two steps before it calls `Add`, so it
can race with the release of a waiter; the one consumer is a single point of failure;
messages can be muted, dropped, skipped (no directory) or lost (failed write), and each
of these ways must keep the count; the cache is read without the mutex, snapshotted and
changed by evictions in between; `Close` resets half of the state the consumer tests.

What makes each component correct:

* Write path: the count equals what is pending; whoever was let through by
  `logTasks.Wait` finds what was pending written or given up; a waiter can always be
  woken; the mute flag has exactly one owner; a message is in one place; a file keeps
  the order of the channel; waiters return; messages are delivered.
* Cache: no logger that was given out is lost to `Wait`; an eviction flushes before it
  closes; `Wait` covers what was pending in the cache; calls return unless some print's `Add`
  came too late for its WaitGroup (then they may not: run `pipeline_hang`).
* Encryption: no message is written under an older key than the one its goroutine had
  set, and none in plain text after the global key was set; a file misses only messages that
  were skipped or whose write failed; the decrypter returns what the file has.
* Rate limit: one message for each id in a duration, up to overlapping calls and the
  cache's own limits; nobody is silenced without a recent message of the same id.
* Panic reports: the last one written is whole, reports mix only through `HandlePanic`,
  and none is lost (which the code does not achieve: run `panic_lost`).
* Caller prefix: terminates, and shows the frames between the two depths.
* Limbs and words: no legal sequence of calls breaks a VERIFY_CHECK or overflows an
  accumulator, and the number is the one the calls stand for; a normal form is unique.
* Curve: points are what the group law says whatever their coordinates; blinding cancels;
  the two halves of a key stay together; signatures are made, accepted and recovered
  exactly when the textbook says; encodings are read back and only valid ones accepted.

## 2. The modules

An arrow reads "is extended by".

    LogPipeline  <-- LogRefinement <-- MCLogPipeline                   (TLC)
                                   <-- LogPipelineProofs               (TLAPS)
    LogRefinement has INSTANCE AsyncLog WITH the refinement mapping
    LoggerCache  <-- CacheRefinement <-- MCLoggerCache                 (TLC)
                                     <-- LoggerCacheProofs             (TLAPS)
    CacheRefinement has INSTANCE LoggerDirectory WITH the refinement mapping
    EncryptedLog <-- MCEncryptedLog (TLC)    <-- EncryptedLogProofs    (TLAPS)
    LimitedPrint <-- MCLimitedPrint (TLC)    <-- LimitedPrintProofs    (TLAPS)
    PanicLog     <-- MCPanicLog (TLC)        <-- PanicLogProofs        (TLAPS)
    SequenceLemmas <-- LoggerCacheProofs, LimitedPrintProofs, EncryptedLogProofs (TLAPS)

    Limbs <-- Field10x26, Field5x52
    Limbs <-- WordAcc <-- Scalar4x64, Scalar8x32
    LimbMachine has INSTANCEs of these four             <-- MCLimbMachine  (TLC)
    Scalar4x64 <-- Scalar4x64Proofs    Field5x52 <-- Field5x52Proofs       (TLAPS)

    FieldElement <-- Group <-- ScalarValue <-- Ecmult <-- Ecdsa <-- Api
    Api, AdditionChains <-- CurveMachine               <-- MCCurveMachine (TLC)

A definition called "Mutant of X" is X with a bug someone might write; no specification
uses it. It documents which property would notice: replacing X by it violates the
property that `PROJECT.json` pairs with it.

### LogPipeline

Threads are the goroutines of the application and the consumer; `pc[t]` is a thread's
next step inside its call. A section under `l.m` or `l.em` never blocks inside, so it is
one step; everything outside of a lock is a step of its own.

| Code | Actions |
|---|---|
| `print`: the `waitStarted` test | `PrintCall`, with the muted return as one of its disjuncts |
| `print`: `logTasks.Add(1)` | `PrintAdd` |
| `print`: the `select` | `PrintSend`, `PrintDrop` (then `Done` by the printing goroutine) |
| consumer: `range tologCh`, `newLogger`, write | `Receive`, `OpenLog`, `OpenFails`, `WriteLog`, `WriteFails` |
| `logTasks.Done()` | `Done`, `Release`, `ReleasePanic`, `ReleaseReset` |
| `Wait`, `Flush` | `WaitCall`, `WaitTurnedAway`, `WaitBegin`, `WgWait`, `WgReturn`, `WgReusePanic`, `WaitEnd` |
| `Close` | the same with `op = "close"`, then `CloseLog` |
| `Fatalf` | `PrintCall` with `op = "fatal"`, the steps of `Flush`, then its panic |

`sync.WaitGroup` is Go's and not in the repository. It is modelled step by step, because
the code uses it against its contract: the `Done` that reaches zero while somebody is
parked releases the waiters in further steps, `Add` from zero in between panics, so
does the releasing `Done` if it notices, and the counter is reset if it does not; a
woken waiter looks again and panics if the WaitGroup is in use. The history variable
`misused[l]` records that such an `Add` happened. Properties that count on the
WaitGroup's contract are stated for `~misused`; the run `pipeline_hang` shows what happens
otherwise.

A goroutine that panicked (`"panicked"`, `"panickedInWait"`) makes no further step: the
application may recover it, but then goes on as another goroutine of the model. For the
consumer this is what `HandlePanic` does. `seen`, `fate`, `sent` and `misused` are history
variables; the code has no such state.

### AsyncLog and LogRefinement

`AsyncLog` says what an application may count on, with no channel, consumer, WaitGroup or
mutex in it: there is one queue and a file for each logger, a message is offered, then taken
or refused, then served (written or lost to a failed call), or is muted; one caller at a time
waits for a logger and is owed the messages it found unfinished. The escape clauses are
part of the promise and are stated exactly: messages are muted only while somebody waits,
refused only while the backlog is full, and a waiter may return early only if an offer
raced with a return (`void`).

`LogRefinement` maps `LogPipeline` to it. A message is "offered" from the `Add` on and done
once its fate is known, which is before the consumer's `Done`; the queue is what is left of
the channel, with the message in the consumer's hand in front; `void` is
`misused`. `ImplementsAsyncLog` says that every step of the code's model is a step of the
abstraction or leaves it unchanged. So the failed `newLogger` and the failed write are the
abstraction's lost `Serve`, a `Wait` that is turned away is no step at all, and the
WaitGroup's own steps are invisible.

### LoggerCache

The full control of `NewLogger` (`NewCall`, `NewLock`, `NewHit`, `NewMake`, `NewAdd`,
`NewEvict`, `EvictClose`) and of the package `Wait` (`AllCall`, `AllLock`, `AllKeys`,
`AllVisit`, `AllSkip`, `AllReturn`), over the write path as these see it. `OneCall` is
`l.Wait` called by the application; `WaitTurnedAway`, `WaitBegin`, `WgWait`, `WgReturn`,
`WaitEnd` and `WaitPanics` serve all three callers.

| Code | Actions |
|---|---|
| `print` (323, 335, 342, 347-353) | `PrintCall` (the test), `PrintAdd`, `PrintSend`, or `PrintDrop` and `PrintDone`; `PrintPanics` |
| consumer (77-115) | `Receive`, `Settle`: `newLogger`, the write and whatever fails in them end in `Done` |
| `defer HandlePanic()` (75) | `ConsumerEnds` |

Between the test and the `Add` anything may happen, so an `Add` may come while a `Wait`
that found messages pending has still to return. `misused` records the loggers it happened
to. The WaitGroup is coarser than in `LogPipeline`, where its own steps are: it is what
it counts (`Pending`), and after a misuse it is any outcome of those steps, that is, its
waiter is let through or panics (`WaitPanics`: the flag `waitStarted` stays up, the deferred
Unlocks run), the print panics with its message counted for ever, the consumer ends. A waiter that
waits for good afterwards is `WgReturn` never enabled.

No writers or files are in this module: `Settle` stands for every fate of a message, and
the `zlog.Close()` of the callback has no effect that a property here could see.

The LRU library is external. `cache` is a sequence of entries, least recently used
first; `Get` moves an entry to the end. Whether the library calls the callback under its
own lock is not visible in the repository: the constant `CacheLocked` says so, and the
proofs hold for both of its values.

### LoggerDirectory and CacheRefinement

`LoggerDirectory` is what a caller of `NewLogger` and of the package `Wait` may count on, with
no mutex, no second look, no snapshot of keys and no per-logger flag in it: a name has at
most one live logger and everybody who asks is given that one; a logger is displaced only
when the directory is full, is never live again, and whoever displaced it is answered when
what it left unfinished is finished; `Wait` covers, at one instant, everything unfinished in
the live loggers. The escape clauses are again part of the promise: a claim on a logger's
messages lapses only while another caller is in that logger's `Wait` (`Lapse`), and for `Wait`
when the logger is displaced (`Displace` takes over what was owed). A logger breaks (`Enter`)
only when a message that was admitted becomes one to wait for just after somebody, still in
the logger's `Wait`, could have found it finished; about a broken logger nothing is promised, and
the call that waits for it may come to nothing (`Abandon`).

`CacheRefinement` maps `LoggerCache` to it: `NewHit` and the second look are `Give`, `NewAdd`
is `Make`, `NewEvict` is `Displace` and the return after the callback `Opened`; `AllKeys` is
`CoverBegin` and the end of the loop over the keys `CoverEnd`; a call turned away by `waitStarted`
is `Lapse`; `PrintCall` is `PrintTo` and `PrintAdd` is `Enter`; what `logTasks.Wait` does is
`Pass`, and `WaitPanics` is `Abandon`. The locks, `NewMake`, `AllVisit`, `AllSkip`, the way of a
message over the channel and the end of the consumer are no steps at all. `CoverBegin` asks that
nobody else is covering: that is `wMutex`.

### EncryptedLog

`SetEncryptionKey` and the consumer do not hold a common lock, so the read of
`encryptionKey` is a data race. Several loggers may have one file (`NameOf`), as a logger
that was evicted and its successor have: the successor starts without the key of the first.
`keyLog[l]` holds the values written so far and a read
returns any of them not older than the last write that happened before it. The consumer
learns of a write through the channel: `knows[p]` is what goroutine `p` knows of, `after[m]`
what the printer of `m` knew, `aware` what the consumer has learned. `PickKey` then takes
the logger's own key if there is one, else the global key (read under its mutex);
`ConsumerWrite` and `WritePlain` are the two outcomes of `EncryptString`. A message need not
get that far: `OpenFails` is the failed `newLogger`, after which it is skipped and the next one
of the logger tries again, and `WriteFails` the failed write, whose error `Print` discards. Both are in the
history `lost`. A failed write leaves nothing: that it might leave a part of a line, which the
next one would then be appended to, is not modelled. A line is a record of message and key. `Decrypted` is what the decrypter's loop over the lines writes
out, as the set of their places, since it reads and writes in the order of the file: a line
that is not base64 is passed over, one that is but does not decrypt ends the program, and
one longer than the scanner's buffer ends the loop (`Ends`).

A message is of one of four kinds: plain text, text that happens to be base64, the empty
message, and one too long for the scanner.

What the model takes from `enc` and `internal/crypto/ecies` without modelling them: a line
decrypts under the key it was encrypted with and under no other, and the empty message
encrypts to no bytes and no error.

### LimitedPrint and PanicLog

`LimitedPrint` has the body of `LimitedPrintf` in the steps between which other calls may
run: `Get` (the LRU lookup, which drops an expired entry), `Compare`, `TakeTime` (the
`time.Now()` evaluated before `Add` takes the cache's lock), `Store`, `Printf`. Whether the
printed message gets through is `LogPipeline`'s business and left open here. `began`,
`tested`, `before`, `stored` and `forgotten` are history variables.

`PanicLog` has the two entries (`HandlePanic`, `HandlePanicLog`) and `savePanicToFile`:
`Mkdir`, `Create`, `Write`, each with its failure, and `Continue` to the next directory. A
file is a sequence of cells, so that a shorter report written over a longer one shows, and so
does a failed write that left some of its cells. The
clock is the hour, all the file's name depends on.

### The limbs of libsecp256k1

`Field10x26`, `Field5x52`, `Scalar4x64` and `Scalar8x32` are the four representations,
function by function under the C names; `Limbs` has the arithmetic they share and `WordAcc`
the macros that accumulate products in three words. TLC's integers have 32 bits, so the
widths are constants and are scaled down: the number of limbs, the order of the operations,
where carries are taken and dropped and the shape of the modulus are the code's; the widths
and the constants of the modulus are not. The long unrolled products are written by column,
with the schedule of accumulations and extractions of the code.

A field element carries, beside the limbs, what a VERIFY build keeps (magnitude, normalized
flag), and `ok`, which turns false when one of that build's `VERIFY_CHECK`s would fail. The
checks are modelled although the wrapper compiles with `NDEBUG` and without VERIFY: they are
the code's own statement of what it counts on.

`LimbMachine` drives them: one register, any sequence of calls whose preconditions (as
`field.h` and `scalar.h` state them) hold, and beside the register its value as residues
modulo the factors of the scaled modulus. Its actions are calls, so `map` gives them the
lines of the header that declares the function.

### The curve of libsecp256k1

Above the limbs, `FieldElement` and `ScalarValue` take an element as its value with
magnitude and flag; `LimbMachine` is the reason why they may. `Group` has the group law in
all its variants, a point at infinity keeping the stale coordinates the code leaves in it;
`Ecmult` the tables, both forms of wnaf and the three multiplications (USE_ENDOMORPHISM as
the wrapper sets it); `Ecdsa` keys, DER, signing, verifying, recovery; `Api` the public
functions with their `ARG_CHECK`s, and `ext.h`. `AdditionChains` follows the chains of
`fe_sqrt`, `fe_inv` and `scalar_inverse` on their exponents, for the real constants.

`CurveMachine` drives them in two parts: calls on one point, whose coordinates are left to
the next call, and calls on a pair of keys with the signatures made by it. Beside the state
run its logarithms, and the properties compare with the textbook's group law and ECDSA over
a curve small enough to tabulate.

## 3. The runs

`pass` runs. Distinct states are those of the bounds given.

| Run | Instance | Checks | Distinct states |
|---|---|---|---|
| `pipeline_safety` | 2 goroutines, 2 loggers, 3 messages, channel of 2, nothing fails | `TaskAccounting`, `FlushGuarantee`, `MuteHasOwner`, `NoLostWakeup`, `PipelineInv` (with `TypeOK`), `Custody`, `FifoFile`, `ImplementsAsyncLog` | 348,953 (up to symmetry) |
| `pipeline_liveness` | 2 goroutines, 1 logger, 2 messages that come again and again, channel of 1, directory and writes may fail | `WaitReturns`, `Delivered` | 318,932 |
| `cache_safety` | 2 goroutines, 3 files, up to 4 loggers, 1 message, cache of 2 without a lock around the callback | `NoOrphans`, `EvictionFlushes`, `WaitCoversCache`, `ImplementsDirectory` | 558,437 (up to symmetry) |
| `cache_liveness` | 2 goroutines, 2 files, 2 loggers, 2 messages, channel and cache of 1, the cache's lock held in the callback | `CallsReturn`, `ImplementsDirectory` | 327,382 |
| `encryption` | 2 goroutines, 2 loggers of one file, 2 keys, up to 2 calls of `SetEncryptionKey`, 2 messages of four kinds, directory, encryption and writes may fail | `KeyRespected`, `GlobalRespected`, `RoundTrip` | 2.5 million (up to symmetry) |
| `limited_print` | 3 overlapping calls, 2 ids, a cache of 1 that keeps entries for 2, durations 1 and 3, a clock up to 3 | `SilencedByRecent`, `NoEarlyRepeat` | 3.3 million (up to symmetry) |
| `panic_log` | 1 `HandlePanic`, 2 `HandlePanicLog`, 2 directories, 2 hours, reports of two lengths, every call may fail | `MixNeedsHandlePanic`, `LastReportWhole`, `SomeReportKept`, `HandlersReturn` | 26,870 |
| `limbs` | four representations at scaled widths, elements at every boundary, 3 calls | `VerifyChecksHold`, `ValueKept`, `Canonical`, `QuestionsExact`, `ShiftedProductRounds` | 13,411 |
| `curve` | y^2 = x^3 + 2 over the field of 163 elements, order 139; 3 calls in either part | `CurveChecksHold`, `GroupLaw`, `BlindingKept`, `KeysAgree`, `KeyParseExact`, `SignatureExact`, `VerifyExact`, `RecoverExact`, `SerializationExact`, `ChainsExact` | 27,958 |

Why these bounds are enough for the cases that matter:

* `pipeline_safety`: two goroutines are one that waits and one that passed the
  `waitStarted` test before and prints late. Three messages overfill a channel of two, so
  the drop path and its `Done` run against the consumer's, and give each of two files a
  message before and after one of the other. A third goroutine waiting on one logger is
  only in the proofs, which hold for any number. That directories and writes fail is left
  to `pipeline_liveness` and, for the invariants and the refinement, to the proofs.
* In `cache_safety` the cache is full with the second file, so `Wait` has two keys to visit
  and the third and fourth `NewLogger` evict under it; four loggers for three files let a
  file's logger be evicted and made again while the first is still in use. The properties
  speak of one message at a time, and one message cannot make an `Add` come too late.
* `cache_liveness` has the second message this takes: one is settled, the other's `Add` then
  comes before the waiter has returned. `CallsReturn` is about the behaviours where it does not,
  `ImplementsDirectory` about all. The cache of one is full with the first file, and a second
  goroutine is in `Wait`, in `NewLogger` or at the same logger while the callback flushes.
* `encryption`: two loggers of one file are the evicted one and its successor; a key can be
  changed while a message of the other goroutine is on its way.
* `limited_print`: two overlapping calls can record their times in either order, and the
  third comes after them. A cache of one id is evicted by the other id, a duration of 3
  outlives the entries' 2.
* `panic_log`: two reports of one hour overlap with and without the mutex, a third comes in
  the same hour or the next; the second directory is reached when the first fails.
* `limbs`: 8-bit limbs for 26 (top limb 5 for 22), 11 for 52 (10 for 48), words of 12 and 8
  bits for 64 and 32. Products take magnitude 3 where the code has 8, with accumulators of 26
  and 30 bits that such products nearly fill, as 64 and 128 bits are filled in the code.
  Registers start at zero, one, the modulus and its neighbours, all bits set and mixed
  patterns, so the conditional subtractions are reached, which random numbers practically never
  do. Three calls are a lazy operation, one that meets its result and
  one that reads it.
* `curve`: the field is larger than the order (163 and 139), as in the code, so that x of a
  point may exceed the order, which in secp256k1 is a chance of 2^-128. The curve has the
  endomorphism (BETA 104, LAMBDA 42), windows of 4 and 5 bits, and a table of 4 rows of 2
  bits. Second operands are 0, the generator, the point itself, its negative and its images
  under LAMBDA, in several z; factors are 0, 1, LAMBDA, half the order and -1; secrets and
  tweaks include 0, the order, one past it, and the tweak that cancels the key.
* `ChainsExact` depends on no call and is looked at in the initial states: the exponents of
  256 bits are compared modulo 20 primes whose product exceeds 2^258, which decides equality.
* The bounds are the sets' sizes, `ChanCap` (10000 in the code), `CacheCap` and `Cap` (1000),
  `Expire` (24 hours), `MaxSets`, `MaxTime`, `MaxHour`, `MaxSteps`, `MaxMag`, `MaxPoint`,
  `MaxKey`. `NewCall` is enabled only while there is a logger left to allocate. `Recycle` in
  `MCLogPipeline` lets the element of `Msgs` of a message that is done with stand for a new
  message, so that printing never ends in the liveness run; it is not a step of the program
  and takes part in no other run.

In the small group two events happen that in the real one nobody will ever see: x of a
nonce's point is a multiple of the order (`sig_sign` has VERIFY_CHECKs against it, and the
run's nonces avoid it), and adding a multiple of a point in a table meets the point itself.
The code handles the second, so the run includes it.

Deadlock is checked in `cache_safety` and `encryption`. It is not in `cache_liveness`, where an
`Add` that comes too late may leave everybody waiting for ever, nor in the runs of
`LogPipeline`, where every goroutine may come to its end in the panic of `Fatalf`
(`NoLostWakeup`, `WaitReturns` and `Delivered` say there that nobody is stuck), nor in those
where a bounded number of calls has been made and all have returned.

`violation` runs, each against a sentence of the repository:

| Run | Property | What happens | The sentence |
|---|---|---|---|
| `pipeline_hang` | `WaitNeverBlocks` | A `print` passes the test at line 323, a `Wait` begins, and the `print`'s late `Add` falls into the consumer's `Done`, which panics; `HandlePanic` ends the consumer and every later `Wait` of anybody blocks. | "Wait again should not block indefinitely" (`logger_improved_test.go`:112) |
| `pipeline_close` | `CloseReleases` | Print, `Close`, print, `Close`: `Close` sets `zlog` to nil but leaves `log`, so the consumer does not set `zlog` again, the file is reopened by the write, and the second `Close` closes nothing. | "Close explicitly closes the logger's file handle and releases resources." (`logger.go`:212) |
| `panic_lost` | `NeverLost` | Nothing fails; a second panic in the same hour creates the file anew, and the first report, which `savePanicToFile` had written and returned, is gone. | "so the panic log is never silently lost." (`logger.go`:438) |

Four more such statements stand at the end of their modules without a run: a `Flush` that
finds another `Wait` under way returns with its messages pending (`FlushWaitsForAll`), the
late `Add` can make `Wait` itself panic (`NoPanicInWait`), the package `Wait` returns with a
message pending of an evicted logger still in use (`WaitEnsuresAll`), and the decrypter stops
at the line of an empty message (`DecryptsFile`). Put as an INVARIANT or PROPERTY into the
`.cfg` of their module each gives a counterexample; but no listed run holds them.
`TypeOK` of `LoggerCache`, `EncryptedLog`, `LimitedPrint` and `PanicLog` is there for the
reader and is not among the runs' properties either.

### Fairness

* Go's scheduler runs every goroutine that can run: weak fairness of the consumer and of
  the steps of a call that is under way.
* A print that was called goes on (`PrintStep`), and so does the consumer.
* `LockStep` in `LoggerCache`, the steps that take a mutex or use the cache, has strong
  fairness: a `sync.Mutex` on which a goroutine has waited for a millisecond goes into
  starvation mode and is handed to the longest waiter.
* Nothing is assumed of the application: it need not make another call, and may call without
  end; in `pipeline_liveness` it also prints without end.
* In `PanicLog` a call that has begun goes on, and `panicMutex` is handed over (strong
  fairness of `HandlePanicLog`, for the reason above).
* `WaitReturns`, `Delivered` and `CallsReturn` are about behaviours without the race of
  `pipeline_hang` (`[]NoMisuse`). With it they are false, which is what that run shows.

## 4. The proofs

Each theorem holds for every value of the constants that the module's named assumption
admits: any number of goroutines, loggers, messages, names, keys, ids and files, any
capacity, any order of steps, any choice of faults. The assumptions:

| Module | Assumption | Why the code justifies it |
|---|---|---|
| `LogPipeline` | The consumer is no application goroutine, the channel's capacity is at least one, `None` is no logger or message | `init()` starts the consumer; the capacity is 10000 |
| `LoggerCache` | Finitely many goroutines and loggers, capacity at least one, `None` is none of the values | A program has finitely many of both; finiteness is needed to count the loggers that are left to allocate. The capacity is 1000 |
| `EncryptedLog` | Every logger has a file, kinds are the four named, `None` is no key, message or logger | `None` stands for nil |
| `LimitedPrint` | Capacity and lifetime positive, durations natural numbers | 1000 and 24 hours |
| `PanicLog` | The two entries are told apart, a report has at least one cell, there is a directory to try, `None` is no report or file | `savePanicToFile` writes what it is given and tries two directories |
| `Field5x52` (named in `LimbMachine`) | `Sizes`: a limb is the top limb and S bits; what is folded into a limb fits it; the columns of a product fold into the top limb and fit an accumulator | The code's W = 52, T = 48, C = 0x1000003D1, MaxMul = 8, 128 bits in an accumulator and magnitudes up to 2048 satisfy each conjunct |
| `Scalar4x64` (named in `LimbMachine`) | `Sizes`: a word has at least three bits; the order is odd, and its two low words' complements leave 2^(4W) minus the order so small that two folds and one subtraction reduce a product; `N_H` is half of the order, shifted right by a bit word for word | The code's W = 64, NC0 = 0x402DA1732FC9BEBF and NC1 = 0x4551231950B75FC4 have 3 * NC1 + 3 <= 2^64; its order is odd; its SECP256K1_N_H are the order's words, halved |

The provers know nothing of powers of two beyond what is stated, so `Sizes` says of them what
the arithmetic needs; TLC evaluates both at the run's widths (`FiveLimbsAssumption`,
`FourWordsAssumption`).

The bounds `MaxSets`, `MaxTime` and `MaxHour`, which end the runs, are constants too and may
be as large as one likes. Proved properties that a run checks as well:

| Module of proofs | Theorem | States |
|---|---|---|
| `LogPipelineProofs` | `TasksAreCounted` | `TaskAccounting` |
| | `FlushIsComplete` | `FlushGuarantee` |
| | `MuteIsOwned` | `MuteHasOwner` |
| | `WakeupsAreNotLost` | `NoLostWakeup` |
| | `PipelineInvariantHolds` | `PipelineInv` |
| | `MessagesAreInOnePlace` | `Custody` |
| | `FilesKeepChannelOrder` | `FifoFile` |
| | `Implements` | `ImplementsAsyncLog` |
| `LoggerCacheProofs` | `NoLoggerIsForgotten` | `NoOrphans` |
| | `EvictionsFlush` | `EvictionFlushes` |
| | `WaitCoversTheCache` | `WaitCoversCache` |
| | `CacheImplementsDirectory` | `ImplementsDirectory` |
| `EncryptedLogProofs` | `KeysAreRespected` | `KeyRespected` |
| | `GlobalKeyIsRespected` | `GlobalRespected` |
| | `FilesDecrypt` | `RoundTrip` |
| `LimitedPrintProofs` | `OnlyRecentCallsSilence` | `SilencedByRecent` |
| | `EarlyRepeatsAreExcused` | `NoEarlyRepeat` |
| `PanicLogProofs` | `MutexKeepsReportsApart` | `MixNeedsHandlePanic` |
| | `LastReportIsWhole` | `LastReportWhole` |
| | `AReportIsKept` | `SomeReportKept` |

Each component's proofs have also `InvariantHolds`, that its inductive invariant (`IInv`,
`LoggersInv`, `EncryptionInv`, `LimitInv`, `PanicInv`) holds in every reachable state;
`TypeCorrect` states `TypeOK` of `LogPipeline`, with the channel within its capacity, and
`DirectoryInvariantHolds` the invariant `DirectoryInv` of the second refinement. These invariants stand with the properties at the end of the modules
they are about; each has been an INVARIANT of its module's `.cfg` before it was proved, and
can be again. Hardly any of the properties is inductive by itself. What had to be added, and
why:

**Write path: the count and the waiters** (`IInv`).

* `TypeOK`, and `CallInv`: a goroutine inside `Wait` knows its logger.
* `HandInv`: what a thread has in hand, how far the WaitGroup is with it, and that no two
  threads hold the same message. Without it a `Done` could be for a message that was
  settled before, and the count would go wrong.
* `ChanInv`: what is in the channel is pending, once, and in nobody's hands. It gives
  `HandInv` for the consumer's `Receive`.
* `CountInv`: the set of pending messages is finite and, without misuse, as large as the
  counter. Finiteness matters because `Msgs` may be infinite.
* `ReleaseInv`: between the `Done` that reaches zero and the release, the counter is zero,
  somebody is parked and exactly one thread is to release them; and whenever somebody is
  parked at zero such a thread exists. `NoLostWakeup` follows from it and `CountInv`; so
  does `FlushGuarantee`, as the releasing thread finds nothing pending.
* `SeenInv`: what a waiter saw pending stays with its logger and is pending or settled.
* `MuteHasOwner` and `FlushGuarantee` themselves.

**Write path: order and custody** (`PipelineInv`, which is `IInv` with `OrderInv`).

* `HeldInv`: only a thread inside `print` or the consumer's loop holds a message, and a
  pending one is in the channel or held. With `ChanInv` and `HandInv` this is `Custody`.
* `SentInv`: the channel is the part of `sent` that the consumer has not taken, no message
  was sent twice, and the one in the consumer's hands is the last one taken.
* `FileInv`: what is in a file was handled before the message in hand; so an `Append` to the
  file keeps its order that of `sent`, which is `FifoFile`.
* `FateInv` and `OwedInv`: a fate is open until the step that settles it, and only somebody
  in `Wait` is owed anything. The refinement needs these two.

**Refinement of AsyncLog.** `Implements` shows that the initial states map to
initial states and that each action of `LogPipeline` maps to a step of `AsyncLog` or to none:

| LogPipeline | AsyncLog |
|---|---|
| `PrintCall`, muted | `Mute` |
| `PrintAdd` | `Offer`; with `void` set if the `Add` is from zero with somebody released |
| `PrintSend`, `PrintDrop` | `Take`, `Refuse` |
| `WriteLog`; `OpenFails`, `WriteFails` | `Serve` that writes; `Serve` that loses |
| `WaitBegin`; `WaitEnd` | `WaitBegin`; `WaitReturn` |
| everything else | no step |

The lemma behind each row says which parts of the mapping the action leaves alone
(`SameMessages` and the like), so that a step only has to argue about the others.
`PipelineInv` gives the rest: that the head of the queue is the consumer's message, that a
channel without room is a backlog at its capacity, that whoever was let through is owed
nothing unless `void`.

**Cache of loggers** (`LoggersInv`).

* `MutexInv`: between its second look and its return a `NewLogger` holds `newLoggerMutex`,
  the flush in the eviction callback included. `CacheInv` uses it: when a logger is added, no
  other `Add` runs, hence its name still has no entry, and names stay unique.
* `CacheInv`: one entry for a name; and the logger of a call that is still flushing is in the
  cache or evicted, which is what `NoOrphans` needs when that call returns it.
* `RoomInv`: a call that may make a logger finds one left; it is about the bound of
  `NewCall` and makes `FreshLogger` meaningful.
* `MessageInv`: a message that was printed belongs to a logger that was returned, and what is
  on a channel or in a consumer's hand has been sent.
* `OwedInv`: during the callback, what is owed is settled or the evicted logger's; during
  `Wait`, it is settled, or of a logger that turned the call away or was evicted, or of the one
  it waits for, or has an entry whose key is still ahead, or its WaitGroup was misused. `CacheEffect` (an entry leaves the
  cache only by an eviction) carries it over the steps of others, `NoOrphans` starts it at
  `AllKeys`. `EvictionFlushes` and `WaitCoversCache` are what is left when the call ends.

**Refinement of LoggerDirectory** (`DirectoryInv`, which is `LoggersInv` with four more).

* `WaitMutexInv`: one goroutine is past `wMutex.Lock`, so only one covers.
* `StartedInv`: `waitStarted` of a logger is up exactly while one goroutine is in its `Wait`, or
  for ever when that one panicked; a call that is turned away then has somebody who waits in
  its place, or the logger is broken, which `Lapse` asks for.
* `AwayInv`: a call has been turned away by no logger before it visits one.
* `NamesInv`: a logger is cached under its own name, the one being added is neither cached nor
  evicted, and no evicted logger is cached again; this is "a logger serves one name for ever"
  and "never to be live again".

The other fact that had to be proved is that the number of live names is the length of the
cache (`Make` and `Displace` compare it with the capacity), from the uniqueness of names in
`CacheInv`.

A call's variables change only by its own steps (`OthersStay`), so the proofs of a part
argue about a call's own steps and cover all others with one lemma.

**Encryption** (`EncryptionInv`). `KnowledgeInv` keeps what somebody knows of a key inside
the key's history. `HandInv` says that the consumer, once it has a message, is aware of what
its printer knew (the channel carries it), and that the key it picked is one of those from
there on: `PickKey` reads any value not older than it is aware of. `GlobalInv`: a global key
once set stays set. `RoundTrip` needs three more: `SentInv`, that no message is sent twice and
the channel is the part of `sent` not yet taken; `FileInv`, that the files have the messages
handled so far except the lost ones, each in the file of its logger and in the order of the sends; `SourceInv`,
that an encrypted line had a key that somebody set and that only the lines of failed
encryptions are plain despite a key. Together they make the key of a line say whether its
message was printed under it (`KeyOfLine`), so what ends the decrypter depends on the
messages alone.

**Rate limit** (`LimitInv`). `OneEntryPerId` is what the external cache does; `StoredInv` ties the history of stores to the steps of the
calls; `EntryInv` says an entry is what its call put in; `NewestInv` that the newest store
of an id is in the cache unless it was forgotten (evicted or expired); `LookInv` that what a
call found is the newest store before its look, unless forgotten. `NoEarlyRepeat` is then
about the times of two stores, one overtaken by the other.

**Panic reports** (`PanicInv`). `HandleInv`: a report about to write has opened a file in the
directory it tries. `MutexInv`: `HandlePanicLog` holds `panicMutex` from entry to return.
`UnmixedInv`: a file that no `HandlePanic` has opened is empty while somebody is about to
write it and holds cells of one report otherwise; here the mutex excludes a second opener.

**Accumulators of the scalars** (`Scalar4x64Proofs`). The products of two scalars are summed in
three words by the macros `muladd`, `muladd2`, `sumadd` and their `_fast` forms, which take the
carries by comparing a sum with a summand. For every width w with `Wide(w)` (`2^w` is twice
`2^(w-1)`, a positive natural number, as it is for the code's 32 and 64):

| Theorem | States |
|---|---|
| `MulAddExact`, `MulAdd2Exact` | The three words are the exact sum modulo their width, and the VERIFY_CHECKs fail exactly if it does not fit |
| `MulAddFastExact`, `SumAddFastExact` | The same in two words |
| `SumAddExact` | Exact whenever the sum fits |

`MulAdd2Exact` is the one worth a proof: it doubles a double word that may already have
overflowed, with five carries, and that they never meet is not plain from the code.

**Scalars in four words** (`Scalar4x64Proofs`). `Num(d)` is the number of four words, `Order` the
group order, `Top` is `2^(4W)` and `Excess` is `Top - Order`; `IsScalar(a)` says that `a` has four
words, is below the order, and that no check has failed so far. For every scalar, every width and
every order that satisfies `Sizes`:

| Theorem | States |
|---|---|
| `ParsedExact` | `scalar_check_overflow` tells whether the number has to be reduced, and what `scalar_set_b32` stores is reduced |
| `AddExact`, `NegateExact`, `CondNegateExact` | The sum and the negative modulo the order, with at most one subtraction and the right carry dropped |
| `IsHighExact` | `scalar_is_high` is `2a > Order`, though it asks nothing of the third word being above that of `N_H` |
| `CaddBitExact` | The bit is added, and the VERIFY_CHECKs fail exactly if the sum reaches the order |
| `SplitExact` | The two halves are scalars below `2^(2W)` that make up the number |
| `MulWordsExact`, `SqrWordsExact` | `scalar_mul_512` and `scalar_sqr_512`: eight words that are exactly the product, with the first and the last column in two words only |
| `Fold512Exact`, `Fold385Exact` | The first two reductions: `Top` is exchanged for `Excess`, seven words with the top one at most 1, then five with the top one at most 2, as the code's VERIFY_CHECKs say |
| `Reduce512Exact` | `scalar_reduce_512` of any eight words is the scalar congruent to them |
| `MulExact`, `SqrExact` | `scalar_mul` and `scalar_sqr` are the scalar congruent to the product |
| `MulShiftExact` | `scalar_mul_shift_var` by four words and s bits (the code's only shift, 272, is four words and 16 bits) is the product divided by that power of two, rounded to the nearest |
| `ShrIntExact` | `scalar_shr_int` by s bits leaves the quotient and returns the remainder |

The last two are for every s that satisfies `Shifts(s)`: 0 < s < W, and what they use of the
powers of two (`2^s * 2^(W-s) = 2^W` and the like). From `MulWordsExact` on, each says that no
VERIFY_CHECK of a macro, of a reduction or of `scalar_cadd_bit` fails. The argument:

* A column is a sequence of macros. `Adds(e, m, v)` says that the macro call e adds m when the
  accumulator holds v; `ColumnOne` to `ColumnFour` compose two to four of them, and
  `ColumnsExact` takes the columns one after the other: if column k, with the carry from the
  columns below, sums up to v[k], its word is `v[k] % 2^W` and the carry `v[k] \div 2^W`.
* `MulColumnAdds`, `SqrColumnAdds`, `FoldAdds512` and `FoldAdds385` say what the columns of the
  four unrolled sums add, macro for macro; `FullChain`, `FoldChain512` and `FoldChain385` that the
  carries are at most `4 * 2^W`, so that no three-word and no two-word accumulator overflows, and
  that the words sum up to the product, or to the number with `Top` exchanged for `Excess`.
* After the first fold the number is below `Top * (1 + Excess)`, hence after the second below
  `Top + Excess^2`. `3 * NC1 + 3 <= 2^W` gives `Excess^2 < 2 * Top` (`ExcessSquare`): the fifth word
  is at most 2. Folding it leaves less than `Top + 2 * Excess`, at most twice the order, and the
  carry plus the comparison with the order is then the one subtraction (`ReducedExact`).
* A shift moves the lower s bits of a word into the upper bits of the one below (`SplitAt`,
  `ShiftedWords`); the bit that rounds is the highest of the s bits lost.

**Five limbs** (`Field5x52Proofs`). `Num(t)` is the number that limbs stand for, in Horner's form
and so without recursion; `Char` is the characteristic, `Congruent` is congruence modulo it;
`Element(a)` says that `a` has limbs within its magnitude and that every check so far has passed.
For every `Element` and every width that satisfies `Sizes`:

| Theorem | States |
|---|---|
| `NormalizeExact` | `fe_normalize` is the one number below `Char` that is congruent, and it is flagged so |
| `NormalizeWeakExact`, `NormalizeVarExact` | The weak form is congruent in magnitude one; the variable-time form is `fe_normalize`, limb for limb |
| `NormalizesToZeroExact`, `NormalizesToZeroVarExact` | Both answer exactly whether the number is congruent to 0; the early exit on the lowest limb is safe |
| `AddExact`, `MulIntExact`, `NegateExact` | Number and magnitude are the sum, the multiple, the negative; no limb goes below zero |
| `MulExact`, `SqrIsMul`, `SqrExact` | The result is congruent to the product, in magnitude one, and no accumulator overflows; `fe_sqr(a)` is `fe_mul(a, a)` |
| `IsZeroExact`, `CmpExact`, `SetIntExact`, `CmovExact` | Questions, constants and the conditional move |

Each says with `Element` of the result that no VERIFY_CHECK failed. The argument:

* Carrying (`Carried`) keeps `Num` and leaves limbs below their width but for the top one.
  The top limb's excess x stands for x times `2^(4W+T)`, which is `Char + C`: folding x * C into
  the lowest limb takes away x multiples of `Char` (`FirstPassExact`). What is left is below
  twice `Char`, so the second pass takes away one or none, and `AtLeastP`, which compares limb
  by limb, decides which.
* 0 and `Char` are the only multiples of `Char` left after the first pass, hence the two
  patterns `fe_normalizes_to_zero` looks for; the lowest limb of both is fixed, hence the
  early exit.
* `fe_mul_inner` forms the nine columns of the product, not in order: it begins with column 3,
  folds 8 into it, goes on with 4, and then takes 0 to 2 with 5 to 7 folded into them. That the
  columns sum to the product is `Schoolbook`; that each step of the schedule keeps the number
  up to multiples of `Char`, that each sum fits the accumulator and that the last carry fits the
  top limb is `MulScheduleExact`, where the bounds of `Sizes` are used.
* The columns of `fe_sqr_inner`, with doubled operands, are the same numbers.

Limbs are natural numbers without a width in the model. In the code those of `Field5x52` have
64 bits: at magnitudes up to 2047 the largest limb with the largest carry and fold stays below
2^64, so nothing is lost by this. `Sizes` admits magnitude 2048 as well, as the code's own checks do; there
the argument does not hold, and the theorems are about numbers and not about words. The ten
limbs have 32 bits each, and there the corresponding magnitude is 32: `t0 + x * 0x3D1`
(`field_10x26_impl.h`:52) may exceed 32 bits at exactly that magnitude, which `Field10x26` does not
represent. That no call of the library comes near these magnitudes is what `CurveChecksHold`
checks, whose group operations stay far below. In `fe_mul` and `fe_sqr` of the ten limbs (486-762
and 769-1039) the VERIFY_BITS of the single accumulators are one bound on all of them.

**Lemmas about operators.** `SequenceLemmas` has what the caches and channels need of
`RemoveAt`, `Append` and `Tail`: lengths, elements, the set of elements. The lookups of an
LRU cache take out the entry at its place (`RemoveAt`), not by filtering the sequence, so
that no recursion over data is needed.

Only model-checked:

* Liveness (`WaitReturns`, `Delivered`, `CallsReturn`, `HandlersReturn`): fairness and ENABLED
  are outside of the prover's reach.
* The invariants of `LimbMachine`. They speak of all four representations at once and of the
  calls that read and write bytes and storage (`Regroup`), whose meaning is by induction over the
  bits. What is proved is the arithmetic of the two representations that a 64-bit build uses
  (`USE_FIELD_5X52`, `USE_SCALAR_4X64`), and the accumulators of both scalars; `Field10x26` and the
  functions of `Scalar8x32` above the accumulators are checked by TLC, as are `scalar_get_bits` and
  `scalar_get_bits_var`, and shifts in `scalar_mul_shift_var` of whole words or of five and more.
* The curve: what its modules say is what recursive functions of data compute (powers,
  multiples, digits), compared with reference definitions on small instances.

## 5. What is not modelled

* The text of messages, stdout, rotation and compression of files by the writer: no
  property is about them.
* `formatCaller` and the depth settings, and the setters that only store a flag
  (`WriteSourcePath`, `WriteDateTime`, `SetAlsoToStdout`): the first is in the plan, about
  the others there is nothing to state.
* Loggers without a filename (`EmptyLogger`): their prints return at once.
* How a key is lost when a logger is evicted: `EncryptedLog` has two loggers of one file from
  the start, `LoggerCache` has the eviction; nobody composes them yet.
* libsecp256k1: SHA-256, HMAC and the derivation of nonces by RFC 6979 (a nonce is an
  input, chosen by `NonceLists`); the assembly and the libgmp versions, which the wrapper
  does not compile; allocation and the callbacks (a failed `ARG_CHECK` is `legal = FALSE`);
  that `ecmult_const` and `ecmult_gen` take the same time for every scalar; tests and
  benchmarks.
* The Go wrapper over it, and go-ethereum's `ecies`, `crypto`, `rlp`, `common` packages:
  vendored, over the standard library. What the logger takes from them is in `EncryptedLog`.
* The gost adapter and the examples: they call the API and keep no state of their own.

## 6. Plan

Done: `LogPipeline`, `AsyncLog` and the refinement, `LoggerCache`, `EncryptedLog`,
`LimitedPrint` and `PanicLog`, with proofs of their safety properties and of two refinements;
the limbs and the curve, model-checked; the field in five limbs and the scalars in four words,
proved for every width.

1. Proofs: the field in ten limbs along the lines of the five, the scalars in eight words along
   the lines of the four.
2. `LoggerCache` as a second implementation of `AsyncLog`, first with TLC.
3. `CallerFormat`: `formatCaller` as a recursive function over a bounded stack, compared
   with a definition that selects the frames directly.
4. `EncryptedLog` over `LoggerCache`: a key lost with the eviction of its logger, as one
   behaviour.
