# fclient and backend: a TLA+ verification project

The repository holds an Android payment client (`src/fclient`), a Spring Boot
backend with one endpoint (`src/backend`) and the build output of two
third-party libraries (`src/libs`). The client's own code is three Java classes
and one C++ file. This directory models that code, checks the models with TLC
and proves the main results with TLAPS.

## 1. The system

| Part | State | Operations | Code |
|---|---|---|---|
| Payment transaction, native side | per call: a detached thread, global references to the activity and the TRD, `ptc` | `transaction`, the thread's lambda, `getEnv`, `releaseEnv` | `native-lib.cpp` 164-249 |
| Payment transaction, Java side | the field `pin`, the activity's monitor, the result launcher | `enterPIN`, `onActivityResult`, `transactionResult` | `MainActivity.java` 57-78, 121-138, 204-209 |
| TRD and amount | none | header check, packed decimal to text, text to number | `native-lib.cpp` 207-221, `PinpadActivity.java` 41-47 |
| PIN pad window | `pin`, the stars in `tvPin`, the texts of the keys | `onCreate`, `ShuffleKeys`, `keyClick`, C, OK | `PinpadActivity.java` |
| Encryption | none between calls | `encrypt`, `decrypt` | `native-lib.cpp` 73-158 |
| Random numbers | global `entropy`, `ctr_drbg` | `initRng`, `randomBytes` | `native-lib.cpp` 49-71 |
| Life cycle of `MainActivity` | the activity object, replaced at every configuration change (no `configChanges` in the manifest) | `onCreate` | `MainActivity.java` 83-145 |
| HTTP client | none shared; two threads for each click | `onButtonClick`, `testHttpClient`, `getPageTitle` | `MainActivity.java` 163-201, 229-256, 281-291 |
| Backend | none | `GET /api/v1/title` returns a constant | `SampleController.java` |
| Remainder | | `stringToHex`, `stringFromJNI`, `JNI_OnLoad`, layouts, manifest, test stubs, library build output | |

How they interact. A caller of `transaction` gets `true` at once; the native
thread it started calls `enterPIN` on the activity up to three times. Each call
opens a PIN pad (`launch` of an Intent with `ptc` and the amount) and waits on
the activity's monitor. The user closes the pad; the framework keeps the result
until `MainActivity` is on top again and calls `onActivityResult` on the UI
thread, which stores the PIN in the field and notifies the monitor. The native
thread compares the PIN and calls `transactionResult`, which posts a toast.
`PinpadActivity` calls `randomBytes`; `onCreate` of `MainActivity` calls
`initRng`, `randomBytes`, `encrypt` and `decrypt`. A click on the button of
`MainActivity` starts a thread that starts another, which reads the backend's
page and posts a toast to the same looper as `transactionResult`.

At this commit nothing calls `transaction`: its two call sites in
`onButtonClick` are commented out (`MainActivity.java` 172-190), and the button
runs the HTTP client instead. The transaction is nevertheless the program's
main logic, complete and public, and is modelled as such: any number of calls,
from any thread, with any TRD.

What is hard in it: several transactions share one field, one monitor and one
stack of windows; `wait` is not in a loop; a pad left with Back answers nobody;
the activity may be replaced while a thread waits on the old object; the native
side compares characters it has released and exits in two ways without a
report; the padding of `encrypt` mixes written, unwritten and out-of-range
bytes; the process may die while Android keeps its windows and results, and
the next process restores a PIN pad before the activity that seeds the
generator; a seeding may fail, and no caller looks; a server may be silent for
ever; the service that shows toasts drops them when it is full.

What makes each part correct:

* transaction: the verdict follows from the PINs `enterPIN` returned; one
  answer costs one attempt; no wake-up is lost; every transaction reports
  unless something named in the property stopped it; the UI thread is not
  blocked.
* PIN pad: every digit can be typed; what OK returns is what was pressed and
  what the stars count; the hint tells the attempts left.
* encryption: decryption returns what was encrypted (for the lengths for which
  the code achieves it).
* life cycle and random numbers: nothing of a dead process answers a
  transaction of the next, or asks the user for a PIN; the app comes back; pads
  do not look alike because one seeding failed.
* HTTP client: each click asks, and shows the title of its own page, once.

## 2. Modules

| Module | What it is |
|---|---|
| `Trd` | operators: the header check, the amount text, what the PIN pad reads in it |
| `PinVerification` | abstract specification of a transaction: collect answers, announce one verdict |
| `Transaction` | the native threads, the UI thread, the windows and the framework between them |
| `MCTransaction` | TRDs and symmetry for TLC |
| `TransactionProofs` | types, verdicts, the refinement of `PinVerification`, the amounts of pads |
| `DeliveryProofs` | approvals are traceable, no wake-up is lost |
| `AnswerProofs` | no PIN is charged twice; the answers and hints of calls that take turns |
| `SequenceFacts` | lemmas on sequences that the proof modules share |
| `PadWindow` | abstract specification of a PIN pad: visible, then one answer or none |
| `Pinpad`, `MCPinpad`, `PinpadProofs` | one PIN pad window, which implements `PadWindow` |
| `Cipher`, `MCCipher`, `CipherProofs` | `encrypt` followed by `decrypt` |
| `LifeCycle`, `MCLifeCycle`, `LifeCycleProofs` | `Transaction` inside processes that seed a generator, die and are restored |
| `ToastQueue` | abstract specification of what the threads post to: one line of messages, a toast lost only behind a full service |
| `HttpClient`, `MCHttpClient`, `HttpClientProofs` | clicks, their threads, the backend, the looper and the toasts; implements `ToastQueue` |

### Transaction

Native thread `t` runs through `pc[t]`:

    idle -StartTransaction-> spawned -ParseTrd-> enter -EnterPin-> lock
      -Launch-> launched -Wait-> waiting -(NotifyAll | SpuriousWakeup)-> woken
      -Reacquire-> return -ReturnPin-> compare -Compare-> enter | report
      -Report-> posted -ShowToast-> done

* The steps are cut where another thread can see a difference: the reset of
  `pin` (`EnterPin`) and its read (`ReturnPin`) happen outside the synchronized
  block, the launch inside it, and `wait` releases the monitor.
* The monitor is not a variable. Between steps a thread holds it only at
  `launched`; `MonitorFree` says so. `NotifyAll` and `Reacquire` take and
  release it within their step.
* `pin[i]`, `thiz[t]` and `cur` distinguish the activity object a transaction
  was called on from the one the framework talks to. `RecreateMain` replaces
  the latter.
* `stack`, `results`, `batch` are the framework: open pads, results of closed
  ones, and the results being handed to `onActivityResult`, one callback each.
  `OnResultOk` is the part of the callback before the lock, `NotifyAll` the
  rest; nothing else runs on the UI thread in between (`UiIdle`).
* `chars[t]` is the copy of the PIN that `strcmp` reads after it was released.
  With `HeapReuse`, a later copy may take the place of any of the released ones
  (`ReturnPin`), or unrelated bytes may (`Compare`). A copy that could not be
  made (`utf = nullptr`) fails the test like unrelated bytes do.
* `ui = "dead"` is the end of the process: `RejectTrd` (the thread exits
  attached, which the Android runtime answers with an abort), `AttachFails`
  (null `env`), `LaunchThrows` (launch on a destroyed activity), `PadThrows`
  (`NumberFormatException`).
* `entered`, `compared` and `cancelled` are history variables: no guard reads
  them. `entered` is what `enterPIN` returned, `compared` what `strcmp` then
  read; they differ only where memory was used again. Each PIN carries the pad
  it was typed in, also as history.
* `PinVerification` is about the strings a transaction compares: `Compare` is
  its `Answer`, `Report` its `Announce`. That what is compared is what was
  answered, but for an overwritten copy (`Misread`), is `VerdictFollowsAnswers`.

What a PIN pad does is reduced to the PIN it returns; `Pinpad` models it. A pad
launched from a replaced activity, where the library allows it, is treated like
any other; on a device its result may be lost as well.

### Pinpad

`ShuffleKey` is one round of the loop in `ShuffleKeys`; `keyClick`, `Reset` and
`Ok` are the listeners. After `Ok` the window is `finishing`: clicks that were
already queued are handled, but the result went with `finish`. `Recreate` is a
configuration change. `typed` is history. `PadWindow` is what `Transaction`
relies on, and `ImplementsPadWindow` that the window keeps it: `Ok` is
`Answer`, `Back` is `Leave`, a click on a key `Type`, C and a recreation
`Clear`; the shuffle and all that comes after OK are stutters.

### Cipher

`BeginPadding`, `PadByte`, `EndPadding`, `Encrypt` follow `encrypt`; the bytes
`buf[dsz + x]` are `tail[x]`, start out arbitrary, and those with
`x >= 8 - rst` are outside the allocation: a write there is recorded in `spill`
and may end the process. `Decrypt` takes the last byte as size and fills an
array longer than `buf` with whatever lies behind it. DES is symbolic.

### LifeCycle

Extends `Transaction`: its threads, monitor, windows and results are the same
variables, and every step of it is a step of `LifeCycle` or part of one.

* `rng` is `ctr_drbg`: the number of the seeding it runs on, and the requests
  it has served since. `NoKey` is the zeroed context of a freshly loaded
  library (`Loaded`), seed 0 the zero key that `mbedtls_ctr_drbg_init` leaves
  when the seeding after it fails. `InitRng` is `initRng` and the request that
  `onCreate` makes right behind it.
* `RandomBytes` serves a pad: from the current seed, from a new one after
  `ReseedInterval` requests, or, when the new seeding fails, with the content
  of an uninitialised buffer: anything (`Leftover`), or what an earlier pad was
  given. The bytes are named by their origin; `keys` records them for each pad,
  and `unfilled` the pads whose bytes the generator did not write.
* A pad is `shown` once its `onCreate` has run. `ShowPad` shuffles and then
  reads the amount; `PadCrashes` is `randomBytes` on a context that was never
  initialised, where mbedtls follows a null pointer; `PadRejectsAmount` is
  `Transaction`'s `PadThrows` behind the shuffle.
* A configuration change recreates the window on top. `Redraw` does that to a
  PIN pad, whose `ShowPad` then draws again from the seed in use; `Recreate` to
  `MainActivity` when it is on top, which calls `initRng`.
* `Kill` may end the process at any moment. `Restart` begins the next: after a
  kill with the windows and undelivered results that Android kept, after a
  crash without the window on top, which then counts as cancelled, or with
  nothing kept. The threads of the old process are `gone`. A window is created
  when it comes to the top, so a pad is restored before any `MainActivity`.
* `Clickable` is the window in which `Start` is possible: a button takes
  clicks when the activity has been resumed, behind the delivery of results.
* `onCreate` also tries `encrypt` on 20 bytes, which writes behind its buffer.
  `Cipher` lets that end the process; here it is left out.

### HttpClient

Click `c` runs through `pc[c]`:

    idle -ClickButton-> clicked -onButtonClick-> outer -testHttpClient-> worker
      -Connect-> reading -Answer-> read -TakeTitle-> titled -PostVerdict-> posted

and `Fail` leads from `worker` and `reading` to `logged`. A page is a sequence
of tokens, the two tags and pieces of text; `getPageTitle` is the first match of
the regular expression, a reluctant group of at least one token. `looper` is
the queue of the UI thread, with clicks and toasts; `toasts` are those in the
notification service, which refuses more than `ToastLimit`; `seen` and
`dropped` are history. A transaction is reduced to its `transactionResult`.

`ToastQueue` is what the threads rely on, with the two queues seen as one line
(`toasts \o looper`). `PostVerdict`, `transactionResult` and `ClickButton` are
`Post`; `Display` is `Show`; `onButtonClick` is `Handle`, out of the middle of
the line, since clicks do not wait for the toasts on the screen. `ShowToast`
moves a message across the border between the queues, a stutter, or finds the
service full and is `Lose`.

## 3. Runs

| Run | Bounds | Shows |
|---|---|---|
| `alone` | one transaction, 3 attempts, 3 PINs, four TRDs (good, not decimal, wrong tag, too short), one recreation | `TypeOK`, `AnswersAreOwn`, `HintIsTrue`, `AmountIsRead`, `EveryTransactionReports` |
| `shared` | two transactions, 2 attempts, 2 PINs, spurious wake-ups, symmetry | `VerdictFollowsAnswers`, `WaitIsJustified`, `AnswerChargedOnce`, refinement of `PinVerification` |
| `live` | two transactions, 2 attempts, fairness, no symmetry | `EveryTransactionReports`, `UiThreadReturns`, `TurnsKeepAnswers` |
| `heap` | two transactions, 2 attempts, reuse of freed characters, symmetry | `ApprovalIsTraceable`, `VerdictFollowsAnswers`, refinement of `PinVerification` |
| `ptc_number` | one transaction | violated: `enterPIN` is not given the number of the attempt (`TransactionEvents.java:4`) |
| `pad_amount` | one transaction | violated: the pad shows 100.00 for what `native-lib.cpp:199` calls one rouble |
| `pinpad` | 3 keys, PIN of 2 digits, 3 presses, signed bytes for every index | `TypeOK`, `EveryDigitOnOneKey`, `PinIsTyped`, `StarsShowPin`, refinement of `PadWindow` |
| `cipher` | 0 to 17 bytes, two long keys and a short one, unwritten memory of 0 and 255 | `TypeOK`, `RoundTrips` |
| `pkcs5` | 8 bytes | violated: the padding is not PKCS#5 (`native-lib.cpp:88`) |
| `example` | 20 bytes | violated: the example of `onCreate` does not decrypt to its data |
| `life` | two transactions of one attempt, two TRDs (good, not decimal), one kill, two objects of `MainActivity`, reseeding after two requests, pads redrawn until the second seeding, fairness | `LifeTypeOK`, `NoPinOutlivesProcess`, `NoStrandedPadShown`, `CrashHasCause`, `LayoutsDiffer`, `WaitIsJustified`, `TurnsKeepAnswers`, `MainComesBack` |
| `http` | two clicks, one transaction, room for one toast, every page of at most three tokens and six longer ones, fairness | `TypeOK`, `ToastIsOwn`, `ToastOnce`, `TitleIsElement`, `EveryClickAsks`, `EveryAnswerIsShown`, refinement of `ToastQueue` |

Why these bounds. Two transactions with two attempts show every way in which
one thread's answer, wake-up or reset can meet another's, and a first, a middle
(after a wrong answer) and a last attempt exist; three attempts, which the code
has, are checked with one transaction and covered by the theorems for two and
more. A second recreation or a third pad adds windows but no new kind of step.
17 bytes are two whole blocks and the start of a third, so every remainder
occurs with and without whole blocks before it. In `life` a transaction of each
process can meet one of the other, with its pad open, its result kept or
its result half delivered; a killed process may be followed by crashes of the
restored pads, one for each. `onCreate` makes the first request of a seed and a
pad the second, so the pad after that has to reseed, and pads drawn from each
kind of seed occur. In `http`, a second click is what the first can be
mixed up with or held up by, and a transaction fills the service. The longer
pages put an element, with or without a text, in front of another one or of
a closing tag. `MaxRecreations`, `MaxBoot` (no kill in a later process),
`MaxSeeds` (no pad redrawn after so many seedings) and `MaxPresses` are the
only bounds in guards. Deadlock is not an error in these
models: transactions end, windows are closed, the process dies.

What does not hold, and is not claimed. With two transactions on one activity
`AnswersAreOwn` and `HintIsTrue` fail: one `notifyAll` wakes both threads, and
both read the one field. That is why the properties of `shared` speak of the
answers a transaction received, and `alone` of whose answers they are. The
calls of `enterPIN` are all that has to be kept apart: `TurnsKeepAnswers` says
that two transactions may otherwise overlap as they like, provided that `wait`
ends only for `notifyAll`. Nothing in the code makes the calls take turns.
With `HeapReuse`, which `native-lib.cpp` 227-228 does not exclude, an answer
that is overwritten between its release and `strcmp` counts for another one, so
that a transaction may be approved on the PIN of the other; `heap` and the
theorems show that this is all that is lost. `shared`, `live` and `life` run
without it to keep them small; no theorem assumes it away. For data with more
than three bytes in the last block `RoundTrips` fails, as the run `example`
shows.

Fairness (`FairSpec`, runs `alone` and `live`). Weak fairness of each native
thread and of the looper: the operating system schedules them, and a thread
that can take the monitor eventually does (only one competitor can overtake it
at a time, each a bounded number of times). Weak fairness of closing a visible
pad: a user who leaves it open for ever is not a fault of the program. Nothing
is assumed about starting transactions, failures, recreations or wake-ups.
Failures are never forced and never excluded, so liveness is stated up to the
death of the process, but only of the causes listed in `Fatal`: a thread not
attached or with a TRD it rejects, a launch from a replaced activity, a pad
without a decimal amount. `CrashHasCause` is the same over many processes,
where a pad of an earlier one is the only other cause.

`life` (`FairLifeSpec`): the looper runs, and the user opens the app again when
it is gone; nothing is assumed about kills, pads or threads. `MainComesBack`
is stated up to `MaxRecreations`, the bound on objects of `MainActivity`: once
no other may be created, none need come back.
`http` (`FairSpec`): each thread, the looper and the notification service run.
Nothing is assumed about the server: `Answer` and `Fail` are not fair, since
no timeout is set and a server may be silent for ever.

## 4. Proofs

The proof modules are checked by TLAPS for every value of the constants that
satisfies the named assumptions of the modules: `TransactionAssumption` and
`TrdAssumption` (a TRD is an array of bytes, of any length and content),
`LifeCycleAssumption`, and those of `Pinpad`, `Cipher` and `HttpClient` (a page
is any sequence of tokens). Every safety property that a passing run checks is
a theorem, and so are the refinements.

One process:

* `TransactionProofs!TypeCorrect`. `TypeOK` alone is not inductive: `Compare`
  counts `ptc` down and would leave `0..Tries`. `AttemptLeft` adds that `ptc`
  is at least one while the loop runs, which the test of `Again` preserves.
* `TransactionProofs!VerdictSound` and `Refinement`, with or without reuse of
  freed memory. `LoopInv` relates where a thread is to what it was answered and
  what `strcmp` read of that: while asking, `Tries - ptc` of each, all read as
  wrong; at `strcmp`, one answer more, of which `chars` is a true copy unless
  memory is reused; after the loop, a last one read as right if attempts are
  left, and `Tries` read as wrong if not (`Decided`). `ReadInv` says that what
  was read is what was answered unless memory is reused, which turns a verdict
  over `compared` into one over `entered`. Only `ReturnPin`, `Compare` and
  `Report` touch all this; one lemma (`QuietSteps`) disposes of the other steps.
  The refinement maps `compared` to the abstract answers: `Compare` is `Answer`,
  which `LoopInv` shows to be enabled, `Report` is `Announce`.
* `TransactionProofs!AmountRead`. `AmountInv`: the check of the header stands
  before every pad, so the TRD of an open pad is well formed. `DecimalText`
  then compares the twelve characters with the six bytes they are made from:
  a character is a digit exactly when its half byte is at most nine.
* `DeliveryProofs!ApprovalTraceable`, with and without `HeapReuse`: a released
  copy is unrelated bytes or a PIN that `enterPIN` returned to someone, and
  whoever leaves the loop with attempts left has compared the secret
  (`TraceInv`). `NoLostWakeup`: `WaitInv` extends `WaitIsJustified` to a thread
  that has launched and does not wait yet; `NotifyAll` cannot fall in between,
  because `MonitorFree` keeps it out. It adds that a result without
  `RESULT_OK` is a pad left with Back, or one that no thread waits for any
  more (`Spent`).
* `AnswerProofs!ChargedOnce`. `OnceInv` says that a pad is in one place (open,
  in `results`, in `batch`, or over), and that after the reset of `enterPIN`
  the field holds nothing that this transaction has been charged for; a PIN
  that reaches the field later comes from a pad that had not delivered before.
* `AnswerProofs!TurnsOwn` and `TurnsHint` (three attempts), without spurious
  wake-ups, for behaviours in which calls of `enterPIN` take turns. While a
  thread is inside the call, at most one pad, result or field value exists, and
  it is that thread's (`TurnInv`); while none is, nothing is under way, and that
  is where the next call starts from. `CountInv` counts the answers, which
  gives the attempt whose pad it is. `LoneAnswersOwn` and `LoneHintTrue`, for
  one transaction that has the activity to itself, are the special case.
* `CipherProofs!RoundTrip`. `PadInv` says that everything between `i` and the
  end of the allocation holds the remainder; for a remainder of at most three
  that includes the last byte when the loop has ended. `BuffersTyped` is the
  type invariant.
* `PinpadProofs!PadTyped`, `KeysComplete` and `StarsCount`: exchanging two texts
  keeps every digit on exactly one key. `ResultIsTyped` needs what one more
  digit does to the beginning of what was typed (`PrefixAppend`), and gives
  `WindowRefinement`, that the window implements `PadWindow`.
* `HttpClientProofs!QueueTyped` and `ToastsOwn`: a toast in any of its four
  places carries the title its thread computed from its own page, and a page
  does not change after it was read.
* `HttpClientProofs!ToastsCounted`: `PlaceInv` puts the toast of a thread that
  has posted at one position of the line or among the dropped, and nowhere
  else; a message that passes from the looper to the service, is displayed or
  refused keeps the order of the others (`ConcatMove`, `ConcatRemove`), so the
  two counts of `ToastOnce` are those of a singleton and of the empty set.
  `QueueRefinement` takes from `PlaceInv` that nobody posts a second toast, and
  that one which is refused has the whole service ahead of it.
* `HttpClientProofs!TitlesFound`, for pages of any length. The regular
  expression and the parser both choose a least position; a set of naturals
  with an element has a least one (`SequenceFacts!Least`), and the two
  choices are compared: no later opening tag can be the first one with a text
  behind it unless the first is one too.

Any number of processes. `LifeCycle` adds steps that lose the threads, drop
windows, or hand a new process the results of the old. The invariants above
hold there too, once they say what they say of a thread that is `gone`:

* `CoreTypes` is what the lemmas about `Transaction` need of its types. It
  holds in both modules, so each lemma about a step of a thread, of a callback
  or of a pad is proved once and used for both.
* `VerdictSurvives`, `LifeRefinement` and `ApprovalSurvives`: of a gone thread
  only an announced verdict matters, and it was `Decided`. `LifeRefinement`
  makes the death of a process a stutter of `PinVerification`.
* `ChargedOnceSurvives`: a restart keeps pads and results in one place each
  (a crashed window leaves the stack and joins the results, with no PIN in it).
* `NoLostWakeupSurvives`. In one process a result without `RESULT_OK` is a pad
  left with Back; here it may also be the window of a crash, which Android
  reports as cancelled. No thread of the new process waits for that one: it is
  `Spent`, its thread is gone or at a later attempt. `PadsAge` carries that
  through the steps: a thread only ever moves to smaller `ptc` (`NextAges`).
* `TurnsSurvive`: `TurnInv` holds while a `MainActivity` is resumed
  (`LifeTurn`). Outside that time no thread runs; and a new one is only resumed
  behind the delivery of what Android kept, when nothing is under way.
* `AmountSurvives`: a restored pad has the Intent of a TRD that a dead thread
  checked.
* `LifeTypeCorrect` is inductive as it stands. `NoStrandedPad`: `SeedInv` says
  that in a living process the generator has a seed only once `MainActivity`
  exists, which is created on an empty stack, and that without a seed every
  open pad is one of an earlier process; such a pad is never `shown`.
* `LayoutsFresh`: `KeysInv` says of the pads whose bytes the generator wrote
  (all but `unfilled`) that their requests lie behind the generator: of an older
  seed, or of the current one with a lower number; only seed 0 can repeat, and
  that takes two failures.
* `CrashExplained`: each step that ends the process leaves its cause in the
  state, and a dead process takes no step that could remove it. By `SeedInv` a
  pad that meets an unseeded generator belongs to an earlier process, and by
  `AmountIsRead` one that throws has an amount that is not decimal.
* `NoPinOutlives`: `BootInv` says that a thread
  that runs belongs to this process, in which `MainActivity` has been resumed;
  that every open pad and kept result then belongs to it too; and that a field
  which a thread may read after its own reset holds no PIN of another process.

Only model-checked: the liveness properties (`EveryTransactionReports`,
`UiThreadReturns`, `MainComesBack`, `EveryClickAsks`, `EveryAnswerIsShown`),
which the prover cannot express, as fairness rests on ENABLED. The violated
properties of the four other runs are false, and each run is the
counterexample. `LongValue`, the number in an amount text, is a fold; nothing
is proved about its value.

## 5. Not modelled

* `stringToHex` is one call of commons-codec and has no caller left.
  `stringFromJNI` returns a constant and logs.
* The layouts (apart from the texts of the keys), styles, manifest, test stubs
  and the build output of mbedtls and spdlog have no behaviour of their own
  here; of mbedtls, what the calls in `native-lib.cpp` can observe is modelled.
* `releaseEnv` has one effect, that the thread ends detached. `Report` includes
  it; the exit that lacks it is `RejectTrd`.
* JNI array access, logging, formatting and text layout are left out, except
  where a property is about them. DES, the quality of random numbers and the
  bias of the shuffle are outside a model of this kind.
* `LifeCycle` keeps `pin` of the dead process's activity as the field of an
  object that no thread reaches any more, and starts a new one for the next.

## 6. Plan

The order was: `Transaction` with `PinVerification`; `Cipher` and `Pinpad`;
`HttpClient`; `LifeCycle` on top of `Transaction`; `PadWindow`. What is left:

1. `AmountLoop`: the loop of `native-lib.cpp` 214-218 step by step against a
   decimal reading of the TRD, which `Trd` has as one expression.
2. `Transaction` restated over one instance of `PadWindow` for each pad.
