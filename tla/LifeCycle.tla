------------------------------ MODULE LifeCycle ------------------------------
(***************************************************************************)
(* The process of fclient around its transactions: MainActivity.onCreate   *)
(* seeds the random generator of native-lib.cpp, every PIN pad draws the   *)
(* order of its keys from it, and the process may die while Android keeps  *)
(* the windows.  The next process restores the visible window first, so a  *)
(* PIN pad that was on top is created before any MainActivity.             *)
(*                                                                         *)
(* Threads, the monitor and results are those of Transaction.  The         *)
(* encryption that onCreate also tries out is the subject of Cipher; that  *)
(* it might end the process there is left out here.                        *)
(***************************************************************************)
EXTENDS Transaction

CONSTANTS MaxBoot,         \* bound: no kill in a process of higher number
          MaxSeeds,        \* bound: no pad redrawn after so many seedings
          ReseedInterval   \* mbedtls reseeds after so many requests

ASSUME LifeCycleAssumption ==
    MaxBoot \in Nat /\ MaxSeeds \in Nat /\ ReseedInterval \in Nat \ {0}

VARIABLES
    main,      \* MainActivity of this process: none, created, resumed
    shown,     \* PIN pads whose window exists in this process
    rng,       \* ctr_drbg: the seed it runs on, the requests served since
    keys,      \* history: the bytes that shuffled each pad
    unfilled,  \* history: pads whose bytes the generator did not write
    seeds,     \* history: seedings that got entropy
    failures,  \* history: calls of initRng that got none
    boot,      \* history: number of this process
    bootOf     \* history: the process each transaction was started in

generator == <<rng, keys, unfilled, seeds, failures>>
process   == <<main, shown, boot, bootOf>>
life      == <<generator, process>>
lifeVars  == <<vars, life>>

(* A request is named by its seed and its place among the requests of that *)
(* seed.  Seed 0 is the zero key that a failed seeding leaves behind, and  *)
(* always the same.  NoKey is the zeroed context of a fresh process.       *)
NoKey    == [seed |-> 0, served |-> 0]
Leftover == [seed |-> -1, served |-> 0]  \* whatever the heap block held
Request  == [seed : Nat, served : Nat] \cup {Leftover}

LifeTypeOK ==
    /\ main \in {"none", "created", "resumed"}
    /\ shown \subseteq Pad
    /\ rng \in [seed : 0..seeds, served : 0..ReseedInterval]
    /\ keys \in [Pad -> Request] /\ unfilled \subseteq Pad
    /\ seeds \in Nat /\ failures \in Nat /\ boot \in Nat
    /\ bootOf \in [Txn -> 0..boot]
    /\ main # "none" => rng # NoKey

LifeInit ==
    /\ Init
    /\ main = "none" /\ shown = {}
    /\ rng = NoKey
    /\ keys = [p \in Pad |-> NoKey] /\ unfilled = {}
    /\ seeds = 0 /\ failures = 0
    /\ boot = 0 /\ bootOf = [t \in Txn |-> 0]

-----------------------------------------------------------------------------
(* What the properties are there to exclude; not part of the model.        *)
ClickableOnceCreated == main # "none"   \* before the results are delivered
SeedOnLoad == rng' = [seed |-> 0, served |-> 1]  \* in the static initializer
SeedOnDemand == UNCHANGED <<rng, seeds, failures>>  \* initRng when needed
SeedFromPersonalization ==              \* no entropy, only the constant
    /\ rng' = [seed |-> 1, served |-> 1]
    /\ seeds' = seeds + 1 /\ UNCHANGED failures
PadWaitsForSeed == FALSE                \* blocks until initRng was called
ReseedKeepsCount(pad) ==                \* reseed_counter not reset
    /\ rng.served >= ReseedInterval
    /\ rng' = [seed |-> seeds + 1, served |-> rng.served + 1]
    /\ keys' = [keys EXCEPT ![pad] = [seed |-> seeds + 1, served |-> 0]]
    /\ unfilled' = unfilled \ {pad}
    /\ seeds' = seeds + 1 /\ UNCHANGED failures

(* Loading the library zeroes its globals; JNI_OnLoad then stores the VM   *)
(* that getEnv needs, so that only the generator is left without a value.  *)
Loaded == rng' = NoKey

(***************************************************************************)
(* The random generator.  initRng discards the old context, whether or not *)
(* the seeding that follows succeeds; onCreate ignores what it returns and *)
(* makes the first request itself.                                         *)
(***************************************************************************)
InitRng ==
    \/ /\ rng' = [seed |-> seeds + 1, served |-> 1]
       /\ seeds' = seeds + 1 /\ UNCHANGED failures
    \/ /\ rng' = [seed |-> 0, served |-> 1]
       /\ failures' = failures + 1 /\ UNCHANGED seeds

ServeRequest(pad) ==
    /\ rng.served < ReseedInterval
    /\ rng' = [rng EXCEPT !.served = @ + 1]
    /\ keys' = [keys EXCEPT ![pad] = rng]
    /\ unfilled' = unfilled \ {pad}
    /\ UNCHANGED <<seeds, failures>>

Reseed(pad) ==
    /\ rng.served >= ReseedInterval
    /\ rng' = [seed |-> seeds + 1, served |-> 1]
    /\ keys' = [keys EXCEPT ![pad] = [seed |-> seeds + 1, served |-> 0]]
    /\ unfilled' = unfilled \ {pad}
    /\ seeds' = seeds + 1 /\ UNCHANGED failures

(* randomBytes ignores the result of mbedtls as well: when the generator   *)
(* could not reseed, the pad gets the new buffer as the heap gave it, which*)
(* may be one that an earlier pad's bytes are still in.                    *)
ReseedFails(pad) ==
    /\ rng.served >= ReseedInterval
    /\ \E bytes \in {Leftover} \cup ({keys[p] : p \in Pad} \ {NoKey}) :
          keys' = [keys EXCEPT ![pad] = bytes]
    /\ unfilled' = unfilled \cup {pad}
    /\ UNCHANGED <<rng, seeds, failures>>

RandomBytes(pad) == ServeRequest(pad) \/ Reseed(pad) \/ ReseedFails(pad)

(***************************************************************************)
(* The windows.                                                            *)
(***************************************************************************)
CreateMain ==
    /\ UiIdle /\ main = "none" /\ stack = <<>>
    /\ cur < MaxRecreations
    /\ cur' = cur + 1
    /\ main' = "created"
    /\ InitRng
    /\ UNCHANGED <<pc, thread, pin, windows, ui, keys, unfilled, shown, boot,
                   bootOf>>

(* Pending results are delivered before a window is resumed.               *)
FirstResume ==
    /\ UiIdle /\ main = "created" /\ results = <<>>
    /\ main' = "resumed"
    /\ UNCHANGED <<vars, generator, shown, boot, bootOf>>

(* A configuration change: the window on top is created anew, the ones     *)
(* below it when they come to the top, and only if the change lasts.       *)
Recreate ==
    /\ main # "none" /\ stack = <<>> /\ RecreateMain
    /\ InitRng
    /\ UNCHANGED <<keys, unfilled, process>>

Redraw ==
    /\ UiIdle /\ shown # {} /\ seeds + failures < MaxSeeds
    /\ shown' = {}
    /\ UNCHANGED <<vars, generator, main, boot, bootOf>>

(* PinpadActivity.onCreate shuffles the keys before it reads the amount.   *)
Unseen == UiIdle /\ stack # <<>> /\ Last(stack) \notin shown

ShowPad ==
    /\ Unseen /\ rng # NoKey
    /\ IsLong(Amount(Last(stack)))
    /\ RandomBytes(Last(stack))
    /\ shown' = shown \cup {Last(stack)}
    /\ UNCHANGED <<vars, main, boot, bootOf>>

(* mbedtls reads its round keys through a null pointer.                    *)
PadCrashes ==
    /\ Unseen /\ rng = NoKey
    /\ ui' = "dead"
    /\ UNCHANGED <<pc, thread, activity, windows, life>>

PadRejectsAmount ==
    /\ Unseen /\ rng # NoKey
    /\ PadThrows
    /\ RandomBytes(Last(stack))
    /\ UNCHANGED process

ClosePad ==
    /\ stack # <<>> /\ Last(stack) \in shown
    /\ PressBack \/ \E v \in Pins : PressOk(v)
    /\ shown' = shown \ {Last(stack)}
    /\ UNCHANGED <<generator, main, boot, bootOf>>

(* The button that may start a transaction can be clicked from now on.     *)
Clickable == main = "resumed"

Start(t) ==
    /\ Clickable
    /\ StartTransaction(t)
    /\ bootOf' = [bootOf EXCEPT ![t] = boot]
    /\ UNCHANGED <<generator, main, shown, boot>>

(* Android kills the process; it keeps the windows and the results that    *)
(* MainActivity has not been given.                                        *)
Gone == [t \in Txn |-> IF pc[t] \in {"idle", "done"} THEN pc[t] ELSE "gone"]

Kill ==
    /\ Alive /\ ui # "killed" /\ boot < MaxBoot
    /\ ui' = "killed"
    /\ pc' = Gone
    /\ main' = "none" /\ shown' = {}
    /\ UNCHANGED <<thread, activity, windows, generator, boot, bootOf>>

(* The next process: with the windows of a killed one; without the window  *)
(* on top of a crashed one, which counts as cancelled; or, after a second  *)
(* crash or a long time, with MainActivity alone.                          *)
Dismissed(pad) == [ok |-> FALSE, entry |-> [val |-> EmptyPin, pad |-> pad]]

Restart ==
    /\ ui \in {"dead", "killed"}
    /\ \/ ui = "killed" /\ UNCHANGED <<stack, results>>
       \/ /\ ui = "dead" /\ stack # <<>>
          /\ stack' = Front(stack)
          /\ results' = Append(results, Dismissed(Last(stack)))
       \/ stack' = <<>> /\ results' = <<>>
    /\ batch' = <<>>
    /\ pc' = Gone
    /\ ui' = "looper"
    /\ Loaded
    /\ main' = "none" /\ shown' = {}
    /\ boot' = boot + 1
    /\ UNCHANGED <<thread, activity, cancelled, keys, unfilled, seeds,
                   failures, bootOf>>

-----------------------------------------------------------------------------
LooperStep ==
    \/ CreateMain \/ FirstResume \/ ShowPad \/ PadCrashes \/ PadRejectsAmount
    \/ /\ \/ (main # "none" /\ ResumeMain)
          \/ OnResultOk \/ OnResultCancelled \/ NotifyAll
          \/ \E t \in Txn : ShowToast(t)
       /\ UNCHANGED life

LifeNext ==
    \/ LooperStep \/ ClosePad \/ Recreate \/ Redraw \/ Kill \/ Restart
    \/ \E t \in Txn : Start(t)
    \/ /\ \E t \in Txn : ThreadStep(t) \/ AttachFails(t) \/ SpuriousWakeup(t)
       /\ UNCHANGED life

LifeSpec == LifeInit /\ [][LifeNext]_lifeVars

(* The looper runs, and the user opens the app again when it is gone.      *)
FairLifeSpec == LifeSpec /\ WF_lifeVars(LooperStep) /\ WF_lifeVars(Restart)

-----------------------------------------------------------------------------
(* No PIN outlives its process.  A result that Android kept is handed to   *)
(* the new MainActivity, where it sets the field and wakes whoever waits;  *)
(* no transaction is ever answered with it, since all of them start later  *)
(* and enterPIN resets the field.                                          *)
NoPinOutlivesProcess ==
    \A t \in Txn : \A k \in DOMAIN entered[t] :
        LET pad == entered[t][k].pad
        IN  pad # NoPad => bootOf[pad[1]] = bootOf[t]

(* The user is never asked for a PIN by a window that an earlier process   *)
(* opened: such a pad is restored before the generator is seeded, and does *)
(* not survive that.                                                       *)
NoStrandedPadShown == \A pad \in shown : bootOf[pad[1]] = boot

(* Nothing but what is listed in Fatal ends the process while it shows its *)
(* own pads: that the generator is not seeded is met only by a pad of an   *)
(* earlier process.                                                        *)
CrashHasCause ==
    ~Alive => Fatal \/ (stack # <<>> /\ bootOf[Last(stack)[1]] # boot)

(* One failed initRng does not make two pads look alike; two may, as their *)
(* zero keys are the same, and nothing in the code reacts to a failure.    *)
(* Otherwise it takes a buffer that was handed over as the heap gave it.   *)
LayoutsDiffer ==
    \A p, q \in Pad : p # q /\ keys[p] = keys[q] /\ keys[p] # NoKey
        => failures > 1 \/ p \in unfilled \/ q \in unfilled

(* Stranded pads do not keep the user out: each crash of a restored pad    *)
(* takes one of them away, until MainActivity comes up (or the bound on    *)
(* its objects is reached).                                                *)
MainComesBack ==
    main = "none" ~>
        main = "resumed" \/ (main = "none" /\ cur = MaxRecreations)
=============================================================================
