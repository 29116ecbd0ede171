------------------------------- MODULE Pinpad -------------------------------
(***************************************************************************)
(* One window of PinpadActivity: the keys are shuffled when the window is  *)
(* created, a click appends the text of the key to the PIN and shows one   *)
(* more star, C empties the PIN, OK returns it.  Everything runs on the    *)
(* UI thread.  A click that was queued before the window went away is      *)
(* still handled after OK, and a configuration change replaces the window. *)
(***************************************************************************)
EXTENDS Integers, Sequences

CONSTANTS MaxKeys,     \* number of digit keys; MAX_KEYS is 10
          PinSize,     \* the PIN takes no more digits than this; 4
          Rnd,         \* the Java bytes that randomBytes may return
          NoResult,    \* the window has returned nothing
          MaxPresses   \* bound: digits pressed in one window

Key   == 0 .. MaxKeys - 1
Digit == Key           \* the texts of the keys

ASSUME PinpadAssumption ==
    /\ MaxKeys \in Nat \ {0} /\ PinSize \in Nat \ {0} /\ MaxPresses \in Nat
    /\ Rnd \subseteq -128..127
    /\ NoResult \notin Seq(Digit)

VARIABLES state,   \* in onCreate, open, finishing after OK, or left by Back
          rnd,     \* the random bytes of this window
          i,       \* the index of the shuffling loop
          labels,  \* the text of each key
          pin,     \* the digits entered
          stars,   \* the number of stars shown
          typed,   \* history: the digits pressed since the PIN was last
                   \* empty, up to OK
          result   \* the PIN that goes back to MainActivity

input == <<pin, stars, typed, result>>
vars  == <<state, rnd, i, labels, input>>

TypeOK ==
    /\ state \in {"shuffling", "open", "finishing", "left"}
    /\ rnd \in [Key -> Rnd]
    /\ i \in 0..MaxKeys
    /\ labels \in [Key -> Digit]
    /\ pin \in Seq(Digit)
    /\ stars \in 0..PinSize
    /\ typed \in Seq(Digit)
    /\ result \in Seq(Digit) \cup {NoResult}

(* The layout gives the key of a digit that digit as its text.             *)
Layout == [k \in Key |-> k]

Init ==
    /\ state = "shuffling" /\ i = 0
    /\ rnd \in [Key -> Rnd]
    /\ labels = Layout
    /\ pin = <<>> /\ stars = 0
    /\ typed = <<>> /\ result = NoResult

(* What the properties are there to exclude; not part of the model.        *)
SwappedWithoutTxt(f, a, b) == [f EXCEPT ![b] = f[a], ![a] = f[a]]
StarsForSize(size) == size                \* substring(4 - size)
RoomForOneMore(size) == size <= PinSize   \* <= for <

ResetStarsOnly ==                         \* pin = "" forgotten
    /\ state \in {"open", "finishing"}
    /\ stars' = 0
    /\ typed' = IF state = "open" THEN <<>> ELSE typed
    /\ UNCHANGED <<state, rnd, i, labels, pin, result>>

OkStaysOpen ==                            \* finish() forgotten
    /\ state = "open"
    /\ result' = pin
    /\ UNCHANGED <<state, rnd, i, labels, pin, stars, typed>>

(* (rnd[i] & 0xFF) % 10                                                    *)
Index(byte) == (byte % 256) % MaxKeys
Swapped(f, a, b) == [f EXCEPT ![b] = f[a], ![a] = f[b]]

ShuffleKey ==
    /\ state = "shuffling" /\ i < MaxKeys
    /\ labels' = Swapped(labels, i, Index(rnd[i]))
    /\ i' = i + 1
    /\ UNCHANGED <<state, rnd, input>>

Open ==
    /\ state = "shuffling" /\ i = MaxKeys
    /\ state' = "open"
    /\ UNCHANGED <<rnd, i, labels, input>>

HasRoom(size) == size < PinSize
Stars(size) == size + 1         \* "****".substring(3 - size)

keyClick(k) ==
    /\ state \in {"open", "finishing"}
    /\ Len(typed) < MaxPresses
    /\ typed' = IF state = "open" THEN Append(typed, labels[k]) ELSE typed
    /\ IF HasRoom(Len(pin))
       THEN pin' = Append(pin, labels[k]) /\ stars' = Stars(Len(pin))
       ELSE UNCHANGED <<pin, stars>>
    /\ UNCHANGED <<state, rnd, i, labels, result>>

Reset ==
    /\ state \in {"open", "finishing"}
    /\ pin' = <<>> /\ stars' = 0
    /\ typed' = IF state = "open" THEN <<>> ELSE typed
    /\ UNCHANGED <<state, rnd, i, labels, result>>

(* finish takes the result with it: later clicks do not change it.         *)
Ok ==
    /\ state = "open"
    /\ result' = pin
    /\ state' = "finishing"
    /\ UNCHANGED <<rnd, i, labels, pin, stars, typed>>

Back ==
    /\ state = "open"
    /\ state' = "left"
    /\ UNCHANGED <<rnd, i, labels, input>>

(* A configuration change: a new window with nothing of the old one.       *)
Recreate ==
    /\ state = "open"
    /\ state' = "shuffling" /\ i' = 0
    /\ rnd' \in [Key -> Rnd]
    /\ labels' = Layout
    /\ pin' = <<>> /\ stars' = 0
    /\ typed' = <<>>
    /\ UNCHANGED result

Next ==
    \/ ShuffleKey \/ Open \/ Reset \/ Ok \/ Back \/ Recreate
    \/ \E k \in Key : keyClick(k)

Spec == Init /\ [][Next]_vars

-----------------------------------------------------------------------------
(* Whatever bytes the generator returns, and after every single swap, each *)
(* digit is on exactly one key, so that every PIN can be typed.            *)
EveryDigitOnOneKey ==
    /\ \A d \in Digit : \E k \in Key : labels[k] = d
    /\ \A k, l \in Key : labels[k] = labels[l] => k = l

(* A window that is being created or recreated counts as visible.          *)
Visible == state \in {"shuffling", "open"}

PW == INSTANCE PadWindow WITH visible <- Visible, answer <- result

(* The window keeps the promise of PadWindow to its transaction, through   *)
(* recreations and late clicks: one answer at most, taken from the digits  *)
(* typed in the window as the user last saw it.                            *)
ImplementsPadWindow == PW!Spec

(* The PIN is the first PinSize digits pressed since it was last empty,    *)
(* read off the shuffled keys, and the user sees one star for each of its  *)
(* digits; OK returns it, and clicks that come after OK change nothing.    *)
PinIsTyped ==
    /\ Visible => pin = PW!Taken(typed)
    /\ state = "finishing" => result = PW!Taken(typed)

StarsShowPin == stars = Len(pin)
=============================================================================
