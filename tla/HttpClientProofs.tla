-------------------------- MODULE HttpClientProofs --------------------------
(***************************************************************************)
(* Theorems about HttpClient, for any clicks, transactions and pages.      *)
(***************************************************************************)
EXTENDS HttpClient, SequenceFacts

USE HttpClientAssumption

Message == ClickMsg \cup ToastMsg

LEMMA MessageKinds ==
    /\ \A m \in ClickMsg : m.kind = "click" /\ m.from \in Click
    /\ \A m \in ToastMsg : m.kind = "toast" /\ m.from \in Source
    /\ \A m \in Message : /\ m.kind = "click" => m \in ClickMsg
                          /\ m.kind = "toast" => m \in ToastMsg
  BY DEF ClickMsg, ToastMsg, Message

Typed ==
    /\ pc \in [Source -> Pcs]
    /\ page \in [Click -> Html] /\ title \in [Click -> Text]
    /\ looper \in Seq(Message)
    /\ toasts \in Seq(ToastMsg) /\ seen \in Seq(ToastMsg)
    /\ dropped \subseteq ToastMsg

(* A click is queued once, and its thread has the title of its own page.   *)
QueuedOnce ==
    \A j, k \in 1..Len(looper) :
        /\ looper[j].kind = "click" /\ looper[k].kind = "click"
        /\ looper[j].from = looper[k].from
        => j = k

OwnTitle == \A c \in Click : pc[c] = "titled" => title[c] = getPageTitle(page[c])

Inv == Typed /\ TypeOK /\ QueuedOnce /\ OwnTitle /\ ToastIsOwn

LEMMA AnnouncedTyped == Typed => Announced \subseteq ToastMsg
<1>. SUFFICES ASSUME Typed PROVE Announced \subseteq ToastMsg
  OBVIOUS
<1>1. ToSet(toasts) \subseteq ToastMsg /\ ToSet(seen) \subseteq ToastMsg
  BY ToSetType DEF Typed
<1>2. ToSet(looper) \subseteq Message
  BY ToSetType DEF Typed
<1>. QED
  BY <1>1, <1>2, MessageKinds DEF Announced, Typed

LEMMA InitInv == Init => Inv
<1>. SUFFICES ASSUME Init PROVE Inv
  OBVIOUS
<1>1. /\ looper = <<>> /\ toasts = <<>> /\ seen = <<>> /\ dropped = {}
      /\ ToSet(looper) = {} /\ ToSet(toasts) = {} /\ ToSet(seen) = {}
      /\ Len(looper) = 0 /\ Len(toasts) = 0
  BY ToSetEmpty, EmptySeq DEF Init
<1>2. Typed
  BY <1>1, EmptySeq DEF Init, Typed, Pcs, Html, Text
<1>3. Announced = {}
  BY <1>1 DEF Announced
<1>4. TypeOK
  BY <1>1, <1>3, ToSetEmpty DEF Init, TypeOK, Pcs, Source
<1>5. QueuedOnce /\ OwnTitle /\ ToastIsOwn
  BY <1>1, <1>3 DEF Init, QueuedOnce, OwnTitle, ToastIsOwn, Source
<1>. QED
  BY <1>2, <1>4, <1>5 DEF Inv

(* Steps of the threads that send nothing.                                 *)
LEMMA ThreadInv ==
    ASSUME Inv, NEW c \in Click,
           testHttpClient(c) \/ Connect(c) \/ Fail(c) \/ TakeTitle(c)
             \/ \E html \in Pages : Answer(c, html)
    PROVE  Inv'
<1>. USE DEF Inv
<1>1. /\ UNCHANGED <<looper, toasts, seen, dropped>>
      /\ pc[c] \in {"outer", "worker", "reading", "read"}
      /\ c \in Source /\ pc' = [pc EXCEPT ![c] = pc'[c]]
      /\ pc'[c] \in {"worker", "reading", "logged", "read", "titled"}
  BY DEF testHttpClient, Connect, Fail, TakeTitle, Answer, Source, Typed
<1>2. /\ page' \in [Click -> Html] /\ title' \in [Click -> Text]
      /\ \A d \in Click \ {c} : page'[d] = page[d] /\ title'[d] = title[d]
      /\ pc'[c] = "titled" => title'[c] = getPageTitle(page'[c])
  BY DEF testHttpClient, Connect, Fail, TakeTitle, Answer, Typed, Html, Text
<1>3. Announced' = Announced
  BY <1>1 DEF Announced
<1>4. Typed'
  BY <1>1, <1>2 DEF Typed, Pcs
<1>5. \A s \in Source : pc[s] \in {"clicked", "posted"} => pc'[s] = pc[s] /\ s # c
  BY <1>1 DEF Typed
<1>6. \A m \in ToSet(looper) : m.kind = "click" => m.from \in Source
  BY ToSetType, MessageKinds DEF Typed, Source
<1>7. TypeOK'
  BY <1>1, <1>2, <1>3, <1>4, <1>5, <1>6, AnnouncedTyped, MessageKinds
  DEF TypeOK, Typed, Html
<1>8. QueuedOnce'
  BY <1>1 DEF QueuedOnce
<1>9. OwnTitle'
  BY <1>1, <1>2 DEF OwnTitle, Typed, Source
<1>10. ToastIsOwn'
  <2>1. ASSUME NEW m \in Announced, m.from \in Click
        PROVE  page'[m.from] = page[m.from]
    BY <1>1, <1>2, <2>1 DEF TypeOK
  <2>. QED
    BY <1>3, <2>1 DEF ToastIsOwn
<1>. QED
  BY <1>4, <1>7, <1>8, <1>9, <1>10

(* What a message at the end, or none at the head, does to the queue.      *)
LEMMA QueueAppend ==
    ASSUME Typed, NEW m \in Message, looper' = Append(looper, m)
    PROVE  /\ looper' \in Seq(Message)
           /\ ToSet(looper') = ToSet(looper) \cup {m}
           /\ \A k \in 1..Len(looper) : looper'[k] = looper[k]
           /\ Len(looper') = Len(looper) + 1 /\ looper'[Len(looper) + 1] = m
  BY AppendProperties, ToSetAppend DEF Typed

LEMMA QueueTail ==
    ASSUME Typed, looper # <<>>, looper' = Tail(looper)
    PROVE  /\ Len(looper) \in Nat \ {0} /\ Head(looper) = looper[1]
           /\ Head(looper) \in Message /\ looper' \in Seq(Message)
           /\ ToSet(looper) = ToSet(looper') \cup {Head(looper)}
           /\ Len(looper') = Len(looper) - 1
           /\ \A k \in 1 .. Len(looper) - 1 : looper'[k] = looper[k + 1]
<1>1. Len(looper) \in Nat \ {0}
  BY EmptySeq DEF Typed
<1>. QED
  BY <1>1, HeadTailProperties, ToSetTail DEF Typed

LEMMA TailOnce ==
    ASSUME Typed, QueuedOnce, looper # <<>>, looper' = Tail(looper)
    PROVE  QueuedOnce'
<1>1. /\ Len(looper) \in Nat \ {0} /\ Len(looper') = Len(looper) - 1
      /\ \A k \in 1 .. Len(looper) - 1 : looper'[k] = looper[k + 1]
  BY QueueTail
<1>2. ASSUME NEW j \in 1..Len(looper'), NEW k \in 1..Len(looper'),
             looper'[j].kind = "click", looper'[k].kind = "click",
             looper'[j].from = looper'[k].from
      PROVE  j = k
  <2>1. j + 1 \in 1..Len(looper) /\ k + 1 \in 1..Len(looper)
    BY <1>1
  <2>2. looper'[j] = looper[j + 1] /\ looper'[k] = looper[k + 1]
    BY <1>1
  <2>3. j + 1 = k + 1
    BY <1>2, <2>1, <2>2 DEF QueuedOnce
  <2>. QED
    BY <1>1, <2>3
<1>. QED
  BY <1>2 DEF QueuedOnce

LEMMA ClickInv ==
    ASSUME Inv, NEW c \in Click, ClickButton(c)
    PROVE  Inv'
<1>. USE DEF Inv
<1>1. /\ pc[c] = "idle" /\ pc' = [pc EXCEPT ![c] = "clicked"] /\ c \in Source
      /\ UNCHANGED <<page, title, toasts, seen, dropped>>
  BY DEF ClickButton, Source
<1>2. PICK m \in Message : m = ClickOf(c) /\ m.kind = "click" /\ m.from = c
  <2>1. ClickOf(c) \in ClickMsg
    BY DEF ClickOf, ClickMsg
  <2>2. ClickOf(c).kind = "click" /\ ClickOf(c).from = c
    BY DEF ClickOf
  <2>. QED
    BY <2>1, <2>2 DEF Message
<1>3. /\ looper' \in Seq(Message)
      /\ ToSet(looper') = ToSet(looper) \cup {m}
      /\ \A k \in 1..Len(looper) : looper'[k] = looper[k]
      /\ Len(looper') = Len(looper) + 1 /\ looper'[Len(looper) + 1] = m
      /\ Len(looper) \in Nat
  BY <1>2, QueueAppend, LenProperties DEF ClickButton, Typed
<1>4. Typed'
  BY <1>1, <1>3 DEF Typed, Pcs
<1>5. Announced' = Announced
  BY <1>1, <1>2, <1>3 DEF Announced
<1>6. \A d \in ToSet(looper) : d.kind = "click" => d.from \in Source /\ d.from # c
  BY <1>1, ToSetType, MessageKinds DEF Typed, TypeOK, Source
<1>7. \A d \in Announced : d.from \in Source /\ d.from # c
  BY <1>1, AnnouncedTyped, MessageKinds DEF TypeOK
<1>8. TypeOK'
  <2>1. \A d \in ToSet(looper') : d.kind = "click" => pc'[d.from] = "clicked"
    BY <1>1, <1>2, <1>3, <1>6 DEF TypeOK, Typed
  <2>2. \A d \in Announced' : pc'[d.from] = "posted"
    BY <1>1, <1>5, <1>7 DEF TypeOK, Typed
  <2>. QED
    BY <1>1, <1>4, <2>1, <2>2 DEF TypeOK, Typed
<1>9. QueuedOnce'
  <2>1. \A k \in 1..Len(looper) : looper[k] \in ToSet(looper)
    BY DEF ToSet, Typed
  <2>2. \A k \in 1..Len(looper) :
           looper[k].kind = "click" => looper[k].from # looper'[Len(looper) + 1].from
    BY <1>2, <1>3, <1>6, <2>1
  <2>. QED
    BY <1>3, <2>2 DEF QueuedOnce
<1>10. OwnTitle' /\ ToastIsOwn'
  BY <1>1, <1>5 DEF OwnTitle, ToastIsOwn, Typed, Source
<1>. QED
  BY <1>4, <1>8, <1>9, <1>10

(* A toast is posted, and with it the work of its source is done.          *)
LEMMA PostInv ==
    ASSUME Inv, NEW s \in Source, NEW m \in ToastMsg, m.from = s,
           pc[s] \notin {"clicked", "posted"},
           s \in Click => /\ m.text = getPageTitle(page[s])
                          /\ m.good = (m.text # Portal),
           looper' = Append(looper, m), pc' = [pc EXCEPT ![s] = "posted"],
           UNCHANGED <<page, title, toasts, seen, dropped>>
    PROVE  Inv'
<1>. USE DEF Inv
<1>1. m \in Message /\ m.kind = "toast"
  BY MessageKinds DEF Message
<1>2. /\ looper' \in Seq(Message)
      /\ ToSet(looper') = ToSet(looper) \cup {m}
      /\ \A k \in 1..Len(looper) : looper'[k] = looper[k]
      /\ Len(looper') = Len(looper) + 1 /\ looper'[Len(looper) + 1] = m
      /\ Len(looper) \in Nat
  BY <1>1, QueueAppend, LenProperties DEF Typed
<1>3. Typed'
  BY <1>2 DEF Typed, Pcs
<1>4. Announced' = Announced \cup {m}
  BY <1>1, <1>2 DEF Announced
<1>5. \A d \in ToSet(looper) : d.kind = "click" => d.from \in Source /\ d.from # s
  BY ToSetType, MessageKinds DEF Typed, TypeOK, Source
<1>6. \A d \in Announced : d.from \in Source /\ d.from # s
  BY AnnouncedTyped, MessageKinds DEF TypeOK
<1>7. TypeOK'
  <2>1. \A d \in ToSet(looper') : d.kind = "click" => pc'[d.from] = "clicked"
    BY <1>1, <1>2, <1>5 DEF TypeOK, Typed
  <2>2. \A d \in Announced' : pc'[d.from] = "posted"
    BY <1>4, <1>6 DEF TypeOK, Typed
  <2>. QED
    BY <1>3, <2>1, <2>2 DEF TypeOK, Typed
<1>8. QueuedOnce'
  BY <1>1, <1>2 DEF QueuedOnce
<1>9. OwnTitle' /\ ToastIsOwn'
  BY <1>4 DEF OwnTitle, ToastIsOwn, Typed, Source
<1>. QED
  BY <1>3, <1>7, <1>8, <1>9

LEMMA PostVerdictInv ==
    ASSUME Inv, NEW c \in Click, PostVerdict(c)
    PROVE  Inv'
<1>1. c \in Source /\ title[c] \in Text /\ title[c] = getPageTitle(page[c])
  BY DEF PostVerdict, Inv, OwnTitle, Typed, Source
<1>2. PICK m \in ToastMsg : m = Toast(c, title[c], title[c] # Portal)
  <2>1. \A good \in BOOLEAN : Toast(c, title[c], good) \in ToastMsg
    BY <1>1 DEF Toast, ToastMsg
  <2>2. (title[c] # Portal) \in BOOLEAN
    OBVIOUS
  <2>. QED
    BY <2>1, <2>2
<1>3. m.from = c /\ m.text = title[c] /\ m.good = (m.text # Portal)
  BY <1>2 DEF Toast
<1>. QED
  BY <1>1, <1>2, <1>3, PostInv DEF PostVerdict

LEMMA transactionResultInv ==
    ASSUME Inv, NEW t \in Txn, NEW result \in BOOLEAN,
           transactionResult(t, result)
    PROVE  Inv'
<1>1. t \in Source /\ t \notin Click
  BY DEF Source
<1>2. PICK m \in ToastMsg : m = Toast(t, <<>>, result)
  BY <1>1 DEF Toast, ToastMsg, Text
<1>3. m.from = t
  BY <1>2 DEF Toast
<1>. QED
  BY <1>1, <1>2, <1>3, PostInv DEF transactionResult

(* The looper handles a click: it was queued once, so no other is affected.*)
LEMMA onButtonClickInv ==
    ASSUME Inv, onButtonClick
    PROVE  Inv'
<1>. USE DEF Inv
<1>1. /\ looper # <<>> /\ looper' = Tail(looper) /\ Head(looper).kind = "click"
      /\ UNCHANGED <<page, title, toasts, seen, dropped>>
  BY DEF onButtonClick
<1>2. /\ Len(looper) \in Nat \ {0} /\ Head(looper) = looper[1]
      /\ Head(looper) \in Message /\ looper' \in Seq(Message)
      /\ ToSet(looper) = ToSet(looper') \cup {Head(looper)}
      /\ Len(looper') = Len(looper) - 1
      /\ \A k \in 1 .. Len(looper) - 1 : looper'[k] = looper[k + 1]
  BY <1>1, QueueTail
<1>3. PICK c \in Click : c = Head(looper).from
  BY <1>1, <1>2, MessageKinds
<1>4. /\ pc[c] = "clicked" /\ c \in Source
      /\ pc' = [pc EXCEPT ![c] = "outer"]
  BY <1>1, <1>2, <1>3 DEF onButtonClick, TypeOK, Source
<1>5. Typed' /\ Announced' = Announced
  BY <1>1, <1>2, <1>4 DEF Typed, Pcs, Announced
<1>6. \A m \in Announced : m.from \in Source /\ m.from # c
  BY <1>4, AnnouncedTyped, MessageKinds DEF TypeOK
<1>7. \A d \in ToSet(looper') : d.kind = "click" => d.from \in Source /\ d.from # c
  <2>1. ASSUME NEW k \in 1..Len(looper'), looper'[k].kind = "click"
        PROVE  looper'[k].from \in Source /\ looper'[k].from # c
    <3>1. k + 1 \in 1..Len(looper) /\ 1 \in 1..Len(looper) /\ k + 1 # 1
      BY <1>2
    <3>2. looper'[k] = looper[k + 1] /\ looper[k + 1] \in Message
      BY <1>2, <3>1, ElementOfSeq DEF Typed
    <3>3. looper[1].kind = "click" /\ looper[1].from = c
      BY <1>1, <1>2, <1>3
    <3>4. looper[k + 1].from # c
      BY <2>1, <3>1, <3>2, <3>3 DEF QueuedOnce
    <3>5. looper[k + 1].from \in Source
      BY <2>1, <3>2, MessageKinds DEF Source
    <3>. QED
      BY <3>2, <3>4, <3>5
  <2>2. DOMAIN looper' = 1..Len(looper')
    BY <1>2
  <2>. QED
    BY <2>1, <2>2 DEF ToSet
<1>8. TypeOK'
  <2>1. \A d \in ToSet(looper') : d.kind = "click" => pc'[d.from] = "clicked"
    BY <1>2, <1>4, <1>7 DEF TypeOK, Typed
  <2>2. \A m \in Announced' : pc'[m.from] = "posted"
    BY <1>4, <1>5, <1>6 DEF TypeOK, Typed
  <2>. QED
    BY <1>1, <1>5, <2>1, <2>2 DEF TypeOK, Typed
<1>9. QueuedOnce'
  BY <1>1, TailOnce
<1>10. OwnTitle' /\ ToastIsOwn'
  BY <1>1, <1>4, <1>5 DEF OwnTitle, ToastIsOwn, Typed, Source
<1>. QED
  BY <1>5, <1>8, <1>9, <1>10

(* Toasts that move on are no new toasts.                                  *)
LEMMA MoveInv ==
    ASSUME Inv, Typed', QueuedOnce', Len(toasts') <= ToastLimit,
           UNCHANGED <<pc, page, title>>,
           Announced' \subseteq Announced,
           ToSet(looper') \subseteq ToSet(looper)
    PROVE  Inv'
<1>1. TypeOK'
  BY DEF Inv, TypeOK
<1>2. OwnTitle' /\ ToastIsOwn'
  BY DEF Inv, OwnTitle, ToastIsOwn
<1>. QED
  BY <1>1, <1>2 DEF Inv

LEMMA ShowToastInv ==
    ASSUME Inv, ShowToast
    PROVE  Inv'
<1>. USE DEF Inv
<1>1. /\ looper # <<>> /\ looper' = Tail(looper) /\ Head(looper).kind = "toast"
      /\ UNCHANGED <<pc, page, title, seen>>
  BY DEF ShowToast
<1>2. PICK m \in ToastMsg : m = Head(looper)
  BY <1>1, QueueTail, MessageKinds
<1>3. /\ looper' \in Seq(Message)
      /\ ToSet(looper) = ToSet(looper') \cup {m} /\ m.kind = "toast"
  BY <1>1, <1>2, QueueTail
<1>4. \/ /\ Len(toasts) < ToastLimit
         /\ toasts' = Append(toasts, m) /\ dropped' = dropped
      \/ dropped' = dropped \cup {m} /\ toasts' = toasts
  BY <1>2 DEF ShowToast
<1>5. /\ toasts' \in Seq(ToastMsg) /\ Len(toasts') <= ToastLimit
      /\ ToSet(toasts') \cup dropped' = ToSet(toasts) \cup dropped \cup {m}
      /\ dropped' \subseteq ToastMsg
  <2>1. toasts \in Seq(ToastMsg) /\ Len(toasts) \in Nat /\ Len(toasts) <= ToastLimit
    BY LenProperties DEF Typed, TypeOK
  <2>2. /\ Append(toasts, m) \in Seq(ToastMsg)
        /\ Len(Append(toasts, m)) = Len(toasts) + 1
        /\ ToSet(Append(toasts, m)) = ToSet(toasts) \cup {m}
    BY <2>1, AppendProperties, ToSetAppend
  <2>3. CASE /\ Len(toasts) < ToastLimit
             /\ toasts' = Append(toasts, m) /\ dropped' = dropped
    <3>1. Len(toasts') <= ToastLimit
      BY <2>1, <2>2, <2>3
    <3>. QED
      BY <2>2, <2>3, <3>1 DEF Typed
  <2>4. CASE dropped' = dropped \cup {m} /\ toasts' = toasts
    BY <2>1, <2>4 DEF Typed
  <2>. QED
    BY <1>4, <2>3, <2>4
<1>6. Typed' /\ QueuedOnce'
  BY <1>1, <1>3, <1>5, TailOnce DEF Typed
<1>7. Announced' \subseteq Announced
  BY <1>1, <1>3, <1>5 DEF Announced
<1>. QED
  BY <1>1, <1>3, <1>5, <1>6, <1>7, MoveInv

LEMMA DisplayInv ==
    ASSUME Inv, Display
    PROVE  Inv'
<1>. USE DEF Inv
<1>1. /\ toasts # <<>> /\ toasts' = Tail(toasts)
      /\ seen' = Append(seen, Head(toasts))
      /\ UNCHANGED <<pc, page, title, looper, dropped>>
  BY DEF Display
<1>2. toasts \in Seq(ToastMsg) /\ seen \in Seq(ToastMsg)
  BY DEF Typed
<1>3. /\ Head(toasts) \in ToastMsg /\ toasts' \in Seq(ToastMsg)
      /\ Len(toasts') = Len(toasts) - 1 /\ Len(toasts) \in Nat
      /\ ToSet(toasts) = ToSet(toasts') \cup {Head(toasts)}
  BY <1>1, <1>2, HeadTailProperties, LenProperties, ToSetTail
<1>4. seen' \in Seq(ToastMsg) /\ ToSet(seen') = ToSet(seen) \cup {Head(toasts)}
  BY <1>1, <1>2, <1>3, AppendProperties, ToSetAppend
<1>5. Announced' \subseteq Announced
  BY <1>1, <1>3, <1>4 DEF Announced
<1>6. Typed' /\ QueuedOnce'
  BY <1>1, <1>3, <1>4 DEF Typed, QueuedOnce
<1>7. Len(toasts') <= ToastLimit
  BY <1>3 DEF TypeOK
<1>. QED
  BY <1>1, <1>5, <1>6, <1>7, MoveInv

LEMMA NextInv == Inv /\ [Next]_vars => Inv'
<1>. SUFFICES ASSUME Inv, [Next]_vars PROVE Inv'
  OBVIOUS
<1>1. CASE \E c \in Click : \/ ThreadStep(c) \/ ClickButton(c) \/ Fail(c)
                            \/ \E html \in Pages : Answer(c, html)
  BY <1>1, ThreadInv, ClickInv, PostVerdictInv DEF ThreadStep
<1>2. CASE \E t \in Txn, result \in BOOLEAN : transactionResult(t, result)
  BY <1>2, transactionResultInv
<1>3. CASE UiStep \/ Display
  BY <1>3, onButtonClickInv, ShowToastInv, DisplayInv DEF UiStep
<1>4. CASE UNCHANGED vars
  BY <1>4 DEF vars, Inv, Typed, TypeOK, QueuedOnce, OwnTitle, ToastIsOwn,
     Announced
<1>. QED
  BY <1>1, <1>2, <1>3, <1>4 DEF Next

(* No click is handled twice and no source has two toasts outstanding that *)
(* its state does not account for; the notification service is never asked *)
(* to keep more toasts than it takes.                                      *)
THEOREM QueueTyped == Spec => []TypeOK
<1>1. Inv => TypeOK
  BY DEF Inv
<1>. QED
  BY <1>1, InitInv, NextInv, PTL DEF Spec

(* With any number of clicks whose threads overlap (testHttpClient starts  *)
(* one for each and never joins it), a toast tells the title of the page   *)
(* that its own click has fetched.                                         *)
THEOREM ToastsOwn == Spec => []ToastIsOwn
<1>1. Inv => ToastIsOwn
  BY DEF Inv
<1>. QED
  BY <1>1, InitInv, NextInv, PTL DEF Spec

-----------------------------------------------------------------------------
(* The regular expression against the element it is meant to find.         *)
LEMMA StartHasElement ==
    ASSUME NEW html \in Seq(STRING), Starts(html) # {}
    PROVE  \E i, j \in DOMAIN html : Element(html, i, j)
<1>1. DOMAIN html = 1..Len(html) /\ Len(html) \in Nat
  BY LenProperties
<1>2. PICK s \in DOMAIN html : html[s] = "<title>" /\ Ends(html, s) # {}
  BY DEF Starts
<1>3. PICK e \in s + 2 .. Len(html) : html[e] = "</title>"
  BY <1>2 DEF Ends
<1>4. PICK i \in DOMAIN html :
         /\ html[i] = "<title>" /\ i <= s
         /\ \A k \in DOMAIN html : html[k] = "<title>" => i <= k
  <2>. DEFINE Opening == {k \in DOMAIN html : html[k] = "<title>"}
  <2>1. Opening \subseteq Nat /\ s \in Opening
    BY <1>1, <1>2
  <2>2. Min(Opening) \in Opening /\ \A k \in Opening : Min(Opening) <= k
    BY <2>1, Least
  <2>. QED
    BY <2>1, <2>2
<1>5. PICK j \in DOMAIN html :
         /\ html[j] = "</title>" /\ i < j
         /\ \A k \in DOMAIN html : html[k] = "</title>" /\ i < k => j <= k
  <2>. DEFINE Closing == {k \in DOMAIN html : html[k] = "</title>" /\ i < k}
  <2>1. Closing \subseteq Nat /\ e \in Closing
    BY <1>1, <1>3, <1>4
  <2>2. Min(Closing) \in Closing /\ \A k \in Closing : Min(Closing) <= k
    BY <2>1, Least
  <2>. QED
    BY <2>1, <2>2
<1>6. \A k \in 1 .. i - 1 : html[k] # "<title>"
  BY <1>1, <1>4
<1>7. \A k \in i + 1 .. j - 1 : html[k] # "</title>"
  BY <1>1, <1>5
<1>. QED
  BY <1>4, <1>5, <1>6, <1>7 DEF Element

LEMMA TitleOfElement ==
    ASSUME NEW html \in Seq(STRING),
           NEW i \in DOMAIN html, NEW j \in DOMAIN html, Element(html, i, j)
    PROVE  \/ j # i + 1 /\ getPageTitle(html) = SubSeq(html, i + 1, j - 1)
           \/ /\ j = i + 1
              /\ \/ getPageTitle(html) = NotFound
                 \/ Head(getPageTitle(html)) = "</title>"
<1>1. DOMAIN html = 1..Len(html) /\ Len(html) \in Nat
  BY LenProperties
<1>2. /\ i < j /\ html[i] = "<title>" /\ html[j] = "</title>"
      /\ \A k \in 1 .. i - 1 : html[k] # "<title>"
      /\ \A k \in i + 1 .. j - 1 : html[k] # "</title>"
  BY DEF Element
<1>3. CASE Starts(html) = {}
  <2>1. getPageTitle(html) = NotFound
    BY <1>3 DEF getPageTitle
  <2>2. Ends(html, i) = {}
    BY <1>2, <1>3 DEF Starts
  <2>3. j = i + 1
    BY <1>1, <1>2, <2>2 DEF Ends
  <2>. QED
    BY <2>1, <2>3
<1>4. CASE Starts(html) # {}
  <2>1. Starts(html) \subseteq Nat
    BY <1>1 DEF Starts
  <2>2. PICK s \in Starts(html) :
           s = Min(Starts(html)) /\ \A k \in Starts(html) : s <= k
    BY <1>4, <2>1, Least
  <2>3. PICK f \in Ends(html, s) : TRUE
    BY <2>2 DEF Starts
  <2>4. s \in DOMAIN html /\ html[s] = "<title>"
    BY <2>2 DEF Starts
  <2>5. i <= s
    BY <1>1, <1>2, <2>4
  <2>6. f \in Ends(html, i)
    BY <1>1, <2>3, <2>4, <2>5 DEF Ends
  <2>7. s = i
    <3>1. i \in Starts(html)
      BY <1>2, <2>6 DEF Starts
    <3>2. s <= i
      BY <2>2, <3>1
    <3>. QED
      BY <1>1, <2>4, <2>5, <3>2
  <2>8. Ends(html, i) \subseteq Nat
    BY <1>1 DEF Ends
  <2>9. PICK e \in Ends(html, i) :
           e = Min(Ends(html, i)) /\ \A k \in Ends(html, i) : e <= k
    BY <2>6, <2>8, Least
  <2>10. /\ e \in i + 2 .. Len(html) /\ html[e] = "</title>"
         /\ getPageTitle(html) = SubSeq(html, i + 1, e - 1)
    BY <1>4, <2>2, <2>7, <2>9 DEF Ends, getPageTitle
  <2>11. CASE j = i + 1
    <3>1. Head(SubSeq(html, i + 1, e - 1)) = html[i + 1]
      BY <1>1, <2>10, HeadTailOfSubSeq
    <3>. QED
      BY <1>2, <2>10, <2>11, <3>1
  <2>12. CASE j # i + 1
    <3>1. j \in Ends(html, i)
      BY <1>1, <1>2, <2>12 DEF Ends
    <3>2. e <= j
      BY <2>9, <3>1
    <3>3. e \notin i + 1 .. j - 1
      BY <1>2, <2>10
    <3>4. e = j
      BY <1>1, <2>10, <3>2, <3>3
    <3>. QED
      BY <2>10, <2>12, <3>4
  <2>. QED
    BY <2>11, <2>12
<1>. QED
  BY <1>3, <1>4

(* On every page, of any length, getPageTitle takes the title element that *)
(* a parser of HTML would find, except for an empty one.                   *)
THEOREM TitlesFound == Spec => []TitleIsElement
<1>1. ASSUME Inv
      PROVE  TitleIsElement
  <2>1. SUFFICES ASSUME NEW c \in Click, pc[c] = "titled"
                 PROVE  LET html == page[c]
                        IN  /\ \/ title[c] = NotFound
                               \/ \E i, j \in DOMAIN html : Element(html, i, j)
                            /\ \A i, j \in DOMAIN html : Element(html, i, j) =>
                                  \/ /\ j # i + 1
                                     /\ title[c] = SubSeq(html, i + 1, j - 1)
                                  \/ /\ j = i + 1
                                     /\ \/ title[c] = NotFound
                                        \/ Head(title[c]) = "</title>"
    BY DEF TitleIsElement
  <2>2. title[c] = getPageTitle(page[c])
    BY <1>1, <2>1 DEF Inv, OwnTitle
  <2>3. page[c] \in Seq(STRING)
    BY <1>1, EmptySeq DEF Inv, Typed, Html
  <2>4. Starts(page[c]) = {} => title[c] = NotFound
    BY <2>2 DEF getPageTitle
  <2>. QED
    BY <2>2, <2>3, <2>4, StartHasElement, TitleOfElement
<1>. QED
  BY <1>1, InitInv, NextInv, PTL DEF Spec

-----------------------------------------------------------------------------
(* Where the toast of a source is.  Nobody has two toasts in the line or a *)
(* second one among those that were refused, and whoever has posted has    *)
(* one of either kind.                                                     *)
Waiting == toasts \o looper
IsToastOf(m, s) == m.kind = "toast" /\ m.from = s

LineOnce ==
    \A j, k \in 1..Len(Line) :
        Line[j].kind = "toast" /\ Line[k].kind = "toast" /\ Line[j].from = Line[k].from
            => j = k

RefusedOnce ==
    \A m \in dropped :
        /\ \A n \in dropped : m.from = n.from => m = n
        /\ \A k \in 1..Len(Line) : ~IsToastOf(Line[k], m.from)

EachHasToast ==
    \A s \in Source : pc[s] = "posted" =>
        \/ \E k \in 1..Len(Line) : IsToastOf(Line[k], s)
        \/ \E m \in dropped : m.from = s

PlaceInv == LineOnce /\ RefusedOnce /\ EachHasToast

LEMMA LineTyped ==
    ASSUME Typed
    PROVE  /\ seen \in Seq(Message) /\ toasts \in Seq(Message)
           /\ looper \in Seq(Message) /\ seen \o toasts \in Seq(Message)
           /\ Waiting \in Seq(Message) /\ Line \in Seq(Message)
           /\ Line = (seen \o toasts) \o looper
<1>1. /\ seen \in Seq(Message) /\ toasts \in Seq(Message)
      /\ looper \in Seq(Message)
  BY SeqMonotonic DEF Typed, Message
<1>2. seen \o toasts \in Seq(Message) /\ Waiting \in Seq(Message)
  BY <1>1, ConcatProperties DEF Waiting
<1>3. Line = (seen \o toasts) \o looper
  BY <1>1, ConcatAssociative DEF Line
<1>. QED
  BY <1>1, <1>2, <1>3, ConcatProperties

(* Every toast in the line is announced, so its source has posted.         *)
LEMMA LineAnnounced ==
    ASSUME Typed
    PROVE  \A k \in 1..Len(Line) : Line[k].kind = "toast" => Line[k] \in Announced
<1>1. /\ seen \in Seq(Message) /\ toasts \in Seq(Message)
      /\ looper \in Seq(Message) /\ seen \o toasts \in Seq(Message)
      /\ Line \in Seq(Message) /\ Line = (seen \o toasts) \o looper
  BY LineTyped
<1>2. ToSet(Line) = ToSet(seen) \cup ToSet(toasts) \cup ToSet(looper)
  <2>1. \A s, t \in Seq(Message) : ToSet(s \o t) = ToSet(s) \cup ToSet(t)
    BY ToSetConcat
  <2>2. ToSet(Line) = ToSet(seen \o toasts) \cup ToSet(looper)
    BY <1>1, <2>1
  <2>. QED
    BY <1>1, <2>1, <2>2
<1>3. \A k \in 1..Len(Line) : Line[k] \in ToSet(Line)
  BY <1>1, LenProperties DEF ToSet
<1>. QED
  BY <1>2, <1>3 DEF Announced

LEMMA PlaceInit == Init => PlaceInv
<1>. SUFFICES ASSUME Init PROVE PlaceInv
  OBVIOUS
<1>1. Line = <<>> /\ Len(Line) = 0
  BY ConcatEmptySeq, EmptySeq DEF Init, Line
<1>. QED
  BY <1>1 DEF Init, PlaceInv, LineOnce, RefusedOnce, EachHasToast, Source

(* What a step does to the line: nothing, ...                              *)
LEMMA PlaceSame ==
    ASSUME PlaceInv, Line' = Line, dropped' = dropped,
           \A s \in Source : pc'[s] = "posted" => pc[s] = "posted"
    PROVE  PlaceInv'
  BY DEF PlaceInv, LineOnce, RefusedOnce, EachHasToast

(* ... add a message at its end, a toast only of a source that has none,   *)
LEMMA PlaceGrow ==
    ASSUME Typed, PlaceInv, NEW m \in Message,
           Line' = Append(Line, m), dropped' = dropped,
           m.kind = "toast" =>
               \A n \in Announced : n.from # m.from,
           \A s \in Source :
               pc'[s] = "posted" => pc[s] = "posted" \/ IsToastOf(m, s)
    PROVE  PlaceInv'
<1>1. Line \in Seq(Message) /\ Len(Line) \in Nat
  BY LineTyped, LenProperties
<1>2. /\ Len(Line') = Len(Line) + 1 /\ Line'[Len(Line) + 1] = m
      /\ \A k \in 1..Len(Line) : Line'[k] = Line[k]
  BY <1>1, AppendProperties
<1>3. m.kind = "toast" =>
         /\ \A k \in 1..Len(Line) : ~IsToastOf(Line[k], m.from)
         /\ \A n \in dropped : n.from # m.from
  BY LineAnnounced DEF IsToastOf, Announced
<1>4. LineOnce'
  BY <1>1, <1>2, <1>3 DEF PlaceInv, LineOnce, IsToastOf
<1>5. RefusedOnce'
  BY <1>1, <1>2, <1>3 DEF PlaceInv, RefusedOnce, IsToastOf
<1>6. EachHasToast'
  <2>1. ASSUME NEW s \in Source, pc'[s] = "posted"
        PROVE  \/ \E k \in 1..Len(Line') : IsToastOf(Line'[k], s)
               \/ \E n \in dropped : n.from = s
    <3>1. CASE IsToastOf(m, s)
      BY <1>1, <1>2, <3>1
    <3>2. CASE pc[s] = "posted"
      BY <1>1, <1>2, <3>2 DEF PlaceInv, EachHasToast
    <3>. QED
      BY <2>1, <3>1, <3>2
  <2>. QED
    BY <2>1 DEF EachHasToast, IsToastOf
<1>. QED
  BY <1>4, <1>5, <1>6 DEF PlaceInv

(* ... or take one out, which is a click, or a toast that is refused.      *)
LEMMA PlaceOut ==
    ASSUME Typed, PlaceInv, NEW p \in 1..Len(Line), Line' = RemoveAt(Line, p),
           \/ Line[p].kind = "click" /\ dropped' = dropped
           \/ Line[p].kind = "toast" /\ dropped' = dropped \cup {Line[p]},
           \A s \in Source : pc'[s] = "posted" => pc[s] = "posted"
    PROVE  PlaceInv'
<1>. DEFINE Old(k) == IF k < p THEN k ELSE k + 1
<1>1. Line \in Seq(Message) /\ Len(Line) \in Nat
  BY LineTyped, LenProperties
<1>2. /\ Len(Line') = Len(Line) - 1
      /\ \A k \in 1 .. Len(Line) - 1 : Line'[k] = Line[Old(k)]
  BY <1>1, RemoveAtElements
<1>3. \A k \in 1 .. Len(Line) - 1 : Old(k) \in (1..Len(Line)) \ {p}
  BY <1>1
<1>4. \A j, k \in 1 .. Len(Line) - 1 : Old(j) = Old(k) => j = k
  BY <1>1
<1>5. \A l \in (1..Len(Line)) \ {p} : \E k \in 1 .. Len(Line) - 1 : l = Old(k)
  <2>1. ASSUME NEW l \in (1..Len(Line)) \ {p}
        PROVE  \E k \in 1 .. Len(Line) - 1 : l = Old(k)
    <3>1. CASE l < p
      <4>1. l \in 1 .. Len(Line) - 1 /\ l = Old(l)
        BY <1>1, <3>1
      <4>. QED
        BY <4>1
    <3>2. CASE l > p
      <4>1. l - 1 \in 1 .. Len(Line) - 1 /\ l = Old(l - 1)
        BY <1>1, <3>2
      <4>. QED
        BY <4>1
    <3>. QED
      BY <1>1, <3>1, <3>2
  <2>. QED
    BY <2>1
<1>. HIDE DEF Old
<1>6. LineOnce'
  <2>1. ASSUME NEW j \in 1..Len(Line'), NEW k \in 1..Len(Line'),
               Line'[j].kind = "toast", Line'[k].kind = "toast",
               Line'[j].from = Line'[k].from
        PROVE  j = k
    <3>1. j \in 1 .. Len(Line) - 1 /\ k \in 1 .. Len(Line) - 1
      BY <1>2
    <3>2. Old(j) = Old(k)
      BY <1>2, <1>3, <2>1, <3>1 DEF PlaceInv, LineOnce
    <3>. QED
      BY <1>4, <3>1, <3>2
  <2>. QED
    BY <2>1 DEF LineOnce
<1>7. Line[p].kind = "toast" =>
         /\ \A k \in 1 .. Len(Line) - 1 : ~IsToastOf(Line'[k], Line[p].from)
         /\ \A n \in dropped : n.from # Line[p].from
  <2>1. ASSUME Line[p].kind = "toast", NEW k \in 1 .. Len(Line) - 1,
               IsToastOf(Line'[k], Line[p].from)
        PROVE  FALSE
    BY <1>2, <1>3, <2>1 DEF PlaceInv, LineOnce, IsToastOf
  <2>2. Line[p].kind = "toast" => \A n \in dropped : n.from # Line[p].from
    BY DEF PlaceInv, RefusedOnce, IsToastOf
  <2>. QED
    BY <2>1, <2>2
<1>8. RefusedOnce'
  <2>1. \A n \in dropped : \A k \in 1 .. Len(Line) - 1 :
           ~IsToastOf(Line'[k], n.from)
    BY <1>2, <1>3 DEF PlaceInv, RefusedOnce
  <2>2. \A n \in dropped' : \A k \in 1 .. Len(Line) - 1 :
           ~IsToastOf(Line'[k], n.from)
    BY <1>7, <2>1
  <2>3. \A m, n \in dropped' : m.from = n.from => m = n
    BY <1>7 DEF PlaceInv, RefusedOnce
  <2>. QED
    BY <1>2, <2>2, <2>3 DEF RefusedOnce, IsToastOf
<1>9. EachHasToast'
  <2>1. ASSUME NEW s \in Source, pc'[s] = "posted"
        PROVE  \/ \E k \in 1..Len(Line') : IsToastOf(Line'[k], s)
               \/ \E n \in dropped' : n.from = s
    <3>1. CASE \E n \in dropped : n.from = s
      BY <3>1
    <3>2. CASE \E l \in 1..Len(Line) : IsToastOf(Line[l], s)
      <4>1. PICK l \in 1..Len(Line) : IsToastOf(Line[l], s)
        BY <3>2
      <4>2. CASE l = p
        BY <4>1, <4>2 DEF IsToastOf
      <4>3. CASE l # p
        <5>1. PICK k \in 1 .. Len(Line) - 1 : l = Old(k)
          BY <1>5, <4>3
        <5>2. Line'[k] = Line[l] /\ k \in 1..Len(Line')
          BY <1>2, <5>1
        <5>. QED
          BY <4>1, <5>2
      <4>. QED
        BY <4>2, <4>3
    <3>. QED
      BY <2>1, <3>1, <3>2 DEF PlaceInv, EachHasToast
  <2>. QED
    BY <2>1 DEF EachHasToast, IsToastOf
<1>. QED
  BY <1>6, <1>8, <1>9 DEF PlaceInv

(* The steps of the program, as steps of the line and of the part of it    *)
(* that still waits.                                                       *)
LEMMA Appended ==
    ASSUME Typed, NEW m \in Message, looper' = Append(looper, m),
           UNCHANGED <<toasts, seen>>
    PROVE  Line' = Append(Line, m) /\ Waiting' = Append(Waiting, m)
<1>1. /\ looper \in Seq(Message) /\ toasts \in Seq(Message)
      /\ seen \o toasts \in Seq(Message)
      /\ Line = (seen \o toasts) \o looper
  BY LineTyped
<1>2. Waiting' = Append(Waiting, m)
  BY <1>1, ConcatAppend DEF Waiting
<1>3. (seen \o toasts) \o Append(looper, m) = Append(Line, m)
  BY <1>1, ConcatAppend
<1>4. Append(looper, m) \in Seq(Message)
  BY <1>1, AppendProperties
<1>5. Line' = (seen \o toasts) \o Append(looper, m)
  BY <1>1, <1>4, LineTyped, ConcatAssociative DEF Line
<1>. QED
  BY <1>2, <1>3, <1>5

LEMMA TakenOut ==
    ASSUME Typed, looper # <<>>, looper' = Tail(looper), UNCHANGED <<toasts, seen>>
    PROVE  /\ \E p \in 1..Len(Line) :
                 Line[p] = Head(looper) /\ Line' = RemoveAt(Line, p)
           /\ Len(toasts) + 1 \in DOMAIN Waiting
           /\ Waiting[Len(toasts) + 1] = Head(looper)
           /\ Waiting' = RemoveAt(Waiting, Len(toasts) + 1)
           /\ \A j \in 1..Len(toasts) : Waiting[j] \in ToastMsg
<1>1. /\ seen \in Seq(Message) /\ looper \in Seq(Message)
      /\ toasts \in Seq(Message) /\ Tail(looper) \in Seq(Message)
      /\ seen \o toasts \in Seq(Message) /\ Waiting \in Seq(Message)
      /\ Line = (seen \o toasts) \o looper
  BY LineTyped, HeadTailProperties
<1>2. /\ Len(seen \o toasts) + 1 \in 1..Len(Line)
      /\ Line[Len(seen \o toasts) + 1] = Head(looper)
      /\ (seen \o toasts) \o Tail(looper) = RemoveAt(Line, Len(seen \o toasts) + 1)
  BY <1>1, ConcatRemove
<1>3. Line' = (seen \o toasts) \o Tail(looper)
  BY <1>1, ConcatAssociative DEF Line
<1>4. /\ Len(toasts) + 1 \in 1..Len(Waiting)
      /\ Waiting[Len(toasts) + 1] = Head(looper)
      /\ Waiting' = RemoveAt(Waiting, Len(toasts) + 1)
  BY <1>1, ConcatRemove DEF Waiting
<1>5. DOMAIN Waiting = 1..Len(Waiting)
  BY <1>1, LenProperties
<1>6. \A j \in 1..Len(toasts) : Waiting[j] \in ToastMsg
  <2>1. Len(looper) \in Nat /\ Len(toasts) \in Nat
    BY <1>1, LenProperties
  <2>2. \A j \in 1 .. Len(toasts) + Len(looper) :
           Waiting[j] = IF j <= Len(toasts) THEN toasts[j]
                                            ELSE looper[j - Len(toasts)]
    BY <1>1, ConcatProperties DEF Waiting
  <2>3. \A j \in 1..Len(toasts) : Waiting[j] = toasts[j]
    BY <2>1, <2>2
  <2>4. \A j \in 1..Len(toasts) : toasts[j] \in ToastMsg
    BY ElementOfSeq DEF Typed
  <2>. QED
    BY <2>3, <2>4
<1>. QED
  BY <1>2, <1>3, <1>4, <1>5, <1>6

LEMMA MovedOn ==
    ASSUME Typed, looper # <<>>, looper' = Tail(looper),
           toasts' = Append(toasts, Head(looper)), seen' = seen
    PROVE  Line' = Line /\ Waiting' = Waiting
<1>1. /\ seen \in Seq(Message) /\ toasts \in Seq(Message)
      /\ looper \in Seq(Message)
  BY LineTyped
<1>2. Append(toasts, Head(looper)) \o Tail(looper) = toasts \o looper
  BY <1>1, ConcatMove
<1>3. Append(toasts, Head(looper)) \in Seq(Message) /\ Tail(looper) \in Seq(Message)
  BY <1>1, HeadTailProperties, AppendProperties
<1>4. Line' = seen \o (Append(toasts, Head(looper)) \o Tail(looper))
  <2>1. Line' = (seen \o Append(toasts, Head(looper))) \o Tail(looper)
    BY DEF Line
  <2>2. \A s, t, u \in Seq(Message) : (s \o t) \o u = s \o (t \o u)
    BY ConcatThree
  <2>. QED
    BY <1>1, <1>3, <2>1, <2>2
<1>5. Line = seen \o (toasts \o looper)
  BY <1>1, ConcatAssociative DEF Line
<1>. QED
  BY <1>2, <1>4, <1>5 DEF Waiting

LEMMA Displayed ==
    ASSUME Typed, Display
    PROVE  /\ Line' = Line
           /\ Waiting # <<>> /\ Head(Waiting) = Head(toasts)
           /\ Waiting' = Tail(Waiting)
<1>1. /\ toasts # <<>> /\ toasts' = Tail(toasts)
      /\ seen' = Append(seen, Head(toasts)) /\ looper' = looper
  BY DEF Display
<1>2. /\ seen \in Seq(Message) /\ toasts \in Seq(Message)
      /\ looper \in Seq(Message)
      /\ Line = (seen \o toasts) \o looper
  BY LineTyped
<1>3. Head(toasts) \in Message /\ Tail(toasts) \in Seq(Message)
  BY <1>1, <1>2, HeadTailProperties
<1>4. Append(seen, Head(toasts)) \o Tail(toasts) = seen \o toasts
  BY <1>1, <1>2, ConcatMove
<1>5. Append(seen, Head(toasts)) \in Seq(Message)
  BY <1>2, <1>3, AppendProperties
<1>6. Line' = (Append(seen, Head(toasts)) \o Tail(toasts)) \o looper
  BY <1>1, <1>2, <1>3, <1>5, ConcatAssociative DEF Line
<1>7. /\ Waiting # <<>> /\ Head(Waiting) = Head(toasts)
      /\ Tail(Waiting) = Tail(toasts) \o looper
  BY <1>1, <1>2, HeadTailOfConcat DEF Waiting
<1>. QED
  BY <1>1, <1>2, <1>4, <1>6, <1>7 DEF Waiting

(* The message that a posting step appends.                                *)
PostsToast(s, m) ==
    /\ m \in ToastMsg /\ m.from = s /\ pc[s] \notin {"clicked", "posted"}
    /\ looper' = Append(looper, m) /\ pc' = [pc EXCEPT ![s] = "posted"]
    /\ UNCHANGED <<toasts, seen, dropped>>

LEMMA PostVerdictPosts ==
    ASSUME Inv, NEW c \in Click, PostVerdict(c)
    PROVE  \E m : PostsToast(c, m)
<1>1. c \in Source /\ title[c] \in Text
  BY DEF Inv, Typed, Source
<1>2. \A good \in BOOLEAN : Toast(c, title[c], good) \in ToastMsg
  BY <1>1 DEF Toast, ToastMsg
<1>3. Toast(c, title[c], title[c] # Portal) \in ToastMsg
  BY <1>2
<1>4. Toast(c, title[c], title[c] # Portal).from = c
  BY DEF Toast
<1>. QED
  BY <1>3, <1>4 DEF PostVerdict, PostsToast

LEMMA transactionResultPosts ==
    ASSUME Inv, NEW t \in Txn, NEW result \in BOOLEAN,
           transactionResult(t, result)
    PROVE  \E m : PostsToast(t, m)
<1>1. Toast(t, <<>>, result) \in ToastMsg
  BY DEF Toast, ToastMsg, Text, Source
<1>2. Toast(t, <<>>, result).from = t
  BY DEF Toast
<1>. QED
  BY <1>1, <1>2 DEF transactionResult, PostsToast

LEMMA PostPlace ==
    ASSUME Inv, PlaceInv, NEW s \in Source, NEW m, PostsToast(s, m)
    PROVE  PlaceInv'
<1>1. m \in Message /\ m.kind = "toast" /\ m.from = s
  BY MessageKinds DEF PostsToast, Message
<1>2. Line' = Append(Line, m) /\ dropped' = dropped
  BY <1>1, Appended DEF PostsToast, Inv
<1>3. \A n \in Announced : n.from # s
  BY DEF PostsToast, Inv, TypeOK
<1>4. \A u \in Source : pc'[u] = "posted" => pc[u] = "posted" \/ IsToastOf(m, u)
  BY <1>1 DEF PostsToast, Inv, Typed, IsToastOf
<1>. QED
  BY <1>1, <1>2, <1>3, <1>4, PlaceGrow DEF Inv

LEMMA PlaceNext == Inv /\ PlaceInv /\ [Next]_vars => PlaceInv'
<1>. SUFFICES ASSUME Inv, PlaceInv, [Next]_vars PROVE PlaceInv'
  OBVIOUS
<1>1. ASSUME NEW c \in Click,
             \/ testHttpClient(c) \/ Connect(c) \/ Fail(c) \/ TakeTitle(c)
             \/ \E html \in Pages : Answer(c, html)
      PROVE  PlaceInv'
  <2>1. UNCHANGED <<looper, toasts, seen, dropped>>
    BY <1>1 DEF testHttpClient, Connect, Fail, TakeTitle, Answer
  <2>2. \A s \in Source : pc'[s] = "posted" => pc[s] = "posted"
    BY <1>1 DEF testHttpClient, Connect, Fail, TakeTitle, Answer, Inv, Typed
  <2>. QED
    BY <2>1, <2>2, PlaceSame DEF Line
<1>2. ASSUME NEW c \in Click, ClickButton(c)
      PROVE  PlaceInv'
  <2>1. ClickOf(c) \in Message /\ ClickOf(c).kind = "click"
    BY DEF ClickOf, ClickMsg, Message
  <2>2. Line' = Append(Line, ClickOf(c)) /\ dropped' = dropped
    BY <1>2, <2>1, Appended DEF ClickButton, Inv
  <2>3. \A s \in Source : pc'[s] = "posted" => pc[s] = "posted"
    BY <1>2 DEF ClickButton, Inv, Typed
  <2>. QED
    BY <2>1, <2>2, <2>3, PlaceGrow DEF Inv
<1>3. ASSUME NEW c \in Click, PostVerdict(c)
      PROVE  PlaceInv'
  BY <1>3, PostVerdictPosts, PostPlace DEF Source
<1>4. ASSUME NEW t \in Txn, NEW result \in BOOLEAN, transactionResult(t, result)
      PROVE  PlaceInv'
  BY <1>4, transactionResultPosts, PostPlace DEF Source
<1>5. CASE onButtonClick
  <2>1. /\ looper # <<>> /\ looper' = Tail(looper) /\ Head(looper).kind = "click"
        /\ UNCHANGED <<toasts, seen, dropped>>
    BY <1>5 DEF onButtonClick
  <2>2. \A s \in Source : pc'[s] = "posted" => pc[s] = "posted"
    BY <1>5 DEF onButtonClick, Inv, Typed
  <2>. QED
    BY <2>1, <2>2, TakenOut, PlaceOut DEF Inv
<1>6. CASE ShowToast
  <2>1. /\ looper # <<>> /\ looper' = Tail(looper) /\ Head(looper).kind = "toast"
        /\ UNCHANGED <<pc, seen>>
    BY <1>6 DEF ShowToast
  <2>2. CASE toasts' = Append(toasts, Head(looper)) /\ dropped' = dropped
    BY <2>1, <2>2, MovedOn, PlaceSame DEF Inv
  <2>3. CASE dropped' = dropped \cup {Head(looper)} /\ toasts' = toasts
    BY <2>1, <2>3, TakenOut, PlaceOut DEF Inv
  <2>. QED
    BY <1>6, <2>2, <2>3 DEF ShowToast
<1>7. CASE Display
  BY <1>7, Displayed, PlaceSame DEF Display, Inv
<1>8. CASE UNCHANGED vars
  BY <1>8, PlaceSame DEF vars, Line
<1>. QED
  BY <1>1, <1>2, <1>3, <1>4, <1>5, <1>6, <1>7, <1>8 DEF Next, ThreadStep, UiStep

(* With any number of clicks and transactions at once, and however often   *)
(* the notification service refuses one, whoever has posted a toast has    *)
(* exactly one: none is lost on the way and none is shown twice.           *)
THEOREM ToastsCounted == Spec => []ToastOnce
<1>1. ASSUME Inv, PlaceInv
      PROVE  ToastOnce
  <2>. SUFFICES ASSUME NEW s \in Source, pc[s] = "posted"
                PROVE  Cardinality({k \in DOMAIN Line :
                              Line[k].kind = "toast" /\ Line[k].from = s})
                         + Cardinality({m \in dropped : m.from = s}) = 1
    BY DEF ToastOnce
  <2>. DEFINE inLine  == {k \in DOMAIN Line :
                              Line[k].kind = "toast" /\ Line[k].from = s}
              refused == {m \in dropped : m.from = s}
  <2>1. DOMAIN Line = 1..Len(Line)
    BY <1>1, LineTyped, LenProperties DEF Inv
  <2>2. CASE \E k \in 1..Len(Line) : IsToastOf(Line[k], s)
    <3>1. PICK k \in 1..Len(Line) : IsToastOf(Line[k], s)
      BY <2>2
    <3>2. inLine = {k}
      BY <1>1, <2>1, <3>1 DEF PlaceInv, LineOnce, IsToastOf
    <3>3. refused = {}
      BY <1>1, <3>1 DEF PlaceInv, RefusedOnce, IsToastOf
    <3>4. Cardinality({k}) = 1 /\ Cardinality({}) = 0
      BY FS_Singleton, FS_EmptySet
    <3>5. Cardinality(inLine) = 1 /\ Cardinality(refused) = 0
      BY <3>2, <3>3, <3>4
    <3>. HIDE DEF inLine, refused
    <3>6. Cardinality(inLine) + Cardinality(refused) = 1
      BY <3>5
    <3>. QED
      BY <3>6 DEF inLine, refused
  <2>3. CASE \E m \in dropped : m.from = s
    <3>1. PICK m \in dropped : m.from = s
      BY <2>3
    <3>2. inLine = {}
      BY <1>1, <2>1, <3>1 DEF PlaceInv, RefusedOnce, IsToastOf
    <3>3. refused = {m}
      BY <1>1, <3>1 DEF PlaceInv, RefusedOnce
    <3>4. Cardinality({m}) = 1 /\ Cardinality({}) = 0
      BY FS_Singleton, FS_EmptySet
    <3>5. Cardinality(inLine) = 0 /\ Cardinality(refused) = 1
      BY <3>2, <3>3, <3>4
    <3>. HIDE DEF inLine, refused
    <3>6. Cardinality(inLine) + Cardinality(refused) = 1
      BY <3>5
    <3>. QED
      BY <3>6 DEF inLine, refused
  <2>. QED
    BY <1>1, <2>2, <2>3 DEF PlaceInv, EachHasToast
<1>. QED
  BY <1>1, InitInv, NextInv, PlaceInit, PlaceNext, PTL DEF Spec

-----------------------------------------------------------------------------
(* The refinement of ToastQueue: a click and a posted toast join its line, *)
(* onButtonClick handles a click and a refused toast is lost, past toasts  *)
(* only; a toast that the service takes stays where it is, and Display is  *)
(* Show.                                                                   *)
LEMMA InitQueue == Init => TQ!Init
  BY ConcatEmptySeq, EmptySeq DEF Init, TQ!Init

LEMMA QueueStays ==
    ASSUME Waiting' = Waiting, UNCHANGED <<seen, dropped>>
    PROVE  UNCHANGED TQ!vars
  BY DEF TQ!vars, Waiting

LEMMA ClickQueues ==
    ASSUME Inv, NEW c \in Click, ClickButton(c)
    PROVE  TQ!Next
<1>1. ClickOf(c) \in ClickMsg
  BY DEF ClickOf, ClickMsg
<1>2. Waiting' = Append(Waiting, ClickOf(c)) /\ UNCHANGED <<seen, dropped>>
  BY <1>1, Appended DEF ClickButton, Inv, Message
<1>3. ClickOf(c) \notin ToastMsg
  BY <1>1, MessageKinds
<1>4. TQ!Post(ClickOf(c))
  BY <1>2, <1>3 DEF TQ!Post, Waiting
<1>. QED
  BY <1>1, <1>4 DEF TQ!Next

LEMMA PostQueues ==
    ASSUME Inv, NEW s \in Source, NEW m, PostsToast(s, m)
    PROVE  TQ!Next
<1>1. m \in ToastMsg /\ m \in Message /\ m.from = s
  BY DEF PostsToast, Message
<1>2. Waiting' = Append(Waiting, m) /\ UNCHANGED <<seen, dropped>>
  BY <1>1, Appended DEF PostsToast, Inv
<1>3. ~TQ!HasToast(s)
  <2>1. toasts \in Seq(Message) /\ looper \in Seq(Message)
    BY LineTyped DEF Inv
  <2>2. ToSet(Waiting) = ToSet(toasts) \cup ToSet(looper)
    BY <2>1, ToSetConcat DEF Waiting
  <2>3. ToastMsg \cap (ToSet(Waiting) \cup ToSet(seen) \cup dropped) \subseteq Announced
    BY <2>2, MessageKinds DEF Announced
  <2>4. \A n \in Announced : n.from # s
    BY DEF PostsToast, Inv, TypeOK
  <2>. QED
    BY <2>3, <2>4 DEF TQ!HasToast, TQ!ToSet, ToSet, Waiting
<1>4. TQ!Post(m)
  BY <1>1, <1>2, <1>3 DEF TQ!Post, Waiting
<1>. QED
  BY <1>1, <1>4 DEF TQ!Next

LEMMA onButtonClickQueues ==
    ASSUME Inv, onButtonClick
    PROVE  TQ!Next
<1>1. /\ looper # <<>> /\ looper' = Tail(looper) /\ Head(looper).kind = "click"
      /\ UNCHANGED <<toasts, seen, dropped>>
  BY DEF onButtonClick
<1>2. PICK k \in DOMAIN Waiting :
         /\ k = Len(toasts) + 1 /\ Waiting[k] = Head(looper)
         /\ Waiting' = RemoveAt(Waiting, k)
         /\ \A j \in 1..Len(toasts) : Waiting[j] \in ToastMsg
  BY <1>1, TakenOut DEF Inv
<1>3. Head(looper) \in ClickMsg
  BY <1>1, QueueTail, MessageKinds DEF Inv
<1>4. Len(toasts) \in Nat
  BY LenProperties DEF Inv, Typed
<1>5. \A j \in 1 .. k - 1 : Waiting[j] \in ToastMsg
  BY <1>2, <1>4
<1>6. TQ!Handle(k)
  BY <1>1, <1>2, <1>3, <1>5
  DEF TQ!Handle, TQ!TakeOut, TQ!RemoveAt, RemoveAt, Waiting
<1>. QED
  BY <1>2, <1>6 DEF TQ!Next, Waiting

LEMMA ShowToastQueues ==
    ASSUME Inv, ShowToast
    PROVE  [TQ!Next]_(TQ!vars)
<1>1. /\ looper # <<>> /\ looper' = Tail(looper) /\ Head(looper).kind = "toast"
      /\ UNCHANGED <<pc, seen>>
  BY DEF ShowToast
<1>2. CASE toasts' = Append(toasts, Head(looper)) /\ dropped' = dropped
  BY <1>1, <1>2, MovedOn, QueueStays DEF Inv
<1>3. CASE /\ ~(Len(toasts) < ToastLimit)
           /\ dropped' = dropped \cup {Head(looper)} /\ toasts' = toasts
  <2>1. PICK k \in DOMAIN Waiting :
           /\ k = Len(toasts) + 1 /\ Waiting[k] = Head(looper)
           /\ Waiting' = RemoveAt(Waiting, k)
           /\ \A j \in 1..Len(toasts) : Waiting[j] \in ToastMsg
    BY <1>1, <1>3, TakenOut DEF Inv
  <2>2. Head(looper) \in ToastMsg
    BY <1>1, QueueTail, MessageKinds DEF Inv
  <2>3. Len(toasts) \in Nat
    BY LenProperties DEF Inv, Typed
  <2>4. k > ToastLimit /\ \A j \in 1 .. k - 1 : Waiting[j] \in ToastMsg
    BY <1>3, <2>1, <2>3
  <2>5. TQ!Lose(k)
    BY <1>1, <1>3, <2>1, <2>2, <2>4
    DEF TQ!Lose, TQ!TakeOut, TQ!RemoveAt, RemoveAt, Waiting
  <2>. QED
    BY <2>1, <2>5 DEF TQ!Next, Waiting
<1>. QED
  BY <1>2, <1>3 DEF ShowToast

LEMMA DisplayQueues ==
    ASSUME Inv, Display
    PROVE  TQ!Next
<1>1. /\ toasts # <<>> /\ seen' = Append(seen, Head(toasts)) /\ dropped' = dropped
  BY DEF Display
<1>2. /\ Waiting # <<>> /\ Head(Waiting) = Head(toasts)
      /\ Waiting' = Tail(Waiting)
  BY Displayed DEF Inv
<1>3. Head(toasts) \in ToastMsg
  BY <1>1, HeadTailProperties DEF Inv, Typed
<1>4. TQ!Show
  BY <1>1, <1>2, <1>3 DEF TQ!Show, Waiting
<1>. QED
  BY <1>4 DEF TQ!Next

LEMMA NextQueue == Inv /\ [Next]_vars => [TQ!Next]_(TQ!vars)
<1>. SUFFICES ASSUME Inv, [Next]_vars PROVE [TQ!Next]_(TQ!vars)
  OBVIOUS
<1>1. ASSUME NEW c \in Click,
             \/ testHttpClient(c) \/ Connect(c) \/ Fail(c) \/ TakeTitle(c)
             \/ \E html \in Pages : Answer(c, html)
      PROVE  UNCHANGED TQ!vars
  BY <1>1 DEF testHttpClient, Connect, Fail, TakeTitle, Answer, TQ!vars
<1>2. ASSUME NEW c \in Click, PostVerdict(c)
      PROVE  TQ!Next
  BY <1>2, PostVerdictPosts, PostQueues DEF Source
<1>3. ASSUME NEW t \in Txn, NEW result \in BOOLEAN, transactionResult(t, result)
      PROVE  TQ!Next
  BY <1>3, transactionResultPosts, PostQueues DEF Source
<1>4. CASE UNCHANGED vars
  BY <1>4 DEF vars, TQ!vars
<1>. QED
  BY <1>1, <1>2, <1>3, <1>4, ClickQueues, onButtonClickQueues, ShowToastQueues,
     DisplayQueues DEF Next, ThreadStep, UiStep

(* Threads that post whenever they are done, the looper and the            *)
(* notification service together keep the order of posting.                *)
THEOREM QueueRefinement == Spec => ImplementsToastQueue
  BY InitInv, NextInv, InitQueue, NextQueue, PTL
  DEF Spec, ImplementsToastQueue, TQ!Spec
=============================================================================
