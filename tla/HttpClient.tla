----------------------------- MODULE HttpClient -----------------------------
(***************************************************************************)
(* The button of MainActivity and the backend.  Each click starts a thread *)
(* that calls testHttpClient, which starts a second one; the second thread *)
(* asks the backend for a page, takes the title out of it and posts a      *)
(* toast to the UI thread.  transactionResult posts toasts to the same     *)
(* looper, from the threads of the transactions.                           *)
(*                                                                         *)
(* A page is a sequence of tokens: the two title tags and pieces of text.  *)
(***************************************************************************)
EXTENDS Naturals, Sequences, SequencesExt, FiniteSetsExt

CONSTANTS Click,      \* the clicks on the button
          Txn,        \* the transactions that report while they happen
          Pages,      \* pages a server may answer with
          Portal,     \* the title that the client tells from all others
          ToastLimit  \* Android drops an app's toasts beyond this many

(* The page of SampleController.getTitle.                                  *)
BackendPage == <<"<title>", "My_Backend_First_Title", "</title>">>

ASSUME HttpClientAssumption ==
    /\ BackendPage \in Pages /\ Pages \subseteq Seq(STRING)
    /\ Click \cap Txn = {} /\ ToastLimit \in Nat \ {0}

Source == Click \cup Txn

VARIABLES pc,      \* where each click or transaction is
          page,    \* the html its worker thread has read
          title,   \* the local variable title of that thread
          looper,  \* messages of the UI thread: clicks and toasts to show
          toasts,  \* toasts handed to the notification service
          seen,    \* history: toasts the user has been shown, in order
          dropped  \* history: toasts the notification service refused

vars == <<pc, page, title, looper, toasts, seen, dropped>>

ClickOf(c) == [kind |-> "click", from |-> c]
Toast(s, text, good) ==
    [kind |-> "toast", from |-> s, text |-> text, good |-> good]

Pcs == {"idle", "clicked", "outer", "worker", "reading", "read", "titled",
        "posted", "logged"}
Announced == ToSet(toasts) \cup ToSet(seen) \cup dropped
             \cup {m \in ToSet(looper) : m.kind = "toast"}

TypeOK ==
    /\ pc \in [Source -> Pcs]
    /\ \A c \in Click : page[c] \in Pages \cup {<<>>}
    /\ \A m \in ToSet(looper) : m.kind = "click" => pc[m.from] = "clicked"
    /\ \A m \in Announced : pc[m.from] = "posted"
    /\ Len(toasts) <= ToastLimit

Init ==
    /\ pc = [s \in Source |-> "idle"]
    /\ page = [c \in Click |-> <<>>]
    /\ title = [c \in Click |-> <<>>]
    /\ looper = <<>> /\ toasts = <<>> /\ seen = <<>> /\ dropped = {}

-----------------------------------------------------------------------------
NotFound == <<"Not found">>

(* The matches of <title>(.+?)</title> at one place, as ends.              *)
Ends(html, i) == {j \in i + 2 .. Len(html) : html[j] = "</title>"}
Starts(html) == {i \in DOMAIN html : html[i] = "<title>" /\ Ends(html, i) # {}}

(* What the properties are there to exclude; not part of the model.        *)
Greedy(html) ==                        \* .+ for .+?
    LET i == Min(Starts(html))
    IN  IF Starts(html) = {} THEN NotFound
        ELSE SubSeq(html, i + 1, Max(Ends(html, i)) - 1)

(* .+? takes the fewest characters, but one at least, line ends included.  *)
getPageTitle(html) ==
    LET i == Min(Starts(html))
    IN  IF Starts(html) = {} THEN NotFound
        ELSE SubSeq(html, i + 1, Min(Ends(html, i)) - 1)

(* More of what the properties are there to exclude.                       *)
PostDirectly(c) ==                     \* shown by the thread, no runOnUiThread
    /\ pc[c] = "titled"
    /\ Len(toasts) < ToastLimit
    /\ toasts' = Append(toasts, Toast(c, title[c], title[c] # Portal))
    /\ pc' = [pc EXCEPT ![c] = "posted"]
    /\ UNCHANGED <<page, title, looper, seen, dropped>>

ClickQueuedTwice(c) ==                 \* one touch, two clicks
    /\ pc[c] = "idle"
    /\ pc' = [pc EXCEPT ![c] = "clicked"]
    /\ looper' = looper \o <<ClickOf(c), ClickOf(c)>>
    /\ UNCHANGED <<page, title, toasts, seen, dropped>>

ConnectInTurn(c) ==                    \* one background thread for all clicks
    /\ pc[c] = "worker" /\ \A d \in Click : pc[d] # "reading"
    /\ pc' = [pc EXCEPT ![c] = "reading"]
    /\ UNCHANGED <<page, title, looper, toasts, seen, dropped>>

TitleInField(c) ==                     \* title a field of the activity
    /\ pc[c] = "read"
    /\ title' = [d \in Click |-> getPageTitle(page[c])]
    /\ pc' = [pc EXCEPT ![c] = "titled"]
    /\ UNCHANGED <<page, looper, toasts, seen, dropped>>

PostPortalOnly(c) ==                   \* the toast of the else branch forgotten
    /\ pc[c] = "titled"
    /\ looper' = IF title[c] = Portal
                 THEN Append(looper, Toast(c, title[c], FALSE)) ELSE looper
    /\ pc' = [pc EXCEPT ![c] = "posted"]
    /\ UNCHANGED <<page, title, toasts, seen, dropped>>

(***************************************************************************)
(* A click and its two threads.                                            *)
(***************************************************************************)
ClickButton(c) ==
    /\ pc[c] = "idle"
    /\ pc' = [pc EXCEPT ![c] = "clicked"]
    /\ looper' = Append(looper, ClickOf(c))
    /\ UNCHANGED <<page, title, toasts, seen, dropped>>

onButtonClick ==
    /\ looper # <<>> /\ Head(looper).kind = "click"
    /\ looper' = Tail(looper)
    /\ pc' = [pc EXCEPT ![Head(looper).from] = "outer"]
    /\ UNCHANGED <<page, title, toasts, seen, dropped>>

testHttpClient(c) ==
    /\ pc[c] = "outer"
    /\ pc' = [pc EXCEPT ![c] = "worker"]
    /\ UNCHANGED <<page, title, looper, toasts, seen, dropped>>

Connect(c) ==
    /\ pc[c] = "worker"
    /\ pc' = [pc EXCEPT ![c] = "reading"]
    /\ UNCHANGED <<page, title, looper, toasts, seen, dropped>>

(* Refused, broken off, an error status: the exception is logged.          *)
Fail(c) ==
    /\ pc[c] \in {"worker", "reading"}
    /\ pc' = [pc EXCEPT ![c] = "logged"]
    /\ UNCHANGED <<page, title, looper, toasts, seen, dropped>>

(* No timeout is set: a thread reads until the server answers or breaks    *)
(* off, for ever if it does neither.                                       *)
Answer(c, html) ==
    /\ pc[c] = "reading"
    /\ page' = [page EXCEPT ![c] = html]
    /\ pc' = [pc EXCEPT ![c] = "read"]
    /\ UNCHANGED <<title, looper, toasts, seen, dropped>>

TakeTitle(c) ==
    /\ pc[c] = "read"
    /\ title' = [title EXCEPT ![c] = getPageTitle(page[c])]
    /\ pc' = [pc EXCEPT ![c] = "titled"]
    /\ UNCHANGED <<page, looper, toasts, seen, dropped>>

PostVerdict(c) ==
    /\ pc[c] = "titled"
    /\ looper' = Append(looper, Toast(c, title[c], title[c] # Portal))
    /\ pc' = [pc EXCEPT ![c] = "posted"]
    /\ UNCHANGED <<page, title, toasts, seen, dropped>>

(***************************************************************************)
(* Transactions, the UI thread and the notification service.               *)
(***************************************************************************)
transactionResult(t, result) ==
    /\ pc[t] = "idle"
    /\ looper' = Append(looper, Toast(t, <<>>, result))
    /\ pc' = [pc EXCEPT ![t] = "posted"]
    /\ UNCHANGED <<page, title, toasts, seen, dropped>>

ShowToast ==
    /\ looper # <<>> /\ Head(looper).kind = "toast"
    /\ looper' = Tail(looper)
    /\ IF Len(toasts) < ToastLimit
       THEN toasts' = Append(toasts, Head(looper)) /\ UNCHANGED dropped
       ELSE dropped' = dropped \cup {Head(looper)} /\ UNCHANGED toasts
    /\ UNCHANGED <<pc, page, title, seen>>

Display ==
    /\ toasts # <<>>
    /\ toasts' = Tail(toasts)
    /\ seen' = Append(seen, Head(toasts))
    /\ UNCHANGED <<pc, page, title, looper, dropped>>

ThreadStep(c) == testHttpClient(c) \/ Connect(c) \/ TakeTitle(c) \/ PostVerdict(c)
UiStep == onButtonClick \/ ShowToast

Next ==
    \/ \E c \in Click : ThreadStep(c) \/ ClickButton(c) \/ Fail(c)
    \/ \E c \in Click, html \in Pages : Answer(c, html)
    \/ \E t \in Txn, result \in BOOLEAN : transactionResult(t, result)
    \/ UiStep \/ Display

Spec == Init /\ [][Next]_vars

(* Threads, the looper and the notification service run; the server owes   *)
(* nobody an answer.                                                       *)
FairSpec == /\ Spec /\ WF_vars(UiStep) /\ WF_vars(Display)
            /\ \A c \in Click : WF_vars(ThreadStep(c))

-----------------------------------------------------------------------------
(* A title element as a parser of HTML finds it: from the first opening    *)
(* tag to the next closing one.                                            *)
Element(html, i, j) ==
    /\ i < j /\ html[i] = "<title>" /\ html[j] = "</title>"
    /\ \A k \in 1 .. i - 1 : html[k] # "<title>"
    /\ \A k \in i + 1 .. j - 1 : html[k] # "</title>"

(* The regular expression finds the title element of a page that has one   *)
(* with a text, and only that; for an empty one it runs on to a later      *)
(* closing tag, or says that there is none.                                *)
TitleIsElement ==
    \A c \in Click : pc[c] = "titled" =>
        LET html == page[c]
        IN  /\ \/ title[c] = NotFound
               \/ \E i, j \in DOMAIN html : Element(html, i, j)
            /\ \A i, j \in DOMAIN html : Element(html, i, j) =>
                  \/ j # i + 1 /\ title[c] = SubSeq(html, i + 1, j - 1)
                  \/ /\ j = i + 1
                     /\ title[c] = NotFound \/ Head(title[c]) = "</title>"

(* A toast tells the title of the page that its own click has fetched, and *)
(* calls it the portal exactly if it is, while other clicks fetch others.  *)
ToastIsOwn ==
    \A m \in Announced : m.from \in Click =>
        /\ m.text = getPageTitle(page[m.from])
        /\ m.good = (m.text # Portal)

(* Whoever has posted has one toast, in one place: displayed, waiting to   *)
(* be displayed, waiting at the looper, or refused by a full service.      *)
Line == (seen \o toasts) \o looper

ToastOnce ==
    \A s \in Source : pc[s] = "posted" =>
        Cardinality({k \in DOMAIN Line :
                        Line[k].kind = "toast" /\ Line[k].from = s})
            + Cardinality({m \in dropped : m.from = s}) = 1

(* What is posted to the UI thread is taken in the order of posting, by    *)
(* whatever threads it is posted, and a toast is only lost in a crowd.     *)
Html     == Pages \cup {<<>>}
Text     == {getPageTitle(html) : html \in Html} \cup {<<>>}
ClickMsg == [kind : {"click"}, from : Click]
ToastMsg == [kind : {"toast"}, from : Source, text : Text, good : BOOLEAN]

TQ == INSTANCE ToastQueue WITH
          Clicks <- ClickMsg, Toasts <- ToastMsg,
          waiting <- toasts \o looper, shown <- seen, lost <- dropped

ImplementsToastQueue == TQ!Spec

(* A server that never answers holds up the click that asked it and no     *)
(* other: every click gets to ask.                                         *)
EveryClickAsks ==
    \A c \in Click :
        pc[c] = "clicked" ~> pc[c] \notin {"clicked", "outer", "worker"}

(* Every answer is shown to the user in the end, unless the service is full*)
(* of toasts of other clicks and transactions when its turn comes.         *)
Shown(s) == \E m \in ToSet(seen) \cup dropped : m.from = s

EveryAnswerIsShown == \A c \in Click : pc[c] = "read" ~> Shown(c)
=============================================================================
