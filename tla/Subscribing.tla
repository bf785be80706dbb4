----------------------------- MODULE Subscribing -----------------------------
(***************************************************************************)
(* How a subscription is asked for: the dialog of ViewController, the      *)
(* request of API.subscribe, the network (external) and what the /subscribe*)
(* handler does before its answer, as far as the phone can tell.  Requests *)
(* and answers get lost, the phone gives up on a request whose handler     *)
(* goes on, and the user tries again, or reads an article meanwhile.  The  *)
(* articles that the handler delivers are Pipeline's.                      *)
(***************************************************************************)
EXTENDS Naturals

CONSTANTS
  Text,         \* what the user may type
  Handle,       \* handles, in whatever case
  Source,       \* handles in lower case, as articles have them
  strip,        \* [Text -> Handle \cup {""}]: every "@" is removed
  lower,        \* [Handle -> Source]: strings.ToLower
  MaxRequests   \* bound: requests

Request == 1..MaxRequests

ASSUME TextAssumption ==
  /\ strip \in [Text -> Handle \cup {""}]
  /\ lower \in [Handle -> Source]
  /\ "" \notin Handle
  /\ MaxRequests \in Nat

VARIABLES
  screen,    \* what the view controller presents, or "feed"
  sent,      \* how many requests were sent
  handle,    \* [Request -> Handle \cup {""}]: the parameter handle
  phone,     \* [Request -> STRING]: the data task and its completion
  server,    \* [Request -> STRING]: the way to the server and the handler
  subs,      \* Subscriptions of this user
  unsaved,   \* the requests whose handler could not set the subscription
  told,      \* the requests whose failure was shown
  missed     \* the requests whose alert UIKit did not present

net == <<sent, handle, phone, server>>
vars == <<screen, net, subs, unsaved, told, missed>>

TypeOK ==
  /\ screen \in {"feed", "dialog", "article", "alert"}
  /\ sent \in 0..MaxRequests
  /\ handle \in [Request -> Handle \cup {""}]
  /\ phone \in [Request -> {"new", "waiting", "success", "failure", "over"}]
  /\ server \in [Request -> {"none", "travelling", "saving", "delivering", "ok", "error", "lost"}]
  /\ subs \subseteq Source
  /\ unsaved \subseteq Request
  /\ told \subseteq Request
  /\ missed \subseteq Request

Init ==
  /\ screen = "feed"
  /\ sent = 0
  /\ handle = [r \in Request |-> ""]
  /\ phone = [r \in Request |-> "new"]
  /\ server = [r \in Request |-> "none"]
  /\ subs \in SUBSET Source
  /\ unsaved = {}
  /\ told = {}
  /\ missed = {}
-----------------------------------------------------------------------------
(* The view controller.                                                    *)

\* tappedSubscribe presents the dialog; show(article:) an article.
Present(what) ==
  /\ screen = "feed"
  /\ screen' = what
  /\ UNCHANGED <<net, subs, unsaved, told, missed>>

\* Cancel in the dialog, Okay in the alert, or the article is swiped away.
Dismiss ==
  /\ screen # "feed"
  /\ screen' = "feed"
  /\ UNCHANGED <<net, subs, unsaved, told, missed>>

\* Subscribe in the dialog: unless nothing is left of the text, API.subscribe sends a
\* request.
Subscribe(text) ==
  /\ screen = "dialog"
  /\ screen' = "feed"
  /\ \/ /\ strip[text] = ""
        /\ UNCHANGED net
     \/ /\ strip[text] # ""
        /\ sent < MaxRequests
        /\ sent' = sent + 1
        /\ handle' = [handle EXCEPT ![sent + 1] = strip[text]]
        /\ phone' = [phone EXCEPT ![sent + 1] = "waiting"]
        /\ server' = [server EXCEPT ![sent + 1] = "travelling"]
  /\ UNCHANGED <<subs, unsaved, told, missed>>

\* The outcome that completion is called with for an answer of the server; the
\* mutant takes any answer for a success.
AnyAnswer(r) == "success"
StatusOf(r) == IF server[r] = "ok" THEN "success" ELSE "failure"

\* The data task completes with the answer, or with none when the request or the
\* answer is lost or takes too long.
Completed(r) ==
  /\ phone[r] = "waiting"
  /\ \/ /\ server[r] \in {"ok", "error"}
        /\ phone' = [phone EXCEPT ![r] = StatusOf(r)]
     \/ phone' = [phone EXCEPT ![r] = "failure"]
  /\ UNCHANGED <<screen, sent, handle, server, subs, unsaved, told, missed>>

\* The block that completion has dispatched to the main queue.  A view controller
\* that presents something already presents no alert as well.
Tell(r) ==
  /\ \/ /\ phone[r] = "success"
        /\ UNCHANGED <<screen, told, missed>>
     \/ /\ phone[r] = "failure" /\ screen = "feed"
        /\ screen' = "alert"
        /\ told' = told \cup {r}
        /\ UNCHANGED missed
     \/ /\ phone[r] = "failure" /\ screen # "feed"
        /\ missed' = missed \cup {r}
        /\ UNCHANGED <<screen, told>>
  /\ phone' = [phone EXCEPT ![r] = "over"]
  /\ UNCHANGED <<sent, handle, server, subs, unsaved>>
-----------------------------------------------------------------------------
(* The network and the handler.                                            *)

ServerStep(r, from, to) ==
  /\ server[r] = from
  /\ server' = [server EXCEPT ![r] = to]
  /\ UNCHANGED <<screen, sent, handle, phone, told, missed>>

Arrive(r) ==
  /\ ServerStep(r, "travelling", "saving") \/ ServerStep(r, "travelling", "lost")
  /\ UNCHANGED <<subs, unsaved>>

\* The source that a request is stored under.
SourceOf(r) == lower[handle[r]]

\* The subscription is set under its user and source, so that a retry sets the same
\* document; an error is only logged.
Save(r) ==
  /\ ServerStep(r, "saving", "delivering")
  /\ \/ subs' = subs \cup {SourceOf(r)} /\ UNCHANGED unsaved
     \/ unsaved' = unsaved \cup {r} /\ UNCHANGED subs

\* The rest of the handler, whose errors are logged, and "ok".
Deliver(r) ==
  /\ ServerStep(r, "delivering", "ok")
  /\ UNCHANGED <<subs, unsaved>>

\* The handler dies, before or after the subscription is set.
Die(r) ==
  /\ ServerStep(r, "saving", "error") \/ ServerStep(r, "delivering", "error")
  /\ UNCHANGED <<subs, unsaved>>
-----------------------------------------------------------------------------
Next ==
  \/ Present("dialog") \/ Present("article") \/ Dismiss
  \/ \E text \in Text : Subscribe(text)
  \/ \E r \in Request : Completed(r) \/ Tell(r) \/ Arrive(r) \/ Save(r) \/ Deliver(r) \/ Die(r)

Spec == Init /\ [][Next]_vars
-----------------------------------------------------------------------------
(* Properties.                                                             *)

\* No news is good news: when a request is over and the user saw no failure, the
\* user is subscribed to the source that articles of the handle have, however
\* requests, handlers and retries overlap.  The two ways out are in the code: the
\* handler says ok when the write failed, and an alert is lost behind what is shown.
SilenceIsSubscribed ==
  \A r \in Request :
    phone[r] = "over" /\ r \notin told \cup missed \cup unsaved => lower[handle[r]] \in subs
=============================================================================
