-------------------------- MODULE Subscribing_proofs --------------------------
(***************************************************************************)
(* A user who sees no failure is subscribed, for any texts and any number  *)
(* of requests.  The argument follows a request backwards: no news means   *)
(* that the handler said ok, ok means that Save was passed, and nothing    *)
(* takes a saved subscription away.                                        *)
(***************************************************************************)
EXTENDS Subscribing, TLAPS

\* A request that was not sent yet has no state, one that was sent has a handle.
Unsent == \A r \in Request :
  /\ r > sent => phone[r] = "new" /\ server[r] = "none"
  /\ server[r] # "none" => handle[r] \in Handle

\* Past Save, the subscription is set or known to be unsaved.
Saved == \A r \in Request :
  server[r] \in {"delivering", "ok"} => r \in unsaved \/ lower[handle[r]] \in subs

\* A success is an ok of the handler; so is an end without an alert.
Confirmed == \A r \in Request :
  /\ phone[r] = "success" => server[r] = "ok"
  /\ phone[r] = "over" /\ r \notin told \cup missed => server[r] = "ok"

IInv == TypeOK /\ Unsent /\ Saved /\ Confirmed

\* The bound, apart from what is assumed of texts.
LEMMA Bound == MaxRequests \in Nat
  BY TextAssumption

\* Nothing has been sent at first.
LEMMA InitIInv == Init => IInv
<1> SUFFICES ASSUME Init PROVE IInv
  OBVIOUS
<1>1. TypeOK
  <2>1. sent \in 0..MaxRequests
    <3>1. sent = 0
      BY DEF Init
    <3> QED BY <3>1, Bound
  <2> QED BY <2>1 DEF Init, TypeOK
<1>2. Unsent /\ Saved /\ Confirmed
  BY DEF Init, Unsent, Saved, Confirmed
<1> QED BY <1>1, <1>2 DEF IInv

\* Only Subscribe touches requests that were not sent.
LEMMA SubscribeStep == ASSUME IInv, NEW text \in Text, Subscribe(text) PROVE IInv'
<1> USE DEF IInv
<1>1. CASE strip[text] = ""
  BY <1>1 DEF Subscribe, net, TypeOK, Unsent, Saved, Confirmed
<1>2. CASE strip[text] # ""
  <2>1. /\ sent < MaxRequests /\ sent' = sent + 1
        /\ handle' = [handle EXCEPT ![sent + 1] = strip[text]]
        /\ phone' = [phone EXCEPT ![sent + 1] = "waiting"]
        /\ server' = [server EXCEPT ![sent + 1] = "travelling"]
        /\ screen' = "feed" /\ UNCHANGED <<subs, unsaved, told, missed>>
    BY <1>2 DEF Subscribe
  <2>2. sent + 1 \in Request /\ sent' \in 0..MaxRequests /\ sent + 1 > sent
    <3>1. sent \in 0..MaxRequests
      BY DEF TypeOK
    <3>2. sent < MaxRequests /\ sent' = sent + 1
      BY <2>1
    <3> HIDE DEF IInv
    <3> QED BY <3>1, <3>2, Bound DEF Request
  <2>3. TypeOK'
    BY <2>1, <2>2, TextAssumption DEF TypeOK
  <2>4. Unsent'
    <3> SUFFICES ASSUME NEW r \in Request, r > sent'
                 PROVE  phone'[r] = "new" /\ server'[r] = "none"
      <4>1. ASSUME NEW q \in Request, server'[q] # "none" PROVE handle'[q] \in Handle
        BY <1>2, <2>1, <2>2, <4>1, TextAssumption DEF TypeOK, Unsent
      <4> QED BY <4>1 DEF Unsent
    <3>1. r > sent /\ r # sent + 1
      <4>1. r > sent + 1 /\ sent \in 0..MaxRequests /\ r \in 1..MaxRequests
        BY <2>1 DEF TypeOK, Request
      <4> HIDE DEF IInv
      <4> QED BY <4>1
    <3> QED BY <2>1, <3>1 DEF TypeOK, Unsent
  <2>5. Saved'
    BY <2>1, <2>2 DEF TypeOK, Saved
  <2>6. Confirmed'
    BY <2>1, <2>2 DEF TypeOK, Confirmed
  <2> QED BY <2>3, <2>4, <2>5, <2>6
<1> QED BY <1>1, <1>2

\* The data task and the block on the main queue.
LEMMA PhoneStep == ASSUME IInv, NEW r \in Request, Completed(r) \/ Tell(r) PROVE IInv'
<1> USE DEF IInv
<1>1. CASE Completed(r)
  <2>1. phone[r] = "waiting" /\ UNCHANGED <<screen, sent, handle, server, subs, unsaved, told, missed>>
    BY <1>1 DEF Completed
  <2>2. PICK status \in {"success", "failure"} :
          phone' = [phone EXCEPT ![r] = status] /\ (status = "success" => server[r] = "ok")
    BY <1>1 DEF Completed, StatusOf
  <2>3. TypeOK'
    BY <2>1, <2>2 DEF TypeOK
  <2>4. Unsent' /\ Saved' /\ Confirmed'
    BY <2>1, <2>2 DEF TypeOK, Unsent, Saved, Confirmed
  <2> QED BY <2>3, <2>4
<1>2. CASE Tell(r)
  <2>1. /\ phone[r] \in {"success", "failure"}
        /\ phone' = [phone EXCEPT ![r] = "over"]
        /\ UNCHANGED <<sent, handle, server, subs, unsaved>>
        /\ screen' \in {"feed", "dialog", "article", "alert"}
    BY <1>2 DEF Tell, TypeOK
  <2>2. /\ told \subseteq told' /\ told' \subseteq Request
        /\ missed \subseteq missed' /\ missed' \subseteq Request
        /\ phone[r] = "failure" => r \in told' \cup missed'
    BY <1>2 DEF Tell, TypeOK
  <2>3. TypeOK'
    BY <2>1, <2>2 DEF TypeOK
  <2>4. Unsent' /\ Saved' /\ Confirmed'
    BY <2>1, <2>2 DEF TypeOK, Unsent, Saved, Confirmed
  <2> QED BY <2>3, <2>4
<1> QED BY <1>1, <1>2

\* The network and the handler: ok is reached through Save only, and is left never.
LEMMA ServerStepStep ==
  ASSUME IInv, NEW r \in Request, Arrive(r) \/ Save(r) \/ Deliver(r) \/ Die(r)
  PROVE  IInv'
<1> USE DEF IInv
<1>1. /\ UNCHANGED <<screen, sent, handle, phone, told, missed>>
      /\ server[r] \in {"travelling", "saving", "delivering"}
  BY DEF Arrive, Save, Deliver, Die, ServerStep
<1>2. PICK to \in {"saving", "lost", "delivering", "ok", "error"} :
        /\ server' = [server EXCEPT ![r] = to]
        /\ to = "ok" => server[r] = "delivering"
        /\ to = "delivering" => Save(r)
  BY DEF Arrive, Save, Deliver, Die, ServerStep
<1>3. /\ subs \subseteq subs' /\ unsaved \subseteq unsaved' /\ unsaved' \subseteq Request
      /\ Save(r) => r \in unsaved' \/ lower[handle[r]] \in subs'
  BY DEF Arrive, Save, Deliver, Die, SourceOf, TypeOK
<1>4. subs' \subseteq Source
  <2>1. handle[r] \in Handle
    BY <1>1 DEF Unsent
  <2>2. lower[handle[r]] \in Source
    BY <2>1, TextAssumption
  <2> QED BY <2>2 DEF Arrive, Save, Deliver, Die, SourceOf, TypeOK
<1>5. TypeOK'
  BY <1>1, <1>2, <1>3, <1>4 DEF TypeOK
<1>6. Unsent'
  BY <1>1, <1>2 DEF TypeOK, Unsent
<1>7. Saved'
  <2> SUFFICES ASSUME NEW q \in Request, server'[q] \in {"delivering", "ok"}
               PROVE  q \in unsaved' \/ lower[handle[q]] \in subs'
    BY <1>1 DEF Saved
  <2>1. CASE q = r
    BY <1>2, <1>3, <2>1 DEF TypeOK, Saved
  <2>2. CASE q # r
    BY <1>2, <1>3, <2>2 DEF TypeOK, Saved
  <2> QED BY <2>1, <2>2
<1>8. Confirmed'
  BY <1>1, <1>2 DEF TypeOK, Confirmed
<1> QED BY <1>5, <1>6, <1>7, <1>8

\* The invariant holds in every reachable state.
LEMMA Invariant == Spec => []IInv
<1>1. IInv /\ [Next]_vars => IInv'
  <2> SUFFICES ASSUME IInv, [Next]_vars PROVE IInv'
    OBVIOUS
  <2>1. ASSUME NEW what \in {"dialog", "article"}, Present(what) PROVE IInv'
    BY <2>1 DEF Present, net, IInv, TypeOK, Unsent, Saved, Confirmed
  <2>2. CASE Dismiss
    BY <2>2 DEF Dismiss, net, IInv, TypeOK, Unsent, Saved, Confirmed
  <2>3. CASE UNCHANGED vars
    BY <2>3 DEF vars, net, IInv, TypeOK, Unsent, Saved, Confirmed
  <2> QED BY <2>1, <2>2, <2>3, SubscribeStep, PhoneStep, ServerStepStep DEF Next
<1> QED BY InitIInv, <1>1, PTL DEF Spec
-----------------------------------------------------------------------------
\* The state of the phone, the requests and the handlers is well typed.
THEOREM TypeCorrect == Spec => []TypeOK
<1>1. IInv => TypeOK
  BY DEF IInv
<1> QED BY Invariant, <1>1, PTL

\* Who sees no failure is subscribed, unless the handler has swallowed a failed write
\* or the alert could not be shown.
THEOREM SilenceIsSubscribedHolds == Spec => []SilenceIsSubscribed
<1>1. IInv => SilenceIsSubscribed
  BY DEF IInv, Saved, Confirmed, SilenceIsSubscribed
<1> QED BY Invariant, <1>1, PTL
=============================================================================
