------------------------- MODULE Authorization_proofs -------------------------
(***************************************************************************)
(* The outgoing authorization and the store of its tokens.  What           *)
(* Authorization promises is proved for any number of clicks, calls,       *)
(* renewals and requests of a run; what TokenStore promises, for any       *)
(* durations, caps and bounds.                                             *)
(***************************************************************************)
EXTENDS Authorization, TokenStore, TLAPS

(* A run has a request in the provider only while it is asking, and has not *)
(* sent them all.                                                           *)
Working ==
  \A r \in Runs : phase[r] # "idle" => run[r] = "asking" /\ sent[r] < Requests

(* The provider serves one request at a time. *)
Exclusive == \A f, g \in Flows : InProvider(f) /\ InProvider(g) => f = g

(* A click starts its run before its route waits. *)
Clicked ==
  \A r \in Runs : /\ (route[r] = "idle") => run[r] = "idle"
                  /\ (route[r] = "waiting") => run[r] # "idle"

(* No two runs overlap. *)
Alone == \A q, r \in Runs : UnderWay(q) /\ UnderWay(r) => q = r

(* A route that waits for its event is the one the event is armed for. *)
Armed == \A r \in Runs : route[r] = "waiting" /\ r \notin woken => event = r

Ordered == TypeOK /\ Working /\ Clicked

-----------------------------------------------------------------------------
(* A request that is over leaves the provider, and only its own run moves.  *)
LEMMA OverRequest ==
  ASSUME Ordered, NEW f \in Flows, phase[f] # "idle", NEW ok \in BOOLEAN, Over(f, ok)
  PROVE  /\ Working'
         /\ phase' \in [Flows -> {"idle", "queued", "sending", "browser", "code", "error",
                                  "exchanging", "done"}]
         /\ phase'[f] \in {"idle", "done"}
         /\ \A g \in Flows : g # f => phase'[g] = phase[g]
         /\ run' \in [Runs -> {"idle", "started", "asking", "failing", "reopening",
                               "announcing", "ended"}]
         /\ sent' \in [Runs -> 0 .. Requests]
         /\ \A r \in Runs : \/ run'[r] = run[r]
                            \/ run[r] = "asking" /\ run'[r] = "failing"
<1> USE DEF Ordered, TypeOK, Working
<1>1. CASE f \in Runs
  <2>1. /\ phase' = [phase EXCEPT ![f] = "idle"]
        /\ run' = IF ok THEN run ELSE [run EXCEPT ![f] = "failing"]
        /\ sent' = [sent EXCEPT ![f] = IF ok THEN @ + 1 ELSE 0]
    BY <1>1 DEF Over
  <2>2. run[f] = "asking" /\ sent[f] < Requests /\ Requests \in Nat
    BY <1>1, AuthorizationAssumption
  <2>3. sent' \in [Runs -> 0 .. Requests] /\ \A r \in Runs : r # f => sent'[r] = sent[r]
    BY <1>1, <2>1, <2>2
  <2>4. /\ run' \in [Runs -> {"idle", "started", "asking", "failing", "reopening",
                              "announcing", "ended"}]
        /\ \A r \in Runs : r # f => run'[r] = run[r]
        /\ run'[f] \in {"asking", "failing"}
    BY <1>1, <2>1, <2>2
  <2>5. /\ phase'[f] = "idle" /\ \A g \in Flows : g # f => phase'[g] = phase[g]
        /\ phase' \in [Flows -> {"idle", "queued", "sending", "browser", "code", "error",
                                 "exchanging", "done"}]
    BY <2>1
  <2>6. Working'
    BY <2>3, <2>4, <2>5 DEF Flows
  <2> QED BY <2>2, <2>3, <2>4, <2>5, <2>6
<1>2. CASE f \notin Runs
  <2>1. phase' = [phase EXCEPT ![f] = "done"] /\ UNCHANGED runVars
    BY <1>2 DEF Over
  <2>2. Working'
    BY <1>2, <2>1 DEF runVars, Flows
  <2> QED BY <2>1, <2>2 DEF runVars
<1> QED BY <1>1, <1>2

(* The flag of a renewal keeps its type. *)
LEMMA Judged ==
  ASSUME due \in BOOLEAN, NEW f, Judge(f) PROVE due' \in BOOLEAN
BY Zenon DEF Judge

-----------------------------------------------------------------------------
(* Types hold, runs ask in order, and clicks come before runs. *)
LEMMA OrderedStep == Ordered /\ [Next]_vars => Ordered'
<1> SUFFICES ASSUME Ordered, [Next]_vars PROVE Ordered'
  OBVIOUS
<1> USE DEF Ordered, TypeOK, Working, Clicked, Flows, runVars, routeVars
<1>1. CASE Lapse
  BY <1>1 DEF Lapse
<1>2. ASSUME NEW r \in Runs, Click(r) PROVE Ordered'
  <2>1. doubled' \in BOOLEAN
    BY <1>2 DEF Click
  <2>2. CASE pending # None
    BY <1>2, <2>1, <2>2 DEF Click
  <2>3. CASE pending = None
    BY <1>2, <2>1, <2>3 DEF Click
  <2> QED BY <2>2, <2>3
<1>3. ASSUME NEW r \in Runs, Answer(r) \/ GiveUp(r) PROVE Ordered'
  BY <1>3 DEF Answer, GiveUp, Respond
<1>4. ASSUME NEW r \in Runs, Proceed(r) PROVE Ordered'
  <2>1. CASE Enter(r)
    BY <2>1 DEF Enter
  <2>2. CASE Abort(r)
    BY <2>2 DEF Abort, Wake
  <2>3. CASE Conclude(r)
    <3>1. sent' \in [Runs -> 0 .. Requests] /\ \A q \in Runs : q # r => sent'[q] = sent[q]
      BY <2>3, AuthorizationAssumption DEF Conclude
    <3>2. PICK s \in {"reopening", "announcing"} : run' = [run EXCEPT ![r] = s]
      BY <2>3 DEF Conclude
    <3>3. failed' \in BOOLEAN /\ due' \in BOOLEAN
      BY <2>3 DEF Conclude
    <3> QED BY <2>3, <3>1, <3>2, <3>3 DEF Conclude
  <2>4. CASE Reopen(r)
    BY <2>4 DEF Reopen, Wake
  <2>5. CASE Announce(r)
    BY <2>5 DEF Announce, Wake
  <2> QED BY <1>4, <2>1, <2>2, <2>3, <2>4, <2>5 DEF Proceed
<1>5. ASSUME NEW f \in Flows, Ask(f) \/ TakeLock(f) PROVE Ordered'
  <2>1. CASE Ask(f)
    BY <2>1 DEF Ask
  <2>2. CASE TakeLock(f)
    BY <2>2 DEF TakeLock
  <2> QED BY <1>5, <2>1, <2>2
<1>6. ASSUME NEW f \in Flows, phase[f] # "idle", NEW ok \in BOOLEAN, Over(f, ok),
             UNCHANGED <<route, event, interactive, failed, doubled>>,
             woken' = woken \/ Wake,
             pending' \in {pending, None}, due' \in BOOLEAN, token' \in BOOLEAN
      PROVE  Ordered'
  <2>1. \A r \in Runs : run'[r] = "idle" <=> run[r] = "idle"
    BY <1>6, OverRequest
  <2>2. woken' \subseteq {r \in Runs : route'[r] = "waiting"}
    BY <1>6 DEF Wake
  <2> QED BY <1>6, <2>1, <2>2, OverRequest
<1>7. ASSUME NEW f \in Flows, Send(f) PROVE Ordered'
  <2>1. CASE Served(f)
    <3>1. due' \in BOOLEAN
      BY <2>1, Judged DEF Served
    <3> QED BY <1>6, <2>1, <3>1 DEF Served
  <2>2. CASE Unreachable(f)
    BY <1>6, <2>2 DEF Unreachable
  <2>3. CASE Inhibited(f)
    BY <1>6, <2>3 DEF Inhibited
  <2>4. CASE Redirected(f)
    BY <2>4 DEF Redirected, Wake
  <2> QED BY <1>7, <2>1, <2>2, <2>3, <2>4 DEF Send
<1>8. ASSUME NEW f \in Flows, Callback(f) PROVE Ordered'
  BY <1>8 DEF Callback
<1>9. ASSUME NEW f \in Flows, Resume(f) PROVE Ordered'
  <2>1. CASE phase[f] = "code"
    BY <1>9, <2>1 DEF Resume
  <2>2. CASE phase[f] = "error"
    BY <1>6, <1>9, <2>2 DEF Resume
  <2> QED BY <1>9, <2>1, <2>2 DEF Resume
<1>10. ASSUME NEW f \in Flows, Expire(f) PROVE Ordered'
  BY <1>6, <1>10 DEF Expire
<1>11. ASSUME NEW f \in Flows, Exchange(f) PROVE Ordered'
  <2>1. CASE token' = TRUE /\ Over(f, TRUE) /\ Judge(f)
    <3>1. due' \in BOOLEAN
      BY <2>1, Judged
    <3> QED BY <1>6, <1>11, <2>1, <3>1 DEF Exchange
  <2>2. CASE token' \in {TRUE, token} /\ Over(f, FALSE) /\ UNCHANGED due
    BY <1>6, <1>11, <2>2 DEF Exchange
  <2> QED BY <1>11, <2>1, <2>2 DEF Exchange
<1>12. CASE UNCHANGED vars
  BY <1>12 DEF vars, InProvider, AtRendezvous
<1> QED BY <1>1, <1>2, <1>3, <1>4, <1>5, <1>7, <1>8, <1>9, <1>10, <1>11, <1>12 DEF Next

-----------------------------------------------------------------------------
(* The lock of the provider: one request at a time. *)
LEMMA ExclusiveStep ==
  Ordered /\ Exclusive /\ [Next]_vars => Exclusive'
<1> SUFFICES ASSUME Ordered, Exclusive, [Next]_vars PROVE Exclusive'
  OBVIOUS
<1> USE DEF Exclusive, InProvider, AtRendezvous
<1>1. ASSUME UNCHANGED phase PROVE Exclusive'
  BY <1>1
<1>2. ASSUME NEW f \in Flows, InProvider(f) \/ \A g \in Flows : ~InProvider(g),
             \A g \in Flows : g # f => phase'[g] = phase[g]
      PROVE  Exclusive'
  BY <1>2
<1>3. ASSUME NEW f \in Flows, Ask(f) PROVE Exclusive'
  <2>1. phase'[f] = "queued" /\ \A g \in Flows : g # f => phase'[g] = phase[g]
    BY <1>3 DEF Ask, Ordered, TypeOK
  <2> QED BY <2>1
<1>4. ASSUME NEW f \in Flows, TakeLock(f) PROVE Exclusive'
  BY <1>2, <1>4 DEF TakeLock, Ordered, TypeOK
<1>5. ASSUME NEW f \in Flows, InProvider(f), NEW ok \in BOOLEAN, Over(f, ok)
      PROVE  Exclusive'
  BY <1>2, <1>5, OverRequest
<1>6. ASSUME NEW f \in Flows, Send(f) PROVE Exclusive'
  <2>1. CASE Served(f)
    BY <1>5, <2>1 DEF Served
  <2>2. CASE Unreachable(f)
    BY <1>5, <2>2 DEF Unreachable
  <2>3. CASE Inhibited(f)
    BY <1>5, <2>3 DEF Inhibited
  <2>4. CASE Redirected(f)
    BY <1>2, <2>4 DEF Redirected, Ordered, TypeOK
  <2> QED BY <1>6, <2>1, <2>2, <2>3, <2>4 DEF Send
<1>7. ASSUME NEW f \in Flows, Callback(f) PROVE Exclusive'
  BY <1>2, <1>7 DEF Callback, Ordered, TypeOK
<1>8. ASSUME NEW f \in Flows, Resume(f) PROVE Exclusive'
  <2>1. CASE phase[f] = "code"
    BY <1>2, <1>8, <2>1 DEF Resume, Ordered, TypeOK
  <2>2. CASE phase[f] = "error"
    BY <1>5, <1>8, <2>2 DEF Resume
  <2> QED BY <1>8, <2>1, <2>2 DEF Resume
<1>9. ASSUME NEW f \in Flows, Expire(f) PROVE Exclusive'
  BY <1>5, <1>9 DEF Expire
<1>10. ASSUME NEW f \in Flows, Exchange(f) PROVE Exclusive'
  BY <1>5, <1>10 DEF Exchange
<1>11. CASE Lapse
  BY <1>1, <1>11 DEF Lapse
<1>12. ASSUME NEW r \in Runs, Click(r) \/ Answer(r) \/ GiveUp(r) \/ Proceed(r)
       PROVE  Exclusive'
  <2>1. UNCHANGED phase
    BY <1>12 DEF Click, Answer, GiveUp, Respond, Proceed, Enter, Abort, Conclude,
                 Reopen, Announce
  <2> QED BY <1>1, <2>1
<1>13. CASE UNCHANGED vars
  BY <1>1, <1>13 DEF vars
<1> QED BY <1>3, <1>4, <1>6, <1>7, <1>8, <1>9, <1>10, <1>11, <1>12, <1>13 DEF Next

(* The rendezvous that is published is one somebody waits at. *)
LEMMA LinkStep ==
  Ordered /\ LinkAwaited /\ [Next]_vars => LinkAwaited'
<1> SUFFICES ASSUME Ordered, LinkAwaited, [Next]_vars PROVE LinkAwaited'
  OBVIOUS
<1> USE DEF LinkAwaited, AtRendezvous
<1>1. ASSUME UNCHANGED phase, pending' \in {pending, None} PROVE LinkAwaited'
  BY <1>1
<1>2. ASSUME NEW f \in Flows, ~AtRendezvous(f), pending' = pending,
             \A g \in Flows : g # f => phase'[g] = phase[g]
      PROVE  LinkAwaited'
  BY <1>2 DEF Ordered, TypeOK
<1>3. ASSUME NEW f \in Flows, ~AtRendezvous(f), phase[f] # "idle", pending' = pending,
             NEW ok \in BOOLEAN, Over(f, ok)
      PROVE  LinkAwaited'
  BY <1>2, <1>3, OverRequest
<1>4. ASSUME NEW f \in Flows, Ask(f) \/ TakeLock(f) PROVE LinkAwaited'
  <2>1. CASE Ask(f)
    BY <1>2, <2>1 DEF Ask, Ordered, TypeOK
  <2>2. CASE TakeLock(f)
    BY <1>2, <2>2 DEF TakeLock, Ordered, TypeOK
  <2> QED BY <1>4, <2>1, <2>2
<1>5. ASSUME NEW f \in Flows, Send(f) PROVE LinkAwaited'
  <2>1. CASE Served(f)
    BY <1>3, <2>1 DEF Served
  <2>2. CASE Unreachable(f)
    BY <1>3, <2>2 DEF Unreachable
  <2>3. CASE Inhibited(f)
    BY <1>3, <2>3 DEF Inhibited
  <2>4. CASE Redirected(f)
    BY <2>4 DEF Redirected, Ordered, TypeOK
  <2> QED BY <1>5, <2>1, <2>2, <2>3, <2>4 DEF Send
<1>6. ASSUME NEW f \in Flows, Callback(f) PROVE LinkAwaited'
  BY <1>6 DEF Callback, Ordered, TypeOK
<1>7. ASSUME NEW f \in Flows, Resume(f) \/ Expire(f) PROVE LinkAwaited'
  BY <1>7 DEF Resume, Expire
<1>8. ASSUME NEW f \in Flows, Exchange(f) PROVE LinkAwaited'
  BY <1>3, <1>8 DEF Exchange
<1>9. CASE Lapse
  BY <1>1, <1>9 DEF Lapse
<1>10. ASSUME NEW r \in Runs, Click(r) \/ Answer(r) \/ GiveUp(r) \/ Proceed(r)
       PROVE  LinkAwaited'
  <2>1. UNCHANGED phase /\ pending' \in {pending, None}
    BY <1>10 DEF Click, Answer, GiveUp, Respond, Proceed, Enter, Abort, Conclude,
                 Reopen, Announce
  <2> QED BY <1>1, <2>1
<1>11. CASE UNCHANGED vars
  BY <1>1, <1>11 DEF vars
<1> QED BY <1>4, <1>5, <1>6, <1>7, <1>8, <1>9, <1>10, <1>11 DEF Next

(* Whoever raises the flag is still authorizing while it stays raised. *)
LEMMA InteractiveStep ==
  Ordered /\ NeverLeftInteractive /\ [Next]_vars => NeverLeftInteractive'
<1> SUFFICES ASSUME Ordered, NeverLeftInteractive, [Next]_vars, interactive'
             PROVE \E r \in Runs : Authorizing(r)'
  BY DEF NeverLeftInteractive
<1> USE DEF NeverLeftInteractive, Authorizing
<1>1. ASSUME interactive' = interactive,
             \A r \in Runs : Authorizing(r) => run'[r] \in {run[r], "failing"}
      PROVE  \E r \in Runs : Authorizing(r)'
  BY <1>1
<1>2. ASSUME interactive' = interactive, NEW f \in Flows, phase[f] # "idle",
             NEW ok \in BOOLEAN, Over(f, ok)
      PROVE  \E r \in Runs : Authorizing(r)'
  BY <1>1, <1>2, OverRequest
<1>3. ASSUME NEW r \in Runs, Click(r) PROVE \E q \in Runs : Authorizing(q)'
  <2>1. run[r] = "idle" /\ interactive' = interactive
    BY <1>3 DEF Click, Ordered, Clicked
  <2>2. \A q \in Runs : q # r => run'[q] = run[q]
    BY <1>3 DEF Click, Ordered, TypeOK
  <2> QED BY <1>1, <2>1, <2>2
<1>4. ASSUME NEW r \in Runs, Answer(r) \/ GiveUp(r) PROVE \E q \in Runs : Authorizing(q)'
  BY <1>1, <1>4 DEF Answer, GiveUp, Respond, runVars
<1>5. ASSUME NEW r \in Runs, Proceed(r) PROVE \E q \in Runs : Authorizing(q)'
  <2>1. CASE Enter(r)
    BY <2>1 DEF Enter, Ordered, TypeOK
  <2>2. CASE Abort(r) \/ Conclude(r)
    BY <2>2 DEF Abort, Conclude
  <2>3. CASE Reopen(r) \/ Announce(r)
    <3>1. interactive' = interactive /\ run[r] \in {"reopening", "announcing"}
      BY <2>3 DEF Reopen, Announce
    <3>2. \A q \in Runs : q # r => run'[q] = run[q]
      BY <2>3 DEF Reopen, Announce, Ordered, TypeOK
    <3> QED BY <1>1, <3>1, <3>2
  <2> QED BY <1>5, <2>1, <2>2, <2>3 DEF Proceed
<1>6. ASSUME NEW f \in Flows, Ask(f) \/ TakeLock(f) \/ Callback(f) \/ Redirected(f)
      PROVE  \E q \in Runs : Authorizing(q)'
  BY <1>1, <1>6 DEF Ask, TakeLock, Callback, Redirected, runVars
<1>7. ASSUME NEW f \in Flows, Served(f) \/ Unreachable(f) \/ Inhibited(f) \/ Expire(f)
                              \/ Exchange(f)
      PROVE  \E q \in Runs : Authorizing(q)'
  BY <1>2, <1>7 DEF Served, Unreachable, Inhibited, Expire, Exchange
<1>8. ASSUME NEW f \in Flows, Resume(f) PROVE \E q \in Runs : Authorizing(q)'
  <2>1. CASE phase[f] = "code"
    BY <1>1, <1>8, <2>1 DEF Resume, runVars
  <2>2. CASE phase[f] = "error"
    BY <1>2, <1>8, <2>2 DEF Resume
  <2> QED BY <1>8, <2>1, <2>2 DEF Resume
<1>9. CASE Lapse \/ UNCHANGED vars
  BY <1>1, <1>9 DEF Lapse, vars, runVars
<1> QED BY <1>3, <1>4, <1>5, <1>6, <1>7, <1>8, <1>9 DEF Next, Send

-----------------------------------------------------------------------------
(* Every step moves at most one run, and `doubled` says when it overlaps.   *)
LEMMA RunStep ==
  Ordered /\ [Next]_vars =>
    \/ \E r \in Runs : /\ run[r] = "idle" /\ Click(r)
                       /\ ~doubled' => ~doubled /\ \A q \in Runs : ~UnderWay(q)
    \/ /\ doubled' = doubled
       /\ \A r \in Runs : UnderWay(r)' => UnderWay(r)
<1> SUFFICES ASSUME Ordered, [Next]_vars,
                    ~ \E r \in Runs :
                        /\ run[r] = "idle" /\ Click(r)
                        /\ ~doubled' => ~doubled /\ \A q \in Runs : ~UnderWay(q)
             PROVE  doubled' = doubled /\ \A r \in Runs : UnderWay(r)' => UnderWay(r)
  OBVIOUS
<1> USE DEF UnderWay
<1>1. ASSUME UNCHANGED <<run, doubled>>
      PROVE  doubled' = doubled /\ \A r \in Runs : UnderWay(r)' => UnderWay(r)
  BY <1>1
<1>2. ASSUME doubled' = doubled, NEW f \in Flows, phase[f] # "idle",
             NEW ok \in BOOLEAN, Over(f, ok)
      PROVE  doubled' = doubled /\ \A r \in Runs : UnderWay(r)' => UnderWay(r)
  BY <1>2, OverRequest
<1>3. ASSUME NEW r \in Runs, Click(r)
      PROVE  doubled' = doubled /\ \A q \in Runs : UnderWay(q)' => UnderWay(q)
  <2>1. run[r] = "idle"
    BY <1>3 DEF Click, Ordered, Clicked
  <2>2. CASE pending # None
    BY <1>1, <1>3, <2>2 DEF Click
  <2>3. CASE pending = None
    <3>1. ~doubled' => ~doubled /\ \A q \in Runs : ~UnderWay(q)
      BY <1>3, <2>3, Zenon DEF Click
    <3> QED BY <1>3, <2>1, <3>1
  <2> QED BY <2>2, <2>3
<1>4. ASSUME NEW r \in Runs, Proceed(r)
      PROVE  doubled' = doubled /\ \A q \in Runs : UnderWay(q)' => UnderWay(q)
  <2>1. doubled' = doubled /\ UnderWay(r)
    BY <1>4 DEF Proceed, Enter, Abort, Conclude, Reopen, Announce
  <2>2. \A q \in Runs : q # r => run'[q] = run[q]
    BY <1>4 DEF Proceed, Enter, Abort, Conclude, Reopen, Announce, Ordered, TypeOK
  <2> QED BY <2>1, <2>2
<1>5. ASSUME NEW r \in Runs, Answer(r) \/ GiveUp(r)
      PROVE  doubled' = doubled /\ \A q \in Runs : UnderWay(q)' => UnderWay(q)
  BY <1>1, <1>5 DEF Answer, GiveUp, Respond, runVars
<1>6. ASSUME NEW f \in Flows, Ask(f) \/ TakeLock(f) \/ Callback(f) \/ Redirected(f)
      PROVE  doubled' = doubled /\ \A q \in Runs : UnderWay(q)' => UnderWay(q)
  BY <1>1, <1>6 DEF Ask, TakeLock, Callback, Redirected, runVars
<1>7. ASSUME NEW f \in Flows, Served(f) \/ Unreachable(f) \/ Inhibited(f) \/ Expire(f)
                              \/ Exchange(f)
      PROVE  doubled' = doubled /\ \A q \in Runs : UnderWay(q)' => UnderWay(q)
  BY <1>2, <1>7 DEF Served, Unreachable, Inhibited, Expire, Exchange
<1>8. ASSUME NEW f \in Flows, Resume(f)
      PROVE  doubled' = doubled /\ \A q \in Runs : UnderWay(q)' => UnderWay(q)
  <2>1. CASE phase[f] = "code"
    BY <1>1, <1>8, <2>1 DEF Resume, runVars
  <2>2. CASE phase[f] = "error"
    BY <1>2, <1>8, <2>2 DEF Resume
  <2> QED BY <1>8, <2>1, <2>2 DEF Resume
<1>9. CASE Lapse \/ UNCHANGED vars
  BY <1>1, <1>9 DEF Lapse, vars, runVars
<1> QED BY <1>3, <1>4, <1>5, <1>6, <1>7, <1>8, <1>9 DEF Next, Send

LEMMA AloneStep ==
  Ordered /\ (~doubled => Alone) /\ [Next]_vars => (~doubled' => Alone')
<1> SUFFICES ASSUME Ordered, ~doubled => Alone, [Next]_vars, ~doubled',
                    NEW q \in Runs, NEW r \in Runs, UnderWay(q)', UnderWay(r)'
             PROVE  q = r
  BY DEF Alone
<1>1. CASE doubled' = doubled /\ \A s \in Runs : UnderWay(s)' => UnderWay(s)
  BY <1>1 DEF Alone
<1>2. ASSUME NEW s \in Runs, Click(s), \A p \in Runs : ~UnderWay(p) PROVE q = r
  <2>1. \A p \in Runs : p # s => run'[p] = run[p]
    BY <1>2 DEF Click, Ordered, TypeOK
  <2> QED BY <1>2, <2>1 DEF UnderWay
<1> QED BY <1>1, <1>2, RunStep

(* A run that waits at its rendezvous finds it published.                   *)
LEMMA WaiterStep ==
  Ordered /\ Exclusive /\ (~doubled => Alone) /\ WaiterReachable /\ [Next]_vars
    => WaiterReachable'
<1> SUFFICES ASSUME Ordered, Exclusive, ~doubled => Alone, WaiterReachable, [Next]_vars,
                    ~doubled', NEW r \in Runs, AtRendezvous(r)'
             PROVE  pending' = r
  BY DEF WaiterReachable
<1> USE DEF WaiterReachable, AtRendezvous, Flows
<1>1. ~doubled /\ (Alone \/ \E q \in Runs : Click(q))
  BY RunStep
<1>2. ASSUME pending' = pending, phase'[r] = phase[r] PROVE pending' = r
  BY <1>1, <1>2
<1>3. ASSUME NEW f \in Flows, InProvider(f), \A g \in Flows : g # f => phase'[g] = phase[g],
             ~AtRendezvous(f)' \/ pending' = f
      PROVE  pending' = r
  <2>1. r # f => InProvider(r)
    BY <1>3 DEF InProvider
  <2> QED BY <1>3, <2>1 DEF Exclusive
<1>4. ASSUME NEW f \in Flows, InProvider(f), NEW ok \in BOOLEAN, Over(f, ok)
      PROVE  pending' = r
  <2>1. phase'[f] \in {"idle", "done"} /\ \A g \in Flows : g # f => phase'[g] = phase[g]
    BY <1>4, OverRequest DEF InProvider
  <2> QED BY <1>3, <1>4, <2>1
<1>5. ASSUME NEW f \in Flows, Ask(f) \/ TakeLock(f) PROVE pending' = r
  <2>1. pending' = pending /\ phase' = [phase EXCEPT ![f] = phase'[f]] /\ phase'[f] \in {"queued", "sending"}
    BY <1>5 DEF Ask, TakeLock, Ordered, TypeOK
  <2>2. phase'[r] = phase[r]
    BY <2>1 DEF Ordered, TypeOK
  <2> QED BY <1>2, <2>1, <2>2
<1>6. ASSUME NEW f \in Flows, Send(f) PROVE pending' = r
  <2>1. InProvider(f)
    BY <1>6 DEF Send, Served, Unreachable, Inhibited, Redirected, InProvider
  <2>2. CASE Redirected(f)
    BY <1>3, <2>1, <2>2 DEF Redirected, Ordered, TypeOK
  <2>3. CASE ~Redirected(f)
    BY <1>4, <1>6, <2>1, <2>3 DEF Send, Served, Unreachable, Inhibited
  <2> QED BY <2>2, <2>3
<1>7. ASSUME NEW f \in Flows, Callback(f) PROVE pending' = r
  <2>1. CASE r = f
    BY <1>7, <2>1 DEF Callback
  <2>2. CASE r # f
    BY <1>2, <1>7, <2>2 DEF Callback, Ordered, TypeOK
  <2> QED BY <2>1, <2>2
<1>8. ASSUME NEW f \in Flows, Resume(f) PROVE pending' = r
  <2>1. InProvider(f)
    BY <1>8 DEF Resume, InProvider
  <2>2. CASE phase[f] = "code"
    BY <1>3, <1>8, <2>1, <2>2 DEF Resume, Ordered, TypeOK
  <2>3. CASE phase[f] = "error"
    BY <1>4, <1>8, <2>1, <2>3 DEF Resume
  <2> QED BY <1>8, <2>2, <2>3 DEF Resume
<1>9. ASSUME NEW f \in Flows, Expire(f) \/ Exchange(f) PROVE pending' = r
  <2>1. InProvider(f)
    BY <1>9 DEF Expire, Exchange, InProvider
  <2> QED BY <1>4, <1>9, <2>1 DEF Expire, Exchange
<1>10. ASSUME NEW q \in Runs, Abort(q) \/ Conclude(q) PROVE pending' = r
  <2>1. UnderWay(q) /\ phase' = phase /\ Alone
    BY <1>1, <1>10, RunStep DEF Abort, Conclude, UnderWay, Click
  <2>2. run[r] = "asking" /\ UnderWay(r)
    BY <2>1 DEF Ordered, Working, UnderWay
  <2>3. q = r
    BY <2>1, <2>2 DEF Alone
  <2> QED BY <1>10, <2>2, <2>3 DEF Abort, Conclude
<1>11. ASSUME NEW q \in Runs, Click(q) \/ Answer(q) \/ GiveUp(q) \/ Enter(q) \/ Reopen(q)
                              \/ Announce(q)
       PROVE  pending' = r
  BY <1>2, <1>11 DEF Click, Answer, GiveUp, Respond, Enter, Reopen, Announce
<1>12. CASE Lapse \/ UNCHANGED vars
  BY <1>2, <1>12 DEF Lapse, vars
<1> QED BY <1>5, <1>6, <1>7, <1>8, <1>9, <1>10, <1>11, <1>12 DEF Next, Proceed

-----------------------------------------------------------------------------
(* A route that waits and is not woken stays so in steps that leave its     *)
(* event alone, do not end its run and publish no rendezvous.               *)
Dormant(r) == route[r] = "waiting" /\ r \notin woken

Undisturbed(r) ==
  /\ Dormant(r) /\ event' = event
  /\ event = r => /\ pending' \in {pending, None}
                  /\ run'[r] = "ended" => run[r] = "ended"

LEMMA DormantStep ==
  ASSUME Ordered, [Next]_vars, NEW r \in Runs, Dormant(r)'
  PROVE  Undisturbed(r) \/ \E q \in Runs : Click(q)
<1> USE DEF Dormant, Undisturbed, Ordered, TypeOK
<1>1. ASSUME UNCHANGED <<route, event>>, Wake PROVE Undisturbed(r)
  <2>1. Dormant(r) /\ event # r
    BY <1>1 DEF Wake
  <2> QED BY <1>1, <2>1
<1>2. ASSUME UNCHANGED routeVars, pending' \in {pending, None},
             run'[r] = "ended" => run[r] = "ended"
      PROVE  Undisturbed(r)
  BY <1>2 DEF routeVars
<1>3. ASSUME NEW f \in Flows, phase[f] # "idle", NEW ok \in BOOLEAN, Over(f, ok),
             UNCHANGED routeVars, pending' \in {pending, None}
      PROVE  Undisturbed(r)
  BY <1>2, <1>3, OverRequest
<1>6. ASSUME NEW q \in Runs, Answer(q) \/ GiveUp(q) PROVE Undisturbed(r)
  BY <1>6 DEF Answer, GiveUp, Respond, runVars
<1>7. ASSUME NEW q \in Runs, Proceed(q) PROVE Undisturbed(r)
  <2>1. CASE Enter(q)
    BY <1>2, <2>1 DEF Enter
  <2>2. CASE Abort(q) \/ Announce(q)
    BY <1>1, <2>2 DEF Abort, Announce
  <2>3. CASE Conclude(q)
    BY <1>2, <2>3 DEF Conclude
  <2>4. CASE Reopen(q)
    <3>1. CASE Wake
      BY <1>1, <2>4, <3>1 DEF Reopen
    <3>2. CASE run' = [run EXCEPT ![q] = "announcing"] /\ UNCHANGED woken
      BY <1>2, <2>4, <3>2 DEF Reopen, routeVars
    <3> QED BY <2>4, <3>1, <3>2 DEF Reopen
  <2> QED BY <1>7, <2>1, <2>2, <2>3, <2>4 DEF Proceed
<1>8. ASSUME NEW f \in Flows, Ask(f) \/ TakeLock(f) \/ Callback(f) PROVE Undisturbed(r)
  BY <1>2, <1>8 DEF Ask, TakeLock, Callback, runVars
<1>9. ASSUME NEW f \in Flows, Inhibited(f) \/ Redirected(f) PROVE Undisturbed(r)
  BY <1>1, <1>9 DEF Inhibited, Redirected
<1>10. ASSUME NEW f \in Flows, Served(f) \/ Unreachable(f) \/ Expire(f) \/ Exchange(f)
       PROVE  Undisturbed(r)
  BY <1>3, <1>10 DEF Served, Unreachable, Expire, Exchange
<1>11. ASSUME NEW f \in Flows, Resume(f) PROVE Undisturbed(r)
  <2>1. CASE phase[f] = "code"
    BY <1>2, <1>11, <2>1 DEF Resume, runVars
  <2>2. CASE phase[f] = "error"
    BY <1>3, <1>11, <2>2 DEF Resume
  <2> QED BY <1>11, <2>1, <2>2 DEF Resume
<1>12. CASE Lapse \/ UNCHANGED vars
  BY <1>2, <1>12 DEF Lapse, vars, runVars
<1> HIDE DEF Dormant, Undisturbed, Ordered, TypeOK
<1> QED BY <1>6, <1>7, <1>8, <1>9, <1>10, <1>11, <1>12 DEF Next, Send

(* So while runs do not overlap, the event that a run sets is its own's.    *)
LEMMA WokenStep ==
  /\ Ordered /\ (~doubled => Alone /\ Armed) /\ RouteWoken /\ [Next]_vars
  => (~doubled' => Armed') /\ RouteWoken'
<1> SUFFICES ASSUME Ordered, ~doubled => Alone /\ Armed, RouteWoken, [Next]_vars,
                    ~doubled', NEW r \in Runs, Dormant(r)'
             PROVE  event' = r /\ run'[r] # "ended" /\ pending' = None
  BY DEF Armed, RouteWoken, Dormant
<1> USE DEF Dormant
<1>1. Dormant(r) => ~doubled /\ event = r /\ UnderWay(r) /\ pending = None
  BY RunStep DEF Armed, RouteWoken, Ordered, Clicked, UnderWay
<1>2. ASSUME NEW q \in Runs, Click(q)
      PROVE  event' = r /\ run'[r] # "ended" /\ pending' = None
  <2>1. CASE pending # None
    BY <1>1, <1>2, <2>1 DEF Click, UnderWay, Ordered, TypeOK
  <2>2. CASE pending = None
    <3>1. doubled' = (doubled \/ \E p \in Runs : UnderWay(p))
      BY <1>2, <2>2 DEF Click
    <3>2. ~Dormant(r)
      BY <1>1, <3>1
    <3>3. q = r
      BY <1>2, <2>2, <3>2 DEF Click, Ordered, TypeOK
    <3> QED BY <1>2, <2>2, <3>3 DEF Click, Ordered, TypeOK
  <2> QED BY <2>1, <2>2
<1>3. CASE Undisturbed(r)
  BY <1>1, <1>3 DEF Undisturbed, UnderWay
<1> QED BY <1>2, <1>3, DormantStep

-----------------------------------------------------------------------------
(* The invariant, and what it gives. *)
AuthorizationInv ==
  /\ Ordered /\ Exclusive /\ LinkAwaited /\ NeverLeftInteractive
  /\ ~doubled => Alone /\ Armed
  /\ WaiterReachable /\ RouteWoken

THEOREM AuthorizationInductive == Spec => []AuthorizationInv
<1>1. Init => AuthorizationInv
  <2> SUFFICES ASSUME Init PROVE AuthorizationInv
    OBVIOUS
  <2> USE DEF Init
  <2>1. TypeOK
    <3>1. sent \in [Runs -> 0 .. Requests]
      BY AuthorizationAssumption
    <3>2. token \in BOOLEAN /\ due \in BOOLEAN
      BY Zenon
    <3> QED BY <3>1, <3>2 DEF TypeOK
  <2>2. Working /\ Clicked /\ Exclusive /\ Alone /\ Armed
    BY DEF Working, Clicked, Exclusive, InProvider, AtRendezvous, Flows, Alone, UnderWay, Armed
  <2>3. LinkAwaited /\ NeverLeftInteractive /\ WaiterReachable /\ RouteWoken
    BY DEF LinkAwaited, NeverLeftInteractive, WaiterReachable, RouteWoken, AtRendezvous, Flows
  <2> QED BY <2>1, <2>2, <2>3 DEF AuthorizationInv, Ordered
<1>2. AuthorizationInv /\ [Next]_vars => AuthorizationInv'
  <2> SUFFICES ASSUME AuthorizationInv, [Next]_vars PROVE AuthorizationInv'
    OBVIOUS
  <2>1. Ordered' /\ Exclusive' /\ LinkAwaited' /\ NeverLeftInteractive'
    BY OrderedStep, ExclusiveStep, LinkStep, InteractiveStep DEF AuthorizationInv
  <2>2. ~doubled' => Alone'
    BY AloneStep DEF AuthorizationInv
  <2>3. (~doubled' => Armed') /\ RouteWoken'
    BY WokenStep DEF AuthorizationInv
  <2>4. WaiterReachable'
    BY WaiterStep DEF AuthorizationInv
  <2> QED BY <2>1, <2>2, <2>3, <2>4 DEF AuthorizationInv
<1> QED BY <1>1, <1>2, PTL DEF Spec

(* The state keeps its types, in every step of every task. *)
THEOREM AuthorizationTyped == Spec => []TypeOK
BY AuthorizationInductive, PTL DEF AuthorizationInv, Ordered

(* authorizer.pending_url: the link that the page shows and the route       *)
(* redirects to leads to a rendezvous somebody waits at.                    *)
THEOREM LinkIsAwaited == Spec => []LinkAwaited
BY AuthorizationInductive, PTL DEF AuthorizationInv

(* While runs do not overlap, /callback reaches the run that waits.         *)
THEOREM WaiterIsReachable == Spec => []WaiterReachable
BY AuthorizationInductive, PTL DEF AuthorizationInv

(* While runs do not overlap, a route is woken by the end of its run or by  *)
(* the URL it was waiting for, never by its bound.                          *)
THEOREM RouteIsWoken == Spec => []RouteWoken
BY AuthorizationInductive, PTL DEF AuthorizationInv

(* The flag that lets a failure open a rendezvous is down outside of runs,  *)
(* even of runs that overlap.                                               *)
THEOREM InteractiveOnlyInRuns == Spec => []NeverLeftInteractive
BY AuthorizationInductive, PTL DEF AuthorizationInv

(* Only a usable token lowers authorization_pending. *)
THEOREM TokenIsWitness == Spec => DueLoweredByToken
<1>1. [Next]_vars => [due /\ ~due' => token']_vars
  <2> SUFFICES ASSUME Next, due, ~due' PROVE token'
    OBVIOUS
  <2>1. ASSUME NEW f \in Flows, Judge(f) PROVE token'
    BY <2>1, Zenon DEF Judge
  <2>2. ASSUME NEW f \in Flows, Served(f) \/ Exchange(f) PROVE token'
    BY <2>1, <2>2, Zenon DEF Served, Exchange
  <2>3. ASSUME NEW r \in Runs, Conclude(r) PROVE token'
    BY <2>3, Zenon DEF Conclude
  <2>4. ASSUME NEW r \in Runs, Click(r) \/ Answer(r) \/ GiveUp(r) \/ Enter(r) \/ Abort(r)
                                \/ Reopen(r) \/ Announce(r)
        PROVE  FALSE
    BY <2>4, Zenon DEF Click, Answer, GiveUp, Respond, Enter, Abort, Reopen, Announce
  <2>5. ASSUME NEW f \in Flows, Ask(f) \/ TakeLock(f) \/ Unreachable(f) \/ Inhibited(f)
                                 \/ Redirected(f) \/ Callback(f) \/ Resume(f) \/ Expire(f)
        PROVE  FALSE
    BY <2>5, Zenon DEF Ask, TakeLock, Unreachable, Inhibited, Redirected, Callback, Resume,
                       Expire
  <2>6. CASE Lapse
    BY <2>6, Zenon DEF Lapse
  <2> QED BY <2>2, <2>3, <2>4, <2>5, <2>6 DEF Next, Proceed, Send
<1> QED BY <1>1, PTL DEF Spec, DueLoweredByToken

-----------------------------------------------------------------------------
(***************************************************************************)
(* The refinement of Consent: the provider's lock makes the asker unique,   *)
(* and a link in sight is then his.                                         *)
(***************************************************************************)
LEMMA TheAsker ==
  ASSUME NEW p, NEW f \in Flows, p[f] \in Stages,
         \A g \in Flows : p[g] \in Stages => g = f
  PROVE  AskerOf(p) = f /\ StageOf(p) = p[f]
<1>1. Asking(p) = {f}
  BY DEF Asking
<1>2. AskerOf(p) = f
  BY <1>1 DEF AskerOf
<1> QED BY <1>2, AuthorizationAssumption DEF StageOf

LEMMA NoAsker ==
  ASSUME NEW p, \A g \in Flows : p[g] \notin Stages
  PROVE  AskerOf(p) = None /\ StageOf(p) = "none"
BY DEF Asking, AskerOf, StageOf

LEMMA SameAsker ==
  ASSUME NEW p, NEW q,
         \A g \in Flows : p[g] \in Stages \/ q[g] \in Stages => q[g] = p[g]
  PROVE  AskerOf(q) = AskerOf(p) /\ StageOf(q) = StageOf(p)
<1>1. Asking(q) = Asking(p)
  BY DEF Asking
<1>2. AskerOf(q) = AskerOf(p)
  BY <1>1 DEF AskerOf
<1>3. AskerOf(p) # None => AskerOf(p) \in Asking(p)
  BY DEF AskerOf
<1> QED BY <1>2, <1>3 DEF StageOf, Asking

(* Who asks the user has the provider. *)
LEMMA AskerAlone ==
  ASSUME Exclusive, NEW f \in Flows, InProvider(f)
  PROVE  \A g \in Flows : phase[g] \in Stages => g = f
BY DEF Exclusive, InProvider, AtRendezvous, Stages

(* A request that goes elsewhere than to the user leaves the asker.         *)
LEMMA Elsewhere ==
  ASSUME TypeOK, NEW f \in Flows, NEW x, phase[f] \notin Stages, x \notin Stages,
         phase' = [phase EXCEPT ![f] = x]
  PROVE  AskerOf(phase') = AskerOf(phase) /\ StageOf(phase') = StageOf(phase)
<1>1. \A g \in Flows : phase[g] \in Stages \/ phase'[g] \in Stages => phase'[g] = phase[g]
  BY DEF TypeOK
<1> QED BY <1>1, SameAsker

LEMMA OverElsewhere ==
  ASSUME TypeOK, NEW f \in Flows, NEW ok, Over(f, ok)
  PROVE  \E x \in {"idle", "done"} : phase' = [phase EXCEPT ![f] = x]
BY DEF Over

(* The asker has done with the user. *)
LEMMA AskerLeaves ==
  ASSUME TypeOK, Exclusive, NEW f \in Flows, InProvider(f), NEW ok, Over(f, ok)
  PROVE  AskerOf(phase') = None /\ StageOf(phase') = "none"
<1>1. \A g \in Flows : phase'[g] \notin Stages
  BY OverElsewhere, AskerAlone DEF TypeOK, Stages
<1> QED BY <1>1, NoAsker

LEMMA RequestConsents ==
  ASSUME TypeOK, Exclusive, NEW f \in Flows,
         Ask(f) \/ TakeLock(f) \/ Send(f) \/ Callback(f) \/ Resume(f) \/ Expire(f) \/ Exchange(f)
  PROVE  [Abstract!Next]_(Abstract!vars)
<1> DEFINE Quiet == /\ AskerOf(phase') = AskerOf(phase) /\ StageOf(phase') = StageOf(phase)
                    /\ pending' = pending /\ token' = token
<1>0. Quiet => UNCHANGED Abstract!vars
  BY DEF Abstract!vars
<1>1. CASE Ask(f)
  BY <1>0, <1>1, Elsewhere DEF Ask, Stages
<1>2. CASE TakeLock(f)
  BY <1>0, <1>2, Elsewhere DEF TakeLock, Stages
<1>3. CASE Served(f) \/ Unreachable(f) \/ Inhibited(f)
  <2>1. phase[f] = "sending" /\ pending' = pending /\ token' = token /\ \E ok : Over(f, ok)
    BY <1>3 DEF Served, Unreachable, Inhibited
  <2>2. PICK x \in {"idle", "done"} : phase' = [phase EXCEPT ![f] = x]
    BY <2>1, OverElsewhere
  <2> QED BY <1>0, <2>1, <2>2, Elsewhere DEF Stages
<1>4. CASE Redirected(f)
  <2>1. AskerOf(phase) = None
    BY <1>4, AskerAlone, NoAsker DEF Redirected, InProvider, Stages
  <2>2. AskerOf(phase') = f /\ StageOf(phase') = "browser"
    <3>1. phase'[f] = "browser" /\ \A g \in Flows : g # f => phase'[g] \notin Stages
      BY <1>4, AskerAlone DEF Redirected, InProvider, TypeOK
    <3> QED BY <3>1, TheAsker DEF Stages
  <2>3. Abstract!Show(f)
    BY <1>4, <2>1, <2>2 DEF Redirected, Abstract!Show
  <2> QED BY <2>3 DEF Abstract!Next
<1> DEFINE Asks == AskerOf(phase) = f /\ StageOf(phase) = phase[f]
<1>5. phase[f] \in Stages => Asks /\ InProvider(f)
  <2>1. phase[f] \in Stages => InProvider(f)
    BY DEF InProvider, AtRendezvous, Stages
  <2> QED BY <2>1, AskerAlone, TheAsker
<1>6. ASSUME phase[f] \in Stages, NEW x \in Stages, phase' = [phase EXCEPT ![f] = x]
      PROVE  AskerOf(phase') = f /\ StageOf(phase') = x
  <2>1. phase'[f] = x /\ \A g \in Flows : phase'[g] \in Stages => g = f
    BY <1>5, <1>6, AskerAlone DEF TypeOK
  <2> QED BY <2>1, TheAsker
<1>7. CASE Callback(f)
  <2>1. PICK x \in {"code", "error"} : phase' = [phase EXCEPT ![f] = x]
    BY <1>7 DEF Callback
  <2>2. Abstract!Return
    BY <1>5, <1>6, <1>7, <2>1 DEF Callback, Stages, Abstract!Return
  <2> QED BY <2>2 DEF Abstract!Next
<1>8. CASE Resume(f) /\ phase[f] = "code"
  <2>1. phase' = [phase EXCEPT ![f] = "exchanging"] /\ pending' = None /\ token' = token
    BY <1>8 DEF Resume
  <2>2. Abstract!Take
    BY <1>5, <1>6, <1>8, <2>1 DEF Stages, Abstract!Take
  <2> QED BY <2>2 DEF Abstract!Next
<1>9. CASE (Resume(f) /\ phase[f] # "code") \/ Expire(f)
  <2>1. /\ phase[f] \in {"browser", "error"} /\ Over(f, FALSE)
        /\ pending' = None /\ token' = token
    BY <1>9 DEF Resume, Expire
  <2>2. AskerOf(phase') = None /\ StageOf(phase') = "none"
    BY <1>5, <2>1, AskerLeaves DEF Stages
  <2>3. Abstract!Drop
    BY <1>5, <2>1, <2>2 DEF Stages, Abstract!Drop
  <2> QED BY <2>3 DEF Abstract!Next
<1>10. CASE Exchange(f)
  <2>1. /\ phase[f] = "exchanging" /\ pending' = pending /\ token' \in {TRUE, token}
        /\ \E ok : Over(f, ok)
    BY <1>10 DEF Exchange
  <2>2. AskerOf(phase') = None /\ StageOf(phase') = "none"
    BY <1>5, <2>1, AskerLeaves DEF Stages
  <2>3. Abstract!Settle
    BY <1>5, <2>1, <2>2 DEF Stages, Abstract!Settle
  <2> QED BY <2>3 DEF Abstract!Next
<1> QED BY <1>1, <1>2, <1>3, <1>4, <1>7, <1>8, <1>9, <1>10 DEF Send

(* authorizer.py: whatever runs, calls and renewals are refused, and however *)
(* runs overlap, the user is asked by one of them at a time, by a link that  *)
(* is his alone, and a token that was not there comes from his answer to it. *)
THEOREM AuthorizationImplementsConsent == Spec => ImplementsConsent
<1>1. Init => Abstract!Init
  <2> SUFFICES ASSUME Init PROVE Abstract!Init
    OBVIOUS
  <2>1. \A g \in Flows : phase[g] \notin Stages
    BY DEF Init, Stages
  <2>2. AskerOf(phase) = None /\ StageOf(phase) = "none"
    BY <2>1, NoAsker
  <2> QED BY <2>2 DEF Init, Abstract!Init
<1>2. AuthorizationInv /\ [Next]_vars => [Abstract!Next]_(Abstract!vars)
  <2> SUFFICES ASSUME AuthorizationInv, [Next]_vars PROVE [Abstract!Next]_(Abstract!vars)
    OBVIOUS
  <2>1. TypeOK /\ Exclusive
    BY DEF AuthorizationInv, Ordered
  <2>2. CASE \E f \in Flows : \/ Ask(f) \/ TakeLock(f) \/ Send(f)
                              \/ Callback(f) \/ Resume(f) \/ Expire(f) \/ Exchange(f)
    BY <2>1, <2>2, RequestConsents
  <2>3. CASE Lapse
    BY <2>3 DEF Lapse, Abstract!Lapse, Abstract!Next
  <2>4. CASE \E r \in Runs : Click(r) \/ Answer(r) \/ GiveUp(r) \/ Enter(r) \/ Reopen(r) \/ Announce(r)
    <3>1. UNCHANGED <<phase, pending, token>>
      BY <2>4 DEF Click, Answer, GiveUp, Respond, Enter, Reopen, Announce
    <3> QED BY <3>1 DEF Abstract!vars
  <2>5. CASE \E r \in Runs : Abort(r) \/ Conclude(r)
    <3>1. UNCHANGED <<phase, token>> /\ pending' = None
      BY <2>5 DEF Abort, Conclude
    <3> QED BY <3>1 DEF Abstract!Withdraw, Abstract!Next
  <2>6. CASE UNCHANGED vars
    BY <2>6 DEF vars, Abstract!vars
  <2> QED BY <2>2, <2>3, <2>4, <2>5, <2>6 DEF Next, Proceed
<1> QED BY <1>1, <1>2, AuthorizationInductive, PTL DEF Spec, ImplementsConsent, Abstract!Spec

-----------------------------------------------------------------------------
(***************************************************************************)
(* The store: the file keeps the record of a token whatever copies of it   *)
(* are written again, and the loop renews in time a token that lasts at    *)
(* least two units.                                                        *)
(***************************************************************************)

(* A token of one unit ends before any loop can look twice. *)
LongLived == \A d \in Lives : d >= 2

TokenTypes ==
  /\ now \in Nat /\ issued \in Nat /\ failures \in Nat
  /\ file \in [token : Nat, deadline : Int, lifetime : Nat]
  /\ held \in [token : Nat, left : Nat]
  /\ wake \in Int /\ sleep \in Int /\ retryAt \in Int
  /\ life \in Nat /\ announced \in Nat /\ longest \in Nat

(* The copy in memory is a copy of the file's token, with no more than what *)
(* the file knows of it.                                                    *)
Copied ==
  /\ file.token = issued
  /\ held # Nobody => held.token = file.token /\ file.token # 0
  /\ held.left <= file.lifetime
  /\ file.token # 0 => file.deadline <= now + file.lifetime

(* In calm times the file says what was announced, and a loop that sleeps   *)
(* as it must wakes before that.                                            *)
Watched ==
  /\ wake <= now + sleep
  /\ file.token # 0 => longest >= 2
  /\ calm => retryAt <= now
  /\ calm /\ file.token # 0 => file.deadline = announced
  /\ calm /\ sleep <= Period(file.lifetime) /\ life = longest
       /\ file.token # 0 /\ now < announced /\ ~renewing => wake < announced

Recorded == TokenTypes /\ Copied /\ RecordKept

-----------------------------------------------------------------------------
(* The two durations the loop derives from a lifetime. *)
LEMMA Durations ==
  ASSUME NEW lifetime \in Nat
  PROVE  /\ Period(lifetime) \in Nat /\ Margin(lifetime) \in Nat
         /\ lifetime >= 2 => /\ Period(lifetime) <= Margin(lifetime)
                             /\ Period(lifetime) < lifetime
<1>1. MarginCap \in Nat \ {0} /\ PollCap \in Nat \ {0}
  BY TokenAssumption
<1>2. lifetime \div 2 \in Nat /\ (lifetime >= 2 => lifetime \div 2 >= 1 /\ lifetime \div 2 < lifetime)
  OBVIOUS
<1>3. /\ Margin(lifetime) \in Nat
      /\ lifetime >= 2 => Margin(lifetime) >= 1 /\ Margin(lifetime) < lifetime
  BY <1>1, <1>2 DEF Margin, Least
<1>4. /\ Margin(lifetime) \div 3 \in Nat
      /\ Margin(lifetime) >= 1 => Margin(lifetime) \div 3 <= Margin(lifetime)
  BY <1>3
<1> QED BY <1>1, <1>3, <1>4 DEF Period, Least, Greatest

LEMMA NobodyHolds ==
  Nobody \in [token : Nat, left : Nat] /\ Nobody.left = 0
  BY DEF Nobody

LEMMA Powers == ASSUME NEW n \in Nat PROVE 2 ^ n \in Int
  OBVIOUS

-----------------------------------------------------------------------------
(* Whatever is written, the record of the token is kept. *)
LEMMA RecordStep == Recorded /\ [TokenNext]_tokenVars => Recorded'
<1> SUFFICES ASSUME Recorded, [TokenNext]_tokenVars PROVE Recorded'
  OBVIOUS
<1> USE DEF Recorded, TokenTypes, Copied, RecordKept, loopVars, tokenPast
<1>1. CASE TokenTick
  BY <1>1 DEF TokenTick
<1>2. CASE LoadTokens
  <2>1. PICK lost \in {0, 1} :
          held' = [token |-> file.token, left |-> Greatest(file.deadline - now - lost, 0)]
    BY <1>2 DEF LoadTokens
  <2>2. held'.left \in Nat /\ held'.left <= file.lifetime
    BY <1>2, <2>1 DEF LoadTokens, Greatest
  <2> QED BY <1>2, <2>1, <2>2 DEF LoadTokens
<1>3. CASE WriteAgain
  BY <1>3 DEF WriteAgain, SetTokens, Greatest
<1>4. CASE LoopWakes \/ RenewalAnswered
  <2>1. sleep' \in Int /\ wake' \in Int
    BY <1>4, Durations DEF LoopWakes, RenewalAnswered, SleepAgain
  <2>2. UNCHANGED <<now, file, tokenPast>> /\ held' \in {held, Nobody}
    BY <1>4 DEF LoopWakes, RenewalAnswered, SleepAgain
  <2>3. failures' \in Nat /\ retryAt' \in Int
    BY <1>4 DEF LoopWakes, RenewalAnswered, SleepAgain
  <2> QED BY <2>1, <2>2, <2>3, NobodyHolds
<1>5. CASE RenewalFails
  <2>1. sleep' \in Int /\ wake' \in Int
    BY <1>5, Durations DEF RenewalFails, SleepAgain
  <2>2. failures' \in Nat /\ retryAt' \in Int
    BY <1>5, Powers, TokenAssumption DEF RenewalFails, Least
  <2> QED BY <1>5, <2>1, <2>2 DEF RenewalFails, SleepAgain
<1>6. CASE TokenRestart
  <2>1. sleep' \in Int /\ wake' \in Int
    BY <1>6, Durations DEF TokenRestart, SleepAgain
  <2> QED BY <1>6, <2>1, NobodyHolds DEF TokenRestart, SleepAgain
<1>7. ASSUME NEW d \in Lives, Issue(d) PROVE Recorded'
  <2>1. d \in Nat
    BY TokenAssumption
  <2>2. held' = [token |-> issued + 1, left |-> d] /\ issued' = issued + 1
    BY <1>7 DEF Issue
  <2>3. file' = [token |-> issued + 1, deadline |-> now + d,
                 lifetime |-> Greatest(file.lifetime, d)]
    BY <1>7, <2>1, <2>2 DEF Issue, SetTokens
  <2> QED BY <1>7, <2>1, <2>2, <2>3 DEF Issue, Greatest
<1>8. CASE UNCHANGED tokenVars
  BY <1>8 DEF tokenVars
<1> QED BY <1>1, <1>2, <1>3, <1>4, <1>5, <1>6, <1>7, <1>8 DEF TokenNext

(* And, of a token that lasts, so is what has the loop wake before its end. *)
LEMMA WatchStep ==
  ASSUME LongLived, Recorded, Recorded', Watched, [TokenNext]_tokenVars
  PROVE  Watched'
<1> USE DEF Recorded, TokenTypes, Copied, RecordKept, Watched, loopVars, tokenPast
<1>1. CASE TokenTick
  BY <1>1 DEF TokenTick
<1>2. CASE LoadTokens
  BY <1>2 DEF LoadTokens
<1>3. CASE WriteAgain
  <2>1. file'.token = file.token /\ file'.lifetime = file.lifetime
    BY <1>3 DEF WriteAgain, SetTokens, Greatest
  <2> QED BY <1>3, <2>1 DEF WriteAgain
<1>4. ASSUME SleepAgain, UNCHANGED <<now, file, tokenPast>>,
             calm' => /\ calm /\ retryAt' <= now
                      /\ file.token # 0 => file.deadline - now > Margin(file.lifetime)
      PROVE  Watched'
  <2>1. wake' = now + Period(file.lifetime) /\ sleep' = Period(file.lifetime)
    BY <1>4 DEF SleepAgain
  <2>2. Period(file.lifetime) \in Nat /\ Margin(file.lifetime) \in Nat
    BY Durations
  <2>3. file.token # 0 => Period(file.lifetime) <= Margin(file.lifetime)
    BY Durations
  <2> QED BY <1>4, <2>1, <2>2, <2>3
<1>5. CASE LoopWakes
  <2>1. CASE Due
    BY <1>5, <2>1 DEF LoopWakes
  <2>2. CASE ~Due
    <3>1. calm /\ file.token # 0 => file.deadline - now > Margin(file.lifetime)
      BY <2>2, Durations DEF Due, Greatest
    <3> QED BY <1>4, <1>5, <2>2, <3>1 DEF LoopWakes
  <2> QED BY <2>1, <2>2
<1>6. CASE RenewalAnswered
  <2>1. calm' => calm /\ Greatest(file.deadline - now, 0) > Margin(file.lifetime)
    BY <1>6, Zenon DEF RenewalAnswered
  <2>2. retryAt' <= now
    BY <1>6 DEF RenewalAnswered
  <2>3. calm' => file.deadline - now > Margin(file.lifetime)
    BY <2>1, Durations DEF Greatest
  <2> QED BY <1>4, <1>6, <2>1, <2>2, <2>3 DEF RenewalAnswered
<1>7. CASE RenewalFails \/ TokenRestart
  <2>1. SleepAgain /\ ~calm' /\ UNCHANGED <<now, file, tokenPast>>
    BY <1>7 DEF RenewalFails, TokenRestart
  <2> QED BY <1>4, <2>1
<1>8. ASSUME NEW d \in Lives, Issue(d) PROVE Watched'
  <2>1. d \in Nat /\ d >= 2
    BY TokenAssumption DEF LongLived
  <2>2. held' = [token |-> issued + 1, left |-> d]
    BY <1>8 DEF Issue
  <2>3. file' = [token |-> issued + 1, deadline |-> now + d,
                 lifetime |-> Greatest(file.lifetime, d)]
    BY <1>8, <2>1, <2>2 DEF Issue, SetTokens
  <2>4. longest' = Greatest(longest, d) /\ life' = d /\ announced' = now + d
        /\ UNCHANGED <<now, wake, sleep, renewing, retryAt>>
    BY <1>8 DEF Issue
  <2>5. longest' >= 2 /\ file'.deadline = announced'
    BY <2>1, <2>3, <2>4 DEF Greatest
  <2>6. calm' => retryAt <= now
    BY <1>8 DEF Issue
  <2>7. ASSUME sleep <= Period(file'.lifetime), life' = longest' PROVE wake < announced'
    <3>1. file'.lifetime = d
      BY <2>7, <2>4
    <3>2. Period(d) < d /\ Period(d) \in Nat /\ sleep <= Period(d)
      BY <2>1, <2>7, <3>1, Durations
    <3>3. wake <= now + sleep /\ wake \in Int /\ sleep \in Int /\ now \in Nat
      OBVIOUS
    <3> HIDE DEF Recorded, Watched
    <3> QED BY <2>1, <2>4, <3>2, <3>3
  <2> QED BY <2>4, <2>5, <2>6, <2>7
<1>9. CASE UNCHANGED tokenVars
  BY <1>9 DEF tokenVars
<1> QED BY <1>1, <1>2, <1>3, <1>5, <1>6, <1>7, <1>8, <1>9 DEF TokenNext

(* The initial states. *)
LEMMA TokenStarts == TokenInit => Recorded /\ Watched
<1> SUFFICES ASSUME TokenInit PROVE Recorded /\ Watched
  OBVIOUS
<1>1. PollCap \in Nat
  BY TokenAssumption
<1>2. Recorded
  BY <1>1, NobodyHolds DEF TokenInit, Recorded, TokenTypes, Copied, RecordKept
<1>3. Watched
  BY <1>1 DEF TokenInit, Watched
<1> QED BY <1>2, <1>3

(* Time takes a token to its end only where the loop is late. *)
LEMMA InTimeStep ==
  ASSUME Recorded, Watched, [TokenNext]_tokenVars
  PROVE  [RenewedInTime]_tokenVars
<1> USE DEF Recorded, TokenTypes, Watched, RenewedInTime, Lapses, Sampled
<1>1. CASE TokenTick
  BY <1>1 DEF TokenTick, loopVars, tokenPast
<1>2. CASE LoadTokens \/ WriteAgain \/ LoopWakes \/ RenewalAnswered \/ RenewalFails \/ TokenRestart
  BY <1>2 DEF LoadTokens, WriteAgain, LoopWakes, RenewalAnswered, RenewalFails, TokenRestart,
              tokenPast
<1>3. ASSUME NEW d \in Lives, Issue(d) PROVE RenewedInTime
  BY <1>3, TokenAssumption DEF Issue, loopVars
<1> QED BY <1>1, <1>2, <1>3 DEF TokenNext

-----------------------------------------------------------------------------
(* Whatever is written again, and however stale, the deadline is not before *)
(* the one that was announced.                                              *)
THEOREM RecordIsKept == TokenSpec => []RecordKept
<1>1. Recorded => RecordKept
  BY DEF Recorded
<1> QED BY <1>1, TokenStarts, RecordStep, PTL DEF TokenSpec

(* And a token that lasts at least two units is renewed in time. *)
THEOREM TokenRenewed == ASSUME LongLived PROVE TokenSpec => TokenSound
<1>1. Recorded /\ Watched /\ [TokenNext]_tokenVars => (Recorded /\ Watched)'
  BY RecordStep, WatchStep
<1>2. Recorded /\ Watched /\ [TokenNext]_tokenVars => [RecordKept' /\ RenewedInTime]_tokenVars
  BY RecordStep, InTimeStep DEF Recorded
<1> QED BY <1>1, <1>2, TokenStarts, PTL DEF TokenSpec, TokenSound
=============================================================================
