--------------------------- MODULE Authorization ---------------------------
(***************************************************************************)
(* Outgoing authorization of one upstream: class UpstreamAuthorizer, the    *)
(* routes /authorize and /callback (mcp_proxy/auth_out/authorizer.py), and  *)
(* the token they write (mcp_proxy/auth_out/storage.py).                    *)
(*                                                                         *)
(* A click on /authorize starts a RUN in a task of its own, and the ROUTE   *)
(* waits for an event before it answers.  The run sends requests through    *)
(* the OAuth provider until one is refused; calls and background renewals   *)
(* go through the same provider, which serves one request at a time from    *)
(* its first byte to its last, the wait for the browser included.           *)
(* A refused request asks for a redirection: whether it may open a          *)
(* rendezvous with the browser is decided by one flag, `interactive`, that  *)
(* the run raises.                                                          *)
(*                                                                         *)
(* The handshake of the session that a successful run reopens is an outcome *)
(* here; HttpUpstream models it.                                            *)
(***************************************************************************)
EXTENDS Naturals, FiniteSets

CONSTANTS
  Runs,       \* BOUND: clicks on /authorize
  Calls,      \* BOUND: requests of tools/call, tools/list or a handshake
  Renewals,   \* BOUND: background calls of refresh_if_due()
  Requests,   \* BOUND: requests a run sends when none is refused (3 or 4)
  None

Flows == Runs \cup Calls \cup Renewals

ASSUME AuthorizationAssumption ==
  /\ Requests \in Nat \ {0}
  /\ Runs \cap Calls = {} /\ Runs \cap Renewals = {} /\ Calls \cap Renewals = {}
  /\ None \notin Flows

VARIABLES
  run,           \* each run: where its task stands
  sent,          \* how many of its requests are answered
  route,         \* each click: whether its route has answered
  event,         \* redirect_ready: the click that armed it
  woken,         \* the clicks whose route waits and whose event is set
  phase,         \* each flow: where its request stands in the provider
  pending,       \* the published rendezvous, by the flow that opened it
  interactive,
  due,           \* authorization_pending
  failed,        \* last_error is set
  token,         \* a usable token is stored: has_usable_token()
  doubled        \* history: two runs were under way at once

runVars   == <<run, sent>>
routeVars == <<route, event, woken>>
vars == <<runVars, routeVars, phase, pending, interactive, due, failed, token, doubled>>

TypeOK ==
  /\ run \in [Runs -> {"idle", "started", "asking", "failing", "reopening",
                       "announcing", "ended"}]
  /\ sent \in [Runs -> 0 .. Requests]
  /\ route \in [Runs -> {"idle", "waiting", "answered"}]
  /\ event \in Runs \cup {None}
  /\ woken \subseteq {r \in Runs : route[r] = "waiting"}
  /\ phase \in [Flows -> {"idle", "queued", "sending", "browser", "code", "error",
                          "exchanging", "done"}]
  /\ pending \in Flows \cup {None}
  /\ interactive \in BOOLEAN /\ due \in BOOLEAN /\ failed \in BOOLEAN
  /\ token \in BOOLEAN /\ doubled \in BOOLEAN

(* At boot the flag is raised when no usable token is stored, and may be by  *)
(* a renewal that failed.                                                   *)
Init ==
  /\ run = [r \in Runs |-> "idle"]
  /\ sent = [r \in Runs |-> 0]
  /\ route = [r \in Runs |-> "idle"]
  /\ event = None
  /\ woken = {}
  /\ phase = [f \in Flows |-> "idle"]
  /\ pending = None
  /\ interactive = FALSE
  /\ token \in BOOLEAN
  /\ due \in {TRUE, ~token}
  /\ failed = FALSE
  /\ doubled = FALSE

-----------------------------------------------------------------------------
UnderWay(r)  == run[r] \notin {"idle", "ended"}
Authorizing(r) == run[r] \in {"asking", "failing"}
AtRendezvous(f) == phase[f] \in {"browser", "code", "error"}
InProvider(f) == phase[f] \in {"sending", "exchanging"} \/ AtRendezvous(f)

(* redirect_ready.set(): the event of the last click, whoever sets it. *)
Wake == woken' = woken \cup {r \in Runs : r = event /\ route[r] = "waiting"}

(* The stored token expires, and has no refresh token to renew it. *)
Lapse ==
  /\ token
  /\ token' = FALSE
  /\ UNCHANGED <<runVars, routeVars, phase, pending, interactive, due, failed, doubled>>

(* handle_authorize(), up to its wait: a rendezvous that is open is shown,  *)
(* else the event is armed and the run starts in its task.                  *)
Click(r) ==
  /\ route[r] = "idle"
  /\ \/ /\ pending # None
        /\ route' = [route EXCEPT ![r] = "answered"]
        /\ UNCHANGED <<run, event, failed, doubled>>
     \/ /\ pending = None
        /\ route' = [route EXCEPT ![r] = "waiting"]
        /\ event' = r
        /\ failed' = FALSE
        /\ run' = [run EXCEPT ![r] = "started"]
        /\ doubled' = (doubled \/ \E q \in Runs : UnderWay(q))
  /\ UNCHANGED <<sent, woken, phase, pending, interactive, due, token>>

(* The page: a redirection if a rendezvous is open, and else what the flags *)
(* say, which are the upstream's and not this run's.                        *)
Page ==
  IF pending # None THEN "redirected"
  ELSE IF failed THEN "failed"
  ELSE IF due THEN "nothing" ELSE "granted"

Respond(r) ==
  /\ route' = [route EXCEPT ![r] = "answered"]
  /\ woken' = woken \ {r}
  /\ UNCHANGED <<runVars, event, phase, pending, interactive, due, failed, token,
                 doubled>>

(* The event is set, or the wait of the route reaches its bound. *)
Answer(r) == route[r] = "waiting" /\ r \in woken /\ Respond(r)
GiveUp(r) == route[r] = "waiting" /\ r \notin woken /\ Respond(r)

-----------------------------------------------------------------------------
(* authorize(): the flag is raised, and requests are sent one by one.       *)
Enter(r) ==
  /\ run[r] = "started"
  /\ run' = [run EXCEPT ![r] = "asking"]
  /\ interactive' = TRUE
  /\ UNCHANGED <<sent, routeVars, phase, pending, due, failed, token, doubled>>

(* A flow asks for the provider: the next request of a run, a call, or a    *)
(* renewal, which has a token to renew.                                     *)
Ask(f) ==
  /\ phase[f] = "idle"
  /\ f \in Runs => run[f] = "asking" /\ sent[f] < Requests
  /\ f \in Renewals => token
  /\ phase' = [phase EXCEPT ![f] = "queued"]
  /\ UNCHANGED <<runVars, routeVars, pending, interactive, due, failed, token,
                 doubled>>

(* Mutant of TakeLock: the provider serves several requests at a time. *)
TakeLockShared(f) ==
  /\ phase[f] = "queued"
  /\ phase' = [phase EXCEPT ![f] = "sending"]
  /\ UNCHANGED <<runVars, routeVars, pending, interactive, due, failed, token,
                 doubled>>

(* The lock of the provider's context, held for a whole request. *)
TakeLock(f) ==
  /\ phase[f] = "queued"
  /\ \A g \in Flows : ~InProvider(g)
  /\ phase' = [phase EXCEPT ![f] = "sending"]
  /\ UNCHANGED <<runVars, routeVars, pending, interactive, due, failed, token,
                 doubled>>

(* What becomes of a flow when its request is over: a run goes on to its    *)
(* next request, or fails with this one.                                    *)
Over(f, ok) ==
  IF f \in Runs
  THEN /\ phase' = [phase EXCEPT ![f] = "idle"]
       /\ run' = IF ok THEN run ELSE [run EXCEPT ![f] = "failing"]
       /\ sent' = [sent EXCEPT ![f] = IF ok THEN @ + 1 ELSE 0]
  ELSE /\ phase' = [phase EXCEPT ![f] = "done"]
       /\ UNCHANGED runVars

(* refresh_if_due(), after its request: the provider has lost its token, or *)
(* the stored one is dead; or it is good, renewed or not; or nothing says.  *)
Judge(f) ==
  IF f \in Renewals
  THEN due' = due \/ due' = TRUE \/ (token' /\ due' = FALSE)
  ELSE UNCHANGED due

(* The upstream answers and asks for nothing. *)
Served(f) ==
  /\ phase[f] = "sending"
  /\ UNCHANGED <<routeVars, pending, interactive, failed, token, doubled>>
  /\ Over(f, TRUE)
  /\ Judge(f)

(* The network fails, or the discovery of the authorization server does.    *)
Unreachable(f) ==
  /\ phase[f] = "sending"
  /\ Over(f, FALSE)
  /\ UNCHANGED <<routeVars, pending, interactive, due, failed, token, doubled>>

(* _on_redirect() while nobody asked: noted as due, and the flow stops.     *)
Inhibited(f) ==
  /\ phase[f] = "sending"
  /\ ~interactive
  /\ due' = TRUE
  /\ Wake
  /\ Over(f, FALSE)
  /\ UNCHANGED <<route, event, pending, interactive, failed, token, doubled>>

(* Mutant of Redirected: the route is not told. *)
RedirectedQuietly(f) ==
  /\ phase[f] = "sending"
  /\ interactive
  /\ pending' = f
  /\ UNCHANGED woken
  /\ phase' = [phase EXCEPT ![f] = "browser"]
  /\ UNCHANGED <<runVars, route, event, interactive, due, failed, token, doubled>>

(* _on_redirect() during a run, whichever flow was refused: the rendezvous  *)
(* is published, the route told, and the flow waits for the browser.        *)
Redirected(f) ==
  /\ phase[f] = "sending"
  /\ interactive
  /\ pending' = f
  /\ Wake
  /\ phase' = [phase EXCEPT ![f] = "browser"]
  /\ UNCHANGED <<runVars, route, event, interactive, due, failed, token, doubled>>

-----------------------------------------------------------------------------
(* /callback: a return is routed by the state of its own URL, and the first *)
(* one counts.  Any other changes nothing.                                  *)
Callback(f) ==
  /\ pending = f
  /\ phase[f] = "browser"
  /\ \E answer \in {"code", "error"} : phase' = [phase EXCEPT ![f] = answer]
  /\ UNCHANGED <<runVars, routeVars, pending, interactive, due, failed, token,
                 doubled>>

(* Mutant of Resume: the rendezvous stays published. *)
ResumePublished(f) ==
  /\ \/ /\ phase[f] = "code"
        /\ phase' = [phase EXCEPT ![f] = "exchanging"]
        /\ UNCHANGED runVars
     \/ /\ phase[f] = "error"
        /\ Over(f, FALSE)
  /\ UNCHANGED <<routeVars, pending, interactive, due, failed, token, doubled>>

(* _on_callback(): the flow gets the answer of its rendezvous... *)
Resume(f) ==
  /\ \/ /\ phase[f] = "code"
        /\ phase' = [phase EXCEPT ![f] = "exchanging"]
        /\ UNCHANGED runVars
     \/ /\ phase[f] = "error"
        /\ Over(f, FALSE)
  /\ pending' = None
  /\ UNCHANGED <<routeVars, interactive, due, failed, token, doubled>>

(* Mutant of Expire: only a rendezvous that is still published expires. *)
ExpirePublished(f) ==
  /\ phase[f] = "browser"
  /\ pending = f
  /\ Over(f, FALSE)
  /\ pending' = None
  /\ UNCHANGED <<routeVars, interactive, due, failed, token, doubled>>

(* ... or its wait reaches its bound. *)
Expire(f) ==
  /\ phase[f] = "browser"
  /\ Over(f, FALSE)
  /\ pending' = None
  /\ UNCHANGED <<routeVars, interactive, due, failed, token, doubled>>

(* The code is exchanged, set_tokens() stores the token and the request is  *)
(* sent again, to be answered or not; or the exchange fails.                *)
Exchange(f) ==
  /\ phase[f] = "exchanging"
  /\ \/ token' = TRUE /\ Over(f, TRUE) /\ Judge(f)
     \/ token' \in {TRUE, token} /\ Over(f, FALSE) /\ UNCHANGED due
  /\ UNCHANGED <<routeVars, pending, interactive, failed, doubled>>

-----------------------------------------------------------------------------
(* Mutant of Abort: the flag is lowered by a run that succeeds only. *)
AbortRaised(r) ==
  /\ run[r] = "failing"
  /\ run' = [run EXCEPT ![r] = "ended"]
  /\ pending' = None
  /\ failed' = TRUE
  /\ Wake
  /\ UNCHANGED <<sent, route, event, phase, interactive, due, token, doubled>>

(* A request failed: authorize() cleans up and the run ends in error. *)
Abort(r) ==
  /\ run[r] = "failing"
  /\ run' = [run EXCEPT ![r] = "ended"]
  /\ interactive' = FALSE
  /\ pending' = None
  /\ failed' = TRUE
  /\ Wake
  /\ UNCHANGED <<sent, route, event, phase, due, token, doubled>>

(* Mutant of Conclude: the absence of an exception is taken for a token. *)
ConcludeTrusting(r) ==
  /\ run[r] = "asking" /\ phase[r] = "idle" /\ sent[r] = Requests
  /\ sent' = [sent EXCEPT ![r] = 0]
  /\ interactive' = FALSE
  /\ pending' = None
  /\ due' = FALSE
  /\ run' = [run EXCEPT ![r] = "reopening"]
  /\ UNCHANGED <<routeVars, phase, failed, token, doubled>>

(* Every request was answered: the token is the witness.  With it the       *)
(* upstream is authorized and its session reopened.                         *)
Conclude(r) ==
  /\ run[r] = "asking" /\ phase[r] = "idle" /\ sent[r] = Requests
  /\ sent' = [sent EXCEPT ![r] = 0]
  /\ interactive' = FALSE
  /\ pending' = None
  /\ \/ /\ token
        /\ due' = FALSE
        /\ run' = [run EXCEPT ![r] = "reopening"]
        /\ UNCHANGED failed
     \/ /\ ~token
        /\ failed' = FALSE
        /\ run' = [run EXCEPT ![r] = "announcing"]
        /\ UNCHANGED due
  /\ UNCHANGED <<routeVars, phase, token, doubled>>

(* upstream.stop(), then upstream.start(), which may fail. *)
Reopen(r) ==
  /\ run[r] = "reopening"
  /\ \/ /\ run' = [run EXCEPT ![r] = "announcing"]
        /\ failed' = FALSE
        /\ UNCHANGED woken
     \/ /\ run' = [run EXCEPT ![r] = "ended"]
        /\ failed' = TRUE
        /\ Wake
  /\ UNCHANGED <<sent, route, event, phase, pending, interactive, due, token, doubled>>

(* on_authorized() publishes the surface, then the route is woken. *)
Announce(r) ==
  /\ run[r] = "announcing"
  /\ run' = [run EXCEPT ![r] = "ended"]
  /\ Wake
  /\ UNCHANGED <<sent, route, event, phase, pending, interactive, due, failed, token,
                 doubled>>

Send(f)    == Served(f) \/ Unreachable(f) \/ Inhibited(f) \/ Redirected(f)
Proceed(r) == Enter(r) \/ Abort(r) \/ Conclude(r) \/ Reopen(r) \/ Announce(r)

Next ==
  \/ Lapse
  \/ \E r \in Runs : Click(r) \/ Answer(r) \/ GiveUp(r) \/ Proceed(r)
  \/ \E f \in Flows : \/ Ask(f) \/ TakeLock(f) \/ Send(f)
                      \/ Callback(f) \/ Resume(f) \/ Expire(f) \/ Exchange(f)

(* Tasks that can run do run.  A request is bounded by the client's timeout, *)
(* the wait for the browser by its own; nobody is assumed to click, nor to  *)
(* come back from the authorization server.                                 *)
Fairness ==
  /\ \A r \in Runs : WF_vars(Proceed(r)) /\ WF_vars(Ask(r))
  /\ \A f \in Flows : /\ WF_vars(TakeLock(f)) /\ WF_vars(Send(f))
                      /\ WF_vars(Resume(f) \/ Expire(f)) /\ WF_vars(Exchange(f))

Spec     == Init /\ [][Next]_vars
FairSpec == Spec /\ Fairness

-----------------------------------------------------------------------------
(* The link of the page "deja en cours", and the one a route redirects to,  *)
(* lead to a rendezvous somebody still waits at, whoever opened it and      *)
(* whichever runs end in between.                                           *)
LinkAwaited == pending # None => AtRendezvous(pending)

(* A run that waits for the browser can be reached by /callback, unless     *)
(* runs overlapped: then the end of one forgets the rendezvous of another,  *)
(* which holds the provider's lock until its wait expires.                  *)
WaiterReachable ==
  ~doubled => \A r \in Runs : AtRendezvous(r) => pending = r

(* "Toujours reveiller la route": once its run has ended, or its URL is     *)
(* known, a route does not wait for its bound.                              *)
RouteWoken ==
  ~doubled =>
    \A r \in Runs :
      route[r] = "waiting" /\ (run[r] = "ended" \/ pending # None) => r \in woken

(* "Le drapeau n'est leve que pour la duree du parcours": no later failure  *)
(* opens a rendezvous that nobody asked for.                                *)
NeverLeftInteractive == interactive => \E r \in Runs : Authorizing(r)

(* "Le temoin est le JETON": what lowers the flag that every surface reads  *)
(* has seen a usable token.                                                 *)
DueLoweredByToken == [][due /\ ~due' => token']_vars

(* Nothing holds the provider for ever: a call or a renewal that asks for   *)
(* it gets it, though nobody comes back from the authorization server.      *)
EveryRequestServed ==
  \A f \in Calls \cup Renewals : phase[f] = "queued" ~> phase[f] # "queued"

(* Every run ends, whoever holds the provider when it asks for it. *)
EveryRunEnds == \A r \in Runs : run[r] = "started" ~> run[r] = "ended"

(* "Ni redirection, ni jeton, ni erreur : l'upstream a repondu sans rien    *)
(* exiger", and "Autorisation accordee" only with a token.                  *)
PageTrue ==
  [][\A r \in Runs : route[r] = "waiting" /\ route'[r] = "answered" =>
       /\ Page = "nothing" => run[r] \notin {"started", "asking", "failing"}
       /\ Page = "granted" => token]_vars

(* To its user the upstream is one Consent: whichever flows were refused,   *)
(* he is asked by one of them at a time, and a token that was not there     *)
(* comes from the code he came back with.                                   *)
Stages == {"browser", "code", "error", "exchanging"}
Asking(p)  == {f \in Flows : p[f] \in Stages}
AskerOf(p) == IF Asking(p) = {} THEN None ELSE CHOOSE f \in Asking(p) : TRUE
StageOf(p) == IF AskerOf(p) = None THEN "none" ELSE p[AskerOf(p)]

Abstract == INSTANCE Consent WITH asker <- AskerOf(phase), stage <- StageOf(phase),
                                  link <- pending
ImplementsConsent == Abstract!Spec
=============================================================================
