---------------------------- MODULE HttpUpstream ----------------------------
(***************************************************************************)
(* One remote upstream of the proxy (class HttpUpstream of                 *)
(* mcp_proxy/upstream.py).  The transport lives in a service task of its   *)
(* own, _serve(); start() and stop() talk to it through three events, and  *)
(* requests are sent on the session it opened.                             *)
(*                                                                         *)
(* The hard part is that the three events and the session are ATTRIBUTES:  *)
(* start() replaces the events, and a service task reads the attribute     *)
(* when it needs it, not when it was born.  A task that outlives the wait  *)
(* of stop() therefore signals, and waits for, the events of a later       *)
(* generation.  A generation is the number of start() calls so far: it     *)
(* names a service task, and the three events created with it.             *)
(*                                                                         *)
(* Every action runs from one suspension point of the asyncio loop to the  *)
(* next, which is what one task does without any other running.            *)
(***************************************************************************)
EXTENDS Naturals, FiniteSets

CONSTANTS
  Restarters,  \* tasks that run stop() then start(): the boot, /authorize runs
  Requests,    \* requests in flight on the session
  MaxStarts,   \* BOUND: calls of start() explored
  Unguarded    \* requests sent by list_tools(), which skips _on_session()

ASSUME UpstreamAssumption ==
  /\ MaxStarts \in Nat \ {0}
  /\ Unguarded \subseteq Requests

Gens  == 1 .. MaxStarts
NoGen == 0

VARIABLES
  events,     \* generation of _stop_event, _ready, _stopped (0: none created)
  stopSet, readySet, stoppedSet,  \* generations whose event is set
  session,    \* _session: the generation of the task that opened it, or none
  serving,    \* _serving
  failure,    \* _failure is an exception
  service,    \* each generation's _serve() task
  obeys,      \* the generation of the stop event an open service awaits
  restart,    \* each restarter: where it stands in stop() or start()
  awaits,     \* the generation of the event a restarter awaits
  request,    \* each request: where it stands
  on,         \* the session a request was sent on
  watches,    \* the generation of the _stopped event a request races with
  disturbed   \* history: two restarts overlapped, or a bounded wait gave up

restartVars == <<restart, awaits>>
requestVars == <<request, on, watches>>
eventVars   == <<events, stopSet, readySet, stoppedSet>>
serviceVars == <<service, obeys>>
vars == <<eventVars, session, serving, failure, serviceVars, restartVars,
          requestVars, disturbed>>

Live(g) == service[g] \in {"handshake", "open", "closing"}

EventTypes ==
  /\ events \in 0 .. MaxStarts
  /\ stopSet \subseteq Gens
  /\ readySet \subseteq Gens
  /\ stoppedSet \subseteq Gens

ServiceTypes ==
  /\ session \in 0 .. MaxStarts
  /\ serving \in BOOLEAN
  /\ failure \in BOOLEAN
  /\ service \in [Gens -> {"unborn", "handshake", "open", "closing", "done"}]
  /\ obeys \in [Gens -> 0 .. MaxStarts]

RestartTypes ==
  /\ restart \in [Restarters -> {"idle", "stopping", "opening", "ending"}]
  /\ awaits \in [Restarters -> 0 .. MaxStarts]
  /\ disturbed \in BOOLEAN

RequestTypes ==
  /\ request \in [Requests -> {"idle", "sent", "racing", "answered", "failed"}]
  /\ on \in [Requests -> 0 .. MaxStarts]
  /\ watches \in [Requests -> 0 .. MaxStarts]

(* The variables keep their types. *)
TypeOK == EventTypes /\ ServiceTypes /\ RestartTypes /\ RequestTypes

Init ==
  /\ events = NoGen
  /\ stopSet = {} /\ readySet = {} /\ stoppedSet = {}
  /\ session = NoGen /\ serving = FALSE /\ failure = FALSE
  /\ service = [g \in Gens |-> "unborn"]
  /\ obeys = [g \in Gens |-> NoGen]
  /\ restart = [t \in Restarters |-> "idle"]
  /\ awaits = [t \in Restarters |-> NoGen]
  /\ request = [q \in Requests |-> "idle"]
  /\ on = [q \in Requests |-> NoGen]
  /\ watches = [q \in Requests |-> NoGen]
  /\ disturbed = FALSE

-----------------------------------------------------------------------------
(* Mutant of Spawn: the service task is not recorded as serving. *)
SpawnUnrecorded(t) ==
  /\ events < MaxStarts
  /\ events' = events + 1
  /\ failure' = FALSE
  /\ service' = [service EXCEPT ![events + 1] = "handshake"]
  /\ restart' = [restart EXCEPT ![t] = "opening"]
  /\ awaits' = [awaits EXCEPT ![t] = events + 1]
  /\ UNCHANGED <<stopSet, readySet, stoppedSet, obeys, serving>>

(* start(), from the end of its leading stop() to its wait on _ready: three *)
(* fresh events, then the service task is spawned.                          *)
Spawn(t) ==
  /\ events < MaxStarts
  /\ events' = events + 1
  /\ failure' = FALSE
  /\ serving' = TRUE
  /\ service' = [service EXCEPT ![events + 1] = "handshake"]
  /\ restart' = [restart EXCEPT ![t] = "opening"]
  /\ awaits' = [awaits EXCEPT ![t] = events + 1]
  /\ UNCHANGED <<stopSet, readySet, stoppedSet, obeys>>

(* The synchronous part of stop(): the order to stop is given, and the task *)
(* waits for _stopped.                                                      *)
OrderStop(t, phase) ==
  /\ stopSet' = stopSet \cup {events}
  /\ restart' = [restart EXCEPT ![t] = phase]
  /\ awaits' = [awaits EXCEPT ![t] = events]

Busy(t) == restart[t] # "idle"

(* Mutant of Restart: start() without its leading stop(). *)
RestartWithoutStop(t) ==
  /\ restart[t] = "idle"
  /\ Spawn(t)
  /\ disturbed' = (disturbed \/ \E u \in Restarters : Busy(u))
  /\ UNCHANGED <<session, requestVars>>

(* authorize() reopens the session: stop(), then start().  stop() returns   *)
(* at once when nothing is served, and start()'s own stop() then too.       *)
Restart(t) ==
  /\ restart[t] = "idle"
  /\ events < MaxStarts
  /\ disturbed' = (disturbed \/ \E u \in Restarters : Busy(u))
  /\ \/ /\ ~serving
        /\ Spawn(t)
        /\ UNCHANGED session
     \/ /\ serving
        /\ OrderStop(t, "stopping")
        /\ UNCHANGED <<events, readySet, stoppedSet, session, serving,
                       failure, serviceVars>>
  /\ UNCHANGED requestVars

(* The lifespan's end stops the upstream for good. *)
Shutdown(t) ==
  /\ restart[t] = "idle"
  /\ serving
  /\ OrderStop(t, "ending")
  /\ disturbed' = (disturbed \/ \E u \in Restarters : Busy(u))
  /\ UNCHANGED <<events, readySet, stoppedSet, session, serving, failure,
                 serviceVars, requestVars>>

(* The loop is first in, first out: the watcher of a request sent before    *)
(* the service ended has run by the time the task that end woke runs.       *)
WatchersRan(t) ==
  awaits[t] \in stoppedSet =>
    \A q \in Requests \ Unguarded : ~(request[q] = "sent" /\ on[q] = awaits[t])

(* The bounded wait of stop() is over, because the service task said it     *)
(* stopped or because the bound passed; start() follows without a pause.    *)
StopReturns(t) ==
  /\ restart[t] = "stopping"
  /\ WatchersRan(t)
  /\ disturbed' = (disturbed \/ awaits[t] \notin stoppedSet)
  /\ session' = NoGen
  /\ Spawn(t)
  /\ UNCHANGED requestVars

(* start() wakes, on _ready or at its bound.  No session means the handshake *)
(* failed or is still pending: the service is told to stop.                  *)
StartWakes(t) ==
  /\ restart[t] = "opening"
  /\ disturbed' = (disturbed \/ awaits[t] \notin readySet)
  /\ \/ /\ session # NoGen \/ ~serving
        /\ restart' = [restart EXCEPT ![t] = "idle"]
        /\ UNCHANGED <<stopSet, awaits>>
     \/ /\ session = NoGen /\ serving
        /\ OrderStop(t, "ending")
  /\ UNCHANGED <<events, readySet, stoppedSet, session, serving, failure,
                 serviceVars, requestVars>>

(* The stop() of a failed start() returns, and start() raises; or the stop() *)
(* of the proxy's shutdown returns.                                         *)
EndReturns(t) ==
  /\ restart[t] = "ending"
  /\ WatchersRan(t)
  /\ disturbed' = (disturbed \/ awaits[t] \notin stoppedSet)
  /\ serving' = FALSE
  /\ session' = NoGen
  /\ restart' = [restart EXCEPT ![t] = "idle"]
  /\ UNCHANGED <<eventVars, failure, serviceVars, awaits, requestVars>>

-----------------------------------------------------------------------------
(* The service task.  Its handshake opens the session, wakes start() and    *)
(* waits for the order to stop: of the generation CURRENT at that moment.   *)
ServeOpens(g) ==
  /\ service[g] = "handshake"
  /\ session' = g
  /\ readySet' = readySet \cup {events}
  /\ service' = [service EXCEPT ![g] = "open"]
  /\ obeys' = [obeys EXCEPT ![g] = events]
  /\ UNCHANGED <<events, stopSet, stoppedSet, serving, failure, restartVars,
                 requestVars, disturbed>>

(* Mutants of ServeEnds: the session stays published; _stopped is only set  *)
(* by an orderly end; start() is not woken by a failure.                    *)
ServeEndsPublished(g, failed) ==
  /\ failure' = (failure \/ failed)
  /\ readySet' = readySet \cup {events}
  /\ stoppedSet' = stoppedSet \cup {events}
  /\ service' = [service EXCEPT ![g] = "done"]
  /\ UNCHANGED <<events, session, stopSet, serving, obeys, restartVars,
                 requestVars, disturbed>>

ServeEndsSilently(g, failed) ==
  /\ failure' = (failure \/ failed)
  /\ session' = NoGen
  /\ readySet' = readySet \cup {events}
  /\ stoppedSet' = IF failed THEN stoppedSet ELSE stoppedSet \cup {events}
  /\ service' = [service EXCEPT ![g] = "done"]
  /\ UNCHANGED <<events, stopSet, serving, obeys, restartVars, requestVars,
                 disturbed>>

ServeEndsUnready(g, failed) ==
  /\ failure' = (failure \/ failed)
  /\ session' = NoGen
  /\ stoppedSet' = stoppedSet \cup {events}
  /\ service' = [service EXCEPT ![g] = "done"]
  /\ UNCHANGED <<events, stopSet, readySet, serving, obeys, restartVars,
                 requestVars, disturbed>>

(* The finally block of _serve(), whatever the reason it ends. *)
ServeEnds(g, failed) ==
  /\ failure' = (failure \/ failed)
  /\ session' = NoGen
  /\ readySet' = readySet \cup {events}
  /\ stoppedSet' = stoppedSet \cup {events}
  /\ service' = [service EXCEPT ![g] = "done"]
  /\ UNCHANGED <<events, stopSet, serving, obeys, restartVars, requestVars,
                 disturbed>>

(* The handshake is refused, or the transport breaks under an open session. *)
ServeFails(g) ==
  /\ service[g] \in {"handshake", "open"}
  /\ ServeEnds(g, TRUE)

(* Mutant of ServeObeys: the service waits for _stopped, not _stop_event. *)
ServeObeysStopped(g) ==
  /\ service[g] = "open"
  /\ obeys[g] \in stoppedSet
  /\ service' = [service EXCEPT ![g] = "closing"]
  /\ UNCHANGED <<eventVars, session, serving, failure, obeys, restartVars,
                 requestVars, disturbed>>

(* The order to stop is seen: the contexts begin to close.  The session     *)
(* stays published until they have.                                         *)
ServeObeys(g) ==
  /\ service[g] = "open"
  /\ obeys[g] \in stopSet
  /\ service' = [service EXCEPT ![g] = "closing"]
  /\ UNCHANGED <<eventVars, session, serving, failure, obeys, restartVars,
                 requestVars, disturbed>>

ServeCloses(g) ==
  /\ service[g] = "closing"
  /\ \E failed \in BOOLEAN : ServeEnds(g, failed)

-----------------------------------------------------------------------------
(* Mutant of Send: it is _serving that says whether there is a session. *)
SendWhileServing(q) ==
  /\ request[q] = "idle"
  /\ request' = [request EXCEPT ![q] = IF serving THEN "sent" ELSE "failed"]
  /\ on' = [on EXCEPT ![q] = IF serving THEN session ELSE @]
  /\ UNCHANGED <<eventVars, session, serving, failure, serviceVars,
                 restartVars, watches, disturbed>>

(* A request reads the session.  call_tool() and the skills methods go      *)
(* through _on_session(), which refuses when there is none.                 *)
Send(q) ==
  /\ request[q] = "idle"
  /\ \/ /\ session = NoGen
        /\ request' = [request EXCEPT ![q] = "failed"]
        /\ UNCHANGED on
     \/ /\ session # NoGen
        /\ request' = [request EXCEPT ![q] = "sent"]
        /\ on' = [on EXCEPT ![q] = session]
  /\ UNCHANGED <<eventVars, session, serving, failure, serviceVars,
                 restartVars, watches, disturbed>>

(* Mutant of Watch: the watcher waits for the next generation's event. *)
WatchNext(q) ==
  /\ request[q] = "sent"
  /\ q \notin Unguarded
  /\ request' = [request EXCEPT ![q] = "racing"]
  /\ watches' = [watches EXCEPT ![q] = events + 1]
  /\ UNCHANGED <<eventVars, session, serving, failure, serviceVars,
                 restartVars, on, disturbed>>

(* The two children of _on_session() run: the watcher takes the _stopped    *)
(* event of the generation current by then.  list_tools() has no watcher.   *)
Watch(q) ==
  /\ request[q] = "sent"
  /\ q \notin Unguarded
  /\ request' = [request EXCEPT ![q] = "racing"]
  /\ watches' = [watches EXCEPT ![q] = events]
  /\ UNCHANGED <<eventVars, session, serving, failure, serviceVars,
                 restartVars, on, disturbed>>

(* The remote server answers: only while the transport is there to carry it. *)
Answer(q) ==
  /\ request[q] \in {"sent", "racing"}
  /\ service[on[q]] \in {"open", "closing"}
  /\ request' = [request EXCEPT ![q] = "answered"]
  /\ UNCHANGED <<eventVars, session, serving, failure, serviceVars,
                 restartVars, on, watches, disturbed>>

(* The service died first: the request is given up with the cause. *)
Released(q) ==
  /\ request[q] = "racing"
  /\ watches[q] \in stoppedSet
  /\ request' = [request EXCEPT ![q] = "failed"]
  /\ UNCHANGED <<eventVars, session, serving, failure, serviceVars,
                 restartVars, on, watches, disturbed>>

(* The proxy's own bound on a call (call_timeout) cuts it. *)
CutOff(q) ==
  /\ request[q] \in {"sent", "racing"}
  /\ q \notin Unguarded
  /\ request' = [request EXCEPT ![q] = "failed"]
  /\ UNCHANGED <<eventVars, session, serving, failure, serviceVars,
                 restartVars, on, watches, disturbed>>

Next ==
  \/ \E t \in Restarters :
       Restart(t) \/ Shutdown(t) \/ StopReturns(t) \/ StartWakes(t) \/ EndReturns(t)
  \/ \E g \in Gens :
       ServeOpens(g) \/ ServeFails(g) \/ ServeObeys(g) \/ ServeCloses(g)
  \/ \E q \in Requests :
       Send(q) \/ Watch(q) \/ Answer(q) \/ Released(q) \/ CutOff(q)

(* A task that can run does run: the loop is fair.  The transport ends its  *)
(* handshake and its closing some day, the read timeout of its client (300  *)
(* s) seeing to it, but maybe after the bounded waits (30 s) gave up.  The  *)
(* expiry of a bounded wait, the remote answer and call_timeout are never   *)
(* relied upon: StartWakes is fair only once _ready is set.                 *)
Fairness ==
  /\ \A g \in Gens : /\ WF_vars(service[g] = "handshake"
                                /\ (ServeOpens(g) \/ ServeFails(g)))
                     /\ WF_vars(ServeObeys(g))
                     /\ WF_vars(ServeCloses(g))
  /\ \A t \in Restarters :
       /\ WF_vars(awaits[t] \in readySet /\ StartWakes(t))
       /\ WF_vars(awaits[t] \in stoppedSet /\ (StopReturns(t) \/ EndReturns(t)))
  /\ \A q \in Requests : WF_vars(Watch(q)) /\ WF_vars(Released(q))

Spec     == Init /\ [][Next]_vars
FairSpec == Spec /\ Fairness

-----------------------------------------------------------------------------
(* Safety.  What start() promises in its own words ("relance propre : jamais *)
(* deux taches de service") holds as long as the restarts do not overlap and *)
(* no bounded wait gives up; the runs show what is left of it otherwise.    *)

AtMostOneService ==
  Cardinality({g \in Gens : Live(g)}) <= 1

(* One service task at a time, as long as restarts are sequential and the   *)
(* waits of stop() and start() end by their event.                          *)
OneService == ~disturbed => AtMostOneService

(* Under the same condition the live service is the current one and stop()  *)
(* can reach it: _serving says so, and it obeys the event stop() would set. *)
NoOrphanService ==
  ~disturbed =>
    \A g \in Gens : Live(g) =>
      serving /\ g = events /\ (service[g] = "open" => obeys[g] = events)

(* Whatever overlaps or gives up, a published session belongs to a service  *)
(* task whose transport is still open: a request never goes to a session    *)
(* whose task has closed it.                                                *)
SessionServed ==
  session # NoGen => service[session] \in {"open", "closing"}

(* A request that races with _stopped is not left hanging when the task     *)
(* that carried it is over: it is answered or given up, as long as nothing  *)
(* overlapped.  This is the reason _on_session() exists.                    *)
NotStranded ==
  \A q \in Requests \ Unguarded :
    (request[q] \in {"sent", "racing"} /\ service[on[q]] = "done")
      ~> (request[q] \in {"answered", "failed"} \/ disturbed)

(* start() is woken by every end of its service task, success or failure,   *)
(* without its bound: "toujours reveiller start(), y compris en echec".     *)
StartWoken ==
  \A t \in Restarters :
    (restart[t] = "opening" /\ service[awaits[t]] = "done")
      ~> (restart[t] # "opening" \/ disturbed)

(* An order to stop reaches its service task wherever it stands, also while *)
(* its handshake is pending and the event is not awaited yet, and whatever  *)
(* overlaps or gives up: unless a later start replaced the events before    *)
(* that handshake ended, and the task awaits the new one.                   *)
StopReachesService ==
  \A g \in Gens :
    (g \in stopSet /\ Live(g)) ~> (service[g] = "done" \/ obeys[g] \notin {NoGen, g})

(* The session as the rest of the proxy sees it. *)
Link ==
  IF session # NoGen THEN "open"
  ELSE IF \E g \in Gens : service[g] = "handshake" THEN "opening" ELSE "closed"

Progress ==
  [q \in Requests |-> IF request[q] = "racing" THEN "sent" ELSE request[q]]

Abstract == INSTANCE RemoteSession WITH link <- Link, request <- Progress

(* However restarts overlap and waits give up, the proxy sees a remote      *)
(* session: nothing but a start under way opens it, a request leaves on it  *)
(* while it is open and is refused otherwise, and ends once.                *)
ImplementsSession == Abstract!Spec

(* What the docstring of _on_session() says ("garde UNIQUE de toute requete *)
(* vers l'upstream emise hors de _serve"): no request outlives its service. *)
EveryRequestGuarded ==
  \A q \in Requests :
    (request[q] \in {"sent", "racing"} /\ service[on[q]] = "done")
      ~> (request[q] \in {"answered", "failed"} \/ disturbed)
=============================================================================
