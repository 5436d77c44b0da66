--------------------------- MODULE StdioUpstream ---------------------------
(***************************************************************************)
(* An upstream that runs in a subprocess of the proxy (class StdioUpstream *)
(* of mcp_proxy/upstream.py).  Its transport lives in a service task,      *)
(* _serve(), which start() creates once and which only a cancel scope can  *)
(* take out of a handshake that does not end.  start() may fail, give up   *)
(* or be cancelled at any moment of that task's life, the moment before    *)
(* it ran at all included.                                                 *)
(*                                                                         *)
(* Every action runs from one suspension point of the asyncio loop to the  *)
(* next.                                                                   *)
(***************************************************************************)
CONSTANTS Requests   \* requests that may be sent on the session

VARIABLES
  caller,     \* start(), then stop(): where the lifespan stands in them
  service,    \* the _serve() task
  scope,      \* _scope: "none", "open" or "cancelled"
  cancelRequested, stopSet, readySet, stoppedSet,
  session,    \* _session is set
  failure,    \* _failure is an exception
  child,      \* the subprocess: "none", "alive" or "dead"
  request,    \* each request
  gaveUp      \* history: the second wait of _shutdown() gave up

callerVars == <<caller, stopSet, cancelRequested, gaveUp>>
serviceVars == <<service, readySet, stoppedSet, failure, child>>
pipeVars == <<callerVars, serviceVars, scope, session, request>>

(* Neither closed nor about to be. *)
Unclosed == {"created", "handshake", "serving"}
Closing  == {"closing", "failing"}
Waiting  == {"failing", "stopping"}            \* first wait of _shutdown()
WaitingOn == {"failing2", "stopping2"}         \* second wait

PipeTypeOK ==
  /\ caller \in {"idle", "starting", "started", "failed", "stopped"}
                  \cup Waiting \cup WaitingOn
  /\ service \in {"unborn", "done"} \cup Unclosed \cup Closing
  /\ scope \in {"none", "open", "cancelled"}
  /\ {cancelRequested, stopSet, readySet, stoppedSet, session, failure, gaveUp}
       \subseteq BOOLEAN
  /\ child \in {"none", "alive", "dead"}
  /\ request \in [Requests -> {"idle", "sent", "answered", "failed"}]

PipeInit ==
  /\ caller = "idle" /\ service = "unborn" /\ scope = "none" /\ child = "none"
  /\ cancelRequested = FALSE /\ gaveUp = FALSE /\ session = FALSE
  /\ stopSet = FALSE /\ readySet = FALSE /\ stoppedSet = FALSE
  /\ failure = FALSE
  /\ request = [q \in Requests |-> "idle"]

-----------------------------------------------------------------------------
(* start() creates the service task and waits for _ready. *)
Start ==
  /\ caller = "idle"
  /\ caller' = "starting"
  /\ service' = "created"
  /\ UNCHANGED <<stopSet, cancelRequested, gaveUp, readySet, stoppedSet,
                 failure, child, scope, session, request>>

CancelScope == scope' = IF scope = "open" THEN "cancelled" ELSE scope

(* Mutant of GiveUpStart: the scope is left alone, as in a plain stop(). *)
GiveUpStartPolitely ==
  /\ caller' = "failing"
  /\ stopSet' = TRUE
  /\ UNCHANGED <<cancelRequested, gaveUp, serviceVars, scope, session, request>>

(* _shutdown(cancel=True), up to its first wait. *)
GiveUpStart ==
  /\ caller' = "failing"
  /\ stopSet' = TRUE
  /\ cancelRequested' = TRUE
  /\ CancelScope
  /\ UNCHANGED <<gaveUp, serviceVars, session, request>>

(* start() wakes on _ready: with a session it is done, else it failed. *)
StartWakes ==
  /\ caller = "starting" /\ readySet
  /\ \/ /\ session
        /\ caller' = "started"
        /\ UNCHANGED <<stopSet, cancelRequested, gaveUp, serviceVars, scope,
                       session, request>>
     \/ /\ ~session
        /\ GiveUpStart

(* The bound of the handshake passes. *)
StartExpires == caller = "starting" /\ ~readySet /\ GiveUpStart

(* The boot is cancelled: start() shuts the service down, and re-raises. *)
StartCancelled == caller = "starting" /\ GiveUpStart

(* stop(): _shutdown() without a cancellation. *)
Stop ==
  /\ caller = "started"
  /\ caller' = "stopping"
  /\ stopSet' = TRUE
  /\ UNCHANGED <<cancelRequested, gaveUp, serviceVars, scope, session, request>>

Ended(phase) == IF phase \in {"failing", "failing2"} THEN "failed" ELSE "stopped"

(* _shutdown() returns on _stopped. *)
ShutdownWakes ==
  /\ caller \in Waiting \cup WaitingOn /\ stoppedSet
  /\ caller' = Ended(caller)
  /\ session' = FALSE
  /\ UNCHANGED <<stopSet, cancelRequested, gaveUp, serviceVars, scope, request>>

(* A created task runs, a set stop event wakes and a cancellation is        *)
(* delivered within a few turns of the loop, long before a wait of 10 s     *)
(* expires.                                                                 *)
Settled ==
  /\ service # "created"
  /\ ~(service = "serving" /\ stopSet)
  /\ ~(service \in Unclosed /\ scope = "cancelled")

(* The first wait gives up: the scope is cancelled, and _shutdown() waits   *)
(* again, as long.                                                          *)
ShutdownInsists ==
  /\ caller \in Waiting /\ ~stoppedSet /\ Settled
  /\ caller' = IF caller = "failing" THEN "failing2" ELSE "stopping2"
  /\ cancelRequested' = TRUE
  /\ CancelScope
  /\ UNCHANGED <<stopSet, gaveUp, serviceVars, session, request>>

(* The second wait gives up: the session is forgotten all the same. *)
ShutdownGivesUp ==
  /\ caller \in WaitingOn /\ ~stoppedSet /\ Settled
  /\ caller' = Ended(caller)
  /\ session' = FALSE
  /\ gaveUp' = TRUE
  /\ UNCHANGED <<stopSet, cancelRequested, serviceVars, scope, request>>

-----------------------------------------------------------------------------
(* Mutant of ServeBegins: a cancellation asked before it ran is missed. *)
ServeBeginsLate ==
  /\ service = "created"
  /\ service' = "handshake"
  /\ child' = "alive"
  /\ scope' = "open"
  /\ UNCHANGED <<callerVars, readySet, stoppedSet, failure, session, request>>

(* The service task opens its scope, looks whether it is already unwanted, *)
(* spawns the subprocess and negotiates.                                    *)
ServeBegins ==
  /\ service = "created"
  /\ service' = "handshake"
  /\ child' = "alive"
  /\ scope' = IF cancelRequested THEN "cancelled" ELSE "open"
  /\ UNCHANGED <<callerVars, readySet, stoppedSet, failure, session, request>>

(* The handshake and the first listing are over.  A cancellation delivered  *)
(* in the same turn of the loop comes after it.                             *)
ServeOpens ==
  /\ service = "handshake" /\ child = "alive"
  /\ service' = "serving"
  /\ session' = TRUE
  /\ readySet' = TRUE
  /\ UNCHANGED <<callerVars, stoppedSet, failure, child, scope, request>>

(* The handshake is refused, or the subprocess died under it. *)
ServeFails ==
  /\ service = "handshake"
  /\ service' = "failing"
  /\ UNCHANGED <<callerVars, readySet, stoppedSet, failure, child, scope,
                 session, request>>

(* The stop event, or the cancellation of the scope, starts the closing.    *)
(* The session stays published meanwhile.                                   *)
ServeLeaves ==
  /\ \/ service = "serving" /\ stopSet
     \/ service \in {"handshake", "serving"} /\ scope = "cancelled"
  /\ service' = "closing"
  /\ UNCHANGED <<callerVars, readySet, stoppedSet, failure, child, scope,
                 session, request>>

(* Mutant of ServeEnds: the except clause forgets the finally's events. *)
ServeEndsSilently ==
  /\ service \in Closing
  /\ service' = "done"
  /\ session' = FALSE
  /\ child' = "none"
  /\ failure' = (service = "failing")
  /\ readySet' = (readySet \/ service # "failing")
  /\ stoppedSet' = (service # "failing")
  /\ UNCHANGED <<callerVars, scope, request>>

(* The contexts are closed, which ends the subprocess; except and finally. *)
ServeEnds ==
  /\ service \in Closing
  /\ service' = "done"
  /\ session' = FALSE
  /\ child' = "none"
  /\ failure' = (service = "failing")
  /\ readySet' = TRUE
  /\ stoppedSet' = TRUE
  /\ UNCHANGED <<callerVars, scope, request>>

(* The subprocess dies: the session stays set, and says so to each request. *)
ChildDies ==
  /\ child = "alive"
  /\ child' = "dead"
  /\ UNCHANGED <<callerVars, service, readySet, stoppedSet, failure, scope,
                 session, request>>

-----------------------------------------------------------------------------
(* Mutant of Send: the request leaves on whatever transport is there. *)
SendAnyway(q) ==
  /\ request[q] = "idle"
  /\ request' = [request EXCEPT ![q] =
                   IF service \in Unclosed THEN "sent" ELSE "failed"]
  /\ UNCHANGED <<callerVars, serviceVars, scope, session>>

(* A request reads _session, and raises if there is none. *)
Send(q) ==
  /\ request[q] = "idle"
  /\ request' = [request EXCEPT ![q] = IF session THEN "sent" ELSE "failed"]
  /\ UNCHANGED <<callerVars, serviceVars, scope, session>>

Answer(q) ==
  /\ request[q] = "sent" /\ child = "alive"
  /\ request' = [request EXCEPT ![q] = "answered"]
  /\ UNCHANGED <<callerVars, serviceVars, scope, session>>

(* Connection closed: the subprocess died, or the transport is closing. *)
Broken(q) ==
  /\ request[q] = "sent"
  /\ child # "alive" \/ service \in Closing
  /\ request' = [request EXCEPT ![q] = "failed"]
  /\ UNCHANGED <<callerVars, serviceVars, scope, session>>

ServiceStep ==
  ServeBegins \/ ServeOpens \/ ServeFails \/ ServeLeaves \/ ServeEnds

ShutdownStep == ShutdownWakes \/ ShutdownInsists \/ ShutdownGivesUp
StartStep    == StartWakes \/ StartExpires

PipeNext ==
  \/ Start \/ StartStep \/ StartCancelled \/ Stop \/ ShutdownStep
  \/ ServiceStep \/ ChildDies
  \/ \E q \in Requests : Send(q) \/ Answer(q) \/ Broken(q)

PipeSpec == PipeInit /\ [][PipeNext]_pipeVars

-----------------------------------------------------------------------------
(* A service task that must end is being closed before the first wait of    *)
(* _shutdown() is over: no caller waits a second time for a subprocess that *)
(* nobody told to leave, even if the task had not run yet when it was       *)
(* cancelled.                                                               *)
CancelReaches == caller \in WaitingOn => service \in Closing \cup {"done"}

(* Once start() failed or stop() returned, no session comes back and, unless *)
(* its closing outlived both waits, no service task and no subprocess is     *)
(* left.                                                                     *)
NoOrphanSubprocess ==
  caller \in {"failed", "stopped"} =>
    /\ ~session
    /\ gaveUp \/ (service = "done" /\ child = "none")

(* Both: a subprocess whose start failed, was given up or cancelled, or that *)
(* was stopped, is made to leave whenever it can be.                         *)
SubprocessLeaves == CancelReaches /\ NoOrphanSubprocess

(* The session as the proxy sees it. *)
Link == IF session THEN "open"
        ELSE IF service \in {"created", "handshake"} THEN "opening" ELSE "closed"

Abstract == INSTANCE RemoteSession WITH link <- Link

(* A subprocess behind its pipes is a remote session: nothing but a start   *)
(* that is under way opens it, however the start ended for its caller.      *)
ImplementsSession == Abstract!Spec
=============================================================================
