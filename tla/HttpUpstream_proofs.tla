------------------------ MODULE HttpUpstream_proofs ------------------------
(***************************************************************************)
(* Safety of HttpUpstream for any number of restarting tasks, requests and *)
(* generations.  Two invariants carry everything: Generations, which holds  *)
(* whatever overlaps, and Calm, which holds until a restart overlaps with   *)
(* another or a bounded wait gives up.                                     *)
(***************************************************************************)
EXTENDS HttpUpstream, FiniteSetTheorems, TLAPS

(* Generations are used up in order, and their events with them. *)
Generations ==
  /\ \A g \in Gens : g > events => service[g] = "unborn"
  /\ \A g \in Gens : g <= events => service[g] # "unborn"
  /\ \A g \in stoppedSet : g <= events
  /\ serving => events # NoGen

(* Undisturbed, the past generations are over, the current one is the only  *)
(* one that may live, and what its events say of it is true.                *)
Calm ==
  /\ \A g \in Gens : g < events => service[g] = "done"
  /\ \A g \in Gens : Live(g) => serving
  /\ \A g \in Gens : service[g] = "open" => obeys[g] = events
  /\ \A t, u \in Restarters : Busy(t) /\ Busy(u) => t = u
  /\ \A t \in Restarters : Busy(t) => awaits[t] = events /\ events # NoGen
  /\ events \in stoppedSet => service[events] = "done"

IInv ==
  /\ TypeOK
  /\ Generations
  /\ SessionServed
  /\ ~disturbed => Calm

-----------------------------------------------------------------------------
(* The little arithmetic the types need. *)
LEMMA GenFacts ==
  /\ NoGen \in 0 .. MaxStarts /\ NoGen \notin Gens
  /\ \A g \in Gens : g \in 0 .. MaxStarts /\ g \in Nat
  /\ \A g \in 0 .. MaxStarts : g \in Gens \/ g = NoGen
  /\ \A g \in 0 .. MaxStarts : g < MaxStarts => g + 1 \in Gens
<1>1. MaxStarts \in Nat /\ MaxStarts >= 1
  BY UpstreamAssumption
<1>2. \A g \in 0 .. MaxStarts : g < MaxStarts => g + 1 \in Gens
  BY <1>1 DEF Gens
<1>3. \A g \in Gens : g \in 0 .. MaxStarts /\ g \in Nat
  BY <1>1 DEF Gens
<1>4. NoGen \in 0 .. MaxStarts /\ NoGen \notin Gens
  BY <1>1 DEF Gens, NoGen
<1>5. \A g \in 0 .. MaxStarts : g \in Gens \/ g = NoGen
  BY <1>1 DEF Gens, NoGen
<1> QED BY <1>2, <1>3, <1>4, <1>5

(* Undisturbed and calm, no generation but the current one lives. *)
LEMMA LiveIsCurrent ==
  ASSUME TypeOK, Generations, Calm, NEW g \in Gens, Live(g)
  PROVE  g = events
<1>1. g \in Nat /\ events \in Nat
  BY GenFacts, UpstreamAssumption DEF TypeOK, EventTypes
<1>2. ~(g > events) /\ ~(g < events)
  BY DEF Generations, Calm, Live
<1> QED BY <1>1, <1>2

LEMMA InitIInv == Init => IInv
<1> SUFFICES ASSUME Init PROVE IInv
  OBVIOUS
<1>1. EventTypes
  BY GenFacts DEF Init, EventTypes
<1>2. ServiceTypes
  BY GenFacts DEF Init, ServiceTypes
<1>3. RestartTypes
  BY GenFacts DEF Init, RestartTypes
<1>4. RequestTypes
  BY GenFacts DEF Init, RequestTypes
<1>5. Generations
  BY GenFacts, UpstreamAssumption DEF Init, Generations, NoGen, Gens
<1>6. SessionServed
  BY DEF Init, SessionServed
<1>7. Calm
  BY GenFacts, UpstreamAssumption DEF Init, Calm, Live, Busy, NoGen, Gens
<1> QED BY <1>1, <1>2, <1>3, <1>4, <1>5, <1>6, <1>7 DEF IInv, TypeOK

-----------------------------------------------------------------------------
(* What start(), stop() and the end of a service task write. *)
LEMMA SpawnTypes ==
  ASSUME TypeOK, Generations, NEW t \in Restarters, Spawn(t)
  PROVE  /\ events + 1 \in Gens
         /\ service[events + 1] = "unborn"
         /\ EventTypes'
         /\ session' \in 0 .. MaxStarts => ServiceTypes'
         /\ disturbed' \in BOOLEAN => RestartTypes'
<1>1. events + 1 \in Gens
  BY GenFacts DEF Spawn, TypeOK, EventTypes
<1>2. events + 1 > events
  BY GenFacts DEF TypeOK, EventTypes
<1> QED
  BY <1>1, <1>2, GenFacts
     DEF Spawn, TypeOK, EventTypes, ServiceTypes, RestartTypes, Generations

LEMMA OrderStopTypes ==
  ASSUME TypeOK, Generations, serving,
         NEW t \in Restarters, NEW p \in {"stopping", "ending"}, OrderStop(t, p)
  PROVE  /\ events \in Gens
         /\ stopSet' \subseteq Gens
         /\ disturbed' \in BOOLEAN => RestartTypes'
<1>1. events \in Gens
  BY GenFacts DEF TypeOK, EventTypes, Generations
<1> QED
  BY <1>1, GenFacts DEF OrderStop, TypeOK, EventTypes, RestartTypes

(* A generation whose task was born has events. *)
LEMMA BornEvents ==
  ASSUME TypeOK, Generations, NEW g \in Gens, service[g] # "unborn"
  PROVE  events \in Gens /\ g <= events
<1>1. events \in Nat /\ g \in Nat /\ g # 0
  BY GenFacts, UpstreamAssumption DEF TypeOK, EventTypes, Gens, NoGen
<1>2. g <= events
  BY <1>1 DEF Generations
<1> QED BY <1>1, <1>2, GenFacts DEF TypeOK, EventTypes, NoGen

LEMMA EndsTypes ==
  ASSUME TypeOK, Generations, NEW g \in Gens, NEW failed \in BOOLEAN,
         service[g] # "unborn", ServeEnds(g, failed)
  PROVE  TypeOK'
<1>1. events \in Gens
  BY BornEvents
<1>2. EventTypes'
  BY <1>1 DEF ServeEnds, TypeOK, EventTypes
<1>3. ServiceTypes'
  BY GenFacts DEF ServeEnds, TypeOK, ServiceTypes
<1>4. RestartTypes' /\ RequestTypes'
  BY DEF ServeEnds, TypeOK, RestartTypes, RequestTypes, restartVars, requestVars
<1> QED BY <1>2, <1>3, <1>4 DEF TypeOK

LEMMA TypeStep == TypeOK /\ Generations /\ [Next]_vars => TypeOK'
<1> SUFFICES ASSUME TypeOK, Generations, [Next]_vars PROVE TypeOK'
  OBVIOUS
<1>1. ASSUME NEW t \in Restarters, Restart(t) PROVE TypeOK'
  <2>1. disturbed' \in BOOLEAN /\ RequestTypes'
    BY <1>1 DEF Restart, TypeOK, RestartTypes, RequestTypes, requestVars
  <2>2. CASE Spawn(t) /\ UNCHANGED session
    BY <2>1, <2>2, SpawnTypes DEF TypeOK, ServiceTypes
  <2>3. CASE /\ serving
             /\ OrderStop(t, "stopping")
             /\ UNCHANGED <<events, readySet, stoppedSet, session, serving,
                            failure, serviceVars>>
    <3>1. RestartTypes' /\ stopSet' \subseteq Gens
      BY <2>1, <2>3, OrderStopTypes
    <3>2. ServiceTypes'
      BY <2>3 DEF TypeOK, ServiceTypes, serviceVars
    <3> QED BY <2>1, <2>3, <3>1, <3>2 DEF TypeOK, EventTypes
  <2> QED BY <1>1, <2>2, <2>3 DEF Restart
<1>2. ASSUME NEW t \in Restarters, Shutdown(t) PROVE TypeOK'
  <2>1. disturbed' \in BOOLEAN /\ RequestTypes'
    BY <1>2 DEF Shutdown, TypeOK, RestartTypes, RequestTypes, requestVars
  <2>2. RestartTypes' /\ stopSet' \subseteq Gens
    BY <1>2, <2>1, OrderStopTypes DEF Shutdown
  <2>3. ServiceTypes'
    BY <1>2 DEF Shutdown, TypeOK, ServiceTypes, serviceVars
  <2> QED BY <1>2, <2>1, <2>2, <2>3 DEF Shutdown, TypeOK, EventTypes
<1>3. ASSUME NEW t \in Restarters, StopReturns(t) PROVE TypeOK'
  <2>1. disturbed' \in BOOLEAN /\ RequestTypes'
    BY <1>3 DEF StopReturns, TypeOK, RestartTypes, RequestTypes, requestVars
  <2>2. session' \in 0 .. MaxStarts
    BY <1>3, GenFacts DEF StopReturns
  <2> QED BY <1>3, <2>1, <2>2, SpawnTypes DEF StopReturns, TypeOK
<1>4. ASSUME NEW t \in Restarters, StartWakes(t) PROVE TypeOK'
  <2>1. disturbed' \in BOOLEAN /\ RequestTypes' /\ ServiceTypes'
    BY <1>4 DEF StartWakes, TypeOK, RestartTypes, RequestTypes, ServiceTypes,
                requestVars, serviceVars
  <2>2. CASE restart' = [restart EXCEPT ![t] = "idle"] /\ UNCHANGED <<stopSet, awaits>>
    BY <1>4, <2>1, <2>2 DEF StartWakes, TypeOK, RestartTypes, EventTypes
  <2>3. CASE serving /\ OrderStop(t, "ending")
    BY <1>4, <2>1, <2>3, OrderStopTypes DEF StartWakes, TypeOK, EventTypes
  <2> QED BY <1>4, <2>2, <2>3 DEF StartWakes
<1>5. ASSUME NEW t \in Restarters, EndReturns(t) PROVE TypeOK'
  <2>1. EventTypes' /\ RequestTypes'
    BY <1>5 DEF EndReturns, TypeOK, EventTypes, RequestTypes, eventVars, requestVars
  <2>2. ServiceTypes'
    BY <1>5, GenFacts DEF EndReturns, TypeOK, ServiceTypes, serviceVars
  <2>3. RestartTypes'
    BY <1>5 DEF EndReturns, TypeOK, RestartTypes
  <2> QED BY <2>1, <2>2, <2>3 DEF TypeOK
<1>6. ASSUME NEW g \in Gens, ServeOpens(g) PROVE TypeOK'
  <2>1. events \in Gens
    BY <1>6, BornEvents DEF ServeOpens
  <2>2. EventTypes' /\ RestartTypes' /\ RequestTypes'
    BY <1>6, <2>1 DEF ServeOpens, TypeOK, EventTypes, RestartTypes, RequestTypes,
                      restartVars, requestVars
  <2>3. ServiceTypes'
    BY <1>6, <2>1, GenFacts DEF ServeOpens, TypeOK, ServiceTypes
  <2> QED BY <2>2, <2>3 DEF TypeOK
<1>7. ASSUME NEW g \in Gens, ServeFails(g) \/ ServeCloses(g) PROVE TypeOK'
  BY <1>7, EndsTypes DEF ServeFails, ServeCloses
<1>8. ASSUME NEW g \in Gens, ServeObeys(g) PROVE TypeOK'
  <2>1. EventTypes' /\ RestartTypes' /\ RequestTypes'
    BY <1>8 DEF ServeObeys, TypeOK, EventTypes, RestartTypes, RequestTypes,
                eventVars, restartVars, requestVars
  <2>2. ServiceTypes'
    BY <1>8 DEF ServeObeys, TypeOK, ServiceTypes
  <2> QED BY <2>1, <2>2 DEF TypeOK
<1>9. ASSUME NEW q \in Requests,
             Send(q) \/ Watch(q) \/ Answer(q) \/ Released(q) \/ CutOff(q)
      PROVE  TypeOK'
  <2>1. EventTypes' /\ ServiceTypes'
    BY <1>9 DEF Send, Watch, Answer, Released, CutOff, TypeOK, EventTypes,
                ServiceTypes, eventVars, serviceVars
  <2>2. RestartTypes'
    BY <1>9 DEF Send, Watch, Answer, Released, CutOff, TypeOK, RestartTypes, restartVars
  <2>3. RequestTypes'
    BY <1>9 DEF Send, Watch, Answer, Released, CutOff, TypeOK, RequestTypes,
                EventTypes, ServiceTypes
  <2> QED BY <2>1, <2>2, <2>3 DEF TypeOK
<1>10. CASE UNCHANGED vars
  BY <1>10 DEF vars, TypeOK, EventTypes, ServiceTypes, RestartTypes, RequestTypes,
               eventVars, serviceVars, restartVars, requestVars
<1> QED
  BY <1>1, <1>2, <1>3, <1>4, <1>5, <1>6, <1>7, <1>8, <1>9, <1>10 DEF Next

-----------------------------------------------------------------------------
LEMMA GenerationsStep == TypeOK /\ Generations /\ [Next]_vars => Generations'
<1> SUFFICES ASSUME TypeOK, Generations, [Next]_vars PROVE Generations'
  OBVIOUS
<1>a. events \in Nat /\ \A g \in Gens : g \in Nat
  BY GenFacts, UpstreamAssumption DEF TypeOK, EventTypes
<1>1. ASSUME NEW t \in Restarters, Spawn(t) PROVE Generations'
  <2>1. events + 1 \in Gens /\ service[events + 1] = "unborn"
    BY <1>1, SpawnTypes
  <2>2. \A g \in Gens : g # events + 1 => service'[g] = service[g]
    BY <1>1 DEF Spawn, TypeOK, ServiceTypes
  <2>3. service'[events + 1] = "handshake" /\ events' = events + 1
    BY <1>1, <2>1 DEF Spawn, TypeOK, ServiceTypes
  <2>4. stoppedSet' = stoppedSet /\ stoppedSet \subseteq Gens
    BY <1>1 DEF Spawn, TypeOK, EventTypes
  <2>5. \A g \in Gens : g > events' => service'[g] = "unborn"
    BY <1>a, <2>2, <2>3 DEF Generations
  <2>6. \A g \in Gens : g <= events' => service'[g] # "unborn"
    BY <1>a, <2>2, <2>3 DEF Generations
  <2>7. \A g \in stoppedSet' : g <= events'
    BY <1>a, <2>3, <2>4 DEF Generations
  <2>8. events' # NoGen
    BY <1>a, <2>3 DEF NoGen
  <2> QED BY <2>5, <2>6, <2>7, <2>8 DEF Generations
<1>2. ASSUME UNCHANGED <<events, stoppedSet, serving, service>> PROVE Generations'
  BY <1>2 DEF Generations
<1>3. ASSUME NEW t \in Restarters,
             Restart(t) \/ Shutdown(t) \/ StopReturns(t) \/ StartWakes(t)
      PROVE  Generations'
  BY <1>1, <1>2, <1>3
     DEF Restart, Shutdown, StopReturns, StartWakes, OrderStop, serviceVars
<1>4. ASSUME NEW t \in Restarters, EndReturns(t) PROVE Generations'
  BY <1>4 DEF EndReturns, Generations, eventVars, serviceVars
<1>5. ASSUME NEW g \in Gens, NEW failed \in BOOLEAN, service[g] # "unborn",
             ServeEnds(g, failed)
      PROVE  Generations'
  <2>1. events \in Gens /\ g <= events
    BY <1>5, BornEvents
  <2>2. events' = events /\ serving' = serving /\ stoppedSet' = stoppedSet \cup {events}
    BY <1>5 DEF ServeEnds
  <2>3. \A h \in Gens : service'[h] = IF h = g THEN "done" ELSE service[h]
    BY <1>5 DEF ServeEnds, TypeOK, ServiceTypes
  <2> QED BY <1>a, <2>1, <2>2, <2>3 DEF Generations
<1>6. ASSUME NEW g \in Gens, ServeFails(g) \/ ServeCloses(g) PROVE Generations'
  BY <1>5, <1>6 DEF ServeFails, ServeCloses
<1>7. ASSUME NEW g \in Gens, ServeOpens(g) \/ ServeObeys(g) PROVE Generations'
  <2>1. events \in Gens /\ g <= events
    BY <1>7, BornEvents DEF ServeOpens, ServeObeys
  <2>2. UNCHANGED <<events, serving, stoppedSet>>
    BY <1>7 DEF ServeOpens, ServeObeys, eventVars
  <2>3. \A h \in Gens : h # g => service'[h] = service[h]
    BY <1>7 DEF ServeOpens, ServeObeys, TypeOK, ServiceTypes
  <2>4. service'[g] # "unborn"
    BY <1>7 DEF ServeOpens, ServeObeys, TypeOK, ServiceTypes
  <2> QED BY <1>a, <2>1, <2>2, <2>3, <2>4 DEF Generations
<1>8. ASSUME NEW q \in Requests,
             Send(q) \/ Watch(q) \/ Answer(q) \/ Released(q) \/ CutOff(q)
      PROVE  Generations'
  BY <1>2, <1>8 DEF Send, Watch, Answer, Released, CutOff, eventVars, serviceVars
<1>9. CASE UNCHANGED vars
  BY <1>2, <1>9 DEF vars, eventVars, serviceVars
<1> QED BY <1>3, <1>4, <1>6, <1>7, <1>8, <1>9 DEF Next

(* A session is published by the task that opened it, and every end of a    *)
(* task, its own or not, withdraws it.                                      *)
LEMMA SessionStep ==
  TypeOK /\ Generations /\ SessionServed /\ [Next]_vars => SessionServed'
<1> SUFFICES ASSUME TypeOK, Generations, SessionServed, [Next]_vars PROVE SessionServed'
  OBVIOUS
<1>1. ASSUME UNCHANGED <<session, service>> PROVE SessionServed'
  BY <1>1 DEF SessionServed
<1>2. ASSUME session' = NoGen PROVE SessionServed'
  BY <1>2 DEF SessionServed
<1>3. ASSUME NEW t \in Restarters, Spawn(t), UNCHANGED session PROVE SessionServed'
  <2>1. events + 1 \in Gens /\ service[events + 1] = "unborn"
    BY <1>3, SpawnTypes
  <2>2. \A g \in Gens : g # events + 1 => service'[g] = service[g]
    BY <1>3 DEF Spawn, TypeOK, ServiceTypes
  <2>3. session # NoGen => session \in Gens /\ session # events + 1
    BY <2>1, GenFacts DEF SessionServed, TypeOK, ServiceTypes
  <2> QED BY <1>3, <2>2, <2>3 DEF SessionServed
<1>4. ASSUME NEW t \in Restarters,
             Restart(t) \/ Shutdown(t) \/ StopReturns(t) \/ StartWakes(t) \/ EndReturns(t)
      PROVE  SessionServed'
  BY <1>1, <1>2, <1>3, <1>4
     DEF Restart, Shutdown, StopReturns, StartWakes, EndReturns, serviceVars
<1>5. ASSUME NEW g \in Gens, ServeFails(g) \/ ServeCloses(g) PROVE SessionServed'
  BY <1>2, <1>5 DEF ServeFails, ServeCloses, ServeEnds
<1>6. ASSUME NEW g \in Gens, ServeOpens(g) PROVE SessionServed'
  BY <1>6 DEF ServeOpens, SessionServed, TypeOK, ServiceTypes
<1>7. ASSUME NEW g \in Gens, ServeObeys(g) PROVE SessionServed'
  BY <1>7, GenFacts DEF ServeObeys, SessionServed, TypeOK, ServiceTypes
<1>8. ASSUME NEW q \in Requests,
             Send(q) \/ Watch(q) \/ Answer(q) \/ Released(q) \/ CutOff(q)
      PROVE  SessionServed'
  BY <1>1, <1>8 DEF Send, Watch, Answer, Released, CutOff, serviceVars
<1>9. CASE UNCHANGED vars
  BY <1>1, <1>9 DEF vars, serviceVars
<1> QED BY <1>4, <1>5, <1>6, <1>7, <1>8, <1>9 DEF Next

-----------------------------------------------------------------------------
(* start() on a stopped upstream keeps the calm: the generation it leaves   *)
(* behind is over.                                                          *)
LEMMA SpawnCalm ==
  ASSUME TypeOK, Generations, Calm, NEW t \in Restarters, Spawn(t),
         \A g \in Gens : ~Live(g),
         \A u \in Restarters : Busy(u) => u = t
  PROVE  Calm'
<1>1. /\ events + 1 \in Gens /\ service[events + 1] = "unborn"
      /\ events \in Nat /\ events' = events + 1
      /\ \A g \in Gens : g \in Nat
  <2>1. events + 1 \in Gens /\ service[events + 1] = "unborn"
    BY SpawnTypes
  <2>2. events \in 0 .. MaxStarts /\ events' = events + 1
    BY DEF Spawn, TypeOK, EventTypes
  <2>3. \A g \in Gens : g \in Nat
    BY GenFacts
  <2>4. events \in Nat
    BY <2>2
  <2> QED BY <2>1, <2>2, <2>3, <2>4
<1>2. \A g \in Gens : service'[g] = IF g = events + 1 THEN "handshake" ELSE service[g]
  BY DEF Spawn, TypeOK, ServiceTypes
<1>3. \A g \in Gens : g < events' => service'[g] = "done"
  <2> SUFFICES ASSUME NEW g \in Gens, g < events' PROVE service[g] = "done"
    BY <1>1, <1>2
  <2>1. service[g] # "unborn"
    BY <1>1 DEF Generations
  <2> QED BY <2>1 DEF Live, TypeOK, ServiceTypes
<1>4. \A g \in Gens : service'[g] # "open"
  BY <1>2 DEF Live
<1>5. serving'
  BY DEF Spawn
<1>6. \A u \in Restarters : (Busy(u))' => u = t
  BY DEF Busy, Spawn, TypeOK, RestartTypes
<1>7. awaits'[t] = events' /\ events' # NoGen
  BY <1>1 DEF Spawn, TypeOK, RestartTypes, NoGen
<1>8. events' \notin stoppedSet'
  BY <1>1 DEF Spawn, Generations, TypeOK, EventTypes
<1> QED BY <1>3, <1>4, <1>5, <1>6, <1>7, <1>8 DEF Calm

(* The order to stop changes nothing the calm speaks of, but who is busy. *)
LEMMA OrderStopCalm ==
  ASSUME TypeOK, Generations, Calm, NEW t \in Restarters,
         NEW p \in {"stopping", "ending"}, OrderStop(t, p), serving,
         \A u \in Restarters : Busy(u) => u = t,
         UNCHANGED <<events, stoppedSet, serving, service, obeys>>
  PROVE  Calm'
<1>1. \A u \in Restarters : (Busy(u))' => u = t
  BY DEF Busy, OrderStop, TypeOK, RestartTypes
<1>2. awaits'[t] = events' /\ events' # NoGen
  BY DEF OrderStop, TypeOK, RestartTypes, Generations
<1>3. \A g \in Gens : Live(g)' = Live(g)
  BY DEF Live
<1> QED BY <1>1, <1>2, <1>3 DEF Calm

(* A live task that ends under the calm is the current one. *)
LEMMA EndsCalm ==
  ASSUME TypeOK, Generations, Calm, NEW g \in Gens, Live(g),
         NEW failed \in BOOLEAN, ServeEnds(g, failed)
  PROVE  Calm'
<1>1. g = events
  BY LiveIsCurrent
<1>2. /\ UNCHANGED <<events, serving, obeys, restart, awaits>>
      /\ \A h \in Gens : service'[h] = IF h = g THEN "done" ELSE service[h]
  BY DEF ServeEnds, TypeOK, ServiceTypes, restartVars
<1>3. \A h \in Gens : Live(h)' => Live(h)
  BY <1>2 DEF Live
<1>4. \A u \in Restarters : (Busy(u))' = Busy(u)
  BY <1>2 DEF Busy
<1> QED BY <1>1, <1>2, <1>3, <1>4 DEF Calm

LEMMA CalmStep ==
  TypeOK /\ Generations /\ (~disturbed => Calm) /\ [Next]_vars => (~disturbed' => Calm')
<1> SUFFICES ASSUME TypeOK, Generations, ~disturbed => Calm, [Next]_vars, ~disturbed'
             PROVE  Calm'
  OBVIOUS
<1>1. ASSUME UNCHANGED <<events, stoppedSet, serving, service, obeys, restart, awaits>>,
             Calm
      PROVE  Calm'
  BY <1>1 DEF Calm, Live, Busy
<1>2. ASSUME NEW t \in Restarters, Restart(t) PROVE Calm'
  <2>1. Calm /\ \A u \in Restarters : ~Busy(u)
    BY <1>2 DEF Restart
  <2>2. CASE ~serving /\ Spawn(t)
    BY <2>1, <2>2, SpawnCalm DEF Calm
  <2>3. CASE serving /\ OrderStop(t, "stopping")
             /\ UNCHANGED <<events, readySet, stoppedSet, session, serving,
                            failure, serviceVars>>
    BY <2>1, <2>3, OrderStopCalm DEF serviceVars
  <2> QED BY <1>2, <2>2, <2>3 DEF Restart
<1>3. ASSUME NEW t \in Restarters, Shutdown(t) PROVE Calm'
  <2>1. Calm /\ \A u \in Restarters : ~Busy(u)
    BY <1>3 DEF Shutdown
  <2> QED BY <1>3, <2>1, OrderStopCalm DEF Shutdown, serviceVars
<1>4. ASSUME NEW t \in Restarters, Calm, Busy(t), awaits[t] \in stoppedSet
      PROVE  /\ \A g \in Gens : ~Live(g)
             /\ \A u \in Restarters : Busy(u) => u = t
  <2>1. service[events] = "done"
    BY <1>4 DEF Calm
  <2> QED BY <1>4, <2>1, LiveIsCurrent DEF Calm, Live
<1>5. ASSUME NEW t \in Restarters, StopReturns(t) PROVE Calm'
  <2>1. Calm /\ Busy(t) /\ awaits[t] \in stoppedSet
    BY <1>5 DEF StopReturns, Busy
  <2> QED BY <1>4, <1>5, <2>1, SpawnCalm DEF StopReturns
<1>6. ASSUME NEW t \in Restarters, StartWakes(t) PROVE Calm'
  <2>1. Calm /\ Busy(t)
    BY <1>6 DEF StartWakes, Busy
  <2>2. \A u \in Restarters : Busy(u) => u = t
    BY <2>1 DEF Calm
  <2>3. UNCHANGED <<events, stoppedSet, serving, service, obeys>>
    BY <1>6 DEF StartWakes, serviceVars
  <2>4. CASE restart' = [restart EXCEPT ![t] = "idle"] /\ UNCHANGED awaits
    <3>1. \A u \in Restarters : ~(Busy(u))'
      BY <2>2, <2>4 DEF Busy, TypeOK, RestartTypes
    <3>2. \A g \in Gens : Live(g)' = Live(g)
      BY <2>3 DEF Live
    <3> QED BY <2>1, <2>3, <3>1, <3>2 DEF Calm
  <2>5. CASE serving /\ OrderStop(t, "ending")
    BY <2>1, <2>2, <2>3, <2>5, OrderStopCalm
  <2> QED BY <1>6, <2>4, <2>5 DEF StartWakes
<1>7. ASSUME NEW t \in Restarters, EndReturns(t) PROVE Calm'
  <2>1. Calm /\ Busy(t) /\ awaits[t] \in stoppedSet
    BY <1>7 DEF EndReturns, Busy
  <2>2. /\ \A g \in Gens : ~Live(g)
        /\ \A u \in Restarters : Busy(u) => u = t
    BY <1>4, <2>1
  <2>3. UNCHANGED <<events, stoppedSet, service, obeys>>
    BY <1>7 DEF EndReturns, eventVars, serviceVars
  <2>4. \A u \in Restarters : ~(Busy(u))'
    BY <1>7, <2>2 DEF EndReturns, Busy, TypeOK, RestartTypes
  <2>5. \A g \in Gens : ~Live(g)'
    BY <2>2, <2>3 DEF Live
  <2> QED BY <2>1, <2>3, <2>4, <2>5 DEF Calm
<1>8. ASSUME NEW g \in Gens, ServeFails(g) \/ ServeCloses(g) PROVE Calm'
  <2>1. PICK failed \in BOOLEAN : ServeEnds(g, failed)
    BY <1>8 DEF ServeFails, ServeCloses
  <2>2. Live(g) /\ Calm
    BY <1>8, <2>1 DEF ServeFails, ServeCloses, ServeEnds, Live
  <2> QED BY <2>1, <2>2, EndsCalm
<1>9. ASSUME NEW g \in Gens, ServeOpens(g) \/ ServeObeys(g) PROVE Calm'
  <2>1. Live(g) /\ Calm
    BY <1>9 DEF ServeOpens, ServeObeys, Live
  <2>2. g = events
    BY <2>1, LiveIsCurrent
  <2>3. UNCHANGED <<events, stoppedSet, serving, restart, awaits>>
    BY <1>9 DEF ServeOpens, ServeObeys, eventVars, restartVars
  <2>4. \A h \in Gens : h # g => service'[h] = service[h] /\ obeys'[h] = obeys[h]
    BY <1>9 DEF ServeOpens, ServeObeys, TypeOK, ServiceTypes
  <2>5. /\ service'[g] \in {"open", "closing"}
        /\ service'[g] = "open" => obeys'[g] = events
    BY <1>9 DEF ServeOpens, ServeObeys, TypeOK, ServiceTypes
  <2>6. service[events] # "done"
    BY <2>1, <2>2 DEF Live
  <2>7. events \notin stoppedSet
    BY <2>1, <2>6 DEF Calm
  <2>8. \A h \in Gens : Live(h)' => Live(h)
    BY <2>1, <2>4 DEF Live
  <2>9. \A u \in Restarters : (Busy(u))' = Busy(u)
    BY <2>3 DEF Busy
  <2>10. ~(g < events)
    BY <2>2, GenFacts
  <2> QED BY <2>1, <2>2, <2>3, <2>4, <2>5, <2>7, <2>8, <2>9, <2>10 DEF Calm
<1>10. ASSUME NEW q \in Requests,
              Send(q) \/ Watch(q) \/ Answer(q) \/ Released(q) \/ CutOff(q)
       PROVE  Calm'
  BY <1>1, <1>10 DEF Send, Watch, Answer, Released, CutOff, eventVars, serviceVars,
                     restartVars
<1>11. CASE UNCHANGED vars
  BY <1>1, <1>11 DEF vars, eventVars, serviceVars, restartVars
<1> QED
  BY <1>2, <1>3, <1>5, <1>6, <1>7, <1>8, <1>9, <1>10, <1>11 DEF Next

-----------------------------------------------------------------------------
(* The inductive invariant holds in every reachable state. *)
THEOREM Invariance == Spec => []IInv
<1>1. Init => IInv
  BY InitIInv
<1>2. IInv /\ [Next]_vars => IInv'
  BY TypeStep, GenerationsStep, SessionStep, CalmStep DEF IInv
<1> QED BY <1>1, <1>2, PTL DEF Spec

(* Type correctness of one remote upstream. *)
THEOREM TypeCorrect == Spec => []TypeOK
<1>1. IInv => TypeOK
  BY DEF IInv
<1> QED BY <1>1, Invariance, PTL

(* A published session always belongs to a service task whose transport is  *)
(* still there, whatever overlaps or gives up.                              *)
THEOREM SessionsAreServed == Spec => []SessionServed
<1>1. IInv => SessionServed
  BY DEF IInv
<1> QED BY <1>1, Invariance, PTL

(* Undisturbed, the live service is the current one, recorded as serving,   *)
(* and obeys the event stop() sets.                                         *)
THEOREM NoOrphan == Spec => []NoOrphanService
<1>1. IInv => NoOrphanService
  <2> SUFFICES ASSUME IInv, ~disturbed, NEW g \in Gens, Live(g)
               PROVE  serving /\ g = events /\ (service[g] = "open" => obeys[g] = events)
    BY DEF NoOrphanService
  <2>1. TypeOK /\ Generations /\ Calm
    BY DEF IInv
  <2>2. g = events
    BY <2>1, LiveIsCurrent
  <2> QED BY <2>1, <2>2 DEF Calm
<1> QED BY <1>1, Invariance, PTL

(* Undisturbed, there are never two service tasks. *)
THEOREM NeverTwoServices == Spec => []OneService
<1>1. IInv => OneService
  <2> SUFFICES ASSUME IInv, ~disturbed PROVE AtMostOneService
    BY DEF OneService
  <2> DEFINE Alive == {g \in Gens : Live(g)}
  <2>1. TypeOK /\ Generations /\ Calm
    BY DEF IInv
  <2>2. Alive \subseteq {events}
    BY <2>1, LiveIsCurrent
  <2>3. IsFiniteSet({events}) /\ Cardinality({events}) = 1
    BY FS_Singleton
  <2>4. Cardinality(Alive) <= Cardinality({events})
    BY <2>2, <2>3, FS_Subset
  <2> QED BY <2>3, <2>4 DEF AtMostOneService
<1> QED BY <1>1, Invariance, PTL

-----------------------------------------------------------------------------
(* What does not open a session leaves the link as it was, or shows a start *)
(* begun or a session closed.                                               *)
LEMMA Relinked ==
  ASSUME session' = NoGen \/ session' = session, UNCHANGED request
  PROVE  [Abstract!Next]_<<Link, Progress>>
<1>1. Progress' = Progress
  BY DEF Progress
<1>2. Link' \in {"opening", "closed"} \/ Link' = Link
  BY DEF Link
<1> QED BY <1>1, <1>2
  DEF Abstract!Next, Abstract!Relink, Abstract!Begin, Abstract!Close

(* Every step is a step of the remote session, or changes nothing of it. *)
LEMMA RefinesStep == TypeOK /\ [Next]_vars => [Abstract!Next]_<<Link, Progress>>
<1> SUFFICES ASSUME TypeOK, [Next]_vars PROVE [Abstract!Next]_<<Link, Progress>>
  OBVIOUS
<1>1. request \in [Requests -> {"idle", "sent", "racing", "answered", "failed"}]
  BY DEF TypeOK, RequestTypes
<1>2. ASSUME NEW t \in Restarters,
             Restart(t) \/ Shutdown(t) \/ StopReturns(t) \/ StartWakes(t) \/ EndReturns(t)
      PROVE  [Abstract!Next]_<<Link, Progress>>
  <2>1. (session' = NoGen \/ session' = session) /\ UNCHANGED request
    BY <1>2 DEF Restart, Shutdown, StopReturns, StartWakes, EndReturns, requestVars
  <2> QED BY <2>1, Relinked
<1>3. ASSUME NEW g \in Gens, ServeFails(g) \/ ServeObeys(g) \/ ServeCloses(g)
      PROVE  [Abstract!Next]_<<Link, Progress>>
  <2>1. (session' = NoGen \/ session' = session) /\ UNCHANGED request
    BY <1>3 DEF ServeFails, ServeObeys, ServeCloses, ServeEnds, requestVars
  <2> QED BY <2>1, Relinked
<1>4. ASSUME NEW g \in Gens, ServeOpens(g) PROVE [Abstract!Next]_<<Link, Progress>>
  <2>1. service[g] = "handshake" /\ session' = g /\ UNCHANGED request
    BY <1>4 DEF ServeOpens, requestVars
  <2>2. Link \in {"open", "opening"}
    BY <2>1 DEF Link
  <2>3. g # NoGen
    BY GenFacts
  <2>4. Link' = "open"
    BY <2>1, <2>3 DEF Link
  <2>5. Progress' = Progress
    BY <2>1 DEF Progress
  <2> QED BY <2>2, <2>4, <2>5 DEF Abstract!Next, Abstract!Relink, Abstract!Open
<1>5. ASSUME NEW q \in Requests,
             Send(q) \/ Watch(q) \/ Answer(q) \/ Released(q) \/ CutOff(q)
      PROVE  [Abstract!Next]_<<Link, Progress>>
  <2>1. Link' = Link
    BY <1>5 DEF Send, Watch, Answer, Released, CutOff, serviceVars, Link
  <2>2. \A v \in {"answered", "failed", "sent"} :
          request' = [request EXCEPT ![q] = v] => Progress' = [Progress EXCEPT ![q] = v]
    BY <1>1 DEF Progress
  <2>3. CASE Send(q)
    <3>1. Progress[q] = "idle"
      BY <2>3 DEF Send, Progress
    <3>2. Link = "open" <=> session # NoGen
      BY DEF Link
    <3>3. CASE session = NoGen
      <4>1. Progress' = [Progress EXCEPT ![q] = "failed"]
        BY <2>2, <2>3, <3>3 DEF Send
      <4> QED BY <2>1, <3>1, <3>2, <3>3, <4>1 DEF Abstract!Next, Abstract!Send
    <3>4. CASE session # NoGen
      <4>1. Progress' = [Progress EXCEPT ![q] = "sent"]
        BY <2>2, <2>3, <3>4 DEF Send
      <4> QED BY <2>1, <3>1, <3>2, <3>4, <4>1 DEF Abstract!Next, Abstract!Send
    <3> QED BY <3>3, <3>4
  <2>4. CASE Watch(q)
    <3>1. Progress' = Progress
      BY <1>1, <2>4 DEF Watch, Progress
    <3> QED BY <2>1, <3>1
  <2>5. CASE Answer(q) \/ Released(q) \/ CutOff(q)
    <3>1. Progress[q] = "sent"
      BY <2>5 DEF Answer, Released, CutOff, Progress
    <3>2. \E end \in {"answered", "failed"} : request' = [request EXCEPT ![q] = end]
      BY <2>5 DEF Answer, Released, CutOff
    <3>3. \E end \in {"answered", "failed"} : Progress' = [Progress EXCEPT ![q] = end]
      BY <2>2, <3>2
    <3> QED BY <2>1, <3>1, <3>3 DEF Abstract!Next, Abstract!End
  <2> QED BY <1>5, <2>3, <2>4, <2>5
<1>6. CASE UNCHANGED vars
  BY <1>6, Relinked DEF vars, requestVars
<1> QED BY <1>2, <1>3, <1>4, <1>5, <1>6 DEF Next

(* However restarts overlap and waits give up, the proxy sees a remote      *)
(* session: one is opened by a start alone, and a request leaves on it only *)
(* while it is open.                                                        *)
THEOREM UpstreamImplementsSession == Spec => ImplementsSession
<1>1. Init => Abstract!Init
  <2> SUFFICES ASSUME Init PROVE Abstract!Init
    OBVIOUS
  <2>1. Link = "closed"
    BY DEF Init, Link
  <2>2. Progress = [q \in Requests |-> "idle"]
    BY DEF Init, Progress
  <2> QED BY <2>1, <2>2 DEF Abstract!Init
<1>2. TypeOK /\ [Next]_vars => [Abstract!Next]_<<Link, Progress>>
  BY RefinesStep
<1> QED BY <1>1, <1>2, TypeCorrect, PTL DEF Spec, ImplementsSession, Abstract!Spec, Abstract!vars
=============================================================================
