----------------------- MODULE VolatileSecrets_proofs -----------------------
(***************************************************************************)
(* Safety of VolatileSecrets for any keys, consumers, values and requests.  *)
(* The invariant says what the lock of a key protects (Locked, Judged),     *)
(* what the memory of refusals is (RejectedAreLatest), and who still owes a *)
(* publication (ChangesPublished).                                          *)
(***************************************************************************)
EXTENDS VolatileSecrets, TLAPS

(* A task starts with its request.  Until it is over it has its key; while  *)
(* it tests, it holds the lock; while it builds, nothing refused its value  *)
(* in the meantime.                                                         *)
Locked ==
  /\ \A o \in Ops : reply[o] = "none" => phase[o] = "idle"
  /\ \A o \in Ops : phase[o] \notin {"idle", "done"} => key[o] \in Keys
  /\ \A f \in Forgets : phase[f] \notin {"testing", "building"}
  /\ \A s \in Submits :
       phase[s] \in {"waiting", "testing", "building"} => value[s] \in Values
  /\ \A s \in Submits : phase[s] \in {"testing", "building"} => holder[key[s]] = s
  /\ \A s \in Submits : phase[s] = "building" =>
       /\ place[key[s]] \in Consumers
       /\ value[s] \notin Elements(rejected[key[s]])

(* The memory of a key is the end of its history, as much as MaxRejected    *)
(* allows: a value in it is never refused again, so never moved.            *)
EndOf(q, g) ==
  /\ Len(q) <= MaxRejected
  /\ Len(q) <= Len(g)
  /\ Len(q) = MaxRejected \/ Len(q) = Len(g)
  /\ \A i \in 1 .. Len(q) : q[i] = g[Len(g) - Len(q) + i]

RejectedAreLatest == \A k \in Keys : EndOf(rejected[k], refusals[k])

Memory == RejectedAreLatest /\ RefusedOnce

(* An instance that quotes its secret is marked before anyone can list it. *)
CitingForbidden ==
  /\ \A k \in Keys, c \in Consumers : served[k][c] \in Citing => forbidden[k][c]
  /\ CacheNeverCites

(* Up to the place the holder has reached, the verdicts are those of its    *)
(* own deposit; what follows is judged when nobody holds the lock.          *)
RefusedBefore(k, c) == \E b \in 1 .. c - 1 : verdict[k][b] = "rejected"

Judged ==
  /\ \A k \in Keys : stopped[k] => RefusedBefore(k, place[k])
  /\ \A k \in Keys : \A c \in 1 .. place[k] - 1 :
       verdict[k][c] = "untested" => RefusedBefore(k, c)
  /\ \A k \in Keys : holder[k] = None => place[k] = 1 /\ ~stopped[k]
  /\ VerdictsCoherent

(* Who changed an instance still has to publish, and what it collected is   *)
(* what it will publish as long as nothing overlapped.                      *)
ChangesPublished ==
  /\ \A o \in Ops : Publishing(o) => changed[o]
  /\ \A f \in Forgets : changed[f] => Publishing(f)
  /\ \A s \in Submits : changed[s] => Running(s) /\ phase[s] # "waiting"
  /\ ~overlapped => \A o \in Ops : phase[o] = "composed" => seen[o] = Shown
  /\ SurfaceFreshAlone

IInv ==
  /\ TypeOK
  /\ Locked
  /\ Memory
  /\ AcceptedIsServed
  /\ CitingForbidden
  /\ Judged
  /\ ChangesPublished

-----------------------------------------------------------------------------
LEMMA NoneFacts ==
  /\ \A o \in Ops : o # None
  /\ \A k \in Keys : k # None
  /\ \A v \in Values : v # None
  /\ None \notin Citing
  /\ Submits \subseteq Ops /\ Forgets \subseteq Ops
  /\ \A o \in Ops : o \in Submits \/ o \in Forgets
  /\ \A f \in Forgets : f \notin Submits
BY SecretsAssumption DEF Ops

LEMMA PlaceFacts ==
  /\ 1 \in 1 .. Width + 1
  /\ \A p \in 1 .. Width + 1 : p \in Consumers => p + 1 \in 1 .. Width + 1
  /\ \A p \in 1 .. Width + 1 : p \notin Consumers => p = Width + 1
  /\ \A c \in Consumers : c \in 1 .. Width + 1
BY SecretsAssumption DEF Consumers

LEMMA InitIInv == Init => IInv
<1> SUFFICES ASSUME Init PROVE IInv
  OBVIOUS
<1>1. Empty \in Instances
  BY DEF Empty, Instances
<1>2. TypeOK
  <2>1. TaskTypes /\ LockTypes /\ RequestTypes
    BY PlaceFacts DEF Init, TaskTypes, LockTypes, RequestTypes, Phases
  <2>2. ConsumerTypes
    BY <1>1 DEF Init, ConsumerTypes, Verdicts
  <2>3. RefusalTypes
    BY DEF Init, RefusalTypes
  <2>4. SurfaceTypes
    BY <1>1 DEF Init, SurfaceTypes
  <2> QED BY <2>1, <2>2, <2>3, <2>4 DEF TypeOK
<1>3. Locked
  BY NoneFacts DEF Init, Locked
<1>4. Memory
  BY SecretsAssumption DEF Init, Memory, RejectedAreLatest, EndOf, RefusedOnce
<1>5. AcceptedIsServed /\ CitingForbidden
  BY NoneFacts DEF Init, Empty, AcceptedIsServed, CitingForbidden, CacheNeverCites
<1>6. Judged
  BY DEF Init, Judged, VerdictsCoherent
<1>7. ChangesPublished
  <2>1. surface = Shown
    BY DEF Init, Shown, Empty
  <2> QED
    BY <2>1, NoneFacts DEF Init, ChangesPublished, Publishing, SurfaceFreshAlone, SurfaceFresh
<1> QED BY <1>2, <1>3, <1>4, <1>5, <1>6, <1>7 DEF IInv

-----------------------------------------------------------------------------
(* The parts of the invariant that a step leaves alone. *)
LEMMA SameTypes ==
  ASSUME TypeOK
  PROVE  /\ UNCHANGED requestVars => RequestTypes'
         /\ UNCHANGED consumerVars => ConsumerTypes'
         /\ UNCHANGED refusalVars => RefusalTypes'
         /\ UNCHANGED <<cacheVars, surfaceVars>> => SurfaceTypes'
         /\ UNCHANGED <<holder, place, stopped>> => LockTypes'
BY DEF TypeOK, RequestTypes, ConsumerTypes, RefusalTypes, SurfaceTypes, LockTypes,
   requestVars, consumerVars, refusalVars, cacheVars, surfaceVars

LEMMA SameRefusals ==
  ASSUME Memory, UNCHANGED refusalVars
  PROVE  Memory'
BY DEF Memory, RejectedAreLatest, RefusedOnce, refusalVars

LEMMA SameInstances ==
  ASSUME AcceptedIsServed, CitingForbidden, UNCHANGED <<served, accepted, cacheVars>>
  PROVE  AcceptedIsServed' /\ CitingForbidden'
BY DEF AcceptedIsServed, CitingForbidden, CacheNeverCites, cacheVars

LEMMA SameJudgements ==
  ASSUME Judged, UNCHANGED <<verdict, place, stopped, holder>>
  PROVE  Judged'
BY DEF Judged, RefusedBefore, VerdictsCoherent

LEMMA SameChanges ==
  ASSUME ChangesPublished, UNCHANGED <<phase, changed, served, cache, surfaceVars>>
  PROVE  ChangesPublished'
<1>1. Shown' = Shown
  BY DEF Shown
<1> QED
  BY <1>1 DEF ChangesPublished, Publishing, Running, SurfaceFreshAlone, SurfaceFresh,
     Quiet, surfaceVars

-----------------------------------------------------------------------------
(* One lemma per action. *)
LEMMA SubmitIInv ==
  ASSUME IInv, NEW s \in Submits, Submit(s)
  PROVE  IInv'
<1> USE NoneFacts
<1>1. PICK k \in Keys, v \in Values :
         \/ /\ Adoptable(k, v)
            /\ joined' = [joined EXCEPT ![s] = latest[k]]
            /\ UNCHANGED taskVars
         \/ /\ ~Adoptable(k, v)
            /\ joined' = [joined EXCEPT ![s] = s]
            /\ latest' = [latest EXCEPT ![k] = s]
            /\ key' = [key EXCEPT ![s] = k]
            /\ value' = [value EXCEPT ![s] = v]
            /\ phase' = [phase EXCEPT ![s] = "waiting"]
            /\ UNCHANGED <<holder, place, stopped, changed>>
  BY DEF Submit
<1>2. TypeOK'
  <2>1. TaskTypes'
    BY <1>1 DEF IInv, TypeOK, TaskTypes, Phases, taskVars
  <2>2. RequestTypes' /\ LockTypes'
    BY <1>1 DEF IInv, Submit, TypeOK, TaskTypes, RequestTypes, LockTypes, taskVars
  <2>3. ConsumerTypes' /\ RefusalTypes' /\ SurfaceTypes'
    BY SameTypes DEF IInv, Submit
  <2> QED BY <2>1, <2>2, <2>3 DEF TypeOK
<1>3. Locked'
  BY <1>1 DEF Submit, IInv, TypeOK, TaskTypes, RequestTypes, Locked, taskVars,
     refusalVars
<1>4. Memory' /\ AcceptedIsServed' /\ CitingForbidden' /\ Judged'
  BY <1>1, SameRefusals, SameInstances, SameJudgements
     DEF IInv, Submit, consumerVars, refusalVars, cacheVars, taskVars
<1>5. ChangesPublished'
  <2>1. Shown' = Shown
    BY DEF Submit, Shown, consumerVars, cacheVars
  <2>2. CASE UNCHANGED taskVars
    BY <2>1, <2>2
       DEF IInv, Submit, ChangesPublished, Publishing, Running, SurfaceFreshAlone,
       SurfaceFresh, Quiet, taskVars, surfaceVars
  <2>3. CASE phase' = [phase EXCEPT ![s] = "waiting"] /\ changed' = changed
    <3>1. phase[s] = "idle"
      BY DEF IInv, Submit, Locked
    <3>2. ~changed[s]
      BY <3>1 DEF IInv, ChangesPublished, Running
    <3> QED
      BY <2>1, <2>3, <3>1, <3>2
         DEF IInv, TypeOK, TaskTypes, Submit, ChangesPublished, Publishing, Running,
         SurfaceFreshAlone, SurfaceFresh, Quiet, surfaceVars
  <2> QED BY <1>1, <2>2, <2>3
<1> QED BY <1>2, <1>3, <1>4, <1>5 DEF IInv

LEMMA StartTestsIInv ==
  ASSUME IInv, NEW s \in Submits, StartTests(s)
  PROVE  IInv'
<1> USE NoneFacts
<1>1. key[s] \in Keys /\ holder[key[s]] = None
  BY DEF IInv, Locked, StartTests, Take
<1>2. TypeOK'
  <2>1. TaskTypes' /\ LockTypes'
    BY <1>1 DEF IInv, StartTests, Take, TypeOK, TaskTypes, LockTypes, Phases
  <2>2. RequestTypes' /\ ConsumerTypes' /\ RefusalTypes' /\ SurfaceTypes'
    BY SameTypes DEF IInv, StartTests
  <2> QED BY <2>1, <2>2 DEF TypeOK
<1>3. Locked'
  BY <1>1 DEF StartTests, Take, IInv, TypeOK, TaskTypes, LockTypes, Locked,
     requestVars, refusalVars
<1>4. Memory' /\ AcceptedIsServed' /\ CitingForbidden'
  BY SameRefusals, SameInstances DEF IInv, StartTests, consumerVars
<1>5. Judged'
  BY <1>1 DEF IInv, StartTests, Take, TypeOK, LockTypes, Judged, RefusedBefore,
     VerdictsCoherent, consumerVars
<1>6. ChangesPublished'
  <2>1. Shown' = Shown
    BY DEF StartTests, Shown, consumerVars, cacheVars
  <2> QED
    BY <2>1
       DEF IInv, TypeOK, TaskTypes, StartTests, Take, ChangesPublished, Publishing,
       Running, SurfaceFreshAlone, SurfaceFresh, Quiet, surfaceVars
<1> QED BY <1>2, <1>3, <1>4, <1>5, <1>6 DEF IInv

(* What a turn of the loop writes.  A verdict is "untested" only after a    *)
(* refusal, and the loop stops only at one.                                 *)
LEMMA JudgeFacts ==
  ASSUME IInv, NEW s \in Submits, phase[s] \in {"testing", "building"},
         place[key[s]] \in Consumers, NEW j \in Verdicts, NEW stop \in BOOLEAN,
         Judge(key[s], j, stop), UNCHANGED holder,
         stop => stopped[key[s]] \/ j = "rejected",
         j = "untested" => stopped[key[s]]
  PROVE  /\ LockTypes'
         /\ verdict' \in [Keys -> [Consumers -> Verdicts]]
         /\ Judged'
         /\ \A t \in Submits : phase[t] \in {"testing", "building"} /\ t # s =>
              place'[key[t]] = place[key[t]]
<1> USE NoneFacts
<1>1. PICK k \in Keys : k = key[s] /\ holder[k] = s
  BY DEF IInv, Locked
<1>2. LockTypes /\ verdict \in [Keys -> [Consumers -> Verdicts]]
  BY DEF IInv, TypeOK, ConsumerTypes
<1>3. /\ place[k] \in 1 .. Width + 1 /\ place[k] + 1 \in 1 .. Width + 1
      /\ Width \in Nat /\ place[k] \in Nat
  BY <1>1, <1>2, PlaceFacts, SecretsAssumption DEF LockTypes
<1>4. LockTypes'
  BY <1>1, <1>2, <1>3 DEF LockTypes, Judge
<1>5. verdict' \in [Keys -> [Consumers -> Verdicts]]
  BY <1>1, <1>2 DEF Judge
<1>6. \A l \in Keys : l # k =>
        verdict'[l] = verdict[l] /\ place'[l] = place[l] /\ stopped'[l] = stopped[l]
  BY <1>1, <1>2 DEF LockTypes, Judge
<1>7. /\ place'[k] = place[k] + 1 /\ stopped'[k] = stop
      /\ verdict'[k][place[k]] = j
      /\ \A c \in Consumers : c # place[k] => verdict'[k][c] = verdict[k][c]
  BY <1>1, <1>2 DEF LockTypes, Judge
<1>8. \A c \in 1 .. place[k] : RefusedBefore(k, c) => RefusedBefore(k, c)'
  <2> SUFFICES ASSUME NEW c \in 1 .. place[k], NEW b \in 1 .. c - 1,
                      verdict[k][b] = "rejected"
               PROVE  RefusedBefore(k, c)'
    BY <1>1 DEF RefusedBefore
  <2>1. b \in Consumers /\ b # place[k]
    BY <1>3 DEF Consumers
  <2>2. verdict'[k][b] = "rejected"
    BY <1>7, <2>1
  <2> QED BY <2>2 DEF RefusedBefore
<1>9. stopped'[k] => \E b \in 1 .. place[k] : verdict'[k][b] = "rejected"
  <2>1. CASE j = "rejected"
    BY <1>3, <1>7, <2>1
  <2>2. CASE stopped[k]
    <3>1. PICK b \in 1 .. place[k] - 1 : verdict[k][b] = "rejected"
      BY <1>1, <2>2 DEF IInv, Judged, RefusedBefore
    <3>2. b \in Consumers /\ b # place[k] /\ b \in 1 .. place[k]
      BY <1>3 DEF Consumers
    <3> QED BY <1>7, <3>1, <3>2
  <2> QED BY <1>1, <1>7, <2>1, <2>2
<1>10. \A c \in 1 .. place[k] : verdict'[k][c] = "untested" => RefusedBefore(k, c)'
  <2> SUFFICES ASSUME NEW c \in 1 .. place[k], verdict'[k][c] = "untested"
               PROVE  RefusedBefore(k, c)
    BY <1>8
  <2>1. CASE c = place[k]
    BY <1>1, <1>7, <2>1 DEF IInv, Judged
  <2>2. CASE c # place[k]
    <3>1. c \in Consumers /\ c \in 1 .. place[k] - 1
      BY <1>3, <2>2 DEF Consumers
    <3> QED BY <1>1, <1>7, <2>2, <3>1 DEF IInv, Judged
  <2> QED BY <2>1, <2>2
<1>11. Judged'
  <2> SUFFICES ASSUME NEW l \in Keys
               PROVE  /\ stopped'[l] =>
                           \E b \in 1 .. place'[l] - 1 : verdict'[l][b] = "rejected"
                      /\ \A c \in 1 .. place'[l] - 1 :
                           verdict'[l][c] = "untested" => RefusedBefore(l, c)'
                      /\ holder[l] = None => place'[l] = 1 /\ ~stopped'[l]
                      /\ holder[l] = None => \A c \in Consumers :
                           verdict'[l][c] = "untested" => RefusedBefore(l, c)'
    BY DEF Judged, VerdictsCoherent, RefusedBefore
  <2>1. CASE l = k
    BY <1>1, <1>3, <1>7, <1>9, <1>10, <2>1
  <2>2. CASE l # k
    BY <1>6, <2>2 DEF IInv, Judged, VerdictsCoherent, RefusedBefore
  <2> QED BY <2>1, <2>2
<1>12. \A t \in Submits : phase[t] \in {"testing", "building"} /\ t # s =>
         place'[key[t]] = place[key[t]]
  BY <1>1, <1>6 DEF IInv, Locked
<1> QED BY <1>4, <1>5, <1>11, <1>12

LEMMA PassOverIInv ==
  ASSUME IInv, NEW s \in Submits, PassOver(s)
  PROVE  IInv'
<1> USE NoneFacts
<1>1. PICK j \in Verdicts, stop \in BOOLEAN :
         /\ Judge(key[s], j, stop)
         /\ stop => stopped[key[s]] \/ j = "rejected"
         /\ j = "untested" => stopped[key[s]]
  BY DEF PassOver, Verdicts
<1>2. phase[s] = "testing" /\ place[key[s]] \in Consumers /\ UNCHANGED holder
  BY DEF PassOver, Holds
<1>3. LockTypes' /\ verdict' \in [Keys -> [Consumers -> Verdicts]] /\ Judged'
  BY <1>1, <1>2, JudgeFacts
<1>4. \A t \in Submits : phase[t] \in {"testing", "building"} /\ t # s =>
        place'[key[t]] = place[key[t]]
  BY <1>1, <1>2, JudgeFacts
<1>5. TypeOK'
  <2>1. TaskTypes' /\ ConsumerTypes'
    BY <1>3 DEF IInv, PassOver, TypeOK, TaskTypes, ConsumerTypes
  <2> QED BY <1>3, <2>1, SameTypes DEF IInv, PassOver, TypeOK
<1>6. Locked'
  BY <1>2, <1>4 DEF IInv, PassOver, Locked, requestVars, refusalVars
<1>7. Memory' /\ AcceptedIsServed' /\ CitingForbidden'
  BY SameRefusals, SameInstances DEF IInv, PassOver
<1>8. ChangesPublished'
  BY SameChanges DEF IInv, PassOver, cacheVars
<1> QED BY <1>3, <1>5, <1>6, <1>7, <1>8 DEF IInv

LEMMA StartBuildIInv ==
  ASSUME IInv, NEW s \in Submits, StartBuild(s)
  PROVE  IInv'
<1> USE NoneFacts
<1>1. phase[s] = "testing" /\ phase' = [phase EXCEPT ![s] = "building"]
  BY DEF StartBuild, Holds
<1>2. TypeOK'
  <2>1. TaskTypes'
    BY <1>1 DEF IInv, StartBuild, TypeOK, TaskTypes, Phases
  <2> QED BY <2>1, SameTypes DEF IInv, StartBuild, TypeOK
<1>3. Locked'
  BY <1>1
     DEF IInv, TypeOK, TaskTypes, StartBuild, Holds, Locked, requestVars, refusalVars
<1>4. Memory' /\ AcceptedIsServed' /\ CitingForbidden' /\ Judged'
  BY SameRefusals, SameInstances, SameJudgements DEF IInv, StartBuild, consumerVars
<1>5. ChangesPublished'
  <2>1. Shown' = Shown
    BY DEF StartBuild, Shown, consumerVars, cacheVars
  <2> QED
    BY <1>1, <2>1
       DEF IInv, TypeOK, TaskTypes, StartBuild, ChangesPublished, Publishing, Running,
       SurfaceFreshAlone, SurfaceFresh, Quiet, surfaceVars
<1> QED BY <1>2, <1>3, <1>4, <1>5 DEF IInv

(* The end of a build, whatever its outcome: what the three actions share.  *)
LEMMA BuildFacts ==
  ASSUME IInv, NEW s \in Submits, phase[s] = "building",
         NEW j \in Verdicts \ {"untested"}, NEW stop \in BOOLEAN,
         stop => j = "rejected", Judge(key[s], j, stop),
         phase' = [phase EXCEPT ![s] = "testing"],
         UNCHANGED <<requestVars, key, value, latest, holder>>,
         UNCHANGED rejected \/
           \E r \in Seq(Values) : rejected' = [rejected EXCEPT ![key[s]] = r]
  PROVE  /\ key[s] \in Keys /\ value[s] \in Values /\ place[key[s]] \in Consumers
         /\ changed' \in [Ops -> BOOLEAN] => TaskTypes'
         /\ LockTypes' /\ RequestTypes'
         /\ verdict' \in [Keys -> [Consumers -> Verdicts]]
         /\ Locked'
         /\ Judged'
<1> USE NoneFacts
<1>1. key[s] \in Keys /\ value[s] \in Values /\ place[key[s]] \in Consumers
  BY DEF IInv, Locked
<1>2. /\ LockTypes' /\ verdict' \in [Keys -> [Consumers -> Verdicts]] /\ Judged'
      /\ \A t \in Submits : phase[t] \in {"testing", "building"} /\ t # s =>
           place'[key[t]] = place[key[t]]
  BY <1>1, JudgeFacts
<1>3. changed' \in [Ops -> BOOLEAN] => TaskTypes'
  BY DEF IInv, TypeOK, TaskTypes, Phases
<1>4. RequestTypes'
  BY SameTypes DEF IInv
<1>5. Locked'
  <2>1. \A t \in Submits : phase'[t] = "building" => t # s /\ phase[t] = "building"
    BY DEF IInv, TypeOK, TaskTypes
  <2>2. \A t \in Submits : phase'[t] = "building" => key[t] \in Keys /\ key[t] # key[s]
    BY <2>1 DEF IInv, Locked
  <2>3. \A t \in Submits : phase'[t] = "building" => rejected'[key[t]] = rejected[key[t]]
    BY <2>2 DEF IInv, TypeOK, RefusalTypes
  <2>4. \A t \in Submits : phase'[t] = "building" =>
          /\ place'[key'[t]] \in Consumers
          /\ value'[t] \notin Elements(rejected'[key'[t]])
    BY <1>2, <2>1, <2>3 DEF IInv, Locked
  <2> QED
    BY <2>4 DEF IInv, TypeOK, TaskTypes, Locked, requestVars, Elements
<1> QED BY <1>1, <1>2, <1>3, <1>4, <1>5

LEMMA BuildFailedIInv ==
  ASSUME IInv, NEW s \in Submits, BuildFailed(s)
  PROVE  IInv'
<1> USE NoneFacts
<1>1. /\ phase[s] = "building" /\ phase' = [phase EXCEPT ![s] = "testing"]
      /\ Judge(key[s], "indeterminate", FALSE)
      /\ UNCHANGED <<requestVars, key, value, latest, holder>> /\ UNCHANGED rejected
  BY DEF BuildFailed, refusalVars
<1>2. /\ changed' \in [Ops -> BOOLEAN] => TaskTypes'
      /\ LockTypes' /\ RequestTypes' /\ verdict' \in [Keys -> [Consumers -> Verdicts]]
      /\ Locked' /\ Judged'
  <2>1. "indeterminate" \in Verdicts \ {"untested"} /\ FALSE \in BOOLEAN
    BY DEF Verdicts
  <2> QED BY <1>1, <2>1, BuildFacts
<1>3. TypeOK'
  <2>1. TaskTypes' /\ ConsumerTypes'
    BY <1>2 DEF IInv, BuildFailed, TypeOK, TaskTypes, ConsumerTypes
  <2> QED BY <1>2, <2>1, SameTypes DEF IInv, BuildFailed, TypeOK
<1>4. Memory' /\ AcceptedIsServed' /\ CitingForbidden'
  BY SameRefusals, SameInstances DEF IInv, BuildFailed
<1>5. ChangesPublished'
  <2>1. Shown' = Shown
    BY DEF BuildFailed, Shown, cacheVars
  <2> QED
    BY <1>1, <2>1
       DEF IInv, TypeOK, TaskTypes, BuildFailed, ChangesPublished, Publishing, Running,
       SurfaceFreshAlone, SurfaceFresh, Quiet, surfaceVars
<1> QED BY <1>2, <1>3, <1>4, <1>5 DEF IInv

(* The refused value was not in the memory: it becomes its last element, and *)
(* the oldest leaves when there are too many.                               *)
LEMMA RejectIsAppend ==
  ASSUME NEW m \in Seq(Values), NEW v \in Values, v \notin Elements(m)
  PROVE  Reject(m, v) = IF Len(m) + 1 > MaxRejected THEN Tail(Append(m, v)) ELSE Append(m, v)
BY DEF Reject, MovedToEnd

LEMMA BuildRejectedIInv ==
  ASSUME IInv, NEW s \in Submits, BuildRejected(s)
  PROVE  IInv'
<1> USE NoneFacts
<1>1. /\ phase[s] = "building" /\ phase' = [phase EXCEPT ![s] = "testing"]
      /\ Judge(key[s], "rejected", TRUE)
      /\ UNCHANGED <<requestVars, key, value, latest, holder>>
      /\ rejected' = [rejected EXCEPT ![key[s]] = Reject(@, value[s])]
      /\ refusals' = [refusals EXCEPT ![key[s]] = Append(@, value[s])]
  BY DEF BuildRejected
<1>2. PICK k \in Keys, v \in Values :
        /\ k = key[s] /\ v = value[s]
        /\ rejected[k] \in Seq(Values) /\ refusals[k] \in Seq(Values)
        /\ v \notin Elements(rejected[k])
  BY <1>1 DEF IInv, Locked, TypeOK, RefusalTypes
<1>3. PICK m \in Seq(Values), h \in Seq(Values) :
        m = rejected[k] /\ h = refusals[k]
  BY <1>2
<1>4. PICK r \in Seq(Values) :
        /\ r = Reject(m, v)
        /\ r = IF Len(m) + 1 > MaxRejected THEN Tail(Append(m, v)) ELSE Append(m, v)
  <2>1. Append(m, v) \in Seq(Values) /\ Append(m, v) # <<>>
    OBVIOUS
  <2>2. Tail(Append(m, v)) \in Seq(Values)
    BY <2>1
  <2> QED BY <1>2, <1>3, <2>1, <2>2, RejectIsAppend
<1>5. rejected' = [rejected EXCEPT ![k] = r] /\ refusals' = [refusals EXCEPT ![k] = Append(h, v)]
  BY <1>1, <1>2, <1>3, <1>4
<1>6. /\ changed' \in [Ops -> BOOLEAN] => TaskTypes'
      /\ LockTypes' /\ RequestTypes' /\ verdict' \in [Keys -> [Consumers -> Verdicts]]
      /\ Locked' /\ Judged'
  <2>1. "rejected" \in Verdicts \ {"untested"} /\ TRUE \in BOOLEAN
    BY DEF Verdicts
  <2>2. \E q \in Seq(Values) : rejected' = [rejected EXCEPT ![key[s]] = q]
    BY <1>2, <1>5
  <2> QED BY <1>1, <2>1, <2>2, BuildFacts
<1>7. RefusalTypes'
  BY <1>5 DEF IInv, TypeOK, RefusalTypes
<1>8. TypeOK'
  <2>1. TaskTypes' /\ ConsumerTypes'
    BY <1>6 DEF IInv, BuildRejected, TypeOK, TaskTypes, ConsumerTypes
  <2> QED BY <1>6, <1>7, <2>1, SameTypes DEF IInv, BuildRejected, TypeOK
<1>9. Memory'
  <2> DEFINE n == Append(h, v)
  <2>1. /\ Len(m) <= MaxRejected /\ Len(m) <= Len(h)
        /\ Len(m) = MaxRejected \/ Len(m) = Len(h)
        /\ \A i \in 1 .. Len(m) : m[i] = h[Len(h) - Len(m) + i]
    BY <1>3 DEF IInv, Memory, RejectedAreLatest, EndOf
  <2>2. MaxRejected \in Nat \ {0} /\ Len(m) \in Nat /\ Len(h) \in Nat
    BY SecretsAssumption
  <2>3. /\ Len(n) = Len(h) + 1 /\ n[Len(h) + 1] = v
        /\ \A i \in 1 .. Len(h) : n[i] = h[i]
    OBVIOUS
  <2> HIDE DEF n
  <2>4. /\ Len(r) <= MaxRejected /\ Len(r) <= Len(n)
        /\ Len(r) = MaxRejected \/ Len(r) = Len(n)
        /\ \A i \in 1 .. Len(r) : r[i] = n[Len(n) - Len(r) + i]
    <3>1. CASE Len(m) + 1 > MaxRejected
      <4>1. r = Tail(Append(m, v)) /\ Len(m) = MaxRejected
        BY <1>4, <2>1, <2>2, <3>1
      <4>2. Len(r) = Len(m) /\ \A i \in 1 .. Len(r) : r[i] = Append(m, v)[i + 1]
        BY <2>2, <4>1
      <4>3. \A i \in 1 .. Len(r) : r[i] = IF i = Len(m) THEN v ELSE m[i + 1]
        BY <2>2, <4>2
      <4>4. Len(n) - Len(r) = Len(h) - Len(m) + 1
        BY <2>2, <2>3, <4>2
      <4>5. ASSUME NEW i \in 1 .. Len(r) PROVE r[i] = n[Len(n) - Len(r) + i]
        <5>1. CASE i = Len(m)
          BY <2>2, <2>3, <4>3, <4>4, <5>1
        <5>2. CASE i # Len(m)
          <6>1. i + 1 \in 1 .. Len(m) /\ Len(h) - Len(m) + (i + 1) \in 1 .. Len(h)
            BY <2>1, <2>2, <4>2, <5>2
          <6>2. r[i] = h[Len(h) - Len(m) + (i + 1)]
            BY <2>1, <4>3, <5>2, <6>1
          <6>3. Len(n) - Len(r) + i = Len(h) - Len(m) + (i + 1)
            BY <2>2, <4>4
          <6> QED BY <2>3, <6>1, <6>2, <6>3
        <5> QED BY <5>1, <5>2
      <4>6. Len(r) <= MaxRejected /\ Len(r) <= Len(n) /\ Len(r) = MaxRejected
        BY <2>1, <2>2, <2>3, <4>1, <4>2
      <4> QED BY <4>5, <4>6
    <3>2. CASE ~(Len(m) + 1 > MaxRejected)
      <4>1. r = Append(m, v) /\ Len(m) = Len(h)
        BY <1>4, <2>1, <2>2, <3>2
      <4>2. Len(r) = Len(n)
        BY <2>3, <4>1
      <4>3. \A i \in 1 .. Len(r) : r[i] = n[i]
        BY <2>1, <2>2, <2>3, <4>1
      <4> QED BY <2>2, <2>3, <3>2, <4>1, <4>2, <4>3
    <3> QED BY <3>1, <3>2
  <2>5. rejected'[k] = r /\ refusals'[k] = n
    BY <1>5 DEF n, IInv, TypeOK, RefusalTypes
  <2>6. \A l \in Keys : l # k =>
          rejected'[l] = rejected[l] /\ refusals'[l] = refusals[l]
    BY <1>5 DEF IInv, TypeOK, RefusalTypes
  <2>7. RejectedAreLatest /\ RefusedOnce
    BY DEF IInv, Memory
  <2>8. ASSUME NEW l \in Keys PROVE EndOf(rejected'[l], refusals'[l])
    <3>1. CASE l = k
      BY <2>4, <2>5, <3>1 DEF EndOf
    <3>2. CASE l # k
      BY <2>6, <2>7, <3>2 DEF RejectedAreLatest
    <3> QED BY <3>1, <3>2
  <2>9. ASSUME NEW i \in 1 .. Len(h), h[i] = v PROVE Len(n) - i > MaxRejected
    <3>1. ~(i > Len(h) - Len(m))
      <4> SUFFICES ASSUME i > Len(h) - Len(m) PROVE FALSE
        OBVIOUS
      <4>1. i - (Len(h) - Len(m)) \in 1 .. Len(m)
        BY <2>1, <2>2
      <4>2. m[i - (Len(h) - Len(m))] = h[i]
        BY <2>1, <2>2, <4>1
      <4>3. DOMAIN m = 1 .. Len(m)
        OBVIOUS
      <4>4. v \in Elements(m)
        BY <2>9, <4>1, <4>2, <4>3 DEF Elements
      <4> QED BY <1>2, <1>3, <4>4
    <3>2. Len(m) = MaxRejected /\ i <= Len(h) - Len(m)
      BY <2>1, <2>2, <3>1
    <3> QED BY <2>2, <2>3, <3>2
  <2>10. ASSUME NEW l \in Keys, NEW i \in DOMAIN refusals'[l], NEW j \in DOMAIN refusals'[l],
                i < j, refusals'[l][i] = refusals'[l][j]
         PROVE  j - i > MaxRejected
    <3>1. CASE l = k /\ j = Len(h) + 1
      <4>1. i \in 1 .. Len(h) /\ h[i] = v
        BY <2>2, <2>3, <2>5, <2>10, <3>1
      <4> QED BY <2>3, <2>9, <3>1, <4>1
    <3>2. CASE l = k /\ j # Len(h) + 1
      <4>1. i \in 1 .. Len(h) /\ j \in 1 .. Len(h) /\ h[i] = h[j]
        BY <2>2, <2>3, <2>5, <2>10, <3>2
      <4> QED BY <1>3, <2>7, <2>10, <4>1 DEF RefusedOnce
    <3>3. CASE l # k
      BY <2>6, <2>7, <2>10, <3>3 DEF RefusedOnce
    <3> QED BY <3>1, <3>2, <3>3
  <2> QED BY <2>8, <2>10 DEF Memory, RejectedAreLatest, RefusedOnce
<1>10. AcceptedIsServed' /\ CitingForbidden'
  BY SameInstances DEF IInv, BuildRejected
<1>11. ChangesPublished'
  <2>1. Shown' = Shown
    BY DEF BuildRejected, Shown, cacheVars
  <2> QED
    BY <1>1, <2>1
       DEF IInv, TypeOK, TaskTypes, BuildRejected, ChangesPublished, Publishing, Running,
       SurfaceFreshAlone, SurfaceFresh, Quiet, surfaceVars
<1> QED BY <1>6, <1>8, <1>9, <1>10, <1>11 DEF IInv

LEMMA BuildAcceptedIInv ==
  ASSUME IInv, NEW s \in Submits, BuildAccepted(s)
  PROVE  IInv'
<1> USE NoneFacts
<1>1. PICK k \in Keys, c \in Consumers, v \in Values :
        /\ k = key[s] /\ c = place[k] /\ v = value[s]
        /\ served' = [served EXCEPT ![k][c] = v]
        /\ accepted' = [accepted EXCEPT ![k][c] = v]
        /\ Remember(k, c, v)
  BY DEF IInv, Locked, BuildAccepted
<1>2. /\ phase[s] = "building" /\ phase' = [phase EXCEPT ![s] = "testing"]
      /\ changed' = [changed EXCEPT ![s] = TRUE]
      /\ Judge(key[s], "accepted", FALSE)
      /\ UNCHANGED <<requestVars, key, value, latest, holder>> /\ UNCHANGED rejected
      /\ UNCHANGED <<refusalVars, seen, surface>> /\ Overlap(s)
  BY DEF BuildAccepted, refusalVars
<1>3. /\ changed' \in [Ops -> BOOLEAN] => TaskTypes'
      /\ LockTypes' /\ RequestTypes' /\ verdict' \in [Keys -> [Consumers -> Verdicts]]
      /\ Locked' /\ Judged'
  <2>1. "accepted" \in Verdicts \ {"untested"} /\ FALSE \in BOOLEAN
    BY DEF Verdicts
  <2> QED BY <1>2, <2>1, BuildFacts
<1>4. /\ served \in Instances /\ accepted \in Instances /\ cache \in Instances
      /\ forbidden \in [Keys -> [Consumers -> BOOLEAN]]
  BY DEF IInv, TypeOK, ConsumerTypes, SurfaceTypes
<1>5. TypeOK'
  <2>1. TaskTypes'
    BY <1>2, <1>3 DEF IInv, TypeOK, TaskTypes
  <2>2. served' \in Instances /\ accepted' \in Instances
    BY <1>1, <1>4 DEF Instances
  <2>3. cache' \in Instances /\ forbidden' \in [Keys -> [Consumers -> BOOLEAN]]
    <3>1. CASE UNCHANGED cache /\ forbidden' = [forbidden EXCEPT ![k][c] = TRUE]
      BY <1>4, <3>1
    <3>2. CASE /\ cache' = [cache EXCEPT ![k][c] = v]
               /\ forbidden' = [forbidden EXCEPT ![k][c] = FALSE]
      BY <1>4, <3>2 DEF Instances
    <3> QED BY <1>1, <3>1, <3>2 DEF Remember
  <2>4. SurfaceTypes'
    BY <1>2, <2>3 DEF IInv, TypeOK, SurfaceTypes, Overlap
  <2> QED BY <1>2, <1>3, <2>1, <2>2, <2>4, SameTypes DEF IInv, TypeOK, ConsumerTypes
<1>6. Memory'
  BY <1>2, SameRefusals DEF IInv
<1>7. AcceptedIsServed'
  BY <1>1, <1>4 DEF IInv, AcceptedIsServed, Instances
<1>8. CitingForbidden'
  <2>1. \A l \in Keys, d \in Consumers :
          served'[l][d] = IF l = k /\ d = c THEN v ELSE served[l][d]
    BY <1>1, <1>4 DEF Instances
  <2>2. CASE UNCHANGED cache /\ forbidden' = [forbidden EXCEPT ![k][c] = TRUE]
    <3>1. \A l \in Keys, d \in Consumers :
            forbidden'[l][d] = IF l = k /\ d = c THEN TRUE ELSE forbidden[l][d]
      BY <1>4, <2>2
    <3>2. ASSUME NEW l \in Keys, NEW d \in Consumers
          PROVE  served'[l][d] \in Citing => forbidden'[l][d]
      <4>1. CASE l = k /\ d = c
        BY <3>1, <4>1
      <4>2. CASE ~(l = k /\ d = c)
        BY <2>1, <3>1, <4>2 DEF IInv, CitingForbidden
      <4> QED BY <4>1, <4>2
    <3>3. CacheNeverCites'
      BY <2>2 DEF IInv, CitingForbidden, CacheNeverCites
    <3> QED BY <3>2, <3>3 DEF CitingForbidden
  <2>3. CASE /\ v \notin Citing /\ cache' = [cache EXCEPT ![k][c] = v]
             /\ forbidden' = [forbidden EXCEPT ![k][c] = FALSE]
    <3>1. \A l \in Keys, d \in Consumers :
            /\ forbidden'[l][d] = IF l = k /\ d = c THEN FALSE ELSE forbidden[l][d]
            /\ cache'[l][d] = IF l = k /\ d = c THEN v ELSE cache[l][d]
      BY <1>4, <2>3 DEF Instances
    <3>2. ASSUME NEW l \in Keys, NEW d \in Consumers
          PROVE  /\ served'[l][d] \in Citing => forbidden'[l][d]
                 /\ cache'[l][d] \notin Citing
      <4>1. CASE l = k /\ d = c
        BY <2>1, <2>3, <3>1, <4>1
      <4>2. CASE ~(l = k /\ d = c)
        BY <2>1, <3>1, <4>2 DEF IInv, CitingForbidden, CacheNeverCites
      <4> QED BY <4>1, <4>2
    <3> QED BY <3>2 DEF CitingForbidden, CacheNeverCites
  <2> QED BY <1>1, <2>2, <2>3 DEF Remember
<1>9. ChangesPublished'
  <2>1. changed'[s] /\ ~(Quiet')
    BY <1>2 DEF IInv, TypeOK, TaskTypes, Quiet
  <2>2. ~overlapped' => \A o \in Ops : phase'[o] # "composed"
    BY <1>2 DEF IInv, TypeOK, TaskTypes, Overlap, Publishing
  <2> QED
    BY <1>2, <2>1, <2>2
       DEF IInv, TypeOK, TaskTypes, ChangesPublished, Publishing, Running,
       SurfaceFreshAlone, SurfaceFresh
<1> QED BY <1>3, <1>5, <1>6, <1>7, <1>8, <1>9 DEF IInv

LEMMA EndTestsIInv ==
  ASSUME IInv, NEW s \in Submits, EndTests(s)
  PROVE  IInv'
<1> USE NoneFacts
<1>1. PICK k \in Keys : k = key[s] /\ holder[k] = s /\ place[k] = Width + 1
  BY PlaceFacts DEF IInv, TypeOK, LockTypes, Locked, EndTests
<1>2. /\ phase[s] = "testing"
      /\ holder' = [holder EXCEPT ![k] = None]
      /\ place' = [place EXCEPT ![k] = 1]
      /\ stopped' = [stopped EXCEPT ![k] = FALSE]
      /\ UNCHANGED <<requestVars, latest, consumerVars, refusalVars, cacheVars, surfaceVars>>
  BY <1>1 DEF EndTests
<1>3. \/ /\ changed[s] /\ phase' = [phase EXCEPT ![s] = "publishing"]
         /\ UNCHANGED <<key, value, changed>>
      \/ ~changed[s] /\ End(s)
  BY DEF EndTests
<1>4. TypeOK'
  <2>1. TaskTypes'
    BY <1>2, <1>3 DEF IInv, TypeOK, TaskTypes, End, Phases
  <2>2. LockTypes'
    BY <1>2, PlaceFacts DEF IInv, TypeOK, LockTypes
  <2> QED BY <1>2, <2>1, <2>2, SameTypes DEF IInv, TypeOK
<1>5. Locked'
  <2>1. \A t \in Ops \ {s} : phase'[t] = phase[t] /\ key'[t] = key[t] /\ value'[t] = value[t]
    BY <1>3 DEF IInv, TypeOK, TaskTypes, End
  <2>2. phase'[s] \in {"publishing", "done"} /\ (phase'[s] # "done" => key'[s] = key[s])
    BY <1>3 DEF IInv, TypeOK, TaskTypes, End
  <2>3. \A t \in Submits \ {s} : phase[t] \in {"testing", "building"} => key[t] # k
    BY <1>1 DEF IInv, Locked
  <2>4. \A l \in Keys : l # k => holder'[l] = holder[l] /\ place'[l] = place[l]
    BY <1>2 DEF IInv, TypeOK, LockTypes
  <2> QED
    BY <1>2, <2>1, <2>2, <2>3, <2>4 DEF IInv, Locked, requestVars, refusalVars
<1>6. Memory' /\ AcceptedIsServed' /\ CitingForbidden'
  BY <1>2, SameRefusals, SameInstances DEF IInv, consumerVars
<1>7. Judged'
  <2> SUFFICES ASSUME NEW l \in Keys
               PROVE  /\ stopped'[l] => RefusedBefore(l, place[l])
                      /\ \A c \in 1 .. place'[l] - 1 :
                           verdict[l][c] = "untested" => RefusedBefore(l, c)
                      /\ l = k \/ place'[l] = place[l]
                      /\ holder'[l] = None => place'[l] = 1 /\ ~stopped'[l]
                      /\ holder'[l] = None => \A c \in Consumers :
                           verdict[l][c] = "untested" => RefusedBefore(l, c)
    BY <1>2 DEF IInv, TypeOK, LockTypes, Judged, VerdictsCoherent, RefusedBefore,
       consumerVars
  <2>1. CASE l = k
    <3>1. place'[l] = 1 /\ ~stopped'[l] /\ holder'[l] = None
      BY <1>2, <2>1 DEF IInv, TypeOK, LockTypes
    <3>2. \A c \in Consumers : c \in 1 .. place[k] - 1
      BY <1>1, SecretsAssumption DEF Consumers
    <3> QED BY <2>1, <3>1, <3>2 DEF IInv, Judged
  <2>2. CASE l # k
    <3>1. place'[l] = place[l] /\ stopped'[l] = stopped[l] /\ holder'[l] = holder[l]
      BY <1>2, <2>2 DEF IInv, TypeOK, LockTypes
    <3> QED BY <2>2, <3>1 DEF IInv, Judged, VerdictsCoherent, RefusedBefore
  <2> QED BY <2>1, <2>2
<1>8. ChangesPublished'
  <2>1. Shown' = Shown
    BY <1>2 DEF Shown, consumerVars, cacheVars
  <2> QED
    BY <1>2, <1>3, <2>1
       DEF IInv, TypeOK, TaskTypes, End, ChangesPublished, Publishing, Running,
       SurfaceFreshAlone, SurfaceFresh, Quiet, surfaceVars
<1> QED BY <1>4, <1>5, <1>6, <1>7, <1>8 DEF IInv

LEMMA ForgetIInv ==
  ASSUME IInv, NEW f \in Forgets, Forget(f)
  PROVE  IInv'
<1> USE NoneFacts
<1>1. PICK k \in Keys : key' = [key EXCEPT ![f] = k]
  BY DEF Forget
<1>2. phase[f] = "idle" /\ phase' = [phase EXCEPT ![f] = "waiting"]
  BY DEF IInv, Locked, Forget
<1>3. TypeOK'
  <2>1. TaskTypes'
    BY <1>1, <1>2 DEF IInv, Forget, TypeOK, TaskTypes, Phases
  <2>2. RequestTypes'
    BY DEF IInv, Forget, TypeOK, RequestTypes
  <2> QED BY <2>1, <2>2, SameTypes DEF IInv, Forget, TypeOK
<1>4. Locked'
  BY <1>1, <1>2 DEF IInv, Forget, TypeOK, TaskTypes, RequestTypes, Locked, refusalVars
<1>5. Memory' /\ AcceptedIsServed' /\ CitingForbidden' /\ Judged'
  BY SameRefusals, SameInstances, SameJudgements DEF IInv, Forget, consumerVars
<1>6. ChangesPublished'
  <2>1. Shown' = Shown
    BY DEF Forget, Shown, consumerVars, cacheVars
  <2>2. ~changed[f]
    BY <1>2 DEF IInv, ChangesPublished, Publishing
  <2> QED
    BY <1>2, <2>1, <2>2
       DEF IInv, TypeOK, TaskTypes, Forget, ChangesPublished, Publishing, Running,
       SurfaceFreshAlone, SurfaceFresh, Quiet, surfaceVars
<1> QED BY <1>3, <1>4, <1>5, <1>6 DEF IInv

LEMMA DiscardIInv ==
  ASSUME IInv, NEW f \in Forgets, Discard(f)
  PROVE  IInv'
<1> USE NoneFacts
<1>1. PICK k \in Keys : k = key[f] /\ phase[f] = "waiting"
  BY DEF IInv, Locked, Discard
<1>2. /\ holder[k] = None
      /\ served' = [served EXCEPT ![k] = Empty[k]]
      /\ accepted' = [accepted EXCEPT ![k] = Empty[k]]
      /\ verdict' = [verdict EXCEPT ![k] = [c \in Consumers |-> "none"]]
      /\ UNCHANGED <<requestVars, latest, holder, place, stopped, refusalVars,
                     cacheVars, seen, surface>>
  BY <1>1 DEF Discard
<1>3. \/ /\ changed' = [changed EXCEPT ![f] = TRUE]
         /\ phase' = [phase EXCEPT ![f] = "publishing"]
         /\ Overlap(f)
         /\ UNCHANGED <<key, value>>
      \/ served[k] = Empty[k] /\ End(f) /\ UNCHANGED overlapped
  BY <1>1 DEF Discard
<1>4. served \in Instances /\ accepted \in Instances
  BY DEF IInv, TypeOK, ConsumerTypes
<1>5. \A l \in Keys, c \in Consumers :
        /\ served'[l][c] = IF l = k THEN None ELSE served[l][c]
        /\ accepted'[l][c] = IF l = k THEN None ELSE accepted[l][c]
  BY <1>2, <1>4 DEF Instances, Empty
<1>6. TypeOK'
  <2>1. TaskTypes'
    BY <1>2, <1>3 DEF IInv, TypeOK, TaskTypes, End, Phases
  <2>2. served' \in Instances /\ accepted' \in Instances
    BY <1>2, <1>4 DEF Instances, Empty
  <2>3. verdict' \in [Keys -> [Consumers -> Verdicts]]
    BY <1>2 DEF IInv, TypeOK, ConsumerTypes, Verdicts
  <2>4. SurfaceTypes'
    BY <1>2, <1>3 DEF IInv, TypeOK, SurfaceTypes, Overlap, cacheVars
  <2> QED BY <1>2, <2>1, <2>2, <2>3, <2>4, SameTypes DEF IInv, TypeOK, ConsumerTypes
<1>7. Locked'
  BY <1>1, <1>2, <1>3
     DEF IInv, TypeOK, TaskTypes, Locked, End, requestVars, refusalVars
<1>8. Memory'
  BY <1>2, SameRefusals DEF IInv
<1>9. AcceptedIsServed'
  BY <1>5 DEF IInv, AcceptedIsServed
<1>10. CitingForbidden'
  BY <1>2, <1>5 DEF IInv, CitingForbidden, CacheNeverCites, cacheVars
<1>11. Judged'
  <2>1. place[k] = 1 /\ ~stopped[k]
    BY <1>2 DEF IInv, Judged
  <2>2. \A l \in Keys, c \in Consumers :
          verdict'[l][c] = IF l = k THEN "none" ELSE verdict[l][c]
    BY <1>2 DEF IInv, TypeOK, ConsumerTypes
  <2>3. \A l \in Keys : l # k => verdict'[l] = verdict[l]
    BY <1>2 DEF IInv, TypeOK, ConsumerTypes
  <2> SUFFICES ASSUME NEW l \in Keys
               PROVE  /\ stopped[l] => RefusedBefore(l, place[l])'
                      /\ \A c \in 1 .. place[l] - 1 :
                           verdict'[l][c] = "untested" => RefusedBefore(l, c)'
                      /\ holder[l] = None => place[l] = 1 /\ ~stopped[l]
                      /\ holder[l] = None => \A c \in Consumers :
                           verdict'[l][c] = "untested" => RefusedBefore(l, c)'
    BY <1>2 DEF Judged, VerdictsCoherent, RefusedBefore
  <2>4. CASE l = k
    BY <2>1, <2>2, <2>4
  <2>5. CASE l # k
    BY <1>2, <2>3, <2>5 DEF IInv, Judged, VerdictsCoherent, RefusedBefore
  <2> QED BY <2>4, <2>5
<1>12. ChangesPublished'
  <2>1. CASE /\ changed' = [changed EXCEPT ![f] = TRUE] /\ Overlap(f)
             /\ phase' = [phase EXCEPT ![f] = "publishing"]
    <3>1. changed'[f] /\ ~(Quiet')
      BY <2>1 DEF IInv, TypeOK, TaskTypes, Quiet
    <3>2. ~overlapped' => \A o \in Ops : phase'[o] # "composed"
      BY <2>1 DEF IInv, TypeOK, TaskTypes, Overlap, Publishing
    <3> QED
      BY <1>1, <2>1, <3>1, <3>2
         DEF IInv, TypeOK, TaskTypes, ChangesPublished, Publishing, Running,
         SurfaceFreshAlone, SurfaceFresh
  <2>2. CASE served[k] = Empty[k] /\ End(f) /\ UNCHANGED overlapped
    <3>1. UNCHANGED served
      BY <1>2, <1>4, <2>2 DEF Instances
    <3>2. Shown' = Shown
      BY <1>2, <3>1 DEF Shown, cacheVars
    <3>3. ~changed[f]
      BY <1>1 DEF IInv, ChangesPublished, Publishing
    <3> QED
      BY <1>1, <1>2, <2>2, <3>2, <3>3
         DEF IInv, TypeOK, TaskTypes, End, ChangesPublished, Publishing, Running,
         SurfaceFreshAlone, SurfaceFresh, Quiet
  <2> QED BY <1>3, <2>1, <2>2
<1> QED BY <1>6, <1>7, <1>8, <1>9, <1>10, <1>11, <1>12 DEF IInv

LEMMA CollectIInv ==
  ASSUME IInv, NEW o \in Ops, Collect(o)
  PROVE  IInv'
<1> USE NoneFacts
<1>1. Shown \in Instances
  BY DEF IInv, TypeOK, ConsumerTypes, SurfaceTypes, Instances, Shown
<1>2. TypeOK'
  <2>1. TaskTypes'
    BY DEF IInv, Collect, TypeOK, TaskTypes, Phases
  <2>2. SurfaceTypes'
    BY <1>1 DEF IInv, Collect, TypeOK, SurfaceTypes, cacheVars
  <2> QED BY <2>1, <2>2, SameTypes DEF IInv, Collect, TypeOK
<1>3. Locked'
  BY DEF IInv, Collect, TypeOK, TaskTypes, Locked, requestVars, refusalVars
<1>4. Memory' /\ AcceptedIsServed' /\ CitingForbidden' /\ Judged'
  BY SameRefusals, SameInstances, SameJudgements DEF IInv, Collect, consumerVars
<1>5. ChangesPublished'
  <2>1. Shown' = Shown
    BY DEF Collect, Shown, consumerVars, cacheVars
  <2> QED
    BY <2>1
       DEF IInv, TypeOK, TaskTypes, SurfaceTypes, Collect, ChangesPublished, Publishing,
       Running, SurfaceFreshAlone, SurfaceFresh, Quiet
<1> QED BY <1>2, <1>3, <1>4, <1>5 DEF IInv

LEMMA PublishIInv ==
  ASSUME IInv, NEW o \in Ops, Publish(o)
  PROVE  IInv'
<1> USE NoneFacts
<1>1. TypeOK'
  <2>1. TaskTypes'
    BY DEF IInv, Publish, End, TypeOK, TaskTypes, Phases
  <2>2. SurfaceTypes'
    BY DEF IInv, Publish, TypeOK, SurfaceTypes, cacheVars, Instances, Empty
  <2> QED BY <2>1, <2>2, SameTypes DEF IInv, Publish, TypeOK
<1>2. Locked'
  BY DEF IInv, Publish, End, TypeOK, TaskTypes, Locked, requestVars, refusalVars
<1>3. Memory' /\ AcceptedIsServed' /\ CitingForbidden' /\ Judged'
  BY SameRefusals, SameInstances, SameJudgements DEF IInv, Publish, consumerVars
<1>4. ChangesPublished'
  <2>1. Shown' = Shown
    BY DEF Publish, Shown, consumerVars, cacheVars
  <2> QED
    BY <2>1
       DEF IInv, TypeOK, TaskTypes, SurfaceTypes, Publish, End, ChangesPublished,
       Publishing, Running, SurfaceFreshAlone, SurfaceFresh, Quiet
<1> QED BY <1>1, <1>2, <1>3, <1>4 DEF IInv

LEMMA AnswerIInv ==
  ASSUME IInv, NEW o \in Ops, Answer(o)
  PROVE  IInv'
<1>1. TypeOK'
  <2>1. TaskTypes' /\ RequestTypes'
    BY DEF IInv, Answer, TypeOK, TaskTypes, RequestTypes, taskVars
  <2> QED BY <2>1, SameTypes DEF IInv, Answer, TypeOK, taskVars
<1>2. Locked'
  BY DEF IInv, Answer, TypeOK, RequestTypes, Locked, taskVars, refusalVars
<1>3. Memory' /\ AcceptedIsServed' /\ CitingForbidden' /\ Judged'
  BY SameRefusals, SameInstances, SameJudgements DEF IInv, Answer, consumerVars, taskVars
<1>4. ChangesPublished'
  BY SameChanges DEF IInv, Answer, taskVars, consumerVars, cacheVars
<1> QED BY <1>1, <1>2, <1>3, <1>4 DEF IInv

LEMMA LeaveIInv ==
  ASSUME IInv, NEW o \in Ops, Leave(o)
  PROVE  IInv'
<1> USE NoneFacts
<1>1. CASE UNCHANGED <<taskVars, seen, overlapped>>
  <2>1. TaskTypes' /\ RequestTypes'
    BY <1>1 DEF IInv, Leave, TypeOK, TaskTypes, RequestTypes, taskVars
  <2>2. TypeOK'
    BY <1>1, <2>1, SameTypes DEF IInv, Leave, TypeOK, taskVars, surfaceVars
  <2>3. Locked'
    BY <1>1 DEF IInv, Leave, TypeOK, RequestTypes, Locked, taskVars, refusalVars
  <2>4. Memory' /\ AcceptedIsServed' /\ CitingForbidden' /\ Judged'
    BY <1>1, SameRefusals, SameInstances, SameJudgements
       DEF IInv, Leave, consumerVars, taskVars
  <2>5. ChangesPublished'
    BY <1>1, SameChanges DEF IInv, Leave, taskVars, consumerVars, cacheVars, surfaceVars
  <2> QED BY <2>2, <2>3, <2>4, <2>5 DEF IInv
<1>2. CASE /\ o \in Forgets /\ phase[o] # "done" /\ End(o)
           /\ seen' = [seen EXCEPT ![o] = Empty]
           /\ overlapped' = (overlapped \/ Publishing(o))
           /\ UNCHANGED <<latest, holder, place, stopped>>
  <2>1. TaskTypes' /\ RequestTypes'
    BY <1>2 DEF IInv, Leave, End, TypeOK, TaskTypes, RequestTypes, Phases
  <2>2. SurfaceTypes'
    BY <1>2 DEF IInv, Leave, TypeOK, SurfaceTypes, cacheVars, Instances, Empty
  <2>3. TypeOK'
    BY <1>2, <2>1, <2>2, SameTypes DEF IInv, Leave, TypeOK
  <2>4. Locked'
    BY <1>2 DEF IInv, Leave, End, TypeOK, TaskTypes, RequestTypes, Locked, refusalVars
  <2>5. Memory' /\ AcceptedIsServed' /\ CitingForbidden' /\ Judged'
    BY <1>2, SameRefusals, SameInstances, SameJudgements DEF IInv, Leave, consumerVars
  <2>6. ChangesPublished'
    <3>1. Shown' = Shown
      BY DEF Leave, Shown, consumerVars, cacheVars
    <3>2. ~overlapped' => ~changed[o]
      BY <1>2 DEF IInv, ChangesPublished
    <3> QED
      BY <1>2, <3>1, <3>2
         DEF IInv, TypeOK, TaskTypes, SurfaceTypes, Leave, End, ChangesPublished,
         Publishing, Running, SurfaceFreshAlone, SurfaceFresh, Quiet
  <2> QED BY <2>3, <2>4, <2>5, <2>6 DEF IInv
<1> QED BY <1>1, <1>2 DEF Leave

LEMMA ListToolsIInv ==
  ASSUME IInv, NEW k \in Keys, NEW c \in Consumers, ListTools(k, c)
  PROVE  IInv'
<1> USE NoneFacts
<1>1. served \in Instances /\ cache \in Instances
  BY DEF IInv, TypeOK, ConsumerTypes, SurfaceTypes
<1>2. /\ UNCHANGED <<requestVars, taskVars, consumerVars, refusalVars, forbidden, surfaceVars>>
      /\ served[k][c] # None /\ ~forbidden[k][c]
      /\ cache' = [cache EXCEPT ![k][c] = served[k][c]]
  BY DEF ListTools
<1>3. \A l \in Keys, d \in Consumers :
        cache'[l][d] = IF l = k /\ d = c THEN served[k][c] ELSE cache[l][d]
  BY <1>1, <1>2 DEF Instances
<1>4. TypeOK'
  <2>1. TaskTypes'
    BY <1>2 DEF IInv, TypeOK, TaskTypes, taskVars
  <2>2. cache' \in Instances
    BY <1>1, <1>2 DEF Instances
  <2>3. SurfaceTypes'
    BY <1>2, <2>2 DEF IInv, TypeOK, SurfaceTypes, surfaceVars
  <2> QED BY <1>2, <2>1, <2>3, SameTypes DEF IInv, TypeOK, taskVars
<1>5. Locked'
  BY <1>2 DEF IInv, Locked, requestVars, taskVars, refusalVars
<1>6. Memory' /\ Judged'
  BY <1>2, SameRefusals, SameJudgements DEF IInv, consumerVars, taskVars
<1>7. AcceptedIsServed'
  BY <1>2 DEF IInv, AcceptedIsServed, consumerVars
<1>8. CitingForbidden'
  <2>1. served[k][c] \notin Citing
    BY <1>2 DEF IInv, CitingForbidden
  <2> QED
    BY <1>2, <1>3, <2>1 DEF IInv, CitingForbidden, CacheNeverCites, consumerVars
<1>9. ChangesPublished'
  <2>1. Shown' = Shown
    BY <1>2, <1>3 DEF Shown, consumerVars
  <2> QED
    BY <1>2, <2>1 DEF IInv, ChangesPublished, Publishing, Running, SurfaceFreshAlone,
       SurfaceFresh, Quiet, taskVars, surfaceVars
<1> QED BY <1>4, <1>5, <1>6, <1>7, <1>8, <1>9 DEF IInv

LEMMA StutterIInv == IInv /\ UNCHANGED vars => IInv'
<1> SUFFICES ASSUME IInv, UNCHANGED vars PROVE IInv'
  OBVIOUS
<1>1. TaskTypes'
  BY DEF IInv, TypeOK, TaskTypes, vars, taskVars
<1>2. TypeOK'
  BY <1>1, SameTypes DEF IInv, TypeOK, vars, taskVars
<1>3. Locked'
  BY DEF IInv, Locked, vars, requestVars, taskVars, refusalVars
<1>4. Memory' /\ AcceptedIsServed' /\ CitingForbidden' /\ Judged'
  BY SameRefusals, SameInstances, SameJudgements DEF IInv, vars, consumerVars, taskVars
<1>5. ChangesPublished'
  BY SameChanges DEF IInv, vars, taskVars, consumerVars, cacheVars
<1> QED BY <1>2, <1>3, <1>4, <1>5 DEF IInv

-----------------------------------------------------------------------------
(* The inductive invariant of the deposits holds in every reachable state.  *)
THEOREM Invariance == Spec => []IInv
<1>1. ASSUME IInv, [Next]_vars PROVE IInv'
  <2>1. ASSUME NEW s \in Submits, Submit(s) \/ Test(s) \/ Build(s) PROVE IInv'
    BY <1>1, <2>1, SubmitIInv, StartTestsIInv, PassOverIInv, StartBuildIInv, EndTestsIInv,
       BuildAcceptedIInv, BuildRejectedIInv, BuildFailedIInv DEF Test, Build
  <2>2. ASSUME NEW f \in Forgets, Forget(f) \/ Discard(f) PROVE IInv'
    BY <1>1, <2>2, ForgetIInv, DiscardIInv
  <2>3. ASSUME NEW o \in Ops, Collect(o) \/ Publish(o) \/ Answer(o) \/ Leave(o) PROVE IInv'
    BY <1>1, <2>3, CollectIInv, PublishIInv, AnswerIInv, LeaveIInv
  <2>4. ASSUME NEW k \in Keys, NEW c \in Consumers, ListTools(k, c) PROVE IInv'
    BY <1>1, <2>4, ListToolsIInv
  <2>5. UNCHANGED vars => IInv'
    BY <1>1, StutterIInv
  <2> QED BY <1>1, <2>1, <2>2, <2>3, <2>4, <2>5 DEF Next
<1> QED BY <1>1, InitIInv, PTL DEF Spec

(* Two builds of one key never run at once, whoever leaves in the meantime. *)
THEOREM BuildsSerialised == Spec => []OneBuildPerKey
<1>1. IInv => OneBuildPerKey
  BY NoneFacts DEF IInv, Locked, OneBuildPerKey
<1> QED BY <1>1, Invariance, PTL

(* A refused value is refused again only after MaxRejected other refusals. *)
THEOREM RefusedOnlyOnce == Spec => []RefusedOnce
<1>1. IInv => RefusedOnce
  BY DEF IInv, Memory
<1> QED BY <1>1, Invariance, PTL

(* What excuses a deposit from a build is the value of the instance served. *)
THEOREM ExcusedByService == Spec => []AcceptedIsServed
<1>1. IInv => AcceptedIsServed
  BY DEF IInv
<1> QED BY <1>1, Invariance, PTL

(* The catalogue on disk never holds an instance that quotes its secret. *)
THEOREM CatalogNeverCites == Spec => []CacheNeverCites
<1>1. IInv => CacheNeverCites
  BY DEF IInv, CitingForbidden
<1> QED BY <1>1, Invariance, PTL

(* The verdicts published between two deposits are those of one deposit. *)
THEOREM VerdictsOfOneDeposit == Spec => []VerdictsCoherent
<1>1. IInv => VerdictsCoherent
  BY DEF IInv, Judged
<1> QED BY <1>1, Invariance, PTL

(* Once no publication is owed, and none was overlapped, the published      *)
(* surface is that of the instances in service.                             *)
THEOREM SurfaceCatchesUp == Spec => []SurfaceFreshAlone
<1>1. IInv => SurfaceFreshAlone
  BY DEF IInv, ChangesPublished
<1> QED BY <1>1, Invariance, PTL

(* Type correctness. *)
THEOREM TypeCorrect == Spec => []TypeOK
<1>1. IInv => TypeOK
  BY DEF IInv
<1> QED BY <1>1, Invariance, PTL

=============================================================================
