------------------------- MODULE SelfUpdate_proofs -------------------------
(***************************************************************************)
(* Safety of SelfUpdate for any number of requests, versions and launches.  *)
(* Alone says what the lock and the exit request exclude; Held, what the    *)
(* clone is while no handler has left its thread behind; Launched, what a   *)
(* launch leaves.                                                          *)
(***************************************************************************)
EXTENDS SelfUpdate, TLAPS

(* One application at a time, and none once an exit is requested. *)
Alone ==
  /\ \A a, b \in Applies : InApply(a) /\ InApply(b) => a = b
  /\ exit # NoCode => ~Applying

(* A thread that merges has a goal ahead of what it found, and published. *)
Goals ==
  /\ \A a \in Applies : base[a] <= remote
  /\ \A a \in Applies : thread[a] = "writing" => base[a] < goal[a] /\ goal[a] <= remote

(* The clone belongs to the request that waits for its thread.  It is ahead *)
(* of the process only when the exit is requested, or about to be, or when  *)
(* a merge could not be undone, which alone leaves its tree modified.       *)
Applied(a) == apply[a] = "running" /\ thread[a] = "over" /\ outcome[a] = "applied"

Ahead ==
  \/ exit = UPDATE_EXIT_CODE
  \/ strayed
  \/ ~NeedsRestart(running, head)
  \/ \E a \in Applies : Applied(a) /\ NeedsRestart(base[a], goal[a])

Held ==
  /\ \A a \in Applies : AtWork(a) => apply[a] = "running" /\ base[a] = head
  /\ \A a \in Applies : thread[a] = "writing" => ~torn
  /\ running <= head
  /\ torn /\ ~strayed => running = head
  /\ Ahead

(* A launch that fails leaves no thread; one that succeeds has served. *)
Launched ==
  /\ process # "dead" => running \in ran
  /\ process = "dead" => ~Applying /\ \A a \in Applies : ~AtWork(a)
  /\ NewcomerHintedUnlessCut

IInv ==
  /\ TypeOK
  /\ Alone
  /\ Goals
  /\ ~abandoned => Held
  /\ Launched

-----------------------------------------------------------------------------
LEMMA VersionFacts ==
  /\ 0 \in Versions
  /\ \A v \in Versions : v \in Nat /\ v <= MaxVersion
  /\ \A v \in Versions : \A w \in 0 .. v : w \in Versions
  /\ \A v \in Versions : v < MaxVersion => v + 1 \in Versions
  /\ Applies \subseteq Refreshers /\ Probers \subseteq Refreshers
BY UpdateAssumption DEF Versions, Refreshers

(* Two updates of MIAOU alone are one of MIAOU alone. *)
LEMMA RestartSplits ==
  ASSUME NEW u \in Nat, NEW v \in Nat, NEW w \in Nat, NeedsRestart(u, w)
  PROVE  NeedsRestart(u, v) \/ NeedsRestart(v, w)
<1>1. PICK x \in u + 1 .. w : x \notin MiaouOnly
  BY DEF NeedsRestart
<1>2. CASE x <= v
  <2>1. x \in u + 1 .. v
    BY <1>2
  <2> QED BY <1>1, <2>1 DEF NeedsRestart
<1>3. CASE ~(x <= v)
  <2>1. x \in v + 1 .. w
    BY <1>3
  <2> QED BY <1>1, <2>1 DEF NeedsRestart
<1> QED BY <1>2, <1>3

LEMMA InitIInv == Init => IInv
<1> SUFFICES ASSUME Init PROVE IInv
  OBVIOUS
<1>0. 0 \in Versions
  BY VersionFacts
<1>1. CloneTypes /\ ApplyTypes /\ ExitTypes
  <2>1. CloneTypes
    <3>1. remote = 0 /\ head = 0 /\ torn = FALSE /\ strayed = FALSE
      BY DEF Init
    <3>2. 0 \in 0 .. 0
      OBVIOUS
    <3>3. head \in 0 .. remote
      BY <3>1, <3>2
    <3> QED BY <1>0, <3>1, <3>3 DEF CloneTypes
  <2>2. ApplyTypes
    BY <1>0 DEF Init, ApplyTypes
  <2>3. ExitTypes
    BY DEF Init, ExitTypes
  <2> QED BY <2>1, <2>2, <2>3
<1>2. ProbeTypes
  BY <1>0 DEF Init, ProbeTypes, Statuses, UpToDate
<1>3. ProcessTypes
  <2>1. 1 \in 1 .. MaxLaunches
    BY UpdateAssumption
  <2> QED BY <1>0, <2>1 DEF Init, ProcessTypes
<1>4. Alone /\ Goals
  BY DEF Init, Alone, InApply, Applying, Goals
<1>5. Held
  <2>1. ~NeedsRestart(0, 0)
    BY DEF NeedsRestart
  <2> QED BY <2>1 DEF Init, Held, Ahead, AtWork
<1>6. Launched
  BY DEF Init, Launched, NewcomerHintedUnlessCut, NewcomerHinted
<1> QED BY <1>1, <1>2, <1>3, <1>4, <1>5, <1>6 DEF IInv, TypeOK

-----------------------------------------------------------------------------
(* What a step leaves alone. *)
LEMMA SameTypes ==
  ASSUME TypeOK
  PROVE  /\ UNCHANGED cloneVars => CloneTypes'
         /\ UNCHANGED applyVars => ApplyTypes'
         /\ UNCHANGED probeVars => ProbeTypes'
         /\ UNCHANGED <<exitVars, restart, calls, abandoned>> => ExitTypes'
         /\ UNCHANGED processVars => ProcessTypes'
BY DEF TypeOK, CloneTypes, ApplyTypes, ProbeTypes, ExitTypes, ProcessTypes,
   cloneVars, applyVars, probeVars, exitVars, processVars

LEMMA SameUpdates ==
  ASSUME IInv, UNCHANGED <<head, torn, strayed, applyVars, exit, processVars, abandoned>>,
         remote' >= remote, remote' \in Nat
  PROVE  /\ Alone' /\ Goals' /\ Launched'
         /\ ~abandoned' => Held'
<1>1. Alone' /\ Launched'
  BY DEF IInv, Alone, InApply, Applying, AtWork, Launched, NewcomerHintedUnlessCut,
     NewcomerHinted, applyVars, processVars
<1>2. \A a \in Applies : base[a] \in Nat /\ goal[a] \in Nat /\ remote \in Nat
  BY VersionFacts DEF IInv, TypeOK, ApplyTypes, CloneTypes
<1>3. Goals'
  BY <1>2 DEF IInv, Goals, applyVars
<1>4. ~abandoned' => Held'
  BY DEF IInv, Held, Ahead, Applied, AtWork, NeedsRestart, applyVars, processVars
<1> QED BY <1>1, <1>3, <1>4

-----------------------------------------------------------------------------
(* Steps that touch neither an application nor the process. *)
LEMMA CallIInv ==
  ASSUME IInv, NEW c \in Calls, BeginCall(c) \/ EndCall(c)
  PROVE  IInv'
<1>1. UNCHANGED <<cloneVars, applyVars, restart, probeVars, exitVars, processVars, abandoned>>
  BY DEF BeginCall, EndCall
<1>2. ExitTypes'
  BY <1>1 DEF IInv, TypeOK, ExitTypes, BeginCall, EndCall, exitVars
<1>3. remote' >= remote /\ remote' \in Nat
  BY <1>1, VersionFacts DEF IInv, TypeOK, CloneTypes, cloneVars
<1> QED
  BY <1>1, <1>2, <1>3, SameTypes, SameUpdates DEF IInv, TypeOK, cloneVars, exitVars

LEMMA PushIInv ==
  ASSUME IInv, Push
  PROVE  IInv'
<1>1. remote' = remote + 1 /\ remote < MaxVersion /\ UNCHANGED <<head, torn, strayed>>
  BY DEF Push
<1>2. remote \in Versions /\ head \in 0 .. remote
  BY DEF IInv, TypeOK, CloneTypes
<1>3. remote' \in Versions /\ remote' \in Nat /\ remote' >= remote /\ head \in 0 .. remote'
  BY <1>1, <1>2, VersionFacts
<1>4. CloneTypes'
  BY <1>1, <1>3 DEF IInv, TypeOK, CloneTypes
<1> QED BY <1>1, <1>3, <1>4, SameTypes, SameUpdates DEF IInv, TypeOK, Push, exitVars

LEMMA SignalIInv ==
  ASSUME IInv, Signal
  PROVE  IInv'
<1>1. ExitTypes'
  BY DEF IInv, TypeOK, ExitTypes, Signal
<1>2. remote' >= remote /\ remote' \in Nat
  BY VersionFacts DEF IInv, TypeOK, CloneTypes, cloneVars, Signal
<1> QED BY <1>1, <1>2, SameTypes, SameUpdates DEF IInv, TypeOK, Signal, cloneVars

LEMMA ProbeIInv ==
  ASSUME IInv, NEW p \in Refreshers, AskProbe(p) \/ Adopt(p) \/ StartProbe(p) \/ EndProbe(p)
  PROVE  IInv'
<1>1. UNCHANGED <<cloneVars, applyVars, restart, calls, exitVars, processVars, abandoned>>
  BY DEF AskProbe, Adopt, StartProbe, EndProbe
<1>2. head \in Versions /\ remote \in Versions
  BY VersionFacts DEF IInv, TypeOK, CloneTypes
<1>3. ProbeTypes'
  <2>1. CASE AskProbe(p) \/ Adopt(p)
    BY <2>1 DEF IInv, TypeOK, ProbeTypes, AskProbe, Asks, Adopt
  <2>2. CASE StartProbe(p)
    BY <1>2, <2>2 DEF IInv, TypeOK, ProbeTypes, StartProbe
  <2>3. CASE EndProbe(p)
    BY <1>2, <2>3, VersionFacts DEF IInv, TypeOK, ProbeTypes, EndProbe, Statuses
  <2> QED BY <2>1, <2>2, <2>3
<1>4. remote' >= remote /\ remote' \in Nat
  BY <1>1, <1>2, VersionFacts DEF cloneVars
<1> QED
  BY <1>1, <1>3, <1>4, SameTypes, SameUpdates DEF IInv, TypeOK, cloneVars, exitVars

-----------------------------------------------------------------------------
(* The application. *)
LEMMA ApplyIInv ==
  ASSUME IInv, NEW a \in Applies, Apply(a)
  PROVE  IInv'
<1>1. /\ apply[a] = "idle" /\ process = "serving"
      /\ UNCHANGED <<cloneVars, outcome, restart, probeVars, calls, exitVars, processVars,
                     abandoned>>
  BY DEF Apply
<1>2. head \in Nat /\ remote \in Nat /\ head <= remote /\ head \in Versions
  BY VersionFacts DEF IInv, TypeOK, CloneTypes
<1>3. CASE /\ apply' = [apply EXCEPT ![a] = "refused"] /\ UNCHANGED <<thread, goal, base>>
  <2>1. ApplyTypes'
    BY <1>1, <1>3 DEF IInv, TypeOK, ApplyTypes
  <2>2. \A b \in Applies : /\ InApply(b)' <=> InApply(b)
                           /\ Applied(b)' <=> Applied(b)
                           /\ apply'[b] = "running" <=> apply[b] = "running"
    BY <1>1, <1>3 DEF IInv, TypeOK, ApplyTypes, InApply, Applied
  <2>3. Alone' /\ Launched'
    BY <1>1, <1>3, <2>2
       DEF IInv, Alone, Applying, AtWork, Launched, NewcomerHintedUnlessCut, NewcomerHinted,
       cloneVars, exitVars, processVars
  <2>4. Goals'
    BY <1>1, <1>3 DEF IInv, Goals, cloneVars
  <2>5. ~abandoned' => Held'
    BY <1>1, <1>3, <2>2
       DEF IInv, Held, Ahead, AtWork, NeedsRestart, cloneVars, exitVars, processVars
  <2> QED BY <1>1, <2>1, <2>3, <2>4, <2>5, SameTypes DEF IInv, TypeOK
<1>4. CASE /\ ~Applying /\ exit = NoCode
           /\ apply' = [apply EXCEPT ![a] = "running"]
           /\ thread' = [thread EXCEPT ![a] = "checking"]
           /\ \E v \in Versions \ {0} : goal' = [goal EXCEPT ![a] = v]
           /\ base' = [base EXCEPT ![a] = head]
  <2>1. ApplyTypes'
    BY <1>1, <1>2, <1>4 DEF IInv, TypeOK, ApplyTypes
  <2>2. /\ apply'[a] = "running" /\ thread'[a] = "checking" /\ base'[a] = head
        /\ \A b \in Applies \ {a} : /\ apply'[b] = apply[b] /\ thread'[b] = thread[b]
                                   /\ base'[b] = base[b] /\ goal'[b] = goal[b]
    BY <1>4 DEF IInv, TypeOK, ApplyTypes
  <2>3. Alone'
    BY <1>1, <1>4, <2>2 DEF IInv, Alone, Applying, InApply, exitVars
  <2>4. Goals'
    BY <1>1, <1>2, <2>2 DEF IInv, Goals, cloneVars
  <2>5. ~abandoned' => Held'
    <3>1. \A b \in Applies : ~Applied(b)
      BY <1>4 DEF Applied, Applying, InApply
    <3> QED
      BY <1>1, <2>2, <3>1
         DEF IInv, Held, Ahead, AtWork, NeedsRestart, cloneVars, exitVars, processVars
  <2>6. Launched'
    BY <1>1 DEF IInv, Launched, NewcomerHintedUnlessCut, NewcomerHinted, cloneVars,
       processVars
  <2> QED BY <1>1, <2>1, <2>3, <2>4, <2>5, <2>6, SameTypes DEF IInv, TypeOK
<1> QED BY <1>3, <1>4 DEF Apply

LEMMA CheckIInv ==
  ASSUME IInv, NEW a \in Applies, Check(a)
  PROVE  IInv'
<1>1. /\ thread[a] = "checking"
      /\ UNCHANGED <<cloneVars, apply, goal, base, restart, probeVars, calls, exitVars,
                     processVars, abandoned>>
  BY DEF Check
<1>2. \/ /\ thread' = [thread EXCEPT ![a] = "over"]
         /\ outcome' = [outcome EXCEPT ![a] = "refused"]
      \/ /\ ~torn /\ base[a] < goal[a] /\ goal[a] <= remote
         /\ thread' = [thread EXCEPT ![a] = "writing"]
         /\ UNCHANGED outcome
  BY DEF Check, ThreadReturns
<1>3. ApplyTypes'
  BY <1>1, <1>2 DEF IInv, TypeOK, ApplyTypes
<1>4. /\ thread'[a] \in {"writing", "over"} /\ ~Applied(a)'
      /\ thread'[a] = "writing" => ~torn
      /\ \A b \in Applies \ {a} : thread'[b] = thread[b] /\ outcome'[b] = outcome[b]
      /\ \A b \in Applies : Applied(b)' <=> Applied(b)
  BY <1>1, <1>2 DEF IInv, TypeOK, ApplyTypes, Applied
<1>5. Alone'
  BY <1>1 DEF IInv, Alone, Applying, InApply, exitVars
<1>6. Goals'
  BY <1>1, <1>2, <1>4 DEF IInv, TypeOK, ApplyTypes, Goals, cloneVars
<1>7. ~abandoned' => Held'
  <2>1. UNCHANGED <<head, torn, strayed, apply, goal, base, exit, running>>
    BY <1>1 DEF cloneVars, exitVars, processVars
  <2> SUFFICES ASSUME ~abandoned PROVE Held'
    BY <1>1
  <2>2. Held
    BY <1>1 DEF IInv
  <2>3. \A b \in Applies : AtWork(b)' => AtWork(b)
    BY <1>1, <1>4 DEF AtWork
  <2>4. \A b \in Applies : thread'[b] = "writing" => ~torn'
    BY <1>4, <2>1, <2>2 DEF Held
  <2>5. Ahead'
    BY <1>4, <2>1, <2>2 DEF Held, Ahead, NeedsRestart
  <2> QED BY <2>1, <2>2, <2>3, <2>4, <2>5 DEF Held
<1>8. Launched'
  BY <1>1, <1>4
     DEF IInv, Launched, AtWork, Applying, InApply, NewcomerHintedUnlessCut, NewcomerHinted,
     cloneVars, processVars
<1> QED BY <1>1, <1>3, <1>5, <1>6, <1>7, <1>8, SameTypes DEF IInv, TypeOK

(* Until a handler leaves, a merge moves HEAD from what the thread found to  *)
(* its goal, or puts it back, or strays on the way, and never backwards.    *)
LEMMA MergeMoves ==
  ASSUME IInv, NEW a \in Applies, Merge(a)
  PROVE  /\ head' \in Versions /\ head' <= remote
         /\ ~abandoned =>
              \/ /\ head' = goal[a] /\ goal[a] > head /\ outcome'[a] = "applied"
                 /\ ~torn' /\ strayed' = strayed
              \/ /\ head' = head /\ outcome'[a] = "refused"
                 /\ ~torn' /\ strayed' = strayed
              \/ head' >= head /\ strayed'
<1>1. /\ base[a] < goal[a] /\ goal[a] <= remote /\ base[a] <= remote
      /\ ~abandoned => base[a] = head /\ ~torn
  BY DEF IInv, Goals, Held, AtWork, Merge
<1>2. /\ base[a] \in Versions /\ goal[a] \in Versions /\ head \in Versions /\ head <= remote
      /\ base[a] \in Nat /\ goal[a] \in Nat /\ head \in Nat /\ remote \in Nat
  BY VersionFacts DEF IInv, TypeOK, ApplyTypes, CloneTypes
<1>3. CASE /\ ThreadReturns(a, "applied") /\ UNCHANGED <<torn, strayed>>
           /\ head' = IF head < goal[a] THEN goal[a] ELSE head
  <2>1. outcome'[a] = "applied"
    BY <1>3 DEF ThreadReturns, IInv, TypeOK, ApplyTypes
  <2>2. /\ head' \in Versions /\ head' <= remote
        /\ ~abandoned => head' = goal[a] /\ goal[a] > head
    BY <1>1, <1>2, <1>3
  <2>3. strayed' = strayed /\ (~abandoned => ~torn')
    BY <1>1, <1>3
  <2> QED BY <2>1, <2>2, <2>3
<1>4. CASE ThreadReturns(a, "refused") /\ head' = base[a] /\ torn' = FALSE /\ UNCHANGED strayed
  <2>1. outcome'[a] = "refused"
    BY <1>4 DEF ThreadReturns, IInv, TypeOK, ApplyTypes
  <2> QED BY <1>1, <1>2, <1>4, <2>1
<1>5. CASE LeftAsItIs(a)
  <2>1. strayed'
    BY <1>5 DEF LeftAsItIs
  <2>2. /\ head' \in Versions /\ head' <= remote
        /\ ~abandoned => head' >= head
    BY <1>1, <1>2, <1>5 DEF LeftAsItIs
  <2> QED BY <2>1, <2>2
<1> QED BY <1>3, <1>4, <1>5 DEF Merge

LEMMA MergeIInv ==
  ASSUME IInv, NEW a \in Applies, Merge(a)
  PROVE  IInv'
<1>1. /\ thread[a] = "writing" /\ thread' = [thread EXCEPT ![a] = "over"]
      /\ UNCHANGED <<remote, apply, goal, base, restart, probeVars, calls, exitVars,
                     processVars, abandoned>>
      /\ torn' \in BOOLEAN /\ strayed' \in BOOLEAN
      /\ outcome' = [outcome EXCEPT ![a] = "applied"] \/
           outcome' = [outcome EXCEPT ![a] = "refused"]
  BY DEF Merge, LeftAsItIs, ThreadReturns, IInv, TypeOK, CloneTypes
<1>2. /\ head' \in Versions /\ head' <= remote /\ head' \in Nat
      /\ ~abandoned =>
           \/ /\ head' = goal[a] /\ goal[a] > head /\ outcome'[a] = "applied"
              /\ ~torn' /\ strayed' = strayed
           \/ /\ head' = head /\ outcome'[a] = "refused"
              /\ ~torn' /\ strayed' = strayed
           \/ head' >= head /\ strayed'
  BY MergeMoves, VersionFacts
<1>3. TypeOK'
  <2>1. CloneTypes'
    BY <1>1, <1>2, VersionFacts DEF IInv, TypeOK, CloneTypes
  <2>2. ApplyTypes'
    BY <1>1 DEF IInv, TypeOK, ApplyTypes
  <2> QED BY <1>1, <2>1, <2>2, SameTypes DEF IInv, TypeOK
<1>4. /\ thread'[a] = "over"
      /\ \A b \in Applies \ {a} : thread'[b] = thread[b] /\ outcome'[b] = outcome[b]
  BY <1>1 DEF IInv, TypeOK, ApplyTypes
<1>5. Alone' /\ Goals'
  BY <1>1, <1>4 DEF IInv, Alone, Applying, InApply, Goals, exitVars
<1>6. process # "dead"
  BY <1>1 DEF IInv, Launched, AtWork
<1>7. Launched'
  BY <1>1, <1>6 DEF IInv, Launched, NewcomerHintedUnlessCut, NewcomerHinted, processVars
<1>8. ~abandoned' => Held'
  <2> SUFFICES ASSUME ~abandoned PROVE Held'
    BY <1>1
  <2>1. Held /\ apply[a] = "running" /\ base[a] = head
    BY <1>1 DEF IInv, Held, AtWork
  <2>2. \A b \in Applies \ {a} : ~AtWork(b) /\ ~InApply(b)
    BY <2>1 DEF IInv, Alone, Held, InApply
  <2>3. /\ running \in Nat /\ head \in Nat /\ goal[a] \in Nat
        /\ running' = running /\ exit' = exit /\ apply' = apply /\ goal' = goal
        /\ base' = base
    BY <1>1, VersionFacts DEF IInv, TypeOK, CloneTypes, ApplyTypes, ProcessTypes, exitVars,
       processVars
  <2>4. strayed \/ (exit # UPDATE_EXIT_CODE /\ ~NeedsRestart(running, head))
    <3>1. exit = NoCode
      BY <2>1 DEF IInv, Alone, Applying, InApply
    <3>2. \A b \in Applies : ~Applied(b)
      BY <1>1, <2>2 DEF Applied, InApply
    <3> QED BY <2>1, <3>1, <3>2 DEF Held, Ahead, NoCode, UPDATE_EXIT_CODE
  <2>5. \A b \in Applies : ~AtWork(b)' /\ thread'[b] # "writing"
    BY <1>4, <2>2 DEF AtWork
  <2>6. running' <= head'
    BY <1>2, <2>1, <2>3 DEF Held
  <2>7. CASE strayed'
    BY <2>5, <2>6, <2>7 DEF Held, Ahead
  <2>8. CASE /\ head' = goal[a] /\ goal[a] > head /\ outcome'[a] = "applied"
             /\ ~torn' /\ ~strayed
    <3>1. NeedsRestart(running, goal[a]) => NeedsRestart(base[a], goal[a])
      BY <2>1, <2>3, <2>4, <2>8, RestartSplits
    <3>2. Applied(a)'
      BY <1>4, <2>1, <2>3, <2>8 DEF Applied
    <3>3. Ahead'
      BY <2>3, <2>8, <3>1, <3>2 DEF Ahead, NeedsRestart
    <3> QED BY <2>5, <2>6, <2>8, <3>3 DEF Held
  <2>9. CASE head' = head /\ ~torn' /\ ~strayed
    <3>1. Ahead'
      BY <2>3, <2>4, <2>9 DEF Ahead, NeedsRestart
    <3> QED BY <2>5, <2>6, <2>9, <3>1 DEF Held
  <2> QED BY <1>1, <1>2, <2>7, <2>8, <2>9
<1> QED BY <1>3, <1>5, <1>7, <1>8 DEF IInv

LEMMA ResumeIInv ==
  ASSUME IInv, NEW a \in Applies, Resume(a)
  PROVE  IInv'
<1>1. /\ apply[a] = "running" /\ thread[a] = "over"
      /\ UNCHANGED <<cloneVars, thread, outcome, restart, probed, published, calls,
                     signalled, processVars, abandoned>>
  BY DEF Resume
<1>2. /\ exit = NoCode
      /\ \A b \in Applies \ {a} : ~InApply(b) /\ ~Applied(b)
      /\ ~InApply(a) => ~Applied(a)
  BY <1>1 DEF IInv, Alone, Applying, InApply, Applied
<1>3. /\ base[a] \in Nat /\ goal[a] \in Nat /\ head \in Nat /\ remote \in Nat
      /\ 0 \in Versions /\ a \in Refreshers
  BY VersionFacts DEF IInv, TypeOK, CloneTypes, ApplyTypes
<1>4. \/ /\ outcome[a] = "refused"
         /\ apply' = [apply EXCEPT ![a] = "refused"]
         /\ goal' = [goal EXCEPT ![a] = 0] /\ base' = [base EXCEPT ![a] = 0]
         /\ UNCHANGED <<exit, refresh, adopted>>
      \/ /\ outcome[a] = "applied" /\ NeedsRestart(base[a], goal[a])
         /\ exit' = UPDATE_EXIT_CODE
         /\ apply' = [apply EXCEPT ![a] = "answered"]
         /\ UNCHANGED <<goal, base, refresh, adopted>>
      \/ /\ outcome[a] = "applied" /\ ~NeedsRestart(base[a], goal[a])
         /\ Asks(a)
         /\ apply' = [apply EXCEPT ![a] = "rereading"]
         /\ UNCHANGED <<goal, base, exit>>
  BY <1>2 DEF Resume, RequestExit
<1>5. /\ apply'[a] \in {"refused", "answered", "rereading"}
      /\ exit' # NoCode => apply'[a] = "answered"
      /\ \A b \in Applies \ {a} : /\ apply'[b] = apply[b] /\ goal'[b] = goal[b]
                                 /\ base'[b] = base[b]
      /\ base'[a] = base[a] \/ base'[a] = 0
  BY <1>2, <1>4 DEF IInv, TypeOK, ApplyTypes
<1>6. TypeOK'
  <2>1. ApplyTypes'
    BY <1>1, <1>3, <1>4 DEF IInv, TypeOK, ApplyTypes
  <2>2. ProbeTypes'
    BY <1>1, <1>3, <1>4 DEF IInv, TypeOK, ProbeTypes, Asks
  <2>3. ExitTypes'
    BY <1>1, <1>4 DEF IInv, TypeOK, ExitTypes
  <2> QED BY <1>1, <2>1, <2>2, <2>3, SameTypes DEF IInv, TypeOK
<1>7. Alone'
  BY <1>2, <1>5 DEF IInv, Alone, Applying, InApply
<1>8. Goals'
  BY <1>1, <1>3, <1>5 DEF IInv, Goals, cloneVars
<1>9. process # "dead"
  BY <1>1 DEF IInv, Launched, Applying, InApply
<1>10. Launched'
  BY <1>1, <1>9
     DEF IInv, Launched, NewcomerHintedUnlessCut, NewcomerHinted, cloneVars, processVars
<1>11. ~abandoned' => Held'
  <2> SUFFICES ASSUME ~abandoned PROVE Held'
    BY <1>1
  <2>1. Held
    BY DEF IInv
  <2>2. \A b \in Applies : AtWork(b)' => b # a /\ AtWork(b)
    BY <1>1 DEF AtWork
  <2>3. exit' = UPDATE_EXIT_CODE \/ strayed \/ ~NeedsRestart(running, head)
    <3>1. exit # UPDATE_EXIT_CODE
      BY <1>2 DEF NoCode, UPDATE_EXIT_CODE
    <3>2. CASE Applied(a) /\ NeedsRestart(base[a], goal[a])
      BY <1>4, <3>2 DEF Applied
    <3>3. CASE ~(Applied(a) /\ NeedsRestart(base[a], goal[a]))
      BY <1>2, <2>1, <3>1, <3>3 DEF Held, Ahead
    <3> QED BY <3>2, <3>3
  <2>4. Ahead'
    BY <1>1, <2>3 DEF Ahead, NeedsRestart, cloneVars, processVars
  <2> QED BY <1>1, <1>5, <2>1, <2>2, <2>4 DEF Held, cloneVars, processVars
<1> QED BY <1>6, <1>7, <1>8, <1>10, <1>11 DEF IInv

LEMMA RereadIInv ==
  ASSUME IInv, NEW a \in Applies, Reread(a)
  PROVE  IInv'
<1>1. /\ apply[a] = "rereading" /\ apply' = [apply EXCEPT ![a] = "answered"]
      /\ UNCHANGED <<cloneVars, thread, goal, base, outcome, restart, probeVars, calls,
                     exitVars, processVars, abandoned>>
  BY DEF Reread
<1>2. ApplyTypes'
  BY <1>1 DEF IInv, TypeOK, ApplyTypes
<1>3. \A b \in Applies : /\ InApply(b)' => InApply(b)
                         /\ apply[b] = "running" <=> apply'[b] = "running"
  BY <1>1 DEF IInv, TypeOK, ApplyTypes, InApply
<1>4. Alone' /\ Goals' /\ Launched'
  BY <1>1, <1>3 DEF IInv, Alone, Applying, Goals, Launched, AtWork,
     NewcomerHintedUnlessCut, NewcomerHinted, cloneVars, exitVars, processVars
<1>5. ~abandoned' => Held'
  BY <1>1, <1>3
     DEF IInv, Held, Ahead, Applied, AtWork, NeedsRestart, cloneVars, exitVars, processVars
<1> QED BY <1>1, <1>2, <1>4, <1>5, SameTypes DEF IInv, TypeOK

LEMMA CancelIInv ==
  ASSUME IInv, NEW a \in Applies, Cancel(a)
  PROVE  IInv'
<1>1. /\ InApply(a) /\ apply' = [apply EXCEPT ![a] = "gone"]
      /\ abandoned' = (abandoned \/ apply[a] = "running")
      /\ UNCHANGED <<cloneVars, thread, goal, base, outcome, restart, published, calls,
                     exitVars, processVars>>
  BY DEF Cancel
<1>2. TypeOK'
  <2>1. ApplyTypes'
    BY <1>1 DEF IInv, TypeOK, ApplyTypes
  <2>2. ProbeTypes'
    BY VersionFacts DEF IInv, TypeOK, ProbeTypes, Cancel
  <2>3. ExitTypes'
    BY <1>1 DEF IInv, TypeOK, ExitTypes, exitVars
  <2> QED BY <1>1, <2>1, <2>2, <2>3, SameTypes DEF IInv, TypeOK
<1>3. /\ apply'[a] = "gone"
      /\ \A b \in Applies \ {a} : apply'[b] = apply[b]
  BY <1>1 DEF IInv, TypeOK, ApplyTypes
<1>4. Alone' /\ Goals'
  BY <1>1, <1>3 DEF IInv, Alone, Applying, InApply, Goals, cloneVars, exitVars
<1>5. process # "dead"
  BY <1>1 DEF IInv, Launched, Applying
<1>6. Launched'
  BY <1>1, <1>5
     DEF IInv, Launched, NewcomerHintedUnlessCut, NewcomerHinted, cloneVars, processVars
<1>7. ~abandoned' => Held'
  BY <1>1, <1>3
     DEF IInv, Held, Ahead, Applied, AtWork, NeedsRestart, cloneVars, exitVars, processVars
<1> QED BY <1>2, <1>4, <1>6, <1>7 DEF IInv

-----------------------------------------------------------------------------
(* Restarts, and the process. *)
LEMMA RestartIInv ==
  ASSUME IInv, NEW r \in Restarts, AskRestart(r) \/ TakeRestart(r)
  PROVE  IInv'
<1>1. UNCHANGED <<cloneVars, applyVars, probeVars, calls, exitVars, processVars, abandoned>>
  BY DEF AskRestart, TakeRestart
<1>2. ExitTypes'
  BY <1>1 DEF IInv, TypeOK, ExitTypes, AskRestart, TakeRestart, exitVars
<1>3. remote' >= remote /\ remote' \in Nat
  BY <1>1, VersionFacts DEF IInv, TypeOK, CloneTypes, cloneVars
<1> QED
  BY <1>1, <1>2, <1>3, SameTypes, SameUpdates DEF IInv, TypeOK, cloneVars, exitVars

LEMMA ConcludeRestartIInv ==
  ASSUME IInv, NEW r \in Restarts, ConcludeRestart(r)
  PROVE  IInv'
<1>1. /\ UNCHANGED <<cloneVars, applyVars, probeVars, calls, signalled, processVars, abandoned>>
      /\ restart' = [restart EXCEPT ![r] = "done"]
      /\ \/ exit' = exit
         \/ exit = NoCode /\ ~Applying /\ exit' = RESTART_EXIT_CODE
  <2>1. UNCHANGED exit \/ (~Applying /\ RequestExit(RESTART_EXIT_CODE))
    BY DEF ConcludeRestart
  <2>2. RequestExit(RESTART_EXIT_CODE) =>
          exit' = exit \/ (exit = NoCode /\ exit' = RESTART_EXIT_CODE)
    BY DEF RequestExit
  <2> QED BY <2>1, <2>2 DEF ConcludeRestart
<1>2. TypeOK'
  <2>1. ExitTypes'
    BY <1>1 DEF IInv, TypeOK, ExitTypes
  <2> QED BY <1>1, <2>1, SameTypes DEF IInv, TypeOK
<1>3. Alone' /\ Goals' /\ Launched'
  BY <1>1 DEF IInv, Alone, Applying, InApply, AtWork, Goals, Launched,
     NewcomerHintedUnlessCut, NewcomerHinted, cloneVars, applyVars, processVars
<1>4. ~abandoned' => Held'
  <2>1. exit = UPDATE_EXIT_CODE => exit' = UPDATE_EXIT_CODE
    BY <1>1 DEF NoCode, UPDATE_EXIT_CODE
  <2> QED
    BY <1>1, <2>1 DEF IInv, Held, Ahead, Applied, AtWork, NeedsRestart, cloneVars, applyVars,
       processVars
<1> QED BY <1>2, <1>3, <1>4 DEF IInv

LEMMA StopIInv ==
  ASSUME IInv, Stop
  PROVE  IInv'
<1>1. /\ process = "serving" /\ process' = "stopping"
      /\ UNCHANGED <<cloneVars, applyVars, restart, probeVars, calls, exitVars, running,
                     launches, updated, hinted, ran, abandoned>>
  BY DEF Stop
<1>2. TypeOK'
  <2>1. ProcessTypes'
    BY <1>1 DEF IInv, TypeOK, ProcessTypes
  <2> QED BY <1>1, <2>1, SameTypes DEF IInv, TypeOK
<1>3. Alone' /\ Goals'
  BY <1>1 DEF IInv, Alone, Applying, InApply, Goals, cloneVars, applyVars, exitVars
<1>4. Launched'
  BY <1>1 DEF IInv, Launched, NewcomerHintedUnlessCut, NewcomerHinted
<1>5. ~abandoned' => Held'
  BY <1>1
     DEF IInv, Held, Ahead, Applied, AtWork, NeedsRestart, cloneVars, applyVars, exitVars
<1> QED BY <1>2, <1>3, <1>4, <1>5 DEF IInv

LEMMA RelaunchIInv ==
  ASSUME IInv, Relaunch
  PROVE  IInv'
<1>1. /\ MayExit /\ running' = head /\ launches' = launches + 1
      /\ updated' = (exit = UPDATE_EXIT_CODE)
      /\ exit' = NoCode /\ UNCHANGED <<remote, head, torn, applyVars, probed, abandoned>>
      /\ strayed' \in BOOLEAN
  BY DEF Relaunch, Launch, IInv, TypeOK, CloneTypes
<1>2. /\ process = "stopping" /\ launches < MaxLaunches /\ ~Applying
      /\ \A a \in Applies : ~AtWork(a)
  BY <1>1 DEF MayExit
<1>3. /\ head \in Versions /\ head \in Nat /\ running \in Nat
      /\ launches + 1 \in 1 .. MaxLaunches
  BY <1>2, VersionFacts, UpdateAssumption DEF IInv, TypeOK, CloneTypes, ProcessTypes
<1>4. \/ /\ head \in Broken \/ torn
         /\ process' = "dead" /\ hinted' = updated' /\ UNCHANGED <<ran, strayed>>
      \/ process' = "serving" /\ ran' = ran \cup {head} /\ UNCHANGED hinted
  BY DEF Relaunch, Launch
<1>5. TypeOK'
  <2>1. ProcessTypes'
    BY <1>1, <1>3, <1>4 DEF IInv, TypeOK, ProcessTypes
  <2>2. ProbeTypes'
    BY <1>3 DEF IInv, TypeOK, ProbeTypes, Relaunch, Launch, Statuses, UpToDate
  <2>3. ExitTypes'
    BY DEF IInv, TypeOK, ExitTypes, Relaunch, Launch
  <2>4. CloneTypes'
    BY <1>1 DEF IInv, TypeOK, CloneTypes
  <2> QED BY <1>1, <2>1, <2>2, <2>3, <2>4, SameTypes DEF IInv, TypeOK
<1>6. Alone' /\ Goals'
  BY <1>1 DEF IInv, Alone, Applying, InApply, Goals, applyVars
<1>7. ~abandoned' => Held'
  <2>1. ~NeedsRestart(head, head)
    BY <1>3 DEF NeedsRestart
  <2> QED
    BY <1>1, <1>2, <1>3, <2>1
       DEF IInv, Held, Ahead, AtWork, NeedsRestart, applyVars
<1>8. ~abandoned /\ ~strayed /\ (head \in Broken \/ torn) /\ head \notin ran =>
        exit = UPDATE_EXIT_CODE
  <2> SUFFICES ASSUME ~abandoned, ~strayed, head \in Broken \/ torn, head \notin ran,
                      exit # UPDATE_EXIT_CODE
               PROVE  FALSE
    OBVIOUS
  <2>1. ~NeedsRestart(running, head) /\ running <= head /\ (torn => running = head)
    BY <1>2 DEF IInv, Held, Ahead, Applied, Applying, InApply
  <2>2. running # head
    BY <1>2 DEF IInv, Launched
  <2>3. head \in running + 1 .. head /\ head \notin MiaouOnly
    BY <1>3, <2>1, <2>2, UpdateAssumption
  <2> QED BY <2>1, <2>3 DEF NeedsRestart
<1>9. Launched'
  <2>1. process' # "dead" => running' \in ran'
    BY <1>1, <1>4
  <2>2. ~Applying' /\ \A a \in Applies : ~AtWork(a)'
    BY <1>1, <1>2 DEF Applying, InApply, AtWork, applyVars
  <2>3. NewcomerHintedUnlessCut'
    BY <1>1, <1>4, <1>8 DEF NewcomerHintedUnlessCut, NewcomerHinted
  <2> QED BY <2>1, <2>2, <2>3 DEF Launched
<1> QED BY <1>5, <1>6, <1>7, <1>9 DEF IInv

LEMMA StutterIInv ==
  ASSUME IInv, UNCHANGED vars
  PROVE  IInv'
<1>1. remote' >= remote /\ remote' \in Nat
  BY VersionFacts DEF IInv, TypeOK, CloneTypes, cloneVars, vars
<1> QED
  BY <1>1, SameTypes, SameUpdates DEF IInv, TypeOK, vars, cloneVars, exitVars

-----------------------------------------------------------------------------
(* The inductive invariant of updates holds in every reachable state. *)
THEOREM Invariance == Spec => []IInv
<1>1. ASSUME IInv, [Next]_vars PROVE IInv'
  <2>1. Push \/ Signal \/ Stop \/ Relaunch => IInv'
    BY <1>1, PushIInv, SignalIInv, StopIInv, RelaunchIInv
  <2>2. ASSUME NEW c \in Calls, BeginCall(c) \/ EndCall(c) PROVE IInv'
    BY <1>1, <2>2, CallIInv
  <2>3. ASSUME NEW a \in Applies, Apply(a) \/ Update(a) \/ Cancel(a) PROVE IInv'
    BY <1>1, <2>3, ApplyIInv, CheckIInv, MergeIInv, ResumeIInv, RereadIInv, CancelIInv
       DEF Update
  <2>4. ASSUME NEW p \in Probers, AskProbe(p) PROVE IInv'
    BY <1>1, <2>4, ProbeIInv, VersionFacts
  <2>5. ASSUME NEW p \in Refreshers, Refresh(p) PROVE IInv'
    BY <1>1, <2>5, ProbeIInv DEF Refresh
  <2>6. ASSUME NEW r \in Restarts, AskRestart(r) \/ TakeRestart(r) \/ ConcludeRestart(r)
        PROVE  IInv'
    BY <1>1, <2>6, RestartIInv, ConcludeRestartIInv
  <2>7. UNCHANGED vars => IInv'
    BY <1>1, StutterIInv
  <2> QED BY <1>1, <2>1, <2>2, <2>3, <2>4, <2>5, <2>6, <2>7 DEF Next
<1> QED BY <1>1, InitIInv, PTL DEF Spec

(* Type correctness. *)
THEOREM TypeCorrect == Spec => []TypeOK
<1>1. IInv => TypeOK
  BY DEF IInv
<1> QED BY <1>1, Invariance, PTL

(* Two threads never work on the clone at once, unless one was left behind. *)
THEOREM UpdatesSerialised == Spec => []OneUpdateAtATime
<1>1. IInv => OneUpdateAtATime
  BY DEF IInv, Held, Alone, InApply, OneUpdateAtATime
<1> QED BY <1>1, Invariance, PTL

(* No exit is requested while a thread works on the clone. *)
THEOREM ExitAfterUpdate == Spec => []NoExitDuringUpdate
<1>1. IInv => NoExitDuringUpdate
  BY DEF IInv, Held, Alone, Applying, InApply, NoExitDuringUpdate
<1> QED BY <1>1, Invariance, PTL

(* A process does not go on serving beside newer code: it exits, or will,   *)
(* or the merge that left it there failed and could not be undone.          *)
THEOREM UpdateAnnounced == Spec => []NoSilentUpdate
<1>1. IInv => NoSilentUpdate
  BY DEF IInv, Held, Ahead, Applied, Applying, InApply, NoSilentUpdate
<1> QED BY <1>1, Invariance, PTL

(* A newcomer that fails at its launch leaves the operator the way back. *)
THEOREM WayBackGiven == Spec => []NewcomerHintedUnlessCut
<1>1. IInv => NewcomerHintedUnlessCut
  BY DEF IInv, Launched
<1> QED BY <1>1, Invariance, PTL

(* Nothing undoes an applied update. *)
THEOREM AppliedForGood == Spec => NeverBackwards
<1>1. ASSUME IInv, [Next]_vars PROVE ~abandoned => head' >= head
  <2>1. head \in Nat
    BY <1>1, VersionFacts DEF IInv, TypeOK, CloneTypes
  <2>2. ASSUME NEW a \in Applies, Merge(a) PROVE ~abandoned => head' >= head
    <3>1. goal[a] \in Nat
      BY <1>1, VersionFacts DEF IInv, TypeOK, ApplyTypes
    <3> QED BY <1>1, <2>1, <2>2, <3>1, MergeMoves
  <2>3. ASSUME NEW a \in Applies, Apply(a) \/ Check(a) \/ Resume(a) \/ Reread(a) \/ Cancel(a)
        PROVE  head' = head
    BY <2>3 DEF Apply, Check, Resume, Reread, Cancel, cloneVars
  <2>4. Push \/ Signal \/ Stop \/ Relaunch => head' = head
    BY DEF Push, Signal, Stop, Relaunch, Launch, cloneVars
  <2>5. ASSUME NEW c \in Calls, BeginCall(c) \/ EndCall(c) PROVE head' = head
    BY <2>5 DEF BeginCall, EndCall, cloneVars
  <2>6. ASSUME NEW p \in Refreshers, AskProbe(p) \/ Refresh(p) PROVE head' = head
    BY <2>6 DEF AskProbe, Refresh, Adopt, StartProbe, EndProbe, cloneVars
  <2>7. ASSUME NEW r \in Restarts, AskRestart(r) \/ TakeRestart(r) \/ ConcludeRestart(r)
        PROVE  head' = head
    BY <2>7 DEF AskRestart, TakeRestart, ConcludeRestart, cloneVars
  <2>8. UNCHANGED vars => head' = head
    BY DEF vars, cloneVars
  <2> QED
    BY <1>1, <2>1, <2>2, <2>3, <2>4, <2>5, <2>6, <2>7, <2>8, VersionFacts DEF Next, Update
<1> QED BY <1>1, Invariance, PTL DEF Spec, NeverBackwards

=============================================================================
