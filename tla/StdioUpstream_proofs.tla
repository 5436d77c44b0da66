------------------------ MODULE StdioUpstream_proofs ------------------------
(***************************************************************************)
(* Safety of StdioUpstream for any set of requests: what start() and       *)
(* stop() guarantee of the subprocess, and that the session the proxy sees *)
(* is the one RemoteSession specifies.                                     *)
(***************************************************************************)
EXTENDS StdioUpstream, TLAPS

(* Where the service task may be, by where start() or stop() is. *)
Stages ==
  /\ caller = "idle" <=> service = "unborn"
  /\ caller \in {"started", "stopping", "stopping2"} =>
       service \notin {"created", "handshake"}
  /\ caller \in WaitingOn \cup {"failed", "stopped"} =>
       service \in Closing \cup {"done"}
  /\ session => service \notin {"unborn", "created", "handshake"}

(* What is asked of the service task reaches it: the stop event, and the    *)
(* scope once it is open; what it says of its end is true.                  *)
Asked ==
  /\ caller \in Waiting => stopSet
  /\ caller = "failing" => cancelRequested
  /\ scope = "none" => service \in {"unborn", "created"}
  /\ cancelRequested /\ service \in {"handshake", "serving"} => scope = "cancelled"
  /\ stoppedSet => service = "done"
  /\ service = "done" => child = "none"

PipeInv == PipeTypeOK /\ Stages /\ Asked /\ NoOrphanSubprocess

USE DEF Unclosed, Closing, Waiting, WaitingOn

-----------------------------------------------------------------------------
(* The types of StdioUpstream are kept by every step. *)
LEMMA TypeStep == PipeTypeOK /\ [PipeNext]_pipeVars => PipeTypeOK'
<1> SUFFICES ASSUME PipeTypeOK, [PipeNext]_pipeVars PROVE PipeTypeOK'
  OBVIOUS
<1> USE DEF PipeTypeOK, callerVars, serviceVars
<1>1. CASE Start
  BY <1>1 DEF Start
<1>2. CASE StartStep \/ StartCancelled
  BY <1>2 DEF StartStep, StartWakes, StartExpires, StartCancelled, GiveUpStart, CancelScope
<1>3. CASE Stop
  BY <1>3 DEF Stop
<1>4. CASE ShutdownStep
  BY <1>4 DEF ShutdownStep, ShutdownWakes, ShutdownInsists, ShutdownGivesUp, CancelScope, Ended
<1>5. CASE ServiceStep
  BY <1>5 DEF ServiceStep, ServeBegins, ServeOpens, ServeFails, ServeLeaves, ServeEnds
<1>6. CASE ChildDies
  BY <1>6 DEF ChildDies
<1>7. CASE \E q \in Requests : Send(q) \/ Answer(q) \/ Broken(q)
  BY <1>7 DEF Send, Answer, Broken
<1>8. CASE UNCHANGED pipeVars
  BY <1>8 DEF pipeVars
<1> QED BY <1>1, <1>2, <1>3, <1>4, <1>5, <1>6, <1>7, <1>8 DEF PipeNext

(* So is what links the caller to the service task. *)
LEMMA StagesStep ==
  PipeTypeOK /\ Stages /\ Asked /\ [PipeNext]_pipeVars => Stages'
<1> SUFFICES ASSUME PipeTypeOK, Stages, Asked, [PipeNext]_pipeVars PROVE Stages'
  OBVIOUS
<1> USE DEF PipeTypeOK, Stages, Asked, callerVars, serviceVars
<1>1. CASE Start
  BY <1>1 DEF Start
<1>2. CASE StartStep \/ StartCancelled
  BY <1>2 DEF StartStep, StartWakes, StartExpires, StartCancelled, GiveUpStart, CancelScope
<1>3. CASE Stop
  BY <1>3 DEF Stop
<1>4. CASE ShutdownWakes
  BY <1>4 DEF ShutdownWakes, Ended
<1>5. CASE ShutdownInsists
  BY <1>5 DEF ShutdownInsists, CancelScope, Settled
<1>6. CASE ShutdownGivesUp
  BY <1>6 DEF ShutdownGivesUp, Ended
<1>7. CASE ServiceStep
  BY <1>7 DEF ServiceStep, ServeBegins, ServeOpens, ServeFails, ServeLeaves, ServeEnds
<1>8. CASE ChildDies \/ \E q \in Requests : Send(q) \/ Answer(q) \/ Broken(q)
  BY <1>8 DEF ChildDies, Send, Answer, Broken
<1>9. CASE UNCHANGED pipeVars
  BY <1>9 DEF pipeVars
<1> QED BY <1>1, <1>2, <1>3, <1>4, <1>5, <1>6, <1>7, <1>8, <1>9 DEF PipeNext, ShutdownStep

(* And so is what was asked of the service task. *)
LEMMA AskedStep ==
  PipeTypeOK /\ Stages /\ Asked /\ [PipeNext]_pipeVars => Asked'
<1> SUFFICES ASSUME PipeTypeOK, Stages, Asked, [PipeNext]_pipeVars PROVE Asked'
  OBVIOUS
<1> USE DEF PipeTypeOK, Stages, Asked, callerVars, serviceVars
<1>1. CASE Start
  BY <1>1 DEF Start
<1>2. CASE StartStep \/ StartCancelled
  BY <1>2 DEF StartStep, StartWakes, StartExpires, StartCancelled, GiveUpStart, CancelScope
<1>3. CASE Stop
  BY <1>3 DEF Stop
<1>4. CASE ShutdownStep
  BY <1>4 DEF ShutdownStep, ShutdownWakes, ShutdownInsists, ShutdownGivesUp, CancelScope, Ended
<1>5. CASE ServiceStep
  BY <1>5 DEF ServiceStep, ServeBegins, ServeOpens, ServeFails, ServeLeaves, ServeEnds
<1>6. CASE ChildDies
  BY <1>6 DEF ChildDies
<1>7. CASE \E q \in Requests : Send(q) \/ Answer(q) \/ Broken(q)
  BY <1>7 DEF Send, Answer, Broken
<1>8. CASE UNCHANGED pipeVars
  BY <1>8 DEF pipeVars
<1> QED BY <1>1, <1>2, <1>3, <1>4, <1>5, <1>6, <1>7, <1>8 DEF PipeNext

(* A start that failed, or a stop that returned, leaves nothing behind. *)
LEMMA OrphanStep ==
  PipeTypeOK /\ Stages /\ Asked /\ NoOrphanSubprocess /\ [PipeNext]_pipeVars
    => NoOrphanSubprocess'
<1> SUFFICES ASSUME PipeTypeOK, Stages, Asked, NoOrphanSubprocess, [PipeNext]_pipeVars
             PROVE  NoOrphanSubprocess'
  OBVIOUS
<1> USE DEF PipeTypeOK, Stages, Asked, NoOrphanSubprocess, callerVars, serviceVars
<1>1. CASE Start \/ Stop
  BY <1>1 DEF Start, Stop
<1>2. CASE StartStep \/ StartCancelled
  BY <1>2 DEF StartStep, StartWakes, StartExpires, StartCancelled, GiveUpStart, CancelScope
<1>3. CASE ShutdownStep
  BY <1>3 DEF ShutdownStep, ShutdownWakes, ShutdownInsists, ShutdownGivesUp, CancelScope, Ended
<1>4. CASE ServiceStep
  BY <1>4 DEF ServiceStep, ServeBegins, ServeOpens, ServeFails, ServeLeaves, ServeEnds
<1>5. CASE ChildDies
  BY <1>5 DEF ChildDies
<1>6. CASE \E q \in Requests : Send(q) \/ Answer(q) \/ Broken(q)
  BY <1>6 DEF Send, Answer, Broken
<1>7. CASE UNCHANGED pipeVars
  BY <1>7 DEF pipeVars
<1> QED BY <1>1, <1>2, <1>3, <1>4, <1>5, <1>6, <1>7 DEF PipeNext

(* The invariant everything follows from. *)
THEOREM PipeInvariance == PipeSpec => []PipeInv
<1>1. PipeInit => PipeInv
  BY DEF PipeInit, PipeInv, PipeTypeOK, Stages, Asked, NoOrphanSubprocess
<1>2. PipeInv /\ [PipeNext]_pipeVars => PipeInv'
  BY TypeStep, StagesStep, AskedStep, OrphanStep DEF PipeInv
<1> QED BY <1>1, <1>2, PTL DEF PipeSpec

(* The variables of StdioUpstream keep their types. *)
THEOREM PipeTypeCorrect == PipeSpec => []PipeTypeOK
<1>1. PipeInv => PipeTypeOK
  BY DEF PipeInv
<1> QED BY <1>1, PipeInvariance, PTL

(* _shutdown() reaches the service task wherever it is, created and not yet *)
(* run included, and the subprocess leaves.                                 *)
THEOREM SubprocessMadeToLeave == PipeSpec => []SubprocessLeaves
<1>1. PipeInv => SubprocessLeaves
  BY DEF PipeInv, SubprocessLeaves, CancelReaches, Stages
<1> QED BY <1>1, PipeInvariance, PTL

-----------------------------------------------------------------------------
(* A step of StdioUpstream opens the session under a start, closes it, or   *)
(* is one of a request.                                                     *)
LEMMA SessionStep == [PipeNext]_pipeVars => [Abstract!Next]_(Abstract!vars)
<1> SUFFICES ASSUME [PipeNext]_pipeVars
             PROVE  [Abstract!Next]_(Abstract!vars)
  OBVIOUS
<1> USE DEF callerVars, serviceVars, Link, Abstract!vars
<1>1. ASSUME UNCHANGED request PROVE [Abstract!Next]_(Abstract!vars)
  <2>1. ASSUME service = "handshake", session' PROVE Link \in {"opening", "open"} /\ Link' = "open"
    BY <2>1
  <2>2. ASSUME session' => session \/ service = "handshake"
        PROVE  Link' = "open" => Link \in {"opening", "open"}
    BY <2>2
  <2>3. session' => session \/ service = "handshake"
    <3>1. CASE Start \/ StartStep \/ StartCancelled \/ Stop \/ ShutdownStep
      BY <3>1 DEF Start, StartStep, StartWakes, StartExpires, StartCancelled, GiveUpStart, Stop,
                  ShutdownStep, ShutdownWakes, ShutdownInsists, ShutdownGivesUp
    <3>2. CASE ServiceStep \/ ChildDies
      BY <3>2 DEF ServiceStep, ServeBegins, ServeOpens, ServeFails, ServeLeaves, ServeEnds, ChildDies
    <3>3. CASE \E q \in Requests : Send(q) \/ Answer(q) \/ Broken(q)
      BY <3>3 DEF Send, Answer, Broken
    <3>4. CASE UNCHANGED pipeVars
      BY <3>4 DEF pipeVars
    <3> QED BY <3>1, <3>2, <3>3, <3>4 DEF PipeNext
  <2>4. Link' \in {"open", "opening", "closed"}
    OBVIOUS
  <2> QED BY <1>1, <2>2, <2>3, <2>4
        DEF Abstract!Next, Abstract!Relink, Abstract!Begin, Abstract!Open, Abstract!Close
<1>2. CASE \E q \in Requests : Send(q)
  <2>1. PICK q \in Requests : Send(q)
    BY <1>2
  <2>2. Abstract!Send(q)
    BY <2>1 DEF Send, Abstract!Send
  <2> QED BY <2>2 DEF Abstract!Next
<1>3. CASE \E q \in Requests : Answer(q) \/ Broken(q)
  <2>1. PICK q \in Requests : Answer(q) \/ Broken(q)
    BY <1>3
  <2>2. Abstract!End(q)
    BY <2>1 DEF Answer, Broken, Abstract!End
  <2> QED BY <2>2 DEF Abstract!Next
<1>4. CASE Start \/ StartStep \/ StartCancelled \/ Stop \/ ShutdownStep \/ ServiceStep \/ ChildDies
  <2>1. UNCHANGED request
    BY <1>4 DEF Start, StartStep, StartWakes, StartExpires, StartCancelled, GiveUpStart, Stop,
                ShutdownStep, ShutdownWakes, ShutdownInsists, ShutdownGivesUp, ServiceStep,
                ServeBegins, ServeOpens, ServeFails, ServeLeaves, ServeEnds, ChildDies
  <2> QED BY <2>1, <1>1
<1>5. CASE UNCHANGED pipeVars
  <2>1. UNCHANGED request
    BY <1>5 DEF pipeVars
  <2> QED BY <2>1, <1>1
<1> QED BY <1>2, <1>3, <1>4, <1>5 DEF PipeNext

(* A subprocess behind its pipes is a remote session. *)
THEOREM PipeImplementsSession == PipeSpec => ImplementsSession
<1>1. PipeInit => Abstract!Init
  BY DEF PipeInit, Link, Abstract!Init
<1> QED BY <1>1, SessionStep, PTL DEF PipeSpec, ImplementsSession, Abstract!Spec
=============================================================================
