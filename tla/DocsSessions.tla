---------------------------- MODULE DocsSessions ----------------------------
(***************************************************************************)
(* The documents that mcp_docs keeps on disk, by session (session.py, and  *)
(* the tools list, read, search, extract and drop_session of __init__.py). *)
(* A call resolves its reference in one thread and reads the document in   *)
(* another; the threads of several calls run at the same time, and the     *)
(* directories outlive the process.  A step is one of the calls to the     *)
(* file system, so that the sweep of one call, the test of another and the *)
(* write of a third come in any order.                                     *)
(***************************************************************************)
EXTENDS Naturals, FiniteSets

CONSTANTS
  Sessions, Refs,
  DocCalls,     \* calls of the tools
  Quota,        \* MAX_SESSION_MB, in documents: all have one size here
  DocTtl,       \* TTL_HOURS, in the unit ages are counted in
  MaxDocTicks   \* BOUND: units of time that pass

ASSUME DocsAssumption ==
  /\ IsFiniteSet(Refs) /\ IsFiniteSet(DocCalls)
  /\ "none" \notin DocCalls /\ "whole" \notin DocCalls
  /\ Quota \in Nat \ {0} /\ DocTtl \in Nat \ {0} /\ MaxDocTicks \in Nat

VARIABLES
  docs,       \* of each session, each document: "none", "whole", or the call
              \* that began to write it
  dirs,       \* the sessions that have a directory
  idleFor,    \* time since each directory was touched
  docCall,    \* each call of a tool
  docTicks,
  usedFor,    \* history: time since a tool last touched a session for use
  overtaken,  \* history: sweeps that found expired a session used since
  crowd       \* history: of each session, the most writes that ever ran
              \* together, from their measure of the quota to their end

docVars == <<docs, dirs, idleFor, docCall, docTicks, usedFor, overtaken, crowd>>

NoCall == [phase |-> "idle", task |-> "ask", session |-> CHOOSE s \in Sessions : TRUE,
           ref |-> CHOOSE r \in Refs : TRUE,
           left |-> {},                             \* sessions it has yet to sweep
           at |-> CHOOSE s \in Sessions : TRUE,     \* the directory it removes
           seen |-> {}]                             \* what its measure cannot miss

DocsInit ==
  /\ docs = [s \in Sessions |-> [r \in Refs |-> "none"]]
  /\ dirs = {}
  /\ idleFor = [s \in Sessions |-> 0]
  /\ docCall = [c \in DocCalls |-> NoCall]
  /\ docTicks = 0 /\ usedFor = [s \in Sessions |-> 0]
  /\ overtaken = {} /\ crowd = [s \in Sessions |-> 1]

-----------------------------------------------------------------------------
Working == {c \in DocCalls : docCall[c].phase \notin {"idle", "done"}}
Goes(c, phase) == docCall' = [docCall EXCEPT ![c].phase = phase]

(* How a call ends, served or not: no property tells the outcomes apart. *)
EndCall(c) == docCall' = [docCall EXCEPT ![c] = [NoCall EXCEPT !.phase = "done"]]

Whole(s) == {r \in Refs : docs[s][r] = "whole"}

(* The writes of session s: measured and allowed, and those that measure. *)
Writes(s)  == {c \in DocCalls : docCall[c].session = s /\ docCall[c].phase \in {"allowed", "writing"}}
Measures(s) == {c \in DocCalls : docCall[c].session = s /\ docCall[c].phase = "measuring"}

(* Document r of session s is gone, or is not whole any more. *)
NotSeen(s, r) ==
  [d \in DocCalls |-> IF d \in Measures(s) THEN [docCall[d] EXCEPT !.seen = @ \ {r}]
                      ELSE docCall[d]]

(* A tool is called with a reference and the document, or without it; or it *)
(* drops a session.  Every call sweeps first.                               *)
Call(c, task, s, r) ==
  /\ docCall[c].phase = "idle"
  /\ docCall' = [docCall EXCEPT ![c] =
       [NoCall EXCEPT !.phase = "sweeping", !.task = task, !.session = s, !.ref = r,
                      !.left = Sessions]]
  /\ UNCHANGED <<docs, dirs, idleFor, docTicks, usedFor, overtaken, crowd>>

(* sweep_expired_sessions() reads the age of one directory. *)
Judge(c, t) ==
  /\ docCall[c].phase = "sweeping" /\ t \in docCall[c].left
  /\ docCall' = [docCall EXCEPT
       ![c].left = @ \ {t}, ![c].at = t,
       ![c].phase = IF t \in dirs /\ idleFor[t] > DocTtl THEN "removing" ELSE @]
  /\ overtaken' = overtaken \ {c}
  /\ UNCHANGED <<docs, dirs, idleFor, docTicks, usedFor, crowd>>

EndSweep(c) ==
  /\ docCall[c].phase = "sweeping" /\ docCall[c].left = {}
  /\ docCall' = [docCall EXCEPT
       ![c].phase = CASE docCall[c].task = "push" -> "pushing"
                      [] docCall[c].task = "ask"  -> "asking"
                      [] docCall[c].task = "drop" -> "dropping",
       ![c].at = docCall[c].session]
  /\ UNCHANGED <<docs, dirs, idleFor, docTicks, usedFor, overtaken, crowd>>

(* rmtree(), of a sweep or of drop_session(), removes a document; that, too, *)
(* is a change of the directory.                                            *)
Unlink(c, r) ==
  /\ docCall[c].phase \in {"removing", "dropping"}
  /\ LET t == docCall[c].at IN
       /\ docs[t][r] # "none"
       /\ docs' = [docs EXCEPT ![t][r] = "none"]
       /\ idleFor' = [idleFor EXCEPT ![t] = 0]
       /\ docCall' = NotSeen(t, r)
  /\ UNCHANGED <<dirs, docTicks, usedFor, overtaken, crowd>>

(* It ends with the directory, unless something is in it: what came since   *)
(* the directory was listed, or could not be removed (ignore_errors).       *)
Removed(c) ==
  /\ docCall[c].phase \in {"removing", "dropping"}
  /\ LET t == docCall[c].at IN
       dirs' = IF \A r \in Refs : docs[t][r] = "none" THEN dirs \ {t} ELSE dirs
  /\ IF docCall[c].phase = "removing" THEN Goes(c, "sweeping") ELSE EndCall(c)
  /\ UNCHANGED <<docs, idleFor, docTicks, usedFor, overtaken, crowd>>

-----------------------------------------------------------------------------
(* What a call that finds its document, or brings it, does to the session:  *)
(* the sweeps that found it expired are late.                               *)
Uses(s) ==
  /\ usedFor' = [usedFor EXCEPT ![s] = 0]
  /\ overtaken' = overtaken \cup {d \in DocCalls : docCall[d].phase = "removing" /\ docCall[d].at = s}

(* Mutant of TouchSession: only the arrival of a document counts as use. *)
TouchSessionOnWrite(c) ==
  /\ docCall[c].phase \in {"pushing", "found"}
  /\ LET s == docCall[c].session IN
       /\ Uses(s)
       /\ dirs' = dirs \cup {s}
       /\ idleFor' = IF docCall[c].phase = "pushing" THEN [idleFor EXCEPT ![s] = 0] ELSE idleFor
  /\ Goes(c, IF docCall[c].phase = "pushing" THEN "touched" ELSE "resolved")
  /\ UNCHANGED <<docs, docTicks, crowd>>

(* touch_session() *)
TouchSession(c) ==
  /\ docCall[c].phase \in {"pushing", "found"}
  /\ LET s == docCall[c].session IN
       /\ Uses(s)
       /\ dirs' = dirs \cup {s}
       /\ idleFor' = [idleFor EXCEPT ![s] = 0]
  /\ Goes(c, IF docCall[c].phase = "pushing" THEN "touched" ELSE "resolved")
  /\ UNCHANGED <<docs, docTicks, crowd>>

(* path.exists().  A document that is there, whole or not, is never written *)
(* again, even if the call brings it; one that is not, and not brought      *)
(* either, is REF_UNKNOWN, which clients answer by bringing it.             *)
LookUp(c) ==
  /\ docCall[c].phase \in {"asking", "touched"}
  /\ LET there == docs[docCall[c].session][docCall[c].ref] # "none"
         asked == docCall[c].phase = "asking"
     IN IF asked /\ ~there THEN EndCall(c)
        ELSE Goes(c, IF asked THEN "found" ELSE IF there THEN "resolved" ELSE "decoding")
  /\ UNCHANGED <<docs, dirs, idleFor, docTicks, usedFor, overtaken, crowd>>

(* Too large, before anything is touched or once decoded, or not base64. *)
RefusePush(c) ==
  /\ docCall[c].phase \in {"pushing", "decoding"}
  /\ EndCall(c)
  /\ UNCHANGED <<docs, dirs, idleFor, docTicks, usedFor, overtaken, crowd>>

(* Mutant of FitsQuota: the document to come is not counted. *)
FitsQuotaWithout(usage) == usage <= Quota

FitsQuota(usage) == usage + 1 <= Quota

(* session_disk_usage_mb() begins to sum the sizes of the files. *)
MeasureQuota(c) ==
  /\ docCall[c].phase = "decoding"
  /\ LET s == docCall[c].session IN
       /\ docCall' = [docCall EXCEPT ![c].phase = "measuring", ![c].seen = Whole(s)]
       /\ LET n == Cardinality(Writes(s)) + Cardinality(Measures(s)) + 1 IN
            crowd' = IF n > crowd[s] THEN [crowd EXCEPT ![s] = n] ELSE crowd
  /\ UNCHANGED <<docs, dirs, idleFor, docTicks, usedFor, overtaken>>

(* It ends.  Files that were whole all along count; one that came, went, is *)
(* being written or was cut counts for some part, or not at all.            *)
Measured(c) ==
  /\ docCall[c].phase = "measuring"
  /\ \E usage \in Cardinality(docCall[c].seen)..Cardinality(Refs) :
       IF FitsQuota(usage)
       THEN docCall' = [docCall EXCEPT ![c].phase = "allowed", ![c].seen = {}]
       ELSE EndCall(c)
  /\ UNCHANGED <<docs, dirs, idleFor, docTicks, usedFor, overtaken, crowd>>

(* write_bytes() opens the file, or empties it if another call made it; the *)
(* directory is made again if it was removed.                               *)
OpenFile(c) ==
  /\ docCall[c].phase = "allowed"
  /\ LET s == docCall[c].session
         r == docCall[c].ref
     IN /\ docs' = [docs EXCEPT ![s][r] = c]
        /\ dirs' = dirs \cup {s}
        /\ idleFor' = [idleFor EXCEPT ![s] = 0]
        /\ docCall' = [NotSeen(s, r) EXCEPT ![c].phase = "writing"]
  /\ UNCHANGED <<docTicks, usedFor, overtaken, crowd>>

(* The last byte is written.  The file may have been removed since, or      *)
(* emptied by another call that has yet to write it.                        *)
CloseFile(c) ==
  /\ docCall[c].phase = "writing"
  /\ LET s == docCall[c].session
         r == docCall[c].ref
     IN docs' = IF docs[s][r] = c THEN [docs EXCEPT ![s][r] = "whole"] ELSE docs
  /\ Goes(c, "resolved")
  /\ UNCHANGED <<dirs, idleFor, docTicks, usedFor, overtaken, crowd>>

(* The disk is full, or the directory goes while it is touched, measured or *)
(* written into: the call fails, and leaves what it wrote.                  *)
FileError(c) ==
  /\ docCall[c].phase \in {"pushing", "found", "measuring", "allowed", "writing"}
  /\ EndCall(c)
  /\ UNCHANGED <<docs, dirs, idleFor, docTicks, usedFor, overtaken, crowd>>

(* The second thread reads the document, as far as it is there; a call that *)
(* was given up meanwhile ends without.                                     *)
ReadDocument(c) ==
  /\ docCall[c].phase = "resolved"
  /\ EndCall(c)
  /\ UNCHANGED <<docs, dirs, idleFor, docTicks, usedFor, overtaken, crowd>>

(* The process stops, and another starts on the same directories. *)
DocsCrash ==
  /\ Working # {}
  /\ docCall' = [c \in DocCalls |->
                   IF c \in Working THEN [NoCall EXCEPT !.phase = "done"] ELSE docCall[c]]
  /\ UNCHANGED <<docs, dirs, idleFor, docTicks, usedFor, overtaken, crowd>>

(* Hours pass, between the calls. *)
DocTick ==
  /\ docTicks < MaxDocTicks /\ Working = {}
  /\ docTicks' = docTicks + 1
  /\ idleFor' = [s \in Sessions |-> IF s \in dirs THEN idleFor[s] + 1 ELSE 0]
  /\ usedFor' = [s \in Sessions |-> usedFor[s] + 1]
  /\ UNCHANGED <<docs, dirs, docCall, overtaken, crowd>>

DocsNext ==
  \/ DocTick \/ DocsCrash
  \/ \E c \in DocCalls :
       \/ EndSweep(c) \/ Removed(c) \/ TouchSession(c) \/ LookUp(c) \/ RefusePush(c)
       \/ MeasureQuota(c) \/ Measured(c) \/ OpenFile(c) \/ CloseFile(c)
       \/ FileError(c) \/ ReadDocument(c)
       \/ \E r \in Refs : Unlink(c, r)
       \/ \E s \in Sessions :
            \/ Judge(c, s)
            \/ \E r \in Refs, task \in {"push", "ask", "drop"} : Call(c, task, s, r)

DocsSpec == DocsInit /\ [][DocsNext]_docVars

-----------------------------------------------------------------------------
(* The documents of a session, those it will have when the writes that run  *)
(* are done included, pass its quota by fewer than ever were measured and   *)
(* written at a time: a session that gets them one by one never passes it.  *)
QuotaHeld ==
  \A s \in Sessions :
    Cardinality(Whole(s)) + Cardinality(Writes(s)) <= Quota + crowd[s] - 1

(* A whole document goes only if its session was not used for the TTL, or   *)
(* is being dropped, or was judged by the sweep that removes it before it   *)
(* was used again.                                                          *)
Goner(s) ==
  \/ usedFor[s] > DocTtl
  \/ \E c \in DocCalls : /\ docCall[c].at = s
                         /\ \/ docCall[c].phase = "dropping"
                            \/ docCall[c].phase = "removing" /\ c \in overtaken

InUseStays ==
  \A s \in Sessions, r \in Refs :
    docs[s][r] = "whole" /\ docs'[s][r] = "none" => Goner(s)

SessionsKept == [][QuotaHeld' /\ InUseStays]_docVars
=============================================================================
