---------------------------- MODULE ConfigWatch ----------------------------
(***************************************************************************)
(* The configuration as the running proxy re-reads it on demand            *)
(* (mcp_proxy/configwatch.py): miaou/lifecycle/status asks whether the     *)
(* files have changed and could be restarted on, restart asks it again and *)
(* exits upon the answer.  A verdict is cached by the content it is about, *)
(* and with it the trial bind of the address that content asks for.        *)
(*                                                                         *)
(* What the files hold is a model value; the read, the validation and the  *)
(* bind each let the other checks run.                                     *)
(***************************************************************************)
EXTENDS Naturals, Sequences

CONSTANTS
  Contents,      \* what the merged layers may hold, comments apart
  Reference,     \* what they held at startup
  Refusable,     \* contents that prepare_config may refuse
  Moving,        \* contents that ask for another host or port
  Checks,        \* calls of check()
  CacheMax,      \* VALIDATION_CACHE_MAX
  MaxEdits       \* BOUND: edits of the files, changes of the port

ASSUME WatchAssumption ==
  /\ Reference \in Contents \ (Refusable \cup Moving)
  /\ Refusable \cup Moving \subseteq Contents
  /\ CacheMax \in Nat \ {0} /\ MaxEdits \in Nat

VARIABLES
  written,      \* what the layers hold now, or "unreadable"
  portFree,     \* whether the other address can be opened now
  validated,    \* _validated: the contents with a verdict, oldest first
  refused,      \* those of them whose verdict is a refusal
  bind,         \* _bind: the contents with a trial bind, and its outcome
  check,        \* each call of check()
  edits,
  freeSince     \* history: the calls since whose start the port was free once

watchVars == <<written, portFree, validated, refused, bind, check, edits, freeSince>>

Unread == [phase |-> "idle", fresh |-> FALSE, content |-> Reference, verdict |-> "none"]

WatchInit ==
  /\ written = Reference /\ portFree = TRUE
  /\ validated = <<>> /\ refused = {} /\ bind = [c \in {} |-> TRUE]
  /\ check = [k \in Checks |-> Unread]
  /\ edits = 0 /\ freeSince = {}

Elements(s) == {s[i] : i \in DOMAIN s}

(* What prepare_config() may say of a content, and whether the address it   *)
(* asks for is another one.                                                 *)
MayRefuse(c) == IF c \in Refusable THEN {TRUE, FALSE} ELSE {FALSE}
AddressMoves(c) == c \in Moving

-----------------------------------------------------------------------------
(* What the world does meanwhile. *)

Edit ==
  /\ edits < MaxEdits
  /\ written' \in (Contents \cup {"unreadable"}) \ {written}
  /\ edits' = edits + 1
  /\ UNCHANGED <<portFree, validated, refused, bind, check, freeSince>>

PortMoves ==
  /\ edits < MaxEdits
  /\ portFree' = ~portFree
  /\ freeSince' = IF portFree' THEN Checks ELSE freeSince
  /\ edits' = edits + 1
  /\ UNCHANGED <<written, validated, refused, bind, check>>

-----------------------------------------------------------------------------
(* check() *)

Concluded(k, verdict) == check' = [check EXCEPT ![k].phase = "done", ![k].verdict = verdict]

CheckBegins(k, fresh) ==
  /\ check[k].phase = "idle"
  /\ check' = [check EXCEPT ![k] = [Unread EXCEPT !.phase = "reading", !.fresh = fresh]]
  /\ freeSince' = IF portFree THEN freeSince \cup {k} ELSE freeSince \ {k}
  /\ UNCHANGED <<written, portFree, validated, refused, bind, edits>>

(* Mutant of MustBind: a restart trusts the last trial bind. *)
MustBindOnce(k, c, binds) == AddressMoves(c) /\ c \notin DOMAIN binds

(* A valid content that asks for another address is tried, unless a status  *)
(* finds the outcome of an earlier trial.                                   *)
MustBind(k, c, binds) == AddressMoves(c) /\ (check[k].fresh \/ c \notin DOMAIN binds)

(* The end of check(), from the verdict on. *)
Conclude(k, c, refusal, binds) ==
  check' = [check EXCEPT
    ![k].content = c,
    ![k].phase   = IF ~refusal /\ MustBind(k, c, binds) THEN "binding" ELSE "done",
    ![k].verdict = IF refusal THEN "invalid"
                   ELSE IF MustBind(k, c, binds) THEN "none"
                   ELSE IF AddressMoves(c) /\ ~binds[c] THEN "invalid" ELSE "changed"]

(* The thread has read the layers: what they say is known, or not yet. *)
ReadLayers(k) ==
  /\ check[k].phase = "reading"
  /\ IF written = "unreadable" THEN Concluded(k, "invalid")
     ELSE IF written = Reference THEN Concluded(k, "unchanged")
     ELSE IF written \in Elements(validated) THEN Conclude(k, written, written \in refused, bind)
     ELSE check' = [check EXCEPT ![k].phase = "validating", ![k].content = written]
  /\ UNCHANGED <<written, portFree, validated, refused, bind, edits, freeSince>>

(* Mutant of Evict: one verdict too many is kept. *)
EvictLate(s) == IF Len(s) > CacheMax THEN SubSeq(s, Len(s) - CacheMax + 1, Len(s)) ELSE s

(* The oldest verdicts, to make room for one more. *)
Evict(s) == IF Len(s) >= CacheMax THEN SubSeq(s, Len(s) - CacheMax + 2, Len(s)) ELSE s

(* The validation is over.  What it refuses depends on more than the layers *)
(* (files they name, plugins): it may refuse what it accepted before.       *)
Validated(k) ==
  /\ check[k].phase = "validating"
  /\ \E refusal \in MayRefuse(check[k].content) :
       LET c    == check[k].content
           kept == Evict(validated)
           gone == Elements(validated) \ Elements(kept)
       IN /\ validated' = IF c \in Elements(kept) THEN kept ELSE Append(kept, c)
          /\ refused' = ((refused \cap Elements(kept)) \ {c}) \cup (IF refusal THEN {c} ELSE {})
          /\ bind' = [x \in DOMAIN bind \ gone |-> bind[x]]
          /\ Conclude(k, c, refusal, bind')
  /\ UNCHANGED <<written, portFree, edits, freeSince>>

(* The trial bind ends, and its outcome is remembered. *)
Bound(k) ==
  /\ check[k].phase = "binding"
  /\ LET c == check[k].content IN
       bind' = [x \in DOMAIN bind \cup {c} |-> IF x = c THEN portFree ELSE bind[x]]
  /\ Concluded(k, IF portFree THEN "changed" ELSE "invalid")
  /\ UNCHANGED <<written, portFree, validated, refused, edits, freeSince>>

WatchNext ==
  \/ Edit \/ PortMoves
  \/ \E k \in Checks :
       \/ \E fresh \in {TRUE, FALSE} : CheckBegins(k, fresh)
       \/ ReadLayers(k) \/ Validated(k) \/ Bound(k)

WatchSpec == WatchInit /\ [][WatchNext]_watchVars

-----------------------------------------------------------------------------
(* A restart that is told it may go on to another address has seen that     *)
(* address open since it asked, whatever verdict an earlier status left in  *)
(* the cache and however many checks share it; and the cache stays bounded. *)
RestartSound ==
  /\ Len(validated) <= CacheMax
  /\ \A k \in Checks :
       check[k].fresh /\ check[k].verdict = "changed" /\ check[k].content \in Moving
         => k \in freeSince
=============================================================================
