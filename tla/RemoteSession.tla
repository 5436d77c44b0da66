--------------------------- MODULE RemoteSession ---------------------------
(***************************************************************************)
(* What the proxy relies on from an upstream that lives in another         *)
(* process, whatever carries it: a session that is opened by a start and   *)
(* by nothing else, and requests that are refused without one.  Both       *)
(* HttpUpstream and StdioUpstream implement it.                            *)
(***************************************************************************)
CONSTANTS Requests

VARIABLES
  link,     \* "closed", "opening" or "open"
  request   \* each request: "idle", "sent", "answered" or "failed"

vars == <<link, request>>

Init ==
  /\ link = "closed"
  /\ request = [q \in Requests |-> "idle"]

(* A start begins, over whatever is left of the session before it. *)
Begin == link' = "opening"

(* Only a start that is under way opens a session. *)
Open == link = "opening" /\ link' = "open"

Close == link' = "closed"

Relink == (Begin \/ Open \/ Close) /\ UNCHANGED request

(* A request leaves on an open session, and is refused without one. *)
Send(q) ==
  /\ request[q] = "idle"
  /\ request' = [request EXCEPT ![q] = IF link = "open" THEN "sent" ELSE "failed"]
  /\ UNCHANGED link

End(q) ==
  /\ request[q] = "sent"
  /\ \E end \in {"answered", "failed"} :
       request' = [request EXCEPT ![q] = end]
  /\ UNCHANGED link

Next == Relink \/ \E q \in Requests : Send(q) \/ End(q)

Spec == Init /\ [][Next]_vars
=============================================================================
