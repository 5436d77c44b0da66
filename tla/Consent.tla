------------------------------ MODULE Consent ------------------------------
(***************************************************************************)
(* What the outgoing authorization of an upstream promises to its user, by  *)
(* whatever runs, calls and renewals come to ask him: one of them asks at a *)
(* time, by a link that is shown while it waits and no longer, and a token  *)
(* comes only from the answer to that link.  Authorization implements it.   *)
(***************************************************************************)
CONSTANTS
  Flows,    \* whatever may ask the user
  None      \* none of them

VARIABLES
  asker,    \* who asks the user, from the link to the token
  stage,    \* how far it is: "none", "browser", "code", "error", "exchanging"
  link,     \* whose link is shown
  token     \* a usable token is stored

vars == <<asker, stage, link, token>>

Init ==
  /\ asker = None /\ stage = "none" /\ link = None
  /\ token \in BOOLEAN

(* The user is asked, and by nobody else meanwhile. *)
Show(f) ==
  /\ asker = None
  /\ asker' = f /\ stage' = "browser" /\ link' = f
  /\ UNCHANGED token

(* He comes back by the link that is shown, with a code or a refusal. *)
Return ==
  /\ stage = "browser" /\ link = asker
  /\ stage' \in {"code", "error"}
  /\ UNCHANGED <<asker, link, token>>

(* His code is taken, once; the link goes. *)
Take ==
  /\ stage = "code"
  /\ stage' = "exchanging" /\ link' = None
  /\ UNCHANGED <<asker, token>>

(* He refused, or was waited for too long; the link goes. *)
Drop ==
  /\ stage \in {"browser", "error"}
  /\ asker' = None /\ stage' = "none" /\ link' = None
  /\ UNCHANGED token

(* A run that ends takes the link away, whoever asks. *)
Withdraw == link' = None /\ UNCHANGED <<asker, stage, token>>

(* The exchange of the code gives a token, or nothing. *)
Settle ==
  /\ stage = "exchanging"
  /\ asker' = None /\ stage' = "none"
  /\ token' \in {TRUE, token}
  /\ UNCHANGED link

Lapse == token /\ token' = FALSE /\ UNCHANGED <<asker, stage, link>>

Next ==
  \/ \E f \in Flows : Show(f)
  \/ Return \/ Take \/ Drop \/ Withdraw \/ Settle \/ Lapse

Spec == Init /\ [][Next]_vars
=============================================================================
