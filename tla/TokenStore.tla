----------------------------- MODULE TokenStore -----------------------------
(***************************************************************************)
(* The token of one upstream over time: the file it is kept in             *)
(* (mcp_proxy/auth_out/storage.py), the copy in the memory of the provider, *)
(* and the loop that renews it before it expires (refresh_if_due() of      *)
(* authorizer.py, _refresh_loop() of app.py).                              *)
(*                                                                         *)
(* An authorization server announces a token for a DURATION; the file      *)
(* keeps a deadline, and the longest duration ever announced, from which   *)
(* the loop derives when to renew and how often to look.  The object in    *)
(* memory says what was left when it was read, and may be written again as *)
(* it is.  Which of the outcomes below raise authorization_pending is in   *)
(* Authorization; a token without a duration or a refresh token, which the *)
(* loop leaves alone, is left out.  A request takes no time here.          *)
(***************************************************************************)
EXTENDS Integers

CONSTANTS
  Lives,        \* durations that are announced
  MarginCap,    \* _REFRESH_MARGIN_S
  PollCap,      \* _REFRESH_POLL_INTERVAL_S
  BackOffCap,   \* the bound of the exponential back-off
  MaxTokens,    \* BOUND: tokens issued
  MaxTime       \* BOUND: units of time that pass

ASSUME TokenAssumption ==
  /\ Lives \subseteq Nat \ {0}
  /\ {MarginCap, PollCap, BackOffCap} \subseteq Nat \ {0}
  /\ MaxTokens \in Nat /\ MaxTime \in Nat

VARIABLES
  now,
  file,        \* the entry: a token (0: none), its deadline, the lifetime
  held,        \* the provider's copy: a token and what was left of it
  wake, sleep, \* the loop: until when it sleeps, and how long that is
  renewing,    \* refresh_if_due() waits for its request
  failures, retryAt,   \* _renewal_failures, _retry_not_before
  issued,      \* tokens issued
  life,        \* history: the duration announced for the token in the file,
  announced,   \*   the deadline that was,
  longest,     \*   the longest of all durations,
  calm         \*   since it was issued, no back-off, restart or deadline that
               \*   moved

loopVars  == <<wake, sleep, renewing, failures, retryAt>>
tokenPast == <<issued, life, announced, longest>>
tokenVars == <<now, file, held, loopVars, tokenPast, calm>>

Least(a, b)    == IF a < b THEN a ELSE b
Greatest(a, b) == IF a > b THEN a ELSE b
Nobody         == [token |-> 0, left |-> 0]

(* _refresh_poll_interval(), with one second as the unit of its floor. *)
Margin(lifetime) == Least(MarginCap, lifetime \div 2)

(* Mutant of Period: a floor keeps the loop from turning too fast. *)
PeriodWithFloor(lifetime) == PollCap

Period(lifetime) ==
  IF lifetime = 0 THEN PollCap
  ELSE Greatest(1, Least(PollCap, Margin(lifetime) \div 3))

TokenInit ==
  /\ now = 0
  /\ file = [token |-> 0, deadline |-> 0, lifetime |-> 0]
  /\ held = Nobody
  /\ wake = PollCap /\ sleep = PollCap /\ renewing = FALSE
  /\ failures = 0 /\ retryAt = 0
  /\ issued = 0 /\ life = 0 /\ announced = 0 /\ longest = 0 /\ calm = TRUE

-----------------------------------------------------------------------------
(* Mutant of SetTokens: what is written is taken for a fresh token. *)
SetTokensFresh(o) ==
  file' = [token |-> o.token, deadline |-> now + o.left, lifetime |-> o.left]

(* set_tokens(): the deadline of a token that is there already does not     *)
(* move back, and the lifetime does not shrink.                             *)
SetTokens(o) ==
  file' = [token    |-> o.token,
           deadline |-> IF o.token = file.token
                        THEN Greatest(file.deadline, now + o.left) ELSE now + o.left,
           lifetime |-> Greatest(file.lifetime, o.left)]

(* A token is issued, by a renewal or by any other request through the      *)
(* provider, and written.                                                   *)
Issue(d) ==
  /\ issued < MaxTokens
  /\ issued' = issued + 1
  /\ held' = [token |-> issued', left |-> d]
  /\ SetTokens(held')
  /\ life' = d /\ announced' = now + d /\ longest' = Greatest(longest, d)
  /\ calm' = (retryAt <= now)
  /\ UNCHANGED <<now, loopVars>>

(* get_tokens(), by a provider that has just started: what is left, in      *)
(* whole seconds.                                                           *)
LoadTokens ==
  /\ held = Nobody /\ file.token # 0
  /\ \E lost \in {0, 1} :
       held' = [token |-> file.token, left |-> Greatest(file.deadline - now - lost, 0)]
  /\ UNCHANGED <<now, file, loopVars, tokenPast, calm>>

(* The object in memory is written again; if it is not fresh, the deadline   *)
(* moves beyond the one that was announced.                                 *)
WriteAgain ==
  /\ held # Nobody
  /\ SetTokens(held)
  /\ calm' = (calm /\ file' = file)
  /\ UNCHANGED <<now, held, loopVars, tokenPast>>

-----------------------------------------------------------------------------
SleepAgain ==
  /\ sleep' = Period(file.lifetime)
  /\ wake' = now + sleep'
  /\ renewing' = FALSE

(* refresh_if_due(), up to its request: is the token near its end, and no   *)
(* failure too recent?                                                      *)
Due == /\ file.token # 0
       /\ Greatest(file.deadline - now, 0) <= Margin(file.lifetime)
       /\ now >= retryAt

LoopWakes ==
  /\ ~renewing /\ wake <= now
  /\ IF Due THEN renewing' = TRUE /\ UNCHANGED <<wake, sleep>> ELSE SleepAgain
  /\ UNCHANGED <<now, file, held, failures, retryAt, tokenPast, calm>>

(* The request went through.  It may have renewed nothing: refused without  *)
(* a word, the provider then forgets its copy, or not asked to.             *)
RenewalAnswered ==
  /\ renewing
  /\ SleepAgain
  /\ failures' = 0 /\ retryAt' = 0
  /\ held' \in {held, Nobody}
  /\ calm' = (calm /\ held' = held
                   /\ Greatest(file.deadline - now, 0) > Margin(file.lifetime))
  /\ UNCHANGED <<now, file, tokenPast>>

(* The authorization server is out of reach. *)
RenewalFails ==
  /\ renewing
  /\ SleepAgain
  /\ failures' = Least(failures + 1, BackOffCap)
  /\ retryAt' = now + Least(BackOffCap, 2 ^ failures')
  /\ calm' = FALSE
  /\ UNCHANGED <<now, file, held, tokenPast>>

(* The proxy starts again, with nothing but the file. *)
TokenRestart ==
  /\ held' = Nobody /\ failures' = 0 /\ retryAt' = 0
  /\ SleepAgain
  /\ calm' = FALSE
  /\ UNCHANGED <<now, file, tokenPast>>

(* The machine does not sleep: the loop wakes when it must. *)
TokenTick ==
  /\ now < MaxTime
  /\ ~renewing /\ now < wake
  /\ now' = now + 1
  /\ UNCHANGED <<file, held, loopVars, tokenPast, calm>>

TokenNext ==
  \/ TokenTick \/ LoadTokens \/ WriteAgain \/ LoopWakes
  \/ RenewalAnswered \/ RenewalFails \/ TokenRestart
  \/ \E d \in Lives : Issue(d)

TokenSpec == TokenInit /\ [][TokenNext]_tokenVars

-----------------------------------------------------------------------------
(* Whatever copies of a token are written again, and however stale, its      *)
(* deadline is not before the one that was announced, and the lifetime      *)
(* that calibrates the loop is the longest that was.                        *)
RecordKept ==
  /\ file.token # 0 => file.deadline >= announced
  /\ file.lifetime = longest

(* A token is renewed before its end, when the server answers, as soon as   *)
(* the loop sleeps no longer than the lifetime in the file commands.        *)
Sampled  == sleep <= Period(file.lifetime) /\ wake <= now + sleep
Lapses   == file.token # 0 /\ now < announced /\ now' >= announced'
RenewedInTime == calm /\ Sampled /\ life = longest => ~Lapses

TokenSound == [][RecordKept' /\ RenewedInTime]_tokenVars

(* docs/auth.md:391 says that several wake-ups must fall in the window that *)
(* precedes the end, and authorizer.py:208 that a loop that wakes after the *)
(* end finds a dead token: also when a server shortens its tokens.          *)
WindowSampled == [][calm /\ Sampled => ~Lapses]_tokenVars
=============================================================================
