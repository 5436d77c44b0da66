---------------------------- MODULE SearchChain ----------------------------
(***************************************************************************)
(* The chain of search engines of mcp_web (search/__init__.py): engines    *)
(* are tried in order, one that fails is paused, and one of them spaces    *)
(* its own requests (search/ddg.py).  Pauses and the next free slot belong *)
(* to the engines, which every search of the process shares; each await of *)
(* a search lets the others run.                                           *)
(*                                                                         *)
(* Time counts units of some seconds; Forever outlasts the process.        *)
(***************************************************************************)
EXTENDS Integers, Sequences

CONSTANTS
  Chain,        \* the engines, in the order they are tried
  Spaced,       \* those that space their requests (ddg)
  Picturing,    \* those that also search images (brave)
  Searches,     \* calls of search or image_search
  Budget,       \* SEARCH_BUDGET_S
  MinAttempt,   \* _MIN_ATTEMPT_S
  MinFetch,     \* _MIN_FETCH_S
  MaxWait,      \* _MAX_WAIT_S
  Interval,     \* _MIN_INTERVAL_S
  Cooldowns,    \* the pauses a failure asks for: 60 s, 600 s, 2 h 30, Forever
  Forever,      \* KEY_REJECTED_COOLDOWN_S
  MaxClock      \* BOUND: units of time that pass

Engines == {Chain[i] : i \in DOMAIN Chain}

ASSUME SearchAssumption ==
  /\ Chain \in Seq(Engines)
  /\ Spaced \subseteq Engines /\ Picturing \subseteq Engines
  /\ {Budget, MinAttempt, MinFetch, MaxWait, Interval, Forever, MaxClock} \subseteq Nat
  /\ Cooldowns \subseteq 1 .. Forever /\ Forever > MaxClock + 1

VARIABLES
  clock,       \* time.monotonic()
  downUntil,   \* down_until of each engine
  nextSlot,    \* next_slot of each spaced engine
  search,      \* each call: where it is, until when, for what it was let in
  sentAt       \* history: when each engine was last asked

searchVars == <<clock, downUntil, nextSlot, search, sentAt>>

Later(a, b)   == IF a > b THEN a ELSE b
NoSearch      == [phase |-> "idle", at |-> 0, kind |-> "web", deadline |-> 0,
                  slot |-> 0, paused |-> 0]
Over(s)       == [search EXCEPT ![s] = [NoSearch EXCEPT !.phase = "done"]]

SearchInit ==
  /\ clock = 1
  /\ downUntil = [e \in Engines |-> 0]
  /\ nextSlot = [e \in Spaced |-> 0]
  /\ search = [s \in Searches |-> NoSearch]
  /\ sentAt = [e \in Engines |-> 0 - Interval]

-----------------------------------------------------------------------------
Serves(e, kind) == kind = "web" \/ e \in Picturing

(* The slot a search would get, and whether it is near enough. *)
Slot(e) == Later(clock, nextSlot[e])
SlotReachable(e, deadline) ==
  LET wait == Slot(e) - clock IN
    wait <= MaxWait /\ wait + MinFetch <= deadline - clock

(* Mutant of Tries: a paused engine is tried all the same. *)
TriesPaused(e, kind, deadline) ==
  /\ Serves(e, kind)
  /\ deadline - clock >= MinAttempt
  /\ e \in Spaced => SlotReachable(e, deadline)

(* Does a search that comes to e try it, or set it aside at once? *)
Tries(e, kind, deadline) ==
  /\ Serves(e, kind)
  /\ downUntil[e] <= clock
  /\ deadline - clock >= MinAttempt
  /\ e \in Spaced => SlotReachable(e, deadline)

(* Mutant of Reserve: the slot is taken when its time comes. *)
ReserveLate(e) == UNCHANGED nextSlot

(* The slot is reserved before the wait, with no await between reading the  *)
(* next one and writing it.                                                 *)
Reserve(e) ==
  nextSlot' = [x \in Spaced |-> IF x = e THEN Slot(e) + Interval ELSE nextSlot[x]]

(* The request leaves for e at once, or waits for its slot. *)
TryNext(s, i, kind, deadline) ==
  LET open == {j \in i .. Len(Chain) : Tries(Chain[j], kind, deadline)} IN
    \/ /\ open = {}
       /\ search' = Over(s)
       /\ UNCHANGED <<nextSlot, sentAt>>
    \/ \E j \in open :
         LET e == Chain[j]
             waits == e \in Spaced /\ Slot(e) > clock
         IN /\ \A h \in open : j <= h
            /\ search' = [search EXCEPT ![s] =
                 [phase |-> IF waits THEN "waiting" ELSE "asking", at |-> j,
                  kind |-> kind, deadline |-> deadline,
                  slot |-> IF waits THEN Slot(e) ELSE clock,
                  paused |-> downUntil[e]]]
            /\ IF e \in Spaced THEN Reserve(e) ELSE UNCHANGED nextSlot
            /\ sentAt' = IF waits THEN sentAt ELSE [sentAt EXCEPT ![e] = clock]

SearchBegins(s, kind) ==
  /\ search[s].phase = "idle"
  /\ TryNext(s, 1, kind, clock + Budget)
  /\ UNCHANGED <<clock, downUntil>>

(* The sleep is over: the request leaves. *)
SlotComes(s) ==
  /\ search[s].phase = "waiting" /\ search[s].slot <= clock
  /\ search' = [search EXCEPT ![s].phase = "asking"]
  /\ sentAt' = [sentAt EXCEPT ![Chain[search[s].at]] = clock]
  /\ UNCHANGED <<clock, downUntil, nextSlot>>

(* The engine answers, be it with no result. *)
EngineAnswers(s) ==
  /\ search[s].phase = "asking"
  /\ search' = Over(s)
  /\ UNCHANGED <<clock, downUntil, nextSlot, sentAt>>

(* The engine refuses the key, asks for less, challenges, is out of reach: *)
(* it is paused accordingly, and the search goes on from the next one.     *)
EngineFails(s, cooldown) ==
  /\ search[s].phase = "asking"
  /\ LET e == Chain[search[s].at] IN
       downUntil' = [downUntil EXCEPT ![e] =
                       IF cooldown = Forever THEN Forever
                       ELSE IF clock + cooldown > MaxClock THEN MaxClock + 1
                       ELSE clock + cooldown]
  /\ TryNext(s, search[s].at + 1, search[s].kind, search[s].deadline)
  /\ UNCHANGED clock

(* The client gives up its call; the slot it had reserved stays taken. *)
SearchDropped(s) ==
  /\ search[s].phase \in {"waiting", "asking"}
  /\ search' = Over(s)
  /\ UNCHANGED <<clock, downUntil, nextSlot, sentAt>>

(* The loop wakes the sleepers of this instant before time passes. *)
SearchTick ==
  /\ clock < MaxClock
  /\ \A s \in Searches : search[s].phase = "waiting" => search[s].slot > clock
  /\ clock' = clock + 1
  /\ UNCHANGED <<downUntil, nextSlot, search, sentAt>>

SearchNext ==
  \/ SearchTick
  \/ \E s \in Searches :
       \/ \E kind \in {"web", "images"} : SearchBegins(s, kind)
       \/ SlotComes(s) \/ EngineAnswers(s) \/ SearchDropped(s)
       \/ \E c \in Cooldowns : EngineFails(s, c)

SearchSpec == SearchInit /\ [][SearchNext]_searchVars

-----------------------------------------------------------------------------
(* ddg's requests leave at least Interval apart, however many searches wait *)
(* for their slot, fail or are dropped meanwhile.                           *)
RequestsSpaced ==
  \A e \in Spaced : sentAt'[e] # sentAt[e] => sentAt'[e] - sentAt[e] >= Interval

(* The pause of an engine is shortened by nothing but a search that had     *)
(* been let in before that pause began.                                     *)
PauseHolds ==
  \A e \in Engines : downUntil'[e] < downUntil[e] =>
    \E s \in Searches :
      /\ search[s].phase = "asking" /\ Chain[search[s].at] = e
      /\ search[s].paused # downUntil[e]

(* An engine whose key was refused, and that no search is at, is asked no   *)
(* more, and its pause lasts.                                               *)
IsAt(s, e) == search[s].phase \in {"waiting", "asking"} /\ Chain[search[s].at] = e

RejectedOut ==
  \A e \in Engines :
    downUntil[e] = Forever /\ (\A s \in Searches : ~IsAt(s, e)) =>
      downUntil'[e] = Forever /\ \A s \in Searches : ~IsAt(s, e)'

(* Engines are spared: requests are spaced, pauses hold, and a refused key  *)
(* puts its engine out unless another search is at it by then.              *)
EnginesSpared == [][RequestsSpaced /\ PauseHolds /\ RejectedOut]_searchVars

(* search/common.py:31 and 124-126 say more: an engine whose key was        *)
(* refused is out until the server restarts.  A search that was at it and    *)
(* times out after the refusal shortens that pause to its own.              *)
RejectedStaysOut ==
  [][\A e \in Engines : downUntil[e] = Forever => downUntil'[e] = Forever]_searchVars

(* search/ddg.py:31 says of an engine in pause that asking it again teaches *)
(* nothing and may prolong the blocking: no request leaves for it.          *)
PauseRespected ==
  [][\A e \in Engines : sentAt'[e] # sentAt[e] => downUntil[e] <= clock]_searchVars
=============================================================================
