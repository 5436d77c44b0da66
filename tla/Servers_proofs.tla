--------------------------- MODULE Servers_proofs ---------------------------
(***************************************************************************)
(* The servers that run in the process of the proxy.  The engines of       *)
(* SearchChain are spared, for any chain, searches, budgets and pauses; an *)
(* entry of WebCache holds what belongs together, for any addresses and    *)
(* visits; the documents of a session of DocsSessions are kept, for any    *)
(* sessions, references, quota and time to live.                           *)
(***************************************************************************)
EXTENDS SearchChain, WebCache, DocsSessions, FiniteSetTheorems, TLAPS

(***************************************************************************)
(* The engines: what is in the queue of a spaced engine, and where its     *)
(* next free slot stands, keeps its requests apart.                        *)
(***************************************************************************)

Calls == [phase : {"idle", "waiting", "asking", "done"}, at : Nat, kind : {"web", "images"},
          deadline : Int, slot : Nat, paused : Nat]

SearchTypes ==
  /\ clock \in Nat /\ clock <= MaxClock + 1
  /\ downUntil \in [Engines -> Nat]
  /\ nextSlot \in [Spaced -> Nat]
  /\ search \in [Searches -> Calls]
  /\ sentAt \in [Engines -> Int]

Waits(s)  == search[s].phase = "waiting"
Target(s) == Chain[search[s].at]

(* A search under way is at an engine that was not in pause when it came. *)
Admitted ==
  \A s \in Searches : search[s].phase \in {"waiting", "asking"} =>
    search[s].at \in DOMAIN Chain /\ search[s].paused <= clock

(* The next slot of an engine is after its last request, and the queue of   *)
(* those that wait lies between the two.                                    *)
Paced == \A e \in Spaced : sentAt[e] + Interval <= nextSlot[e]
Queued ==
  \A s \in Searches : Waits(s) =>
    /\ Target(s) \in Spaced /\ clock <= search[s].slot
    /\ sentAt[Target(s)] + Interval <= search[s].slot
    /\ search[s].slot + Interval <= nextSlot[Target(s)]
Apart ==
  \A s, t \in Searches : s # t /\ Waits(s) /\ Waits(t) /\ Target(s) = Target(t) =>
    \/ search[s].slot + Interval <= search[t].slot
    \/ search[t].slot + Interval <= search[s].slot

SearchInv == SearchTypes /\ Admitted /\ Paced /\ Queued /\ Apart

-----------------------------------------------------------------------------
LEMMA SearchNumbers ==
  /\ Interval \in Nat /\ MaxClock \in Nat /\ Forever \in Nat /\ Budget \in Nat
  /\ Forever > MaxClock + 1 /\ Spaced \subseteq Engines
  /\ \A c \in Cooldowns : c \in Nat /\ c >= 1
  /\ DOMAIN Chain = 1 .. Len(Chain) /\ Len(Chain) \in Nat
  /\ \A i \in DOMAIN Chain : Chain[i] \in Engines
<1>1. DOMAIN Chain = 1 .. Len(Chain) /\ Len(Chain) \in Nat
  BY SearchAssumption
<1>2. \A i \in DOMAIN Chain : Chain[i] \in Engines
  BY DEF Engines
<1> QED BY <1>1, <1>2, SearchAssumption

(* A search that goes no further. *)
Stops(s) == search' = Over(s) /\ UNCHANGED <<nextSlot, sentAt>>

(* A search that is let in at position j, as the record r says: its request *)
(* leaves at once, or waits for the slot it has reserved.                   *)
LetIn(s, j, r) ==
  /\ search' = [search EXCEPT ![s] = r]
  /\ r.at = j /\ r.paused = downUntil[Chain[j]] /\ downUntil[Chain[j]] <= clock
  /\ \/ /\ r.phase = "asking" /\ sentAt' = [sentAt EXCEPT ![Chain[j]] = clock]
        /\ Chain[j] \in Spaced => nextSlot[Chain[j]] <= clock
     \/ /\ r.phase = "waiting" /\ sentAt' = sentAt
        /\ Chain[j] \in Spaced /\ r.slot = Slot(Chain[j]) /\ r.slot > clock
  /\ IF Chain[j] \in Spaced THEN Reserve(Chain[j]) ELSE UNCHANGED nextSlot

(* What trying the engines from position i on comes to. *)
LEMMA Tried ==
  ASSUME SearchTypes, NEW s \in Searches, NEW i \in Nat, i >= 1,
         NEW kind \in {"web", "images"}, NEW deadline \in Int,
         TryNext(s, i, kind, deadline)
  PROVE  Stops(s) \/ \E j \in DOMAIN Chain : \E r \in Calls : LetIn(s, j, r)
<1> DEFINE open == {j \in i .. Len(Chain) : Tries(Chain[j], kind, deadline)}
<1>1. CASE open = {} /\ search' = Over(s) /\ UNCHANGED <<nextSlot, sentAt>>
  BY <1>1 DEF Stops
<1>2. CASE \E j \in open :
             LET e == Chain[j]
                 waits == e \in Spaced /\ Slot(e) > clock
             IN /\ \A h \in open : j <= h
                /\ search' = [search EXCEPT ![s] =
                     [phase |-> IF waits THEN "waiting" ELSE "asking", at |-> j,
                      kind |-> kind, deadline |-> deadline,
                      slot |-> IF waits THEN Slot(e) ELSE clock,
                      paused |-> downUntil[e]]]
                /\ IF e \in Spaced THEN Reserve(e) ELSE UNCHANGED nextSlot
                /\ sentAt' = IF waits THEN sentAt ELSE [sentAt EXCEPT ![e] = clock]
  <2>1. PICK j \in open :
             LET e == Chain[j]
                 waits == e \in Spaced /\ Slot(e) > clock
             IN /\ search' = [search EXCEPT ![s] =
                     [phase |-> IF waits THEN "waiting" ELSE "asking", at |-> j,
                      kind |-> kind, deadline |-> deadline,
                      slot |-> IF waits THEN Slot(e) ELSE clock,
                      paused |-> downUntil[e]]]
                /\ IF e \in Spaced THEN Reserve(e) ELSE UNCHANGED nextSlot
                /\ sentAt' = IF waits THEN sentAt ELSE [sentAt EXCEPT ![e] = clock]
    BY <1>2
  <2>2. j \in DOMAIN Chain /\ j \in Nat /\ Chain[j] \in Engines /\ downUntil[Chain[j]] <= clock
    BY SearchNumbers DEF Tries
  <2>3. clock \in Nat /\ downUntil[Chain[j]] \in Nat
    BY <2>2 DEF SearchTypes
  <2>4. Chain[j] \in Spaced => Slot(Chain[j]) \in Nat /\ nextSlot[Chain[j]] <= Slot(Chain[j])
    BY <2>3 DEF Slot, Later, SearchTypes
  <2>5. CASE Chain[j] \in Spaced /\ Slot(Chain[j]) > clock
    <3> DEFINE r == [phase |-> "waiting", at |-> j, kind |-> kind, deadline |-> deadline,
                     slot |-> Slot(Chain[j]), paused |-> downUntil[Chain[j]]]
    <3>1. r \in Calls
      BY <2>2, <2>3, <2>4, <2>5 DEF Calls
    <3>2. LetIn(s, j, r)
      BY <2>1, <2>2, <2>5 DEF LetIn
    <3> QED BY <2>2, <3>1, <3>2
  <2>6. CASE ~(Chain[j] \in Spaced /\ Slot(Chain[j]) > clock)
    <3> DEFINE r == [phase |-> "asking", at |-> j, kind |-> kind, deadline |-> deadline,
                     slot |-> clock, paused |-> downUntil[Chain[j]]]
    <3>1. r \in Calls
      BY <2>2, <2>3 DEF Calls
    <3>2. Chain[j] \in Spaced => nextSlot[Chain[j]] <= clock
      BY <2>3, <2>4, <2>6 DEF SearchTypes
    <3>3. LetIn(s, j, r)
      BY <2>1, <2>2, <2>6, <3>2 DEF LetIn
    <3> QED BY <2>2, <3>1, <3>3
  <2> QED BY <2>5, <2>6
<1> QED BY <1>1, <1>2 DEF TryNext

-----------------------------------------------------------------------------
(* A search that leaves the queue, or gives up, disturbs nobody. *)
LEMMA StopKeeps ==
  ASSUME SearchInv, NEW s \in Searches, Stops(s), clock' = clock,
         downUntil' \in [Engines -> Nat]
  PROVE  SearchInv'
<1> USE DEF SearchInv, SearchTypes
<1>1. Over(s) \in [Searches -> Calls] /\ Over(s)[s].phase = "done"
      /\ \A t \in Searches : t # s => Over(s)[t] = search[t]
  BY DEF Over, NoSearch, Calls
<1>2. search' = Over(s) /\ nextSlot' = nextSlot /\ sentAt' = sentAt
  BY DEF Stops
<1>3. SearchTypes'
  BY <1>1, <1>2
<1>4. Admitted'
  BY <1>1, <1>2 DEF Admitted
<1>5. Paced'
  BY <1>2 DEF Paced
<1>6. Queued'
  BY <1>1, <1>2 DEF Queued, Waits, Target
<1>7. Apart'
  BY <1>1, <1>2 DEF Apart, Waits, Target
<1> QED BY <1>3, <1>4, <1>5, <1>6, <1>7

(* A search that is let in finds its place behind those that wait. *)
LEMMA LetInKeeps ==
  ASSUME SearchInv, NEW s \in Searches, ~Waits(s), NEW j \in DOMAIN Chain, NEW r \in Calls,
         LetIn(s, j, r), clock' = clock, downUntil' \in [Engines -> Nat]
  PROVE  SearchInv' /\ RequestsSpaced
<1> DEFINE e == Chain[j]
<1> USE SearchNumbers DEF SearchInv, SearchTypes
<1>1. e \in Engines /\ j \in Nat
  OBVIOUS
<1>2. search' \in [Searches -> Calls] /\ search'[s] = r
      /\ \A t \in Searches : t # s => search'[t] = search[t]
  BY DEF LetIn
<1>3. r \in Calls /\ r.at = j /\ r.paused <= clock
      /\ r.slot \in Nat /\ r.phase \in {"waiting", "asking"}
  BY DEF LetIn, Calls
<1>4. ASSUME e \in Spaced
      PROVE  /\ Slot(e) \in Nat /\ Slot(e) >= clock /\ Slot(e) >= nextSlot[e]
             /\ nextSlot'[e] = Slot(e) + Interval
  BY <1>4, <1>1 DEF LetIn, Reserve, Slot, Later
<1>5. /\ nextSlot' \in [Spaced -> Nat]
      /\ \A x \in Spaced : x # e => nextSlot'[x] = nextSlot[x]
  BY <1>1, <1>4 DEF LetIn, Reserve
<1>6. /\ sentAt' \in [Engines -> Int]
      /\ \A x \in Engines : x # e => sentAt'[x] = sentAt[x]
      /\ sentAt'[e] # sentAt[e] => sentAt'[e] = clock
      /\ r.phase = "waiting" => sentAt'[e] = sentAt[e] /\ e \in Spaced /\ r.slot = Slot(e)
      /\ sentAt'[e] # sentAt[e] /\ e \in Spaced => nextSlot[e] <= clock
  BY <1>1 DEF LetIn
<1> DEFINE Moves(x) ==
      /\ nextSlot[x] \in Nat /\ nextSlot'[x] \in Nat /\ sentAt[x] \in Int
      /\ nextSlot'[x] >= nextSlot[x]
      /\ \/ sentAt'[x] = sentAt[x]
         \/ sentAt'[x] = clock /\ nextSlot[x] <= clock /\ clock + Interval <= nextSlot'[x]
<1>6a. ASSUME NEW x \in Spaced PROVE Moves(x)
  <2>1. nextSlot[x] \in Nat /\ nextSlot'[x] \in Nat /\ sentAt[x] \in Int
    BY <1>5
  <2>2. CASE x = e
    <3>1. nextSlot'[e] = Slot(e) + Interval /\ Slot(e) \in Nat
          /\ Slot(e) >= clock /\ Slot(e) >= nextSlot[e]
      BY <2>2, <1>4
    <3>2. sentAt'[e] = sentAt[e] \/ (sentAt'[e] = clock /\ nextSlot[e] <= clock)
      BY <2>2, <1>6
    <3> QED BY <2>1, <2>2, <3>1, <3>2
  <2>3. CASE x # e
    BY <2>1, <2>3, <1>5, <1>6
  <2> QED BY <2>2, <2>3
<1> HIDE DEF Moves
<1>7. SearchTypes'
  BY <1>2, <1>5, <1>6
<1>8. Admitted'
  BY <1>2, <1>3 DEF Admitted
<1>9. Paced'
  <2> SUFFICES ASSUME NEW x \in Spaced PROVE sentAt'[x] + Interval <= nextSlot'[x]
    BY DEF Paced
  <2>1. sentAt[x] + Interval <= nextSlot[x] /\ sentAt[x] \in Int /\ nextSlot[x] \in Nat
    BY DEF Paced
  <2>2. Moves(x)
    BY <1>6a
  <2>3. nextSlot'[x] >= nextSlot[x] /\ nextSlot'[x] \in Nat /\ Interval \in Nat /\ clock \in Nat
    BY <2>2 DEF Moves
  <2>4. CASE sentAt'[x] = sentAt[x]
    BY <2>1, <2>3, <2>4
  <2>5. CASE sentAt'[x] = clock /\ clock + Interval <= nextSlot'[x]
    BY <2>3, <2>5
  <2> QED BY <2>2, <2>4, <2>5 DEF Moves
<1>10. Queued'
  <2> SUFFICES ASSUME NEW t \in Searches, search'[t].phase = "waiting"
               PROVE  LET x == Chain[search'[t].at] IN
                      /\ x \in Spaced /\ clock <= search'[t].slot
                      /\ sentAt'[x] + Interval <= search'[t].slot
                      /\ search'[t].slot + Interval <= nextSlot'[x]
    BY DEF Queued, Waits, Target
  <2>1. CASE t = s
    <3>1. r.phase = "waiting" /\ r.at = j /\ search'[t] = r
      BY <1>2, <1>3, <2>1
    <3>2. sentAt[e] + Interval <= nextSlot[e] /\ sentAt[e] \in Int /\ nextSlot[e] \in Nat
      BY <3>1, <1>6, <1>1 DEF Paced
    <3>3. /\ e \in Spaced /\ r.slot = Slot(e) /\ Slot(e) \in Nat /\ Slot(e) >= clock
          /\ Slot(e) >= nextSlot[e] /\ nextSlot'[e] = Slot(e) + Interval /\ sentAt'[e] = sentAt[e]
      BY <3>1, <1>4, <1>6
    <3>4. clock <= r.slot /\ sentAt'[e] + Interval <= r.slot /\ r.slot + Interval <= nextSlot'[e]
      BY <3>2, <3>3
    <3>5. Chain[search'[t].at] = e
      BY <3>1
    <3> QED BY <3>1, <3>3, <3>4, <3>5
  <2>2. CASE t # s
    <3> DEFINE x == Chain[search[t].at]
    <3>1. /\ search'[t] = search[t] /\ search[t].slot \in Nat /\ x \in Spaced
          /\ clock <= search[t].slot /\ sentAt[x] + Interval <= search[t].slot
          /\ search[t].slot + Interval <= nextSlot[x]
          /\ sentAt[x] \in Int /\ nextSlot[x] \in Nat
      BY <1>2, <2>2 DEF Queued, Waits, Target, Calls
    <3>2. Moves(x)
      BY <3>1, <1>6a
    <3>3. nextSlot'[x] >= nextSlot[x] /\ nextSlot'[x] \in Nat /\ Interval \in Nat /\ clock \in Nat
      BY <3>2 DEF Moves
    <3>4. CASE sentAt'[x] = sentAt[x]
      BY <3>1, <3>3, <3>4
    <3>5. CASE sentAt'[x] = clock /\ nextSlot[x] <= clock
      <4>1. search[t].slot + Interval <= clock
        BY <3>1, <3>3, <3>5
      <4>2. sentAt'[x] + Interval <= search[t].slot
        BY <4>1, <3>1, <3>3, <3>5
      <4> QED BY <4>2, <3>1, <3>3
    <3> QED BY <3>1, <3>2, <3>4, <3>5 DEF Moves
  <2> QED BY <2>1, <2>2
<1>11. Apart'
  <2> SUFFICES ASSUME NEW t \in Searches, NEW u \in Searches, t # u,
                      search'[t].phase = "waiting", search'[u].phase = "waiting",
                      Chain[search'[t].at] = Chain[search'[u].at]
               PROVE  \/ search'[t].slot + Interval <= search'[u].slot
                      \/ search'[u].slot + Interval <= search'[t].slot
    BY DEF Apart, Waits, Target
  <2>1. ASSUME NEW v \in Searches, v # s, search[v].phase = "waiting", Chain[search[v].at] = e,
               r.phase = "waiting"
        PROVE  search[v].slot + Interval <= r.slot
    <3>1. search[v].slot + Interval <= nextSlot[e] /\ e \in Spaced /\ search[v].slot \in Nat
      BY <2>1 DEF Queued, Waits, Target, Calls
    <3>2. r.slot = Slot(e) /\ Slot(e) \in Nat /\ Slot(e) >= nextSlot[e] /\ nextSlot[e] \in Nat
      BY <2>1, <3>1, <1>4, <1>6
    <3> QED BY <3>1, <3>2
  <2>2. CASE t = s
    BY <2>1, <2>2, <1>2, <1>3
  <2>3. CASE u = s
    BY <2>1, <2>3, <1>2, <1>3
  <2>4. CASE t # s /\ u # s
    BY <2>4, <1>2 DEF Apart, Waits, Target
  <2> QED BY <2>2, <2>3, <2>4
<1>12. RequestsSpaced
  <2> SUFFICES ASSUME NEW x \in Spaced, sentAt'[x] # sentAt[x]
               PROVE  sentAt'[x] - sentAt[x] >= Interval
    BY DEF RequestsSpaced
  <2>1. sentAt[x] + Interval <= nextSlot[x] /\ sentAt[x] \in Int /\ nextSlot[x] \in Nat
    BY DEF Paced
  <2> QED BY <2>1, <1>6a DEF Moves
<1> QED BY <1>7, <1>8, <1>9, <1>10, <1>11, <1>12

(* A search whose slot comes was the first of its queue. *)
LEMMA SlotKeeps ==
  ASSUME SearchInv, NEW s \in Searches, SlotComes(s)
  PROVE  SearchInv' /\ RequestsSpaced
<1> DEFINE e == Target(s)
<1> USE SearchNumbers DEF SearchInv, SearchTypes
<1>1. /\ Waits(s) /\ search[s].slot = clock /\ search[s].slot \in Nat
      /\ e \in Spaced /\ e \in Engines /\ search[s].at \in DOMAIN Chain
  BY DEF SlotComes, Queued, Waits, Calls, Admitted
<1>2. /\ search' \in [Searches -> Calls] /\ search'[s].phase = "asking"
      /\ search'[s].at = search[s].at /\ search'[s].paused = search[s].paused
      /\ \A t \in Searches : t # s => search'[t] = search[t]
  BY DEF SlotComes, Calls
<1>3. /\ sentAt' \in [Engines -> Int] /\ sentAt'[e] = clock
      /\ \A x \in Engines : x # e => sentAt'[x] = sentAt[x]
  BY <1>1 DEF SlotComes, Target
<1>4. nextSlot' = nextSlot /\ clock' = clock /\ downUntil' = downUntil
  BY DEF SlotComes
<1>5. SearchTypes'
  BY <1>2, <1>3, <1>4
<1>6. Admitted'
  BY <1>1, <1>2, <1>4 DEF Admitted, Waits
<1>7. clock + Interval <= nextSlot[e] /\ sentAt[e] + Interval <= clock /\ sentAt[e] \in Int
  BY <1>1 DEF Queued
<1>8. Paced'
  BY <1>3, <1>4, <1>7 DEF Paced
<1>9. Queued'
  <2> SUFFICES ASSUME NEW t \in Searches, search'[t].phase = "waiting"
               PROVE  /\ Chain[search'[t].at] \in Spaced /\ clock <= search'[t].slot
                      /\ sentAt'[Chain[search'[t].at]] + Interval <= search'[t].slot
                      /\ search'[t].slot + Interval <= nextSlot[Chain[search'[t].at]]
    BY <1>4 DEF Queued, Waits, Target
  <2>1. t # s /\ search'[t] = search[t] /\ Waits(t) /\ search[t].slot \in Nat
    BY <1>2 DEF Waits, Calls
  <2>2. /\ Target(t) \in Spaced /\ clock <= search[t].slot
        /\ sentAt[Target(t)] + Interval <= search[t].slot
        /\ search[t].slot + Interval <= nextSlot[Target(t)]
    BY <2>1 DEF Queued
  <2>3. sentAt'[Target(t)] + Interval <= search[t].slot
    <3>1. CASE Target(t) = e
      <4>1. \/ search[s].slot + Interval <= search[t].slot
            \/ search[t].slot + Interval <= search[s].slot
        BY <1>1, <2>1, <3>1 DEF Apart
      <4> QED BY <4>1, <1>1, <1>3, <2>1, <2>2, <3>1
    <3>2. CASE Target(t) # e
      BY <1>3, <2>2, <3>2
    <3> QED BY <3>1, <3>2
  <2> QED BY <2>1, <2>2, <2>3 DEF Target
<1>10. Apart'
  BY <1>2 DEF Apart, Waits, Target
<1>11. RequestsSpaced
  BY <1>3, <1>7 DEF RequestsSpaced
<1> QED BY <1>5, <1>6, <1>8, <1>9, <1>10, <1>11

(* The pause a failure asks for ends after the present. *)
LEMMA PauseKeeps ==
  ASSUME SearchInv, NEW s \in Searches, NEW c \in Cooldowns, EngineFails(s, c)
  PROVE  downUntil' \in [Engines -> Nat] /\ PauseHolds
<1> DEFINE e == Target(s)
<1> USE SearchNumbers DEF SearchInv, SearchTypes
<1>1. search[s].phase = "asking" /\ e \in Engines /\ search[s].paused <= clock
      /\ search[s].paused \in Nat
  BY DEF EngineFails, Admitted, Target, Calls
<1>2. PICK d \in Nat : d >= clock /\ downUntil' = [downUntil EXCEPT ![e] = d]
  <2> DEFINE d == IF c = Forever THEN Forever
                  ELSE IF clock + c > MaxClock THEN MaxClock + 1 ELSE clock + c
  <2>1. d \in Nat /\ d >= clock
    OBVIOUS
  <2>2. downUntil' = [downUntil EXCEPT ![e] = d]
    BY DEF EngineFails, Target
  <2> QED BY <2>1, <2>2
<1>3. PauseHolds
  <2> SUFFICES ASSUME NEW x \in Engines, downUntil'[x] < downUntil[x]
               PROVE  search[s].phase = "asking" /\ Chain[search[s].at] = x
                      /\ search[s].paused # downUntil[x]
    BY DEF PauseHolds
  <2>1. x = e /\ downUntil'[e] = d /\ downUntil[e] \in Nat
    BY <1>1, <1>2
  <2>2. downUntil[e] > clock
    BY <1>2, <2>1
  <2>3. search[s].paused # downUntil[e]
    BY <1>1, <2>1, <2>2
  <2> QED BY <1>1, <2>1, <2>3 DEF Target
<1> QED BY <1>1, <1>2, <1>3

(* Every step keeps the invariant, and spares the engines. *)
LEMMA SearchStep ==
  ASSUME SearchInv, [SearchNext]_searchVars
  PROVE  SearchInv' /\ [RequestsSpaced /\ PauseHolds]_searchVars
<1> USE SearchNumbers DEF SearchInv, SearchTypes
<1>1. CASE SearchTick
  <2>1. clock' = clock + 1 /\ clock < MaxClock /\ UNCHANGED <<downUntil, nextSlot, search, sentAt>>
        /\ \A s \in Searches : Waits(s) => search[s].slot > clock
    BY <1>1 DEF SearchTick, Waits
  <2>2. SearchTypes'
    BY <2>1
  <2>3. Admitted' /\ Paced' /\ Apart'
    BY <2>1 DEF Admitted, Paced, Apart, Waits, Target, Calls
  <2>4. Queued'
    BY <2>1 DEF Queued, Waits, Target, Calls
  <2>5. RequestsSpaced /\ PauseHolds
    BY <2>1 DEF RequestsSpaced, PauseHolds
  <2> QED BY <2>2, <2>3, <2>4, <2>5
<1>2. ASSUME NEW s \in Searches, NEW kind \in {"web", "images"}, SearchBegins(s, kind)
      PROVE  SearchInv' /\ RequestsSpaced /\ PauseHolds
  <2>1. ~Waits(s) /\ UNCHANGED <<clock, downUntil>> /\ TryNext(s, 1, kind, clock + Budget)
    BY <1>2 DEF SearchBegins, Waits
  <2>2. PauseHolds
    BY <2>1 DEF PauseHolds
  <2>3. Stops(s) \/ \E j \in DOMAIN Chain : \E r \in Calls : LetIn(s, j, r)
    <3>1. clock + Budget \in Int
      OBVIOUS
    <3> QED BY <2>1, <3>1, Tried
  <2>4. CASE Stops(s)
    BY <2>1, <2>2, <2>4, StopKeeps DEF Stops, RequestsSpaced
  <2>5. CASE \E j \in DOMAIN Chain : \E r \in Calls : LetIn(s, j, r)
    BY <2>1, <2>2, <2>5, LetInKeeps
  <2> QED BY <2>3, <2>4, <2>5
<1>3. ASSUME NEW s \in Searches, NEW c \in Cooldowns, EngineFails(s, c)
      PROVE  SearchInv' /\ RequestsSpaced /\ PauseHolds
  <2>1. downUntil' \in [Engines -> Nat] /\ PauseHolds
    BY <1>3, PauseKeeps
  <2>2. ~Waits(s) /\ clock' = clock
        /\ TryNext(s, search[s].at + 1, search[s].kind, search[s].deadline)
    BY <1>3 DEF EngineFails, Waits
  <2>3. Stops(s) \/ \E j \in DOMAIN Chain : \E r \in Calls : LetIn(s, j, r)
    <3>1. search[s].at + 1 \in Nat /\ search[s].at + 1 >= 1
          /\ search[s].kind \in {"web", "images"} /\ search[s].deadline \in Int
      BY DEF Calls
    <3> QED BY <2>2, <3>1, Tried
  <2>4. CASE Stops(s)
    BY <2>1, <2>2, <2>4, StopKeeps DEF Stops, RequestsSpaced
  <2>5. CASE \E j \in DOMAIN Chain : \E r \in Calls : LetIn(s, j, r)
    BY <2>1, <2>2, <2>5, LetInKeeps
  <2> QED BY <2>3, <2>4, <2>5
<1>4. ASSUME NEW s \in Searches, SlotComes(s)
      PROVE  SearchInv' /\ RequestsSpaced /\ PauseHolds
  <2>1. SearchInv' /\ RequestsSpaced
    BY <1>4, SlotKeeps
  <2>2. PauseHolds
    BY <1>4 DEF SlotComes, PauseHolds
  <2> QED BY <2>1, <2>2
<1>5. ASSUME NEW s \in Searches, EngineAnswers(s) \/ SearchDropped(s)
      PROVE  SearchInv' /\ RequestsSpaced /\ PauseHolds
  <2>1. Stops(s) /\ UNCHANGED <<clock, downUntil>>
    BY <1>5 DEF EngineAnswers, SearchDropped, Stops
  <2> QED BY <2>1, StopKeeps DEF Stops, RequestsSpaced, PauseHolds
<1>6. CASE UNCHANGED searchVars
  BY <1>6 DEF searchVars, Admitted, Paced, Queued, Apart, Waits, Target
<1> QED BY <1>1, <1>2, <1>3, <1>4, <1>5, <1>6 DEF SearchNext

(* An engine whose key was refused, and that no search is at, stays so. *)
LEMMA RejectedKeeps ==
  ASSUME SearchInv, [SearchNext]_searchVars
  PROVE  RejectedOut
<1> SUFFICES ASSUME NEW e \in Engines, downUntil[e] = Forever,
                    \A s \in Searches : ~IsAt(s, e)
             PROVE  downUntil'[e] = Forever /\ \A s \in Searches : ~IsAt(s, e)'
  BY DEF RejectedOut
<1> USE SearchNumbers DEF SearchInv, SearchTypes
<1>1. downUntil[e] > clock
  OBVIOUS
<1>2. ASSUME NEW s \in Searches, Stops(s) PROVE \A t \in Searches : ~IsAt(t, e)'
  BY <1>2 DEF Stops, Over, NoSearch, IsAt
<1>3. ASSUME NEW s \in Searches, NEW j \in DOMAIN Chain, NEW r \in Calls, LetIn(s, j, r)
      PROVE  \A t \in Searches : ~IsAt(t, e)'
  <2>1. /\ search'[s] = r /\ r.at = j /\ Chain[j] # e
        /\ \A t \in Searches : t # s => search'[t] = search[t]
    BY <1>1, <1>3 DEF LetIn
  <2> QED BY <2>1 DEF IsAt
<1>4. CASE SearchTick \/ UNCHANGED searchVars
  BY <1>4 DEF SearchTick, searchVars, IsAt
<1>5. ASSUME NEW s \in Searches, NEW kind \in {"web", "images"}, SearchBegins(s, kind)
      PROVE  downUntil'[e] = Forever /\ \A t \in Searches : ~IsAt(t, e)'
  <2>1. clock + Budget \in Int /\ TryNext(s, 1, kind, clock + Budget) /\ downUntil' = downUntil
    BY <1>5 DEF SearchBegins
  <2> QED BY <1>2, <1>3, <2>1, Tried
<1>6. ASSUME NEW s \in Searches, NEW c \in Cooldowns, EngineFails(s, c)
      PROVE  downUntil'[e] = Forever /\ \A t \in Searches : ~IsAt(t, e)'
  <2>1. /\ search[s].at + 1 \in Nat /\ search[s].at + 1 >= 1
        /\ search[s].kind \in {"web", "images"} /\ search[s].deadline \in Int
        /\ TryNext(s, search[s].at + 1, search[s].kind, search[s].deadline)
    BY <1>6 DEF EngineFails, Calls
  <2>2. Chain[search[s].at] # e
    BY <1>6 DEF EngineFails, IsAt
  <2>3. downUntil'[e] = Forever
    BY <1>6, <2>2 DEF EngineFails
  <2> QED BY <1>2, <1>3, <2>1, <2>3, Tried
<1>7. ASSUME NEW s \in Searches, SlotComes(s)
      PROVE  downUntil'[e] = Forever /\ \A t \in Searches : ~IsAt(t, e)'
  BY <1>7 DEF SlotComes, IsAt
<1>8. ASSUME NEW s \in Searches, EngineAnswers(s) \/ SearchDropped(s)
      PROVE  downUntil'[e] = Forever /\ \A t \in Searches : ~IsAt(t, e)'
  BY <1>8 DEF EngineAnswers, SearchDropped, Over, NoSearch, IsAt
<1> QED BY <1>4, <1>5, <1>6, <1>7, <1>8 DEF SearchNext

(* The initial state. *)
LEMMA SearchStarts == SearchInit => SearchInv
<1> SUFFICES ASSUME SearchInit PROVE SearchInv
  OBVIOUS
<1> USE SearchNumbers DEF SearchInit
<1>1. NoSearch \in Calls
  BY DEF NoSearch, Calls
<1>2. SearchTypes
  <2>1. clock \in Nat /\ clock <= MaxClock + 1
    OBVIOUS
  <2>2. search \in [Searches -> Calls]
    BY <1>1
  <2>3. /\ downUntil \in [Engines -> Nat] /\ nextSlot \in [Spaced -> Nat]
        /\ sentAt \in [Engines -> Int]
    OBVIOUS
  <2> QED BY <2>1, <2>2, <2>3 DEF SearchTypes
<1>3. Admitted /\ Queued /\ Apart
  BY DEF Admitted, Queued, Apart, Waits, NoSearch
<1>4. Paced
  BY DEF Paced
<1> QED BY <1>2, <1>3, <1>4 DEF SearchInv

-----------------------------------------------------------------------------
(* The requests of a spaced engine leave at least Interval apart, the pause *)
(* of an engine is shortened only by a search let in before it, and a       *)
(* refused key puts out an engine no other search is at, for any number of  *)
(* searches.                                                                *)
THEOREM EnginesAreSpared == SearchSpec => EnginesSpared
<1>1. ASSUME SearchInv, [SearchNext]_searchVars
      PROVE  SearchInv' /\ [RequestsSpaced /\ PauseHolds /\ RejectedOut]_searchVars
  BY <1>1, SearchStep, RejectedKeeps
<1> QED BY <1>1, SearchStarts, PTL DEF SearchSpec, EnginesSpared

-----------------------------------------------------------------------------
(***************************************************************************)
(* The cache.  Coherence is not inductive: while a page is converted, its  *)
(* entry holds the new HTML and the old text.  What makes it hold again is *)
(* that a visit in the middle of an entry that is not tangled knows what   *)
(* is there (Known), and that the HTML of an entry is no older than what   *)
(* was made of it (Together), so that no sweep takes the HTML and leaves   *)
(* the rest.                                                               *)
(***************************************************************************)

Files == [Kinds -> {Absent} \cup Visits \cup Urls \cup {Nowhere}]
AtPage(o) == visit[o].phase = "converting"

(* What an entry holds and how old it is, so that no sweep separates what   *)
(* belongs together: the HTML is never older than what was made of it.  A   *)
(* structure alone, listed from the page another entry led to, is nobody's. *)
Together(f, a, ps) ==
  /\ f.text \in ps => f.html = f.text /\ a.html <= a.text
  /\ f.text \notin ps \cup {Absent} => f.html = Absent
  /\ (f.text # Absent \/ f.html # Absent) /\ f.structure # Absent =>
       f.structure = f.html /\ a.html <= a.structure

VisitRecords ==
  [phase : {"idle", "fetching", "html", "text", "binary", "converting", "listing",
            "extracting", "done"},
   url : Urls \cup {Nowhere}, final : Urls \cup {Nowhere}, read : Visits \cup {Absent}]

FilesTyped(fs) ==
  /\ fs \in [Urls -> Files]
  /\ \A u \in Urls : /\ fs[u].text \in Visits \cup {Absent}
                     /\ fs[u].html \in Visits \cup {Absent}
                     /\ fs[u].structure \in Visits \cup {Absent}
                     /\ fs[u].alias \in Urls \cup {Nowhere}

CacheTypes ==
  /\ FilesTyped(files)
  /\ ages \in [Urls -> [Kinds -> Nat]]
  /\ visit \in [Visits -> VisitRecords]
  /\ \A o \in Visits :
       /\ visit[o].phase \notin {"idle", "done"} => visit[o].url \in Urls
       /\ visit[o].phase \in {"html", "text", "binary", "converting"} => visit[o].final \in Urls
       /\ visit[o].phase = "extracting" => visit[o].read \in Visits

(* A text and a page are a visit's that has done with them. *)
Signed ==
  /\ pages \subseteq Visits
  /\ \A o \in pages : visit[o].phase \in {"converting", "done"}
  /\ \A u \in Urls : files[u].text # Absent => visit[files[u].text].phase = "done"

(* What a visit knows of the entry it is in the middle of, unless that is   *)
(* tangled: the page it stored, or the HTML it read; an entry whose HTML was *)
(* another's holds nothing.                                                 *)
Bare(u) == files[u].text = Absent /\ files[u].html = Absent

KnownOf(o) ==
  LET u == visit[o].url IN
    u \notin tangled =>
      /\ AtPage(o) => /\ o \in pages /\ files[u].html = o /\ ages[u].html = 0
                      /\ files[u].structure \in {Absent, o}
      /\ visit[o].phase = "extracting" =>
           Bare(u) \/ (files[u].html = visit[o].read /\ ages[u].html = 0)

Known == \A o \in Visits : KnownOf(o)

Filed ==
  \A u \in Urls \ tangled :
    \/ Together(files[u], ages[u], pages)
    \/ \E o \in Visits : Converts(o, u)

CacheInv == CacheTypes /\ Signed /\ Known /\ Filed

-----------------------------------------------------------------------------
(* What a sweep leaves of an entry. *)
LEMMA SweptFields ==
  ASSUME NEW u \in Urls
  PROVE  /\ Swept[u].text = IF ages[u].text > Ttl THEN Absent ELSE files[u].text
         /\ Swept[u].html = IF ages[u].html > Ttl THEN Absent ELSE files[u].html
         /\ Swept[u].structure = IF ages[u].structure > Ttl THEN Absent ELSE files[u].structure
         /\ Swept[u].alias = IF ages[u].alias > Ttl THEN Nowhere ELSE files[u].alias
BY DEF Swept, Kinds, NoFile

LEMMA SweptTyped == CacheTypes => FilesTyped(Swept)
<1> SUFFICES ASSUME CacheTypes PROVE FilesTyped(Swept)
  OBVIOUS
<1>1. NoFile \in Files
  BY DEF NoFile, Files, Kinds
<1>2. ASSUME NEW u \in Urls
      PROVE  [k \in Kinds |-> IF ages[u][k] > Ttl THEN NoFile[k] ELSE files[u][k]] \in Files
  BY <1>1, <1>2 DEF CacheTypes, FilesTyped, Files
<1>3. Swept \in [Urls -> Files]
  BY <1>2 DEF Swept
<1>4. ASSUME NEW u \in Urls
      PROVE  /\ Swept[u].text \in Visits \cup {Absent}
             /\ Swept[u].html \in Visits \cup {Absent}
             /\ Swept[u].structure \in Visits \cup {Absent}
             /\ Swept[u].alias \in Urls \cup {Nowhere}
  BY SweptFields DEF CacheTypes, FilesTyped
<1> QED BY <1>3, <1>4 DEF FilesTyped

(* A sweep does not separate what belongs together. *)
LEMMA SweepKeeps ==
  ASSUME CacheTypes, NEW u \in Urls, NEW ps \in SUBSET Visits,
         Together(files[u], ages[u], ps)
  PROVE  Together(Swept[u], ages[u], ps)
<1>1. /\ ages[u].text \in Nat /\ ages[u].html \in Nat /\ ages[u].structure \in Nat
      /\ Ttl \in Nat /\ Absent \notin Visits
  BY CacheAssumption DEF CacheTypes, Kinds, Absent
<1> DEFINE f == Swept[u]
<1>2. /\ f.text = IF ages[u].text > Ttl THEN Absent ELSE files[u].text
      /\ f.html = IF ages[u].html > Ttl THEN Absent ELSE files[u].html
      /\ f.structure = IF ages[u].structure > Ttl THEN Absent ELSE files[u].structure
  BY SweptFields
<1> HIDE DEF f
<1>3. f.text \in ps => f.html = f.text /\ ages[u].html <= ages[u].text
  BY <1>1, <1>2 DEF Together
<1>4. f.text \notin ps \cup {Absent} => f.html = Absent
  BY <1>1, <1>2 DEF Together
<1>5. (f.text # Absent \/ f.html # Absent) /\ f.structure # Absent =>
        f.structure = f.html /\ ages[u].html <= ages[u].structure
  BY <1>1, <1>2 DEF Together
<1> QED BY <1>3, <1>4, <1>5 DEF Together, f

(* What is refreshed is new, and nothing else is. *)
LEMMA RefreshFields ==
  ASSUME CacheTypes, NEW fresh, Refresh(fresh)
  PROVE  /\ ages' \in [Urls -> [Kinds -> Nat]]
         /\ \A u \in Urls :
              /\ ages'[u].text = IF <<u, "text">> \in fresh THEN 0 ELSE ages[u].text
              /\ ages'[u].html = IF <<u, "html">> \in fresh THEN 0 ELSE ages[u].html
              /\ ages'[u].structure = IF <<u, "structure">> \in fresh THEN 0
                                      ELSE ages[u].structure
<1>1. ages \in [Urls -> [Kinds -> Nat]]
  BY DEF CacheTypes
<1>2. ages' \in [Urls -> [Kinds -> Nat]]
  BY <1>1 DEF Refresh
<1> QED BY <1>1, <1>2 DEF Refresh, Kinds

(* The HTML is refreshed with what was made of it. *)
LEMMA RefreshKeeps ==
  ASSUME CacheTypes, NEW fresh, Refresh(fresh), NEW u \in Urls, NEW f, NEW ps,
         Together(f, ages[u], ps),
         <<u, "html">> \in fresh \/ {<<u, "text">>, <<u, "structure">>} \cap fresh = {}
  PROVE  Together(f, ages'[u], ps)
<1>1. ages[u].text \in Nat /\ ages[u].html \in Nat /\ ages[u].structure \in Nat
  BY DEF CacheTypes, Kinds
<1>2. /\ ages'[u].text \in {0, ages[u].text}
      /\ ages'[u].html \in {0, ages[u].html}
      /\ ages'[u].structure \in {0, ages[u].structure}
      /\ \/ ages'[u].html = 0
         \/ ages'[u].text = ages[u].text /\ ages'[u].structure = ages[u].structure
  BY RefreshFields
<1>3. /\ ages[u].html <= ages[u].text => ages'[u].html <= ages'[u].text
      /\ ages[u].html <= ages[u].structure => ages'[u].html <= ages'[u].structure
  BY <1>1, <1>2
<1> QED BY <1>3 DEF Together

LEMMA EntryTyped ==
  ASSUME NEW fs, FilesTyped(fs), NEW u \in Urls PROVE Entry(fs, u) \in Urls
BY DEF Entry, FilesTyped

(* store_html() and store(), on the files of every entry. *)
LEMMA StoreHtmlFields ==
  ASSUME CacheTypes, NEW o \in Visits, StoreHtml(o)
  PROVE  LET u == visit[o].url IN
           /\ u \in Urls /\ FilesTyped(files')
           /\ files'[u].html = o /\ files'[u].structure = Absent
           /\ files'[u].text = Swept[u].text
           /\ \A v \in Urls : v # u => files'[v] = Swept[v]
<1> DEFINE u == visit[o].url
<1>1. u \in Urls /\ FilesTyped(Swept)
  BY SweptTyped DEF StoreHtml, CacheTypes
<1>2. files' = [Swept EXCEPT ![u].html = o, ![u].structure = Absent]
  BY DEF StoreHtml
<1> HIDE DEF u
<1>3. /\ files'[u].html = o /\ files'[u].structure = Absent
      /\ files'[u].text = Swept[u].text /\ files'[u].alias = Swept[u].alias
      /\ \A v \in Urls : v # u => files'[v] = Swept[v]
      /\ files' \in [Urls -> Files]
  BY <1>1, <1>2 DEF FilesTyped, Files, Kinds
<1>4. FilesTyped(files')
  BY <1>1, <1>3 DEF FilesTyped
<1> QED BY <1>1, <1>3, <1>4 DEF u

LEMMA StoreTextFields ==
  ASSUME CacheTypes, NEW o \in Visits, StoreText(o)
  PROVE  LET u == visit[o].url IN
           /\ u \in Urls /\ FilesTyped(files')
           /\ files'[u].text = o
           /\ visit[o].phase = "text" =>
                files'[u].html = Absent /\ files'[u].structure = Absent
           /\ visit[o].phase = "converting" =>
                files'[u].html = Swept[u].html /\ files'[u].structure = Swept[u].structure
           /\ \A v \in Urls : v # u =>
                /\ files'[v].text = Swept[v].text /\ files'[v].html = Swept[v].html
                /\ files'[v].structure = Swept[v].structure
<1> DEFINE u == visit[o].url
           f == visit[o].final
           fs == IF visit[o].phase = "text"
                 THEN [Swept EXCEPT ![u].html = Absent, ![u].structure = Absent]
                 ELSE Swept
           gs == [fs EXCEPT ![u].text = o]
<1>1. u \in Urls /\ f \in Urls /\ FilesTyped(Swept)
  BY SweptTyped DEF StoreText, CacheTypes
<1>2. files' = gs \/ files' = [gs EXCEPT ![f].alias = u]
  <2>1. files' = IF f = u THEN gs ELSE [fs EXCEPT ![u].text = o, ![f].alias = u]
    BY Zenon DEF StoreText
  <2> QED BY <2>1
<1> HIDE DEF u, f
<1>3. /\ FilesTyped(fs)
      /\ fs[u].text = Swept[u].text
      /\ visit[o].phase = "text" => fs[u].html = Absent /\ fs[u].structure = Absent
      /\ visit[o].phase # "text" => fs = Swept
      /\ \A v \in Urls : v # u => fs[v] = Swept[v]
  <2>1. CASE visit[o].phase # "text"
    BY <1>1, <2>1
  <2>2. CASE visit[o].phase = "text"
    <3>1. fs = [Swept EXCEPT ![u].html = Absent, ![u].structure = Absent]
      BY <2>2
    <3> HIDE DEF fs
    <3>2. /\ fs[u].html = Absent /\ fs[u].structure = Absent
          /\ fs[u].text = Swept[u].text /\ fs[u].alias = Swept[u].alias
          /\ \A v \in Urls : v # u => fs[v] = Swept[v]
          /\ fs \in [Urls -> Files]
      BY <1>1, <3>1 DEF FilesTyped, Files, Kinds
    <3>3. FilesTyped(fs)
      BY <1>1, <3>2 DEF FilesTyped
    <3> QED BY <2>2, <3>2, <3>3
  <2> QED BY <2>1, <2>2
<1> HIDE DEF fs
<1>4. /\ gs \in [Urls -> Files] /\ gs[u].text = o
      /\ gs[u].html = fs[u].html /\ gs[u].structure = fs[u].structure
      /\ gs[u].alias = fs[u].alias
      /\ \A v \in Urls : v # u => gs[v] = fs[v]
  BY <1>1, <1>3 DEF FilesTyped, Files, Kinds
<1>5. FilesTyped(gs)
  BY <1>3, <1>4 DEF FilesTyped
<1> HIDE DEF gs
<1>6. /\ files' \in [Urls -> Files]
      /\ \A v \in Urls : /\ files'[v].text = gs[v].text /\ files'[v].html = gs[v].html
                         /\ files'[v].structure = gs[v].structure
                         /\ files'[v].alias \in {gs[v].alias, u}
  <2>1. CASE files' = gs
    BY <1>5, <2>1 DEF FilesTyped
  <2>2. CASE files' = [gs EXCEPT ![f].alias = u]
    BY <1>1, <1>5, <2>2 DEF FilesTyped, Files, Kinds
  <2> QED BY <1>2, <2>1, <2>2
<1>7. FilesTyped(files')
  BY <1>1, <1>5, <1>6 DEF FilesTyped
<1>8. visit[o].phase = "converting" => fs = Swept
  BY <1>3
<1>9. \A v \in Urls : v # u => gs[v] = Swept[v]
  BY <1>3, <1>4
<1>10. ASSUME NEW v \in Urls, v # u
       PROVE  /\ files'[v].text = Swept[v].text /\ files'[v].html = Swept[v].html
              /\ files'[v].structure = Swept[v].structure
  BY <1>6, <1>9, <1>10
<1>11. /\ files'[u].text = o /\ files'[u].html = fs[u].html
       /\ files'[u].structure = fs[u].structure
  BY <1>1, <1>4, <1>6
<1>12. /\ u \in Urls /\ FilesTyped(files') /\ files'[u].text = o
       /\ (visit[o].phase = "text" => files'[u].html = Absent /\ files'[u].structure = Absent)
       /\ (visit[o].phase = "converting" =>
             files'[u].html = Swept[u].html /\ files'[u].structure = Swept[u].structure)
  BY <1>1, <1>3, <1>7, <1>8, <1>11
<1> QED BY <1>10, <1>12 DEF u

-----------------------------------------------------------------------------
(* What becomes of a visit that moves. *)
Located(v) ==
  /\ v.phase \notin {"idle", "done"} => v.url \in Urls
  /\ v.phase \in {"html", "text", "binary", "converting"} => v.final \in Urls
  /\ v.phase = "extracting" => v.read \in Visits

LEMMA VisitMoves ==
  ASSUME CacheTypes, NEW o \in Visits, NEW r \in VisitRecords, Located(r),
         visit' = [visit EXCEPT ![o] = r]
  PROVE  /\ visit' \in [Visits -> VisitRecords]
         /\ \A p \in Visits : Located(visit'[p])
         /\ visit'[o] = r
         /\ \A p \in Visits : p # o => visit'[p] = visit[p]
<1>1. /\ visit' \in [Visits -> VisitRecords] /\ visit'[o] = r
      /\ \A p \in Visits : p # o => visit'[p] = visit[p]
  BY DEF CacheTypes
<1>2. \A p \in Visits : Located(visit[p])
  BY DEF CacheTypes, Located
<1> QED BY <1>1, <1>2

LEMMA LeftTyped == Left \in VisitRecords /\ Located(Left) /\ Left.phase = "done"
BY DEF Left, VisitRecords, Located

(* Each step of a visit, by what it does to the visit. *)
LEMMA VisitStarts ==
  ASSUME CacheTypes, NEW o \in Visits, NEW u \in Urls, NEW phase, Starts(o, phase, u),
         phase \in {"fetching", "listing", "done"}
  PROVE  \E r \in VisitRecords : Located(r) /\ r.phase = phase /\ visit' = [visit EXCEPT ![o] = r]
<1> DEFINE r == [Left EXCEPT !.phase = phase, !.url = u]
<1>1. r \in VisitRecords /\ r.phase = phase /\ r.url = u
  BY LeftTyped DEF VisitRecords
<1>2. visit' = [visit EXCEPT ![o] = r]
  BY DEF Starts
<1> HIDE DEF r
<1> QED BY <1>1, <1>2 DEF Located

LEMMA VisitFetched ==
  ASSUME CacheTypes, NEW o \in Visits, Fetched(o)
  PROVE  \E r \in VisitRecords :
           /\ Located(r) /\ r.phase \in {"html", "text", "binary", "done"}
           /\ visit' = [visit EXCEPT ![o] = r]
<1>1. PICK kind \in {"html", "text", "binary", "error"}, final \in Urls :
        visit' = [visit EXCEPT ![o] = IF kind = "error" THEN Left
                                      ELSE [visit[o] EXCEPT !.phase = kind, !.final = final]]
  BY DEF Fetched
<1>2. CASE kind = "error"
  BY <1>1, <1>2, LeftTyped
<1>3. CASE kind # "error"
  <2>1. visit[o] \in VisitRecords /\ visit[o].url \in Urls
    BY DEF CacheTypes, Fetched
  <2> DEFINE r == [visit[o] EXCEPT !.phase = kind, !.final = final]
  <2>2. /\ r \in VisitRecords /\ r.phase = kind /\ r.final = final
        /\ r.url = visit[o].url
    BY <1>3, <2>1 DEF VisitRecords
  <2>3. visit' = [visit EXCEPT ![o] = r]
    BY <1>1, <1>3
  <2> HIDE DEF r
  <2>4. Located(r)
    BY <1>3, <2>1, <2>2 DEF Located
  <2> QED BY <1>3, <2>2, <2>3, <2>4
<1> QED BY <1>2, <1>3

LEMMA VisitConverts ==
  ASSUME CacheTypes, NEW o \in Visits, StoreHtml(o)
  PROVE  \E r \in VisitRecords :
           /\ Located(r) /\ r.phase = "converting" /\ r.url = visit[o].url
           /\ visit' = [visit EXCEPT ![o] = r]
<1> DEFINE r == [visit[o] EXCEPT !.phase = "converting"]
<1>1. visit[o] \in VisitRecords /\ visit[o].url \in Urls /\ visit[o].final \in Urls
  BY DEF CacheTypes, StoreHtml
<1>2. /\ r \in VisitRecords /\ r.phase = "converting" /\ r.url = visit[o].url
      /\ r.final = visit[o].final
  BY <1>1 DEF VisitRecords
<1>3. visit' = [visit EXCEPT ![o] = r]
  BY DEF StoreHtml
<1> HIDE DEF r
<1> QED BY <1>1, <1>2, <1>3 DEF Located

LEMMA VisitLists ==
  ASSUME CacheTypes, NEW o \in Visits, LoadHtml(o)
  PROVE  LET u == visit[o].url
             e == Entry(Swept, u)
         IN /\ u \in Urls /\ e \in Urls /\ visit[o].phase = "listing"
            /\ \E r \in VisitRecords :
                 /\ Located(r) /\ visit' = [visit EXCEPT ![o] = r]
                 /\ r.phase \in {"done", "extracting"}
                 /\ r.phase = "extracting" =>
                      /\ r.url = u /\ r.read = Swept[e].html
                      /\ Refresh(Viewed(u, e) \cup Touched(e))
                 /\ r.phase = "done" => Refresh(Viewed(u, e))
<1> DEFINE u == visit[o].url
           e == Entry(Swept, u)
<1>1. /\ visit[o].phase = "listing" /\ visit[o] \in VisitRecords /\ u \in Urls
  BY DEF LoadHtml, CacheTypes
<1>2. e \in Urls /\ Swept[e].html \in Visits \cup {Absent}
  BY <1>1, EntryTyped, SweptTyped DEF FilesTyped
<1>3. IF Swept[e].html = Absent
      THEN visit' = [visit EXCEPT ![o] = Left] /\ Refresh(Viewed(u, e))
      ELSE /\ visit' = [visit EXCEPT ![o].phase = "extracting", ![o].read = Swept[e].html]
           /\ Refresh(Viewed(u, e) \cup Touched(e))
  BY DEF LoadHtml
<1> HIDE DEF e
<1>4. CASE Swept[e].html = Absent
  BY <1>1, <1>2, <1>3, <1>4, LeftTyped DEF e
<1>5. CASE Swept[e].html # Absent
  <2> DEFINE r == [visit[o] EXCEPT !.phase = "extracting", !.read = Swept[e].html]
  <2>1. visit' = [visit EXCEPT ![o] = r] /\ Refresh(Viewed(u, e) \cup Touched(e))
    BY <1>3, <1>5
  <2>2. /\ r \in VisitRecords /\ r.phase = "extracting" /\ r.url = u
        /\ r.read = Swept[e].html
    BY <1>1, <1>2, <1>5 DEF VisitRecords
  <2>3. Located(r)
    BY <1>1, <1>2, <1>5, <2>2 DEF Located
  <2> QED BY <1>1, <1>2, <2>1, <2>2, <2>3 DEF e
<1> QED BY <1>4, <1>5

(* fetch_list begins with the entry its address leads to. *)
LEMMA ListStarts ==
  ASSUME CacheTypes, NEW o \in Visits, NEW u \in Urls, ListBegins(o, u)
  PROVE  Entry(files, u) \in Urls /\ Starts(o, "listing", Entry(files, u))
BY EntryTyped DEF ListBegins, CacheTypes

(* How each step moves the visit it is of. *)
Begins(o) == \E u \in Urls : FetchBegins(o, u) \/ Read(o, u) \/ ListBegins(o, u)
Proceeds(o) == Fetched(o) \/ StoreHtml(o) \/ LoadHtml(o)
Ends(o) == StoreText(o) \/ Purge(o) \/ Structure(o) \/ VisitDropped(o)

LEMMA CacheSteps ==
  CacheNext <=> CacheTick \/ CacheCrash \/ \E o \in Visits : Begins(o) \/ Proceeds(o) \/ Ends(o)
BY DEF CacheNext, Begins, Proceeds, Ends

LEMMA VisitGoes ==
  ASSUME CacheTypes, NEW o \in Visits, Begins(o) \/ Proceeds(o) \/ Ends(o)
  PROVE  /\ visit' \in [Visits -> VisitRecords]
         /\ \A p \in Visits : Located(visit'[p])
         /\ \A p \in Visits : p # o => visit'[p] = visit[p]
         /\ Begins(o) => /\ visit[o].phase = "idle"
                         /\ visit'[o].phase \in {"fetching", "listing", "done"}
         /\ Fetched(o) => /\ visit[o].phase = "fetching"
                          /\ visit'[o].phase \in {"html", "text", "binary", "done"}
         /\ StoreHtml(o) => /\ visit[o].phase = "html" /\ visit'[o].phase = "converting"
                            /\ visit'[o].url = visit[o].url
         /\ LoadHtml(o) => /\ visit[o].phase = "listing"
                           /\ visit'[o].phase \in {"extracting", "done"}
         /\ Ends(o) => visit'[o].phase = "done"
         /\ visit[o].phase # "done"
<1> DEFINE Typed == /\ visit' \in [Visits -> VisitRecords]
                    /\ \A p \in Visits : Located(visit'[p])
                    /\ \A p \in Visits : p # o => visit'[p] = visit[p]
<1>1. ASSUME Begins(o)
      PROVE  Typed /\ visit[o].phase = "idle" /\ visit'[o].phase \in {"fetching", "listing", "done"}
  <2>1. PICK u \in Urls, phase \in {"fetching", "listing", "done"} : Starts(o, phase, u)
    BY <1>1, ListStarts DEF Begins, FetchBegins, Read
  <2>2. PICK r \in VisitRecords : Located(r) /\ r.phase = phase /\ visit' = [visit EXCEPT ![o] = r]
    BY <2>1, VisitStarts
  <2>3. visit[o].phase = "idle"
    BY <2>1 DEF Starts
  <2> QED BY <2>2, <2>3, VisitMoves
<1>2. ASSUME Fetched(o)
      PROVE  /\ Typed /\ visit[o].phase = "fetching"
             /\ visit'[o].phase \in {"html", "text", "binary", "done"}
  BY <1>2, VisitFetched, VisitMoves DEF Fetched
<1>3. ASSUME StoreHtml(o)
      PROVE  /\ Typed /\ visit[o].phase = "html" /\ visit'[o].phase = "converting"
             /\ visit'[o].url = visit[o].url
  <2>1. PICK r \in VisitRecords :
          /\ Located(r) /\ r.phase = "converting" /\ r.url = visit[o].url
          /\ visit' = [visit EXCEPT ![o] = r]
    BY <1>3, VisitConverts
  <2>2. visit[o].phase = "html"
    BY <1>3 DEF StoreHtml
  <2> QED BY <2>1, <2>2, VisitMoves
<1>4. ASSUME LoadHtml(o)
      PROVE  Typed /\ visit[o].phase = "listing" /\ visit'[o].phase \in {"extracting", "done"}
  BY <1>4, VisitLists, VisitMoves
<1>5. ASSUME Ends(o)
      PROVE  /\ Typed /\ visit'[o].phase = "done" /\ visit[o].phase \notin {"idle", "done"}
             /\ visit[o].phase \in {"fetching", "html", "text", "binary", "listing",
                                    "converting", "extracting"}
  <2>1. visit' = [visit EXCEPT ![o] = Left]
    BY <1>5 DEF Ends, StoreText, Purge, Structure, VisitDropped
  <2> QED BY <1>5, <2>1, LeftTyped, VisitMoves
          DEF Ends, StoreText, Purge, Structure, VisitDropped
<1> HIDE DEF Typed
<1>6. Typed
  BY <1>1, <1>2, <1>3, <1>4, <1>5 DEF Proceeds
<1>7. visit[o].phase # "done"
  BY <1>1, <1>2, <1>3, <1>4, <1>5 DEF Proceeds
<1> QED BY <1>1, <1>2, <1>3, <1>4, <1>5, <1>6, <1>7 DEF Typed

(* Each visit that moves had not ended; in a crash, every one that ran ends. *)
LEMMA VisitStep ==
  ASSUME CacheTypes, CacheNext
  PROVE  /\ visit' \in [Visits -> VisitRecords]
         /\ \A p \in Visits : Located(visit'[p])
         /\ \A p \in Visits : visit[p].phase = "done" => visit'[p] = visit[p]
<1>1. CASE CacheTick
  BY <1>1 DEF CacheTick, CacheTypes, Located
<1>2. CASE CacheCrash
  BY <1>2, LeftTyped DEF CacheCrash, CacheTypes, Located, Running
<1>3. CASE \E o \in Visits : Begins(o) \/ Proceeds(o) \/ Ends(o)
  BY <1>3, VisitGoes
<1> QED BY <1>1, <1>2, <1>3, CacheSteps

LEMMA StructureFields ==
  ASSUME CacheTypes, NEW o \in Visits, Structure(o)
  PROVE  /\ FilesTyped(files')
         /\ \A v \in Urls : files'[v].text = Swept[v].text /\ files'[v].html = Swept[v].html
         /\ \A v \in Urls : v # visit[o].url => files'[v].structure = Swept[v].structure
         /\ files'[visit[o].url].structure \in {Swept[visit[o].url].structure, visit[o].read}
<1> DEFINE u == visit[o].url
<1>1. u \in Urls /\ visit[o].read \in Visits /\ FilesTyped(Swept)
  BY SweptTyped DEF Structure, CacheTypes
<1>2. files' = Swept \/ files' = [Swept EXCEPT ![u].structure = visit[o].read]
  BY Zenon DEF Structure
<1> HIDE DEF u
<1>3. CASE files' = Swept
  BY <1>1, <1>3
<1>4. CASE files' = [Swept EXCEPT ![u].structure = visit[o].read]
  <2>1. /\ files' \in [Urls -> Files] /\ files'[u].structure = visit[o].read
        /\ \A v \in Urls : /\ files'[v].text = Swept[v].text /\ files'[v].html = Swept[v].html
                           /\ files'[v].alias = Swept[v].alias
        /\ \A v \in Urls : v # u => files'[v] = Swept[v]
    BY <1>1, <1>4 DEF FilesTyped, Files, Kinds
  <2>2. FilesTyped(files')
    BY <1>1, <2>1 DEF FilesTyped
  <2> QED BY <2>1, <2>2 DEF u
<1> QED BY <1>2, <1>3, <1>4

LEMMA PurgeFields ==
  ASSUME CacheTypes, NEW o \in Visits, Purge(o)
  PROVE  /\ visit[o].url \in Urls /\ FilesTyped(files')
         /\ files'[visit[o].url].text = Absent /\ files'[visit[o].url].html = Absent
         /\ files'[visit[o].url].structure = Absent
         /\ \A v \in Urls : v # visit[o].url => files'[v] = Swept[v]
<1> DEFINE u == visit[o].url
<1>1. u \in Urls /\ FilesTyped(Swept)
  BY SweptTyped DEF Purge, CacheTypes
<1>2. files' = [Swept EXCEPT ![u] = NoFile]
  BY DEF Purge
<1> HIDE DEF u
<1>3. /\ NoFile \in Files /\ NoFile.text = Absent /\ NoFile.html = Absent
      /\ NoFile.structure = Absent /\ NoFile.alias = Nowhere
  BY DEF NoFile, Files, Kinds
<1>4. /\ files' \in [Urls -> Files] /\ files'[u] = NoFile
      /\ \A v \in Urls : v # u => files'[v] = Swept[v]
  BY <1>1, <1>2, <1>3 DEF FilesTyped
<1>5. FilesTyped(files')
  BY <1>1, <1>3, <1>4 DEF FilesTyped
<1> QED BY <1>1, <1>3, <1>4, <1>5 DEF u

-----------------------------------------------------------------------------
LEMMA CacheTypesStep == CacheTypes /\ [CacheNext]_cacheVars => CacheTypes'
<1> SUFFICES ASSUME CacheTypes, [CacheNext]_cacheVars PROVE CacheTypes'
  OBVIOUS
<1>1. CASE UNCHANGED cacheVars
  BY <1>1 DEF cacheVars, CacheTypes, FilesTyped
<1>2. CASE CacheNext
  <2>1. FilesTyped(Swept) /\ FilesTyped(files) /\ ages \in [Urls -> [Kinds -> Nat]]
    BY SweptTyped DEF CacheTypes
  <2>2. CASE CacheTick
    <3>1. ages' \in [Urls -> [Kinds -> Nat]]
      BY <2>1, <2>2, CacheAssumption DEF CacheTick
    <3>2. files' = files
      BY <2>2 DEF CacheTick
    <3> QED BY <1>2, <2>1, <3>1, <3>2, VisitStep DEF CacheTypes, Located
  <2>3. CASE FilesTyped(files') /\ (ages' = ages \/ \E fresh : Refresh(fresh))
    <3>1. ages' \in [Urls -> [Kinds -> Nat]]
      BY <2>1, <2>3, RefreshFields
    <3> QED BY <1>2, <2>3, <3>1, VisitStep DEF CacheTypes, Located
  <2>4. CASE CacheCrash
    BY <2>1, <2>3, <2>4 DEF CacheCrash
  <2>5. ASSUME NEW o \in Visits, Fetched(o) \/ VisitDropped(o) PROVE CacheTypes'
    BY <2>1, <2>3, <2>5 DEF Fetched, VisitDropped
  <2>6. ASSUME NEW o \in Visits, StoreHtml(o) PROVE CacheTypes'
    <3>1. \E fresh : Refresh(fresh)
      BY <2>6 DEF StoreHtml
    <3> QED BY <2>3, <2>6, <3>1, StoreHtmlFields
  <2>7. ASSUME NEW o \in Visits, StoreText(o) PROVE CacheTypes'
    <3>1. \E fresh : Refresh(fresh)
      BY <2>7 DEF StoreText
    <3> QED BY <2>3, <2>7, <3>1, StoreTextFields
  <2>8. ASSUME NEW o \in Visits, Purge(o) PROVE CacheTypes'
    BY <2>3, <2>8, PurgeFields DEF Purge
  <2>9. ASSUME NEW o \in Visits, Structure(o) PROVE CacheTypes'
    <3>1. \E fresh : Refresh(fresh)
      BY <2>9, Zenon DEF Structure
    <3> QED BY <2>3, <2>9, <3>1, StructureFields
  <2>10. ASSUME NEW o \in Visits, NEW u \in Urls, FetchBegins(o, u) PROVE CacheTypes'
    BY <2>1, <2>3, <2>10 DEF FetchBegins
  <2>11. ASSUME NEW o \in Visits, NEW u \in Urls, Read(o, u) PROVE CacheTypes'
    <3>1. files' = Swept /\ \E fresh : Refresh(fresh)
      BY <2>11 DEF Read
    <3> QED BY <2>1, <2>3, <3>1
  <2>12. ASSUME NEW o \in Visits, NEW u \in Urls, ListBegins(o, u) PROVE CacheTypes'
    <3>1. files' = files /\ \E fresh : Refresh(fresh)
      BY <2>12 DEF ListBegins
    <3> QED BY <2>1, <2>3, <3>1
  <2>13. ASSUME NEW o \in Visits, LoadHtml(o) PROVE CacheTypes'
    <3>1. files' = Swept /\ \E fresh : Refresh(fresh)
      BY <2>13, VisitLists DEF LoadHtml
    <3> QED BY <2>1, <2>3, <3>1
  <2> QED BY <1>2, <2>2, <2>4, <2>5, <2>6, <2>7, <2>8, <2>9, <2>10, <2>11, <2>12, <2>13
          DEF CacheNext
<1> QED BY <1>1, <1>2

(* A text is stored by the visit that ends with it. *)
LEMMA TextStep ==
  ASSUME CacheTypes, [CacheNext]_cacheVars, NEW u \in Urls
  PROVE  \/ files'[u].text \in {Absent, files[u].text}
         \/ \E o \in Visits : StoreText(o) /\ files'[u].text = o
<1>1. Swept[u].text \in {Absent, files[u].text}
  BY SweptFields
<1>2. ASSUME files' = files \/ files' = Swept
      PROVE  files'[u].text \in {Absent, files[u].text}
  BY <1>1, <1>2
<1>3. ASSUME NEW o \in Visits, StoreHtml(o) PROVE files'[u].text \in {Absent, files[u].text}
  BY <1>1, <1>3, StoreHtmlFields
<1>4. ASSUME NEW o \in Visits, StoreText(o)
      PROVE  files'[u].text \in {Absent, files[u].text} \/ files'[u].text = o
  BY <1>1, <1>4, StoreTextFields
<1>5. ASSUME NEW o \in Visits, Purge(o) PROVE files'[u].text \in {Absent, files[u].text}
  BY <1>1, <1>5, PurgeFields
<1>6. ASSUME NEW o \in Visits, Structure(o) PROVE files'[u].text \in {Absent, files[u].text}
  BY <1>1, <1>6, StructureFields
<1>7. ASSUME NEW o \in Visits,
             \/ Fetched(o) \/ VisitDropped(o)
             \/ LoadHtml(o) \/ Begins(o)
      PROVE  files'[u].text \in {Absent, files[u].text}
  <2>1. files' = files \/ files' = Swept
    BY <1>7 DEF Fetched, VisitDropped, LoadHtml, Begins, FetchBegins, Read, ListBegins
  <2> QED BY <1>2, <2>1
<1>8. CASE CacheTick \/ CacheCrash \/ UNCHANGED cacheVars
  BY <1>2, <1>8 DEF CacheTick, CacheCrash, cacheVars
<1> QED BY <1>3, <1>4, <1>5, <1>6, <1>7, <1>8, CacheSteps DEF Proceeds, Ends

LEMMA SignedStep == CacheTypes /\ Signed /\ [CacheNext]_cacheVars => Signed'
<1> SUFFICES ASSUME CacheTypes, Signed, [CacheNext]_cacheVars PROVE Signed'
  OBVIOUS
<1>1. CASE UNCHANGED cacheVars
  BY <1>1 DEF cacheVars, Signed
<1>2. CASE CacheNext
  <2>1. ASSUME NEW u \in Urls, files'[u].text # Absent
        PROVE  visit'[files'[u].text].phase = "done"
    <3>1. CASE files'[u].text \in {Absent, files[u].text}
      <4>1. files[u].text \in Visits /\ visit[files[u].text].phase = "done"
        BY <2>1, <3>1 DEF Signed, CacheTypes, FilesTyped
      <4> QED BY <1>2, <2>1, <3>1, <4>1, VisitStep
    <3>2. ASSUME NEW o \in Visits, StoreText(o), files'[u].text = o
          PROVE  visit'[files'[u].text].phase = "done"
      BY <3>2, LeftTyped DEF StoreText, CacheTypes
    <3> QED BY <3>1, <3>2, TextStep
  <2>2. ASSUME NEW o \in Visits, StoreHtml(o)
        PROVE  pages' \subseteq Visits /\ \A p \in pages' : visit'[p].phase \in {"converting", "done"}
    <3>1. visit'[o].phase = "converting" /\ \A p \in Visits : p # o => visit'[p] = visit[p]
      BY <2>2, VisitConverts, VisitMoves
    <3> QED BY <2>2, <3>1 DEF StoreHtml, Signed
  <2>3. ASSUME pages' = pages, \A p \in pages : visit'[p] = visit[p] \/ visit'[p] = Left
        PROVE  pages' \subseteq Visits /\ \A p \in pages' : visit'[p].phase \in {"converting", "done"}
    BY <2>3, LeftTyped DEF Signed
  <2>4. ASSUME NEW o \in Visits, Begins(o) \/ Fetched(o) \/ LoadHtml(o) \/ Ends(o)
        PROVE  pages' = pages /\ \A p \in pages : visit'[p].phase \in {"converting", "done"}
    <3>1. pages' = pages
      BY <2>4 DEF Begins, FetchBegins, Read, ListBegins, Fetched, LoadHtml, Ends,
                  StoreText, Purge, Structure, VisitDropped
    <3>2. visit'[o].phase = "done" \/ visit[o].phase \notin {"converting", "done"}
      BY <2>4, VisitGoes DEF Proceeds
    <3>3. \A p \in Visits : p # o => visit'[p] = visit[p]
      BY <2>4, VisitGoes DEF Proceeds
    <3> QED BY <3>1, <3>2, <3>3 DEF Signed
  <2>5. CASE CacheTick \/ CacheCrash
    <3>1. pages' = pages /\ \A p \in pages : visit'[p] = visit[p] \/ visit'[p] = Left
      BY <2>5 DEF CacheTick, CacheCrash, Signed
    <3> QED BY <2>1, <2>3, <3>1 DEF Signed
  <2>6. ASSUME NEW o \in Visits, Begins(o) \/ Proceeds(o) \/ Ends(o)
        PROVE  pages' \subseteq Visits /\ \A p \in pages' : visit'[p].phase \in {"converting", "done"}
    BY <2>2, <2>4, <2>6 DEF Proceeds, Signed
  <2> QED BY <1>2, <2>1, <2>5, <2>6, CacheSteps DEF Signed
<1> QED BY <1>1, <1>2

-----------------------------------------------------------------------------
(* An entry gets tangled for good. *)
LEMMA TangledGrows ==
  ASSUME [CacheNext]_cacheVars
  PROVE  tangled \subseteq tangled'
<1>1. \A o \in Visits : Tangles(o) => tangled \subseteq tangled'
  BY DEF Tangles
<1> QED BY <1>1 DEF CacheNext, cacheVars, CacheTick, CacheCrash, Fetched, StoreHtml, StoreText,
                    Purge, LoadHtml, Structure, VisitDropped, FetchBegins, Read, ListBegins

(* A visit in the middle of an entry tangles it with whoever stores it. *)
LEMMA AmidTangles ==
  ASSUME NEW o \in Visits, Tangles(o), NEW q \in Visits, q # o, visit[q].url = visit[o].url,
         visit[q].phase \in {"converting", "extracting"}
  PROVE  visit[o].url \in tangled'
BY DEF Tangles, Amid, Running

(* A file that was just touched is not swept. *)
LEMMA FreshKept ==
  ASSUME CacheTypes, NEW u \in Urls, ages[u].html = 0
  PROVE  Swept[u].html = files[u].html
BY SweptFields, CacheAssumption

(* A step of another visit leaves what a visit in the middle of an entry    *)
(* knows, if it sweeps and refreshes only.                                  *)
LEMMA SweepKnown ==
  ASSUME CacheTypes, NEW o \in Visits, KnownOf(o), visit'[o] = visit[o],
         pages \subseteq pages', tangled \subseteq tangled',
         visit[o].phase \in {"converting", "extracting"},
         ages' = ages \/ \E fresh : Refresh(fresh),
         LET u == visit[o].url IN
           u \notin tangled' =>
             /\ files'[u].html \in {Swept[u].html, files[u].html}
             /\ \/ files'[u].text \in {Absent, files[u].text}
                \/ files[u].html # Absent
             /\ visit[o].phase = "converting" =>
                  files'[u].structure \in {Absent, files[u].structure, files[u].html}
  PROVE  KnownOf(o)'
<1> DEFINE u == visit[o].url
<1> SUFFICES ASSUME u \notin tangled'
             PROVE  /\ visit[o].phase = "converting" =>
                         /\ o \in pages' /\ files'[u].html = o /\ ages'[u].html = 0
                         /\ files'[u].structure \in {Absent, o}
                    /\ visit[o].phase = "extracting" =>
                         \/ files'[u].text = Absent /\ files'[u].html = Absent
                         \/ files'[u].html = visit[o].read /\ ages'[u].html = 0
  BY Zenon DEF KnownOf, AtPage, Bare
<1>1. u \in Urls /\ u \notin tangled
  BY DEF CacheTypes
<1>2. ages[u].html = 0 => files'[u].html = files[u].html /\ ages'[u].html = 0
  <2>1. ages[u].html = 0 => ages'[u].html = 0
    BY <1>1, RefreshFields
  <2> QED BY <1>1, <2>1, FreshKept
<1>3. files[u].html = Absent => files'[u].html = Absent
  BY <1>1, SweptFields
<1>4. CASE visit[o].phase = "converting"
  BY <1>1, <1>2, <1>4 DEF KnownOf, AtPage
<1>5. CASE visit[o].phase = "extracting"
  <2>1. Bare(u) \/ (files[u].html = visit[o].read /\ ages[u].html = 0)
    BY <1>1, <1>5 DEF KnownOf
  <2>2. Bare(u) => files'[u].text = Absent /\ files'[u].html = Absent
    BY <1>3 DEF Bare
  <2> QED BY <1>2, <1>5, <2>1, <2>2
<1> QED BY <1>4, <1>5

(* What a step of one visit does to the entry another is in the middle of,  *)
(* unless it tangles it.                                                    *)
LEMMA OthersKnown ==
  ASSUME CacheTypes, Known, CacheNext, NEW o \in Visits, NEW p \in Visits, p # o,
         Begins(p) \/ Proceeds(p) \/ Ends(p)
  PROVE  KnownOf(o)'
<1> DEFINE u == visit[o].url
<1>1. visit'[o] = visit[o] /\ KnownOf(o) /\ tangled \subseteq tangled'
  BY VisitGoes, TangledGrows DEF Known
<1>2. CASE visit[o].phase \notin {"converting", "extracting"}
  BY <1>1, <1>2 DEF KnownOf, AtPage
<1>3. CASE visit[o].phase \in {"converting", "extracting"}
  <2>1. u \in Urls
    BY <1>3 DEF CacheTypes
  <2>2. pages \subseteq pages' /\ (ages' = ages \/ \E fresh : Refresh(fresh))
    BY VisitLists, Zenon
       DEF Begins, Proceeds, Ends, FetchBegins, Read, ListBegins, Fetched, StoreHtml, LoadHtml,
           StoreText, Purge, Structure, VisitDropped
  <2>3. /\ Swept[u].text \in {Absent, files[u].text}
        /\ Swept[u].structure \in {Absent, files[u].structure}
    BY <2>1, SweptFields
  <2> SUFFICES ASSUME u \notin tangled'
               PROVE  /\ files'[u].html \in {Swept[u].html, files[u].html}
                      /\ \/ files'[u].text \in {Absent, files[u].text}
                         \/ files[u].html # Absent
                      /\ visit[o].phase = "converting" =>
                           files'[u].structure \in {Absent, files[u].structure, files[u].html}
    BY <1>1, <1>3, <2>2, SweepKnown
  <2>4. ASSUME Tangles(p) PROVE visit[p].url # u
    BY <1>3, <2>4, AmidTangles
  <2>5. CASE files' = files \/ files' = Swept
    BY <2>3, <2>5
  <2>6. CASE StoreHtml(p)
    <3>1. visit[p].url # u
      BY <2>4, <2>6 DEF StoreHtml
    <3> QED BY <2>1, <2>3, <2>6, <3>1, StoreHtmlFields
  <2>7. CASE Purge(p)
    <3>1. visit[p].url # u
      BY <2>4, <2>7 DEF Purge
    <3> QED BY <2>1, <2>3, <2>7, <3>1, PurgeFields
  <2>8. CASE StoreText(p)
    <3>1. CASE visit[p].url # u
      BY <2>1, <2>3, <2>8, <3>1, StoreTextFields
    <3>2. CASE visit[p].url = u
      <4>1. visit[p].phase = "converting"
        BY <2>4, <2>8, <3>2 DEF StoreText
      <4>2. files[u].html = p /\ p # Absent
        BY <1>1, <3>2, <4>1, CacheAssumption DEF Known, KnownOf, AtPage, Absent
      <4>3. files'[u].html = Swept[u].html /\ files'[u].structure = Swept[u].structure
        BY <2>8, <3>2, <4>1, StoreTextFields
      <4> QED BY <2>3, <4>2, <4>3
    <3> QED BY <3>1, <3>2
  <2>9. CASE Structure(p)
    <3>1. files'[u].text = Swept[u].text /\ files'[u].html = Swept[u].html
      BY <2>1, <2>9, StructureFields
    <3>2. CASE visit[p].url # u
      BY <2>1, <2>3, <2>9, <3>1, <3>2, StructureFields
    <3>3. CASE visit[p].url = u
      <4>1. files'[u].structure \in {Swept[u].structure, visit[p].read}
        BY <2>9, <3>3, StructureFields
      <4>2. u \notin tangled /\ (Bare(u) \/ files[u].html = visit[p].read)
        BY <1>1, <2>9, <3>3 DEF Known, KnownOf, Structure
      <4>3. visit[o].phase = "converting" => files[u].html = o /\ o # Absent
        BY <1>1, <4>2, CacheAssumption DEF KnownOf, AtPage, Absent
      <4>4. visit[o].phase = "converting" => files[u].html = visit[p].read
        BY <4>2, <4>3 DEF Bare
      <4>5. files'[u].text \in {Absent, files[u].text} /\ files'[u].html = Swept[u].html
        BY <2>3, <3>1
      <4> QED BY <2>3, <4>1, <4>4, <4>5
    <3> QED BY <3>2, <3>3
  <2> QED BY <2>5, <2>6, <2>7, <2>8, <2>9
          DEF Begins, Proceeds, Ends, FetchBegins, Read, ListBegins, Fetched, LoadHtml, VisitDropped
<1> QED BY <1>2, <1>3

LEMMA KnownStep == CacheTypes /\ Known /\ CacheNext => Known'
<1> SUFFICES ASSUME CacheTypes, Known, CacheNext, NEW o \in Visits PROVE KnownOf(o)'
  BY DEF Known
<1>1. CASE CacheTick \/ CacheCrash
  <2>1. visit'[o].phase \in {"idle", "done"}
    BY <1>1, LeftTyped DEF CacheTick, CacheCrash, Running
  <2> QED BY <2>1 DEF KnownOf, AtPage
<1>2. CASE StoreHtml(o)
  <2> DEFINE u == visit[o].url
  <2>1. visit'[o].phase = "converting" /\ visit'[o].url = u
    BY <1>2, VisitGoes DEF Proceeds
  <2>2. u \in Urls /\ files'[u].html = o /\ files'[u].structure = Absent
    BY <1>2, StoreHtmlFields
  <2>3. o \in pages' /\ Refresh({<<u, "html">>})
    BY <1>2 DEF StoreHtml
  <2>4. ages'[u].html = 0
    BY <2>2, <2>3, RefreshFields
  <2> QED BY <2>1, <2>2, <2>3, <2>4 DEF KnownOf, AtPage
<1>3. CASE LoadHtml(o)
  <2> DEFINE u == visit[o].url
             e == Entry(Swept, u)
  <2>1. /\ u \in Urls /\ e \in Urls
        /\ visit'[o].phase \in {"done", "extracting"}
        /\ visit'[o].phase = "extracting" =>
             /\ visit'[o].url = u /\ visit'[o].read = Swept[e].html
             /\ Refresh(Viewed(u, e) \cup Touched(e))
    <3>1. PICK r \in VisitRecords :
            /\ Located(r) /\ visit' = [visit EXCEPT ![o] = r]
            /\ r.phase \in {"done", "extracting"}
            /\ r.phase = "extracting" => /\ r.url = u /\ r.read = Swept[e].html
                                         /\ Refresh(Viewed(u, e) \cup Touched(e))
      BY <1>3, VisitLists
    <3>2. visit'[o] = r /\ u \in Urls /\ e \in Urls
      BY <1>3, <3>1, VisitLists, VisitMoves
    <3> QED BY <3>1, <3>2
  <2>2. files' = Swept
    BY <1>3 DEF LoadHtml
  <2>3. CASE visit'[o].phase = "done"
    BY <2>3 DEF KnownOf, AtPage
  <2>4. CASE visit'[o].phase = "extracting" /\ e = u
    <3>1. Refresh(Viewed(u, e) \cup Touched(e)) /\ <<u, "html">> \in Viewed(u, e) \cup Touched(e)
      BY <2>1, <2>4 DEF Touched
    <3> HIDE DEF e
    <3>2. ages'[u].html = 0
      BY <2>1, <3>1, RefreshFields
    <3> QED BY <2>1, <2>2, <2>4, <3>2 DEF KnownOf, AtPage
  <2>5. CASE visit'[o].phase = "extracting" /\ e # u
    <3>1. Swept[u].text = Absent /\ Swept[u].html = Absent
      BY <2>5 DEF Entry, Held
    <3> HIDE DEF e
    <3> QED BY <2>1, <2>2, <2>5, <3>1 DEF KnownOf, AtPage, Bare
  <2> HIDE DEF e
  <2> QED BY <2>1, <2>3, <2>4, <2>5
<1>4. CASE Begins(o) \/ Fetched(o) \/ Ends(o)
  <2>1. visit'[o].phase \notin {"converting", "extracting"}
    BY <1>4, VisitGoes DEF Proceeds
  <2> QED BY <2>1 DEF KnownOf, AtPage
<1>5. ASSUME NEW p \in Visits, p # o, Begins(p) \/ Proceeds(p) \/ Ends(p) PROVE KnownOf(o)'
  BY <1>5, OthersKnown
<1> QED BY <1>1, <1>2, <1>3, <1>4, <1>5, CacheSteps DEF Proceeds

-----------------------------------------------------------------------------
(* Only the fields that a text, a page and a structure have in common tell. *)
LEMMA SameTogether ==
  ASSUME NEW f, NEW g, NEW a, NEW ps, Together(f, a, ps),
         g.text = f.text, g.html = f.html, g.structure = f.structure
  PROVE  Together(g, a, ps)
BY DEF Together

(* A page that was stored is converted until its text is, or all is lost.   *)
LEMMA ConvertsStep ==
  ASSUME CacheTypes, CacheNext, NEW o \in Visits, NEW u \in Urls, u \notin tangled',
         Converts(o, u)
  PROVE  Converts(o, u)' \/ StoreText(o)
<1>1. ~CacheTick /\ ~CacheCrash
  BY DEF CacheTick, CacheCrash, Running, Converts
<1>2. PICK p \in Visits : Begins(p) \/ Proceeds(p) \/ Ends(p)
  BY <1>1, CacheSteps
<1>3. CASE p # o
  BY <1>2, <1>3, VisitGoes DEF Converts
<1>4. CASE p = o
  <2>1. ~Begins(o) /\ ~Proceeds(o)
    BY VisitGoes DEF Proceeds, Converts
  <2>2. StoreText(o)
    BY <1>2, <1>4, <2>1 DEF Ends, Purge, Structure, VisitDropped, Converts
  <2> QED BY <2>2
<1> QED BY <1>3, <1>4

(* A page stored, its text makes the entry whole again; a text that is not a *)
(* page's takes the page away.                                              *)
LEMMA TextMakesWhole ==
  ASSUME CacheTypes, Signed, Known, NEW o \in Visits, StoreText(o), visit[o].url \notin tangled
  PROVE  Together(files'[visit[o].url], ages'[visit[o].url], pages')
<1> DEFINE u == visit[o].url
<1>1. u \in Urls /\ visit[o].phase \in {"converting", "text"} /\ pages' = pages
  BY DEF StoreText, CacheTypes
<1>2. CASE visit[o].phase = "converting"
  <2>1. /\ o \in pages /\ files[u].html = o /\ ages[u].html = 0
        /\ files[u].structure \in {Absent, o}
    BY <1>2 DEF Known, KnownOf, AtPage
  <2>2. files'[u].text = o /\ files'[u].html = o /\ files'[u].structure \in {Absent, files[u].structure}
    <3>1. Swept[u].html = o /\ Swept[u].structure \in {Absent, files[u].structure}
      BY <1>1, <2>1, FreshKept, SweptFields
    <3> QED BY <1>2, <3>1, StoreTextFields
  <2>3. ages'[u].html = 0 /\ ages'[u].text \in Nat /\ ages'[u].structure \in Nat
    <3>1. \E fresh : Refresh(fresh)
      BY Zenon DEF StoreText
    <3>2. ages'[u].html = 0 /\ ages' \in [Urls -> [Kinds -> Nat]]
      BY <1>1, <2>1, <3>1, RefreshFields
    <3> QED BY <1>1, <3>2 DEF Kinds
  <2> QED BY <1>1, <2>1, <2>2, <2>3 DEF Together
<1>3. CASE visit[o].phase = "text"
  <2>1. files'[u].text = o /\ files'[u].html = Absent /\ files'[u].structure = Absent
    BY <1>3, StoreTextFields
  <2>2. o \notin pages
    BY <1>3 DEF Signed
  <2> QED BY <1>1, <2>1, <2>2 DEF Together
<1> QED BY <1>1, <1>2, <1>3

LEMMA FiledStep ==
  CacheTypes /\ Signed /\ Known /\ Filed /\ CacheNext => Filed'
<1> SUFFICES ASSUME CacheTypes, Signed, Known, Filed, CacheNext, NEW u \in Urls, u \notin tangled'
             PROVE  \/ Together(files'[u], ages'[u], pages')
                    \/ \E o \in Visits : Converts(o, u)'
  BY DEF Filed
<1>1. u \notin tangled
  BY TangledGrows
<1>2. pages \in SUBSET Visits
  BY DEF Signed
<1>3. ASSUME NEW o \in Visits, StoreText(o), visit[o].url = u
      PROVE  Together(files'[u], ages'[u], pages')
  BY <1>1, <1>3, TextMakesWhole
<1>4. ASSUME NEW o \in Visits, Converts(o, u)
      PROVE  Together(files'[u], ages'[u], pages') \/ Converts(o, u)'
  <2>1. Converts(o, u)' \/ StoreText(o)
    BY <1>4, ConvertsStep
  <2> QED BY <1>3, <1>4, <2>1 DEF Converts
<1> SUFFICES ASSUME Together(files[u], ages[u], pages)
             PROVE  \/ Together(files'[u], ages'[u], pages')
                    \/ \E o \in Visits : Converts(o, u)'
  BY <1>1, <1>4 DEF Filed
<1>5. ASSUME NEW fresh, Refresh(fresh), pages' = pages,
             <<u, "html">> \in fresh \/ {<<u, "text">>, <<u, "structure">>} \cap fresh = {},
             files'[u].text = Swept[u].text, files'[u].html = Swept[u].html,
             files'[u].structure = Swept[u].structure
      PROVE  Together(files'[u], ages'[u], pages')
  <2>1. Together(Swept[u], ages[u], pages)
    BY <1>2, SweepKeeps
  <2>2. Together(Swept[u], ages'[u], pages)
    BY <1>5, <2>1, RefreshKeeps
  <2> QED BY <1>5, <2>2, SameTogether
<1>6. CASE CacheTick
  <2>1. UNCHANGED <<files, pages>>
    BY <1>6 DEF CacheTick
  <2>2. /\ ages[u].text \in Nat /\ ages[u].html \in Nat /\ ages[u].structure \in Nat
    BY DEF CacheTypes, Kinds
  <2>3. /\ ages'[u].text = IF ages[u].text > Ttl THEN Ttl + 1 ELSE ages[u].text + 1
        /\ ages'[u].html = IF ages[u].html > Ttl THEN Ttl + 1 ELSE ages[u].html + 1
        /\ ages'[u].structure = IF ages[u].structure > Ttl THEN Ttl + 1
                                ELSE ages[u].structure + 1
    BY <1>6 DEF CacheTick, Kinds
  <2>4. /\ ages[u].html <= ages[u].text => ages'[u].html <= ages'[u].text
        /\ ages[u].html <= ages[u].structure => ages'[u].html <= ages'[u].structure
    BY <2>2, <2>3, CacheAssumption
  <2> QED BY <2>1, <2>4 DEF Together
<1>7. ASSUME UNCHANGED <<files, ages, pages>> PROVE Together(files'[u], ages'[u], pages')
  BY <1>7
<1>8. ASSUME NEW o \in Visits, StoreHtml(o)
      PROVE  \/ Together(files'[u], ages'[u], pages')
             \/ \E p \in Visits : Converts(p, u)'
  <2>1. visit'[o].phase = "converting" /\ visit'[o].url = visit[o].url
    BY <1>8, VisitGoes DEF Proceeds
  <2>2. CASE visit[o].url = u
    BY <2>1, <2>2 DEF Converts
  <2>3. CASE visit[o].url # u
    <3>1. visit[o].phase = "html" /\ pages' = pages \cup {o}
      BY <1>8 DEF StoreHtml
    <3>2. files[u].text # o
      BY <3>1, CacheAssumption DEF Signed, Absent
    <3>3. Together(Swept[u], ages[u], pages) /\ Swept[u].text # o
      BY <1>2, <3>2, SweepKeeps, SweptFields, CacheAssumption DEF Absent
    <3>4. Together(Swept[u], ages[u], pages')
      BY <3>1, <3>3 DEF Together
    <3>5. Refresh({<<visit[o].url, "html">>}) /\ files'[u] = Swept[u]
      BY <1>8, <2>3, StoreHtmlFields DEF StoreHtml
    <3>6. {<<u, "text">>, <<u, "structure">>} \cap {<<visit[o].url, "html">>} = {}
      OBVIOUS
    <3>7. Together(Swept[u], ages'[u], pages')
      BY <3>4, <3>5, <3>6, RefreshKeeps
    <3> QED BY <3>5, <3>7
  <2> QED BY <2>2, <2>3
<1>9. ASSUME NEW o \in Visits, StoreText(o), visit[o].url # u
      PROVE  Together(files'[u], ages'[u], pages')
  <2> DEFINE w == visit[o].url
             f == visit[o].final
  <2>1. /\ pages' = pages
        /\ Refresh({<<w, "text">>}) \/ Refresh({<<w, "text">>, <<f, "alias">>})
    BY <1>9, Zenon DEF StoreText
  <2>2. /\ files'[u].text = Swept[u].text /\ files'[u].html = Swept[u].html
        /\ files'[u].structure = Swept[u].structure
    BY <1>9, StoreTextFields
  <2>3. /\ {<<u, "text">>, <<u, "structure">>} \cap {<<w, "text">>} = {}
        /\ {<<u, "text">>, <<u, "structure">>} \cap {<<w, "text">>, <<f, "alias">>} = {}
    BY <1>9
  <2> QED BY <1>5, <2>1, <2>2, <2>3
<1>10. ASSUME NEW o \in Visits, Purge(o) PROVE Together(files'[u], ages'[u], pages')
  <2>1. UNCHANGED <<ages, pages>>
    BY <1>10 DEF Purge
  <2>2. CASE visit[o].url = u
    <3>1. files'[u].text = Absent /\ files'[u].html = Absent /\ files'[u].structure = Absent
      BY <1>10, <2>2, PurgeFields
    <3> QED BY <1>2, <2>1, <3>1, CacheAssumption DEF Together, Absent
  <2>3. CASE visit[o].url # u
    <3>1. Together(Swept[u], ages[u], pages)
      BY <1>2, SweepKeeps
    <3> QED BY <1>10, <2>1, <2>3, <3>1, PurgeFields
  <2> QED BY <2>2, <2>3
<1>11. \A v, e : /\ \/ <<u, "html">> \in Viewed(v, e) \cup Touched(e)
                   \/ {<<u, "text">>, <<u, "structure">>} \cap (Viewed(v, e) \cup Touched(e)) = {}
                /\ {<<u, "text">>, <<u, "structure">>} \cap Viewed(v, e) = {}
  BY DEF Viewed, Touched
<1>12. ASSUME NEW o \in Visits, Structure(o) PROVE Together(files'[u], ages'[u], pages')
  <2> DEFINE w == visit[o].url
             e == Entry(Swept, w)
  <2>1. /\ visit[o].phase = "extracting" /\ w \in Urls /\ visit[o].read \in Visits
        /\ pages' = pages /\ ages' \in [Urls -> [Kinds -> Nat]]
    <3>1. \E fresh : Refresh(fresh)
      BY <1>12, Zenon DEF Structure
    <3> QED BY <1>12, <3>1, RefreshFields DEF Structure, CacheTypes
  <2>2. CASE Swept[e].structure # Absent
    <3>1. files' = Swept /\ Refresh(Viewed(w, e) \cup Touched(e))
      BY <1>12, <2>2, Zenon DEF Structure
    <3> HIDE DEF e
    <3> QED BY <1>5, <1>11, <2>1, <3>1
  <2>3. CASE Swept[e].structure = Absent /\ u # w
    <3>1. Refresh(Viewed(w, e) \cup {<<w, "structure">>})
      BY <1>12, <2>3, Zenon DEF Structure
    <3>2. /\ files'[u].text = Swept[u].text /\ files'[u].html = Swept[u].html
          /\ files'[u].structure = Swept[u].structure
      BY <1>12, <2>3, StructureFields
    <3> HIDE DEF e
    <3>3. {<<u, "text">>, <<u, "structure">>} \cap (Viewed(w, e) \cup {<<w, "structure">>}) = {}
      BY <1>11, <2>3
    <3> QED BY <1>5, <2>1, <3>1, <3>2, <3>3
  <2>4. CASE Swept[e].structure = Absent /\ u = w
    <3>1. /\ files'[u].text = Swept[u].text /\ files'[u].html = Swept[u].html
          /\ files'[u].structure = visit[o].read
      <4>1. files' = [Swept EXCEPT ![w].structure = visit[o].read]
        BY <1>12, <2>4, Zenon DEF Structure
      <4>2. Swept \in [Urls -> Files] /\ "structure" \in Kinds
        BY SweptTyped DEF FilesTyped, Kinds
      <4> HIDE DEF w
      <4>3. files'[u].structure = visit[o].read
        BY <2>1, <2>4, <4>1, <4>2 DEF Files
      <4> QED BY <1>12, <4>3, StructureFields
    <3>2. CASE Bare(u)
      <4>1. files'[u].text = Absent /\ files'[u].html = Absent
        BY <3>1, <3>2, SweptFields DEF Bare
      <4> QED BY <1>2, <2>1, <4>1, CacheAssumption DEF Together, Absent
    <3>3. CASE files[u].html = visit[o].read /\ ages[u].html = 0
      <4>1. Swept[u].html = visit[o].read /\ visit[o].read # Absent
        BY <2>1, <3>3, FreshKept, CacheAssumption DEF Absent
      <4>2. e = u
        BY <2>4, <4>1 DEF Entry, Held
      <4>3. Refresh(Viewed(u, u) \cup {<<u, "structure">>})
        BY <1>12, <2>4, <4>2, Zenon DEF Structure
      <4>4. /\ ages'[u].html = 0 /\ ages'[u].structure = 0 /\ ages'[u].text = ages[u].text
        <5> DEFINE fresh == Viewed(u, u) \cup {<<u, "structure">>}
        <5>1. <<u, "structure">> \in fresh /\ <<u, "text">> \notin fresh
          BY DEF Viewed
        <5>2. Refresh(fresh)
          BY <4>3
        <5> HIDE DEF fresh
        <5> QED BY <3>3, <5>1, <5>2, RefreshFields
      <4>5. Together(Swept[u], ages[u], pages)
        BY <1>2, SweepKeeps
      <4> QED BY <2>1, <3>1, <3>3, <4>1, <4>4, <4>5 DEF Together
    <3> QED BY <1>1, <2>1, <2>4, <3>2, <3>3 DEF Known, KnownOf
  <2> HIDE DEF e
  <2> QED BY <2>2, <2>3, <2>4
<1>13. ASSUME NEW o \in Visits, Begins(o) \/ LoadHtml(o) \/ Fetched(o) \/ VisitDropped(o)
       PROVE  Together(files'[u], ages'[u], pages')
  <2>1. CASE Fetched(o) \/ VisitDropped(o) \/ \E v \in Urls : FetchBegins(o, v)
    BY <1>7, <2>1 DEF Fetched, VisitDropped, FetchBegins
  <2>2. CASE LoadHtml(o)
    <3>1. files' = Swept /\ pages' = pages
      BY <2>2 DEF LoadHtml
    <3>2. \E v, e : Refresh(Viewed(v, e) \cup Touched(e)) \/ Refresh(Viewed(v, e))
      BY <2>2, VisitLists
    <3> QED BY <1>5, <1>11, <3>1, <3>2
  <2>3. ASSUME NEW v \in Urls, Read(o, v) PROVE Together(files'[u], ages'[u], pages')
    <3>1. files' = Swept /\ pages' = pages
      BY <2>3 DEF Read
    <3>2. \E e : Refresh(Viewed(v, e) \cup Touched(e)) \/ Refresh(Viewed(v, e) \cup {})
      BY <2>3 DEF Read
    <3> QED BY <1>5, <1>11, <3>1, <3>2
  <2>4. ASSUME NEW v \in Urls, ListBegins(o, v) PROVE Together(files'[u], ages'[u], pages')
    <3>1. files' = files /\ pages' = pages /\ Refresh(Viewed(v, Entry(files, v)))
      BY <2>4 DEF ListBegins
    <3> QED BY <1>11, <3>1, RefreshKeeps
  <2> QED BY <1>13, <2>1, <2>2, <2>3, <2>4 DEF Begins
<1>14. CASE CacheCrash
  BY <1>7, <1>14 DEF CacheCrash
<1> QED BY <1>3, <1>6, <1>8, <1>9, <1>10, <1>12, <1>13, <1>14, CacheSteps DEF Proceeds, Ends

-----------------------------------------------------------------------------
LEMMA CacheStarts == CacheInit => CacheInv
<1> SUFFICES ASSUME CacheInit PROVE CacheInv
  OBVIOUS
<1> USE DEF CacheInit
<1>1. /\ NoFile \in Files /\ NoFile.text = Absent /\ NoFile.html = Absent
      /\ NoFile.structure = Absent /\ NoFile.alias = Nowhere
  BY DEF NoFile, Files, Kinds
<1>2. \A o \in Visits : visit[o] \in VisitRecords /\ visit[o].phase = "idle"
  BY LeftTyped DEF VisitRecords
<1>3. CacheTypes
  BY <1>1, <1>2 DEF CacheTypes, FilesTyped
<1>4. Signed
  BY <1>1 DEF Signed
<1>5. Known
  BY <1>2 DEF Known, KnownOf, AtPage
<1>6. Filed
  BY <1>1 DEF Filed, Together
<1> QED BY <1>3, <1>4, <1>5, <1>6 DEF CacheInv

LEMMA CacheStep == CacheInv /\ [CacheNext]_cacheVars => CacheInv'
<1> SUFFICES ASSUME CacheInv, [CacheNext]_cacheVars PROVE CacheInv'
  OBVIOUS
<1>1. CacheTypes' /\ Signed'
  BY CacheTypesStep, SignedStep DEF CacheInv
<1>2. CASE CacheNext
  BY <1>1, <1>2, KnownStep, FiledStep DEF CacheInv
<1>3. CASE UNCHANGED cacheVars
  BY <1>1, <1>3 DEF CacheInv, cacheVars, Known, KnownOf, Filed, Bare, AtPage, Converts, Together
<1> QED BY <1>2, <1>3

(* cache.py: what is left of an entry belongs together, unless a page of it  *)
(* is being converted, for any number of addresses and of visits that        *)
(* overlap and any durations, as long as no fetch stored the entry while     *)
(* another visit, or a crash, was in the middle of it.                       *)
THEOREM EntriesCoherent == CacheSpec => []EntryCoherent
<1>1. CacheInv => EntryCoherent
  <2> SUFFICES ASSUME CacheInv, NEW u \in Urls, u \notin tangled, ~\E o \in Visits : Converts(o, u)
               PROVE  Coherent(Swept[u])
    BY DEF EntryCoherent
  <2>1. Together(files[u], ages[u], pages) /\ CacheTypes /\ pages \in SUBSET Visits
    BY DEF CacheInv, Filed, Signed
  <2>2. Together(Swept[u], ages[u], pages)
    BY <2>1, SweepKeeps
  <2> QED BY <2>2 DEF Together, Coherent
<1> QED BY <1>1, CacheStarts, CacheStep, PTL DEF CacheSpec

-----------------------------------------------------------------------------
(***************************************************************************)
(* The documents.  That the quota is held but for the writes that run      *)
(* together is not inductive: a call that measured while others wrote may  *)
(* pass later than they did, and a document removed meanwhile makes others *)
(* pass that would not have.  Room counts, for any number k of documents   *)
(* that may yet be removed, the measures that would then fit; Seen says    *)
(* that what a measure cannot miss is there.  That a sweep takes nothing   *)
(* from a session in use follows from the ages (Touching): a session that  *)
(* a sweep found expired was not used, or was used since (Condemned).      *)
(***************************************************************************)

DocPhases == {"idle", "sweeping", "removing", "dropping", "pushing", "asking", "found", "touched",
              "decoding", "measuring", "allowed", "writing", "resolved", "done"}

CallRecords == [phase : DocPhases, task : {"push", "ask", "drop"},
                session : Sessions \cup {NoCall.session}, ref : Refs \cup {NoCall.ref},
                left : SUBSET Sessions, at : Sessions \cup {NoCall.at}, seen : SUBSET Refs]

(* A call that works has a session and a reference. *)
Placed(r) ==
  /\ r.phase \notin {"idle", "done"} => r.session \in Sessions /\ r.ref \in Refs
  /\ r.phase \in {"removing", "dropping"} => r.at \in Sessions

DocStates == [Sessions -> [Refs -> {"none", "whole"} \cup DocCalls]]

DocTypes ==
  /\ docs \in DocStates
  /\ dirs \subseteq Sessions
  /\ idleFor \in [Sessions -> Nat]
  /\ usedFor \in [Sessions -> Nat]
  /\ docCall \in [DocCalls -> CallRecords]
  /\ \A c \in DocCalls : Placed(docCall[c])
  /\ overtaken \subseteq DocCalls
  /\ crowd \in [Sessions -> Nat]

(* A use of a session touches its directory. *)
Touching == \A s \in Sessions : idleFor[s] <= usedFor[s]

(* A sweep that removes a session found it expired, and it is, unless it was *)
(* used since.                                                              *)
Condemned ==
  \A c \in DocCalls :
    docCall[c].phase = "removing" => c \in overtaken \/ usedFor[docCall[c].at] > DocTtl

Seen == \A s \in Sessions : \A c \in Measures(s) : docCall[c].seen \subseteq Whole(s)

(* The measures that fit, should k of the documents they saw be removed.    *)
Short(s, k) == {c \in Measures(s) : Cardinality(docCall[c].seen) < Quota + k}

RoomIn(s) ==
  /\ Cardinality(Writes(s)) + Cardinality(Measures(s)) <= crowd[s]
  /\ \A k \in Nat : Cardinality(Whole(s)) + Cardinality(Writes(s)) + Cardinality(Short(s, k))
                    <= Quota + crowd[s] - 1 + k
Room == \A s \in Sessions : RoomIn(s)

DocsInv == DocTypes /\ Touching /\ Condemned /\ Seen /\ Room

-----------------------------------------------------------------------------
(* How many documents and calls there are. *)
LEMMA FewerRefs ==
  ASSUME NEW A, NEW B \in SUBSET Refs, A \subseteq B
  PROVE  /\ Cardinality(A) \in Nat /\ Cardinality(B) \in Nat /\ Cardinality(A) <= Cardinality(B)
         /\ \A x : /\ Cardinality(B \ {x}) \in Nat
                   /\ Cardinality(B \ {x}) = IF x \in B THEN Cardinality(B) - 1 ELSE Cardinality(B)
         /\ \A x \in Refs : Cardinality(B \cup {x}) \in Nat /\ Cardinality(B \cup {x}) <= Cardinality(B) + 1
<1>1. IsFiniteSet(B) /\ IsFiniteSet(A)
  BY DocsAssumption, FS_Subset
<1> QED BY <1>1, FS_Subset, FS_CardinalityType, FS_RemoveElement, FS_AddElement

LEMMA FewerCalls ==
  ASSUME NEW A, NEW B \in SUBSET DocCalls, A \subseteq B
  PROVE  /\ Cardinality(A) \in Nat /\ Cardinality(B) \in Nat /\ Cardinality(A) <= Cardinality(B)
         /\ \A x \in B : Cardinality(B \ {x}) = Cardinality(B) - 1
         /\ \A x : x \notin B => Cardinality(B \cup {x}) = Cardinality(B) + 1
<1>1. IsFiniteSet(B) /\ IsFiniteSet(A)
  BY DocsAssumption, FS_Subset
<1> QED BY <1>1, FS_Subset, FS_CardinalityType, FS_RemoveElement, FS_AddElement

LEMMA CallSets ==
  ASSUME NEW s
  PROVE  /\ Writes(s) \in SUBSET DocCalls /\ Measures(s) \in SUBSET DocCalls
         /\ \A k : Short(s, k) \in SUBSET DocCalls /\ Short(s, k) \subseteq Measures(s)
         /\ Whole(s) \in SUBSET Refs
BY DEF Writes, Measures, Short, Whole

-----------------------------------------------------------------------------
(* What becomes of a call that moves. *)
LEMMA CallMoves ==
  ASSUME DocTypes, NEW c \in DocCalls, NEW r \in CallRecords, Placed(r),
         docCall' = [docCall EXCEPT ![c] = r]
  PROVE  /\ docCall' \in [DocCalls -> CallRecords]
         /\ \A d \in DocCalls : Placed(docCall'[d])
         /\ docCall'[c] = r
         /\ \A d \in DocCalls : d # c => docCall'[d] = docCall[d]
BY DEF DocTypes

LEMMA EndedTyped ==
  LET r == [NoCall EXCEPT !.phase = "done"] IN
    r \in CallRecords /\ Placed(r) /\ r.phase = "done"
BY DEF NoCall, CallRecords, DocPhases, Placed

LEMMA GoesOn ==
  ASSUME DocTypes, NEW c \in DocCalls, NEW p \in DocPhases, Goes(c, p),
         docCall[c].phase \notin {"idle", "done"}, p \notin {"removing", "dropping"}
  PROVE  \E r \in CallRecords :
           /\ Placed(r) /\ r.phase = p /\ r.session = docCall[c].session
           /\ docCall' = [docCall EXCEPT ![c] = r]
<1> DEFINE r == [docCall[c] EXCEPT !.phase = p]
<1>1. docCall' = [docCall EXCEPT ![c] = r]
  BY DEF Goes
<1>2. docCall[c] \in CallRecords /\ Placed(docCall[c])
  BY DEF DocTypes
<1>3. /\ r \in CallRecords /\ r.phase = p /\ r.session = docCall[c].session
      /\ r.ref = docCall[c].ref /\ r.at = docCall[c].at
  BY <1>2 DEF CallRecords
<1> HIDE DEF r
<1>4. Placed(r)
  BY <1>2, <1>3 DEF Placed
<1> QED BY <1>1, <1>3, <1>4

(* Steps of a call that neither measures nor opens its file. *)
Plain(c) ==
  \/ EndSweep(c) \/ Removed(c) \/ TouchSession(c) \/ LookUp(c) \/ RefusePush(c)
  \/ CloseFile(c) \/ FileError(c) \/ ReadDocument(c)
  \/ \E s \in Sessions : Judge(c, s) \/ \E r \in Refs, task \in {"push", "ask", "drop"} :
                                          Call(c, task, s, r)

LEMMA DocsSteps ==
  DocsNext <=> \/ DocTick \/ DocsCrash
               \/ \E c \in DocCalls : \/ Plain(c) \/ MeasureQuota(c) \/ Measured(c) \/ OpenFile(c)
                                      \/ \E r \in Refs : Unlink(c, r)
BY DEF DocsNext, Plain

LEMMA PlainMoves ==
  ASSUME DocTypes, NEW c \in DocCalls, Plain(c)
  PROVE  \E r \in CallRecords :
           /\ Placed(r) /\ r.phase \notin {"measuring", "allowed", "writing"}
           /\ r.phase = "removing" => \E t \in Sessions : /\ Judge(c, t) /\ r.at = t
                                                          /\ idleFor[t] > DocTtl
           /\ docCall' = [docCall EXCEPT ![c] = r]
<1>1. docCall[c] \in CallRecords /\ Placed(docCall[c])
  BY DEF DocTypes
<1>2. CASE EndCall(c)
  BY <1>2, EndedTyped DEF EndCall
<1>3. ASSUME NEW p \in DocPhases, Goes(c, p), docCall[c].phase \notin {"idle", "done"},
             p \notin {"removing", "dropping", "measuring", "allowed", "writing"}
      PROVE  \E r \in CallRecords :
               /\ Placed(r) /\ r.phase \notin {"measuring", "allowed", "writing"}
               /\ r.phase # "removing"
               /\ docCall' = [docCall EXCEPT ![c] = r]
  BY <1>3, GoesOn
<1>4. CASE RefusePush(c) \/ FileError(c) \/ ReadDocument(c)
  BY <1>2, <1>4 DEF RefusePush, FileError, ReadDocument
<1>5. CASE Removed(c)
  <2>1. CASE docCall[c].phase = "removing"
    BY <1>3, <1>5, <2>1 DEF Removed, DocPhases
  <2>2. CASE docCall[c].phase # "removing"
    BY <1>2, <1>5, <2>2 DEF Removed
  <2> QED BY <2>1, <2>2
<1>6. CASE TouchSession(c)
  <2>1. \E p \in {"touched", "resolved"} : Goes(c, p) /\ docCall[c].phase \in {"pushing", "found"}
    BY <1>6 DEF TouchSession
  <2> QED BY <1>3, <2>1 DEF DocPhases
<1>7. CASE LookUp(c)
  <2>1. EndCall(c) \/ \E p \in {"found", "resolved", "decoding"} : Goes(c, p)
    BY <1>7 DEF LookUp
  <2>2. docCall[c].phase \in {"asking", "touched"}
    BY <1>7 DEF LookUp
  <2> QED BY <1>2, <1>3, <2>1, <2>2 DEF DocPhases
<1>8. CASE CloseFile(c)
  BY <1>3, <1>8 DEF CloseFile, DocPhases
<1>9. CASE EndSweep(c)
  <2>1. PICK p \in {"pushing", "asking", "dropping"} :
          docCall' = [docCall EXCEPT ![c].phase = p, ![c].at = docCall[c].session]
    BY <1>1, <1>9 DEF EndSweep, CallRecords
  <2> DEFINE r == [docCall[c] EXCEPT !.phase = p, !.at = docCall[c].session]
  <2>2. docCall' = [docCall EXCEPT ![c] = r]
    BY <2>1
  <2>3. docCall[c].session \in Sessions /\ docCall[c].ref \in Refs
    BY <1>1, <1>9 DEF EndSweep, Placed
  <2>4. /\ r \in CallRecords /\ r.phase = p /\ r.at = docCall[c].session
        /\ r.session = docCall[c].session /\ r.ref = docCall[c].ref
    BY <1>1, <2>3 DEF CallRecords, DocPhases
  <2> HIDE DEF r
  <2> QED BY <2>2, <2>3, <2>4 DEF Placed
<1>10. ASSUME NEW t \in Sessions, Judge(c, t)
       PROVE  \E r \in CallRecords :
                /\ Placed(r) /\ r.phase \in {"removing", "sweeping"} /\ r.at = t
                /\ r.phase = "removing" => idleFor[t] > DocTtl
                /\ docCall' = [docCall EXCEPT ![c] = r]
  <2> DEFINE p == IF t \in dirs /\ idleFor[t] > DocTtl THEN "removing" ELSE docCall[c].phase
             r == [docCall[c] EXCEPT !.left = docCall[c].left \ {t}, !.at = t, !.phase = p]
  <2>1. docCall' = [docCall EXCEPT ![c] = r]
    BY <1>10 DEF Judge
  <2>2. /\ docCall[c].session \in Sessions /\ docCall[c].ref \in Refs
        /\ p \in {"removing", "sweeping"} /\ (p = "removing" => idleFor[t] > DocTtl)
    BY <1>1, <1>10 DEF Judge, Placed
  <2> HIDE DEF p
  <2>3. /\ r \in CallRecords /\ r.phase = p /\ r.at = t
        /\ r.session = docCall[c].session /\ r.ref = docCall[c].ref
    BY <1>1, <2>2 DEF CallRecords, DocPhases
  <2> HIDE DEF r
  <2> QED BY <2>1, <2>2, <2>3 DEF Placed
<1>11. ASSUME NEW s \in Sessions, NEW q \in Refs, NEW task \in {"push", "ask", "drop"},
              Call(c, task, s, q)
       PROVE  \E r \in CallRecords :
                /\ Placed(r) /\ r.phase = "sweeping" /\ docCall' = [docCall EXCEPT ![c] = r]
  <2> DEFINE r == [NoCall EXCEPT !.phase = "sweeping", !.task = task, !.session = s, !.ref = q,
                                 !.left = Sessions]
  <2>1. docCall' = [docCall EXCEPT ![c] = r]
    BY <1>11 DEF Call
  <2>2. r \in CallRecords /\ r.phase = "sweeping" /\ r.session = s /\ r.ref = q
    BY DEF NoCall, CallRecords, DocPhases
  <2> HIDE DEF r
  <2> QED BY <2>1, <2>2 DEF Placed
<1> QED BY <1>4, <1>5, <1>6, <1>7, <1>8, <1>9, <1>10, <1>11 DEF Plain

(* What a document that goes, or is written again, does to the measures.    *)
LEMMA NotSeenFields ==
  ASSUME DocTypes, NEW s \in Sessions, NEW r \in Refs
  PROVE  LET after == NotSeen(s, r) IN
           /\ after \in [DocCalls -> CallRecords]
           /\ \A d \in DocCalls :
                /\ after[d].phase = docCall[d].phase /\ after[d].session = docCall[d].session
                /\ after[d].ref = docCall[d].ref /\ after[d].at = docCall[d].at
                /\ after[d].seen = IF d \in Measures(s) THEN docCall[d].seen \ {r}
                                   ELSE docCall[d].seen
<1> DEFINE after == NotSeen(s, r)
<1>1. ASSUME NEW d \in DocCalls
      PROVE  /\ after[d] \in CallRecords
             /\ after[d].phase = docCall[d].phase /\ after[d].session = docCall[d].session
             /\ after[d].ref = docCall[d].ref /\ after[d].at = docCall[d].at
             /\ after[d].seen = IF d \in Measures(s) THEN docCall[d].seen \ {r}
                                ELSE docCall[d].seen
  <2>1. docCall[d] \in CallRecords
    BY DEF DocTypes
  <2>2. after[d] = IF d \in Measures(s) THEN [docCall[d] EXCEPT !.seen = docCall[d].seen \ {r}]
                   ELSE docCall[d]
    BY DEF NotSeen
  <2> HIDE DEF after
  <2> QED BY <2>1, <2>2 DEF CallRecords
<1>2. after = [d \in DocCalls |-> after[d]]
  BY DEF NotSeen
<1> HIDE DEF after
<1>3. after \in [DocCalls -> CallRecords]
  BY <1>1, <1>2
<1> QED BY <1>1, <1>3 DEF after

(* A step that takes document r of session t away: each call stays what it  *)
(* was, or opens its file.                                                  *)
Takes(t, r) ==
  /\ docs' \in DocStates
  /\ docs'[t][r] # "whole"
  /\ \A s \in Sessions, q \in Refs : s # t \/ q # r => docs'[s][q] = docs[s][q]
  /\ docCall' \in [DocCalls -> CallRecords]
  /\ \A d \in DocCalls :
       /\ \/ docCall'[d].phase = docCall[d].phase
          \/ docCall[d].phase = "allowed" /\ docCall'[d].phase = "writing"
       /\ docCall'[d].session = docCall[d].session /\ docCall'[d].ref = docCall[d].ref
       /\ docCall'[d].at = docCall[d].at
       /\ docCall'[d].seen = IF d \in Measures(t) THEN docCall[d].seen \ {r} ELSE docCall[d].seen

LEMMA UnlinkTakes ==
  ASSUME DocTypes, NEW c \in DocCalls, NEW r \in Refs, Unlink(c, r)
  PROVE  /\ docCall[c].at \in Sessions /\ Takes(docCall[c].at, r)
         /\ docs'[docCall[c].at][r] = "none"
         /\ \A d \in DocCalls : docCall'[d].phase = docCall[d].phase
<1> DEFINE t == docCall[c].at
<1>1. t \in Sessions
  BY DEF Unlink, DocTypes, Placed
<1>2. docs' = [docs EXCEPT ![t][r] = "none"] /\ docCall' = NotSeen(t, r)
  BY DEF Unlink
<1> HIDE DEF t
<1>3. /\ docs' \in DocStates /\ docs'[t][r] = "none"
      /\ \A s \in Sessions, q \in Refs : s # t \/ q # r => docs'[s][q] = docs[s][q]
  BY <1>1, <1>2 DEF DocTypes, DocStates
<1>4. /\ docCall' \in [DocCalls -> CallRecords]
      /\ \A d \in DocCalls :
           /\ docCall'[d].phase = docCall[d].phase /\ docCall'[d].session = docCall[d].session
           /\ docCall'[d].ref = docCall[d].ref /\ docCall'[d].at = docCall[d].at
           /\ docCall'[d].seen = IF d \in Measures(t) THEN docCall[d].seen \ {r}
                                 ELSE docCall[d].seen
  BY <1>1, <1>2, NotSeenFields
<1> QED BY <1>1, <1>3, <1>4 DEF t, Takes

LEMMA OpenTakes ==
  ASSUME DocTypes, NEW c \in DocCalls, OpenFile(c)
  PROVE  LET s == docCall[c].session
             r == docCall[c].ref
         IN /\ s \in Sessions /\ r \in Refs /\ Takes(s, r) /\ docs'[s][r] = c
            /\ docCall'[c].phase = "writing"
            /\ \A d \in DocCalls : d # c => docCall'[d].phase = docCall[d].phase
<1> DEFINE s == docCall[c].session
           r == docCall[c].ref
           after == NotSeen(s, r)
<1>1. s \in Sessions /\ r \in Refs /\ docCall[c].phase = "allowed"
  BY DEF OpenFile, DocTypes, Placed
<1>2. docs' = [docs EXCEPT ![s][r] = c] /\ docCall' = [after EXCEPT ![c].phase = "writing"]
  BY DEF OpenFile
<1> HIDE DEF s, r
<1>3. /\ after \in [DocCalls -> CallRecords]
      /\ \A d \in DocCalls :
           /\ after[d].phase = docCall[d].phase /\ after[d].session = docCall[d].session
           /\ after[d].ref = docCall[d].ref /\ after[d].at = docCall[d].at
           /\ after[d].seen = IF d \in Measures(s) THEN docCall[d].seen \ {r}
                              ELSE docCall[d].seen
  BY <1>1, NotSeenFields
<1> HIDE DEF after
<1>4. /\ docs' \in DocStates /\ docs'[s][r] = c
      /\ \A t \in Sessions, q \in Refs : t # s \/ q # r => docs'[t][q] = docs[t][q]
  BY <1>1, <1>2 DEF DocTypes, DocStates
<1>5. docs'[s][r] # "whole"
  BY <1>4, DocsAssumption
<1>6. /\ docCall' \in [DocCalls -> CallRecords]
      /\ docCall'[c].phase = "writing" /\ docCall'[c].session = after[c].session
      /\ docCall'[c].ref = after[c].ref /\ docCall'[c].at = after[c].at
      /\ docCall'[c].seen = after[c].seen
      /\ \A d \in DocCalls : d # c => docCall'[d] = after[d]
  <2>1. after[c] \in CallRecords
    BY <1>3
  <2>2. [after[c] EXCEPT !.phase = "writing"] \in CallRecords
    BY <2>1 DEF CallRecords, DocPhases
  <2>3. docCall' = [after EXCEPT ![c] = [after[c] EXCEPT !.phase = "writing"]]
    BY <1>2
  <2> QED BY <1>3, <2>1, <2>2, <2>3 DEF CallRecords
<1>7. Takes(s, r)
  BY <1>1, <1>3, <1>4, <1>5, <1>6 DEF Takes
<1> QED BY <1>1, <1>3, <1>4, <1>6, <1>7 DEF s, r

LEMMA MeasureMoves ==
  ASSUME DocTypes, NEW c \in DocCalls, MeasureQuota(c)
  PROVE  LET s == docCall[c].session IN
           /\ s \in Sessions /\ docCall[c].phase = "decoding"
           /\ \E r \in CallRecords :
                /\ Placed(r) /\ r.phase = "measuring" /\ r.session = s /\ r.seen = Whole(s)
                /\ docCall' = [docCall EXCEPT ![c] = r]
<1> DEFINE s == docCall[c].session
           r == [docCall[c] EXCEPT !.phase = "measuring", !.seen = Whole(s)]
<1>1. docCall[c] \in CallRecords /\ s \in Sessions /\ docCall[c].ref \in Refs
      /\ docCall[c].phase = "decoding" /\ Whole(s) \subseteq Refs
  BY CallSets DEF MeasureQuota, DocTypes, Placed
<1>2. docCall' = [docCall EXCEPT ![c] = r]
  BY DEF MeasureQuota
<1>3. /\ r \in CallRecords /\ r.phase = "measuring" /\ r.session = s /\ r.seen = Whole(s)
      /\ r.ref = docCall[c].ref
  BY <1>1 DEF CallRecords, DocPhases
<1> HIDE DEF r
<1> QED BY <1>1, <1>2, <1>3 DEF Placed

LEMMA MeasuredMoves ==
  ASSUME DocTypes, NEW c \in DocCalls, Measured(c)
  PROVE  /\ docCall[c].phase = "measuring" /\ docCall[c].session \in Sessions
         /\ \E r \in CallRecords :
              /\ Placed(r) /\ docCall' = [docCall EXCEPT ![c] = r]
              /\ \/ r.phase = "done"
                 \/ /\ r.phase = "allowed" /\ r.session = docCall[c].session
                    /\ Cardinality(docCall[c].seen) < Quota
<1>1. docCall[c] \in CallRecords /\ docCall[c].session \in Sessions /\ docCall[c].ref \in Refs
      /\ docCall[c].phase = "measuring"
  BY DEF Measured, DocTypes, Placed
<1>2. CASE EndCall(c)
  BY <1>1, <1>2, EndedTyped DEF EndCall
<1>3. CASE ~EndCall(c)
  <2>1. PICK usage \in Cardinality(docCall[c].seen)..Cardinality(Refs) :
          /\ FitsQuota(usage)
          /\ docCall' = [docCall EXCEPT ![c].phase = "allowed", ![c].seen = {}]
    BY <1>3 DEF Measured
  <2>2. Cardinality(docCall[c].seen) < Quota
    <3>1. Cardinality(docCall[c].seen) \in Nat /\ Cardinality(Refs) \in Nat
      BY <1>1, FewerRefs DEF CallRecords
    <3> QED BY <2>1, <3>1, DocsAssumption DEF FitsQuota
  <2> DEFINE r == [docCall[c] EXCEPT !.phase = "allowed", !.seen = {}]
  <2>3. docCall' = [docCall EXCEPT ![c] = r]
    BY <2>1
  <2>4. r \in CallRecords /\ r.phase = "allowed" /\ r.session = docCall[c].session
        /\ r.ref = docCall[c].ref
    BY <1>1 DEF CallRecords, DocPhases
  <2> HIDE DEF r
  <2> QED BY <1>1, <2>2, <2>3, <2>4 DEF Placed
<1> QED BY <1>2, <1>3

(* A crash, and hours between the calls. *)
LEMMA CrashMoves ==
  ASSUME DocTypes, DocsCrash
  PROVE  /\ docCall' \in [DocCalls -> CallRecords]
         /\ \A c \in DocCalls : docCall'[c].phase \in {"idle", "done"}
<1>1. ASSUME NEW c \in DocCalls
      PROVE  docCall'[c] \in CallRecords /\ docCall'[c].phase \in {"idle", "done"}
  BY EndedTyped DEF DocsCrash, DocTypes, Working
<1> QED BY <1>1 DEF DocsCrash

LEMMA PlainFiles ==
  ASSUME DocTypes, NEW c \in DocCalls, Plain(c)
  PROVE  /\ docs' \in DocStates /\ crowd' = crowd
         /\ \A s \in Sessions, r \in Refs : docs'[s][r] = docs[s][r] \/ docs'[s][r] = "whole"
         /\ \/ docs' = docs
            \/ /\ docCall[c].phase = "writing"
               /\ \A s \in Sessions, r \in Refs :
                    s # docCall[c].session \/ r # docCall[c].ref => docs'[s][r] = docs[s][r]
<1>1. CASE CloseFile(c)
  <2> DEFINE s == docCall[c].session
             r == docCall[c].ref
  <2>1. s \in Sessions /\ r \in Refs /\ crowd' = crowd /\ docCall[c].phase = "writing"
    BY <1>1 DEF CloseFile, DocTypes, Placed
  <2>2. docs' = docs \/ docs' = [docs EXCEPT ![s][r] = "whole"]
    BY <1>1 DEF CloseFile
  <2> HIDE DEF s, r
  <2>3. docs \in DocStates
    BY DEF DocTypes
  <2>4. CASE docs' = [docs EXCEPT ![s][r] = "whole"]
    <3>1. docs' \in DocStates
      BY <2>1, <2>3, <2>4 DEF DocStates
    <3>2. \A t \in Sessions, q \in Refs :
            docs'[t][q] = IF t = s /\ q = r THEN "whole" ELSE docs[t][q]
      BY <2>1, <2>3, <2>4 DEF DocStates
    <3> QED BY <2>1, <3>1, <3>2 DEF s, r
  <2> QED BY <2>1, <2>2, <2>3, <2>4
<1>2. CASE ~CloseFile(c)
  <2>1. docs' = docs /\ crowd' = crowd
    BY <1>2 DEF Plain, EndSweep, Removed, TouchSession, LookUp, RefusePush, FileError, ReadDocument,
                Judge, Call
  <2> QED BY <2>1 DEF DocTypes
<1> QED BY <1>1, <1>2

-----------------------------------------------------------------------------
LEMMA DocTypesStep == DocTypes /\ [DocsNext]_docVars => DocTypes'
<1> SUFFICES ASSUME DocTypes, [DocsNext]_docVars PROVE DocTypes'
  OBVIOUS
<1>1. CASE UNCHANGED docVars
  BY <1>1 DEF docVars, DocTypes, Placed
<1>2. CASE DocTick
  BY <1>2 DEF DocTick, DocTypes, Placed
<1>3. CASE DocsCrash
  <2>1. \A c \in DocCalls : Placed(docCall'[c])
    BY <1>3, CrashMoves DEF Placed
  <2> QED BY <1>3, <2>1, CrashMoves DEF DocsCrash, DocTypes
<1>4. ASSUME NEW c \in DocCalls, Plain(c) PROVE DocTypes'
  <2>1. docCall' \in [DocCalls -> CallRecords] /\ \A d \in DocCalls : Placed(docCall'[d])
    BY <1>4, PlainMoves, CallMoves
  <2>2. docs' \in DocStates /\ crowd' = crowd
    BY <1>4, PlainFiles
  <2>3. CASE TouchSession(c)
    <3>1. docCall[c].session \in Sessions
      BY <2>3 DEF TouchSession, DocTypes, Placed
    <3>2. /\ dirs' \subseteq Sessions /\ idleFor' \in [Sessions -> Nat]
          /\ usedFor' \in [Sessions -> Nat] /\ overtaken' \subseteq DocCalls
      BY <2>3, <3>1 DEF TouchSession, Uses, DocTypes
    <3> QED BY <2>1, <2>2, <3>2 DEF DocTypes
  <2>4. CASE ~TouchSession(c)
    <3>1. /\ UNCHANGED <<idleFor, usedFor>> /\ dirs' \subseteq dirs
          /\ overtaken' \subseteq overtaken
      BY <1>4, <2>4 DEF Plain, EndSweep, Removed, LookUp, RefusePush, CloseFile, FileError,
                        ReadDocument, Judge, Call
    <3> QED BY <2>1, <2>2, <3>1 DEF DocTypes
  <2> QED BY <2>3, <2>4
<1>5. ASSUME NEW c \in DocCalls, MeasureQuota(c) PROVE DocTypes'
  <2>1. docCall' \in [DocCalls -> CallRecords] /\ \A d \in DocCalls : Placed(docCall'[d])
    BY <1>5, MeasureMoves, CallMoves
  <2>2. crowd' \in [Sessions -> Nat]
    <3> DEFINE s == docCall[c].session
               n == Cardinality(Writes(s)) + Cardinality(Measures(s)) + 1
    <3>1. n \in Nat
      BY CallSets, FewerCalls
    <3>2. crowd' = IF n > crowd[s] THEN [crowd EXCEPT ![s] = n] ELSE crowd
      BY <1>5 DEF MeasureQuota
    <3> HIDE DEF n
    <3> QED BY <3>1, <3>2 DEF DocTypes
  <2> QED BY <1>5, <2>1, <2>2 DEF MeasureQuota, DocTypes
<1>6. ASSUME NEW c \in DocCalls, Measured(c) PROVE DocTypes'
  <2>1. docCall' \in [DocCalls -> CallRecords] /\ \A d \in DocCalls : Placed(docCall'[d])
    BY <1>6, MeasuredMoves, CallMoves
  <2> QED BY <1>6, <2>1 DEF Measured, DocTypes
<1>7. ASSUME NEW t \in Sessions, NEW r \in Refs, Takes(t, r)
      PROVE  /\ docs' \in DocStates /\ docCall' \in [DocCalls -> CallRecords]
             /\ \A d \in DocCalls : Placed(docCall'[d])
  BY <1>7 DEF Takes, DocTypes, Placed
<1>8. ASSUME NEW c \in DocCalls, OpenFile(c) PROVE DocTypes'
  <2>1. docCall[c].session \in Sessions
    BY <1>8, OpenTakes
  <2>2. dirs' \subseteq Sessions /\ idleFor' \in [Sessions -> Nat]
        /\ UNCHANGED <<usedFor, overtaken, crowd>>
    BY <1>8, <2>1 DEF OpenFile, DocTypes
  <2> QED BY <1>7, <1>8, <2>2, OpenTakes DEF DocTypes
<1>9. ASSUME NEW c \in DocCalls, NEW r \in Refs, Unlink(c, r) PROVE DocTypes'
  <2>1. docCall[c].at \in Sessions
    BY <1>9, UnlinkTakes
  <2>2. idleFor' \in [Sessions -> Nat] /\ UNCHANGED <<dirs, usedFor, overtaken, crowd>>
    BY <1>9, <2>1 DEF Unlink, DocTypes
  <2> QED BY <1>7, <1>9, <2>2, UnlinkTakes DEF DocTypes
<1> QED BY <1>1, <1>2, <1>3, <1>4, <1>5, <1>6, <1>8, <1>9, DocsSteps

(* A use of a session touches its directory. *)
LEMMA TouchingStep == DocTypes /\ Touching /\ [DocsNext]_docVars => Touching'
<1> SUFFICES ASSUME DocTypes, Touching, [DocsNext]_docVars PROVE Touching'
  OBVIOUS
<1> USE DEF DocTypes, Touching
<1>1. CASE DocTick
  BY <1>1 DEF DocTick
<1>2. ASSUME NEW c \in DocCalls, TouchSession(c) PROVE Touching'
  BY <1>2 DEF TouchSession, Uses
<1>3. ASSUME NEW c \in DocCalls, OpenFile(c) PROVE Touching'
  BY <1>3 DEF OpenFile
<1>4. ASSUME NEW c \in DocCalls, NEW r \in Refs, Unlink(c, r) PROVE Touching'
  BY <1>4 DEF Unlink
<1>5. ASSUME UNCHANGED <<idleFor, usedFor>> PROVE Touching'
  BY <1>5
<1>6. ASSUME NEW c \in DocCalls, Plain(c) \/ MeasureQuota(c) \/ Measured(c), ~TouchSession(c)
      PROVE  Touching'
  BY <1>5, <1>6 DEF Plain, MeasureQuota, Measured, EndSweep, Removed, LookUp, RefusePush, CloseFile,
                    FileError, ReadDocument, Judge, Call
<1>7. CASE DocsCrash \/ UNCHANGED docVars
  BY <1>5, <1>7 DEF DocsCrash, docVars
<1> HIDE DEF DocTypes, Touching
<1> QED BY <1>1, <1>2, <1>3, <1>4, <1>6, <1>7, DocsSteps

LEMMA CondemnedStep ==
  DocTypes /\ Touching /\ Condemned /\ [DocsNext]_docVars => Condemned'
<1> SUFFICES ASSUME DocTypes, Touching, Condemned, [DocsNext]_docVars,
                    NEW d \in DocCalls, docCall'[d].phase = "removing"
             PROVE  d \in overtaken' \/ usedFor'[docCall'[d].at] > DocTtl
  BY DEF Condemned
<1>1. ASSUME docCall'[d].phase = docCall[d].phase, docCall'[d].at = docCall[d].at,
             usedFor' = usedFor, d \in overtaken => d \in overtaken'
      PROVE  d \in overtaken' \/ usedFor'[docCall'[d].at] > DocTtl
  BY <1>1 DEF Condemned
<1>2. CASE UNCHANGED docVars
  BY <1>1, <1>2 DEF docVars
<1>3. CASE DocTick \/ DocsCrash
  <2>1. docCall'[d].phase \in {"idle", "done"}
    BY <1>3, CrashMoves DEF DocTick, Working
  <2> QED BY <2>1
<1>4. ASSUME NEW t \in Sessions, NEW r \in Refs, Takes(t, r), UNCHANGED <<usedFor, overtaken>>
      PROVE  d \in overtaken' \/ usedFor'[docCall'[d].at] > DocTtl
  BY <1>1, <1>4 DEF Takes
<1>5. ASSUME NEW c \in DocCalls, OpenFile(c)
      PROVE  d \in overtaken' \/ usedFor'[docCall'[d].at] > DocTtl
  BY <1>4, <1>5, OpenTakes DEF OpenFile
<1>6. ASSUME NEW c \in DocCalls, NEW r \in Refs, Unlink(c, r)
      PROVE  d \in overtaken' \/ usedFor'[docCall'[d].at] > DocTtl
  BY <1>4, <1>6, UnlinkTakes DEF Unlink
<1>7. ASSUME NEW c \in DocCalls, MeasureQuota(c) \/ Measured(c)
      PROVE  d \in overtaken' \/ usedFor'[docCall'[d].at] > DocTtl
  <2>1. PICK r \in CallRecords : /\ Placed(r) /\ r.phase # "removing"
                                 /\ docCall' = [docCall EXCEPT ![c] = r]
    BY <1>7, MeasureMoves, MeasuredMoves
  <2>2. docCall'[d] = docCall[d]
    BY <2>1, CallMoves
  <2> QED BY <1>1, <1>7, <2>2 DEF MeasureQuota, Measured
<1>8. ASSUME NEW c \in DocCalls, Plain(c)
      PROVE  d \in overtaken' \/ usedFor'[docCall'[d].at] > DocTtl
  <2>1. PICK r \in CallRecords :
          /\ Placed(r) /\ docCall' = [docCall EXCEPT ![c] = r]
          /\ r.phase = "removing" => \E t \in Sessions : /\ Judge(c, t) /\ r.at = t
                                                         /\ idleFor[t] > DocTtl
    BY <1>8, PlainMoves
  <2>2. docCall'[c] = r /\ \A b \in DocCalls : b # c => docCall'[b] = docCall[b]
    BY <2>1, CallMoves
  <2>3. CASE d = c
    <3>1. PICK t \in Sessions : Judge(c, t) /\ r.at = t /\ idleFor[t] > DocTtl
      BY <2>1, <2>2, <2>3
    <3>2. usedFor' = usedFor /\ usedFor[t] \in Nat /\ idleFor[t] \in Nat /\ idleFor[t] <= usedFor[t]
      BY <3>1 DEF Judge, DocTypes, Touching
    <3> QED BY <2>2, <2>3, <3>1, <3>2, DocsAssumption
  <2>4. CASE d # c /\ TouchSession(c)
    <3> DEFINE s == docCall[c].session
    <3>1. /\ s \in Sessions /\ usedFor' = [usedFor EXCEPT ![s] = 0]
          /\ overtaken' = overtaken \cup {b \in DocCalls : docCall[b].phase = "removing"
                                                           /\ docCall[b].at = s}
      BY <2>4 DEF TouchSession, Uses, DocTypes, Placed
    <3>2. docCall'[d] = docCall[d] /\ docCall[d].at \in Sessions
      BY <2>2, <2>4 DEF DocTypes, Placed
    <3>3. CASE docCall[d].at = s
      BY <3>1, <3>2, <3>3
    <3>4. CASE docCall[d].at # s
      <4>1. usedFor'[docCall[d].at] = usedFor[docCall[d].at]
        BY <3>1, <3>2, <3>4 DEF DocTypes
      <4> QED BY <3>1, <3>2, <4>1 DEF Condemned
    <3> QED BY <3>3, <3>4
  <2>5. CASE d # c /\ ~TouchSession(c)
    <3>1. usedFor' = usedFor /\ overtaken \ {c} \subseteq overtaken'
      BY <1>8, <2>5 DEF Plain, EndSweep, Removed, LookUp, RefusePush, CloseFile, FileError,
                        ReadDocument, Judge, Call
    <3> QED BY <1>1, <2>2, <2>5, <3>1
  <2> QED BY <2>3, <2>4, <2>5
<1> QED BY <1>2, <1>3, <1>5, <1>6, <1>7, <1>8, DocsSteps

-----------------------------------------------------------------------------
(* A step that takes a document away, on the sets of calls of a session.    *)
LEMMA TakesSets ==
  ASSUME DocTypes, NEW t \in Sessions, NEW r \in Refs, Takes(t, r), NEW s \in Sessions
  PROVE  /\ Writes(s)' = Writes(s) /\ Measures(s)' = Measures(s)
         /\ Whole(s)' = IF s = t THEN Whole(s) \ {r} ELSE Whole(s)
         /\ \A c \in Measures(s) :
              docCall'[c].seen = IF s = t THEN docCall[c].seen \ {r} ELSE docCall[c].seen
<1>1. Writes(s)' = Writes(s)
  BY DEF Takes, Writes
<1>2. Measures(s)' = Measures(s)
  BY DEF Takes, Measures
<1>3. Whole(s)' = IF s = t THEN Whole(s) \ {r} ELSE Whole(s)
  BY DEF Takes, Whole
<1>4. \A c \in Measures(s) : c \in Measures(t) <=> s = t
  BY DEF Measures
<1>5. \A c \in Measures(s) :
        docCall'[c].seen = IF s = t THEN docCall[c].seen \ {r} ELSE docCall[c].seen
  BY <1>4 DEF Takes, Measures
<1> QED BY <1>1, <1>2, <1>3, <1>5

(* A call that does not measure after its step leaves the measures of others *)
(* as they were.                                                            *)
LEMMA MeasuresLeft ==
  ASSUME DocTypes, NEW c \in DocCalls, NEW r \in CallRecords, Placed(r), r.phase # "measuring",
         docCall' = [docCall EXCEPT ![c] = r], NEW s \in Sessions
  PROVE  /\ Measures(s)' = Measures(s) \ {c}
         /\ \A d \in Measures(s)' : docCall'[d] = docCall[d]
         /\ \A k : Short(s, k)' = Short(s, k) \ {c}
<1>1. docCall'[c] = r /\ \A d \in DocCalls : d # c => docCall'[d] = docCall[d]
  BY CallMoves
<1>2. Measures(s)' = Measures(s) \ {c} /\ \A d \in Measures(s)' : d \in DocCalls /\ d # c
  BY <1>1 DEF Measures
<1>3. \A k : Short(s, k)' = Short(s, k) \ {c}
  BY <1>1, <1>2 DEF Short
<1> QED BY <1>1, <1>2, <1>3

LEMMA SeenStep == DocTypes /\ Seen /\ [DocsNext]_docVars => Seen'
<1> SUFFICES ASSUME DocTypes, Seen, [DocsNext]_docVars, NEW s \in Sessions,
                    NEW d \in Measures(s)'
             PROVE  docCall'[d].seen \subseteq Whole(s)'
  BY DEF Seen
<1>1. ASSUME d \in Measures(s), docCall'[d].seen = docCall[d].seen,
             Whole(s) \subseteq Whole(s)'
      PROVE  docCall'[d].seen \subseteq Whole(s)'
  BY <1>1 DEF Seen
<1>2. CASE UNCHANGED docVars \/ DocTick
  <2>1. docs' = docs /\ docCall' = docCall
    BY <1>2 DEF docVars, DocTick
  <2> QED BY <1>1, <2>1 DEF Whole, Measures
<1>3. CASE DocsCrash
  BY <1>3, CrashMoves DEF Measures
<1>4. ASSUME NEW t \in Sessions, NEW r \in Refs, Takes(t, r)
      PROVE  docCall'[d].seen \subseteq Whole(s)'
  <2>1. d \in Measures(s)
    BY <1>4, TakesSets
  <2>2. docCall[d].seen \subseteq Whole(s)
    BY <2>1 DEF Seen
  <2>3. docCall'[d].seen = IF s = t THEN docCall[d].seen \ {r} ELSE docCall[d].seen
    BY <1>4, <2>1, TakesSets
  <2>4. Whole(s)' = IF s = t THEN Whole(s) \ {r} ELSE Whole(s)
    BY <1>4, TakesSets
  <2> QED BY <2>2, <2>3, <2>4
<1>5. ASSUME NEW c \in DocCalls, OpenFile(c) PROVE docCall'[d].seen \subseteq Whole(s)'
  BY <1>4, <1>5, OpenTakes
<1>6. ASSUME NEW c \in DocCalls, NEW r \in Refs, Unlink(c, r)
      PROVE  docCall'[d].seen \subseteq Whole(s)'
  BY <1>4, <1>6, UnlinkTakes
<1>7. ASSUME NEW c \in DocCalls, MeasureQuota(c) PROVE docCall'[d].seen \subseteq Whole(s)'
  <2>1. PICK r \in CallRecords :
          /\ Placed(r) /\ r.session = docCall[c].session /\ r.seen = Whole(docCall[c].session)
          /\ docCall' = [docCall EXCEPT ![c] = r]
    BY <1>7, MeasureMoves
  <2>2. docCall'[c] = r /\ \A b \in DocCalls : b # c => docCall'[b] = docCall[b]
    BY <2>1, CallMoves
  <2>3. Whole(s)' = Whole(s)
    BY <1>7 DEF MeasureQuota, Whole
  <2>4. CASE d = c
    BY <2>1, <2>2, <2>3, <2>4 DEF Measures
  <2>5. CASE d # c
    BY <1>1, <2>2, <2>3, <2>5 DEF Measures
  <2> QED BY <2>4, <2>5
<1>8. ASSUME NEW c \in DocCalls, Measured(c) PROVE docCall'[d].seen \subseteq Whole(s)'
  <2>1. d \in Measures(s) /\ docCall'[d] = docCall[d]
    BY <1>8, MeasuredMoves, MeasuresLeft
  <2>2. Whole(s)' = Whole(s)
    BY <1>8 DEF Measured, Whole
  <2> QED BY <1>1, <2>1, <2>2
<1>9. ASSUME NEW c \in DocCalls, Plain(c) PROVE docCall'[d].seen \subseteq Whole(s)'
  <2>1. d \in Measures(s) /\ docCall'[d] = docCall[d]
    BY <1>9, PlainMoves, MeasuresLeft
  <2>2. Whole(s) \subseteq Whole(s)'
    BY <1>9, PlainFiles DEF Whole
  <2> QED BY <1>1, <2>1, <2>2
<1> QED BY <1>2, <1>3, <1>5, <1>6, <1>7, <1>8, <1>9, DocsSteps

-----------------------------------------------------------------------------
(* Where no more documents are stored or to be, and no more measures fit,   *)
(* room is left.                                                            *)
LEMMA RoomKept ==
  ASSUME DocTypes, DocTypes', Room, NEW s \in Sessions, crowd'[s] = crowd[s],
         Cardinality(Whole(s)') + Cardinality(Writes(s)') <= Cardinality(Whole(s)) + Cardinality(Writes(s)),
         Writes(s)' \subseteq Writes(s), Measures(s)' \subseteq Measures(s),
         \A k \in Nat : Short(s, k)' \subseteq Short(s, k)
  PROVE  RoomIn(s)'
<1> USE CallSets, FewerCalls, FewerRefs
<1>1. /\ Cardinality(Writes(s)') \in Nat /\ Cardinality(Writes(s)) \in Nat
      /\ Cardinality(Measures(s)') \in Nat /\ Cardinality(Measures(s)) \in Nat
      /\ Cardinality(Whole(s)) \in Nat /\ crowd[s] \in Nat
      /\ Cardinality(Writes(s)') <= Cardinality(Writes(s))
      /\ Cardinality(Measures(s)') <= Cardinality(Measures(s))
  BY DEF DocTypes
<1>2. Cardinality(Whole(s)') \in Nat
  <2>1. Whole(s)' \in SUBSET Refs
    BY DEF Whole
  <2> QED BY <2>1
<1>3. Cardinality(Writes(s)') + Cardinality(Measures(s)') <= crowd'[s]
  BY <1>1 DEF Room, RoomIn
<1>4. ASSUME NEW k \in Nat
      PROVE  Cardinality(Whole(s)') + Cardinality(Writes(s)') + Cardinality(Short(s, k)')
             <= Quota + crowd'[s] - 1 + k
  <2>1. /\ Cardinality(Short(s, k)') \in Nat /\ Cardinality(Short(s, k)) \in Nat
        /\ Cardinality(Short(s, k)') <= Cardinality(Short(s, k))
    BY <1>4
  <2>2. Cardinality(Whole(s)) + Cardinality(Writes(s)) + Cardinality(Short(s, k))
        <= Quota + crowd[s] - 1 + k
    BY DEF Room, RoomIn
  <2> QED BY <1>1, <1>2, <2>1, <2>2, DocsAssumption
<1> QED BY <1>3, <1>4 DEF RoomIn

(* A document taken away: what it leaves room for was counted with one more *)
(* document to be removed.                                                  *)
LEMMA RoomTaken ==
  ASSUME DocTypes, DocTypes', Seen, Room, NEW t \in Sessions, NEW r \in Refs, Takes(t, r),
         crowd' = crowd, NEW s \in Sessions
  PROVE  RoomIn(s)'
<1>1. /\ Writes(s)' = Writes(s) /\ Measures(s)' = Measures(s)
      /\ Whole(s)' = IF s = t THEN Whole(s) \ {r} ELSE Whole(s)
      /\ \A c \in Measures(s) :
           docCall'[c].seen = IF s = t THEN docCall[c].seen \ {r} ELSE docCall[c].seen
  BY TakesSets
<1>2. CASE s # t \/ r \notin Whole(s)
  <2>1. Whole(s)' = Whole(s)
    BY <1>1, <1>2
  <2>2. \A c \in Measures(s) : docCall'[c].seen = docCall[c].seen
    BY <1>1, <1>2 DEF Seen
  <2>3. \A k \in Nat : Short(s, k)' \subseteq Short(s, k)
    BY <1>1, <2>2 DEF Short
  <2>4. Cardinality(Whole(s)') + Cardinality(Writes(s)') <= Cardinality(Whole(s)) + Cardinality(Writes(s))
    <3>1. Cardinality(Whole(s)) \in Nat /\ Cardinality(Writes(s)) \in Nat
      BY CallSets, FewerCalls, FewerRefs
    <3>2. Cardinality(Whole(s)') = Cardinality(Whole(s))
      BY <2>1
    <3>3. Cardinality(Writes(s)') = Cardinality(Writes(s))
      BY <1>1
    <3> QED BY <3>1, <3>2, <3>3
  <2> QED BY <1>1, <2>3, <2>4, RoomKept
<1>3. CASE s = t /\ r \in Whole(s)
  <2>1. /\ Cardinality(Whole(s)') = Cardinality(Whole(s)) - 1 /\ Cardinality(Whole(s)) \in Nat
        /\ Cardinality(Writes(s)) \in Nat /\ crowd[s] \in Nat /\ Cardinality(Whole(s)') \in Nat
    BY <1>1, <1>3, CallSets, FewerCalls, FewerRefs DEF DocTypes
  <2>2. ASSUME NEW k \in Nat
        PROVE  Cardinality(Whole(s)') + Cardinality(Writes(s)') + Cardinality(Short(s, k)')
               <= Quota + crowd'[s] - 1 + k
    <3>1. Short(s, k)' \subseteq Short(s, k + 1)
      <4>1. ASSUME NEW c \in Short(s, k)' PROVE c \in Short(s, k + 1)
        <5>1. c \in Measures(s) /\ Cardinality(docCall'[c].seen) < Quota + k
          BY <1>1 DEF Short
        <5>2. docCall'[c].seen = docCall[c].seen \ {r} /\ docCall[c].seen \in SUBSET Refs
          BY <1>1, <1>3, <5>1 DEF DocTypes, CallRecords, Measures
        <5>3. /\ Cardinality(docCall[c].seen) \in Nat
              /\ Cardinality(docCall[c].seen) <= Cardinality(docCall[c].seen \ {r}) + 1
          BY <5>2, FewerRefs
        <5>4. Cardinality(docCall[c].seen \ {r}) \in Nat
          BY <5>2, FewerRefs
        <5>5. Cardinality(docCall[c].seen) < Quota + (k + 1)
          BY <5>1, <5>2, <5>3, <5>4, DocsAssumption
        <5> QED BY <5>1, <5>5 DEF Short
      <4> QED BY <4>1
    <3>2. /\ Cardinality(Short(s, k)') \in Nat /\ Cardinality(Short(s, k + 1)) \in Nat
          /\ Cardinality(Short(s, k)') <= Cardinality(Short(s, k + 1))
      BY <3>1, CallSets, FewerCalls
    <3>3. Cardinality(Whole(s)) + Cardinality(Writes(s)) + Cardinality(Short(s, k + 1))
          <= Quota + crowd[s] - 1 + (k + 1)
      BY DEF Room, RoomIn
    <3> QED BY <1>1, <2>1, <3>2, <3>3, DocsAssumption
  <2>3. Cardinality(Writes(s)') + Cardinality(Measures(s)') <= crowd'[s]
    BY <1>1 DEF Room, RoomIn
  <2> QED BY <2>2, <2>3 DEF RoomIn
<1> QED BY <1>2, <1>3

(* A measure that begins is one more that runs; it fits only where there is *)
(* room for the documents of all of them.                                   *)
LEMMA RoomMeasured ==
  ASSUME DocTypes, DocTypes', Room, NEW c \in DocCalls, MeasureQuota(c), NEW s \in Sessions
  PROVE  RoomIn(s)'
<1> DEFINE t == docCall[c].session
<1>1. /\ t \in Sessions /\ docCall[c].phase = "decoding"
      /\ \E r \in CallRecords :
           /\ Placed(r) /\ r.phase = "measuring" /\ r.session = t /\ r.seen = Whole(t)
           /\ docCall' = [docCall EXCEPT ![c] = r]
  BY MeasureMoves
<1>2. /\ docCall'[c].phase = "measuring" /\ docCall'[c].session = t /\ docCall'[c].seen = Whole(t)
      /\ \A d \in DocCalls : d # c => docCall'[d] = docCall[d]
  BY <1>1, CallMoves
<1>3. docs' = docs
  BY DEF MeasureQuota
<1>4. Whole(s)' = Whole(s) /\ Writes(s)' = Writes(s)
  BY <1>1, <1>2, <1>3 DEF Whole, Writes
<1>5. /\ Cardinality(Writes(s)) \in Nat /\ Cardinality(Measures(s)) \in Nat
      /\ Cardinality(Whole(s)) \in Nat /\ crowd[s] \in Nat
  BY CallSets, FewerCalls, FewerRefs DEF DocTypes
<1>6. crowd' = IF Cardinality(Writes(t)) + Cardinality(Measures(t)) + 1 > crowd[t]
               THEN [crowd EXCEPT ![t] = Cardinality(Writes(t)) + Cardinality(Measures(t)) + 1]
               ELSE crowd
  BY DEF MeasureQuota
<1> HIDE DEF t
<1>7. CASE s # t
  <2>1. Measures(s)' = Measures(s) /\ \A d \in Measures(s) : docCall'[d].seen = docCall[d].seen
    BY <1>1, <1>2, <1>7 DEF Measures
  <2>2. \A k \in Nat : Short(s, k)' \subseteq Short(s, k)
    BY <2>1 DEF Short
  <2>3. crowd'[s] = crowd[s]
    BY <1>6, <1>7 DEF DocTypes
  <2>4. Cardinality(Whole(s)') + Cardinality(Writes(s)') <= Cardinality(Whole(s)) + Cardinality(Writes(s))
    BY <1>4, <1>5
  <2> QED BY <1>4, <2>1, <2>2, <2>3, <2>4, RoomKept
<1>8. CASE s = t
  <2>1. Measures(s)' = Measures(s) \cup {c} /\ c \notin Measures(s)
    BY <1>1, <1>2, <1>8 DEF Measures
  <2>2. Cardinality(Measures(s)') = Cardinality(Measures(s)) + 1
    BY <2>1, CallSets, FewerCalls
  <2>3. /\ crowd'[s] \in Nat /\ crowd'[s] >= crowd[s]
        /\ crowd'[s] >= Cardinality(Writes(s)) + Cardinality(Measures(s)) + 1
    <3>1. CASE Cardinality(Writes(s)) + Cardinality(Measures(s)) + 1 > crowd[s]
      <4>1. crowd'[s] = Cardinality(Writes(s)) + Cardinality(Measures(s)) + 1
        BY <1>6, <1>8, <3>1 DEF DocTypes
      <4> QED BY <1>5, <3>1, <4>1
    <3>2. CASE ~(Cardinality(Writes(s)) + Cardinality(Measures(s)) + 1 > crowd[s])
      <4>1. crowd'[s] = crowd[s]
        BY <1>6, <1>8, <3>2
      <4> QED BY <1>5, <3>2, <4>1
    <3> QED BY <3>1, <3>2
  <2>4. ASSUME NEW k \in Nat
        PROVE  Cardinality(Whole(s)') + Cardinality(Writes(s)') + Cardinality(Short(s, k)')
               <= Quota + crowd'[s] - 1 + k
    <3>1. CASE Cardinality(Whole(s)) < Quota + k
      <4>1. Cardinality(Short(s, k)') <= Cardinality(Measures(s)') /\ Cardinality(Short(s, k)') \in Nat
        <5>1. Short(s, k)' \subseteq Measures(s)' /\ Measures(s)' \in SUBSET DocCalls
          BY DEF Short, Measures
        <5> QED BY <5>1, FewerCalls
      <4> QED BY <1>4, <1>5, <2>2, <2>3, <3>1, <4>1, DocsAssumption
    <3>2. CASE ~(Cardinality(Whole(s)) < Quota + k)
      <4>1. Short(s, k)' \subseteq Short(s, k)
        <5>1. ASSUME NEW d \in Short(s, k)' PROVE d \in Short(s, k)
          <6>1. d \in Measures(s)' /\ Cardinality(docCall'[d].seen) < Quota + k
            BY DEF Short
          <6>2. d # c
            BY <1>2, <1>8, <3>2, <6>1
          <6>3. d \in Measures(s) /\ docCall'[d] = docCall[d]
            BY <1>2, <2>1, <6>1, <6>2 DEF Measures
          <6> QED BY <6>1, <6>3 DEF Short
        <5> QED BY <5>1
      <4>2. /\ Cardinality(Short(s, k)') <= Cardinality(Short(s, k))
            /\ Cardinality(Short(s, k)') \in Nat /\ Cardinality(Short(s, k)) \in Nat
        BY <4>1, CallSets, FewerCalls
      <4>3. Cardinality(Whole(s)) + Cardinality(Writes(s)) + Cardinality(Short(s, k))
            <= Quota + crowd[s] - 1 + k
        BY DEF Room, RoomIn
      <4> QED BY <1>4, <1>5, <2>3, <4>2, <4>3, DocsAssumption
    <3> QED BY <3>1, <3>2
  <2>5. Cardinality(Writes(s)') + Cardinality(Measures(s)') <= crowd'[s]
    BY <1>4, <1>5, <2>2, <2>3
  <2> QED BY <2>4, <2>5 DEF RoomIn
<1> QED BY <1>7, <1>8

(* A call that passes had been counted among the measures that fit. *)
LEMMA RoomAllowed ==
  ASSUME DocTypes, DocTypes', Room, NEW c \in DocCalls, Measured(c), NEW s \in Sessions
  PROVE  RoomIn(s)'
<1>1. /\ docCall[c].phase = "measuring" /\ docs' = docs /\ crowd' = crowd
  BY DEF Measured
<1>2. PICK r \in CallRecords :
        /\ Placed(r) /\ docCall' = [docCall EXCEPT ![c] = r]
        /\ \/ r.phase = "done"
           \/ /\ r.phase = "allowed" /\ r.session = docCall[c].session
              /\ Cardinality(docCall[c].seen) < Quota
  BY MeasuredMoves
<1>3. docCall'[c] = r /\ \A d \in DocCalls : d # c => docCall'[d] = docCall[d]
  BY <1>2, CallMoves
<1>4. Measures(s)' = Measures(s) \ {c} /\ \A k : Short(s, k)' = Short(s, k) \ {c}
  BY <1>2, MeasuresLeft
<1>5. Whole(s)' = Whole(s)
  BY <1>1 DEF Whole
<1>6. /\ Cardinality(Writes(s)) \in Nat /\ Cardinality(Measures(s)) \in Nat
      /\ Cardinality(Whole(s)) \in Nat /\ crowd[s] \in Nat
  BY CallSets, FewerCalls, FewerRefs DEF DocTypes
<1>7. CASE r.phase = "done" \/ docCall[c].session # s
  <2>1. Writes(s)' = Writes(s)
    BY <1>1, <1>2, <1>3, <1>7 DEF Writes
  <2>2. Cardinality(Whole(s)') + Cardinality(Writes(s)') <= Cardinality(Whole(s)) + Cardinality(Writes(s))
    BY <1>5, <1>6, <2>1
  <2> QED BY <1>1, <1>4, <2>1, <2>2, RoomKept
<1>8. CASE r.phase = "allowed" /\ docCall[c].session = s
  <2>1. Writes(s)' = Writes(s) \cup {c} /\ c \notin Writes(s) /\ c \in Measures(s)
    BY <1>1, <1>2, <1>3, <1>8 DEF Writes, Measures
  <2>2. Cardinality(Writes(s)') = Cardinality(Writes(s)) + 1
    BY <2>1, CallSets, FewerCalls
  <2>3. Cardinality(Measures(s)') = Cardinality(Measures(s)) - 1
    BY <1>4, <2>1, CallSets, FewerCalls
  <2>4. ASSUME NEW k \in Nat
        PROVE  Cardinality(Whole(s)') + Cardinality(Writes(s)') + Cardinality(Short(s, k)')
               <= Quota + crowd'[s] - 1 + k
    <3>1. c \in Short(s, k)
      <4>1. Cardinality(docCall[c].seen) \in Nat
        BY FewerRefs DEF DocTypes, CallRecords
      <4>2. Cardinality(docCall[c].seen) < Quota + k
        BY <1>2, <1>8, <4>1, DocsAssumption
      <4> QED BY <2>1, <4>2 DEF Short
    <3>2. Cardinality(Short(s, k)') = Cardinality(Short(s, k)) - 1 /\ Cardinality(Short(s, k)) \in Nat
      BY <1>4, <3>1, CallSets, FewerCalls
    <3>3. Cardinality(Whole(s)) + Cardinality(Writes(s)) + Cardinality(Short(s, k))
          <= Quota + crowd[s] - 1 + k
      BY DEF Room, RoomIn
    <3> QED BY <1>1, <1>5, <1>6, <2>2, <3>2, <3>3, DocsAssumption
  <2>5. Cardinality(Writes(s)') + Cardinality(Measures(s)') <= crowd'[s]
    BY <1>1, <1>6, <2>2, <2>3 DEF Room, RoomIn
  <2> QED BY <2>4, <2>5 DEF RoomIn
<1> QED BY <1>2, <1>7, <1>8

(* Any other step of a call: a document that becomes whole was counted as a *)
(* write.                                                                   *)
LEMMA RoomPlain ==
  ASSUME DocTypes, DocTypes', Room, NEW c \in DocCalls, Plain(c), NEW s \in Sessions
  PROVE  RoomIn(s)'
<1>1. PICK r \in CallRecords :
        /\ Placed(r) /\ r.phase \notin {"measuring", "allowed", "writing"}
        /\ docCall' = [docCall EXCEPT ![c] = r]
  BY PlainMoves
<1>2. docCall'[c] = r /\ \A d \in DocCalls : d # c => docCall'[d] = docCall[d]
  BY <1>1, CallMoves
<1>3. Measures(s)' \subseteq Measures(s) /\ \A k \in Nat : Short(s, k)' \subseteq Short(s, k)
  <2>1. r.phase # "measuring"
    BY <1>1
  <2>2. Measures(s)' = Measures(s) \ {c} /\ \A k : Short(s, k)' = Short(s, k) \ {c}
    BY <1>1, <2>1, MeasuresLeft
  <2> QED BY <2>2
<1>4. Writes(s)' = Writes(s) \ {c}
  BY <1>1, <1>2 DEF Writes
<1>5. /\ Cardinality(Writes(s)) \in Nat /\ Cardinality(Whole(s)) \in Nat
      /\ Cardinality(Writes(s)') \in Nat /\ Cardinality(Writes(s)') <= Cardinality(Writes(s))
  BY <1>4, CallSets, FewerCalls, FewerRefs
<1>6. CASE Whole(s)' = Whole(s)
  <2>1. Cardinality(Whole(s)') + Cardinality(Writes(s)') <= Cardinality(Whole(s)) + Cardinality(Writes(s))
    BY <1>5, <1>6
  <2> QED BY <1>3, <1>4, <2>1, PlainFiles, RoomKept
<1>7. CASE Whole(s)' # Whole(s)
  <2>1. /\ docCall[c].phase = "writing"
        /\ \A t \in Sessions, q \in Refs :
             t # docCall[c].session \/ q # docCall[c].ref => docs'[t][q] = docs[t][q]
    BY <1>7, PlainFiles DEF Whole
  <2>2. docCall[c].session = s /\ docCall[c].ref \in Refs
    BY <1>7, <2>1 DEF Whole, DocTypes, Placed
  <2>3. c \in Writes(s)
    BY <2>1, <2>2 DEF Writes
  <2>4. Cardinality(Writes(s)') = Cardinality(Writes(s)) - 1
    BY <1>4, <2>3, CallSets, FewerCalls
  <2>5. Whole(s)' \subseteq Whole(s) \cup {docCall[c].ref}
    BY <2>1 DEF Whole
  <2>6. Cardinality(Whole(s)') <= Cardinality(Whole(s)) + 1 /\ Cardinality(Whole(s)') \in Nat
    <3>1. Whole(s) \cup {docCall[c].ref} \in SUBSET Refs
      BY <2>2, CallSets
    <3>2. /\ Cardinality(Whole(s)') \in Nat
          /\ Cardinality(Whole(s)') <= Cardinality(Whole(s) \cup {docCall[c].ref})
      BY <2>5, <3>1, FewerRefs
    <3>3. /\ Cardinality(Whole(s) \cup {docCall[c].ref}) \in Nat
          /\ Cardinality(Whole(s) \cup {docCall[c].ref}) <= Cardinality(Whole(s)) + 1
      BY <2>2, CallSets, FewerRefs
    <3> QED BY <1>5, <3>2, <3>3
  <2>7. Cardinality(Whole(s)') + Cardinality(Writes(s)') <= Cardinality(Whole(s)) + Cardinality(Writes(s))
    BY <1>5, <2>4, <2>6
  <2> QED BY <1>3, <1>4, <2>7, PlainFiles, RoomKept
<1> QED BY <1>6, <1>7

LEMMA RoomStep == DocTypes /\ DocTypes' /\ Seen /\ Room /\ [DocsNext]_docVars => Room'
<1> SUFFICES ASSUME DocTypes, DocTypes', Seen, Room, [DocsNext]_docVars, NEW s \in Sessions
             PROVE  RoomIn(s)'
  BY DEF Room
<1>1. CASE UNCHANGED docVars \/ DocTick
  <2>1. docs' = docs /\ docCall' = docCall /\ crowd' = crowd
    BY <1>1 DEF docVars, DocTick
  <2> QED BY <2>1 DEF Room, RoomIn, Whole, Writes, Measures, Short
<1>2. CASE DocsCrash
  <2>1. docs' = docs /\ crowd' = crowd
    BY <1>2 DEF DocsCrash
  <2>2. Whole(s)' = Whole(s) /\ Writes(s)' = {} /\ Measures(s)' = {}
        /\ \A k \in Nat : Short(s, k)' = {}
    BY <1>2, <2>1, CrashMoves DEF Whole, Writes, Measures, Short
  <2>3. Cardinality(Whole(s)') + Cardinality(Writes(s)') <= Cardinality(Whole(s)) + Cardinality(Writes(s))
    <3>1. /\ Cardinality(Whole(s)) \in Nat /\ Cardinality(Writes(s)) \in Nat
          /\ Cardinality(Writes(s)') <= Cardinality(Writes(s)) /\ Cardinality(Writes(s)') \in Nat
      BY <2>2, CallSets, FewerCalls, FewerRefs
    <3> QED BY <2>2, <3>1
  <2> QED BY <2>1, <2>2, <2>3, RoomKept
<1>3. ASSUME NEW c \in DocCalls, OpenFile(c) PROVE RoomIn(s)'
  BY <1>3, OpenTakes, RoomTaken DEF OpenFile
<1>4. ASSUME NEW c \in DocCalls, NEW r \in Refs, Unlink(c, r) PROVE RoomIn(s)'
  BY <1>4, UnlinkTakes, RoomTaken DEF Unlink
<1> QED BY <1>1, <1>2, <1>3, <1>4, RoomMeasured, RoomAllowed, RoomPlain, DocsSteps

-----------------------------------------------------------------------------
LEMMA DocsStart == DocsInit => DocsInv
<1> SUFFICES ASSUME DocsInit PROVE DocsInv
  OBVIOUS
<1> USE DEF DocsInit
<1>1. /\ NoCall \in CallRecords /\ NoCall.phase = "idle"
  BY DEF CallRecords, DocPhases, NoCall
<1>2. docCall \in [DocCalls -> CallRecords] /\ \A c \in DocCalls : docCall[c].phase = "idle"
  BY <1>1
<1>3. DocTypes
  BY <1>2 DEF DocTypes, DocStates, Placed
<1>4. Touching /\ Condemned /\ Seen
  BY <1>2 DEF Touching, Condemned, Seen, Measures
<1>5. ASSUME NEW s \in Sessions PROVE RoomIn(s)
  <2>1. Whole(s) = {} /\ Writes(s) = {} /\ Measures(s) = {} /\ \A k \in Nat : Short(s, k) = {}
    BY <1>2 DEF Whole, Writes, Measures, Short
  <2> QED BY <2>1, FS_EmptySet, DocsAssumption DEF RoomIn
<1> QED BY <1>3, <1>4, <1>5 DEF DocsInv, Room

LEMMA DocsStep == DocsInv /\ [DocsNext]_docVars => DocsInv'
BY DocTypesStep, TouchingStep, CondemnedStep, SeenStep, RoomStep DEF DocsInv

(* session.py: for any number of sessions, documents and calls, the files of *)
(* a session pass its quota by fewer than were ever measured and written at  *)
(* a time, and a whole document goes only if its session was not used for    *)
(* the TTL, is being dropped, or was used after the sweep that removes it    *)
(* found it expired.                                                        *)
THEOREM SessionsAreKept == DocsSpec => SessionsKept
<1>1. DocsInv => QuotaHeld
  <2> SUFFICES ASSUME DocsInv, NEW s \in Sessions
               PROVE  Cardinality(Whole(s)) + Cardinality(Writes(s)) <= Quota + crowd[s] - 1
    BY DEF QuotaHeld
  <2>1. /\ Cardinality(Whole(s)) \in Nat /\ Cardinality(Writes(s)) \in Nat
        /\ Cardinality(Short(s, 0)) \in Nat /\ crowd[s] \in Nat
    BY CallSets, FewerCalls, FewerRefs DEF DocsInv, DocTypes
  <2>2. Cardinality(Whole(s)) + Cardinality(Writes(s)) + Cardinality(Short(s, 0))
        <= Quota + crowd[s] - 1 + 0
    BY DEF DocsInv, Room, RoomIn
  <2> QED BY <2>1, <2>2, DocsAssumption
<1>2. DocsInv /\ [DocsNext]_docVars => [InUseStays]_docVars
  <2> SUFFICES ASSUME DocsInv, DocsNext, NEW s \in Sessions, NEW r \in Refs,
                      docs[s][r] = "whole", docs'[s][r] = "none"
               PROVE  Goner(s)
    BY DEF InUseStays
  <2>1. DocTypes /\ "none" # "whole"
    BY DEF DocsInv
  <2>2. ~ \E c \in DocCalls : Plain(c)
    BY <2>1, PlainFiles
  <2>3. ~DocTick /\ ~DocsCrash /\ ~ \E c \in DocCalls : MeasureQuota(c) \/ Measured(c)
    BY DEF DocTick, DocsCrash, MeasureQuota, Measured
  <2>4. ~ \E c \in DocCalls : OpenFile(c)
    <3>1. SUFFICES ASSUME NEW c \in DocCalls, OpenFile(c) PROVE FALSE
      OBVIOUS
    <3>2. PICK t \in Sessions, q \in Refs : Takes(t, q) /\ docs'[t][q] = c
      BY <2>1, <3>1, OpenTakes
    <3> QED BY <3>2, DocsAssumption DEF Takes
  <2>5. PICK c \in DocCalls, q \in Refs : Unlink(c, q)
    BY <2>2, <2>3, <2>4, DocsSteps
  <2>6. docCall[c].at = s
    BY <2>1, <2>5, UnlinkTakes DEF Takes
  <2>7. docCall[c].phase \in {"removing", "dropping"}
    BY <2>5 DEF Unlink
  <2> QED BY <2>6, <2>7 DEF Goner, DocsInv, Condemned
<1>3. DocsInv' => QuotaHeld'
  BY <1>1, PTL
<1>4. DocsInv /\ DocsInv' /\ [DocsNext]_docVars => [QuotaHeld' /\ InUseStays]_docVars
  BY <1>2, <1>3
<1> QED BY <1>4, DocsStart, DocsStep, PTL DEF DocsSpec, SessionsKept
=============================================================================
