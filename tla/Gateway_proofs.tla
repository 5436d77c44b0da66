--------------------------- MODULE Gateway_proofs ---------------------------
(***************************************************************************)
(* Safety of Gateway for any upstreams and requests: what the lifespan     *)
(* leaves behind it, what the cache of tools remembers and what tools/list *)
(* shows.                                                                  *)
(***************************************************************************)
EXTENDS Gateway, WellFoundedInduction, TLAPS

Last == Len(Order)

(* The upstreams from position i on. *)
Ahead(i) == {Order[h] : h \in i .. Last}

LEMMA OrderFacts ==
  /\ Last \in Nat /\ Last >= 1 /\ Order[1] \in Upstreams
  /\ \A i \in 1 .. Last : Order[i] \in Upstreams
  /\ Upstreams = Ahead(1)
  /\ MaxOffer \in Nat /\ MaxOffer >= 1 /\ MaxPages \in Nat /\ MaxPages >= 1
  /\ OAuth \subseteq Http /\ Http \cap Stdio = {} /\ Remote \cap Secret = {}
<1>1. Last \in Nat /\ DOMAIN Order = 1 .. Last /\ \A i \in 1 .. Last : Order[i] \in Upstreams
  BY GatewayAssumption DEF Last
<1>2. PICK u \in Upstreams : TRUE
  BY GatewayAssumption
<1>3. PICK i \in 1 .. Last : Order[i] = u
  BY <1>1, <1>2, GatewayAssumption
<1>4. Last >= 1
  BY <1>1, <1>3
<1>5. Upstreams = Ahead(1)
  BY <1>1, GatewayAssumption DEF Ahead
<1> QED BY <1>1, <1>4, <1>5, GatewayAssumption

(* First() finds the next upstream of S, or the end. *)
LEMMA FirstFound ==
  ASSUME NEW S, NEW i \in 1 .. Last + 1
  PROVE  /\ First(S, i) \in i .. Last + 1
         /\ First(S, i) <= Last => Order[First(S, i)] \in S
         /\ \A h \in i .. First(S, i) - 1 : Order[h] \notin S
<1> DEFINE T == {h \in i .. Last + 1 : h <= Last => Order[h] \in S}
           Is(j) == /\ j <= Last => Order[j] \in S
                    /\ \A h \in i .. j - 1 : Order[h] \notin S
<1>1. Last \in Nat /\ i \in Nat /\ T \subseteq Nat /\ Last + 1 \in T
  BY OrderFacts
<1>2. PICK m \in T : \A h \in T : m <= h
  <2> HIDE DEF T
  <2>1. PICK m \in T : \A h \in T : <<h, m>> \notin OpToRel(<, Nat)
    <3>1. T \subseteq Nat /\ T # {}
      BY <1>1
    <3> QED BY <3>1, NatLessThanWellFounded, WFMin, Zenon
  <2>2. ASSUME NEW h \in T PROVE ~(h < m)
    <3>1. h \in Nat /\ m \in Nat
      BY <1>1, <2>1
    <3>2. <<h, m>> \notin OpToRel(<, Nat)
      BY <2>1
    <3> QED BY <3>1, <3>2, Zenon DEF OpToRel
  <2>3. ASSUME NEW h \in T PROVE m <= h
    <3>1. h \in Nat /\ m \in Nat /\ ~(h < m)
      BY <1>1, <2>1, <2>2
    <3> QED BY <3>1
  <2> QED BY <2>1, <2>3, Zenon
<1>3. m \in i .. Last + 1 /\ Is(m)
  <2>1. ASSUME NEW h \in i .. m - 1 PROVE Order[h] \notin S
    <3>1. h \in i .. Last + 1 /\ h <= Last /\ ~(m <= h)
      BY <1>1, <1>2
    <3> QED BY <3>1, <1>2
  <2> QED BY <2>1, <1>2
<1>4. First(S, i) = CHOOSE j \in i .. Last + 1 : Is(j)
  BY DEF First, Last
<1> HIDE DEF Is, T
<1>5. First(S, i) \in i .. Last + 1 /\ Is(First(S, i))
  BY <1>3, <1>4
<1> QED BY <1>5 DEF Is

-----------------------------------------------------------------------------
(* What a listing does from position i on, up to the upstream at j, the     *)
(* next one it asks.                                                        *)
Here(i, j)     == {u \in Passed(i, j) \cap table : Live(u)}
Recalled(i, j) == {u \in Passed(i, j) \cap table : Recallable(u) /\ disk[u].tools # 0}

ListUpTo(l, i, j, learnt, owed) ==
  /\ listing' = [listing EXCEPT ![l] =
                    IF j > Last THEN [phase |-> "done", at |-> 0, from |-> 0]
                    ELSE [phase |-> "asking", at |-> j, from |-> offer[Order[j]]]]
  /\ due' = [due EXCEPT ![l] = owed \ (DOMAIN learnt \cup Here(i, j) \cup Recalled(i, j))]
  /\ disk' = [u \in Upstreams |->
                IF u \in DOMAIN learnt \cup Here(i, j)
                THEN [disk[u] EXCEPT !.tools = IF u \in Here(i, j) THEN offer[u] ELSE learnt[u]]
                ELSE disk[u]]

(* What an upstream has just listed, if any. *)
Lesson(learnt) ==
  /\ DOMAIN learnt \subseteq Upstreams
  /\ \A u \in DOMAIN learnt : learnt[u] \in 1 .. offer[u]

LEMMA ListEffect ==
  ASSUME NEW l \in Requests, NEW i \in 1 .. Last + 1, NEW learnt, NEW owed,
         ListFrom(l, i, learnt, owed)
  PROVE  \E j \in i .. Last + 1 : ListUpTo(l, i, j, learnt, owed)
<1> DEFINE j == First({u \in table \cap Remote : Live(u)}, i)
<1>1. j \in i .. Last + 1
  BY FirstFound
<1> HIDE DEF j
<1>2. /\ listing' = [listing EXCEPT ![l] =
                        IF j > Last THEN [phase |-> "done", at |-> 0, from |-> 0]
                        ELSE [phase |-> "asking", at |-> j, from |-> offer[Order[j]]]]
      /\ due' = [due EXCEPT ![l] = owed \ (DOMAIN learnt \cup Here(i, j) \cup Recalled(i, j))]
      /\ RememberTools([u \in DOMAIN learnt \cup Here(i, j) |->
                          IF u \in Here(i, j) THEN offer[u] ELSE learnt[u]])
  <2>1. {u \in Passed(i, j) \cap table : Recallable(u) /\ disk[u].tools # 0} = Recalled(i, j)
        /\ {u \in Passed(i, j) \cap table : Live(u)} = Here(i, j)
    BY DEF Recalled, Here
  <2> QED BY <2>1 DEF ListFrom, j, Last, Here, Recalled
<1>3. disk' = [u \in Upstreams |->
                IF u \in DOMAIN learnt \cup Here(i, j)
                THEN [disk[u] EXCEPT !.tools = IF u \in Here(i, j) THEN offer[u] ELSE learnt[u]]
                ELSE disk[u]]
  <2> DEFINE f == [u \in DOMAIN learnt \cup Here(i, j) |->
                     IF u \in Here(i, j) THEN offer[u] ELSE learnt[u]]
  <2>1. DOMAIN f = DOMAIN learnt \cup Here(i, j)
    OBVIOUS
  <2>2. \A u \in DOMAIN f : f[u] = IF u \in Here(i, j) THEN offer[u] ELSE learnt[u]
    OBVIOUS
  <2> HIDE DEF f
  <2>3. disk' = [u \in Upstreams |->
             IF u \in DOMAIN f THEN [disk[u] EXCEPT !.tools = f[u]] ELSE disk[u]]
    BY <1>2 DEF RememberTools, f
  <2> QED BY <2>1, <2>2, <2>3
<1> QED BY <1>1, <1>2, <1>3 DEF ListUpTo

(* What is remembered was listed, and something always is. *)
Known == \A u \in Upstreams : disk[u].tools <= offer[u] /\ offer[u] >= 1

(* What a listing writes to the cache: what was just learnt, or newer. *)
LEMMA ListKeeps ==
  ASSUME GatewayTypeOK, Known,
         NEW l \in Requests, NEW i \in 1 .. Last + 1, NEW learnt, Lesson(learnt),
         NEW owed \in SUBSET Upstreams, ListFrom(l, i, learnt, owed),
         UNCHANGED <<lifeVars, link, pending, offer, collection, call>>
  PROVE  /\ GatewayTypeOK' /\ Known'
         /\ \A u \in Upstreams :
              /\ disk'[u].tools >= disk[u].tools
                   \/ (u \in DOMAIN learnt /\ disk'[u].tools = learnt[u])
              /\ disk[u].tools # 0 => disk'[u].tools # 0
         /\ listing[l].phase = "asking" /\ listing[l].at < i => listing'[l] # listing[l]
<1> USE OrderFacts
<1>1. PICK j \in i .. Last + 1 : ListUpTo(l, i, j, learnt, owed)
  BY ListEffect
<1>2. /\ offer \in [Upstreams -> Versions] /\ Versions \subseteq Nat
      /\ disk \in [Upstreams -> [tools : Versions, skills : Versions]]
      /\ offer' = offer
  BY DEF GatewayTypeOK, Versions
<1>3. ASSUME NEW u \in Upstreams
      PROVE  /\ disk'[u] \in [tools : Versions, skills : Versions]
             /\ disk'[u].tools <= offer[u]
             /\ disk[u].tools # 0 => disk'[u].tools # 0
             /\ disk'[u].tools >= disk[u].tools
                  \/ (u \in DOMAIN learnt /\ disk'[u].tools = learnt[u])
  <2>1. offer[u] \in Versions /\ offer[u] \in Nat /\ offer[u] >= 1 /\ disk[u].tools <= offer[u]
        /\ disk[u].tools \in Nat /\ disk[u] \in [tools : Versions, skills : Versions]
    BY <1>2 DEF Known
  <2>2. CASE u \in Here(i, j)
    <3>1. disk'[u] = [disk[u] EXCEPT !.tools = offer[u]]
      BY <1>1, <2>2, Zenon DEF ListUpTo
    <3>2. disk'[u] \in [tools : Versions, skills : Versions] /\ disk'[u].tools = offer[u]
      BY <2>1, <3>1
    <3> QED BY <2>1, <3>2
  <2>3. CASE u \in DOMAIN learnt /\ u \notin Here(i, j)
    <3>1. disk'[u] = [disk[u] EXCEPT !.tools = learnt[u]]
      BY <1>1, <2>3, Zenon DEF ListUpTo
    <3>2. learnt[u] \in 1 .. offer[u] /\ learnt[u] \in Versions
      BY <1>2, <2>1, <2>3 DEF Lesson, Versions
    <3>3. disk'[u] \in [tools : Versions, skills : Versions] /\ disk'[u].tools = learnt[u]
      BY <2>1, <3>1, <3>2
    <3> QED BY <2>1, <2>3, <3>2, <3>3
  <2>4. CASE u \notin DOMAIN learnt /\ u \notin Here(i, j)
    <3>1. disk'[u] = disk[u]
      BY <1>1, <2>4 DEF ListUpTo
    <3> QED BY <2>1, <3>1
  <2> QED BY <2>2, <2>3, <2>4
<1>4. disk' \in [Upstreams -> [tools : Versions, skills : Versions]]
  <2>1. \A u \in Upstreams : disk'[u] \in [tools : Versions, skills : Versions]
    BY <1>3
  <2>2. disk' = [u \in Upstreams |-> disk'[u]]
    BY <1>1 DEF ListUpTo
  <2> QED BY <2>1, <2>2
<1>5. \A u \in Upstreams :
        /\ disk'[u].tools >= disk[u].tools \/ (u \in DOMAIN learnt /\ disk'[u].tools = learnt[u])
        /\ disk[u].tools # 0 => disk'[u].tools # 0
        /\ disk'[u].tools <= offer[u]
  BY <1>3
<1>6. Known'
  BY <1>2, <1>5 DEF Known
<1> DEFINE r == IF j > Last THEN [phase |-> "done", at |-> 0, from |-> 0]
                ELSE [phase |-> "asking", at |-> j, from |-> offer[Order[j]]]
<1>7. /\ listing' = [listing EXCEPT ![l] = r]
      /\ r \in [phase : {"idle", "asking", "done"}, at : 0 .. Len(Order), from : Versions]
  <2>1. listing' = [listing EXCEPT ![l] = r]
    BY <1>1 DEF ListUpTo
  <2>2. CASE j > Last
    <3>1. r = [phase |-> "done", at |-> 0, from |-> 0]
      BY <2>2
    <3>2. 0 \in Versions /\ 0 \in 0 .. Len(Order)
      BY DEF Versions, Last
    <3> QED BY <2>1, <3>1, <3>2
  <2>3. CASE ~(j > Last)
    <3>1. j \in 1 .. Last /\ Order[j] \in Upstreams
      BY <2>3
    <3>2. offer[Order[j]] \in Versions /\ j \in 0 .. Len(Order)
      BY <1>2, <3>1 DEF Last
    <3>3. r = [phase |-> "asking", at |-> j, from |-> offer[Order[j]]]
      BY <2>3
    <3> QED BY <2>1, <3>2, <3>3
  <2> QED BY <2>2, <2>3
<1>8. listing[l].phase = "asking" /\ listing[l].at < i => listing'[l] # listing[l]
  <2>1. listing[l] \in [phase : {"idle", "asking", "done"}, at : 0 .. Len(Order), from : Versions]
        /\ listing'[l] = r
    BY <1>7 DEF GatewayTypeOK
  <2>2. r.phase = "done" \/ r.at = j
    OBVIOUS
  <2>3. listing[l].at \in Nat /\ j \in Nat /\ i \in Nat /\ i <= j
    BY <2>1 DEF Last
  <2> HIDE DEF r
  <2> QED BY <2>1, <2>2, <2>3
<1>9. due' \in [Requests -> SUBSET Upstreams]
  BY <1>1 DEF ListUpTo, GatewayTypeOK
<1>10. listing' \in [Requests -> [phase : {"idle", "asking", "done"}, at : 0 .. Len(Order),
                                  from : Versions]]
  <2> HIDE DEF r
  <2> QED BY <1>7 DEF GatewayTypeOK
<1>11. GatewayTypeOK'
  BY <1>4, <1>9, <1>10 DEF GatewayTypeOK, lifeVars
<1> QED BY <1>5, <1>6, <1>8, <1>11

(* What a listing still owes is ahead of it, and can be shown. *)
Showable(u) == Live(u) \/ (Recallable(u) /\ disk[u].tools # 0)
DueOf(l) ==
  /\ listing[l].phase = "done" => due[l] = {}
  /\ listing[l].phase = "asking" =>
       /\ Serving /\ listing[l].at \in 1 .. Last /\ listing[l].from >= 1
       /\ \A u \in due[l] : u \in table \cap Ahead(listing[l].at) /\ Showable(u)
DueAhead == \A l \in Requests : DueOf(l)

LEMMA ListOwes ==
  ASSUME GatewayTypeOK, Known, DueAhead, Serving,
         NEW l \in Requests, NEW i \in 1 .. Last + 1, NEW learnt, Lesson(learnt),
         NEW owed \in SUBSET Upstreams,
         \A u \in owed : u \in DOMAIN learnt \/ (u \in table \cap Ahead(i) /\ Showable(u)),
         ListFrom(l, i, learnt, owed),
         UNCHANGED <<lifeVars, link, pending, offer, collection, call>>
  PROVE  DueAhead'
<1> USE OrderFacts
<1>1. PICK j \in i .. Last + 1 : ListUpTo(l, i, j, learnt, owed)
  BY ListEffect
<1>2. \A u \in Upstreams : disk[u].tools # 0 => disk'[u].tools # 0
  BY ListKeeps
<1>3. \A u \in Upstreams : Showable(u) => Showable(u)'
  BY <1>2 DEF Showable, Live
<1>4. ASSUME NEW u \in due'[l]
      PROVE  u \in Upstreams /\ u \in table \cap Ahead(j) /\ Showable(u)
  <2>1. u \in owed /\ u \notin DOMAIN learnt /\ u \notin Here(i, j) /\ u \notin Recalled(i, j)
    BY <1>1, <1>4 DEF ListUpTo, GatewayTypeOK
  <2>2. u \in table /\ u \in Ahead(i) /\ Showable(u) /\ u \in Upstreams
    BY <2>1
  <2>3. PICK h \in i .. Last : u = Order[h]
    BY <2>2 DEF Ahead
  <2>4. ~(h \in i .. j - 1)
    <3> SUFFICES ASSUME h \in i .. j - 1 PROVE FALSE
      OBVIOUS
    <3>1. u \in Passed(i, j) \cap table
      BY <2>2, <2>3 DEF Passed
    <3> QED BY <2>1, <2>2, <3>1 DEF Showable, Here, Recalled
  <2>5. h \in j .. Last
    BY <2>3, <2>4
  <2> QED BY <2>2, <2>3, <2>5 DEF Ahead
<1>5. DueOf(l)'
  <2>1. CASE j > Last
    <3>1. listing'[l].phase = "done"
      BY <1>1, <2>1 DEF ListUpTo, GatewayTypeOK
    <3>2. Ahead(j) = {}
      BY <2>1 DEF Ahead
    <3>3. due'[l] = {}
      BY <1>4, <3>2
    <3> QED BY <3>1, <3>3 DEF DueOf
  <2>2. CASE ~(j > Last)
    <3>1. j \in 1 .. Last /\ Order[j] \in Upstreams
      BY <2>2
    <3>2. listing'[l] = [phase |-> "asking", at |-> j, from |-> offer[Order[j]]]
      BY <1>1, <2>2 DEF ListUpTo, GatewayTypeOK
    <3>3. offer[Order[j]] >= 1
      BY <3>1 DEF Known
    <3>4. \A u \in due'[l] : u \in (table \cap Ahead(j)) /\ Showable(u)'
      BY <1>3, <1>4
    <3>5. Serving' /\ table' = table
      BY DEF Serving, lifeVars
    <3> QED BY <3>1, <3>2, <3>3, <3>4, <3>5 DEF DueOf, Ahead, Last
  <2> QED BY <2>1, <2>2
<1>6. ASSUME NEW k \in Requests, k # l PROVE DueOf(k)'
  <2>1. listing'[k] = listing[k] /\ due'[k] = due[k]
    BY <1>1, <1>6 DEF ListUpTo, GatewayTypeOK
  <2>2. DueOf(k) /\ due[k] \subseteq Upstreams
    BY DEF DueAhead, GatewayTypeOK
  <2>3. Serving' /\ table' = table
    BY DEF Serving, lifeVars
  <2> QED BY <1>3, <2>1, <2>2, <2>3 DEF DueOf, Ahead, Last
<1> QED BY <1>5, <1>6 DEF DueAhead

(* The only way back of the cache of tools. *)
Overtaken ==
  \A u \in Upstreams : disk'[u].tools < disk[u].tools =>
    \E l \in Requests :
      /\ listing[l].phase = "asking" /\ listing'[l] # listing[l]
      /\ Order[listing[l].at] = u /\ listing[l].from < disk[u].tools

(* tools/list keeps all that. *)
LEMMA ListingKeeps ==
  ASSUME GatewayTypeOK, Known, DueAhead, NEW l \in Requests,
         ListBegins(l) \/ Listed(l) \/ ListFailed(l)
  PROVE  GatewayTypeOK' /\ Known' /\ DueAhead' /\ Overtaken
<1> USE OrderFacts
<1>1. /\ due[l] \subseteq Upstreams /\ offer \in [Upstreams -> Versions]
      /\ disk \in [Upstreams -> [tools : Versions, skills : Versions]]
      /\ table \subseteq Upstreams /\ Versions \subseteq Nat
  BY DEF GatewayTypeOK, Versions
<1>2. ASSUME NEW i \in 1 .. Last + 1, NEW owed \in SUBSET Upstreams, Serving,
             ListFrom(l, i, Nothing, owed),
             \A u \in owed : u \in table \cap Ahead(i) /\ Showable(u),
             UNCHANGED <<lifeVars, link, pending, offer, collection, call>>
      PROVE  GatewayTypeOK' /\ Known' /\ DueAhead' /\ Overtaken
  <2>1. DOMAIN Nothing = {}
    BY DEF Nothing
  <2>2. Lesson(Nothing)
    BY <2>1 DEF Lesson
  <2>3. DueAhead'
    BY <1>2, <2>2, ListOwes
  <2>4. GatewayTypeOK' /\ Known' /\ \A u \in Upstreams : disk'[u].tools >= disk[u].tools
    BY <1>2, <2>1, <2>2, ListKeeps
  <2>5. \A u \in Upstreams : disk[u].tools \in Nat /\ disk'[u].tools \in Nat
    BY <2>4 DEF GatewayTypeOK, Versions
  <2> QED BY <2>3, <2>4, <2>5 DEF Overtaken
<1>3. ASSUME listing[l].phase = "asking"
      PROVE  /\ Serving /\ listing[l].at \in 1 .. Last /\ listing[l].from >= 1
             /\ listing[l].from \in Nat
             /\ Order[listing[l].at] \in Upstreams
             /\ listing[l].at + 1 \in 1 .. Last + 1 /\ listing[l].at < listing[l].at + 1
             /\ \A u \in due[l] \ {Order[listing[l].at]} :
                  u \in table \cap Ahead(listing[l].at + 1) /\ Showable(u)
  <2>1. /\ Serving /\ listing[l].at \in 1 .. Last /\ listing[l].from >= 1
        /\ \A u \in due[l] : u \in table \cap Ahead(listing[l].at) /\ Showable(u)
    BY <1>3 DEF DueAhead, DueOf
  <2>2. \A u \in Ahead(listing[l].at) :
          u # Order[listing[l].at] => u \in Ahead(listing[l].at + 1)
    <3> TAKE u \in Ahead(listing[l].at)
    <3>1. PICK h \in listing[l].at .. Last : u = Order[h]
      BY DEF Ahead
    <3>2. CASE h = listing[l].at
      BY <3>1, <3>2
    <3>3. CASE h # listing[l].at
      <4>1. h \in listing[l].at + 1 .. Last
        BY <2>1, <3>1, <3>3
      <4> QED BY <3>1, <4>1 DEF Ahead
    <3> QED BY <3>2, <3>3
  <2>3. listing[l].from \in Nat
    <3>1. listing[l] \in [phase : {"idle", "asking", "done"}, at : 0 .. Len(Order), from : Versions]
      BY DEF GatewayTypeOK
    <3> QED BY <1>1, <3>1
  <2> QED BY <2>1, <2>2, <2>3
<1>4. CASE ListBegins(l)
  <2> DEFINE owed == {u \in table : Live(u) \/ (Recallable(u) /\ disk[u].tools # 0)}
  <2>1. 1 \in 1 .. Last + 1 /\ owed \in SUBSET Upstreams
    BY <1>1
  <2>2. \A u \in owed : u \in table \cap Ahead(1) /\ Showable(u)
    BY <1>1 DEF Showable
  <2> QED BY <1>2, <1>4, <2>1, <2>2 DEF ListBegins
<1>5. CASE ListFailed(l)
  <2>1. listing[l].phase = "asking"
    BY <1>5 DEF ListFailed
  <2>2. due[l] \ {Order[listing[l].at]} \in SUBSET Upstreams
    BY <1>1
  <2> QED BY <1>2, <1>3, <1>5, <2>1, <2>2 DEF ListFailed
<1>6. CASE Listed(l)
  <2> DEFINE u == Order[listing[l].at]
  <2>1. listing[l].phase = "asking" /\ UNCHANGED <<lifeVars, link, pending, offer, collection, call>>
    BY <1>6 DEF Listed
  <2>2. PICK v \in listing[l].from .. offer[u] :
          ListFrom(l, listing[l].at + 1, Learnt(u, v), due[l])
    BY <1>6 DEF Listed
  <2>3. u \in Upstreams /\ offer[u] \in Nat /\ v \in 1 .. offer[u] /\ listing[l].from <= v
    <3>1. u \in Upstreams /\ listing[l].from \in Nat /\ listing[l].from >= 1
      BY <1>3, <2>1
    <3>2. offer[u] \in Nat
      BY <1>1, <3>1
    <3> HIDE DEF u
    <3> QED BY <2>2, <3>1, <3>2
  <2>4. DOMAIN Learnt(u, v) = {u} /\ Learnt(u, v)[u] = v
    BY DEF Learnt
  <2>5. Lesson(Learnt(u, v))
    BY <2>3, <2>4 DEF Lesson
  <2>6. \A x \in due[l] : x \in DOMAIN Learnt(u, v)
          \/ (x \in table \cap Ahead(listing[l].at + 1) /\ Showable(x))
    BY <1>3, <2>1, <2>4
  <2>7. DueAhead'
    BY <1>1, <1>3, <2>1, <2>2, <2>5, <2>6, ListOwes
  <2>8. /\ GatewayTypeOK' /\ Known' /\ listing'[l] # listing[l]
        /\ \A x \in Upstreams : \/ disk'[x].tools >= disk[x].tools
                                \/ (x \in DOMAIN Learnt(u, v) /\ disk'[x].tools = Learnt(u, v)[x])
    BY <1>1, <1>3, <2>1, <2>2, <2>5, ListKeeps
  <2>9. Overtaken
    <3> SUFFICES ASSUME NEW x \in Upstreams, disk'[x].tools < disk[x].tools
                 PROVE  x = u /\ listing[l].from < disk[x].tools
      BY <2>1, <2>8 DEF Overtaken
    <3>1. disk[x].tools \in Nat /\ disk'[x].tools \in Nat
      BY <2>8 DEF GatewayTypeOK, Versions
    <3>2. x = u /\ disk'[x].tools = v
      BY <2>4, <2>8, <3>1
    <3> QED BY <1>3, <2>1, <2>3, <3>1, <3>2
  <2> QED BY <2>7, <2>8, <2>9
<1> QED BY <1>4, <1>5, <1>6

-----------------------------------------------------------------------------
(* skills/list writes no tools. *)
LEMMA CollectKeeps ==
  ASSUME GatewayTypeOK, NEW k \in Requests, NEW i \in 1 .. Last + 1,
         NEW live \in SUBSET Upstreams, CollectFrom(k, i, live),
         UNCHANGED <<lifeVars, link, pending, offer, listing, call, due>>
  PROVE  GatewayTypeOK' /\ \A u \in Upstreams : disk'[u].tools = disk[u].tools
<1> USE OrderFacts
<1> DEFINE j == First({u \in live \cap Remote : link[u] = "open"}, i)
           passed == Passed(i, j) \cap live \cap Secret
           r == IF j > Last THEN [phase |-> "done", at |-> 0, pages |-> 0, live |-> {}]
                ELSE [phase |-> "asking", at |-> j, pages |-> 0, live |-> live \ Passed(1, j + 1)]
           f == [u \in passed |-> IF link[u] = "open" THEN offer[u] ELSE 0]
<1>1. j \in i .. Last + 1
  BY FirstFound
<1>2. collection' = [collection EXCEPT ![k] = r] /\ RememberSkills(f)
  BY DEF CollectFrom, Last
<1>3. DOMAIN f \subseteq Upstreams /\ \A u \in DOMAIN f : f[u] \in Versions
  BY DEF GatewayTypeOK, Versions
<1>4. r \in [phase : {"idle", "asking", "done"}, at : 0 .. Len(Order),
             pages : 0 .. MaxPages - 1, live : SUBSET Upstreams]
  <2>1. 0 \in 0 .. Len(Order) /\ 0 \in 0 .. MaxPages - 1
    BY DEF Last
  <2>2. CASE j > Last
    BY <2>1, <2>2
  <2>3. CASE ~(j > Last)
    <3> HIDE DEF j
    <3>1. j \in 0 .. Len(Order)
      BY <1>1, <2>3 DEF Last
    <3> QED BY <2>1, <2>3, <3>1
  <2> QED BY <2>2, <2>3
<1> HIDE DEF r, f, j
<1>5. ASSUME NEW u \in Upstreams
      PROVE  disk'[u] \in [tools : Versions, skills : Versions] /\ disk'[u].tools = disk[u].tools
  <2>1. disk[u] \in [tools : Versions, skills : Versions]
    BY DEF GatewayTypeOK
  <2>2. CASE u \in DOMAIN f
    <3>1. disk'[u] = [disk[u] EXCEPT !.skills = f[u]]
      BY <1>2, <2>2, Zenon DEF RememberSkills
    <3> QED BY <1>3, <2>1, <2>2, <3>1
  <2>3. CASE u \notin DOMAIN f
    BY <1>2, <2>1, <2>3 DEF RememberSkills
  <2> QED BY <2>2, <2>3
<1>6. disk' \in [Upstreams -> [tools : Versions, skills : Versions]]
  <2>1. disk' = [u \in Upstreams |-> disk'[u]]
    BY <1>2 DEF RememberSkills
  <2> QED BY <1>5, <2>1
<1>7. GatewayTypeOK'
  BY <1>2, <1>4, <1>6 DEF GatewayTypeOK, lifeVars
<1> QED BY <1>5, <1>7

(* What keeps the tools and what is ahead keeps what listings owe. *)
LEMMA OwedKept ==
  ASSUME GatewayTypeOK, DueAhead, Serving', table' = table, listing' = listing,
         \A l \in Requests : due'[l] \subseteq due[l],
         \A l \in Requests : \A u \in due'[l] : Showable(u) => Showable(u)'
  PROVE  DueAhead'
<1> SUFFICES ASSUME NEW l \in Requests PROVE DueOf(l)'
  BY DEF DueAhead
<1>1. DueOf(l)
  BY DEF DueAhead
<1>2. CASE listing[l].phase = "asking"
  <2>1. /\ Serving /\ listing[l].at \in 1 .. Last /\ listing[l].from >= 1
        /\ \A u \in due[l] : u \in table \cap Ahead(listing[l].at) /\ Showable(u)
    BY <1>1, <1>2 DEF DueOf
  <2>2. \A u \in due'[l] : u \in table' \cap Ahead(listing[l].at) /\ Showable(u)'
    BY <2>1
  <2>3. Ahead(listing[l].at)' = Ahead(listing'[l].at)
    BY DEF Ahead, Last
  <2> QED BY <1>2, <2>1, <2>2, <2>3 DEF DueOf, Last
<1>3. CASE listing[l].phase # "asking"
  BY <1>1, <1>3 DEF DueOf
<1> QED BY <1>2, <1>3

(* skills/list *)
LEMMA CollectingKeeps ==
  ASSUME GatewayTypeOK, Known, DueAhead, NEW k \in Requests,
         CollectBegins(k) \/ Page(k) \/ PageExpires(k)
  PROVE  GatewayTypeOK' /\ Known' /\ DueAhead' /\ Overtaken
<1> USE OrderFacts
<1>1. /\ table \subseteq Upstreams
      /\ collection \in [Requests -> [phase : {"idle", "asking", "done"}, at : 0 .. Len(Order),
                                      pages : 0 .. MaxPages - 1, live : SUBSET Upstreams]]
  BY DEF GatewayTypeOK
<1>2. Serving /\ UNCHANGED <<lifeVars, link, pending, offer, listing, call, due>>
  BY DEF CollectBegins, Page, PageExpires
<1>3. GatewayTypeOK' /\ \A u \in Upstreams : disk'[u].tools = disk[u].tools
  <2>1. CASE \E i \in 1 .. Last + 1 : \E live \in SUBSET Upstreams : CollectFrom(k, i, live)
    BY <2>1, <1>2, CollectKeeps
  <2>2. CASE disk' = disk /\ collection[k].pages < MaxPages - 1
             /\ collection' = [collection EXCEPT ![k].pages = @ + 1]
    <3>1. collection[k].pages + 1 \in 0 .. MaxPages - 1
      BY <1>1, <2>2
    <3>2. [collection[k] EXCEPT !.pages = collection[k].pages + 1]
            \in [phase : {"idle", "asking", "done"}, at : 0 .. Len(Order),
                pages : 0 .. MaxPages - 1, live : SUBSET Upstreams]
      BY <1>1, <3>1
    <3>3. collection' = [collection EXCEPT ![k] =
                           [collection[k] EXCEPT !.pages = collection[k].pages + 1]]
      BY <1>1, <2>2
    <3>4. collection' \in [Requests -> [phase : {"idle", "asking", "done"}, at : 0 .. Len(Order),
                                       pages : 0 .. MaxPages - 1, live : SUBSET Upstreams]]
      BY <1>1, <3>2, <3>3
    <3> QED BY <1>2, <2>2, <3>4 DEF GatewayTypeOK, lifeVars
  <2>3. CASE CollectBegins(k)
    <3>1. 1 \in 1 .. Last + 1 /\ {u \in table : Live(u)} \in SUBSET Upstreams
      BY <1>1
    <3> QED BY <2>1, <2>3, <3>1 DEF CollectBegins
  <2>4. CASE CollectNext(k)
    <3>1. collection[k].at \in 0 .. Last /\ collection[k].live \in SUBSET Upstreams
      BY <1>1 DEF Last
    <3>2. collection[k].at + 1 \in 1 .. Last + 1
      BY <3>1
    <3> QED BY <2>1, <2>4, <3>1, <3>2 DEF CollectNext
  <2> QED BY <2>2, <2>3, <2>4 DEF Page, PageExpires
<1>4. Known' /\ Overtaken
  <2>1. \A u \in Upstreams : disk[u].tools \in Nat
    BY DEF GatewayTypeOK, Versions
  <2> QED BY <1>2, <1>3, <2>1 DEF Known, Overtaken
<1>5. DueAhead'
  <2>1. \A u \in Upstreams : Showable(u) => Showable(u)'
    BY <1>2, <1>3 DEF Showable, Live
  <2>2. Serving' /\ table' = table /\ \A l \in Requests : due[l] \subseteq Upstreams
    BY <1>2 DEF Serving, lifeVars, GatewayTypeOK
  <2> QED BY <1>2, <2>1, <2>2, OwedKept
<1> QED BY <1>3, <1>4, <1>5

-----------------------------------------------------------------------------
(* Calls, and what happens to the upstreams meanwhile: the cache is left    *)
(* alone, but for an instance that was built.                               *)
LEMMA CallingKeeps ==
  ASSUME GatewayTypeOK, Known, DueAhead, CallStep
  PROVE  GatewayTypeOK' /\ Known' /\ DueAhead' /\ Overtaken
<1> USE OrderFacts
<1>1. Serving /\ UNCHANGED <<lifeVars, link, offer, disk, listing, collection>>
  BY DEF CallStep, Call, CallAnswered, CallFailed, CallExpires, Ends
<1> DEFINE CallTypes ==
      /\ call' \in [Requests -> [phase : {"idle", "sent", "answered", "failed", "refused",
                                         "expired"}, to : Upstreams]]
      /\ pending' \subseteq OAuth /\ due' \in [Requests -> SUBSET Upstreams]
<1>2. CallTypes
  <2>1. ASSUME NEW c \in Requests, NEW u \in Upstreams, Call(c, u) PROVE CallTypes
    <3>1. PICK r \in {[phase |-> "sent", to |-> u], [phase |-> "refused", to |-> Order[1]]} :
            call' = [call EXCEPT ![c] = r]
      BY <2>1 DEF Call
    <3> QED BY <2>1, <3>1 DEF Call, GatewayTypeOK
  <2>2. ASSUME NEW c \in Requests, CallAnswered(c) \/ CallExpires(c) PROVE CallTypes
    <3>1. PICK how \in {"answered", "expired"} :
            call' = [call EXCEPT ![c] = [phase |-> how, to |-> Order[1]]]
      BY <2>2 DEF CallAnswered, CallExpires, Ends
    <3>2. UNCHANGED <<pending, due>>
      BY <2>2 DEF CallAnswered, CallExpires
    <3> QED BY <3>1, <3>2 DEF GatewayTypeOK
  <2>3. ASSUME NEW c \in Requests, CallFailed(c) PROVE CallTypes
    <3>1. call' = [call EXCEPT ![c] = [phase |-> "failed", to |-> Order[1]]]
      BY <2>3 DEF CallFailed, Ends
    <3>2. \/ UNCHANGED <<pending, due>>
          \/ /\ call[c].to \in OAuth /\ pending' = pending \cup {call[c].to}
             /\ NoLongerDue(call[c].to)
      BY <2>3, Zenon DEF CallFailed
    <3>3. pending' \subseteq OAuth
      BY <3>2 DEF GatewayTypeOK
    <3>4. due' \in [Requests -> SUBSET Upstreams]
      <4>1. CASE due' = due
        BY <4>1 DEF GatewayTypeOK
      <4>2. CASE NoLongerDue(call[c].to)
        BY <4>2 DEF NoLongerDue, GatewayTypeOK
      <4> QED BY <3>2, <4>1, <4>2
    <3> QED BY <3>1, <3>3, <3>4 DEF GatewayTypeOK
  <2> QED BY <2>1, <2>2, <2>3 DEF CallStep
<1>3. GatewayTypeOK'
  BY <1>1, <1>2 DEF GatewayTypeOK, lifeVars
<1>4. Known' /\ Overtaken
  <2>1. \A u \in Upstreams : disk[u].tools \in Nat
    BY DEF GatewayTypeOK, Versions
  <2> QED BY <1>1, <2>1 DEF Known, Overtaken
<1>5. DueAhead'
  <2>1. Serving' /\ table' = table /\ listing' = listing
    BY <1>1 DEF Serving, lifeVars
  <2>2. CASE UNCHANGED <<pending, due>>
    <3>1. \A u \in Upstreams : Showable(u) => Showable(u)'
      BY <1>1, <2>2 DEF Showable, Live
    <3> QED BY <2>1, <2>2, <3>1, OwedKept DEF GatewayTypeOK
  <2>3. ASSUME NEW u \in Upstreams, pending' = pending \cup {u}, NoLongerDue(u)
        PROVE  DueAhead'
    <3>1. ASSUME NEW l \in Requests
          PROVE  /\ due'[l] \subseteq due[l]
                 /\ u \in due'[l] => Recallable(u) /\ disk[u].tools # 0
      BY <2>3 DEF NoLongerDue
    <3>2. ASSUME NEW l \in Requests, NEW x \in due'[l], Showable(x) PROVE Showable(x)'
      <4>1. CASE x = u
        BY <1>1, <3>1, <4>1 DEF Showable, Recallable
      <4>2. CASE x # u
        BY <1>1, <2>3, <3>2, <4>2 DEF Showable, Live, Recallable
      <4> QED BY <4>1, <4>2
    <3> QED BY <2>1, <3>1, <3>2, OwedKept
  <2>4. ASSUME NEW c \in Requests, CallFailed(c) PROVE DueAhead'
    <3>1. call[c].to \in Upstreams
      BY DEF GatewayTypeOK
    <3> QED BY <2>2, <2>3, <2>4, <3>1 DEF CallFailed
  <2>5. ASSUME NEW c \in Requests, (\E u \in Upstreams : Call(c, u)) \/ CallAnswered(c) \/ CallExpires(c)
        PROVE  DueAhead'
    BY <2>2, <2>5 DEF Call, CallAnswered, CallExpires
  <2> QED BY <2>4, <2>5 DEF CallStep
<1> QED BY <1>3, <1>4, <1>5

LEMMA EnvironmentKeeps ==
  ASSUME GatewayTypeOK, Known, DueAhead, Environment
  PROVE  GatewayTypeOK' /\ Known' /\ DueAhead' /\ Overtaken
<1> USE OrderFacts
<1>1. PICK u \in Upstreams :
        Offer(u) \/ SessionLost(u) \/ Authorize(u) \/ Deposit(u) \/ Forget(u)
  BY DEF Environment
<1>2. Serving /\ UNCHANGED <<lifeVars, listing, collection, call>>
  BY <1>1 DEF Offer, SessionLost, Authorize, Deposit, Forget, opVars
<1>3. /\ offer \in [Upstreams -> Versions] /\ Versions \subseteq Nat
      /\ disk \in [Upstreams -> [tools : Versions, skills : Versions]]
      /\ \A x \in Upstreams : disk[x].tools \in Nat /\ offer[x] \in Nat
  BY DEF GatewayTypeOK, Versions
<1>4. CASE Offer(u)
  <2>1. offer' = [offer EXCEPT ![u] = offer[u] + 1] /\ offer[u] < MaxOffer
        /\ UNCHANGED <<link, pending, disk, due>>
    BY <1>4 DEF Offer, opVars
  <2>2. offer[u] + 1 \in Versions
    BY <1>3, <2>1 DEF Versions
  <2>3. GatewayTypeOK'
    BY <1>2, <2>1, <2>2 DEF GatewayTypeOK, lifeVars
  <2>4. Known' /\ Overtaken
    BY <1>3, <2>1 DEF Known, Overtaken
  <2>5. DueAhead'
    BY <1>2, <2>1, OwedKept DEF Showable, Live, Serving, lifeVars
  <2> QED BY <2>3, <2>4, <2>5
<1>5. CASE SessionLost(u) \/ Forget(u)
  <2>1. /\ link' = [link EXCEPT ![u] = "closed"] /\ NoLongerDue(u)
        /\ UNCHANGED <<pending, offer, disk>>
    BY <1>5 DEF SessionLost, Forget
  <2>2. due' \in [Requests -> SUBSET Upstreams]
    BY <2>1 DEF NoLongerDue, GatewayTypeOK
  <2>3. GatewayTypeOK'
    BY <1>2, <2>1, <2>2 DEF GatewayTypeOK, lifeVars
  <2>4. Known' /\ Overtaken
    BY <1>3, <2>1 DEF Known, Overtaken
  <2>5. ASSUME NEW l \in Requests
        PROVE  /\ due'[l] \subseteq due[l]
               /\ u \in due'[l] => Recallable(u) /\ disk[u].tools # 0
    BY <2>1 DEF NoLongerDue
  <2>6. ASSUME NEW l \in Requests, NEW x \in due'[l], Showable(x) PROVE Showable(x)'
    <3>1. x \in Upstreams
      BY <2>2
    <3>2. CASE x = u
      BY <2>1, <2>5, <3>2 DEF Showable, Recallable
    <3>3. CASE x # u
      BY <2>1, <2>6, <3>1, <3>3 DEF Showable, Live, Recallable, GatewayTypeOK
    <3> QED BY <3>2, <3>3
  <2>7. DueAhead'
    BY <1>2, <2>5, <2>6, OwedKept DEF Serving, lifeVars
  <2> QED BY <2>3, <2>4, <2>7
<1>6. CASE Authorize(u)
  <2>1. /\ link' = [link EXCEPT ![u] = "open"] /\ pending' = pending \ {u}
        /\ UNCHANGED <<offer, disk, due>>
    BY <1>6 DEF Authorize, opVars
  <2>2. GatewayTypeOK'
    BY <1>2, <2>1 DEF GatewayTypeOK, lifeVars
  <2>3. Known' /\ Overtaken
    BY <1>3, <2>1 DEF Known, Overtaken
  <2>4. \A x \in Upstreams : Showable(x) => Showable(x)'
    BY <2>1 DEF Showable, Live, Recallable, GatewayTypeOK
  <2>5. DueAhead'
    BY <1>2, <2>1, <2>4, OwedKept DEF Serving, lifeVars, GatewayTypeOK
  <2> QED BY <2>2, <2>3, <2>5
<1>7. CASE Deposit(u)
  <2>1. /\ link' = [link EXCEPT ![u] = "open"]
        /\ disk' = [disk EXCEPT ![u] = [tools |-> offer[u], skills |-> offer[u]]]
        /\ UNCHANGED <<pending, offer, due>>
    BY <1>7 DEF Deposit, opVars
  <2>2. GatewayTypeOK'
    BY <1>2, <1>3, <2>1 DEF GatewayTypeOK, lifeVars
  <2>3. \A x \in Upstreams : disk'[x].tools >= disk[x].tools /\ disk'[x].tools <= offer[x]
                            /\ disk'[x].tools \in Nat
    <3> TAKE x \in Upstreams
    <3>1. disk'[x] = IF x = u THEN [tools |-> offer[u], skills |-> offer[u]] ELSE disk[x]
      BY <1>3, <2>1
    <3>2. disk[x].tools <= offer[x] /\ offer[x] >= 1
      BY DEF Known
    <3>3. CASE x = u
      BY <1>3, <3>1, <3>2, <3>3
    <3>4. CASE x # u
      BY <1>3, <3>1, <3>2, <3>4
    <3> QED BY <3>3, <3>4
  <2>4. Known' /\ Overtaken
    BY <1>3, <2>1, <2>3 DEF Known, Overtaken
  <2>5. \A x \in Upstreams : disk[x].tools # 0 => disk'[x].tools # 0
    BY <1>3, <2>3
  <2>6. \A x \in Upstreams : Showable(x) => Showable(x)'
    BY <2>1, <2>5 DEF Showable, Live, Recallable, GatewayTypeOK
  <2>7. DueAhead'
    BY <1>2, <2>1, <2>6, OwedKept DEF Serving, lifeVars, GatewayTypeOK
  <2> QED BY <2>2, <2>4, <2>7
<1> QED BY <1>1, <1>4, <1>5, <1>6, <1>7

-----------------------------------------------------------------------------
(* Starts belong to the boot, and what is not closed will be stopped: it is *)
(* owed a stop(), or still starting, or ends with the task group.           *)
Booting ==
  \A u \in Upstreams :
    boot[u] \in {"starting", "listing"} => lifespan = "starting" /\ u \in Remote
Owed ==
  \A u \in Remote :
    \/ link[u] = "closed" \/ u \in started \/ boot[u] = "starting"
    \/ u \in Http /\ lifespan \in {"serving", "stopping"}

GatewayInv ==
  GatewayTypeOK /\ Known /\ DueAhead /\ Booting /\ Owed /\ NothingOutlives

(* The lifespan asks nothing of the cache, and runs when nobody is served. *)
LEMMA LifespanKeeps ==
  ASSUME GatewayTypeOK, Known, DueAhead, Booting, Lifespan
  PROVE  GatewayTypeOK' /\ Known' /\ DueAhead' /\ Overtaken
<1> USE OrderFacts
<1>1. UNCHANGED <<offer, disk>>
  BY DEF Lifespan, Probe, AllBooted, Serve, CancelBoot, Shutdown, Over, Begin, Started,
         NotStarted, BootListed, StopOne, opVars
<1>2. Known' /\ Overtaken
  <2>1. \A u \in Upstreams : disk[u].tools \in Nat
    BY DEF GatewayTypeOK, Versions
  <2> QED BY <1>1, <2>1 DEF Known, Overtaken
<1>3. CASE Shutdown
  <2>1. /\ listing' = [r \in Requests |-> [phase |-> "idle", at |-> 0, from |-> 0]]
        /\ collection' = [r \in Requests |-> [phase |-> "idle", at |-> 0, pages |-> 0, live |-> {}]]
        /\ call' = [r \in Requests |-> [phase |-> "idle", to |-> Order[1]]]
        /\ due' = [r \in Requests |-> {}] /\ lifespan' = "stopping"
        /\ UNCHANGED <<boot, started, table, link, pending>>
    BY <1>3 DEF Shutdown, NoRequest
  <2>2. 0 \in 0 .. Len(Order) /\ 0 \in Versions /\ 0 \in 0 .. MaxPages - 1
    BY DEF Last, Versions
  <2>3. GatewayTypeOK'
    BY <1>1, <2>1, <2>2 DEF GatewayTypeOK
  <2>4. DueAhead'
    BY <2>1 DEF DueAhead, DueOf
  <2> QED BY <1>2, <2>3, <2>4
<1>4. ASSUME UNCHANGED opVars, ~Serving PROVE DueAhead'
  <2>1. ASSUME NEW l \in Requests PROVE DueOf(l)'
    BY <1>4 DEF DueAhead, DueOf, opVars
  <2> QED BY <2>1 DEF DueAhead
<1>5. CASE \E u \in Upstreams : Begin(u) \/ Started(u) \/ NotStarted(u) \/ BootListed(u) \/ StopOne(u)
  <2>1. PICK u \in Upstreams : Begin(u) \/ Started(u) \/ NotStarted(u) \/ BootListed(u) \/ StopOne(u)
    BY <1>5
  <2>2. UNCHANGED <<opVars, lifespan, table>> /\ ~Serving
    BY <2>1 DEF Begin, Started, NotStarted, BootListed, StopOne, Booting, Serving
  <2>3. started' \subseteq Remote
    BY <2>1 DEF Begin, Started, NotStarted, BootListed, StopOne, GatewayTypeOK, Booting
  <2>4. PICK b \in {"starting", "listing", "ready", "failed"}, s \in {"closed", "opening", "open"} :
          /\ boot' = boot \/ boot' = [boot EXCEPT ![u] = b]
          /\ link' = link \/ link' = [link EXCEPT ![u] = s]
    <3>1. CASE Begin(u)
      BY <3>1, Zenon DEF Begin
    <3>2. CASE Started(u)
      BY <3>2, Zenon DEF Started
    <3>3. CASE NotStarted(u)
      BY <3>3, Zenon DEF NotStarted
    <3>4. CASE BootListed(u) \/ StopOne(u)
      BY <3>4, Zenon DEF BootListed, StopOne
    <3> QED BY <2>1, <3>1, <3>2, <3>3, <3>4
  <2>5. pending' \subseteq OAuth
    <3>1. pending' = pending \/ (u \in OAuth /\ pending' = pending \cup {u})
      <4>1. CASE NotStarted(u)
        BY <4>1, Zenon DEF NotStarted
      <4>2. CASE Begin(u) \/ Started(u) \/ BootListed(u) \/ StopOne(u)
        BY <4>2 DEF Begin, Started, BootListed, StopOne
      <4> QED BY <2>1, <4>1, <4>2
    <3> QED BY <3>1 DEF GatewayTypeOK
  <2>6. /\ boot' \in [Upstreams -> {"waiting", "starting", "listing", "ready", "failed"}]
        /\ link' \in [Upstreams -> {"closed", "opening", "open"}]
    <3>1. /\ boot \in [Upstreams -> {"waiting", "starting", "listing", "ready", "failed"}]
          /\ link \in [Upstreams -> {"closed", "opening", "open"}]
      BY DEF GatewayTypeOK
    <3>2. boot' \in [Upstreams -> {"waiting", "starting", "listing", "ready", "failed"}]
      BY <2>4, <3>1
    <3>3. link' \in [Upstreams -> {"closed", "opening", "open"}]
      BY <2>4, <3>1
    <3> QED BY <3>2, <3>3
  <2>7. GatewayTypeOK'
    BY <1>1, <2>2, <2>3, <2>5, <2>6 DEF GatewayTypeOK, opVars
  <2> QED BY <1>2, <1>4, <2>2, <2>7
<1>6. CASE Probe \/ AllBooted \/ Serve \/ CancelBoot \/ Over
  <2>1. UNCHANGED opVars /\ ~Serving
    BY <1>6 DEF Probe, AllBooted, Serve, CancelBoot, Over, Serving
  <2>2. /\ boot' \in [Upstreams -> {"waiting", "starting", "listing", "ready", "failed"}]
        /\ link' \in [Upstreams -> {"closed", "opening", "open"}]
    BY <1>6 DEF Probe, AllBooted, Serve, CancelBoot, Over, GatewayTypeOK
  <2>3. lifespan' \in {"probing", "starting", "publishing", "serving", "stopping", "over"}
        /\ started' \subseteq Remote /\ table' \subseteq Upstreams /\ pending' \subseteq OAuth
    BY <1>6 DEF Probe, AllBooted, Serve, CancelBoot, Over, GatewayTypeOK
  <2>4. GatewayTypeOK'
    BY <1>1, <2>1, <2>2, <2>3 DEF GatewayTypeOK, opVars
  <2> QED BY <1>2, <1>4, <2>1, <2>4
<1> QED BY <1>3, <1>5, <1>6 DEF Lifespan

(* The sessions that are not closed stay owed an end. *)
LEMMA OwedStep ==
  ASSUME GatewayTypeOK, Booting, Owed, NothingOutlives, [Next]_vars
  PROVE  Booting' /\ Owed' /\ NothingOutlives'
<1> USE OrderFacts DEF GatewayTypeOK, Booting, Owed, NothingOutlives, Upstreams, Remote
<1>1. ASSUME NEW u \in Upstreams,
             Begin(u) \/ Started(u) \/ NotStarted(u) \/ BootListed(u) \/ StopOne(u)
      PROVE  Booting' /\ Owed' /\ NothingOutlives'
  <2>1. CASE Begin(u)
    BY <2>1 DEF Begin
  <2>2. CASE Started(u)
    BY <2>2 DEF Started
  <2>3. CASE NotStarted(u)
    BY <2>3 DEF NotStarted
  <2>4. CASE BootListed(u)
    BY <2>4 DEF BootListed
  <2>5. CASE StopOne(u)
    BY <2>5 DEF StopOne
  <2> QED BY <1>1, <2>1, <2>2, <2>3, <2>4, <2>5
<1>2. CASE Probe \/ Serve
  BY <1>2 DEF Probe, Serve
<1>3. CASE AllBooted
  BY <1>3 DEF AllBooted
<1>4. CASE CancelBoot
  BY <1>4 DEF CancelBoot
<1>5. CASE Shutdown
  BY <1>5 DEF Shutdown
<1>6. CASE Over
  BY <1>6 DEF Over
<1>7. CASE Environment
  <2>1. PICK u \in Upstreams :
          Offer(u) \/ SessionLost(u) \/ Authorize(u) \/ Deposit(u) \/ Forget(u)
    BY <1>7 DEF Environment
  <2>2. Serving /\ UNCHANGED lifeVars
    BY <2>1 DEF Offer, SessionLost, Authorize, Deposit, Forget
  <2>3. \A x \in Remote : link'[x] = link[x] \/ link'[x] = "closed" \/ x \in Http
    BY <2>1 DEF Offer, SessionLost, Authorize, Deposit, Forget
  <2> QED BY <2>2, <2>3 DEF Serving, lifeVars
<1>8. CASE ListStep \/ CollectStep \/ CallStep
  <2>1. UNCHANGED <<lifeVars, link>>
    BY <1>8 DEF ListStep, ListBegins, Listed, ListFailed, CollectStep, CollectBegins, Page,
                PageExpires, CallStep, Call, CallAnswered, CallFailed, CallExpires, Ends
  <2> QED BY <2>1 DEF lifeVars
<1>9. CASE UNCHANGED vars \/ Rest
  BY <1>9 DEF vars, Rest, lifeVars
<1> QED BY <1>1, <1>2, <1>3, <1>4, <1>5, <1>6, <1>7, <1>8, <1>9 DEF Next, Lifespan

(* Every step keeps the invariant, and the cache. *)
LEMMA GatewayStep ==
  ASSUME GatewayInv, [Next]_vars
  PROVE  GatewayInv' /\ [Overtaken]_vars
<1> USE DEF GatewayInv
<1>1. Booting' /\ Owed' /\ NothingOutlives'
  BY OwedStep
<1>2. CASE Next /\ ~Rest
  <2>1. GatewayTypeOK' /\ Known' /\ DueAhead' /\ Overtaken
    BY <1>2, LifespanKeeps, EnvironmentKeeps, ListingKeeps, CollectingKeeps, CallingKeeps
       DEF Next, ListStep, CollectStep
  <2> QED BY <1>1, <2>1
<1>3. CASE UNCHANGED vars \/ Rest
  <2>1. UNCHANGED vars
    BY <1>3 DEF Rest
  <2>2. GatewayTypeOK'
    BY <2>1 DEF GatewayTypeOK, vars, lifeVars, opVars
  <2>3. Known'
    BY <2>1 DEF Known, vars
  <2>4. DueAhead'
    BY <2>1 DEF DueAhead, DueOf, Ahead, Showable, Live, Recallable, Serving, vars, lifeVars, opVars, Last
  <2> QED BY <1>1, <2>1, <2>2, <2>3, <2>4
<1> QED BY <1>2, <1>3

(* The initial states. *)
LEMMA GatewayStarts == Init => GatewayInv
<1> SUFFICES ASSUME Init PROVE GatewayInv
  OBVIOUS
<1> USE OrderFacts
<1>1. PICK known \in {0, 1} : disk = [u \in Upstreams |-> [tools |-> known, skills |-> 0]]
  BY DEF Init
<1>2. 0 \in 0 .. Len(Order) /\ 0 \in Versions /\ 1 \in Versions /\ 0 \in 0 .. MaxPages - 1
  BY DEF Last, Versions
<1>3. /\ listing = [r \in Requests |-> [phase |-> "idle", at |-> 0, from |-> 0]]
      /\ collection = [r \in Requests |-> [phase |-> "idle", at |-> 0, pages |-> 0, live |-> {}]]
      /\ call = [r \in Requests |-> [phase |-> "idle", to |-> Order[1]]]
      /\ due = [r \in Requests |-> {}]
  BY DEF Init, NoRequest
<1>4. GatewayTypeOK
  BY <1>1, <1>2, <1>3 DEF Init, GatewayTypeOK
<1>5. Known
  BY <1>1 DEF Init, Known
<1>6. DueAhead
  BY <1>3 DEF DueAhead, DueOf
<1>7. Booting /\ Owed /\ NothingOutlives
  BY DEF Init, Booting, Owed, NothingOutlives, Remote, Upstreams
<1> QED BY <1>4, <1>5, <1>6, <1>7 DEF GatewayInv

-----------------------------------------------------------------------------
(* The invariant everything follows from. *)
THEOREM GatewayInvariance == Spec => []GatewayInv
<1> QED BY GatewayStarts, GatewayStep, PTL DEF Spec

(* The variables of Gateway keep their types. *)
THEOREM GatewayTypeCorrect == Spec => []GatewayTypeOK
<1>1. GatewayInv => GatewayTypeOK
  BY DEF GatewayInv
<1> QED BY <1>1, GatewayInvariance, PTL

(* When the lifespan is over, however it ended, no remote upstream is left  *)
(* with a session or a subprocess.                                          *)
THEOREM AllClosedAtLast == Spec => []NothingOutlives
<1>1. GatewayInv => NothingOutlives
  BY DEF GatewayInv
<1> QED BY <1>1, GatewayInvariance, PTL

(* tools/list shows whatever could be shown from its beginning on.          *)
THEOREM ListedWhole == Spec => []NothingHidden
<1>1. GatewayInv => NothingHidden
  BY DEF GatewayInv, DueAhead, DueOf, NothingHidden
<1> QED BY <1>1, GatewayInvariance, PTL

(* The cache of tools goes back only where a listing was overtaken by one   *)
(* that was asked later.                                                    *)
THEOREM CatalogGoesForward == Spec => CatalogNeverBackwards
<1>1. Overtaken =>
        \A u \in Upstreams : disk'[u].tools < disk[u].tools =>
          \E l \in Requests :
            /\ listing[l].phase = "asking" /\ listing'[l] # listing[l]
            /\ Order[listing[l].at] = u /\ listing[l].from < disk[u].tools
  BY DEF Overtaken
<1> QED BY <1>1, GatewayStarts, GatewayStep, PTL DEF Spec, CatalogNeverBackwards
=============================================================================
