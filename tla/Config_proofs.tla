--------------------------- MODULE Config_proofs ---------------------------
(***************************************************************************)
(* The configuration.  A restart that ConfigWatch lets go on has seen its  *)
(* address open, and its cache stays bounded, for any contents, checks and *)
(* bounds; a migration of ConfigLayers keeps the configuration its owner   *)
(* wrote, for any keys and scalars and any depth of nesting.               *)
(***************************************************************************)
EXTENDS ConfigWatch, ConfigLayers, SequenceTheorems, WellFoundedInduction, TLAPS

CheckOf == [phase : {"idle", "reading", "validating", "binding", "done"},
            fresh : BOOLEAN, content : Contents,
            verdict : {"none", "unchanged", "changed", "invalid"}]

WatchTypes ==
  /\ written \in Contents \cup {"unreadable"}
  /\ validated \in Seq(Contents)
  /\ check \in [Checks -> CheckOf]

(* A check has no verdict before it is validated. *)
Undecided == \A k \in Checks :
               check[k].phase \in {"reading", "validating"} => check[k].verdict = "none"

(* While the port is free, whoever has asked has seen it free. *)
SeenFree == portFree => \A k \in Checks : check[k].phase # "idle" => k \in freeSince

WatchInv == WatchTypes /\ Undecided /\ SeenFree /\ RestartSound

-----------------------------------------------------------------------------
(* Making room leaves room. *)
LEMMA Room ==
  ASSUME NEW s \in Seq(Contents), Len(s) <= CacheMax
  PROVE  Evict(s) \in Seq(Contents) /\ Len(Evict(s)) < CacheMax
<1>1. CacheMax \in Nat /\ CacheMax >= 1 /\ Len(s) \in Nat
  BY WatchAssumption
<1>2. CASE Len(s) >= CacheMax
  <2>1. Evict(s) = SubSeq(s, 2, Len(s))
    <3>1. Len(s) - CacheMax + 2 = 2
      BY <1>1, <1>2
    <3> QED BY <1>2, <3>1, Zenon DEF Evict
  <2>2. SubSeq(s, 2, Len(s)) \in Seq(Contents) /\ Len(SubSeq(s, 2, Len(s))) = Len(s) - 1
    <3>1. \A i \in 2..Len(s) : s[i] \in Contents
      BY <1>1
    <3>2. Len(s) \in Int /\ 2 \in Int /\ Len(s) >= 1
      BY <1>1, <1>2
    <3>3. /\ SubSeq(s, 2, Len(s)) \in Seq(Contents)
          /\ Len(SubSeq(s, 2, Len(s))) = IF 2 <= Len(s) THEN Len(s) - 2 + 1 ELSE 0
      BY <3>1, <3>2, SubSeqProperties
    <3>4. \A n \in Nat : n >= 1 => (2 <= n => n - 2 + 1 = n - 1) /\ (~(2 <= n) => 0 = n - 1)
      OBVIOUS
    <3>5. CASE 2 <= Len(s)
      <4>1. Len(SubSeq(s, 2, Len(s))) = Len(s) - 2 + 1
        BY <3>3, <3>5, Zenon
      <4> QED BY <1>1, <3>2, <3>3, <3>4, <3>5, <4>1, Zenon
    <3>6. CASE ~(2 <= Len(s))
      <4>1. Len(SubSeq(s, 2, Len(s))) = 0
        BY <3>3, <3>6, Zenon
      <4> QED BY <1>1, <3>2, <3>3, <3>4, <3>6, <4>1, Zenon
    <3> QED BY <3>5, <3>6
  <2> QED BY <1>1, <2>1, <2>2
<1>3. CASE ~(Len(s) >= CacheMax)
  BY <1>1, <1>3 DEF Evict
<1> QED BY <1>2, <1>3

(* What a check may become without a trial of its own: nothing is changed   *)
(* by a fresh one that asks for another address.                            *)
Harmless(r) ==
  /\ r \in CheckOf /\ r.phase # "idle"
  /\ r.phase \in {"reading", "validating"} => r.verdict = "none"
  /\ ~(r.fresh /\ r.verdict = "changed" /\ r.content \in Moving)

LEMMA Concludes ==
  ASSUME WatchTypes, NEW k \in Checks, NEW c \in Contents, NEW refusal \in BOOLEAN, NEW binds,
         Conclude(k, c, refusal, binds)
  PROVE  \E r \in CheckOf : Harmless(r) /\ check' = [check EXCEPT ![k] = r]
<1> DEFINE must == MustBind(k, c, binds)
           r == [check[k] EXCEPT
                   !.content = c,
                   !.phase   = IF ~refusal /\ must THEN "binding" ELSE "done",
                   !.verdict = IF refusal THEN "invalid" ELSE IF must THEN "none"
                               ELSE IF AddressMoves(c) /\ ~binds[c] THEN "invalid" ELSE "changed"]
<1>1. check[k] \in CheckOf
  BY DEF WatchTypes
<1>2. check' = [check EXCEPT ![k] = r]
  BY DEF Conclude
<1>3. r \in CheckOf
  BY <1>1 DEF CheckOf
<1>4. r.fresh = check[k].fresh /\ r.content = c /\ r.phase \in {"binding", "done"}
      /\ (r.verdict = "changed" => ~must)
  BY <1>1 DEF CheckOf
<1>5. check[k].fresh /\ ~must => c \notin Moving
  BY DEF MustBind, AddressMoves
<1>6. Harmless(r)
  BY <1>3, <1>4, <1>5 DEF Harmless
<1> QED BY <1>2, <1>3, <1>6

(* A check that changes so disturbs nothing. *)
LEMMA HarmlessKeeps ==
  ASSUME WatchInv, NEW k \in Checks, NEW r \in CheckOf, Harmless(r), check[k].phase # "idle",
         check' = [check EXCEPT ![k] = r],
         validated' \in Seq(Contents), Len(validated') <= CacheMax,
         UNCHANGED <<written, portFree, freeSince>>
  PROVE  WatchInv'
<1> USE DEF WatchInv, WatchTypes
<1>1. \A x \in Checks : check'[x] = IF x = k THEN r ELSE check[x]
  OBVIOUS
<1>2. WatchTypes'
  OBVIOUS
<1>3. SeenFree'
  BY <1>1 DEF SeenFree
<1>4. RestartSound'
  BY <1>1 DEF RestartSound, Harmless
<1>5. Undecided'
  BY <1>1 DEF Undecided, Harmless
<1> QED BY <1>2, <1>3, <1>4, <1>5

(* Every step keeps the invariant. *)
LEMMA WatchStep == ASSUME WatchInv, [WatchNext]_watchVars PROVE WatchInv'
<1> USE DEF WatchInv, WatchTypes
<1>1. CASE Edit
  BY <1>1 DEF Edit, Undecided, SeenFree, RestartSound
<1>2. CASE PortMoves
  <2>1. UNCHANGED <<written, validated, check>> /\ freeSince' = IF portFree' THEN Checks ELSE freeSince
    BY <1>2 DEF PortMoves
  <2>2. SeenFree'
    BY <2>1 DEF SeenFree
  <2>3. RestartSound'
    BY <2>1 DEF RestartSound
  <2>4. Undecided'
    BY <2>1 DEF Undecided
  <2> QED BY <2>1, <2>2, <2>3, <2>4
<1>3. ASSUME NEW k \in Checks, NEW fresh \in {TRUE, FALSE}, CheckBegins(k, fresh) PROVE WatchInv'
  <2> DEFINE r == [Unread EXCEPT !.phase = "reading", !.fresh = fresh]
  <2>1. r \in CheckOf /\ r.verdict = "none"
    BY WatchAssumption DEF Unread, CheckOf
  <2>2. check[k].phase = "idle" /\ check' = [check EXCEPT ![k] = r]
        /\ freeSince' = (IF portFree THEN freeSince \cup {k} ELSE freeSince \ {k})
        /\ UNCHANGED <<written, portFree, validated>>
    BY <1>3 DEF CheckBegins
  <2> HIDE DEF r
  <2>3. \A x \in Checks : check'[x] = IF x = k THEN r ELSE check[x]
    BY <2>2
  <2>4. WatchTypes'
    BY <2>1, <2>2
  <2>5. SeenFree'
    BY <2>2, <2>3 DEF SeenFree
  <2>6. RestartSound'
    BY <2>1, <2>2, <2>3 DEF RestartSound
  <2>7. Undecided'
    BY <2>1, <2>3 DEF Undecided
  <2> QED BY <2>4, <2>5, <2>6, <2>7
<1>4. ASSUME NEW k \in Checks, ReadLayers(k) PROVE WatchInv'
  <2>1. check[k] \in CheckOf /\ check[k].phase = "reading" /\ RestartSound
        /\ UNCHANGED <<written, portFree, validated, freeSince>>
    BY <1>4 DEF ReadLayers
  <2>2. \E r \in CheckOf : Harmless(r) /\ check' = [check EXCEPT ![k] = r]
    <3>1. CASE Concluded(k, "invalid") \/ Concluded(k, "unchanged")
      <4>1. PICK v \in {"invalid", "unchanged"} : Concluded(k, v)
        BY <3>1
      <4> DEFINE r == [check[k] EXCEPT !.phase = "done", !.verdict = v]
      <4>2. r \in CheckOf /\ r.phase = "done" /\ r.verdict = v
        BY <2>1 DEF CheckOf
      <4>3. check' = [check EXCEPT ![k] = r]
        BY <4>1 DEF Concluded
      <4> HIDE DEF r
      <4>4. r.verdict # "changed" /\ r.phase # "idle" /\ r.phase \notin {"reading", "validating"}
        BY <4>2
      <4>5. Harmless(r)
        BY <4>2, <4>4, Zenon DEF Harmless
      <4> QED BY <4>2, <4>3, <4>5
    <3>2. CASE written \in Contents /\ Conclude(k, written, written \in refused, bind)
      <4>1. PICK refusal \in BOOLEAN : refusal <=> written \in refused
        OBVIOUS
      <4>2. Conclude(k, written, refusal, bind)
        BY <3>2, <4>1, Zenon DEF Conclude
      <4> QED BY <3>2, <4>2, Concludes
    <3>3. CASE written \in Contents
               /\ check' = [check EXCEPT ![k].phase = "validating", ![k].content = written]
      <4> DEFINE r == [check[k] EXCEPT !.phase = "validating", !.content = written]
      <4>1. check[k].verdict = "none"
        BY <2>1 DEF Undecided
      <4>2. r \in CheckOf /\ r.phase = "validating" /\ r.verdict = "none"
        BY <2>1, <3>3, <4>1 DEF CheckOf
      <4>3. check' = [check EXCEPT ![k] = r]
        BY <3>3
      <4> HIDE DEF r
      <4>4. r.verdict # "changed" /\ r.phase # "idle"
        BY <4>2
      <4>5. Harmless(r)
        BY <4>2, <4>4, Zenon DEF Harmless
      <4> QED BY <4>2, <4>3, <4>5
    <3>4. written \in Contents \/ written = "unreadable"
      OBVIOUS
    <3> QED BY <1>4, <3>1, <3>2, <3>3, <3>4 DEF ReadLayers
  <2> QED BY <2>1, <2>2, HarmlessKeeps DEF RestartSound
<1>5. ASSUME NEW k \in Checks, Validated(k) PROVE WatchInv'
  <2> DEFINE c    == check[k].content
             kept == Evict(validated)
  <2>1. /\ check[k].phase = "validating" /\ UNCHANGED <<written, portFree, freeSince>>
        /\ \E refusal \in MayRefuse(c) :
             /\ validated' = IF c \in Elements(kept) THEN kept ELSE Append(kept, c)
             /\ Conclude(k, c, refusal, bind')
    BY <1>5 DEF Validated
  <2>2. c \in Contents /\ Len(validated) <= CacheMax /\ CacheMax \in Nat
    BY WatchAssumption DEF CheckOf, RestartSound
  <2>3. kept \in Seq(Contents) /\ Len(kept) < CacheMax
    BY <2>2, Room
  <2> HIDE DEF c, kept
  <2>4. validated' \in Seq(Contents) /\ Len(validated') <= CacheMax
    BY <2>1, <2>2, <2>3
  <2>5. PICK refusal \in BOOLEAN : Conclude(k, c, refusal, bind')
    BY <2>1 DEF MayRefuse
  <2>6. \E r \in CheckOf : Harmless(r) /\ check' = [check EXCEPT ![k] = r]
    BY <2>2, <2>5, Concludes
  <2> QED BY <2>1, <2>4, <2>6, HarmlessKeeps
<1>6. ASSUME NEW k \in Checks, Bound(k) PROVE WatchInv'
  <2> DEFINE v == IF portFree THEN "changed" ELSE "invalid"
             r == [check[k] EXCEPT !.phase = "done", !.verdict = v]
  <2>1. /\ check[k].phase = "binding" /\ check' = [check EXCEPT ![k] = r]
        /\ UNCHANGED <<written, portFree, validated, freeSince>>
    BY <1>6 DEF Bound, Concluded
  <2>2. r \in CheckOf /\ r.verdict = v /\ r.phase = "done"
    BY DEF CheckOf
  <2>3. portFree => k \in freeSince
    BY <2>1 DEF SeenFree
  <2> HIDE DEF r
  <2>4. \A x \in Checks : check'[x] = IF x = k THEN r ELSE check[x]
    BY <2>1
  <2>5. WatchTypes'
    BY <2>1, <2>2
  <2>6. SeenFree'
    BY <2>1, <2>3, <2>4 DEF SeenFree
  <2>7. RestartSound'
    BY <2>1, <2>2, <2>3, <2>4 DEF RestartSound
  <2>8. Undecided'
    BY <2>2, <2>4 DEF Undecided
  <2> QED BY <2>5, <2>6, <2>7, <2>8
<1>7. CASE UNCHANGED watchVars
  BY <1>7 DEF watchVars, Undecided, SeenFree, RestartSound
<1> QED BY <1>1, <1>2, <1>3, <1>4, <1>5, <1>6, <1>7 DEF WatchNext

-----------------------------------------------------------------------------
(* A restart that may go on to another address has seen it open since it    *)
(* asked, and the cache of verdicts stays bounded.                          *)
THEOREM RestartIsSound == WatchSpec => []RestartSound
<1>1. WatchInit => WatchInv
  <2> SUFFICES ASSUME WatchInit PROVE WatchInv
    OBVIOUS
  <2>1. Unread \in CheckOf /\ Unread.verdict = "none"
    BY WatchAssumption DEF Unread, CheckOf
  <2>2. /\ written \in Contents /\ check = [k \in Checks |-> Unread]
        /\ validated = << >> /\ Unread.phase = "idle"
    BY WatchAssumption DEF WatchInit, Unread
  <2>3. validated \in Seq(Contents) /\ Len(validated) <= CacheMax
    BY <2>2, WatchAssumption
  <2> QED BY <2>1, <2>2, <2>3 DEF WatchInv, WatchTypes, Undecided, SeenFree, RestartSound
<1>2. WatchInv => RestartSound
  BY DEF WatchInv
<1> QED BY <1>1, <1>2, WatchStep, PTL DEF WatchSpec

-----------------------------------------------------------------------------
(***************************************************************************)
(* The layers.  Four definitions of ConfigLayers are recursive functions:  *)
(* that they are what they say (JsonDef, StripDef, MergeDef, SlimDef) is   *)
(* proved first, from a fixed-point lemma on functions of a ranked set     *)
(* (Recursion); inductions over values go by sets of them (EveryValue).    *)
(* Then what a merge makes of a key is compared, key by key, with and      *)
(* without what the base already says.                                     *)
(***************************************************************************)

(* A set of numbers has a least one. *)
LEMMA LeastNumber ==
  ASSUME NEW T \in SUBSET Nat, T # {}
  PROVE  \E n \in T : \A m \in T : n <= m
<1> DEFINE R == OpToRel(<, Nat)
<1>1. \E n \in T : \A m \in T : ~(<<m, n>> \in R)
  <2>1. IsWellFoundedOn(R, Nat)
    BY NatLessThanWellFounded
  <2> HIDE DEF R
  <2> QED
    BY <2>1, WFMin
<1>2. PICK n \in T : \A m \in T : ~(<<m, n>> \in R)
  BY <1>1
<1>3. ASSUME NEW m \in T PROVE n <= m
  <2>1. m \in Nat /\ n \in Nat
    OBVIOUS
  <2>2. ~(m < n)
    BY <1>2, <2>1 DEF OpToRel
  <2> QED
    BY <2>1, <2>2
<1> QED
  BY <1>2, <1>3

(* Complete induction, of a set. *)
LEMMA EveryNumber ==
  ASSUME NEW T,
         \A n \in Nat : (\A m \in Nat : m < n => m \in T) => n \in T
  PROVE  \A n \in Nat : n \in T
<1> DEFINE W == {n \in Nat : n \notin T}
<1>1. SUFFICES ASSUME W # {} PROVE FALSE
  OBVIOUS
<1>2. PICK n \in W : \A m \in W : n <= m
  <2>1. W \in SUBSET Nat
    OBVIOUS
  <2> HIDE DEF W
  <2> QED
    BY <1>1, <2>1, LeastNumber
<1>3. ASSUME NEW m \in Nat, m < n PROVE m \in T
  <2>1. m \notin W
    BY <1>2, <1>3
  <2> QED
    BY <2>1
<1> QED
  BY <1>2, <1>3

-----------------------------------------------------------------------------
(***************************************************************************)
(* A definition by recursion on a rank defines a function.  Rec takes a    *)
(* function to what the definition makes of it; the value it gives at x    *)
(* depends only on the values at lower ranks.                              *)
(***************************************************************************)
Lower(S, rank, x) == {y \in S : rank[y] < rank[x]}
Agree(f, g, T)    == \A y \in T : f[y] = g[y]

WellPosed(S, V, rank, G, Rec) ==
  /\ rank \in [S -> Nat] /\ G \subseteq [S -> V] /\ G # {} /\ Rec \in [G -> G]
  /\ \A f, g \in G : \A x \in S :
        Agree(f, g, Lower(S, rank, x)) => Rec[f][x] = Rec[g][x]
  /\ \A c \in [S -> G] : [x \in S |-> c[x][x]] \in G

LEMMA Recursion ==
  ASSUME NEW S, NEW V, NEW rank, NEW G, NEW Rec, WellPosed(S, V, rank, G, Rec)
  PROVE  \E f \in G : f = Rec[f]
<1> USE DEF WellPosed
<1> DEFINE Good(n) == {g \in G : \A x \in S : rank[x] < n => g[x] = Rec[g][x]}
<1>0. /\ \A g \in G : Rec[g] \in G
      /\ \A x \in S : rank[x] \in Nat
      /\ \A g \in G : g \in [S -> V]
  OBVIOUS
<1>1. \A n \in Nat : Good(n) # {}
  <2> DEFINE T == {n \in Nat : Good(n) # {}}
  <2>1. ASSUME NEW n \in Nat, \A m \in Nat : m < n => m \in T PROVE n \in T
    <3>1. CASE n = 0
      <4>1. PICK g \in G : TRUE
        OBVIOUS
      <4>2. g \in Good(n)
        BY <3>1, <1>0
      <4> QED
        BY <4>2
    <3>2. CASE n # 0
      <4>1. n - 1 \in Nat /\ n - 1 < n
        BY <3>2
      <4>2. PICK g : g \in Good(n - 1)
        BY <4>1, <2>1
      <4>3. ASSUME NEW x \in S, rank[x] < n PROVE Rec[g][x] = Rec[Rec[g]][x]
        <5>1. Agree(g, Rec[g], Lower(S, rank, x))
          <6>1. ASSUME NEW y \in Lower(S, rank, x) PROVE g[y] = Rec[g][y]
            <7>1. y \in S /\ rank[y] < n - 1
              BY <4>3, <1>0 DEF Lower
            <7> QED
              BY <7>1, <4>2
          <6> QED
            BY <6>1 DEF Agree
        <5> QED
          BY <5>1, <4>2, <1>0
      <4>4. Rec[g] \in Good(n)
        BY <4>2, <4>3, <1>0
      <4> QED
        BY <4>4
    <3> QED
      BY <3>1, <3>2
  <2> HIDE DEF T
  <2>2. \A n \in Nat : n \in T
    BY <2>1, EveryNumber
  <2> QED
    BY <2>2 DEF T
<1>2. ASSUME NEW n \in Nat, NEW g \in Good(n), NEW h \in Good(n)
      PROVE  \A x \in S : rank[x] < n => g[x] = h[x]
  <2> DEFINE T == {m \in Nat : \A x \in S : rank[x] = m /\ m < n => g[x] = h[x]}
  <2>1. ASSUME NEW m \in Nat, \A k \in Nat : k < m => k \in T PROVE m \in T
    <3>1. SUFFICES ASSUME NEW x \in S, rank[x] = m, m < n PROVE g[x] = h[x]
      OBVIOUS
    <3>2. ASSUME NEW y \in Lower(S, rank, x) PROVE g[y] = h[y]
      <4>1. y \in S /\ rank[y] \in Nat /\ rank[y] < m /\ rank[y] < n
        BY <3>1, <1>0 DEF Lower
      <4> QED
        BY <4>1, <2>1
    <3>3. Rec[g][x] = Rec[h][x]
      BY <3>2 DEF Agree
    <3> QED
      BY <3>1, <3>3
  <2> HIDE DEF T
  <2>2. \A m \in Nat : m \in T
    BY <2>1, EveryNumber
  <2> QED
    BY <2>2, <1>0 DEF T
<1>3. \A n \in Nat : \A m \in Nat : m <= n => Good(n) \subseteq Good(m)
  BY <1>0
<1> DEFINE c == [x \in S |-> CHOOSE g \in Good(rank[x] + 1) : TRUE]
           f == [x \in S |-> c[x][x]]
<1>4. ASSUME NEW x \in S PROVE c[x] \in Good(rank[x] + 1)
  <2>1. rank[x] + 1 \in Nat
    BY <1>0
  <2>2. Good(rank[x] + 1) # {}
    BY <2>1, <1>1
  <2> HIDE DEF Good
  <2> QED
    BY <2>2
<1>5. f \in G
  <2>1. c \in [S -> G]
    BY <1>4
  <2> HIDE DEF c
  <2> QED
    BY <2>1
<1>6. ASSUME NEW x \in S PROVE f[x] = Rec[f][x]
  <2>1. ASSUME NEW y \in Lower(S, rank, x) PROVE f[y] = c[x][y]
    <3>1. /\ y \in S /\ rank[y] + 1 \in Nat /\ rank[y] < rank[y] + 1
          /\ rank[x] + 1 \in Nat /\ rank[y] + 1 <= rank[x] + 1
      BY <1>0 DEF Lower
    <3>2. c[y] \in Good(rank[y] + 1) /\ c[x] \in Good(rank[y] + 1)
      <4>1. Good(rank[x] + 1) \subseteq Good(rank[y] + 1)
        BY <3>1, <1>3
      <4> QED
        BY <4>1, <3>1, <1>4
    <3>3. c[y][y] = c[x][y]
      <4> HIDE DEF c, Good
      <4> QED
        BY <3>1, <3>2, <1>2
    <3> QED
      BY <3>1, <3>3
  <2>2. c[x] \in G /\ c[x][x] = Rec[c[x]][x]
    BY <1>4, <1>0
  <2>3. Rec[f][x] = Rec[c[x]][x]
    <3>1. Agree(f, c[x], Lower(S, rank, x))
      BY <2>1 DEF Agree
    <3> HIDE DEF f, c
    <3> QED
      BY <3>1, <2>2, <1>5
  <2>4. f[x] = c[x][x]
    BY DEF f
  <2> QED
    BY <2>2, <2>3, <2>4
<1>7. f = Rec[f]
  <2>1. f \in [S -> V] /\ Rec[f] \in [S -> V]
    BY <1>5, <1>0
  <2> HIDE DEF f
  <2> QED
    BY <2>1, <1>6
<1> QED
  BY <1>5, <1>7

-----------------------------------------------------------------------------
(* The values of a nesting, from those of the nesting below.               *)
Flat == {Null} \cup {Leaf(s) : s \in Scalars}
Build(n, g) == g = [i \in 0 .. n |-> Flat \cup IF i = 0 THEN {} ELSE ObjectsOf(g[i - 1])]

LEMMA BuildsAgree ==
  ASSUME NEW m \in Nat, NEW n \in Nat, m <= n, NEW g, Build(m, g), NEW h, Build(n, h)
  PROVE  \A i \in 0 .. m : g[i] = h[i]
<1> DEFINE T == {i \in Nat : i <= m => g[i] = h[i]}
<1>1. ASSUME NEW i \in Nat, \A j \in Nat : j < i => j \in T PROVE i \in T
  <2>1. SUFFICES ASSUME i <= m PROVE g[i] = h[i]
    OBVIOUS
  <2>2. i \in 0 .. m /\ i \in 0 .. n
    BY <2>1
  <2>3. /\ g[i] = Flat \cup IF i = 0 THEN {} ELSE ObjectsOf(g[i - 1])
        /\ h[i] = Flat \cup IF i = 0 THEN {} ELSE ObjectsOf(h[i - 1])
    BY <2>2 DEF Build
  <2>4. i # 0 => g[i - 1] = h[i - 1]
    <3>1. i # 0 => i - 1 \in Nat /\ i - 1 < i /\ i - 1 <= m
      BY <2>1
    <3> QED
      BY <3>1, <1>1
  <2> QED
    BY <2>3, <2>4
<1> HIDE DEF T
<1>2. \A i \in Nat : i \in T
  BY <1>1, EveryNumber
<1> QED
  BY <1>2 DEF T

LEMMA Builds == \A n \in Nat : \E g : Build(n, g)
<1> DEFINE T == {n \in Nat : \E g : Build(n, g)}
<1>1. ASSUME NEW n \in Nat, \A m \in Nat : m < n => m \in T PROVE n \in T
  <2>1. CASE n = 0
    <3> DEFINE g == [i \in 0 .. n |-> Flat]
    <3>1. Build(n, g)
      BY <2>1 DEF Build
    <3> QED
      BY <3>1
  <2>2. CASE n # 0
    <3>1. n - 1 \in Nat /\ n - 1 < n
      BY <2>2
    <3>2. PICK h : Build(n - 1, h)
      BY <3>1, <1>1
    <3> DEFINE Next(i) == Flat \cup IF i = 0 THEN {} ELSE ObjectsOf(h[i - 1])
               g == [i \in 0 .. n |-> Next(i)]
    <3>3. ASSUME NEW i \in 0 .. n - 1 PROVE g[i] = h[i]
      <4>1. i \in 0 .. n
        OBVIOUS
      <4>2. g[i] = Next(i)
        <5> HIDE DEF Next
        <5> QED
          BY <4>1
      <4>3. h[i] = Next(i)
        BY <3>2 DEF Build
      <4> QED
        BY <4>2, <4>3
    <3>4. \A i \in 0 .. n : i # 0 => i - 1 \in 0 .. n - 1
      OBVIOUS
    <3>5. \A i \in 0 .. n : Next(i) = Flat \cup IF i = 0 THEN {} ELSE ObjectsOf(g[i - 1])
      <4> HIDE DEF g
      <4> QED
        BY <3>3, <3>4
    <3>6. Build(n, g)
      <4> HIDE DEF Next
      <4> QED
        BY <3>5 DEF Build
    <3> QED
      BY <3>6
  <2> QED
    BY <2>1, <2>2
<1> HIDE DEF T
<1>2. \A n \in Nat : n \in T
  BY <1>1, EveryNumber
<1> QED
  BY <1>2 DEF T

(* Json is what its definition says.                                       *)
LEMMA JsonDef ==
  \A d \in Nat : Json[d] = Flat \cup IF d = 0 THEN {} ELSE ObjectsOf(Json[d - 1])
<1> DEFINE B(n) == CHOOSE g : Build(n, g)
           J == [d \in Nat |-> B(d)[d]]
<1>1. ASSUME NEW n \in Nat PROVE Build(n, B(n))
  BY Builds
<1>2. ASSUME NEW n \in Nat
      PROVE  J[n] = Flat \cup IF n = 0 THEN {} ELSE ObjectsOf(J[n - 1])
  <2>1. B(n)[n] = Flat \cup IF n = 0 THEN {} ELSE ObjectsOf(B(n)[n - 1])
    <3>1. n \in 0 .. n
      OBVIOUS
    <3> HIDE DEF B
    <3> QED
      BY <3>1, <1>1 DEF Build
  <2>2. n # 0 => B(n)[n - 1] = B(n - 1)[n - 1]
    <3>1. n # 0 => n - 1 \in Nat /\ n - 1 <= n /\ n - 1 \in 0 .. n - 1
      OBVIOUS
    <3>2. CASE n # 0
      <4>1. Build(n - 1, B(n - 1)) /\ Build(n, B(n))
        BY <3>1, <3>2, <1>1
      <4> HIDE DEF B
      <4> QED
        BY <4>1, <3>1, <3>2, BuildsAgree
    <3> QED
      BY <3>2
  <2>3. J[n] = B(n)[n] /\ (n # 0 => J[n - 1] = B(n - 1)[n - 1])
    <3> HIDE DEF B
    <3>1. n # 0 => n - 1 \in Nat
      OBVIOUS
    <3> QED
      BY <3>1
  <2> QED
    BY <2>1, <2>2, <2>3
<1> DEFINE Is(g) == g = [d \in Nat |-> {Null} \cup {Leaf(s) : s \in Scalars}
                          \cup (IF d = 0 THEN {} ELSE ObjectsOf(g[d - 1]))]
<1>3. Is(J)
  BY <1>2 DEF Flat
<1>4. Json = CHOOSE g : Is(g)
  BY DEF Json
<1>5. Is(Json)
  <2> HIDE DEF Is, J
  <2> QED
    BY <1>3, <1>4
<1> QED
  BY <1>5 DEF Flat

-----------------------------------------------------------------------------
(* The shapes of values.                                                    *)
LEMMA FlatShape ==
  /\ Null \in Flat /\ Comments \subseteq Flat /\ Null \notin Comments
  /\ \A v \in Flat : ~IsDict(v)
<1>1. Null \in Flat /\ Comments \subseteq Flat
  BY DEF Flat, Comments
<1>2. Null \notin Comments
  <2>1. SUFFICES ASSUME NEW s \in Scalars, Null = Leaf(s) PROVE FALSE
    BY DEF Comments
  <2>2. Null.is = NullValue /\ Leaf(s).is = s
    BY DEF Null, Leaf
  <2> QED
    BY <2>1, <2>2, LayersAssumption
<1>3. ~IsDict(Null) /\ \A s : ~IsDict(Leaf(s))
  BY DEF Null, Leaf, IsDict
<1> QED
  BY <1>1, <1>2, <1>3 DEF Flat

LEMMA ObjShape == \A f : IsDict(Obj(f)) /\ Obj(f).fields = f /\ KeysOf(Obj(f)) = DOMAIN f
BY DEF Obj, IsDict, KeysOf

LEMMA ObjectsShape ==
  ASSUME NEW V, NEW v \in ObjectsOf(V)
  PROVE  /\ IsDict(v) /\ v = Obj(v.fields)
         /\ KeysOf(v) \subseteq Keys
         /\ v.fields \in [KeysOf(v) -> V]
         /\ Comment \in KeysOf(v) => v.fields[Comment] \in Comments
<1>1. PICK f \in UNION {[K -> V] : K \in SUBSET Keys} :
         v = Obj(f) /\ (Comment \in DOMAIN f => f[Comment] \in Comments)
  BY DEF ObjectsOf
<1>2. PICK K \in SUBSET Keys : f \in [K -> V]
  BY <1>1
<1>3. IsDict(v) /\ v.fields = f /\ KeysOf(v) = K
  BY <1>1, <1>2, ObjShape
<1> QED
  BY <1>1, <1>2, <1>3

LEMMA ObjectsIn ==
  ASSUME NEW V, NEW K \in SUBSET Keys, NEW f \in [K -> V],
         Comment \in K => f[Comment] \in Comments
  PROVE  Obj(f) \in ObjectsOf(V)
BY DEF ObjectsOf

LEMMA DictShape ==
  ASSUME NEW d \in Nat, NEW v \in Json[d], IsDict(v)
  PROVE  /\ d # 0 /\ d - 1 \in Nat
         /\ v = Obj(v.fields)
         /\ KeysOf(v) \subseteq Keys
         /\ v.fields \in [KeysOf(v) -> Json[d - 1]]
         /\ Comment \in KeysOf(v) => v.fields[Comment] \in Comments
<1>1. d # 0 /\ v \in ObjectsOf(Json[d - 1])
  BY JsonDef, FlatShape
<1> QED
  BY <1>1, ObjectsShape

LEMMA FlatIn == \A d \in Nat : Flat \subseteq Json[d]
BY JsonDef

LEMMA NotDict == \A d \in Nat : \A v \in Json[d] : ~IsDict(v) => v \in Flat
<1> SUFFICES ASSUME NEW d \in Nat, NEW v \in Json[d], v \notin Flat PROVE IsDict(v)
  OBVIOUS
<1>1. d # 0 /\ v \in ObjectsOf(Json[d - 1])
  BY JsonDef
<1> QED
  BY <1>1, ObjectsShape

LEMMA DictIn ==
  ASSUME NEW d \in Nat, d # 0, NEW K \in SUBSET Keys, NEW f \in [K -> Json[d - 1]],
         Comment \in K => f[Comment] \in Comments
  PROVE  Obj(f) \in Json[d]
<1>1. Obj(f) \in ObjectsOf(Json[d - 1])
  BY ObjectsIn
<1> QED
  BY <1>1, JsonDef

LEMMA JsonGrows == \A m, n \in Nat : m <= n => Json[m] \subseteq Json[n]
<1> DEFINE T == {m \in Nat : \A n \in Nat : m <= n => Json[m] \subseteq Json[n]}
<1>1. ASSUME NEW m \in Nat, \A k \in Nat : k < m => k \in T PROVE m \in T
  <2>1. SUFFICES ASSUME NEW n \in Nat, m <= n, NEW v \in Json[m] PROVE v \in Json[n]
    OBVIOUS
  <2>2. CASE v \in Flat
    BY <2>2, FlatIn
  <2>3. CASE v \notin Flat
    <3>1. IsDict(v)
      BY <2>3, NotDict
    <3>2. /\ m # 0 /\ m - 1 \in Nat /\ n # 0 /\ n - 1 \in Nat /\ m - 1 < m /\ m - 1 <= n - 1
          /\ v = Obj(v.fields) /\ KeysOf(v) \in SUBSET Keys
          /\ v.fields \in [KeysOf(v) -> Json[m - 1]]
          /\ Comment \in KeysOf(v) => v.fields[Comment] \in Comments
      BY <3>1, <2>1, DictShape
    <3>3. Json[m - 1] \subseteq Json[n - 1]
      BY <3>2, <1>1
    <3>4. v.fields \in [KeysOf(v) -> Json[n - 1]]
      BY <3>2, <3>3
    <3>5. Obj(v.fields) \in Json[n]
      BY <3>2, <3>4, DictIn
    <3> QED
      BY <3>2, <3>5
  <2> QED
    BY <2>2, <2>3
<1> HIDE DEF T
<1>2. \A m \in Nat : m \in T
  BY <1>1, EveryNumber
<1> QED
  BY <1>2 DEF T

(* The rank of a value: how deep it is.                                     *)
RankIn(v, n) == n \in Nat /\ v \in Json[n] /\ \A m \in Nat : v \in Json[m] => n <= m
Rank == [v \in Values |-> CHOOSE n : RankIn(v, n)]

LEMMA RankShape ==
  /\ Rank \in [Values -> Nat]
  /\ \A v \in Values : /\ Rank[v] <= Depth /\ v \in Json[Rank[v]]
                       /\ \A m \in Nat : v \in Json[m] => Rank[v] <= m
<1>1. ASSUME NEW v \in Values PROVE RankIn(v, Rank[v])
  <2> DEFINE T == {n \in Nat : v \in Json[n]}
  <2>1. T \in SUBSET Nat /\ T # {}
    BY LayersAssumption DEF Values
  <2>2. \E n \in T : \A m \in T : n <= m
    <3> HIDE DEF T
    <3> QED
      BY <2>1, LeastNumber
  <2>3. \E n : RankIn(v, n)
    BY <2>2 DEF RankIn
  <2>4. Rank[v] = CHOOSE n : RankIn(v, n)
    BY DEF Rank
  <2> HIDE DEF T
  <2> QED
    BY <2>3, <2>4
<1>2. \A v \in Values : Rank[v] \in Nat
  BY <1>1 DEF RankIn
<1>3. Rank \in [Values -> Nat]
  BY <1>2 DEF Rank
<1> QED
  BY <1>1, <1>3, LayersAssumption DEF RankIn, Values

LEMMA FieldsShape ==
  ASSUME NEW v \in Values, IsDict(v)
  PROVE  /\ v = Obj(v.fields) /\ KeysOf(v) \in SUBSET Keys
         /\ v.fields \in [KeysOf(v) -> Values]
         /\ Comment \in KeysOf(v) => v.fields[Comment] \in Comments
         /\ Rank[v] # 0 /\ Rank[v] - 1 \in Nat
         /\ \A k \in KeysOf(v) : Rank[v.fields[k]] < Rank[v]
         /\ \A n \in Nat : v \in Json[n] =>
              n # 0 /\ n - 1 \in Nat /\ \A k \in KeysOf(v) : v.fields[k] \in Json[n - 1]
<1> DEFINE r == Rank[v]
<1>1. r \in Nat /\ r <= Depth /\ v \in Json[r]
  BY RankShape
<1> HIDE DEF r
<1>2. /\ r # 0 /\ r - 1 \in Nat /\ v = Obj(v.fields) /\ KeysOf(v) \in SUBSET Keys
      /\ v.fields \in [KeysOf(v) -> Json[r - 1]]
      /\ Comment \in KeysOf(v) => v.fields[Comment] \in Comments
  BY <1>1, DictShape
<1>3. Json[r - 1] \subseteq Values
  BY <1>1, <1>2, LayersAssumption, JsonGrows DEF Values
<1>4. v.fields \in [KeysOf(v) -> Values]
  BY <1>2, <1>3
<1>5. ASSUME NEW k \in KeysOf(v) PROVE Rank[v.fields[k]] < r
  <2>1. v.fields[k] \in Values /\ v.fields[k] \in Json[r - 1]
    BY <1>2, <1>4
  <2>2. Rank[v.fields[k]] <= r - 1 /\ Rank[v.fields[k]] \in Nat
    BY <2>1, <1>2, RankShape
  <2> QED
    BY <2>2, <1>1
<1>6. ASSUME NEW n \in Nat, v \in Json[n]
      PROVE  n # 0 /\ n - 1 \in Nat /\ \A k \in KeysOf(v) : v.fields[k] \in Json[n - 1]
  BY <1>6, DictShape
<1> QED
  BY <1>2, <1>4, <1>5, <1>6 DEF r

LEMMA FlatValues == \A v \in Values : Flat \subseteq Values /\ (~IsDict(v) => v \in Flat)
BY FlatIn, NotDict, LayersAssumption DEF Values

LEMMA NullValues == Null \in Values /\ Null \in Flat
BY FlatShape, FlatIn, LayersAssumption DEF Values

LEMMA SmallValues == \A n \in Nat : n <= Depth => Json[n] \subseteq Values
BY JsonGrows, LayersAssumption DEF Values

(* Induction over values, of a set.                                         *)
LEMMA EveryValue ==
  ASSUME NEW T,
         \A v \in Values : (\A u \in Values : Rank[u] < Rank[v] => u \in T) => v \in T
  PROVE  \A v \in Values : v \in T
<1> DEFINE W == {n \in Nat : \A v \in Values : Rank[v] = n => v \in T}
<1>1. ASSUME NEW n \in Nat, \A m \in Nat : m < n => m \in W PROVE n \in W
  <2>1. SUFFICES ASSUME NEW v \in Values, Rank[v] = n PROVE v \in T
    OBVIOUS
  <2>2. ASSUME NEW u \in Values, Rank[u] < Rank[v] PROVE u \in T
    <3>1. Rank[u] \in Nat
      BY RankShape
    <3> QED
      BY <3>1, <2>1, <2>2, <1>1
  <2> QED
    BY <2>2
<1> HIDE DEF W
<1>2. \A n \in Nat : n \in W
  BY <1>1, EveryNumber
<1> QED
  BY <1>2, RankShape DEF W

-----------------------------------------------------------------------------
(* strip_comments() as a function.                                          *)
Stripped(g, v) ==
  IF ~IsDict(v) THEN v
  ELSE Obj([k \in KeysOf(v) \ {Comment} |-> g[v.fields[k]]])

LEMMA StrippedShape ==
  ASSUME NEW v \in Values, NEW g,
         \A u \in Values : Rank[u] < Rank[v] => g[u] \in Json[Rank[u]]
  PROVE  Stripped(g, v) \in Json[Rank[v]]
<1>0. Rank[v] \in Nat /\ v \in Json[Rank[v]]
  BY RankShape
<1>1. CASE ~IsDict(v)
  BY <1>0, <1>1 DEF Stripped
<1>2. CASE IsDict(v)
  <2> DEFINE r == Rank[v]
             K == KeysOf(v) \ {Comment}
             f == [k \in K |-> g[v.fields[k]]]
  <2>1. r # 0 /\ r - 1 \in Nat /\ K \in SUBSET Keys
    BY <1>2, FieldsShape
  <2>2. ASSUME NEW k \in K PROVE g[v.fields[k]] \in Json[r - 1]
    <3>1. v.fields[k] \in Values /\ Rank[v.fields[k]] < r
      BY <1>2, FieldsShape
    <3>2. Rank[v.fields[k]] \in Nat /\ Rank[v.fields[k]] <= r - 1
      BY <3>1, <2>1, <1>0, RankShape
    <3>3. Json[Rank[v.fields[k]]] \subseteq Json[r - 1]
      BY <3>2, <2>1, JsonGrows
    <3> QED
      BY <3>1, <3>3
  <2>3. f \in [K -> Json[r - 1]]
    BY <2>2
  <2>4. Comment \notin K
    OBVIOUS
  <2>5. Obj(f) \in Json[r]
    <3> HIDE DEF f, K, r
    <3>1. r \in Nat
      BY <1>0 DEF r
    <3> QED
      BY <3>1, <2>1, <2>3, <2>4, DictIn
  <2> QED
    BY <2>5, <1>2 DEF Stripped
<1> QED
  BY <1>1, <1>2

LEMMA StripExists == \E f : f = [v \in Values |-> Stripped(f, v)]
<1> DEFINE G == {g \in [Values -> Values] : \A v \in Values : g[v] \in Json[Rank[v]]}
           Rec == [g \in G |-> [v \in Values |-> Stripped(g, v)]]
<1>1. G \in SUBSET [Values -> Values]
  OBVIOUS
<1>2. G # {}
  <2>1. [v \in Values |-> v] \in G
    BY RankShape
  <2> QED
    BY <2>1
<1>3. ASSUME NEW g \in G PROVE [v \in Values |-> Stripped(g, v)] \in G
  <2>1. ASSUME NEW v \in Values PROVE Stripped(g, v) \in Json[Rank[v]] /\ Stripped(g, v) \in Values
    <3>1. Stripped(g, v) \in Json[Rank[v]]
      BY StrippedShape
    <3> QED
      BY <3>1, RankShape, SmallValues
  <2> QED
    BY <2>1
<1>4. Rec \in [G -> G]
  <2> HIDE DEF G
  <2> QED
    BY <1>3
<1>5. ASSUME NEW f \in G, NEW g \in G, NEW x \in Values, Agree(f, g, Lower(Values, Rank, x))
      PROVE  Rec[f][x] = Rec[g][x]
  <2>1. CASE ~IsDict(x)
    BY <2>1 DEF Stripped
  <2>2. CASE IsDict(x)
    <3>1. \A k \in KeysOf(x) : f[x.fields[k]] = g[x.fields[k]]
      BY <2>2, <1>5, FieldsShape DEF Agree, Lower
    <3>2. Stripped(f, x) = Stripped(g, x)
      BY <3>1, <2>2 DEF Stripped
    <3> HIDE DEF G
    <3> QED
      BY <3>2
  <2> QED
    BY <2>1, <2>2
<1>6. ASSUME NEW c \in [Values -> G] PROVE [x \in Values |-> c[x][x]] \in G
  <2>1. \A x \in Values : c[x] \in G
    OBVIOUS
  <2>2. \A x \in Values : c[x][x] \in Values /\ c[x][x] \in Json[Rank[x]]
    BY <2>1
  <2> QED
    BY <2>2
<1>7. Rank \in [Values -> Nat]
  BY RankShape
<1>8. WellPosed(Values, Values, Rank, G, Rec)
  <2> HIDE DEF G, Rec
  <2> QED
    BY <1>1, <1>2, <1>4, <1>5, <1>6, <1>7 DEF WellPosed
<1>9. \E f \in G : f = Rec[f]
  <2> HIDE DEF G, Rec
  <2> QED
    BY <1>8, Recursion
<1> QED
  BY <1>9

LEMMA StripDef ==
  /\ StripComments \in [Values -> Values]
  /\ \A v \in Values : StripComments[v] = Stripped(StripComments, v)
  /\ \A v \in Values : StripComments[v] \in Json[Rank[v]]
<1> DEFINE Is(g) == g = [v \in Values |-> IF ~IsDict(v) THEN v
                           ELSE Obj([k \in KeysOf(v) \ {Comment} |-> g[v.fields[k]]])]
<1>1. StripComments = CHOOSE g : Is(g)
  BY DEF StripComments
<1>2. \E f : Is(f)
  BY StripExists DEF Stripped
<1>3. Is(StripComments)
  <2> HIDE DEF Is
  <2> QED
    BY <1>1, <1>2
<1>4. /\ StripComments = [v \in Values |-> StripComments[v]]
      /\ \A v \in Values : StripComments[v] = Stripped(StripComments, v)
  BY <1>3 DEF Stripped
<1>5. \A v \in Values : StripComments[v] \in Json[Rank[v]]
  <2> DEFINE T == {v \in Values : StripComments[v] \in Json[Rank[v]]}
  <2>1. ASSUME NEW v \in Values, \A u \in Values : Rank[u] < Rank[v] => u \in T PROVE v \in T
    BY <2>1, <1>4, StrippedShape
  <2> HIDE DEF T
  <2>2. \A v \in Values : v \in T
    BY <2>1, EveryValue
  <2> QED
    BY <2>2 DEF T
<1>6. \A v \in Values : StripComments[v] \in Values
  BY <1>5, RankShape, SmallValues
<1> QED
  BY <1>4, <1>5, <1>6

LEMMA StripShape ==
  ASSUME NEW v \in Values
  PROVE  /\ StripComments[v] \in Values
         /\ IsDict(StripComments[v]) <=> IsDict(v)
         /\ ~IsDict(v) => StripComments[v] = v
         /\ StripComments[v] = Null <=> v = Null
         /\ IsDict(v) => /\ KeysOf(StripComments[v]) = KeysOf(v) \ {Comment}
                         /\ \A k \in KeysOf(v) \ {Comment} :
                              StripComments[v].fields[k] = StripComments[v.fields[k]]
<1>1. StripComments[v] \in Values /\ StripComments[v] = Stripped(StripComments, v)
  BY StripDef
<1>2. CASE ~IsDict(v)
  BY <1>1, <1>2 DEF Stripped
<1>3. CASE IsDict(v)
  <2> DEFINE f == [k \in KeysOf(v) \ {Comment} |-> StripComments[v.fields[k]]]
  <2>1. StripComments[v] = Obj(f)
    BY <1>1, <1>3 DEF Stripped
  <2>2. IsDict(Obj(f)) /\ Obj(f).fields = f /\ KeysOf(Obj(f)) = DOMAIN f
    BY ObjShape
  <2>3. ~IsDict(Null)
    BY FlatShape
  <2> HIDE DEF f
  <2>4. DOMAIN f = KeysOf(v) \ {Comment} /\ \A k \in KeysOf(v) \ {Comment} : f[k] = StripComments[v.fields[k]]
    BY DEF f
  <2> QED
    BY <1>1, <1>3, <2>1, <2>2, <2>3, <2>4
<1> QED
  BY <1>2, <1>3

(* Two objects say the same if they do so key by key.                       *)
LEMMA SaysTheSame ==
  ASSUME NEW u \in Values, NEW v \in Values, IsDict(u), IsDict(v),
         KeysOf(u) \ {Comment} = KeysOf(v) \ {Comment},
         \A k \in KeysOf(u) \ {Comment} :
            StripComments[u.fields[k]] = StripComments[v.fields[k]]
  PROVE  StripComments[u] = StripComments[v]
<1>1. StripComments[u] = Stripped(StripComments, u) /\ StripComments[v] = Stripped(StripComments, v)
  BY StripDef
<1>2. [k \in KeysOf(u) \ {Comment} |-> StripComments[u.fields[k]]]
        = [k \in KeysOf(v) \ {Comment} |-> StripComments[v.fields[k]]]
  OBVIOUS
<1> QED
  BY <1>1, <1>2 DEF Stripped

-----------------------------------------------------------------------------
(* merge_patch() as a function.                                             *)
LEMMA OldShape ==
  ASSUME NEW t \in Values
  PROVE  /\ DOMAIN FieldsOf(t) \in SUBSET Keys
         /\ FieldsOf(t) \in [DOMAIN FieldsOf(t) -> Values]
         /\ Comment \in DOMAIN FieldsOf(t) => FieldsOf(t)[Comment] \in Comments
         /\ \A k : At(FieldsOf(t), k) \in Values
         /\ \A n \in Nat : t \in Json[n] /\ n # 0 =>
              /\ \A k \in DOMAIN FieldsOf(t) : FieldsOf(t)[k] \in Json[n - 1]
              /\ \A k : At(FieldsOf(t), k) \in Json[n - 1]
<1>0. Null \in Values /\ \A n \in Nat : n # 0 => Null \in Json[n - 1]
  <2>1. \A n \in Nat : n # 0 => n - 1 \in Nat
    OBVIOUS
  <2> QED
    BY <2>1, NullValues, FlatIn
<1>1. CASE IsDict(t)
  <2>1. FieldsOf(t) = t.fields /\ DOMAIN FieldsOf(t) = KeysOf(t)
    BY <1>1 DEF FieldsOf, KeysOf
  <2> QED
    BY <1>0, <1>1, <2>1, FieldsShape DEF At
<1>2. CASE ~IsDict(t)
  <2>1. FieldsOf(t) = [k \in {} |-> Null]
    BY <1>2 DEF FieldsOf
  <2>2. DOMAIN FieldsOf(t) = {}
    BY <2>1
  <2>3. FieldsOf(t) \in [DOMAIN FieldsOf(t) -> Values]
    BY <2>1
  <2> QED
    BY <1>0, <2>2, <2>3 DEF At
<1> QED
  BY <1>1, <1>2

Removed(p)    == {k \in KeysOf(p) : p.fields[k] = Null}
WrittenBy(p)  == KeysOf(p) \ Removed(p)
MergedKeys(p, t) == (DOMAIN FieldsOf(t) \ Removed(p)) \cup WrittenBy(p)
MergedFields(g, p, t) ==
  [k \in MergedKeys(p, t) |->
     IF k \in WrittenBy(p) THEN g[p.fields[k]][At(FieldsOf(t), k)] ELSE FieldsOf(t)[k]]
Merged(g, p, t) == IF ~IsDict(p) THEN p ELSE Obj(MergedFields(g, p, t))

(* What merging a patch keeps: the depth, and what is not an object.        *)
Keeps(h, p) ==
  /\ \A n \in Nat : \A t \in Values : p \in Json[n] /\ t \in Json[n] => h[t] \in Json[n]
  /\ ~IsDict(p) => \A t \in Values : h[t] = p

LEMMA MergedShape ==
  ASSUME NEW p \in Values, NEW g, \A q \in Values : Rank[q] < Rank[p] => Keeps(g[q], q)
  PROVE  /\ Keeps([t \in Values |-> Merged(g, p, t)], p)
         /\ \A t \in Values : Merged(g, p, t) \in Values
<1>1. ASSUME NEW n \in Nat, NEW t \in Values, p \in Json[n], t \in Json[n]
      PROVE  Merged(g, p, t) \in Json[n]
  <2>1. CASE ~IsDict(p)
    BY <1>1, <2>1 DEF Merged
  <2>2. CASE IsDict(p)
    <3> DEFINE old == FieldsOf(t)
               K == MergedKeys(p, t)
               f == MergedFields(g, p, t)
    <3>1. /\ n # 0 /\ n - 1 \in Nat /\ KeysOf(p) \in SUBSET Keys
          /\ \A k \in KeysOf(p) : /\ p.fields[k] \in Values /\ p.fields[k] \in Json[n - 1]
                                  /\ Rank[p.fields[k]] < Rank[p]
          /\ Comment \in KeysOf(p) => p.fields[Comment] \in Comments
      BY <1>1, <2>2, FieldsShape
    <3>2. /\ DOMAIN old \in SUBSET Keys
          /\ \A k : At(old, k) \in Values /\ At(old, k) \in Json[n - 1]
          /\ \A k \in DOMAIN old : old[k] \in Json[n - 1]
          /\ Comment \in DOMAIN old => old[Comment] \in Comments
      BY <1>1, <3>1, OldShape
    <3>3. K \in SUBSET Keys
      BY <3>1, <3>2 DEF MergedKeys, WrittenBy
    <3>4. ASSUME NEW k \in WrittenBy(p) PROVE g[p.fields[k]][At(old, k)] \in Json[n - 1]
      <4>1. k \in KeysOf(p)
        BY DEF WrittenBy
      <4>2. Keeps(g[p.fields[k]], p.fields[k])
        BY <3>1, <4>1
      <4> QED
        BY <3>1, <3>2, <4>1, <4>2 DEF Keeps
    <3>5. f \in [K -> Json[n - 1]]
      <4>1. \A k \in K : k \notin WrittenBy(p) => k \in DOMAIN old
        BY DEF MergedKeys
      <4> HIDE DEF old
      <4>2. f = [k \in K |-> IF k \in WrittenBy(p) THEN g[p.fields[k]][At(old, k)] ELSE old[k]]
        BY DEF MergedFields, old
      <4> HIDE DEF K, f
      <4> QED
        BY <3>2, <3>4, <4>1, <4>2
    <3>6. ASSUME Comment \in K PROVE f[Comment] \in Comments
      <4>1. f[Comment] = IF Comment \in WrittenBy(p)
                         THEN g[p.fields[Comment]][At(old, Comment)] ELSE old[Comment]
        BY <3>6 DEF MergedFields
      <4>2. CASE Comment \in WrittenBy(p)
        <5>1. Comment \in KeysOf(p)
          BY <4>2 DEF WrittenBy
        <5>2. Keeps(g[p.fields[Comment]], p.fields[Comment])
          BY <3>1, <5>1
        <5>3. ~IsDict(p.fields[Comment]) /\ p.fields[Comment] \in Comments
          BY <3>1, <5>1, FlatShape
        <5>4. g[p.fields[Comment]][At(old, Comment)] = p.fields[Comment]
          BY <5>2, <5>3, <3>2 DEF Keeps
        <5> QED
          BY <4>1, <4>2, <5>3, <5>4
      <4>3. CASE Comment \notin WrittenBy(p)
        <5>1. Comment \in DOMAIN old
          BY <3>6, <4>3 DEF MergedKeys
        <5> QED
          BY <4>1, <4>3, <5>1, <3>2
      <4> QED
        BY <4>2, <4>3
    <3>7. Obj(f) \in Json[n]
      <4> HIDE DEF f, K
      <4> QED
        BY <3>1, <3>3, <3>5, <3>6, DictIn
    <3> QED
      BY <3>7, <2>2 DEF Merged
  <2> QED
    BY <2>1, <2>2
<1>2. ASSUME NEW t \in Values PROVE Merged(g, p, t) \in Values
  BY <1>1, LayersAssumption DEF Values
<1>3. ~IsDict(p) => \A t \in Values : Merged(g, p, t) = p
  BY DEF Merged
<1> DEFINE h == [t \in Values |-> Merged(g, p, t)]
<1>4. \A t \in Values : h[t] = Merged(g, p, t)
  OBVIOUS
<1> HIDE DEF h
<1>5. Keeps(h, p)
  BY <1>1, <1>3, <1>4 DEF Keeps
<1> QED
  BY <1>2, <1>5 DEF h

LEMMA MergedAgrees ==
  ASSUME NEW p \in Values, NEW f, NEW g, NEW t \in Values,
         \A q \in Values : Rank[q] < Rank[p] => f[q] = g[q]
  PROVE  Merged(f, p, t) = Merged(g, p, t)
<1>1. CASE ~IsDict(p)
  BY <1>1 DEF Merged
<1>2. CASE IsDict(p)
  <2>1. \A k \in WrittenBy(p) : f[p.fields[k]] = g[p.fields[k]]
    BY <1>2, FieldsShape DEF WrittenBy
  <2>2. MergedFields(f, p, t) = MergedFields(g, p, t)
    BY <2>1 DEF MergedFields
  <2> QED
    BY <2>2, <1>2 DEF Merged
<1> QED
  BY <1>1, <1>2

LEMMA MergeExists == \E f : f = [p \in Values |-> [t \in Values |-> Merged(f, p, t)]]
<1> DEFINE V == [Values -> Values]
           G == {g \in [Values -> V] : \A p \in Values : Keeps(g[p], p)}
           Rec == [g \in G |-> [p \in Values |-> [t \in Values |-> Merged(g, p, t)]]]
<1>1. G \subseteq [Values -> V]
  OBVIOUS
<1>2. G # {}
  <2> DEFINE same == [p \in Values |-> [t \in Values |-> p]]
  <2>1. same \in [Values -> V]
    OBVIOUS
  <2>2. ASSUME NEW p \in Values PROVE Keeps(same[p], p)
    <3>1. \A t \in Values : same[p][t] = p
      OBVIOUS
    <3> HIDE DEF same
    <3> QED
      BY <3>1 DEF Keeps
  <2>3. same \in G
    <3> HIDE DEF same, V
    <3> QED
      BY <2>1, <2>2
  <2> QED
    BY <2>3
<1>3. ASSUME NEW g \in G PROVE [p \in Values |-> [t \in Values |-> Merged(g, p, t)]] \in G
  <2> DEFINE m == [p \in Values |-> [t \in Values |-> Merged(g, p, t)]]
  <2>1. ASSUME NEW p \in Values
        PROVE  /\ Keeps([t \in Values |-> Merged(g, p, t)], p)
               /\ \A t \in Values : Merged(g, p, t) \in Values
    BY MergedShape
  <2>2. m \in [Values -> V]
    BY <2>1
  <2>3. \A p \in Values : Keeps(m[p], p)
    <3>1. \A p \in Values : m[p] = [t \in Values |-> Merged(g, p, t)]
      OBVIOUS
    <3> HIDE DEF m
    <3> QED
      BY <2>1, <3>1
  <2> HIDE DEF m, V
  <2>4. m \in G
    BY <2>2, <2>3
  <2> QED
    BY <2>4 DEF m
<1>4. Rec \in [G -> G]
  <2> HIDE DEF G
  <2> QED
    BY <1>3
<1>5. ASSUME NEW f \in G, NEW g \in G, NEW x \in Values, Agree(f, g, Lower(Values, Rank, x))
      PROVE  Rec[f][x] = Rec[g][x]
  <2>1. \A q \in Values : Rank[q] < Rank[x] => f[q] = g[q]
    BY <1>5 DEF Agree, Lower
  <2>2. \A t \in Values : Merged(f, x, t) = Merged(g, x, t)
    BY <2>1, MergedAgrees
  <2>3. [t \in Values |-> Merged(f, x, t)] = [t \in Values |-> Merged(g, x, t)]
    BY <2>2
  <2>4. Rec[f][x] = [t \in Values |-> Merged(f, x, t)] /\ Rec[g][x] = [t \in Values |-> Merged(g, x, t)]
    <3> HIDE DEF G
    <3> QED
      OBVIOUS
  <2> QED
    BY <2>3, <2>4
<1>6. ASSUME NEW c \in [Values -> G] PROVE [x \in Values |-> c[x][x]] \in G
  <2>1. \A x \in Values : c[x] \in G
    OBVIOUS
  <2>2. \A x \in Values : c[x][x] \in V /\ Keeps(c[x][x], x)
    BY <2>1
  <2> HIDE DEF V
  <2> QED
    BY <2>2
<1>7. WellPosed(Values, V, Rank, G, Rec)
  <2>1. Rank \in [Values -> Nat]
    BY RankShape
  <2> HIDE DEF G, Rec, V
  <2> QED
    BY <1>1, <1>2, <1>4, <1>5, <1>6, <2>1 DEF WellPosed
<1>8. \E f \in G : f = Rec[f]
  <2> HIDE DEF G, Rec, V
  <2> QED
    BY <1>7, Recursion
<1> QED
  <2> HIDE DEF V
  <2> QED
    BY <1>8

LEMMA MergeDef ==
  \A p \in Values :
    /\ \A t \in Values : /\ MergePatch[p][t] = Merged(MergePatch, p, t)
                         /\ MergePatch[p][t] \in Values
    /\ Keeps(MergePatch[p], p)
<1> DEFINE Is(g) == g = [p \in Values |-> [t \in Values |-> Merged(g, p, t)]]
<1>1. MergePatch = CHOOSE g : Is(g)
  BY DEF MergePatch, Merged, MergedFields, MergedKeys, Removed, WrittenBy
<1>2. \E f : Is(f)
  BY MergeExists
<1>3. Is(MergePatch)
  <2> HIDE DEF Is
  <2> QED
    BY <1>1, <1>2
<1>4. \A p \in Values : MergePatch[p] = [t \in Values |-> Merged(MergePatch, p, t)]
  BY <1>3
<1>5. \A p \in Values : Keeps(MergePatch[p], p)
  <2> DEFINE T == {p \in Values : Keeps(MergePatch[p], p)}
  <2>1. ASSUME NEW p \in Values, \A u \in Values : Rank[u] < Rank[p] => u \in T PROVE p \in T
    BY <2>1, <1>4, MergedShape
  <2> HIDE DEF T
  <2>2. \A p \in Values : p \in T
    BY <2>1, EveryValue
  <2> QED
    BY <2>2 DEF T
<1>6. ASSUME NEW p \in Values PROVE \A t \in Values : Merged(MergePatch, p, t) \in Values
  BY <1>5, MergedShape
<1>7. \A p, t \in Values : MergePatch[p][t] = Merged(MergePatch, p, t)
  BY <1>4
<1> QED
  BY <1>5, <1>6, <1>7

-----------------------------------------------------------------------------
(* _slim() as a function.                                                   *)
BothDicts(l, b, k) == k \in KeysOf(b) /\ IsDict(b.fields[k]) /\ IsDict(l.fields[k])
SaidBelow(g, l, b, k) ==
  IF BothDicts(l, b, k) THEN KeysOf(g[l.fields[k]][b.fields[k]]) = {}
  ELSE k \in KeysOf(b) /\ Redundant(b.fields[k], l.fields[k])
SlimKeys(g, l, b) == {h \in KeysOf(l) \ {Comment} : ~SaidBelow(g, l, b, h)}
SlimFields(g, l, b) ==
  [k \in SlimKeys(g, l, b) |->
     IF BothDicts(l, b, k) THEN g[l.fields[k]][b.fields[k]] ELSE StripComments[l.fields[k]]]
Slimmed(g, l, b) == Obj(SlimFields(g, l, b))

NoDeeper(h, l) == \A b \in Layers : IsDict(h[b]) /\ h[b] \in Json[Rank[l]]

LEMMA SlimmedShape ==
  ASSUME NEW l \in Layers, NEW b \in Layers, NEW g,
         \A q \in Layers : Rank[q] < Rank[l] => NoDeeper(g[q], q)
  PROVE  /\ IsDict(Slimmed(g, l, b)) /\ Slimmed(g, l, b) \in Json[Rank[l]]
         /\ Slimmed(g, l, b) \in Layers
<1> DEFINE n == Rank[l]
           K == SlimKeys(g, l, b)
           f == SlimFields(g, l, b)
<1>0. l \in Values /\ IsDict(l) /\ b \in Values /\ IsDict(b)
  BY DEF Layers
<1>1. /\ n \in Nat /\ n <= Depth /\ n # 0 /\ n - 1 \in Nat /\ KeysOf(l) \in SUBSET Keys
      /\ \A k \in KeysOf(l) : l.fields[k] \in Values /\ Rank[l.fields[k]] < n
      /\ \A k \in KeysOf(b) : b.fields[k] \in Values
  BY <1>0, FieldsShape, RankShape
<1>2. ASSUME NEW k \in KeysOf(l) PROVE Json[Rank[l.fields[k]]] \subseteq Json[n - 1]
  <2>1. Rank[l.fields[k]] \in Nat /\ Rank[l.fields[k]] <= n - 1
    BY <1>1, RankShape
  <2> HIDE DEF n
  <2> QED
    BY <2>1, <1>1, JsonGrows
<1>3. K \in SUBSET Keys /\ K \subseteq KeysOf(l) /\ Comment \notin K
  BY <1>1 DEF SlimKeys
<1>4. ASSUME NEW k \in K, BothDicts(l, b, k)
      PROVE  g[l.fields[k]][b.fields[k]] \in Json[n - 1]
  <2>1. l.fields[k] \in Layers /\ b.fields[k] \in Layers /\ Rank[l.fields[k]] < n
    BY <1>1, <1>3, <1>4 DEF Layers, BothDicts
  <2>2. g[l.fields[k]][b.fields[k]] \in Json[Rank[l.fields[k]]]
    BY <2>1 DEF NoDeeper
  <2> QED
    BY <1>2, <1>3, <2>2
<1>5. ASSUME NEW k \in K PROVE StripComments[l.fields[k]] \in Json[n - 1]
  BY <1>1, <1>2, <1>3, StripDef
<1>6. f \in [K -> Json[n - 1]]
  <2>1. f = [k \in K |-> IF BothDicts(l, b, k) THEN g[l.fields[k]][b.fields[k]]
                         ELSE StripComments[l.fields[k]]]
    BY DEF SlimFields
  <2> HIDE DEF f, K, n
  <2> QED
    BY <2>1, <1>4, <1>5
<1>7. Obj(f) \in Json[n]
  <2> HIDE DEF f, K, n
  <2> QED
    BY <1>1, <1>3, <1>6, DictIn
<1>8. Obj(f) \in Values
  <2> HIDE DEF f, n
  <2> QED
    BY <1>1, <1>7, SmallValues
<1> QED
  BY <1>7, <1>8, ObjShape DEF Slimmed, Layers

LEMMA SlimmedAgrees ==
  ASSUME NEW l \in Layers, NEW b \in Layers, NEW f, NEW g,
         \A q \in Layers : Rank[q] < Rank[l] => f[q] = g[q]
  PROVE  Slimmed(f, l, b) = Slimmed(g, l, b)
<1>1. \A k \in KeysOf(l) : BothDicts(l, b, k) => f[l.fields[k]] = g[l.fields[k]]
  BY FieldsShape DEF Layers, BothDicts
<1>2. \A k \in KeysOf(l) : SaidBelow(f, l, b, k) = SaidBelow(g, l, b, k)
  BY <1>1 DEF SaidBelow
<1>3. SlimKeys(f, l, b) = SlimKeys(g, l, b)
  BY <1>2 DEF SlimKeys
<1>4. SlimKeys(f, l, b) \subseteq KeysOf(l)
  BY DEF SlimKeys
<1>5. SlimFields(f, l, b) = SlimFields(g, l, b)
  BY <1>1, <1>3, <1>4 DEF SlimFields
<1> QED
  BY <1>5 DEF Slimmed

LEMMA SlimExists == \E f : f = [l \in Layers |-> [b \in Layers |-> Slimmed(f, l, b)]]
<1> DEFINE V == [Layers -> Layers]
           G == {g \in [Layers -> V] : \A l \in Layers : NoDeeper(g[l], l)}
           Rec == [g \in G |-> [l \in Layers |-> [b \in Layers |-> Slimmed(g, l, b)]]]
           rank == [l \in Layers |-> Rank[l]]
<1>0. Layers \subseteq Values
  BY DEF Layers
<1>1. G \subseteq [Layers -> V]
  OBVIOUS
<1>2. G # {}
  <2> DEFINE same == [l \in Layers |-> [b \in Layers |-> l]]
  <2>1. same \in [Layers -> V]
    OBVIOUS
  <2>2. ASSUME NEW l \in Layers PROVE NoDeeper(same[l], l)
    <3>1. \A b \in Layers : same[l][b] = l
      OBVIOUS
    <3>2. IsDict(l) /\ l \in Json[Rank[l]]
      BY RankShape DEF Layers
    <3> HIDE DEF same
    <3> QED
      BY <3>1, <3>2 DEF NoDeeper
  <2>3. same \in G
    <3> HIDE DEF same, V
    <3> QED
      BY <2>1, <2>2
  <2> QED
    BY <2>3
<1>3. ASSUME NEW g \in G PROVE [l \in Layers |-> [b \in Layers |-> Slimmed(g, l, b)]] \in G
  <2> DEFINE m == [l \in Layers |-> [b \in Layers |-> Slimmed(g, l, b)]]
  <2>0. \A q \in Layers : NoDeeper(g[q], q)
    OBVIOUS
  <2>1. \A l, b \in Layers : /\ IsDict(Slimmed(g, l, b)) /\ Slimmed(g, l, b) \in Json[Rank[l]]
                             /\ Slimmed(g, l, b) \in Layers
    BY <2>0, SlimmedShape
  <2>2. m \in [Layers -> V]
    BY <2>1
  <2>3. \A l \in Layers : NoDeeper(m[l], l)
    <3>1. \A l, b \in Layers : m[l][b] = Slimmed(g, l, b)
      OBVIOUS
    <3> HIDE DEF m
    <3> QED
      BY <2>1, <3>1 DEF NoDeeper
  <2> HIDE DEF m, V
  <2>4. m \in G
    BY <2>2, <2>3
  <2> QED
    BY <2>4 DEF m
<1>4. Rec \in [G -> G]
  <2> HIDE DEF G
  <2> QED
    BY <1>3
<1>5. ASSUME NEW f \in G, NEW g \in G, NEW x \in Layers, Agree(f, g, Lower(Layers, rank, x))
      PROVE  Rec[f][x] = Rec[g][x]
  <2>1. \A q \in Layers : Rank[q] < Rank[x] => f[q] = g[q]
    BY <1>5 DEF Agree, Lower
  <2>2. \A b \in Layers : Slimmed(f, x, b) = Slimmed(g, x, b)
    BY <2>1, SlimmedAgrees
  <2>3. [b \in Layers |-> Slimmed(f, x, b)] = [b \in Layers |-> Slimmed(g, x, b)]
    BY <2>2
  <2>4. /\ Rec[f][x] = [b \in Layers |-> Slimmed(f, x, b)]
        /\ Rec[g][x] = [b \in Layers |-> Slimmed(g, x, b)]
    <3> HIDE DEF G
    <3> QED
      OBVIOUS
  <2> QED
    BY <2>3, <2>4
<1>6. ASSUME NEW c \in [Layers -> G] PROVE [x \in Layers |-> c[x][x]] \in G
  <2>1. \A x \in Layers : c[x] \in G
    OBVIOUS
  <2>2. \A x \in Layers : c[x][x] \in V /\ NoDeeper(c[x][x], x)
    BY <2>1
  <2> HIDE DEF V
  <2> QED
    BY <2>2
<1>7. WellPosed(Layers, V, rank, G, Rec)
  <2>1. rank \in [Layers -> Nat]
    BY <1>0, RankShape
  <2> HIDE DEF G, Rec, V, rank
  <2> QED
    BY <1>1, <1>2, <1>4, <1>5, <1>6, <2>1 DEF WellPosed
<1>8. \E f \in G : f = Rec[f]
  <2> HIDE DEF G, Rec, V, rank
  <2> QED
    BY <1>7, Recursion
<1> QED
  <2> HIDE DEF V
  <2> QED
    BY <1>8

LEMMA SlimDef ==
  \A l, b \in Layers : Slim[l][b] = Slimmed(Slim, l, b) /\ Slim[l][b] \in Layers
<1> DEFINE Is(g) == g = [l \in Layers |-> [b \in Layers |-> Slimmed(g, l, b)]]
<1>1. Slim = CHOOSE g : Is(g)
  BY DEF Slim, Slimmed, SlimFields, SlimKeys, SaidBelow, BothDicts
<1>2. \E f : Is(f)
  BY SlimExists
<1>3. Is(Slim)
  <2> HIDE DEF Is
  <2> QED
    BY <1>1, <1>2
<1>4. \A l, b \in Layers : Slim[l][b] = Slimmed(Slim, l, b)
  BY <1>3
<1>5. \A l \in Layers : NoDeeper(Slim[l], l)
  <2> DEFINE T == {l \in Values : IsDict(l) => NoDeeper(Slim[l], l)}
  <2>1. ASSUME NEW l \in Values, \A u \in Values : Rank[u] < Rank[l] => u \in T PROVE l \in T
    <3>1. SUFFICES ASSUME IsDict(l) PROVE NoDeeper(Slim[l], l)
      OBVIOUS
    <3>2. l \in Layers /\ \A q \in Layers : Rank[q] < Rank[l] => NoDeeper(Slim[q], q)
      BY <2>1, <3>1 DEF Layers
    <3>3. \A b \in Layers : IsDict(Slimmed(Slim, l, b)) /\ Slimmed(Slim, l, b) \in Json[Rank[l]]
      BY <3>2, SlimmedShape
    <3> QED
      BY <3>2, <3>3, <1>4 DEF NoDeeper
  <2> HIDE DEF T
  <2>2. \A l \in Values : l \in T
    BY <2>1, EveryValue
  <2> QED
    BY <2>2 DEF T, Layers
<1>6. \A l, b \in Layers : Slimmed(Slim, l, b) \in Layers
  BY <1>5, SlimmedShape
<1> QED
  BY <1>4, <1>6

-----------------------------------------------------------------------------
LEMMA MergeShape ==
  ASSUME NEW p \in Values, NEW t \in Values
  PROVE  /\ MergePatch[p][t] \in Values
         /\ ~IsDict(p) => MergePatch[p][t] = p
         /\ IsDict(p) =>
              /\ IsDict(MergePatch[p][t])
              /\ KeysOf(MergePatch[p][t]) = MergedKeys(p, t)
              /\ \A k \in WrittenBy(p) :
                   MergePatch[p][t].fields[k] = MergePatch[p.fields[k]][At(FieldsOf(t), k)]
              /\ \A k \in MergedKeys(p, t) : k \notin WrittenBy(p) =>
                   MergePatch[p][t].fields[k] = FieldsOf(t)[k]
<1> DEFINE m == MergePatch[p][t]
           f == MergedFields(MergePatch, p, t)
<1>1. m \in Values /\ m = Merged(MergePatch, p, t)
  BY MergeDef
<1>2. CASE ~IsDict(p)
  BY <1>1, <1>2 DEF Merged
<1>3. CASE IsDict(p)
  <2>1. m = Obj(f)
    BY <1>1, <1>3 DEF Merged
  <2>2. IsDict(m) /\ m.fields = f /\ KeysOf(m) = DOMAIN f
    <3> HIDE DEF m, f
    <3> QED
      BY <2>1, ObjShape
  <2>3. DOMAIN f = MergedKeys(p, t)
    BY DEF MergedFields
  <2>4. \A k \in MergedKeys(p, t) :
          f[k] = IF k \in WrittenBy(p) THEN MergePatch[p.fields[k]][At(FieldsOf(t), k)]
                 ELSE FieldsOf(t)[k]
    BY DEF MergedFields
  <2>5. WrittenBy(p) \subseteq MergedKeys(p, t)
    BY DEF MergedKeys
  <2> HIDE DEF f
  <2> QED
    BY <1>1, <1>3, <2>2, <2>3, <2>4, <2>5
<1> QED
  BY <1>2, <1>3

LEMMA DictExt ==
  ASSUME NEW u \in Values, NEW v \in Values, IsDict(u), IsDict(v),
         KeysOf(u) = KeysOf(v), \A k \in KeysOf(u) : u.fields[k] = v.fields[k]
  PROVE  u = v
<1>1. /\ u = Obj(u.fields) /\ u.fields \in [KeysOf(u) -> Values]
      /\ v = Obj(v.fields) /\ v.fields \in [KeysOf(v) -> Values]
  BY FieldsShape
<1>2. u.fields = v.fields
  BY <1>1
<1> QED
  BY <1>1, <1>2

(* An empty patch changes nothing.                                          *)
LEMMA MergeEmpty ==
  ASSUME NEW e \in Values, IsDict(e), KeysOf(e) = {}, NEW b \in Values, IsDict(b)
  PROVE  MergePatch[e][b] = b
<1>1. WrittenBy(e) = {} /\ Removed(e) = {}
  BY DEF WrittenBy, Removed
<1>2. FieldsOf(b) = b.fields /\ MergedKeys(e, b) = KeysOf(b)
  BY <1>1 DEF FieldsOf, MergedKeys, KeysOf
<1>3. /\ MergePatch[e][b] \in Values /\ IsDict(MergePatch[e][b])
      /\ KeysOf(MergePatch[e][b]) = KeysOf(b)
      /\ \A k \in KeysOf(b) : MergePatch[e][b].fields[k] = b.fields[k]
  BY <1>1, <1>2, MergeShape
<1> QED
  BY <1>3, DictExt

(* On what is not an object, a patch without its comments says what it says *)
(* with them.                                                               *)
LEMMA CommentsDoNotMatter ==
  \A p, t \in Values : ~IsDict(t) =>
     StripComments[MergePatch[StripComments[p]][t]] = StripComments[MergePatch[p][t]]
<1> DEFINE Same(p, t) ==
             StripComments[MergePatch[StripComments[p]][t]] = StripComments[MergePatch[p][t]]
           T == {p \in Values : \A t \in Values : ~IsDict(t) => Same(p, t)}
<1>1. ASSUME NEW p \in Values, \A q \in Values : Rank[q] < Rank[p] => q \in T PROVE p \in T
  <2>1. SUFFICES ASSUME NEW t \in Values, ~IsDict(t) PROVE Same(p, t)
    OBVIOUS
  <2>2. CASE ~IsDict(p)
    BY <2>2, StripShape
  <2>3. CASE IsDict(p)
    <3> DEFINE s == StripComments[p]
               u == MergePatch[s][t]
               v == MergePatch[p][t]
    <3>1. /\ s \in Values /\ IsDict(s) /\ KeysOf(s) = KeysOf(p) \ {Comment}
          /\ \A k \in KeysOf(s) : s.fields[k] = StripComments[p.fields[k]]
      BY <2>3, StripShape
    <3>2. /\ \A k \in KeysOf(p) : p.fields[k] \in Values /\ Rank[p.fields[k]] < Rank[p]
      BY <2>3, FieldsShape
    <3>3. \A k \in KeysOf(s) : s.fields[k] = Null <=> p.fields[k] = Null
      BY <3>1, <3>2, StripShape
    <3>4. WrittenBy(s) = WrittenBy(p) \ {Comment}
      <4> HIDE DEF s
      <4> QED
        BY <3>1, <3>3 DEF WrittenBy, Removed
    <3>5. DOMAIN FieldsOf(t) = {} /\ \A k : At(FieldsOf(t), k) = Null
      <4>1. FieldsOf(t) = [k \in {} |-> Null]
        BY <2>1 DEF FieldsOf
      <4>2. DOMAIN FieldsOf(t) = {}
        BY <4>1
      <4> QED
        BY <4>2 DEF At
    <3>6. MergedKeys(s, t) = WrittenBy(s) /\ MergedKeys(p, t) = WrittenBy(p)
      BY <3>5 DEF MergedKeys
    <3>7. /\ u \in Values /\ IsDict(u) /\ KeysOf(u) = WrittenBy(s)
          /\ \A k \in WrittenBy(s) : u.fields[k] = MergePatch[s.fields[k]][Null]
      <4> HIDE DEF s
      <4> QED
        BY <3>1, <3>5, <3>6, MergeShape
    <3>8. /\ v \in Values /\ IsDict(v) /\ KeysOf(v) = WrittenBy(p)
          /\ \A k \in WrittenBy(p) : v.fields[k] = MergePatch[p.fields[k]][Null]
      BY <2>3, <3>5, <3>6, MergeShape
    <3>9. ASSUME NEW k \in KeysOf(u) \ {Comment}
          PROVE  StripComments[u.fields[k]] = StripComments[v.fields[k]]
      <4>1. k \in WrittenBy(s) /\ k \in WrittenBy(p) /\ k \in KeysOf(s) /\ k \in KeysOf(p)
        BY <3>4, <3>7 DEF WrittenBy
      <4>2. p.fields[k] \in T
        BY <1>1, <3>2, <4>1
      <4>3. Same(p.fields[k], Null)
        BY <4>2, NullValues, FlatShape
      <4> HIDE DEF s, u, v
      <4>4. u.fields[k] = MergePatch[StripComments[p.fields[k]]][Null]
        BY <3>1, <3>7, <4>1
      <4>5. v.fields[k] = MergePatch[p.fields[k]][Null]
        BY <3>8, <4>1
      <4> QED
        BY <4>3, <4>4, <4>5
    <3>10. StripComments[u] = StripComments[v]
      <4> HIDE DEF s, u, v
      <4> QED
        BY <3>4, <3>7, <3>8, <3>9, SaysTheSame
    <3> QED
      BY <3>10
  <2> HIDE DEF Same
  <2> QED
    BY <2>2, <2>3
<1> HIDE DEF T
<1>2. \A p \in Values : p \in T
  BY <1>1, EveryValue
<1> QED
  BY <1>2 DEF T

-----------------------------------------------------------------------------
(* A base holds no null, however deep: it is what a merge gives.            *)
NullFree(v) ==
  \E W \in SUBSET Values :
     /\ v \in W /\ Null \notin W
     /\ \A w \in W : IsDict(w) => \A k \in KeysOf(w) : w.fields[k] \in W

LEMMA NullFreeParts ==
  ASSUME NEW v, NullFree(v)
  PROVE  /\ v # Null
         /\ IsDict(v) => \A k \in KeysOf(v) : NullFree(v.fields[k])
<1>1. PICK W \in SUBSET Values :
        /\ v \in W /\ Null \notin W
        /\ \A w \in W : IsDict(w) => \A k \in KeysOf(w) : w.fields[k] \in W
  BY DEF NullFree
<1> QED
  BY <1>1 DEF NullFree

LEMMA NullFreeMade ==
  ASSUME NEW v \in Values, v # Null,
         IsDict(v) => \A k \in KeysOf(v) : v.fields[k] \in Values /\ NullFree(v.fields[k])
  PROVE  NullFree(v)
<1> DEFINE N == {w \in Values : NullFree(w)}
           W == N \cup {v}
<1>1. W \in SUBSET Values /\ v \in W
  OBVIOUS
<1>2. Null \notin W
  BY NullFreeParts
<1>3. ASSUME NEW w \in W, IsDict(w), NEW k \in KeysOf(w) PROVE w.fields[k] \in W
  <2>1. w.fields[k] \in Values
    BY <1>1, <1>3, FieldsShape
  <2>2. NullFree(w.fields[k])
    BY <1>3, NullFreeParts
  <2> QED
    BY <2>1, <2>2
<1> HIDE DEF W
<1> QED
  BY <1>1, <1>2, <1>3 DEF NullFree

LEMMA MergeIsNullFree ==
  \A p, t \in Values :
     p # Null /\ (t = Null \/ NullFree(t)) => NullFree(MergePatch[p][t])
<1> DEFINE T == {p \in Values : p # Null => \A t \in Values :
                    t = Null \/ NullFree(t) => NullFree(MergePatch[p][t])}
<1>1. ASSUME NEW p \in Values, \A q \in Values : Rank[q] < Rank[p] => q \in T PROVE p \in T
  <2>1. SUFFICES ASSUME p # Null, NEW t \in Values, t = Null \/ NullFree(t)
                 PROVE  NullFree(MergePatch[p][t])
    OBVIOUS
  <2>2. CASE ~IsDict(p)
    BY <2>1, <2>2, MergeShape, NullFreeMade
  <2>3. CASE IsDict(p)
    <3> DEFINE m == MergePatch[p][t]
               old == FieldsOf(t)
    <3>1. /\ m \in Values /\ IsDict(m) /\ KeysOf(m) = MergedKeys(p, t)
          /\ \A k \in WrittenBy(p) : m.fields[k] = MergePatch[p.fields[k]][At(old, k)]
          /\ \A k \in MergedKeys(p, t) : k \notin WrittenBy(p) => m.fields[k] = old[k]
      BY <2>3, MergeShape
    <3>2. \A k \in DOMAIN old : NullFree(old[k])
      <4>1. CASE IsDict(t)
        <5>1. NullFree(t)
          BY <2>1, <4>1, FlatShape
        <5> QED
          BY <4>1, <5>1, NullFreeParts DEF FieldsOf, KeysOf
      <4>2. CASE ~IsDict(t)
        <5>1. old = [k \in {} |-> Null]
          BY <4>2 DEF FieldsOf
        <5>2. DOMAIN old = {}
          BY <5>1
        <5> QED
          BY <5>2
      <4> QED
        BY <4>1, <4>2
    <3>3. \A k : At(old, k) \in Values /\ (At(old, k) = Null \/ NullFree(At(old, k)))
      BY <3>2, OldShape DEF At
    <3>4. ASSUME NEW k \in KeysOf(m) PROVE m.fields[k] \in Values /\ NullFree(m.fields[k])
      <4>1. m.fields[k] \in Values
        BY <3>1, FieldsShape
      <4>2. CASE k \in WrittenBy(p)
        <5>1. p.fields[k] \in Values /\ p.fields[k] # Null /\ Rank[p.fields[k]] < Rank[p]
          BY <2>3, <4>2, FieldsShape DEF WrittenBy, Removed
        <5>2. p.fields[k] \in T
          BY <1>1, <5>1
        <5> HIDE DEF m, old
        <5> QED
          BY <3>1, <3>3, <4>1, <4>2, <5>1, <5>2
      <4>3. CASE k \notin WrittenBy(p)
        <5>1. k \in DOMAIN old /\ m.fields[k] = old[k]
          BY <3>1, <4>3 DEF MergedKeys
        <5> QED
          BY <3>2, <4>1, <5>1
      <4> QED
        BY <4>2, <4>3
    <3>5. m # Null
      BY <3>1, FlatShape
    <3> HIDE DEF m
    <3>6. NullFree(m)
      BY <3>1, <3>4, <3>5, NullFreeMade
    <3> QED
      BY <3>6 DEF m
  <2> QED
    BY <2>2, <2>3
<1> HIDE DEF T
<1>2. \A p \in Values : p \in T
  BY <1>1, EveryValue
<1> QED
  BY <1>2 DEF T

-----------------------------------------------------------------------------
LEMMA SlimShape ==
  ASSUME NEW l \in Layers, NEW b \in Layers
  PROVE  /\ Slim[l][b] \in Layers
         /\ KeysOf(Slim[l][b]) = SlimKeys(Slim, l, b)
         /\ \A k \in SlimKeys(Slim, l, b) :
              Slim[l][b].fields[k] =
                IF BothDicts(l, b, k) THEN Slim[l.fields[k]][b.fields[k]]
                ELSE StripComments[l.fields[k]]
<1>1. Slim[l][b] = Obj(SlimFields(Slim, l, b)) /\ Slim[l][b] \in Layers
  BY SlimDef DEF Slimmed
<1>2. /\ KeysOf(Obj(SlimFields(Slim, l, b))) = SlimKeys(Slim, l, b)
      /\ Obj(SlimFields(Slim, l, b)).fields = SlimFields(Slim, l, b)
  BY ObjShape DEF SlimFields
<1> QED
  BY <1>1, <1>2 DEF SlimFields

(* What is merged over a key: nothing, or a value that says as much.        *)
Over(p, b, k) == IF k \in WrittenBy(p) THEN MergePatch[p.fields[k]][At(FieldsOf(b), k)]
                 ELSE FieldsOf(b)[k]

LEMMA SlimKey ==
  ASSUME NEW l \in Layers, NEW b \in Layers, NullFree(b),
         NEW k, k # Comment,
         \A q \in Layers : Rank[q] < Rank[l] =>
           \A c \in Layers : NullFree(c) => Effective(c, Slim[q][c]) = Effective(c, q)
  PROVE  /\ k \in MergedKeys(Slim[l][b], b) <=> k \in MergedKeys(l, b)
         /\ k \in MergedKeys(l, b) =>
              StripComments[Over(Slim[l][b], b, k)] = StripComments[Over(l, b, k)]
<1> DEFINE s == Slim[l][b]
<1>1. /\ l \in Values /\ IsDict(l) /\ b \in Values /\ IsDict(b)
      /\ \A h \in KeysOf(l) : l.fields[h] \in Values /\ Rank[l.fields[h]] < Rank[l]
      /\ \A h \in KeysOf(b) : b.fields[h] \in Values /\ b.fields[h] # Null /\ NullFree(b.fields[h])
  BY FieldsShape, NullFreeParts DEF Layers
<1>2. /\ s \in Layers /\ KeysOf(s) = SlimKeys(Slim, l, b)
      /\ \A h \in SlimKeys(Slim, l, b) :
           s.fields[h] = IF BothDicts(l, b, h) THEN Slim[l.fields[h]][b.fields[h]]
                         ELSE StripComments[l.fields[h]]
  BY SlimShape
<1>3. FieldsOf(b) = b.fields /\ DOMAIN FieldsOf(b) = KeysOf(b)
  BY <1>1 DEF FieldsOf, KeysOf
<1>4. k \in KeysOf(s) <=> k \in KeysOf(l) /\ ~SaidBelow(Slim, l, b, k)
  BY <1>2 DEF SlimKeys
<1> HIDE DEF s
<1>5. CASE k \notin KeysOf(l)
  <2>1. k \notin KeysOf(s)
    BY <1>4, <1>5
  <2>2. /\ k \notin WrittenBy(s) /\ k \notin Removed(s)
        /\ k \notin WrittenBy(l) /\ k \notin Removed(l)
    BY <1>5, <2>1 DEF WrittenBy, Removed
  <2> QED
    BY <2>2 DEF MergedKeys, Over, s
<1>6. CASE k \in KeysOf(l) /\ BothDicts(l, b, k)
  <2> DEFINE lk == l.fields[k]
             bk == b.fields[k]
             nk == Slim[lk][bk]
  <2>1. k \in KeysOf(b) /\ lk \in Layers /\ bk \in Layers /\ NullFree(bk) /\ Rank[lk] < Rank[l]
    BY <1>1, <1>6 DEF BothDicts, Layers
  <2>2. StripComments[MergePatch[nk][bk]] = StripComments[MergePatch[lk][bk]]
    BY <1>1, <2>1 DEF Effective
  <2>3. nk \in Values /\ IsDict(nk) /\ nk # Null /\ lk # Null
    <3>1. nk \in Layers
      BY <2>1, SlimDef
    <3> QED
      BY <2>1, <3>1, FlatShape DEF Layers
  <2>4. k \in WrittenBy(l) /\ k \in MergedKeys(l, b) /\ Over(l, b, k) = MergePatch[lk][bk]
    BY <1>3, <1>6, <2>1, <2>3 DEF WrittenBy, Removed, MergedKeys, Over, At
  <2>5. CASE KeysOf(nk) = {}
    <3>1. k \notin KeysOf(s)
      BY <1>4, <1>6, <2>5 DEF SaidBelow
    <3>2. k \notin WrittenBy(s) /\ k \in MergedKeys(s, b) /\ Over(s, b, k) = bk
      BY <1>3, <2>1, <3>1 DEF WrittenBy, Removed, MergedKeys, Over
    <3>3. MergePatch[nk][bk] = bk
      BY <2>1, <2>3, <2>5, MergeEmpty DEF Layers
    <3> QED
      BY <2>2, <2>4, <3>2, <3>3 DEF s
  <2>6. CASE KeysOf(nk) # {}
    <3>1. k \in KeysOf(s)
      BY <1>4, <1>6, <2>6 DEF SaidBelow
    <3>2. s.fields[k] = nk
      BY <1>2, <1>6, <3>1
    <3>3. k \in WrittenBy(s) /\ k \in MergedKeys(s, b) /\ Over(s, b, k) = MergePatch[nk][bk]
      BY <1>3, <2>1, <2>3, <3>1, <3>2 DEF WrittenBy, Removed, MergedKeys, Over, At
    <3> QED
      BY <2>2, <2>4, <3>3 DEF s
  <2> QED
    BY <2>5, <2>6
<1>7. CASE k \in KeysOf(l) /\ ~BothDicts(l, b, k)
  <2> DEFINE lk == l.fields[k]
  <2>1. lk \in Values
    BY <1>1, <1>7
  <2>2. CASE SaidBelow(Slim, l, b, k)
    <3> DEFINE bk == b.fields[k]
    <3>1. k \in KeysOf(b) /\ StripComments[lk] = StripComments[bk]
      BY <1>7, <2>2 DEF SaidBelow, Redundant
    <3>2. bk \in Values /\ bk # Null
      BY <1>1, <3>1
    <3>3. lk # Null /\ ~IsDict(lk)
      <4>1. lk # Null
        BY <2>1, <3>1, <3>2, StripShape
      <4>2. IsDict(lk) <=> IsDict(bk)
        BY <2>1, <3>1, <3>2, StripShape
      <4> QED
        BY <1>7, <3>1, <4>1, <4>2 DEF BothDicts
    <3>4. k \in WrittenBy(l) /\ k \in MergedKeys(l, b) /\ Over(l, b, k) = MergePatch[lk][bk]
      BY <1>3, <1>7, <3>1, <3>3 DEF WrittenBy, Removed, MergedKeys, Over, At
    <3>5. MergePatch[lk][bk] = lk
      BY <2>1, <3>2, <3>3, MergeShape
    <3>6. k \notin KeysOf(s)
      BY <1>4, <2>2
    <3>7. k \in MergedKeys(s, b) /\ Over(s, b, k) = bk
      BY <1>3, <3>1, <3>6 DEF WrittenBy, Removed, MergedKeys, Over
    <3> QED
      BY <3>1, <3>4, <3>5, <3>7 DEF s
  <2>3. CASE ~SaidBelow(Slim, l, b, k)
    <3>1. k \in KeysOf(s) /\ s.fields[k] = StripComments[lk]
      BY <1>2, <1>4, <1>7, <2>3
    <3>2. StripComments[lk] = Null <=> lk = Null
      BY <2>1, StripShape
    <3>3. /\ k \in WrittenBy(s) <=> k \in WrittenBy(l)
          /\ k \in Removed(s) <=> k \in Removed(l)
      BY <1>7, <3>1, <3>2 DEF WrittenBy, Removed
    <3>4. k \in MergedKeys(s, b) <=> k \in MergedKeys(l, b)
      BY <3>3 DEF MergedKeys
    <3>5. CASE k \notin WrittenBy(l)
      BY <3>3, <3>4, <3>5 DEF Over, s
    <3>6. CASE k \in WrittenBy(l)
      <4> DEFINE t == At(FieldsOf(b), k)
      <4>1. Over(s, b, k) = MergePatch[StripComments[lk]][t] /\ Over(l, b, k) = MergePatch[lk][t]
        BY <3>1, <3>3, <3>6 DEF Over
      <4>2. t \in Values
        BY <1>1, OldShape
      <4>3. CASE ~IsDict(lk)
        BY <2>1, <3>4, <4>1, <4>3, StripShape DEF s
      <4>4. CASE IsDict(lk)
        <5>1. ~IsDict(t)
          BY <1>3, <1>7, <4>4, FlatShape DEF At, BothDicts
        <5>2. StripComments[MergePatch[StripComments[lk]][t]] = StripComments[MergePatch[lk][t]]
          BY <2>1, <4>2, <5>1, CommentsDoNotMatter
        <5> QED
          BY <3>4, <4>1, <5>2 DEF s
      <4> QED
        BY <4>3, <4>4
    <3> QED
      BY <3>5, <3>6
  <2> QED
    BY <2>2, <2>3
<1> QED
  BY <1>5, <1>6, <1>7 DEF s

(* slim() is right (layers.py:357): over a base, the lighter layer gives    *)
(* the configuration the heavy one gave, comments apart.                    *)
THEOREM LighterSaysTheSame ==
  \A l, b \in Layers : NullFree(b) => Effective(b, Slim[l][b]) = Effective(b, l)
<1> DEFINE Same(l) == \A b \in Layers : NullFree(b) => Effective(b, Slim[l][b]) = Effective(b, l)
           T == {l \in Values : IsDict(l) => Same(l)}
<1>1. ASSUME NEW l \in Values, \A u \in Values : Rank[u] < Rank[l] => u \in T PROVE l \in T
  <2>1. SUFFICES ASSUME IsDict(l), NEW b \in Layers, NullFree(b)
                 PROVE  Effective(b, Slim[l][b]) = Effective(b, l)
    OBVIOUS
  <2>2. l \in Layers /\ \A q \in Layers : Rank[q] < Rank[l] => Same(q)
    BY <1>1, <2>1 DEF Layers
  <2> DEFINE s == Slim[l][b]
             u == MergePatch[s][b]
             v == MergePatch[l][b]
  <2>3. s \in Values /\ IsDict(s) /\ b \in Values
    BY <2>2, SlimDef DEF Layers
  <2>4. /\ u \in Values /\ IsDict(u) /\ KeysOf(u) = MergedKeys(s, b)
        /\ \A k \in KeysOf(u) : u.fields[k] = Over(s, b, k)
    <3> HIDE DEF s
    <3> QED
      BY <2>3, MergeShape DEF Over
  <2>5. /\ v \in Values /\ IsDict(v) /\ KeysOf(v) = MergedKeys(l, b)
        /\ \A k \in KeysOf(v) : v.fields[k] = Over(l, b, k)
    BY <2>1, <2>3, MergeShape DEF Over
  <2>6. ASSUME NEW k, k # Comment
        PROVE  /\ k \in MergedKeys(s, b) <=> k \in MergedKeys(l, b)
               /\ k \in MergedKeys(l, b) =>
                    StripComments[Over(s, b, k)] = StripComments[Over(l, b, k)]
    BY <2>1, <2>2, <2>6, SlimKey
  <2>7. StripComments[u] = StripComments[v]
    <3> HIDE DEF s, u, v
    <3>1. KeysOf(u) \ {Comment} = KeysOf(v) \ {Comment}
      BY <2>4, <2>5, <2>6
    <3>2. \A k \in KeysOf(u) \ {Comment} : StripComments[u.fields[k]] = StripComments[v.fields[k]]
      BY <2>4, <2>5, <2>6
    <3> QED
      BY <2>4, <2>5, <3>1, <3>2, SaysTheSame
  <2> QED
    BY <2>7 DEF Effective
<1> HIDE DEF T
<1>2. \A l \in Values : l \in T
  BY <1>1, EveryValue
<1> QED
  BY <1>2 DEF T, Layers

-----------------------------------------------------------------------------
(***************************************************************************)
(* The migration.  A crash may leave any of the files behind; what holds   *)
(* it together is that the content is replaced only by the whole lighter   *)
(* layer, and only once the backup is whole.                               *)
(***************************************************************************)
Steps == {"unwritten", "idle", "refused", "backup", "writing", "written", "done"}

Written ==
  IF migration = "unwritten"
  THEN below = Empty /\ original = Empty /\ config = File(Empty)
  ELSE original \in Layers /\ below \in Layers /\ NullFree(below)

Lightened == config = File(Slim[original][below]) /\ backup = File(original)

(* config.json is one of two whole contents.                                *)
OneOrTheOther == config = File(original) \/ (migration # "unwritten" /\ Lightened)

Staged ==
  /\ migration \in {"backup", "writing", "written"} => config = File(original)
  /\ migration \in {"writing", "written"} => backup = config
  /\ migration = "written" => tmp = File(Slim[original][below])
  /\ migration = "done" => Lightened

LayersInv == migration \in Steps /\ Written /\ OneOrTheOther /\ Staged

LEMMA FileShape ==
  /\ \A v : ~File(v).cut /\ File(v).holds = v
  /\ \A v : File(v) # None
<1>1. \A v : File(v).cut = FALSE /\ File(v).holds = v
  BY DEF File
<1>2. None.cut = TRUE
  BY DEF None
<1> QED
  BY <1>1, <1>2

(* The base a run starts from.                                              *)
LEMMA BaseShape ==
  ASSUME NEW b \in Layers
  PROVE  MergePatch[b][Empty] \in Layers /\ NullFree(MergePatch[b][Empty])
<1>1. b \in Values /\ IsDict(b) /\ b # Null
  BY FlatShape DEF Layers
<1>2. Depth \in Nat /\ Depth # 0
  BY <1>1, DictShape, LayersAssumption DEF Values
<1>3. IsDict(Empty) /\ KeysOf(Empty) = {}
  BY ObjShape DEF Empty
<1>4. Empty \in Values
  <2> DEFINE f == [k \in {} |-> Null]
  <2>1. {} \in SUBSET Keys /\ f \in [{} -> Json[Depth - 1]]
    OBVIOUS
  <2>2. Comment \notin {}
    OBVIOUS
  <2> HIDE DEF f
  <2>3. Obj(f) \in Json[Depth]
    BY <1>2, <2>1, <2>2, DictIn
  <2> QED
    BY <2>3 DEF f, Empty, Values
<1>5. NullFree(Empty)
  BY <1>3, <1>4, FlatShape, NullFreeMade
<1> QED
  BY <1>1, <1>4, <1>5, MergeShape, MergeIsNullFree DEF Layers

THEOREM MigrationInductive == LayersSpec => []LayersInv
<1>1. LayersInit => LayersInv
  BY DEF LayersInit, LayersInv, Steps, Written, OneOrTheOther, Staged
<1>2. LayersInv /\ [LayersNext]_layerVars => LayersInv'
  <2> SUFFICES ASSUME LayersInv, [LayersNext]_layerVars PROVE LayersInv'
    OBVIOUS
  <2> USE DEF LayersInv, Written, OneOrTheOther, Staged, Lightened
  <2> HIDE DEF Empty, File, None, Cut
  <2>1. CASE Write
    <3>1. PICK b \in Layers : below' = MergePatch[b][Empty]
      BY <2>1 DEF Write
    <3>2. below' \in Layers /\ NullFree(below')
      BY <3>1, BaseShape
    <3> QED
      BY <2>1, <3>2 DEF Write, Steps
  <2>2. CASE Migrate
    <3>1. backup = None => config = File(original)
      BY FileShape
    <3> QED
      BY <2>2, <3>1 DEF Migrate, Steps
  <2>3. CASE BackupMade
    BY <2>3 DEF BackupMade, Steps
  <2>4. CASE WriteAside
    <3>1. config.holds = original
      BY <2>4, FileShape DEF WriteAside
    <3> QED
      BY <2>4, <3>1 DEF WriteAside, Steps
  <2>5. CASE Replace
    BY <2>5 DEF Replace, Steps
  <2>6. CASE MigrationFails
    BY <2>6 DEF MigrationFails, Steps
  <2>7. CASE MachineStops
    BY <2>7 DEF MachineStops, Steps
  <2>8. CASE UNCHANGED layerVars
    BY <2>8 DEF layerVars, Steps
  <2> QED
    BY <2>1, <2>2, <2>3, <2>4, <2>5, <2>6, <2>7, <2>8 DEF LayersNext
<1> QED
  BY <1>1, <1>2, PTL DEF LayersSpec

THEOREM OwnersConfigKept == LayersSpec => []MigrationKeepsConfig
<1>1. LayersInv => MigrationKeepsConfig
  <2> SUFFICES ASSUME LayersInv PROVE MigrationKeepsConfig
    OBVIOUS
  <2>1. CASE config = File(original)
    BY <2>1, FileShape DEF MigrationKeepsConfig, LayersInv, Staged, Lightened
  <2>2. CASE migration # "unwritten" /\ Lightened
    <3>1. original \in Layers /\ below \in Layers /\ NullFree(below)
      BY <2>2 DEF LayersInv, Written
    <3>2. Effective(below, Slim[original][below]) = Effective(below, original)
      BY <3>1, LighterSaysTheSame
    <3>3. ~config.cut /\ config.holds = Slim[original][below]
      BY <2>2, FileShape DEF Lightened
    <3> QED
      BY <2>2, <3>2, <3>3 DEF MigrationKeepsConfig, Lightened
  <2> QED
    BY <2>1, <2>2 DEF LayersInv, OneOrTheOther
<1> QED
  BY <1>1, MigrationInductive, PTL
=============================================================================
