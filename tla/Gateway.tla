------------------------------ MODULE Gateway ------------------------------
(***************************************************************************)
(* The proxy between its clients and its upstreams: the lifespan that      *)
(* starts and stops them (app.py), tools/list, tools/call and the cache of *)
(* tools (server.py), skills/list (skills.py).                             *)
(*                                                                         *)
(* A remote upstream is seen as the session RemoteSession specifies, which *)
(* HttpUpstream and StdioUpstream implement: link[u] is its state.  For an *)
(* upstream with a volatile secret, link[u] = "open" says that an instance *)
(* is built.  What an upstream lists is a version of its catalogue.        *)
(*                                                                         *)
(* A step runs from one suspension point of the asyncio loop to the next.  *)
(***************************************************************************)
EXTENDS Naturals, Sequences, FiniteSets

CONSTANTS
  Order,         \* the upstreams, in the order of the configuration
  Http, Stdio,   \* the remote ones
  Secret,        \* in-process ones that wait for a volatile secret
  OAuth,         \* remote ones with an authorizer
  Requests,      \* of the clients: tools/list, skills/list or tools/call
  MaxOffer,      \* bound: versions of one remote catalogue
  MaxPages       \* pages of one remote skills/list

Remote    == Http \cup Stdio
Upstreams == Remote \cup Secret

ASSUME GatewayAssumption ==
  /\ Upstreams # {}
  /\ Order \in Seq(Upstreams) /\ Len(Order) = Cardinality(Upstreams)
  /\ \A u \in Upstreams : \E i \in DOMAIN Order : Order[i] = u
  /\ OAuth \subseteq Http /\ Http \cap Stdio = {} /\ Remote \cap Secret = {}
  /\ MaxOffer \in Nat \ {0} /\ MaxPages \in Nat \ {0}

VARIABLES
  lifespan,    \* where the lifespan stands
  boot,        \* each upstream in it
  started,     \* upstreams whose stop() is owed
  table,       \* the routing table
  link,        \* each upstream's session, or instance
  pending,     \* authorizers whose authorization_pending is set
  offer,       \* the version each upstream would list now
  disk,        \* ToolCatalogCache: versions remembered, 0 for nothing
  listing, collection, call,
  due          \* history: what each listing has still to show

lifeVars == <<lifespan, boot, started, table>>
opVars   == <<listing, collection, call, due>>
vars     == <<lifeVars, link, pending, offer, disk, opVars>>

Versions == 0 .. MaxOffer

GatewayTypeOK ==
  /\ lifespan \in {"probing", "starting", "publishing", "serving", "stopping", "over"}
  /\ boot \in [Upstreams -> {"waiting", "starting", "listing", "ready", "failed"}]
  /\ started \subseteq Remote /\ table \subseteq Upstreams
  /\ link \in [Upstreams -> {"closed", "opening", "open"}]
  /\ pending \subseteq OAuth
  /\ offer \in [Upstreams -> Versions]
  /\ disk \in [Upstreams -> [tools : Versions, skills : Versions]]
  /\ listing \in [Requests -> [phase : {"idle", "asking", "done"},
                               at : 0 .. Len(Order), from : Versions]]
  /\ collection \in [Requests -> [phase : {"idle", "asking", "done"},
                                  at : 0 .. Len(Order), pages : 0 .. MaxPages - 1,
                                  live : SUBSET Upstreams]]
  /\ call \in [Requests -> [phase : {"idle", "sent", "answered", "failed", "refused",
                                     "expired"}, to : Upstreams]]
  /\ due \in [Requests -> SUBSET Upstreams]

(* No client has made a request, or the proxy no longer knows of any. *)
NoRequest ==
  [lists    |-> [phase |-> "idle", at |-> 0, from |-> 0],
   collects |-> [phase |-> "idle", at |-> 0, pages |-> 0, live |-> {}],
   calls    |-> [phase |-> "idle", to |-> Order[1]]]

(* A proxy that ran before: its cache may hold something for every upstream. *)
Init ==
  /\ lifespan = "probing" /\ started = {} /\ table = Upstreams
  /\ boot = [u \in Upstreams |-> "waiting"]
  /\ link = [u \in Upstreams |-> "closed"]
  /\ pending = {}
  /\ offer = [u \in Upstreams |-> 1]
  /\ \E known \in {0, 1} : disk = [u \in Upstreams |-> [tools |-> known, skills |-> 0]]
  /\ listing = [r \in Requests |-> NoRequest.lists]
  /\ collection = [r \in Requests |-> NoRequest.collects]
  /\ call = [r \in Requests |-> NoRequest.calls]
  /\ due = [l \in Requests |-> {}]

-----------------------------------------------------------------------------
(* The cache of tools. *)

(* Would this upstream honour a call now?  A stdio upstream is never seen   *)
(* dead: only its requests say so.                                          *)
Live(u) ==
  /\ u \notin pending
  /\ u \in Stdio \/ link[u] = "open"

(* An upstream that is not live and is served from the cache. *)
Recallable(u) == u \in Secret \cup OAuth

(* The tools of some upstreams are written; the skills there are kept. *)
RememberTools(learnt) ==
  disk' = [u \in Upstreams |->
             IF u \in DOMAIN learnt THEN [disk[u] EXCEPT !.tools = learnt[u]] ELSE disk[u]]

(* Mutant of RememberSkills: the entry is rebuilt around the skills. *)
RememberSkillsAlone(learnt) ==
  disk' = [u \in Upstreams |->
             IF u \in DOMAIN learnt THEN [tools |-> 0, skills |-> learnt[u]] ELSE disk[u]]

(* The skills of some upstreams are written; the tools there are kept. *)
RememberSkills(learnt) ==
  disk' = [u \in Upstreams |->
             IF u \in DOMAIN learnt THEN [disk[u] EXCEPT !.skills = learnt[u]] ELSE disk[u]]

(* The first position from i on that holds an upstream of S, or past the    *)
(* end; and what a request runs through, without suspending, to get there.  *)
First(S, i) ==
  CHOOSE j \in i .. Len(Order) + 1 :
    /\ j <= Len(Order) => Order[j] \in S
    /\ \A h \in i .. j - 1 : Order[h] \notin S

Passed(i, j) == {Order[h] : h \in i .. j - 1}

-----------------------------------------------------------------------------
(* The lifespan. *)

(* The boot probe: which authorizers have no usable token. *)
Probe ==
  /\ lifespan = "probing"
  /\ lifespan' = "starting"
  /\ pending' \in SUBSET OAuth
  /\ UNCHANGED <<boot, started, table, link, offer, disk, opVars>>

(* Remote upstreams start together, and first.  An in-process one whose     *)
(* secret is awaited is prepared, and neither built nor owed a stop().      *)
Begin(u) ==
  /\ lifespan = "starting" /\ boot[u] = "waiting"
  /\ u \in Secret => \A r \in Remote : boot[r] # "waiting"
  /\ boot' = [boot EXCEPT ![u] = IF u \in Remote THEN "starting" ELSE "ready"]
  /\ link' = [link EXCEPT ![u] = IF u \in Remote THEN "opening" ELSE "closed"]
  /\ UNCHANGED <<lifespan, started, table, pending, offer, disk, opVars>>

(* Mutant of Started: the stop() is owed once the first listing is over. *)
StartedLate(u) ==
  /\ boot[u] = "starting"
  /\ boot' = [boot EXCEPT ![u] = "listing"]
  /\ link' = [link EXCEPT ![u] = "open"]
  /\ UNCHANGED <<lifespan, started, table, pending, offer, disk, opVars>>

(* start() returns: stop() is owed from now on, and the tools are listed. *)
Started(u) ==
  /\ boot[u] = "starting"
  /\ boot' = [boot EXCEPT ![u] = "listing"]
  /\ link' = [link EXCEPT ![u] = "open"]
  /\ started' = started \cup {u}
  /\ UNCHANGED <<lifespan, table, pending, offer, disk, opVars>>

(* start() raises.  Without an authorization, the upstream stays in the     *)
(* table; any other failure will take it out.                               *)
NotStarted(u) ==
  /\ boot[u] = "starting"
  /\ link' = [link EXCEPT ![u] = "closed"]
  /\ \E unauthorized \in {TRUE, FALSE} :
       /\ unauthorized => u \in OAuth
       /\ boot' = [boot EXCEPT ![u] = IF unauthorized THEN "ready" ELSE "failed"]
       /\ pending' = IF unauthorized THEN pending \cup {u} ELSE pending
  /\ UNCHANGED <<lifespan, started, table, offer, disk, opVars>>

(* The listing of the journal ends, well or not. *)
BootListed(u) ==
  /\ boot[u] = "listing"
  /\ boot' = [boot EXCEPT ![u] = "ready"]
  /\ UNCHANGED <<lifespan, started, table, link, pending, offer, disk, opVars>>

(* The task group ends, and the failed ones leave the table. *)
AllBooted ==
  /\ lifespan = "starting"
  /\ \A u \in Upstreams : boot[u] \in {"ready", "failed"}
  /\ lifespan' = "publishing"
  /\ table' = {u \in table : boot[u] # "failed"}
  /\ boot' = [u \in Upstreams |-> "ready"]
  /\ UNCHANGED <<started, link, pending, offer, disk, opVars>>

(* The surface is published before the first client is served.  No secret   *)
(* is there yet: the cache is only read.                                    *)
Serve ==
  /\ lifespan = "publishing"
  /\ lifespan' = "serving"
  /\ UNCHANGED <<boot, started, table, link, pending, offer, disk, opVars>>

(* The boot is cancelled: a start() under way closes what it had opened. *)
CancelBoot ==
  /\ lifespan \in {"probing", "starting", "publishing"}
  /\ lifespan' = "stopping"
  /\ link' = [u \in Upstreams |-> IF boot[u] = "starting" THEN "closed" ELSE link[u]]
  /\ boot' = [u \in Upstreams |-> "ready"]
  /\ UNCHANGED <<started, table, pending, offer, disk, opVars>>

(* The session manager ends, and cuts its requests. *)
Shutdown ==
  /\ lifespan = "serving"
  /\ lifespan' = "stopping"
  /\ listing' = [r \in Requests |-> NoRequest.lists]
  /\ collection' = [r \in Requests |-> NoRequest.collects]
  /\ call' = [r \in Requests |-> NoRequest.calls]
  /\ due' = [r \in Requests |-> {}]
  /\ UNCHANGED <<boot, started, table, link, pending, offer, disk>>

StopOne(u) ==
  /\ lifespan = "stopping" /\ u \in started
  /\ started' = started \ {u}
  /\ link' = [link EXCEPT ![u] = "closed"]
  /\ UNCHANGED <<lifespan, boot, table, pending, offer, disk, opVars>>

(* The task group is cancelled, and the service tasks of Http with it: one  *)
(* that an authorization opened after the boot is not in `started`.         *)
Over ==
  /\ lifespan = "stopping" /\ started = {}
  /\ lifespan' = "over"
  /\ link' = [u \in Upstreams |-> IF u \in Http THEN "closed" ELSE link[u]]
  /\ UNCHANGED <<boot, started, table, pending, offer, disk, opVars>>

Lifespan ==
  \/ Probe \/ AllBooted \/ Serve \/ CancelBoot \/ Shutdown \/ Over
  \/ \E u \in Upstreams : Begin(u) \/ Started(u) \/ NotStarted(u)
                          \/ BootListed(u) \/ StopOne(u)

-----------------------------------------------------------------------------
(* What happens to the upstreams while clients are served. *)

Serving == lifespan = "serving"

(* A request that no client has made yet. *)
Unmade(r) ==
  "idle" = listing[r].phase /\ "idle" = collection[r].phase /\ "idle" = call[r].phase

(* u can no longer be asked: a listing owes it only what the cache holds. *)
NoLongerDue(u) ==
  due' = [l \in Requests |-> IF Recallable(u) /\ disk[u].tools # 0 THEN due[l]
                             ELSE due[l] \ {u}]

(* The upstream publishes another catalogue. *)
Offer(u) ==
  /\ Serving /\ u \in Remote /\ offer[u] < MaxOffer
  /\ offer' = [offer EXCEPT ![u] = @ + 1]
  /\ UNCHANGED <<lifeVars, link, pending, disk, opVars>>

(* The service task of an Http upstream ends. *)
SessionLost(u) ==
  /\ Serving /\ u \in Http /\ link[u] = "open"
  /\ link' = [link EXCEPT ![u] = "closed"]
  /\ NoLongerDue(u)
  /\ UNCHANGED <<lifeVars, pending, offer, disk, listing, collection, call>>

(* The user authorizes the upstream, whose session is opened again. *)
Authorize(u) ==
  /\ Serving /\ u \in OAuth \cap table /\ ~Live(u)
  /\ pending' = pending \ {u}
  /\ link' = [link EXCEPT ![u] = "open"]
  /\ UNCHANGED <<lifeVars, offer, disk, opVars>>

(* The user types the secret: the instance is built, then remembered. *)
Deposit(u) ==
  /\ Serving /\ u \in Secret /\ ~Live(u)
  /\ link' = [link EXCEPT ![u] = "open"]
  /\ disk' = [disk EXCEPT ![u] = [tools |-> offer[u], skills |-> offer[u]]]
  /\ UNCHANGED <<lifeVars, pending, offer, opVars>>

(* The user has the secret forgotten: the instance is discarded. *)
Forget(u) ==
  /\ Serving /\ u \in Secret /\ Live(u)
  /\ link' = [link EXCEPT ![u] = "closed"]
  /\ NoLongerDue(u)
  /\ UNCHANGED <<lifeVars, pending, offer, disk, listing, collection, call>>

Environment ==
  \E u \in Upstreams :
    Offer(u) \/ SessionLost(u) \/ Authorize(u) \/ Deposit(u) \/ Forget(u)

-----------------------------------------------------------------------------
(* tools/list *)

(* From position i on, what was learnt last remembered and `owed` still to   *)
(* show.  Each upstream is judged live at its own turn.  A live remote one   *)
(* is asked, which suspends; an instance is listed, and remembered, on the   *)
(* spot; the others are recalled, or unreachable.                            *)
ListFrom(l, i, learnt, owed) ==
  LET j        == First({u \in table \cap Remote : Live(u)}, i)
      passed   == Passed(i, j) \cap table
      here     == {u \in passed : Live(u)}
      recalled == {u \in passed : Recallable(u) /\ disk[u].tools # 0}
  IN /\ listing' = [listing EXCEPT ![l] =
                      IF j > Len(Order) THEN [phase |-> "done", at |-> 0, from |-> 0]
                      ELSE [phase |-> "asking", at |-> j, from |-> offer[Order[j]]]]
     /\ due' = [due EXCEPT ![l] = owed \ (DOMAIN learnt \cup here \cup recalled)]
     /\ RememberTools([u \in DOMAIN learnt \cup here |->
                         IF u \in here THEN offer[u] ELSE learnt[u]])

Learnt(u, v) == [x \in {u} |-> v]
Nothing      == [x \in {} |-> 0]

ListBegins(l) ==
  /\ Serving /\ Unmade(l)
  /\ ListFrom(l, 1, Nothing,
              {u \in table : Live(u) \/ (Recallable(u) /\ disk[u].tools # 0)})
  /\ UNCHANGED <<lifeVars, link, pending, offer, collection, call>>

(* The answer of a remote upstream, which it may have composed at any time  *)
(* since it was asked.                                                      *)
Listed(l) ==
  /\ Serving /\ listing[l].phase = "asking"
  /\ LET u == Order[listing[l].at] IN
       /\ link[u] = "open"
       /\ \E v \in listing[l].from .. offer[u] :
            ListFrom(l, listing[l].at + 1, Learnt(u, v), due[l])
  /\ UNCHANGED <<lifeVars, link, pending, offer, collection, call>>

(* Mutant of ListFailed: the error of one upstream ends the whole listing. *)
ListFailedForAll(l) ==
  /\ Serving /\ listing[l].phase = "asking"
  /\ ListFrom(l, Len(Order) + 1, Nothing, due[l] \ {Order[listing[l].at]})
  /\ UNCHANGED <<lifeVars, link, pending, offer, collection, call>>

(* The listing of one upstream fails: it is left out, and nothing is due of *)
(* it; the others go on.                                                    *)
ListFailed(l) ==
  /\ Serving /\ listing[l].phase = "asking"
  /\ ListFrom(l, listing[l].at + 1, Nothing, due[l] \ {Order[listing[l].at]})
  /\ UNCHANGED <<lifeVars, link, pending, offer, collection, call>>

ListStep == \E l \in Requests : ListBegins(l) \/ Listed(l) \/ ListFailed(l)

-----------------------------------------------------------------------------
(* skills/list *)

(* From position i on, among the upstreams that were live at the beginning. *)
(* One that has lost its session fails at once.  An instance discarded      *)
(* since the beginning has no skill to list, and the empty list is          *)
(* remembered as any other.                                                 *)
CollectFrom(k, i, live) ==
  LET j      == First({u \in live \cap Remote : link[u] = "open"}, i)
      passed == Passed(i, j) \cap live \cap Secret
  IN /\ collection' = [collection EXCEPT ![k] =
                IF j > Len(Order)
                THEN [phase |-> "done", at |-> 0, pages |-> 0, live |-> {}]
                ELSE [phase |-> "asking", at |-> j, pages |-> 0,
                      live |-> live \ Passed(1, j + 1)]]
     /\ RememberSkills([u \in passed |-> IF link[u] = "open" THEN offer[u] ELSE 0])

(* Which upstreams are listed, and which of them are live, is read once. *)
CollectBegins(k) ==
  /\ Serving /\ Unmade(k)
  /\ CollectFrom(k, 1, {u \in table : Live(u)})
  /\ UNCHANGED <<lifeVars, link, pending, offer, listing, call, due>>

(* What k does once the upstream it asked is dealt with. *)
CollectNext(k) == CollectFrom(k, collection[k].at + 1, collection[k].live)

(* Mutant of Page: as long as there is a cursor, it is followed. *)
PageForever(k) ==
  /\ Serving /\ collection[k].phase = "asking"
  /\ link[Order[collection[k].at]] = "open"
  /\ \/ CollectNext(k)
     \/ /\ collection' = [collection EXCEPT ![k].pages = (@ + 1) % MaxPages]
        /\ UNCHANGED disk
  /\ UNCHANGED <<lifeVars, link, pending, offer, listing, call, due>>

(* Mutant of Page: one page more than the bound is asked for. *)
PageOneTooMany(k) ==
  /\ Serving /\ collection[k].phase = "asking"
  /\ link[Order[collection[k].at]] = "open"
  /\ \/ CollectNext(k)
     \/ /\ collection[k].pages < MaxPages
        /\ collection' = [collection EXCEPT ![k].pages = @ + 1]
        /\ UNCHANGED disk
  /\ UNCHANGED <<lifeVars, link, pending, offer, listing, call, due>>

(* One page arrives, the last one or one that names a new cursor. *)
Page(k) ==
  /\ Serving /\ collection[k].phase = "asking"
  /\ link[Order[collection[k].at]] = "open"
  /\ \/ CollectNext(k)
     \/ /\ collection[k].pages < MaxPages - 1
        /\ collection' = [collection EXCEPT ![k].pages = @ + 1]
        /\ UNCHANGED disk
  /\ UNCHANGED <<lifeVars, link, pending, offer, listing, call, due>>

(* The request of a page fails, or its bound passes: u is left out. *)
PageExpires(k) ==
  /\ Serving /\ collection[k].phase = "asking"
  /\ CollectNext(k)
  /\ UNCHANGED <<lifeVars, link, pending, offer, listing, call, due>>

CollectStep ==
  \E k \in Requests : CollectBegins(k) \/ Page(k) \/ PageExpires(k)

-----------------------------------------------------------------------------
(* tools/call *)

(* Routed by its name to an upstream of the table: refused before anything  *)
(* is sent, or sent.                                                        *)
Call(c, u) ==
  /\ Serving /\ Unmade(c) /\ u \in table
  /\ call' = [call EXCEPT ![c] = IF Live(u) THEN [phase |-> "sent", to |-> u]
                             ELSE [phase |-> "refused", to |-> Order[1]]]
  /\ UNCHANGED <<lifeVars, link, pending, offer, disk, listing, collection, due>>

Ends(c, how) ==
  /\ Serving /\ call[c].phase = "sent"
  /\ call' = [call EXCEPT ![c] = [phase |-> how, to |-> Order[1]]]

(* An in-process call ends on the instance it began on, discarded or not. *)
CallAnswered(c) ==
  /\ Ends(c, "answered")
  /\ call[c].to \in Secret \/ link[call[c].to] = "open"
  /\ UNCHANGED <<lifeVars, link, pending, offer, disk, listing, collection, due>>

(* The upstream answers an error, or asks for an authorization at last. *)
CallFailed(c) ==
  /\ Ends(c, "failed")
  /\ \E unauthorized \in {TRUE, FALSE} :
       /\ unauthorized => call[c].to \in OAuth
       /\ pending' = IF unauthorized THEN pending \cup {call[c].to} ELSE pending
       /\ IF unauthorized THEN NoLongerDue(call[c].to) ELSE UNCHANGED due
  /\ UNCHANGED <<lifeVars, link, offer, disk, listing, collection>>

(* Mutant of CallExpires: only the calls of Http upstreams are bounded. *)
CallExpiresHttp(c) ==
  /\ call[c].to \in Http /\ Ends(c, "expired")
  /\ UNCHANGED <<lifeVars, link, pending, offer, disk, listing, collection, due>>

(* call_timeout passes: the call of a remote upstream is given up. *)
CallExpires(c) ==
  /\ call[c].to \in Remote /\ Ends(c, "expired")
  /\ UNCHANGED <<lifeVars, link, pending, offer, disk, listing, collection, due>>

CallStep ==
  \E c \in Requests : \/ \E u \in Upstreams : Call(c, u)
                   \/ CallAnswered(c) \/ CallFailed(c) \/ CallExpires(c)

-----------------------------------------------------------------------------
(* The lifespan is over, and so is the process. *)
Rest == lifespan = "over" /\ UNCHANGED vars

Next == Lifespan \/ Environment \/ ListStep \/ CollectStep \/ CallStep \/ Rest

Spec == Init /\ [][Next]_vars

(* The loop runs what can run; bounds pass; an in-process tool returns.     *)
(* Nothing obliges a remote upstream to answer, nor a client to call.       *)
CallGoesOn(c) == CallExpires(c) \/ (call[c].to \in Secret /\ CallAnswered(c))
CollectGoesOn(k) == Page(k) \/ PageExpires(k)

Fairness ==
  \A r \in Requests : WF_vars(CallGoesOn(r)) /\ WF_vars(CollectGoesOn(r))

FairSpec == Spec /\ Fairness

-----------------------------------------------------------------------------
(* When the lifespan is over, however the boot or the service ended, no     *)
(* remote upstream is left with a session or a subprocess: one whose        *)
(* start() had returned is stopped even if the boot was cut right after.    *)
NothingOutlives == lifespan = "over" => \A u \in Remote : link[u] = "closed"

(* The answer to tools/list shows every upstream that was live, or known     *)
(* and waiting for its user, from the beginning of the listing to its turn, *)
(* whatever happens to the others meanwhile: one that dies, is authorized,  *)
(* forgotten or answers an error hides only itself.                         *)
NothingHidden ==
  \A l \in Requests : listing[l].phase = "done" => due[l] = {}

(* The cache of tools goes back in one case only: two listings of the same  *)
(* remote upstream overlapped, and the one asked first is written last.     *)
CatalogNeverBackwards ==
  [][\A u \in Upstreams : disk'[u].tools < disk[u].tools =>
       \E l \in Requests :
         /\ listing[l].phase = "asking" /\ listing'[l] # listing[l]
         /\ Order[listing[l].at] = u /\ listing[l].from < disk[u].tools]_vars

(* Every call ends, of a mute upstream as of any other, and every           *)
(* skills/list, of an upstream whose cursor never runs out as of any other, *)
(* unless the proxy stops.                                                  *)
EveryRequestEnds ==
  \A r \in Requests :
    /\ call[r].phase = "sent" ~> call[r].phase # "sent" \/ ~Serving
    /\ collection[r].phase # "idle" ~> collection[r].phase = "done" \/ ~Serving

(* skills.py:235 and server.py:156 say that an upstream that waits for its  *)
(* secret is served the skills of its last live list: they stay there.      *)
PendingSkillsKept ==
  [][\A u \in Secret : ~Live(u) /\ disk[u].skills # 0 => disk'[u].skills # 0]_vars
=============================================================================
