-------------------------- MODULE VolatileSecrets --------------------------
(***************************************************************************)
(* Deposit, validation and oblivion of volatile secrets (class             *)
(* VolatileSecrets of mcp_proxy/volatile_store.py, with the in-process      *)
(* upstreams it builds and the publication it calls in mcp_proxy/app.py).  *)
(*                                                                         *)
(* A key is expected by Width upstreams, its consumers, tested in the order *)
(* of the configuration.  A submit request runs in a task DETACHED from it, *)
(* which alone takes the lock of the key: a client that goes away leaves    *)
(* the task, and the thread its build runs in, to finish.  A second submit  *)
(* of the same value meanwhile adopts that task.  A forget request takes    *)
(* the lock in the request itself.  The publication of the new surface      *)
(* comes after the lock is released.                                        *)
(*                                                                         *)
(* A value stands for its fingerprint, and for the instance built with it.  *)
(***************************************************************************)
EXTENDS Naturals, Sequences, FiniteSets

CONSTANTS
  Keys,         \* volatile keys of the configuration
  Width,        \* BOUND: consumers of each key
  Values,       \* values a user may type
  Citing,       \* values an instance quotes in its tools, skills or instructions
  Submits,      \* BOUND: submit requests explored
  Forgets,      \* BOUND: forget requests explored
  MaxRejected,  \* MAX_REJECTED (64 in the code)
  None

Ops       == Submits \cup Forgets
Consumers == 1 .. Width

ASSUME SecretsAssumption ==
  /\ Width \in Nat
  /\ MaxRejected \in Nat \ {0}
  /\ Submits \cap Forgets = {}
  /\ Citing \subseteq Values
  /\ None \notin Values \cup Ops \cup Keys

VARIABLES
  key,        \* the key a task is about, while it lives
  value,      \* the value a task validates, while it lives
  reply,      \* what the client of a request sees of it
  joined,     \* the task a submit awaits: its own, or the one it adopted
  phase,      \* each task (each forget request): where it stands
  latest,     \* key.task: the last task created for the key
  holder,     \* key.lock: the task or request that holds it
  place,      \* the consumer the holder has reached
  stopped,    \* a consumer refused the holder's value
  changed,    \* the task replaced or discarded an instance
  served,     \* each consumer's instance, by the value it was built with
  accepted,   \* consumer.accepted
  verdict,    \* consumer.verdict
  rejected,   \* key.rejected, the oldest first
  refusals,   \* history: every refusal a directory gave, in order
  forbidden,  \* upstream.cache_forbidden
  cache,      \* the instance the tool catalogue on disk was written from
  seen,       \* what a publication has collected
  surface,    \* what is published
  overlapped  \* history: a publication was cut, or an instance changed during one

requestVars  == <<reply, joined>>
taskVars     == <<key, value, phase, latest, holder, place, stopped, changed>>
consumerVars == <<served, accepted, verdict>>
refusalVars  == <<rejected, refusals>>
cacheVars    == <<forbidden, cache>>
surfaceVars  == <<seen, surface, overlapped>>
vars == <<requestVars, taskVars, consumerVars, refusalVars, cacheVars, surfaceVars>>

Instances == [Keys -> [Consumers -> Values \cup {None}]]
Empty     == [k \in Keys |-> [c \in Consumers |-> None]]
Phases    == {"idle", "waiting", "testing", "building", "publishing", "composed", "done"}
Verdicts  == {"none", "accepted", "rejected", "indeterminate", "untested"}

TaskTypes ==
  /\ key \in [Ops -> Keys \cup {None}]
  /\ value \in [Ops -> Values \cup {None}]
  /\ phase \in [Ops -> Phases]
  /\ latest \in [Keys -> Submits \cup {None}]
  /\ changed \in [Ops -> BOOLEAN]

LockTypes ==
  /\ holder \in [Keys -> Ops \cup {None}]
  /\ place \in [Keys -> 1 .. Width + 1]
  /\ stopped \in [Keys -> BOOLEAN]

RequestTypes ==
  /\ reply \in [Ops -> {"none", "due", "given", "gone"}]
  /\ joined \in [Submits -> Submits \cup {None}]

ConsumerTypes ==
  /\ served \in Instances
  /\ accepted \in Instances
  /\ verdict \in [Keys -> [Consumers -> Verdicts]]

RefusalTypes ==
  /\ rejected \in [Keys -> Seq(Values)]
  /\ refusals \in [Keys -> Seq(Values)]

SurfaceTypes ==
  /\ forbidden \in [Keys -> [Consumers -> BOOLEAN]]
  /\ cache \in Instances
  /\ seen \in [Ops -> Instances]
  /\ surface \in Instances
  /\ overlapped \in BOOLEAN

TypeOK ==
  TaskTypes /\ LockTypes /\ RequestTypes /\ ConsumerTypes /\ RefusalTypes /\ SurfaceTypes

Init ==
  /\ key = [o \in Ops |-> None]
  /\ value = [o \in Ops |-> None]
  /\ reply = [o \in Ops |-> "none"]
  /\ joined = [s \in Submits |-> None]
  /\ phase = [o \in Ops |-> "idle"]
  /\ latest = [k \in Keys |-> None]
  /\ holder = [k \in Keys |-> None]
  /\ place = [k \in Keys |-> 1]
  /\ stopped = [k \in Keys |-> FALSE]
  /\ changed = [o \in Ops |-> FALSE]
  /\ served = Empty /\ accepted = Empty
  /\ verdict = [k \in Keys |-> [c \in Consumers |-> "none"]]
  /\ rejected = [k \in Keys |-> <<>>]
  /\ refusals = [k \in Keys |-> <<>>]
  /\ forbidden = [k \in Keys |-> [c \in Consumers |-> FALSE]]
  /\ cache = Empty
  /\ seen = [o \in Ops |-> Empty]
  /\ surface = Empty
  /\ overlapped = FALSE

-----------------------------------------------------------------------------
Elements(s) == {s[i] : i \in DOMAIN s}

(* The value becomes the most recent one of the memory. *)
MovedToEnd(s, v) ==
  IF v \in Elements(s) THEN Append(SelectSeq(s, LAMBDA x : x # v), v) ELSE Append(s, v)

(* Mutant of Reject: off by one, the bound itself is dropped. *)
RejectShort(s, v) ==
  LET all == MovedToEnd(s, v)
  IN  IF Len(all) >= MaxRejected THEN Tail(all) ELSE all

(* _Key.reject(): the oldest refusals beyond the bound are dropped. *)
Reject(s, v) ==
  LET all == MovedToEnd(s, v)
  IN  IF Len(all) > MaxRejected THEN Tail(all) ELSE all

Running(s) == phase[s] \notin {"idle", "done"}

(* handle_submit(): adopt the key's task when it still runs on this value,  *)
(* else create one.                                                         *)
Adoptable(k, v) == latest[k] # None /\ Running(latest[k]) /\ value[latest[k]] = v

Submit(s) ==
  /\ reply[s] = "none"
  /\ reply' = [reply EXCEPT ![s] = "due"]
  /\ \E k \in Keys, v \in Values :
       \/ /\ Adoptable(k, v)
          /\ joined' = [joined EXCEPT ![s] = latest[k]]
          /\ UNCHANGED taskVars
       \/ /\ ~Adoptable(k, v)
          /\ joined' = [joined EXCEPT ![s] = s]
          /\ latest' = [latest EXCEPT ![k] = s]
          /\ key' = [key EXCEPT ![s] = k]
          /\ value' = [value EXCEPT ![s] = v]
          /\ phase' = [phase EXCEPT ![s] = "waiting"]
          /\ UNCHANGED <<holder, place, stopped, changed>>
  /\ UNCHANGED <<consumerVars, refusalVars, cacheVars, surfaceVars>>

(* Mutant of Take: the lock is not waited for. *)
TakeAnyway(o) ==
  /\ phase[o] = "waiting"
  /\ holder' = [holder EXCEPT ![key[o]] = o]

(* The task takes the lock.  (asyncio serves waiters first come, first      *)
(* served; the model lets any of them be next.)                             *)
Take(o) ==
  /\ phase[o] = "waiting"
  /\ holder[key[o]] = None
  /\ holder' = [holder EXCEPT ![key[o]] = o]

StartTests(s) ==
  /\ Take(s)
  /\ phase' = [phase EXCEPT ![s] = "testing"]
  /\ UNCHANGED <<key, value, latest, place, stopped, changed, requestVars, consumerVars, refusalVars,
                 cacheVars, surfaceVars>>

-----------------------------------------------------------------------------
(* One turn of the loop of _submit().  The consumer at hand is untested     *)
(* after a refusal, kept when it already serves this value, refused without *)
(* a test when the value was refused before, and built otherwise.           *)
Holds(s) == phase[s] = "testing" /\ place[key[s]] \in Consumers

Keeps(k, c, v) == accepted[k][c] = v /\ served[k][c] # None

Judge(k, judgement, stop) ==
  /\ verdict' = [verdict EXCEPT ![k][place[k]] = judgement]
  /\ place' = [place EXCEPT ![k] = @ + 1]
  /\ stopped' = [stopped EXCEPT ![k] = stop]

PassOver(s) ==
  /\ Holds(s)
  /\ LET k == key[s]
         c == place[k]
     IN  \/ stopped[k] /\ Judge(k, "untested", TRUE)
         \/ ~stopped[k] /\ Keeps(k, c, value[s]) /\ Judge(k, "accepted", FALSE)
         \/ /\ ~stopped[k] /\ ~Keeps(k, c, value[s])
            /\ value[s] \in Elements(rejected[k])
            /\ Judge(k, "rejected", TRUE)
  /\ UNCHANGED <<requestVars, key, value, phase, latest, holder, changed, served, accepted,
                 refusalVars, cacheVars, surfaceVars>>

StartBuild(s) ==
  /\ Holds(s)
  /\ LET k == key[s]
     IN  /\ ~stopped[k]
         /\ ~Keeps(k, place[k], value[s])
         /\ value[s] \notin Elements(rejected[k])
  /\ phase' = [phase EXCEPT ![s] = "building"]
  /\ UNCHANGED <<requestVars, key, value, latest, holder, place, stopped, changed,
                 consumerVars, refusalVars, cacheVars, surfaceVars>>

Publishing(o) == phase[o] \in {"publishing", "composed"}

(* An instance changes while another request is publishing. *)
Overlap(o) == overlapped' = (overlapped \/ \E p \in Ops \ {o} : Publishing(p))

(* Mutant of Remember: a failed listing leaves the instance cacheable. *)
RememberLate(k, c, v) ==
  \/ UNCHANGED <<forbidden, cache>>
  \/ /\ v \notin Citing
     /\ forbidden' = [forbidden EXCEPT ![k][c] = FALSE]
     /\ cache' = [cache EXCEPT ![k][c] = v]

(* The build succeeded: the instance is served, then _remember() puts it in *)
(* the catalogue unless its listing fails or it quotes the value.  Listing  *)
(* an in-process server reads its registry and does not yield.              *)
Remember(k, c, v) ==
  \/ /\ forbidden' = [forbidden EXCEPT ![k][c] = TRUE]
     /\ UNCHANGED cache
  \/ /\ v \notin Citing
     /\ forbidden' = [forbidden EXCEPT ![k][c] = FALSE]
     /\ cache' = [cache EXCEPT ![k][c] = v]

BuildAccepted(s) ==
  /\ phase[s] = "building"
  /\ LET k == key[s]
         c == place[k]
     IN  /\ served' = [served EXCEPT ![k][c] = value[s]]
         /\ accepted' = [accepted EXCEPT ![k][c] = value[s]]
         /\ Judge(k, "accepted", FALSE)
         /\ Remember(k, c, value[s])
  /\ phase' = [phase EXCEPT ![s] = "testing"]
  /\ changed' = [changed EXCEPT ![s] = TRUE]
  /\ Overlap(s)
  /\ UNCHANGED <<requestVars, key, value, latest, holder, refusalVars, seen, surface>>

(* The directory refused the value: it is remembered, and the loop stops. *)
BuildRejected(s) ==
  /\ phase[s] = "building"
  /\ LET k == key[s]
     IN  /\ rejected' = [rejected EXCEPT ![k] = Reject(@, value[s])]
         /\ refusals' = [refusals EXCEPT ![k] = Append(@, value[s])]
         /\ Judge(k, "rejected", TRUE)
  /\ phase' = [phase EXCEPT ![s] = "testing"]
  /\ UNCHANGED <<requestVars, key, value, latest, holder, changed, served, accepted,
                 cacheVars, surfaceVars>>

(* Mutant of BuildFailed: a failure that says nothing stops the loop too. *)
BuildFailedStops(s) ==
  /\ phase[s] = "building"
  /\ Judge(key[s], "indeterminate", TRUE)
  /\ phase' = [phase EXCEPT ![s] = "testing"]
  /\ UNCHANGED <<requestVars, key, value, latest, holder, changed, served, accepted,
                 refusalVars, cacheVars, surfaceVars>>

(* Any other failure ("indeterminate", "incomplete") says nothing of the    *)
(* value: the loop goes on.                                                 *)
BuildFailed(s) ==
  /\ phase[s] = "building"
  /\ Judge(key[s], "indeterminate", FALSE)
  /\ phase' = [phase EXCEPT ![s] = "testing"]
  /\ UNCHANGED <<requestVars, key, value, latest, holder, changed, served, accepted,
                 refusalVars, cacheVars, surfaceVars>>

(* A task ends, and the value it carried is gone with it. *)
End(o) ==
  /\ phase' = [phase EXCEPT ![o] = "done"]
  /\ key' = [key EXCEPT ![o] = None]
  /\ value' = [value EXCEPT ![o] = None]
  /\ changed' = [changed EXCEPT ![o] = FALSE]

(* Mutant of EndTests: a deposit that changed nothing keeps the lock. *)
EndTestsLocked(s) ==
  /\ phase[s] = "testing"
  /\ place[key[s]] \notin Consumers
  /\ place' = [place EXCEPT ![key[s]] = 1]
  /\ stopped' = [stopped EXCEPT ![key[s]] = FALSE]
  /\ \/ /\ changed[s]
        /\ holder' = [holder EXCEPT ![key[s]] = None]
        /\ phase' = [phase EXCEPT ![s] = "publishing"]
        /\ UNCHANGED <<key, value, changed>>
     \/ /\ ~changed[s]
        /\ End(s)
        /\ UNCHANGED holder
  /\ UNCHANGED <<requestVars, latest, consumerVars, refusalVars, cacheVars,
                 surfaceVars>>

(* Every consumer is judged: the lock is released, and the surface is       *)
(* published if an instance changed.                                        *)
EndTests(s) ==
  /\ phase[s] = "testing"
  /\ place[key[s]] \notin Consumers
  /\ holder' = [holder EXCEPT ![key[s]] = None]
  /\ place' = [place EXCEPT ![key[s]] = 1]
  /\ stopped' = [stopped EXCEPT ![key[s]] = FALSE]
  /\ \/ /\ changed[s]
        /\ phase' = [phase EXCEPT ![s] = "publishing"]
        /\ UNCHANGED <<key, value, changed>>
     \/ /\ ~changed[s]
        /\ End(s)
  /\ UNCHANGED <<requestVars, latest, consumerVars, refusalVars, cacheVars,
                 surfaceVars>>

-----------------------------------------------------------------------------
(* Mutants of Discard: the accepted values are kept; nothing is published. *)
DiscardKeeping(f) ==
  /\ phase[f] = "waiting"
  /\ LET k == key[f]
     IN  /\ holder[k] = None
         /\ served' = [served EXCEPT ![k] = Empty[k]]
         /\ verdict' = [verdict EXCEPT ![k] = [c \in Consumers |-> "none"]]
  /\ End(f)
  /\ UNCHANGED <<requestVars, latest, holder, place, stopped, accepted,
                 refusalVars, cacheVars, surfaceVars>>

DiscardSilently(f) ==
  /\ phase[f] = "waiting"
  /\ LET k == key[f]
     IN  /\ holder[k] = None
         /\ served' = [served EXCEPT ![k] = Empty[k]]
         /\ accepted' = [accepted EXCEPT ![k] = Empty[k]]
         /\ verdict' = [verdict EXCEPT ![k] = [c \in Consumers |-> "none"]]
  /\ End(f)
  /\ Overlap(f)
  /\ UNCHANGED <<requestVars, latest, holder, place, stopped, refusalVars,
                 cacheVars, seen, surface>>

(* handle_forget(): the request takes the lock itself, then discards every  *)
(* instance without a pause.  The memory of refused values stays.           *)
Forget(f) ==
  /\ reply[f] = "none"
  /\ reply' = [reply EXCEPT ![f] = "due"]
  /\ \E k \in Keys : key' = [key EXCEPT ![f] = k]
  /\ phase' = [phase EXCEPT ![f] = "waiting"]
  /\ UNCHANGED <<value, joined, latest, holder, place, stopped, changed,
                 consumerVars, refusalVars, cacheVars, surfaceVars>>

Discard(f) ==
  /\ phase[f] = "waiting"
  /\ LET k == key[f]
     IN  /\ holder[k] = None
         /\ served' = [served EXCEPT ![k] = Empty[k]]
         /\ accepted' = [accepted EXCEPT ![k] = Empty[k]]
         /\ verdict' = [verdict EXCEPT ![k] = [c \in Consumers |-> "none"]]
         /\ \/ /\ served[k] # Empty[k]
               /\ changed' = [changed EXCEPT ![f] = TRUE]
               /\ phase' = [phase EXCEPT ![f] = "publishing"]
               /\ Overlap(f)
               /\ UNCHANGED <<key, value>>
            \/ /\ served[k] = Empty[k]
               /\ End(f)
               /\ UNCHANGED overlapped
  /\ UNCHANGED <<requestVars, latest, holder, place, stopped, refusalVars,
                 cacheVars, seen, surface>>

-----------------------------------------------------------------------------
(* publish_surface(): the skills are collected from the instances, or from  *)
(* the catalogue for a consumer that has none; remote upstreams are asked   *)
(* too, so that other requests run before the result is written.            *)
Shown ==
  [k \in Keys |-> [c \in Consumers |->
     IF served[k][c] # None THEN served[k][c] ELSE cache[k][c]]]

Collect(o) ==
  /\ phase[o] = "publishing"
  /\ seen' = [seen EXCEPT ![o] = Shown]
  /\ phase' = [phase EXCEPT ![o] = "composed"]
  /\ UNCHANGED <<requestVars, key, value, latest, holder, place, stopped, changed,
                 consumerVars, refusalVars, cacheVars, surface, overlapped>>

Publish(o) ==
  /\ phase[o] = "composed"
  /\ surface' = seen[o]
  /\ seen' = [seen EXCEPT ![o] = Empty]
  /\ End(o)
  /\ UNCHANGED <<requestVars, latest, holder, place, stopped, consumerVars,
                 refusalVars, cacheVars, overlapped>>

(* The client gets its answer: a submit when the task it awaits is over. *)
Awaited(o) == IF o \in Submits THEN joined[o] ELSE o

Answer(o) ==
  /\ reply[o] = "due"
  /\ phase[Awaited(o)] = "done"
  /\ reply' = [reply EXCEPT ![o] = "given"]
  /\ UNCHANGED <<joined, taskVars, consumerVars, refusalVars,
                 cacheVars, surfaceVars>>

(* Mutant of Leave: the value goes with the client, the task stays. *)
LeaveWiping(o) ==
  /\ reply[o] = "due"
  /\ o \in Submits
  /\ reply' = [reply EXCEPT ![o] = "gone"]
  /\ value' = [value EXCEPT ![o] = None]
  /\ UNCHANGED <<joined, key, phase, latest, holder, place, stopped, changed,
                 consumerVars, refusalVars, cacheVars, surfaceVars>>

(* The client goes away.  The task of a submit is shielded from it; a       *)
(* forget is cut where it waits, for the lock or in the publication.        *)
Leave(o) ==
  /\ reply[o] = "due"
  /\ reply' = [reply EXCEPT ![o] = "gone"]
  /\ \/ /\ o \in Submits
        /\ UNCHANGED <<taskVars, seen, overlapped>>
     \/ /\ o \in Forgets
        /\ phase[o] # "done"
        /\ End(o)
        /\ seen' = [seen EXCEPT ![o] = Empty]
        /\ overlapped' = (overlapped \/ Publishing(o))
        /\ UNCHANGED <<latest, holder, place, stopped>>
  /\ UNCHANGED <<joined, consumerVars, refusalVars, cacheVars, surface>>

(* tools/list lists the instance and writes the catalogue from it. *)
ListTools(k, c) ==
  /\ served[k][c] # None
  /\ ~forbidden[k][c]
  /\ cache' = [cache EXCEPT ![k][c] = served[k][c]]
  /\ UNCHANGED <<requestVars, taskVars, consumerVars, refusalVars, forbidden,
                 surfaceVars>>

Test(s)  == StartTests(s) \/ PassOver(s) \/ StartBuild(s) \/ EndTests(s)
Build(s) == BuildAccepted(s) \/ BuildRejected(s) \/ BuildFailed(s)

Next ==
  \/ \E s \in Submits : Submit(s) \/ Test(s) \/ Build(s)
  \/ \E f \in Forgets : Forget(f) \/ Discard(f)
  \/ \E o \in Ops : Collect(o) \/ Publish(o) \/ Answer(o) \/ Leave(o)
  \/ \E k \in Keys, c \in Consumers : ListTools(k, c)

(* A task that can run does run, and a build ends: an assumption on the      *)
(* server modules, the proxy puts no bound on the thread it runs in.  No    *)
(* client is assumed to ask, to stay or to go.                              *)
Fairness ==
  /\ \A s \in Submits : WF_vars(Test(s)) /\ WF_vars(Build(s))
  /\ \A f \in Forgets : WF_vars(Discard(f))
  /\ \A o \in Ops : WF_vars(Collect(o)) /\ WF_vars(Publish(o)) /\ WF_vars(Answer(o))

Spec     == Init /\ [][Next]_vars
FairSpec == Spec /\ Fairness

-----------------------------------------------------------------------------
(* "Les depots d'une meme cle sont serialises": no second build of a key    *)
(* starts while one runs, not even after its client went away.              *)
OneBuildPerKey ==
  \A s, t \in Submits :
    phase[s] = "building" /\ phase[t] = "building" /\ key[s] = key[t] => s = t

(* "Une valeur refusee n'est jamais retestee": the directory refuses a      *)
(* value again only after MaxRejected other refusals pushed it out of the   *)
(* memory, whichever consumers, clients and forgets come between.           *)
RefusedOnce ==
  \A k \in Keys : \A i, j \in DOMAIN refusals[k] :
    i < j /\ refusals[k][i] = refusals[k][j] => j - i > MaxRejected

(* "Une valeur identique a celle qu'un consommateur a acceptee ne le        *)
(* reconstruit pas": what excuses the build is the value of the instance    *)
(* in service, also after failed replacements and forgets.                  *)
AcceptedIsServed ==
  \A k \in Keys, c \in Consumers : accepted[k][c] = served[k][c]

(* Between two deposits the published verdicts are those of ONE deposit:    *)
(* what was not tested comes after a consumer that refused.                 *)
VerdictsCoherent ==
  \A k \in Keys : holder[k] = None =>
    \A c \in Consumers : verdict[k][c] = "untested" =>
      \E b \in 1 .. c - 1 : verdict[k][b] = "rejected"

(* The catalogue on disk never holds an instance that quotes its secret,    *)
(* whichever of _remember() and tools/list writes it, and when.             *)
CacheNeverCites ==
  \A k \in Keys, c \in Consumers : cache[k][c] \notin Citing

(* "Apres chaque changement d'instance, le proxy republie": nobody is about *)
(* to publish, so the surface is that of the instances in service.          *)
Quiet == \A o \in Ops : ~changed[o]

SurfaceFresh == Quiet => surface = Shown

(* The same, as long as no instance changed during another's publication.   *)
SurfaceFreshAlone == ~overlapped => SurfaceFresh

(* Every request whose client stays is answered. *)
EveryRequestAnswered == \A o \in Ops : reply[o] = "due" ~> reply[o] \in {"given", "gone"}
=============================================================================
