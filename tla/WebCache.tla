------------------------------ MODULE WebCache ------------------------------
(***************************************************************************)
(* The page cache of mcp_web (cache.py) and the tools that share it        *)
(* (fetch_url, fetch_read, fetch_list of __init__.py).  An entry is up to  *)
(* four files, each with its own age: the text, the HTML, the structure    *)
(* extracted from it, and the alias left by a redirection.                 *)
(*                                                                         *)
(* The functions of cache.py run in threads.  A step is one of the calls   *)
(* a tool makes to the cache, and tools interleave between their calls;    *)
(* what threads may do to each other inside one call is not modelled.      *)
(***************************************************************************)
EXTENDS Naturals

CONSTANTS
  Urls,       \* the addresses of pages, which may redirect to each other
  Nowhere,    \* none of them
  Visits,     \* calls of the tools
  Ttl,        \* TTL_HOURS, in the unit ages are counted in
  MaxTicks    \* BOUND: units of time that pass

Kinds == {"text", "html", "structure", "alias"}

ASSUME CacheAssumption ==
  Nowhere \notin Urls /\ "none" \notin Visits /\ Ttl \in Nat \ {0} /\ MaxTicks \in Nat

VARIABLES
  files,    \* of each entry: the visit that wrote each file, "none" if absent;
            \* for an alias, the entry it leads to
  ages,     \* time since each file was last touched
  visit,    \* each call of a tool
  pages,    \* history: the visits that brought HTML
  ticks,
  tangled   \* history: the entries a fetch stored while another visit, or a
            \* crash, was in the middle of them

cacheVars == <<files, ages, visit, pages, ticks, tangled>>

Absent == "none"
NoFile == [k \in Kinds |-> IF k = "alias" THEN Nowhere ELSE Absent]
Left   == [phase |-> "done", url |-> Nowhere, final |-> Nowhere, read |-> Absent]

CacheInit ==
  /\ files = [u \in Urls |-> NoFile]
  /\ ages = [u \in Urls |-> [k \in Kinds |-> 0]]
  /\ visit = [o \in Visits |-> [Left EXCEPT !.phase = "idle"]]
  /\ pages = {} /\ ticks = 0 /\ tangled = {}

-----------------------------------------------------------------------------
(* cache.py, on the files of every entry. *)

(* sweep_expired(): the files nobody touched for the TTL are gone. *)
Swept ==
  [u \in Urls |-> [k \in Kinds |-> IF ages[u][k] > Ttl THEN NoFile[k] ELSE files[u][k]]]

Held(fs, u) == fs[u].text # Absent \/ fs[u].html # Absent

(* resolve(): the entry of u itself, else the one its alias leads to. *)
Entry(fs, u) ==
  IF ~Held(fs, u) /\ fs[u].alias # Nowhere /\ Held(fs, fs[u].alias)
  THEN fs[u].alias ELSE u

Viewed(u, e) == IF u = e THEN {} ELSE {<<u, "alias">>}

(* Mutant of Touched: only the text that was read is refreshed. *)
TouchedText(e) == {<<e, "text">>}

(* _touch_all(): what a visit of the entry e keeps alive. *)
Touched(e) == {<<e, "text">>, <<e, "html">>, <<e, "structure">>}

Refresh(fresh) ==
  ages' = [u \in Urls |-> [k \in Kinds |-> IF <<u, k>> \in fresh THEN 0 ELSE ages[u][k]]]

Running == {o \in Visits : visit[o].phase \notin {"idle", "done"}}

(* The call o begins. *)
Starts(o, phase, u) ==
  /\ visit[o].phase = "idle"
  /\ visit' = [visit EXCEPT ![o] = [Left EXCEPT !.phase = phase, !.url = u]]

(* The visits in the middle of entry u: a page stored whose text is not, or *)
(* HTML read whose structure is not stored.                                 *)
Amid(u) == {p \in Running : visit[p].url = u /\ visit[p].phase \in {"converting", "extracting"}}

Tangles(o) ==
  tangled' = IF Amid(visit[o].url) \ {o} = {} THEN tangled ELSE tangled \cup {visit[o].url}

-----------------------------------------------------------------------------
(* fetch_url *)

FetchBegins(o, u) ==
  /\ Starts(o, "fetching", u)
  /\ UNCHANGED <<files, ages, pages, ticks, tangled>>

(* The answer, from where redirections led: a page, some text, or neither;  *)
(* an error stores nothing.                                                 *)
Fetched(o) ==
  /\ visit[o].phase = "fetching"
  /\ \E kind \in {"html", "text", "binary", "error"}, final \in Urls :
       visit' = [visit EXCEPT ![o] =
                   IF kind = "error" THEN Left
                   ELSE [@ EXCEPT !.phase = kind, !.final = final]]
  /\ UNCHANGED <<files, ages, pages, ticks, tangled>>

(* Mutant of StoreHtml: the structure of the page before is kept. *)
StoreHtmlAlone(o) ==
  /\ visit[o].phase = "html"
  /\ LET u == visit[o].url IN
       /\ files' = [Swept EXCEPT ![u].html = o]
       /\ Refresh({<<u, "html">>})
  /\ pages' = pages \cup {o}
  /\ visit' = [visit EXCEPT ![o].phase = "converting"]
  /\ Tangles(o)
  /\ UNCHANGED ticks

(* store_html(), before the conversion: the structure there was is dropped. *)
StoreHtml(o) ==
  /\ visit[o].phase = "html"
  /\ LET u == visit[o].url IN
       /\ files' = [Swept EXCEPT ![u].html = o, ![u].structure = Absent]
       /\ Refresh({<<u, "html">>})
  /\ pages' = pages \cup {o}
  /\ visit' = [visit EXCEPT ![o].phase = "converting"]
  /\ Tangles(o)
  /\ UNCHANGED ticks

(* _cache_and_cap(): store() and store_alias(), which does nothing without a *)
(* redirection.  A text that is not a page's takes the page away.           *)
StoreText(o) ==
  /\ visit[o].phase \in {"converting", "text"}
  /\ LET u  == visit[o].url
         f  == visit[o].final
         fs == IF visit[o].phase = "text"
               THEN [Swept EXCEPT ![u].html = Absent, ![u].structure = Absent]
               ELSE Swept
     IN IF f = u
        THEN files' = [fs EXCEPT ![u].text = o] /\ Refresh({<<u, "text">>})
        ELSE /\ files' = [fs EXCEPT ![u].text = o, ![f].alias = u]
             /\ Refresh({<<u, "text">>, <<f, "alias">>})
  /\ visit' = [visit EXCEPT ![o] = Left]
  /\ IF visit[o].phase = "text" THEN Tangles(o) ELSE UNCHANGED tangled
  /\ UNCHANGED <<pages, ticks>>

(* purge(): a content of another kind takes the whole entry away. *)
Purge(o) ==
  /\ visit[o].phase = "binary"
  /\ files' = [Swept EXCEPT ![visit[o].url] = NoFile]
  /\ visit' = [visit EXCEPT ![o] = Left]
  /\ Tangles(o)
  /\ UNCHANGED <<ages, pages, ticks>>

-----------------------------------------------------------------------------
(* fetch_read: load(), in one thread. *)
Read(o, u) ==
  /\ Starts(o, "done", u)
  /\ files' = Swept
  /\ LET e == Entry(Swept, u) IN
       Refresh(Viewed(u, e) \cup (IF Swept[e].text # Absent THEN Touched(e) ELSE {}))
  /\ UNCHANGED <<pages, ticks, tangled>>

(* fetch_list: resolve(), with no sweep before it. *)
ListBegins(o, u) ==
  LET target == Entry(files, u) IN
    /\ Starts(o, "listing", target)
    /\ Refresh(Viewed(u, target))
    /\ UNCHANGED <<files, pages, ticks, tangled>>

(* load_html(): it sweeps and resolves what was resolved again, so that the *)
(* HTML may be that of another entry than the one it is listed under.       *)
LoadHtml(o) ==
  /\ visit[o].phase = "listing"
  /\ files' = Swept
  /\ LET u == visit[o].url
         e == Entry(Swept, u)
     IN IF Swept[e].html = Absent
        THEN visit' = [visit EXCEPT ![o] = Left] /\ Refresh(Viewed(u, e))
        ELSE /\ visit' = [visit EXCEPT ![o].phase = "extracting", ![o].read = Swept[e].html]
             /\ Refresh(Viewed(u, e) \cup Touched(e))
  /\ UNCHANGED <<pages, ticks, tangled>>

(* _load_structure_blocking(): the structure in the cache, else the one of  *)
(* the HTML that was read before the switch of threads.                     *)
Structure(o) ==
  /\ visit[o].phase = "extracting"
  /\ LET u == visit[o].url
         e == Entry(Swept, u)
     IN IF Swept[e].structure # Absent
        THEN files' = Swept /\ Refresh(Viewed(u, e) \cup Touched(e))
        ELSE /\ files' = [Swept EXCEPT ![u].structure = visit[o].read]
             /\ Refresh(Viewed(u, e) \cup {<<u, "structure">>})
  /\ visit' = [visit EXCEPT ![o] = Left]
  /\ UNCHANGED <<pages, ticks, tangled>>

(* The client gives up a call; only a thread that has begun to store a page *)
(* goes on.                                                                 *)
VisitDropped(o) ==
  /\ visit[o].phase \in {"fetching", "html", "text", "binary", "listing", "extracting"}
  /\ visit' = [visit EXCEPT ![o] = Left]
  /\ UNCHANGED <<files, ages, pages, ticks, tangled>>

(* A page of entry u is stored, and its text is not yet. *)
Converts(o, u) == visit[o].phase = "converting" /\ visit[o].url = u

(* The process stops, and the directory stays: a page that was being        *)
(* converted is left with the text there was.                               *)
CacheCrash ==
  /\ Running # {}
  /\ tangled' = tangled \cup {u \in Urls : \E o \in Running : Converts(o, u)}
  /\ visit' = [o \in Visits |-> IF o \in Running THEN Left ELSE visit[o]]
  /\ UNCHANGED <<files, ages, pages, ticks>>

(* Time passes between the calls: one takes seconds, the TTL is in hours. *)
CacheTick ==
  /\ ticks < MaxTicks /\ Running = {}
  /\ ticks' = ticks + 1
  /\ ages' = [u \in Urls |-> [k \in Kinds |-> IF ages[u][k] > Ttl THEN Ttl + 1 ELSE ages[u][k] + 1]]
  /\ UNCHANGED <<files, visit, pages, tangled>>

CacheNext ==
  \/ CacheTick \/ CacheCrash
  \/ \E o \in Visits :
       \/ Fetched(o) \/ StoreHtml(o) \/ StoreText(o) \/ Purge(o)
       \/ LoadHtml(o) \/ Structure(o) \/ VisitDropped(o)
       \/ \E u \in Urls : FetchBegins(o, u) \/ Read(o, u) \/ ListBegins(o, u)

CacheSpec == CacheInit /\ [][CacheNext]_cacheVars

-----------------------------------------------------------------------------
(* What is left of an entry belongs together whenever no page of it is       *)
(* being converted: the text of a page can still be listed, from the HTML it *)
(* was made of; a text that is not a page's has no HTML; the structure an     *)
(* entry may be asked for is its HTML's.  Visits may overlap, as long as     *)
(* none stored the entry while another, or a crash, was in the middle of it. *)
Coherent(f) ==
  /\ f.text \in pages => f.html = f.text
  /\ f.text \notin pages \cup {Absent} => f.html = Absent
  /\ f.text # Absent \/ f.html # Absent => f.structure \in {Absent, f.html}

EntryCoherent ==
  \A u \in Urls \ tangled : (\E o \in Visits : Converts(o, u)) \/ Coherent(Swept[u])

(* cache.py:175 says that a fetch may have changed the page, and that its   *)
(* structure must not be served any more: the one on disk is the page's.    *)
StructureOfPage ==
  \A u \in Urls : {files[u].html, files[u].structure} \cap {Absent} # {}
                  \/ files[u].structure = files[u].html
=============================================================================
