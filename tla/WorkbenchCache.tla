--------------------------- MODULE WorkbenchCache ---------------------------
(***************************************************************************)
(* The research workbench's graph cache: WorkbenchGraphCache of            *)
(* apps/review/review_server.py, used by every /api/compare and /api/graph *)
(* request of a ThreadingHTTPServer (one thread per request), over corpora *)
(* that are rebuilt in place underneath it.                                *)
(*                                                                         *)
(* A checkout takes the build lock of its key, reads the corpus identity,  *)
(* reuses the cached graph or opens a new one, uses a cursor of it without *)
(* any lock, and drops its reference.  The two `with self._lock` sections  *)
(* are atomic steps here; opening a graph takes two, so that a corpus can  *)
(* change while it is being read.  The identity is a hash of the manifest's *)
(* file digests, so a content stands for its own identity and a content    *)
(* that comes back brings its identity back.  Taking the build lock is merged with    *)
(* reading the identity, and releasing it with the critical section before *)
(* it: nothing another thread does can tell them apart.  A request opens at *)
(* most one graph, so a graph (and its _CachedGraphEntry) is named by the  *)
(* thread that opened it: req and ident of that thread are its key and its *)
(* identity.                                                               *)
(***************************************************************************)
EXTENDS Naturals, FiniteSets

CONSTANTS Threads,      \* request threads: ThreadingHTTPServer starts one per request
          Roots,        \* resolved corpus roots
          Keys,         \* cache keys: (root, performer_only) pairs
          RootOf,       \* the corpus root of a key
          MaxEntries,   \* WorkbenchGraphCache(max_entries)
          Contents,     \* what a corpus may hold; also the identity of what it holds
          Missing,      \* no such file; also '<name>:unknown', the identity without a manifest
          MaxRebuilds,  \* bound: how often a corpus is put in place again
          NoThread

ASSUME CacheAssumption ==
  /\ IsFiniteSet(Threads) /\ IsFiniteSet(Keys)
  /\ RootOf \in [Keys -> Roots]
  /\ MaxEntries \in Nat /\ MaxRebuilds \in Nat /\ Keys # {} /\ Contents # {}
  /\ NoThread \notin Threads /\ Missing \notin Contents

VARIABLES
  manifest,   \* the content each corpus's manifest.json describes, or Missing
  tables,     \* the content its Parquet files hold, or Missing once some are gone
  rebuilds,   \* how often each corpus was put in place
  serving,    \* "serving", "stopping" (server_close ran) or "closed" (close_all ran)
  cached,     \* _entries: the graph cached under each key, or NoThread
  older,      \* the OrderedDict's order: <<j, k>> when j comes before k
  opened,     \* graphs opened so far
  closed,     \* graphs whose connection was closed
  content,    \* what the graph was materialised from
  overtaken,  \* history: requests whose corpus was under rebuild at some point from
              \* the reading of its identity to the end of the build
  refcount,   \* _CachedGraphEntry.refcount
  stale,      \* the entries with stale = True
  buildLock,  \* holder of each key's build lock
  pc, req, ident, existing, entry  \* per thread: where it is, and checkout's locals

corpusVars == <<manifest, tables, rebuilds, overtaken, serving>>
graphVars  == <<opened, content>>
cacheVars  == <<cached, older, closed, refcount, stale>>
threadVars == <<pc, req, ident, existing, entry>>
vars == <<corpusVars, graphVars, cacheVars, threadVars, buildLock>>

PCs == {"new", "lock", "decide", "open", "opening", "insert", "cursor", "using", "done"}

Goto(t, from, to) == pc[t] = from /\ pc' = [pc EXCEPT ![t] = to]

(***************************************************************************)
(* The helpers of the `with self._lock` sections.                          *)
(***************************************************************************)
CachedKeys(c) == {k \in Keys : c[k] # NoThread}

\* OrderedDict.move_to_end(k) among the keys of S.
MoveToEnd(k, S) ==
  {p \in older : k \notin {p[1], p[2]}} \cup {<<j, k>> : j \in S \ {k}}

\* The keys _evict_excess_locked deletes: the first idle entries in order, as
\* many as the cache is over its bound, or every idle one when there are fewer.
Victims(c, ord, refs) ==
  LET idle == {k \in CachedKeys(c) : refs[c[k]] = 0}
      before(k) == {j \in idle : <<j, k>> \in ord}
  IN  {k \in idle : Cardinality(before(k)) + MaxEntries < Cardinality(CachedKeys(c))}

\* Install cache c and order ord after eviction; `also` is closed besides the victims.
EvictExcess(c, ord, refs, also) ==
  LET gone == Victims(c, ord, refs)
  IN  /\ cached' = [k \in Keys |-> IF k \in gone THEN NoThread ELSE c[k]]
      /\ older' = {p \in ord : gone \cap {p[1], p[2]} = {}}
      /\ closed' = closed \cup {c[k] : k \in gone} \cup also

-----------------------------------------------------------------------------
(***************************************************************************)
(* checkout, step by step.                                                 *)
(***************************************************************************)

\* A rebuild removed part of the corpus and has not put the new one in place.
UnderRebuild(r) == Missing \in {manifest[r], tables[r]}

\* A request arrives while the server still accepts connections.
Request(t, k) ==
  /\ serving = "serving"
  /\ Goto(t, "new", "lock")
  /\ req' = [req EXCEPT ![t] = k]
  /\ UNCHANGED <<corpusVars, graphVars, cacheVars, buildLock, ident, existing, entry>>

\* MUTANT of Acquire: the build lock does not exclude other builders of the key.
AcquireUnlocked(t) ==
  LET r == RootOf[req[t]]
  IN  /\ Goto(t, "lock", "decide")
      /\ buildLock' = [buildLock EXCEPT ![req[t]] = t]
      /\ ident' = [ident EXCEPT ![t] = manifest[r]]
      /\ overtaken' = overtaken \cup {u \in {t} : UnderRebuild(r)}
      /\ UNCHANGED <<manifest, tables, rebuilds, serving, graphVars, cacheVars,
                     req, existing, entry>>

\* with build_lock: identity = corpus_version_string(corpus_root).  Without a
\* manifest the identity is '<name>:unknown', which is no error.
Acquire(t) ==
  LET r == RootOf[req[t]]
  IN  /\ Goto(t, "lock", "decide")
      /\ buildLock[req[t]] = NoThread
      /\ buildLock' = [buildLock EXCEPT ![req[t]] = t]
      /\ ident' = [ident EXCEPT ![t] = manifest[r]]
      /\ overtaken' = overtaken \cup {u \in {t} : UnderRebuild(r)}
      /\ UNCHANGED <<manifest, tables, rebuilds, serving, graphVars, cacheVars,
                     req, existing, entry>>

\* The manifest goes between is_file() and read_text(): the error ends the
\* request and the with-statement frees the lock.
IdentityFails(t) ==
  /\ Goto(t, "lock", "done")
  /\ buildLock[req[t]] = NoThread
  /\ manifest[RootOf[req[t]]] = Missing
  /\ UNCHANGED <<corpusVars, graphVars, cacheVars, buildLock, req, ident, existing, entry>>

\* MUTANT of Reuse: the identity of the cached graph is not compared.
ReuseAnyIdentity(t) ==
  LET k == req[t] g == cached[req[t]]
  IN  /\ Goto(t, "decide", "cursor")
      /\ g # NoThread /\ g \notin stale
      /\ older' = MoveToEnd(k, CachedKeys(cached))
      /\ refcount' = [refcount EXCEPT ![g] = @ + 1]
      /\ entry' = [entry EXCEPT ![t] = g]
      /\ buildLock' = [buildLock EXCEPT ![k] = NoThread]
      /\ UNCHANGED <<corpusVars, graphVars, cached, closed, stale, req, ident, existing>>

\* The hit: found, promoted and counted in one critical section.
Reuse(t) ==
  LET k == req[t] g == cached[req[t]]
  IN  /\ Goto(t, "decide", "cursor")
      /\ g # NoThread /\ ident[g] = ident[t] /\ g \notin stale
      /\ older' = MoveToEnd(k, CachedKeys(cached))
      /\ refcount' = [refcount EXCEPT ![g] = @ + 1]
      /\ entry' = [entry EXCEPT ![t] = g]
      /\ buildLock' = [buildLock EXCEPT ![k] = NoThread]
      /\ UNCHANGED <<corpusVars, graphVars, cached, closed, stale, req, ident, existing>>

\* The miss: `existing` keeps what was found, to be marked stale at the insert.
Miss(t) ==
  LET g == cached[req[t]]
  IN  /\ Goto(t, "decide", "open")
      /\ ~(g # NoThread /\ ident[g] = ident[t] /\ g \notin stale)
      /\ existing' = [existing EXCEPT ![t] = g]
      /\ UNCHANGED <<corpusVars, graphVars, cacheVars, buildLock, req, ident, entry>>

\* CreditGraph.open finds a manifest and starts reading the tables, of which a
\* rebuild may already have removed some, into a new connection.
OpenGraph(t) ==
  /\ Goto(t, "open", "opening")
  /\ manifest[RootOf[req[t]]] # Missing
  /\ opened' = opened \cup {t}
  /\ entry' = [entry EXCEPT ![t] = t]
  /\ content' = [content EXCEPT ![t] = {tables[RootOf[req[t]]]}]
  /\ UNCHANGED <<corpusVars, cacheVars, buildLock, req, ident, existing>>

\* CreditGraph.open finds no manifest and raises before it connects.
OpenRefused(t) ==
  /\ Goto(t, "open", "done")
  /\ manifest[RootOf[req[t]]] = Missing
  /\ existing' = [existing EXCEPT ![t] = NoThread]
  /\ buildLock' = [buildLock EXCEPT ![req[t]] = NoThread]
  /\ UNCHANGED <<corpusVars, graphVars, cacheVars, req, ident, entry>>

\* The build ends, having read what the tables hold now too.  The new entry's
\* identity is the one read before the build (ident of the thread that built it).
FinishOpen(t) ==
  /\ Goto(t, "opening", "insert")
  /\ content' = [content EXCEPT ![t] = @ \cup {tables[RootOf[req[t]]]}]
  /\ refcount' = [refcount EXCEPT ![t] = 1]
  /\ UNCHANGED <<corpusVars, opened, cached, older, closed, stale, buildLock,
                 req, ident, existing, entry>>

\* MUTANT of OpenFails: the exception leaves the build lock taken.
OpenFailsKeepingLock(t) ==
  /\ Goto(t, "opening", "done")
  /\ closed' = closed \cup {entry[t]}
  /\ entry' = [entry EXCEPT ![t] = NoThread]
  /\ existing' = [existing EXCEPT ![t] = NoThread]
  /\ UNCHANGED <<corpusVars, graphVars, cached, older, refcount, stale, buildLock, req, ident>>

\* open() raises: nothing enters the cache and the request ends.  The half-open
\* connection goes with the exception.
OpenFails(t) ==
  /\ Goto(t, "opening", "done")
  /\ closed' = closed \cup {entry[t]}
  /\ entry' = [entry EXCEPT ![t] = NoThread]
  /\ existing' = [existing EXCEPT ![t] = NoThread]
  /\ buildLock' = [buildLock EXCEPT ![req[t]] = NoThread]
  /\ UNCHANGED <<corpusVars, graphVars, cached, older, refcount, stale, req, ident>>

\* MUTANT of Insert: the replaced entry is closed even while it is in use.
InsertClosingReplaced(t) ==
  LET k == req[t] g == entry[t] old == existing[t]
      c == [cached EXCEPT ![k] = g]
  IN  /\ Goto(t, "insert", "cursor")
      /\ stale' = stale \cup ({old} \ {NoThread})
      /\ EvictExcess(c, MoveToEnd(k, CachedKeys(c)), refcount, {old} \ {NoThread})
      /\ existing' = [existing EXCEPT ![t] = NoThread]
      /\ buildLock' = [buildLock EXCEPT ![k] = NoThread]
      /\ UNCHANGED <<corpusVars, graphVars, refcount, req, ident, entry>>

\* MUTANT of Insert: the replaced entry is neither marked stale nor closed.
InsertForgettingReplaced(t) ==
  LET k == req[t] g == entry[t]
      c == [cached EXCEPT ![k] = g]
  IN  /\ Goto(t, "insert", "cursor")
      /\ EvictExcess(c, MoveToEnd(k, CachedKeys(c)), refcount, {})
      /\ existing' = [existing EXCEPT ![t] = NoThread]
      /\ buildLock' = [buildLock EXCEPT ![k] = NoThread]
      /\ UNCHANGED <<corpusVars, graphVars, refcount, stale, req, ident, entry>>

\* The new entry replaces the one found at the miss, and the cache is trimmed.
Insert(t) ==
  LET k == req[t] g == entry[t] old == existing[t]
      c == [cached EXCEPT ![k] = g]
  IN  /\ Goto(t, "insert", "cursor")
      /\ stale' = stale \cup ({old} \ {NoThread})
      /\ EvictExcess(c, MoveToEnd(k, CachedKeys(c)), refcount,
                     {x \in {old} \ {NoThread} : refcount[x] = 0})
      /\ existing' = [existing EXCEPT ![t] = NoThread]
      /\ buildLock' = [buildLock EXCEPT ![k] = NoThread]
      /\ UNCHANGED <<corpusVars, graphVars, refcount, req, ident, entry>>

\* entry.graph.cursor(): the request now queries the graph, holding no lock.
\* On a closed connection it raises, and Release follows from "cursor".
OpenCursor(t) ==
  /\ entry[t] \notin closed
  /\ Goto(t, "cursor", "using")
  /\ UNCHANGED <<corpusVars, graphVars, cacheVars, buildLock, req, ident, existing, entry>>

\* MUTANT of Release: eviction runs on the insert path only.
ReleaseWithoutEviction(t) ==
  LET g == entry[t]
      refs == [refcount EXCEPT ![g] = @ - 1]
  IN  /\ pc[t] = "using" \/ (pc[t] = "cursor" /\ g \in closed)
      /\ pc' = [pc EXCEPT ![t] = "done"]
      /\ refcount' = refs
      /\ closed' = closed \cup {x \in {g} : x \in stale /\ refs[x] = 0}
      /\ entry' = [entry EXCEPT ![t] = NoThread]
      /\ UNCHANGED <<corpusVars, graphVars, cached, older, stale, buildLock,
                     req, ident, existing>>

\* The checkout ends: drop the reference, close a replaced graph nobody uses
\* any more, or trim the cache when a live entry went idle.
Release(t) ==
  LET g == entry[t]
      refs == [refcount EXCEPT ![g] = @ - 1]
  IN  /\ pc[t] = "using" \/ (pc[t] = "cursor" /\ g \in closed)
      /\ pc' = [pc EXCEPT ![t] = "done"]
      /\ refcount' = refs
      /\ entry' = [entry EXCEPT ![t] = NoThread]
      /\ \/ /\ refs[g] = 0 /\ g \notin stale
            /\ EvictExcess(cached, older, refs, {})
         \/ /\ refs[g] = 0 /\ g \in stale
            /\ closed' = closed \cup {g}
            /\ UNCHANGED <<cached, older>>
         \/ /\ refs[g] # 0
            /\ UNCHANGED <<cached, older, closed>>
      /\ UNCHANGED <<corpusVars, graphVars, stale, buildLock, req, ident, existing>>

-----------------------------------------------------------------------------
(***************************************************************************)
(* What surrounds the cache.                                               *)
(***************************************************************************)

\* A request that read its corpus's identity and has not finished building.
Reading(r) == {t \in Threads : pc[t] \in {"decide", "open", "opening"} /\ RootOf[req[t]] = r}

\* `shutil.rmtree(final_root)` of a rebuild, in the order the directory lists:
\* the manifest goes ...
UnlinkManifest(r) ==
  /\ rebuilds[r] < MaxRebuilds /\ manifest[r] # Missing
  /\ manifest' = [manifest EXCEPT ![r] = Missing]
  /\ overtaken' = overtaken \cup Reading(r)
  /\ UNCHANGED <<tables, rebuilds, serving, graphVars, cacheVars, threadVars, buildLock>>

\* ... and the tables go, one file after the other.
UnlinkTables(r) ==
  /\ rebuilds[r] < MaxRebuilds /\ tables[r] # Missing
  /\ tables' = [tables EXCEPT ![r] = Missing]
  /\ overtaken' = overtaken \cup Reading(r)
  /\ UNCHANGED <<manifest, rebuilds, serving, graphVars, cacheVars, threadVars, buildLock>>

\* `staging_root.replace(final_root)`: the corpus made in staging, its manifest
\* with it, is put in place whole.  It may be one that was there before.
PutInPlace(r, c) ==
  /\ rebuilds[r] < MaxRebuilds /\ manifest[r] = Missing /\ tables[r] = Missing
  /\ manifest' = [manifest EXCEPT ![r] = c]
  /\ tables' = [tables EXCEPT ![r] = c]
  /\ rebuilds' = [rebuilds EXCEPT ![r] = @ + 1]
  /\ overtaken' = overtaken \cup Reading(r)
  /\ UNCHANGED <<serving, graphVars, cacheVars, threadVars, buildLock>>

\* A step of a rebuild of some corpus.
Rebuild ==
  \E r \in Roots :
    UnlinkManifest(r) \/ UnlinkTables(r) \/ \E c \in Contents : PutInPlace(r, c)

\* Ctrl-C in main(): server_close() stops accepting.  The request threads of a
\* ThreadingHTTPServer are daemons, so it does not join them.
ServerClose ==
  /\ serving = "serving"
  /\ serving' = "stopping"
  /\ UNCHANGED <<manifest, tables, rebuilds, overtaken, graphVars, cacheVars,
                 threadVars, buildLock>>

\* close_all(): every cached graph is closed, whatever its refcount.
CloseAll ==
  /\ serving = "stopping"
  /\ serving' = "closed"
  /\ closed' = closed \cup {cached[k] : k \in CachedKeys(cached)}
  /\ cached' = [k \in Keys |-> NoThread]
  /\ older' = {}
  /\ UNCHANGED <<manifest, tables, rebuilds, overtaken, graphVars, refcount, stale,
                 threadVars, buildLock>>

Init ==
  /\ manifest = [r \in Roots |-> CHOOSE c \in Contents : TRUE] /\ tables = manifest
  /\ rebuilds = [r \in Roots |-> 0] /\ overtaken = {} /\ serving = "serving"
  /\ cached = [k \in Keys |-> NoThread] /\ older = {}
  /\ opened = {} /\ closed = {} /\ stale = {}
  /\ content = [g \in Threads |-> {}]
  /\ refcount = [g \in Threads |-> 0]
  /\ buildLock = [k \in Keys |-> NoThread]
  /\ pc = [t \in Threads |-> "new"]
  /\ req \in [Threads -> {CHOOSE k \in Keys : TRUE}]
  /\ ident = [t \in Threads |-> Missing]
  /\ existing = [t \in Threads |-> NoThread] /\ entry = [t \in Threads |-> NoThread]

\* The steps a request takes once it has arrived.
Step(t) ==
  \/ Acquire(t) \/ IdentityFails(t) \/ Reuse(t) \/ Miss(t)
  \/ OpenGraph(t) \/ OpenRefused(t) \/ FinishOpen(t) \/ OpenFails(t) \/ Insert(t)
  \/ OpenCursor(t) \/ Release(t)

Next ==
  \/ \E t \in Threads : Step(t) \/ \E k \in Keys : Request(t, k)
  \/ Rebuild \/ ServerClose \/ CloseAll

Spec == Init /\ [][Next]_vars

\* Every request thread is scheduled; an open that hangs is not modelled.
FairSpec == Spec /\ \A t \in Threads : WF_vars(Step(t))

-----------------------------------------------------------------------------
(***************************************************************************)
(* Properties.                                                             *)
(***************************************************************************)
InFlight == {"insert", "cursor", "using"}
Holders(g) == {t \in Threads : entry[t] = g /\ pc[t] \in InFlight}

\* Every variable stays in its type.
TypeOK ==
  /\ manifest \in [Roots -> Contents \cup {Missing}]
  /\ tables \in [Roots -> Contents \cup {Missing}]
  /\ rebuilds \in [Roots -> 0..MaxRebuilds] /\ overtaken \in SUBSET Threads
  /\ serving \in {"serving", "stopping", "closed"}
  /\ cached \in [Keys -> opened \cup {NoThread}] /\ older \in SUBSET (Keys \X Keys)
  /\ opened \in SUBSET Threads /\ closed \in SUBSET opened /\ stale \in SUBSET opened
  /\ content \in [Threads -> SUBSET (Contents \cup {Missing})]
  /\ refcount \in [Threads -> Nat]
  /\ buildLock \in [Keys -> Threads \cup {NoThread}]
  /\ pc \in [Threads -> PCs] /\ req \in [Threads -> Keys]
  /\ ident \in [Threads -> Contents \cup {Missing}]
  /\ existing \in [Threads -> opened \cup {NoThread}]
  /\ entry \in [Threads -> opened \cup {NoThread}]

\* Until close_all runs, no graph is closed while a checkout holds it: neither
\* an eviction for another key, nor a replacement after a rebuild of the corpus,
\* closes the connection under a running cursor (class docstring, "Refcounted
\* rather than closed-on-evict").
NoUseAfterClose ==
  serving # "closed" =>
    \A t \in Threads : pc[t] \in InFlight => entry[t] \notin closed

\* What close_all's docstring expects at shutdown: "nothing should still be
\* checking one out".
NothingCheckedOut == serving = "closed" => \A t \in Threads : pc[t] \notin InFlight

\* The requests whose graph came from the cache.
Hits == {t \in Threads : pc[t] \in {"cursor", "using"} /\ entry[t] # t}

\* A request served from the cache gets a graph built wholly from the corpus
\* whose identity the request read, however often that corpus was rebuilt: only
\* a graph whose own build met a rebuild may hold something else.
HitIsFresh == \A t \in Hits : entry[t] \notin overtaken => content[entry[t]] = {ident[t]}

\* What the class docstring says: a corpus regenerated at the same root "is
\* detected and the stale graph is replaced, never silently reused".  A request
\* that finds the corpus in place gets a graph of that corpus.
StaleNeverReused == \A t \in Hits \ overtaken : content[entry[t]] = {ident[t]}

\* Until close_all runs, a graph nobody can reach any more has been closed:
\* an open one is in the cache, being built, or held by a checkout.
NoLeakedConnection ==
  serving # "closed" =>
    \A g \in opened \ closed :
      \/ \E k \in Keys : cached[k] = g
      \/ \E t \in Threads : entry[t] = g /\ pc[t] \in InFlight \cup {"opening"}

\* The cache exceeds max_entries only by entries in use: when no checkout is in
\* flight it has settled back to its bound.
OverflowIsPinned ==
  Cardinality(CachedKeys(cached)) > MaxEntries =>
    \A k \in CachedKeys(cached) : Holders(cached[k]) # {}

\* Concurrent requests for one corpus share one build: two graphs of the same
\* key and identity are open at the same time only after another corpus was
\* cached under the key in between, and replaced one of them while it was in use.
OneGraphPerIdentity ==
  serving # "closed" =>
    \A g, h \in opened \ closed :
      g # h /\ req[g] = req[h] /\ ident[g] = ident[h] => g \in stale \/ h \in stale

\* Every request that arrives is answered: nobody waits forever for a build lock.
RequestsFinish == \A t \in Threads : pc[t] = "lock" ~> pc[t] = "done"

=============================================================================
