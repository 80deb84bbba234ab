------------------------------ MODULE Connect ------------------------------
(***************************************************************************)
(* The Connect page (apps/web/src/game/connect.ts): two record pickers, a   *)
(* role filter, Search, Swap and Copy Link, and the address bar and history *)
(* kept in step with them (connectUrlState.ts).                            *)
(*                                                                         *)
(* A search awaits the connection graph and, unfiltered, the evidence       *)
(* registry; both are loaded once per page.  Everything stays editable      *)
(* meanwhile, so each await is followed by `if (stale()) return`: the       *)
(* generation a search was started in is no longer searchGeneration.  That  *)
(* counter is modelled by what it decides: each started search and each     *)
(* registered evidence callback is live until searchGeneration++.           *)
(*                                                                         *)
(* Browser events run one at a time, and only once every continuation whose *)
(* promise is settled has run (Quiet).  A route is the pair and the filter  *)
(* it was found under; which route ranking picks, the alternate route (drawn *)
(* in the same callback), album art and contributor links are left out.     *)
(***************************************************************************)
EXTENDS Naturals, Sequences, FiniteSets

CONSTANTS Records,    \* the records of the catalog
          Gone,       \* a record id an old link may name, no longer in it
          Filters,    \* the role filters, besides "none"
          Connected,  \* the <<{a, b}, mode>> for which a route exists
          Links,      \* the address bar's content when the page is opened
          MaxHistory, \* bound: the entries the browser keeps, the oldest dropped
          MaxPending, \* bound: the searches and callbacks that wait at one time
          None

Modes == Filters \cup {"none"}
Routes == [from : Records, to : Records, mode : Modes]
\* What the address bar can say: nothing, one record, or a pair and a filter.
Urls == {None} \cup [from : Records \cup {Gone}, to : Records \cup {Gone, None}, mode : Modes]

ASSUME ConnectAssumption ==
  /\ Gone \notin Records /\ "none" \notin Filters
  /\ None \notin Records \cup {Gone} \cup Routes \cup [route : Routes, released : BOOLEAN]
  /\ Links \subseteq Urls /\ {MaxHistory, MaxPending} \subseteq Nat \ {0}

VARIABLES
  albumA, albumB, \* the selected records
  mode,           \* the selected role filter
  catalog,        \* catalogState: loading (catalogPending), unavailable or ready
  graph,          \* the memoized graph promise: idle, loading or ready
  evidence,       \* the memoized evidence promise: idle, loading or ready
  searches,       \* the started runSearch calls that await something
  patches,        \* the registered evidence callbacks of rendered filtered routes
  hops,           \* the route rendered in the results panel
  patched,        \* the route whose releases its hop cards show
  results,        \* ~resultsEl.hidden
  copyLink,       \* ~copyLinkButton.hidden
  status,         \* the status line: none, loading, noRoute or error
  disabled,       \* searchButton.disabled and swapButton.disabled
  lastSearch,     \* the route Swap reverses, and whether its releases are in
  entries, at     \* the page's history entries, and the current one

selection == <<albumA, albumB, mode>>
panel == <<hops, patched, results>>
loads == <<catalog, graph, evidence>>
history == <<entries, at>>
connectVars == <<selection, loads, searches, patches, panel, copyLink, status, disabled,
                 lastSearch, history>>

Url == entries[at]
Pair(u) == <<u.from, u.to>>
Reversed(r) == [r EXCEPT !.from = r.to, !.to = r.from]
HasRoute(s) == <<{s.from, s.to}, s.mode>> \in Connected
BothPicked == albumA # None /\ albumB # None /\ albumA # albumB
Started(promise) == IF promise = "idle" THEN "loading" ELSE promise

\* parseConnectUrlParams: a pair of two different ids.
IsPair(u) == u # None /\ u.to # None /\ u.from # u.to

\* A continuation whose promise is settled: it runs before the next event.
Runnable(s) ==
  \/ s.stage = "graphError"
  \/ s.stage = "graph" /\ graph = "ready"
  \/ s.stage = "evidence" /\ evidence = "ready"

Quiet == ~(\E s \in searches : Runnable(s)) /\ ~(patches # {} /\ evidence = "ready")

\* searchGeneration++
Superseded(S) == {[s EXCEPT !.live = FALSE] : s \in S}
NextGeneration == searches' = Superseded(searches) /\ patches' = Superseded(patches)

updateButton ==
  /\ disabled' = ~BothPicked'
  /\ graph' = IF albumA' # None \/ albumB' # None THEN Started(graph) ELSE graph

\* MUTANT of isSameConnectAlbumPair: compares the filter as well.
isSameConnectPair(u, r) == IsPair(u) /\ Pair(u) = Pair(r) /\ u.mode = r.mode

isSameConnectAlbumPair(u, r) == IsPair(u) /\ Pair(u) = Pair(r)

\* replaceState for the pair the address bar names, pushState for another one,
\* which drops the entries ahead.
syncUrl(r) ==
  IF isSameConnectAlbumPair(Url, r)
  THEN entries' = [entries EXCEPT ![at] = r] /\ UNCHANGED at
  ELSE LET grown == Append(SubSeq(entries, 1, at), r)
       IN  IF Len(grown) > MaxHistory
           THEN entries' = Tail(grown) /\ at' = MaxHistory
           ELSE entries' = grown /\ at' = at + 1

-----------------------------------------------------------------------------
(***************************************************************************)
(* runSearch.                                                              *)
(***************************************************************************)

Search(from, to, m, skip) ==
  [from |-> from, to |-> to, mode |-> m, skip |-> skip, stage |-> "graph", live |-> TRUE]
Route(s) == [from |-> s.from, to |-> s.to, mode |-> s.mode]

\* Up to the first await.
runSearch(from, to, m, skip) ==
  /\ Cardinality(searches) + Cardinality(patches) < MaxPending
  /\ searches' = Superseded(searches) \cup {Search(from, to, m, skip)}
  /\ patches' = Superseded(patches)
  /\ results' = FALSE /\ status' = "loading" /\ disabled' = TRUE
  /\ lastSearch' = None
  /\ graph' = Started(graph)
  /\ evidence' = IF m = "none" THEN Started(evidence) ELSE evidence
  /\ UNCHANGED <<hops, patched, copyLink>>

\* if (stale()) return
Abandon(s) ==
  /\ Runnable(s) /\ ~s.live
  /\ searches' = searches \ {s}
  /\ UNCHANGED <<selection, loads, patches, panel, copyLink, status, disabled,
                 lastSearch, history>>

\* The search ends without a route, and says so.
Ends(s, message) ==
  /\ searches' = searches \ {s}
  /\ status' = message
  /\ UNCHANGED <<selection, catalog, panel, copyLink, lastSearch, history>>
  /\ updateButton

\* The graph could not be loaded; updateButton at once warms it again.
GraphError(s) ==
  /\ s.stage = "graphError" /\ s.live
  /\ Ends(s, "error")
  /\ UNCHANGED <<evidence, patches>>

\* The route is rendered, becomes the one Swap reverses, and is published.
Rendered(s, released) ==
  /\ searches' = searches \ {s}
  /\ status' = "none" /\ results' = TRUE /\ copyLink' = TRUE
  /\ hops' = Route(s)
  /\ patched' = IF released THEN Route(s) ELSE None
  /\ lastSearch' = [route |-> Route(s), released |-> released]
  /\ IF s.skip THEN UNCHANGED history ELSE syncUrl(Route(s))
  /\ UNCHANGED <<selection, catalog>>
  /\ updateButton

\* Filtered: the route needs no evidence, which is patched in when it arrives.
FilteredRoute(s) ==
  /\ s.stage = "graph" /\ graph = "ready" /\ s.live /\ s.mode # "none"
  /\ IF HasRoute(s)
     THEN /\ Rendered(s, FALSE)
          /\ patches' = patches \cup {[route |-> Route(s), live |-> TRUE]}
          /\ evidence' = Started(evidence)
     ELSE Ends(s, "noRoute") /\ UNCHANGED <<patches, evidence>>

\* Unfiltered: ranking needs the evidence first.
AwaitEvidence(s) ==
  /\ s.stage = "graph" /\ graph = "ready" /\ s.live /\ s.mode = "none"
  /\ searches' = (searches \ {s}) \cup {[s EXCEPT !.stage = "evidence"]}
  /\ UNCHANGED <<selection, loads, patches, panel, copyLink, status, disabled,
                 lastSearch, history>>

RankedRoute(s) ==
  /\ s.stage = "evidence" /\ evidence = "ready" /\ s.live
  /\ IF HasRoute(s) THEN Rendered(s, TRUE) ELSE Ends(s, "noRoute")
  /\ UNCHANGED <<patches, evidence>>

\* evidencePromiseToEnhance.then: hop card i gets the release of the search's
\* hop i, and the releases join the map lastSearch holds.
PatchReleases(p) ==
  /\ evidence = "ready"
  /\ patches' = patches \ {p}
  /\ IF p.live
     THEN /\ patched' = p.route
          /\ lastSearch' = IF lastSearch = None THEN None
                           ELSE [lastSearch EXCEPT !.released = TRUE]
     ELSE UNCHANGED <<patched, lastSearch>>
  /\ UNCHANGED <<selection, loads, searches, hops, results, copyLink, status, disabled,
                 history>>

-----------------------------------------------------------------------------
(***************************************************************************)
(* restoreFromUrl, at the first catalog and on popstate.                   *)
(***************************************************************************)

\* Both records are in the catalog: the pair is selected and searched for.
RestorePair(u) ==
  /\ {u.from, u.to} \subseteq Records
  /\ albumA' = u.from /\ albumB' = u.to /\ mode' = u.mode
  /\ runSearch(u.from, u.to, u.mode, TRUE)

\* A dead link is cleaned off the address bar.
CleanDeadLink(u) ==
  /\ ~({u.from, u.to} \subseteq Records)
  /\ entries' = [entries EXCEPT ![at'] = None]
  /\ UNCHANGED <<selection, graph, evidence, searches, patches, panel, copyLink,
                 disabled, lastSearch>>

\* A link that names one record, which is selected.
PrefillFirst(u) ==
  /\ albumA' = u.from
  /\ UNCHANGED <<albumB, mode, evidence, searches, patches, panel, copyLink, lastSearch>>
  /\ updateButton

\* Back at an entry without a pair: the page is as before any search.
ClearAll ==
  /\ albumA' = None /\ albumB' = None
  /\ NextGeneration
  /\ results' = FALSE /\ copyLink' = FALSE /\ status' = "none" /\ lastSearch' = None
  /\ UNCHANGED <<mode, evidence, hops, patched>>
  /\ updateButton

-----------------------------------------------------------------------------
(***************************************************************************)
(* Events.                                                                 *)
(***************************************************************************)

\* ensureCatalog succeeds, for the first and only time: the link is restored.
CatalogArrives ==
  /\ Quiet /\ catalog = "loading" /\ catalog' = "ready"
  /\ UNCHANGED at
  /\ CASE IsPair(Url) ->
            \/ RestorePair(Url) /\ UNCHANGED entries
            \/ CleanDeadLink(Url) /\ status' = "none"
       [] Url # None /\ ~IsPair(Url) /\ Url.to = None /\ Url.from \in Records ->
            PrefillFirst(Url) /\ status' = "none" /\ UNCHANGED entries
       [] OTHER ->
            /\ status' = "none"
            /\ UNCHANGED <<selection, graph, evidence, searches, patches, panel, copyLink,
                           disabled, lastSearch, entries>>

CatalogFails ==
  /\ Quiet /\ catalog = "loading" /\ catalog' = "unavailable"
  /\ status' = "error"
  /\ UNCHANGED <<selection, graph, evidence, searches, patches, panel, copyLink, disabled,
                 lastSearch, history>>

GraphArrives ==
  /\ Quiet /\ graph = "loading" /\ graph' = "ready"
  /\ UNCHANGED <<selection, catalog, evidence, searches, patches, panel, copyLink, status,
                 disabled, lastSearch, history>>

\* Every search that awaits the graph gets the error; the promise is evicted.
GraphFails ==
  /\ Quiet /\ graph = "loading" /\ graph' = "idle"
  /\ searches' = {IF s.stage = "graph" THEN [s EXCEPT !.stage = "graphError"] ELSE s :
                    s \in searches}
  /\ UNCHANGED <<selection, catalog, evidence, patches, panel, copyLink, status, disabled,
                 lastSearch, history>>

\* A failed fetch counts: it leaves an empty index.
EvidenceArrives ==
  /\ Quiet /\ evidence = "loading" /\ evidence' = "ready"
  /\ UNCHANGED <<selection, catalog, graph, searches, patches, panel, copyLink, status,
                 disabled, lastSearch, history>>

Select(which, x) ==
  IF which = "a" THEN albumA' = x /\ UNCHANGED albumB ELSE albumB' = x /\ UNCHANGED albumA

\* MUTANT of onSelect: a search in flight is not superseded.
onSelectKeepingGeneration(which, x) ==
  /\ Quiet
  /\ Select(which, x)
  /\ lastSearch' = None /\ results' = FALSE /\ copyLink' = FALSE
  /\ UNCHANGED <<mode, evidence, hops, patched, searches, patches, status, history>>
  /\ updateButton

\* The pickers' callback.
onSelect(which, x) ==
  /\ Quiet
  /\ Select(which, x)
  /\ lastSearch' = None /\ NextGeneration /\ results' = FALSE /\ copyLink' = FALSE
  /\ UNCHANGED <<mode, evidence, hops, patched, status, history>>
  /\ updateButton

\* A suggestion is picked.
Pick(which, x) == catalog = "ready" /\ onSelect(which, x) /\ UNCHANGED catalog

\* A keystroke drops the selection, and retries a catalog that failed.
Type(which) ==
  /\ onSelect(which, None)
  /\ catalog' = IF catalog = "unavailable" THEN "loading" ELSE catalog

SearchClick ==
  /\ Quiet /\ ~disabled /\ albumA # None /\ albumB # None
  /\ runSearch(albumA, albumB, mode, FALSE)
  /\ UNCHANGED <<selection, catalog, history>>

\* The selections are exchanged; a route on screen is reversed and republished.
Swap ==
  /\ Quiet /\ ~disabled /\ albumA # None /\ albumB # None
  /\ NextGeneration
  /\ albumA' = albumB /\ albumB' = albumA
  /\ IF lastSearch # None
     THEN LET r == Reversed(lastSearch.route)
          IN  /\ hops' = r /\ lastSearch' = [lastSearch EXCEPT !.route = r]
              /\ patched' = IF lastSearch.released THEN r ELSE None
              /\ copyLink' = TRUE /\ syncUrl(r)
     ELSE UNCHANGED <<hops, patched, lastSearch, copyLink, history>>
  /\ UNCHANGED <<mode, catalog, evidence, results, status>>
  /\ updateButton

selectModeChip(m) ==
  /\ Quiet /\ m # mode /\ mode' = m
  /\ NextGeneration
  /\ UNCHANGED <<albumA, albumB, loads, panel, copyLink, status, disabled, lastSearch, history>>

\* Back, Forward, or a jump in the history.
PopState(i) ==
  /\ Quiet /\ i # at /\ at' = i
  /\ UNCHANGED catalog
  /\ IF IsPair(entries[i])
     THEN \/ RestorePair(entries[i]) /\ UNCHANGED entries
          \/ CleanDeadLink(entries[i]) /\ UNCHANGED status
     ELSE ClearAll /\ UNCHANGED entries

ConnectInit ==
  /\ albumA = None /\ albumB = None /\ mode = "none"
  /\ catalog = "loading" /\ graph = "idle" /\ evidence = "idle"
  /\ searches = {} /\ patches = {}
  /\ hops = None /\ patched = None /\ results = FALSE /\ copyLink = FALSE
  /\ status = "none" /\ disabled = TRUE /\ lastSearch = None
  /\ \E u \in Links : entries = <<u>>
  /\ at = 1

Continuation ==
  \/ \E s \in searches :
       \/ Abandon(s) \/ GraphError(s) \/ FilteredRoute(s) \/ AwaitEvidence(s) \/ RankedRoute(s)
  \/ \E p \in patches : PatchReleases(p)

ConnectNext ==
  \/ Continuation
  \/ CatalogArrives \/ CatalogFails \/ GraphArrives \/ GraphFails \/ EvidenceArrives
  \/ \E which \in {"a", "b"} : Type(which) \/ \E x \in Records : Pick(which, x)
  \/ SearchClick \/ Swap \/ \E m \in Modes : selectModeChip(m)
  \/ \E i \in DOMAIN entries : PopState(i)

ConnectSpec == ConnectInit /\ [][ConnectNext]_connectVars

-----------------------------------------------------------------------------
(***************************************************************************)
(* Properties.                                                             *)
(***************************************************************************)

\* Every variable stays in its type; what is selected is in the catalog.
ConnectTypeOK ==
  /\ {albumA, albumB} \subseteq Records \cup {None} /\ mode \in Modes
  /\ catalog \in {"loading", "unavailable", "ready"}
  /\ graph \in {"idle", "loading", "ready"} /\ evidence \in {"idle", "loading", "ready"}
  /\ searches \subseteq [from : Records, to : Records, mode : Modes, skip : BOOLEAN,
                         stage : {"graph", "graphError", "evidence"}, live : BOOLEAN]
  /\ patches \subseteq [route : Routes, live : BOOLEAN]
  /\ {hops, patched} \subseteq Routes \cup {None}
  /\ results \in BOOLEAN /\ copyLink \in BOOLEAN /\ disabled \in BOOLEAN
  /\ status \in {"none", "loading", "noRoute", "error"}
  /\ lastSearch \in {None} \cup [route : Routes, released : BOOLEAN]
  /\ entries \in Seq(Urls) /\ at \in DOMAIN entries

\* Whatever was edited while searches were in flight, the route on screen is the
\* one between the two records selected now, first to second, and the address bar
\* names that route and the filter it was found under, not the one selected since.
ShownIsSelected ==
  results => /\ hops # None /\ Pair(hops) = <<albumA, albumB>>
             /\ copyLink /\ Url = hops

\* Back never stays on the pair it left: re-running a pair under another filter,
\* restoring one and swapping back and forth never leave two entries of one pair.
BackLeavesPair ==
  \A i \in 1..(Len(entries) - 1) :
    IsPair(entries[i]) /\ IsPair(entries[i + 1]) => Pair(entries[i]) # Pair(entries[i + 1])

\* ADR 0059: editing stays possible during a request because "a genuinely NEW
\* search" may supersede it.  Two records picked and both buttons disabled means
\* that a search is under way that will enable them.
NeverLockedOut == BothPicked /\ disabled => \E s \in searches : s.live

=============================================================================
