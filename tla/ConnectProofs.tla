--------------------------- MODULE ConnectProofs ---------------------------
(***************************************************************************)
(* Machine-checked proofs about Connect, for any records, filters, routes, *)
(* links, history length and number of pending searches.                   *)
(***************************************************************************)
EXTENDS Connect, SequenceTheorems, TLAPS

\* The history is one, never longer than the browser keeps it, and once the catalog
\* is there a pair it names is of known records.
HistoryInv ==
  /\ entries \in Seq(Urls) /\ at \in DOMAIN entries /\ Len(entries) <= MaxHistory
  /\ catalog = "ready" =>
       \A i \in DOMAIN entries :
         IsPair(entries[i]) => {entries[i].from, entries[i].to} \subseteq Records

\* Before the catalog is there, nothing is selected, searched for or shown.
FreshInv ==
  catalog # "ready" =>
    /\ albumA = None /\ albumB = None /\ searches = {} /\ patches = {}
    /\ ~results /\ lastSearch = None /\ Len(entries) = 1

\* At most one search is live; it is for the selected records, nothing is shown
\* meanwhile, and a restored one is what the address bar says.
LiveInv ==
  /\ \A s, t \in searches : s.live /\ t.live => s = t
  /\ \A s \in searches : s.live =>
       /\ ~results /\ s.from = albumA /\ s.to = albumB
       /\ s.skip => Url = Route(s)

\* A route is shown while Swap has one to reverse, and it is that one.
PageInv ==
  /\ results <=> lastSearch # None
  /\ lastSearch # None =>
       /\ lastSearch.route = hops /\ Pair(hops) = <<albumA, albumB>>
       /\ copyLink /\ Url = hops

IInv == ConnectTypeOK /\ HistoryInv /\ FreshInv /\ LiveInv /\ PageInv /\ BackLeavesPair

-----------------------------------------------------------------------------
(***************************************************************************)
(* The history.                                                            *)
(***************************************************************************)

\* A route is an address of two different known records when it has a pair.
LEMMA RoutesAreUrls ==
  ASSUME NEW r \in Routes
  PROVE  r \in Urls /\ r # None /\ r.to # None /\ {r.from, r.to} \subseteq Records
BY ConnectAssumption DEF Routes, Urls

\* syncUrl leaves a history of the same kind whose current entry is the route.
LEMMA SyncedHistory ==
  ASSUME HistoryInv, catalog' = catalog, BackLeavesPair, NEW r \in Routes, syncUrl(r)
  PROVE  HistoryInv' /\ BackLeavesPair' /\ Url' = r
<1>1. r \in Urls /\ r # None /\ r.to # None /\ {r.from, r.to} \subseteq Records
  BY RoutesAreUrls
<1>2. /\ Len(entries) \in Nat /\ DOMAIN entries = 1 .. Len(entries) /\ at \in 1 .. Len(entries)
      /\ \A i \in 1 .. Len(entries) : entries[i] \in Urls
  BY ElementOfSeq DEF HistoryInv
<1>3. CASE isSameConnectAlbumPair(Url, r)
  <2>1. entries' = [entries EXCEPT ![at] = r] /\ at' = at
    BY <1>3 DEF syncUrl
  <2>2. /\ entries' \in Seq(Urls) /\ Len(entries') = Len(entries)
        /\ DOMAIN entries' = 1 .. Len(entries)
        /\ \A j \in 1 .. Len(entries) : entries'[j] = IF j = at THEN r ELSE entries[j]
    BY <1>1, <1>2, <2>1, ExceptSeq DEF HistoryInv
  <2>3. \A j \in 1 .. Len(entries) :
           IsPair(entries'[j]) => IsPair(entries[j]) /\ Pair(entries'[j]) = Pair(entries[j])
    BY <1>3, <2>2 DEF isSameConnectAlbumPair, Url, Pair
  <2>4. BackLeavesPair'
    BY <1>2, <2>2, <2>3 DEF BackLeavesPair
  <2>5. HistoryInv'
    BY <1>1, <1>2, <2>1, <2>2 DEF HistoryInv
  <2> QED
    BY <1>2, <2>1, <2>2, <2>4, <2>5 DEF Url
<1>4. CASE ~isSameConnectAlbumPair(Url, r)
  <2> DEFINE kept == SubSeq(entries, 1, at)
             grown == Append(kept, r)
  <2>1. /\ kept \in Seq(Urls) /\ Len(kept) = at
        /\ \A i \in 1 .. at : kept[i] = entries[i]
    BY <1>2, SubSeqProperties
  <2>2. /\ grown \in Seq(Urls) /\ Len(grown) = at + 1
        /\ \A i \in 1 .. at : grown[i] = entries[i]
        /\ grown[at + 1] = r
    BY <1>1, <2>1, AppendProperties
  <2>3. ~IsPair(entries[at]) \/ Pair(entries[at]) # Pair(r)
    BY <1>4 DEF isSameConnectAlbumPair, Url
  <2>4. \A i \in 1 .. at : IsPair(grown[i]) /\ IsPair(grown[i + 1]) =>
                             Pair(grown[i]) # Pair(grown[i + 1])
    BY <1>2, <2>2, <2>3 DEF BackLeavesPair
  <2>5. catalog = "ready" =>
          \A i \in 1 .. (at + 1) :
            IsPair(grown[i]) => {grown[i].from, grown[i].to} \subseteq Records
    BY <1>1, <1>2, <2>2 DEF HistoryInv
  <2>6. MaxHistory \in Nat \ {0} /\ at \in Nat /\ at <= MaxHistory
    BY <1>2, ConnectAssumption DEF HistoryInv
  <2> HIDE DEF grown
  <2>7. CASE Len(grown) > MaxHistory
    <3>1. entries' = Tail(grown) /\ at' = MaxHistory /\ at = MaxHistory
      BY <1>4, <2>2, <2>6, <2>7 DEF syncUrl, grown
    <3>2. /\ entries' \in Seq(Urls) /\ Len(entries') = at
          /\ \A i \in 1 .. at : entries'[i] = grown[i + 1]
      BY <2>2, <2>6, <3>1, HeadTailProperties
    <3>3. DOMAIN entries' = 1 .. at
      BY <3>2
    <3>4. BackLeavesPair'
      BY <2>4, <2>6, <3>2 DEF BackLeavesPair
    <3>5. HistoryInv'
      BY <2>5, <2>6, <3>1, <3>2, <3>3 DEF HistoryInv
    <3> QED
      BY <2>2, <2>6, <3>1, <3>2, <3>4, <3>5 DEF Url
  <2>8. CASE ~(Len(grown) > MaxHistory)
    <3>1. entries' = grown /\ at' = at + 1
      BY <1>4, <2>8 DEF syncUrl, grown
    <3>2. BackLeavesPair'
      BY <2>2, <2>4, <2>6, <3>1 DEF BackLeavesPair
    <3>3. HistoryInv'
      BY <2>2, <2>5, <2>6, <2>8, <3>1 DEF HistoryInv
    <3> QED
      BY <2>2, <3>1, <3>2, <3>3 DEF Url
  <2> QED
    BY <2>7, <2>8
<1> QED
  BY <1>3, <1>4

-----------------------------------------------------------------------------
(***************************************************************************)
(* Searches.                                                               *)
(***************************************************************************)

\* The sets searches and callbacks are members of.
SearchSet == [from : Records, to : Records, mode : Modes, skip : BOOLEAN,
              stage : {"graph", "graphError", "evidence"}, live : BOOLEAN]
PatchSet == [route : Routes, live : BOOLEAN]

\* searchGeneration++ leaves no live search.
LEMMA NoneLive ==
  ASSUME ConnectTypeOK, NextGeneration
  PROVE  /\ searches' \subseteq SearchSet /\ patches' \subseteq PatchSet
         /\ \A s \in searches' : ~s.live
         /\ searches = {} => searches' = {}
         /\ patches = {} => patches' = {}
<1>1. \A s \in searches : [s EXCEPT !.live = FALSE] \in SearchSet /\ ~[s EXCEPT !.live = FALSE].live
  BY DEF ConnectTypeOK, SearchSet
<1>2. \A p \in patches : [p EXCEPT !.live = FALSE] \in PatchSet
  BY DEF ConnectTypeOK, PatchSet
<1> QED
  BY <1>1, <1>2 DEF NextGeneration, Superseded

\* A search that starts is the only live one.
LEMMA OneStarts ==
  ASSUME ConnectTypeOK, NEW from \in Records, NEW to \in Records, NEW m \in Modes,
         NEW skip \in BOOLEAN,
         runSearch(from, to, m, skip)
  PROVE  /\ searches' \subseteq SearchSet /\ patches' \subseteq PatchSet
         /\ \A s \in searches' : s.live => s = Search(from, to, m, skip)
<1>1. searches' = Superseded(searches) \cup {Search(from, to, m, skip)}
      /\ patches' = Superseded(patches)
  BY DEF runSearch
<1>2. \A s \in searches : [s EXCEPT !.live = FALSE] \in SearchSet /\ ~[s EXCEPT !.live = FALSE].live
  BY DEF ConnectTypeOK, SearchSet
<1>3. \A p \in patches : [p EXCEPT !.live = FALSE] \in PatchSet
  BY DEF ConnectTypeOK, PatchSet
<1>4. Search(from, to, m, skip) \in SearchSet
  BY DEF Search, SearchSet
<1> QED
  BY <1>1, <1>2, <1>3, <1>4 DEF Superseded

\* Starting a search keeps everything, when it is for the records selected with it
\* and, if it is restored, is what the address bar says then.
LEMMA StartKeeps ==
  ASSUME ConnectTypeOK, NEW from \in Records, NEW to \in Records, NEW m \in Modes,
         NEW skip \in BOOLEAN,
         runSearch(from, to, m, skip),
         albumA' = from, albumB' = to, mode' \in Modes, catalog' = "ready",
         skip => Url' = [from |-> from, to |-> to, mode |-> m],
         HistoryInv', BackLeavesPair'
  PROVE  IInv'
<1>1. /\ searches' \subseteq SearchSet /\ patches' \subseteq PatchSet
      /\ \A s \in searches' : s.live => s = Search(from, to, m, skip)
  BY OneStarts
<1>2. ConnectTypeOK'
  <2>1. /\ graph' \in {"idle", "loading", "ready"} /\ evidence' \in {"idle", "loading", "ready"}
        /\ results' = FALSE /\ status' = "loading" /\ disabled' = TRUE /\ lastSearch' = None
        /\ UNCHANGED <<hops, patched, copyLink>>
    BY DEF ConnectTypeOK, runSearch, Started
  <2>2. entries' \in Seq(Urls) /\ at' \in DOMAIN entries'
    BY DEF HistoryInv
  <2> QED
    BY <1>1, <2>1, <2>2 DEF ConnectTypeOK, SearchSet, PatchSet
<1>3. LiveInv'
  <2>1. ~results'
    BY DEF runSearch
  <2>2. ASSUME NEW s \in searches', s.live
        PROVE  s.from = albumA' /\ s.to = albumB' /\ (s.skip => Url' = Route(s))
    <3>1. s = Search(from, to, m, skip)
      BY <1>1, <2>2
    <3>2. /\ s.from = from /\ s.to = to /\ s.skip = skip
          /\ Route(s) = [from |-> from, to |-> to, mode |-> m]
      BY <3>1 DEF Search, Route
    <3> QED
      BY <3>2
  <2>3. \A s, t \in searches' : s.live /\ t.live => s = t
    BY <1>1
  <2> QED
    BY <2>1, <2>2, <2>3 DEF LiveInv
<1>4. PageInv'
  BY DEF PageInv, runSearch
<1> QED
  BY <1>2, <1>3, <1>4 DEF IInv, FreshInv

\* A search that ends or goes on leaves no other live.
LEMMA OthersAreDead ==
  ASSUME LiveInv, NEW s \in searches, s.live, NEW t \in searches \ {s}
  PROVE  ~t.live
BY DEF LiveInv

\* A continuation runs only once the catalog is there.
LEMMA SearchedReady ==
  ASSUME FreshInv, searches # {} \/ patches # {}
  PROVE  catalog = "ready"
BY DEF FreshInv
\* A history that is left alone.
LEMMA SameHistory ==
  ASSUME IInv, UNCHANGED history, catalog' = "ready" => catalog = "ready"
  PROVE  /\ HistoryInv' /\ BackLeavesPair' /\ Url' = Url
         /\ entries' \in Seq(Urls) /\ at' \in DOMAIN entries'
BY DEF IInv, HistoryInv, BackLeavesPair, history, Url

\* The buttons.
LEMMA ButtonTyped ==
  ASSUME ConnectTypeOK, updateButton
  PROVE  disabled' \in BOOLEAN /\ graph' \in {"idle", "loading", "ready"}
BY DEF ConnectTypeOK, updateButton, Started

-----------------------------------------------------------------------------
(***************************************************************************)
(* The continuations of a search.                                          *)
(***************************************************************************)

\* A superseded search gives up.
LEMMA AbandonKeeps ==
  ASSUME IInv, NEW s \in searches, Abandon(s)
  PROVE  IInv'
<1>1. /\ UNCHANGED <<selection, loads, patches, panel, copyLink, status, disabled, lastSearch>>
      /\ UNCHANGED history /\ searches' = searches \ {s}
  BY DEF Abandon
<1>2. HistoryInv' /\ BackLeavesPair' /\ Url' = Url
  BY <1>1, SameHistory DEF loads
<1>3. ConnectTypeOK'
  BY <1>1 DEF IInv, ConnectTypeOK, selection, loads, panel, history
<1>4. FreshInv' /\ LiveInv' /\ PageInv'
  BY <1>1, <1>2 DEF IInv, FreshInv, LiveInv, PageInv, selection, loads, panel, history
<1> QED
  BY <1>2, <1>3, <1>4 DEF IInv

\* A search that ends without a route changes neither the page nor the history.
LEMMA EndKeeps ==
  ASSUME IInv, NEW s \in searches, s.live, NEW message \in {"noRoute", "error"},
         Ends(s, message), UNCHANGED <<evidence, patches>>
  PROVE  IInv'
<1>1. /\ UNCHANGED <<selection, catalog, panel, copyLink, lastSearch, evidence, patches>>
      /\ UNCHANGED history
      /\ searches' = searches \ {s} /\ status' = message /\ updateButton
  BY DEF Ends
<1>2. HistoryInv' /\ BackLeavesPair' /\ Url' = Url
  BY <1>1, SameHistory
<1>3. ConnectTypeOK'
  BY <1>1, ButtonTyped DEF IInv, ConnectTypeOK, selection, panel, history
<1>4. FreshInv' /\ LiveInv' /\ PageInv'
  BY <1>1, <1>2 DEF IInv, FreshInv, LiveInv, PageInv, selection, panel, history
<1> QED
  BY <1>2, <1>3, <1>4 DEF IInv

\* A live search renders a route of the selected records and publishes it.
LEMMA RenderKeeps ==
  ASSUME IInv, NEW s \in searches, s.live, NEW released \in BOOLEAN, Rendered(s, released),
         patches' \subseteq PatchSet, evidence' \in {"idle", "loading", "ready"}
  PROVE  IInv'
<1> DEFINE r == Route(s)
<1>1. s \in SearchSet /\ s.from = albumA /\ s.to = albumB
  BY DEF IInv, ConnectTypeOK, LiveInv, SearchSet
<1>2. r \in Routes /\ Pair(r) = <<albumA, albumB>>
  BY <1>1 DEF Routes, Route, Pair, SearchSet
<1>3. /\ UNCHANGED <<selection, catalog>> /\ searches' = searches \ {s}
      /\ status' = "none" /\ results' = TRUE /\ copyLink' = TRUE /\ hops' = r
      /\ patched' \in {r, None} /\ lastSearch' = [route |-> r, released |-> released]
      /\ updateButton
  BY DEF Rendered
<1>4. catalog = "ready"
  BY SearchedReady DEF IInv
<1>5. HistoryInv' /\ BackLeavesPair' /\ Url' = r
  <2>1. CASE s.skip
    <3>1. UNCHANGED history /\ Url = r
      BY <2>1 DEF Rendered, IInv, LiveInv
    <3> QED
      BY <3>1, <1>4, SameHistory
  <2>2. CASE ~s.skip
    <3>1. syncUrl(r)
      BY <2>2 DEF Rendered
    <3> QED
      BY <3>1, <1>2, <1>3, SyncedHistory DEF IInv
  <2> QED
    BY <2>1, <2>2
<1> HIDE DEF r
<1>6. lastSearch' \in [route : Routes, released : BOOLEAN] /\ lastSearch'.route = r
  BY <1>2, <1>3
<1>7. lastSearch' # None
  BY <1>6, ConnectAssumption
<1>8. ConnectTypeOK'
  BY <1>2, <1>3, <1>5, <1>6, ButtonTyped
  DEF IInv, ConnectTypeOK, HistoryInv, PatchSet, selection
<1>9. LiveInv'
  <2>1. \A t \in searches' : ~t.live
    BY <1>3, OthersAreDead DEF IInv
  <2> QED
    BY <2>1 DEF LiveInv
<1>10. PageInv'
  BY <1>2, <1>3, <1>5, <1>6, <1>7 DEF PageInv, selection, Pair
<1> QED
  BY <1>3, <1>4, <1>5, <1>8, <1>9, <1>10 DEF IInv, FreshInv

\* An unfiltered search goes on to wait for the evidence.
LEMMA AwaitKeeps ==
  ASSUME IInv, NEW s \in searches, AwaitEvidence(s)
  PROVE  IInv'
<1> DEFINE next == [s EXCEPT !.stage = "evidence"]
<1>1. /\ UNCHANGED <<selection, loads, patches, panel, copyLink, status, disabled, lastSearch>>
      /\ UNCHANGED history /\ searches' = (searches \ {s}) \cup {next} /\ s.live
  BY DEF AwaitEvidence
<1>2. HistoryInv' /\ BackLeavesPair' /\ Url' = Url
  BY <1>1, SameHistory DEF loads
<1>3. /\ next \in SearchSet /\ next.from = s.from /\ next.to = s.to /\ next.skip = s.skip
      /\ Route(next) = Route(s)
  BY DEF IInv, ConnectTypeOK, SearchSet, Route
<1> HIDE DEF next
<1>4. ConnectTypeOK'
  BY <1>1, <1>3 DEF IInv, ConnectTypeOK, SearchSet, selection, loads, panel, history
<1>5. LiveInv'
  <2>1. \A t \in searches' : t.live => t = next
    BY <1>1, OthersAreDead DEF IInv
  <2>2. ~results /\ s.from = albumA /\ s.to = albumB /\ (s.skip => Url = Route(s))
    BY <1>1 DEF IInv, LiveInv
  <2>3. ~results' /\ next.from = albumA' /\ next.to = albumB' /\ (next.skip => Url' = Route(next))
    BY <1>1, <1>2, <1>3, <2>2 DEF selection, panel
  <2> QED
    BY <2>1, <2>3 DEF LiveInv
<1>6. FreshInv' /\ PageInv'
  BY <1>1, <1>2, SearchedReady DEF IInv, FreshInv, PageInv, selection, loads, panel
<1> QED
  BY <1>2, <1>4, <1>5, <1>6 DEF IInv

\* The releases of a route are patched into its cards.
LEMMA PatchKeeps ==
  ASSUME IInv, NEW p \in patches, PatchReleases(p)
  PROVE  IInv'
<1>1. /\ UNCHANGED <<selection, loads, searches, hops, results, copyLink, status, disabled>>
      /\ UNCHANGED history /\ patches' = patches \ {p}
  BY DEF PatchReleases
<1>2. HistoryInv' /\ BackLeavesPair' /\ Url' = Url
  BY <1>1, SameHistory DEF loads
<1>3. /\ lastSearch' \in {None} \cup [route : Routes, released : BOOLEAN]
      /\ lastSearch' # None <=> lastSearch # None
      /\ lastSearch # None => lastSearch'.route = lastSearch.route
  <2>1. CASE lastSearch = None
    BY <2>1 DEF PatchReleases
  <2>2. CASE lastSearch # None
    <3>1. lastSearch \in [route : Routes, released : BOOLEAN]
      BY <2>2 DEF IInv, ConnectTypeOK
    <3>2. [lastSearch EXCEPT !.released = TRUE] \in [route : Routes, released : BOOLEAN]
          /\ [lastSearch EXCEPT !.released = TRUE].route = lastSearch.route
      BY <3>1
    <3>3. lastSearch' \in {lastSearch, [lastSearch EXCEPT !.released = TRUE]}
      BY <2>2 DEF PatchReleases
    <3> QED
      BY <2>2, <3>1, <3>2, <3>3, ConnectAssumption
  <2> QED
    BY <2>1, <2>2
<1>4. patched' \in Routes \cup {None}
  BY DEF PatchReleases, IInv, ConnectTypeOK
<1>5. ConnectTypeOK'
  BY <1>1, <1>3, <1>4 DEF IInv, ConnectTypeOK, selection, loads, history
<1>6. FreshInv' /\ LiveInv' /\ PageInv'
  BY <1>1, <1>2, <1>3, SearchedReady
  DEF IInv, FreshInv, LiveInv, PageInv, selection, loads
<1> QED
  BY <1>2, <1>5, <1>6 DEF IInv

\* Every continuation keeps the invariant.
LEMMA ContinuationKeeps ==
  ASSUME IInv, Continuation
  PROVE  IInv'
<1>1. ASSUME NEW s \in searches, FilteredRoute(s) PROVE IInv'
  <2>1. CASE HasRoute(s)
    <3>1. s \in SearchSet
      BY DEF IInv, ConnectTypeOK, SearchSet
    <3>2. Route(s) \in Routes
      BY <3>1 DEF Route, Routes, SearchSet
    <3>3. /\ patches' = patches \cup {[route |-> Route(s), live |-> TRUE]}
          /\ evidence' = Started(evidence) /\ Rendered(s, FALSE) /\ s.live
      BY <1>1, <2>1 DEF FilteredRoute
    <3>4. patches' \subseteq PatchSet
      <4>1. [route |-> Route(s), live |-> TRUE] \in PatchSet
        BY <3>2 DEF PatchSet
      <4>2. patches \subseteq PatchSet
        BY DEF IInv, ConnectTypeOK, PatchSet
      <4> QED
        BY <3>3, <4>1, <4>2
    <3>5. evidence' \in {"idle", "loading", "ready"}
      BY <3>3 DEF IInv, ConnectTypeOK, Started
    <3> QED
      BY <3>3, <3>4, <3>5, RenderKeeps
  <2>2. CASE ~HasRoute(s)
    BY <1>1, <2>2, EndKeeps DEF FilteredRoute
  <2> QED
    BY <2>1, <2>2
<1>2. ASSUME NEW s \in searches, RankedRoute(s) PROVE IInv'
  <2>1. UNCHANGED <<patches, evidence>> /\ s.live
    BY <1>2 DEF RankedRoute
  <2>2. CASE HasRoute(s)
    <3>1. patches' \subseteq PatchSet /\ evidence' \in {"idle", "loading", "ready"}
      BY <2>1 DEF IInv, ConnectTypeOK, PatchSet
    <3>2. Rendered(s, TRUE)
      BY <1>2, <2>2 DEF RankedRoute
    <3> QED
      BY <2>1, <3>1, <3>2, RenderKeeps
  <2>3. CASE ~HasRoute(s)
    BY <1>2, <2>1, <2>3, EndKeeps DEF RankedRoute
  <2> QED
    BY <2>2, <2>3
<1>3. ASSUME NEW s \in searches, GraphError(s) PROVE IInv'
  BY <1>3, EndKeeps DEF GraphError
<1> QED
  BY <1>1, <1>2, <1>3, AbandonKeeps, AwaitKeeps, PatchKeeps DEF Continuation
-----------------------------------------------------------------------------
(***************************************************************************)
(* The events.                                                             *)
(***************************************************************************)

\* A pair in an address is the whole of it.
LEMMA PairUrl ==
  ASSUME NEW u \in Urls, IsPair(u), {u.from, u.to} \subseteq Records
  PROVE  u.mode \in Modes /\ u = [from |-> u.from, to |-> u.to, mode |-> u.mode]
BY DEF Urls, IsPair

\* The catalog arrives: the link is restored, cleaned, prefilled or left.
LEMMA CatalogKeeps ==
  ASSUME IInv, CatalogArrives
  PROVE  IInv'
<1>1. /\ catalog = "loading" /\ catalog' = "ready" /\ at' = at
      /\ albumA = None /\ albumB = None /\ searches = {} /\ patches = {}
      /\ ~results /\ lastSearch = None /\ Len(entries) = 1
  BY DEF CatalogArrives, IInv, FreshInv
<1>2. /\ entries \in Seq(Urls) /\ DOMAIN entries = {1} /\ at = 1 /\ Url \in Urls
      /\ entries[1] = Url /\ 1 <= MaxHistory /\ DOMAIN entries = 1 .. 1
  <2>1. entries \in Seq(Urls) /\ at \in DOMAIN entries /\ Len(entries) <= MaxHistory
    BY DEF IInv, HistoryInv
  <2>2. DOMAIN entries = 1 .. 1 /\ at = 1
    BY <1>1, <2>1
  <2> QED
    BY <1>1, <2>1, <2>2, ElementOfSeq DEF Url
<1>3. ASSUME UNCHANGED entries, IsPair(Url) => {Url.from, Url.to} \subseteq Records
      PROVE  HistoryInv' /\ BackLeavesPair' /\ Url' = Url
  <2>1. HistoryInv'
    BY <1>1, <1>2, <1>3 DEF HistoryInv
  <2>2. BackLeavesPair'
    BY <1>3 DEF IInv, BackLeavesPair
  <2> QED
    BY <1>1, <1>3, <2>1, <2>2 DEF Url
<1>4. ASSUME searches' = {}, patches' = {}, UNCHANGED <<results, lastSearch>>
      PROVE  LiveInv' /\ PageInv'
  BY <1>1, <1>4 DEF LiveInv, PageInv
<1>5. CASE IsPair(Url)
  <2>1. CASE RestorePair(Url) /\ UNCHANGED entries
    <3>1. /\ {Url.from, Url.to} \subseteq Records
          /\ albumA' = Url.from /\ albumB' = Url.to /\ mode' = Url.mode
          /\ runSearch(Url.from, Url.to, Url.mode, TRUE)
      BY <2>1 DEF RestorePair
    <3>2. Url.mode \in Modes /\ Url = [from |-> Url.from, to |-> Url.to, mode |-> Url.mode]
      BY <1>2, <1>5, <3>1, PairUrl
    <3>3. HistoryInv' /\ BackLeavesPair' /\ Url' = Url
      BY <1>3, <2>1, <3>1
    <3> DEFINE u == Url
    <3>4. u.from \in Records /\ u.to \in Records /\ u.mode \in Modes /\ ConnectTypeOK
      BY <3>1, <3>2 DEF IInv
    <3> QED
      BY <1>1, <3>1, <3>2, <3>3, <3>4, StartKeeps
  <2>2. CASE CleanDeadLink(Url) /\ status' = "none"
    <3>1. /\ entries' = [entries EXCEPT ![1] = None]
          /\ UNCHANGED <<graph, evidence, searches, patches, panel, copyLink, disabled>>
          /\ UNCHANGED <<selection, lastSearch>>
      BY <1>1, <1>2, <2>2 DEF CleanDeadLink
    <3>2. None \in Urls /\ ~IsPair(None)
      BY DEF Urls, IsPair
    <3>3. /\ entries' \in Seq(Urls) /\ Len(entries') = 1 /\ entries'[1] = None
          /\ DOMAIN entries' = 1 .. 1
      BY <1>1, <1>2, <3>1, <3>2, ExceptSeq
    <3>4. HistoryInv' /\ BackLeavesPair'
      BY <1>1, <1>2, <3>2, <3>3 DEF HistoryInv, BackLeavesPair
    <3>5. ConnectTypeOK'
      BY <1>1, <1>2, <2>2, <3>1, <3>3 DEF IInv, ConnectTypeOK, selection, panel
    <3>6. LiveInv' /\ PageInv'
      BY <1>1, <1>4, <3>1 DEF panel
    <3> QED
      BY <1>1, <3>4, <3>5, <3>6 DEF IInv, FreshInv
  <2> QED
    BY <1>5, <2>1, <2>2 DEF CatalogArrives
<1>6. CASE ~IsPair(Url)
  <2>1. /\ status' = "none" /\ UNCHANGED <<entries, albumB, mode, evidence, searches, patches>>
        /\ UNCHANGED <<panel, copyLink, lastSearch>>
        /\ albumA' \in Records \cup {None}
        /\ disabled' \in BOOLEAN /\ graph' \in {"idle", "loading", "ready"}
    <3>1. CASE Url # None /\ Url.to = None /\ Url.from \in Records
      <4>1. PrefillFirst(Url) /\ status' = "none" /\ UNCHANGED entries
        BY <1>6, <3>1 DEF CatalogArrives
      <4> QED
        BY <3>1, <4>1, ButtonTyped DEF PrefillFirst, IInv
    <3>2. CASE ~(Url # None /\ Url.to = None /\ Url.from \in Records)
      <4>1. /\ status' = "none"
            /\ UNCHANGED <<selection, graph, evidence, searches, patches, panel, copyLink,
                           disabled, lastSearch, entries>>
        BY <1>6, <3>2 DEF CatalogArrives
      <4> QED
        BY <1>1, <4>1 DEF IInv, ConnectTypeOK, selection
    <3> QED
      BY <3>1, <3>2
  <2>2. HistoryInv' /\ BackLeavesPair' /\ Url' = Url
    BY <1>3, <1>6, <2>1
  <2>3. ConnectTypeOK'
    BY <1>1, <2>1 DEF IInv, ConnectTypeOK, panel
  <2>4. LiveInv' /\ PageInv'
    BY <1>1, <1>4, <2>1 DEF panel
  <2> QED
    BY <1>1, <2>2, <2>3, <2>4 DEF IInv, FreshInv
<1> QED
  BY <1>5, <1>6

\* The other loads: a failed catalog, the graph and the evidence.
LEMMA LoadKeeps ==
  ASSUME IInv, CatalogFails \/ GraphArrives \/ GraphFails \/ EvidenceArrives
  PROVE  IInv'
<1>1. /\ UNCHANGED <<selection, patches, panel, copyLink, disabled, lastSearch>>
      /\ UNCHANGED history /\ (catalog' = "ready" <=> catalog = "ready")
  BY DEF CatalogFails, GraphArrives, GraphFails, EvidenceArrives
<1>2. HistoryInv' /\ BackLeavesPair' /\ Url' = Url
  BY <1>1, SameHistory
<1>3. CASE CatalogFails \/ GraphArrives \/ EvidenceArrives
  <2>1. UNCHANGED searches
    BY <1>3 DEF CatalogFails, GraphArrives, EvidenceArrives
  <2>2. ConnectTypeOK'
    BY <1>1, <1>3, <2>1
    DEF IInv, ConnectTypeOK, selection, panel, history, CatalogFails, GraphArrives, EvidenceArrives
  <2>3. FreshInv' /\ LiveInv' /\ PageInv'
    BY <1>1, <1>2, <2>1 DEF IInv, FreshInv, LiveInv, PageInv, selection, panel, history
  <2> QED
    BY <1>2, <2>2, <2>3 DEF IInv
<1>4. CASE GraphFails
  <2> DEFINE failed(s) == IF s.stage = "graph" THEN [s EXCEPT !.stage = "graphError"] ELSE s
  <2>1. /\ searches' = {failed(s) : s \in searches} /\ graph' = "idle"
        /\ UNCHANGED <<catalog, evidence, status>>
    BY <1>4 DEF GraphFails
  <2>2. ASSUME NEW s \in searches
        PROVE  /\ failed(s) \in SearchSet /\ failed(s).from = s.from /\ failed(s).to = s.to
               /\ failed(s).skip = s.skip /\ failed(s).live = s.live
               /\ Route(failed(s)) = Route(s)
    BY DEF IInv, ConnectTypeOK, SearchSet, Route
  <2> HIDE DEF failed
  <2>3. ConnectTypeOK'
    BY <1>1, <2>1, <2>2 DEF IInv, ConnectTypeOK, SearchSet, selection, panel, history
  <2>4. LiveInv'
    <3>1. \A s, t \in searches' : s.live /\ t.live => s = t
      BY <2>1, <2>2 DEF IInv, LiveInv
    <3>2. ASSUME NEW s \in searches', s.live
          PROVE  ~results' /\ s.from = albumA' /\ s.to = albumB' /\ (s.skip => Url' = Route(s))
      <4>1. PICK t \in searches : s = failed(t)
        BY <2>1
      <4>2. ~results /\ t.from = albumA /\ t.to = albumB /\ (t.skip => Url = Route(t))
        BY <2>2, <3>2, <4>1 DEF IInv, LiveInv
      <4> QED
        BY <1>1, <1>2, <2>2, <4>1, <4>2 DEF selection, panel
    <3> QED
      BY <3>1, <3>2 DEF LiveInv
  <2>5. FreshInv' /\ PageInv'
    BY <1>1, <1>2, <2>1 DEF IInv, FreshInv, PageInv, selection, panel, history
  <2> QED
    BY <1>2, <2>3, <2>4, <2>5 DEF IInv
<1> QED
  BY <1>3, <1>4

\* A record is picked or dropped: what was searched for and shown goes with it.
LEMMA SelectKeeps ==
  ASSUME IInv, NEW which \in {"a", "b"}, NEW x \in Records \cup {None}, onSelect(which, x),
         \/ catalog = "ready" /\ catalog' = catalog
         \/ x = None /\ (catalog' = "ready" <=> catalog = "ready")
            /\ catalog' \in {catalog, "loading"}
  PROVE  IInv'
<1>1. /\ NextGeneration /\ UNCHANGED <<mode, evidence, hops, patched, status>>
      /\ UNCHANGED history
      /\ lastSearch' = None /\ results' = FALSE /\ copyLink' = FALSE /\ updateButton
      /\ {albumA', albumB'} \subseteq {albumA, albumB, x}
  BY DEF onSelect, Select
<1>2. HistoryInv' /\ BackLeavesPair' /\ Url' = Url /\ entries' = entries
  BY <1>1, SameHistory DEF history
<1>3. /\ searches' \subseteq SearchSet /\ patches' \subseteq PatchSet
      /\ \A s \in searches' : ~s.live
      /\ searches = {} => searches' = {}
      /\ patches = {} => patches' = {}
  BY <1>1, NoneLive DEF IInv
<1>4. ConnectTypeOK'
  BY <1>1, <1>3, ButtonTyped DEF IInv, ConnectTypeOK, SearchSet, PatchSet, history
<1>5. FreshInv'
  BY <1>1, <1>2, <1>3 DEF IInv, FreshInv
<1>6. LiveInv' /\ PageInv'
  BY <1>1, <1>3 DEF LiveInv, PageInv
<1> QED
  BY <1>2, <1>4, <1>5, <1>6 DEF IInv

\* Search is clicked.
LEMMA SearchKeeps ==
  ASSUME IInv, SearchClick
  PROVE  IInv'
<1>1. /\ albumA \in Records /\ albumB \in Records /\ mode \in Modes /\ ConnectTypeOK
      /\ runSearch(albumA, albumB, mode, FALSE)
      /\ UNCHANGED <<selection, catalog>> /\ UNCHANGED history
  BY DEF SearchClick, IInv, ConnectTypeOK
<1>2. catalog = "ready"
  BY DEF SearchClick, IInv, FreshInv
<1>3. HistoryInv' /\ BackLeavesPair'
  BY <1>1, SameHistory
<1>4. albumA' = albumA /\ albumB' = albumB /\ mode' \in Modes /\ catalog' = "ready"
  BY <1>1, <1>2 DEF selection
<1> QED
  BY <1>1, <1>3, <1>4, StartKeeps

\* Swap: the route on screen is reversed with the selection and published.
LEMMA SwapKeeps ==
  ASSUME IInv, Swap
  PROVE  IInv'
<1>1. /\ NextGeneration /\ albumA' = albumB /\ albumB' = albumA
      /\ UNCHANGED <<mode, catalog, evidence, results, status>> /\ updateButton
      /\ catalog = "ready"
  BY DEF Swap, IInv, FreshInv
<1>2. /\ searches' \subseteq SearchSet /\ patches' \subseteq PatchSet
      /\ \A s \in searches' : ~s.live
  BY <1>1, NoneLive DEF IInv
<1>3. LiveInv'
  BY <1>2 DEF LiveInv
<1>4. CASE lastSearch # None
  <2> DEFINE r == Reversed(lastSearch.route)
  <2>1. /\ hops' = r /\ lastSearch' = [lastSearch EXCEPT !.route = r]
        /\ patched' \in {r, None} /\ copyLink' = TRUE /\ syncUrl(r)
    BY <1>4 DEF Swap
  <2>2. lastSearch \in [route : Routes, released : BOOLEAN] /\ lastSearch.route \in Routes
    BY <1>4 DEF IInv, ConnectTypeOK
  <2>3. Pair(lastSearch.route) = <<albumA, albumB>> /\ results
    BY <1>4 DEF IInv, PageInv
  <2>4. r \in Routes /\ r.from = albumB /\ r.to = albumA
    BY <2>2, <2>3 DEF Reversed, Routes, Pair
  <2> HIDE DEF r
  <2>5. HistoryInv' /\ BackLeavesPair' /\ Url' = r
    BY <1>1, <2>1, <2>4, SyncedHistory DEF IInv
  <2>6. /\ lastSearch' \in [route : Routes, released : BOOLEAN] /\ lastSearch'.route = r
        /\ lastSearch' # None
    BY <2>1, <2>2, <2>4, ConnectAssumption
  <2>7. ConnectTypeOK'
    BY <1>1, <1>2, <2>1, <2>4, <2>5, <2>6, ButtonTyped
    DEF IInv, ConnectTypeOK, HistoryInv, SearchSet, PatchSet
  <2>8. PageInv'
    BY <1>1, <2>1, <2>3, <2>4, <2>5, <2>6 DEF PageInv, Pair
  <2> QED
    BY <1>1, <1>3, <2>5, <2>7, <2>8 DEF IInv, FreshInv
<1>5. CASE lastSearch = None
  <2>1. UNCHANGED <<hops, patched, lastSearch, copyLink>> /\ UNCHANGED history
    BY <1>5 DEF Swap
  <2>2. HistoryInv' /\ BackLeavesPair' /\ Url' = Url
    BY <1>1, <2>1, SameHistory
  <2>3. ConnectTypeOK'
    BY <1>1, <1>2, <2>1, ButtonTyped DEF IInv, ConnectTypeOK, SearchSet, PatchSet, history
  <2>4. PageInv'
    BY <1>1, <1>5, <2>1 DEF IInv, PageInv
  <2> QED
    BY <1>1, <1>3, <2>2, <2>3, <2>4 DEF IInv, FreshInv
<1> QED
  BY <1>4, <1>5

\* Another filter is chosen: the search under way is superseded, the page stays.
LEMMA ModeKeeps ==
  ASSUME IInv, NEW m \in Modes, selectModeChip(m)
  PROVE  IInv'
<1>1. /\ NextGeneration /\ mode' = m
      /\ UNCHANGED <<albumA, albumB, loads, panel, copyLink, status, disabled, lastSearch>>
      /\ UNCHANGED history
  BY DEF selectModeChip
<1>2. HistoryInv' /\ BackLeavesPair' /\ Url' = Url /\ entries' = entries
  BY <1>1, SameHistory DEF loads, history
<1>3. /\ searches' \subseteq SearchSet /\ patches' \subseteq PatchSet
      /\ \A s \in searches' : ~s.live
      /\ searches = {} => searches' = {}
      /\ patches = {} => patches' = {}
  BY <1>1, NoneLive DEF IInv
<1>4. ConnectTypeOK'
  BY <1>1, <1>3 DEF IInv, ConnectTypeOK, SearchSet, PatchSet, loads, panel, history
<1>5. FreshInv' /\ LiveInv' /\ PageInv'
  BY <1>1, <1>2, <1>3 DEF IInv, FreshInv, LiveInv, PageInv, loads, panel
<1> QED
  BY <1>2, <1>4, <1>5 DEF IInv

\* Back or Forward: the pair of the entry is searched for, or the page is cleared.
LEMMA PopStateKeeps ==
  ASSUME IInv, NEW i \in DOMAIN entries, PopState(i)
  PROVE  IInv'
<1>1. i # at /\ at' = i /\ catalog' = catalog
  BY DEF PopState
<1>2. /\ entries \in Seq(Urls) /\ at \in DOMAIN entries /\ DOMAIN entries = 1 .. Len(entries)
      /\ Len(entries) \in Nat
  BY DEF IInv, HistoryInv
<1>3. catalog = "ready"
  BY <1>1, <1>2 DEF IInv, FreshInv
<1>4. entries[i] \in Urls
  BY <1>2, ElementOfSeq
<1>5. IsPair(entries[i]) => {entries[i].from, entries[i].to} \subseteq Records
  BY <1>3 DEF IInv, HistoryInv
<1>6. entries' = entries
  BY <1>5 DEF PopState, CleanDeadLink
<1>7. HistoryInv' /\ BackLeavesPair' /\ Url' = entries[i]
  BY <1>1, <1>2, <1>6 DEF IInv, HistoryInv, BackLeavesPair, Url
<1>8. CASE IsPair(entries[i])
  <2> DEFINE u == entries[i]
  <2>1. u.mode \in Modes /\ u = [from |-> u.from, to |-> u.to, mode |-> u.mode]
    BY <1>4, <1>5, <1>8, PairUrl
  <2>2. u.from \in Records /\ u.to \in Records /\ ConnectTypeOK
    BY <1>5, <1>8 DEF IInv
  <2>3. /\ albumA' = u.from /\ albumB' = u.to /\ mode' = u.mode
        /\ runSearch(u.from, u.to, u.mode, TRUE)
    BY <1>5, <1>8 DEF PopState, RestorePair, CleanDeadLink
  <2>4. Url' = u /\ catalog' = "ready"
    BY <1>1, <1>3, <1>7
  <2> HIDE DEF u
  <2> QED
    BY <1>7, <2>1, <2>2, <2>3, <2>4, StartKeeps
<1>9. CASE ~IsPair(entries[i])
  <2>1. /\ albumA' = None /\ albumB' = None /\ NextGeneration
        /\ results' = FALSE /\ copyLink' = FALSE /\ status' = "none" /\ lastSearch' = None
        /\ UNCHANGED <<mode, evidence, hops, patched>> /\ updateButton
    BY <1>9 DEF PopState, ClearAll
  <2>2. /\ searches' \subseteq SearchSet /\ patches' \subseteq PatchSet
        /\ \A s \in searches' : ~s.live
    BY <2>1, NoneLive DEF IInv
  <2>3. ConnectTypeOK'
    BY <1>1, <1>2, <1>6, <2>1, <2>2, ButtonTyped DEF IInv, ConnectTypeOK, SearchSet, PatchSet
  <2>4. LiveInv' /\ PageInv'
    BY <2>1, <2>2 DEF LiveInv, PageInv
  <2> QED
    BY <1>1, <1>3, <1>7, <2>3, <2>4 DEF IInv, FreshInv
<1> QED
  BY <1>8, <1>9

-----------------------------------------------------------------------------
(***************************************************************************)
(* Theorems.                                                               *)
(***************************************************************************)

\* A page just opened satisfies the invariant.
THEOREM InitIInv == ConnectInit => IInv
<1> SUFFICES ASSUME ConnectInit PROVE IInv
  OBVIOUS
<1>1. PICK u \in Links : entries = <<u>>
  BY DEF ConnectInit
<1>2. u \in Urls /\ MaxHistory \in Nat \ {0} /\ at = 1
  BY ConnectAssumption DEF ConnectInit
<1>3. entries \in Seq(Urls) /\ Len(entries) = 1 /\ DOMAIN entries = 1 .. 1
  BY <1>1, <1>2
<1>4. ConnectTypeOK
  <2>1. mode \in Modes /\ at \in DOMAIN entries
    BY <1>2, <1>3 DEF ConnectInit, Modes
  <2> QED
    BY <1>3, <2>1 DEF ConnectInit, ConnectTypeOK
<1>5. HistoryInv /\ BackLeavesPair
  BY <1>2, <1>3 DEF ConnectInit, HistoryInv, BackLeavesPair
<1>6. FreshInv /\ LiveInv /\ PageInv
  BY <1>3 DEF ConnectInit, FreshInv, LiveInv, PageInv
<1> QED
  BY <1>4, <1>5, <1>6 DEF IInv

\* No event and no continuation leaves the invariant.
THEOREM NextIInv == IInv /\ [ConnectNext]_connectVars => IInv'
<1> SUFFICES ASSUME IInv, [ConnectNext]_connectVars PROVE IInv'
  OBVIOUS
<1>1. CASE UNCHANGED connectVars
  <2>1. /\ UNCHANGED <<selection, loads, searches, patches, panel, copyLink, status, disabled>>
        /\ UNCHANGED lastSearch /\ UNCHANGED history
    BY <1>1 DEF connectVars
  <2>2. HistoryInv' /\ BackLeavesPair' /\ Url' = Url
    BY <2>1, SameHistory DEF loads
  <2>3. ConnectTypeOK'
    BY <2>1 DEF IInv, ConnectTypeOK, selection, loads, panel, history
  <2>4. FreshInv' /\ LiveInv' /\ PageInv'
    BY <2>1, <2>2 DEF IInv, FreshInv, LiveInv, PageInv, selection, loads, panel, history
  <2> QED
    BY <2>2, <2>3, <2>4 DEF IInv
<1>2. ASSUME NEW which \in {"a", "b"}, Type(which) PROVE IInv'
  BY <1>2, SelectKeeps DEF Type
<1>3. ASSUME NEW which \in {"a", "b"}, NEW x \in Records, Pick(which, x) PROVE IInv'
  BY <1>3, SelectKeeps DEF Pick
<1>4. CASE Continuation
  BY <1>4, ContinuationKeeps
<1>5. CASE CatalogArrives
  BY <1>5, CatalogKeeps
<1>6. CASE CatalogFails \/ GraphArrives \/ GraphFails \/ EvidenceArrives
  BY <1>6, LoadKeeps
<1>7. CASE SearchClick \/ Swap
  BY <1>7, SearchKeeps, SwapKeeps
<1>8. CASE \E m \in Modes : selectModeChip(m)
  BY <1>8, ModeKeeps
<1>9. CASE \E i \in DOMAIN entries : PopState(i)
  BY <1>9, PopStateKeeps
<1> QED
  BY <1>1, <1>2, <1>3, <1>4, <1>5, <1>6, <1>7, <1>8, <1>9 DEF ConnectNext

\* The invariant holds throughout.
THEOREM Invariance == ConnectSpec => []IInv
<1> QED
  BY InitIInv, NextIInv, PTL DEF ConnectSpec

\* The variables stay in their types.
THEOREM TypeCorrect == ConnectSpec => []ConnectTypeOK
<1>1. IInv => ConnectTypeOK
  BY DEF IInv
<1> QED
  BY <1>1, Invariance, PTL

\* What is on screen is the route of the records selected now, and the address bar
\* says so, whatever was edited while searches were in flight.
THEOREM ScreenIsSelected == ConnectSpec => []ShownIsSelected
<1>1. ASSUME IInv PROVE ShownIsSelected
  <2> SUFFICES ASSUME results
               PROVE  /\ hops # None /\ Pair(hops) = <<albumA, albumB>>
                      /\ copyLink /\ Url = hops
    BY DEF ShownIsSelected
  <2>1. /\ lastSearch # None /\ lastSearch.route = hops /\ Pair(hops) = <<albumA, albumB>>
        /\ copyLink /\ Url = hops
    BY <1>1 DEF IInv, PageInv
  <2>2. hops \in Routes
    BY <1>1, <2>1 DEF IInv, ConnectTypeOK
  <2> QED
    BY <2>1, <2>2, RoutesAreUrls
<1> QED
  BY <1>1, Invariance, PTL

\* Back never stays on the pair it left: no two neighbouring entries name one pair.
THEOREM BackGoesBack == ConnectSpec => []BackLeavesPair
<1>1. IInv => BackLeavesPair
  BY DEF IInv
<1> QED
  BY <1>1, Invariance, PTL
=============================================================================
