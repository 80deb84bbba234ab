----------------------------- MODULE RoundPool -----------------------------
(***************************************************************************)
(* The rounds of the Connection Guesser (graph-core, connection_rounds):   *)
(* discovery, selection, and what the two validators demand of the pair of *)
(* files that is published.                                                *)
(*                                                                         *)
(* A catalogue is a record [albums, performs, family]: album ids, the      *)
(* performers each album credits (is_performer_role), and the pairs of     *)
(* albums no round may join (one artist, a band and its member).  A        *)
(* performer's credit row is named by its release and its artist.          *)
(***************************************************************************)
EXTENDS Integers, FiniteSets, Sequences, SequencesExt

CONSTANTS OneHopTarget, TwoHopTarget,      \* --one-hop-target, --two-hop-target
          MaxEndpointShare, MaxBridgeShare \* percent of the catalogue

ASSUME TargetsFit ==
  {OneHopTarget, TwoHopTarget, MaxEndpointShare, MaxBridgeShare} \subseteq Nat

_MAX_DISTRACTORS == 4
_MIN_DISTRACTORS == 2
_MAX_MIDDLE_CHOICES == 4

FirstOf(ids, n) == {i \in ids : Cardinality({j \in ids : j < i}) < n}
LowestId(ids) == CHOOSE i \in ids : \A j \in ids : i <= j

Key(x, y) == IF x < y THEN <<x, y>> ELSE <<y, x>>
Row(release, artist) == [release |-> release, artist |-> artist]

----------------------------------------------------------------------------
(* Discovery.                                                               *)

_shared_performers(cat, x, y) == cat.performs[x] \cap cat.performs[y]

AllowedPairs(cat) ==
  {p \in cat.albums \X cat.albums : p[1] < p[2] /\ {p[1], p[2]} \notin cat.family}

one_hop_pairs(cat) == {p \in AllowedPairs(cat) : _shared_performers(cat, p[1], p[2]) # {}}

(* The albums that hide between two that share nobody.  A pair kept apart   *)
(* by the family exclusions is no connection here either.                   *)
middles(cat, a, c) ==
  {m \in cat.albums \ {a, c} : {Key(a, m), Key(m, c)} \subseteq one_hop_pairs(cat)}

_pick_distractors(cat, albums, exclude) ==
  FirstOf((UNION {cat.performs[x] : x \in albums}) \ exclude, _MAX_DISTRACTORS)

_evidence_rows(artist, album_a, row_a, album_c, row_c) ==
  {[release_ref |-> album_a, contributor |-> artist, credit |-> row_a],
   [release_ref |-> album_c, contributor |-> artist, credit |-> row_c]}

(* The rows of a shared performer come in the order of the pair's key.      *)
Evidence(shared, a, c) ==
  UNION {_evidence_rows(x, a, Row(Key(a, c)[1], x), c, Row(Key(a, c)[2], x)) : x \in shared}

(* years, role, initials, credit excerpt, and the two names struck.         *)
ClueLadder(distractors) == <<{}, {}, {}, {}, FirstOf(distractors, 2)>>

_build_one_hop_round(cat, a, c) ==
  LET answers     == _shared_performers(cat, a, c)
      distractors == _pick_distractors(cat, {a, c}, answers)
  IN IF Cardinality(distractors) < _MIN_DISTRACTORS THEN {}
     ELSE {[kind |-> "one_hop", endpoints |-> <<a, c>>, answers |-> [single |-> answers],
            distractors |-> distractors, clues |-> ClueLadder(distractors),
            evidence |-> Evidence(answers, a, c), catalogue |-> cat]}

_build_two_hop_round(cat, a, c, m) ==
  LET bridge_a    == _shared_performers(cat, a, m)
      bridge_c    == _shared_performers(cat, m, c)
      distractors == _pick_distractors(cat, {a, m, c}, bridge_a \cup bridge_c)
  IN IF Cardinality(distractors) < _MIN_DISTRACTORS THEN {}
     ELSE {[kind |-> "two_hop", endpoints |-> <<a, c>>,
            answers |-> [bridge_a |-> bridge_a, bridge_b |-> bridge_c],
            middle |-> m,
            choices |-> {m} \cup FirstOf(cat.albums \ {a, c, m}, _MAX_MIDDLE_CHOICES - 1),
            distractors |-> distractors, clues |-> ClueLadder(distractors),
            evidence |-> Evidence(bridge_a, a, m) \cup Evidence(bridge_c, m, c),
            catalogue |-> cat]}

one_hop_candidates(cat) ==
  UNION {_build_one_hop_round(cat, p[1], p[2]) : p \in one_hop_pairs(cat)}

\* MUTANT of two_hop_candidates: the first of several middles will do.
two_hop_candidates_any_middle(cat) ==
  UNION {_build_two_hop_round(cat, p[1], p[2], LowestId(middles(cat, p[1], p[2]))) :
           p \in {q \in AllowedPairs(cat) \ one_hop_pairs(cat) : middles(cat, q[1], q[2]) # {}}}

two_hop_candidates(cat) ==
  UNION {_build_two_hop_round(cat, p[1], p[2], LowestId(middles(cat, p[1], p[2]))) :
           p \in {q \in AllowedPairs(cat) \ one_hop_pairs(cat) :
                    Cardinality(middles(cat, q[1], q[2])) = 1}}

----------------------------------------------------------------------------
(* Selection: again and again the candidate whose albums and bridges were   *)
(* used least, and it is dropped if one of them has been used enough.       *)

bridge_ids(r) == IF r.kind = "one_hop" THEN {} ELSE r.answers.bridge_a \cup r.answers.bridge_b
endpoint_ids(r) == {r.endpoints[1], r.endpoints[2]}
MostUsed(uses, ids) == CHOOSE n \in {uses[i] : i \in ids} : \A i \in ids : uses[i] <= n

(* The inverse of _score, up to the weight of the kind, which is one of all.  *)
Penalty(r, sel) ==
  (1 + sel.endpoint_uses[r.endpoints[1]] + sel.endpoint_uses[r.endpoints[2]])
    * (IF bridge_ids(r) = {} THEN 1 ELSE 1 + MostUsed(sel.bridge_uses, bridge_ids(r)))

Before(r, q) ==
  \/ r.endpoints[1] > q.endpoints[1]
  \/ r.endpoints[1] = q.endpoints[1] /\ r.endpoints[2] >= q.endpoints[2]

Best(sel) ==
  CHOOSE r \in sel.remaining : \A q \in sel.remaining :
    Penalty(r, sel) < Penalty(q, sel) \/ (Penalty(r, sel) = Penalty(q, sel) /\ Before(r, q))

Used(uses, ids) == [i \in DOMAIN uses |-> IF i \in ids THEN uses[i] + 1 ELSE uses[i]]

SelectOne(sel, target, max_endpoint_uses, max_bridge_uses) ==
  LET best == Best(sel)
      rest == sel.remaining \ {best}
  IN IF sel.remaining = {} \/ Cardinality(sel.selected) >= target THEN sel
     ELSE IF \/ \E i \in endpoint_ids(best) : sel.endpoint_uses[i] >= max_endpoint_uses
             \/ \E i \in bridge_ids(best) : sel.bridge_uses[i] >= max_bridge_uses
     THEN [sel EXCEPT !.remaining = rest]
     ELSE [remaining |-> rest, selected |-> sel.selected \cup {best},
           endpoint_uses |-> Used(sel.endpoint_uses, endpoint_ids(best)),
           bridge_uses |-> Used(sel.bridge_uses, bridge_ids(best))]

_select_diversified(cat, candidates, target, max_endpoint_uses, max_bridge_uses) ==
  FoldLeft(LAMBDA sel, i : SelectOne(sel, target, max_endpoint_uses, max_bridge_uses),
           [remaining |-> candidates, selected |-> {},
            endpoint_uses |-> [a \in cat.albums |-> 0],
            bridge_uses |-> [x \in UNION {cat.performs[a] : a \in cat.albums} |-> 0]],
           [i \in 1 .. Cardinality(candidates) |-> i]).selected

MaxUses(cat, share) ==
  LET uses == (Cardinality(cat.albums) * share) \div 100 IN IF uses < 1 THEN 1 ELSE uses

generate_connection_round_pool(cat) ==
  LET endpoint == MaxUses(cat, MaxEndpointShare)
      bridge   == MaxUses(cat, MaxBridgeShare)
  IN _select_diversified(cat, one_hop_candidates(cat), OneHopTarget, endpoint, bridge)
       \cup _select_diversified(cat, two_hop_candidates(cat), TwoHopTarget, endpoint, bridge)

----------------------------------------------------------------------------
(* The published pair: the rounds, and of the albums they use (endpoints,   *)
(* middles and choices) every performer's credit.                           *)

UsedAlbums(rounds) ==
  UNION {endpoint_ids(r) \cup (IF r.kind = "two_hop" THEN r.choices ELSE {}) : r \in rounds}

build_connection_universe_and_rounds(cat, rounds) ==
  [rounds |-> rounds, performs |-> [a \in UsedAlbums(rounds) |-> cat.performs[a]]]

AllAnswers(r) == UNION {r.answers[s] : s \in DOMAIN r.answers}

(* Generation time: no distractor and no struck name is an answer, every    *)
(* answer has evidence, two-hop endpoints share nobody.                     *)
validate_connection_rounds_artifact(published) ==
  \A r \in published.rounds :
    /\ \A s \in DOMAIN r.answers : r.answers[s] # {}
    /\ AllAnswers(r) \cap r.distractors = {}
    /\ AllAnswers(r) \subseteq {e.contributor : e \in r.evidence}
    /\ \A i \in DOMAIN r.clues : r.clues[i] \cap AllAnswers(r) = {}
    /\ endpoint_ids(r) \subseteq DOMAIN published.performs
    /\ r.kind = "two_hop" =>
         /\ r.middle \in r.choices
         /\ published.performs[r.endpoints[1]] \cap published.performs[r.endpoints[2]] = {}

(* The mirror without a graph: the answers are exactly the intersections    *)
(* of the published credits.                                                *)
connection_rounds_failures(published) ==
  {r \in published.rounds :
     LET both(x, y) == published.performs[x] \cap published.performs[y]
         a == r.endpoints[1]
         c == r.endpoints[2]
     IN IF r.kind = "one_hop" THEN r.answers.single # both(a, c)
        ELSE \/ r.answers.bridge_a # both(a, r.middle) \/ r.answers.bridge_b # both(r.middle, c)
             \/ both(a, c) # {}}
=============================================================================
