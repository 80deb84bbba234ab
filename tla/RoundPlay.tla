----------------------------- MODULE RoundPlay -----------------------------
(***************************************************************************)
(* The Connection Guesser played on the rounds the generator makes: the    *)
(* engine and the page (RoundEngine) meet the pool (RoundPool), and what a *)
(* player is told right or wrong meets the catalogue it was drawn from.    *)
(***************************************************************************)
EXTENDS RoundEngine, RoundPool

CONSTANT Catalogs  \* the catalogues a pool is generated from

(* Every album has its performers, and every performer is a contributor.     *)
ASSUME CatalogsFit ==
  \A cat \in Catalogs :
    /\ cat.albums \subseteq Nat \cap Albums /\ IsFiniteSet(cat.albums)
    /\ \A a \in cat.albums : cat.performs[a] \subseteq Contributors

Published == UNION {generate_connection_round_pool(cat) : cat \in Catalogs}

Left == round.endpoints[1]
Right == round.endpoints[2]
Credited(a, c) == round.catalogue.performs[a] \cap round.catalogue.performs[c]

(* An answer by the catalogue: a performer credited on both records of the  *)
(* step, or a record that shares a performer with either end.               *)
TrulyAnswers(s, c) ==
  CASE s = "single"   -> c \in Credited(Left, Right)
    [] s = "bridge_a" -> c \in Credited(Left, Middle)
    [] s = "bridge_b" -> c \in Credited(Middle, Right)
    [] s = "middle"   -> Credited(Left, c) # {} /\ Credited(Right, c) # {}

(* The generator keeps this record apart from an end: one artist's records, *)
(* or a band's and its member's.                                            *)
KeptApart(c) == \E end \in {Left, Right} : {end, c} \in round.catalogue.family

\* No player is struck for a true answer: a chip still enabled that the catalogue
\* makes an answer is one the engine accepts (game-rounds-v1.md: the "two-hop middle
\* is unique across the **entire** eligible catalog").
TruthIsRight ==
  phase = "guessing" =>
    \A c \in Enabled(step) : TrulyAnswers(step, c) => IsAnswer(step, c)

\* What the engine accepts is an answer by the catalogue, and it strikes one in a
\* single case: a record that joins the ends, when the generator kept it apart from
\* one of them.  On a step that names a performer verdict and catalogue agree, on every
\* step of every round in the pool.  The answers, the distractors, the tray of records
\* and the test of the engine are computed in four places.
OnlyFamilyIsStruck ==
  phase = "guessing" =>
    \A c \in Enabled(step) :
      /\ IsAnswer(step, c) => TrulyAnswers(step, c)
      /\ TrulyAnswers(step, c) /\ ~IsAnswer(step, c) => step = "middle" /\ KeptApart(c)

\* The credit rows shown for an answer are those of the release they are shown
\* under (game-rounds-v1.md: "carries the release-specific ANV/as-credited
\* spelling").
EvidenceIsOfItsRelease ==
  phase = "revealed" => \A e \in round.evidence : e.credit.release = e.release_ref
=============================================================================
