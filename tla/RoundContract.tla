--------------------------- MODULE RoundContract ---------------------------
(***************************************************************************)
(* What a game page relies on when it plays a round: the round is dealt,   *)
(* presented, and resolved at most once, to one of three ratings that      *)
(* never change afterwards.  RoundEngine implements it; the pages of       *)
(* DailyPlay take no more of a round than this.                            *)
(***************************************************************************)
VARIABLES phase, rating

NoRating == "none"
Ratings == {"clean", "with_clues", "revealed"}

Init == phase = "idle" /\ rating = NoRating

Deal == phase = "idle" /\ phase' = "dealing" /\ UNCHANGED rating

Present == phase = "dealing" /\ phase' = "guessing" /\ UNCHANGED rating

\* Giving up while the round is still being dealt reveals it.
Resolve(r) ==
  /\ phase = "guessing" \/ (phase = "dealing" /\ r = "revealed")
  /\ phase' = "revealed" /\ rating' = r

Next == Deal \/ Present \/ \E r \in Ratings : Resolve(r)

Spec == Init /\ [][Next]_<<phase, rating>>
=============================================================================
