---------------------------- MODULE RoundEngine ----------------------------
(***************************************************************************)
(* One round of the Connection Guesser: the state machine createEngine     *)
(* returns (apps/web/src/game/engine.ts) and the tray of chips flagship.ts *)
(* puts in front of it.  A one-hop round asks one question; a two-hop      *)
(* round walks bridge_a, bridge_b and the hidden middle record.            *)
(*                                                                         *)
(* An action is one call of the engine's API, with the emit() it ends in.  *)
(* The "resolving" phase lasts no longer than the call of resolve that     *)
(* sets it.  struck, struckAlbums and solvedSteps never repeat an element   *)
(* and are used by membership only: they are sets here.                    *)
(***************************************************************************)
EXTENDS Naturals, Sequences, FiniteSets

CONSTANTS Contributors,  \* contributor ids
          Albums,        \* album ids
          Rounds         \* the rounds of the published pool

Kinds == {"one_hop", "two_hop"}
ContributorSteps == {"single", "bridge_a", "bridge_b"}
ATTEMPTS_PER_STEP == 2

\* The steps of a round, in no order, and those that name a contributor.
Path(k) == IF k = "one_hop" THEN {"single"} ELSE {"bridge_a", "bridge_b", "middle"}
Asks(k) == Path(k) \cap ContributorSteps

\* What validate_connection_rounds demands of a published round.
ValidRound(r) ==
  /\ r.kind \in Kinds
  /\ r.answers \in [Asks(r.kind) -> (SUBSET Contributors) \ {{}}]
  /\ r.distractors \subseteq Contributors
  /\ \A s \in Asks(r.kind) : r.answers[s] \cap r.distractors = {}
  /\ r.clues \in Seq(SUBSET r.distractors)
  /\ r.kind = "two_hop" => r.choices \subseteq Albums /\ r.middle \in r.choices

ASSUME RoundAssumption ==
  /\ \A r \in Rounds : ValidRound(r)
  /\ Contributors \cap Albums = {}

VARIABLES
  round,         \* the round in play
  phase, step, attemptsLeft, cluesUsed, struck, struckAlbums, solvedSteps,
  solved, failed, rating,  \* EngineState
  wrongAttempts, \* the engine's private counter
  eliminated,    \* flagship's eliminatedIds
  misses         \* history: the wrong picks of the current step

resultVars == <<solved, failed, rating>>
pickVars == <<struck, struckAlbums, wrongAttempts, misses>>
stepVars == <<step, attemptsLeft, solvedSteps>>
vars == <<round, phase, stepVars, pickVars, resultVars, cluesUsed, eliminated>>

NoRating == "none"

initialStep(k) == IF k = "one_hop" THEN "single" ELSE "bridge_a"

kind == round.kind
Answers == round.answers          \* the ids that answer a contributor step
Distractors == round.distractors  \* in the tray of every contributor step
MiddleChoices == round.choices    \* the tray of the middle step
Middle == round.middle
Clues == round.clues              \* the ids each rung eliminates, {} for a text clue

\* The chips of a step, and those the page has not disabled.
Tray(s) == IF s = "middle" THEN MiddleChoices ELSE Answers[s] \cup Distractors

Enabled(s) == Tray(s) \ (eliminated \cup struck \cup struckAlbums)

\* MUTANT of IsAnswer: both bridges accept the first bridge's answers.
IsAnswerFirstBridge(s, c) ==
  IF s = "middle" THEN c = Middle
  ELSE c \in (IF s = "bridge_b" THEN Answers["bridge_a"] ELSE Answers[s])

IsAnswer(s, c) == IF s = "middle" THEN c = Middle ELSE c \in Answers[s]

rateRound(won, clues, wrong) ==
  IF ~won THEN "revealed"
  ELSE IF clues = 0 /\ wrong = 0 THEN "clean" ELSE "with_clues"

resolve(won, wrong) ==
  /\ solved' = won /\ failed' = ~won
  /\ rating' = rateRound(won, cluesUsed, wrong)
  /\ phase' = "revealed"

-----------------------------------------------------------------------------
deal ==
  /\ phase = "idle"
  /\ phase' = "dealing"
  /\ UNCHANGED <<round, stepVars, pickVars, resultVars, cluesUsed, eliminated>>

present ==
  /\ phase = "dealing"
  /\ phase' = "guessing"
  /\ UNCHANGED <<round, stepVars, pickVars, resultVars, cluesUsed, eliminated>>

\* MUTANT of advanceStep: a new step forgets the misses of the ones before.
advanceStepForgivingMisses ==
  /\ solvedSteps' = solvedSteps \cup {step}
  /\ \/ /\ step \in {"bridge_a", "bridge_b"}
        /\ step' = IF step = "bridge_a" THEN "bridge_b" ELSE "middle"
        /\ attemptsLeft' = ATTEMPTS_PER_STEP
        /\ wrongAttempts' = 0
        /\ misses' = {}
        /\ UNCHANGED <<phase, resultVars>>
     \/ /\ step \in {"single", "middle"}
        /\ resolve(TRUE, wrongAttempts)
        /\ UNCHANGED <<step, attemptsLeft, wrongAttempts, misses>>

\* The current step is answered: on to the next one, or the round is solved.
advanceStep ==
  /\ solvedSteps' = solvedSteps \cup {step}
  /\ \/ /\ step \in {"bridge_a", "bridge_b"}
        /\ step' = IF step = "bridge_a" THEN "bridge_b" ELSE "middle"
        /\ attemptsLeft' = ATTEMPTS_PER_STEP
        /\ misses' = {}
        /\ UNCHANGED <<phase, resultVars, wrongAttempts>>
     \/ /\ step \in {"single", "middle"}
        /\ resolve(TRUE, wrongAttempts)
        /\ UNCHANGED <<step, attemptsLeft, wrongAttempts, misses>>

\* choose(c) on the right answer.
chooseRight(c) ==
  /\ phase = "guessing" /\ IsAnswer(step, c)
  /\ advanceStep
  /\ UNCHANGED <<round, struck, struckAlbums, cluesUsed, eliminated>>

\* choose(c) on a wrong one: struck, counted, and the round is lost when the
\* step's attempts are spent.
chooseWrong(c) ==
  /\ phase = "guessing" /\ ~IsAnswer(step, c)
  /\ IF step = "middle"
     THEN struckAlbums' = struckAlbums \cup {c} /\ UNCHANGED struck
     ELSE struck' = struck \cup {c} /\ UNCHANGED struckAlbums
  /\ wrongAttempts' = wrongAttempts + 1
  /\ attemptsLeft' = attemptsLeft - 1
  /\ misses' = misses \cup {c}
  /\ IF attemptsLeft' = 0
     THEN resolve(FALSE, wrongAttempts')
     ELSE UNCHANGED <<phase, resultVars>>
  /\ UNCHANGED <<round, step, solvedSteps, cluesUsed, eliminated>>

\* A click on a chip the page has not disabled.
choose(c) == c \in Enabled(step) /\ (chooseRight(c) \/ chooseWrong(c))

\* The clue button: the next rung, and the chips an eliminate clue takes away.
useClue ==
  /\ phase = "guessing" /\ cluesUsed < Len(Clues)
  /\ cluesUsed' = cluesUsed + 1
  /\ eliminated' = eliminated \cup Clues[cluesUsed + 1]
  /\ UNCHANGED <<round, phase, stepVars, pickVars, resultVars>>

\* MUTANT of reveal: a round already on the table can be given up again.
revealAgain ==
  /\ phase # "idle"
  /\ resolve(FALSE, wrongAttempts)
  /\ UNCHANGED <<round, stepVars, pickVars, cluesUsed, eliminated>>

\* Giving up.
reveal ==
  /\ phase \in {"guessing", "dealing"}
  /\ resolve(FALSE, wrongAttempts)
  /\ UNCHANGED <<round, stepVars, pickVars, cluesUsed, eliminated>>

Init ==
  /\ round \in Rounds
  /\ phase = "idle" /\ step = initialStep(kind)
  /\ attemptsLeft = ATTEMPTS_PER_STEP
  /\ cluesUsed = 0 /\ wrongAttempts = 0
  /\ struck = {} /\ struckAlbums = {} /\ eliminated = {} /\ misses = {}
  /\ solvedSteps = {}
  /\ solved = FALSE /\ failed = FALSE /\ rating = NoRating

Next ==
  \/ deal \/ present \/ useClue \/ reveal
  \/ \E c \in Contributors \cup Albums : choose(c)

Spec == Init /\ [][Next]_vars

-----------------------------------------------------------------------------
(***************************************************************************)
(* Properties.                                                             *)
(***************************************************************************)
Steps == ContributorSteps \cup {"middle"}

\* Every variable stays in its type.
TypeOK ==
  /\ round \in Rounds
  /\ phase \in {"idle", "dealing", "guessing", "revealed"}
  /\ step \in Steps /\ solvedSteps \in SUBSET Steps
  /\ attemptsLeft \in 0..ATTEMPTS_PER_STEP
  /\ cluesUsed \in 0..Len(Clues) /\ wrongAttempts \in Nat
  /\ struck \in SUBSET Contributors /\ struckAlbums \in SUBSET Albums
  /\ eliminated \in SUBSET Contributors /\ misses \in SUBSET (Contributors \cup Albums)
  /\ solved \in BOOLEAN /\ failed \in BOOLEAN
  /\ rating \in {NoRating, "clean", "with_clues", "revealed"}

\* A clean rating is earned: it is given exactly when the whole path was solved
\* without a clue and without a wrong pick on any step (scoring.ts rateRound,
\* fed by a counter that outlives the steps).
RatingEarned ==
  phase = "revealed" =>
    (rating = "clean" <=>
       /\ solvedSteps = Path(kind)
       /\ cluesUsed = 0 /\ struck = {} /\ struckAlbums = {})

\* A dealt round can be won to the end: whatever was struck on an earlier step
\* or taken away by a clue, an enabled chip answers the step in play.
Winnable == phase = "guessing" => \E c \in Enabled(step) : IsAnswer(step, c)

\* A step has its full attempts whatever the steps before it cost: what is left
\* is what the wrong picks of this step have not spent.
AttemptsPerStep == attemptsLeft + Cardinality(misses) = ATTEMPTS_PER_STEP

\* Every page that plays a round may rely on the contract: one resolution, to
\* a rating that stays.
Contract == INSTANCE RoundContract
ContractHolds == Contract!Spec
=============================================================================
