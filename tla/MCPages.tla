------------------------------ MODULE MCPages ------------------------------
(* The pages of the site for TLC: the engine over generated rounds, the daily *)
(* pages that record how a round ended, and the Connect page.  A daily page    *)
(* takes no more of the engine than RoundContract and the Connect page shares  *)
(* nothing with either, so none reads a variable of another: a behaviour of    *)
(* this specification moves one of them and leaves the other two as they       *)
(* began, which shows every state of each without their product.               *)
EXTENDS MCRoundEngine, DailyPlay, MCConnect, TLC

VARIABLE moves  \* the one that moves: engine, daily or connect

pagesVars == <<vars, dailyVars, connectVars, moves>>

PagesInit ==
  /\ Init /\ DailyInit /\ ConnectInit
  /\ moves \in {"engine", "daily", "connect"}
  /\ moves # "engine" => round = CHOOSE r \in Rounds : TRUE
  /\ moves # "connect" => Url = None

PagesNext ==
  /\ UNCHANGED moves
  /\ \/ moves = "engine" /\ Next /\ UNCHANGED <<dailyVars, connectVars>>
     \/ moves = "daily" /\ DailyNext /\ UNCHANGED <<vars, connectVars>>
     \/ moves = "connect" /\ ConnectNext /\ UNCHANGED <<vars, dailyVars>>

PagesSpec == PagesInit /\ [][PagesNext]_pagesVars

(* The tabs are interchangeable.                                              *)
TabSymmetry == Permutations(Tabs)
=============================================================================
