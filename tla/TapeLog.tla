------------------------------ MODULE TapeLog ------------------------------
(***************************************************************************)
(* The log of a tennis match, told from its tape: each entry is the whole   *)
(* score at a moment, the entries are samples, and a line of the log is     *)
(* what the difference of two neighbours says.  The match here is played    *)
(* in games of two points and sets of Games games, with an advantage and a  *)
(* tiebreak at Games - 1 all.  The points of a side are its place in the    *)
(* order of calls, of a tiebreak their number.                              *)
(***************************************************************************)
EXTENDS Integers, Sequences

CONSTANTS Games,      \* games of a set
          Partial,    \* whether the tape may leave out more than one game
          MaxGames, MaxEntries   \* bounds

VARIABLES score,     \* the match: a tape entry, as it is
          tape,      \* the last entry of the tape
          since,     \* ghost: what happened since: the games won, who served each, the sets
          said,      \* the last line of the log
          entries
vars == <<score, tape, since, said, entries>>

Sides == {0, 1}
Other(s) == 1 - s
Start == [sets |-> [s \in Sides |-> 0], games |-> <<[s \in Sides |-> 0]>>, points |-> [s \in Sides |-> 0], server |-> 0, tiebreak |-> FALSE]
Silent == [type |-> "none", side |-> 0, set |-> 0, line |-> [s \in Sides |-> 0]]
Fresh == [games |-> <<>>, sets |-> <<>>, points |-> <<>>]

Init == score = Start /\ tape = Start /\ since = Fresh /\ said = Silent /\ entries = 0

TypeOK ==
    /\ Len(score.games) \in 1..(MaxGames + 1) /\ said.type \in {"none", "set", "games", "break", "game", "point", "tiebreak-point"}
    /\ entries \in 0..MaxEntries

----------------------------------------------------------------------------
\* The match.
Current(m) == m.games[Len(m.games)]
SetNumber(entry) == Len(entry.games)
Played(m) == LET n[i \in 0..Len(m.games)] == IF i = 0 THEN 0 ELSE n[i - 1] + m.games[i][0] + m.games[i][1] IN n[Len(m.games)]
WinsSet(m, s) == Current(m)[s] + 1 >= Games /\ (Current(m)[s] + 1 > Current(m)[Other(s)] + 1 \/ m.tiebreak)

(* A point that does not win its game: the calls rise, or an advantage is lost. *)
Point(s) ==
    /\ IF score.points[s] = 1 THEN score.points[Other(s)] = 1 ELSE TRUE
    /\ score.points[s] < 2
    /\ score' = IF score.points[Other(s)] = 2 THEN [score EXCEPT !.points[Other(s)] = 1]
                ELSE [score EXCEPT !.points[s] = @ + 1]
    /\ since' = [since EXCEPT !.points = Append(@, s)]
    /\ UNCHANGED <<tape, said, entries>>

(* A game, and with it perhaps the set: the next one is in the list at once. *)
Game(s) ==
    /\ Played(score) < MaxGames
    /\ score.points[s] \in {1, 2} /\ score.points[s] > score.points[Other(s)]
    /\ LET won == [score EXCEPT !.games[Len(score.games)][s] = @ + 1, !.points = Start.points, !.server = Other(@)]
           set == WinsSet(score, s)
           after == IF set THEN [won EXCEPT !.sets[s] = @ + 1, !.games = Append(@, Start.games[1])] ELSE won
       IN  /\ score' = [after EXCEPT !.tiebreak = \A x \in Sides : Current(after)[x] = Games - 1]
           /\ since' = [games |-> Append(since.games, [by |-> s, server |-> score.server]),
                        sets |-> IF set THEN Append(since.sets, [by |-> s, set |-> SetNumber(score), line |-> Current(won)]) ELSE since.sets,
                        points |-> <<>>]
    /\ UNCHANGED <<tape, said, entries>>

----------------------------------------------------------------------------
(* The narrative of two neighbours: a set, else games, else a point.        *)
GamesIn(entry, s) == LET n[i \in 0..Len(entry.games)] == IF i = 0 THEN 0 ELSE n[i - 1] + entry.games[i][s] IN n[Len(entry.games)]
SetUp(prev, cur, s) == cur.sets[s] > prev.sets[s]
\* The set that ended, as the entry that ended it tells it.
Finished(prev, cur) == Len(prev.games)
BugLineOf(prev, cur) == prev.games[Finished(prev, cur)]   \* (defect) the score before the game that won the set
LineOf(prev, cur) == cur.games[Finished(prev, cur)]
Gained(prev, cur) == GamesIn(cur, 0) - GamesIn(prev, 0) + GamesIn(cur, 1) - GamesIn(prev, 1)
BugStraddles(prev, cur) == FALSE   \* (defect) a server is asked of games that it did not serve
Straddles(prev, cur) == Gained(prev, cur) > 1
Line(type, s, set, line) == [type |-> type, side |-> s, set |-> set, line |-> line]

Describe(prev, cur) ==
    LET first(P(_)) == IF P(0) THEN 0 ELSE 1
        setOf(s) == SetUp(prev, cur, s)
        gameOf(s) == GamesIn(cur, s) > GamesIn(prev, s)
        pointOf(s) == cur.points[s] > prev.points[s]
    IN  IF \E s \in Sides : setOf(s)
        THEN Line("set", first(setOf), Finished(prev, cur), LineOf(prev, cur))
        ELSE IF Straddles(prev, cur) THEN Line("games", 0, SetNumber(cur), Current(cur))
        ELSE IF \E s \in Sides : gameOf(s)
        THEN Line(IF prev.server = first(gameOf) THEN "game" ELSE "break", first(gameOf), SetNumber(cur), Current(cur))
        ELSE IF \E s \in Sides : pointOf(s)
        THEN Line(IF cur.tiebreak THEN "tiebreak-point" ELSE "point", first(pointOf), SetNumber(cur), cur.points)
        ELSE Silent

(* The provider writes an entry, and the log a line. *)
Write ==
    /\ entries < MaxEntries /\ entries' = entries + 1
    /\ Partial \/ Len(since.sets) <= 1
    /\ said' = Describe(tape, score)
    /\ tape' = score /\ since' = Fresh
    /\ UNCHANGED score

Next == (\E s \in Sides : Point(s) \/ Game(s)) \/ Write
Spec == Init /\ [][Next]_vars

----------------------------------------------------------------------------
(* What a line says happened since the entry before: a set is the one that  *)
(* was won, by whom and as it ended; a hold or a break is a game of that    *)
(* server; a point is one that this side won; and no game goes unmentioned. *)
SetIsTrue == said'.type = "set" => \E i \in 1..Len(since.sets) : since.sets[i] = [by |-> said'.side, set |-> said'.set, line |-> said'.line]
GameIsTrue ==
    said'.type \in {"game", "break"} =>
        /\ since.games = <<[by |-> said'.side, server |-> IF said'.type = "game" THEN said'.side ELSE Other(said'.side)]>>
PointIsTrue == said'.type \in {"point", "tiebreak-point"} => \E i \in 1..Len(since.points) : since.points[i] = said'.side
NothingHidden == said'.type \in {"none", "point", "tiebreak-point"} => since.games = <<>>
LogIsTrueStep == entries' # entries => SetIsTrue /\ GameIsTrue /\ PointIsTrue /\ NothingHidden
LogIsTrue == [][LogIsTrueStep]_vars
=============================================================================
