------------------------------ MODULE Fixtures ------------------------------
(***************************************************************************)
(* The fixtures of one league and the two jobs that write them: the sweep,  *)
(* which asks for the whole schedule and then fills in broadcasters that    *)
(* ESPN does not name, and the live tick, which writes scores.  Both fetch  *)
(* first and write what they fetched later, in the order the answers come.  *)
(***************************************************************************)
EXTENDS Naturals, Sequences, FiniteSets

CONSTANTS Matches, Prices,  \* fixtures; what the line can stand at
          Moves,            \* what the provider revises: a subset of Aspects
          MaxMoves, MaxFaults,  \* bounds: its revisions, failed statements
          Outages,          \* whether the provider leaves fixtures out, or fails
          LastPhase,        \* bound: how far time goes
          None

VARIABLES truth,    \* what the provider would answer about each fixture
          phase,    \* how near the row's start is, 1 (early) to 5 (half a day past)
          rows,     \* events
          history,  \* event_odds_snapshots, by observed_at
          job,      \* the sync queue's job and the live queue's
          met,      \* ghost: fixtures of which two recordings overlapped
          moves, faults
vars == <<truth, phase, rows, history, job, met, moves, faults>>

Aspects == {"state", "line", "listing"}
States == <<"pre", "in", "post">>
Jobs == {"sweep", "live"}
Missing == [state |-> None, line |-> None, listed |-> FALSE]
NoRow == [state |-> None, line |-> None, source |-> None]
Nothing == [f \in Matches |-> Missing]
Idle == [step |-> "idle", got |-> Nothing, todo |-> {}]
StepsOf == {"idle", "write", "compare", "insert", "select", "fill"}
Answers == [state : {None, "pre", "in", "post"}, line : Prices \cup {None}, listed : BOOLEAN]

TypeOK ==
    /\ truth \in [Matches -> Answers] /\ phase \in [Matches -> 1..5]
    /\ rows \in [Matches -> [state : {None, "pre", "in", "post"}, line : Prices \cup {None},
                             source : {None, "espn", "thesportsdb"}]]
    /\ \A f \in Matches : \A i \in 1..Len(history[f]) : history[f][i].line \in Prices
    /\ \A j \in Jobs : job[j].step \in StepsOf /\ job[j].todo \subseteq Matches
    /\ met \subseteq Matches /\ moves \in 0..MaxMoves /\ faults \in 0..MaxFaults

Init == /\ truth \in [Matches -> {[Missing EXCEPT !.state = "pre", !.line = l] :
                                    l \in IF "line" \in Moves THEN Prices ELSE {None}}]
        /\ phase = [f \in Matches |-> 1] /\ rows = [f \in Matches |-> NoRow]
        /\ history = [f \in Matches |-> <<>>] /\ job = [j \in Jobs |-> Idle]
        /\ met = {} /\ moves = 0 /\ faults = 0

Fault == faults < MaxFaults /\ faults' = faults + 1

\* The provider.  A line is published while the fixture is still to be played.
Revise(f) ==
    /\ moves < MaxMoves /\ moves' = moves + 1
    /\ \/ /\ "state" \in Moves
          /\ \E a, b \in 1..3 : a < b /\ truth[f].state = States[a]
                /\ truth' = [truth EXCEPT ![f].state = States[b], ![f].line = None]
       \/ /\ "line" \in Moves /\ truth[f].state = "pre"
          /\ \E l \in Prices \ {truth[f].line} : truth' = [truth EXCEPT ![f].line = l]
       \/ "listing" \in Moves /\ truth' = [truth EXCEPT ![f].listed = ~@]
    /\ UNCHANGED <<phase, rows, history, job, met, faults>>

\* Time: 2 is the five minutes before the start, 3 the half hour after it.
Near(f) == phase[f] \in {2, 3}
Pass(f) ==
    /\ phase[f] < LastPhase /\ phase' = [phase EXCEPT ![f] = @ + 1]
    /\ UNCHANGED <<truth, rows, history, job, met, moves, faults>>

(***************************************************************************)
(* What both jobs do                                                        *)
(***************************************************************************)
\* leaguesWithLiveGames; the sweep's leagues have no such condition.
BugWanted(j) == j = "sweep" \/ \E f \in Matches : rows[f].state = "pre" /\ Near(f)
Wanted(j) == j = "sweep" \/ \E f \in Matches : rows[f].state = "in" \/ (rows[f].state = "pre" /\ Near(f))
InWindow == {f \in Matches : phase[f] < 5}
After(j) == IF j = "sweep" THEN "select" ELSE "idle"

\* fetchSchedule: the provider may leave fixtures out, or fail.
Fetch(j, shown) ==
    /\ job[j].step = "idle" /\ Wanted(j)
    /\ shown = InWindow \/ (Outages /\ shown \subseteq InWindow)
    /\ job' = [job EXCEPT ![j] = IF shown = {} THEN [Idle EXCEPT !.step = After(j)]
                ELSE [Idle EXCEPT !.step = "write", !.got = [f \in Matches |-> IF f \in shown THEN truth[f] ELSE Missing]]]
    /\ UNCHANGED <<truth, phase, rows, history, met, moves, faults>>

\* coalesce(excluded.odds, events.odds), in both statements
BugKept(new, old) == new
Kept(new, old) == IF new = None THEN old ELSE new
Written(row, a) == [state |-> a.state, line |-> Kept(a.line, row.line),
                    source |-> IF a.listed THEN "espn" ELSE row.source]

\* upsertEvents inserts what is new; updateEventScores writes rows that exist.
Write(j) ==
    LET hit == {f \in Matches : job[j].got[f] # Missing /\ (j = "sweep" \/ rows[f] # NoRow)} IN
    /\ job[j].step = "write"
    /\ \/ /\ rows' = [f \in Matches |-> IF f \in hit THEN Written(rows[f], job[j].got[f]) ELSE rows[f]]
          /\ job' = [job EXCEPT ![j] = [Idle EXCEPT !.step = "compare", !.todo = hit]]
          /\ UNCHANGED faults
       \/ Fault /\ job' = [job EXCEPT ![j] = [Idle EXCEPT !.step = After(j)]] /\ UNCHANGED rows
    /\ UNCHANGED <<truth, phase, history, met, moves>>

\* recordOddsSnapshots, one statement: what it reads when it begins ...
Committed(f) == SelectSeq(history[f], LAMBDA e : e.by = None)
Latest(f) == LET s == Committed(f) IN IF s = <<>> THEN None ELSE s[Len(s)].line
BugMoved(f) == rows[f].line # None
Moved(f) == rows[f].line # None /\ rows[f].line # Latest(f)
Pending(f) == \E i \in 1..Len(history[f]) : history[f][i].by # None
Compare(j) ==
    LET hit == {f \in job[j].todo : Moved(f)} IN
    /\ job[j].step = "compare"
    /\ history' = [f \in Matches |->
          IF f \in hit THEN Append(history[f], [line |-> rows[f].line, by |-> j]) ELSE history[f]]
    /\ met' = met \cup {f \in job[j].todo : Pending(f)}
    /\ job' = [job EXCEPT ![j].step = "insert", ![j].todo = hit]
    /\ UNCHANGED <<truth, phase, rows, moves, faults>>
\* ... and what others see when it has committed, or failed: neither job minds.
Insert(j) ==
    /\ job[j].step = "insert"
    /\ \/ /\ history' = [f \in Matches |-> [i \in 1..Len(history[f]) |->
                IF history[f][i].by = j THEN [history[f][i] EXCEPT !.by = None] ELSE history[f][i]]]
          /\ UNCHANGED faults
       \/ Fault /\ history' = [f \in Matches |-> SelectSeq(history[f], LAMBDA e : e.by # j)]
    /\ job' = [job EXCEPT ![j] = [Idle EXCEPT !.step = After(j)]]
    /\ UNCHANGED <<truth, phase, rows, met, moves>>

(***************************************************************************)
(* syncBroadcasts, at the tail of the sweep                                 *)
(***************************************************************************)
\* listEventsMissingBroadcast: fixtures that are still to begin ...
Ours(f) == rows[f].source \in {None, "thesportsdb"}
Select ==
    /\ job["sweep"].step = "select"
    /\ job' = [job EXCEPT !["sweep"] = [Idle EXCEPT !.step = "fill",
                !.todo = {f \in Matches : rows[f] # NoRow /\ Ours(f) /\ phase[f] <= 2}]]
    /\ UNCHANGED <<truth, phase, rows, history, met, moves, faults>>
\* ... and fillMissingBroadcasts, for those TheSportsDB lists, after its requests
BugFillable(f) == TRUE
Fillable(f) == Ours(f)
Fill(found) ==
    /\ job["sweep"].step = "fill" /\ found \subseteq job["sweep"].todo
    /\ rows' = [f \in Matches |-> IF f \in found /\ Fillable(f) THEN [rows[f] EXCEPT !.source = "thesportsdb"] ELSE rows[f]]
    /\ job' = [job EXCEPT !["sweep"] = Idle]
    /\ UNCHANGED <<truth, phase, history, met, moves, faults>>

Next ==
    \/ \E f \in Matches : Revise(f) \/ Pass(f)
    \/ \E j \in Jobs : (\E shown \in SUBSET Matches : Fetch(j, shown)) \/ Write(j) \/ Compare(j) \/ Insert(j)
    \/ Select
    \/ \E found \in SUBSET Matches : Fill(found)

\* The live queue works, and its provider answers (without Outages).  Nothing is
\* assumed of the sweep: its next pass may be a day away.
LiveStep == (\E shown \in SUBSET Matches : Fetch("live", shown)) \/ Write("live") \/ Compare("live") \/ Insert("live")
Fairness == WF_vars(LiveStep)
Spec == Init /\ [][Next]_vars
FairSpec == Spec /\ Fairness

----------------------------------------------------------------------------
\* A listing of ESPN's stays ESPN's: neither a later answer without one nor a
\* fallback pass that chose its work before the listing came may replace it.
EspnStays == \A f \in Matches : rows[f].source = "espn" => rows'[f].source = "espn"

\* The line outlives kickoff: the provider drops it then, in whichever pass asks
\* first, and the finished game still shows what the market expected.
LineStays == \A f \in Matches : rows[f].line # None => rows'[f].line # None

\* The archive holds a reading only where the line moved, and ends with the line
\* as it stands, except where two recordings of one fixture overlapped or failed.
LineTold ==
    \A f \in Matches \ met : LET s == Committed(f) IN
        /\ \A i \in 2..Len(s) : s[i].line # s[i - 1].line
        /\ faults = 0 /\ (\A j \in Jobs : job[j].step \notin {"compare", "insert"}) => Latest(f) = rows[f].line

FixturesHoldStep == EspnStays /\ LineStays /\ LineTold'
FixturesHold == [][FixturesHoldStep]_vars

\* The tick sees a game out: one that is written as in progress gets its result,
\* however late its answers are written, if it is asked about within half a day.
FinalIsWritten == \A f \in Matches :
    (truth[f].state = "post" /\ rows[f].state = "in") ~> (rows[f].state \in {"post", "pre"} \/ phase[f] = 5)

\* Not so: "`post` is terminal -- nothing downgrades out of it".
PostIsTerminal == [][\A f \in Matches : rows[f].state = "post" => rows'[f].state = "post"]_vars
\* Not so: the comparison in the statement that inserts leaves no race.
NoRaceInArchive == \A f \in Matches : LET s == Committed(f) IN \A i \in 2..Len(s) : s[i].line # s[i - 1].line
=============================================================================
