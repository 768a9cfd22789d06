------------------------------- MODULE PlayLog -------------------------------
(***************************************************************************)
(* syncPlays of packages/sports: every two minutes one job reads the play  *)
(* log and the box score of a few games from the provider. A live game is  *)
(* read again and again, a finished one exactly once more; the quota is    *)
(* split so that neither kind keeps the other out, and the slots both      *)
(* leave go to finished games that have a box score only. The queue's      *)
(* worker runs one job at a time (concurrency 1); the scoreboard passes    *)
(* write the games' states beside it.                                      *)
(***************************************************************************)
EXTENDS Naturals, Sequences, FiniteSets, SequencesExt, FiniteSetsExt

CONSTANTS Games,      \* the events of the model
          Logged,     \* those whose league is plays_supported
          Boxed,      \* those whose league is boxscore_supported
          Answering,  \* those whose provider has a play log (fetchPlays)
          Start,      \* [Games -> Nat], starts_at
          Limit,      \* games read by one job
          Whole,      \* entries in the log of a finished game
          MaxFaults,  \* reads that fail, workers that die, late state writes, rows nobody writes
          None

VARIABLES up,      \* the game itself: [state, plays]
          row,     \* events and event_plays; touched: updated_at is of the last ten minutes
          order,   \* the games by plays_synced_at, nulls and oldest first
          rested,  \* games whose plays_synced_at is more than two minutes old, or null
          drawn,   \* the queues the running job has drawn so far, in a row
          due,     \* what is left of them, the game being read first
          pc,      \* where the job is
          got,     \* the plays of the provider's answer in hand
          failed,  \* games whose last read threw
          faults,
          edge     \* kickoffs up to here are more than catchupHours ago
vars == <<up, row, order, rested, drawn, due, pc, got, failed, faults, edge>>
job == <<drawn, due, pc, got>>

States == {"pre", "in", "post"}
Rank(s) == CASE s = "pre" -> 1 [] s = "in" -> 2 [] s = "post" -> 3
LastStart == Max(Range(Start))
Drawn == [game : Games, state : {"in", "post"}]

TypeOK ==
    /\ up \in [Games -> [state : States, plays : 0..Whole]]
    /\ row \in [Games -> [state : States, kept : 0..Whole, final : BOOLEAN,
                          recap : 0..Whole \cup {None}, stamped : BOOLEAN, touched : BOOLEAN]]
    /\ order \in Seq(Games) /\ ToSet(order) = Games /\ Len(order) = Cardinality(Games)
    /\ rested \subseteq Games /\ failed \subseteq Games
    /\ \A q \in {drawn, due} : q \in Seq(Drawn) /\ Len(q) <= Limit
    /\ pc \in {"idle", "ended", "recap", "fetch", "insert", "save", "close", "blank"}
    /\ got \in 0..Whole \cup {None}
    /\ faults \in 0..MaxFaults
    /\ edge \in 0..LastStart

Init == /\ up = [g \in Games |-> [state |-> "pre", plays |-> 0]]
        /\ row = [g \in Games |-> [state |-> "pre", kept |-> 0, final |-> FALSE,
                                   recap |-> None, stamped |-> FALSE, touched |-> TRUE]]
        /\ order = SetToSeq(Games) /\ rested = Games
        /\ drawn = <<>> /\ due = <<>> /\ pc = "idle" /\ got = None
        /\ failed = {} /\ faults = 0 /\ edge = 0

(***************************************************************************)
(* The games and the scoreboard passes.                                    *)
(***************************************************************************)
Kickoff(g) == /\ up[g].state = "pre"
              /\ up' = [up EXCEPT ![g].state = "in"]
              /\ UNCHANGED <<row, order, rested, job, failed, faults, edge>>

Play(g) == /\ up[g].state = "in" /\ up[g].plays < Whole
           /\ up' = [up EXCEPT ![g].plays = @ + 1]
           /\ UNCHANGED <<row, order, rested, job, failed, faults, edge>>

End(g) == /\ up[g].state = "in"
          /\ up' = [up EXCEPT ![g] = [state |-> "post", plays |-> Whole]]
          /\ UNCHANGED <<row, order, rested, job, failed, faults, edge>>

\* upsertEvents and updateEventScores set the state the provider answered with, and updated_at.
Written(g, s) == row' = [row EXCEPT ![g].state = s, ![g].touched = TRUE]
News(g) == row[g].state # up[g].state
WriteState(g) == /\ News(g) \/ ~row[g].touched
                 /\ Written(g, up[g].state)
                 /\ UNCHANGED <<up, order, rested, job, failed, faults, edge>>

\* For ten minutes no pass writes a game: the provider leaves it out, or no pass gets to it.
\* (Of the others nobody asks when they were written.)
Unwritten(g) == /\ row[g].touched /\ row[g].state = "in" /\ faults < MaxFaults
                /\ row' = [row EXCEPT ![g].touched = FALSE]
                /\ faults' = faults + 1
                /\ UNCHANGED <<up, order, rested, job, failed, edge>>

\* Time passes: the next kickoffs are catchupHours ago.
Age == /\ edge < LastStart /\ edge' = edge + 1
       /\ UNCHANGED <<up, row, order, rested, job, failed, faults>>

\* The sweep and the tick are two workers: an answer may be written after a newer one.
WriteLate(g) == /\ faults < MaxFaults
                /\ \E s \in States : Rank(s) < Rank(row[g].state) /\ Written(g, s)
                /\ faults' = faults + 1
                /\ UNCHANGED <<up, order, rested, job, failed, edge>>

\* Two minutes pass after a read.
Rest(g) == /\ g \notin rested
           /\ rested' = rested \cup {g}
           /\ UNCHANGED <<up, row, order, job, failed, faults, edge>>

(***************************************************************************)
(* The two queues of eventsNeedingPlays and the one of eventsNeedingRecap. *)
(***************************************************************************)
Least(m, n) == IF m < n THEN m ELSE n
Take(q, n) == SubSeq(q, 1, Least(n, Len(q)))
As(q, s) == [i \in DOMAIN q |-> [game |-> q[i], state |-> s]]

LiveDue == SelectSeq(order, LAMBDA g : g \in Logged \cap rested /\ row[g].state = "in" /\ row[g].touched)

\* Newest kickoff first; games of one kickoff keep the order of their last read.
NewestFirst(S) ==
    LET before(g, h) == \/ Start[g] > Start[h]
                        \/ Start[g] = Start[h] /\ \E i, j \in DOMAIN order :
                                                     i < j /\ order[i] = g /\ order[j] = h
    IN  SetToSortSeq(S, before)

\* starts_at > now() - catchupHours: a game that is older is in neither queue again.
InWindow(g) == Start[g] > edge
EndedDue == NewestFirst({g \in Logged : row[g].state = "post" /\ InWindow(g) /\ ~row[g].final})
RecapDue == NewestFirst({g \in Boxed : row[g].state = "post" /\ InWindow(g) /\ ~row[g].stamped})

\* Math.min(2, Math.max(1, limit - 1))
BugNoShare == 0
EndedShare == Least(2, IF Limit = 1 THEN 1 ELSE Limit - 1)

\* The first draw of a job; the live queue is cut back to its share.
DrawLive ==
    /\ pc = "idle"
    /\ drawn' = As(Take(LiveDue, Limit - EndedShare), "in")
    /\ pc' = "ended"
    /\ UNCHANGED <<up, row, order, rested, due, got, failed, faults, edge>>

DrawEnded ==
    /\ pc = "ended"
    /\ drawn' = drawn \o As(Take(EndedDue, Limit - Len(drawn)), "post")
    /\ pc' = "recap"
    /\ UNCHANGED <<up, row, order, rested, due, got, failed, faults, edge>>

\* The recap queue is drawn deep enough to reach past the games already drawn.
DrawRecap ==
    /\ pc = "recap"
    /\ LET already == {drawn[i].game : i \in DOMAIN drawn}
           slots == Limit - Len(drawn)
           queue == Take(RecapDue, Least(Cardinality(Games), slots + Cardinality(already)))
           only == Take(SelectSeq(queue, LAMBDA g : g \notin already), slots)
       IN  /\ due' = drawn \o As(only, "post")
           /\ drawn' = due'
           /\ pc' = IF due' = <<>> THEN "idle" ELSE "fetch"
    /\ UNCHANGED <<up, row, order, rested, got, failed, faults, edge>>

(***************************************************************************)
(* One game of the batch: fetch, insert the plays, save the recap, close.  *)
(* What is done with it follows the state it was drawn with.               *)
(***************************************************************************)
Reading == Head(due).game
BugWantRecap == TRUE
WantRecap == Head(due).state = "post"

Advance == /\ due' = Tail(due) /\ got' = None
           /\ drawn' = IF due' = <<>> THEN <<>> ELSE drawn
           /\ pc' = IF due' = <<>> THEN "idle" ELSE "fetch"

\* plays_synced_at := now
Stamped(g) == /\ order' = Append(Remove(order, g), g)
              /\ rested' = rested \ {g}

\* The log is closed by what the row says now, not by what was read.
BugClosed(r) == IF r.state = "post" THEN [r EXCEPT !.final = TRUE] ELSE r
\* markPlaysFinal or markPlaysSynced
Closed(r) == IF WantRecap THEN [r EXCEPT !.final = TRUE] ELSE r

Fetch ==
    /\ pc = "fetch" /\ Reading \in Answering
    /\ got' = up[Reading].plays
    /\ pc' = "insert"
    /\ UNCHANGED <<up, row, order, rested, drawn, due, failed, faults, edge>>

\* on conflict do nothing: what was stored stays, what is new is appended.
InsertPlays ==
    /\ pc = "insert"
    /\ row' = [row EXCEPT ![Reading].kept = IF got > @ THEN got ELSE @]
    /\ pc' = IF WantRecap THEN "save" ELSE "close"
    /\ UNCHANGED <<up, order, rested, drawn, due, got, failed, faults, edge>>

SaveRecap ==
    /\ pc = "save"
    /\ row' = [row EXCEPT ![Reading].recap = IF Reading \in Boxed THEN got ELSE None,
                          ![Reading].stamped = TRUE]
    /\ pc' = "close"
    /\ UNCHANGED <<up, order, rested, drawn, due, got, failed, faults, edge>>

Close ==
    /\ pc = "close"
    /\ row' = [row EXCEPT ![Reading] = Closed(@)]
    /\ Stamped(Reading) /\ failed' = failed \ {Reading}
    /\ Advance
    /\ UNCHANGED <<up, faults, edge>>

\* A provider without a play log: closed first, then the recap queue too.
CloseBlank ==
    /\ pc = "fetch" /\ Reading \notin Answering
    /\ row' = [row EXCEPT ![Reading] = Closed(@)]
    /\ Stamped(Reading) /\ failed' = failed \ {Reading}
    /\ IF WantRecap THEN pc' = "blank" /\ UNCHANGED <<drawn, due, got>> ELSE Advance
    /\ UNCHANGED <<up, faults, edge>>

SaveBlank ==
    /\ pc = "blank"
    /\ row' = [row EXCEPT ![Reading].recap = None, ![Reading].stamped = TRUE]
    /\ Advance
    /\ UNCHANGED <<up, order, rested, failed, faults, edge>>

\* Any await of the batch throws: the stamp alone, and on to the next game.
Fail ==
    /\ pc \in {"fetch", "insert", "save", "close", "blank"} /\ faults < MaxFaults
    /\ Stamped(Reading) /\ failed' = failed \cup {Reading}
    /\ Advance
    /\ faults' = faults + 1
    /\ UNCHANGED <<up, row, edge>>

\* The worker dies; the job is executed again from its beginning.
Die ==
    /\ pc # "idle" /\ faults < MaxFaults
    /\ drawn' = <<>> /\ due' = <<>> /\ pc' = "idle" /\ got' = None
    /\ faults' = faults + 1
    /\ UNCHANGED <<up, row, order, rested, failed, edge>>

Work == DrawLive \/ DrawEnded \/ DrawRecap \/ Fetch \/ InsertPlays \/ SaveRecap
        \/ Close \/ CloseBlank \/ SaveBlank

Next == \/ \E g \in Games : \/ Kickoff(g) \/ Play(g) \/ End(g)
                            \/ WriteState(g) \/ WriteLate(g) \/ Unwritten(g) \/ Rest(g)
        \/ Age \/ Work \/ Fail \/ Die

Spec == Init /\ [][Next]_vars

\* The scheduler repeats the scoreboard passes and the job.  Nothing has to be written again that
\* has not changed, and neither a game's rest nor its window has to end.
Fairness == WF_vars(Work) /\ \A g \in Games : WF_vars(News(g) /\ WriteState(g))
FairSpec == Spec /\ Fairness

(***************************************************************************)
(* Properties.                                                             *)
(***************************************************************************)
\* A log that is closed for good (plays_final) holds the game to its end,
\* whenever the game ended, failed or moved between the draw and the close.
FinalIsWhole ==
    \A g \in Games \cap Answering : row[g].final => row[g].kept = Whole

\* A box score that is kept is the one of the finished game, never the
\* half-time table of one that was still being played when it was read.
RecapIsOfTheEnd == \A g \in Games : row[g].recap \in {None, Whole}

\* What is closed or kept of a game was read after its end.
EndIsRead == FinalIsWhole /\ RecapIsOfTheEnd

\* A finished game's log is closed, however many games are live ("neither queue can starve the
\* other"), unless its window of catchupHours ends first.
FinishedIsClosed ==
    \A g \in Logged : (up[g].state = "post") ~> (row[g].final \/ ~InWindow(g))

\* What sports/index.js says of the failure path: "The stamp alone sends it to
\* the back of the queue, so it retries without holding a slot". A game whose
\* last read threw is not drawn while one that waits for its first is left out.
FailedGoesBack ==
    [][DrawEnded => LET Got == {drawn'[i].game : i \in (DOMAIN drawn') \ DOMAIN drawn}
                    IN  \A i \in DOMAIN EndedDue : EndedDue[i] \notin Got
                          => EndedDue[i] \in failed \/ Got \cap failed = {}]_vars

\* What it says of the share: "Capped only when there is enough live work to cap
\* ... neither leaves a slot idle". Live games are left out of a job only for
\* games that are drawn in their place.
NoSlotIdle ==
    [][DrawLive /\ Len(drawn') < Least(Limit, Len(LiveDue))
         => EndedDue # <<>> \/ RecapDue # <<>>]_vars

\* "A finished one needs reading exactly once more": a game is past its window with its log open
\* when no job got to it in time, and then no job ever will.
NoneIsMissed == \A g \in Logged : (up[g].state = "post") ~> row[g].final
=============================================================================
