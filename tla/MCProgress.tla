----------------------------- MODULE MCProgress -----------------------------
(***************************************************************************)
(* What must eventually happen, on small instances.  On the servers:       *)
(* batches of reminders with faults, the slots of a line, the play logs of *)
(* finished games and the lists of lapsed passes.  On a reader's pages: the *)
(* players, the notification switch beside a self-check, and the results   *)
(* of the fixtures a page lists.  No two of the modules share a variable:  *)
(* focus says which one moves, and x1, x2, ... hold its variables and are 0 *)
(* beyond them.  Delivery's own stay at the start while another moves.     *)
(***************************************************************************)
EXTENDS Delivery

CONSTANTS s1, s2, p1, l1   \* model values

VARIABLES focus, x1, x2, x3, x4, x5, x6, x7, x8, x9, x10, x11, x12, x13, x14, x15

MCEvents == {"final"}
MCOffsets == {60}
MCChannels == {"webpush", "email"}
Wants(offsets, channels) == [timed |-> offsets, dated |-> offsets, channels |-> channels]
MCInitPrefs == Wants({60}, MCChannels)
MCPrefChoices == {Wants({}, MCChannels)}

Matches == {"a", "b", "c"}

Line == INSTANCE StreamSlots WITH Streams <- {s1, s2}, Probes <- {p1}, Lists <- {l1}, FirstList <- l1,
        Ceiling <- 2, Sold <- [l \in {l1} |-> 2], Chooses <- {0}, MaxChanges <- 0, line <- x1, slots <- x2,
        req <- x3, probe <- x4, changes <- x5
Plays == INSTANCE PlayLog WITH Games <- Matches, Logged <- Matches, Boxed <- {}, Answering <- {"a"},
        Start <- [g \in Matches |-> 1], Limit <- 2, Whole <- 0, MaxFaults <- 0,
        None <- NoJob, up <- x1, row <- x2, order <- x3, rested <- x4, drawn <- x5, due <- x6, pc <- x7,
        got <- x8, failed <- x9, faults <- x10, edge <- x11
Passes == INSTANCE LivePass WITH Handlers <- {"button"}, Terms <- {1, 3}, Month <- 2, Year <- 4, Grace <- 1,
        MaxTime <- 3, MaxLines <- 2, MaxIds <- 3, MaxInputs <- 2, MaxFaults <- 1, now <- x1, pass <- x2,
        unlocked <- x3, line <- x4, lines <- x5, list <- x6, used <- x7, run <- x8, edit <- x9,
        picked <- x10, inputs <- x11, faults <- x12, loose <- x13, torn <- x14, met <- x15
Players == INSTANCE PagePlayer WITH TV <- {"channels"}, Radio <- {"radio"}, MaxRow <- 2, MaxInputs <- 2,
        MaxVisits <- 1, shown <- x1, token <- x2, nav <- x3, failed <- x4, clicks <- x5, gen <- x6,
        row <- x7, waiting <- x8, bundle <- x9, running <- x10, stop <- x11, sweep <- x12, sweeps <- x13
Switch == INSTANCE PushToggle WITH Tabs <- {s1}, Checks <- {s2}, MaxEndpoints <- 2, MaxFaults <- 1,
        permission <- x1, sub <- x2, made <- x3, stored <- x4, signedIn <- x5, tab <- x6, check <- x7,
        mail <- x8, hung <- x9, slipped <- x10, faults <- x11
Results == INSTANCE Fixtures WITH Matches <- {"a"}, Prices <- {1}, Moves <- {"state"}, MaxMoves <- 2,
        MaxFaults <- 0, Outages <- FALSE, LastPhase <- 5, None <- NoJob, truth <- x1, phase <- x2,
        rows <- x3, history <- x4, job <- x5, met <- x6, moves <- x7, faults <- x8

lineVars == <<x1, x2, x3, x4, x5>>
playsVars == <<x1, x2, x3, x4, x5, x6, x7, x8, x9, x10, x11>>
passesVars == <<x1, x2, x3, x4, x5, x6, x7, x8, x9, x10, x11, x12, x13, x14, x15>>
playersVars == <<x1, x2, x3, x4, x5, x6, x7, x8, x9, x10, x11, x12, x13>>
switchVars == <<x1, x2, x3, x4, x5, x6, x7, x8, x9, x10, x11>>
resultsVars == <<x1, x2, x3, x4, x5, x6, x7, x8>>

(* What is beyond the n-th variable: it is 0, and stays. *)
Rest15 == <<focus>>
Zero15 == TRUE
Rest13 == <<x14, x15, Rest15>>
Zero13 == x14 = 0 /\ x15 = 0 /\ Zero15
Rest11 == <<x12, x13, Rest13>>
Zero11 == x12 = 0 /\ x13 = 0 /\ Zero13
Rest8 == <<x9, x10, x11, Rest11>>
Zero8 == x9 = 0 /\ x10 = 0 /\ x11 = 0 /\ Zero11
Rest5 == <<x6, x7, x8, Rest8>>
Zero5 == x6 = 0 /\ x7 = 0 /\ x8 = 0 /\ Zero8
Rest0 == <<x1, x2, x3, x4, x5, Rest5>>
Zero0 == x1 = 0 /\ x2 = 0 /\ x3 = 0 /\ x4 = 0 /\ x5 = 0 /\ Zero5

all == <<focus, vars, x1, x2, x3, x4, x5, x6, x7, x8, x9, x10, x11, x12, x13, x14, x15>>

ServerInit ==
    /\ Init
    /\ \/ focus = "delivery" /\ Zero0
       \/ focus = "line" /\ Line!Init /\ Zero5
       \/ focus = "plays" /\ Plays!Init /\ Zero11
       \/ focus = "passes" /\ Passes!Init /\ Zero15

ServerNext ==
    \/ focus = "delivery" /\ Next /\ UNCHANGED Rest0
    \/ focus = "line" /\ Line!Next /\ UNCHANGED <<vars, Rest5>>
    \/ focus = "plays" /\ Plays!Next /\ UNCHANGED <<vars, Rest11>>
    \/ focus = "passes" /\ Passes!Next /\ UNCHANGED <<vars, Rest15>>

\* The Fairness of each module, while it is the one that moves.
ServerFair ==
    /\ \A w \in BatchWorkers : WF_vars(focus = "delivery" /\ WorkerStep(w))
    /\ \A s \in {s1, s2} :
        /\ WF_lineVars(focus = "line" /\ Line!ReadAllowance(s)) /\ WF_lineVars(focus = "line" /\ Line!Claim(s))
        /\ WF_lineVars(focus = "line" /\ (Line!Accept(s) \/ Line!Sniff(s) \/ Line!Refuse(s)))
        /\ WF_lineVars(focus = "line" /\ Line!Marked(s)) /\ WF_lineVars(focus = "line" /\ Line!Cancelled(s))
    /\ WF_playsVars(focus = "plays" /\ Plays!Work)
    /\ \A g \in Matches : WF_playsVars(focus = "plays" /\ Plays!News(g) /\ Plays!WriteState(g))
    /\ WF_passesVars(focus = "passes" /\ Passes!Select)
    /\ \A i \in 1..3 : WF_passesVars(focus = "passes" /\ Passes!TakeDown(i))

ServerSpec == ServerInit /\ [][ServerNext]_all /\ ServerFair

PageInit ==
    /\ Init
    /\ \/ focus = "players" /\ Players!Init /\ Zero13
       \/ focus = "switch" /\ Switch!Init /\ Zero11
       \/ focus = "results" /\ Results!Init /\ Zero8

PageNext ==
    \/ focus = "players" /\ Players!Next /\ UNCHANGED <<vars, Rest13>>
    \/ focus = "switch" /\ Switch!Next /\ UNCHANGED <<vars, Rest11>>
    \/ focus = "results" /\ Results!Next /\ UNCHANGED <<vars, Rest8>>

PageFair ==
    /\ \A s \in Players!Section : WF_playersVars(focus = "players" /\ \E w \in x13 : w.sec = s /\ Players!SweepStep(w))
    /\ \A k \in Players!Kinds : WF_playersVars(focus = "players" /\ (Players!BundleReady(k) \/ Players!BundleFails(k)))
    /\ WF_switchVars(focus = "switch" /\ Switch!TimedStep(s1))
    /\ WF_switchVars(focus = "switch" /\ Switch!Paint(s1))
    /\ WF_resultsVars(focus = "results" /\ Results!LiveStep)

PageSpec == PageInit /\ [][PageNext]_all /\ PageFair

----------------------------------------------------------------------------
\* BatchesEnd of Delivery: a batch that waits is done, or dead, in the end.
BatchEnds ==
    \A id \in BatchIds :
        (focus = "delivery" /\ bt[id].status = "waiting") ~> bt[id].status \in {"done", "dead"}

\* CandidatesAreClaimed of Delivery: whoever wanted the reminder when it was
\* loaded gets a row, unless they changed their mind or the batch is dead.
CandidateIsClaimed ==
    \A id \in BatchIds, r \in Row :
        (focus = "delivery" /\ bt[id].status = "waiting" /\ r \in Undecided(id))
            ~> (claims[r] # "none" \/ bt[id].status = "dead" \/ r \notin CandidateRows(id))

\* No batch is lost: it ends, and unless it died each reader it was loaded for
\* got a row, whatever throws, stalls or dies in between.
BatchesDeliver == BatchEnds /\ CandidateIsClaimed

\* LeaverFreesSlot of StreamSlots: the slot of a reader who left comes free.
\* The two streams are alike, so it is asked of one.
Slots == x2
Requests == x3
Leaves(s) == focus = "line" /\ s \in Slots /\ Requests[s].left /\ ~Requests[s].deaf
LeaverFreesSlot == Leaves(s1) ~> (focus = "line" => s1 \notin Slots)

\* FinishedIsClosed of PlayLog: a finished game's log is closed, however many games are live
\* ("neither queue can starve the other"), unless its window of catchupHours ends first.  The
\* games b and c are alike.
Games == x1
Logs == x2
Over(g) == focus = "plays" /\ Games[g].state = "post"
FinishedIsClosed == \A g \in {"a", "b"} : Over(g) ~> (focus = "plays" => Logs[g].final \/ ~Plays!InWindow(g))

\* LapsedGoes of LivePass: a managed list whose pass has lapsed goes, unless
\* another pass is bought first.
ReaderLists == x6
Overdue == focus = "passes" /\ Passes!Lapsed /\ \E i \in 1..3 : ReaderLists[i].managed
LapsedGoes == Overdue ~> ~Overdue

\* RowsGetTheirAnswer of PagePlayer: a greyed-out row lights up or goes.
Unanswered(a, r) == focus = "players" /\ Players!Waits(a, r) /\ ~Players!Offers(a)
RowsAreAnswered == \A a \in {"channels"}, r \in Players!Rows : Unanswered(a, r) ~> ~Unanswered(a, r)

\* ClickEnds of PushToggle: a switch that was pressed works again, unless its handler comes to an
\* await without a deadline.
Pressed == focus = "switch" /\ Switch!Waiting(s1)
Unbounded == focus = "switch" /\ x6[s1].step \in Switch!Unbounded
ClickEnds == Pressed ~> (~Pressed \/ Unbounded)

\* FinalIsWritten of Fixtures: a game that is written as in progress gets its
\* result from the live tick alone, unless an older answer says that it is still
\* to begin, or half a day goes by.
Truth == x1
Written == x3
Phase == x2
ResultIsWritten ==
    (focus = "results" /\ Truth["a"].state = "post" /\ Written["a"].state = "in")
        ~> (focus = "results" => Written["a"].state \in {"post", "pre"} \/ Phase["a"] = 5)
=============================================================================
