----------------------------- MODULE PagePlayer -----------------------------
(***************************************************************************)
(* The players of a page: initInlinePlayer, checkOwnChannels, initRadio    *)
(* and the in-page navigation of apps/web/public/app.js.  A page has one   *)
(* or more sections of playable rows, television or radio.  A press waits  *)
(* for the player's bundle; a sweep asks the server about one row after    *)
(* another; a navigation swaps the page under both.  A section belongs to  *)
(* the visit whose swap made it, and its closures outlive its markup.      *)
(***************************************************************************)
EXTENDS Integers, FiniteSets

CONSTANTS TV, Radio,    \* the sections a page has, of the two kinds
          MaxRow,       \* rows of a section
          MaxInputs,    \* bound: presses and navigations together
          MaxVisits     \* bound: navigations

Slots == TV \cup Radio
Rows == 1..MaxRow
Kinds == {"tv", "radio"}
Section == [visit : 0..MaxVisits, slot : Slots]
Kind(s) == IF s.slot \in TV THEN "tv" ELSE "radio"
Row == [verified : BOOLEAN, enabled : BOOLEAN, gone : BOOLEAN, label : {"play", "starting", "stop"}]

VARIABLES
    shown,    \* the navigation whose page is on the screen
    token,    \* navigations asked for
    nav,      \* those not answered yet
    failed,   \* history: a navigation failed and the document was loaded afresh
    clicks,   \* presses so far: the source of every generation
    gen,      \* the generation of each section
    row,      \* the rows of each section
    waiting,  \* presses that wait for a bundle
    bundle,   \* the two player bundles
    running,  \* players that hold a connection
    stop,     \* each section's handle: the generation of its player, or 0
    sweep,    \* the sweep each section's AbortController belongs to
    sweeps    \* the sweeps that are walking

vars == <<shown, token, nav, failed, clicks, gen, row, waiting, bundle, running, stop, sweep, sweeps>>
page == <<shown, token, nav, failed>>
players == <<waiting, bundle, running, stop>>
walks == <<sweep, sweeps>>

SectionsOf(v) == {s \in Section : s.visit = v}
Press == [sec : Section, row : Rows, gen : 1..MaxInputs]
Walk == [sec : Section, id : 0..MaxInputs, todo : SUBSET Rows]

----------------------------------------------------------------------------
(* The page as the server sends it.                                        *)

\* Television rows come disabled, some of them confirmed; initPlayerSection
\* enables those and starts a sweep of the rest.  Radio rows are wired at once.
SentRow(s, known) ==
    [r \in Rows |-> [verified |-> Kind(s) = "tv" /\ r \in known,
                     enabled |-> Kind(s) = "radio" \/ r \in known,
                     gone |-> FALSE, label |-> "play"]]
FirstSweeps(v, known) ==
    {[sec |-> s, id |-> 0, todo |-> Rows \ known] : s \in {x \in SectionsOf(v) : Kind(x) = "tv" /\ known # Rows}}

Init ==
    /\ shown = 0 /\ token = 0 /\ nav = {} /\ failed = FALSE /\ clicks = 0
    /\ gen = [s \in Section |-> 0]
    /\ \E known \in SUBSET Rows :
          /\ row = [s \in Section |-> SentRow(s, IF s.visit = 0 THEN known ELSE {})]
          /\ sweeps = FirstSweeps(0, known)
    /\ waiting = {} /\ bundle = [k \in Kinds |-> "none"]
    /\ running = {} /\ stop = [s \in Section |-> 0]
    /\ sweep = [s \in Section |-> 0]

----------------------------------------------------------------------------
(* Stopping.                                                               *)

\* teardown: a section's own handle, and nothing it has no handle for.
Held(p) == stop[p.sec] = p.gen
StopIn(S) == running \ {p \in running : p.sec \in S /\ Held(p)}
Unheld(S) == [s \in Section |-> IF s \in S THEN 0 ELSE stop[s]]

\* The rows of torn down sections: radio puts its own button back, television
\* leaves that to its callers.
Released(S) ==
    [s \in Section |-> IF s \in S /\ Kind(s) = "radio"
        THEN [r \in Rows |-> IF row[s][r].label = "stop" THEN [row[s][r] EXCEPT !.label = "play"] ELSE row[s][r]]
        ELSE row[s]]

\* Mutant: the last section of the page replaces the others' teardown.
BugChain == {CHOOSE s \in SectionsOf(shown) : TRUE}

\* __tipoffStopPlayer, as the sections of the page have chained it.
Chain == SectionsOf(shown)

\* startSweep: a new controller; whatever it replaces is not aborted here.
Pending(rows) == {r \in Rows : ~rows[r].verified /\ ~rows[r].gone}
StartSweeps(S, rows, id) ==
    {w \in {[sec |-> s, id |-> id[s], todo |-> Pending(rows[s])] : s \in S} : w.todo # {}}

\* What fail leaves of a television section's rows.
FailedRows(s) == [r \in Rows |-> [row[s][r] EXCEPT !.label = "play", !.enabled = row[s][r].verified]]

----------------------------------------------------------------------------
(* Pressing.                                                               *)

\* A press asks for the bundle unless it is there or on its way.
Ask(k) == IF bundle[k] = "none" THEN [bundle EXCEPT ![k] = "loading"] ELSE bundle

\* Mutant: a press does not stop the section's sweep.
BugAborted(s) == sweeps

\* sweep.abort
Aborted(s) == {w \in sweeps : ~(w.sec = s /\ w.id = sweep[s])}

Pressable(s, r) ==
    /\ s.visit = shown /\ row[s][r].enabled /\ ~row[s][r].gone
    /\ clicks + token < MaxInputs
    /\ clicks' = clicks + 1
    /\ gen' = [gen EXCEPT ![s] = clicks + 1]

\* The channel that plays is pressed: it stops, and the sweep goes on.
PressStop(s, r) ==
    /\ Pressable(s, r) /\ Kind(s) = "tv" /\ row[s][r].label = "stop"
    /\ running' = StopIn({s}) /\ stop' = Unheld({s})
    /\ row' = [row EXCEPT ![s][r].label = "play"]
    /\ sweep' = [sweep EXCEPT ![s] = clicks']
    /\ sweeps' = Aborted(s) \cup StartSweeps({s}, row, sweep')
    /\ UNCHANGED <<page, waiting, bundle>>

\* The player starts at once when the bundle is there; the press waits when not.
Start(s, r, rows, rest) ==
    LET p == [sec |-> s, row |-> r, gen |-> clicks']
    IN IF bundle[Kind(s)] = "ready"
       THEN /\ running' = rest \cup {p}
            /\ row' = [rows EXCEPT ![s][r].label = "stop"]
            /\ UNCHANGED <<waiting, bundle>>
       ELSE /\ running' = rest
            /\ row' = [rows EXCEPT ![s][r].label = "starting", ![s][r].enabled = FALSE]
            /\ waiting' = waiting \cup {p}
            /\ bundle' = Ask(Kind(s))
Handle(s, handles) == IF bundle[Kind(s)] = "ready" THEN [handles EXCEPT ![s] = clicks'] ELSE handles

\* Another channel: this section's player goes, the sweep stops, and every
\* button of the section says Play again.
PressPlay(s, r) ==
    /\ Pressable(s, r) /\ Kind(s) = "tv" /\ row[s][r].label # "stop"
    /\ Start(s, r, [row EXCEPT ![s] = [q \in Rows |-> [row[s][q] EXCEPT !.label = "play"]]], StopIn({s}))
    /\ stop' = Handle(s, Unheld({s}))
    /\ sweeps' = Aborted(s)
    /\ UNCHANGED <<page, sweep>>

RadioStop(s, r) ==
    /\ Pressable(s, r) /\ Kind(s) = "radio" /\ row[s][r].label = "stop"
    /\ running' = StopIn({s}) /\ stop' = Unheld({s})
    /\ row' = Released({s})
    /\ UNCHANGED <<page, waiting, bundle, walks>>

\* A station stops whatever else plays on the page.
RadioPlay(s, r) ==
    /\ Pressable(s, r) /\ Kind(s) = "radio" /\ row[s][r].label # "stop"
    /\ Start(s, r, Released(Chain), StopIn(Chain))
    /\ stop' = Handle(s, Unheld(Chain))
    /\ UNCHANGED <<page, walks>>

----------------------------------------------------------------------------
(* The bundle arrives, or does not.  The promise's handlers run one after  *)
(* the other, before anything else does.                                   *)

Waiters(k) == {p \in waiting : Kind(p.sec) = k}
Newest(G) == CHOOSE g \in G : \A h \in G : h <= g

\* A press that is no longer its section's newest leaves the player to that one.
Attaching(k) == {p \in Waiters(k) : gen[p.sec] = p.gen}

AfterReady(k, s, r) ==
    LET own == {p \in Waiters(k) : p.sec = s /\ p.row = r}
    IN IF own = {} THEN row[s][r]
       ELSE [row[s][r] EXCEPT !.enabled = TRUE,
                              !.label = IF own \cap Attaching(k) # {} THEN "stop" ELSE "play"]

BundleReady(k) ==
    /\ bundle[k] = "loading"
    /\ bundle' = [bundle EXCEPT ![k] = "ready"]
    /\ waiting' = waiting \ Waiters(k)
    /\ running' = running \cup Attaching(k)
    /\ stop' = [s \in Section |-> IF \E p \in Attaching(k) : p.sec = s THEN gen[s] ELSE stop[s]]
    /\ row' = [s \in Section |-> [r \in Rows |-> AfterReady(k, s, r)]]
    /\ UNCHANGED <<page, clicks, gen, walks>>

\* Each waiting press fails for itself: in a television section that starts a
\* sweep each time, and only the last of them can be aborted.
BundleFails(k) ==
    LET hit == {p.sec : p \in Waiters(k)}
    IN /\ bundle[k] = "loading"
       /\ bundle' = [bundle EXCEPT ![k] = "none"]
       /\ waiting' = waiting \ Waiters(k)
       /\ running' = StopIn(hit) /\ stop' = Unheld(hit)
       /\ row' = [s \in Section |-> IF s \notin hit THEN row[s]
                    ELSE IF k = "tv" THEN FailedRows(s)
                    ELSE [r \in Rows |-> IF row[s][r].label = "starting" \/ ~row[s][r].enabled
                                         THEN [row[s][r] EXCEPT !.label = "play", !.enabled = TRUE]
                                         ELSE Released({s})[s][r]]]
       /\ IF k = "radio" THEN UNCHANGED walks
          ELSE /\ sweep' = [s \in Section |-> IF s \in hit
                    THEN Newest({p.gen : p \in {x \in Waiters(k) : x.sec = s}})
                    ELSE sweep[s]]
               /\ sweeps' = sweeps \cup UNION {StartSweeps({p.sec}, row, [s \in Section |-> p.gen]) : p \in Waiters(k)}
       /\ UNCHANGED <<page, clicks, gen>>

----------------------------------------------------------------------------
(* Playing and sweeping.                                                   *)

\* Mutant: a stream that ends leaves the rows the sweep never reached.
BugPlayerFails(p) ==
    /\ p \in running
    /\ running' = StopIn({p.sec}) /\ stop' = Unheld({p.sec})
    /\ row' = IF Kind(p.sec) = "radio" THEN Released({p.sec}) ELSE [row EXCEPT ![p.sec] = FailedRows(p.sec)]
    /\ UNCHANGED <<page, clicks, gen, waiting, bundle, walks>>

\* A stream is over for good: onError, or a radio's own stop button.
PlayerFails(p) ==
    /\ p \in running
    /\ running' = StopIn({p.sec}) /\ stop' = Unheld({p.sec})
    /\ IF Kind(p.sec) = "radio"
       THEN row' = Released({p.sec}) /\ UNCHANGED walks
       ELSE /\ row' = [row EXCEPT ![p.sec] = FailedRows(p.sec)]
            /\ sweep' = [sweep EXCEPT ![p.sec] = p.gen]
            /\ sweeps' = sweeps \cup StartSweeps({p.sec}, row, sweep')
    /\ UNCHANGED <<page, clicks, gen, waiting, bundle>>

Current(w) == CHOOSE r \in w.todo : \A q \in w.todo : r <= q
Left(w, left) == (sweeps \ {w}) \cup {x \in {[w EXCEPT !.todo = left]} : x.todo # {}}

\* The server's answer to the check in flight: live, dead, no connection, or
\* the line is in use and nothing was checked.
SweepLive(w) ==
    /\ row' = [row EXCEPT ![w.sec][Current(w)].verified = TRUE, ![w.sec][Current(w)].enabled = TRUE]
    /\ sweeps' = Left(w, w.todo \ {Current(w)})
SweepDead(w) ==
    /\ row' = [row EXCEPT ![w.sec][Current(w)].gone = TRUE]
    /\ sweeps' = Left(w, w.todo \ {Current(w)})
SweepLost(w) ==
    /\ row' = [row EXCEPT ![w.sec][Current(w)].enabled = TRUE]
    /\ sweeps' = Left(w, w.todo \ {Current(w)})
SweepSkipped(w) ==
    /\ row' = [row EXCEPT ![w.sec] = [r \in Rows |-> [row[w.sec][r] EXCEPT !.enabled = @ \/ r \in w.todo]]]
    /\ sweeps' = sweeps \ {w}
SweepStep(w) ==
    /\ w \in sweeps
    /\ SweepLive(w) \/ SweepDead(w) \/ SweepLost(w) \/ SweepSkipped(w)
    /\ UNCHANGED <<page, clicks, gen, players, sweep>>

----------------------------------------------------------------------------
(* Navigation.                                                             *)

Go ==
    /\ token < MaxVisits /\ clicks + token < MaxInputs
    /\ token' = token + 1 /\ nav' = nav \cup {token + 1}
    /\ UNCHANGED <<shown, failed, clicks, gen, row, players, walks>>

\* Mutant: an answer that is no longer the newest is shown.
BugCurrent(k) == TRUE

Latest(k) == k = token

\* A newer click has been made: this answer is dropped.
Discard(k) ==
    /\ k \in nav /\ ~Latest(k)
    /\ nav' = nav \ {k}
    /\ UNCHANGED <<shown, token, failed, clicks, gen, row, players, walks>>

\* Mutant: the page is swapped and its players are left alone.
BugSwap(k) ==
    /\ k \in nav /\ Latest(k)
    /\ nav' = nav \ {k} /\ shown' = k
    /\ \E known \in SUBSET Rows :
          /\ row' = [s \in Section |-> IF s.visit = k THEN SentRow(s, known) ELSE row[s]]
          /\ sweeps' = sweeps \cup FirstSweeps(k, known)
    /\ UNCHANGED <<token, failed, clicks, gen, players, sweep>>

\* The players of the old page stop, its markup goes, and the new sections
\* start with theirs.  Presses that wait and sweeps that walk are not told.
Swap(k) ==
    /\ k \in nav /\ Latest(k)
    /\ nav' = nav \ {k} /\ shown' = k
    /\ running' = StopIn(Chain) /\ stop' = Unheld(Chain)
    /\ \E known \in SUBSET Rows :
          /\ row' = [s \in Section |-> IF s.visit = k THEN SentRow(s, known) ELSE Released(Chain)[s]]
          /\ sweeps' = sweeps \cup FirstSweeps(k, known)
    /\ UNCHANGED <<token, failed, clicks, gen, waiting, bundle, sweep>>

\* A navigation that fails, however old, loads its address as a new document.
HardLoad(k) ==
    /\ k \in nav
    /\ shown' = k /\ nav' = {} /\ failed' = TRUE
    /\ waiting' = {} /\ running' = {} /\ bundle' = [x \in Kinds |-> "none"]
    /\ stop' = [s \in Section |-> 0] /\ sweep' = [s \in Section |-> 0]
    /\ gen' = [s \in Section |-> 0]
    /\ \E known \in SUBSET Rows :
          /\ row' = [s \in Section |-> SentRow(s, IF s.visit = k THEN known ELSE {})]
          /\ sweeps' = FirstSweeps(k, known)
    /\ UNCHANGED <<token, clicks>>

Bundles == \E k \in Kinds : BundleReady(k) \/ BundleFails(k)
Arrive(k) == Discard(k) \/ Swap(k) \/ HardLoad(k)

Next ==
    \/ \E s \in Section, r \in Rows : PressStop(s, r) \/ PressPlay(s, r) \/ RadioStop(s, r) \/ RadioPlay(s, r)
    \/ Bundles
    \/ \E p \in running : PlayerFails(p)
    \/ \E w \in sweeps : SweepStep(w)
    \/ Go
    \/ \E k \in nav : Arrive(k)

\* Checks are answered: the server bounds each of them; a script tag loads or
\* fails.  No reader has to press and no stream has to end.
Fairness ==
    /\ \A s \in Section : WF_vars(\E w \in sweeps : w.sec = s /\ SweepStep(w))
    /\ \A k \in Kinds : WF_vars(BundleReady(k) \/ BundleFails(k))

Spec == Init /\ [][Next]_vars
FairSpec == Spec /\ Fairness

----------------------------------------------------------------------------
(* Properties.                                                             *)

TypeOK ==
    /\ shown \in 0..MaxVisits /\ token \in 0..MaxVisits /\ nav \subseteq 1..token /\ failed \in BOOLEAN
    /\ clicks \in 0..MaxInputs /\ gen \in [Section -> 0..clicks]
    /\ row \in [Section -> [Rows -> Row]]
    /\ waiting \subseteq Press /\ running \subseteq Press
    /\ bundle \in [Kinds -> {"none", "loading", "ready"}]
    /\ stop \in [Section -> 0..clicks] /\ sweep \in [Section -> 0..clicks]
    /\ sweeps \subseteq Walk

\* A player that runs can be stopped: it is the one its section holds the
\* handle of, whatever was pressed while the bundle was on its way.
OneHandle == \A p \in running : Held(p)

\* What plays in a page stops when the page is swapped, in whichever of its
\* sections it plays.
SwapSilencesStep ==
    \A p \in running : p.sec.visit = shown /\ shown' # shown => p \notin running'
SwapSilences == [][SwapSilencesStep]_vars

\* A sweep that can still be aborted gives way to the reader: while its
\* section starts or plays a channel it does not walk.
Playing(s) == \E p \in running : p.sec = s
SweepYields ==
    \A w \in sweeps : w.id = sweep[w.sec] =>
        ~Playing(w.sec) /\ ~\E p \in waiting : p.sec = w.sec

\* When every navigation was answered and none failed, the page is the one
\* that was asked for last.
NewestIsShown == nav = {} /\ ~failed => shown = token

\* The page shows what was asked for last, and what plays in it can be stopped: by its section,
\* by a swap, and by the sweep that gives way to it.
PageHoldsStep == SwapSilencesStep /\ (OneHandle /\ SweepYields /\ NewestIsShown)'
PageHolds == [][PageHoldsStep]_vars

\* A row that is greyed out gets its answer, however the sweep was broken off:
\* it lights up or goes, unless its section plays, offers Stop, or is left.
Here(a) == [visit |-> shown, slot |-> a]
Waits(a, r) == ~row[Here(a)][r].enabled /\ ~row[Here(a)][r].gone
Offers(a) == \E r \in Rows : row[Here(a)][r].label = "stop"
RowsGetTheirAnswer == \A a \in TV, r \in Rows : Waits(a, r) ~> (~Waits(a, r) \/ Offers(a))

----------------------------------------------------------------------------
(* What the comments say and the code does not keep.                       *)

\* Nothing plays in a page the reader has left.
NothingPlaysUnseen == \A p \in running : p.sec.visit = shown

\* One stream per reader: a press on a channel stops the radio too.
OneStream == Cardinality(running) <= 1

\* Checks are sequential, one row at a time.
OneCheck == Cardinality(sweeps) <= 1

\* A newer click is never overtaken by an older one.
NeverBack == [][shown' >= shown]_vars
=============================================================================
