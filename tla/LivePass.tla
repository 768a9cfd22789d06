------------------------------ MODULE LivePass ------------------------------
(***************************************************************************)
(* Live TV passes of one reader: ensureLine and reconcileLapsed of         *)
(* packages/live/src/index.js, the reseller calls of provider.js, the      *)
(* statements of packages/db/src/queries.js behind them, and the routes    *)
(* that run them.  A pass is made usable by opening (or extending) a line  *)
(* at the provider, storing it, importing it as a list beside the reader's *)
(* own and marking that list managed: five steps that may fail, be cut off *)
(* or run twice at once, the webhook's and the button's.                   *)
(***************************************************************************)
EXTENDS Integers, FiniteSets

CONSTANTS Handlers,      \* requests that may run ensureLine at once
          Terms,         \* TERM_DAYS, in units of time
          Month, Year,   \* lengths of the two packages
          Grace,         \* graceHours
          MaxTime, MaxLines, MaxIds,   \* bounds: time, lines opened, lists inserted
          MaxInputs,     \* bound: purchases and edits
          MaxFaults      \* bound: failed calls, crashes, locks

Ids == 1..MaxIds
Horizon == MaxTime + MaxInputs * Year + MaxLines * Year

VARIABLES
    now, pass,   \* the pass's end
    unlocked,    \* canSealFor
    line,        \* provider_lines: the stored line
    lines,       \* the provider's own: when each line it opened ends
    list,        \* user_playlists: whose address, and managed
    used,        \* ids handed out
    run,         \* the local variables of each ensureLine
    edit,        \* the managed list whose address the reader is replacing, or 0
    picked,      \* the lists the tick selected and has not deleted yet
    inputs, faults,
    loose,       \* history: an answer of the provider was lost on the way to the row
    torn,        \* history: lists a broken off import or a replaced address left behind
    met          \* history: two ensureLine at once

vars == <<now, pass, unlocked, line, lines, list, used, run, edit, picked, inputs, faults, loose, torn, met>>

NoLine == [id |-> 0, end |-> 0]
Row == [there : BOOLEAN, ours : BOOLEAN, managed : BOOLEAN]
Gone == [there |-> FALSE, ours |-> FALSE, managed |-> FALSE]
Idle == [step |-> "idle", until |-> 0, line |-> NoLine, id |-> 0]
Steps == {"idle", "asked", "creating", "created", "extending", "extended", "lined", "importing", "inserted", "imported"}

Running == {h \in Handlers : run[h].step # "idle"}
Managed == {i \in Ids : list[i].managed}
Mx(a, b) == IF a > b THEN a ELSE b
Mn(S) == CHOOSE i \in S : \A j \in S : i <= j

Init ==
    /\ now = 0 /\ pass = 0 /\ unlocked = TRUE
    /\ line = NoLine /\ lines = [l \in 1..MaxLines |-> 0]
    /\ list = [i \in Ids |-> IF i = 1 THEN [Gone EXCEPT !.there = TRUE] ELSE Gone] /\ used = 1
    /\ run = [h \in Handlers |-> Idle]
    /\ edit = 0 /\ picked = {}
    /\ inputs = MaxInputs /\ faults = MaxFaults
    /\ loose = FALSE /\ torn = {} /\ met = FALSE

Input == inputs > 0 /\ inputs' = inputs - 1 /\ UNCHANGED faults
Fault == faults > 0 /\ faults' = faults - 1 /\ UNCHANGED inputs
Free == UNCHANGED <<inputs, faults>>
World == <<now, pass, unlocked>>
Shop == <<line, lines>>
Shelf == <<list, used>>
Past == <<loose, torn, met>>
Goes(h, step) == run' = [run EXCEPT ![h].step = step]
Stops(h) == run' = [run EXCEPT ![h] = Idle]

----------------------------------------------------------------------------
(* ensureLine.                                                             *)

\* Mutant: a locked vault is found out only when the line has to be sealed.
BugMaySeal == TRUE

MaySeal == unlocked

Begin(h) ==
    /\ run[h].step = "idle" /\ pass > now /\ MaySeal
    /\ run' = [run EXCEPT ![h] = [Idle EXCEPT !.step = "asked", !.until = pass]]
    /\ met' = (met \/ Running # {})
    /\ Free /\ UNCHANGED <<World, Shop, Shelf, edit, picked, loose, torn>>

ReadLine(h) ==
    /\ run[h].step = "asked"
    /\ run' = [run EXCEPT ![h].line = line,
                          ![h].step = IF line = NoLine THEN "creating"
                                      ELSE IF line.end < run[h].until THEN "extending" ELSE "lined"]
    /\ Free /\ UNCHANGED <<World, Shop, Shelf, edit, picked, Past>>

\* packageCovering: a month covers a week or a month, anything longer is a year.
Package(from, until) == IF until - from > Month THEN Year ELSE Month

Opened == {l \in 1..MaxLines : lines[l] > 0}
Create(h) ==
    /\ run[h].step = "creating" /\ Cardinality(Opened) < MaxLines
    /\ LET l == Cardinality(Opened) + 1
           end == now + Package(now, run[h].until)
       IN /\ lines' = [lines EXCEPT ![l] = end]
          /\ \/ run' = [run EXCEPT ![h].step = "created", ![h].line = [id |-> l, end |-> end]]
                /\ Free /\ UNCHANGED loose
             \/ Stops(h) /\ Fault /\ loose' = TRUE
    /\ UNCHANGED <<World, line, Shelf, edit, picked, torn, met>>

\* saveProviderLine replaces what is there.  Sealing throws in a locked vault.
SaveLine(h) ==
    /\ run[h].step = "created"
    /\ IF unlocked THEN line' = run[h].line /\ Goes(h, "lined") ELSE Stops(h) /\ UNCHANGED line
    /\ Free /\ UNCHANGED <<World, lines, Shelf, edit, picked, Past>>

Extend(h) ==
    /\ run[h].step = "extending"
    /\ LET l == run[h].line
       IN lines' = [lines EXCEPT ![l.id] = Mx(@, now) + Package(l.end, run[h].until)]
    /\ \/ Goes(h, "extended") /\ Free
       \/ Stops(h) /\ Fault
    /\ UNCHANGED <<World, line, Shelf, edit, picked, Past>>

\* The panel is asked for the new end; when it does not answer, the old stays.
Touch(h) ==
    /\ run[h].step = "extended"
    /\ \/ line' = [line EXCEPT !.end = lines[run[h].line.id]] /\ Free
       \/ Fault /\ UNCHANGED line
    /\ Goes(h, "lined")
    /\ UNCHANGED <<World, lines, Shelf, edit, picked, Past>>

FindList(h) ==
    /\ run[h].step = "lined"
    /\ IF Managed # {} \/ ~unlocked THEN Stops(h) ELSE Goes(h, "importing")
    /\ Free /\ UNCHANGED <<World, Shop, Shelf, edit, picked, Past>>

\* importPlaylist inserts a row, fills it, and takes it back when that fails.
Insert(h) ==
    /\ run[h].step = "importing" /\ used < MaxIds
    /\ used' = used + 1
    /\ list' = [list EXCEPT ![used + 1] = [there |-> TRUE, ours |-> TRUE, managed |-> FALSE]]
    /\ run' = [run EXCEPT ![h].step = "inserted", ![h].id = used + 1]
    /\ Free /\ UNCHANGED <<World, Shop, edit, picked, Past>>
Filled(h) ==
    /\ run[h].step = "inserted"
    /\ \/ Goes(h, "imported") /\ Free /\ UNCHANGED list
       \/ Stops(h) /\ Fault /\ list' = [list EXCEPT ![run[h].id] = Gone]
    /\ UNCHANGED <<World, Shop, used, edit, picked, Past>>

\* Mutant: the list is marked without its id.
BugMarked(h) == Mn({i \in Ids : list[i].there} \cup {run[h].id})

Marked(h) == run[h].id
Mark(h) ==
    /\ run[h].step = "imported"
    /\ list' = [list EXCEPT ![Marked(h)].managed = list[Marked(h)].there]
    /\ Stops(h)
    /\ Free /\ UNCHANGED <<World, Shop, used, edit, picked, Past>>

\* A call or a statement fails before it does anything, or the process goes
\* down: what was done so far stays.
Breaks(h) ==
    /\ run[h].step # "idle" /\ Fault
    /\ loose' = (loose \/ run[h].step = "created")
    /\ torn' = IF run[h].step \in {"inserted", "imported"} THEN torn \cup {run[h].id} ELSE torn
    /\ Stops(h)
    /\ UNCHANGED <<World, Shop, Shelf, edit, picked, met>>

EnsureStep(h) ==
    \/ ReadLine(h) \/ Create(h) \/ SaveLine(h) \/ Extend(h) \/ Touch(h)
    \/ FindList(h) \/ Insert(h) \/ Filled(h) \/ Mark(h) \/ Breaks(h)

----------------------------------------------------------------------------
(* reconcileLapsed.                                                        *)

Lapsed == pass + Grace <= now

\* Mutant: the tick looks for the address of our line.
BugSelect ==
    /\ picked = {} /\ Lapsed /\ \E i \in Managed : list[i].ours
    /\ picked' = {i \in Managed : list[i].ours}
    /\ Free /\ UNCHANGED <<World, Shop, Shelf, run, edit, Past>>

Select ==
    /\ picked = {} /\ Lapsed /\ Managed # {}
    /\ picked' = Managed
    /\ Free /\ UNCHANGED <<World, Shop, Shelf, run, edit, Past>>

\* Mutant: the tick deletes without an id.
BugTakenDown(i) == [j \in Ids |-> Gone]

TakenDown(i) == [list EXCEPT ![i] = Gone]

TakeDown(i) ==
    /\ i \in picked
    /\ list' = TakenDown(i) /\ picked' = picked \ {i}
    /\ Free /\ UNCHANGED <<World, Shop, used, run, edit, Past>>

----------------------------------------------------------------------------
(* The reader, and time.                                                   *)

\* grantLivePass: a term is added to the end of what is held.
Buy(t) ==
    /\ Input
    /\ pass' = Mx(pass, now) + t
    /\ UNCHANGED <<now, unlocked, Shop, Shelf, run, edit, picked, Past>>

\* POST /api/playlist on a managed list: the address is saved, the file fetched,
\* and only then is the list the reader's own.
Retarget(i) ==
    /\ edit = 0 /\ list[i].managed /\ Input
    /\ list' = [list EXCEPT ![i].ours = FALSE] /\ edit' = i
    /\ torn' = torn \cup {i}
    /\ UNCHANGED <<World, Shop, used, run, picked, loose, met>>
Unmark ==
    /\ edit # 0
    /\ list' = [list EXCEPT ![edit].managed = FALSE] /\ edit' = 0
    /\ Free /\ UNCHANGED <<World, Shop, used, run, picked, Past>>
Unread ==
    /\ edit # 0 /\ Fault
    /\ list' = IF list[edit].there THEN [list EXCEPT ![edit].ours = TRUE] ELSE list
    /\ edit' = 0
    /\ UNCHANGED <<World, Shop, used, run, picked, Past>>

Remove(i) ==
    /\ list[i].there /\ Input
    /\ list' = [list EXCEPT ![i] = Gone]
    /\ UNCHANGED <<World, Shop, used, run, edit, picked, Past>>

\* The vault locks: by hand, by its time, by a restart.
Lock ==
    /\ unlocked /\ Fault
    /\ unlocked' = FALSE
    /\ loose' = (loose \/ \E h \in Handlers : run[h].step \in {"asked", "creating", "created"})
    /\ UNCHANGED <<now, pass, Shop, Shelf, run, edit, picked, torn, met>>
Unlock ==
    /\ ~unlocked /\ unlocked' = TRUE
    /\ Free /\ UNCHANGED <<now, pass, Shop, Shelf, run, edit, picked, Past>>

Tick ==
    /\ now < MaxTime /\ now' = now + 1
    /\ Free /\ UNCHANGED <<pass, unlocked, Shop, Shelf, run, edit, picked, Past>>

Next ==
    \/ \E h \in Handlers : Begin(h) \/ EnsureStep(h)
    \/ Select \/ \E i \in Ids : TakeDown(i) \/ Retarget(i) \/ Remove(i)
    \/ \E t \in Terms : Buy(t)
    \/ Unmark \/ Unread \/ Lock \/ Unlock \/ Tick

Fairness == WF_vars(Select) /\ \A i \in Ids : WF_vars(TakeDown(i))

Spec == Init /\ [][Next]_vars
FairSpec == Spec /\ Fairness

----------------------------------------------------------------------------
(* Properties.                                                             *)

TypeOK ==
    /\ now \in 0..MaxTime /\ pass \in 0..Horizon /\ unlocked \in BOOLEAN
    /\ line \in [id : 0..MaxLines, end : 0..Horizon] /\ lines \in [1..MaxLines -> 0..Horizon]
    /\ list \in [Ids -> Row] /\ used \in Ids
    /\ run \in [Handlers -> [step : Steps, until : 0..Horizon, line : [id : 0..MaxLines, end : 0..Horizon],
                             id : 0..MaxIds]]
    /\ edit \in 0..MaxIds /\ picked \subseteq Ids
    /\ inputs \in 0..MaxInputs /\ faults \in 0..MaxFaults
    /\ loose \in BOOLEAN /\ torn \subseteq Ids /\ met \in BOOLEAN

\* Whatever step fails, a retry reuses the line that exists: one is opened for
\* the reader, ever, when no answer was lost and no two calls ran at once.
OneLine == ~loose /\ ~met => Cardinality(Opened) <= 1

\* Our line is a list beside theirs: what is managed is ours and what is ours
\* is managed, once the handlers are through.
ManagedIsOurs ==
    Running = {} => \A i \in Ids : list[i].there /\ i \notin torn => list[i].managed = list[i].ours

\* ... and there is one of it.
OneManaged == ~met => Cardinality({i \in Ids \ torn : list[i].there /\ list[i].ours}) <= 1

\* The tick takes down what the pass added, and no list of the reader's own.
TheirsStayStep ==
    picked' # picked => \A i \in Ids : list[i].there /\ ~list[i].ours /\ i \notin torn => list'[i] = list[i]
TheirsStay == [][TheirsStayStep]_vars

\* A pass is one line and one managed list beside the reader's own: failures and retries open no
\* second line, mark no list of the reader's, and the tick takes down none of them.
PassBesideTheirsStep == TheirsStayStep /\ (OneLine /\ ManagedIsOurs /\ OneManaged)'
PassBesideTheirs == [][PassBesideTheirsStep]_vars

\* A list whose pass has lapsed goes, unless another pass is bought first.
LapsedGoes == \A i \in Ids : (list[i].managed /\ Lapsed) ~> (~list[i].managed \/ ~Lapsed)

----------------------------------------------------------------------------
(* What the comments say and the code does not keep.                       *)

\* One line, however the calls fall.
OneLineEver == Cardinality(Opened) <= 1

\* An address of their own makes that list theirs again: the tick leaves it.
OwnAddressStays == [][picked' # picked => \A i \in Ids : list[i].there /\ ~list[i].ours => list'[i].there]_vars

\* A list is taken down only from a reader whose pass has lapsed.
HolderKeepsList == [][picked' # picked /\ list' # list => Lapsed]_vars
=============================================================================
