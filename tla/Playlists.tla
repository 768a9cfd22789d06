------------------------------ MODULE Playlists ------------------------------
(***************************************************************************)
(* The channel lists of one account: importPlaylist, refreshPlaylist and   *)
(* refreshDuePlaylists of packages/playlists/src/index.js, the statements  *)
(* of packages/db/src/queries.js behind them and the routes of             *)
(* /api/playlist.  An import saves the address, downloads the file for up  *)
(* to a minute, replaces the channels, then records the hash and what the  *)
(* panel said.  Each of these is a statement of its own; imports of the    *)
(* routes and of the poller may overlap, fail anywhere, or never end.      *)
(***************************************************************************)
EXTENDS Integers, FiniteSets

CONSTANTS Routes,        \* requests that may import at once
          Poller,        \* the one worker that polls what is due
          Addresses,     \* addresses a reader may type
          MaxLists,      \* MAX_PLAYLISTS
          MaxIds,        \* bound: rows ever inserted
          MaxEdits,      \* bound: requests, removals and rewrites of a file
          MaxFaults      \* bound: failed downloads, empty files, throws, crashes

Ids == 1..MaxIds
Imports == Routes \cup {Poller}
None == "none"
Known == Addresses \cup {None}
Files == Addresses \X {0, 1}      \* a list's content: whose, and which edition
NoFile == <<None, 0>>

VARIABLES
    list,     \* user_playlists and user_playlist_channels: a row per id
    used,     \* ids handed out
    job,      \* the local variables of each import
    file,     \* what each address answers with now
    worked,   \* history: addresses whose import ended well
    met,      \* history: lists two imports were at work on at once
    torn,     \* history: lists an import left in the middle
    edits, faults

vars == <<list, used, job, file, worked, met, torn, edits, faults>>

Row == [there : BOOLEAN, address : Known, channels : Files \cup {NoFile}, hash : Files \cup {NoFile},
        panel : Known, error : BOOLEAN]
Gone == [there |-> FALSE, address |-> None, channels |-> NoFile, hash |-> NoFile, panel |-> None, error |-> FALSE]
Steps == {"idle", "counted", "picked", "asked", "read", "saved", "fetched", "stored", "fresh", "failing", "restored"}
Job == [step : Steps, id : Ids \cup {0}, added : BOOLEAN, url : Known, previous : Known,
        known : Files \cup {NoFile}, got : Files \cup {NoFile}]
Idle == [step |-> "idle", id |-> 0, added |-> FALSE, url |-> None, previous |-> None, known |-> NoFile, got |-> NoFile]

Lists == {i \in Ids : list[i].there}
Busy(i) == {p \in Imports : job[p].step # "idle" /\ job[p].id = i}

Init ==
    /\ \E a \in Addresses :
          /\ list = [i \in Ids |-> IF i = 1 THEN [there |-> TRUE, address |-> a, channels |-> <<a, 0>>,
                                                  hash |-> <<a, 0>>, panel |-> a, error |-> FALSE] ELSE Gone]
          /\ worked = {a}
    /\ used = 1
    /\ job = [p \in Imports |-> Idle]
    /\ file = [a \in Addresses |-> 0]
    /\ met = {} /\ torn = {}
    /\ edits = MaxEdits /\ faults = MaxFaults

Edit == edits > 0 /\ edits' = edits - 1 /\ UNCHANGED faults
Fault == faults > 0 /\ faults' = faults - 1 /\ UNCHANGED edits
Free == UNCHANGED <<edits, faults>>

\* A statement `where user_id = .. and id = ..`: no row, no effect.
Write(i, row) == list' = IF list[i].there THEN [list EXCEPT ![i] = row] ELSE list
Step(p, step) == job' = [job EXCEPT ![p].step = step]
Meets(i) == met' = IF Busy(i) # {} THEN met \cup {i} ELSE met

----------------------------------------------------------------------------
(* What starts an import.                                                  *)

\* POST /api/playlist without an id: the cap is asked first.
Add(p, url) ==
    /\ job[p].step = "idle" /\ Edit
    /\ Cardinality(Lists) < MaxLists
    /\ job' = [job EXCEPT ![p] = [Idle EXCEPT !.step = "counted", !.added = TRUE, !.url = url]]
    /\ UNCHANGED <<list, used, file, worked, met, torn>>

\* The hash goes along only when the address is the one that is stored.
KnownHash(i, url) == IF list[i].address = url THEN list[i].hash ELSE NoFile

\* POST /api/playlist with an id: another address, or the same one again.
Change(p, i, url) ==
    /\ job[p].step = "idle" /\ Edit /\ list[i].there
    /\ job' = [job EXCEPT ![p] = [Idle EXCEPT !.step = "asked", !.id = i, !.url = url, !.known = KnownHash(i, url)]]
    /\ Meets(i)
    /\ UNCHANGED <<list, used, file, worked, torn>>

\* POST /api/playlist/refresh: the stored address, and no hash.
Refresh(p, i) ==
    /\ job[p].step = "idle" /\ Edit /\ list[i].there
    /\ job' = [job EXCEPT ![p] = [Idle EXCEPT !.step = "asked", !.id = i, !.url = list[i].address]]
    /\ Meets(i)
    /\ UNCHANGED <<list, used, file, worked, torn>>

\* The five-minute tick takes what is due, one list at a time, with the hash.
Poll(i) ==
    /\ job[Poller].step = "idle" /\ Edit /\ list[i].there
    /\ job' = [job EXCEPT ![Poller] = [Idle EXCEPT !.step = "picked", !.id = i, !.known = list[i].hash]]
    /\ Meets(i)
    /\ UNCHANGED <<list, used, file, worked, torn>>

\* refreshPlaylist reads the address later than the hash was read; a list that
\* was removed meanwhile is counted as failed.
PollReads ==
    /\ job[Poller].step = "picked"
    /\ LET i == job[Poller].id
       IN job' = [job EXCEPT ![Poller] = IF list[i].there THEN [@ EXCEPT !.step = "asked", !.url = list[i].address]
                                                          ELSE Idle]
    /\ Free /\ UNCHANGED <<list, used, file, worked, met, torn>>

----------------------------------------------------------------------------
(* importPlaylist.                                                         *)

\* The address to go back to is read by importPlaylist itself.
ReadPrevious(p) ==
    /\ job[p].step = "asked"
    /\ job' = [job EXCEPT ![p].step = "read", ![p].previous = list[job[p].id].address]
    /\ Free /\ UNCHANGED <<list, used, file, worked, met, torn>>

\* savePlaylist: an insert, or the address of the row that was named.
Insert(p) ==
    /\ job[p].step = "counted" /\ used < MaxIds
    /\ used' = used + 1
    /\ list' = [list EXCEPT ![used + 1] = [Gone EXCEPT !.there = TRUE, !.address = job[p].url]]
    /\ job' = [job EXCEPT ![p].step = "saved", ![p].id = used + 1]
    /\ Free /\ UNCHANGED <<file, worked, met, torn>>
Save(p) ==
    /\ job[p].step = "read"
    /\ Write(job[p].id, [list[job[p].id] EXCEPT !.address = job[p].url, !.error = FALSE])
    /\ Step(p, "saved")
    /\ Free /\ UNCHANGED <<used, file, worked, met, torn>>

Fetch(p) ==
    /\ job[p].step = "saved"
    /\ job' = [job EXCEPT ![p].step = "fetched", ![p].got = <<job[p].url, file[job[p].url]>>]
    /\ Free /\ UNCHANGED <<list, used, file, worked, met, torn>>

\* Mutant: a file is the same when it is from the same address.
BugSame(p) == job[p].known[1] = job[p].got[1]

\* The file is the one that is stored.
Same(p) == job[p].known = job[p].got

\* The download fails, or what arrives parses to nothing: the transaction that
\* had deleted the channels goes back.
FetchFails(p) ==
    /\ job[p].step \in {"saved", "fetched"} /\ Fault
    /\ job[p].step = "fetched" => ~Same(p)
    /\ Step(p, "failing")
    /\ UNCHANGED <<list, used, file, worked, met, torn>>

\* Mutant: a failed add is undone by clearing the account's lists.
BugUndone(p) == [i \in Ids |-> IF job[p].added THEN Gone ELSE list[i]]
\* Mutant: the address that failed stays.
BugNotUndone(p) == list

\* restorePrevious: an added row goes; a changed address comes back.
Undone(p) ==
    LET i == job[p].id
    IN IF ~list[i].there THEN list
       ELSE IF job[p].added THEN [list EXCEPT ![i] = Gone]
       ELSE IF job[p].previous # job[p].url THEN [list EXCEPT ![i].address = job[p].previous, ![i].error = FALSE]
       ELSE list
Restore(p) ==
    /\ job[p].step = "failing"
    /\ list' = Undone(p)
    /\ Step(p, "restored")
    /\ Free /\ UNCHANGED <<used, file, worked, met, torn>>

\* markPlaylistError, and the answer to the reader.
MarkError(p) ==
    /\ job[p].step = "restored"
    /\ Write(job[p].id, [list[job[p].id] EXCEPT !.error = TRUE])
    /\ job' = [job EXCEPT ![p] = Idle]
    /\ Free /\ UNCHANGED <<used, file, worked, met, torn>>

\* The rows are left alone.
Unchanged(p) ==
    /\ job[p].step = "fetched" /\ Same(p)
    /\ Step(p, "stored")
    /\ Free /\ UNCHANGED <<list, used, file, worked, met, torn>>

\* Mutant: an import that has lost its row writes into the first list.
BugTarget(p) == IF list[job[p].id].there \/ Lists = {} THEN job[p].id ELSE CHOOSE i \in Lists : TRUE

Target(p) == job[p].id

\* replacePlaylistChannels: one transaction, about the one list.
Replace(p) ==
    /\ job[p].step = "fetched" /\ ~Same(p)
    /\ Write(Target(p), [list[Target(p)] EXCEPT !.channels = job[p].got, !.error = FALSE])
    /\ Step(p, "stored")
    /\ Free /\ UNCHANGED <<used, file, worked, met, torn>>

\* markPlaylistFresh.
Fresh(p) ==
    /\ job[p].step = "stored"
    /\ Write(job[p].id, [list[job[p].id] EXCEPT !.hash = job[p].got, !.error = FALSE])
    /\ worked' = worked \cup {job[p].url}
    /\ Step(p, "fresh")
    /\ Free /\ UNCHANGED <<used, file, met, torn>>

\* recordPanelInfo names the account and no list.
AskPanel(p) ==
    /\ job[p].step = "fresh"
    /\ list' = [i \in Ids |-> IF list[i].there THEN [list[i] EXCEPT !.panel = job[p].url] ELSE list[i]]
    /\ job' = [job EXCEPT ![p] = Idle]
    /\ Free /\ UNCHANGED <<used, file, worked, met, torn>>

\* A statement throws where nothing is caught, or the process goes down.
Crash(p) ==
    /\ job[p].step \in {"saved", "fetched", "failing", "restored", "stored", "fresh"} /\ Fault
    /\ job' = [job EXCEPT ![p] = Idle]
    /\ torn' = torn \cup {job[p].id}
    /\ UNCHANGED <<list, used, file, worked, met>>

----------------------------------------------------------------------------
(* Beside the imports.                                                     *)

Remove(i) ==
    /\ list[i].there /\ Edit
    /\ list' = [list EXCEPT ![i] = Gone]
    /\ UNCHANGED <<used, job, file, worked, met, torn>>

\* The provider rewrites a list.
Rewrite(a) ==
    /\ file[a] = 0 /\ Edit
    /\ file' = [file EXCEPT ![a] = 1]
    /\ UNCHANGED <<list, used, job, worked, met, torn>>

ImportStep(p) ==
    \/ ReadPrevious(p) \/ Insert(p) \/ Save(p) \/ Fetch(p) \/ FetchFails(p) \/ Restore(p) \/ MarkError(p)
    \/ Unchanged(p) \/ Replace(p) \/ Fresh(p) \/ AskPanel(p)

Next ==
    \/ \E p \in Routes, a \in Addresses : Add(p, a) \/ \E i \in Ids : Change(p, i, a)
    \/ \E p \in Routes, i \in Ids : Refresh(p, i)
    \/ \E i \in Ids : Poll(i) \/ Remove(i)
    \/ PollReads
    \/ \E p \in Imports : ImportStep(p) \/ Crash(p)
    \/ \E a \in Addresses : Rewrite(a)

Spec == Init /\ [][Next]_vars

----------------------------------------------------------------------------
(* Properties.                                                             *)

TypeOK ==
    /\ list \in [Ids -> Row] /\ used \in 1..MaxIds
    /\ job \in [Imports -> Job]
    /\ file \in [Addresses -> {0, 1}]
    /\ worked \subseteq Addresses /\ met \subseteq Ids /\ torn \subseteq Ids \cup {0}
    /\ edits \in 0..MaxEdits /\ faults \in 0..MaxFaults

\* Lists no two imports met on, no import broke off on, and none is at work on.
Settled(i) == list[i].there /\ i \notin met /\ i \notin torn /\ Busy(i) = {}

\* The hash a list is polled with is that of the channels it holds: a poll
\* that finds the file unchanged may leave the rows alone.
HashIsOfChannels == \A i \in Ids : Settled(i) => list[i].hash = list[i].channels

\* A failed import is undone: the stored address is one that has worked, and
\* the channels are that address's own.
AddressWorked == \A i \in Ids : Settled(i) => list[i].address \in worked /\ list[i].channels[1] = list[i].address

\* An import takes away no list but the one it added itself, and touches the
\* channels of no other, whatever the reader removed in the meantime.
OthersUntouchedStep ==
    \A p \in Imports, i \in Ids :
       job'[p] # job[p] /\ list[i].there /\ i # job[p].id
          => list'[i].there /\ list'[i].channels = list[i].channels /\ list'[i].address = list[i].address
OthersUntouched == [][OthersUntouchedStep]_vars

\* No poll and no change of an address takes a list away.
ListsStayStep ==
    \A i \in Ids : list[i].there /\ ~list'[i].there
        => \/ \E p \in Imports : job[p].added /\ job[p].id = i /\ job'[p].step = "restored"
           \/ edits' # edits
ListsStay == [][ListsStayStep]_vars

\* The lists hold: what a list says of itself (its hash, its address) is true of its channels,
\* and imports that fail, overlap or end late touch no other list and take none away.
ListsHoldStep == OthersUntouchedStep /\ ListsStayStep /\ (HashIsOfChannels /\ AddressWorked)'
ListsHold == [][ListsHoldStep]_vars

----------------------------------------------------------------------------
(* What the comments say and the code does not keep.                       *)

\* One line's numbers, not the account's: what a panel said is kept with the
\* list it said it about.
PanelIsOwn == \A i \in Ids : Settled(i) => list[i].panel \in {None, list[i].address}

\* The same two facts with imports that meet.
HashAlwaysTrue == \A i \in Ids : list[i].there /\ i \notin torn /\ Busy(i) = {} => list[i].hash = list[i].channels
AddressAlwaysWorked == \A i \in Ids : list[i].there /\ i \notin torn /\ Busy(i) = {} => list[i].address \in worked

\* As many lists as we hold.
CapHolds == Cardinality(Lists) <= MaxLists
=============================================================================
