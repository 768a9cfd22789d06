---------------------------- MODULE StreamSlots ----------------------------
(***************************************************************************)
(* The in-page player, seen from the server: the registry of open streams  *)
(* (claimStreamSlot in packages/playlists/src/proxy.js), the connection a  *)
(* stream holds on the provider's line (openStream), the three stream.ts   *)
(* routes of apps/web/src/app.js and the probes that share the line.       *)
(*                                                                         *)
(* The model follows the line of ONE account, its owner.  The owner plays  *)
(* it by the routes of their own lists; a reader the owner shares a list   *)
(* with plays it by the shared route, and so may the owner.  A request is  *)
(* one process; between two awaits its handler runs alone.  Every stream   *)
(* ends in the idle record, so that an identifier stands for any number of *)
(* requests, one after another.                                            *)
(***************************************************************************)
EXTENDS Integers, FiniteSets, TLC

CONSTANTS Streams,      \* requests for a stream that may be in progress at once
          Probes,       \* requests that probe a channel
          Lists,        \* the lists of the account
          FirstList,    \* the one first by position
          Ceiling,      \* STREAM_PROXY_MAX_PER_USER
          Sold,         \* connections the provider of a list sells
          Chooses,      \* settings the picker offers; 0 is "whatever my provider reports"
          MaxChanges    \* bound: settings and panel answers written

ASSUME StreamSlotsAssumption ==
    /\ IsFiniteSet(Streams)
    /\ FirstList \in Lists
    /\ Ceiling \in Nat \ {0}
    /\ Sold \in [Lists -> Nat \ {0}]
    /\ Chooses \subseteq Nat /\ 0 \in Chooses
    /\ MaxChanges \in Nat

VARIABLES
    line,     \* user_playlists: line_connections and panel_connections, 0 for null
    slots,    \* the account's Set in the registry
    req,      \* the handler of each request
    probe,    \* the handler of each probe
    changes   \* bound

vars == <<line, slots, req, probe, changes>>

Line == [chosen : Nat, panel : Nat]
Kinds == {"own", "takeback", "viewer"}  \* own routes; the shared one, for owner and for others
Steps == {"idle", "reading", "claiming", "connecting", "sniffing",
          "marking", "closing", "playing"}

\* `before` holds what the Set contained when the entry was added: a Set
\* iterates in the order of insertion.
Request == [step : Steps, kind : Kinds, list : Lists, max : Nat,
            before : SUBSET Streams,
            tied : BOOLEAN,   \* does the request's signal still abort the fetch?
            left : BOOLEAN,   \* has the reader gone?
            deaf : BOOLEAN]   \* was the signal aborted before openStream listened?

Idle == [step |-> "idle", kind |-> "own", list |-> FirstList, max |-> 0, before |-> {},
         tied |-> FALSE, left |-> FALSE, deaf |-> FALSE]

Init ==
    /\ \E n \in {0, Sold[FirstList]}, choose \in [Lists -> Chooses] :
           line = [l \in Lists |-> [chosen |-> choose[l], panel |-> n]]
    /\ slots = {}
    /\ req = [s \in Streams |-> Idle]
    /\ probe = [p \in Probes |-> "idle"]
    /\ changes = 0

Least(a, b) == IF a <= b THEN a ELSE b

\* Mutant: with no panel and no setting there is no default of one.
BugNoDefault(row) ==
    LET wanted == IF row.chosen = 0 THEN row.panel
                  ELSE IF row.panel = 0 THEN row.chosen ELSE Least(row.chosen, row.panel)
    IN  Least(wanted, Ceiling)

\* line.js: three voices, and the quietest wins.
LineAllowance(row) ==
    LET said == IF row.panel = 0 THEN 1 ELSE row.panel
        wanted == IF row.chosen = 0 THEN said
                  ELSE IF row.panel = 0 THEN row.chosen ELSE Least(row.chosen, row.panel)
    IN  Least(wanted, Ceiling)

\* The owner's routes ask for the account, which is answered with its first
\* list; the shared route has the row of the list itself.
AllowanceFor(kind, l) == LineAllowance(line[IF kind = "own" THEN FirstList ELSE l])

\* A connection to the provider is open, or being opened.
Connected(s) == req[s].step \in {"connecting", "sniffing", "marking", "playing"}

\* Aborting the request's signal would end that connection.
Hears(s) ==
    /\ ~req[s].deaf
    /\ \/ req[s].step \in {"connecting", "sniffing"}
       \/ req[s].step \in {"marking", "playing"} /\ req[s].tied

----------------------------------------------------------------------------
(* The stream routes.                                                      *)

\* The request arrives; its own checks pass and it asks the database.
Watch(s, kind, l) ==
    /\ req[s].step = "idle"
    /\ req' = [req EXCEPT ![s] = [Idle EXCEPT !.step = "reading", !.kind = kind, !.list = l]]
    /\ UNCHANGED <<line, slots, probe, changes>>

ReadAllowance(s) ==
    /\ req[s].step = "reading"
    /\ req' = [req EXCEPT ![s].step = "claiming",
                          ![s].max = AllowanceFor(req[s].kind, req[s].list)]
    /\ UNCHANGED <<line, slots, probe, changes>>

\* The handlers of these streams are over.
Over(ended) ==
    [t \in Streams |->
        IF t \in ended THEN Idle ELSE [req[t] EXCEPT !.before = @ \ ended]]

\* A claim adds its entry to the Set and starts to connect.  The stream of a
\* reader who has already left does so with a signal nobody will hear.
Opened(s, kept, ended) ==
    [Over(ended) EXCEPT ![s] = [req[s] EXCEPT !.step = "connecting", !.before = kept,
                                              !.deaf = req[s].left]]

\* Mutant: one eviction instead of a loop.
BugEvictsOnce(max) ==
    IF Cardinality(slots) < max THEN slots
    ELSE {s \in slots : req[s].before \cap slots # {}}

\* Mutant: room for the newest is forgotten.
BugOneTooMany(max) ==
    {s \in slots : Cardinality({t \in slots : s \in req[t].before}) < max}

\* The entries a claim leaves: the newest, as many as leave room for one.
Kept(max) == {s \in slots : Cardinality({t \in slots : s \in req[t].before}) < max - 1}

\* Mutant: the claim is added to the Set that releasing its last entry detached.
BugDetachedClaim(s) ==
    /\ req[s].step = "claiming"
    /\ LET kept == Kept(req[s].max)
       IN  /\ slots' = IF slots # {} /\ kept = {} THEN {} ELSE kept \cup {s}
           /\ req' = Opened(s, kept, {t \in slots \ kept : Hears(t)})
    /\ UNCHANGED <<line, probe, changes>>

\* Mutant: the shared route claims as the owner's routes do.
BugViewerEvicts(s) ==
    /\ req[s].step = "claiming"
    /\ LET kept == Kept(req[s].max)
       IN  /\ slots' = kept \cup {s}
           /\ req' = Opened(s, kept, {t \in slots \ kept : Hears(t)})
    /\ UNCHANGED <<line, probe, changes>>

\* claimStreamSlot and the start of openStream, with no await in between.  A
\* stream that is evicted loses its slot; its connection ends if it hears the
\* abort.  A viewer is told the line is in use instead.
Claim(s) ==
    /\ req[s].step = "claiming"
    /\ IF req[s].kind = "viewer" /\ Cardinality(slots) >= req[s].max
       THEN /\ req' = Over({s})
            /\ UNCHANGED slots
       ELSE LET kept == Kept(req[s].max)
            IN  /\ slots' = kept \cup {s}
                /\ req' = Opened(s, kept, {t \in slots \ kept : Hears(t)})
    /\ UNCHANGED <<line, probe, changes>>

\* The handler is over and its slot, if it still has one, is given back.
Done(s) ==
    /\ req' = Over({s})
    /\ slots' = slots \ {s}
    /\ UNCHANGED <<line, probe, changes>>

\* Headers of a type that plays: the abort listener stays.
Accept(s) ==
    /\ req[s].step = "connecting"
    /\ req' = [req EXCEPT ![s].step = "marking", ![s].tied = TRUE]
    /\ UNCHANGED <<line, slots, probe, changes>>

\* Headers of no known type: the bytes are asked.
Sniff(s) ==
    /\ req[s].step = "connecting"
    /\ req' = [req EXCEPT ![s].step = "sniffing"]
    /\ UNCHANGED <<line, slots, probe, changes>>

\* Mutant: a failed connection returns without giving the slot back.
BugRefuseKeepsSlot(s) ==
    /\ req[s].step = "connecting"
    /\ req' = Over({s})
    /\ UNCHANGED <<line, slots, probe, changes>>

\* The provider said no, or nothing within CONNECT_TIMEOUT_MS.
Refuse(s) == req[s].step = "connecting" /\ Done(s)

\* The bytes are a stream.  The abort listener was removed before the verdict.
SniffStream(s) ==
    /\ req[s].step = "sniffing"
    /\ req' = [req EXCEPT ![s].step = "marking", ![s].tied = FALSE]
    /\ UNCHANGED <<line, slots, probe, changes>>

SniffOther(s) == req[s].step = "sniffing" /\ Done(s)

\* Mutant: the pipe has no cancel handler: a body that failed while the verdict was
\* being stored leaves the slot with nobody to give it back.
BugNoCancelHandler(s) ==
    \/ /\ req[s].step = "marking"
       /\ req' = [req EXCEPT ![s].step = "playing"]
       /\ UNCHANGED <<line, slots, probe, changes>>
    \/ /\ req[s].step = "closing" /\ s \notin slots
       /\ Done(s)

\* markChannelChecked has answered: release is attached to the signal and the
\* body is piped.  A body that has already failed is closed at once.
Marked(s) ==
    \/ /\ req[s].step = "marking"
       /\ req' = [req EXCEPT ![s].step = "playing"]
       /\ UNCHANGED <<line, slots, probe, changes>>
    \/ /\ req[s].step = "closing"
       /\ Done(s)

\* The upstream ends or fails.
Ended(s) == req[s].step = "playing" /\ Done(s)

\* The server cancels the body of a response whose reader has gone.
Cancelled(s) == req[s].step = "playing" /\ req[s].left /\ Done(s)

\* The reader closes the tab: the request's signal aborts.
Leave(s) ==
    /\ req[s].step # "idle" /\ ~req[s].left
    /\ \/ /\ Hears(s) /\ req[s].step # "marking"
          /\ Done(s)
       \/ /\ Hears(s) /\ req[s].step = "marking"   \* release is not attached yet
          /\ req' = [req EXCEPT ![s].step = "closing", ![s].left = TRUE]
          /\ UNCHANGED <<line, slots, probe, changes>>
       \/ /\ ~Hears(s)
          /\ req' = [req EXCEPT ![s].left = TRUE]
          /\ slots' = IF req[s].step = "playing" THEN slots \ {s} ELSE slots
          /\ UNCHANGED <<line, probe, changes>>

----------------------------------------------------------------------------
(* Probes: the check routes look at the registry first, the .m3u route     *)
(* does not.                                                               *)

\* The check routes of the owner's lists: the registry, then the database.
CheckOwn(p) ==
    /\ probe[p] = "idle" /\ slots = {}
    /\ probe' = [probe EXCEPT ![p] = "reading"]
    /\ UNCHANGED <<line, slots, req, changes>>

ProbeOwn(p) ==
    /\ probe[p] = "reading"
    /\ probe' = [probe EXCEPT ![p] = "checking"]
    /\ UNCHANGED <<line, slots, req, changes>>

\* The check route of a shared list: the database, then the registry.
CheckShared(p) ==
    /\ probe[p] = "idle" /\ slots = {}
    /\ probe' = [probe EXCEPT ![p] = "checking"]
    /\ UNCHANGED <<line, slots, req, changes>>

\* playlist.m3u probes the reader's channels one after another.
ProbeForFile(p) ==
    /\ probe[p] = "idle"
    /\ probe' = [probe EXCEPT ![p] = "filing"]
    /\ UNCHANGED <<line, slots, req, changes>>

ProbeOver(p) ==
    /\ probe[p] \in {"checking", "filing"}
    /\ probe' = [probe EXCEPT ![p] = "idle"]
    /\ UNCHANGED <<line, slots, req, changes>>

----------------------------------------------------------------------------
(* The row of a list.                                                      *)

SetLineConnections(l, n) ==
    /\ changes < MaxChanges
    /\ line' = [line EXCEPT ![l].chosen = n]
    /\ changes' = changes + 1
    /\ UNCHANGED <<slots, req, probe>>

\* askPanel at an import or a refresh of list l: what its provider said, null
\* if it said nothing, is written to every row of the account.
AskPanel(l) ==
    /\ changes < MaxChanges
    /\ \E n \in {0, Sold[l]} : line' = [k \in Lists |-> [line[k] EXCEPT !.panel = n]]
    /\ changes' = changes + 1
    /\ UNCHANGED <<slots, req, probe>>

StreamStep(s) ==
    \/ \E kind \in Kinds, l \in Lists : Watch(s, kind, l)
    \/ ReadAllowance(s) \/ Claim(s)
    \/ Accept(s) \/ Sniff(s) \/ Refuse(s)
    \/ SniffStream(s) \/ SniffOther(s)
    \/ Marked(s) \/ Ended(s) \/ Cancelled(s) \/ Leave(s)

ProbeStep(p) ==
    CheckOwn(p) \/ ProbeOwn(p) \/ CheckShared(p) \/ ProbeForFile(p) \/ ProbeOver(p)

SettingStep(l) == AskPanel(l) \/ \E n \in Chooses : SetLineConnections(l, n)

Next ==
    \/ \E s \in Streams : StreamStep(s)
    \/ \E p \in Probes : ProbeStep(p)
    \/ \E l \in Lists : SettingStep(l)

\* The database answers, a connection attempt ends (at the latest by its
\* timer) and the server notices that a reader has gone.  Nothing makes a
\* provider send bytes, a reader watch or a reader leave.
Fairness ==
    \A s \in Streams :
        /\ WF_vars(ReadAllowance(s)) /\ WF_vars(Claim(s))
        /\ WF_vars(Accept(s) \/ Sniff(s) \/ Refuse(s))
        /\ WF_vars(Marked(s)) /\ WF_vars(Cancelled(s))

Spec == Init /\ [][Next]_vars
FairSpec == Spec /\ Fairness

----------------------------------------------------------------------------
(* Properties.                                                             *)

TypeOK ==
    /\ line \in [Lists -> Line]
    /\ slots \subseteq Streams
    /\ req \in [Streams -> Request]
    /\ \A s \in Streams : req[s].step \notin {"idle", "reading"} => req[s].max \in 1..Ceiling
    /\ probe \in [Probes -> {"idle", "reading", "checking", "filing"}]
    /\ changes \in 0..MaxChanges

\* A connection that still obeys its request is counted against the line: the
\* ceiling cannot be escaped by a stream the registry has lost sight of, as it
\* would be by adding to a Set that eviction had detached.
ConnectionIsCounted == \A s \in Streams : Hears(s) => s \in slots

\* A slot is never held by nothing: whatever ends a handler, in whichever
\* order the abort, the cancel and an eviction arrive, gives the slot back.
SlotHasHolder == \A s \in slots : Connected(s) \/ req[s].step = "closing"

\* A claim leaves no more streams than the allowance it was made with, also
\* when the allowance was lowered while streams of the old one are running.
ClaimFits == \A s \in slots' \ slots : Cardinality(slots') <= req'[s].max

\* As long as nobody changes a setting, the connections of an account with one
\* list that still obey their requests never exceed what the line permits.
LineIsRespected ==
    (Lists = {FirstList} /\ changes = 0) =>
        Cardinality({s \in Streams : Hears(s)}) <= LineAllowance(line[FirstList])

\* The provider never serves more streams than the line was sold for, by any
\* claim, nor in between while the settings rest.
AllowanceHolds == [][ClaimFits /\ LineIsRespected']_vars

\* A reader of somebody else's list never takes a stream off anyone.
ViewerTakesNothing ==
    [][\A s \in slots' \ slots : req[s].kind = "viewer" => slots \subseteq slots']_vars

\* The slot of a reader who leaves once the stream is being opened comes back.
LeaverFreesSlot ==
    \A s \in Streams : (s \in slots /\ req[s].left /\ ~req[s].deaf) ~> (s \notin slots)

----------------------------------------------------------------------------
(* What the comments say of the code and the runs refute.                  *)

\* proxy.js: eviction aborts the upstream fetch, so the connection is really
\* gone before the replacement is opened.
EvictionEndsConnection ==
    [][\A s \in slots' \ slots : \A t \in slots \ slots' : ~req[t].left => ~Connected(t)']_vars

\* proxy.js: a reader who closes the tab drops the provider connection.
NoConnectionForLeaver ==
    [][\A s \in Streams : Connected(s)' /\ ~Connected(s) => ~req[s].left]_vars

\* app.js: the allowance of a claim is what THIS line permits.
ClaimAsksItsLine ==
    [][\A s \in Streams : req[s].step = "reading" /\ req'[s].step = "claiming"
           => req'[s].max = LineAllowance(line[req[s].list])]_vars

\* queries.js: what the provider's panel said about the line.
PanelSpeaksOfItsLine ==
    [][\A l \in Lists : line'[l].panel \in {line[l].panel, 0, Sold[l]}]_vars

\* app.js: a check route never opens a probe while something is playing.
NoCheckWhileWatching ==
    [][\A p \in Probes : probe'[p] = "checking" /\ probe[p] # "checking" => slots = {}]_vars

----------------------------------------------------------------------------
(* For TLC: streams are interchangeable; what the provider sells. *)
AnyStream == Permutations(Streams)
OneSold == [l \in Lists |-> 1]
TwoSold == [l \in Lists |-> 2]
============================================================================
