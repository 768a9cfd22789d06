----------------------------- MODULE TennisFeed -----------------------------
(***************************************************************************)
(* The tennis provider's adapter: three lists read whole and shared by the  *)
(* tours, each for as long as it is fresh, and the log of a match, all out  *)
(* of one day's allowance of requests, which the provider counts and the    *)
(* process counts after it.                                                 *)
(***************************************************************************)
EXTENDS Integers, FiniteSets

CONSTANTS Tours, Home,          \* the leagues that ask; the one that lists the match
          Long,                 \* the lists with more than a page
          Budget, PerDay,       \* dailyBudget; what the plan really allows
          TapeBudget, Cooldown, \* tapeBudget, tapeMinIntervalSeconds
          Ttl,                  \* [kind -> liveTtlSeconds or fixturesTtlSeconds]
          MaxTime, MaxFaults, MaxBoots   \* bounds

VARIABLES time, day,   \* a pass's clock, and the UTC day
          match,       \* the match, as it is: "pre", "in", "post"
          used,        \* what the provider counts today
          spend,       \* spend
          perDay,      \* providerPerDay, 0 until it is learned
          seeded,      \* seeded
          held,        \* snapshots
          reads,       \* the requests under way: inflight's, and that of a tape
          passes,      \* what each tour awaits and has: fetchSchedule
          taped,       \* taped: when the match's log was last asked for
          event,       \* the row of the match: its state, whether its log is whole, and closed
          ghost, bounds
vars == <<time, day, match, used, spend, perDay, seeded, held, reads, passes, taped, event, ghost, bounds>>

Kinds == {"live", "upcoming", "recent"}
BugMaxPages(k) == 9   \* (defect) pages are followed while there are more
MaxPages(k) == IF k \in {"live", "upcoming"} THEN 2 ELSE 1
Optional == {"recent"}
Never == -9
Rank(s) == CASE s = "none" -> 0 [] s = "pre" -> 1 [] s = "in" -> 2 [] s = "post" -> 3
Listed(k) ==
    CASE k = "live" -> IF match = "in" THEN "in" ELSE "none"
      [] k = "upcoming" -> IF match = "pre" THEN "pre" ELSE "none"
      [] k = "recent" -> IF match = "post" THEN "post" ELSE "none"

NoSpend == [day |-> 0, calls |-> 0, tape |-> 0]
NotSeeded == [day |-> 0, asking |-> 0, said |-> 0]
Nothing == [k \in Kinds |-> [at |-> Never, row |-> "none"]]
NoPass == [on |-> {}, rows |-> [k \in Kinds |-> "none"], open |-> FALSE]

Init ==
    /\ time = 0 /\ day = 1 /\ match = "pre" /\ used = 0
    /\ spend = NoSpend /\ perDay = 0 /\ seeded = NotSeeded /\ held = Nothing
    /\ reads = {} /\ passes = [t \in Tours |-> NoPass] /\ taped = Never
    /\ event = [state |-> "none", log |-> "none", final |-> FALSE]
    /\ ghost = [blind |-> FALSE, usage |-> 0, failed |-> FALSE]
    /\ bounds = [faults |-> 0, boots |-> 1]

TypeOK ==
    /\ spend.day \in 0..2 /\ spend.calls \in Nat /\ spend.tape \in Nat /\ used \in Nat
    /\ seeded.day \in 0..2 /\ seeded.asking \in 0..2 /\ seeded.said \in Nat
    /\ reads \subseteq [kind : Kinds \cup {"tape"}, copy : 1..2, phase : {"seed", "ready", "sent"}, page : 1..2, row : {"none", "pre", "in", "post"}]
    /\ \A t \in Tours : passes[t].on \subseteq Kinds

----------------------------------------------------------------------------
Rolled == IF spend.day = day THEN spend ELSE [NoSpend EXCEPT !.day = day]
Ceiling == IF perDay = 0 \/ Budget < perDay THEN Budget ELSE perDay
IsSeeded == seeded.day = day
IsFresh(k) == held[k].at # Never /\ time - held[k].at < Ttl[k]
BugJoins(k) == FALSE   \* (defect) every league reads for itself
Joins(k) == \E r \in reads : r.kind = k
\* A request that may be sent is sent before anything else happens in the process.
Quiet == \A r \in reads : r.phase # "ready"

\* What getJson does before it may send: the count of the day is asked for.
Entering(rs, others) ==
    /\ spend' = IF rs = {} THEN spend ELSE Rolled
    /\ reads' = others \cup {[r EXCEPT !.phase = IF IsSeeded THEN "ready" ELSE "seed"] : r \in rs}
    /\ IF rs # {} /\ ~IsSeeded /\ seeded.asking = 0
       THEN /\ seeded' = [seeded EXCEPT !.asking = day, !.said = used]
            /\ used' = used + 1 /\ ghost' = [ghost EXCEPT !.usage = @ + 1]
       ELSE UNCHANGED <<seeded, used, ghost>>

\* The merge of the three lists: how far the match is decides between them.
BugWins(next, best) == TRUE   \* (defect) the list that is read last wins
Wins(next, best) == Rank(next) >= Rank(best)
Merged(rows) ==
    LET after(best, next) == IF next = "none" \/ ~Wins(next, best) THEN best ELSE next
    IN  after(after(after("none", rows["recent"]), rows["upcoming"]), rows["live"])

\* The passes once the rows of k are there, or it threw.
Delivered(k, row) ==
    [t \in Tours |-> IF k \in passes[t].on THEN [passes[t] EXCEPT !.on = @ \ {k}, !.rows[k] = row] ELSE passes[t]]
Ends(p) == p.open /\ p.on = {}
Closing(ps) ==
    /\ passes' = [t \in Tours |-> IF Ends(ps[t]) THEN NoPass ELSE ps[t]]
    /\ LET answer == IF Ends(ps[Home]) THEN Merged(ps[Home].rows) ELSE "none" IN
       event' = IF answer = "none" THEN event ELSE [event EXCEPT !.state = answer]

----------------------------------------------------------------------------
(* A league's pass asks for all three; the tours in flight share a read.    *)
Ask(t) ==
    /\ Quiet /\ ~passes[t].open
    /\ LET stale == {k \in Kinds : ~IsFresh(k)}
           new == {k \in stale : ~Joins(k)}
           p == [on |-> stale, rows |-> [k \in Kinds |-> held[k].row], open |-> TRUE]
       IN  /\ \A k \in new : Cardinality({r \in reads : r.kind = k}) < 2
           /\ Entering({[kind |-> k, copy |-> 1 + Cardinality({r \in reads : r.kind = k}), phase |-> "seed", page |-> 1, row |-> "none"] : k \in new}, reads)
           /\ Closing([passes EXCEPT ![t] = p])
    /\ UNCHANGED <<time, day, match, perDay, held, taped, bounds>>

(* A refusal of the allowance, or a failed request, ends a read: what was   *)
(* held is served, an optional list is empty, and otherwise the pass fails. *)
BugServes(k) == FALSE   \* (defect) a failed refresh fails the pass
Serves(k) == held[k].at # Never
Fail(r, exhausted) ==
    /\ reads' = {x \in reads : x # r}
    /\ IF r.kind = "tape"
       THEN /\ event' = [event EXCEPT !.final = r.row = "post"]
            /\ UNCHANGED <<passes, ghost>>
       ELSE IF Serves(r.kind) \/ r.kind \in Optional \/ exhausted
            THEN /\ Closing(Delivered(r.kind, held[r.kind].row)) /\ UNCHANGED ghost
            ELSE /\ passes' = [t \in Tours |-> IF r.kind \in passes[t].on THEN NoPass ELSE passes[t]]
                 /\ ghost' = [ghost EXCEPT !.failed = TRUE] /\ UNCHANGED event
    /\ UNCHANGED held

(* The allowance is looked at, and the request counted and sent. *)
Refuses(s) == s.calls >= Ceiling
Go(r) ==
    /\ r.phase = "ready"
    /\ IF Refuses(Rolled)
       THEN /\ Fail(r, TRUE) /\ spend' = Rolled /\ UNCHANGED used
       ELSE /\ spend' = [Rolled EXCEPT !.calls = @ + 1, !.tape = @ + (IF r.kind = "tape" THEN 1 ELSE 0)]
            /\ reads' = (reads \ {r}) \cup {[r EXCEPT !.phase = "sent"]}
            /\ used' = used + 1 /\ UNCHANGED <<held, passes, event, ghost>>
    /\ UNCHANGED <<time, day, match, perDay, seeded, taped, bounds>>

(* The provider's own count arrives, or does not; those that waited go on.  *)
BugCounted(said) == spend.calls   \* (defect) a process counts from nothing
Counted(said) == IF spend.calls > said + 1 THEN spend.calls ELSE said + 1
Seed ==
    /\ Quiet /\ seeded.asking # 0
    /\ spend' = [spend EXCEPT !.calls = Counted(seeded.said)]
    /\ perDay' = PerDay
    /\ seeded' = [NotSeeded EXCEPT !.day = seeded.asking]
    /\ reads' = {[r EXCEPT !.phase = IF @ = "seed" THEN "ready" ELSE @] : r \in reads}
    /\ UNCHANGED <<time, day, match, used, held, passes, taped, event, ghost, bounds>>
SeedFails ==
    /\ Quiet /\ seeded.asking # 0 /\ bounds.faults < MaxFaults
    /\ seeded' = NotSeeded
    /\ reads' = {[r EXCEPT !.phase = IF @ = "seed" THEN "ready" ELSE @] : r \in reads}
    /\ ghost' = [ghost EXCEPT !.blind = TRUE] /\ bounds' = [bounds EXCEPT !.faults = @ + 1]
    /\ UNCHANGED <<time, day, match, used, spend, perDay, held, passes, taped, event>>

(* A page arrives, and the next is asked for or the list is kept.           *)
PageRow(r) == IF r.page = 1 THEN Listed(r.kind) ELSE r.row
Page(r) ==
    /\ Quiet /\ r.phase = "sent" /\ r.kind # "tape"
    /\ IF r.kind \in Long /\ r.page < MaxPages(r.kind)
       THEN /\ Entering({[r EXCEPT !.page = @ + 1, !.row = PageRow(r)]}, reads \ {r})
            /\ UNCHANGED <<held, passes, event>>
       ELSE /\ held' = [held EXCEPT ![r.kind] = [at |-> time, row |-> PageRow(r)]]
            /\ reads' = reads \ {r}
            /\ Closing(Delivered(r.kind, PageRow(r)))
            /\ UNCHANGED <<spend, seeded, used, ghost>>
    /\ UNCHANGED <<time, day, match, perDay, taped, bounds>>
ReadFails(r) ==
    /\ Quiet /\ r.phase = "sent" /\ bounds.faults < MaxFaults
    /\ Fail(r, FALSE) /\ bounds' = [bounds EXCEPT !.faults = @ + 1]
    /\ UNCHANGED <<time, day, match, used, spend, perDay, seeded, taped>>

(* The plays of the event are due: three gates, then the whole tape.        *)
MayTape == time - taped >= Cooldown /\ spend.tape < TapeBudget
Tape ==
    /\ Quiet /\ event.state \in {"in", "post"} /\ ~event.final /\ ~Joins("tape")
    /\ IF MayTape
       THEN /\ taped' = time
            /\ Entering({[kind |-> "tape", copy |-> 1, phase |-> "seed", page |-> 1, row |-> event.state]}, reads)
            /\ UNCHANGED event
       ELSE /\ event.state = "post" /\ event' = [event EXCEPT !.final = TRUE]
            /\ UNCHANGED <<taped, spend, reads, seeded, used, ghost>>
    /\ UNCHANGED <<time, day, match, perDay, held, passes, bounds>>
TapeArrives(r) ==
    /\ Quiet /\ r.phase = "sent" /\ r.kind = "tape"
    /\ reads' = reads \ {r}
    /\ event' = [event EXCEPT !.log = match, !.final = r.row = "post"]
    /\ UNCHANGED <<time, day, match, used, spend, perDay, seeded, held, passes, taped, ghost, bounds>>

(* The world: the match moves, time passes, midnight, a deploy. *)
Tick == /\ Quiet /\ time < MaxTime /\ time' = time + 1
        /\ UNCHANGED <<day, match, used, spend, perDay, seeded, held, reads, passes, taped, event, ghost, bounds>>
Move == /\ Quiet /\ match # "post" /\ match' = IF match = "pre" THEN "in" ELSE "post"
        /\ UNCHANGED <<time, day, used, spend, perDay, seeded, held, reads, passes, taped, event, ghost, bounds>>
Midnight ==
    /\ Quiet /\ day = 1 /\ day' = 2 /\ used' = 0
    /\ ghost' = [ghost EXCEPT !.blind = FALSE, !.usage = 0]
    /\ UNCHANGED <<time, match, spend, perDay, seeded, held, reads, passes, taped, event, bounds>>
Deploy ==
    /\ Quiet /\ bounds.boots < MaxBoots /\ bounds' = [bounds EXCEPT !.boots = @ + 1]
    /\ spend' = NoSpend /\ perDay' = 0 /\ seeded' = NotSeeded /\ held' = Nothing
    /\ reads' = {} /\ passes' = [t \in Tours |-> NoPass] /\ taped' = Never
    /\ UNCHANGED <<time, day, match, used, event, ghost>>

Next ==
    \/ \E t \in Tours : Ask(t)
    \/ \E r \in reads : Go(r) \/ Page(r) \/ ReadFails(r) \/ TapeArrives(r)
    \/ Seed \/ SeedFails \/ Tape \/ Tick \/ Move \/ Midnight \/ Deploy
Spec == Init /\ [][Next]_vars

----------------------------------------------------------------------------
(* However many leagues start together, a list is under way once; deploys   *)
(* do not lift the day's ceiling: as long as the provider tells what is      *)
(* spent, the requests it counts in a day stay within the allowance and the  *)
(* questions about it; and the logs' requests keep to their share.           *)
OneReadEach == \A k \in Kinds : Cardinality({r \in reads : r.kind = k}) <= 1
HardCeiling == ~ghost.blind => used <= (IF Budget < PerDay THEN Budget ELSE PerDay) + ghost.usage
TapeInItsShare == spend.tape <= TapeBudget /\ spend.tape <= spend.calls

(* Once a process has read every list, neither an outage nor an exhausted   *)
(* allowance makes a pass fail; and a list that is read later or more often  *)
(* does not bring a match back that the list of finished ones says is over.  *)
StaleBeatsNothing == ghost.failed' # ghost.failed => \E k \in Kinds : held[k].at = Never
OverStaysOver ==
    event.state' \notin {event.state, "post"} =>
        /\ passes[Home].rows["recent"] # "post"
        /\ passes[Home].open \/ held["recent"].row # "post"

TennisHoldsStep == OneReadEach' /\ HardCeiling' /\ TapeInItsShare' /\ StaleBeatsNothing /\ OverStaysOver
TennisHolds == [][TennisHoldsStep]_vars

(* Refuted: the stage of a match never goes back, and a log is whole when   *)
(* it is closed.  A list of what is to come, read before the first serve,    *)
(* outlives the match; and a tape that was read of late is not read again.   *)
OnlyForward == [][Rank(event.state') >= Rank(event.state)]_vars
EndIsTaped == event.final => event.log = "post"
=============================================================================
