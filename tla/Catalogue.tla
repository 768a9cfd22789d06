----------------------------- MODULE Catalogue -----------------------------
(***************************************************************************)
(* The leagues, and the passes of the sync queue that keep them: the        *)
(* catalogue pass, which lists what the providers have and retires what     *)
(* another provider claims, the full sweep, the near pass, and the boot     *)
(* that decides whether a sweep is overdue.  One process runs at a time; a  *)
(* deployment ends it, and its job is executed again.                       *)
(***************************************************************************)
EXTENDS Naturals, FiniteSets

CONSTANTS Leagues, Tennis,   \* leagues; livetennis's.  The others are ESPN's.
          Claimed,           \* those of the sport that livetennis claims
          Mute, Placed,      \* whose scoreboard never answers; whose region is known
          Configs, Forced,   \* SPORTS_PROVIDERS, config.sync.onBoot: what they may be
          Limit, Recheck, Stale,
          Kinds, Scheduled,  \* the passes there are, and those that come by the clock
          MaxTime, MaxBoots  \* bounds

VARIABLES rows,     \* leagues
          config,   \* the providers this deployment enables
          waiting, used,  \* the sync queue, and the bucketed ids it has seen
          pass,     \* its job
          time,     \* in minutes; an hour has Hour of them
          boots, fresh,   \* deployments; whether the boot has yet to run
          need,     \* ghost: the last boot found nothing swept for Stale
          swept,    \* ghost: when a full sweep last asked for a league
          settled,  \* ghost: what the last catalogue pass was offered, if under this config
          passed    \* ghost: how often others were asked while a league was due
vars == <<rows, config, waiting, used, pass, time, boots, fresh, need, swept, settled, passed>>

Hour == 2
HourOf(t) == t \div Hour
Of(l) == IF l \in Tennis THEN "livetennis" ELSE "espn"
NoRow == [active |-> FALSE, named |-> FALSE, region |-> FALSE, asked |-> 0, stamp |-> 0, listed |-> FALSE]
Idle == [kind |-> "none", id |-> <<"none", 0>>, todo |-> {}, left |-> {}, step |-> "idle"]
Off == [on |-> FALSE, offered |-> {}]

TypeOK ==
    /\ rows \in [Leagues -> [active : BOOLEAN, named : BOOLEAN, region : BOOLEAN, listed : BOOLEAN,
                             asked : 0..MaxTime, stamp : 0..MaxTime]]
    /\ config \in Configs /\ time \in 1..MaxTime /\ boots \in 0..MaxBoots
    /\ pass.kind \in Kinds \cup {"none"} /\ pass.left \subseteq Leagues
    /\ need \in BOOLEAN /\ swept \in 0..MaxTime /\ settled.offered \subseteq Leagues

Init == /\ rows = [l \in Leagues |-> NoRow] /\ config \in Configs
        /\ waiting = {} /\ used = {} /\ pass = Idle /\ time = 1 /\ boots = 1 /\ fresh = TRUE
        /\ need = FALSE /\ swept = 0 /\ settled = Off
        /\ passed = [l \in Leagues |-> [m \in Leagues |-> 0]]

Ghosts == <<need, swept, settled, passed>>
Pass == /\ time < MaxTime /\ time' = time + 1
        /\ UNCHANGED <<rows, config, waiting, used, pass, boots, fresh, Ghosts>>

(***************************************************************************)
(* The boot                                                                 *)
(***************************************************************************)
\* The job that was running is found stalled, and waits again.
Deploy ==
    /\ boots < MaxBoots /\ boots' = boots + 1 /\ ~fresh /\ fresh' = TRUE
    /\ config' \in Configs
    /\ waiting' = IF pass = Idle THEN waiting ELSE waiting \cup {<<pass.kind, pass.id>>}
    /\ pass' = Idle
    /\ settled' = IF config' = config THEN settled ELSE Off
    /\ UNCHANGED <<rows, used, time, need, swept, passed>>

Active == {l \in Leagues : rows[l].active}
OverdueBy(t) == t = 0 \/ time - t > Stale
Newest == LET s == {rows[l].stamp : l \in Active} IN
    IF s = {} THEN 0 ELSE CHOOSE t \in s : \A u \in s : u <= t
Unnamed == \E l \in Active : ~rows[l].named
Rosterless == \E l \in Active : rows[l].stamp = 0
\* A job id that was seen adds nothing.
Added(jobs) == {j \in jobs : j[1] \in Kinds /\ j[2] \notin used}

\* installSchedules.  Only the schedules' own jobs have no id to be seen twice.
Boot(forced) ==
    LET stale == OverdueBy(Newest)
        reason == IF forced \/ Unnamed \/ Rosterless THEN <<"backfill", time>> ELSE <<"seed-all", HourOf(time)>>
        jobs == (IF ~\E l \in Leagues : rows[l].listed THEN {<<"catalogue", <<"seed-cat", 0>>>>} ELSE {})
                  \cup (IF stale \/ forced \/ Unnamed \/ Rosterless THEN {<<"all", reason>>} ELSE {})
                  \cup {<<"near", <<"seed-near", HourOf(time)>>>>}
    IN  /\ fresh /\ fresh' = FALSE
        /\ waiting' = waiting \cup Added(jobs)
        /\ used' = used \cup {j[2] : j \in Added(jobs)}
        /\ need' = ("all" \in Kinds /\ OverdueBy(swept) /\ reason \notin used)
        /\ UNCHANGED <<rows, config, pass, time, boots, swept, settled, passed>>

\* A schedule's job.
Tick(kind) ==
    /\ ~fresh /\ <<kind, <<"clock", 0>>>> \notin waiting /\ pass.id # <<"clock", 0>>
    /\ waiting' = waiting \cup {<<kind, <<"clock", 0>>>>}
    /\ UNCHANGED <<rows, config, used, pass, time, boots, fresh, Ghosts>>

(***************************************************************************)
(* The worker: concurrency 1                                                *)
(***************************************************************************)
\* Near: the leagues with a fixture in the window.
Take(job, some) ==
    /\ ~fresh /\ pass = Idle /\ job \in waiting /\ waiting' = waiting \ {job}
    /\ some \subseteq Active /\ (job[1] = "all" => some = Active) /\ (job[1] = "catalogue" => some = {})
    /\ pass' = [Idle EXCEPT !.kind = job[1], !.id = job[2], !.left = some,
                  !.todo = IF job[1] = "catalogue" THEN config ELSE {},
                  !.step = IF job[1] = "catalogue" THEN "list" ELSE "sweep"]
    /\ need' = (need /\ job[1] # "all")
    /\ UNCHANGED <<rows, config, used, time, boots, fresh, swept, settled, passed>>

\* syncCatalogue, provider by provider.  What another claims is skipped.
Owner(l) == IF l \in Claimed /\ "livetennis" \in config THEN "livetennis" ELSE Of(l)
BugListed(row, l) == [row EXCEPT !.active = TRUE, !.listed = TRUE, !.named = l \in Tennis]
Listed(row, l) == [row EXCEPT !.active = TRUE, !.listed = TRUE, !.named = row.named \/ l \in Tennis]
List(p, answered) ==
    /\ pass.step = "list" /\ p \in pass.todo
    /\ answered \subseteq {l \in Leagues : Of(l) = p} /\ (p = "livetennis" => answered = Tennis)
    /\ rows' = [l \in Leagues |-> IF l \in answered /\ Owner(l) = p THEN Listed(rows[l], l) ELSE rows[l]]
    /\ pass' = [pass EXCEPT !.todo = @ \ {p}, !.left = @ \cup {l \in answered : Owner(l) = p}]
    /\ UNCHANGED <<config, waiting, used, time, boots, fresh, Ghosts>>
\* ESPN does not answer: the job fails, and is tried again or given up.
ListFails ==
    /\ pass.step = "list" /\ "espn" \in pass.todo /\ pass' = Idle
    /\ waiting' \in {waiting, waiting \cup {<<pass.kind, pass.id>>}}
    /\ UNCHANGED <<rows, config, used, time, boots, fresh, Ghosts>>

Due == {l \in Active : ~rows[l].region /\ (rows[l].asked = 0 \/ time - rows[l].asked > Recheck)}
FirstDue(due) == {s \in SUBSET due : /\ Cardinality(s) = IF Cardinality(due) < Limit THEN Cardinality(due) ELSE Limit
                                     /\ \A l \in s, m \in due \ s : rows[l].asked <= rows[m].asked}
\* deactivateUnclaimedLeagues, and the list of leagues to ask for a region
BugRetired == {}
Retired == {l \in Claimed : Owner(l) # Of(l)}
Retire ==
    /\ pass.step = "list" /\ pass.todo = {}
    /\ rows' = [l \in Leagues |-> IF l \in Retired THEN [rows[l] EXCEPT !.active = FALSE] ELSE rows[l]]
    /\ settled' = [on |-> TRUE, offered |-> pass.left]
    /\ passed' = [l \in Leagues |-> [m \in Leagues |-> IF l \in Retired THEN 0 ELSE passed[l][m]]]
    /\ pass' = [pass EXCEPT !.step = "choose", !.left = {}]
    /\ UNCHANGED <<config, waiting, used, time, boots, fresh, need, swept>>
Choose ==
    /\ pass.step = "choose"
    /\ \E s \in FirstDue(Due) : pass' = [pass EXCEPT !.step = "region", !.left = s]
    /\ UNCHANGED <<rows, config, waiting, used, time, boots, fresh, Ghosts>>
\* backfillLeagueRegions asks for one: an answer or none, the asking is noted.
BugNoted(l, known) == IF known THEN time ELSE rows[l].asked
Noted(l, known) == time
Region(l) ==
    /\ pass.step = "region" /\ l \in pass.left
    /\ \E known \in {FALSE, (l \in Placed)} :
          rows' = [rows EXCEPT ![l].region = known, ![l].asked = Noted(l, known)]
    /\ passed' = [m \in Leagues |-> IF m = l THEN [k \in Leagues |-> 0]
                    ELSE IF m \in Due \ pass.left THEN [passed[m] EXCEPT ![l] = IF @ = 2 THEN 2 ELSE @ + 1] ELSE passed[m]]
    /\ pass' = [pass EXCEPT !.left = @ \ {l}]
    /\ UNCHANGED <<config, waiting, used, time, boots, fresh, need, swept, settled>>

\* syncLeague for one league of the pass.  A full sweep stamps it either way: at
\* the end, or where its failure is caught.
BugStamps(kind) == TRUE
Stamps(kind) == kind = "all"
Sweep(l, ok) ==
    /\ pass.step = "sweep" /\ l \in pass.left /\ (ok => l \notin Mute)
    /\ rows' = [rows EXCEPT ![l].named = @ \/ ok, ![l].stamp = IF Stamps(pass.kind) THEN time ELSE @]
    /\ swept' = IF pass.kind = "all" THEN time ELSE swept
    /\ pass' = [pass EXCEPT !.left = @ \ {l}]
    /\ UNCHANGED <<config, waiting, used, time, boots, fresh, need, settled, passed>>

End ==
    /\ pass.step \in {"sweep", "region"} /\ pass.left = {} /\ pass' = Idle
    /\ UNCHANGED <<rows, config, waiting, used, time, boots, fresh, Ghosts>>

Next ==
    \/ Pass \/ Deploy \/ ListFails \/ Retire \/ Choose \/ End
    \/ \E forced \in Forced : Boot(forced)
    \/ \E kind \in Scheduled : Tick(kind)
    \/ \E job \in waiting, some \in SUBSET Leagues : Take(job, some)
    \/ \E p \in {"espn", "livetennis"}, answered \in SUBSET Leagues : List(p, answered)
    \/ \E l \in Leagues : Region(l) \/ \E ok \in BOOLEAN : Sweep(l, ok)

Spec == Init /\ [][Next]_vars

----------------------------------------------------------------------------
\* A boot that comes when no sweep has asked for anything within Stale leaves one
\* waiting (unless its id was spent this hour), whatever the near passes, other boots and their job ids did before.
BootSweeps == need => \E j \in waiting : j[1] = "all"

\* After a catalogue pass a claimed sport is its owner's alone, and a claim that
\* was dropped gives back what the pass was offered.
ClaimsHold ==
    settled.on => \A l \in Claimed \cap Leagues :
        /\ "livetennis" \in config /\ rows[l].active => l \in Tennis
        /\ l \in settled.offered => rows[l].active

\* The walk for regions reaches everyone: nobody is asked twice while another was
\* due, through passes that are cut off, leagues that answer nothing, and retirement.
WalkReaches == \A l, m \in Leagues : passed[l][m] <= 1

\* A league that has its real name keeps it through every later pass.
NamesStay == \A l \in Leagues : rows[l].named => rows'[l].named

CatalogueHoldsStep == (BootSweeps /\ ClaimsHold /\ WalkReaches)' /\ NamesStay
CatalogueHolds == [][CatalogueHoldsStep]_vars

\* Not so: the stamp "means what this check needs it to mean" (a failed league is stamped).
FreshIsFetched == swept # 0 /\ ~OverdueBy(Newest) => \E l \in Leagues : rows[l].named
\* Not so: "the counts shrink to zero as the work lands, so this settles".
SweepsSettle == [][(fresh /\ ~fresh' /\ Active # {} /\ \A l \in Active : ~OverdueBy(rows[l].stamp))
                     => {j \in waiting' : j[1] = "all"} \subseteq waiting]_vars
\* Not so: "makes turning a claim OFF safe".
OneProviderPerSport == settled.on /\ config = {"espn"} => \A l \in Claimed \cap Leagues : rows[l].active => Of(l) = "espn"
\* Not so: a boot that finds no leagues asks for them.
EmptyIsSeeded == [][(fresh /\ ~fresh' /\ \A l \in Leagues : ~rows[l].listed)
                      => \E j \in waiting' : j[1] = "catalogue"]_vars
=============================================================================
