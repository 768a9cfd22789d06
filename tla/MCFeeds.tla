------------------------------ MODULE MCFeeds ------------------------------
(***************************************************************************)
(* The fan-out of reminders, and the safety of what the site takes from     *)
(* others (lists, lines, sports, listings), each part on a small instance   *)
(* in the way of MCSite: no two of the modules share a variable, focus says *)
(* which one moves, and x1, x2, ... hold its variables and are 0 beyond     *)
(* them.  Fanout's own variables stay at the start while another moves.     *)
(***************************************************************************)
EXTENDS Fanout

CONSTANTS c1, c2, f1, f2, h1, h2, reader, station, worker, NoOne   \* model values

VARIABLES focus, x1, x2, x3, x4, x5, x6, x7, x8, x9, x10, x11, x12, x13, x14, x15

(* One fixture whose kick-off the sync may still move, early enough for     *)
(* every scan of the run to see it.                                         *)
MCEvents == {"final"}
Soon == {[state |-> "pre", class |-> "timed", startsAt |-> 2], [state |-> "pre", class |-> "dated", startsAt |-> 3]}
Kickoff == {[state |-> "pre", class |-> "timed", startsAt |-> 1]}   \* of the run that skips one
Still == Init /\ event = CHOOSE rows \in [Events -> EventChoices] : TRUE

(* What a module has several instances of: records of its parameters. *)
CONSTANTS
    ShareForms, Friends, RadioLine, MaxShared, ShareInputs, ShareEvents,  \* Sharing
    OneCall, TwoCalls,                    \* LivePass
    SyncLines, SyncStates, SyncListings,  \* Fixtures
    KeptCopies, KeptLists, KeptCalls,     \* Schedule
    OneTour, TwoTours,                    \* TennisFeed
    Claims, RegionWalk, ManyBoots,        \* Catalogue
    Tonight, AnyTitle                     \* ChannelMatch

\* The radio is no list, and a line that is not named is no line.
ASSUME SharingAssumption ==
    /\ RadioLine \notin 1..MaxShared /\ NoOne \notin (1..MaxShared) \cup {RadioLine} /\ NoOne \notin Friends
    /\ NoOne \notin [managed : BOOLEAN, audience : {"none", "friends", "everyone"}]
    /\ MaxShared \in Nat /\ ShareInputs \in Nat /\ ShareEvents \in Nat
ASSUME PassAssumption ==
    \A g \in {OneCall, TwoCalls} :
        /\ IsFiniteSet(g.handlers) /\ g.terms \subseteq Nat
        /\ g.month \in Nat \ {0} /\ g.year \in Nat \ {0} /\ g.grace \in Nat /\ g.time \in Nat
        /\ g.lines \in Nat /\ g.ids \in Nat \ {0} /\ g.inputs \in Nat /\ g.faults \in Nat

(* One ensureLine at a time, with failures; and two at once. *)
MCOneCall == [handlers |-> {h1}, terms |-> {1, 3}, month |-> 2, year |-> 4, grace |-> 1, time |-> 3, lines |-> 2,
              ids |-> 3, inputs |-> 2, faults |-> 1]
MCTwoCalls == [handlers |-> {h1, h2}, terms |-> {1}, month |-> 2, year |-> 4, grace |-> 1, time |-> 2, lines |-> 2,
               ids |-> 3, inputs |-> 2, faults |-> 0]
(* Lines; a fixture's state, with failures; and its listing. *)
MCSyncLines == [matches |-> {"a"}, prices |-> {1, 2}, moves |-> {"line"}, steps |-> 2, faults |-> 0,
                outages |-> TRUE, phases |-> 2]
MCSyncStates == [matches |-> {"a"}, prices |-> {1}, moves |-> {"state", "line"}, steps |-> 2, faults |-> 1,
                 outages |-> TRUE, phases |-> 5]
MCSyncListings == [matches |-> {"a"}, prices |-> {1}, moves |-> {"state", "listing"}, steps |-> 3, faults |-> 1,
                   outages |-> TRUE, phases |-> 5]
(* The copies of a page, who reads it, and what all it asks. *)
MCKeptCopies == [matches |-> {"a"}, here |-> {"a"}, browsers |-> {c1, c2}, asked |-> {"live"}, limit |-> 1,
                 stale |-> 1, ttl |-> 2, writes |-> 2, signins |-> 2]
MCKeptLists == [matches |-> {"a", "b"}, here |-> {"a", "b"}, browsers |-> {c1}, asked |-> {"live", "total"},
                limit |-> 1, stale |-> 1, ttl |-> 1, writes |-> 2, signins |-> 0]
MCKeptCalls == [matches |-> {"a"}, here |-> {"a"}, browsers |-> {c1},
                asked |-> {"live", "total", "stalled", "soon", "upcoming"}, limit |-> 1, stale |-> 1, ttl |-> 1,
                writes |-> 2, signins |-> 0]
(* A day of one tour, with restarts; and two that share the allowance. *)
MCTtl == [k \in {"live", "upcoming", "recent"} |-> IF k = "live" THEN 1 ELSE 3]
MCOneTour == [tours |-> {"atp"}, home |-> "atp", long |-> {"live"}, budget |-> 5, perDay |-> 6, tapes |-> 1,
              cooldown |-> 2, ttl |-> MCTtl, time |-> 1, faults |-> 1, boots |-> 2]
MCTwoTours == [tours |-> {"atp", "itf"}, home |-> "atp", long |-> {"live"}, budget |-> 4, perDay |-> 4,
               tapes |-> 1, cooldown |-> 2, ttl |-> MCTtl, time |-> 1, faults |-> 0, boots |-> 1]
(* Two providers and who owns a sport; the walk for regions; and boots. *)
MCClaims == [leagues |-> {"t", "e"}, tennis |-> {"t"}, claimed |-> {"t", "e"}, mute |-> {}, placed |-> {"e"},
             configs |-> {{"espn"}, {"espn", "livetennis"}}, forced |-> {FALSE}, limit |-> 1, recheck |-> 1,
             stale |-> 1, kinds |-> {"catalogue"}, scheduled |-> {"catalogue"}, time |-> 2, boots |-> 2]
MCRegionWalk == [leagues |-> {"e", "m"}, tennis |-> {}, claimed |-> {}, mute |-> {"m"}, placed |-> {"e"},
                 configs |-> {{"espn"}}, forced |-> {FALSE}, limit |-> 1, recheck |-> 1, stale |-> 1,
                 kinds |-> {"catalogue"}, scheduled |-> {"catalogue"}, time |-> 4, boots |-> 1]
MCManyBoots == [leagues |-> {"e"}, tennis |-> {}, claimed |-> {}, mute |-> {}, placed |-> {},
                configs |-> {{"espn"}}, forced |-> BOOLEAN, limit |-> 0, recheck |-> 1, stale |-> 1,
                kinds |-> {"all", "near", "catalogue"}, scheduled |-> {"near"}, time |-> 3, boots |-> 2]

(* Fixtures, and what channels are called. *)
Game(home, away, league, abbr, sport) ==
    [home |-> home, away |-> away, name |-> <<>>, league |-> league, abbr |-> abbr, sport |-> sport]
Baseball == Game(<<"baltimore", "orioles">>, <<"louis", "cardinals">>, <<"major", "league", "baseball">>, <<"mlb">>, "baseball")
Derby(side) == Game(<<"manchester", side>>, <<"leeds">>, <<"english", "premier", "league">>, <<"epl">>, "football")
Round == [Game(<<>>, <<>>, <<"formula">>, <<"f1">>, "racing") EXCEPT !.name = <<"dutch", "grand", "prix">>]
Titled(words) == [words |-> words, dated |-> FALSE, lang |-> "none", blank |-> FALSE]
Said == UNION {[1..n -> {"manchester", "united", "city", "leeds", "premier", "league", "women", "dutch"}] : n \in 1..3}
Evening == <<[Titled(<<"baltimore", "orioles", "louis", "cardinals">>) EXCEPT !.dated = TRUE],
             Titled(<<"orioles", "cardinals", "hd">>), Titled(<<"nfl", "baltimore", "cardinals">>),
             Titled(<<"cardinals", "at", "orioles">>)>>
Boxes == {<<"nbc">>, <<"cbs">>, <<"chsn">>, <<"usa", "network">>, <<"nbc", "sports", "ca">>, <<"sport", "tv">>,
          <<"espn">>, <<"masn">>, <<"b1g">>, <<"mlb", "tv">>}
OnShelf == {<<"nbc", "wmaq">>, <<"nbc", "sports">>, <<"cbs", "sports", "network">>, <<"usa", "hd">>, <<"mlb", "network">>}
Bare == {<<"chicago", "sports", "network">>, <<"nbc", "sports", "california">>, <<"nbc", "sports", "chicago">>,
         <<"sport", "tv">>, <<"espnu">>, <<"espn">>, <<"mid", "atlantic", "sportsnet">>, <<"masn2">>, <<"big">>, <<"test">>}
(* A fixture and what a reader has for it; and every short title there may be. *)
MCTonight == [fixtures |-> {Baseball}, lists |-> {Evening}, lines |-> {1, 2}, lineOf |-> <<1, 1, 1, 2>>,
              tags |-> {<<"nfl", "american">>, <<"mlb", "baseball">>}, fresh |-> 1, hidden |-> 1, ttl |-> 1,
              share |-> 2, window |-> 3, perLine |-> 1, time |-> 3]
MCAnyTitle == [fixtures |-> {Derby("united"), Derby("city"), Round}, lists |-> {<<Titled(w)>> : w \in Said},
               lines |-> {1}, lineOf |-> <<1>>, tags |-> {<<"nfl", "american">>}, fresh |-> 1, hidden |-> 1,
               ttl |-> 1, share |-> 1, window |-> 1, perLine |-> 1, time |-> 1]
(* What providers list beside sport. *)
Item(id, subject, name, tags) ==
    [id |-> id, subject |-> subject, name |-> name, tags |-> tags, placed |-> TRUE, from |-> "gdelt"]
BrandOrders == {<<"tvmaze", "spacedevs">>, <<"tmdb", "musicbrainz">>, <<"anilist", "nichedb">>}
BrandLists ==
    [tvmaze |-> <<Item("e1", "s1", "show", <<"drama", "crime">>), Item("e2", "s2", "game", <<"drama", "sports">>),
                  Item("e3", "s2b", "toon", <<"anime">>)>>,
     anilist |-> <<Item("a1", "s3", "show", <<"drama">>), Item("a2", "s4", "film", <<>>)>>,
     tmdb |-> <<Item("m1", "s5", "film", <<"drama", "tv movie">>), Item("m2", "s6", "film", <<"crime">>),
                Item("m3", "s7", "film", <<"drama">>)>>,
     spacedevs |-> <<Item("l1", "s8", "agency", <<"resupply">>), Item("l2", "s8", "agency", <<"crew">>),
                     Item("l3", "s8", "agency", <<"unknown">>), Item("l4", NoOne, "x", <<"lost">>)>>,
     musicbrainz |-> <<Item("r1", "s9", "band", <<"rock">>), Item("r2", "s10", "band", <<"pop">>),
                       Item("r3", "s9", "band", <<"rock">>)>>,
     nichedb |-> <<Item("n3", "bbci", "bbc", <<"us">>), Item("n2", "bbci", "bbc", <<"world">>),
                   Item("n1", "dw", "dw", <<"world">>)>>]
NewStories == {Item("n4", "bbc2", "bbc", <<"us">>), [Item("n5", "npr", "npr", <<"weather">>) EXCEPT !.from = "newsfeed"]}
KeyEnds == [s \in {"s1", "s2", "s2b", "s3", "s4", "s5", "s6", "s7", "s8", "s9", "s10", "bbci", "bbc2", "dw", "npr"} |-> s]

(* Public channels, and what pages ask of them. *)
OnAir == {[id |-> "1", country |-> "US", words |-> <<"bbc", "news">>], [id |-> "2", country |-> "US", words |-> <<"vip", "news">>],
          [id |-> "3", country |-> "UK", words |-> <<"bbc", "world">>], [id |-> "4", country |-> "XX", words |-> <<"tv">>],
          [id |-> "5", country |-> NoOne, words |-> <<"bbc">>]}
Wanted == [words : {<<"bbc", "news">>, <<>>, <<"news">>, <<"bbc", "world">>}, country : {NoOne}]
          \cup {[words |-> <<"vip">>, country |-> "US"]}
RegionOfCountry == [c \in {"US", "UK"} |-> IF c = "US" THEN "Americas" ELSE "Europe"]

(* The rows of a broadcaster and their channels. *)
Rows == [shelf : {<<"usa">>}, own : OnShelf] \cup [shelf : {<<>>}, own : Bare]

Imported == INSTANCE Playlists WITH Routes <- {h1}, Poller <- worker, Addresses <- {"a", "b"}, MaxLists <- 2,
        MaxIds <- 3, MaxEdits <- 3, MaxFaults <- 1, list <- x1, used <- x2, job <- x3, file <- x4, worked <- x5,
        met <- x6, torn <- x7, edits <- x8, faults <- x9
NamedFor == INSTANCE Broadcasters WITH Listings <- Boxes, Titles <- Rows, MaxRows <- 2, listing <- x1,
        rows <- x2, asked <- x3, offered <- x4
Matched(g) == INSTANCE ChannelMatch WITH Fixtures <- g.fixtures, Lists <- g.lists, Lines <- g.lines,
        LineOf <- g.lineOf, Tags <- g.tags, Fresh <- g.fresh, Hidden <- g.hidden, MarkerTtl <- g.ttl,
        Share <- g.share, Window <- g.window, PerLine <- g.perLine, MaxTime <- g.time, fixture <- x1,
        titles <- x2, verdict <- x3, time <- x4, markers <- x5, page <- x6, told <- x7
Shared == INSTANCE Sharing WITH Forms <- ShareForms, People <- Friends, Radio <- RadioLine, MaxIds <- MaxShared,
        MaxInputs <- ShareInputs, MaxEvents <- ShareEvents, None <- NoOne, row <- x1, order <- x2, grant <- x3,
        mutual <- x4, member <- x5, form <- x6, pass <- x7, ids <- x8, inputs <- x9, events <- x10
Pass(g) == INSTANCE LivePass WITH Handlers <- g.handlers, Terms <- g.terms, Month <- g.month, Year <- g.year,
        Grace <- g.grace, MaxTime <- g.time, MaxLines <- g.lines, MaxIds <- g.ids, MaxInputs <- g.inputs,
        MaxFaults <- g.faults, now <- x1, pass <- x2, unlocked <- x3, line <- x4, lines <- x5, list <- x6,
        used <- x7, run <- x8, edit <- x9, picked <- x10, inputs <- x11, faults <- x12, loose <- x13,
        torn <- x14, met <- x15
Sync(g) == INSTANCE Fixtures WITH Matches <- g.matches, Prices <- g.prices, Moves <- g.moves,
        MaxMoves <- g.steps, MaxFaults <- g.faults, Outages <- g.outages, LastPhase <- g.phases, None <- NoOne,
        truth <- x1, phase <- x2, rows <- x3, history <- x4, job <- x5, met <- x6, moves <- x7, faults <- x8
Cached(g) == INSTANCE Schedule WITH Matches <- g.matches, Here <- g.here, Browsers <- g.browsers,
        Asked <- g.asked, Limit <- g.limit, Stale <- g.stale, Ttl <- g.ttl, MaxWrites <- g.writes,
        MaxSignIns <- g.signins, None <- NoOne, rows <- x1, user <- x2, making <- x3, redis <- x4, edge <- x5,
        own <- x6, writes <- x7, signins <- x8
Tour(g) == INSTANCE TennisFeed WITH Tours <- g.tours, Home <- g.home, Long <- g.long, Budget <- g.budget,
        PerDay <- g.perDay, TapeBudget <- g.tapes, Cooldown <- g.cooldown, Ttl <- g.ttl, MaxTime <- g.time,
        MaxFaults <- g.faults, MaxBoots <- g.boots, time <- x1, day <- x2, match <- x3, used <- x4, spend <- x5,
        perDay <- x6, seeded <- x7, held <- x8, reads <- x9, passes <- x10, taped <- x11, event <- x12,
        ghost <- x13, bounds <- x14
Tape == INSTANCE TapeLog WITH Games <- 2, Partial <- FALSE, MaxGames <- 5, MaxEntries <- 2, score <- x1,
        tape <- x2, since <- x3, said <- x4, entries <- x5
Plays == INSTANCE PlayLog WITH Games <- {"a", "b"}, Logged <- {"a"}, Boxed <- {"a", "b"}, Answering <- {"a"},
        Start <- [g \in {"a", "b"} |-> IF g = "a" THEN 2 ELSE 1], Limit <- 2, Whole <- 1, MaxFaults <- 1,
        None <- NoOne, up <- x1, row <- x2, order <- x3, rested <- x4, drawn <- x5, due <- x6, pc <- x7,
        got <- x8, failed <- x9, faults <- x10, edge <- x11
Swept(g) == INSTANCE Catalogue WITH Leagues <- g.leagues, Tennis <- g.tennis, Claimed <- g.claimed,
        Mute <- g.mute, Placed <- g.placed, Configs <- g.configs, Forced <- g.forced, Limit <- g.limit,
        Recheck <- g.recheck, Stale <- g.stale, Kinds <- g.kinds, Scheduled <- g.scheduled, MaxTime <- g.time,
        MaxBoots <- g.boots, rows <- x1, config <- x2, waiting <- x3, used <- x4, pass <- x5, time <- x6,
        boots <- x7, fresh <- x8, need <- x9, swept <- x10, settled <- x11, passed <- x12
Brands == INSTANCE BrandCatalog WITH Orders <- BrandOrders, Remote <- BrandLists, Arrivals <- NewStories,
        Ending <- KeyEnds, HasKey <- TRUE, PageSize <- 2, Pages <- 2, Lookups <- 1, Interval <- 2, MaxTime <- 3,
        MaxFaults <- 1, MaxShifts <- 1, None <- NoOne, now <- x1, order <- x2, listed <- x3, leagues <- x4,
        teams <- x5, edges <- x6, events <- x7, pass <- x8, wrote <- x9, aborted <- x10, faults <- x11,
        shifts <- x12
Picks == INSTANCE Watch WITH Tabs <- {}, Lists <- {<<>>}, There <- <<>>, Answers <- <<>>, Passing <- {}, MaxHops <- 0, Ttl <- 1,
        Channels <- OnAir, Queries <- Wanted, Limits <- {2, 4}, Regions <- RegionOfCountry, MaxTime <- 1,
        MaxMoves <- 0, MaxWants <- 0, MaxList <- 4, None <- NoOne, now <- x1, directory <- x2, cache <- x3,
        req <- x4, got <- x5, ended <- x6, hops <- x7, upstream <- x8, wants <- x9, list <- x10, query <- x11,
        limit <- x12, shown <- x13

(* What is beyond the n-th variable: it is 0, and stays. *)
Zero14 == x15 = 0
Zero13 == x14 = 0 /\ Zero14
Zero12 == x13 = 0 /\ Zero13
Zero11 == x12 = 0 /\ Zero12
Zero10 == x11 = 0 /\ Zero11
Zero9 == x10 = 0 /\ Zero10
Zero8 == x9 = 0 /\ Zero9
Zero7 == x8 = 0 /\ Zero8
Zero6 == x7 = 0 /\ Zero7
Zero5 == x6 = 0 /\ Zero6
Zero4 == x5 = 0 /\ Zero5
Zero3 == x4 = 0 /\ Zero4
Zero2 == x3 = 0 /\ Zero3
Zero1 == x2 = 0 /\ Zero2
Zero0 == x1 = 0 /\ Zero1
Rest14 == <<focus, x15>>
Rest13 == <<x14, Rest14>>
Rest12 == <<x13, Rest13>>
Rest11 == <<x12, Rest12>>
Rest10 == <<x11, Rest11>>
Rest9 == <<x10, Rest10>>
Rest8 == <<x9, Rest9>>
Rest7 == <<x8, Rest8>>
Rest6 == <<x7, Rest7>>
Rest5 == <<x6, Rest6>>
Rest4 == <<x5, Rest5>>
Rest3 == <<x4, Rest4>>
Rest2 == <<x3, Rest3>>
Rest1 == <<x2, Rest2>>
Rest0 == <<x1, Rest1>>
Rest15 == focus
Zero15 == TRUE

FeedsInit ==
    \/ focus = "fanout" /\ Init /\ Zero0
    \/ focus = "lists" /\ Imported!Init /\ Zero9 /\ Still
    \/ focus = "named" /\ NamedFor!Init /\ Zero4 /\ Still
    \/ focus = "tonight" /\ Matched(Tonight)!Init /\ Zero7 /\ Still
    \/ focus = "anytitle" /\ Matched(AnyTitle)!Init /\ Zero7 /\ Still
    \/ focus = "sharing" /\ Shared!Init /\ Zero10 /\ Still
    \/ focus = "pass" /\ Pass(OneCall)!Init /\ Zero15 /\ Still
    \/ focus = "passes" /\ Pass(TwoCalls)!Init /\ Zero15 /\ Still
    \/ focus = "fixlines" /\ Sync(SyncLines)!Init /\ Zero8 /\ Still
    \/ focus = "fixstates" /\ Sync(SyncStates)!Init /\ Zero8 /\ Still
    \/ focus = "fixlistings" /\ Sync(SyncListings)!Init /\ Zero8 /\ Still
    \/ focus = "copies" /\ Cached(KeptCopies)!Init /\ Zero8 /\ Still
    \/ focus = "listed" /\ Cached(KeptLists)!Init /\ Zero8 /\ Still
    \/ focus = "asked" /\ Cached(KeptCalls)!Init /\ Zero8 /\ Still
    \/ focus = "tennis" /\ Tour(OneTour)!Init /\ Zero14 /\ Still
    \/ focus = "tours" /\ Tour(TwoTours)!Init /\ Zero14 /\ Still
    \/ focus = "tape" /\ Tape!Init /\ Zero5 /\ Still
    \/ focus = "plays" /\ Plays!Init /\ Zero11 /\ Still
    \/ focus = "claims" /\ Swept(Claims)!Init /\ Zero12 /\ Still
    \/ focus = "walk" /\ Swept(RegionWalk)!Init /\ Zero12 /\ Still
    \/ focus = "boot" /\ Swept(ManyBoots)!Init /\ Zero12 /\ Still
    \/ focus = "brands" /\ Brands!Init /\ Zero12 /\ Still
    \/ focus = "picks" /\ Picks!Init /\ Zero13 /\ Still

FeedsNext ==
    \/ focus = "fanout" /\ Next /\ UNCHANGED Rest0
    \/ focus = "lists" /\ Imported!Next /\ UNCHANGED <<vars, Rest9>>
    \/ focus = "named" /\ NamedFor!Next /\ UNCHANGED <<vars, Rest4>>
    \/ focus = "tonight" /\ Matched(Tonight)!Next /\ UNCHANGED <<vars, Rest7>>
    \/ focus = "anytitle" /\ Matched(AnyTitle)!Next /\ UNCHANGED <<vars, Rest7>>
    \/ focus = "sharing" /\ Shared!Next /\ UNCHANGED <<vars, Rest10>>
    \/ focus = "pass" /\ Pass(OneCall)!Next /\ UNCHANGED <<vars, Rest15>>
    \/ focus = "passes" /\ Pass(TwoCalls)!Next /\ UNCHANGED <<vars, Rest15>>
    \/ focus = "fixlines" /\ Sync(SyncLines)!Next /\ UNCHANGED <<vars, Rest8>>
    \/ focus = "fixstates" /\ Sync(SyncStates)!Next /\ UNCHANGED <<vars, Rest8>>
    \/ focus = "fixlistings" /\ Sync(SyncListings)!Next /\ UNCHANGED <<vars, Rest8>>
    \/ focus = "copies" /\ Cached(KeptCopies)!Next /\ UNCHANGED <<vars, Rest8>>
    \/ focus = "listed" /\ Cached(KeptLists)!Next /\ UNCHANGED <<vars, Rest8>>
    \/ focus = "asked" /\ Cached(KeptCalls)!Next /\ UNCHANGED <<vars, Rest8>>
    \/ focus = "tennis" /\ Tour(OneTour)!Next /\ UNCHANGED <<vars, Rest14>>
    \/ focus = "tours" /\ Tour(TwoTours)!Next /\ UNCHANGED <<vars, Rest14>>
    \/ focus = "tape" /\ Tape!Next /\ UNCHANGED <<vars, Rest5>>
    \/ focus = "plays" /\ Plays!Next /\ UNCHANGED <<vars, Rest11>>
    \/ focus = "claims" /\ Swept(Claims)!Next /\ UNCHANGED <<vars, Rest12>>
    \/ focus = "walk" /\ Swept(RegionWalk)!Next /\ UNCHANGED <<vars, Rest12>>
    \/ focus = "boot" /\ Swept(ManyBoots)!Next /\ UNCHANGED <<vars, Rest12>>
    \/ focus = "brands" /\ Brands!Next /\ UNCHANGED <<vars, Rest12>>
    \/ focus = "picks" /\ Picks!Next /\ UNCHANGED <<vars, Rest13>>

all == <<focus, vars, x1, x2, x3, x4, x5, x6, x7, x8, x9, x10, x11, x12, x13, x14, x15>>

FeedsSpec == FeedsInit /\ [][FeedsNext]_all

----------------------------------------------------------------------------
(* The properties of the modules, each while its module is the one that moves. *)

\* Every variable of every module has its type.
FeedsTypeOK ==
    CASE focus = "fanout" -> TypeOK
      [] focus = "lists" -> Imported!TypeOK
      [] focus = "named" -> NamedFor!TypeOK
      [] focus = "tonight" -> Matched(Tonight)!TypeOK
      [] focus = "anytitle" -> Matched(AnyTitle)!TypeOK
      [] focus = "sharing" -> Shared!TypeOK
      [] focus = "pass" -> Pass(OneCall)!TypeOK
      [] focus = "passes" -> Pass(TwoCalls)!TypeOK
      [] focus = "fixlines" -> Sync(SyncLines)!TypeOK
      [] focus = "fixstates" -> Sync(SyncStates)!TypeOK
      [] focus = "fixlistings" -> Sync(SyncListings)!TypeOK
      [] focus = "copies" -> Cached(KeptCopies)!TypeOK
      [] focus = "listed" -> Cached(KeptLists)!TypeOK
      [] focus = "asked" -> Cached(KeptCalls)!TypeOK
      [] focus = "tennis" -> Tour(OneTour)!TypeOK
      [] focus = "tours" -> Tour(TwoTours)!TypeOK
      [] focus = "tape" -> Tape!TypeOK
      [] focus = "plays" -> Plays!TypeOK
      [] focus = "claims" -> Swept(Claims)!TypeOK
      [] focus = "walk" -> Swept(RegionWalk)!TypeOK
      [] focus = "boot" -> Swept(ManyBoots)!TypeOK
      [] focus = "brands" -> Brands!TypeOK
      [] focus = "picks" -> Picks!TypeOK

\* Playlists: hash and address are those of the channels, and an import touches no other list.
\* Broadcasters and ChannelMatch: what carries a game is asked for, and found on every line;
\* its siblings are not. Watch: what a page offers is what it names, then of every country.
ListsHoldStep ==
    /\ (focus = "picks" => Picks!PicksHold')
    /\ (focus = "lists" => Imported!ListsHoldStep)
    /\ (focus = "named" => NamedFor!BroadcastersHold')
    /\ (focus = "tonight" => Matched(Tonight)!MatchesHold')
    /\ (focus = "anytitle" => Matched(AnyTitle)!MatchesHold')
ListsHold == [][ListsHoldStep]_all

\* Sharing: a form opens one line, and none that came with a pass. LivePass: one line and one
\* managed list, beside the reader's own.
LinesHoldStep ==
    /\ (focus = "sharing" => Shared!OpenedAsAskedStep)
    /\ (focus = "pass" => Pass(OneCall)!PassBesideTheirsStep)
    /\ (focus = "passes" => Pass(TwoCalls)!PassBesideTheirsStep)
LinesHold == [][LinesHoldStep]_all

\* TennisFeed: the day's allowance holds over deploys, and what is held beats nothing and what
\* is older. Fixtures: neither a later answer nor a fallback takes a listing or a line away,
\* and the archive tells how the line moved. Schedule: a kept page is nobody's, calls live what
\* was, and agrees with itself.
FixturesHoldStep ==
    /\ (focus = "tennis" => Tour(OneTour)!TennisHoldsStep)
    /\ (focus = "tours" => Tour(TwoTours)!TennisHoldsStep)
    /\ (focus = "fixlines" => Sync(SyncLines)!FixturesHoldStep)
    /\ (focus = "fixstates" => Sync(SyncStates)!FixturesHoldStep)
    /\ (focus = "fixlistings" => Sync(SyncListings)!FixturesHoldStep)
    /\ (focus = "copies" => Cached(KeptCopies)!SchedulesHold')
    /\ (focus = "listed" => Cached(KeptLists)!SchedulesHold')
    /\ (focus = "asked" => Cached(KeptCalls)!SchedulesHold')
FixturesHold == [][FixturesHoldStep]_all

\* Catalogue: a boot that needs a sweep has one waiting, a claimed sport is its owner's, and
\* the walk for regions reaches everyone. BrandCatalog: no row of a pass is in another's way,
\* and what is fresh is whole.
CatalogueHoldsStep ==
    /\ (focus = "brands" => Brands!BrandHoldsStep)
    /\ (focus = "claims" => Swept(Claims)!CatalogueHoldsStep)
    /\ (focus = "walk" => Swept(RegionWalk)!CatalogueHoldsStep)
    /\ (focus = "boot" => Swept(ManyBoots)!CatalogueHoldsStep)
CatalogueHolds == [][CatalogueHoldsStep]_all

\* PlayLog: what is closed or kept of a game was read after its end. TapeLog: a line of a
\* match's log says what happened.
EndIsReadStep ==
    /\ (focus = "plays" => Plays!EndIsRead')
    /\ (focus = "tape" => Tape!LogIsTrueStep)
EndIsRead == [][EndIsReadStep]_all
=============================================================================
