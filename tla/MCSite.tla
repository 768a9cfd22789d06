------------------------------- MODULE MCSite -------------------------------
(***************************************************************************)
(* The safety of the site's smaller parts, each on a small instance.  No   *)
(* two of these modules share a variable, so what the site does, seen      *)
(* through one of them, is a behaviour of that module, and a behaviour     *)
(* here is one of one module: focus says which.  x1, x2, ... hold its      *)
(* variables in the order of its INSTANCE below, and are 0 beyond them.    *)
(***************************************************************************)
EXTENDS Naturals, FiniteSets

CONSTANTS c1, c2, c3, f1, f2, h1, h2, h3, i1, i2, t1, t2, reader, web, worker, NoOne   \* model values

VARIABLES focus, x1, x2, x3, x4, x5, x6, x7, x8, x9, x10, x11, x12, x13, x14, x15

(* The instances that AccountProofs and KeepingProofs are about take their parameters from here. *)
CONSTANTS
    Handlers, Links, Newcomers, Member, Inviters, Host, LinkForms, MaxUses, MaxRequests, SignInFaults, \* SignIn
    Requests, Subs, Readers, Fresh, MaxInputs, CoinpayFaults,             \* CoinpayIdentity
    Clerks, Redeemers, CodeIds, CodeUses, CodeAsks, CodeFaults,           \* Codes: codes
    Enrolled, Arriving, InviteIds, Quota, InviteAsks, InviteFaults,       \* Codes: invites
    Callers, ConnectForms, MaxLogins, MaxGens, MaxJars, RadioEvents,      \* RadioSession
    Listening, Listeners, ListenerOf, LineOwners, TuneTtl, RelayTime, RelayAsks, RelayChanges, \* RadioRelay
    VaultWrites, VaultEvents,                                             \* Vault
    Watchers, Directories, Upstream, Answers, Passing, MaxHops, ListTtl, WatchTime, DirectoryMoves, MaxWants, \* Watch
    TV, Radio, MaxRow, PageInputs, MaxVisits,                             \* PagePlayer
    LoneTabs, LoneChecks, LoneEndpoints, BothTabs, BothChecks, BothEndpoints, PushFaults, \* PushToggle, twice
    Talk, Circle, Remarks, Tied,                                          \* Social: records of its parameters
    Buttons, Receipts, Lapsed,                                            \* Following: the same
    Doors, Typed, DoorFailures, DoorWindow, DoorTime, DoorAsks, DoorChanges, \* PasswordDoor
    Senders, Guests, Strangers, DailyLimit, PerForm, MailForms, MailFaults, \* InviteMail
    Knockers, FreeAttempts, BaseLock, MaxLock, Decay, MaxTracked, ThrottleTime, Knocks, \* AuthThrottle
    Askers, Sources, Weights, Lifetimes, MaxHeld, CacheTime, CacheAsks    \* UpstreamCache

\* NoOne stands for a column that is null: no id, token or address is that.
ASSUME SignInAssumption ==
    /\ NoOne \notin Links \cup Newcomers \cup {Member} /\ Member \notin Newcomers /\ Host \in Inviters
    /\ IsFiniteSet(Links) /\ LinkForms \subseteq [scarce : BOOLEAN, profile : BOOLEAN]
    /\ MaxRequests \in Nat /\ SignInFaults \in Nat
ASSUME CoinpayAssumption ==
    /\ NoOne \notin Subs \cup Readers \cup Fresh /\ Readers \cap Fresh = {}
    /\ MaxInputs \in Nat /\ CoinpayFaults \in Nat
ASSUME CodesAssumption ==
    /\ NoOne \notin Clerks \cup Redeemers \cup CodeIds \cup Enrolled \cup InviteIds \cup {"live", "premium"}
    /\ IsFiniteSet(InviteIds) /\ CodeUses \in Nat /\ CodeAsks \in Nat /\ CodeFaults \in Nat
    /\ Quota \in Nat /\ InviteAsks \in Nat /\ InviteFaults \in Nat
ASSUME RadioAssumption ==
    /\ IsFiniteSet(Callers) /\ "none" \notin Callers
    /\ MaxLogins \in Nat \ {0} /\ MaxGens \in Nat /\ MaxJars \in Nat /\ RadioEvents \in Nat
ASSUME VaultAssumption == VaultWrites \in Nat /\ VaultEvents \in Nat

ASSUME RelayAssumption ==
    /\ NoOne \notin LineOwners /\ ListenerOf \in [Listening -> Listeners]
    /\ TuneTtl \in Nat /\ RelayTime \in Nat /\ RelayAsks \in Nat /\ RelayChanges \in Nat

\* The provider's addresses are all there: those the directory lists, those that move on, and
\* those of a playlist's lines, whose tags are the ones HLS gives an address.  A lookup of each
\* of their hosts answers something, be it nothing.
ASSUME WatchAssumption ==
    /\ \A l \in Directories : \A id \in DOMAIN l : l[id] \in DOMAIN Upstream
    /\ \A a \in DOMAIN Upstream : a[1] \in DOMAIN Answers
    /\ \A a \in DOMAIN Upstream : LET it == Upstream[a] IN
          \/ it.kind \in {"bytes", "error", "silent"}
          \/ it.kind = "moved" /\ it.to \in DOMAIN Upstream
          \/ /\ it.kind = "playlist"
             /\ \A line \in it.lines :
                   /\ line.tag \in {"", "KEY", "MAP", "MEDIA", "I-FRAME-STREAM-INF", "PART", "PRELOAD-HINT",
                                    "RENDITION-REPORT"}
                   /\ <<IF line.host = NoOne THEN a[1] ELSE line.host, line.path>> \in DOMAIN Upstream
    /\ MaxHops \in Nat /\ ListTtl \in Nat /\ WatchTime \in Nat /\ DirectoryMoves \in Nat /\ MaxWants \in Nat
ASSUME PageAssumption == MaxRow \in Nat /\ PageInputs \in Nat /\ MaxVisits \in Nat
ASSUME PushAssumption == LoneEndpoints \in Nat /\ BothEndpoints \in Nat /\ PushFaults \in Nat
ASSUME PeopleAssumption ==
    \A g \in {Talk, Circle, Remarks, Tied} :
        /\ IsFiniteSet(g.people) /\ IsFiniteSet(g.handlers) /\ g.ties \subseteq g.people \X g.people
        /\ g.limit \in Nat \ {0} /\ g.page \in Nat /\ g.texts \in Nat /\ g.asks \in Nat /\ g.age \in Nat
\* No tab is the 0 of those that are gone.
ASSUME FollowAssumption ==
    \A g \in {Buttons, Receipts, Lapsed} :
        /\ IsFiniteSet(g.subjects) /\ g.leagues \subseteq g.subjects /\ 0 \notin g.tabs
        /\ g.forms \subseteq {"follow-all", "unfollow-all", "unfollow-everything"}
        /\ g.presses \in Nat /\ g.moves \in Nat /\ g.faults \in Nat
ASSUME DoorAssumption ==
    /\ IsFiniteSet(Doors) /\ NoOne \notin Typed /\ DoorFailures \in Nat \ {0} /\ DoorWindow \in Nat \ {0}
    /\ DoorTime \in Nat /\ DoorAsks \in Nat /\ DoorChanges \in Nat
ASSUME MailAssumption ==
    /\ IsFiniteSet(Senders) /\ NoOne \notin Guests
    /\ DailyLimit \in Nat /\ PerForm \in Nat /\ MailForms \in Nat /\ MailFaults \in Nat
ASSUME ThrottleAssumption ==
    /\ IsFiniteSet(Knockers) /\ FreeAttempts \in Nat /\ BaseLock \in Nat /\ MaxLock \in Nat /\ Decay \in Nat
    /\ MaxTracked \in Nat /\ ThrottleTime \in Nat /\ Knocks \in Nat
ASSUME CacheAssumption ==
    /\ NoOne \notin Sources /\ Weights \in [Sources -> Nat] /\ Lifetimes \in [Sources -> Nat]
    /\ MaxHeld \in Nat /\ CacheTime \in Nat /\ CacheAsks \in Nat

MCListenerOf == [t \in Listening |-> IF t = c1 THEN reader ELSE i1]

(* What is at the addresses of the channels, and the lists the directory may have. *)
Line(tag, host, path) == [tag |-> tag, host |-> host, path |-> path]
MCUpstream ==
    [a \in {<<"a", "live">>, <<"b", "live">>, <<"b", "low">>, <<"b", "seg">>, <<"b", "key">>, <<"a", "dead">>, <<"in", "x">>,
            <<"a", "far">>} |->
     CASE a = <<"a", "live">> -> [kind |-> "moved", to |-> <<"b", "live">>]
       [] a = <<"b", "live">> -> [kind |-> "playlist", lines |-> {Line("", NoOne, "low"), Line("MEDIA", "a", "far")}]
       [] a = <<"b", "low">> -> [kind |-> "playlist", lines |-> {Line("", NoOne, "seg"), Line("KEY", NoOne, "key")}]
       [] a = <<"a", "far">> -> [kind |-> "moved", to |-> <<"in", "x">>]
       [] a \in {<<"b", "seg">>, <<"in", "x">>} -> [kind |-> "bytes"]
       [] a = <<"b", "key">> -> [kind |-> "error"]
       [] a = <<"a", "dead">> -> [kind |-> "silent"]]
(* A host whose answer changes, one whose answer stays, and one with an address that does not pass. *)
MCAnswers == [h \in {"a", "b", "in"} |->
     CASE h = "a" -> {{"p"}, {"q"}, {}}
       [] h = "b" -> {{"p"}}
       [] h = "in" -> {{"p", "q"}}]
MCDirectories ==
    {[c \in {} |-> NoOne], [c \in {"1"} |-> <<"a", "live">>],
     [c \in {"1", "2"} |-> IF c = "1" THEN <<"a", "live">> ELSE <<"a", "dead">>]}

(* Tabs, and callers and handlers of one kind, that are in no other instance. *)
TLC == INSTANCE TLC
Interchangeable == TLC!Permutations({t1, t2})

MCWeights == [k \in Sources |-> 1]
MCLifetimes == [k \in Sources |-> IF k = "seg1" THEN 3 ELSE 1]

MCLinkForms == {[scarce |-> TRUE, profile |-> TRUE], [scarce |-> FALSE, profile |-> FALSE]}

(* Groups of people, and what each is for; and follows, of a button, of receipts, of a lapse. *)
MCTalk == [people |-> {c1, c2}, handlers |-> {h1, h2}, acts |-> {"message", "thread"}, ties |-> {},
           members |-> {c1}, limit |-> 1, page |-> 2, texts |-> 2, asks |-> 3, age |-> 1]
MCCircle == [people |-> {c1, c2, c3}, handlers |-> {h1}, acts |-> {"follow", "block", "profile"},
             ties |-> {<<c1, c2>>, <<c2, c3>>, <<c3, c2>>}, members |-> {}, limit |-> 1, page |-> 2,
             texts |-> 1, asks |-> 2, age |-> 0]
MCRemarks == [people |-> {c1, c2}, handlers |-> {h1}, acts |-> {"comment", "delete"}, ties |-> {},
              members |-> {}, limit |-> 1, page |-> 1, texts |-> 2, asks |-> 4, age |-> 1]
MCTied == [people |-> {c1, c2}, handlers |-> {h1, h2}, acts |-> {"follow", "unfollow", "block", "unblock"},
           ties |-> {<<c1, c2>>, <<c2, c1>>}, members |-> {}, limit |-> 1, page |-> 1, texts |-> 1,
           asks |-> 3, age |-> 0]
MCButtons == [subjects |-> {"l1"}, leagues |-> {"l1"}, tabs |-> {c1, c2}, forms |-> {}, lapses |-> FALSE,
              presses |-> 3, moves |-> 1, faults |-> 1]
MCReceipts == [subjects |-> {"l1", "l2", "t1"}, leagues |-> {"l1", "l2"}, tabs |-> {c1, c2},
               forms |-> {"follow-all", "unfollow-all", "unfollow-everything"}, lapses |-> FALSE,
               presses |-> 2, moves |-> 2, faults |-> 0]
MCLapsed == [subjects |-> {"l1"}, leagues |-> {"l1"}, tabs |-> {c1}, forms |-> {"unfollow-everything"},
             lapses |-> TRUE, presses |-> 3, moves |-> 1, faults |-> 1]

Throttle == INSTANCE AuthThrottle WITH Keys <- Knockers, FreeAttempts <- FreeAttempts, BaseLock <- BaseLock,
        MaxLock <- MaxLock, Decay <- Decay, MaxTracked <- MaxTracked, MaxTime <- ThrottleTime,
        MaxInputs <- Knocks, now <- x1, seen <- x2, entry <- x3, passed <- x4, lock <- x5, inputs <- x6
Signing == INSTANCE SignIn WITH Handlers <- Handlers, Links <- Links, Newcomers <- Newcomers, Member <- Member,
        Inviters <- Inviters, Host <- Host, Forms <- LinkForms, MaxUses <- MaxUses, MaxRequests <- MaxRequests,
        MaxFaults <- SignInFaults, None <- NoOne, link <- x1, accounts <- x2, inCircle <- x3, claim <- x4,
        scarce <- x5, terms <- x6, redeemed <- x7, saved <- x8, handler <- x9, born <- x10, births <- x11,
        requests <- x12, faults <- x13
Coinpay == INSTANCE CoinpayIdentity WITH Requests <- Requests, Subs <- Subs, Readers <- Readers, Fresh <- Fresh,
        MaxInputs <- MaxInputs, MaxFaults <- CoinpayFaults, None <- NoOne, users <- x1, identity <- x2,
        request <- x3, home <- x4, lost <- x5, inputs <- x6, faults <- x7
Door == INSTANCE PasswordDoor WITH Handlers <- Doors, Passwords <- Typed, MaxFailures <- DoorFailures,
        Window <- DoorWindow, MaxTime <- DoorTime, MaxRequests <- DoorAsks, MaxChanges <- DoorChanges,
        None <- NoOne, now <- x1, hash <- x2, log <- x3, handler <- x4, held <- x5, tries <- x6, requests <- x7,
        changes <- x8
Mail == INSTANCE InviteMail WITH Handlers <- Senders, Inviters <- Guests, Strangers <- Strangers,
        DailyLimit <- DailyLimit, PerForm <- PerForm, MaxForms <- MailForms, MaxFaults <- MailFaults,
        None <- NoOne, sends <- x1, handler <- x2, mailed <- x3, together <- x4, forms <- x5, faults <- x6
Coded == INSTANCE Codes WITH Accounts <- Redeemers, Newcomers <- {}, Handlers <- Clerks, CodeIds <- CodeIds,
        InviteIds <- {}, Quota <- 0, MaxUses <- CodeUses, MaxAsks <- CodeAsks, MaxFaults <- CodeFaults,
        None <- NoOne, live <- x1, codes <- x2, invites <- x3, terms <- x4, req <- x5, asks <- x6, faults <- x7
Invited == INSTANCE Codes WITH Accounts <- Enrolled, Newcomers <- Arriving, Handlers <- Clerks, CodeIds <- {},
        InviteIds <- InviteIds, Quota <- Quota, MaxUses <- 0, MaxAsks <- InviteAsks, MaxFaults <- InviteFaults,
        None <- NoOne, live <- x1, codes <- x2, invites <- x3, terms <- x4, req <- x5, asks <- x6, faults <- x7
Among(g) == INSTANCE Social WITH People <- g.people, Handlers <- g.handlers, Acts <- g.acts, Ties <- g.ties,
        Members <- g.members, Limit <- g.limit, Page <- g.page, MaxTexts <- g.texts, MaxAsks <- g.asks,
        MaxAge <- g.age, None <- NoOne, named <- x1, hidden <- x2, follows <- x3, blocks <- x4, messages <- x5,
        comments <- x6, req <- x7, asks <- x8, age <- x9
Follow(g) == INSTANCE Following WITH Subjects <- g.subjects, Leagues <- g.leagues, Tabs <- g.tabs,
        Forms <- g.forms, Lapses <- g.lapses, MaxPresses <- g.presses, MaxMoves <- g.moves,
        MaxFaults <- g.faults, follows <- x1, open <- x2, signed <- x3, tabs <- x4, sent <- x5, presses <- x6,
        moves <- x7, faults <- x8, told <- x9, singly <- x10, clean <- x11
Sealing == INSTANCE Vault WITH Web <- web, Worker <- worker, MaxWrites <- VaultWrites, MaxEvents <- VaultEvents,
        vault <- x1, owners <- x2, key <- x3, held <- x4, writer <- x5, sync <- x6, mig <- x7, late <- x8,
        moved <- x9, writes <- x10, events <- x11
Station == INSTANCE RadioSession WITH Callers <- Callers, Forms <- ConnectForms, MaxLogins <- MaxLogins,
        MaxGens <- MaxGens, MaxJars <- MaxJars, MaxEvents <- RadioEvents, row <- x1, unlocked <- x2,
        bearer <- x3, entry <- x4, load <- x5, jar <- x6, form <- x7, lapsed <- x8, logins <- x9, jars <- x10,
        events <- x11, want <- x12, straddled <- x13, slipped <- x14, forgets <- x15
Relay == INSTANCE RadioRelay WITH Tabs <- Listening, Users <- Listeners, UserOf <- ListenerOf,
        Owners <- LineOwners, TuneTtl <- TuneTtl, MaxTime <- RelayTime, MaxAsks <- RelayAsks,
        MaxChanges <- RelayChanges, None <- NoOne, now <- x1, open <- x2, session <- x3, row <- x4,
        bearer <- x5, tunes <- x6, req <- x7, got <- x8, let <- x9, inFlight <- x10, asks <- x11, changes <- x12
Cache == INSTANCE UpstreamCache WITH Requests <- Askers, Keys <- Sources, Bytes <- Weights, Ttl <- Lifetimes,
        MaxBytes <- MaxHeld, MaxTime <- CacheTime, MaxAsks <- CacheAsks, None <- NoOne, now <- x1, cache <- x2,
        heldBytes <- x3, inFlight <- x4, waiting <- x5, upstream <- x6, drift <- x7, asks <- x8
Watching == INSTANCE Watch WITH Tabs <- Watchers, Lists <- Directories, There <- Upstream,
        Answers <- Answers, Passing <- Passing, MaxHops <- MaxHops, Ttl <- ListTtl, Channels <- {}, Queries <- {},
        Limits <- {},
        Regions <- <<>>, MaxTime <- WatchTime, MaxMoves <- DirectoryMoves, MaxWants <- MaxWants, MaxList <- 0,
        None <- NoOne, now <- x1, directory <- x2, cache <- x3, req <- x4, got <- x5, ended <- x6, hops <- x7,
        upstream <- x8, wants <- x9, list <- x10, query <- x11, limit <- x12, shown <- x13
Page == INSTANCE PagePlayer WITH TV <- TV, Radio <- Radio, MaxRow <- MaxRow, MaxInputs <- PageInputs,
        MaxVisits <- MaxVisits, shown <- x1, token <- x2, nav <- x3, failed <- x4, clicks <- x5, gen <- x6,
        row <- x7, waiting <- x8, bundle <- x9, running <- x10, stop <- x11, sweep <- x12, sweeps <- x13
Switch(T, C, E) == INSTANCE PushToggle WITH Tabs <- T, Checks <- C, MaxEndpoints <- E, MaxFaults <- PushFaults,
        permission <- x1, sub <- x2, made <- x3, stored <- x4, signedIn <- x5, tab <- x6, check <- x7,
        mail <- x8, hung <- x9, slipped <- x10, faults <- x11

(* What is beyond the n-th variable: it is 0, and stays. *)
Zero14 == x15 = 0
Zero13 == x14 = 0 /\ Zero14
Zero12 == x13 = 0 /\ Zero13
Zero11 == x12 = 0 /\ Zero12
Zero10 == x11 = 0 /\ Zero11
Zero9 == x10 = 0 /\ Zero10
Zero8 == x9 = 0 /\ Zero9
Zero7 == x8 = 0 /\ Zero8
Zero6 == x7 = 0 /\ Zero7
Rest14 == <<focus, x15>>
Rest13 == <<x14, Rest14>>
Rest12 == <<x13, Rest13>>
Rest11 == <<x12, Rest12>>
Rest10 == <<x11, Rest11>>
Rest9 == <<x10, Rest10>>
Rest8 == <<x9, Rest9>>
Rest7 == <<x8, Rest8>>
Rest6 == <<x7, Rest7>>
Rest15 == focus
Zero15 == TRUE

SiteInit ==
    \/ focus = "throttle" /\ Throttle!Init /\ Zero6
    \/ focus = "signin" /\ Signing!Init /\ Zero13
    \/ focus = "coinpay" /\ Coinpay!Init /\ Zero7
    \/ focus = "door" /\ Door!Init /\ Zero8
    \/ focus = "mail" /\ Mail!Init /\ Zero6
    \/ focus = "codes" /\ Coded!Init /\ Zero7
    \/ focus = "invites" /\ Invited!Init /\ Zero7
    \/ focus = "talk" /\ Among(Talk)!Init /\ Zero9
    \/ focus = "circle" /\ Among(Circle)!Init /\ Zero9
    \/ focus = "remarks" /\ Among(Remarks)!Init /\ Zero9
    \/ focus = "ties" /\ Among(Tied)!Init /\ Zero9
    \/ focus = "button" /\ Follow(Buttons)!Init /\ Zero11
    \/ focus = "receipts" /\ Follow(Receipts)!Init /\ Zero11
    \/ focus = "lapse" /\ Follow(Lapsed)!Init /\ Zero11
    \/ focus = "vault" /\ Sealing!Init /\ Zero11
    \/ focus = "radio" /\ Station!Init /\ Zero15
    \/ focus = "relay" /\ Relay!Init /\ Zero12
    \/ focus = "cache" /\ Cache!Init /\ Zero8
    \/ focus = "watch" /\ Watching!Init /\ Zero13
    \/ focus = "page" /\ Page!Init /\ Zero13
    \/ focus = "switch" /\ Switch(LoneTabs, LoneChecks, LoneEndpoints)!Init /\ Zero11
    \/ focus = "switches" /\ Switch(BothTabs, BothChecks, BothEndpoints)!Init /\ Zero11

SiteNext ==
    \/ focus = "throttle" /\ Throttle!Next /\ UNCHANGED Rest6
    \/ focus = "signin" /\ Signing!Next /\ UNCHANGED Rest13
    \/ focus = "coinpay" /\ Coinpay!Next /\ UNCHANGED Rest7
    \/ focus = "door" /\ Door!Next /\ UNCHANGED Rest8
    \/ focus = "mail" /\ Mail!Next /\ UNCHANGED Rest6
    \/ focus = "codes" /\ Coded!Next /\ UNCHANGED Rest7
    \/ focus = "invites" /\ Invited!Next /\ UNCHANGED Rest7
    \/ focus = "talk" /\ Among(Talk)!Next /\ UNCHANGED Rest9
    \/ focus = "circle" /\ Among(Circle)!Next /\ UNCHANGED Rest9
    \/ focus = "remarks" /\ Among(Remarks)!Next /\ UNCHANGED Rest9
    \/ focus = "ties" /\ Among(Tied)!Next /\ UNCHANGED Rest9
    \/ focus = "button" /\ Follow(Buttons)!Next /\ UNCHANGED Rest11
    \/ focus = "receipts" /\ Follow(Receipts)!Next /\ UNCHANGED Rest11
    \/ focus = "lapse" /\ Follow(Lapsed)!Next /\ UNCHANGED Rest11
    \/ focus = "vault" /\ Sealing!Next /\ UNCHANGED Rest11
    \/ focus = "radio" /\ Station!Next /\ UNCHANGED Rest15
    \/ focus = "relay" /\ Relay!Next /\ UNCHANGED Rest12
    \/ focus = "cache" /\ Cache!Next /\ UNCHANGED Rest8
    \/ focus = "watch" /\ Watching!Next /\ UNCHANGED Rest13
    \/ focus = "page" /\ Page!Next /\ UNCHANGED Rest13
    \/ focus = "switch" /\ Switch(LoneTabs, LoneChecks, LoneEndpoints)!Next /\ UNCHANGED Rest11
    \/ focus = "switches" /\ Switch(BothTabs, BothChecks, BothEndpoints)!Next /\ UNCHANGED Rest11

all == <<focus, x1, x2, x3, x4, x5, x6, x7, x8, x9, x10, x11, x12, x13, x14, x15>>

SiteSpec == SiteInit /\ [][SiteNext]_all

----------------------------------------------------------------------------
(* The properties of the modules, each while its module is the one that moves. *)

\* Every variable of every module has its type.
SiteTypeOK ==
    CASE focus = "throttle" -> Throttle!TypeOK
      [] focus = "signin" -> Signing!TypeOK
      [] focus = "coinpay" -> Coinpay!TypeOK
      [] focus = "door" -> Door!TypeOK
      [] focus = "mail" -> Mail!TypeOK
      [] focus = "codes" -> Coded!TypeOK
      [] focus = "invites" -> Invited!TypeOK
      [] focus = "talk" -> Among(Talk)!TypeOK
      [] focus = "circle" -> Among(Circle)!TypeOK
      [] focus = "remarks" -> Among(Remarks)!TypeOK
      [] focus = "ties" -> Among(Tied)!TypeOK
      [] focus = "button" -> Follow(Buttons)!TypeOK
      [] focus = "receipts" -> Follow(Receipts)!TypeOK
      [] focus = "lapse" -> Follow(Lapsed)!TypeOK
      [] focus = "vault" -> Sealing!TypeOK
      [] focus = "radio" -> Station!TypeOK
      [] focus = "relay" -> Relay!TypeOK
      [] focus = "cache" -> Cache!TypeOK
      [] focus = "watch" -> Watching!TypeOK
      [] focus = "page" -> Page!TypeOK
      [] focus = "switch" -> Switch(LoneTabs, LoneChecks, LoneEndpoints)!TypeOK
      [] focus = "switches" -> Switch(BothTabs, BothChecks, BothEndpoints)!TypeOK

\* AuthThrottle: a lock that was earned lasts, the next is twice as long, and sweeping forgives
\* nobody. InviteMail: mails are bounded for the inviter's day and for the stranger's month.
\* UpstreamCache: nothing is pulled twice at once, and the memory is bounded.
LimitsHoldStep ==
    /\ (focus = "throttle" => Throttle!BackoffHoldsStep)
    /\ (focus = "mail" => Mail!MailIsBounded')
    /\ (focus = "cache" => Cache!SharedOnce')
LimitsHold == [][LimitsHoldStep]_all

\* SignIn: one sign-in for a link, one account for an address, one credit and one bonus for
\* both. CoinpayIdentity: a CoinPay account meets one reader, and no account is out of reach.
\* PasswordDoor: guesses are bounded, and a session is for a password the account had.
AccountsHold == 
    /\ (focus = "signin" => Signing!CountedOnce)
    /\ (focus = "coinpay" => Coinpay!IdentitiesHold)
    /\ (focus = "door" => Door!DoorHolds)

\* Codes: codes and invites are scarce, nothing is spent in vain, and days are given once.
InvitesHoldStep ==
    /\ (focus = "codes" => Coded!CodesHoldStep)
    /\ (focus = "invites" => Invited!CodesHoldStep)
InvitesHold == [][InvitesHoldStep]_all

\* Social: what people do to each other holds for both, and what a page says is there.
\* Following: a button says what is followed, receipts add up, and what is missing is offered.
PeopleHoldStep ==
    /\ (focus = "talk" => Among(Talk)!PeopleHoldStep)
    /\ (focus = "circle" => Among(Circle)!PeopleHoldStep)
    /\ (focus = "ties" => Among(Tied)!PeopleHoldStep)
    /\ (focus = "remarks" => Among(Remarks)!PeopleHoldStep)
    /\ (focus = "button" => Follow(Buttons)!FollowingHolds')
    /\ (focus = "receipts" => Follow(Receipts)!FollowingHolds')
    /\ (focus = "lapse" => Follow(Lapsed)!FollowingHolds')
PeopleHold == [][PeopleHoldStep]_all

\* Vault: the move to the reader's key loses no edit and leaves nothing behind.
MoveIsSafe == [][focus = "vault" => Sealing!MoveIsSafeStep]_all

\* RadioSession: the session in the row and in memory is the one asked for, refreshed once.
\* RadioRelay: a line is asked for on every call, and answers under its owner.
StationHolds == 
    /\ (focus = "radio" => Station!OneSession)
    /\ (focus = "relay" => Relay!RelayHolds)

\* PagePlayer: the newest page is shown, and what plays in it can be stopped. PushToggle: what
\* the browser is subscribed to, the server can send to. Watch: a stream comes back through the
\* site, reached at an address that passes if its host's answer stays, and is never cut.
BrowserHoldsStep ==
    /\ (focus = "watch" => Watching!WatchHoldsStep)
    /\ (focus = "page" => Page!PageHoldsStep)
    /\ (focus = "switch" => Switch(LoneTabs, LoneChecks, LoneEndpoints)!SwitchIsTrueStep)
    /\ (focus = "switches" => Switch(BothTabs, BothChecks, BothEndpoints)!SwitchIsTrueStep)
BrowserHolds == [][BrowserHoldsStep]_all
=============================================================================
