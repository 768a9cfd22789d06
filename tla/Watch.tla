-------------------------------- MODULE Watch --------------------------------
(***************************************************************************)
(* Public channels played through the site: the directory's list, kept for  *)
(* an hour; a fetch of somebody else's url, judged again at each hop; and   *)
(* playlists, whose urls come back to the site for the next fetch.  A url   *)
(* is a host and a path.  A hop is judged by one lookup of its host and     *)
(* connected to by another, which may answer differently.                   *)
(*                                                                         *)
(* And the channels a page offers beside what it is about: those it names, *)
(* then one of each country before a second of any; and the index of the   *)
(* directory by region and country.  A channel there has an id, a country  *)
(* and the words of its name.                                              *)
(***************************************************************************)
EXTENDS Naturals, Sequences, FiniteSets, SequencesExt, FiniteSetsExt

CONSTANTS
    Tabs,
    Lists,      \* what the directory may list: functions from channel ids to addresses
    There,      \* what is at an address: a playlist, bytes, a move, an error, or nobody answers
    Answers,    \* what a lookup of a host may answer: sets of IP addresses; {}: none, or a name
                \* that is refused unasked
    Passing,     \* IP addresses that isPrivateIp does not call private
    MaxHops, Ttl,
    Channels,   \* what a page may be given to choose from
    Queries,    \* what pages ask for: words, and perhaps a country
    Limits,
    Regions,    \* REGION: country -> region
    None,
    MaxTime, MaxMoves, MaxWants, MaxList   \* bounds

VARIABLES
    now,
    directory,  \* what nichedb lists, and how often it has changed
    cache,      \* channelCache
    req,        \* a tab's request: how far it is, where it has got to
    got,        \* what a tab's player has been told to fetch: <<from whom, address>>
    ended,      \* how the tab's last request ended
    hops,       \* history: the hosts the site connected to, and at which IP address
    upstream,   \* requests whose connection to the provider is open
    wants,
    list, query, limit, shown   \* a page: what there is, what it asks for, what it shows

watchVars == <<now, directory, cache, req, got, ended, hops, upstream, wants>>
pageVars == <<list, query, limit, shown>>
vars == <<watchVars, pageVars>>

Nothing == [c \in {} |-> None]
Idle == [phase |-> "idle", id |-> None, took |-> [at |-> 0, list |-> Nothing], from |-> None, url |-> None, hop |-> 0]

TypeOK ==
    /\ now \in 0..MaxTime /\ directory.list \in Lists /\ cache.list \in Lists \cup {Nothing}
    /\ \A t \in Tabs : req[t].phase \in {"idle", "asks", "lands", "hop", "connects", "reads", "plays"} /\ req[t].hop \in 0..(MaxHops + 1)
    /\ upstream \subseteq Tabs
    /\ list \in BoundedSeq(Channels, MaxList) /\ shown \in Seq(Channels)

Init ==
    /\ list \in {l \in BoundedSeq(Channels, MaxList) : \A i, j \in DOMAIN l : i # j => l[i].id # l[j].id}
    /\ query = None /\ limit = 0 /\ shown = <<>>
    /\ now = 1
    /\ directory \in [list : Lists, at : {0}]
    /\ cache = [at |-> 0, list |-> Nothing, as |-> 0]
    /\ req = [t \in Tabs |-> Idle] /\ got = [t \in Tabs |-> {}] /\ ended = [t \in Tabs |-> None]
    /\ hops = {} /\ upstream = {} /\ wants = 0

Tick == now < MaxTime /\ now' = now + 1 /\ UNCHANGED <<directory, cache, req, got, ended, hops, upstream, wants>>

\* The directory changes.
Move(l) ==
    /\ directory.at < MaxMoves /\ l # directory.list
    /\ directory' = [list |-> l, at |-> directory.at + 1]
    /\ UNCHANGED <<now, cache, req, got, ended, hops, upstream, wants>>

End(t, how) == /\ req' = [req EXCEPT ![t] = Idle]
               /\ ended' = [ended EXCEPT ![t] = how]
               /\ upstream' = upstream \ {t}
Goes(t, address) == req' = [req EXCEPT ![t] = [Idle EXCEPT !.phase = "hop", !.from = address, !.url = address]]

\* The channel, of the list that is held.
Finds(t, id, held) ==
    IF id \in DOMAIN held THEN Goes(t, held[id]) /\ UNCHANGED <<ended, upstream>>
    ELSE End(t, "no such channel")

KeptFresh == now - cache.at < Ttl /\ cache.list # Nothing

\* GET /watch/:id/index.m3u8
Want(t, id) ==
    /\ req[t].phase = "idle" /\ wants < MaxWants /\ wants' = wants + 1
    /\ IF KeptFresh THEN Finds(t, id, cache.list)
       ELSE req' = [req EXCEPT ![t] = [Idle EXCEPT !.phase = "asks", !.id = id]] /\ UNCHANGED <<ended, upstream>>
    /\ got' = [got EXCEPT ![t] = {}]
    /\ UNCHANGED <<now, directory, cache, hops>>

\* nichedb answers, and the answer lands.
Answer(t) ==
    /\ req[t].phase = "asks"
    /\ req' = [req EXCEPT ![t].phase = "lands", ![t].took = [at |-> directory.at, list |-> directory.list]]
    /\ UNCHANGED <<now, directory, cache, got, ended, hops, upstream, wants>>

\* A mistaken version: whatever came is held.
BugHeld(took) == [at |-> now, list |-> took.list, as |-> took.at]
Held(took) == IF took.list # Nothing THEN [at |-> now, list |-> took.list, as |-> took.at] ELSE cache
Land(t) ==
    /\ req[t].phase = "lands"
    /\ cache' = Held(req[t].took)
    /\ Finds(t, req[t].id, cache'.list)
    /\ UNCHANGED <<now, directory, got, hops, wants>>
\* nichedb does not answer: the last good list serves.
Unreached(t) ==
    /\ req[t].phase = "asks"
    /\ Finds(t, req[t].id, cache.list)
    /\ UNCHANGED <<now, directory, cache, got, hops, wants>>

\* GET /watch/seg/:token, for an address of ours.
Fetch(t, address) ==
    /\ req[t].phase = "idle" /\ <<"us", address>> \in got[t]
    /\ wants < MaxWants /\ wants' = wants + 1
    /\ Goes(t, address)
    /\ UNCHANGED <<now, directory, cache, got, ended, hops, upstream>>

\* A mistaken version: only the first url is judged.
BugMayConnect(t, as) == as # {} /\ (req[t].hop > 0 \/ as \subseteq Passing)
\* Every address of the answer must pass: which one is connected to is not ours to decide.
MayConnect(t, as) == as # {} /\ as \subseteq Passing
\* assertPublicUrl: one lookup of the host is awaited, and no timer runs.
Judge(t) ==
    /\ req[t].phase = "hop"
    /\ \E as \in Answers[req[t].url[1]] :
          IF MayConnect(t, as) THEN req' = [req EXCEPT ![t].phase = "connects"] /\ UNCHANGED <<ended, upstream>>
          ELSE End(t, "refused")
    /\ UNCHANGED <<now, directory, cache, got, hops, wants>>

\* fetch looks the host up again, connects to an address of that answer (to one after another
\* until one takes it), and answers or does not; a move is walked by hand.
Arrive(t) ==
    LET it == There[req[t].url] IN
    \/ it.kind = "moved" /\ req[t].hop = MaxHops /\ End(t, "too many redirects")
    \/ /\ it.kind = "moved" /\ req[t].hop < MaxHops
       /\ req' = [req EXCEPT ![t].phase = "hop", ![t].url = it.to, ![t].hop = @ + 1]
       /\ UNCHANGED <<ended, upstream>>
    \/ it.kind = "error" /\ End(t, "provider answered")
    \/ it.kind = "silent" /\ End(t, "timed out")
    \/ /\ it.kind \in {"playlist", "bytes"}
       /\ req' = [req EXCEPT ![t].phase = IF it.kind = "playlist" THEN "reads" ELSE "plays"]
       /\ upstream' = upstream \cup {t} /\ UNCHANGED ended
Connect(t) ==
    /\ req[t].phase = "connects"
    /\ LET host == req[t].url[1] IN
       \/ \E as \in Answers[host] : \E a \in as : hops' = hops \cup {[host |-> host, at |-> a]} /\ Arrive(t)
       \/ {} \in Answers[host] /\ End(t, "could not connect") /\ UNCHANGED hops
    /\ UNCHANGED <<now, directory, cache, got, wants>>

\* The timer runs from the connection until the headers are there.
BugTimed(t) == req[t].phase \in {"connects", "plays"}
Timed(t) == req[t].phase = "connects"
TimeOut(t) == Timed(t) /\ End(t, "timed out") /\ UNCHANGED <<now, directory, cache, got, hops, wants>>

\* A line's address, as the player would have read it at the playlist's own address.
BugBase(t) == req[t].from
Base(t) == req[t].url
Resolve(base, line) == IF line.host = None THEN <<base[1], line.path>> ELSE <<line.host, line.path>>
\* The tags whose address is rewritten; "" is a line that is an address.
BugRewrites == {"", "MAP", "MEDIA", "I-FRAME-STREAM-INF", "PART", "PRELOAD-HINT", "RENDITION-REPORT"}
Rewrites == {"", "KEY", "MAP", "MEDIA", "I-FRAME-STREAM-INF", "PART", "PRELOAD-HINT", "RENDITION-REPORT"}
Rewritten(t, line) ==
    IF line.tag \in Rewrites THEN <<"us", Resolve(Base(t), line)>>
    ELSE <<"them", Resolve(<<"us", "">>, line)>>
Read(t) ==
    /\ req[t].phase = "reads"
    /\ got' = [got EXCEPT ![t] = @ \cup {Rewritten(t, line) : line \in There[req[t].url].lines}]
    /\ End(t, "told")
    /\ UNCHANGED <<now, directory, cache, hops, wants>>

\* A stream ends.
Over(t) == req[t].phase = "plays" /\ End(t, "over") /\ UNCHANGED <<now, directory, cache, got, hops, wants>>

\* The reader leaves: what is being reached is dropped and what plays is closed; while a playlist
\* is read nobody listens any more.
Leave(t) ==
    /\ req[t].phase \in {"hop", "connects", "reads", "plays"} /\ ended[t] # "left"
    /\ IF req[t].phase = "reads" THEN ended' = [ended EXCEPT ![t] = "left"] /\ UNCHANGED <<req, upstream>>
       ELSE End(t, "left")
    /\ UNCHANGED <<now, directory, cache, got, hops, wants>>

----------------------------------------------------------------------------
Generic == {"news", "tv", "the", "channel", "live", "hd", "network"}
Distinctive(words) == SelectSeq(words, LAMBDA w : w \notin Generic)

Countries(l) == {l[i].country : i \in DOMAIN l}
\* The lanes: a country's channels, in their order; countries in the order of their first.
Lane(l, c) == SelectSeq(l, LAMBDA x : x.country = c)
FirstOf(l, c) == Min({i \in DOMAIN l : l[i].country = c})
Lanes(l) == LET cs == SetToSortSeq(Countries(l), LAMBDA a, b : FirstOf(l, a) < FirstOf(l, b))
            IN  [i \in DOMAIN cs |-> Lane(l, cs[i])]
\* A mistaken version: one lane after the other.
BugSpread(l) == FlattenSeq(Lanes(l))
\* Round-robin: the i-th of each lane that has one.
SpreadByCountry(l) ==
    FlattenSeq([i \in 1..Len(l) |->
        LET longer == SelectSeq(Lanes(l), LAMBDA lane : Len(lane) >= i)
        IN  [k \in DOMAIN longer |-> longer[k][i]]])

Named(pool, words) ==
    IF Distinctive(words) = <<>> THEN <<>>
    ELSE SelectSeq(pool, LAMBDA c : ToSet(Distinctive(words)) \subseteq ToSet(c.words))
BugUnseen(s) == s
\* The first of each id.
Unseen(s) == LET first == SelectSeq([i \in DOMAIN s |-> i], LAMBDA i : \A j \in 1..(i - 1) : s[j].id # s[i].id)
             IN  [k \in DOMAIN first |-> s[first[k]]]
Capped(s, n) == IF Len(s) <= n THEN s ELSE SubSeq(s, 1, n)
Pool(l, q) == IF q.country = None THEN l ELSE Lane(l, q.country)
PickChannels(l, q, n) == Capped(Unseen(Named(Pool(l, q), q.words) \o SpreadByCountry(Pool(l, q))), n)

RegionOf(c) == IF c \in DOMAIN Regions THEN Regions[c] ELSE "Elsewhere"
ChannelsFromCountry(l, c) == IF c = None THEN <<>> ELSE Lane(l, c)
\* Every region, and every country in it with a count; who has no country is in none.
BugCountries(l) == {c \in Countries(l) : c \in DOMAIN Regions}
Coded(l) == Countries(l) \ {None}
CountryIndex(l) ==
    {[region |-> r, countries |-> {[code |-> c, count |-> Cardinality({i \in DOMAIN l : l[i].country = c})]
                                    : c \in {x \in Coded(l) : RegionOf(x) = r}}] : r \in {RegionOf(c) : c \in Coded(l)}}

\* A page is drawn.
Draw(q, n) ==
    /\ query = None
    /\ query' = q /\ limit' = n
    /\ \E picks \in {PickChannels(list, q, n)} : shown' = picks
    /\ UNCHANGED <<list, watchVars>>

----------------------------------------------------------------------------
Next ==
    \/ /\ UNCHANGED pageVars
       /\ \/ Tick \/ \E l \in Lists : Move(l)
          \/ \E t \in Tabs :
              \/ \E l \in Lists : \E id \in DOMAIN l : Want(t, id)
              \/ Answer(t) \/ Land(t) \/ Unreached(t) \/ Judge(t) \/ Connect(t) \/ TimeOut(t) \/ Read(t) \/ Over(t) \/ Leave(t)
              \/ \E g \in got[t] : Fetch(t, g[2])
    \/ \E q \in Queries, n \in Limits : Draw(q, n)

Spec == Init /\ [][Next]_vars

----------------------------------------------------------------------------
(* Properties                                                               *)

\* "Missing any of them breaks a real stream": what a player is told to fetch comes back through
\* the site, and is an address the provider has, though the playlist had moved and named it by
\* its path alone.
ComesBack == \A t \in Tabs : \A g \in got[t] : g[1] = "us" /\ g[2] \in DOMAIN There

\* "Re-checks each": whatever way a channel moves, a host is connected to only if some lookup of
\* it answers with addresses that all pass, and one whose answer does not change between the
\* judgement and the connection is reached only at an address that passes.
Steady(host) == \A as, bs \in Answers[host] : as = bs
HopsAreJudged ==
    \A h \in hops : /\ \E as \in Answers[h.host] : as # {} /\ as \subseteq Passing
                    /\ Steady(h.host) => h.at \in Passing

\* "A timeout that survived into playback would cut a live channel off mid-stream."
NeverCutStep == \A t \in Tabs : req[t].phase = "plays" /\ req'[t].phase # "plays" => ended'[t] \in {"over", "left"}

\* "Keep serving the last good list": once there is one, a channel of it is never unknown because
\* nichedb does not answer or lists nothing.
ListKeptStep == cache.list # Nothing => cache'.list # Nothing

WatchHoldsStep == ComesBack' /\ HopsAreJudged' /\ NeverCutStep /\ ListKeptStep
WatchHolds == [][WatchHoldsStep]_vars

\* Of every host, whatever it answers the second time.  The code does not keep this: the judgement
\* is of one lookup, and the connection of another.
OnlyWhatPasses == \A h \in hops : h.at \in Passing
\* "Refuse to be the reason a channel list is fetched on every request" (app.js): once the hour is
\* over and nichedb does not answer, or while two ask, every request asks.
AskedOnce == \A t, u \in Tabs : t # u => ~(req[t].phase = "asks" /\ req[u].phase = "asks")
\* A list that is held is never replaced by an older one.
NewestHeld == [][cache'.as >= cache.as]_vars
\* A reader who has left holds no connection to the provider.
LeaverLetsGo == \A t \in Tabs : ended[t] = "left" => t \notin upstream

\* What a page of channels shows.
Asked == query # None
Matching(c) == /\ query.country \in {None, c.country}
               /\ Distinctive(query.words) # <<>> /\ ToSet(Distinctive(query.words)) \subseteq ToSet(c.words)
Fits(c) == query.country \in {None, c.country}

\* "Named matches first", each once, and nothing else while something fits: the box is as full as
\* the directory allows.
NamedFirst ==
    Asked => /\ Len(shown) = Min({limit, Cardinality({i \in DOMAIN list : Fits(list[i])})})
             /\ \A i, j \in DOMAIN shown : i # j => shown[i].id # shown[j].id
             /\ \A i, j \in DOMAIN shown : i < j /\ Matching(shown[j]) => Matching(shown[i])
             /\ \A i \in DOMAIN list : Matching(list[i]) => Contains(shown, list[i]) \/ \A j \in DOMAIN shown : Matching(shown[j])

\* "One channel per country before a second from the same one."
SpreadFirst ==
    Asked /\ Distinctive(query.words) = <<>> /\ query.country = None =>
        Cardinality(Countries(shown)) = Min({limit, Cardinality(Countries(list))})

\* The index counts what the page of each country shows, and a country is in one region.
IndexIsTrue ==
    \E index \in {CountryIndex(list)} :
        /\ \A r \in index : \A c \in r.countries : c.count = Len(ChannelsFromCountry(list, c.code)) /\ c.count > 0
        /\ \A i \in DOMAIN list : list[i].country # None =>
               Cardinality({r \in index : \E c \in r.countries : c.code = list[i].country}) = 1

PicksHold == NamedFirst /\ SpreadFirst /\ IndexIsTrue
=============================================================================
