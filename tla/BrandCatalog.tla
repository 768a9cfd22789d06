---------------------------- MODULE BrandCatalog ----------------------------
(***************************************************************************)
(* The brands that are not about sport: syncBrandCatalog asks the enabled   *)
(* adapters one after the other, each reads its provider page by page into  *)
(* collections, names and events, and ingest writes them step by step,      *)
(* giving way where a name's address is taken.                              *)
(***************************************************************************)
EXTENDS Naturals, Sequences, FiniteSets, SequencesExt

CONSTANTS
    Orders,     \* the adapters a brand has enabled, in the order of CATALOG_ADAPTERS
    Remote,     \* what each provider lists, in its order
    Arrivals,   \* stories that nichedb may publish
    Ending,       \* the end of a key, by which slugify tells apart
    HasKey,     \* TMDB_API_KEY is set
    PageSize, Pages, Lookups,
    Interval,   \* minIntervalMinutes
    None,
    MaxTime, MaxFaults, MaxShifts   \* bounds

VARIABLES
    now, order, listed,
    leagues,    \* collections: whose, which, and rosters_synced_at
    teams,      \* names: whose, key, slug
    edges,      \* team_leagues
    events,     \* stories, episodes, releases: with the collection of each
    pass,       \* the adapter whose turn it is, and how far it is
    wrote,      \* history: when all of an adapter's rows were last written
    aborted,    \* history: a statement met a row that was in its way
    faults, shifts

vars == <<now, order, listed, leagues, teams, edges, events, pass, wrote, aborted, faults, shifts>>

Never == 0
Nobody == [genres |-> <<>>, subs |-> <<>>, evs |-> <<>>]
Idle == [i |-> 0, phase |-> "idle", n |-> 0, last |-> None, acc |-> Nobody]
Adapter == order[pass.i]

TypeOK ==
    /\ now \in 0..MaxTime /\ order \in Orders
    /\ pass.i \in 0..Len(order) /\ pass.phase \in {"idle", "turn", "page", "genres", "teams", "edges", "events", "stamp"}
    /\ \A t \in teams : \A u \in teams : t.slug = u.slug => t = u
    /\ aborted \in BOOLEAN

Init ==
    /\ now = 1 /\ order \in Orders /\ listed = Remote
    /\ leagues = {} /\ teams = {} /\ edges = {} /\ events = {}
    /\ pass = Idle /\ wrote = [p \in DOMAIN Remote |-> Never] /\ aborted = FALSE
    /\ faults = 0 /\ shifts = 0

----------------------------------------------------------------------------
\* What an adapter makes of a record.
Genres(acc, tags) == [acc EXCEPT !.genres = @ \o SelectSeq(tags, LAMBDA t : ~Contains(acc.genres, t))]
Event(acc, it, cat) == [acc EXCEPT !.evs = Append(@, [key |-> it.id, subject |-> it.subject, cat |-> cat])]
At(acc, key) == {i \in DOMAIN acc.subs : acc.subs[i].key = key}
Subject(it, slug, tags) == [key |-> it.subject, name |-> it.name, slug |-> slug, genres |-> tags]
Keep(acc, s) == IF At(acc, s.key) # {} THEN acc ELSE [acc EXCEPT !.subs = Append(@, s)]
Latest(acc, s) == [Keep(acc, s) EXCEPT !.subs = [i \in DOMAIN @ |-> IF @[i].key = s.key THEN s ELSE @[i]]]
Gather(acc, s, tag) ==
    [Keep(acc, s) EXCEPT !.subs = [i \in DOMAIN @ |->
        IF @[i].key = s.key /\ ~Contains(@[i].genres, tag) THEN [@[i] EXCEPT !.genres = Append(@, tag)] ELSE @[i]]]
Plain(it) == <<it.name>>
Marked(it) == <<it.name, Ending[it.subject]>>

\* A show with a sports tag is dropped, one with an anime tag is left to AniList; the tags that
\* came before are collections all the same.
TvmazeRow(acc, it) ==
    LET upTo == SelectInSeq(it.tags, LAMBDA t : t = "sports")
        own == SelectSeq(IF upTo = 0 THEN it.tags ELSE SubSeq(it.tags, 1, upTo - 1), LAMBDA t : t # "anime")
    IN  IF ~it.placed THEN acc
        ELSE IF own = <<>> \/ Len(own) < Len(it.tags) THEN Genres(acc, own)
        ELSE Event(Keep(Genres(acc, own), Subject(it, Marked(it), own)), it, "tvmaze")

AnilistRow(acc, it) ==
    IF ~it.placed \/ it.tags = <<>> THEN acc
    ELSE Event(Keep(Genres(acc, it.tags), Subject(it, Marked(it), it.tags)), it, "anilist")

TmdbRow(acc, it) ==
    LET own == SelectSeq(it.tags, LAMBDA t : t # "tv movie") IN
    IF ~it.placed \/ own = <<>> THEN acc
    ELSE Event(Latest(Genres(acc, own), Subject(it, Marked(it), own)), it, "tmdb")

\* The mission's type is the collection, the agency the name: it gathers types.
SpacedevsRow(acc, it) ==
    IF ~it.placed \/ it.tags \in {<<>>, <<"unknown">>} THEN acc
    ELSE IF it.subject = None THEN Genres(acc, it.tags)
    ELSE Event(Gather(Genres(acc, it.tags), Subject(it, Marked(it), <<>>), Head(it.tags)), it, "spacedevs")

\* What an artist plays is asked for after the pages: see Resolved.
MusicbrainzRow(acc, it) ==
    IF ~it.placed \/ it.subject = None THEN acc
    ELSE Event(Keep(acc, Subject(it, Marked(it), it.tags)), it, "musicbrainz")
Resolved(acc) ==
    LET subs == [i \in DOMAIN acc.subs |-> IF i <= Lookups THEN acc.subs[i] ELSE [acc.subs[i] EXCEPT !.genres = <<>>]]
    IN  FoldLeft(LAMBDA a, s : Genres(a, s.genres), [acc EXCEPT !.subs = subs], subs)

Sections == {"world", "us"}
SectionOf(it) ==
    LET raw == IF it.tags = <<>> THEN None ELSE Head(it.tags)
    IN  IF raw \in Sections THEN raw ELSE IF it.from = "newsfeed" THEN "world" ELSE None
\* An outlet has its plain name, unless another of the pass has it.
BugOutletSlug(acc, it) == Plain(it)
OutletSlug(acc, it) ==
    IF \E i \in DOMAIN acc.subs : acc.subs[i].slug = Plain(it) /\ acc.subs[i].key # it.subject
    THEN Marked(it) ELSE Plain(it)
NichedbRow(acc, it) ==
    LET desk == SectionOf(it) IN
    IF ~it.placed \/ desk = None \/ it.subject = None THEN acc
    ELSE Event(Gather(Genres(acc, <<desk>>), Subject(it, OutletSlug(acc, it), <<>>), desk), it, desk)

Row(p, acc, it) ==
    CASE p = "tvmaze" -> TvmazeRow(acc, it) [] p = "anilist" -> AnilistRow(acc, it) [] p = "tmdb" -> TmdbRow(acc, it)
      [] p = "spacedevs" -> SpacedevsRow(acc, it) [] p = "musicbrainz" -> MusicbrainzRow(acc, it)
      [] p = "nichedb" -> NichedbRow(acc, it)
Category(p, tag) == IF p = "nichedb" THEN tag ELSE p

----------------------------------------------------------------------------
\* The world goes on while an adapter reads: ranks shift, stories are published.
Shift(p, i) ==
    /\ shifts < MaxShifts /\ shifts' = shifts + 1
    /\ pass.phase = "page" /\ pass.n > 0 /\ p = Adapter /\ p \notin {"nichedb", "tvmaze"}
    /\ i \in 1..(Len(listed[p]) - 1)
    /\ listed' = [listed EXCEPT ![p][i] = listed[p][i + 1], ![p][i + 1] = listed[p][i]]
    /\ UNCHANGED <<now, order, leagues, teams, edges, events, pass, wrote, aborted, faults>>

Publish(it) ==
    /\ shifts < MaxShifts /\ shifts' = shifts + 1
    /\ "nichedb" \in DOMAIN listed /\ ~Contains(listed["nichedb"], it)
    /\ listed' = [listed EXCEPT !["nichedb"] = <<it>> \o @]
    /\ UNCHANGED <<now, order, leagues, teams, edges, events, pass, wrote, aborted, faults>>

\* A sweep begins, some time after the last.
Walk ==
    /\ pass.i = 0 /\ now < MaxTime
    /\ now' \in (now + 1)..MaxTime
    /\ pass' = [Idle EXCEPT !.i = 1, !.phase = "turn"]
    /\ UNCHANGED <<order, listed, leagues, teams, edges, events, wrote, aborted, faults, shifts>>

Following == IF pass.i < Len(order) THEN [Idle EXCEPT !.i = pass.i + 1, !.phase = "turn"] ELSE Idle

\* A mistaken version: whose pass did the stamping is not asked.
BugFresh(p) == \E l \in leagues : l.at # Never /\ now < l.at + Interval
Fresh(p) == \E l \in leagues : l.p = p /\ l.at # Never /\ now < l.at + Interval

Turn ==
    /\ pass.phase = "turn"
    /\ pass' = IF Fresh(Adapter) \/ (Adapter = "tmdb" /\ ~HasKey) THEN Following ELSE [pass EXCEPT !.phase = "page"]
    /\ UNCHANGED <<now, order, listed, leagues, teams, edges, events, wrote, aborted, faults, shifts>>

Cut(seq, from) == SubSeq(seq, from, IF from + PageSize > Len(seq) THEN Len(seq) ELSE from + PageSize - 1)
\* A page by its number, or of what comes after the last record that was read.
BugBefore(p) == pass.n * PageSize
Before(p) == IF p = "nichedb" THEN SelectInSeq(listed[p], LAMBDA it : it.id = pass.last) ELSE pass.n * PageSize
Page(p) == IF p = "tvmaze" THEN listed[p] ELSE Cut(listed[p], Before(p) + 1)
MorePages(p, page) ==
    /\ p # "tvmaze" /\ pass.n + 1 < Pages
    /\ IF p \in {"nichedb", "musicbrainz"} THEN Len(page) = PageSize ELSE (pass.n + 1) * PageSize < Len(listed[p])

ReadPage ==
    /\ pass.phase = "page"
    /\ \E page \in {Page(Adapter)} :
       \E acc \in {FoldLeft(LAMBDA a, it : Row(Adapter, a, it), pass.acc, page)} :
           pass' = IF page # <<>> /\ MorePages(Adapter, page)
                   THEN [pass EXCEPT !.n = @ + 1, !.last = Last(page).id, !.acc = acc]
                   ELSE [pass EXCEPT !.phase = "genres", !.n = 1, !.last = None,
                                     !.acc = IF Adapter = "musicbrainz" THEN Resolved(acc) ELSE acc]
    /\ UNCHANGED <<now, order, listed, leagues, teams, edges, events, wrote, aborted, faults, shifts>>

----------------------------------------------------------------------------
\* A mistaken version: the clock is set before the events are written.
BugAfter(phase) == CASE phase = "genres" -> "teams" [] phase = "teams" -> "stamp" [] phase = "edges" -> "events" [] phase = "events" -> "stamp"
\* ingest: collections, names, edges, events, and at the end the clock.
After(phase) ==
    CASE phase = "genres" -> "teams" [] phase = "teams" -> "edges" [] phase = "edges" -> "events" [] phase = "events" -> "stamp"
On == [pass EXCEPT !.phase = After(pass.phase), !.n = 1]

Collection ==
    /\ pass.phase = "genres"
    /\ IF pass.n > Len(pass.acc.genres) THEN pass' = On /\ UNCHANGED leagues
       ELSE LET tag == pass.acc.genres[pass.n] IN
            /\ leagues' = IF \E l \in leagues : l.p = Adapter /\ l.tag = tag THEN leagues
                          ELSE leagues \cup {[p |-> Adapter, tag |-> tag, at |-> Never]}
            /\ pass' = [pass EXCEPT !.n = @ + 1]
    /\ UNCHANGED <<now, order, listed, teams, edges, events, wrote, aborted, faults, shifts>>

Placed == SelectSeq(pass.acc.subs, LAMBDA s : s.genres # <<>>)
Held(slug) == {t \in teams : t.slug = slug}
Mine(t, s) == t.p = Adapter /\ t.key = s.key
\* A name that somebody else holds is given up for the one that tells apart.
BugGivesWay(s) == FALSE
GivesWay(s) == \E t \in Held(s.slug) : ~Mine(t, s)
Slug(s) == IF GivesWay(s) THEN <<s.name, Ending[s.key]>> ELSE s.slug

\* A row that is known keeps its slug; a new one is inserted, if nothing has it.
NewRows == {s \in ToSet(Placed) : ~(\E t \in teams : Mine(t, s))}
Clash == \/ \E s \in NewRows : Held(Slug(s)) # {}
         \/ \E r, s \in NewRows : r # s /\ Slug(r) = Slug(s)
Names ==
    /\ pass.phase = "teams"
    /\ IF Clash THEN aborted' = TRUE /\ pass' = Following /\ UNCHANGED teams
       ELSE /\ teams' = teams \cup {[p |-> Adapter, key |-> s.key, slug |-> Slug(s)] : s \in NewRows}
            /\ pass' = On /\ UNCHANGED aborted
    /\ UNCHANGED <<now, order, listed, leagues, edges, events, wrote, faults, shifts>>

Edges ==
    /\ pass.phase = "edges"
    /\ edges' = edges \cup UNION {{<<Adapter, s.key, tag>> : tag \in ToSet(s.genres)} : s \in ToSet(Placed)}
    /\ pass' = On
    /\ UNCHANGED <<now, order, listed, leagues, teams, events, wrote, aborted, faults, shifts>>

SubjectOf(e) == SelectSeq(Placed, LAMBDA s : s.key = e.subject)
BugDesk(s, e) == Head(s.genres)
\* The collection of the event's own category, of those of its subject.
Desk(s, e) ==
    LET own == SelectSeq(s.genres, LAMBDA tag : Category(Adapter, tag) = e.cat)
    IN  IF own = <<>> THEN Head(s.genres) ELSE Head(own)
Rows == LET kept == SelectSeq(pass.acc.evs, LAMBDA e : SubjectOf(e) # <<>>)
        IN  [i \in DOMAIN kept |-> [p |-> Adapter, key |-> kept[i].key, subject |-> kept[i].subject, cat |-> kept[i].cat,
                                    tag |-> Desk(Head(SubjectOf(kept[i])), kept[i])]]
\* The last row of a key is sent; a statement that names a key twice is refused.
BugSent(rows) == DOMAIN rows
Sent(rows) == {i \in DOMAIN rows : \A j \in DOMAIN rows : j > i => rows[j].key # rows[i].key}
EventRows ==
    /\ pass.phase = "events"
    /\ \E rows \in {Rows} :
       IF \E i, j \in Sent(rows) : i # j /\ rows[i].key = rows[j].key
       THEN aborted' = TRUE /\ pass' = Following /\ UNCHANGED <<events, wrote>>
       ELSE LET sent == {rows[i] : i \in Sent(rows)} IN
            \* A row that is known keeps its collection.
            /\ events' = events \cup {r \in sent : ~(\E e \in events : e.p = r.p /\ e.key = r.key)}
            /\ wrote' = [wrote EXCEPT ![Adapter] = now]
            /\ pass' = On /\ UNCHANGED aborted
    /\ UNCHANGED <<now, order, listed, leagues, teams, edges, faults, shifts>>

Stamp ==
    /\ pass.phase = "stamp"
    /\ IF pass.n > Len(pass.acc.genres) THEN pass' = Following /\ UNCHANGED leagues
       ELSE /\ leagues' = {IF l.p = Adapter /\ l.tag = pass.acc.genres[pass.n] THEN [l EXCEPT !.at = now] ELSE l : l \in leagues}
            /\ pass' = [pass EXCEPT !.n = @ + 1]
    /\ UNCHANGED <<now, order, listed, teams, edges, events, wrote, aborted, faults, shifts>>

\* The provider or the database fails: the next adapter has its turn.
Fail ==
    /\ pass.i # 0 /\ pass.phase # "turn"
    /\ faults < MaxFaults /\ faults' = faults + 1
    /\ pass' = Following
    /\ UNCHANGED <<now, order, listed, leagues, teams, edges, events, wrote, aborted, shifts>>

\* The process ends in the middle of a pass.
Crash ==
    /\ pass.i # 0
    /\ faults < MaxFaults /\ faults' = faults + 1
    /\ pass' = Idle
    /\ UNCHANGED <<now, order, listed, leagues, teams, edges, events, wrote, aborted, shifts>>

Next ==
    \/ Walk \/ Turn \/ ReadPage \/ Collection \/ Names \/ Edges \/ EventRows \/ Stamp \/ Fail \/ Crash
    \/ \E p \in DOMAIN Remote : \E i \in 1..Len(listed[p]) : Shift(p, i)
    \/ \E it \in Arrivals : Publish(it)

Spec == Init /\ [][Next]_vars

----------------------------------------------------------------------------
(* Properties                                                               *)

\* "It aborts the entire pass rather than the one row": no statement of a pass meets a row that is
\* in its way, however names, keys and pages repeat, as long as the ends of two keys differ.
NothingInTheWay == ~aborted

\* "The incumbent keeps the readable slug": it is in somebody's bookmarks.
SlugsStayStep == \A t \in teams : t \in teams'

\* "The collection this event actually belongs to": a story is under its own desk, though its
\* publisher has several.
UnderItsDesk == \A e \in events : e.p = "nichedb" => e.tag = e.cat

\* The keyset does not read a story twice, whatever is published meanwhile.
OnceEach ==
    pass.i # 0 /\ Adapter = "nichedb" =>
        \A i, j \in DOMAIN pass.acc.evs : i # j => pass.acc.evs[i].key # pass.acc.evs[j].key

\* "Only a completed pass stamps the clock", and it is its provider's: who is passed over as
\* fresh has written everything within its interval, and what it read of a subject with a
\* collection is all there.
FreshIsWhole ==
    /\ pass.phase = "turn" /\ Fresh(Adapter) => wrote[Adapter] # Never /\ now < wrote[Adapter] + Interval
    /\ pass.phase = "stamp" => \A e \in ToSet(pass.acc.evs) :
           SubjectOf(e) # <<>> => \E x \in events : x.p = Adapter /\ x.key = e.key

BrandHoldsStep == NothingInTheWay' /\ SlugsStayStep /\ UnderItsDesk' /\ OnceEach' /\ FreshIsWhole'
BrandHolds == [][BrandHoldsStep]_vars

\* "An artist with no genres yet still belongs in the catalogue" (musicbrainz.js): the code drops it.
ArtistsKept == pass.phase = "edges" => \A s \in ToSet(pass.acc.subs) : \E t \in teams : Mine(t, s)

\* "The cache is the database" (musicbrainz.js), so every artist is asked about in the end: each
\* pass starts with an empty one, and spends its allowance on the same artists.
AskedInTheEnd == now = MaxTime /\ pass.phase = "edges" => \A s \in ToSet(pass.acc.subs) : s.genres # <<>>

\* "An unrecognised section is dropped rather than bucketed" (nichedb.js): the code files one that
\* a newsroom sent under world.
UnknownIsDropped ==
    \A p \in DOMAIN listed : p = "nichedb" =>
        \A it \in ToSet(listed[p]) : SectionOf(it) # None => it.tags = <<>> \/ SectionOf(it) = Head(it.tags)
=============================================================================
