---------------------------- MODULE ChannelMatch ----------------------------
(***************************************************************************)
(* Which of a reader's channels carries a fixture.  The rows of all of the  *)
(* reader's lines are narrowed by words, without those that a probe found   *)
(* dead of late, ranked in tiers against the fixture, and shown, so many of *)
(* each line; the rows on the page are probed one by one and the answers    *)
(* are kept.  A name is a sequence of normalised words.                     *)
(***************************************************************************)
EXTENDS Integers, Sequences, FiniteSets

CONSTANTS Fixtures,     \* [home, away, name, league, abbr, sport]
          Lists,        \* the lists a reader may have: sequences of titles
          Lines, LineOf,   \* the lines, in the reader's order; that of the n-th channel
          Tags,         \* <<tag, sport>>: the abbreviations of the leagues there are
          Fresh, Hidden, MarkerTtl,   \* for how long a yes, a no, and the tags are trusted
          Share, Window, PerLine,     \* rows of a line, of a query; rows of a line on a page
          MaxTime       \* bound

VARIABLES fixture, titles,   \* what is asked for; the reader's channels
          verdict,           \* user_playlist_channels.is_live, checked_at
          time, markers,     \* markerCache
          page,              \* the matches on the page, the channels of the series, and which are marked as checked
          told               \* ghost: the last answer of a provider about a channel
vars == <<fixture, titles, verdict, time, markers, page, told>>

Ids == 1..Len(titles)
Unasked == [is |-> "none", at |-> 0]
Blank == [matches |-> <<>>, series |-> <<>>, verified |-> {}, at |-> 0]

TypeOK ==
    /\ fixture \in Fixtures /\ titles \in Lists /\ time \in 1..MaxTime
    /\ \A i \in Ids : verdict[i].is \in {"none", "yes", "no", "unknown"} /\ verdict[i].at \in 0..MaxTime
    /\ markers.at \in 0..MaxTime /\ page.verified \subseteq Ids

----------------------------------------------------------------------------
\* Words, of each of the lists in the source those that there are here.
Image(s) == {s[i] : i \in 1..Len(s)}
Stop == {"hd", "live", "event", "final", "match", "grand", "prix"}
Countries == {"english"}
GenericLeague == {"league", "premier", "major", "baseball", "football", "open"}
SportWords == {"baseball", "football", "soccer"}
Discriminators == {"city", "united", "women"}
AsSport(w) == IF w = "soccer" THEN "football" ELSE w
Letters(name) == LET n[i \in 0..Len(name)] == IF i = 0 THEN 0 ELSE n[i - 1] + Len(name[i]) + (IF i = 1 THEN 0 ELSE 1) IN n[Len(name)]
Tokens(name) == {w \in Image(name) : Len(w) >= 3 /\ w \notin Stop}
Phrase(words, name) == \E i \in 0..(Len(words) - Len(name)) : SubSeq(words, i + 1, i + Len(name)) = name
HasWhole(words, name) == Letters(name) >= 4 /\ Phrase(words, name)

LeagueWords(f) == {w \in Tokens(f.league) \cup Image(f.abbr) : w \notin GenericLeague /\ w \notin Countries}
Phrases(f) == {SubSeq(f.league, i, j) : i \in 1..Len(f.league), j \in 1..Len(f.league)} \ ({<<>>} \cup {<<w>> : w \in Image(f.league)})

ClashesOnSport(f, words) ==
    LET named == {AsSport(w) : w \in Image(words) \cap SportWords}
        ours == {AsSport(w) : w \in Image(f.league) \cap SportWords} \cup {f.sport}
    IN  named # {} /\ named \cap ours = {}
NamesForeign(f, words, tags) ==
    LET ours == LeagueWords(f) \cup Image(f.abbr) IN
    /\ \E t \in tags : t[2] # f.sport /\ t[1] \in Image(words)
    /\ ours \cap Image(words) = {} /\ \A p \in Phrases(f) : ~Phrase(words, p)

\* A part of the name was found, and the title names another of its family.
BugContradicts(words, name, found) == FALSE
Contradicts(words, name, found) ==
    found # Tokens(name) /\ \E w \in Image(words) \cap Discriminators : w \notin Tokens(name)

IsPlaceholder(t) == t.blank
DatedElsewhere(t) == t.dated

\* rankChannelsForFixture of one title: its tier and score.
None == [tier |-> 0, score |-> 0]
Sided(f) == f.home # <<>> /\ f.away # <<>>
Ranked(f, t, tags) ==
    LET h == Tokens(f.home) \cap Image(t.words)
        a == Tokens(f.away) \cap Image(t.words)
        e == Tokens(f.name) \cap Image(t.words)
        ours == ~ClashesOnSport(f, t.words) /\ ~NamesForeign(f, t.words, tags)
    IN  IF DatedElsewhere(t) \/ t.lang = "other" THEN None
        ELSE IF Sided(f) /\ HasWhole(t.words, f.home) /\ HasWhole(t.words, f.away)
        THEN [tier |-> 3, score |-> 100]
        ELSE IF /\ Sided(f) /\ h \ a # {} /\ a \ h # {} /\ ours
                /\ ~Contradicts(t.words, f.home, h) /\ ~Contradicts(t.words, f.away, a)
        THEN [tier |-> 2, score |-> Cardinality(h) + Cardinality(a)]
        ELSE IF ~Sided(f) /\ e # {} THEN [tier |-> 3, score |-> 50 + Cardinality(e)]
        ELSE IF /\ ~IsPlaceholder(t) /\ ~ClashesOnSport(f, t.words)
                /\ (LeagueWords(f) \cap Image(t.words) # {} \/ \E p \in Phrases(f) : Phrase(t.words, p))
        THEN [tier |-> 1, score |-> 1]
        ELSE None

----------------------------------------------------------------------------
\* matchTerms, and the rows that hold one of them and are not known to be dead: the
\* first of each line, and so many of them all.
Terms(f) == {<<w>> : w \in Tokens(f.home) \cup Tokens(f.away) \cup Tokens(f.name) \cup LeagueWords(f)} \cup Phrases(f)
Alive(i) == verdict[i].is # "no" \/ time - verdict[i].at > Hidden
Matching == LET terms == Terms(fixture) IN {i \in Ids : Alive(i) /\ \E term \in terms : Phrase(titles[i].words, term)}
BeforeIn(i, j) == LineOf[i] < LineOf[j] \/ (LineOf[i] = LineOf[j] /\ i < j)
First(some, n) == {i \in some : Cardinality({j \in some : BeforeIn(j, i)}) < n}
BugShared == First(Matching, Window)
Shared == LET all == Matching
              mine == UNION {First({i \in all : LineOf[i] = l}, Share) : l \in Lines}
          IN  First(mine, Window)

\* The surest first, then the plainest, then as they came.
Plain(i) == Letters(titles[i].words)
Ranks(tags) == [i \in Ids |-> Ranked(fixture, titles[i], tags)]
Better(i, j, r) ==
    IF r[i].tier # r[j].tier THEN r[i].tier > r[j].tier
    ELSE IF r[i].score # r[j].score THEN r[i].score > r[j].score
    ELSE IF Plain(i) # Plain(j) THEN Plain(i) < Plain(j)
    ELSE BeforeIn(i, j)
InOrder(some, r) == [n \in 1..Cardinality(some) |-> CHOOSE i \in some : Cardinality({j \in some : Better(j, i, r)}) = n - 1]
BugPerLine(s) == SubSeq(s, 1, IF Len(s) < PerLine THEN Len(s) ELSE PerLine)
KeptPerLine(s) ==
    LET keep[i \in 0..Len(s)] == IF i = 0 THEN <<>>
            ELSE IF Cardinality({j \in 1..(i - 1) : LineOf[s[j]] = LineOf[s[i]]}) < PerLine
            THEN Append(keep[i - 1], s[i]) ELSE keep[i - 1]
    IN  keep[Len(s)]

\* foreignMarkersFor: empty on failure, and kept like an answer.
Stale == markers.at = 0 \/ time - markers.at > MarkerTtl
Asked(ok) == IF Stale THEN [at |-> time, tags |-> IF ok THEN Tags ELSE {}] ELSE markers
Open(ok) ==
    \E r \in {Ranks(Asked(ok).tags)}, rows \in {Shared} :
        LET shown(tiers) == KeptPerLine(InOrder({i \in rows : r[i].tier \in tiers}, r)) IN
        /\ markers' = Asked(ok)
        /\ page' = [matches |-> shown({2, 3}), series |-> shown({1}), at |-> time,
                    verified |-> {i \in rows : r[i].tier # 0 /\ verdict[i].is = "yes" /\ time - verdict[i].at < Fresh}]
        /\ UNCHANGED <<fixture, titles, verdict, time, told>>

\* A row of the page is probed, by its id.  What proved nothing is not a no.
Answers == {"yes", "no", "silence"}
BugVerdictToStore(answer) == IF answer = "yes" THEN "yes" ELSE "no"
VerdictToStore(answer) == IF answer = "silence" THEN "unknown" ELSE answer
Check(i, answer) ==
    /\ i \in Image(page.matches) \cup Image(page.series) /\ i \notin page.verified
    /\ verdict' = [verdict EXCEPT ![i] = [is |-> VerdictToStore(answer), at |-> time]]
    /\ told' = [told EXCEPT ![i] = [is |-> answer, at |-> time]]
    /\ UNCHANGED <<fixture, titles, time, markers, page>>

Pass == time < MaxTime /\ time' = time + 1 /\ UNCHANGED <<fixture, titles, verdict, markers, page, told>>

Init == /\ fixture \in Fixtures /\ titles \in Lists /\ time = 1
        /\ verdict = [i \in Ids |-> Unasked] /\ told = verdict
        /\ markers = [at |-> 0, tags |-> {}] /\ page = Blank
Next == \/ Pass \/ \E ok \in BOOLEAN : Open(ok)
        \/ \E i \in Ids, answer \in Answers : Check(i, answer)
Spec == Init /\ [][Next]_vars

----------------------------------------------------------------------------
\* Each line gets to speak, if two have something to say: one that has a match among
\* the first rows the words find in it is on the page.
LinesSpeak ==
    page.at = time =>
    LET r == Ranks(Tags)
        all == Matching
    IN  \A l \in Lines :
        (/\ Cardinality({LineOf[i] : i \in all}) <= 2
         /\ \E i \in all : /\ LineOf[i] = l /\ r[i].tier >= 2
                                /\ Cardinality({j \in Ids : LineOf[j] = l /\ j < i}) < Share
                                /\ told[i].is # "no")
        => \E i \in Image(page.matches) : LineOf[i] = l

\* A channel that is left off the page for its verdict was told dead, by an answer
\* that proved it, within the half hour: silence hides nothing.
HiddenIsDead ==
    \A i \in Ids : ~Alive(i) => told[i].is = "no" /\ time - told[i].at <= Hidden

\* (The titles stay: these three are asked before the first page.)
\* One title is not offered for two fixtures of one family because of the words they
\* share: it says the distinguishing word of both teams, or of neither.
FamilyKeptApart ==
    page.at = 0 => \A i \in Ids, f, g \in Fixtures :
        (/\ Sided(f) /\ Sided(g) /\ f.away = g.away /\ f.home # g.home
         /\ Ranked(f, titles[i], Tags).tier = 2 /\ Ranked(g, titles[i], Tags).tier >= 2)
        => LET own(h, k) == (Tokens(h.home) \ Tokens(k.home)) \cap Image(titles[i].words) IN
           own(f, g) # {} <=> own(g, f) # {}

\* What the words a title shares with every other say, they say of no fixture, and
\* which side plays at home is no matter.
Swapped(f) == [f EXCEPT !.home = f.away, !.away = f.home]
FurnitureIsNothing ==
    page.at = 0 => \A i \in Ids, f \in Fixtures, w \in Stop :
        LET t == titles[i] IN
        /\ Ranked(f, [t EXCEPT !.words = Append(@, w)], Tags).tier = Ranked(f, t, Tags).tier
        /\ Ranked(Swapped(f), t, Tags).tier = Ranked(f, t, Tags).tier

\* A word the ranker would match was asked for: what it would offer, the query finds.
RankedIsAsked ==
    page.at = 0 =>
    LET r == Ranks(Tags)
        found == Matching
    IN  \A i \in Ids : r[i].tier >= 1 /\ Alive(i) => i \in found

MatchesHold == LinesSpeak /\ HiddenIsDead /\ FamilyKeptApart /\ FurnitureIsNothing /\ RankedIsAsked

\* Not so: "this only guarantees each line gets to speak" (three lines share the window of two).
EachLineSpeaks ==
    LET r == Ranks(Tags) IN
    page.at = time => \A i \in Matching :
        Cardinality({j \in Ids : LineOf[j] = LineOf[i] /\ j < i}) < Share /\ r[i].tier >= 2
            => \E j \in Image(page.matches) : LineOf[j] = LineOf[i]
\* Not so: another league's game, tagged as one, is not offered (a failure is kept as the empty list).
TaggedIsNotOurs ==
    \A i \in Image(page.matches) : ~NamesForeign(fixture, titles[i].words, Tags) \/ Ranked(fixture, titles[i], Tags).tier = 3
=============================================================================
