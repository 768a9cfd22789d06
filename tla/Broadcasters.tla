---------------------------- MODULE Broadcasters ----------------------------
(***************************************************************************)
(* Which of a reader's channels is the broadcaster that a listing names.    *)
(* A name is a sequence of words and a word a string, both normalised.  A   *)
(* title is the shelf its provider filed it under and the channel's own     *)
(* name.  The rows are narrowed by the words of the listing first, and the  *)
(* survivors are ranked: LITERAL, SPELLED, GUESSED, or 0 for no.            *)
(***************************************************************************)
EXTENDS Integers, Sequences, FiniteSets

CONSTANTS Listings, Titles,   \* names; [shelf, own]
          MaxRows             \* bound: the channels of a list

VARIABLES listing, rows,     \* the broadcaster, the channels of the reader
          asked, offered     \* whether the page was drawn, and with which of them
vars == <<listing, rows, asked, offered>>

TypeOK == /\ listing \in Listings /\ rows \subseteq Titles /\ offered \subseteq rows /\ asked \in BOOLEAN
          /\ Cardinality(rows) <= MaxRows /\ Cardinality(offered) <= 3

----------------------------------------------------------------------------
\* Letters
Chars(w) == [i \in 1..Len(w) |-> SubSeq(w, i, i)]
StartsWith(w, p) == Len(p) <= Len(w) /\ SubSeq(w, 1, Len(p)) = p
EndsWith(w, e) == Len(e) <= Len(w) /\ SubSeq(w, Len(w) - Len(e) + 1, Len(w)) = e
Holds(w, part) == \E i \in 1..(Len(w) - Len(part) + 1) : SubSeq(w, i, i + Len(part) - 1) = part
Digits == {"0", "1", "2", "3", "4", "5", "6", "7", "8", "9"}
IsNumber(w) == \A i \in 1..Len(w) : Chars(w)[i] \in Digits
Image(s) == {s[i] : i \in 1..Len(s)}

\* The words there are, of each of the lists in the source.
Generic == {"tv", "net", "network", "networks", "channel"}
TrailingVariant == {"east", "west", "central", "hd", "uhd"}
ChannelNoise == {"hd", "uhd", "raw"}
FeedVariant == {"east", "west", "central"}
Stop == {"hd", "tv", "sport", "sports", "channel", "network", "main", "event", "match"}
ParkedAs == {"blank", "temp", "test", "tba", "tbd"}
IsCallSign(w) == /\ Len(w) \in 3..6 /\ Chars(w)[1] \in {"k", "w"} /\ \A i \in 1..Len(w) : Chars(w)[i] \notin Digits
IsStationMark(w) == IsCallSign(w) \/ Len(w) <= 2 \/ (IsNumber(w) /\ Len(w) <= 3)
                      \/ \E g \in {"ld", "dt", "cd"} : StartsWith(w, g) /\ IsNumber(SubSeq(w, 3, Len(w)))

\* splitGlued, broadcastWords
SplitGlued(w) == LET tails == {g \in Generic : EndsWith(w, g) /\ Len(w) > Len(g) + 2} IN
    IF tails = {} THEN <<w>>
    ELSE LET g == CHOOSE g \in tails : TRUE IN <<SubSeq(w, 1, Len(w) - Len(g)), g>>
Flat(s) == LET flat[i \in 0..Len(s)] == IF i = 0 THEN <<>> ELSE flat[i - 1] \o SplitGlued(s[i]) IN flat[Len(s)]
Cut(s) == LET ends == {n \in 0..Len(s) : n > 0 /\ \A i \in (n + 1)..Len(s) : s[i] \in TrailingVariant} \cup {Len(s)}
          IN  SubSeq(s, 1, CHOOSE n \in ends : \A m \in ends : n <= m)
BroadcastWords(name) == Cut(Flat(name))

\* The letters of short occur in long in this order: a greedy scan.
Scan(short, long) ==
    LET met[i \in 0..Len(long)] ==
            IF i = 0 THEN 0
            ELSE IF met[i - 1] < Len(short) /\ short[met[i - 1] + 1] = long[i] THEN met[i - 1] + 1 ELSE met[i - 1]
    IN  met[Len(long)] = Len(short)

BugShortensTo(short, long) ==
    /\ short # "" /\ Len(short) < Len(long) /\ Chars(short)[1] = Chars(long)[1]
    /\ IF Len(short) < 3 THEN StartsWith(long, short) ELSE Scan(Chars(short), Chars(long))
ShortensTo(short, long) ==
    /\ short # "" /\ Len(short) < Len(long) /\ Chars(short)[1] = Chars(long)[1]
    /\ ~(Len(short) >= 3 /\ StartsWith(long, short) /\ Len(long) - Len(short) <= 2)
    /\ IF Len(short) < 3 THEN StartsWith(long, short) ELSE Scan(Chars(short), Chars(long))
Stands(chunk, w) == chunk = w \/ ShortensTo(chunk, w)

\* One word for a run of words: as many letters for the first as the others leave.
InitialismOf(w, run) ==
    LET n == Len(run)
        fits[from \in 1..Len(w), k \in 1..n] ==   \* the letters from here on, for the words from the k-th
            IF k = n THEN Stands(SubSeq(w, from, Len(w)), run[n])
            ELSE \E to \in from..(Len(w) - (n - k)) : Stands(SubSeq(w, from, to), run[k]) /\ fits[to + 1, k + 1]
    IN  n \in 1..4 /\ Len(w) >= n /\ fits[1, 1]

FirstLetters(w, run) == Len(w) = Len(run) /\ \A i \in 1..Len(w) : Chars(w)[i] = Chars(run[i])[1]
GUESSED == 1
SPELLED == 2
LITERAL == 3
BestOf(ranks) == CHOOSE r \in ranks \cup {0} : \A s \in ranks \cup {0} : s <= r

\* Word for word; the last of the listing may stand for what is left of the name.
Aligns(listed, own) ==
    LET n == Len(listed)
        rest == SubSeq(own, n, Len(own))
    IN  IF \/ n > Len(own) \/ n = 0
           \/ \E i \in 1..(n - 1) : ~Stands(listed[i], own[i])
           \/ n = 1 /\ Len(rest) > 1 /\ (Len(listed[1]) < 3 \/ rest[1] = listed[1])
           \/ ~InitialismOf(listed[n], rest)
        THEN 0
        ELSE IF Len(rest) = 1 \/ FirstLetters(listed[n], rest) THEN SPELLED ELSE GUESSED

\* A digit between letters reads as a letter or as a number word.
Read(d) == CASE d = "0" -> {"o"} [] d = "1" -> {"i", "one"} [] d = "3" -> {"e", "three"}
             [] d = "4" -> {"a", "four"} [] d = "5" -> {"s", "five"} [] OTHER -> {d}
LetterForms(w) ==
    {w} \cup UNION {{SubSeq(w, 1, i - 1) \o r \o SubSeq(w, i + 1, Len(w)) : r \in Read(Chars(w)[i])} :
               i \in {j \in 2..(Len(w) - 1) : /\ Chars(w)[j] \in Digits
                                              /\ Chars(w)[j - 1] \notin Digits /\ Chars(w)[j + 1] \notin Digits}}
WordForms(s) == {f \in [1..Len(s) -> UNION {LetterForms(w) : w \in Image(s)}] : \A i \in 1..Len(s) : f[i] \in LetterForms(s[i])}

Named(s) == SelectSeq(s, LAMBDA w : w \notin Generic)
Compare(listed, own) ==
    LET a == Named(listed)
        b == Named(own)
    IN  IF a # <<>> /\ a = b THEN SPELLED
        ELSE BestOf({Aligns(listed, own), IF Len(b) = Len(own) THEN 0 ELSE Aligns(listed, b)})
SpellsOut(listed, own) ==
    IF listed = <<>> \/ own = <<>> THEN 0
    ELSE BestOf({Compare(l, o) : l \in WordForms(BroadcastWords(listed)), o \in WordForms(BroadcastWords(own))})

\* nameMatchRank.  A name below four letters has to lead, and only the station may follow.
NameTokens(s) == SelectSeq(s, LAMBDA w : w \notin ChannelNoise)
Letters(name) == LET n[i \in 0..Len(name)] == IF i = 0 THEN 0 ELSE n[i - 1] + Len(name[i]) + (IF i = 1 THEN 0 ELSE 1) IN n[Len(name)]
Leads(own, needle) ==
    \E i \in 1..Len(own) :
        /\ own[i] = needle /\ \A j \in 1..(i - 1) : own[j] # needle /\ Len(own[j]) <= 2
        /\ LET rest == Image(SubSeq(own, i + 1, Len(own)))
           IN  (\A w \in rest : IsStationMark(w)) \/ \E w \in rest : IsCallSign(w)
IsPlaceholder(t) == t.own = <<>> \/ t.own[1] \in ParkedAs
BugNameMatchRank(t, name) ==
    LET own == NameTokens(name) IN
    IF IsPlaceholder(t) THEN 0
    ELSE IF Letters(name) < 4
    THEN IF Len(name) = 1 /\ Leads(SelectSeq(NameTokens(t.own), LAMBDA w : w \notin FeedVariant), name[1])
         THEN LITERAL ELSE SpellsOut(name, t.own)
    ELSE IF own # <<>> /\ Image(own) \subseteq Image(NameTokens(t.shelf \o t.own)) THEN LITERAL
    ELSE SpellsOut(name, t.own)
NameMatchRank(t, name) ==
    LET own == NameTokens(name) IN
    IF IsPlaceholder(t) THEN 0
    ELSE IF Letters(name) < 4
    THEN IF Len(name) = 1 /\ Leads(SelectSeq(NameTokens(t.own), LAMBDA w : w \notin FeedVariant), name[1])
         THEN LITERAL ELSE SpellsOut(name, t.own)
    ELSE IF own # <<>> /\ Image(own) \subseteq Image(NameTokens(t.own)) THEN LITERAL
    ELSE IF own # <<>> /\ Image(own) \subseteq Image(NameTokens(t.shelf \o t.own))
    THEN BestOf({GUESSED, SpellsOut(name, t.own)})
    ELSE SpellsOut(name, t.own)

\* matchTerms keeps the words that name something; broadcastTerms refuses to keep none.
MatchTerms(name) == {w \in Image(name) : Len(w) >= 3 /\ w \notin Stop}
BugBroadcastTerms(name) == MatchTerms(name)
BroadcastTerms(name) == IF MatchTerms(name) # {} THEN MatchTerms(name) ELSE {w \in Image(BroadcastWords(name)) : Len(w) >= 2}

\* marketChannelsForEvent: the rows the query returns, then those of the best rank,
\* the plainest titles first.
Fetched(list, name) == {t \in list : \E w \in Image(t.shelf \o t.own), term \in BroadcastTerms(name) : Holds(w, term)}
Length(t) == Letters(t.shelf \o t.own)
Plainest(found) == {s \in SUBSET found : /\ Cardinality(s) = IF Cardinality(found) < 3 THEN Cardinality(found) ELSE 3
                                         /\ \A t \in s, u \in found \ s : Length(t) <= Length(u)}

Init == listing \in Listings /\ rows = {} /\ offered = {} /\ asked = FALSE
Import(t) == /\ Cardinality(rows) < MaxRows /\ t \notin rows
             /\ rows' = rows \cup {t} /\ offered' = {} /\ asked' = FALSE /\ UNCHANGED listing
Market ==
    \E found \in {Fetched(rows, listing)} : \E rank \in {[t \in found |-> NameMatchRank(t, listing)]} :
        LET best == BestOf({rank[t] : t \in found}) IN
        /\ asked' = TRUE
        /\ offered' \in Plainest({t \in found : best > 0 /\ rank[t] = best})
        /\ UNCHANGED <<listing, rows>>
Next == Market \/ \E t \in Titles : Import(t)
Spec == Init /\ [][Next]_vars

----------------------------------------------------------------------------
\* The reference for the abbreviations: w is cut into one run of letters per word,
\* and each run keeps the first letter of its word and the order of the others.
InOrder(a, b) == \E kept \in SUBSET (1..Len(b)) :
    /\ 1 \in kept /\ Cardinality(kept) = Len(a)
    /\ \A k \in kept : Chars(b)[k] = Chars(a)[Cardinality({j \in kept : j <= k})]
RunFits(a, b) ==
    \/ a = b
    \/ Len(a) < 3 /\ Len(a) < Len(b) /\ StartsWith(b, a)
    \/ Len(a) >= 3 /\ Len(a) < Len(b) /\ ~(StartsWith(b, a) /\ Len(b) - Len(a) <= 2) /\ InOrder(a, b)
IsCutInto(w, run) ==
    Len(run) \in 1..4 /\ \E c \in [0..Len(run) -> 0..Len(w)] :
        /\ c[0] = 0 /\ c[Len(run)] = Len(w)
        /\ \A i \in 1..Len(run) : c[i - 1] < c[i] /\ RunFits(SubSeq(w, c[i - 1] + 1, c[i]), run[i])
AbbreviationsAreCuts ==
    ~asked => \A t \in rows : \A i \in 1..Len(t.own) :
        LET run == SubSeq(t.own, i, Len(t.own))
            w == listing[Len(listing)]
        IN  InitialismOf(w, run) <=> IsCutInto(w, run)

\* A list that has the broadcaster under its own name offers it, whatever else is in
\* the list and however few of the name's words name anything.
ExactIsOffered == asked => \A t \in rows : t.own = listing => t \in offered

\* The next channel along is no spelling of this one: a number or a letter more, or a
\* brand behind the whole name of a network of up to three letters.
NextAlong(name, own) ==
    LET n == Len(name) IN
    \/ Len(own) = n /\ n > 0 /\ SubSeq(own, 1, n - 1) = SubSeq(name, 1, n - 1) /\ own[n] # name[n] /\ Len(name[n]) >= 3
         /\ StartsWith(own[n], name[n]) /\ Len(own[n]) <= Len(name[n]) + 2
    \/ n = 1 /\ Len(own) = 2 /\ Len(name[1]) = 3 /\ own[1] = name[1] /\ own[2] \in {"sports", "news"}
SiblingsRefused == \A t \in offered : ~NextAlong(listing, t.own)

\* A channel that has a word of the listing from its shelf alone does not put out,
\* nor stand beside, one that was fetched and says or spells the name itself.
ByShelf(t) == ~(Image(listing) \subseteq Image(t.own)) /\ SpellsOut(listing, t.own) = 0
ShelfIsAGuess ==
    \A u \in offered : u.shelf # <<>> /\ Letters(listing) >= 4 /\ ByShelf(u) =>
        \A t \in Fetched(rows, listing) : IsPlaceholder(t) \/ (SpellsOut(listing, t.own) < SPELLED /\ ~(Image(listing) \subseteq Image(t.own)))

BroadcastersHold == AbbreviationsAreCuts /\ ExactIsOffered /\ SiblingsRefused /\ ShelfIsAGuess

\* Not so: "the query asks for exactly what marketsWithOwnChannels is about to look for".
RankedIsAsked == \A t \in rows : NameMatchRank(t, listing) > 0 => t \in Fetched(rows, listing)
=============================================================================
