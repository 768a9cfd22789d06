------------------------------ MODULE Schedule ------------------------------
(***************************************************************************)
(* The pages that say what is on.  A page asks several questions of the     *)
(* fixtures at once, each answered at its own moment, and one that was made *)
(* for nobody in particular is kept: in Redis, by a shared cache on the     *)
(* way, and in the browser.                                                 *)
(***************************************************************************)
EXTENDS Naturals, FiniteSets

CONSTANTS Matches, Here,   \* fixtures; those of the page's own scope
          Browsers, Asked,  \* readers; what the page asks, some of the Questions
          Limit,           \* of the live list
          Stale, Ttl,      \* LIVE_MAX_STALENESS, scheduleTtlSeconds
          MaxWrites, MaxSignIns,  \* bounds
          None

VARIABLES rows,      \* events: state, start and the age of updated_at
          user,      \* whom each browser's session is for
          making,    \* the render under way for each browser
          redis, edge, own,  \* copies: the server's, a shared cache's, each browser's
          writes, signins
vars == <<rows, user, making, redis, edge, own, writes, signins>>

MaxAge == Stale + 2 * Ttl  \* bound: ages are not told apart beyond it
Questions == {"live", "total", "stalled", "soon", "upcoming"}
Starts == {"soon", "begun", "long ago"}
\* late and mixed are ghosts: time passed, or a fixture moved, while it was made
NoPage == [user |-> None, live |-> {}, total |-> 0, stalled |-> 0, soon |-> {},
           badged |-> {}, late |-> FALSE, mixed |-> FALSE]
NoCopy == [page |-> NoPage, left |-> 0]
Idle == [left |-> {}, page |-> NoPage]

TypeOK ==
    /\ rows \in [Matches -> [state : {"pre", "in", "post"}, start : Starts, age : 0..MaxAge]]
    /\ user \in [Browsers -> Browsers \cup {None}]
    /\ \A b \in Browsers : making[b].left \subseteq Questions
    /\ \A c \in {redis, edge} \cup {own[b] : b \in Browsers} : c.left \in 0..Ttl /\ c.page.live \subseteq Here
    /\ writes \in 0..MaxWrites /\ signins \in 0..MaxSignIns

Init == /\ rows = [f \in Matches |-> [state |-> "pre", start |-> "soon", age |-> 0]]
        /\ user = [b \in Browsers |-> None] /\ making = [b \in Browsers |-> Idle]
        /\ redis = NoCopy /\ edge = NoCopy /\ own = [b \in Browsers |-> NoCopy]
        /\ writes = 0 /\ signins = 0

Made(late) == [b \in Browsers |-> IF making[b].left \in {{}, Asked} THEN making[b]
                 ELSE [making[b] EXCEPT !.page.mixed = TRUE, !.page.late = @ \/ late]]

\* A pass writes a fixture: the state it has, or a later one.
Touch(f, s) ==
    /\ writes < MaxWrites /\ writes' = writes + 1
    /\ <<rows[f].state, s>> \in {<<"pre", "in">>, <<"in", "in">>, <<"in", "post">>, <<"pre", "post">>}
    /\ rows' = [rows EXCEPT ![f].state = s, ![f].age = 0]
    /\ making' = Made(FALSE)
    /\ UNCHANGED <<user, redis, edge, own, signins>>
\* Its start comes, and then lies three hours back.
Start(f) ==
    /\ rows[f].start # "long ago" /\ Asked \cap {"soon", "upcoming"} # {}
    /\ rows' = [rows EXCEPT ![f].start = IF @ = "soon" THEN "begun" ELSE "long ago"]
    /\ making' = Made(FALSE)
    /\ UNCHANGED <<user, redis, edge, own, writes, signins>>

Older(c) == IF c.left <= 1 THEN NoCopy ELSE [c EXCEPT !.left = @ - 1]
Pass ==
    /\ rows' = [f \in Matches |-> [rows[f] EXCEPT !.age = IF @ = MaxAge THEN @ ELSE @ + 1]]
    /\ making' = Made(TRUE)
    /\ redis' = Older(redis) /\ edge' = Older(edge) /\ own' = [b \in Browsers |-> Older(own[b])]
    /\ UNCHANGED <<user, writes, signins>>

\* Signing in, and out
SignIn(b) ==
    /\ signins < MaxSignIns /\ signins' = signins + 1
    /\ user' = [user EXCEPT ![b] = IF @ = None THEN b ELSE None]
    /\ UNCHANGED <<rows, making, redis, edge, own, writes>>

(***************************************************************************)
(* The questions                                                            *)
(***************************************************************************)
BugFresh(f) == TRUE
Fresh(f) == rows[f].age < Stale
Live == {f \in Here : rows[f].state = "in" /\ Fresh(f)}
Stalled == {f \in Matches : rows[f].state = "in" /\ ~Fresh(f)}
Soon == {f \in Here : rows[f].state = "pre" /\ rows[f].start = "soon"}
Upcoming == {f \in Here : rows[f].start # "long ago"}

First(s) == CHOOSE t \in SUBSET s : Cardinality(t) = IF Cardinality(s) < Limit THEN Cardinality(s) ELSE Limit
\* A row of any list that says it is in progress wears the live badge.
Badged(s) == {f \in s : rows[f].state = "in"}
Told(page, what) ==
    CASE what = "live" -> [page EXCEPT !.live = First(Live)]
      [] what = "total" -> [page EXCEPT !.total = Cardinality(Live)]
      [] what = "stalled" -> [page EXCEPT !.stalled = Cardinality(Stalled)]
      [] what = "soon" -> [page EXCEPT !.soon = Soon]
      [] what = "upcoming" -> [page EXCEPT !.badged = Badged(Upcoming)]

\* LiveSection: a sample says so, and an empty list says that scores are frozen.
Sample(page) == page.total > Cardinality(page.live)
SaysFrozen(page) == page.stalled > 0 /\ page.live = {}

(***************************************************************************)
(* cached, and the caches its header speaks to                              *)
(***************************************************************************)
\* A browser that holds a copy does not ask: it shows that.
Asks(b) == making[b].left = {} /\ own[b].left = 0

\* A shared cache answers from its copy.  It knows no reader from another: the
\* answer names no header it depends on.
FromEdge(b) ==
    /\ Asks(b) /\ edge.left > 0
    /\ own' = [own EXCEPT ![b] = edge]
    /\ UNCHANGED <<rows, user, making, redis, edge, writes, signins>>

\* "public, max-age, s-maxage": the browser keeps it, a shared cache may.
Sent(b, page) == LET copy == [page |-> page, left |-> Ttl] IN
    own' = [own EXCEPT ![b] = copy] /\ edge' \in {edge, copy}

\* A hit is for a reader who is not signed in.
Hit(b) ==
    /\ Asks(b) /\ user[b] = None /\ redis.left > 0
    /\ Sent(b, redis.page)
    /\ UNCHANGED <<rows, user, making, redis, writes, signins>>

\* A signed-in reader, a miss, or a Redis that does not answer: the page is made.
Produce(b) ==
    /\ Asks(b)
    /\ making' = [making EXCEPT ![b] = [Idle EXCEPT !.left = Asked, !.page.user = user[b]]]
    /\ UNCHANGED <<rows, user, redis, edge, own, writes, signins>>
Ask(b, what) ==
    /\ what \in making[b].left /\ making[b].left # {what}
    /\ making' = [making EXCEPT ![b].left = @ \ {what}, ![b].page = Told(@, what)]
    /\ UNCHANGED <<rows, user, redis, edge, own, writes, signins>>
\* The last answer: it is rendered, kept if it is for nobody, and sent.
BugShareable(page) == TRUE
Shareable(page) == page.user = None
Render(b, what) ==
    /\ making[b].left = {what}
    /\ LET page == Told(making[b].page, what) IN
        IF Shareable(page)
          THEN redis' \in {redis, [page |-> page, left |-> Ttl]} /\ Sent(b, page)
          ELSE UNCHANGED <<redis, edge, own>>
    /\ making' = [making EXCEPT ![b] = Idle]
    /\ UNCHANGED <<rows, user, writes, signins>>

Next ==
    \/ \E f \in Matches : Start(f) \/ \E s \in {"in", "post"} : Touch(f, s)
    \/ Pass
    \/ \E b \in Browsers : SignIn(b) \/ FromEdge(b) \/ Hit(b) \/ Produce(b)
    \/ \E b \in Browsers, what \in Asked : Ask(b, what) \/ Render(b, what)

Spec == Init /\ [][Next]_vars

----------------------------------------------------------------------------
Copies == {c \in {redis, edge} \cup {own[b] : b \in Browsers} : c.left > 0}

\* No copy was made for a reader: nobody is served another's page, whichever of
\* the three caches answers and whoever signed in or out in between.
KeptIsCommon == \A c \in Copies : c.page.user = None

\* A copy calls a game live whose row was fresh when it was made: in Redis it is
\* older by the time the copy is kept, on the way by that time twice.
KeptIsRecent ==
    /\ redis.left > 0 /\ ~redis.page.late => \A f \in redis.page.live : rows[f].age < Stale + Ttl - redis.left + 1
    /\ \A c \in Copies : ~c.page.late => \A f \in c.page.live : rows[f].age < Stale + 2 * Ttl - c.left + 1

\* A page made while nothing moved lists a game once, counts what it lists, and
\* says of an empty list whether anything is frozen rather than over.
PageAgrees ==
    \A c \in Copies : ~c.page.mixed =>
        /\ c.page.live \cap c.page.soon = {}
        /\ {"live", "total"} \subseteq Asked => Cardinality(c.page.live) <= c.page.total
        /\ Asked = Questions /\ c.page.badged # {} => c.page.live # {} \/ Sample(c.page) \/ SaysFrozen(c.page)

SchedulesHold == KeptIsCommon /\ KeptIsRecent /\ PageAgrees

\* Not so: "deliberately excludes anything already under way".
ListedOnce == \A c \in Copies : c.page.live \cap c.page.soon = {}
\* Not so: "Showing nothing would have been true; showing "43'" all night was not".
FrozenIsNotLive == \A c \in Copies : ~c.page.mixed => c.page.badged \subseteq c.page.live
\* Not so: what the page says of frozen fixtures is about the page's own.
StalledIsHere == \A c \in Copies : ~c.page.mixed /\ SaysFrozen(c.page) => c.page.badged # {}
\* Not so: "a signed-in page carries follow stars, so it is rendered fresh".
SignedInIsFresh == [][\A b \in Browsers : FromEdge(b) => user[b] = None]_vars
=============================================================================
