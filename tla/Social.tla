------------------------------- MODULE Social -------------------------------
(***************************************************************************)
(* People among themselves: handles, follows, blocks, messages and comments.*)
(* A request finds its person by the handle of a form, passes the gate of   *)
(* blocks, and writes by statements of its own; a block is two statements,  *)
(* and a conversation is read, counted beyond its window, and marked read.  *)
(***************************************************************************)
EXTENDS Naturals, Sequences, FiniteSets

CONSTANTS People,
          Handlers,   \* requests being served
          Acts,       \* what they ask for
          Ties,       \* follows there may be to begin with
          Members,    \* people who hold a membership
          Limit,      \* MESSAGE_RATE_PER_HOUR, COMMENT_RATE
          Page,       \* messages of a conversation a page holds
          MaxTexts,   \* bound: messages, and comments, ever sent
          MaxAsks,    \* bound: requests
          MaxAge,     \* bound: how often time passes
          None

VARIABLES named,     \* people who have a handle
          hidden,    \* people whose profile is not public
          follows, blocks,
          messages, comments,
          req,       \* a request
          asks, age
vars == <<named, hidden, follows, blocks, messages, comments, req, asks, age>>

Both(u, v) == {<<u, v>>, <<v, u>>}
Idle == [step |-> "idle", by |-> None, to |-> None, act |-> None, stood |-> FALSE,
         shown |-> {}, older |-> None, upto |-> 0, age |-> 0]
Steps == {"idle", "gate", "write", "block", "sever", "lift", "count", "send", "read", "mark", "page"}

TypeOK ==
    /\ named \subseteq People /\ hidden \subseteq People
    /\ follows \subseteq People \X People /\ blocks \subseteq People \X People
    /\ messages \in Seq([from : People, to : People, read : BOOLEAN, age : 0..2])
    /\ comments \in Seq([by : People, gone : BOOLEAN, age : 0..2])
    /\ \A h \in Handlers : /\ req[h].step \in Steps /\ req[h].by \in People \cup {None}
                           /\ req[h].shown \subseteq DOMAIN messages
                           /\ req[h].older \in 0..MaxTexts \cup {None}
    /\ asks \in 0..MaxAsks /\ age \in 0..MaxAge

\* Any follows and blocks that the forms, one at a time, can have made.
Init == /\ named = People /\ hidden = {}
        /\ follows \in SUBSET Ties
        /\ blocks \in SUBSET {p \in People \X People : p[1] # p[2]}
        /\ \A p \in blocks : follows \cap Both(p[1], p[2]) = {}
        /\ messages = <<>> /\ comments = <<>>
        /\ req = [h \in Handlers |-> Idle] /\ asks = 0 /\ age = 0

\* blockExists: either direction closes what is between two people.
BugBlocked(u, v) == <<v, u>> \in blocks
Blocked(u, v) == Both(u, v) \cap blocks # {}

(***************************************************************************)
(* The routes: a form names somebody by their handle.  A request that names *)
(* its own sender changes nothing and is left out.                          *)
(***************************************************************************)
After(act) == CASE act = "message" -> "count" [] act = "thread" -> "read" [] OTHER -> "write"
First(act) == CASE act = "block" -> "block" [] act = "unblock" -> "lift" [] act = "comment" -> "count"
                [] OTHER -> "gate"

Ask(h, u, v, act) ==
    /\ req[h].step = "idle" /\ asks < MaxAsks /\ asks' = asks + 1
    /\ u # v /\ v \in named
    /\ req' = [req EXCEPT ![h] = [Idle EXCEPT !.step = First(act), !.by = u, !.to = v, !.act = act, !.age = age,
                                    !.stood = Blocked(u, v), !.upto = Len(messages)]]
    /\ UNCHANGED <<named, hidden, follows, blocks, messages, comments, age>>

\* blockExists of the routes; a conversation that is closed reads nothing.
Gate(h) ==
    /\ req[h].step = "gate"
    /\ req' = [req EXCEPT ![h] =
                IF Blocked(@.by, @.to) THEN Idle
                ELSE [@ EXCEPT !.step = After(req[h].act)]]
    /\ UNCHANGED <<named, hidden, follows, blocks, messages, comments, asks, age>>

\* followUser, unfollowUser
Write(h) ==
    /\ req[h].step = "write"
    /\ LET pair == <<req[h].by, req[h].to>> IN
        follows' = IF req[h].act = "follow" THEN follows \cup {pair} ELSE follows \ {pair}
    /\ req' = [req EXCEPT ![h] = Idle]
    /\ UNCHANGED <<named, hidden, blocks, messages, comments, asks, age>>

\* blockUser, its first statement
Block(h) ==
    /\ req[h].step = "block"
    /\ blocks' = blocks \cup {<<req[h].by, req[h].to>>}
    /\ req' = [req EXCEPT ![h].step = "sever"]
    /\ UNCHANGED <<named, hidden, follows, messages, comments, asks, age>>

\* blockUser, its second statement: both directions.
BugSevered(h) == follows \ {<<req[h].by, req[h].to>>}
Severed(h) == follows \ Both(req[h].by, req[h].to)
Sever(h) ==
    /\ req[h].step = "sever"
    /\ follows' = Severed(h)
    /\ req' = [req EXCEPT ![h] = Idle]
    /\ UNCHANGED <<named, hidden, blocks, messages, comments, asks, age>>

\* unblockUser; whoever was refused because of it may be let through now.
Lift(h) ==
    /\ req[h].step = "lift"
    /\ blocks' = blocks \ {<<req[h].by, req[h].to>>}
    /\ req' = [g \in Handlers |-> IF g = h THEN Idle ELSE
                 [req[g] EXCEPT !.stood = @ /\ Both(req[g].by, req[g].to) \cap blocks' # {}]]
    /\ UNCHANGED <<named, hidden, follows, messages, comments, asks, age>>

(***************************************************************************)
(* Messages and comments: what was sent lately is counted, then one is      *)
(* inserted.                                                                *)
(***************************************************************************)
\* messagesSentSince; recentCommentCount, which counts deleted ones too
BugLately(u, act) == {i \in DOMAIN comments : comments[i].by = u /\ ~comments[i].gone}
Lately(u, act) ==
    IF act = "message" THEN {i \in DOMAIN messages : messages[i].from = u /\ messages[i].age = 0}
    ELSE {i \in DOMAIN comments : comments[i].by = u /\ comments[i].age = 0}

Count(h) ==
    /\ req[h].step = "count"
    /\ req' = [req EXCEPT ![h] = IF Cardinality(Lately(@.by, @.act)) >= Limit THEN Idle
                                 ELSE [@ EXCEPT !.step = "send"]]
    /\ UNCHANGED <<named, hidden, follows, blocks, messages, comments, asks, age>>

\* sendMessage, insertComment
Send(h) ==
    /\ req[h].step = "send"
    /\ \/ /\ req[h].act = "message" /\ Len(messages) < MaxTexts
          /\ messages' = Append(messages, [from |-> req[h].by, to |-> req[h].to, read |-> FALSE, age |-> 0])
          /\ UNCHANGED comments
       \/ /\ req[h].act = "comment" /\ Len(comments) < MaxTexts
          /\ comments' = Append(comments, [by |-> req[h].by, gone |-> FALSE, age |-> 0])
          /\ UNCHANGED messages
    /\ req' = [req EXCEPT ![h] = Idle]
    /\ UNCHANGED <<named, hidden, follows, blocks, asks, age>>

\* deleteComment: the statement asks for the author.
DeleteComment(u, i) ==
    /\ "delete" \in Acts /\ asks < MaxAsks /\ asks' = asks + 1
    /\ comments[i].by = u /\ ~comments[i].gone
    /\ comments' = [comments EXCEPT ![i].gone = TRUE]
    /\ UNCHANGED <<named, hidden, follows, blocks, messages, req, age>>

(***************************************************************************)
(* GET /messages/:handle.  thread() and olderMessageCount() run at once.    *)
(***************************************************************************)
Conversation(u, v) == {i \in DOMAIN messages : <<messages[i].from, messages[i].to>> \in Both(u, v)}
\* historyWindowDays: a member's window has no end.
Within(u, i) == u \in Members \/ messages[i].age < 2
Newest(S) == {i \in S : Cardinality({j \in S : j > i}) < Page}

\* The select of thread()
Read(h) ==
    /\ req[h].step = "read"
    /\ req' = [req EXCEPT ![h].step = "mark",
                          ![h].shown = Newest({i \in Conversation(req[h].by, req[h].to) : Within(req[h].by, i)})]
    /\ UNCHANGED <<named, hidden, follows, blocks, messages, comments, asks, age>>

\* The update of thread(): what the window hides is marked as well.
BugMarked(h, i) == Within(req[h].by, i)
Marked(h, i) == messages[i].to = req[h].by /\ messages[i].from = req[h].to
Mark(h) ==
    /\ req[h].step = "mark"
    /\ messages' = [i \in DOMAIN messages |-> [messages[i] EXCEPT !.read = @ \/ Marked(h, i)]]
    /\ req' = [req EXCEPT ![h].step = "page"]
    /\ UNCHANGED <<named, hidden, follows, blocks, comments, asks, age>>

\* olderMessageCount
BugBeyond(h) == {i \in DOMAIN messages : messages[i].to = req[h].by /\ ~Within(req[h].by, i)}
Beyond(h) == {i \in Conversation(req[h].by, req[h].to) : ~Within(req[h].by, i)}
CountOlder(h) ==
    /\ req[h].step \in {"read", "mark", "page"} /\ req[h].older = None
    /\ req' = [req EXCEPT ![h].older = Cardinality(Beyond(h))]
    /\ UNCHANGED <<named, hidden, follows, blocks, messages, comments, asks, age>>

Ready(h) == req[h].step = "page" /\ req[h].older # None
Render(h) ==
    /\ Ready(h)
    /\ req' = [req EXCEPT ![h] = Idle]
    /\ UNCHANGED <<named, hidden, follows, blocks, messages, comments, asks, age>>

(***************************************************************************)
(* Profiles.                                                                *)
(***************************************************************************)
\* POST /api/profile: the handle may be taken or given up, the page hidden or shown.
UpdateProfile(u, handle, public) ==
    /\ "profile" \in Acts /\ asks < MaxAsks /\ asks' = asks + 1
    /\ named' = IF handle THEN named \cup {u} ELSE named \ {u}
    /\ hidden' = IF public THEN hidden \ {u} ELSE hidden \cup {u}
    /\ UNCHANGED <<follows, blocks, messages, comments, req, age>>

\* resolveProfile, for a reader or somebody who is signed out (None)
Resolves(viewer, p) ==
    /\ p \in named
    /\ viewer = p \/ (p \notin hidden /\ (viewer = None \/ ~Blocked(viewer, p)))

\* followersOf, the list; profileCounts, the number over it
FollowersOf(p, viewer) == {f \in People : <<f, p>> \in follows /\ (viewer = None \/ ~Blocked(f, viewer))}
BugFollowerCount(p, viewer) == Cardinality({f \in named : <<f, p>> \in follows})
FollowerCount(p, viewer) ==
    Cardinality({pair \in follows : pair[2] = p /\ (viewer # None => Both(pair[1], viewer) \cap blocks = {})})

\* Person: somebody in such a list is a link to their page.
BugLinked(p) == p \in named
Linked(p) == p \in named /\ p \notin hidden

\* An hour passes, or a month.
Pass(d) ==
    /\ age < MaxAge /\ age' = age + 1
    /\ LET Older(s) == [i \in DOMAIN s |-> [s[i] EXCEPT !.age = IF @ + d > 2 THEN 2 ELSE @ + d]]
       IN  messages' = Older(messages) /\ comments' = Older(comments)
    /\ UNCHANGED <<named, hidden, follows, blocks, req, asks>>

Next ==
    \/ \E h \in Handlers, u, v \in People :
        \E act \in Acts \ {"delete", "profile"} : Ask(h, u, v, act)
    \/ \E h \in Handlers :
        \/ Gate(h) \/ Write(h) \/ Block(h) \/ Sever(h) \/ Lift(h)
        \/ Count(h) \/ Send(h) \/ Read(h) \/ Mark(h) \/ CountOlder(h) \/ Render(h)
    \/ \E u \in People : \/ \E i \in DOMAIN comments : DeleteComment(u, i)
                         \/ \E handle, public \in BOOLEAN : UpdateProfile(u, handle, public)
    \/ \E d \in 1..2 : Pass(d)

Spec == Init /\ [][Next]_vars

----------------------------------------------------------------------------
\* A block that stands when a request arrives stops it for good: neither of the
\* two can follow, write to or read the other while the block lasts.
NothingPassesABlock ==
    \A h \in Handlers : req[h].stood => req[h].step \in {"idle", "gate", "block", "sever", "lift", "count", "send"}
                                        /\ (req[h].step \in {"count", "send"} => req[h].act = "comment")

\* The block ends the follows of both: while it is being made, and after it,
\* nothing but a request that was past its gate already brings one back.
BlockEndsFollows ==
    \A h \in Handlers :
        req[h].step = "sever" /\ req'[h].step = "idle" => follows' \cap Both(req[h].by, req[h].to) = {}

\* Requests that count at the same time pass the limit by no more than one each.
RateHolds ==
    \A u \in People, act \in {"message", "comment"} :
        LET sent == IF act = "message" THEN {i \in DOMAIN messages : messages[i].from = u /\ messages[i].age = 0}
                    ELSE {i \in DOMAIN comments : comments[i].by = u /\ comments[i].age = 0}
        IN  Cardinality(sent) < Limit + Cardinality(Handlers)

\* A page of a conversation leaves no message out without a word: each is shown
\* or counted as older, unless there are more than a page, or time passed
\* between the two queries.
NothingVanishes ==
    \A h \in Handlers :
        LET before == {i \in Conversation(req[h].by, req[h].to) : i <= req[h].upto} IN
        Ready(h) /\ req[h].age = age /\ Cardinality(Conversation(req[h].by, req[h].to)) <= Page =>
            Cardinality(before) <= Cardinality(req[h].shown) + req[h].older

\* Reading a conversation clears its badge, whatever the window hides of it.
BadgeIsCleared ==
    \A h \in Handlers : Ready(h) =>
        \A i \in 1..req[h].upto : messages[i].from = req[h].to /\ messages[i].to = req[h].by => messages[i].read

\* The number over a list of followers is the length of the list, for whoever looks.
CountsAgree ==
    \A p \in People, viewer \in People \cup {None} : Resolves(viewer, p) =>
        FollowerCount(p, viewer) = Cardinality(FollowersOf(p, viewer))

\* A list of followers links to no page that would not be there for who reads it.
LinksLead ==
    \A p, viewer \in People : Resolves(viewer, p) =>
        \A f \in FollowersOf(p, viewer) : Linked(f) => Resolves(viewer, f)

\* What people do to each other holds for both, and what a page says is there.
PeopleHoldStep ==
    /\ NothingPassesABlock' /\ BlockEndsFollows
    /\ RateHolds' /\ NothingVanishes' /\ BadgeIsCleared'
    /\ CountsAgree' /\ LinksLead'
PeopleHold == [][PeopleHoldStep]_vars

\* Not so, each by a short run of the model.  A follow that had passed its gate
\* outlives the block ...
BlocksHold == \A p \in blocks : (\A h \in Handlers : req[h].step = "idle") => follows \cap Both(p[1], p[2]) = {}
\* ... a message of somebody who blocked, was blocked, or has no handle stays unread ...
UnreadCanBeCleared ==
    \A i \in DOMAIN messages : ~messages[i].read =>
        messages[i].from \in named /\ ~Blocked(messages[i].from, messages[i].to)
\* ... those a profile follows are linked for whom they have blocked ...
FollowingLinksLead ==
    \A p, viewer, f \in People : Resolves(viewer, p) /\ <<p, f>> \in follows /\ Linked(f) => Resolves(viewer, f)
\* ... and a member's conversation is shown no further back than a page.
WholeForMembers ==
    \A h \in Handlers : Ready(h) /\ req[h].by \in Members =>
        Cardinality(Conversation(req[h].by, req[h].to)) <= Cardinality(req[h].shown) + req[h].older
=============================================================================
