------------------------------- MODULE Sharing -------------------------------
(***************************************************************************)
(* Who one account's lines are open to: the forms of settings that open a  *)
(* channel list or the radio line to everyone or to named friends, that    *)
(* name a friend and take the name off again, and what happens to the      *)
(* lists beside them -- added, moved to the front, removed, or imported    *)
(* for a live pass and marked as ours afterwards.                          *)
(***************************************************************************)
EXTENDS Naturals, Sequences, FiniteSets, SequencesExt

CONSTANTS Forms,     \* requests of the owner in flight at once
          People,    \* accounts the owner may name
          Radio,     \* the radio line; every other line is a list
          MaxIds,    \* lists ever created
          MaxInputs, \* forms sent
          MaxEvents, \* memberships, follows and lists that change
          None

VARIABLES row,     \* user_playlists and siriusxm_sessions: line -> [managed, audience], or None
          order,   \* the lists by position
          grant,   \* playlist_share_grants and siriusxm_share_grants
          mutual,  \* people the owner follows and who follow back
          member,  \* the owner's membership has not run out
          form,    \* a request: [pc, line, audience, who]
          pass,    \* ensureLine: the list it is importing, or None
          ids, inputs, events
vars == <<row, order, grant, mutual, member, form, pass, ids, inputs, events>>

Lists == 1..MaxIds
Lines == Lists \cup {Radio}
Audiences == {"none", "friends", "everyone"}
Idle == [pc |-> "idle", line |-> None, audience |-> None, who |-> None]
Closed == [managed |-> FALSE, audience |-> "none"]

TypeOK ==
    /\ row \in [Lines -> [managed : BOOLEAN, audience : Audiences] \cup {None}]
    /\ ToSet(order) = {l \in Lists : row[l] # None} /\ IsInjective(order)
    /\ grant \subseteq Lines \X People /\ mutual \subseteq People /\ member \in BOOLEAN
    /\ \A f \in Forms : /\ form[f].pc \in {"idle", "gate", "share", "name", "strike"}
                        /\ form[f].line \in Lines \cup {None}
                        /\ form[f].audience \in Audiences \cup {None}
                        /\ form[f].who \in People \cup {None}
    /\ pass \in Lists \cup {None}
    /\ ids \in 0..MaxIds /\ inputs \in 0..MaxInputs /\ events \in 0..MaxEvents

Init == /\ row = [l \in Lines |-> IF l = Radio THEN Closed ELSE None]
        /\ order = <<>> /\ grant = {} /\ mutual = People /\ member = TRUE
        /\ form = [f \in Forms |-> Idle] /\ pass = None
        /\ ids = 0 /\ inputs = 0 /\ events = 0

\* Where in the order the lists are that are not managed.
Theirs == {i \in DOMAIN order : ~row[order[i]].managed}

\* The row a statement reaches: the named one, or the first that is not managed
\* (order by position, id limit 1); and never a managed one.
Target(l) == IF l # None THEN IF row[l] = None THEN {} ELSE {l}
             ELSE {order[i] : i \in {j \in Theirs : \A k \in Theirs : j <= k}}
BugScope(l) == {k \in Lists : row[k] # None /\ ~row[k].managed}
BugUnguarded(l) == Target(l)
Scope(l) == {k \in Target(l) : ~row[k].managed}

\* lineFromRequest and the refusal of a managed list: the row the route looks at is
\* the named one, or the first by position whatever it is. The radio's routes look at none.
Refused(l) == CASE l = Radio -> FALSE
                [] l = None  -> order # <<>> /\ row[Head(order)].managed
                [] OTHER     -> row[l] = None \/ row[l].managed

(***************************************************************************)
(* POST /api/playlist/share and /api/radio/share.                          *)
(***************************************************************************)
AskShare(f, l, a) ==
    /\ form[f].pc = "idle" /\ inputs < MaxInputs
    /\ ~Refused(l)
    /\ form' = [form EXCEPT ![f] = [Idle EXCEPT !.line = l, !.audience = a,
                                    !.pc = IF a = "friends" THEN "gate" ELSE "share"]]
    /\ inputs' = inputs + 1
    /\ UNCHANGED <<row, order, grant, mutual, member, pass, ids, events>>

\* isMember: only named sharing is what the membership sells.
Gate(f) ==
    /\ form[f].pc = "gate"
    /\ form' = [form EXCEPT ![f] = IF ~member THEN Idle
                                   ELSE [@ EXCEPT !.pc = IF form[f].who = None THEN "share" ELSE "name"]]
    /\ UNCHANGED <<row, order, grant, mutual, member, pass, ids, inputs, events>>

\* setPlaylistSharing, setSiriusXmSharing
Share(f) ==
    /\ form[f].pc = "share"
    /\ row' = [l \in Lines |-> IF l \in Scope(form[f].line)
                               THEN [row[l] EXCEPT !.audience = form[f].audience] ELSE row[l]]
    /\ form' = [form EXCEPT ![f] = Idle]
    /\ UNCHANGED <<order, grant, mutual, member, pass, ids, inputs, events>>

(***************************************************************************)
(* POST /api/playlist/share/grant and /api/radio/share/grant.              *)
(***************************************************************************)
AskName(f, l, p) ==
    /\ form[f].pc = "idle" /\ inputs < MaxInputs
    /\ ~Refused(l)
    /\ form' = [form EXCEPT ![f] = [Idle EXCEPT !.line = l, !.who = p, !.pc = "gate"]]
    /\ inputs' = inputs + 1
    /\ UNCHANGED <<row, order, grant, mutual, member, pass, ids, events>>

\* Taking a name off is gated by nothing but the list being one of the owner's.
AskStrike(f, l, p) ==
    /\ form[f].pc = "idle" /\ inputs < MaxInputs
    /\ l \in {None} \cup {k \in Lines : row[k] # None}
    /\ form' = [form EXCEPT ![f] = [Idle EXCEPT !.line = l, !.who = p, !.pc = "strike"]]
    /\ inputs' = inputs + 1
    /\ UNCHANGED <<row, order, grant, mutual, member, pass, ids, events>>

\* setPlaylistShareGrant and setSiriusXmShareGrant, allowed
Name(f) ==
    /\ form[f].pc = "name"
    /\ grant' = grant \cup (Scope(form[f].line) \X {form[f].who})
    /\ form' = [form EXCEPT ![f] = Idle]
    /\ UNCHANGED <<row, order, mutual, member, pass, ids, inputs, events>>

\* The same, not allowed
Strike(f) ==
    /\ form[f].pc = "strike"
    /\ grant' = grant \ (Target(form[f].line) \X {form[f].who})
    /\ form' = [form EXCEPT ![f] = Idle]
    /\ UNCHANGED <<row, order, mutual, member, pass, ids, inputs, events>>

(***************************************************************************)
(* The lines themselves.                                                   *)
(***************************************************************************)
\* The order of the lists but one.
OrderWithout(l) ==
    IF \E i \in DOMAIN order : order[i] = l THEN RemoveAt(order, CHOOSE i \in DOMAIN order : order[i] = l)
    ELSE order

\* savePlaylist: a new list, closed, behind the others.
Insert == /\ ids < MaxIds
          /\ ids' = ids + 1
          /\ row' = [row EXCEPT ![ids'] = Closed]
          /\ order' = Append(order, ids')

AddList == /\ events < MaxEvents /\ events' = events + 1
           /\ Insert
           /\ UNCHANGED <<grant, mutual, member, form, pass, inputs>>

\* ensureLine: importPlaylist writes the row of our line as any other list, and
\* setPlaylistManaged marks it once the import has returned.
ImportOurs == /\ pass = None /\ events < MaxEvents /\ events' = events + 1
              /\ \A l \in Lists : row[l] # None => ~row[l].managed
              /\ Insert
              /\ pass' = ids'
              /\ UNCHANGED <<grant, mutual, member, form, inputs>>

MarkOurs == /\ pass # None
            /\ row' = [row EXCEPT ![pass] = IF @ = None THEN None ELSE [@ EXCEPT !.managed = TRUE]]
            /\ pass' = None
            /\ UNCHANGED <<order, grant, mutual, member, form, ids, inputs, events>>

\* A row that goes takes its grants with it (on delete cascade).
BugWithoutRow(l) == grant
WithoutRow(l) == {g \in grant : g[1] # l}

\* deletePlaylist, the lapse of a pass, or a disconnected radio line
RemoveLine(l) == /\ row[l] # None /\ events < MaxEvents /\ events' = events + 1
              /\ row' = [row EXCEPT ![l] = None]
              /\ order' = OrderWithout(l)
              /\ grant' = WithoutRow(l)
              /\ UNCHANGED <<mutual, member, form, pass, ids, inputs>>

\* saveSiriusXm: a line that is connected again is a new row.
Reconnect == /\ row[Radio] = None
             /\ row' = [row EXCEPT ![Radio] = Closed]
             /\ UNCHANGED <<order, grant, mutual, member, form, pass, ids, inputs, events>>

\* makePlaylistPrimary
MakePrimary(l) == /\ row[l] # None /\ Head(order) # l
                  /\ events < MaxEvents /\ events' = events + 1
                  /\ order' = <<l>> \o OrderWithout(l)
                  /\ UNCHANGED <<row, grant, mutual, member, form, pass, ids, inputs>>

\* unfollowUser by either side, and blockUser, which ends both follows.
Unfollow(p) == /\ p \in mutual /\ events < MaxEvents /\ events' = events + 1
               /\ mutual' = mutual \ {p}
               /\ UNCHANGED <<row, order, grant, member, form, pass, ids, inputs>>

MembershipLapses == /\ member /\ events < MaxEvents /\ events' = events + 1
                    /\ member' = FALSE
                    /\ UNCHANGED <<row, order, grant, mutual, form, pass, ids, inputs>>

Next == \/ \E f \in Forms : \/ \E l \in Lines \cup {None} :
                                  \/ \E a \in Audiences : AskShare(f, l, a)
                                  \/ \E p \in People : AskName(f, l, p) \/ AskStrike(f, l, p)
                            \/ Gate(f) \/ Share(f) \/ Name(f) \/ Strike(f)
        \/ AddList \/ ImportOurs \/ MarkOurs \/ Reconnect \/ MembershipLapses
        \/ \E l \in Lines : RemoveLine(l)
        \/ \E l \in Lists : MakePrimary(l)
        \/ \E p \in People : Unfollow(p)

Spec == Init /\ [][Next]_vars

(***************************************************************************)
(* Properties.                                                             *)
(***************************************************************************)
Wider(a, b) == <<a, b>> \in {<<"none", "friends">>, <<"none", "everyone">>, <<"friends", "everyone">>}

\* "Our own line is never openable, and the refusal lives HERE as well as in the
\* route": no form opens, or names somebody on, a list that is managed by the
\* time the statement runs, whatever the route had read before.
ManagedNotOpenedStep ==
    \A l \in Lists : row[l] # None /\ row[l].managed =>
        /\ row'[l] # None => ~Wider(row[l].audience, row'[l].audience)
        /\ \A p \in People : <<l, p>> \in grant' => <<l, p>> \in grant
ManagedNotOpened == [][ManagedNotOpenedStep]_vars

\* "One list, not the account": a form reaches one line of the owner, whichever
\* lists were added, moved or removed since its page was drawn.
OneLinePerFormStep ==
    \A l, k \in Lines :
        /\ l # k /\ row[l] # None /\ row[k] # None /\ row'[l] # None /\ row'[k] # None
        => \/ row'[l].audience = row[l].audience /\ {g \in grant' : g[1] = l} = {g \in grant : g[1] = l}
           \/ row'[k].audience = row[k].audience /\ {g \in grant' : g[1] = k} = {g \in grant : g[1] = k}
OneLinePerForm == [][OneLinePerFormStep]_vars

\* Nobody stays named on a line that is gone, to be let in when one comes back.
NamedOnALine == \A g \in grant : row[g[1]] # None

\* A line is open to whom its owner's form said: to nobody if it came with a pass by the time
\* the statement runs, to no other line's audience, and to nobody named on a line that is gone.
OpenedAsAskedStep == ManagedNotOpenedStep /\ OneLinePerFormStep /\ NamedOnALine'
OpenedAsAsked == [][OpenedAsAskedStep]_vars

\* A list that came with a pass is open to nobody ("the one mistake in this file
\* that costs money").
ManagedIsClosed == \A l \in Lists : row[l] # None /\ row[l].managed => row[l].audience = "none"

\* Whoever is named is among the people the page offers for striking
\* (shareCandidates): the owner can always withdraw what was shared.
NamedIsOffered == \A g \in grant : g[2] \in mutual
=============================================================================
