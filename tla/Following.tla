----------------------------- MODULE Following -----------------------------
(***************************************************************************)
(* What a reader follows, the forms that change it one subject or all       *)
(* leagues at a time, and the tabs that show it.  A button's form is sent   *)
(* in the background and the button then says what the answer made of it.   *)
(***************************************************************************)
EXTENDS Integers, FiniteSets

CONSTANTS Subjects, Leagues,   \* what can be followed; the leagues of it.  The rest are teams.
          Tabs, Forms,         \* the reader's tabs; the forms that are used
          Lapses,              \* whether the session may end
          MaxPresses, MaxMoves, MaxFaults   \* bounds

VARIABLES follows,  \* the reader's follows
          open,     \* leagues: active and not superseded
          signed,   \* whether the session lasts
          tabs,     \* tab -> its page
          sent,     \* presses that have not been answered
          presses, moves, faults,   \* bounded counters
          told,     \* ghost: the follows the receipts account for, less those they took
          singly,   \* ghost: the same for single presses and chips
          clean     \* ghost: tab -> subjects that nobody else wrote since it was shown
vars == <<follows, open, signed, tabs, sent, presses, moves, faults, told, singly, clean>>

NoFlash == -1
Gone == 0
PageWith(set, kind, flash) ==
    [kind |-> kind, flash |-> flash, shown |-> set,
     action |-> [s \in Subjects |-> s \in set], text |-> [s \in Subjects |-> s \in set],
     following |-> Cardinality(set \cap Leagues), total |-> Cardinality(open)]
Page(kind, flash) == PageWith(follows, kind, flash)
Rows == 0..Cardinality(Subjects)

TypeOK ==
    /\ follows \subseteq Subjects /\ open \subseteq Leagues /\ signed \in BOOLEAN
    /\ tabs \in [Tabs -> [kind : {"browse", "mine", "login"}, flash : Rows \cup {NoFlash},
                          shown : SUBSET Subjects, action : [Subjects -> BOOLEAN],
                          text : [Subjects -> BOOLEAN], following : Rows, total : Rows]]
    /\ clean \in [Tabs -> SUBSET Subjects] /\ told \in Int /\ singly \in Int

Init == /\ follows = {} /\ open = Leagues /\ signed = TRUE
        /\ tabs = [t \in Tabs |-> Page("browse", NoFlash)] /\ sent = {}
        /\ presses = 0 /\ moves = 0 /\ faults = 0
        /\ told = 0 /\ singly = 0 /\ clean = [t \in Tabs |-> Subjects]

(***************************************************************************)
(* Around the forms                                                         *)
(***************************************************************************)
Moves == moves < MaxMoves /\ moves' = moves + 1
\* A league is retired, or comes back.
Catalogue(l) ==
    /\ Moves /\ open' = (IF l \in open THEN open \ {l} ELSE open \cup {l})
    /\ UNCHANGED <<follows, signed, tabs, sent, presses, faults, told, singly, clean>>
\* The session ends: the reader signs out in another tab, or it expires.
Lapse == /\ Lapses /\ signed /\ signed' = FALSE
         /\ UNCHANGED <<follows, open, tabs, sent, presses, moves, faults, told, singly, clean>>
\* A page is asked for.  The presses of the old one are served, and answer nothing.
Show(t, page) ==
    /\ tabs' = [tabs EXCEPT ![t] = page]
    /\ sent' = {p \in sent : p.tab # t} \cup {[p EXCEPT !.tab = Gone] : p \in {q \in sent : q.tab = t /\ q.at = "out"}}
Visit(t, kind) ==
    /\ Moves /\ Show(t, Page(IF signed THEN kind ELSE "login", NoFlash))
    /\ clean' = [clean EXCEPT ![t] = Subjects]
    /\ UNCHANGED <<follows, open, signed, presses, faults, told, singly>>
\* The same address again, with the counts it was redirected to.
Reload(t) ==
    /\ Moves /\ signed /\ tabs[t].flash # NoFlash /\ Show(t, Page(tabs[t].kind, tabs[t].flash))
    /\ clean' = [clean EXCEPT ![t] = Subjects]
    /\ UNCHANGED <<follows, open, signed, presses, faults, told, singly>>

(***************************************************************************)
(* One subject: a button, or a chip of My games                             *)
(***************************************************************************)
Others(t, s) == [u \in Tabs |-> IF u = t THEN clean[u] ELSE clean[u] \ s]
InFlight(t, s) == \E p \in sent : p.tab = t /\ p.of = s

\* The submit handler reads the form's action, and asks.
Press(t, s) ==
    /\ presses < MaxPresses /\ presses' = presses + 1
    /\ tabs[t].kind \in {"browse", "mine"} /\ (tabs[t].kind = "mine" => s \in tabs[t].shown)
    /\ sent' = sent \cup {[tab |-> t, of |-> s, no |-> presses, following |-> tabs[t].action[s],
                           chip |-> tabs[t].kind = "mine", at |-> "out"]}
    /\ clean' = IF InFlight(t, s) THEN [clean EXCEPT ![t] = @ \ {s}] ELSE clean
    /\ UNCHANGED <<follows, open, signed, tabs, moves, faults, told, singly>>

\* addFollow, removeFollow.  Without a session the route redirects to the sign-in
\* page, which fetch follows, and which answers well.
Serve(p) ==
    /\ p \in sent /\ p.at = "out"
    /\ follows' = IF ~signed THEN follows ELSE IF p.following THEN follows \ {p.of} ELSE follows \cup {p.of}
    /\ singly' = singly + Cardinality(follows') - Cardinality(follows)
    /\ sent' = (sent \ {p}) \cup {[p EXCEPT !.at = "ok"]}
    /\ clean' = [t \in Tabs |-> IF signed <=> t = p.tab THEN clean[t] ELSE clean[t] \ {p.of}]
    /\ UNCHANGED <<open, signed, tabs, presses, moves, faults, told>>
\* The request or its answer is lost.
Lose(p) ==
    /\ p \in sent /\ p.at # "lost" /\ p.tab # Gone /\ faults < MaxFaults /\ faults' = faults + 1
    /\ sent' = (sent \ {p}) \cup {[p EXCEPT !.at = "lost"]}
    /\ clean' = IF p.at = "ok" THEN [clean EXCEPT ![p.tab] = @ \ {p.of}] ELSE clean
    /\ UNCHANGED <<follows, open, signed, tabs, presses, moves, told, singly>>

BugAnswered(page, p) == [page EXCEPT !.text[p.of] = ~p.following]
Answered(page, p) ==
    CASE p.at = "lost" -> [page EXCEPT !.text[p.of] = p.following]
      [] p.at = "ok" /\ p.chip -> [page EXCEPT !.shown = @ \ {p.of}]
      [] OTHER -> [page EXCEPT !.action[p.of] = ~p.following, !.text[p.of] = ~p.following]
Answer(p) ==
    /\ p \in sent /\ p.at # "out" /\ sent' = sent \ {p}
    /\ tabs' = IF p.tab = Gone THEN tabs ELSE [tabs EXCEPT ![p.tab] = Answered(@, p)]
    /\ UNCHANGED <<follows, open, signed, presses, moves, faults, told, singly, clean>>

(***************************************************************************)
(* All at once: a form that navigates, and the receipt it is redirected to  *)
(***************************************************************************)
Offered(page, form) ==
    CASE form = "follow-all" -> page.kind = "browse" /\ page.following < page.total
      [] form = "unfollow-all" -> page.kind = "browse" /\ page.following > 0
      [] form = "unfollow-everything" -> page.kind = "mine" /\ page.shown # {}
BugReceipt(form, after) == IF form = "follow-all" THEN Cardinality(open) ELSE Cardinality(follows \ after)
Receipt(form, after) == Cardinality(IF form = "follow-all" THEN after \ follows ELSE follows \ after)
After(form) == CASE form = "follow-all" -> follows \cup open
                 [] form = "unfollow-all" -> follows \ Leagues
                 [] form = "unfollow-everything" -> {}
Submit(t, form) ==
    /\ presses < MaxPresses /\ presses' = presses + 1 /\ Offered(tabs[t], form) /\ signed
    /\ follows' = After(form)
    /\ LET n == Receipt(form, follows')
       IN  /\ told' = told + (IF form = "follow-all" THEN n ELSE 0 - n)
           /\ Show(t, PageWith(follows', tabs[t].kind, n))
    /\ clean' = [Others(t, Subjects) EXCEPT ![t] = Subjects]
    /\ UNCHANGED <<open, signed, moves, faults, singly>>

Next ==
    \/ Lapse \/ \E l \in Leagues : Catalogue(l)
    \/ \E t \in Tabs, kind \in {"browse", "mine"} : Visit(t, kind)
    \/ \E t \in Tabs : Reload(t) \/ \E s \in Subjects : Press(t, s)
    \/ \E p \in sent : Serve(p) \/ Lose(p) \/ Answer(p)
    \/ \E t \in Tabs, form \in Forms : Submit(t, form)

Spec == Init /\ [][Next]_vars

----------------------------------------------------------------------------
\* A button whose presses did not overlap, that nobody else wrote behind and that
\* lost no answer to a change, does what it says and says what is so, after any
\* number of presses, failures and receipts.
ButtonIsTrue == \A t \in Tabs, s \in Subjects :
    tabs[t].kind = "browse" /\ s \in clean[t] /\ ~InFlight(t, s)
        => /\ tabs[t].text[s] = tabs[t].action[s]
           /\ signed => (tabs[t].text[s] <=> s \in follows)

\* The receipts add up: with the single presses, over all tabs, they account for
\* every follow there is, and a second press is not told what the first did.
ReceiptsAddUp == told + singly = Cardinality(follows)

\* A page that is current offers what is missing, unless a followed league was retired.
MissingIsOffered == \A t \in Tabs :
    LET p == tabs[t] IN
    p = Page("browse", p.flash) /\ follows \cap Leagues \subseteq open /\ ~(open \subseteq follows)
        => Offered(p, "follow-all")

FollowingHolds == ButtonIsTrue /\ ReceiptsAddUp /\ MissingIsOffered

\* Not so: a button is put back "rather than leaving a button claiming something untrue".
NeverUntrue == \A t \in Tabs, s \in Subjects :
    tabs[t].kind = "browse" /\ presses = 1 /\ ~InFlight(t, s) /\ Cardinality(Tabs) = 1
        => (tabs[t].text[s] <=> s \in follows)
\* Not so: a button does what it says.
DoesWhatItSays == \A t \in Tabs, s \in Subjects : tabs[t].text[s] = tabs[t].action[s]
\* Not so: "You follow every league".
EveryLeague == \A t \in Tabs :
    LET p == tabs[t] IN p = Page("browse", p.flash) /\ p.following >= p.total => open \subseteq follows
\* Not so: "a stale flash on a reload is worse than none".
FlashOnce == [][\A t \in Tabs : Reload(t) => tabs'[t].flash = NoFlash]_vars
=============================================================================
