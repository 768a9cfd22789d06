----------------------------- MODULE PushToggle -----------------------------
(***************************************************************************)
(* The notification switch: initPush in apps/web/public/app.js, the        *)
(* self-check in apps/web/public/push-check.js, the two routes behind them *)
(* and the reminder sender that disables what the push service no longer   *)
(* knows.  One browser has one subscription, which all its tabs share; the *)
(* server keeps a row for each endpoint it was ever sent.  The browser may *)
(* hang, the server may answer too late, and two tabs may work at once.    *)
(***************************************************************************)
EXTENDS Integers, FiniteSets

CONSTANTS Tabs,          \* tabs with the switch
          Checks,        \* tabs with the self-check
          MaxEndpoints,  \* bound: subscriptions the browser ever makes
          MaxFaults      \* bound: hangs, failures, lost answers, revoked permissions

Endpoints == 1..MaxEndpoints
None == 0      \* no subscription
Unread == -1   \* a read of the subscription that was asked for and has no answer yet

VARIABLES
    permission,  \* Notification.permission
    sub,         \* the browser's subscription
    made,        \* endpoints it has handed out
    stored,      \* push_subscriptions: absent, live or disabled
    signedIn,
    tab,         \* the click handler and the paints of each switch
    check,       \* the handler of each self-check
    mail,        \* requests on their way to the server
    hung,        \* subscribe() calls that outlived their deadline
    slipped,     \* history: did the browser do something behind the page's back?
    faults

vars == <<permission, sub, made, stored, signedIn, tab, check, mail, hung, slipped, faults>>

Steps == {"closed", "idle", "asking", "subscribing", "readback", "saving", "undoing",
          "leaving", "telling"}
Tab == [step : Steps,
        current : Endpoints \cup {None},               \* what the last paint found
        got : Endpoints \cup {None},                   \* the subscription in hand
        reads : SUBSET (Endpoints \cup {None, Unread})]  \* paints in flight
Request == [tab : Tabs, kind : {"save", "drop"}, endpoint : Endpoints]

Init ==
    /\ permission \in {"default", "granted"}
    /\ sub = None /\ made = 0
    /\ stored = [e \in Endpoints |-> "absent"]
    /\ signedIn = TRUE
    /\ tab = [t \in Tabs |-> [step |-> "closed", current |-> None, got |-> None, reads |-> {}]]
    /\ check = [c \in Checks |-> "idle"]
    /\ mail = {} /\ hung = {} /\ slipped = FALSE /\ faults = MaxFaults

browser == <<permission, sub, made, slipped>>
server == <<stored, signedIn>>

Fault == faults > 0 /\ faults' = faults - 1

\* subscribe() hands out the subscription there is, or makes one.
Subscribed == permission = "granted" /\ (sub # None \/ made < MaxEndpoints)
Subscribe ==
    /\ Subscribed
    /\ sub' = IF sub = None THEN made + 1 ELSE sub
    /\ made' = IF sub = None THEN made + 1 ELSE made

----------------------------------------------------------------------------
(* Painting.                                                               *)

\* The handler is over: the button works again, and a paint begins.
Ended(t) == [tab EXCEPT ![t].step = "idle", ![t].got = None, ![t].reads = @ \cup {Unread}]

\* The switch appears: support, the server's key and the worker are there.
Open(t) ==
    /\ tab[t].step = "closed"
    /\ tab' = Ended(t)
    /\ UNCHANGED <<browser, server, check, mail, hung, faults>>

\* The reader comes back to the tab, and no handler is at work.
Visible(t) ==
    /\ tab[t].step = "idle" /\ Unread \notin tab[t].reads
    /\ tab' = [tab EXCEPT ![t].reads = @ \cup {Unread}]
    /\ UNCHANGED <<browser, server, check, mail, hung, faults>>

\* getSubscription answers, or its deadline passes first.
PaintRead(t) ==
    /\ Unread \in tab[t].reads
    /\ \/ UNCHANGED faults /\ tab' = [tab EXCEPT ![t].reads = (@ \ {Unread}) \cup {sub}]
       \/ Fault /\ tab' = [tab EXCEPT ![t].reads = (@ \ {Unread}) \cup {None}]
    /\ UNCHANGED <<browser, server, check, mail, hung>>

\* What was read becomes what the next click acts on.
PaintEnd(t) ==
    /\ \E e \in tab[t].reads \ {Unread} :
          tab' = [tab EXCEPT ![t].reads = @ \ {e},
                             ![t].current = IF permission = "denied" THEN None ELSE e]
    /\ UNCHANGED <<browser, server, check, mail, hung, faults>>

----------------------------------------------------------------------------
(* A click.                                                                *)

AfterPermission == CASE permission = "default" -> "asking"
                     [] permission = "granted" -> "subscribing"
                     [] permission = "denied" -> "idle"

Click(t) ==
    /\ tab[t].step = "idle"
    /\ tab' = IF tab[t].current # None
              THEN [tab EXCEPT ![t].step = "leaving", ![t].got = tab[t].current]
              ELSE IF AfterPermission = "idle" THEN Ended(t)
              ELSE [tab EXCEPT ![t].step = AfterPermission]
    /\ UNCHANGED <<browser, server, check, mail, hung, faults>>

\* askPermission: whichever reports first, the prompt or the poll.
Asked(t) ==
    /\ tab[t].step = "asking" /\ permission # "default"
    /\ tab' = IF permission = "granted" THEN [tab EXCEPT ![t].step = "subscribing"] ELSE Ended(t)
    /\ UNCHANGED <<browser, server, check, mail, hung, faults>>

AskedTooLong(t) ==
    /\ tab[t].step = "asking"
    /\ tab' = Ended(t)
    /\ UNCHANGED <<browser, server, check, mail, hung, faults>>

\* save: the request leaves.
Saving(t, e) ==
    /\ tab' = [tab EXCEPT ![t].step = "saving", ![t].got = e]
    /\ mail' = mail \cup {[tab |-> t, kind |-> "save", endpoint |-> e]}

SubscribeDone(t) ==
    /\ tab[t].step = "subscribing"
    /\ Subscribe
    /\ Saving(t, sub')
    /\ UNCHANGED <<permission, slipped, server, check, hung, faults>>

\* subscribe() rejects.
SubscribeFails(t) ==
    /\ tab[t].step = "subscribing" /\ (Fault \/ (~Subscribed /\ UNCHANGED faults))
    /\ tab' = Ended(t)
    /\ UNCHANGED <<browser, server, check, mail, hung>>

\* The deadline passes.  The browser may still finish what it was asked.
SubscribeHangs(t) ==
    /\ tab[t].step = "subscribing" /\ Fault
    /\ tab' = [tab EXCEPT ![t].step = "readback"]
    /\ hung' = hung \cup {t}
    /\ UNCHANGED <<browser, server, check, mail>>

\* Mutant: the subscription that turns up after the deadline is taken for saved.
BugReadback(t) ==
    /\ tab[t].step = "readback"
    /\ tab' = Ended(t)
    /\ UNCHANGED <<browser, server, check, mail, hung, faults>>

\* Mutant: the read-back waits until there is a subscription.
BugUnbounded(t) ==
    /\ tab[t].step = "readback" /\ sub # None /\ Saving(t, sub)
    /\ UNCHANGED <<browser, server, check, hung, faults>>

\* The read-back is bounded too: a hung one ends like an empty one.
Readback(t) ==
    /\ tab[t].step = "readback"
    /\ \/ sub # None /\ Saving(t, sub)
       \/ sub = None /\ tab' = Ended(t) /\ UNCHANGED mail
    /\ UNCHANGED <<browser, server, check, hung, faults>>

\* The browser completes a subscribe() nobody waits for any more.
LateSubscribe(t) ==
    /\ t \in hung
    /\ Subscribe
    /\ slipped' = (slipped \/ (sub = None /\ tab[t].step # "readback"))
    /\ hung' = hung \ {t}
    /\ UNCHANGED <<permission, server, tab, check, mail, faults>>

\* The deadline of the save passes, or the connection drops.  The request may
\* still arrive.
SaveFails(t) ==
    /\ tab[t].step = "saving"
    /\ tab' = [tab EXCEPT ![t].step = "undoing"]
    /\ UNCHANGED <<browser, server, check, mail, hung, faults>>

\* unsubscribe() drops whatever the browser has; one that rejects is ignored, and
\* one that hangs has no deadline.
Undo(t) ==
    /\ tab[t].step = "undoing"
    /\ \/ sub' = None /\ UNCHANGED <<slipped, faults>>
       \/ Fault /\ slipped' = (slipped \/ sub # None) /\ UNCHANGED sub
    /\ tab' = Ended(t)
    /\ UNCHANGED <<permission, made, server, check, mail, hung>>

\* Mutant: the server is told before the browser is asked.
BugLeave(t) ==
    /\ tab[t].step = "leaving"
    /\ \/ sub' = None /\ UNCHANGED faults
       \/ Fault /\ UNCHANGED sub
    /\ tab' = [tab EXCEPT ![t].step = "telling"]
    /\ mail' = mail \cup {[tab |-> t, kind |-> "drop", endpoint |-> tab[t].got]}
    /\ UNCHANGED <<permission, made, slipped, server, check, hung>>

\* Turning off: the browser first; the server is told only once that worked.
\* Neither await has a deadline.
Leave(t) ==
    /\ tab[t].step = "leaving"
    /\ \/ /\ sub' = None
          /\ tab' = [tab EXCEPT ![t].step = "telling"]
          /\ mail' = mail \cup {[tab |-> t, kind |-> "drop", endpoint |-> tab[t].got]}
          /\ UNCHANGED faults
       \/ Fault /\ tab' = Ended(t) /\ UNCHANGED <<sub, mail>>
    /\ UNCHANGED <<permission, made, slipped, server, check, hung>>

TellFails(t) ==
    /\ tab[t].step = "telling" /\ Fault
    /\ tab' = Ended(t)
    /\ UNCHANGED <<browser, server, check, mail, hung>>

----------------------------------------------------------------------------
(* The server.                                                             *)

\* Does the answer still reach the handler that asked?
Awaited(m) == tab[m.tab].got = m.endpoint /\ tab[m.tab].step = IF m.kind = "save" THEN "saving" ELSE "telling"

\* A signed-out session is redirected to the sign-in page: nothing is stored,
\* and the switch takes the subscription back.
Serve(m) ==
    /\ mail' = mail \ {m}
    /\ stored' = IF ~signedIn THEN stored
                 ELSE [stored EXCEPT ![m.endpoint] = IF m.kind = "save" THEN "live" ELSE "absent"]
    /\ tab' = IF ~Awaited(m) THEN tab
              ELSE IF m.kind = "save" /\ ~signedIn THEN [tab EXCEPT ![m.tab].step = "undoing"]
              ELSE Ended(m.tab)
    /\ UNCHANGED <<browser, signedIn, check, hung, faults>>

\* A reminder goes out; the push service answers 404 or 410 for an endpoint it
\* no longer knows, and sendPush disables the row.
Send(e) ==
    /\ stored[e] = "live" /\ e # sub
    /\ stored' = [stored EXCEPT ![e] = "disabled"]
    /\ UNCHANGED <<browser, signedIn, tab, check, mail, hung, faults>>

SignOut == signedIn /\ Fault /\ signedIn' = FALSE
           /\ UNCHANGED <<browser, stored, tab, check, mail, hung>>
SignIn == ~signedIn /\ signedIn' = TRUE
          /\ UNCHANGED <<browser, stored, tab, check, mail, hung, faults>>

\* The reader answers the prompt, or decides in the browser's site settings; a
\* browser that takes the permission back drops the subscription.
Decide ==
    /\ permission = "default" /\ permission' \in {"granted", "denied"}
    /\ UNCHANGED <<sub, made, slipped, server, tab, check, mail, hung, faults>>
Revoke ==
    /\ permission = "granted" /\ Fault
    /\ permission' = "denied" /\ sub' = None
    /\ UNCHANGED <<made, slipped, server, tab, check, mail, hung>>

----------------------------------------------------------------------------
(* The self-check: looks for a subscription, makes one, and drops it.      *)

Look(c) ==
    /\ check[c] = "idle" /\ permission = "granted"
    /\ sub = None
    /\ check' = [check EXCEPT ![c] = "subscribing"]
    /\ UNCHANGED <<browser, server, tab, mail, hung, faults>>

CheckSubscribes(c) ==
    /\ check[c] = "subscribing"
    /\ \/ Subscribe /\ check' = [check EXCEPT ![c] = "dropping"]
       \/ ~Subscribed /\ check' = [check EXCEPT ![c] = "idle"] /\ UNCHANGED <<sub, made>>
    /\ UNCHANGED <<permission, slipped, server, tab, mail, hung, faults>>

CheckDrops(c) ==
    /\ check[c] = "dropping"
    /\ \/ sub' = None /\ UNCHANGED <<slipped, faults>>
       \/ Fault /\ slipped' = (slipped \/ sub # None) /\ UNCHANGED sub
    /\ check' = [check EXCEPT ![c] = "idle"]
    /\ UNCHANGED <<permission, made, server, tab, mail, hung>>

\* Every one of these steps has a deadline of its own, or needs nobody's answer.
TimedStep(t) ==
    \/ Asked(t) \/ AskedTooLong(t) \/ SubscribeDone(t) \/ SubscribeFails(t) \/ SubscribeHangs(t)
    \/ Readback(t) \/ SaveFails(t)
\* These await unsubscribe(), or a fetch without a signal, for as long as it takes.
Unbounded == {"undoing", "leaving", "telling"}
TabStep(t) == TimedStep(t) \/ Undo(t) \/ Leave(t) \/ TellFails(t)
Paint(t) == PaintRead(t) \/ PaintEnd(t)
CheckStep(c) == Look(c) \/ CheckSubscribes(c) \/ CheckDrops(c)

Next ==
    \/ \E t \in Tabs : Open(t) \/ Visible(t) \/ Click(t) \/ TabStep(t) \/ Paint(t) \/ LateSubscribe(t)
    \/ \E m \in mail : Serve(m)
    \/ \E e \in Endpoints : Send(e)
    \/ \E c \in Checks : CheckStep(c)
    \/ SignOut \/ SignIn \/ Decide \/ Revoke

\* Deadlines pass (AbortSignal.timeout is there, as it is not on older Safari), and isBrave()
\* answers.  Nobody has to answer a prompt, and neither unsubscribe() nor the server has to
\* answer at all.
Fairness == \A t \in Tabs : WF_vars(TimedStep(t)) /\ WF_vars(Paint(t))

Spec == Init /\ [][Next]_vars
FairSpec == Spec /\ Fairness

----------------------------------------------------------------------------
(* Properties.                                                             *)

TypeOK ==
    /\ permission \in {"default", "granted", "denied"}
    /\ sub \in 0..made /\ made \in 0..MaxEndpoints
    /\ stored \in [Endpoints -> {"absent", "live", "disabled"}]
    /\ signedIn \in BOOLEAN /\ slipped \in BOOLEAN
    /\ tab \in [Tabs -> Tab]
    /\ check \in [Checks -> {"idle", "subscribing", "dropping"}]
    /\ mail \subseteq Request
    /\ hung \subseteq Tabs
    /\ faults \in 0..MaxFaults

Quiet == mail = {} /\ (\A t \in Tabs : tab[t].step \in {"closed", "idle"}) /\ (\A c \in Checks : check[c] = "idle")

\* The browser is never left subscribed to something the server never stored:
\* whatever failed, and whatever the other tabs did, once the handlers are done
\* a subscription has a live row -- unless the browser itself went on after a
\* deadline or refused to unsubscribe.
SubscribedIsStored == (Quiet /\ ~slipped /\ sub # None) => stored[sub] = "live"

\* The server never gives up a subscription the browser still has.
NeverForgottenStep ==
    (sub # None /\ sub' = sub /\ stored[sub] = "live") => stored'[sub] = "live"
NeverForgotten == [][NeverForgottenStep]_vars

\* Browser and server agree: a subscription that stays has a live row once the handlers are
\* done, and no step gives up the row of one the browser still has.
SwitchIsTrueStep == NeverForgottenStep /\ SubscribedIsStored'
SwitchIsTrue == [][SwitchIsTrueStep]_vars

\* "Race a promise against a deadline": a button that was pressed works again, whatever hangs,
\* unless the handler comes to an await that has no deadline.
Waiting(t) == tab[t].step \notin {"closed", "idle"}
ClickEnds == \A t \in Tabs : Waiting(t) ~> (~Waiting(t) \/ tab[t].step \in Unbounded)

----------------------------------------------------------------------------
(* What the code does not keep.                                            *)

\* Only the reader, or the browser, ends what the reader was told is on: the
\* self-check, and the undo of another tab, end it too.
OnlyTheReaderTurnsOff ==
    [][(sub # None /\ stored[sub] = "live" /\ sub' = None)
          => permission' = "denied" \/ \E t \in Tabs : tab[t].step = "leaving"]_vars

\* "So no branch can leave the button waiting forever": the branches that unsubscribe can.
NoBranchWaits == \A t \in Tabs : Waiting(t) ~> ~Waiting(t)
=============================================================================
