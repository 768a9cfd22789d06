----------------------------- MODULE RadioRelay -----------------------------
(***************************************************************************)
(* Radio heard through the site, on one's own line or on somebody else's:   *)
(* a manifest is tuned and fetched as the owner of the line, its addresses  *)
(* come back under that owner, and each call asks again whether the line is *)
(* open to the listener.  A tune address and a bearer are of one session of *)
(* the owner's at the provider; the site keeps both for a while.            *)
(***************************************************************************)
EXTENDS Naturals, FiniteSets

CONSTANTS Tabs, Users, UserOf,   \* whose tab it is
          Owners,                \* users with a line of their own
          TuneTtl, None,
          MaxTime, MaxAsks, MaxChanges   \* bounds

VARIABLES
    now,
    open,      \* share_audience and its grants: <<listener, owner>>
    session,   \* the number of the owner's session that the provider honours
    row,       \* the session that is stored
    bearer,    \* bearers: the session of the one that is held, or None
    tunes,     \* the tune address that is held: of which session, until when
    req, got,
    let,       \* history: the line was open to the listener when the request came
    inFlight,  \* sharedFetch: owners whose manifest, and whose segment, is being fetched
    asks, changes

vars == <<now, open, session, row, bearer, tunes, req, got, let, inFlight, asks, changes>>

What == {"manifest", "segment"}
Idle == [phase |-> "idle", line |-> None, what |-> None, url |-> 0, of |-> None]
Sessions == 1..(MaxChanges + 1)

TypeOK ==
    /\ now \in 0..MaxTime /\ open \subseteq Users \X Owners
    /\ session \in [Owners -> Sessions] /\ row \in [Owners -> Sessions]
    /\ bearer \in [Owners -> Sessions \cup {None}]
    /\ req \in [Tabs -> [phase : {"idle", "tune", "mint", "fetch", "waits"}, line : Owners \cup {None},
                         what : What \cup {None}, url : Sessions \cup {0}, of : Owners \cup {None}]]
    /\ \A t \in Tabs : got[t] \subseteq [under : Owners, line : Owners, url : Sessions]
    /\ let \in [Tabs -> BOOLEAN] /\ inFlight \subseteq Owners \X What
    /\ asks \in 0..MaxAsks /\ changes \in 0..MaxChanges

Init ==
    /\ now = 0 /\ open \in SUBSET {p \in Users \X Owners : p[1] # p[2]}
    /\ session = [o \in Owners |-> 1] /\ row = session
    /\ bearer = [o \in Owners |-> None] /\ tunes = [o \in Owners |-> [of |-> 0, until |-> 0]]
    /\ req = [t \in Tabs |-> Idle] /\ got = [t \in Tabs |-> {}] /\ let = [t \in Tabs |-> FALSE]
    /\ inFlight = {} /\ asks = 0 /\ changes = 0

Tick == now < MaxTime /\ now' = now + 1 /\ UNCHANGED <<open, session, row, bearer, tunes, req, got, let, inFlight, asks, changes>>

\* The owner opens the line or closes it; the provider ends a session; the owner signs in again.
Share(u, o) ==
    /\ u # o /\ changes < MaxChanges /\ changes' = changes + 1
    /\ open' = IF <<u, o>> \in open THEN open \ {<<u, o>>} ELSE open \cup {<<u, o>>}
    /\ UNCHANGED <<now, session, row, bearer, tunes, req, got, let, inFlight, asks>>
Lapse(o) ==
    /\ changes < MaxChanges /\ changes' = changes + 1
    /\ session' = [session EXCEPT ![o] = @ + 1]
    /\ UNCHANGED <<now, open, row, bearer, tunes, req, got, let, inFlight, asks>>
Renew(o) ==
    /\ row[o] # session[o]
    /\ row' = [row EXCEPT ![o] = session[o]] /\ bearer' = [bearer EXCEPT ![o] = None]
    /\ UNCHANGED <<now, open, session, tunes, req, got, let, inFlight, asks, changes>>

Open(u, o) == u = o \/ <<u, o>> \in open
\* A mistaken version: the address came from a manifest that was let through.
BugAdmits(u, o, what) == what = "segment" \/ Open(u, o)
Admits(u, o, what) == Open(u, o)

\* GET /radio/stream.m3u8 and /radio/shared/:owner/stream.m3u8
Ask(t, o) ==
    /\ req[t].phase = "idle" /\ asks < MaxAsks /\ asks' = asks + 1
    /\ let' = [let EXCEPT ![t] = Open(UserOf[t], o)]
    /\ Admits(UserOf[t], o, "manifest")
    /\ req' = [req EXCEPT ![t] = [Idle EXCEPT !.phase = "tune", !.line = o, !.what = "manifest"]]
    /\ UNCHANGED <<now, open, session, row, bearer, tunes, got, inFlight, changes>>

\* GET /radio/proxy and /radio/shared/:owner/proxy, for an address of a manifest
AskSegment(t, g) ==
    /\ req[t].phase = "idle" /\ g \in got[t] /\ asks < MaxAsks /\ asks' = asks + 1
    /\ let' = [let EXCEPT ![t] = Open(UserOf[t], g.under)]
    /\ Admits(UserOf[t], g.under, "segment")
    /\ req' = [req EXCEPT ![t] = [Idle EXCEPT !.phase = "fetch", !.line = g.under, !.what = "segment", !.of = g.line, !.url = g.url]]
    /\ UNCHANGED <<now, open, session, row, bearer, tunes, got, inFlight, changes>>

\* bearerFor: the one in memory, or the one that is stored.
Bearer(o) == IF bearer[o] # None THEN bearer[o] ELSE row[o]

\* tune: the address that is held, or one is minted.
Tune(t) ==
    /\ req[t].phase = "tune"
    /\ LET o == req[t].line IN
       IF tunes[o].until > now THEN req' = [req EXCEPT ![t].phase = "fetch", ![t].url = tunes[o].of, ![t].of = o] /\ UNCHANGED bearer
       ELSE /\ bearer' = [bearer EXCEPT ![o] = Bearer(o)]
            /\ req' = [req EXCEPT ![t].phase = "mint", ![t].of = o, ![t].url = Bearer(o)]
    /\ UNCHANGED <<now, open, session, row, tunes, got, let, inFlight, asks, changes>>
Mint(t) ==
    /\ req[t].phase = "mint"
    /\ LET o == req[t].line IN
       IF req[t].url # session[o] THEN req' = [req EXCEPT ![t] = Idle] /\ UNCHANGED tunes
       ELSE /\ tunes' = [tunes EXCEPT ![o] = [of |-> req[t].url, until |-> now + TuneTtl]]
            /\ req' = [req EXCEPT ![t].phase = "fetch"]
    /\ UNCHANGED <<now, open, session, row, bearer, got, let, inFlight, asks, changes>>

\* sharedFetch: what is being fetched is waited for.
Target(t) == <<req[t].of, req[t].what>>
Fetch(t) ==
    /\ req[t].phase = "fetch"
    /\ req' = [req EXCEPT ![t].phase = "waits"]
    /\ inFlight' = inFlight \cup {Target(t)}
    /\ bearer' = IF Target(t) \in inFlight THEN bearer ELSE [bearer EXCEPT ![req[t].line] = Bearer(req[t].line)]
    /\ UNCHANGED <<now, open, session, row, tunes, got, let, asks, changes>>

Waits(g) == {t \in Tabs : req[t].phase = "waits" /\ Target(t) = g}
\* A mistaken version: the manifest of a shared line names the listener's own route.
BugUnder(t) == UserOf[t]
Under(t) == req[t].line
\* The answer goes to all who wait for it.
Answer(g) ==
    /\ g \in inFlight /\ \A t \in Waits(g) : req[t].url = session[g[1]]
    /\ inFlight' = inFlight \ {g}
    /\ req' = [t \in Tabs |-> IF t \in Waits(g) THEN Idle ELSE req[t]]
    /\ got' = [t \in Tabs |-> IF t \notin Waits(g) \/ g[2] = "segment" THEN got[t]
                              ELSE {[under |-> Under(t), line |-> g[1], url |-> req[t].url]}]
    /\ UNCHANGED <<now, open, session, row, bearer, tunes, let, asks, changes>>

\* Refused with 401 or 403: the bearer of the line is forgotten, the tune address is not.
Forgets(g) == {req[t].line : t \in Waits(g)}
Refuse(g) ==
    /\ g \in inFlight /\ \E t \in Waits(g) : req[t].url # session[g[1]] \/ bearer[req[t].line] # session[req[t].line]
    /\ inFlight' = inFlight \ {g}
    /\ req' = [t \in Tabs |-> IF t \in Waits(g) THEN Idle ELSE req[t]]
    /\ bearer' = [o \in Owners |-> IF o \in Forgets(g) THEN None ELSE bearer[o]]
    /\ UNCHANGED <<now, open, session, row, tunes, got, let, asks, changes>>

Next ==
    \/ Tick
    \/ \E u \in Users, o \in Owners : Share(u, o)
    \/ \E o \in Owners : Lapse(o) \/ Renew(o)
    \/ \E t \in Tabs : \/ \E o \in Owners : Ask(t, o)
                       \/ \E g \in got[t] : AskSegment(t, g)
                       \/ Tune(t) \/ Mint(t) \/ Fetch(t)
    \/ \E g \in Owners \X What : Answer(g) \/ Refuse(g)

Spec == Init /\ [][Next]_vars

----------------------------------------------------------------------------
(* Properties                                                               *)

\* "Asked on every call, not once at the page": nothing is fetched for a listener whom the line was
\* closed to when the call came, though it was open when the manifest was.
OpenWhenAsked == \A t \in Tabs : req[t].phase # "idle" => let[t]

\* "Used as the OWNER": what a manifest names comes back under the line that it was tuned on.
SameLine == \A t \in Tabs : /\ \A g \in got[t] : g.under = g.line
                            /\ req[t].phase \in {"fetch", "waits"} => req[t].of = req[t].line

\* Who waits, waits for a fetch that is under way.
WaitsForOne == \A t \in Tabs : req[t].phase = "waits" => Target(t) \in inFlight

RelayHolds == OpenWhenAsked /\ SameLine /\ WaitsForOne

\* A session is forgotten when it was refused: but the tune address of one that ended
\* is kept for the rest of its minute, is refused again, and each time the new session is forgotten.
GoodSessionsStay == [][\A o \in Owners : bearer[o] = session[o] => bearer'[o] # None]_vars
=============================================================================
