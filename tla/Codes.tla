------------------------------- MODULE Codes -------------------------------
(***************************************************************************)
(* Credit codes and scarce invites.  A code or an invite is claimed in its  *)
(* own table first and becomes days by a second statement, the insert a     *)
(* paid term takes, once for an account and a reference.  An account has a  *)
(* quota of invites: one that was withdrawn unused gives its slot back.     *)
(***************************************************************************)
EXTENDS Naturals, FiniteSets

CONSTANTS Accounts, Newcomers,  \* accounts; those of them that are being created
          Handlers,             \* requests being served
          CodeIds, InviteIds,
          Quota,                \* config.credits.inviteQuota
          MaxUses,              \* a code's max_redemptions
          MaxAsks, MaxFaults,   \* bounds: requests, failed grants
          None

VARIABLES live,        \* config.live.enabled, as the running process read it
          codes, invites,
          terms,       \* rows of live_passes and memberships with a grant_ref
          req, asks, faults
vars == <<live, codes, invites, terms, req, asks, faults>>

Units == {"live", "premium"}
NoCode == [unit |-> None, takers |-> {}, over |-> FALSE]
NoInvite == [by |-> None, user |-> None, withdrawn |-> FALSE, expired |-> FALSE]
Idle == [step |-> "idle", by |-> None, id |-> None, unit |-> None]
Steps == {"idle", "redeem", "grant", "withdraw", "invitee", "inviter"}
Refs == {<<"code", i, "self">> : i \in CodeIds} \cup
        {<<"invite", i, side>> : i \in InviteIds, side \in {"invitee", "inviter"}}

TypeOK ==
    /\ live \in BOOLEAN
    /\ codes \in [CodeIds -> [unit : Units \cup {None}, takers : SUBSET Accounts, over : BOOLEAN]]
    /\ invites \in [InviteIds -> [by : Accounts \cup {None}, user : Accounts \cup {None},
                            withdrawn : BOOLEAN, expired : BOOLEAN]]
    /\ \A t \in terms : t.user \in Accounts /\ t.ref \in Refs /\ t.unit \in Units
    /\ \A h \in Handlers : req[h].step \in Steps /\ req[h].by \in Accounts \cup {None}
    /\ asks \in 0..MaxAsks /\ faults \in 0..MaxFaults

Init == /\ live \in BOOLEAN
        /\ codes = [i \in CodeIds |-> NoCode] /\ invites = [i \in InviteIds |-> NoInvite]
        /\ terms = {}
        /\ req = [h \in Handlers |-> Idle] /\ asks = 0 /\ faults = 0

Fault == faults < MaxFaults /\ faults' = faults + 1
Asked(h) == req[h].step = "idle" /\ asks < MaxAsks /\ asks' = asks + 1
Done(h) == [req EXCEPT ![h] = Idle]

\* unitUsable
BugUsable(unit) == TRUE
Usable(unit) == unit = "premium" \/ live

\* grantDays: on conflict (user_id, grant_ref) do nothing, in the table of the unit.
Granted(user, unit, ref) == terms \cup {[user |-> user, unit |-> unit, ref |-> ref]}

(***************************************************************************)
(* Codes                                                                    *)
(***************************************************************************)
\* mintCode, from the command line; the default unit is one that can be used.
Mint(i, unit) ==
    /\ codes[i].unit = None
    /\ codes' = [codes EXCEPT ![i].unit = unit]
    /\ UNCHANGED <<live, invites, terms, req, asks, faults>>

\* credits revoke <codeId>, or the code expires
Withhold(i) ==
    /\ codes[i].unit # None /\ ~codes[i].over
    /\ codes' = [codes EXCEPT ![i].over = TRUE]
    /\ UNCHANGED <<live, invites, terms, req, asks, faults>>

\* POST /api/credits/redeem up to unitOf: refused before the code is spent.  A
\* code that was never made is refused too, and nobody knows one in advance.
AskRedeem(h, u, i) ==
    /\ Asked(h) /\ u \notin Newcomers /\ codes[i].unit # None
    /\ req' = [req EXCEPT ![h] =
                IF ~Usable(codes[i].unit) THEN Idle
                ELSE [Idle EXCEPT !.step = "redeem", !.by = u, !.id = i]]
    /\ UNCHANGED <<live, codes, invites, terms, faults>>

\* redeem: one claim for an account, as many as the code allows.
BugFree(i, u) == u \notin codes[i].takers /\ Cardinality(codes[i].takers) <= MaxUses
Free(i, u) == u \notin codes[i].takers /\ Cardinality(codes[i].takers) < MaxUses
Redeem(h) ==
    LET i == req[h].id u == req[h].by IN
    /\ req[h].step = "redeem"
    /\ IF ~codes[i].over /\ Free(i, u)
         THEN /\ codes' = [codes EXCEPT ![i].takers = @ \cup {u}]
              /\ req' = [req EXCEPT ![h].step = "grant", ![h].unit = codes[i].unit]
         ELSE req' = Done(h) /\ UNCHANGED codes
    /\ UNCHANGED <<live, invites, terms, asks, faults>>

\* onGrant; when it fails the redemption stands.
Grant(h) ==
    /\ req[h].step = "grant"
    /\ \/ terms' = Granted(req[h].by, req[h].unit, <<"code", req[h].id, "self">>) /\ UNCHANGED faults
       \/ Fault /\ UNCHANGED terms
    /\ req' = Done(h)
    /\ UNCHANGED <<live, codes, invites, asks>>

\* "adding it by hand later": grantDays for somebody whose redemption stands
GrantByHand(u, i) ==
    /\ u \in codes[i].takers
    /\ terms' = Granted(u, codes[i].unit, <<"code", i, "self">>)
    /\ UNCHANGED <<live, codes, invites, req, asks, faults>>

(***************************************************************************)
(* Invites                                                                  *)
(***************************************************************************)
Of(u) == {i \in InviteIds : invites[i].by = u}
\* aff_insert_invite: what counts against the quota, under a lock per inviter
BugCharged(u) == {i \in Of(u) : ~invites[i].withdrawn}
Charged(u) == {i \in Of(u) : ~invites[i].withdrawn \/ invites[i].user # None}

\* POST /api/invites
CreateInvite(u, i) ==
    /\ asks < MaxAsks /\ asks' = asks + 1
    /\ invites[i].by = None /\ Cardinality(Charged(u)) < Quota
    /\ invites' = [invites EXCEPT ![i].by = u]
    /\ UNCHANGED <<live, codes, terms, req, faults>>

Expire(i) ==
    /\ invites[i].by # None /\ ~invites[i].expired
    /\ invites' = [invites EXCEPT ![i].expired = TRUE]
    /\ UNCHANGED <<live, codes, terms, req, asks, faults>>

\* POST /api/invites/:id/revoke: the invite is read ...
BugMine(u, i) == invites[i].user = None
Mine(u, i) == invites[i].by = u /\ invites[i].user = None
AskWithdraw(h, u, i) ==
    /\ Asked(h) /\ u \notin Newcomers
    /\ req' = IF Mine(u, i) THEN [req EXCEPT ![h] = [Idle EXCEPT !.step = "withdraw", !.by = u, !.id = i]] ELSE req
    /\ UNCHANGED <<live, codes, invites, terms, faults>>
\* ... and withdrawn by its id; it may have been accepted in between.
Withdraw(h) ==
    /\ req[h].step = "withdraw"
    /\ invites' = [invites EXCEPT ![req[h].id].withdrawn = TRUE]
    /\ req' = Done(h)
    /\ UNCHANGED <<live, codes, terms, asks, faults>>

\* inviteStatus, in the order of its questions; inviteOut of the inviter's page
Status(i) == IF invites[i].by = None THEN "invalid" ELSE IF invites[i].withdrawn THEN "revoked"
             ELSE IF invites[i].user # None THEN "used" ELSE IF invites[i].expired THEN "expired" ELSE "ok"

\* inviteBonus
Bonus == IF live THEN "live" ELSE "premium"

\* acceptInvite, for an account that its emailed link has just created.
Accept(h, u, i) ==
    /\ Asked(h) /\ u \in Newcomers
    /\ \A j \in InviteIds : invites[j].user # u
    /\ Status(i) = "ok" /\ invites[i].by # u
    /\ invites' = [invites EXCEPT ![i].user = u]
    /\ req' = [req EXCEPT ![h] = [Idle EXCEPT !.step = "invitee", !.by = u, !.id = i, !.unit = Bonus]]
    /\ UNCHANGED <<live, codes, terms, faults>>

\* Its loop: one side that fails does not take the other's days with it.
BugAfterFailure(h) == Idle
AfterFailure(h) == IF req[h].step = "invitee" THEN [req[h] EXCEPT !.step = "inviter"] ELSE Idle
Side(h) == IF req[h].step = "invitee" THEN req[h].by ELSE invites[req[h].id].by
Reward(h) ==
    /\ req[h].step \in {"invitee", "inviter"}
    /\ \/ /\ terms' = Granted(Side(h), req[h].unit, <<"invite", req[h].id, req[h].step>>)
          /\ req' = [req EXCEPT ![h] = IF @.step = "invitee" THEN [@ EXCEPT !.step = "inviter"] ELSE Idle]
          /\ UNCHANGED faults
       \/ /\ Fault /\ req' = [req EXCEPT ![h] = AfterFailure(h)] /\ UNCHANGED terms
    /\ UNCHANGED <<live, codes, invites, asks>>

\* A deployment: the requests end, and Live TV may be on or off afterwards.
Restart ==
    /\ Fault /\ live' \in BOOLEAN /\ req' = [h \in Handlers |-> Idle]
    /\ UNCHANGED <<codes, invites, terms, asks>>

Next ==
    \/ \E i \in CodeIds : (\E unit \in Units : Mint(i, unit)) \/ Withhold(i)
    \/ \E u \in Accounts, i \in CodeIds : GrantByHand(u, i) \/ \E h \in Handlers : AskRedeem(h, u, i)
    \/ \E i \in InviteIds : Expire(i)
    \/ \E u \in Accounts, i \in InviteIds :
        \/ u \notin Newcomers /\ CreateInvite(u, i)
        \/ \E h \in Handlers : AskWithdraw(h, u, i) \/ Accept(h, u, i)
    \/ \E h \in Handlers : Redeem(h) \/ Grant(h) \/ Withdraw(h) \/ Reward(h)
    \/ Restart

Spec == Init /\ [][Next]_vars

----------------------------------------------------------------------------
\* However codes are redeemed at once, retried or made good by hand, a code gives
\* days to no more accounts than it was made for, and to each of them once.
CodesAreBounded ==
    \A i \in CodeIds : LET given == {t \in terms : t.ref = <<"code", i, "self">>} IN
        /\ Cardinality(given) <= MaxUses
        /\ \A t \in given : t.user \in codes[i].takers /\ t.unit = codes[i].unit

\* A code whose days could not be used here is not spent.
NothingIsBurnt == \A i \in CodeIds : codes'[i].takers # codes[i].takers => codes[i].unit = "premium" \/ live

\* An account brings in no more people by its invites than its quota, whichever
\* invites it withdraws, those being accepted at that moment included.
InvitesAreScarce ==
    \A u \in Accounts : Cardinality({i \in Of(u) : invites[i].user # None \/ Status(i) = "ok"}) <= Quota

\* An invite is withdrawn by whoever made it, and one that was withdrawn in time
\* brings nobody in.
OnlyMineWithdrawn ==
    \A i \in InviteIds :
        /\ invites'[i].withdrawn = invites[i].withdrawn
            \/ \E h \in Handlers : req[h].step = "withdraw" /\ req[h].id = i /\ req[h].by = invites[i].by
        /\ invites[i].withdrawn => invites'[i].user = invites[i].user

\* Both sides of an accepted invite get their days, each once and of one unit ...
BothAreRewarded ==
    \A t, s \in terms : t.ref[1] = "invite" /\ s.ref[1] = "invite" /\ t.ref[2] = s.ref[2] =>
        /\ t.unit = s.unit /\ (t.ref = s.ref => t = s)
        /\ t.user = IF t.ref[3] = "invitee" THEN invites[t.ref[2]].user ELSE invites[t.ref[2]].by
\* ... and an insert that fails costs one side its days and never both.
Missed ==
    LET lost(i, side) ==
            /\ invites[i].user # None /\ \A t \in terms : t.ref # <<"invite", i, side>>
            /\ \A h \in Handlers : req[h].id # i \/ req[h].step \notin {side, "invitee"}
    IN  {x \in InviteIds \X {"invitee", "inviter"} : lost(x[1], x[2])}
OneFailureOneSide == Restart \/ Cardinality(Missed') <= Cardinality(Missed) + 1

CodesHoldStep ==
    /\ CodesAreBounded' /\ NothingIsBurnt /\ InvitesAreScarce' /\ OnlyMineWithdrawn
    /\ BothAreRewarded' /\ OneFailureOneSide
CodesHold == [][CodesHoldStep]_vars

\* Not so: an expired invite keeps its slot, and the page shows no button to
\* withdraw it with.
Withdrawable(i) == invites[i].user = None /\ ~invites[i].withdrawn /\ ~invites[i].expired
SlotsComeBack == \A u \in Accounts : \A i \in Charged(u) : invites[i].user # None \/ Withdrawable(i)
=============================================================================
