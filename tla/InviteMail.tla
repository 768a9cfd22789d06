----------------------------- MODULE InviteMail -----------------------------
(* sendInvites of packages/auth/src/invites.js behind POST /api/invite/email: the    *)
(* sends of the day are counted once, then each address is looked up, mailed and     *)
(* recorded in turn.  The limits exist because "it puts our domain on the envelope   *)
(* of mail a stranger did not ask for".                                             *)
EXTENDS Naturals, Sequences, FiniteSets

CONSTANTS
    Handlers,   \* submissions being served
    Inviters,
    Strangers,  \* addresses that may be typed; an inviter's own is its name
    DailyLimit, \* DAILY_SEND_LIMIT
    PerForm,    \* MAX_PER_SUBMISSION
    MaxForms,   \* bound: submissions
    MaxFaults,  \* bound: mails that bounce, inserts that fail, processes that die
    None

Addresses == Strangers \cup Inviters

VARIABLES
    sends,    \* invite_sends of the last day: who mailed whom, and how often
    handler,  \* locals of sendInvites
    mailed,   \* history: mails that left, by inviter and address
    together, \* history: submissions of one inviter at work at the same time
    forms, faults

vars == <<sends, handler, mailed, together, forms, faults>>

Idle == [pc |-> "idle", by |-> None, todo |-> <<>>]

\* The orders in which a form may name up to `n` addresses; parseAddresses leaves each once.
Lists(n) == {s \in UNION {[1..k -> Addresses]: k \in 1..n}:
                \A i, j \in DOMAIN s: s[i] = s[j] => i = j}

\* Who mailed whom, one for every time, of the pairs P: what a count(*) counts.
Rows(f, P) == UNION {{p} \X (1..f[p]): p \in P}
Of(f, i) == Cardinality(Rows(f, {i} \X Addresses))
To(f, e) == Cardinality(Rows(f, Inviters \X {e}))

TypeOK ==
    /\ sends \in [Inviters \X Addresses -> Nat]
    /\ mailed \in [Inviters \X Addresses -> Nat]
    /\ handler \in [Handlers -> [pc: {"idle", "count", "look", "mail", "record"},
                                 by: Inviters \cup {None},
                                 todo: Seq(Addresses)]]
    /\ together \in [Inviters -> Nat]
    /\ forms \in 0..MaxForms
    /\ faults \in 0..MaxFaults

Init ==
    /\ sends = [p \in Inviters \X Addresses |-> 0]
    /\ mailed = sends
    /\ handler = [h \in Handlers |-> Idle]
    /\ together = [i \in Inviters |-> 0]
    /\ forms = 0
    /\ faults = 0

AtWork(i) == Cardinality({h \in Handlers: handler[h].by = i})

\* A form with no address or with too many is refused before anything is read.
Submit(h, i, list) ==
    /\ forms < MaxForms
    /\ forms' = forms + 1
    /\ handler[h] = Idle
    /\ handler' = [handler EXCEPT ![h] = [pc |-> "count", by |-> i, todo |-> list]]
    /\ together' = [together EXCEPT ![i] = IF AtWork(i) + 1 > @ THEN AtWork(i) + 1 ELSE @]
    /\ UNCHANGED <<sends, mailed, faults>>

BugRemaining(i) == DailyLimit - (IF Of(sends, i) = 0 THEN 0 ELSE Of(sends, i) - 1)
Remaining(i) == IF Of(sends, i) >= DailyLimit THEN 0 ELSE DailyLimit - Of(sends, i)

MinOf(m, n) == IF m < n THEN m ELSE n

\* invitesSentSince, once for the whole form; what is over the limit is skipped.
Count(h) ==
    LET r == Remaining(handler[h].by)
        todo == handler[h].todo IN
    /\ handler[h].pc = "count"
    /\ handler' = [handler EXCEPT ![h] =
           IF r = 0 THEN Idle
           ELSE [@ EXCEPT !.pc = "look", !.todo = SubSeq(todo, 1, MinOf(Len(todo), r))]]
    /\ UNCHANGED <<sends, mailed, together, forms, faults>>

\* The next address of the form, or its end.
Next1(h) == LET rest == Tail(handler[h].todo) IN
    IF rest = <<>> THEN Idle ELSE [handler[h] EXCEPT !.pc = "look", !.todo = rest]

\* A mistaken version: scoped to one inviter.
BugQuiet(i, e) == sends[<<i, e>>] > 0
\* invitedRecently: by anybody.
Quiet(i, e) == To(sends, e) > 0

\* Never the sender, never somebody who had one of these from anybody.
Look(h) ==
    LET i == handler[h].by
        e == Head(handler[h].todo) IN
    /\ handler[h].pc = "look"
    /\ handler' = [handler EXCEPT ![h] =
           IF e = i \/ Quiet(i, e) THEN Next1(h) ELSE [@ EXCEPT !.pc = "mail"]]
    /\ UNCHANGED <<sends, mailed, together, forms, faults>>

\* send: a mail that is refused is skipped.
Mail(h) ==
    LET p == <<handler[h].by, Head(handler[h].todo)>> IN
    /\ handler[h].pc = "mail"
    /\ \/ /\ mailed' = [mailed EXCEPT ![p] = @ + 1]
          /\ handler' = [handler EXCEPT ![h].pc = "record"]
          /\ UNCHANGED faults
       \/ /\ faults < MaxFaults
          /\ faults' = faults + 1
          /\ handler' = [handler EXCEPT ![h] = Next1(h)]
          /\ UNCHANGED mailed
    /\ UNCHANGED <<sends, together, forms>>

\* recordInviteSend; if it throws, the mail has left and nothing says so.
Record(h) ==
    LET p == <<handler[h].by, Head(handler[h].todo)>> IN
    /\ handler[h].pc = "record"
    /\ handler' = [handler EXCEPT ![h] = Next1(h)]
    /\ \/ sends' = [sends EXCEPT ![p] = @ + 1] /\ UNCHANGED faults
       \/ faults < MaxFaults /\ faults' = faults + 1 /\ UNCHANGED sends
    /\ UNCHANGED <<mailed, together, forms>>

Die(h) ==
    /\ handler[h] # Idle
    /\ faults < MaxFaults
    /\ faults' = faults + 1
    /\ handler' = [handler EXCEPT ![h] = Idle]
    /\ UNCHANGED <<sends, mailed, together, forms>>

Next ==
    \E h \in Handlers:
        \/ \E i \in Inviters, list \in Lists(PerForm): Submit(h, i, list)
        \/ Count(h) \/ Look(h) \/ Mail(h) \/ Record(h) \/ Die(h)

Spec == Init /\ [][Next]_vars

-----------------------------------------------------------------------------
(* Properties                                                                  *)

\* A day's mails of one inviter stay within the limit, but for mails whose record failed and
\* for what the inviter's other forms, counted at the same time, had still to send.
LimitHolds ==
    \A i \in Inviters:
        Of(mailed, i) <= DailyLimit + faults
                         + (IF together[i] = 0 THEN 0 ELSE together[i] - 1) * MinOf(PerForm, DailyLimit)

\* A stranger hears from the site once a month whoever types the address, but for mails whose
\* record failed and for forms that looked at the same time; nobody is mailed their own invite.
StrangersLeftAlone ==
    /\ \A e \in Addresses: To(mailed, e) <= Cardinality(Handlers) + faults
    /\ \A i \in Inviters: mailed[<<i, i>>] = 0

\* The mail the site sends for its readers is bounded, for the one who sends and for the one
\* who gets it.
MailIsBounded == LimitHolds /\ StrangersLeftAlone

\* Spec does not imply the following: two forms look at once (sendInvites: "never pile onto
\* somebody who has already had one of these from anybody").
MailedOnce == faults = 0 => \A e \in Addresses: To(mailed, e) <= 1
=============================================================================
