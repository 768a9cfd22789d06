---------------------------- MODULE RadioSession ----------------------------
(***************************************************************************)
(* A reader's SiriusXM session: packages/radio/src/session.js, pending.js  *)
(* and the routes /api/radio/connect, verify, cancel and disconnect.  The  *)
(* session is a sealed row; the bearer opened from it is held in memory,   *)
(* loaded by one call that the others join, and dropped when the vault     *)
(* locks, when SiriusXM refuses it, and when the row is replaced.          *)
(***************************************************************************)
EXTENDS Integers, FiniteSets

CONSTANTS Callers,       \* requests that may ask for the bearer at once
          Forms,         \* requests of the connect form
          MaxLogins,     \* bound: sign-ins that end in a session
          MaxGens,       \* bound: refreshes of one session
          MaxJars,       \* bound: codes sent
          MaxEvents      \* bound: locks, lapses, refusals, cancels, faults

Token == [login : 1..MaxLogins, gen : 0..MaxGens]
None == [login |-> 0, gen |-> 0]
Tokens == Token \cup {None}

VARIABLES
    row,        \* siriusxm_sessions: the stored session, or None
    unlocked,   \* the reader's vault is open in this process
    bearer,     \* bearers: the bearer held in memory, or None
    entry,      \* inflight: whose load the others join, or "none"
    load,       \* the loads: where each is, and what it carries
    jar,        \* pending.js: the sign-in that waits for its code, or 0
    form,       \* the requests of the connect form
    lapsed,     \* tokens past their time
    logins, jars, events,
    want,       \* history: the login the reader last asked for, 0 for none
    straddled,  \* history: a load was under way while the row was replaced
    slipped,    \* history: a load had sealed its answer when the vault locked
    forgets     \* history: times the memory was dropped

vars == <<row, unlocked, bearer, entry, load, jar, form, lapsed, logins, jars, events, want, straddled, slipped, forgets>>

LoadSteps == {"idle", "asking", "read", "refreshing", "saving", "stored"}
FormSteps == {"idle", "sending", "verifying", "saving", "removing", "forgetting"}
NoLoad == [step |-> "idle", got |-> None]
NoForm == [step |-> "idle", jar |-> 0, login |-> 0]
Loading == {c \in Callers : load[c].step # "idle"}

Init ==
    /\ row = [login |-> 1, gen |-> 0] /\ unlocked = TRUE
    /\ bearer = None /\ entry = "none" /\ load = [c \in Callers |-> NoLoad]
    /\ jar = 0 /\ form = [f \in Forms |-> NoForm]
    /\ lapsed = {} /\ logins = 1 /\ jars = 0 /\ events = MaxEvents
    /\ want = 1 /\ straddled = FALSE /\ slipped = FALSE /\ forgets = 0

Event == events > 0 /\ events' = events - 1
Memory == <<bearer, entry, forgets>>
SignIn == <<jar, form, logins, jars>>
Past == <<want, straddled, slipped>>

\* Mutant: the bearer outlives the session it was opened from.
BugForget == entry' = "none" /\ forgets' = forgets + 1 /\ UNCHANGED bearer

\* forget: the bearer, and the load that the others would join.
Forget == bearer' = None /\ entry' = "none" /\ forgets' = forgets + 1

----------------------------------------------------------------------------
(* bearerFor and loadBearer.                                               *)

\* Mutant: every call mints its own.
BugMayLoad == bearer = None \/ bearer \in lapsed

MayLoad == (bearer = None \/ bearer \in lapsed) /\ entry = "none"

Start(c) ==
    /\ load[c].step = "idle" /\ MayLoad
    /\ load' = [load EXCEPT ![c] = [NoLoad EXCEPT !.step = "asking"]]
    /\ entry' = c
    /\ UNCHANGED <<row, unlocked, bearer, forgets, lapsed, events, SignIn, Past>>

\* Mutant: what is held in memory saves the read.
BugStored == IF bearer # None THEN bearer ELSE row

Stored == row

Read(c) ==
    /\ load[c].step = "asking"
    /\ load' = [load EXCEPT ![c] = [step |-> "read", got |-> Stored]]
    /\ UNCHANGED <<row, unlocked, Memory, lapsed, events, SignIn, Past>>

\* The load is over: the entry goes, whichever load it was of.
Ends(c) == load' = [load EXCEPT ![c] = NoLoad] /\ entry' = "none"
Holds(t) == bearer' = t /\ UNCHANGED forgets

\* The row is opened: there is none, it is locked, it is good, or it has lapsed.
Opens(c) ==
    LET t == load[c].got
        good == t # None /\ unlocked
    IN /\ load[c].step = "read"
       /\ \/ ~good /\ Ends(c) /\ UNCHANGED <<bearer, forgets>>
          \/ good /\ t \notin lapsed /\ Ends(c) /\ Holds(t)
          \/ good /\ t \in lapsed /\ load' = [load EXCEPT ![c].step = "refreshing"] /\ UNCHANGED Memory
       /\ UNCHANGED <<row, unlocked, lapsed, events, SignIn, Past>>

\* SiriusXM answers with a new token.  It is sealed there and then: a vault that
\* locked in the meantime throws, and the new token is lost.
Refreshed(c) ==
    /\ load[c].step = "refreshing" /\ load[c].got.gen < MaxGens
    /\ IF unlocked THEN load' = [load EXCEPT ![c].step = "saving", ![c].got.gen = @ + 1] /\ UNCHANGED entry
                   ELSE Ends(c)
    /\ UNCHANGED <<row, unlocked, bearer, forgets, lapsed, events, SignIn, Past>>

LoadFails(c) ==
    /\ load[c].step \in {"refreshing", "saving"} /\ Event
    /\ Ends(c)
    /\ UNCHANGED <<row, unlocked, bearer, forgets, lapsed, SignIn, Past>>

\* saveSiriusXm inserts or replaces.
Save(c) ==
    /\ load[c].step = "saving"
    /\ row' = load[c].got
    /\ load' = [load EXCEPT ![c].step = "stored"]
    /\ UNCHANGED <<unlocked, Memory, lapsed, events, SignIn, Past>>

Hold(c) ==
    /\ load[c].step = "stored"
    /\ Ends(c) /\ Holds(load[c].got)
    /\ UNCHANGED <<row, unlocked, lapsed, events, SignIn, Past>>

----------------------------------------------------------------------------
(* What drops the bearer, and the passing of time.                         *)

Lapse(t) ==
    /\ t \notin lapsed /\ Event
    /\ lapsed' = lapsed \cup {t}
    /\ UNCHANGED <<row, unlocked, Memory, load, SignIn, Past>>

\* SiriusXM answered 401 or 403.
Refused ==
    /\ bearer # None /\ Event
    /\ Forget
    /\ UNCHANGED <<row, unlocked, load, lapsed, SignIn, Past>>

Lock ==
    /\ unlocked /\ Event
    /\ unlocked' = FALSE /\ Forget
    /\ slipped' = (slipped \/ \E c \in Callers : load[c].step \in {"saving", "stored"})
    /\ UNCHANGED <<row, load, lapsed, SignIn, want, straddled>>

Unlock ==
    /\ ~unlocked
    /\ unlocked' = TRUE /\ slipped' = FALSE
    /\ UNCHANGED <<row, Memory, load, lapsed, events, SignIn, want, straddled>>

----------------------------------------------------------------------------
(* The connect form.                                                       *)

Sheet(f, step) == form' = [form EXCEPT ![f].step = step]

\* No code is sent that could not be saved.
Connect(f) ==
    /\ form[f].step = "idle" /\ unlocked /\ jars < MaxJars
    /\ Sheet(f, "sending")
    /\ UNCHANGED <<row, unlocked, Memory, load, jar, logins, jars, lapsed, events, Past>>
CodeSent(f) ==
    /\ form[f].step = "sending" /\ jars < MaxJars
    /\ jars' = jars + 1 /\ jar' = jars + 1
    /\ form' = [form EXCEPT ![f] = NoForm]
    /\ UNCHANGED <<row, unlocked, Memory, load, logins, lapsed, events, Past>>

\* Mutant: the jar is looked at, and left for the next press.
BugTaken == jar

\* takePending takes it.
Taken == 0

Verify(f) ==
    /\ form[f].step = "idle" /\ jar # 0
    /\ form' = [form EXCEPT ![f] = [NoForm EXCEPT !.step = "verifying", !.jar = jar]]
    /\ jar' = Taken
    /\ UNCHANGED <<row, unlocked, Memory, load, logins, jars, lapsed, events, Past>>

\* A wrong code, or a vault that locked, puts the jar back; another failure
\* spends it.
VerifyFails(f) ==
    /\ form[f].step = "verifying" /\ Event
    /\ form' = [form EXCEPT ![f] = NoForm]
    /\ jar' \in {jar, form[f].jar}
    /\ UNCHANGED <<row, unlocked, Memory, load, logins, jars, lapsed, Past>>
VerifyOk(f) ==
    /\ form[f].step = "verifying" /\ logins < MaxLogins
    /\ IF unlocked THEN /\ logins' = logins + 1 /\ UNCHANGED jar
                        /\ form' = [form EXCEPT ![f] = [step |-> "saving", jar |-> 0, login |-> logins + 1]]
                   ELSE form' = [form EXCEPT ![f] = NoForm] /\ jar' = form[f].jar /\ UNCHANGED logins
    /\ UNCHANGED <<row, unlocked, Memory, load, jars, lapsed, events, Past>>

\* A load that had begun already carries what the row said before.
Replaced(login) == want' = login /\ straddled' = (Loading # {}) /\ UNCHANGED slipped

\* saveSession: the row first, then the memory.
SaveLogin(f) ==
    /\ form[f].step = "saving"
    /\ row' = [login |-> form[f].login, gen |-> 0] /\ Replaced(form[f].login)
    /\ Sheet(f, "forgetting")
    /\ UNCHANGED <<unlocked, Memory, load, jar, logins, jars, lapsed, events>>

\* disconnect: the same order.
Disconnect(f) ==
    /\ form[f].step = "idle" /\ row # None /\ Event
    /\ jar' = 0
    /\ Sheet(f, "removing")
    /\ UNCHANGED <<row, unlocked, Memory, load, logins, jars, lapsed, Past>>
Delete(f) ==
    /\ form[f].step = "removing"
    /\ row' = None /\ Replaced(0)
    /\ Sheet(f, "forgetting")
    /\ UNCHANGED <<unlocked, Memory, load, jar, logins, jars, lapsed, events>>
FormForgets(f) ==
    /\ form[f].step = "forgetting"
    /\ Forget
    /\ form' = [form EXCEPT ![f] = NoForm]
    /\ UNCHANGED <<row, unlocked, load, jar, logins, jars, lapsed, events, Past>>

\* cancel, or the ten minutes of a jar are up.
Drop ==
    /\ jar # 0 /\ Event
    /\ jar' = 0
    /\ UNCHANGED <<row, unlocked, Memory, load, form, logins, jars, lapsed, Past>>

LoadStep(c) == Read(c) \/ Opens(c) \/ Refreshed(c) \/ LoadFails(c) \/ Save(c) \/ Hold(c)
FormStep(f) ==
    \/ Connect(f) \/ CodeSent(f) \/ Verify(f) \/ VerifyFails(f) \/ VerifyOk(f)
    \/ SaveLogin(f) \/ Disconnect(f) \/ Delete(f) \/ FormForgets(f)

Next ==
    \/ \E c \in Callers : Start(c) \/ LoadStep(c)
    \/ \E f \in Forms : FormStep(f)
    \/ \E t \in Token : Lapse(t)
    \/ Refused \/ Lock \/ Unlock \/ Drop

Spec == Init /\ [][Next]_vars

----------------------------------------------------------------------------
(* Properties.                                                             *)

TypeOK ==
    /\ row \in Tokens /\ bearer \in Tokens /\ unlocked \in BOOLEAN
    /\ entry \in Callers \cup {"none"}
    /\ load \in [Callers -> [step : LoadSteps, got : Tokens]]
    /\ jar \in 0..MaxJars /\ form \in [Forms -> [step : FormSteps, jar : 0..MaxJars, login : 0..MaxLogins]]
    /\ lapsed \subseteq Token /\ logins \in 1..MaxLogins /\ jars \in 0..MaxJars /\ events \in 0..MaxEvents
    /\ want \in 0..MaxLogins /\ straddled \in BOOLEAN /\ slipped \in BOOLEAN /\ forgets \in Nat

\* However many fetches ask at once, they mint one refresh, and one more for
\* every time the memory was dropped under them.
OneRefresh == Cardinality(Loading) <= 1 + forgets

\* The stored session is the one the reader last asked for, and there is none
\* after they disconnected, unless a load was under way at that moment.
RowIsWanted == ~straddled => row.login = want

\* The bearer in memory is of the session the reader last asked for, once the
\* form's own request is through.
Replacing == \E f \in Forms : form[f].step = "forgetting"
BearerIsWanted == ~straddled /\ ~Replacing /\ bearer # None => bearer.login = want

\* Locking the vault drops the bearer, and no load brings one back, unless it
\* had sealed its answer before.
LockedHoldsNone == ~unlocked /\ ~slipped => bearer = None

\* A jar is half a session: no two requests use one at once.
JarUsedOnce ==
    \A f \in Forms : form[f].jar # 0 =>
        jar # form[f].jar /\ \A g \in Forms \ {f} : form[g].jar # form[f].jar

\* One session at a time, and the one the reader asked for: in the row, in memory, in the
\* refreshes it costs, and in the half of a sign-in that waits for its code.
OneSession == OneRefresh /\ RowIsWanted /\ BearerIsWanted /\ LockedHoldsNone /\ JarUsedOnce

----------------------------------------------------------------------------
(* What the code does not keep when a load is under way.                   *)

\* Disconnecting removes the session for good.
DisconnectIsFinal == want = 0 => row = None

\* Locking the vault (or its expiry) also drops the opened bearer held here.
LockedIsClosed == ~unlocked => bearer = None

\* A second code is not undone by a press of the first.
NewestJar == [][jar' # 0 => jar' >= jar]_vars
=============================================================================
