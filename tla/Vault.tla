------------------------------- MODULE Vault -------------------------------
(***************************************************************************)
(* What of one reader's is sealed with which key: secretbox.js, vault.js   *)
(* and vault-migrate.js of packages/auth, the vault routes of app.js and   *)
(* the statements behind them.  A reader without a vault has everything    *)
(* under the server's key (v1).  Creating a vault and unlocking it moves   *)
(* every value to the reader's own key (v2) while the site goes on         *)
(* writing.  Each process keeps its own set of vault owners and its own    *)
(* unlocked keys.                                                          *)
(***************************************************************************)
EXTENDS Integers

CONSTANTS Web, Worker,   \* the two processes
          MaxWrites,     \* bound: values that requests seal
          MaxEvents      \* bound: locks, syncs, failed reads

Processes == {Web, Worker}
Items == {"source", "line", "radio", "channels"}
\* A sealed value: under which key, what it says, and which sealing made it.
Value == [ver : {1, 2}, val : 0..MaxWrites, id : 0..MaxWrites]
First == [ver |-> 1, val |-> 0, id |-> 0]

VARIABLES
    vault,     \* the row of user_vaults
    owners,    \* the reader is in a process's set of vault owners
    key,       \* the reader's playlist key is in a process's memory
    held,      \* the sealed columns
    writer,    \* a write of each process between its seal and its statement
    sync,      \* what each process's owner read brought, until it is applied
    mig,       \* the migration that an unlock started
    late,      \* history: items written under v1 since a migration read them
    moved,     \* history: items the migration has been through
    writes,    \* sealings of requests so far
    events

vars == <<vault, owners, key, held, writer, sync, mig, late, moved, writes, events>>

NoWrite == [item |-> "none", value |-> First]
Idle == [step |-> "idle", source |-> First, other |-> First]

Init ==
    /\ vault = FALSE
    /\ owners = [p \in Processes |-> FALSE] /\ key = [p \in Processes |-> FALSE]
    /\ held = [i \in Items |-> First]
    /\ writer = [p \in Processes |-> NoWrite]
    /\ sync = [p \in Processes |-> "none"]
    /\ mig = Idle /\ late = {} /\ moved = {}
    /\ writes = 0 /\ events = MaxEvents

Event == events > 0 /\ events' = events - 1

----------------------------------------------------------------------------
(* Sealing and writing.                                                    *)

\* Mutant: the key that is held is not asked for.
BugUsesLegacyKey(p) == ~owners[p]

UsesLegacyKey(p) == ~key[p] /\ ~owners[p]
CanSealFor(p) == key[p] \/ UsesLegacyKey(p)
Opens(p, value) == value.ver = 1 \/ key[p]
Sealed(p, val, id) == [ver |-> IF UsesLegacyKey(p) THEN 1 ELSE 2, val |-> val, id |-> id]

\* A request seals a value, and its statement runs later.
Writes(p, item, val) ==
    /\ writer[p] = NoWrite /\ writes < MaxWrites /\ CanSealFor(p)
    /\ writes' = writes + 1
    /\ writer' = [writer EXCEPT ![p] = [item |-> item, value |-> Sealed(p, val, writes + 1)]]
    /\ UNCHANGED <<vault, owners, key, held, sync, mig, late, moved, events>>

\* An import, a radio session that is saved: the reader's own new value.
WriteNew(item) == item # "line" /\ Writes(Web, item, writes + 1)

\* The poller opens the address it has and seals it again.  For a reader it
\* has no key of, it asks the web process first.
EnsureKey ==
    /\ ~CanSealFor(Worker) /\ key[Web]
    /\ key' = [key EXCEPT ![Worker] = TRUE]
    /\ UNCHANGED <<vault, owners, held, writer, sync, mig, late, moved, writes, events>>
Refresh == Opens(Worker, held["source"]) /\ Writes(Worker, "source", held["source"].val)

Commit(p) ==
    LET w == writer[p]
    IN /\ w # NoWrite
       /\ held' = [held EXCEPT ![w.item] = w.value]
       /\ late' = IF w.value.ver = 1 THEN late \cup {w.item} ELSE late
       /\ writer' = [writer EXCEPT ![p] = NoWrite]
       /\ UNCHANGED <<vault, owners, key, sync, mig, moved, writes, events>>

----------------------------------------------------------------------------
(* The vault, its owners and its keys.                                     *)

Create ==
    /\ ~vault
    /\ vault' = TRUE
    /\ UNCHANGED <<owners, key, held, writer, sync, mig, late, moved, writes, events>>
Note ==
    /\ vault /\ ~owners[Web]
    /\ owners' = [owners EXCEPT ![Web] = TRUE]
    /\ UNCHANGED <<vault, key, held, writer, sync, mig, late, moved, writes, events>>

\* Each process reads the owners every minute, and replaces its set.
SyncRead(p) ==
    /\ sync[p] = "none" /\ Event
    /\ sync' = [sync EXCEPT ![p] = IF vault THEN "owner" ELSE "nobody"]
    /\ UNCHANGED <<vault, owners, key, held, writer, mig, late, moved, writes>>
SyncApply(p) ==
    /\ sync[p] # "none"
    /\ owners' = [owners EXCEPT ![p] = sync[p] = "owner"]
    /\ sync' = [sync EXCEPT ![p] = "none"]
    /\ UNCHANGED <<vault, key, held, writer, mig, late, moved, writes, events>>

\* lock, or the time the reader chose is up; a restart forgets keys as well.
Lock(p) ==
    /\ key[p] /\ Event
    /\ key' = [key EXCEPT ![p] = FALSE]
    /\ UNCHANGED <<vault, owners, held, writer, sync, mig, late, moved, writes>>

----------------------------------------------------------------------------
(* migrateLegacyFor, and migrateChannels behind it.                        *)

\* The unlock reads what is still v1: the addresses and the line at once.
Unlock ==
    /\ vault /\ ~key[Web] /\ mig.step = "idle"
    /\ key' = [key EXCEPT ![Web] = TRUE]
    /\ mig' = [step |-> "source", source |-> held["source"], other |-> held["line"]]
    /\ late' = late \ {"source", "line"} /\ moved' = moved \ {"source", "line"}
    /\ UNCHANGED <<vault, owners, held, writer, sync, writes, events>>

Resealed(v) == Sealed(Web, v.val, v.id)
Put(item, v) == held' = IF v.ver = 1 THEN [held EXCEPT ![item] = Resealed(v)] ELSE held
Through(items) == moved' = (moved \cup items) \ {mig'.step}
\* What is read next: from here on a write of it is late.
ReadsNext(item) ==
    /\ mig' = [mig EXCEPT !.step = item, !.other = held[item]]
    /\ late' = late \ {item}

\* Mutant: the address is written back over whatever is there.
BugMatches(item, before) == TRUE

\* resealPlaylistSource matches on the value that was read; resealChannels on
\* the id of a row, and an import gives its rows new ones.
Matches(item, before) == held[item] = before

MoveSource ==
    /\ mig.step = "source" /\ key[Web]
    /\ IF Matches("source", mig.source) THEN Put("source", mig.source) ELSE UNCHANGED held
    /\ mig' = [mig EXCEPT !.step = "line"] /\ Through({"source"})
    /\ UNCHANGED <<vault, owners, key, writer, sync, late, writes, events>>

\* resealProviderLine and resealRadio write over whatever is there.
MoveLine ==
    /\ mig.step = "line" /\ key[Web]
    /\ Put("line", mig.other)
    /\ ReadsNext("radio") /\ Through({"line"})
    /\ UNCHANGED <<vault, owners, key, writer, sync, writes, events>>
MoveRadio ==
    /\ mig.step = "radio" /\ key[Web]
    /\ Put("radio", mig.other)
    /\ ReadsNext("channels") /\ Through({"radio"})
    /\ UNCHANGED <<vault, owners, key, writer, sync, writes, events>>

\* In the background, batch after batch, until no row is v1.
MoveChannels ==
    /\ mig.step = "channels" /\ key[Web]
    /\ mig.other.ver = 1
    /\ IF Matches("channels", mig.other) THEN Put("channels", mig.other) ELSE UNCHANGED held
    /\ ReadsNext("channels") /\ Through({})
    /\ UNCHANGED <<vault, owners, key, writer, sync, writes, events>>
ChannelsDone ==
    /\ mig.step = "channels" /\ key[Web]
    /\ mig.other.ver = 2
    /\ mig' = Idle /\ Through({"channels"})
    /\ UNCHANGED <<vault, owners, key, held, writer, sync, late, writes, events>>

\* Locked in the middle: sealing throws, and the next unlock starts again.
Stops ==
    /\ mig.step # "idle" /\ ~key[Web]
    /\ mig' = Idle
    /\ UNCHANGED <<vault, owners, key, held, writer, sync, late, moved, writes, events>>

Migrate == MoveSource \/ MoveLine \/ MoveRadio \/ MoveChannels \/ ChannelsDone \/ Stops

Next ==
    \/ \E i \in Items : WriteNew(i)
    \/ \E p \in Processes : Commit(p) \/ SyncRead(p) \/ SyncApply(p) \/ Lock(p)
    \/ EnsureKey \/ Refresh \/ Create \/ Note \/ Unlock \/ Migrate

Spec == Init /\ [][Next]_vars

----------------------------------------------------------------------------
(* Properties.                                                             *)

TypeOK ==
    /\ vault \in BOOLEAN /\ owners \in [Processes -> BOOLEAN] /\ key \in [Processes -> BOOLEAN]
    /\ held \in [Items -> Value]
    /\ writer \in [Processes -> [item : Items \cup {"none"}, value : Value]]
    /\ sync \in [Processes -> {"none", "owner", "nobody"}]
    /\ mig \in [step : Items \cup {"idle"}, source : Value, other : Value]
    /\ late \subseteq Items /\ moved \subseteq Items
    /\ writes \in 0..MaxWrites /\ events \in 0..MaxEvents

\* The move changes the key of an address or a channel and never what it says:
\* a concurrent edit wins.
EditWinsStep ==
    mig' # mig => \A i \in {"source", "channels"} : held'[i].val = held[i].val
EditWins == [][EditWinsStep]_vars

\* What the move has been through is under the reader's own key, unless a
\* request has written under the server's since the move read it.
MovedIsOwn == \A i \in moved : held[i].ver = 1 => i \in late

\* The move to the reader's own key loses no edit that runs beside it and leaves nothing it has
\* been through under the server's.
MoveIsSafeStep == EditWinsStep /\ MovedIsOwn'
MoveIsSafe == [][MoveIsSafeStep]_vars

----------------------------------------------------------------------------
(* What the comments say and the code does not keep.                       *)

\* Matched on the old value so a concurrent edit wins: the radio session too.
RadioEditWins == [][mig' # mig => held'["radio"].val = held["radio"].val]_vars

\* From then on new values are v2 only.
NewIsOwn == [][\A p \in Processes : writer'[p] # writer[p] /\ writer[p] = NoWrite /\ vault => writer'[p].value.ver = 2]_vars

\* An owner is marked the moment a vault is created, and stays marked.
NotedStays == [][\A p \in Processes : owners[p] => owners'[p]]_vars
=============================================================================
