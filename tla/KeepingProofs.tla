----------------------------- MODULE KeepingProofs ----------------------------
(***************************************************************************)
(* Proofs about what must hold between a page, the site and those behind   *)
(* it: the move of what is kept sealed to the reader's own key (Vault), the *)
(* SiriusXM session (RadioSession) and what others hear by it (RadioRelay); *)
(* the push switch (PushToggle), the players of a page (PagePlayer) and     *)
(* public channels played through the site (Watch); and the limits on who   *)
(* may try, mail or fetch how much (AuthThrottle, InviteMail, UpstreamCache).*)
(* They hold for any number of writes, loads, forms, listeners, tabs,      *)
(* presses, attempts, mails, fetches and faults, through the instances of  *)
(* MCSite, whose registers x1, x2, ... are their variables in the order of *)
(* the module.                                                             *)
(***************************************************************************)
EXTENDS MCSite, Integers, Sequences, FiniteSetTheorems, TLAPS

\* A write between its seal and its statement.
Writer == [item : Sealing!Items \cup {"none"}, value : Sealing!Value]

\* What the move remembers of what it read.
Moving == [step : Sealing!Items \cup {"idle"}, source : Sealing!Value, other : Sealing!Value]

\* Item says what the move read, or is under the reader's key, or was written since.
SeenOrOwn(item, v) == x4[item] = v \/ x4[item].ver = 2 \/ item \in x8

\* What the move is about to write over was read by it, and is not among what it has been
\* through.
ReadIsKnown ==
    /\ x7.step = "source" => SeenOrOwn("source", x7.source) /\ SeenOrOwn("line", x7.other)
    /\ x7.step \in Sealing!Items \ {"source"} => SeenOrOwn(x7.step, x7.other)
    /\ x7.step \notin x9

\* A write is of an item.
WritesOwn == \A p \in Sealing!Processes : x5[p] # Sealing!NoWrite => x5[p].item \in Sealing!Items

\* The inductive invariant of Vault: MovedIsOwn alone does not say why the move may write
\* over what it finds.
VaultInv == Sealing!TypeOK /\ WritesOwn /\ ReadIsKnown /\ Sealing!MovedIsOwn

\* At the start everything is under the server's key, and nothing is moved.
LEMMA VaultInit == Sealing!Init => VaultInv
<1>1. ASSUME Sealing!Init
      PROVE  Sealing!First \in Sealing!Value /\ Sealing!NoWrite \in Writer /\ Sealing!Idle \in Moving
  BY VaultAssumption DEF Sealing!First, Sealing!Value, Sealing!NoWrite, Writer, Sealing!Idle, Moving
<1>2. ASSUME Sealing!Init PROVE Sealing!TypeOK
  <2>1. /\ /\ x4 \in [Sealing!Items -> Sealing!Value]
        /\ x5 \in [Sealing!Processes -> Writer]
        /\ x7 \in Moving
        /\ x6 \in [Sealing!Processes -> {"none", "owner", "nobody"}]
    BY <1>1, <1>2 DEF Sealing!Init
  <2>2. x10 \in 0..VaultWrites /\ x11 \in 0..VaultEvents
    BY <1>2, VaultAssumption DEF Sealing!Init
  <2>3. /\ x1 \in BOOLEAN
        /\ x2 \in [Sealing!Processes -> BOOLEAN]
        /\ x3 \in [Sealing!Processes -> BOOLEAN]
    BY <1>2 DEF Sealing!Init
  <2> QED BY <1>2, <2>1, <2>2, <2>3 DEF Sealing!Init, Sealing!TypeOK, Writer, Moving
<1>3. ASSUME Sealing!Init PROVE WritesOwn /\ ReadIsKnown /\ Sealing!MovedIsOwn
  BY <1>3 DEF Sealing!Init, WritesOwn, ReadIsKnown, Sealing!MovedIsOwn, Sealing!Idle, Sealing!Items
<1> QED BY <1>2, <1>3 DEF VaultInv

\* What a process that holds the reader's key seals is under that key.
LEMMA VaultSealed ==
    ASSUME NEW p \in Sealing!Processes, NEW v \in 0..VaultWrites, NEW n \in 0..VaultWrites
    PROVE  Sealing!Sealed(p, v, n) \in Sealing!Value /\ (x3[p] => Sealing!Sealed(p, v, n).ver = 2)
  BY DEF Sealing!Sealed, Sealing!Value, Sealing!UsesLegacyKey

\* Every step keeps the invariant, and a step of the move changes no address and no channel.
LEMMA VaultStep == ASSUME VaultInv, [Sealing!Next]_(Sealing!vars)
      PROVE  VaultInv' /\ Sealing!EditWinsStep
<1>a. /\ /\ x1 \in BOOLEAN
      /\ x2 \in [Sealing!Processes -> BOOLEAN]
      /\ x3 \in [Sealing!Processes -> BOOLEAN]
      /\ x4 \in [Sealing!Items -> Sealing!Value] /\ x5 \in [Sealing!Processes -> Writer]
      /\ x6 \in [Sealing!Processes -> {"none", "owner", "nobody"}] /\ x7 \in Moving
      /\ /\ x8 \subseteq Sealing!Items
      /\ x9 \subseteq Sealing!Items
      /\ x10 \in 0..VaultWrites
      /\ x11 \in 0..VaultEvents
  BY DEF VaultInv, Sealing!TypeOK, Writer, Moving
<1>b. web \in Sealing!Processes /\ worker \in Sealing!Processes
  BY DEF Sealing!Processes
<1>c. Sealing!NoWrite \in Writer /\ Sealing!Idle \in Moving
  BY VaultAssumption DEF Sealing!First, Sealing!Value, Sealing!NoWrite, Writer, Sealing!Idle, Moving
<1>d. \A v \in Sealing!Value : 
        v.ver \in {1, 2} /\ v.val \in 0..VaultWrites /\ v.id \in 0..VaultWrites
  BY DEF Sealing!Value
<1>e. ASSUME NEW v \in Sealing!Value
      PROVE  /\ Sealing!Resealed(v) \in Sealing!Value /\ (x3[web] => Sealing!Resealed(v).ver = 2)
             /\ Sealing!Resealed(v).val = v.val
  BY <1>b, <1>d, VaultSealed DEF Sealing!Resealed, Sealing!Sealed
<1>1. ASSUME NEW i \in Sealing!Items, Sealing!WriteNew(i) PROVE VaultInv' /\ Sealing!EditWinsStep
  <2> DEFINE w == [item |-> i, value |-> Sealing!Sealed(web, x10 + 1, x10 + 1)]
  <2>a. x10 + 1 \in 0..VaultWrites /\ x10' = x10 + 1 /\ x5' = [x5 EXCEPT ![web] = w]
    BY <1>a, <1>1, VaultAssumption DEF Sealing!WriteNew, Sealing!Writes
  <2>b. Sealing!Sealed(web, x10 + 1, x10 + 1) \in Sealing!Value
    BY <1>a, <1>b, <1>d, <2>a, VaultSealed DEF Sealing!Items
  <2>c. w \in Writer
    BY <2>b DEF Writer, Sealing!Items
  <2> HIDE DEF w
  <2>d. UNCHANGED <<x1, x2, x3, x4, x6, x7, x8, x9, x11>>
    BY <1>1 DEF Sealing!WriteNew, Sealing!Writes
  <2>1. Sealing!TypeOK'
    BY <1>a, <1>b, <2>a, <2>c, <2>d DEF Sealing!TypeOK, Writer, Moving
  <2> USE <1>a, <1>b, <1>c, <1>d, <1>e, <1>1 DEF Sealing!WriteNew, Sealing!Writes,
     Sealing!CanSealFor, Sealing!Sealed, Sealing!UsesLegacyKey, Writer, Moving, Sealing!Items,
     VaultInv, WritesOwn
  <2>2. WritesOwn' /\ ReadIsKnown' /\ Sealing!MovedIsOwn'
    BY DEF ReadIsKnown, SeenOrOwn, Sealing!MovedIsOwn, Sealing!Idle
  <2>3. Sealing!EditWinsStep
    BY DEF Sealing!EditWinsStep
  <2> QED BY ONLY <2>1, <2>2, <2>3 DEF VaultInv
<1>2. ASSUME Sealing!Refresh PROVE VaultInv' /\ Sealing!EditWinsStep
  <2> DEFINE w == [item |-> "source", value |-> Sealing!Sealed(worker, x4["source"].val, x10 + 1)]
  <2>a. x10 + 1 \in 0..VaultWrites /\ x10' = x10 + 1 /\ x5' = [x5 EXCEPT ![worker] = w]
    BY <1>a, <1>2, VaultAssumption DEF Sealing!Refresh, Sealing!Writes
  <2>b. Sealing!Sealed(worker, x4["source"].val, x10 + 1) \in Sealing!Value
    BY <1>a, <1>b, <1>d, <2>a, VaultSealed DEF Sealing!Items
  <2>c. w \in Writer
    BY <2>b DEF Writer, Sealing!Items
  <2> HIDE DEF w
  <2>d. UNCHANGED <<x1, x2, x3, x4, x6, x7, x8, x9, x11>>
    BY <1>2 DEF Sealing!Refresh, Sealing!Writes
  <2>1. Sealing!TypeOK'
    BY <1>a, <1>b, <2>a, <2>c, <2>d DEF Sealing!TypeOK, Writer, Moving
  <2> USE <1>a, <1>b, <1>c, <1>d, <1>e, <1>2 DEF Sealing!Refresh, Sealing!Opens, Sealing!Writes,
     Sealing!CanSealFor, Sealing!Sealed, Sealing!UsesLegacyKey, Writer, Moving, Sealing!Items,
     VaultInv, WritesOwn
  <2>2. WritesOwn' /\ ReadIsKnown' /\ Sealing!MovedIsOwn'
    BY DEF ReadIsKnown, SeenOrOwn, Sealing!MovedIsOwn, Sealing!Idle
  <2>3. Sealing!EditWinsStep
    BY DEF Sealing!EditWinsStep
  <2> QED BY ONLY <2>1, <2>2, <2>3 DEF VaultInv
<1>3. ASSUME NEW p \in Sealing!Processes, Sealing!Commit(p) PROVE VaultInv' /\ Sealing!EditWinsStep
  <2> USE <1>a, <1>b, <1>c, <1>d, <1>e, <1>3 DEF Sealing!Commit, Writer, Moving, Sealing!Items,
     VaultInv, WritesOwn
  <2>1. Sealing!TypeOK'
    BY VaultAssumption DEF Sealing!TypeOK
  <2>2. WritesOwn' /\ ReadIsKnown' /\ Sealing!MovedIsOwn'
    BY DEF ReadIsKnown, SeenOrOwn, Sealing!MovedIsOwn, Sealing!Idle
  <2>3. Sealing!EditWinsStep
    BY DEF Sealing!EditWinsStep
  <2> QED BY ONLY <2>1, <2>2, <2>3 DEF VaultInv
<1>4. ASSUME NEW p \in Sealing!Processes, Sealing!SyncRead(p)
      PROVE  VaultInv' /\ Sealing!EditWinsStep
  <2> USE <1>a, <1>b, <1>c, <1>d, <1>e, <1>4 DEF Sealing!SyncRead, Sealing!Event, Writer, Moving,
     Sealing!Items, VaultInv, WritesOwn
  <2>1. Sealing!TypeOK'
    BY VaultAssumption DEF Sealing!TypeOK
  <2>2. WritesOwn' /\ ReadIsKnown' /\ Sealing!MovedIsOwn'
    BY DEF ReadIsKnown, SeenOrOwn, Sealing!MovedIsOwn, Sealing!Idle
  <2>3. Sealing!EditWinsStep
    BY DEF Sealing!EditWinsStep
  <2> QED BY ONLY <2>1, <2>2, <2>3 DEF VaultInv
<1>5. ASSUME NEW p \in Sealing!Processes, Sealing!SyncApply(p)
      PROVE  VaultInv' /\ Sealing!EditWinsStep
  <2> USE <1>a, <1>b, <1>c, <1>d, <1>e, <1>5 DEF Sealing!SyncApply, Writer, Moving, Sealing!Items,
     VaultInv, WritesOwn
  <2>1. Sealing!TypeOK'
    BY VaultAssumption DEF Sealing!TypeOK
  <2>2. WritesOwn' /\ ReadIsKnown' /\ Sealing!MovedIsOwn'
    BY DEF ReadIsKnown, SeenOrOwn, Sealing!MovedIsOwn, Sealing!Idle
  <2>3. Sealing!EditWinsStep
    BY DEF Sealing!EditWinsStep
  <2> QED BY ONLY <2>1, <2>2, <2>3 DEF VaultInv
<1>6. ASSUME NEW p \in Sealing!Processes, Sealing!Lock(p) PROVE VaultInv' /\ Sealing!EditWinsStep
  <2> USE <1>a, <1>b, <1>c, <1>d, <1>e, <1>6 DEF Sealing!Lock, Sealing!Event, Writer, Moving,
     Sealing!Items, VaultInv, WritesOwn
  <2>1. Sealing!TypeOK'
    BY VaultAssumption DEF Sealing!TypeOK
  <2>2. WritesOwn' /\ ReadIsKnown' /\ Sealing!MovedIsOwn'
    BY DEF ReadIsKnown, SeenOrOwn, Sealing!MovedIsOwn, Sealing!Idle
  <2>3. Sealing!EditWinsStep
    BY DEF Sealing!EditWinsStep
  <2> QED BY ONLY <2>1, <2>2, <2>3 DEF VaultInv
<1>7. ASSUME Sealing!EnsureKey PROVE VaultInv' /\ Sealing!EditWinsStep
  <2> USE <1>a, <1>b, <1>c, <1>d, <1>e, <1>7 DEF Sealing!EnsureKey, Writer, Moving, Sealing!Items,
     VaultInv, WritesOwn
  <2>1. Sealing!TypeOK'
    BY VaultAssumption DEF Sealing!TypeOK
  <2>2. WritesOwn' /\ ReadIsKnown' /\ Sealing!MovedIsOwn'
    BY DEF ReadIsKnown, SeenOrOwn, Sealing!MovedIsOwn, Sealing!Idle
  <2>3. Sealing!EditWinsStep
    BY DEF Sealing!EditWinsStep
  <2> QED BY ONLY <2>1, <2>2, <2>3 DEF VaultInv
<1>8. ASSUME Sealing!Create PROVE VaultInv' /\ Sealing!EditWinsStep
  <2> USE <1>a, <1>b, <1>c, <1>d, <1>e, <1>8 DEF Sealing!Create, Writer, Moving, Sealing!Items,
     VaultInv, WritesOwn
  <2>1. Sealing!TypeOK'
    BY VaultAssumption DEF Sealing!TypeOK
  <2>2. WritesOwn' /\ ReadIsKnown' /\ Sealing!MovedIsOwn'
    BY DEF ReadIsKnown, SeenOrOwn, Sealing!MovedIsOwn, Sealing!Idle
  <2>3. Sealing!EditWinsStep
    BY DEF Sealing!EditWinsStep
  <2> QED BY ONLY <2>1, <2>2, <2>3 DEF VaultInv
<1>9. ASSUME Sealing!Note PROVE VaultInv' /\ Sealing!EditWinsStep
  <2> USE <1>a, <1>b, <1>c, <1>d, <1>e, <1>9 DEF Sealing!Note, Writer, Moving, Sealing!Items,
     VaultInv, WritesOwn
  <2>1. Sealing!TypeOK'
    BY VaultAssumption DEF Sealing!TypeOK
  <2>2. WritesOwn' /\ ReadIsKnown' /\ Sealing!MovedIsOwn'
    BY DEF ReadIsKnown, SeenOrOwn, Sealing!MovedIsOwn, Sealing!Idle
  <2>3. Sealing!EditWinsStep
    BY DEF Sealing!EditWinsStep
  <2> QED BY ONLY <2>1, <2>2, <2>3 DEF VaultInv
<1>10. ASSUME Sealing!Unlock PROVE VaultInv' /\ Sealing!EditWinsStep
  <2> USE <1>a, <1>b, <1>c, <1>d, <1>e, <1>10 DEF Sealing!Unlock, Writer, Moving, Sealing!Items,
     VaultInv, WritesOwn
  <2>1. Sealing!TypeOK'
    BY VaultAssumption DEF Sealing!TypeOK
  <2>2. WritesOwn' /\ ReadIsKnown' /\ Sealing!MovedIsOwn'
    BY DEF ReadIsKnown, SeenOrOwn, Sealing!MovedIsOwn, Sealing!Idle
  <2>3. Sealing!EditWinsStep
    BY DEF Sealing!EditWinsStep
  <2> QED BY ONLY <2>1, <2>2, <2>3 DEF VaultInv
<1>11. ASSUME Sealing!MoveSource PROVE VaultInv' /\ Sealing!EditWinsStep
  <2> USE <1>a, <1>b, <1>c, <1>d, <1>e, <1>11 DEF Sealing!MoveSource, Sealing!Matches, Sealing!Put,
     Sealing!Through, Writer, Moving, Sealing!Items, VaultInv, WritesOwn
  <2>1. Sealing!TypeOK'
    BY VaultAssumption DEF Sealing!TypeOK
  <2>2. WritesOwn' /\ ReadIsKnown' /\ Sealing!MovedIsOwn'
    BY DEF ReadIsKnown, SeenOrOwn, Sealing!MovedIsOwn, Sealing!Idle
  <2>3. Sealing!EditWinsStep
    BY DEF Sealing!EditWinsStep
  <2> QED BY ONLY <2>1, <2>2, <2>3 DEF VaultInv
<1>12. ASSUME Sealing!MoveLine PROVE VaultInv' /\ Sealing!EditWinsStep
  <2> USE <1>a, <1>b, <1>c, <1>d, <1>e, <1>12 DEF Sealing!MoveLine, Sealing!Put, Sealing!Through,
     Sealing!ReadsNext, Writer, Moving, Sealing!Items, VaultInv, WritesOwn
  <2>1. Sealing!TypeOK'
    BY VaultAssumption DEF Sealing!TypeOK
  <2>2. WritesOwn' /\ ReadIsKnown' /\ Sealing!MovedIsOwn'
    BY DEF ReadIsKnown, SeenOrOwn, Sealing!MovedIsOwn, Sealing!Idle
  <2>3. Sealing!EditWinsStep
    BY DEF Sealing!EditWinsStep
  <2> QED BY ONLY <2>1, <2>2, <2>3 DEF VaultInv
<1>13. ASSUME Sealing!MoveRadio PROVE VaultInv' /\ Sealing!EditWinsStep
  <2> USE <1>a, <1>b, <1>c, <1>d, <1>e, <1>13 DEF Sealing!MoveRadio, Sealing!Put, Sealing!Through,
     Sealing!ReadsNext, Writer, Moving, Sealing!Items, VaultInv, WritesOwn
  <2>1. Sealing!TypeOK'
    BY VaultAssumption DEF Sealing!TypeOK
  <2>2. WritesOwn' /\ ReadIsKnown' /\ Sealing!MovedIsOwn'
    BY DEF ReadIsKnown, SeenOrOwn, Sealing!MovedIsOwn, Sealing!Idle
  <2>3. Sealing!EditWinsStep
    BY DEF Sealing!EditWinsStep
  <2> QED BY ONLY <2>1, <2>2, <2>3 DEF VaultInv
<1>14. ASSUME Sealing!MoveChannels PROVE VaultInv' /\ Sealing!EditWinsStep
  <2>a. x4' = x4 \/ x4' = [x4 EXCEPT !["channels"] = Sealing!Resealed(x7.other)]
    BY <1>14 DEF Sealing!MoveChannels, Sealing!Put
  <2>b. /\ "channels" \in Sealing!Items
        /\ x7.other \in Sealing!Value
        /\ Sealing!Resealed(x7.other) \in Sealing!Value
    BY <1>a, <1>e DEF Moving, Sealing!Items
  <2>c. x4' \in [Sealing!Items -> Sealing!Value]
    BY <1>a, <2>a, <2>b
  <2>d. x7' \in Moving
    BY <1>a, <1>14, <2>b DEF Sealing!MoveChannels, Sealing!ReadsNext, Moving
  <2>e. /\ x8' \subseteq Sealing!Items
        /\ x9' \subseteq Sealing!Items
        /\ UNCHANGED <<x1, x2, x3, x5, x6, x10, x11>>
    BY <1>a, <1>14 DEF Sealing!MoveChannels, Sealing!ReadsNext, Sealing!Through
  <2>1. Sealing!TypeOK'
    BY <1>a, <2>c, <2>d, <2>e DEF Sealing!TypeOK, Writer, Moving
  <2> USE <1>a, <1>b, <1>c, <1>d, <1>e, <1>14 DEF Sealing!MoveChannels, Sealing!Matches,
     Sealing!Put, Sealing!Through, Sealing!ReadsNext, Writer, Moving, Sealing!Items, VaultInv,
     WritesOwn
  <2>2. WritesOwn' /\ ReadIsKnown' /\ Sealing!MovedIsOwn'
    BY DEF ReadIsKnown, SeenOrOwn, Sealing!MovedIsOwn, Sealing!Idle
  <2>3. Sealing!EditWinsStep
    BY DEF Sealing!EditWinsStep
  <2> QED BY ONLY <2>1, <2>2, <2>3 DEF VaultInv
<1>15. ASSUME Sealing!ChannelsDone PROVE VaultInv' /\ Sealing!EditWinsStep
  <2> USE <1>a, <1>b, <1>c, <1>d, <1>e, <1>15 DEF Sealing!ChannelsDone, Sealing!Through, Writer,
     Moving, Sealing!Items, VaultInv, WritesOwn
  <2>1. Sealing!TypeOK'
    BY VaultAssumption DEF Sealing!TypeOK
  <2>2. WritesOwn' /\ ReadIsKnown' /\ Sealing!MovedIsOwn'
    BY DEF ReadIsKnown, SeenOrOwn, Sealing!MovedIsOwn, Sealing!Idle
  <2>3. Sealing!EditWinsStep
    BY DEF Sealing!EditWinsStep
  <2> QED BY ONLY <2>1, <2>2, <2>3 DEF VaultInv
<1>16. ASSUME Sealing!Stops PROVE VaultInv' /\ Sealing!EditWinsStep
  <2> USE <1>a, <1>b, <1>c, <1>d, <1>e, <1>16 DEF Sealing!Stops, Writer, Moving, Sealing!Items,
     VaultInv, WritesOwn
  <2>1. Sealing!TypeOK'
    BY VaultAssumption DEF Sealing!TypeOK
  <2>2. WritesOwn' /\ ReadIsKnown' /\ Sealing!MovedIsOwn'
    BY DEF ReadIsKnown, SeenOrOwn, Sealing!MovedIsOwn, Sealing!Idle
  <2>3. Sealing!EditWinsStep
    BY DEF Sealing!EditWinsStep
  <2> QED BY ONLY <2>1, <2>2, <2>3 DEF VaultInv
<1>30. CASE UNCHANGED Sealing!vars
  BY <1>30 DEF Sealing!vars, VaultInv, Sealing!TypeOK, WritesOwn, ReadIsKnown, SeenOrOwn,
     Sealing!MovedIsOwn, Sealing!EditWinsStep
<1> QED BY <1>30, <1>1, <1>2, <1>3, <1>4, <1>5, <1>6, <1>7, <1>8, <1>9, <1>10, <1>11, <1>12, <1>13,
   <1>14, <1>15, <1>16 DEF Sealing!Next, Sealing!Migrate

\* The steps at which a load carries what it read.
Carrying == {"read", "refreshing", "saving", "stored"}

\* There is one load for every time the memory was dropped, and the one the others join.
LoadsCounted == Cardinality(Station!Loading) <= x15 + (IF x4 = "none" THEN 0 ELSE 1)

\* What a load refreshes, saves or holds is a session, and unless the row was replaced while
\* a load was under way it is of the login the reader asked for.
LoadsWanted ==
    \A c \in Callers :
        /\ x5[c].step \in Carrying \ {"read"} => x5[c].got \in Station!Token
        /\ ~x13 /\ x5[c].step \in Carrying => x5[c].got.login = x12

\* With the vault locked no load holds a sealed answer, unless it slipped through.
SealedBefore == ~x2 /\ ~x14 => \A c \in Callers : x5[c].step \notin {"saving", "stored"}

\* No jar has a number that was not given out; what is saved is of a login.
JarsNumbered ==
    /\ x6 <= x10
    /\ \A f \in ConnectForms : x7[f].jar <= x10 /\ (x7[f].step = "saving" => x7[f].login # 0)

\* The inductive invariant of RadioSession.
RadioInv ==
    /\ Station!TypeOK /\ LoadsCounted /\ LoadsWanted /\ SealedBefore /\ JarsNumbered
    /\ /\ Station!RowIsWanted
    /\ Station!BearerIsWanted
    /\ Station!LockedHoldsNone
    /\ Station!JarUsedOnce

\* What a load and a request of the form may be.
LoadLocals == [step : Station!LoadSteps, got : Station!Tokens]
FormLocals == [step : Station!FormSteps, jar : 0..MaxJars, login : 0..MaxLogins]

\* At the start the reader has a session and nothing is under way.
LEMMA RadioInit == Station!Init => RadioInv
<1> SUFFICES ASSUME Station!Init PROVE RadioInv OBVIOUS
<1>1. Station!TypeOK
  <2>1. /\ Station!NoLoad \in LoadLocals
        /\ Station!NoForm \in FormLocals
        /\ Station!None \in Station!Tokens
        /\ [login |-> 1, gen |-> 0] \in Station!Tokens
    BY RadioAssumption DEF Station!NoLoad, Station!NoForm, LoadLocals, FormLocals, Station!Tokens,
       Station!Token, Station!None, Station!LoadSteps, Station!FormSteps
  <2>2. x5 \in [Callers -> LoadLocals] /\ x7 \in [ConnectForms -> FormLocals]
    BY <2>1 DEF Station!Init
  <2>3. /\ x6 \in 0..MaxJars /\ x9 \in 1..MaxLogins /\ x10 \in 0..MaxJars /\ x11 \in 0..RadioEvents
        /\ x12 \in 0..MaxLogins /\ x15 \in Nat
    BY RadioAssumption DEF Station!Init
  <2> QED BY <2>1, <2>2, <2>3 DEF Station!Init, Station!TypeOK, LoadLocals, FormLocals 
<1>2. LoadsCounted
  <2>1. Station!Loading = {}
    BY DEF Station!Init, Station!Loading, Station!NoLoad
  <2> QED BY <2>1, FS_EmptySet DEF Station!Init, LoadsCounted
<1>3. /\ LoadsWanted
      /\ SealedBefore
      /\ JarsNumbered
      /\ Station!RowIsWanted
      /\ Station!BearerIsWanted
      /\ Station!LockedHoldsNone
      /\ Station!JarUsedOnce
  BY RadioAssumption DEF Station!Init, LoadsWanted, SealedBefore, JarsNumbered, Station!RowIsWanted,
     Station!BearerIsWanted, Station!LockedHoldsNone, Station!JarUsedOnce, Carrying, Station!NoLoad,
     Station!NoForm, Station!None
<1> QED BY <1>1, <1>2, <1>3 DEF RadioInv

\* A load begins ...
LEMMA OneMore == ASSUME NEW S \in SUBSET Callers, NEW T,
             NEW c \in Callers, T = S \cup {c}, c \notin S
                 PROVE  Cardinality(T) = Cardinality(S) + 1 /\ Cardinality(S) \in Nat
  BY RadioAssumption, FS_Subset, FS_AddElement, FS_CardinalityType

\* ... or ends.
LEMMA OneLess == ASSUME NEW S \in SUBSET Callers, NEW T, NEW c \in S, T = S \ {c}
                 PROVE  Cardinality(T) = Cardinality(S) - 1 /\ Cardinality(S) \in Nat
  BY RadioAssumption, FS_Subset, FS_RemoveElement, FS_CardinalityType

\* Every step of the session keeps the invariant.
LEMMA RadioStep == ASSUME RadioInv, [Station!Next]_(Station!vars) PROVE RadioInv'
<1>a. /\ x1 \in Station!Tokens /\ x3 \in Station!Tokens /\ x2 \in BOOLEAN
      /\ x4 \in Callers \cup {"none"} /\ x5 \in [Callers -> LoadLocals]
      /\ x6 \in 0..MaxJars /\ x7 \in [ConnectForms -> FormLocals] /\ x8 \subseteq Station!Token
      /\ x9 \in 1..MaxLogins /\ x10 \in 0..MaxJars /\ x11 \in 0..RadioEvents /\ x12 \in 0..MaxLogins
      /\ x13 \in BOOLEAN /\ x14 \in BOOLEAN /\ x15 \in Nat
  BY DEF RadioInv, Station!TypeOK, LoadLocals, FormLocals
<1>b. /\ /\ Station!NoLoad \in LoadLocals
      /\ Station!NoForm \in FormLocals
      /\ Station!None \in Station!Tokens
      /\ Station!None \notin Station!Token
  BY RadioAssumption DEF Station!NoLoad, Station!NoForm, LoadLocals, FormLocals, Station!Tokens,
     Station!Token, Station!None, Station!LoadSteps, Station!FormSteps
<1>c. \A t \in Station!Token : 
        t \in Station!Tokens /\ t.login \in 1..MaxLogins /\ t.gen \in 0..MaxGens
  BY DEF Station!Token, Station!Tokens
<1>e. Cardinality(Station!Loading) \in Nat
  BY RadioAssumption, FS_Subset, FS_CardinalityType DEF Station!Loading
<1>d. \A n \in 1..MaxLogins : [login |-> n, gen |-> 0] \in Station!Token
  BY RadioAssumption DEF Station!Token
<1> USE DEF RadioInv, Station!Memory, Station!SignIn, Station!Past, Station!NoLoad, Station!NoForm
<1>1. ASSUME NEW c \in Callers, Station!Start(c) PROVE RadioInv'
  <2> USE <1>a, <1>1 DEF Station!Start, Station!MayLoad
  <2>1. (x5 \in [Callers -> LoadLocals])'
    BY <1>b, <1>c DEF LoadLocals, Station!LoadSteps, LoadsWanted, Carrying
  <2>2. (x7 \in [ConnectForms -> FormLocals])'
    BY <1>b DEF FormLocals, Station!FormSteps
  <2>3. Station!TypeOK'
    BY <1>b, <1>c, <1>d, <2>1, <2>2, RadioAssumption DEF Station!TypeOK, LoadLocals, FormLocals,
       JarsNumbered, LoadsWanted, Carrying
  <2>4. LoadsCounted'
    BY OneMore, OneLess, RadioAssumption DEF LoadsCounted, Station!Loading
  <2> USE <1>b, <1>c DEF LoadsWanted, SealedBefore, JarsNumbered, Carrying, Station!RowIsWanted,
     Station!BearerIsWanted, Station!LockedHoldsNone, Station!JarUsedOnce, Station!None,
     Station!Replacing, Station!Loading, LoadLocals, FormLocals
  <2>5. LoadsWanted' /\ SealedBefore' /\ JarsNumbered'
    OBVIOUS
  <2>6. /\ Station!RowIsWanted'
        /\ Station!BearerIsWanted'
        /\ Station!LockedHoldsNone'
        /\ Station!JarUsedOnce'
    OBVIOUS
  <2> QED BY <2>3, <2>4, <2>5, <2>6
<1>2. ASSUME NEW c \in Callers, Station!Read(c) PROVE RadioInv'
  <2> USE <1>a, <1>2 DEF Station!Read, Station!Stored
  <2>1. (x5 \in [Callers -> LoadLocals])'
    BY <1>b, <1>c DEF LoadLocals, Station!LoadSteps, LoadsWanted, Carrying
  <2>2. (x7 \in [ConnectForms -> FormLocals])'
    BY <1>b DEF FormLocals, Station!FormSteps
  <2>3. Station!TypeOK'
    BY <1>b, <1>c, <1>d, <2>1, <2>2, RadioAssumption DEF Station!TypeOK, LoadLocals, FormLocals,
       JarsNumbered, LoadsWanted, Carrying
  <2>4. LoadsCounted'
    BY OneMore, OneLess, RadioAssumption DEF LoadsCounted, Station!Loading
  <2> USE <1>b, <1>c DEF LoadsWanted, SealedBefore, JarsNumbered, Carrying, Station!RowIsWanted,
     Station!BearerIsWanted, Station!LockedHoldsNone, Station!JarUsedOnce, Station!None,
     Station!Replacing, Station!Loading, LoadLocals, FormLocals
  <2>5. LoadsWanted' /\ SealedBefore' /\ JarsNumbered'
    OBVIOUS
  <2>6. /\ Station!RowIsWanted'
        /\ Station!BearerIsWanted'
        /\ Station!LockedHoldsNone'
        /\ Station!JarUsedOnce'
    OBVIOUS
  <2> QED BY <2>3, <2>4, <2>5, <2>6
<1>3. ASSUME NEW c \in Callers, Station!Opens(c) PROVE RadioInv'
  <2> USE <1>a, <1>3 DEF Station!Opens, Station!Ends, Station!Holds
  <2>1. (x5 \in [Callers -> LoadLocals])'
    BY <1>b, <1>c DEF LoadLocals, Station!LoadSteps, LoadsWanted, Carrying
  <2>2. (x7 \in [ConnectForms -> FormLocals])'
    BY <1>b DEF FormLocals, Station!FormSteps
  <2>3. Station!TypeOK'
    BY <1>b, <1>c, <1>d, <2>1, <2>2, RadioAssumption DEF Station!TypeOK, LoadLocals, FormLocals,
       JarsNumbered, LoadsWanted, Carrying
  <2>4. LoadsCounted'
    BY OneMore, OneLess, RadioAssumption DEF LoadsCounted, Station!Loading
  <2> USE <1>b, <1>c DEF LoadsWanted, SealedBefore, JarsNumbered, Carrying, Station!RowIsWanted,
     Station!BearerIsWanted, Station!LockedHoldsNone, Station!JarUsedOnce, Station!None,
     Station!Replacing, Station!Loading, LoadLocals, FormLocals
  <2>5. LoadsWanted'
    OBVIOUS
  <2>6. SealedBefore' /\ JarsNumbered' /\ Station!RowIsWanted' /\ Station!BearerIsWanted'
    OBVIOUS
  <2>7. Station!LockedHoldsNone' /\ Station!JarUsedOnce'
    OBVIOUS
  <2> QED BY <2>3, <2>4, <2>5, <2>6, <2>7
<1>4. ASSUME NEW c \in Callers, Station!Refreshed(c) PROVE RadioInv'
  <2> USE <1>a, <1>4 DEF Station!Refreshed, Station!Ends
  <2>1. (x5 \in [Callers -> LoadLocals])'
    BY <1>b, <1>c DEF LoadLocals, Station!LoadSteps, LoadsWanted, Carrying
  <2>2. (x7 \in [ConnectForms -> FormLocals])'
    BY <1>b DEF FormLocals, Station!FormSteps
  <2>3. Station!TypeOK'
    BY <1>b, <1>c, <1>d, <2>1, <2>2, RadioAssumption DEF Station!TypeOK, LoadLocals, FormLocals,
       JarsNumbered, LoadsWanted, Carrying
  <2>4. LoadsCounted'
    BY OneMore, OneLess, RadioAssumption DEF LoadsCounted, Station!Loading
  <2> USE <1>b, <1>c DEF LoadsWanted, SealedBefore, JarsNumbered, Carrying, Station!RowIsWanted,
     Station!BearerIsWanted, Station!LockedHoldsNone, Station!JarUsedOnce, Station!None,
     Station!Replacing, Station!Loading, LoadLocals, FormLocals
  <2>5. LoadsWanted' /\ SealedBefore' /\ JarsNumbered'
    OBVIOUS
  <2>6. /\ Station!RowIsWanted'
        /\ Station!BearerIsWanted'
        /\ Station!LockedHoldsNone'
        /\ Station!JarUsedOnce'
    OBVIOUS
  <2> QED BY <2>3, <2>4, <2>5, <2>6
<1>5. ASSUME NEW c \in Callers, Station!LoadFails(c) PROVE RadioInv'
  <2> USE <1>a, <1>5 DEF Station!LoadFails, Station!Ends, Station!Event
  <2>1. (x5 \in [Callers -> LoadLocals])'
    BY <1>b, <1>c DEF LoadLocals, Station!LoadSteps, LoadsWanted, Carrying
  <2>2. (x7 \in [ConnectForms -> FormLocals])'
    BY <1>b DEF FormLocals, Station!FormSteps
  <2>3. Station!TypeOK'
    BY <1>b, <1>c, <1>d, <2>1, <2>2, RadioAssumption DEF Station!TypeOK, LoadLocals, FormLocals,
       JarsNumbered, LoadsWanted, Carrying
  <2>4. LoadsCounted'
    BY OneMore, OneLess, RadioAssumption DEF LoadsCounted, Station!Loading
  <2> USE <1>b, <1>c DEF LoadsWanted, SealedBefore, JarsNumbered, Carrying, Station!RowIsWanted,
     Station!BearerIsWanted, Station!LockedHoldsNone, Station!JarUsedOnce, Station!None,
     Station!Replacing, Station!Loading, LoadLocals, FormLocals
  <2>5. LoadsWanted' /\ SealedBefore' /\ JarsNumbered'
    OBVIOUS
  <2>6. /\ Station!RowIsWanted'
        /\ Station!BearerIsWanted'
        /\ Station!LockedHoldsNone'
        /\ Station!JarUsedOnce'
    OBVIOUS
  <2> QED BY <2>3, <2>4, <2>5, <2>6
<1>6. ASSUME NEW c \in Callers, Station!Save(c) PROVE RadioInv'
  <2> USE <1>a, <1>6 DEF Station!Save
  <2>1. (x5 \in [Callers -> LoadLocals])'
    BY <1>b, <1>c DEF LoadLocals, Station!LoadSteps, LoadsWanted, Carrying
  <2>2. (x7 \in [ConnectForms -> FormLocals])'
    BY <1>b DEF FormLocals, Station!FormSteps
  <2>3. Station!TypeOK'
    BY <1>b, <1>c, <1>d, <2>1, <2>2, RadioAssumption DEF Station!TypeOK, LoadLocals, FormLocals,
       JarsNumbered, LoadsWanted, Carrying
  <2>4. LoadsCounted'
    BY OneMore, OneLess, RadioAssumption DEF LoadsCounted, Station!Loading
  <2> USE <1>b, <1>c DEF LoadsWanted, SealedBefore, JarsNumbered, Carrying, Station!RowIsWanted,
     Station!BearerIsWanted, Station!LockedHoldsNone, Station!JarUsedOnce, Station!None,
     Station!Replacing, Station!Loading, LoadLocals, FormLocals
  <2>5. LoadsWanted' /\ SealedBefore' /\ JarsNumbered'
    OBVIOUS
  <2>6. /\ Station!RowIsWanted'
        /\ Station!BearerIsWanted'
        /\ Station!LockedHoldsNone'
        /\ Station!JarUsedOnce'
    OBVIOUS
  <2> QED BY <2>3, <2>4, <2>5, <2>6
<1>7. ASSUME NEW c \in Callers, Station!Hold(c) PROVE RadioInv'
  <2> USE <1>a, <1>7 DEF Station!Hold, Station!Ends, Station!Holds
  <2>1. (x5 \in [Callers -> LoadLocals])'
    BY <1>b, <1>c DEF LoadLocals, Station!LoadSteps, LoadsWanted, Carrying
  <2>2. (x7 \in [ConnectForms -> FormLocals])'
    BY <1>b DEF FormLocals, Station!FormSteps
  <2>3. Station!TypeOK'
    BY <1>b, <1>c, <1>d, <2>1, <2>2, RadioAssumption DEF Station!TypeOK, LoadLocals, FormLocals,
       JarsNumbered, LoadsWanted, Carrying
  <2>4. LoadsCounted'
    BY OneMore, OneLess, RadioAssumption DEF LoadsCounted, Station!Loading
  <2> USE <1>b, <1>c DEF LoadsWanted, SealedBefore, JarsNumbered, Carrying, Station!RowIsWanted,
     Station!BearerIsWanted, Station!LockedHoldsNone, Station!JarUsedOnce, Station!None,
     Station!Replacing, Station!Loading, LoadLocals, FormLocals
  <2>5. LoadsWanted' /\ SealedBefore' /\ JarsNumbered'
    OBVIOUS
  <2>6. /\ Station!RowIsWanted'
        /\ Station!BearerIsWanted'
        /\ Station!LockedHoldsNone'
        /\ Station!JarUsedOnce'
    OBVIOUS
  <2> QED BY <2>3, <2>4, <2>5, <2>6
<1>8. ASSUME NEW t \in Station!Token, Station!Lapse(t) PROVE RadioInv'
  <2> USE <1>a, <1>8 DEF Station!Lapse, Station!Event
  <2>1. (x5 \in [Callers -> LoadLocals])'
    BY <1>b, <1>c DEF LoadLocals, Station!LoadSteps
  <2>2. (x7 \in [ConnectForms -> FormLocals])'
    BY <1>b DEF FormLocals, Station!FormSteps
  <2>3. Station!TypeOK'
    BY <1>b, <1>c, <1>d, <2>1, <2>2, RadioAssumption DEF Station!TypeOK, LoadLocals, FormLocals,
       JarsNumbered
  <2>4. LoadsCounted'
    BY <1>e DEF LoadsCounted, Station!Loading
  <2> USE <1>b, <1>c DEF LoadsWanted, SealedBefore, JarsNumbered, Carrying, Station!RowIsWanted,
     Station!BearerIsWanted, Station!LockedHoldsNone, Station!JarUsedOnce, Station!None,
     Station!Replacing, Station!Loading, LoadLocals, FormLocals
  <2>5. LoadsWanted' /\ SealedBefore' /\ JarsNumbered'
    OBVIOUS
  <2>6. /\ Station!RowIsWanted'
        /\ Station!BearerIsWanted'
        /\ Station!LockedHoldsNone'
        /\ Station!JarUsedOnce'
    OBVIOUS
  <2> QED BY <2>3, <2>4, <2>5, <2>6
<1>9. ASSUME Station!Refused PROVE RadioInv'
  <2> USE <1>a, <1>9 DEF Station!Refused, Station!Forget, Station!Event
  <2>1. (x5 \in [Callers -> LoadLocals])'
    BY <1>b, <1>c DEF LoadLocals, Station!LoadSteps
  <2>2. (x7 \in [ConnectForms -> FormLocals])'
    BY <1>b DEF FormLocals, Station!FormSteps
  <2>3. Station!TypeOK'
    BY <1>b, <1>c, <1>d, <2>1, <2>2, RadioAssumption DEF Station!TypeOK, LoadLocals, FormLocals,
       JarsNumbered
  <2>4. LoadsCounted'
    BY <1>e DEF LoadsCounted, Station!Loading
  <2> USE <1>b, <1>c DEF LoadsWanted, SealedBefore, JarsNumbered, Carrying, Station!RowIsWanted,
     Station!BearerIsWanted, Station!LockedHoldsNone, Station!JarUsedOnce, Station!None,
     Station!Replacing, Station!Loading, LoadLocals, FormLocals
  <2>5. LoadsWanted' /\ SealedBefore' /\ JarsNumbered'
    OBVIOUS
  <2>6. /\ Station!RowIsWanted'
        /\ Station!BearerIsWanted'
        /\ Station!LockedHoldsNone'
        /\ Station!JarUsedOnce'
    OBVIOUS
  <2> QED BY <2>3, <2>4, <2>5, <2>6
<1>10. ASSUME Station!Lock PROVE RadioInv'
  <2> USE <1>a, <1>10 DEF Station!Lock, Station!Forget, Station!Event
  <2>1. (x5 \in [Callers -> LoadLocals])'
    BY <1>b, <1>c DEF LoadLocals, Station!LoadSteps
  <2>2. (x7 \in [ConnectForms -> FormLocals])'
    BY <1>b DEF FormLocals, Station!FormSteps
  <2>3. Station!TypeOK'
    <3> DEFINE sealed == \E c \in Callers : x5[c].step \in {"saving", "stored"}
    <3>1. x14' = (x14 \/ sealed)
      OBVIOUS
    <3>2. x14' \in BOOLEAN
      BY ONLY <3>1
    <3>0. x2' = FALSE
      OBVIOUS
    <3>5. x2' \in BOOLEAN
      BY ONLY <3>0
    <3>3. /\ x3' = Station!None /\ x4' = "none" /\ x15' = x15 + 1 /\ x11' \in 0..RadioEvents
          /\ UNCHANGED <<x1, x5, x6, x7, x8, x9, x10, x12, x13>>
      BY RadioAssumption
    <3>4. x15' \in Nat /\ x3' \in Station!Tokens
      BY <1>b, <3>3
    <3> HIDE DEF Station!Lock
    <3> QED BY <2>1, <2>2, <3>2, <3>3, <3>4, <3>5 DEF Station!TypeOK, LoadLocals, FormLocals
  <2>4. LoadsCounted'
    BY <1>e DEF LoadsCounted, Station!Loading
  <2> USE <1>b, <1>c DEF LoadsWanted, SealedBefore, JarsNumbered, Carrying, Station!RowIsWanted,
     Station!BearerIsWanted, Station!LockedHoldsNone, Station!JarUsedOnce, Station!None,
     Station!Replacing, Station!Loading, LoadLocals, FormLocals
  <2>5. LoadsWanted' /\ SealedBefore' /\ JarsNumbered'
    OBVIOUS
  <2>6. /\ Station!RowIsWanted'
        /\ Station!BearerIsWanted'
        /\ Station!LockedHoldsNone'
        /\ Station!JarUsedOnce'
    OBVIOUS
  <2> QED BY <2>3, <2>4, <2>5, <2>6
<1>11. ASSUME Station!Unlock PROVE RadioInv'
  <2> USE <1>a, <1>11 DEF Station!Unlock
  <2>1. (x5 \in [Callers -> LoadLocals])'
    BY <1>b, <1>c DEF LoadLocals, Station!LoadSteps
  <2>2. (x7 \in [ConnectForms -> FormLocals])'
    BY <1>b DEF FormLocals, Station!FormSteps
  <2>3. Station!TypeOK'
    BY <1>b, <1>c, <1>d, <2>1, <2>2, RadioAssumption DEF Station!TypeOK, LoadLocals, FormLocals,
       JarsNumbered
  <2>4. LoadsCounted'
    BY <1>e DEF LoadsCounted, Station!Loading
  <2> USE <1>b, <1>c DEF LoadsWanted, SealedBefore, JarsNumbered, Carrying, Station!RowIsWanted,
     Station!BearerIsWanted, Station!LockedHoldsNone, Station!JarUsedOnce, Station!None,
     Station!Replacing, Station!Loading, LoadLocals, FormLocals
  <2>5. LoadsWanted' /\ SealedBefore' /\ JarsNumbered'
    OBVIOUS
  <2>6. /\ Station!RowIsWanted'
        /\ Station!BearerIsWanted'
        /\ Station!LockedHoldsNone'
        /\ Station!JarUsedOnce'
    OBVIOUS
  <2> QED BY <2>3, <2>4, <2>5, <2>6
<1>12. ASSUME NEW f \in ConnectForms, Station!Connect(f) PROVE RadioInv'
  <2> USE <1>a, <1>12 DEF Station!Connect, Station!Sheet
  <2>1. (x5 \in [Callers -> LoadLocals])'
    BY <1>b, <1>c DEF LoadLocals, Station!LoadSteps
  <2>2. (x7 \in [ConnectForms -> FormLocals])'
    BY <1>b DEF FormLocals, Station!FormSteps
  <2>3. Station!TypeOK'
    BY <1>b, <1>c, <1>d, <2>1, <2>2, RadioAssumption DEF Station!TypeOK, LoadLocals, FormLocals,
       JarsNumbered
  <2>4. LoadsCounted'
    BY <1>e DEF LoadsCounted, Station!Loading
  <2> USE <1>b, <1>c DEF LoadsWanted, SealedBefore, JarsNumbered, Carrying, Station!RowIsWanted,
     Station!BearerIsWanted, Station!LockedHoldsNone, Station!JarUsedOnce, Station!None,
     Station!Replacing, Station!Loading, LoadLocals, FormLocals
  <2>5. LoadsWanted' /\ SealedBefore' /\ JarsNumbered'
    OBVIOUS
  <2>6. /\ Station!RowIsWanted'
        /\ Station!BearerIsWanted'
        /\ Station!LockedHoldsNone'
        /\ Station!JarUsedOnce'
    OBVIOUS
  <2> QED BY <2>3, <2>4, <2>5, <2>6
<1>13. ASSUME NEW f \in ConnectForms, Station!CodeSent(f) PROVE RadioInv'
  <2> USE <1>a, <1>13 DEF Station!CodeSent
  <2>1. (x5 \in [Callers -> LoadLocals])'
    BY <1>b, <1>c DEF LoadLocals, Station!LoadSteps
  <2>2. (x7 \in [ConnectForms -> FormLocals])'
    BY <1>b DEF FormLocals, Station!FormSteps
  <2>3. Station!TypeOK'
    BY <1>b, <1>c, <1>d, <2>1, <2>2, RadioAssumption DEF Station!TypeOK, LoadLocals, FormLocals,
       JarsNumbered
  <2>4. LoadsCounted'
    BY <1>e DEF LoadsCounted, Station!Loading
  <2> USE <1>b, <1>c DEF LoadsWanted, SealedBefore, JarsNumbered, Carrying, Station!RowIsWanted,
     Station!BearerIsWanted, Station!LockedHoldsNone, Station!JarUsedOnce, Station!None,
     Station!Replacing, Station!Loading, LoadLocals, FormLocals
  <2>5. LoadsWanted' /\ SealedBefore' /\ JarsNumbered'
    OBVIOUS
  <2>6. /\ Station!RowIsWanted'
        /\ Station!BearerIsWanted'
        /\ Station!LockedHoldsNone'
        /\ Station!JarUsedOnce'
    OBVIOUS
  <2> QED BY <2>3, <2>4, <2>5, <2>6
<1>14. ASSUME NEW f \in ConnectForms, Station!Verify(f) PROVE RadioInv'
  <2> USE <1>a, <1>14 DEF Station!Verify, Station!Taken
  <2>1. (x5 \in [Callers -> LoadLocals])'
    BY <1>b, <1>c DEF LoadLocals, Station!LoadSteps
  <2>2. (x7 \in [ConnectForms -> FormLocals])'
    BY <1>b DEF FormLocals, Station!FormSteps
  <2>3. Station!TypeOK'
    BY <1>b, <1>c, <1>d, <2>1, <2>2, RadioAssumption DEF Station!TypeOK, LoadLocals, FormLocals,
       JarsNumbered
  <2>4. LoadsCounted'
    BY <1>e DEF LoadsCounted, Station!Loading
  <2> USE <1>b, <1>c DEF LoadsWanted, SealedBefore, JarsNumbered, Carrying, Station!RowIsWanted,
     Station!BearerIsWanted, Station!LockedHoldsNone, Station!JarUsedOnce, Station!None,
     Station!Replacing, Station!Loading, LoadLocals, FormLocals
  <2>5. LoadsWanted' /\ SealedBefore' /\ JarsNumbered'
    OBVIOUS
  <2>6. /\ Station!RowIsWanted'
        /\ Station!BearerIsWanted'
        /\ Station!LockedHoldsNone'
        /\ Station!JarUsedOnce'
    OBVIOUS
  <2> QED BY <2>3, <2>4, <2>5, <2>6
<1>15. ASSUME NEW f \in ConnectForms, Station!VerifyFails(f) PROVE RadioInv'
  <2> USE <1>a, <1>15 DEF Station!VerifyFails, Station!Event
  <2>1. (x5 \in [Callers -> LoadLocals])'
    BY <1>b, <1>c DEF LoadLocals, Station!LoadSteps
  <2>2. (x7 \in [ConnectForms -> FormLocals])'
    BY <1>b DEF FormLocals, Station!FormSteps
  <2>3. Station!TypeOK'
    BY <1>b, <1>c, <1>d, <2>1, <2>2, RadioAssumption DEF Station!TypeOK, LoadLocals, FormLocals,
       JarsNumbered
  <2>4. LoadsCounted'
    BY <1>e DEF LoadsCounted, Station!Loading
  <2> USE <1>b, <1>c DEF LoadsWanted, SealedBefore, JarsNumbered, Carrying, Station!RowIsWanted,
     Station!BearerIsWanted, Station!LockedHoldsNone, Station!JarUsedOnce, Station!None,
     Station!Replacing, Station!Loading, LoadLocals, FormLocals
  <2>5. LoadsWanted' /\ SealedBefore' /\ JarsNumbered'
    OBVIOUS
  <2>6. /\ Station!RowIsWanted'
        /\ Station!BearerIsWanted'
        /\ Station!LockedHoldsNone'
        /\ Station!JarUsedOnce'
    OBVIOUS
  <2> QED BY <2>3, <2>4, <2>5, <2>6
<1>16. ASSUME NEW f \in ConnectForms, Station!VerifyOk(f) PROVE RadioInv'
  <2> USE <1>a, <1>16 DEF Station!VerifyOk
  <2>1. (x5 \in [Callers -> LoadLocals])'
    BY <1>b, <1>c DEF LoadLocals, Station!LoadSteps
  <2>2. (x7 \in [ConnectForms -> FormLocals])'
    <3> DEFINE filled == [step |-> "saving", jar |-> 0, login |-> x9 + 1]
    <3>1. x9 < MaxLogins => filled \in FormLocals
      BY RadioAssumption DEF FormLocals, Station!FormSteps
    <3> HIDE DEF filled, FormLocals, Station!NoForm, RadioInv
    <3>2. x7' = [x7 EXCEPT ![f] = filled] \/ x7' = [x7 EXCEPT ![f] = Station!NoForm]
      BY DEF filled
    <3>3. x9 < MaxLogins
      OBVIOUS
    <3> QED BY <1>b, <3>1, <3>2, <3>3
  <2>3. Station!TypeOK'
    BY <1>b, <1>c, <1>d, <2>1, <2>2, RadioAssumption DEF Station!TypeOK, LoadLocals, FormLocals,
       JarsNumbered
  <2>4. LoadsCounted'
    BY <1>e DEF LoadsCounted, Station!Loading
  <2> USE <1>b, <1>c DEF LoadsWanted, SealedBefore, JarsNumbered, Carrying, Station!RowIsWanted,
     Station!BearerIsWanted, Station!LockedHoldsNone, Station!JarUsedOnce, Station!None,
     Station!Replacing, Station!Loading, LoadLocals, FormLocals
  <2>5. LoadsWanted' /\ SealedBefore' /\ JarsNumbered'
    OBVIOUS
  <2>6. /\ Station!RowIsWanted'
        /\ Station!BearerIsWanted'
        /\ Station!LockedHoldsNone'
        /\ Station!JarUsedOnce'
    OBVIOUS
  <2> QED BY <2>3, <2>4, <2>5, <2>6
<1>17. ASSUME NEW f \in ConnectForms, Station!SaveLogin(f) PROVE RadioInv'
  <2> USE <1>a, <1>17 DEF Station!SaveLogin, Station!Sheet, Station!Replaced
  <2>1. (x5 \in [Callers -> LoadLocals])'
    BY <1>b, <1>c DEF LoadLocals, Station!LoadSteps
  <2>2. (x7 \in [ConnectForms -> FormLocals])'
    BY <1>b DEF FormLocals, Station!FormSteps
  <2>3. Station!TypeOK'
    BY <1>b, <1>c, <1>d, <2>1, <2>2, RadioAssumption DEF Station!TypeOK, LoadLocals, FormLocals,
       JarsNumbered
  <2>4. LoadsCounted'
    BY <1>e DEF LoadsCounted, Station!Loading
  <2> USE <1>b, <1>c DEF LoadsWanted, SealedBefore, JarsNumbered, Carrying, Station!RowIsWanted,
     Station!BearerIsWanted, Station!LockedHoldsNone, Station!JarUsedOnce, Station!None,
     Station!Replacing, Station!Loading, LoadLocals, FormLocals
  <2>5. LoadsWanted' /\ SealedBefore' /\ JarsNumbered'
    OBVIOUS
  <2>6. /\ Station!RowIsWanted'
        /\ Station!BearerIsWanted'
        /\ Station!LockedHoldsNone'
        /\ Station!JarUsedOnce'
    OBVIOUS
  <2> QED BY <2>3, <2>4, <2>5, <2>6
<1>18. ASSUME NEW f \in ConnectForms, Station!Disconnect(f) PROVE RadioInv'
  <2> USE <1>a, <1>18 DEF Station!Disconnect, Station!Sheet, Station!Event
  <2>1. (x5 \in [Callers -> LoadLocals])'
    BY <1>b, <1>c DEF LoadLocals, Station!LoadSteps
  <2>2. (x7 \in [ConnectForms -> FormLocals])'
    BY <1>b DEF FormLocals, Station!FormSteps
  <2>3. Station!TypeOK'
    BY <1>b, <1>c, <1>d, <2>1, <2>2, RadioAssumption DEF Station!TypeOK, LoadLocals, FormLocals,
       JarsNumbered
  <2>4. LoadsCounted'
    BY <1>e DEF LoadsCounted, Station!Loading
  <2> USE <1>b, <1>c DEF LoadsWanted, SealedBefore, JarsNumbered, Carrying, Station!RowIsWanted,
     Station!BearerIsWanted, Station!LockedHoldsNone, Station!JarUsedOnce, Station!None,
     Station!Replacing, Station!Loading, LoadLocals, FormLocals
  <2>5. LoadsWanted' /\ SealedBefore' /\ JarsNumbered'
    OBVIOUS
  <2>6. /\ Station!RowIsWanted'
        /\ Station!BearerIsWanted'
        /\ Station!LockedHoldsNone'
        /\ Station!JarUsedOnce'
    OBVIOUS
  <2> QED BY <2>3, <2>4, <2>5, <2>6
<1>19. ASSUME NEW f \in ConnectForms, Station!Delete(f) PROVE RadioInv'
  <2> USE <1>a, <1>19 DEF Station!Delete, Station!Sheet, Station!Replaced
  <2>1. (x5 \in [Callers -> LoadLocals])'
    BY <1>b, <1>c DEF LoadLocals, Station!LoadSteps
  <2>2. (x7 \in [ConnectForms -> FormLocals])'
    BY <1>b DEF FormLocals, Station!FormSteps
  <2>3. Station!TypeOK'
    BY <1>b, <1>c, <1>d, <2>1, <2>2, RadioAssumption DEF Station!TypeOK, LoadLocals, FormLocals,
       JarsNumbered
  <2>4. LoadsCounted'
    BY <1>e DEF LoadsCounted, Station!Loading
  <2> USE <1>b, <1>c DEF LoadsWanted, SealedBefore, JarsNumbered, Carrying, Station!RowIsWanted,
     Station!BearerIsWanted, Station!LockedHoldsNone, Station!JarUsedOnce, Station!None,
     Station!Replacing, Station!Loading, LoadLocals, FormLocals
  <2>5. LoadsWanted' /\ SealedBefore' /\ JarsNumbered'
    OBVIOUS
  <2>6. /\ Station!RowIsWanted'
        /\ Station!BearerIsWanted'
        /\ Station!LockedHoldsNone'
        /\ Station!JarUsedOnce'
    OBVIOUS
  <2> QED BY <2>3, <2>4, <2>5, <2>6
<1>20. ASSUME NEW f \in ConnectForms, Station!FormForgets(f) PROVE RadioInv'
  <2> USE <1>a, <1>20 DEF Station!FormForgets, Station!Forget
  <2>1. (x5 \in [Callers -> LoadLocals])'
    BY <1>b, <1>c DEF LoadLocals, Station!LoadSteps
  <2>2. (x7 \in [ConnectForms -> FormLocals])'
    BY <1>b DEF FormLocals, Station!FormSteps
  <2>3. Station!TypeOK'
    BY <1>b, <1>c, <1>d, <2>1, <2>2, RadioAssumption DEF Station!TypeOK, LoadLocals, FormLocals,
       JarsNumbered
  <2>4. LoadsCounted'
    BY <1>e DEF LoadsCounted, Station!Loading
  <2> USE <1>b, <1>c DEF LoadsWanted, SealedBefore, JarsNumbered, Carrying, Station!RowIsWanted,
     Station!BearerIsWanted, Station!LockedHoldsNone, Station!JarUsedOnce, Station!None,
     Station!Replacing, Station!Loading, LoadLocals, FormLocals
  <2>5. LoadsWanted' /\ SealedBefore' /\ JarsNumbered'
    OBVIOUS
  <2>6. /\ Station!RowIsWanted'
        /\ Station!BearerIsWanted'
        /\ Station!LockedHoldsNone'
        /\ Station!JarUsedOnce'
    OBVIOUS
  <2> QED BY <2>3, <2>4, <2>5, <2>6
<1>21. ASSUME Station!Drop PROVE RadioInv'
  <2> USE <1>a, <1>21 DEF Station!Drop, Station!Event
  <2>1. (x5 \in [Callers -> LoadLocals])'
    BY <1>b, <1>c DEF LoadLocals, Station!LoadSteps
  <2>2. (x7 \in [ConnectForms -> FormLocals])'
    BY <1>b DEF FormLocals, Station!FormSteps
  <2>3. Station!TypeOK'
    BY <1>b, <1>c, <1>d, <2>1, <2>2, RadioAssumption DEF Station!TypeOK, LoadLocals, FormLocals,
       JarsNumbered
  <2>4. LoadsCounted'
    BY <1>e DEF LoadsCounted, Station!Loading
  <2> USE <1>b, <1>c DEF LoadsWanted, SealedBefore, JarsNumbered, Carrying, Station!RowIsWanted,
     Station!BearerIsWanted, Station!LockedHoldsNone, Station!JarUsedOnce, Station!None,
     Station!Replacing, Station!Loading, LoadLocals, FormLocals
  <2>5. LoadsWanted' /\ SealedBefore' /\ JarsNumbered'
    OBVIOUS
  <2>6. /\ Station!RowIsWanted'
        /\ Station!BearerIsWanted'
        /\ Station!LockedHoldsNone'
        /\ Station!JarUsedOnce'
    OBVIOUS
  <2> QED BY <2>3, <2>4, <2>5, <2>6
<1>30. CASE UNCHANGED Station!vars
  BY <1>30 DEF Station!vars, RadioInv, Station!TypeOK, LoadsCounted, Station!Replacing,
     Station!Loading, LoadsWanted, SealedBefore, JarsNumbered, Station!RowIsWanted,
     Station!BearerIsWanted, Station!LockedHoldsNone, Station!JarUsedOnce
<1> HIDE DEF RadioInv
<1> QED BY <1>30, <1>1, <1>2, <1>3, <1>4, <1>5, <1>6, <1>7, <1>8, <1>9, <1>10, <1>11, <1>12, <1>13,
   <1>14, <1>15, <1>16, <1>17, <1>18, <1>19, <1>20, <1>21 DEF Station!Next, Station!LoadStep,
   Station!FormStep

\* A request has its five fields, whichever they hold.
RequestFields == {"phase", "line", "what", "url", "of"}
RelayShape ==
    /\ DOMAIN x7 = Listening /\ DOMAIN x8 = Listening /\ DOMAIN x9 = Listening
    /\ \A t \in Listening : DOMAIN x7[t] = RequestFields

\* An address is minted on the line it was asked for.
MintsOwn == \A t \in Listening : x7[t].phase = "mint" => x7[t].of = x7[t].line

\* The inductive invariant of RadioRelay: the property, and where an address is minted.
RelayInv == RelayShape /\ MintsOwn /\ Relay!RelayHolds

\* At the start nobody asks for a line.
LEMMA RelayInit == Relay!Init => RelayInv
  BY DEF Relay!Init, RelayInv, RelayShape, MintsOwn, RequestFields, Relay!RelayHolds,
     Relay!OpenWhenAsked, Relay!SameLine, Relay!WaitsForOne, Relay!Idle

\* Every step of the relay keeps the invariant.
LEMMA RelayStep == ASSUME RelayInv, [Relay!Next]_(Relay!vars) PROVE RelayInv'
<1> USE DEF RelayInv, RelayShape, MintsOwn, RequestFields, Relay!RelayHolds, Relay!OpenWhenAsked,
   Relay!SameLine, Relay!WaitsForOne, Relay!Idle, Relay!Target
<1>1. CASE UNCHANGED <<x7, x8, x9, x10>>
  BY <1>1
<1>2. ASSUME NEW t \in Listening, NEW o \in LineOwners, Relay!Ask(t, o) PROVE RelayInv'
  BY <1>2 DEF Relay!Ask, Relay!Admits, Relay!Open
<1>3. ASSUME NEW t \in Listening, NEW g \in x8[t], Relay!AskSegment(t, g) PROVE RelayInv'
  BY <1>3 DEF Relay!AskSegment, Relay!Admits, Relay!Open
<1>4. ASSUME NEW t \in Listening, Relay!Tune(t) PROVE RelayInv'
  BY <1>4 DEF Relay!Tune
<1>5. ASSUME NEW t \in Listening, Relay!Mint(t) PROVE RelayInv'
  <2>1. CASE x7[t].url # x3[x7[t].line]
    BY <1>5, <2>1 DEF Relay!Mint
  <2>2. CASE x7[t].url = x3[x7[t].line]
    <3>1. x7[t].phase = "mint" /\ x7' = [x7 EXCEPT ![t].phase = "fetch"]
          /\ UNCHANGED <<x8, x9, x10>>
      BY <1>5, <2>2 DEF Relay!Mint
    <3> QED BY <3>1
  <2> QED BY <2>1, <2>2
<1>6. ASSUME NEW t \in Listening, Relay!Fetch(t) PROVE RelayInv'
  BY <1>6 DEF Relay!Fetch
<1>7. ASSUME NEW g \in LineOwners \X Relay!What, Relay!Answer(g) PROVE RelayInv'
  BY <1>7 DEF Relay!Answer, Relay!Waits, Relay!Under
<1>8. ASSUME NEW g \in LineOwners \X Relay!What, Relay!Refuse(g) PROVE RelayInv'
  BY <1>8 DEF Relay!Refuse, Relay!Waits
<1> QED
  <2>1. CASE Relay!Tick
    BY <1>1, <2>1 DEF Relay!Tick
  <2>2. ASSUME NEW u \in Listeners, NEW o \in LineOwners, Relay!Share(u, o) PROVE RelayInv'
    BY <1>1, <2>2 DEF Relay!Share
  <2>3. ASSUME NEW o \in LineOwners, Relay!Lapse(o) \/ Relay!Renew(o) PROVE RelayInv'
    BY <1>1, <2>3 DEF Relay!Lapse, Relay!Renew
  <2>4. CASE UNCHANGED Relay!vars
    BY <1>1, <2>4 DEF Relay!vars
  <2> HIDE DEF RelayInv
  <2> QED BY <1>2, <1>3, <1>4, <1>5, <1>6, <1>7, <1>8, <2>1, <2>2, <2>3, <2>4 DEF Relay!Next

(* The switch, for any tabs T, self-checks C and number of endpoints E. *)

\* What a tab remembers when m endpoints have been made.
PushTab(m) ==
    [step : {"closed", "idle", "asking", "subscribing", "readback", "saving", "undoing", "leaving", "telling"},
     current : 0..m, got : 0..m, reads : SUBSET (0..m \cup {-1})]

\* What asks the server to keep endpoint e, for tab t.
SaveOf(t, e) == [tab |-> t, kind |-> "save", endpoint |-> e]

\* No drop is on its way for what the browser has, a tab that saves has its request on its way,
\* and one that leaves has something to leave.
RequestsFit(T) ==
    /\ \A m \in x8 : m.kind = "drop" => m.endpoint # x2
    /\ \A t \in T : x6[t].step = "saving" => SaveOf(t, x6[t].got) \in x8
    /\ \A t \in T : x6[t].step = "leaving" => x6[t].got # 0

\* Somebody still sees to it that the subscription is stored, or undone.
SeenTo(T, C) ==
    \/ \E t \in T : x6[t].step \in {"undoing", "readback"}
    \/ \E t \in T : x6[t].step = "saving" /\ x6[t].got = x2
    \/ \E c \in C : x7[c] = "dropping"

\* The inductive invariant of PushToggle: SubscribedIsStored speaks of quiet states, and this
\* of all.
PushInv(T, C, E) ==
    /\ x1 \in {"default", "granted", "denied"}
    /\ x3 \in 0..E /\ x2 \in 0..x3
    /\ x4 \in [1..E -> {"absent", "live", "disabled"}]
    /\ x6 \in [T -> PushTab(x3)]
    /\ DOMAIN x7 = C
    /\ x8 \subseteq [tab : T, kind : {"save", "drop"}, endpoint : 1..x3]
    /\ x10 \in BOOLEAN
    /\ RequestsFit(T)
    /\ (~x10 /\ x2 # 0 /\ x4[x2] # "live" => SeenTo(T, C))

\* At the start no tab is open and the browser has nothing.
LEMMA PushInit ==
    ASSUME NEW CONSTANT T, NEW CONSTANT C, NEW CONSTANT E \in Nat, Switch(T, C, E)!Init
    PROVE  PushInv(T, C, E)
<1>1. /\ x1 \in {"default", "granted"} /\ x2 = 0 /\ x3 = 0
      /\ x4 = [e \in 1..E |-> "absent"] /\ x8 = {} /\ x10 = FALSE /\ DOMAIN x7 = C
      /\ x6 = [t \in T |-> [step |-> "closed", current |-> 0, got |-> 0, reads |-> {}]]
  BY DEF Switch!Init, Switch!None, Switch!Endpoints
<1>2. x6 \in [T -> PushTab(x3)] /\ \A t \in T : x6[t].step = "closed"
  BY <1>1 DEF PushTab
<1>3. x4 \in [1..E -> {"absent", "live", "disabled"}]
  BY <1>1
<1>4. RequestsFit(T)
  BY <1>1, <1>2 DEF RequestsFit
<1>5. x3 \in 0..E /\ x2 \in 0..x3 /\ x1 \in {"default", "granted", "denied"}
  BY <1>1
<1>6. x10 \in BOOLEAN /\ x8 \subseteq [tab : T, kind : {"save", "drop"}, endpoint : 1..x3]
  BY <1>1
<1> QED BY <1>1, <1>2, <1>3, <1>4, <1>5, <1>6 DEF PushInv

\* A tab that changes alone keeps the invariant: it goes on as it was, it is among those that
\* see to the subscription, or it was not and there is nothing to see to.
LEMMA PushTabMoves ==
    ASSUME NEW CONSTANT T, NEW CONSTANT C, NEW CONSTANT E \in Nat, PushInv(T, C, E),
           NEW t \in T, NEW r \in PushTab(x3), x6' = [x6 EXCEPT ![t] = r],
           \/ r.step = x6[t].step /\ r.got = x6[t].got
           \/ r.step \in {"readback", "undoing"}
           \/ /\ x6[t].step \notin {"undoing", "readback", "saving"} \/ x2 = 0 \/ (x10' /\ x6[t].step = "undoing")
              /\ r.step # "saving" /\ (r.step = "leaving" => r.got # 0),
           x10' \in BOOLEAN, x10 => x10',
           UNCHANGED <<x1, x2, x3, x4, x7, x8>>
    PROVE  PushInv(T, C, E)'
<1>1. /\ x6' \in [T -> PushTab(x3)] /\ x6'[t] = r
      /\ \A u \in T : u # t => x6'[u] = x6[u]
  BY DEF PushInv
<1>2. RequestsFit(T)'
  BY <1>1 DEF PushInv, RequestsFit
<1>3. ~x10' /\ x2 # 0 /\ x4[x2] # "live" => SeenTo(T, C)'
  <2> SUFFICES ASSUME ~x10', x2 # 0, x4[x2] # "live" PROVE SeenTo(T, C)'
    OBVIOUS
  <2>1. SeenTo(T, C)
    BY DEF PushInv
  <2> QED BY <2>1, <1>1 DEF SeenTo
<1> QED BY <1>1, <1>2, <1>3 DEF PushInv

\* A handler that ends.
Ended(r) == [r EXCEPT !.step = "idle", !.got = 0, !.reads = @ \cup {-1}]

\* A tab whose handler ends remembers nothing of it.
LEMMA PushEnds ==
    ASSUME NEW CONSTANT T, NEW CONSTANT C, NEW CONSTANT E \in Nat, PushInv(T, C, E), NEW t \in T
    PROVE  /\ Switch(T, C, E)!Ended(t) = [x6 EXCEPT ![t] = Ended(x6[t])]
           /\ Ended(x6[t]) \in PushTab(x3) /\ Ended(x6[t]).step = "idle" /\ x6[t] \in PushTab(x3)
<1>1. x6[t] \in PushTab(x3) /\ x3 \in Nat /\ DOMAIN x6 = T
  BY DEF PushInv
<1>2. ASSUME NEW r \in PushTab(x3) PROVE Ended(r) \in PushTab(x3) /\ Ended(r).step = "idle"
  <2> DEFINE s == r.reads \cup {-1}
  <2>1. s \in SUBSET (0..x3 \cup {-1}) /\ r.current \in 0..x3 /\ 0 \in 0..x3
    BY <1>1, <1>2 DEF PushTab
  <2>2. Ended(r) = [r EXCEPT !.step = "idle", !.got = 0, !.reads = s]
    BY <1>2 DEF Ended, PushTab
  <2> HIDE DEF s
  <2> QED BY <1>2, <2>1, <2>2 DEF PushTab
<1>3. Ended(x6[t]) \in PushTab(x3) /\ Ended(x6[t]).step = "idle"
  BY <1>1, <1>2
<1>4. Switch(T, C, E)!Ended(t) = [x6 EXCEPT ![t] = Ended(x6[t])]
  BY <1>1 DEF Switch!Ended, Switch!None, Switch!Unread, Ended
<1> QED BY <1>1, <1>3, <1>4

\* What subscribe() leaves: the subscription there was, or a new one that is newer than any.
LEMMA PushSubscribes ==
    ASSUME NEW CONSTANT T, NEW CONSTANT C, NEW CONSTANT E \in Nat, PushInv(T, C, E),
           Switch(T, C, E)!Subscribe
    PROVE  /\ x3' \in 0..E /\ x2' \in 1..x3' /\ x3 <= x3'
           /\ (x2' = x2 /\ x3' = x3) \/ (x2 = 0 /\ x2' = x3 + 1)
           /\ PushTab(x3) \subseteq PushTab(x3') /\ 1..x3 \subseteq 1..x3'
<1>1. x3 \in 0..E /\ x2 \in 0..x3
  BY DEF PushInv
<1>2. /\ x3' \in 0..E /\ x2' \in 1..x3' /\ x3 <= x3'
      /\ (x2' = x2 /\ x3' = x3) \/ (x2 = 0 /\ x2' = x3 + 1)
  BY <1>1 DEF Switch!Subscribe, Switch!Subscribed, Switch!None
<1>3. 0..x3 \subseteq 0..x3' /\ 1..x3 \subseteq 1..x3'
  BY <1>1, <1>2
<1> QED BY <1>2, <1>3 DEF PushTab

\* Every step keeps the invariant, and gives up no row of what the browser has.
LEMMA PushStep ==
    ASSUME NEW CONSTANT T, NEW CONSTANT C, NEW CONSTANT E \in Nat, PushInv(T, C, E),
           [Switch(T, C, E)!Next]_(Switch(T, C, E)!vars)
    PROVE  PushInv(T, C, E)' /\ Switch(T, C, E)!NeverForgottenStep
<1> DEFINE Good == PushInv(T, C, E)' /\ Switch(T, C, E)!NeverForgottenStep
           Kept == UNCHANGED <<x1, x2, x3, x4, x7, x8>> /\ x10' \in BOOLEAN /\ (x10 => x10')
<1>a. /\ x1 \in {"default", "granted", "denied"} /\ x3 \in 0..E /\ x2 \in 0..x3 /\ x3 \in Nat /\ x10 \in BOOLEAN
      /\ x4 \in [1..E -> {"absent", "live", "disabled"}] /\ x6 \in [T -> PushTab(x3)] /\ DOMAIN x7 = C
      /\ x8 \subseteq [tab : T, kind : {"save", "drop"}, endpoint : 1..x3]
  BY DEF PushInv
<1>b. ASSUME NEW t \in T, Kept,
             \E r \in PushTab(x3) :
                /\ x6' = [x6 EXCEPT ![t] = r]
                /\ \/ r.step = x6[t].step /\ r.got = x6[t].got
                   \/ r.step \in {"readback", "undoing"}
                   \/ /\ x6[t].step \notin {"undoing", "readback", "saving"} \/ x2 = 0
                         \/ (x10' /\ x6[t].step = "undoing")
                      /\ r.step # "saving" /\ (r.step = "leaving" => r.got # 0)
      PROVE  Good
  <2>1. PushInv(T, C, E)'
    BY <1>b, PushTabMoves
  <2>2. Switch(T, C, E)!NeverForgottenStep
    BY <1>b DEF Switch!NeverForgottenStep
  <2> QED BY <2>1, <2>2
<1>c. \A t \in T : /\ x6[t] \in PushTab(x3) /\ Ended(x6[t]) \in PushTab(x3) /\ Ended(x6[t]).step = "idle"
                   /\ Switch(T, C, E)!Ended(t) = [x6 EXCEPT ![t] = Ended(x6[t])]
  BY PushEnds
<1> SUFFICES Good
  OBVIOUS
<1> HIDE DEF Good, Kept
<1>d. ASSUME NEW t \in T, Kept, x6' = Switch(T, C, E)!Ended(t),
             x6[t].step \notin {"undoing", "readback", "saving"} \/ x2 = 0 \/ (x10' /\ x6[t].step = "undoing")
      PROVE  Good
  BY <1>b, <1>c, <1>d
<1>1. ASSUME NEW t \in T, Switch(T, C, E)!Open(t) PROVE Good
  BY <1>1, <1>a, <1>d DEF Switch!Open, Switch!browser, Switch!server, Kept
<1>2. ASSUME NEW t \in T, NEW e \in 0..x3 \cup {-1}, NEW S,
             S = (x6[t].reads \cup {e}) \/ S = (x6[t].reads \ {e}) \/ S = (x6[t].reads \ {-1}) \cup {e},
             x6' = [x6 EXCEPT ![t].reads = S], Kept
      PROVE  Good
  <2> DEFINE r == [x6[t] EXCEPT !.reads = S]
  <2>1. S \in SUBSET (0..x3 \cup {-1})
    BY <1>2, <1>c DEF PushTab
  <2>2. r \in PushTab(x3) /\ r.step = x6[t].step /\ r.got = x6[t].got
    BY <2>1, <1>c DEF PushTab
  <2>3. x6' = [x6 EXCEPT ![t] = r]
    BY <1>2, <1>a
  <2> HIDE DEF r
  <2> QED BY <1>b, <1>2, <2>2, <2>3
<1>3. ASSUME NEW t \in T, Switch(T, C, E)!Visible(t) PROVE Good
  <2>1. x6' = [x6 EXCEPT ![t].reads = x6[t].reads \cup {-1}] /\ Kept
    BY <1>3, <1>a DEF Switch!Visible, Switch!browser, Switch!server, Kept, Switch!Unread
  <2> QED BY <2>1, <1>2
<1>4. ASSUME NEW t \in T, Switch(T, C, E)!PaintRead(t) PROVE Good
  <2>1. PICK e \in 0..x3 : x6' = [x6 EXCEPT ![t].reads = (x6[t].reads \ {-1}) \cup {e}]
    BY <1>4, <1>a DEF Switch!PaintRead, Switch!Unread, Switch!None, Switch!Fault
  <2>2. Kept
    BY <1>4, <1>a DEF Switch!PaintRead, Switch!browser, Switch!server, Kept
  <2> QED BY <2>1, <2>2, <1>2
<1>5. ASSUME NEW t \in T, Switch(T, C, E)!PaintEnd(t) PROVE Good
  <2>1. Kept
    BY <1>5, <1>a DEF Switch!PaintEnd, Switch!browser, Switch!server, Kept
  <2>2. PICK e \in x6[t].reads \ {-1} :
           x6' = [x6 EXCEPT ![t].reads = x6[t].reads \ {e}, ![t].current = IF x1 = "denied" THEN 0 ELSE e]
    BY <1>5, <1>a DEF Switch!PaintEnd, Switch!Unread, Switch!None
  <2> DEFINE f == IF x1 = "denied" THEN 0 ELSE e
             s == x6[t].reads \ {e}
             r == [x6[t] EXCEPT !.reads = s, !.current = f]
  <2>3. f \in 0..x3 /\ s \in SUBSET (0..x3 \cup {-1})
    <3>1. x6[t].reads \subseteq 0..x3 \cup {-1}
      BY <1>c DEF PushTab
    <3>2. e \in 0..x3 /\ 0 \in 0..x3
      BY <3>1, <1>a
    <3> QED BY <3>1, <3>2
  <2>4. x6' = [x6 EXCEPT ![t] = r]
    BY <2>2, <1>a
  <2> HIDE DEF f, s
  <2>5. r \in PushTab(x3) /\ r.step = x6[t].step /\ r.got = x6[t].got
    BY <2>3, <1>c DEF PushTab
  <2> HIDE DEF r
  <2> QED BY <1>b, <2>1, <2>4, <2>5
<1>6. ASSUME NEW t \in T, Switch(T, C, E)!Click(t) PROVE Good
  <2>1. Kept /\ x6[t].step = "idle"
    BY <1>6, <1>a DEF Switch!Click, Switch!browser, Switch!server, Kept
  <2> DEFINE leaving == [x6[t] EXCEPT !.step = "leaving", !.got = x6[t].current]
  <2>2. CASE x6[t].current # 0
    <3>1. x6' = [x6 EXCEPT ![t] = leaving]
      BY <2>2, <1>6, <1>a DEF Switch!Click, Switch!None
    <3>2. leaving \in PushTab(x3) /\ leaving.step = "leaving" /\ leaving.got # 0
      BY <2>2, <1>c DEF PushTab
    <3> HIDE DEF leaving
    <3> QED BY <1>b, <2>1, <3>1, <3>2
  <2>3. CASE x6[t].current = 0 /\ Switch(T, C, E)!AfterPermission = "idle"
    BY <1>d, <1>6, <2>1, <2>3 DEF Switch!Click, Switch!None
  <2>4. CASE x6[t].current = 0 /\ Switch(T, C, E)!AfterPermission # "idle"
    <3> DEFINE r == [x6[t] EXCEPT !.step = Switch(T, C, E)!AfterPermission]
    <3>1. Switch(T, C, E)!AfterPermission \in {"asking", "subscribing"}
      BY <1>a, <2>4 DEF Switch!AfterPermission
    <3>2. x6' = [x6 EXCEPT ![t] = r]
      BY <2>4, <1>6, <1>a DEF Switch!Click, Switch!None
    <3>3. r \in PushTab(x3) /\ r.step \in {"asking", "subscribing"}
      BY <3>1, <1>c DEF PushTab
    <3> HIDE DEF r
    <3> QED BY <1>b, <2>1, <3>2, <3>3
  <2> QED BY <2>2, <2>3, <2>4
<1>7. ASSUME NEW t \in T, Switch(T, C, E)!Asked(t) PROVE Good
  <2>1. Kept /\ x6[t].step = "asking"
    BY <1>7, <1>a DEF Switch!Asked, Switch!browser, Switch!server, Kept
  <2> DEFINE r == [x6[t] EXCEPT !.step = "subscribing"]
  <2>2. r \in PushTab(x3) /\ r.step = "subscribing"
    BY <1>c DEF PushTab
  <2>3. x6' = [x6 EXCEPT ![t] = r] \/ x6' = Switch(T, C, E)!Ended(t)
    BY <1>7, <1>a DEF Switch!Asked
  <2> HIDE DEF r
  <2> QED BY <1>b, <1>d, <2>1, <2>2, <2>3
<1>8. ASSUME NEW t \in T, Switch(T, C, E)!AskedTooLong(t) \/ Switch(T, C, E)!SubscribeFails(t)
                          \/ Switch(T, C, E)!TellFails(t)
      PROVE  Good
  BY <1>8, <1>a, <1>d DEF Switch!AskedTooLong, Switch!SubscribeFails, Switch!TellFails, Switch!browser,
     Switch!server, Kept
<1>9. ASSUME NEW t \in T, Switch(T, C, E)!SubscribeHangs(t) \/ Switch(T, C, E)!SaveFails(t) PROVE Good
  <2>1. PICK to \in {"readback", "undoing"} : x6' = [x6 EXCEPT ![t].step = to]
    BY <1>9 DEF Switch!SubscribeHangs, Switch!SaveFails
  <2> DEFINE r == [x6[t] EXCEPT !.step = to]
  <2>2. x6' = [x6 EXCEPT ![t] = r] /\ Kept
    BY <1>9, <2>1, <1>a DEF Switch!SubscribeHangs, Switch!SaveFails, Switch!browser, Switch!server, Kept
  <2>3. r \in PushTab(x3) /\ r.step \in {"readback", "undoing"}
    BY <1>c DEF PushTab
  <2> HIDE DEF r
  <2> QED BY <1>b, <2>2, <2>3
\* A tab has a subscription in hand and asks the server to keep it.
<1>10. ASSUME NEW t \in T, x2' \in 1..x3', x3' \in 0..E, x3 <= x3', PushTab(x3) \subseteq PushTab(x3'),
              1..x3 \subseteq 1..x3', (x2' = x2 /\ x3' = x3) \/ (x2 = 0 /\ x2' = x3 + 1),
              Switch(T, C, E)!Saving(t, x2'), UNCHANGED <<x1, x4, x7, x10>>
       PROVE  Good
  <2> DEFINE r == [x6[t] EXCEPT !.step = "saving", !.got = x2']
  <2>1. x6' = [x6 EXCEPT ![t] = r] /\ x8' = x8 \cup {SaveOf(t, x2')}
    BY <1>10, <1>a DEF Switch!Saving, SaveOf
  <2>2. r \in PushTab(x3') /\ r.step = "saving" /\ r.got = x2'
    <3>1. x6[t] \in PushTab(x3') /\ x2' \in 0..x3'
      BY <1>10, <1>c
    <3> QED BY <3>1 DEF PushTab
  <2> HIDE DEF r
  <2>3. x6' \in [T -> PushTab(x3')] /\ x6'[t] = r /\ \A u \in T : u # t => x6'[u] = x6[u]
    BY <1>10, <1>a, <2>1, <2>2
  <2>4. SaveOf(t, x2') \in [tab : T, kind : {"save", "drop"}, endpoint : 1..x3'] /\ SaveOf(t, x2').kind = "save"
    BY <1>10 DEF SaveOf
  <2>5. x8' \subseteq [tab : T, kind : {"save", "drop"}, endpoint : 1..x3']
    BY <1>10, <1>a, <2>1, <2>4
  <2>6. \A m \in x8 : m.endpoint <= x3 /\ m.endpoint \in Nat
    BY <1>a
  <2>7. RequestsFit(T)'
    BY <1>10, <1>a, <2>1, <2>2, <2>3, <2>4, <2>6 DEF PushInv, RequestsFit
  <2>8. SeenTo(T, C)'
    BY <2>2, <2>3 DEF SeenTo
  <2>9. PushInv(T, C, E)'
    BY <1>10, <1>a, <2>3, <2>5, <2>7, <2>8 DEF PushInv
  <2>10. Switch(T, C, E)!NeverForgottenStep
    BY <1>10 DEF Switch!NeverForgottenStep
  <2> QED BY <2>9, <2>10 DEF Good
<1>11. ASSUME NEW t \in T, Switch(T, C, E)!SubscribeDone(t) PROVE Good
  <2>1. Switch(T, C, E)!Subscribe /\ Switch(T, C, E)!Saving(t, x2') /\ UNCHANGED <<x1, x4, x7, x10>>
    BY <1>11 DEF Switch!SubscribeDone, Switch!server
  <2> QED BY <2>1, <1>10, PushSubscribes
<1>12. ASSUME NEW t \in T, Switch(T, C, E)!Readback(t) PROVE Good
  <2>1. UNCHANGED <<x1, x2, x3, x4, x7, x10>>
    BY <1>12 DEF Switch!Readback, Switch!browser, Switch!server
  <2>2. CASE x2 = 0
    BY <2>1, <2>2, <1>12, <1>a, <1>d DEF Switch!Readback, Switch!None, Kept
  <2>3. CASE x2 # 0
    <3>1. Switch(T, C, E)!Saving(t, x2')
      BY <2>1, <2>3, <1>12 DEF Switch!Readback, Switch!None
    <3>2. x2' \in 1..x3' /\ x3' \in 0..E /\ x3 <= x3' /\ PushTab(x3) \subseteq PushTab(x3')
      BY <2>1, <2>3, <1>a
    <3> QED BY <2>1, <3>1, <3>2, <1>10
  <2> QED BY <2>2, <2>3
<1>e. ASSUME x1' \in {"default", "granted", "denied"}, x2' = 0, x3' = x3, UNCHANGED <<x4>>,
             x6' \in [T -> PushTab(x3)], DOMAIN x7' = C, x10' \in BOOLEAN,
             x8' \subseteq [tab : T, kind : {"save", "drop"}, endpoint : 1..x3], x8 \subseteq x8',
             \A t \in T : \/ x6'[t].step = x6[t].step /\ x6'[t].got = x6[t].got
                          \/ x6'[t].step \notin {"saving", "leaving"}
      PROVE  Good
  <2>1. RequestsFit(T)'
    BY <1>a, <1>e DEF RequestsFit, PushInv
  <2>2. PushInv(T, C, E)'
    BY <1>a, <1>e, <2>1 DEF PushInv
  <2>3. Switch(T, C, E)!NeverForgottenStep
    BY <1>e DEF Switch!NeverForgottenStep, Switch!None
  <2> QED BY <2>2, <2>3 DEF Good
<1>13. ASSUME NEW t \in T, Switch(T, C, E)!Undo(t) PROVE Good
  <2>1. /\ UNCHANGED <<x1, x3, x4, x7, x8>> /\ x6[t].step = "undoing" /\ x6' = [x6 EXCEPT ![t] = Ended(x6[t])]
        /\ (x2' = 0 /\ x10' = x10) \/ (x2' = x2 /\ x10' = (x10 \/ x2 # 0))
    BY <1>13, <1>c DEF Switch!Undo, Switch!None, Switch!Fault, Switch!server
  <2>2. CASE x2' = 0 /\ x10' \in BOOLEAN
    <3>1. x6' \in [T -> PushTab(x3)] /\ x6'[t] = Ended(x6[t]) /\ \A u \in T : u # t => x6'[u] = x6[u]
      BY <2>1, <1>a, <1>c
    <3> QED BY <3>1, <2>1, <2>2, <1>a, <1>c, <1>e
  <2>3. CASE x2' = x2 /\ x10' = (x10 \/ x2 # 0)
    <3>1. Kept /\ (x2 = 0 \/ x10')
      BY <2>1, <2>3, <1>a DEF Kept
    <3> QED BY <3>1, <2>1, <1>c, <1>d
  <2> QED BY <2>1, <2>2, <2>3, <1>a
<1>14. ASSUME NEW t \in T, Switch(T, C, E)!Leave(t) PROVE Good
  <2>1. x6[t].step = "leaving" /\ UNCHANGED <<x1, x3, x4, x7, x10>>
    BY <1>14 DEF Switch!Leave, Switch!server
  <2>2. CASE x6' = Switch(T, C, E)!Ended(t) /\ UNCHANGED <<x2, x8>>
    BY <2>1, <2>2, <1>a, <1>d DEF Kept
  <2>3. CASE /\ x2' = 0 /\ x6' = [x6 EXCEPT ![t].step = "telling"]
             /\ x8' = x8 \cup {[tab |-> t, kind |-> "drop", endpoint |-> x6[t].got]}
    <3> DEFINE r == [x6[t] EXCEPT !.step = "telling"]
    <3>1. x6' = [x6 EXCEPT ![t] = r]
      BY <2>3, <1>a
    <3>2. r \in PushTab(x3) /\ r.step = "telling" /\ x6[t].got \in 0..x3
      BY <1>c DEF PushTab
    <3> HIDE DEF r
    <3>3. x6' \in [T -> PushTab(x3)] /\ x6'[t] = r /\ \A u \in T : u # t => x6'[u] = x6[u]
      BY <3>1, <3>2, <1>a
    <3>4. x6[t].got # 0
      BY <2>1 DEF PushInv, RequestsFit
    <3>5. x8' \subseteq [tab : T, kind : {"save", "drop"}, endpoint : 1..x3]
      BY <2>3, <3>2, <3>4, <1>a
    <3> QED BY <2>1, <2>3, <3>2, <3>3, <3>5, <1>a, <1>e
  <2> QED BY <2>2, <2>3, <1>14 DEF Switch!Leave, Switch!None
<1>15. ASSUME NEW t \in T, Switch(T, C, E)!LateSubscribe(t) PROVE Good
  <2>1. /\ Switch(T, C, E)!Subscribe /\ UNCHANGED <<x1, x4, x6, x7, x8>>
        /\ x10' = (x10 \/ (x2 = 0 /\ x6[t].step # "readback"))
    BY <1>15 DEF Switch!LateSubscribe, Switch!server, Switch!None
  <2>2. /\ x3' \in 0..E /\ x2' \in 1..x3' /\ x3 <= x3' /\ PushTab(x3) \subseteq PushTab(x3') /\ 1..x3 \subseteq 1..x3'
        /\ (x2' = x2 /\ x3' = x3) \/ (x2 = 0 /\ x2' = x3 + 1)
    BY <2>1, PushSubscribes
  <2>3. CASE x2' = x2 /\ x3' = x3 /\ x2 # 0
    <3>1. Kept
      BY <2>1, <2>3, <1>a DEF Kept
    <3>2. x6' = [x6 EXCEPT ![t] = x6[t]]
      BY <2>1, <1>a
    <3> QED BY <3>1, <3>2, <1>b, <1>c
  <2>4. CASE x2 = 0 /\ x2' = x3 + 1
    <3>1. \A m \in x8 : m.endpoint <= x3 /\ m.endpoint \in Nat
      BY <1>a
    <3>2. RequestsFit(T)'
      BY <2>1, <2>4, <3>1, <1>a DEF PushInv, RequestsFit
    <3>3. ~x10' => SeenTo(T, C)'
      BY <2>1, <2>4 DEF SeenTo
    <3>4. x10' \in BOOLEAN
      BY <2>1, <1>a
    <3>5. PushInv(T, C, E)'
      BY <2>1, <2>2, <3>2, <3>3, <3>4, <1>a DEF PushInv
    <3>6. Switch(T, C, E)!NeverForgottenStep
      BY <2>4 DEF Switch!NeverForgottenStep, Switch!None
    <3> QED BY <3>5, <3>6 DEF Good
  <2> QED BY <2>2, <2>3, <2>4, <1>a
<1>16. ASSUME NEW m \in x8, Switch(T, C, E)!Serve(m) PROVE Good
  <2>1. m \in [tab : T, kind : {"save", "drop"}, endpoint : 1..x3] /\ m.tab \in T
    BY <1>a
  <2>2. /\ x8' = x8 \ {m} /\ UNCHANGED <<x1, x2, x3, x5, x7, x10>>
        /\ x4' = IF ~x5 THEN x4 ELSE [x4 EXCEPT ![m.endpoint] = IF m.kind = "save" THEN "live" ELSE "absent"]
    BY <1>16 DEF Switch!Serve, Switch!browser
  <2>3. m.endpoint \in 1..E /\ x4' \in [1..E -> {"absent", "live", "disabled"}]
    BY <1>a, <2>1, <2>2
  <2>4. m.kind = "drop" => m.endpoint # x2
    BY DEF PushInv, RequestsFit
  <2>5. x2 # 0 => x2 \in 1..E /\ (x4'[x2] = x4[x2] \/ x4'[x2] = "live")
                  /\ (m.endpoint = x2 /\ x5 => x4'[x2] = "live")
    BY <1>a, <2>1, <2>2, <2>3, <2>4
  <2>6. PICK r \in PushTab(x3) :
           /\ x6' = [x6 EXCEPT ![m.tab] = r]
           /\ \/ r = x6[m.tab] /\ ~Switch(T, C, E)!Awaited(m)
              \/ r.step = "undoing" /\ Switch(T, C, E)!Awaited(m)
              \/ r.step = "idle" /\ (m.kind = "save" => x5) /\ Switch(T, C, E)!Awaited(m)
    <3>1. CASE ~Switch(T, C, E)!Awaited(m)
      BY <3>1, <2>1, <1>16, <1>a, <1>c DEF Switch!Serve
    <3>2. CASE Switch(T, C, E)!Awaited(m) /\ m.kind = "save" /\ ~x5
      <4> DEFINE r == [x6[m.tab] EXCEPT !.step = "undoing"]
      <4>1. r \in PushTab(x3) /\ r.step = "undoing"
        BY <2>1, <1>c DEF PushTab
      <4>2. x6' = [x6 EXCEPT ![m.tab] = r]
        BY <3>2, <2>1, <1>16, <1>a DEF Switch!Serve
      <4> HIDE DEF r
      <4> QED BY <3>2, <4>1, <4>2
    <3>3. CASE Switch(T, C, E)!Awaited(m) /\ ~(m.kind = "save" /\ ~x5)
      BY <3>3, <2>1, <1>16, <1>c DEF Switch!Serve
    <3> QED BY <3>1, <3>2, <3>3
  <2>7. x6' \in [T -> PushTab(x3)] /\ x6'[m.tab] = r /\ \A u \in T : u # m.tab => x6'[u] = x6[u]
    BY <2>1, <2>6, <1>a
  \* What a tab that saves has asked for is answered to that tab.
  <2>8. \A t \in T : m = SaveOf(t, x6[t].got) /\ x6[t].step = "saving" => t = m.tab /\ Switch(T, C, E)!Awaited(m)
    BY <2>1 DEF Switch!Awaited, SaveOf
  <2>9. RequestsFit(T)'
    <3>1. \A n \in x8' : n.kind = "drop" => n.endpoint # x2'
      BY <2>2 DEF PushInv, RequestsFit
    <3>2. ASSUME NEW t \in T, x6'[t].step = "saving" PROVE SaveOf(t, x6'[t].got) \in x8'
      <4>1. x6'[t] = x6[t] /\ (t = m.tab => ~Switch(T, C, E)!Awaited(m))
        BY <3>2, <2>6, <2>7
      <4>2. SaveOf(t, x6[t].got) \in x8
        BY <3>2, <4>1 DEF PushInv, RequestsFit
      <4>3. SaveOf(t, x6[t].got) # m
        BY <3>2, <4>1, <2>8
      <4> QED BY <2>2, <4>1, <4>2, <4>3
    <3>3. ASSUME NEW t \in T, x6'[t].step = "leaving" PROVE x6'[t].got # 0
      <4>1. x6'[t] = x6[t]
        BY <3>3, <2>6, <2>7
      <4> QED BY <3>3, <4>1 DEF PushInv, RequestsFit
    <3> QED BY <3>1, <3>2, <3>3 DEF RequestsFit
  <2>10. ASSUME ~x10', x2' # 0, x4'[x2'] # "live" PROVE SeenTo(T, C)'
    <3>1. x4[x2] # "live" /\ ~x10 /\ x2 # 0 /\ x2' = x2 /\ ~(m.endpoint = x2 /\ x5)
      BY <2>10, <2>2, <2>5
    <3>2. SeenTo(T, C)
      BY <3>1 DEF PushInv
    <3>3. CASE \E t \in T : x6[t].step \in {"undoing", "readback"}
      <4>1. PICK t \in T : x6[t].step \in {"undoing", "readback"}
        BY <3>3
      <4>2. x6'[t] = x6[t]
        BY <4>1, <2>6, <2>7 DEF Switch!Awaited
      <4> QED BY <4>1, <4>2 DEF SeenTo
    <3>4. CASE \E t \in T : x6[t].step = "saving" /\ x6[t].got = x2
      <4>1. PICK t \in T : x6[t].step = "saving" /\ x6[t].got = x2
        BY <3>4
      <4>2. CASE x6'[t] = x6[t]
        BY <4>1, <4>2, <3>1 DEF SeenTo
      <4>3. CASE x6'[t] # x6[t]
        <5>1. t = m.tab /\ Switch(T, C, E)!Awaited(m) /\ r.step \in {"undoing", "idle"}
          BY <4>3, <2>6, <2>7
        <5>2. m.kind = "save" /\ m.endpoint = x2
          BY <5>1, <4>1, <2>1 DEF Switch!Awaited
        <5>3. r.step = "undoing"
          BY <5>1, <5>2, <3>1, <2>6
        <5> QED BY <5>1, <5>3, <2>7 DEF SeenTo
      <4> QED BY <4>2, <4>3
    <3>5. CASE \E c \in C : x7[c] = "dropping"
      BY <3>5, <2>2 DEF SeenTo
    <3> QED BY <3>2, <3>3, <3>4, <3>5 DEF SeenTo
  <2>11. PushInv(T, C, E)'
    BY <1>a, <2>2, <2>3, <2>7, <2>9, <2>10 DEF PushInv
  <2>12. Switch(T, C, E)!NeverForgottenStep
    BY <2>2, <2>5 DEF Switch!NeverForgottenStep, Switch!None
  <2> QED BY <2>11, <2>12 DEF Good
<1>17. ASSUME NEW e \in Switch(T, C, E)!Endpoints, Switch(T, C, E)!Send(e) PROVE Good
  <2>1. x4' = [x4 EXCEPT ![e] = "disabled"] /\ e # x2 /\ UNCHANGED <<x1, x2, x3, x6, x7, x8, x10>>
    BY <1>17 DEF Switch!Send, Switch!browser
  <2>2. x4' \in [1..E -> {"absent", "live", "disabled"}] /\ (x2 # 0 => x4'[x2] = x4[x2])
    <3>1. x2 # 0 => x2 \in DOMAIN x4
      BY <1>a
    <3>2. x4' \in [1..E -> {"absent", "live", "disabled"}]
      BY <2>1, <1>a
    <3> QED BY <2>1, <3>1, <3>2
  <2>3. RequestsFit(T)' /\ (SeenTo(T, C) => SeenTo(T, C)')
    BY <2>1 DEF PushInv, RequestsFit, SeenTo
  <2>4. PushInv(T, C, E)'
    BY <2>1, <2>2, <2>3, <1>a DEF PushInv
  <2>5. Switch(T, C, E)!NeverForgottenStep
    BY <2>1, <2>2 DEF Switch!NeverForgottenStep, Switch!None
  <2> QED BY <2>4, <2>5 DEF Good
<1>18. ASSUME UNCHANGED <<x2, x3, x4, x6, x7, x8, x10>>, x1' \in {"default", "granted", "denied"} PROVE Good
  <2>1. RequestsFit(T)' /\ (SeenTo(T, C) => SeenTo(T, C)')
    BY <1>18 DEF PushInv, RequestsFit, SeenTo
  <2>2. PushInv(T, C, E)'
    BY <1>18, <2>1, <1>a DEF PushInv
  <2>3. Switch(T, C, E)!NeverForgottenStep
    BY <1>18 DEF Switch!NeverForgottenStep
  <2> QED BY <2>2, <2>3 DEF Good
<1>19. ASSUME Switch(T, C, E)!SignOut \/ Switch(T, C, E)!SignIn \/ Switch(T, C, E)!Decide PROVE Good
  <2>1. UNCHANGED <<x2, x3, x4, x6, x7, x8, x10>> /\ x1' \in {"default", "granted", "denied"}
    BY <1>19, <1>a DEF Switch!SignOut, Switch!SignIn, Switch!Decide, Switch!browser, Switch!server
  <2> QED BY <2>1, <1>18
<1>20. ASSUME Switch(T, C, E)!Revoke PROVE Good
  <2>1. x2' = 0 /\ x1' = "denied" /\ UNCHANGED <<x3, x4, x6, x7, x8, x10>>
    BY <1>20 DEF Switch!Revoke, Switch!server, Switch!None
  <2> QED BY <2>1, <1>a, <1>e
<1>21. ASSUME NEW c \in C, Switch(T, C, E)!CheckStep(c) PROVE Good
  <2>0. UNCHANGED <<x1, x4, x6, x8>> /\ DOMAIN x7' = C
    BY <1>21, <1>a DEF Switch!CheckStep, Switch!Look, Switch!CheckSubscribes, Switch!CheckDrops,
       Switch!browser,
       Switch!server
  <2>1. ASSUME UNCHANGED <<x2, x3>>, x10' \in BOOLEAN, x10 => x10', x7'[c] # "dropping",
               \A d \in C : d # c => x7'[d] = x7[d],
               x7[c] = "dropping" => x10' \/ x2 = 0
        PROVE  Good
    <3>1. RequestsFit(T)'
      BY <2>0, <2>1 DEF PushInv, RequestsFit
    <3>2. ~x10' /\ x2 # 0 /\ x4[x2] # "live" => SeenTo(T, C)'
      BY <2>0, <2>1 DEF PushInv, SeenTo
    <3>3. PushInv(T, C, E)'
      BY <2>0, <2>1, <3>1, <3>2, <1>a DEF PushInv
    <3>4. Switch(T, C, E)!NeverForgottenStep
      BY <2>0 DEF Switch!NeverForgottenStep
    <3> QED BY <3>3, <3>4 DEF Good
  <2>2. CASE Switch(T, C, E)!Look(c)
    BY <2>1, <2>2, <1>a DEF Switch!Look, Switch!browser
  <2>3. CASE Switch(T, C, E)!CheckSubscribes(c)
    <3>1. x7[c] = "subscribing" /\ UNCHANGED x10
      BY <2>3 DEF Switch!CheckSubscribes
    <3>2. CASE x7' = [x7 EXCEPT ![c] = "idle"] /\ UNCHANGED <<x2, x3>>
      BY <2>1, <3>1, <3>2, <1>a
    <3>3. CASE x7' = [x7 EXCEPT ![c] = "dropping"] /\ Switch(T, C, E)!Subscribe
      <4>1. /\ x3' \in 0..E /\ x2' \in 1..x3' /\ x3 <= x3' /\ PushTab(x3) \subseteq PushTab(x3')
            /\ 1..x3 \subseteq 1..x3' /\ ((x2' = x2 /\ x3' = x3) \/ (x2 = 0 /\ x2' = x3 + 1))
        BY <3>3, PushSubscribes
      <4>2. \A m \in x8 : m.endpoint <= x3 /\ m.endpoint \in Nat
        BY <1>a
      <4>3. RequestsFit(T)'
        BY <4>1, <4>2, <2>0, <1>a DEF PushInv, RequestsFit
      <4>4. SeenTo(T, C)'
        BY <3>3, <1>a DEF SeenTo
      <4>5. PushInv(T, C, E)'
        BY <4>1, <4>3, <4>4, <3>1, <2>0, <1>a DEF PushInv
      <4>6. Switch(T, C, E)!NeverForgottenStep
        BY <2>0 DEF Switch!NeverForgottenStep
      <4> QED BY <4>5, <4>6 DEF Good
    <3> QED BY <2>3, <3>2, <3>3 DEF Switch!CheckSubscribes
  <2>4. CASE Switch(T, C, E)!CheckDrops(c)
    <3>1. x7' = [x7 EXCEPT ![c] = "idle"] /\ UNCHANGED x3
          /\ ((x2' = 0 /\ x10' = x10) \/ (x2' = x2 /\ x10' = (x10 \/ x2 # 0)))
      BY <2>4 DEF Switch!CheckDrops, Switch!None, Switch!Fault
    <3>2. CASE x2' = 0 /\ x10' = x10
      BY <3>1, <3>2, <2>0, <1>a, <1>e
    <3>3. CASE x2' = x2 /\ x10' = (x10 \/ x2 # 0)
      BY <3>1, <3>3, <2>1, <1>a
    <3> QED BY <3>1, <3>2, <3>3
  <2> QED BY <2>2, <2>3, <2>4, <1>21 DEF Switch!CheckStep
<1>22. CASE UNCHANGED Switch(T, C, E)!vars
  <2>1. UNCHANGED <<x1, x2, x3, x4, x6, x7, x8, x10>>
    BY <1>22 DEF Switch!vars
  <2> QED BY <2>1, <1>18, <1>a
<1>23. CASE Switch(T, C, E)!Next
  <2>1. ASSUME NEW t \in T, Switch(T, C, E)!TabStep(t) PROVE Good
    BY <2>1, <1>7, <1>8, <1>9, <1>11, <1>12, <1>13, <1>14 DEF Switch!TabStep, Switch!TimedStep
  <2>2. ASSUME NEW t \in T, Switch(T, C, E)!Paint(t) PROVE Good
    BY <2>2, <1>4, <1>5 DEF Switch!Paint
  <2>3. CASE \E t \in T : \/ Switch(T, C, E)!Open(t) \/ Switch(T, C, E)!Visible(t) \/ Switch(T, C, E)!Click(t)
                            \/ Switch(T, C, E)!TabStep(t) \/ Switch(T, C, E)!Paint(t)
                            \/ Switch(T, C, E)!LateSubscribe(t)
    BY <2>1, <2>2, <2>3, <1>1, <1>3, <1>6, <1>15
  <2>4. CASE \E m \in x8 : Switch(T, C, E)!Serve(m)
    BY <2>4, <1>16
  <2>5. CASE \E e \in Switch(T, C, E)!Endpoints : Switch(T, C, E)!Send(e)
    BY <2>5, <1>17
  <2>6. CASE \E c \in C : Switch(T, C, E)!CheckStep(c)
    BY <2>6, <1>21
  <2> QED BY <2>3, <2>4, <2>5, <2>6, <1>19, <1>20, <1>23 DEF Switch!Next
<1> QED BY <1>22, <1>23

\* What is quiet has nobody left to see to it.
LEMMA PushHolds ==
    ASSUME NEW CONSTANT T, NEW CONSTANT C, NEW CONSTANT E \in Nat, PushInv(T, C, E)
    PROVE  Switch(T, C, E)!SubscribedIsStored
<1> SUFFICES ASSUME Switch(T, C, E)!Quiet, ~x10, x2 # 0 PROVE x4[x2] = "live"
  BY DEF Switch!SubscribedIsStored, Switch!None
<1>1. ~SeenTo(T, C)
  BY DEF Switch!Quiet, SeenTo
<1>2. x2 \in 1..E /\ x4[x2] \in {"absent", "live", "disabled"}
  BY DEF PushInv
<1> QED BY <1>1, <1>2 DEF PushInv


(* The page, for any sections, rows, presses and navigations. *)

\* No press is of a visit still to come, and the newest visit is on the screen, on its way, or
\* was loaded afresh.
VisitsFit ==
    /\ x2 \in 0..MaxVisits /\ x1 \in 0..x2 /\ x3 \subseteq 1..x2 /\ x1 \notin x3
    /\ ~x4 /\ x1 # x2 => x2 \in x3
    /\ \A p \in x8 \cup x10 : p.sec \in Page!Section /\ p.sec.visit \in 0..x2 /\ p.sec.visit \notin x3

\* A row that offers Stop was started with a bundle that is there.
RowsFit ==
    /\ DOMAIN x7 = Page!Section
    /\ \A s \in Page!Section :
          /\ DOMAIN x7[s] = Page!Rows
          /\ \A r \in Page!Rows : /\ DOMAIN x7[s][r] = {"verified", "enabled", "gone", "label"}
                                  /\ x7[s][r].label = "stop" => x9[Page!Kind(s)] = "ready"

\* What plays has its bundle and a handle, and what waits has a bundle on its way.
PlayersFit ==
    /\ DOMAIN x11 = Page!Section
    /\ x9 \in [Page!Kinds -> {"none", "loading", "ready"}]
    /\ \A p \in x10 : x9[Page!Kind(p.sec)] = "ready"
    /\ \A p \in x8 : x9[Page!Kind(p.sec)] = "loading"
    /\ Page!OneHandle

\* Sweeps are of television sections, and give way.
SweepsFit ==
    /\ DOMAIN x12 = Page!Section
    /\ \A w \in x13 : DOMAIN w = {"sec", "id", "todo"} /\ w.sec \in Page!Section /\ Page!Kind(w.sec) = "tv"
    /\ Page!SweepYields

\* The inductive invariant of PagePlayer.
PageInv == VisitsFit /\ RowsFit /\ PlayersFit /\ SweepsFit

\* A row of a page that was just sent offers no Stop.
LEMMA PageSent ==
    ASSUME NEW s, NEW known
    PROVE  /\ DOMAIN Page!SentRow(s, known) = Page!Rows
           /\ \A r \in Page!Rows :
                 /\ DOMAIN Page!SentRow(s, known)[r] = {"verified", "enabled", "gone", "label"}
                 /\ Page!SentRow(s, known)[r].label = "play"
  BY DEF Page!SentRow

\* The sweeps a page starts with are of its own television sections.
LEMMA PageFirstSweeps ==
    ASSUME NEW v, NEW known, NEW w \in Page!FirstSweeps(v, known)
    PROVE  DOMAIN w = {"sec", "id", "todo"} /\ w.sec \in Page!Section /\ Page!Kind(w.sec) = "tv" /\ w.sec.visit = v
  BY DEF Page!FirstSweeps, Page!SectionsOf

\* The first page keeps the invariant.
LEMMA PageInit == ASSUME Page!Init PROVE PageInv
<1> USE DEF Page!Init
<1>1. VisitsFit
  BY PageAssumption DEF VisitsFit
<1>2. RowsFit
  BY PageSent DEF RowsFit
<1>3. PlayersFit
  BY DEF PlayersFit, Page!OneHandle
<1>4. SweepsFit
  BY PageFirstSweeps DEF SweepsFit, Page!SweepYields, Page!Playing
<1> QED BY <1>1, <1>2, <1>3, <1>4 DEF PageInv

\* Rows that are put back offer no more than they did.
LEMMA PageReleased ==
    ASSUME RowsFit, NEW S
    PROVE  /\ DOMAIN Page!Released(S) = Page!Section
           /\ \A s \in Page!Section :
                 /\ DOMAIN Page!Released(S)[s] = Page!Rows
                 /\ \A r \in Page!Rows :
                       /\ DOMAIN Page!Released(S)[s][r] = {"verified", "enabled", "gone", "label"}
                       /\ Page!Released(S)[s][r].label = "stop" => x7[s][r].label = "stop"
  BY DEF RowsFit, Page!Released

\* Nor do the rows of a section whose stream failed.
LEMMA PageFailedRows ==
    ASSUME RowsFit, NEW s \in Page!Section
    PROVE  /\ DOMAIN Page!FailedRows(s) = Page!Rows
           /\ \A r \in Page!Rows :
                 /\ DOMAIN Page!FailedRows(s)[r] = {"verified", "enabled", "gone", "label"}
                 /\ Page!FailedRows(s)[r].label = "play"
  BY DEF RowsFit, Page!FailedRows

\* A new sweep is of the section it was started for.
LEMMA PageStarts ==
    ASSUME NEW S, NEW rows, NEW id, NEW w \in Page!StartSweeps(S, rows, id)
    PROVE  DOMAIN w = {"sec", "id", "todo"} /\ w.sec \in S /\ w.id = id[w.sec]
  BY DEF Page!StartSweeps

\* What a teardown leaves plays in other sections, and is held there.
LEMMA PageStops ==
    ASSUME PlayersFit, NEW S
    PROVE  /\ Page!StopIn(S) = {p \in x10 : p.sec \notin S}
           /\ DOMAIN Page!Unheld(S) = Page!Section
           /\ \A s \in Page!Section \ S : Page!Unheld(S)[s] = x11[s]
  BY DEF PlayersFit, Page!OneHandle, Page!Held, Page!StopIn, Page!Unheld

\* The channel that plays is pressed.
LEMMA PagePressStop ==
    ASSUME PageInv, NEW s \in Page!Section, NEW r \in Page!Rows, Page!PressStop(s, r)
    PROVE  PageInv'
<1> USE DEF Page!PressStop, Page!Pressable, Page!page
<1>1. /\ x10' = {p \in x10 : p.sec # s} /\ x8' = x8 /\ x9' = x9 /\ DOMAIN x11' = Page!Section
      /\ \A t \in Page!Section : t # s => x11'[t] = x11[t]
  BY PageStops DEF PageInv
<1>2. x9[Page!Kind(s)] = "ready" /\ \A p \in x8 : p.sec # s
  BY DEF PageInv, RowsFit, PlayersFit
<1>3. VisitsFit'
  BY <1>1 DEF PageInv, VisitsFit
<1>4. RowsFit'
  BY DEF PageInv, RowsFit
<1>5. PlayersFit'
  BY <1>1 DEF PageInv, VisitsFit, PlayersFit, Page!OneHandle, Page!Held
<1>6. SweepsFit'
  <2>1. \A w \in x13' : w \in x13 \/ (DOMAIN w = {"sec", "id", "todo"} /\ w.sec = s)
    BY PageStarts DEF Page!Aborted
  <2>2. DOMAIN x12' = Page!Section /\ \A t \in Page!Section : t # s => x12'[t] = x12[t]
    BY DEF PageInv, SweepsFit
  <2>3. Page!Kind(s) = "tv"
    OBVIOUS
  <2> QED BY ONLY PageInv, s \in Page!Section, <1>1, <1>2, <2>1, <2>2, <2>3 DEF PageInv, SweepsFit,
     Page!SweepYields, Page!Playing
<1> QED BY <1>3, <1>4, <1>5, <1>6 DEF PageInv

\* A press that starts a player, or waits for its bundle, when what plays in S is stopped and the
\* rows offer no more than they did.
Restart(s, r, S, rows) ==
    /\ S \in SUBSET Page!Section /\ s \in S
    /\ Page!Pressable(s, r) /\ Page!Start(s, r, rows, Page!StopIn(S))
    /\ x11' = Page!Handle(s, Page!Unheld(S)) /\ UNCHANGED Page!page
    /\ DOMAIN rows = Page!Section
    /\ \A t \in Page!Section :
          /\ DOMAIN rows[t] = Page!Rows
          /\ \A q \in Page!Rows : /\ DOMAIN rows[t][q] = {"verified", "enabled", "gone", "label"}
                                  /\ rows[t][q].label = "stop" => x7[t][q].label = "stop"

\* Such a press leaves visits, rows and players as they should be; the sweeps are up to its action.
LEMMA PageRestart ==
    ASSUME PageInv, NEW s \in Page!Section, NEW r \in Page!Rows, NEW S, NEW rows, Restart(s, r, S, rows)
    PROVE  /\ VisitsFit' /\ RowsFit' /\ PlayersFit'
           /\ \A p \in x8' \cup x10' : p \in x8 \cup x10 \/ p.sec = s
<1> USE DEF Restart
<1> USE DEF Page!Pressable, Page!page
<1> DEFINE p == [sec |-> s, row |-> r, gen |-> x5']
<1>1. p.sec = s /\ p.gen = x5' /\ s.visit = x1
  OBVIOUS
<1>2. /\ Page!StopIn(S) = {q \in x10 : q.sec \notin S} /\ DOMAIN Page!Unheld(S) = Page!Section
      /\ \A t \in Page!Section \ S : Page!Unheld(S)[t] = x11[t]
  BY PageStops DEF PageInv
<1>3. Page!Kind(s) \in Page!Kinds /\ x9 \in [Page!Kinds -> {"none", "loading", "ready"}]
  BY DEF PageInv, PlayersFit, Page!Kind, Page!Kinds
<1>4. CASE x9[Page!Kind(s)] = "ready"
  <2>1. /\ x10' = Page!StopIn(S) \cup {p} /\ x8' = x8 /\ x9' = x9
        /\ x7' = [rows EXCEPT ![s][r].label = "stop"] /\ x11' = [Page!Unheld(S) EXCEPT ![s] = x5']
    BY <1>4 DEF Page!Start, Page!Handle
  <2> HIDE DEF p
  <2>2. VisitsFit'
    BY <1>1, <1>2, <2>1 DEF PageInv, VisitsFit
  <2>3. RowsFit'
    BY <1>4, <2>1 DEF PageInv, RowsFit
  <2>4. PlayersFit'
    BY <1>1, <1>2, <1>4, <2>1 DEF PageInv, VisitsFit, PlayersFit, Page!OneHandle, Page!Held
  <2> QED BY <1>1, <1>2, <2>1, <2>2, <2>3, <2>4
<1>5. CASE x9[Page!Kind(s)] # "ready"
  <2>1. /\ x10' = Page!StopIn(S) /\ x8' = x8 \cup {p} /\ x9' = Page!Ask(Page!Kind(s))
        /\ x7' = [rows EXCEPT ![s][r].label = "starting", ![s][r].enabled = FALSE] /\ x11' = Page!Unheld(S)
    BY <1>5 DEF Page!Start, Page!Handle
  <2> HIDE DEF p
  <2>2. /\ x9' \in [Page!Kinds -> {"none", "loading", "ready"}] /\ x9'[Page!Kind(s)] = "loading"
        /\ \A k \in Page!Kinds : x9[k] # "none" => x9'[k] = x9[k]
    BY <1>3, <1>5, <2>1 DEF Page!Ask
  <2>3. VisitsFit'
    BY <1>1, <1>2, <2>1 DEF PageInv, VisitsFit
  <2>4. \A t \in Page!Section : Page!Kind(t) \in Page!Kinds
    BY DEF Page!Kind, Page!Kinds
  <2>5. RowsFit'
    BY <2>1, <2>2, <2>4 DEF PageInv, RowsFit
  <2>6. PlayersFit'
    BY <1>1, <1>2, <2>1, <2>2, <2>4 DEF PageInv, VisitsFit, PlayersFit, Page!OneHandle, Page!Held
  <2> QED BY <1>1, <1>2, <2>1, <2>3, <2>5, <2>6
<1> QED BY <1>4, <1>5

\* Another channel is pressed.
LEMMA PagePressPlay ==
    ASSUME PageInv, NEW s \in Page!Section, NEW r \in Page!Rows, Page!PressPlay(s, r)
    PROVE  PageInv'
<1> DEFINE fresh == [x7 EXCEPT ![s] = [q \in Page!Rows |-> [x7[s][q] EXCEPT !.label = "play"]]]
<1>1. /\ Page!Pressable(s, r) /\ Page!Start(s, r, fresh, Page!StopIn({s}))
      /\ x11' = Page!Handle(s, Page!Unheld({s})) /\ UNCHANGED Page!page /\ x12' = x12
      /\ x13' = Page!Aborted(s)
  BY DEF Page!PressPlay
<1>2. /\ DOMAIN fresh = Page!Section
      /\ \A t \in Page!Section :
            /\ DOMAIN fresh[t] = Page!Rows
            /\ \A q \in Page!Rows : /\ DOMAIN fresh[t][q] = {"verified", "enabled", "gone", "label"}
                                    /\ fresh[t][q].label = "stop" => x7[t][q].label = "stop"
  BY DEF PageInv, RowsFit
<1> HIDE DEF fresh
<1>3. /\ VisitsFit' /\ RowsFit' /\ PlayersFit'
      /\ \A p \in x8' \cup x10' : p \in x8 \cup x10 \/ p.sec = s
  <2>1. Restart(s, r, {s}, fresh)
    BY <1>1, <1>2 DEF Restart
  <2> QED BY <2>1, PageRestart
<1>4. SweepsFit'
  BY <1>1, <1>3 DEF PageInv, SweepsFit, Page!SweepYields, Page!Playing, Page!Aborted
<1> QED BY <1>3, <1>4 DEF PageInv

\* The station that plays is pressed.
LEMMA PageRadioStop ==
    ASSUME PageInv, NEW s \in Page!Section, NEW r \in Page!Rows, Page!RadioStop(s, r)
    PROVE  PageInv'
<1> USE DEF Page!RadioStop, Page!Pressable, Page!page, Page!walks
<1>1. /\ x10' = {p \in x10 : p.sec # s} /\ x8' = x8 /\ x9' = x9 /\ DOMAIN x11' = Page!Section
      /\ \A t \in Page!Section : t # s => x11'[t] = x11[t]
  BY PageStops DEF PageInv
<1>2. VisitsFit'
  BY <1>1 DEF PageInv, VisitsFit
<1>3. RowsFit'
  BY PageReleased DEF PageInv, RowsFit
<1>4. PlayersFit'
  BY <1>1 DEF PageInv, VisitsFit, PlayersFit, Page!OneHandle, Page!Held
<1>5. SweepsFit'
  BY <1>1 DEF PageInv, SweepsFit, Page!SweepYields, Page!Playing
<1> QED BY <1>2, <1>3, <1>4, <1>5 DEF PageInv

\* Another station is pressed.
LEMMA PageRadioPlay ==
    ASSUME PageInv, NEW s \in Page!Section, NEW r \in Page!Rows, Page!RadioPlay(s, r)
    PROVE  PageInv'
<1>1. /\ Page!Pressable(s, r) /\ Page!Start(s, r, Page!Released(Page!Chain), Page!StopIn(Page!Chain))
      /\ x11' = Page!Handle(s, Page!Unheld(Page!Chain)) /\ UNCHANGED Page!page /\ x12' = x12
      /\ x13' = x13 /\ Page!Kind(s) = "radio"
  BY DEF Page!RadioPlay, Page!walks
<1>2. Page!Chain \in SUBSET Page!Section /\ s \in Page!Chain
  BY <1>1 DEF Page!Chain, Page!SectionsOf, Page!Pressable
<1>3. /\ VisitsFit' /\ RowsFit' /\ PlayersFit'
      /\ \A p \in x8' \cup x10' : p \in x8 \cup x10 \/ p.sec = s
  <2>1. Restart(s, r, Page!Chain, Page!Released(Page!Chain))
    BY <1>1, <1>2, PageReleased DEF Restart, PageInv
  <2> QED BY <2>1, PageRestart
<1>4. SweepsFit'
  BY <1>1, <1>3 DEF PageInv, SweepsFit, Page!SweepYields, Page!Playing
<1> QED BY <1>3, <1>4 DEF PageInv

\* A bundle arrives: in a section, only the newest press attaches.
LEMMA PageBundleReady ==
    ASSUME PageInv, NEW k \in Page!Kinds, Page!BundleReady(k)
    PROVE  PageInv'
<1> USE DEF Page!BundleReady, Page!page, Page!walks
<1>1. /\ x8' \subseteq x8 /\ x10' \subseteq x10 \cup x8
      /\ \A p \in x8' : Page!Kind(p.sec) # k
      /\ \A p \in x10' \ x10 : p \in x8 /\ Page!Kind(p.sec) = k /\ x6[p.sec] = p.gen
  BY DEF Page!Waiters, Page!Attaching
<1>2. /\ x9' \in [Page!Kinds -> {"none", "loading", "ready"}] /\ x9'[k] = "ready" /\ x9[k] = "loading"
      /\ \A j \in Page!Kinds : j # k => x9'[j] = x9[j]
  BY DEF PageInv, PlayersFit
<1>3. \A t \in Page!Section : Page!Kind(t) \in Page!Kinds
  BY DEF Page!Kind, Page!Kinds
<1>4. VisitsFit'
  BY <1>1 DEF PageInv, VisitsFit
<1>5. RowsFit'
  <2>1. ASSUME NEW s \in Page!Section, NEW r \in Page!Rows
        PROVE  /\ DOMAIN Page!AfterReady(k, s, r) = {"verified", "enabled", "gone", "label"}
               /\ Page!AfterReady(k, s, r).label = "stop" => Page!Kind(s) = k \/ x7[s][r].label = "stop"
    <3> DEFINE own == {p \in Page!Waiters(k) : p.sec = s /\ p.row = r}
    <3>1. own # {} => Page!Kind(s) = k
      BY DEF Page!Waiters
    <3>2. Page!AfterReady(k, s, r) = IF own = {} THEN x7[s][r]
            ELSE [x7[s][r] EXCEPT !.enabled = TRUE,
                                  !.label = IF own \cap Page!Attaching(k) # {} THEN "stop" ELSE "play"]
      BY DEF Page!AfterReady
    <3>3. DOMAIN x7[s][r] = {"verified", "enabled", "gone", "label"}
      BY DEF PageInv, RowsFit
    <3> HIDE DEF own
    <3> QED BY <3>1, <3>2, <3>3
  <2>2. x7' = [s \in Page!Section |-> [r \in Page!Rows |-> Page!AfterReady(k, s, r)]]
    OBVIOUS
  <2> QED BY <1>2, <1>3, <2>1, <2>2 DEF PageInv, RowsFit
<1>6. PlayersFit'
  <2>1. x11' = [s \in Page!Section |-> IF \E p \in Page!Attaching(k) : p.sec = s THEN x6[s] ELSE x11[s]]
    OBVIOUS
  <2>2. \A p \in Page!Attaching(k) : p \in x8 /\ Page!Kind(p.sec) = k /\ x6[p.sec] = p.gen
    BY DEF Page!Waiters, Page!Attaching
  <2>3. x10' = x10 \cup Page!Attaching(k)
    OBVIOUS
  <2> HIDE DEF Page!BundleReady
  <2>4. Page!OneHandle'
    <3> SUFFICES ASSUME NEW p \in x10' PROVE x11'[p.sec] = p.gen
      BY DEF Page!OneHandle, Page!Held
    <3>1. p.sec \in Page!Section
      BY <1>1 DEF PageInv, VisitsFit
    <3>2. CASE p \in Page!Attaching(k)
      BY <2>1, <2>2, <3>1, <3>2
    <3>3. CASE p \in x10
      <4>1. x11[p.sec] = p.gen /\ x9[Page!Kind(p.sec)] = "ready"
        BY <3>3 DEF PageInv, PlayersFit, Page!OneHandle, Page!Held
      <4> QED BY <1>2, <2>1, <2>2, <3>1, <4>1
    <3> QED BY <2>3, <3>2, <3>3
  <2>5. \A p \in x10' : x9'[Page!Kind(p.sec)] = "ready"
    BY <1>1, <1>2, <1>3 DEF PageInv, VisitsFit, PlayersFit
  <2>6. \A p \in x8' : x9'[Page!Kind(p.sec)] = "loading"
    BY <1>1, <1>2, <1>3 DEF PageInv, VisitsFit, PlayersFit
  <2> QED BY <1>2, <2>1, <2>4, <2>5, <2>6 DEF PlayersFit
<1>7. SweepsFit'
  BY <1>1 DEF PageInv, SweepsFit, Page!SweepYields, Page!Playing
<1> QED BY <1>4, <1>5, <1>6, <1>7 DEF PageInv

\* A bundle fails: whoever waits for it had nothing that played.
LEMMA PageBundleFails ==
    ASSUME PageInv, NEW k \in Page!Kinds, Page!BundleFails(k)
    PROVE  PageInv'
<1> DEFINE hit == {p.sec : p \in Page!Waiters(k)}
<1>1. /\ x9[k] = "loading" /\ x9' = [x9 EXCEPT ![k] = "none"] /\ x8' = x8 \ Page!Waiters(k)
      /\ x10' = Page!StopIn(hit) /\ x11' = Page!Unheld(hit) /\ UNCHANGED <<x1, x2, x3, x4>>
      /\ x7' = [s \in Page!Section |-> IF s \notin hit THEN x7[s]
                    ELSE IF k = "tv" THEN Page!FailedRows(s)
                    ELSE [r \in Page!Rows |-> IF x7[s][r].label = "starting" \/ ~x7[s][r].enabled
                                         THEN [x7[s][r] EXCEPT !.label = "play", !.enabled = TRUE]
                                         ELSE Page!Released({s})[s][r]]]
      /\ \/ x12' = x12 /\ x13' = x13
         \/ /\ k = "tv" \/ k # "radio"
            /\ x12' = [s \in Page!Section |-> IF s \in hit
                    THEN Page!Newest({p.gen : p \in {x \in Page!Waiters(k) : x.sec = s}})
                    ELSE x12[s]]
            /\ x13' = x13 \cup UNION {Page!StartSweeps({p.sec}, x7, [s \in Page!Section |-> p.gen])
                                 : p \in Page!Waiters(k)}
  BY DEF Page!BundleFails, Page!page, Page!walks
<1>2. \A s \in hit : s \in Page!Section /\ Page!Kind(s) = k
  BY DEF Page!Waiters, PageInv, VisitsFit
<1>3. /\ x9' \in [Page!Kinds -> {"none", "loading", "ready"}]
      /\ \A j \in Page!Kinds : j # k => x9'[j] = x9[j]
  BY <1>1 DEF PageInv, PlayersFit
<1>4. \A t \in Page!Section : Page!Kind(t) \in Page!Kinds
  BY DEF Page!Kind, Page!Kinds
<1>5. x8' \subseteq x8 /\ \A p \in x8' : Page!Kind(p.sec) # k
  BY <1>1 DEF Page!Waiters
<1>6. \A p \in x10 : Page!Kind(p.sec) # k
  BY <1>1 DEF PageInv, PlayersFit
<1>6a. \A w \in x13' \ x13 : DOMAIN w = {"sec", "id", "todo"} /\ w.sec \in hit
  <2> SUFFICES ASSUME NEW w \in x13', w \notin x13
               PROVE  DOMAIN w = {"sec", "id", "todo"} /\ w.sec \in hit
    OBVIOUS
  <2>1. PICK p \in Page!Waiters(k) : w \in Page!StartSweeps({p.sec}, x7, [s \in Page!Section |-> p.gen])
    <3> DEFINE new == {Page!StartSweeps({p.sec}, x7,
       [s \in Page!Section |-> p.gen]) : p \in Page!Waiters(k)}
    <3>1. w \in UNION new
      BY <1>1
    <3>2. PICK S \in new : w \in S
      BY <3>1
    <3> QED BY <3>2
  <2> QED BY <2>1, PageStarts
<1>7. /\ x10' = {p \in x10 : p.sec \notin hit} /\ DOMAIN x11' = Page!Section
      /\ \A t \in Page!Section \ hit : x11'[t] = x11[t]
  BY <1>1, PageStops DEF PageInv
<1> HIDE DEF hit
<1>8. VisitsFit'
  BY <1>1, <1>5, <1>7 DEF PageInv, VisitsFit
<1>9. RowsFit'
  <2>1. ASSUME NEW s \in Page!Section PROVE DOMAIN x7'[s] = Page!Rows
    BY <1>1, <1>2, PageFailedRows DEF PageInv, RowsFit
  <2>2. ASSUME NEW s \in Page!Section, NEW r \in Page!Rows
        PROVE  /\ DOMAIN x7'[s][r] = {"verified", "enabled", "gone", "label"}
               /\ x7'[s][r].label = "stop" => x7[s][r].label = "stop"
    <3>0. DOMAIN x7[s][r] = {"verified", "enabled", "gone", "label"}
      BY DEF PageInv, RowsFit
    <3>1. CASE s \notin hit
      <4>1. x7'[s] = x7[s]
        BY <1>1, <3>1
      <4> QED BY <3>0, <4>1
    <3>2. CASE s \in hit /\ k = "tv"
      <4>1. x7'[s] = Page!FailedRows(s)
        BY <1>1, <3>2
      <4> QED BY <4>1, PageFailedRows DEF PageInv
    <3>3. CASE s \in hit /\ k # "tv" /\ (x7[s][r].label = "starting" \/ ~x7[s][r].enabled)
      <4>1. x7'[s][r] = [x7[s][r] EXCEPT !.label = "play", !.enabled = TRUE]
        BY <1>1, <3>3
      <4> QED BY <3>0, <4>1
    <3>4. CASE s \in hit /\ k # "tv" /\ ~(x7[s][r].label = "starting" \/ ~x7[s][r].enabled)
      <4>1. x7'[s][r] = Page!Released({s})[s][r]
        BY <1>1, <3>4
      <4> QED BY <4>1, PageReleased DEF PageInv
    <3> QED BY <3>1, <3>2, <3>3, <3>4
  <2>3. DOMAIN x7' = Page!Section
    BY <1>1
  <2>4. \A s \in Page!Section : x9[Page!Kind(s)] = "ready" => x9'[Page!Kind(s)] = "ready"
    BY <1>1, <1>3, <1>4
  <2> QED BY <2>1, <2>2, <2>3, <2>4 DEF PageInv, RowsFit
<1>10. PlayersFit'
  BY <1>1, <1>3, <1>4, <1>5, <1>6, <1>7 DEF PageInv, VisitsFit, PlayersFit, Page!OneHandle, Page!Held
<1>11. SweepsFit'
  <2>1. DOMAIN x12' = Page!Section /\ \A s \in Page!Section : s \notin hit => x12'[s] = x12[s]
    BY <1>1 DEF PageInv, SweepsFit
  <2>2. x13' # x13 => k = "tv"
    BY <1>1 DEF Page!Kinds
  <2>3. \A w \in x13' : DOMAIN w = {"sec", "id", "todo"} /\ w.sec \in Page!Section /\ Page!Kind(w.sec) = "tv"
    BY <1>1, <1>2, <1>6a, <2>2 DEF PageInv, SweepsFit
  <2> QED BY <1>2, <1>5, <1>6, <1>6a, <1>7, <2>1, <2>3 DEF PageInv, SweepsFit, Page!SweepYields,
     Page!Playing
<1> QED BY <1>8, <1>9, <1>10, <1>11 DEF PageInv

\* A stream is over for good.
LEMMA PagePlayerFails ==
    ASSUME PageInv, NEW p \in x10, Page!PlayerFails(p)
    PROVE  PageInv'
<1> USE DEF Page!PlayerFails, Page!page, Page!walks
<1>0. p.sec \in Page!Section
  BY DEF PageInv, VisitsFit
<1>1. /\ x10' = {q \in x10 : q.sec # p.sec} /\ x8' = x8 /\ x9' = x9 /\ DOMAIN x11' = Page!Section
      /\ \A t \in Page!Section : t # p.sec => x11'[t] = x11[t]
  BY PageStops DEF PageInv
<1>2. \A q \in x8 : q.sec # p.sec
  BY DEF PageInv, PlayersFit
<1>3. VisitsFit'
  BY <1>1 DEF PageInv, VisitsFit
<1>4. RowsFit'
  <2>1. CASE Page!Kind(p.sec) = "radio"
    <3>1. x7' = Page!Released({p.sec})
      BY <2>1
    <3> QED BY <1>1, <3>1, PageReleased DEF PageInv, RowsFit
  <2>2. CASE Page!Kind(p.sec) # "radio"
    <3>1. x7' = [x7 EXCEPT ![p.sec] = Page!FailedRows(p.sec)]
      BY <2>2
    <3>2. /\ DOMAIN x7' = Page!Section /\ x7'[p.sec] = Page!FailedRows(p.sec)
          /\ \A s \in Page!Section : s # p.sec => x7'[s] = x7[s]
      BY <1>0, <3>1 DEF PageInv, RowsFit
    <3> QED BY <1>0, <1>1, <3>2, PageFailedRows DEF PageInv, RowsFit
  <2> QED BY <2>1, <2>2
<1>5. PlayersFit'
  BY <1>1 DEF PageInv, VisitsFit, PlayersFit, Page!OneHandle, Page!Held
<1>6. SweepsFit'
  <2>1. \A w \in x13' : w \in x13 \/ (DOMAIN w = {"sec", "id", "todo"} /\ w.sec = p.sec
                                      /\ Page!Kind(p.sec) # "radio")
    BY PageStarts
  <2>2. DOMAIN x12' = Page!Section /\ \A t \in Page!Section : t # p.sec => x12'[t] = x12[t]
    BY DEF PageInv, SweepsFit
  <2>3. Page!Kind(p.sec) # "radio" => Page!Kind(p.sec) = "tv"
    BY DEF Page!Kind
  <2> QED BY <1>0, <1>1, <1>2, <2>1, <2>2, <2>3 DEF PageInv, SweepsFit, Page!SweepYields, Page!Playing
<1> QED BY <1>3, <1>4, <1>5, <1>6 DEF PageInv

\* A sweep gets an answer.
LEMMA PageSweepStep ==
    ASSUME PageInv, NEW w \in x13, Page!SweepStep(w)
    PROVE  PageInv'
<1> USE DEF Page!SweepStep, Page!page, Page!players
<1>1. w.sec \in Page!Section /\ DOMAIN w = {"sec", "id", "todo"}
  BY DEF PageInv, SweepsFit
<1>2. RowsFit'
  <2>1. CASE Page!SweepLive(w)
    BY <1>1, <2>1 DEF PageInv, RowsFit, Page!SweepLive
  <2>2. CASE Page!SweepDead(w)
    BY <1>1, <2>2 DEF PageInv, RowsFit, Page!SweepDead
  <2>3. CASE Page!SweepLost(w)
    BY <1>1, <2>3 DEF PageInv, RowsFit, Page!SweepLost
  <2>4. CASE Page!SweepSkipped(w)
    BY <1>1, <2>4 DEF PageInv, RowsFit, Page!SweepSkipped
  <2> QED BY <2>1, <2>2, <2>3, <2>4
<1>3. \A v \in x13' : v \in x13 \/ (DOMAIN v = {"sec", "id", "todo"} /\ v.sec = w.sec /\ v.id = w.id)
  BY <1>1 DEF Page!SweepLive, Page!SweepDead, Page!SweepLost, Page!SweepSkipped, Page!Left
<1>4. SweepsFit'
  BY <1>3 DEF PageInv, SweepsFit, Page!SweepYields, Page!Playing
<1>5. VisitsFit' /\ PlayersFit'
  BY DEF PageInv, VisitsFit, PlayersFit, Page!OneHandle, Page!Held
<1> QED BY <1>2, <1>4, <1>5 DEF PageInv

\* A navigation is asked for, or its answer comes too late.
LEMMA PageNavigates ==
    ASSUME PageInv, Page!Go \/ \E k \in x3 : Page!Discard(k)
    PROVE  PageInv'
<1>1. /\ UNCHANGED <<x1, x4, x6, x7, x8, x9, x10, x11, x12, x13>>
      /\ \/ x2 < MaxVisits /\ x2' = x2 + 1 /\ x3' = x3 \cup {x2 + 1}
         \/ \E k \in x3 : k # x2 /\ x2' = x2 /\ x3' = x3 \ {k}
  BY DEF Page!Go, Page!Discard, Page!players, Page!walks, Page!Latest
<1>2. VisitsFit'
  <2>1. CASE x2 < MaxVisits /\ x2' = x2 + 1 /\ x3' = x3 \cup {x2 + 1}
    <3>1. /\ x2 \in Nat /\ MaxVisits \in Nat /\ x1 \in 0..x2 /\ x3 \subseteq 1..x2 /\ x1 \notin x3
          /\ \A v \in 0..x2 : v \in 0..(x2 + 1) /\ v # x2 + 1
      BY PageAssumption DEF PageInv, VisitsFit
    <3>2. x2' \in 0..MaxVisits /\ x1 \in 0..x2' /\ x3' \subseteq 1..x2' /\ x2' \in x3' /\ x1 \notin x3'
      BY <2>1, <3>1
    <3>3. ASSUME NEW p \in x8 \cup x10
          PROVE  p.sec \in Page!Section /\ p.sec.visit \in 0..x2' /\ p.sec.visit \notin x3'
      <4>1. p.sec \in Page!Section /\ p.sec.visit \in 0..x2 /\ p.sec.visit \notin x3
        BY DEF PageInv, VisitsFit
      <4> QED BY <2>1, <3>1, <4>1
    <3> QED BY <1>1, <3>2, <3>3 DEF VisitsFit
  <2>2. CASE \E k \in x3 : k # x2 /\ x2' = x2 /\ x3' = x3 \ {k}
    BY <1>1, <2>2 DEF PageInv, VisitsFit
  <2> QED BY <1>1, <2>1, <2>2
<1>3. RowsFit' /\ PlayersFit' /\ SweepsFit'
  BY <1>1 DEF PageInv, RowsFit, PlayersFit, SweepsFit, Page!OneHandle, Page!Held, Page!SweepYields,
     Page!Playing
<1> QED BY <1>2, <1>3 DEF PageInv

\* The newest answer replaces the page.
LEMMA PageSwap ==
    ASSUME PageInv, NEW k \in x3, Page!Swap(k)
    PROVE  PageInv' /\ Page!SwapSilencesStep
<1>1. PICK known \in SUBSET Page!Rows :
          /\ x7' = [s \in Page!Section |-> IF s.visit = k THEN Page!SentRow(s, known)
                                           ELSE Page!Released(Page!Chain)[s]]
          /\ x13' = x13 \cup Page!FirstSweeps(k, known)
  BY DEF Page!Swap
<1>2. /\ k = x2 /\ x3' = x3 \ {k} /\ x1' = k /\ UNCHANGED <<x2, x4, x5, x6, x8, x9, x12>>
      /\ x10' = Page!StopIn(Page!Chain) /\ x11' = Page!Unheld(Page!Chain)
  BY DEF Page!Swap, Page!Latest
<1>3. /\ x10' = {p \in x10 : p.sec \notin Page!Chain} /\ DOMAIN x11' = Page!Section
      /\ \A t \in Page!Section \ Page!Chain : x11'[t] = x11[t]
  BY <1>2, PageStops DEF PageInv
<1>4. VisitsFit'
  BY <1>2, <1>3 DEF PageInv, VisitsFit
<1>5. RowsFit'
  <2>1. ASSUME NEW s \in Page!Section
        PROVE  /\ DOMAIN x7'[s] = Page!Rows
               /\ \A r \in Page!Rows :
                     /\ DOMAIN x7'[s][r] = {"verified", "enabled", "gone", "label"}
                     /\ x7'[s][r].label = "stop" => x7[s][r].label = "stop"
    <3>1. CASE s.visit = k
      <4>1. x7'[s] = Page!SentRow(s, known)
        BY <1>1, <3>1
      <4> QED BY <4>1, PageSent
    <3>2. CASE s.visit # k
      <4>1. x7'[s] = Page!Released(Page!Chain)[s]
        BY <1>1, <3>2
      <4> QED BY <4>1, PageReleased DEF PageInv
    <3> QED BY <3>1, <3>2
  <2>2. DOMAIN x7' = Page!Section
    BY <1>1
  <2> QED BY <1>2, <2>1, <2>2 DEF PageInv, RowsFit
<1>6. PlayersFit'
  BY <1>2, <1>3 DEF PageInv, VisitsFit, PlayersFit, Page!OneHandle, Page!Held
<1>7. SweepsFit'
  <2>1. \A w \in x13' : w \in x13 \/ (DOMAIN w = {"sec", "id", "todo"} /\ w.sec \in Page!Section
                                      /\ Page!Kind(w.sec) = "tv" /\ w.sec.visit = k)
    BY <1>1, PageFirstSweeps
  <2>2. \A p \in x8 \cup x10 : p.sec.visit # k
    BY DEF PageInv, VisitsFit
  <2> QED BY <1>2, <1>3, <2>1, <2>2 DEF PageInv, SweepsFit, Page!SweepYields, Page!Playing
<1>8. Page!SwapSilencesStep
  BY <1>3 DEF PageInv, VisitsFit, Page!SwapSilencesStep, Page!Chain, Page!SectionsOf
<1> QED BY <1>4, <1>5, <1>6, <1>7, <1>8 DEF PageInv

\* A navigation that failed loads the document afresh.
LEMMA PageHardLoad ==
    ASSUME PageInv, NEW k \in x3, Page!HardLoad(k)
    PROVE  PageInv' /\ Page!SwapSilencesStep
<1>1. PICK known \in SUBSET Page!Rows :
          /\ x7' = [s \in Page!Section |-> Page!SentRow(s, IF s.visit = k THEN known ELSE {})]
          /\ x13' = Page!FirstSweeps(k, known)
  BY DEF Page!HardLoad
<1>2. /\ x1' = k /\ x2' = x2 /\ x3' = {} /\ x4' = TRUE /\ x8' = {} /\ x10' = {}
      /\ x9' = [x \in Page!Kinds |-> "none"] /\ x11' = [s \in Page!Section |-> 0]
      /\ x12' = [s \in Page!Section |-> 0]
  BY DEF Page!HardLoad
<1>3. VisitsFit'
  BY <1>2 DEF PageInv, VisitsFit
<1>4. RowsFit'
  BY <1>1, PageSent DEF RowsFit
<1>5. PlayersFit'
  BY <1>2 DEF PlayersFit, Page!OneHandle
<1>6. SweepsFit'
  BY <1>1, <1>2, PageFirstSweeps DEF SweepsFit, Page!SweepYields, Page!Playing
<1> QED BY <1>2, <1>3, <1>4, <1>5, <1>6 DEF PageInv, Page!SwapSilencesStep

\* Every step keeps the invariant, and leaves nothing playing in a page that is swapped.
LEMMA PageStep ==
    ASSUME PageInv, [Page!Next]_(Page!vars)
    PROVE  PageInv' /\ Page!SwapSilencesStep
<1>1. CASE UNCHANGED Page!vars
  BY <1>1 DEF Page!vars, PageInv, VisitsFit, RowsFit, PlayersFit, SweepsFit, Page!OneHandle, Page!Held,
     Page!SweepYields, Page!Playing, Page!SwapSilencesStep
<1>2. ASSUME NEW s \in Page!Section, NEW r \in Page!Rows,
             Page!PressStop(s, r) \/ Page!PressPlay(s, r) \/ Page!RadioStop(s, r) \/ Page!RadioPlay(s, r)
      PROVE  PageInv' /\ x1' = x1
  BY <1>2, PagePressStop, PagePressPlay, PageRadioStop, PageRadioPlay
     DEF Page!PressStop, Page!PressPlay, Page!RadioStop, Page!RadioPlay, Page!page
<1>3. ASSUME NEW k \in Page!Kinds, Page!BundleReady(k) \/ Page!BundleFails(k) PROVE PageInv' /\ x1' = x1
  BY <1>3, PageBundleReady, PageBundleFails DEF Page!BundleReady, Page!BundleFails, Page!page
<1>4. ASSUME NEW p \in x10, Page!PlayerFails(p) PROVE PageInv' /\ x1' = x1
  BY <1>4, PagePlayerFails DEF Page!PlayerFails, Page!page
<1>5. ASSUME NEW w \in x13, Page!SweepStep(w) PROVE PageInv' /\ x1' = x1
  BY <1>5, PageSweepStep DEF Page!SweepStep, Page!page
<1>6. CASE Page!Go \/ \E k \in x3 : Page!Discard(k)
  BY <1>6, PageNavigates DEF Page!Go, Page!Discard, Page!SwapSilencesStep
<1>7. x1' = x1 => Page!SwapSilencesStep
  BY DEF Page!SwapSilencesStep
<1> QED BY ONLY <1>1, <1>2, <1>3, <1>4, <1>5, <1>6, <1>7, PageSwap, PageHardLoad, PageInv,
   [Page!Next]_(Page!vars)
   DEF Page!Next, Page!Bundles, Page!Arrive

\* What the invariant says of what can be stopped and what is shown.
LEMMA PageHolds == PageInv => Page!OneHandle /\ Page!SweepYields /\ Page!NewestIsShown
  BY DEF PageInv, VisitsFit, PlayersFit, SweepsFit, Page!NewestIsShown


(* Public channels, for any directory, addresses, moves and tabs. *)

\* A request is for an address the provider has, and reads only what is a playlist.
TabFits(q) ==
    /\ DOMAIN q = {"phase", "id", "took", "from", "url", "hop"}
    /\ q.phase = "lands" => q.took.list \in Directories \cup {Watching!Nothing}
    /\ q.phase \in {"hop", "connects", "reads", "plays"} => q.url \in DOMAIN Upstream
    /\ q.phase = "connects" => \E as \in Answers[q.url[1]] : as # {} /\ as \subseteq Passing
    /\ q.phase = "reads" => Upstream[q.url].kind = "playlist"

TabsFit == DOMAIN x4 = Watchers /\ \A t \in Watchers : TabFits(x4[t])

\* The inductive invariant of Watch: what is read comes back only if it was read at an address
\* that is there, and what is held was listed.
WatchInv ==
    /\ TabsFit
    /\ DOMAIN x5 = Watchers /\ DOMAIN x6 = Watchers
    /\ x2.list \in Directories /\ x3.list \in Directories \cup {Watching!Nothing}
    /\ Watching!ComesBack /\ Watching!HopsAreJudged

\* A tab that asks for nothing.
LEMMA WatchIdle == TabFits(Watching!Idle) /\ Watching!Idle.phase = "idle"
  BY DEF TabFits, Watching!Idle

\* At the start nobody asks, and nothing is held.
LEMMA WatchInit == ASSUME Watching!Init PROVE WatchInv
<1>1. TabsFit
  BY WatchIdle DEF Watching!Init, TabsFit
<1>2. /\ DOMAIN x5 = Watchers /\ DOMAIN x6 = Watchers
      /\ x2.list \in Directories /\ x3.list \in Directories \cup {Watching!Nothing}
  BY DEF Watching!Init
<1>3. Watching!ComesBack /\ Watching!HopsAreJudged
  BY DEF Watching!Init, Watching!ComesBack, Watching!HopsAreJudged
<1> QED BY <1>1, <1>2, <1>3 DEF WatchInv

\* A tab moves on, and is not cut off.
TabMoves(t, q) ==
    /\ TabFits(q) /\ x4' = [x4 EXCEPT ![t] = q]
    /\ x4[t].phase = "plays" => q.phase = "plays" \/ x6'[t] \in {"over", "left"}

\* Whatever one tab does, the others go on as they were.
LEMMA WatchTab ==
    ASSUME TabsFit, NEW t \in Watchers, NEW q, TabMoves(t, q)
    PROVE  TabsFit' /\ Watching!NeverCutStep
<1>1. DOMAIN x4' = Watchers /\ x4'[t] = q /\ \A u \in Watchers : u # t => x4'[u] = x4[u]
  BY DEF TabsFit, TabMoves
<1> QED BY <1>1 DEF TabsFit, TabMoves, Watching!NeverCutStep

\* A request that is over.
LEMMA WatchEnds ==
    ASSUME WatchInv, NEW t \in Watchers, NEW how, Watching!End(t, how),
           x4[t].phase = "plays" => how \in {"over", "left"}
    PROVE  TabsFit' /\ Watching!NeverCutStep /\ DOMAIN x6' = Watchers
<1>1. x6'[t] = how /\ DOMAIN x6' = Watchers
  BY DEF Watching!End, WatchInv
<1>2. TabMoves(t, Watching!Idle)
  BY <1>1, WatchIdle DEF Watching!End, TabMoves
<1> QED BY <1>1, <1>2, WatchTab DEF WatchInv

\* A request for an address that is there.
LEMMA WatchGoes ==
    ASSUME WatchInv, NEW t \in Watchers, NEW address \in DOMAIN Upstream, Watching!Goes(t, address),
           x4[t].phase # "plays"
    PROVE  TabsFit' /\ Watching!NeverCutStep
<1> DEFINE q == [Watching!Idle EXCEPT !.phase = "hop", !.from = address, !.url = address]
<1>1. TabMoves(t, q)
  BY DEF TabMoves, TabFits, Watching!Goes, Watching!Idle
<1> HIDE DEF q
<1> QED BY <1>1, WatchTab DEF WatchInv

\* A channel of the list that is held leads to its address; what is not there ends the request.
LEMMA WatchFinds ==
    ASSUME WatchInv, NEW t \in Watchers, NEW id, NEW held \in Directories \cup {Watching!Nothing},
           Watching!Finds(t, id, held), x4[t].phase # "plays"
    PROVE  TabsFit' /\ Watching!NeverCutStep /\ DOMAIN x6' = Watchers
<1>1. CASE id \in DOMAIN held
  <2>1. held \in Directories
    BY <1>1 DEF Watching!Nothing
  <2>2. held[id] \in DOMAIN Upstream
    BY <1>1, <2>1, WatchAssumption
  <2>3. Watching!Goes(t, held[id]) /\ x6' = x6
    BY <1>1 DEF Watching!Finds
  <2> QED BY <2>2, <2>3, WatchGoes DEF WatchInv
<1>2. CASE id \notin DOMAIN held
  BY <1>2, WatchEnds DEF Watching!Finds
<1> QED BY <1>1, <1>2

\* What every step does.
WatchGood == WatchInv' /\ Watching!NeverCutStep /\ Watching!ListKeptStep

\* A channel is asked for.
LEMMA WatchWants ==
    ASSUME WatchInv, NEW t \in Watchers, NEW id, Watching!Want(t, id)
    PROVE  WatchGood
<1>1. /\ x4[t].phase = "idle" /\ x5' = [x5 EXCEPT ![t] = {}] /\ UNCHANGED <<x2, x3, x7>>
  BY DEF Watching!Want
<1>2. TabsFit' /\ Watching!NeverCutStep /\ DOMAIN x6' = Watchers
  <2>1. CASE Watching!KeptFresh
    BY <1>1, <2>1, WatchFinds DEF WatchInv, Watching!Want
  <2>2. CASE ~Watching!KeptFresh
    <3> DEFINE q == [Watching!Idle EXCEPT !.phase = "asks", !.id = id]
    <3>1. TabMoves(t, q) /\ x6' = x6
      BY <1>1, <2>2 DEF TabMoves, TabFits, Watching!Want, Watching!Idle
    <3> HIDE DEF q
    <3> QED BY <3>1, WatchTab DEF WatchInv
  <2> QED BY <2>1, <2>2
<1>3. Watching!ComesBack' /\ DOMAIN x5' = Watchers
  BY <1>1 DEF WatchInv, Watching!ComesBack
<1> QED BY <1>1, <1>2, <1>3 DEF WatchGood, WatchInv, Watching!ListKeptStep, Watching!HopsAreJudged

\* The directory answers.
LEMMA WatchAnswers ==
    ASSUME WatchInv, NEW t \in Watchers, Watching!Answer(t)
    PROVE  WatchGood
<1>1. x4[t].phase = "asks" /\ UNCHANGED <<x2, x3, x5, x6, x7>>
  BY DEF Watching!Answer
<1> DEFINE q == [x4[t] EXCEPT !.phase = "lands", !.took = [at |-> x2.at, list |-> x2.list]]
<1>2. TabMoves(t, q)
  BY <1>1 DEF TabMoves, TabFits, TabsFit, WatchInv, Watching!Answer
<1> HIDE DEF q
<1>3. TabsFit' /\ Watching!NeverCutStep
  BY <1>2, WatchTab DEF WatchInv
<1> QED BY <1>1, <1>3 DEF WatchGood, WatchInv, Watching!ComesBack, Watching!ListKeptStep,
   Watching!HopsAreJudged

\* The answer lands.
LEMMA WatchLands ==
    ASSUME WatchInv, NEW t \in Watchers, Watching!Land(t)
    PROVE  WatchGood
<1>1. /\ x4[t].phase = "lands" /\ x3' = Watching!Held(x4[t].took) /\ UNCHANGED <<x2, x5, x7>>
      /\ Watching!Finds(t, x4[t].id, x3'.list)
  BY DEF Watching!Land
<1>2. x4[t].took.list \in Directories \cup {Watching!Nothing}
  BY <1>1 DEF WatchInv, TabsFit, TabFits
<1>3. x3'.list \in Directories \cup {Watching!Nothing} /\ Watching!ListKeptStep
  BY <1>1, <1>2 DEF WatchInv, Watching!Held, Watching!ListKeptStep
<1>4. TabsFit' /\ Watching!NeverCutStep /\ DOMAIN x6' = Watchers
  BY <1>1, <1>3, WatchFinds
<1> QED BY <1>1, <1>3, <1>4 DEF WatchGood, WatchInv, Watching!ComesBack, Watching!HopsAreJudged

\* The directory does not answer.
LEMMA WatchUnreached ==
    ASSUME WatchInv, NEW t \in Watchers, Watching!Unreached(t)
    PROVE  WatchGood
<1>1. /\ x4[t].phase = "asks" /\ UNCHANGED <<x2, x3, x5, x7>> /\ Watching!Finds(t, x4[t].id, x3.list)
  BY DEF Watching!Unreached
<1>2. TabsFit' /\ Watching!NeverCutStep /\ DOMAIN x6' = Watchers
  BY <1>1, WatchFinds DEF WatchInv
<1> QED BY <1>1, <1>2 DEF WatchGood, WatchInv, Watching!ComesBack, Watching!HopsAreJudged,
   Watching!ListKeptStep

\* An address the site has handed out is asked for.
LEMMA WatchFetches ==
    ASSUME WatchInv, NEW t \in Watchers, NEW g \in x5[t], Watching!Fetch(t, g[2])
    PROVE  WatchGood
<1>1. x4[t].phase = "idle" /\ UNCHANGED <<x2, x3, x5, x6, x7>> /\ Watching!Goes(t, g[2])
  BY DEF Watching!Fetch
<1>2. g[2] \in DOMAIN Upstream
  BY DEF WatchInv, Watching!ComesBack
<1>3. TabsFit' /\ Watching!NeverCutStep
  BY <1>1, <1>2, WatchGoes
<1> QED BY <1>1, <1>3 DEF WatchGood, WatchInv, Watching!ComesBack, Watching!HopsAreJudged,
   Watching!ListKeptStep

\* A hop is judged: it goes on only if a lookup of its host answered what passes.
LEMMA WatchJudges ==
    ASSUME WatchInv, NEW t \in Watchers, Watching!Judge(t)
    PROVE  WatchGood
<1>1. x4[t].phase = "hop" /\ UNCHANGED <<x2, x3, x5, x7>>
  BY DEF Watching!Judge
<1>2. TabFits(x4[t]) /\ x4[t].url \in DOMAIN Upstream
  BY <1>1 DEF WatchInv, TabsFit, TabFits
<1>3. PICK as \in Answers[x4[t].url[1]] :
         IF as # {} /\ as \subseteq Passing
         THEN x4' = [x4 EXCEPT ![t].phase = "connects"] /\ x6' = x6
         ELSE Watching!End(t, "refused")
  BY DEF Watching!Judge, Watching!MayConnect
<1>4. TabsFit' /\ Watching!NeverCutStep /\ DOMAIN x6' = Watchers
  <2>1. CASE ~(as # {} /\ as \subseteq Passing)
    BY <1>1, <1>3, <2>1, WatchEnds
  <2>2. CASE as # {} /\ as \subseteq Passing
    <3> DEFINE q == [x4[t] EXCEPT !.phase = "connects"]
    <3>1. TabFits(q)
      BY <1>1, <1>2, <2>2 DEF TabFits
    <3>2. x4' = [x4 EXCEPT ![t] = q] /\ x6' = x6
      BY <1>3, <2>2
    <3> HIDE DEF q
    <3>3. TabMoves(t, q)
      BY <1>1, <3>1, <3>2 DEF TabMoves
    <3> QED BY <3>2, <3>3, WatchTab DEF WatchInv
  <2> QED BY <2>1, <2>2
<1> QED BY <1>1, <1>4 DEF WatchGood, WatchInv, Watching!ComesBack, Watching!HopsAreJudged,
   Watching!ListKeptStep

\* A connection leads to what is there.
LEMMA WatchArrives ==
    ASSUME WatchInv, NEW t \in Watchers, x4[t].phase = "connects", Watching!Arrive(t)
    PROVE  TabsFit' /\ Watching!NeverCutStep /\ DOMAIN x6' = Watchers
<1> DEFINE it == Upstream[x4[t].url]
<1>1. TabFits(x4[t]) /\ x4[t].url \in DOMAIN Upstream
  BY DEF WatchInv, TabsFit, TabFits
<1>2. CASE \E how : Watching!End(t, how)
  BY <1>2, WatchEnds
<1>3. CASE /\ it.kind = "moved" /\ x6' = x6
           /\ x4' = [x4 EXCEPT ![t].phase = "hop", ![t].url = it.to, ![t].hop = @ + 1]
  <2> DEFINE q == [x4[t] EXCEPT !.phase = "hop", !.url = it.to, !.hop = @ + 1]
  <2>1. it.to \in DOMAIN Upstream
    BY <1>1, <1>3, WatchAssumption
  <2>2. TabFits(q)
    BY <1>1, <2>1 DEF TabFits
  <2>3. x4' = [x4 EXCEPT ![t] = q]
    BY <1>3
  <2> HIDE DEF q
  <2>4. TabMoves(t, q)
    BY <2>2, <2>3 DEF TabMoves
  <2> QED BY <1>3, <2>4, WatchTab DEF WatchInv
<1>4. CASE /\ it.kind \in {"playlist", "bytes"} /\ x6' = x6
           /\ x4' = [x4 EXCEPT ![t].phase = IF it.kind = "playlist" THEN "reads" ELSE "plays"]
  <2> DEFINE q == [x4[t] EXCEPT !.phase = IF it.kind = "playlist" THEN "reads" ELSE "plays"]
  <2>1. TabFits(q)
    BY <1>1 DEF TabFits
  <2>2. x4' = [x4 EXCEPT ![t] = q]
    BY <1>4
  <2> HIDE DEF q
  <2>3. TabMoves(t, q)
    BY <2>1, <2>2 DEF TabMoves
  <2> QED BY <1>4, <2>3, WatchTab DEF WatchInv
<1> QED BY <1>2, <1>3, <1>4 DEF Watching!Arrive

\* A hop that was judged connects: its host has an answer that passes, which is the one that is
\* connected to if there is no other.
LEMMA WatchConnects ==
    ASSUME WatchInv, NEW t \in Watchers, Watching!Connect(t)
    PROVE  WatchGood
<1> DEFINE host == x4[t].url[1]
<1>1. x4[t].phase = "connects" /\ UNCHANGED <<x2, x3, x5>>
  BY DEF Watching!Connect
<1>2. \E as \in Answers[host] : as # {} /\ as \subseteq Passing
  BY <1>1 DEF WatchInv, TabsFit, TabFits
<1>3. TabsFit' /\ Watching!NeverCutStep /\ DOMAIN x6' = Watchers
  <2>1. Watching!Arrive(t) \/ Watching!End(t, "could not connect")
    BY DEF Watching!Connect
  <2> QED BY <1>1, <2>1, WatchArrives, WatchEnds
<1>4. x7' = x7 \/ \E as \in Answers[host] : \E a \in as : x7' = x7 \cup {[host |-> host, at |-> a]}
  BY DEF Watching!Connect
<1>5. ASSUME NEW as \in Answers[host], NEW a \in as, Watching!Steady(host) PROVE a \in Passing
  BY <1>2, <1>5 DEF Watching!Steady
<1> HIDE DEF host
<1>6. ASSUME NEW h \in x7'
      PROVE  /\ \E as \in Answers[h.host] : as # {} /\ as \subseteq Passing
             /\ Watching!Steady(h.host) => h.at \in Passing
  <2>1. CASE h \in x7
    BY <2>1 DEF WatchInv, Watching!HopsAreJudged
  <2>2. CASE h \notin x7
    <3>1. PICK as \in Answers[host] : \E a \in as : h = [host |-> host, at |-> a]
      BY <1>4, <1>6, <2>2
    <3>2. PICK a \in as : h = [host |-> host, at |-> a]
      BY <3>1
    <3>3. h.host = host /\ h.at = a
      BY <3>2
    <3>4. Watching!Steady(host) => a \in Passing
      BY <1>5
    <3> QED BY <1>2, <3>3, <3>4
  <2> QED BY <2>1, <2>2
<1>7. Watching!HopsAreJudged'
  BY <1>6 DEF Watching!HopsAreJudged, Watching!Steady
<1> QED BY <1>1, <1>3, <1>7 DEF WatchGood, WatchInv, Watching!ComesBack, Watching!ListKeptStep

\* What a playlist names comes back to the site, at the address a player would have read it as.
LEMMA WatchReads ==
    ASSUME WatchInv, NEW t \in Watchers, Watching!Read(t)
    PROVE  WatchGood
<1> DEFINE url == x4[t].url
           told == {Watching!Rewritten(t, line) : line \in Upstream[url].lines}
<1>1. /\ x4[t].phase = "reads" /\ UNCHANGED <<x2, x3, x7>> /\ Watching!End(t, "told")
      /\ x5' = [x5 EXCEPT ![t] = x5[t] \cup told]
  BY DEF Watching!Read
<1>2. TabsFit' /\ Watching!NeverCutStep /\ DOMAIN x6' = Watchers
  BY <1>1, WatchEnds
<1>3. url \in DOMAIN Upstream /\ Upstream[url].kind = "playlist"
  BY <1>1 DEF WatchInv, TabsFit, TabFits
<1>4. ASSUME NEW line \in Upstream[url].lines
      PROVE  /\ Watching!Rewritten(t, line)[1] = "us"
             /\ Watching!Rewritten(t, line)[2] \in DOMAIN Upstream
  <2>1. /\ line.tag \in Watching!Rewrites
        /\ <<IF line.host = NoOne THEN url[1] ELSE line.host, line.path>> \in DOMAIN Upstream
    BY <1>3, WatchAssumption DEF Watching!Rewrites
  <2>2. Watching!Rewritten(t, line) = <<"us", <<IF line.host = NoOne THEN url[1] ELSE line.host, line.path>>>>
    BY <2>1 DEF Watching!Rewritten, Watching!Resolve, Watching!Base
  <2> QED BY <2>1, <2>2
<1>5. \A g \in told : g[1] = "us" /\ g[2] \in DOMAIN Upstream
  BY <1>4
<1> HIDE DEF told, url
<1>6. Watching!ComesBack' /\ DOMAIN x5' = Watchers
  BY <1>1, <1>5 DEF WatchInv, Watching!ComesBack
<1> QED BY <1>1, <1>2, <1>6 DEF WatchGood, WatchInv, Watching!HopsAreJudged, Watching!ListKeptStep

\* A request that runs out of time, a stream that ends and a reader who leaves.
LEMMA WatchCloses ==
    ASSUME WatchInv, NEW t \in Watchers, Watching!TimeOut(t) \/ Watching!Over(t) \/ Watching!Leave(t)
    PROVE  WatchGood
<1>1. UNCHANGED <<x2, x3, x5, x7>>
  BY DEF Watching!TimeOut, Watching!Over, Watching!Leave
<1>2. TabsFit' /\ Watching!NeverCutStep /\ DOMAIN x6' = Watchers
  <2>1. CASE Watching!TimeOut(t)
    BY <2>1, WatchEnds DEF Watching!TimeOut, Watching!Timed
  <2>2. CASE Watching!Over(t)
    BY <2>2, WatchEnds DEF Watching!Over
  <2>3. CASE Watching!Leave(t) /\ x4[t].phase = "reads"
    BY <2>3 DEF Watching!Leave, WatchInv, TabsFit, Watching!NeverCutStep
  <2>4. CASE Watching!Leave(t) /\ x4[t].phase # "reads"
    BY <2>4, WatchEnds DEF Watching!Leave
  <2> QED BY <2>1, <2>2, <2>3, <2>4
<1> QED BY <1>1, <1>2 DEF WatchGood, WatchInv, Watching!ComesBack, Watching!HopsAreJudged,
   Watching!ListKeptStep

\* Every step keeps the invariant, cuts nobody off and forgets no list.
LEMMA WatchStep ==
    ASSUME WatchInv, [Watching!Next]_(Watching!vars)
    PROVE  WatchGood
<1>1. CASE UNCHANGED <<x3, x4, x5, x6, x7>> /\ x2'.list \in Directories
  BY <1>1 DEF WatchGood, WatchInv, TabsFit, Watching!NeverCutStep, Watching!ListKeptStep,
     Watching!ComesBack,
     Watching!HopsAreJudged
<1>2. CASE UNCHANGED Watching!watchVars
  BY <1>1, <1>2 DEF Watching!watchVars, WatchInv
<1>3. CASE Watching!Tick
  BY <1>1, <1>3 DEF Watching!Tick, WatchInv
<1>4. ASSUME NEW l \in Directories, Watching!Move(l) PROVE WatchGood
  BY <1>1, <1>4 DEF Watching!Move
<1>5. CASE UNCHANGED Watching!vars
  BY <1>2, <1>5 DEF Watching!vars
<1>6. ASSUME NEW q, NEW n, Watching!Draw(q, n) PROVE WatchGood
  BY <1>2, <1>6 DEF Watching!Draw
<1> QED BY ONLY WatchInv, [Watching!Next]_(Watching!vars), <1>3, <1>4, <1>5, <1>6, WatchWants,
   WatchAnswers, WatchLands,
   WatchUnreached, WatchFetches, WatchJudges, WatchConnects, WatchReads, WatchCloses DEF Watching!Next

(* What is limited and shared: mails that invite, attempts to sign in, and fetches. *)

\* The numbers up to n are n.
LEMMA FirstNumbers == ASSUME NEW n \in Nat PROVE IsFiniteSet(1..n) /\ Cardinality(1..n) = n
<1>1. IsFiniteSet(1..n) /\ Cardinality(1..n) = IF 1 > n THEN 0 ELSE n - 1 + 1
  BY FS_Interval, 1 \in Int, n \in Int
<1>2. n = IF 1 > n THEN 0 ELSE n - 1 + 1
  OBVIOUS
<1> QED BY <1>1, <1>2

\* An instance of a module has its own copy of the operators it extends.
LEMMA MailCount == ASSUME NEW S PROVE Mail!Cardinality(S) = Cardinality(S)
  BY Zenon DEF Mail!Cardinality, Cardinality

\* Who mailed whom, one for every time: an inviter's, and an address's.
RowsOf(f, i) == Mail!Rows(f, {i} \X Mail!Addresses)
RowsTo(f, e) == Mail!Rows(f, Guests \X {e})

\* The mail a submission is at.
Addressed(h) == <<x2[h].by, Head(x2[h].todo)>>

\* Submissions whose mail of the pairs P has left and is not recorded.
Unrecorded(P) == {h \in Senders : x2[h].pc = "record" /\ Addressed(h) \in P}

\* Submissions that found an address quiet and are about to mail it.
Mailing(e) == {h \in Senders : x2[h].pc = "mail" /\ Head(x2[h].todo) = e}

\* What the submissions of an inviter have still to send, one for each mail.
Ahead(i) == {p \in Senders \X (1..PerForm) :
               /\ x2[p[1]].by = i /\ x2[p[1]].pc \in {"look", "mail", "record"}
               /\ p[2] <= Len(x2[p[1]].todo) /\ (x2[p[1]].pc = "record" => p[2] < Len(x2[p[1]].todo))}

\* The submissions of an inviter.
Working(i) == {h \in Senders : x2[h].by = i}

\* A form and a day's limit bound what one submission sends.
PerTurn == Mail!MinOf(PerForm, DailyLimit)
\* The submissions beside one of an inviter that were under way at once.
Besides(i) == IF x4[i] = 0 THEN 0 ELSE x4[i] - 1

\* A submission at work is somebody's, has an address to go on with, no more of them than it may
\* send, and is never about to mail its sender.
SubmissionFits(h) ==
    /\ x2[h].pc = "idle" <=> x2[h].by = NoOne
    /\ x2[h].pc # "idle" => x2[h].todo # <<>> /\ Len(x2[h].todo) <= PerForm
    /\ x2[h].pc \in {"look", "mail", "record"} => Len(x2[h].todo) <= DailyLimit
    /\ x2[h].pc \in {"mail", "record"} => Head(x2[h].todo) # x2[h].by
SubmissionsFit == \A h \in Senders : SubmissionFits(h)

\* What is counted can be.
RowsCounted ==
    /\ \A i \in Guests : IsFiniteSet(RowsOf(x1, i)) /\ IsFiniteSet(RowsOf(x3, i))
    /\ \A e \in Mail!Addresses : IsFiniteSet(RowsTo(x1, e)) /\ IsFiniteSet(RowsTo(x3, e))

\* A mail that left is recorded, about to be, or was lost sight of by a fault.
MailsKnown ==
    /\ \A i \in Guests : Cardinality(RowsOf(x3, i))
          <= Cardinality(RowsOf(x1, i)) + Cardinality(Unrecorded({i} \X Mail!Addresses)) + x6
    /\ \A e \in Mail!Addresses : Cardinality(RowsTo(x3, e))
          <= Cardinality(RowsTo(x1, e)) + Cardinality(Unrecorded(Guests \X {e})) + x6

\* What has left and what is still to be sent, of an inviter and to an address.
MailsLimited ==
    /\ \A i \in Guests : Cardinality(RowsOf(x3, i)) + Cardinality(Ahead(i))
          <= DailyLimit + x6 + Besides(i) * PerTurn
    /\ \A e \in Mail!Addresses : Cardinality(RowsTo(x3, e)) + Cardinality(Mailing(e))
          <= Cardinality(Senders) + x6

\* The inductive invariant of InviteMail: the limits alone do not say what the submissions that
\* have been counted may still send.
MailInv ==
    /\ Mail!TypeOK /\ SubmissionsFit /\ RowsCounted
    /\ \A i \in Guests : Cardinality(Working(i)) <= x4[i]
    /\ \A i \in Guests : x3[<<i, i>>] = 0
    /\ MailsKnown /\ MailsLimited

\* g counts one more of the pair p than f.
OneMoreOfPair(f, p, g) == g = [f EXCEPT ![p] = @ + 1]

\* The rows of P by g are one more than by f when p is in P.
MoreIn(f, g, p, P) ==
    /\ IsFiniteSet(Mail!Rows(g, P))
    /\ Cardinality(Mail!Rows(g, P)) = Cardinality(Mail!Rows(f, P)) + IF p \in P THEN 1 ELSE 0

\* One more mail of a pair is one more row where the pair is counted, and none elsewhere.
LEMMA OneMoreRow ==
    ASSUME NEW f \in [Guests \X Mail!Addresses -> Nat], NEW P \in SUBSET (Guests \X Mail!Addresses),
           NEW p \in Guests \X Mail!Addresses, IsFiniteSet(Mail!Rows(f, P)), NEW g, OneMoreOfPair(f, p, g)
    PROVE  MoreIn(f, g, p, P)
<1>1. \A q \in P : q # p => g[q] = f[q]
  BY DEF OneMoreOfPair
<1>2. g[p] = f[p] + 1 /\ f[p] \in Nat
  BY DEF OneMoreOfPair
<1>3. CASE p \in P
  <2>1. {p} \X (1..g[p]) = ({p} \X (1..f[p])) \cup {<<p, f[p] + 1>>}
    BY <1>2
  <2>2. Mail!Rows(g, P) = Mail!Rows(f, P) \cup {<<p, f[p] + 1>>}
    <3>1. ASSUME NEW r \in Mail!Rows(g, P) PROVE r \in Mail!Rows(f, P) \cup {<<p, f[p] + 1>>}
      <4>1. PICK q \in P : r \in {q} \X (1..g[q])
        BY <3>1 DEF Mail!Rows
      <4>2. CASE q = p
        <5>1. r \in ({p} \X (1..f[p])) \cup {<<p, f[p] + 1>>}
          BY <4>1, <4>2, <2>1, Zenon
        <5> QED BY <5>1, <1>3 DEF Mail!Rows
      <4>3. CASE q # p
        BY <4>1, <4>3, <1>1 DEF Mail!Rows
      <4> QED BY <4>2, <4>3
    <3>2. ASSUME NEW r \in Mail!Rows(f, P) PROVE r \in Mail!Rows(g, P)
      <4>1. PICK q \in P : r \in {q} \X (1..f[q])
        BY <3>2 DEF Mail!Rows
      <4>2. r \in {q} \X (1..g[q])
        <5>1. CASE q = p
          BY <4>1, <2>1, <5>1, Zenon
        <5>2. CASE q # p
          BY <4>1, <1>1, <5>2
        <5> QED BY <5>1, <5>2
      <4> QED BY <4>2 DEF Mail!Rows
    <3>3. <<p, f[p] + 1>> \in Mail!Rows(g, P)
      BY <1>3, <2>1, Zenon DEF Mail!Rows
    <3> QED BY <3>1, <3>2, <3>3
  <2>3. <<p, f[p] + 1>> \notin Mail!Rows(f, P)
    BY <1>2 DEF Mail!Rows
  <2>4. IsFiniteSet(Mail!Rows(g, P)) /\ Cardinality(Mail!Rows(g, P)) = Cardinality(Mail!Rows(f, P)) + 1
    <3> DEFINE R == Mail!Rows(f, P)
    <3>1. ASSUME NEW r, r \notin R, IsFiniteSet(R)
          PROVE  IsFiniteSet(R \cup {r}) /\ Cardinality(R \cup {r}) = Cardinality(R) + 1
      <4> HIDE DEF R
      <4> QED BY <3>1, FS_AddElement
    <3> QED BY <3>1, <2>2, <2>3, Zenon
  <2> QED BY <2>4, <1>3 DEF MoreIn
<1>4. CASE p \notin P
  <2>1. Mail!Rows(g, P) = Mail!Rows(f, P)
    BY <1>1, <1>4 DEF Mail!Rows
  <2>2. Cardinality(Mail!Rows(f, P)) \in Nat
    BY FS_CardinalityType
  <2> QED BY <2>1, <2>2, <1>4 DEF MoreIn
<1> QED BY <1>3, <1>4

\* Before the first mail nothing is counted.
LEMMA NoRows ==
    ASSUME NEW f, NEW P, \A p \in P : f[p] = 0
    PROVE  IsFiniteSet(Mail!Rows(f, P)) /\ Cardinality(Mail!Rows(f, P)) = 0
<1>1. Mail!Rows(f, P) = {}
  BY DEF Mail!Rows
<1> QED BY <1>1, FS_EmptySet

\* No more of a finite set than there is.
LEMMA Fewer ==
    ASSUME NEW S, NEW T, IsFiniteSet(S), T \subseteq S
    PROVE  IsFiniteSet(T) /\ Cardinality(T) \in Nat /\ Cardinality(S) \in Nat /\ Cardinality(T) <= Cardinality(S)
BY FS_Subset, FS_CardinalityType

\* One more at most.
LEMMA AtMostOneMore ==
    ASSUME NEW S, NEW x, IsFiniteSet(S)
    PROVE  /\ IsFiniteSet(S \cup {x}) /\ Cardinality(S \cup {x}) \in Nat
           /\ Cardinality(S \cup {x}) <= Cardinality(S) + 1
           /\ x \notin S => Cardinality(S \cup {x}) = Cardinality(S) + 1
BY FS_AddElement, FS_CardinalityType

\* One fewer.
LEMMA OneFewer ==
    ASSUME NEW S, NEW x, IsFiniteSet(S)
    PROVE  /\ IsFiniteSet(S \ {x}) /\ Cardinality(S \ {x}) \in Nat /\ Cardinality(S) \in Nat
           /\ x \in S => Cardinality(S \ {x}) = Cardinality(S) - 1
BY FS_RemoveElement, FS_CardinalityType

\* Two finite sets together have no more than both.
LEMMA NoMoreTogether ==
    ASSUME NEW S, NEW T, IsFiniteSet(S), IsFiniteSet(T)
    PROVE  /\ IsFiniteSet(S \cup T) /\ Cardinality(S \cup T) \in Nat
           /\ Cardinality(S \cup T) <= Cardinality(S) + Cardinality(T)
<1>1. IsFiniteSet(S \cap T) /\ IsFiniteSet(S \cup T)
  BY FS_Intersection, FS_Union
<1>2. Cardinality(S) \in Nat /\ Cardinality(T) \in Nat /\ Cardinality(S \cap T) \in Nat
      /\ Cardinality(S \cup T) \in Nat
  BY <1>1, FS_CardinalityType
<1>3. Cardinality(S \cup T) = Cardinality(S) + Cardinality(T) - Cardinality(S \cap T)
  BY FS_Union
<1> QED BY <1>1, <1>2, <1>3

\* Two that do not meet fit side by side in what holds both.
LEMMA Apart ==
    ASSUME NEW U, IsFiniteSet(U), NEW S, NEW T, S \subseteq U, T \subseteq U, S \cap T = {}
    PROVE  Cardinality(S) + Cardinality(T) <= Cardinality(U)
<1>1. IsFiniteSet(S) /\ IsFiniteSet(T) /\ S \cup T \subseteq U /\ Cardinality(S) \in Nat /\ Cardinality(T) \in Nat
  BY Fewer
<1>2. Cardinality(S \cup T) <= Cardinality(U)
  BY <1>1, Fewer
<1>3. Cardinality(S \cup T) = Cardinality(S) + Cardinality(T) - Cardinality({})
  BY <1>1, FS_Union, Zenon
<1> QED BY <1>1, <1>2, <1>3, FS_EmptySet

\* What is counted of the submissions is finite, and what has left too.
LEMMA TurnsFinite ==
    /\ IsFiniteSet(Senders \X (1..PerForm)) /\ Cardinality(Senders) \in Nat
    /\ \A P : IsFiniteSet(Unrecorded(P)) /\ Cardinality(Unrecorded(P)) \in Nat
    /\ \A e : IsFiniteSet(Mailing(e)) /\ Cardinality(Mailing(e)) \in Nat
    /\ \A i : IsFiniteSet(Ahead(i)) /\ Cardinality(Ahead(i)) \in Nat
    /\ \A i : IsFiniteSet(Working(i)) /\ Cardinality(Working(i)) \in Nat
<1>1. IsFiniteSet(Senders \X (1..PerForm))
  <2>1. IsFiniteSet(1..PerForm)
    <3>1. PerForm \in Nat
      BY MailAssumption
    <3> QED BY ONLY <3>1, FirstNumbers
  <2> QED BY <2>1, MailAssumption, FS_Product, Zenon
<1>2. \A P : Unrecorded(P) \subseteq Senders
  BY DEF Unrecorded
<1>3. \A e : Mailing(e) \subseteq Senders
  BY DEF Mailing
<1>4. \A i : Ahead(i) \subseteq Senders \X (1..PerForm)
  BY DEF Ahead
<1>5. \A i : Working(i) \subseteq Senders
  BY DEF Working
<1>6. \A S, T : IsFiniteSet(S) /\ T \subseteq S => IsFiniteSet(T) /\ Cardinality(T) \in Nat
  BY Fewer
<1> QED BY <1>1, <1>2, <1>3, <1>4, <1>5, <1>6, MailAssumption, FS_CardinalityType

\* A form names at least one address and no more than fit.
LEMMA ListsFit ==
    ASSUME NEW list \in Mail!Lists(PerForm)
    PROVE  list \in Seq(Mail!Addresses) /\ list # <<>> /\ Len(list) \in 1..PerForm
<1>1. PICK k \in 1..PerForm : list \in [1..k -> Mail!Addresses]
  BY DEF Mail!Lists
<1> QED BY <1>1, MailAssumption

\* Nothing is under way at the start.
LEMMA MailInit == ASSUME Mail!Init PROVE MailInv
<1> USE MailAssumption
<1>1. Mail!TypeOK /\ SubmissionsFit
  <2>1. Mail!Idle \in [pc : {"idle", "count", "look", "mail", "record"}, by : Guests \cup {NoOne},
                       todo : Seq(Mail!Addresses)]
    BY DEF Mail!Idle
  <2>2. Mail!TypeOK
    BY <2>1 DEF Mail!Init, Mail!TypeOK
  <2>3. SubmissionsFit
    BY DEF Mail!Init, Mail!Idle, SubmissionsFit, SubmissionFits
  <2> QED BY <2>2, <2>3
<1>2. ASSUME NEW P \in SUBSET (Guests \X Mail!Addresses)
      PROVE  /\ IsFiniteSet(Mail!Rows(x1, P)) /\ Cardinality(Mail!Rows(x1, P)) = 0
             /\ IsFiniteSet(Mail!Rows(x3, P)) /\ Cardinality(Mail!Rows(x3, P)) = 0
  BY NoRows DEF Mail!Init
<1>3. /\ \A i \in Guests : {i} \X Mail!Addresses \in SUBSET (Guests \X Mail!Addresses)
      /\ \A e \in Mail!Addresses : Guests \X {e} \in SUBSET (Guests \X Mail!Addresses)
  OBVIOUS
<1>4. \A i \in Guests : IsFiniteSet(RowsOf(x1, i)) /\ IsFiniteSet(RowsOf(x3, i)) /\ Cardinality(RowsOf(x3, i)) = 0
         /\ Cardinality(RowsOf(x1, i)) = 0
  BY <1>2, <1>3, Zenon DEF RowsOf
<1>5. \A e \in Mail!Addresses : IsFiniteSet(RowsTo(x1, e)) /\ IsFiniteSet(RowsTo(x3, e))
         /\ Cardinality(RowsTo(x3, e)) = 0 /\ Cardinality(RowsTo(x1, e)) = 0
  BY <1>2, <1>3, Zenon DEF RowsTo
<1>6. /\ \A i \in Guests : Working(i) = {} /\ Ahead(i) = {}
      /\ \A e : Mailing(e) = {}
  <2>1. \A h \in Senders : x2[h].pc = "idle" /\ x2[h].by = NoOne
    BY DEF Mail!Init, Mail!Idle
  <2> QED BY <2>1 DEF Working, Ahead, Mailing
<1>7. \A i \in Guests : Cardinality(Working(i)) = 0 /\ Cardinality(Ahead(i)) = 0 /\ x4[i] = 0
  BY <1>6, FS_EmptySet DEF Mail!Init
<1>8. \A e : Cardinality(Mailing(e)) = 0
  BY <1>6, FS_EmptySet
<1>9. x6 = 0 /\ \A i \in Guests : x3[<<i, i>>] = 0
  BY DEF Mail!Init, Mail!Addresses
<1>10. PerTurn \in Nat
  BY DEF PerTurn, Mail!MinOf
<1>11. MailsKnown
  BY <1>4, <1>5, <1>9, TurnsFinite DEF MailsKnown
<1>12. MailsLimited
  <2>1. \A i \in Guests : Besides(i) = 0
    BY <1>7 DEF Besides
  <2>2. 0 * PerTurn = 0
    BY <1>10
  <2> QED BY <1>4, <1>5, <1>7, <1>8, <1>9, <2>1, <2>2, TurnsFinite DEF MailsLimited
<1> QED BY <1>1, <1>4, <1>5, <1>7, <1>9, <1>11, <1>12 DEF MailInv, RowsCounted

\* What a submission goes on with after an address: the next one, or nothing.
LEMMA MailNext ==
    ASSUME Mail!TypeOK, NEW h \in Senders, x2[h].todo # <<>>
    PROVE  LET n == Mail!Next1(h) IN
           \/ n = Mail!Idle
           \/ /\ n \in [pc : {"look"}, by : Guests \cup {NoOne}, todo : Seq(Mail!Addresses)]
              /\ n.by = x2[h].by /\ n.todo # <<>> /\ Len(n.todo) = Len(x2[h].todo) - 1
<1>1. /\ x2[h] \in [pc : {"idle", "count", "look", "mail", "record"}, by : Guests \cup {NoOne},
                    todo : Seq(Mail!Addresses)]
  BY DEF Mail!TypeOK
<1> DEFINE rest == Tail(x2[h].todo)
<1>2. rest \in Seq(Mail!Addresses) /\ Len(rest) = Len(x2[h].todo) - 1
  BY <1>1
<1>3. CASE rest = <<>>
  BY <1>3 DEF Mail!Next1
<1>4. CASE rest # <<>>
  <2>1. Mail!Next1(h) = [x2[h] EXCEPT !.pc = "look", !.todo = rest]
    BY <1>4 DEF Mail!Next1
  <2> HIDE DEF rest
  <2> QED BY <2>1, <1>1, <1>2, <1>4
<1> QED BY <1>3, <1>4

\* A step that changes one submission, and nothing that is counted, when what it makes of it fits.
LEMMA MailTurns ==
    ASSUME MailInv, NEW h \in Senders, NEW n,
           x2' = [x2 EXCEPT ![h] = n],
           n \in [pc : {"idle", "count", "look", "mail", "record"}, by : Guests \cup {NoOne},
                 todo : Seq(Mail!Addresses)],
           n.pc = "idle" <=> n.by = NoOne,
           n.pc # "idle" => n.todo # <<>> /\ Len(n.todo) <= PerForm,
           n.pc \in {"look", "mail", "record"} => Len(n.todo) <= DailyLimit,
           n.pc \in {"mail", "record"} => Head(n.todo) # n.by
    PROVE  /\ SubmissionsFit'
           /\ x2' \in [Senders -> [pc : {"idle", "count", "look", "mail", "record"}, by : Guests \cup {NoOne},
                                  todo : Seq(Mail!Addresses)]]
           /\ x2'[h] = n /\ \A j \in Senders : j # h => x2'[j] = x2[j]
<1>1. x2'[h] = n /\ \A j \in Senders : j # h => x2'[j] = x2[j]
  BY DEF MailInv, Mail!TypeOK
<1>2. x2' \in [Senders -> [pc : {"idle", "count", "look", "mail", "record"}, by : Guests \cup {NoOne},
                                  todo : Seq(Mail!Addresses)]]
  BY DEF MailInv, Mail!TypeOK
<1>3. ASSUME NEW j \in Senders PROVE SubmissionFits(j)'
  BY <1>1 DEF MailInv, SubmissionsFit, SubmissionFits
<1> QED BY <1>1, <1>2, <1>3 DEF SubmissionsFit

\* What is counted does not change with a step that mails and records nothing.
LEMMA MailSame ==
    ASSUME x1' = x1, x3' = x3
    PROVE  /\ \A i : RowsOf(x1, i)' = RowsOf(x1, i) /\ RowsOf(x3, i)' = RowsOf(x3, i)
           /\ \A e : RowsTo(x1, e)' = RowsTo(x1, e) /\ RowsTo(x3, e)' = RowsTo(x3, e)
BY DEF RowsOf, RowsTo

\* A submission that ends, or skips an address, has no more to send than before; what it had
\* mailed and not recorded is lost to a fault.
LEMMA MailShrinks ==
    ASSUME MailInv, NEW h \in Senders, NEW n,
           x2' = [x2 EXCEPT ![h] = n], UNCHANGED <<x1, x3, x4, x5>>, x6' \in 0..MailFaults,
           \/ n = Mail!Idle
           \/ /\ n \in [pc : {"look"}, by : Guests \cup {NoOne}, todo : Seq(Mail!Addresses)]
              /\ x2[h].pc \in {"look", "mail", "record"}
              /\ n.by = x2[h].by /\ n.todo # <<>> /\ Len(n.todo) = Len(x2[h].todo) - 1,
           x6' = x6 \/ x6' = x6 + 1, x2[h].pc = "record" => x6' = x6 + 1
    PROVE  MailInv'
<1> USE MailAssumption
<1>1. /\ x2[h] \in [pc : {"idle", "count", "look", "mail", "record"}, by : Guests \cup {NoOne},
                    todo : Seq(Mail!Addresses)]
      /\ SubmissionFits(h) /\ x6 \in Nat
  BY DEF MailInv, Mail!TypeOK, SubmissionsFit
<1>2. /\ n \in [pc : {"idle", "count", "look", "mail", "record"}, by : Guests \cup {NoOne},
                 todo : Seq(Mail!Addresses)]
      /\ n.pc = "idle" <=> n.by = NoOne
      /\ n.pc # "idle" => n.todo # <<>> /\ Len(n.todo) <= PerForm
      /\ n.pc \in {"look", "mail", "record"} => Len(n.todo) <= DailyLimit
      /\ n.pc \notin {"mail", "record"}
  <2>1. CASE n = Mail!Idle
    <3>1. n = [pc |-> "idle", by |-> NoOne, todo |-> <<>>]
      BY <2>1 DEF Mail!Idle
    <3> QED BY <3>1
  <2>2. CASE n # Mail!Idle
    BY <2>2, <1>1 DEF SubmissionFits
  <2> QED BY <2>1, <2>2
<1>3. /\ SubmissionsFit'
      /\ x2' \in [Senders -> [pc : {"idle", "count", "look", "mail", "record"}, by : Guests \cup {NoOne},
                               todo : Seq(Mail!Addresses)]]
      /\ x2'[h] = n /\ \A j \in Senders : j # h => x2'[j] = x2[j]
  BY <1>2, MailTurns
<1>4. Mail!TypeOK'
  BY <1>3 DEF MailInv, Mail!TypeOK
<1>5. \A i \in Guests : Working(i)' \subseteq Working(i)
  BY <1>3 DEF Working, Mail!Idle
<1>6. \A i \in Guests : Ahead(i)' \subseteq Ahead(i)
  <2> SUFFICES ASSUME NEW i \in Guests, NEW p \in Senders \X (1..PerForm), p \in Ahead(i)'
               PROVE  p \in Ahead(i)
    BY DEF Ahead
  <2>1. CASE p[1] = h
    BY <2>1, <1>1, <1>3 DEF Ahead, Mail!Idle
  <2>2. CASE p[1] # h
    BY <2>2, <1>3 DEF Ahead
  <2> QED BY <2>1, <2>2
<1>7. \A e : Mailing(e)' \subseteq Mailing(e)
  BY <1>2, <1>3 DEF Mailing
<1>8. ASSUME NEW P
      PROVE  Cardinality(Unrecorded(P)) <= Cardinality(Unrecorded(P)') + x6' - x6
             /\ Cardinality(Unrecorded(P)') \in Nat
  <2>1. Unrecorded(P) \ {h} = Unrecorded(P)' \ {h} /\ h \notin Unrecorded(P)'
    BY <1>2, <1>3 DEF Unrecorded, Addressed
  <2>2. CASE x2[h].pc = "record"
    <3>1. Unrecorded(P)' = Unrecorded(P) \ {h}
      BY <2>1, Zenon
    <3>2. IsFiniteSet(Unrecorded(P)) /\ Cardinality(Unrecorded(P)) \in Nat
      BY TurnsFinite
    <3>3. IsFiniteSet(Unrecorded(P) \ {h})
      BY <3>2, FS_RemoveElement
    <3> QED BY <3>1, <3>2, <3>3, <2>2, <1>1, FS_RemoveElement, FS_CardinalityType
  <2>3. CASE x2[h].pc # "record"
    <3>2. Unrecorded(P)' = Unrecorded(P)
      BY <1>2, <1>3, <2>3 DEF Unrecorded, Addressed
    <3>3. Cardinality(Unrecorded(P)) \in Nat
      BY TurnsFinite, Zenon
    <3> QED BY <3>2, <3>3, <1>1
  <2> QED BY <2>2, <2>3
<1>9. \A i \in Guests : Cardinality(Working(i)') <= Cardinality(Working(i)) /\ Cardinality(Working(i)) \in Nat
                        /\ Cardinality(Working(i)') \in Nat
  BY <1>5, TurnsFinite, Fewer
<1>10. \A i \in Guests : Cardinality(Ahead(i)') <= Cardinality(Ahead(i)) /\ Cardinality(Ahead(i)) \in Nat
                         /\ Cardinality(Ahead(i)') \in Nat
  BY <1>6, TurnsFinite, Fewer
<1>11. \A e : Cardinality(Mailing(e)') <= Cardinality(Mailing(e)) /\ Cardinality(Mailing(e)) \in Nat
                         /\ Cardinality(Mailing(e)') \in Nat
  BY <1>7, TurnsFinite, Fewer
<1>12. /\ \A i : RowsOf(x1, i)' = RowsOf(x1, i) /\ RowsOf(x3, i)' = RowsOf(x3, i)
       /\ \A e : RowsTo(x1, e)' = RowsTo(x1, e) /\ RowsTo(x3, e)' = RowsTo(x3, e)
  BY MailSame
<1>13. /\ \A i \in Guests : Cardinality(RowsOf(x1, i)) \in Nat /\ Cardinality(RowsOf(x3, i)) \in Nat
       /\ \A e \in Mail!Addresses : Cardinality(RowsTo(x1, e)) \in Nat /\ Cardinality(RowsTo(x3, e)) \in Nat
  BY FS_CardinalityType DEF MailInv, RowsCounted
<1>14. RowsCounted'
  BY <1>12 DEF MailInv, RowsCounted
<1>15. MailsKnown'
  <2>1. ASSUME NEW i \in Guests
        PROVE  Cardinality(RowsOf(x3, i)) <= Cardinality(RowsOf(x1, i))
                 + Cardinality(Unrecorded({i} \X Mail!Addresses)') + x6'
    <3>1. Cardinality(Unrecorded({i} \X Mail!Addresses)) \in Nat
      BY TurnsFinite, Zenon
    <3>2. Cardinality(RowsOf(x3, i)) <= Cardinality(RowsOf(x1, i))
            + Cardinality(Unrecorded({i} \X Mail!Addresses)) + x6
      BY DEF MailInv, MailsKnown
    <3> QED BY <1>1, <1>8, <1>13, <3>1, <3>2
  <2>2. ASSUME NEW e \in Mail!Addresses
        PROVE  Cardinality(RowsTo(x3, e)) <= Cardinality(RowsTo(x1, e))
                 + Cardinality(Unrecorded(Guests \X {e})') + x6'
    <3>1. Cardinality(Unrecorded(Guests \X {e})) \in Nat
      BY TurnsFinite, Zenon
    <3>2. Cardinality(RowsTo(x3, e)) <= Cardinality(RowsTo(x1, e))
            + Cardinality(Unrecorded(Guests \X {e})) + x6
      BY DEF MailInv, MailsKnown
    <3> QED BY <1>1, <1>8, <1>13, <3>1, <3>2
  <2> QED BY <2>1, <2>2, <1>12 DEF MailsKnown, Mail!Addresses
<1>16. MailsLimited'
  <2>1. \A i \in Guests : (Besides(i) * PerTurn)' = Besides(i) * PerTurn /\ Besides(i) * PerTurn \in Nat
    BY DEF MailInv, Mail!TypeOK, Besides, PerTurn, Mail!MinOf
  <2>2. ASSUME NEW i \in Guests
        PROVE  Cardinality(RowsOf(x3, i)) + Cardinality(Ahead(i)') <= DailyLimit + x6' + (Besides(i) * PerTurn)'
    <3>1. Cardinality(RowsOf(x3, i)) + Cardinality(Ahead(i)) <= DailyLimit + x6 + Besides(i) * PerTurn
      BY DEF MailInv, MailsLimited
    <3> HIDE DEF Besides, PerTurn
    <3> QED BY <3>1, <2>1, <1>1, <1>10, <1>13
  <2>3. ASSUME NEW e \in Mail!Addresses
        PROVE  Cardinality(RowsTo(x3, e)) + Cardinality(Mailing(e)') <= Cardinality(Senders) + x6'
    <3>1. Cardinality(RowsTo(x3, e)) + Cardinality(Mailing(e)) <= Cardinality(Senders) + x6
      BY DEF MailInv, MailsLimited
    <3>2. Cardinality(Senders) \in Nat
      BY TurnsFinite
    <3> QED BY <3>1, <3>2, <1>1, <1>11, <1>13
  <2> QED BY <2>2, <2>3, <1>12 DEF MailsLimited, Mail!Addresses
<1>17. /\ \A i \in Guests : Cardinality(Working(i)') <= x4'[i]
       /\ \A i \in Guests : x3'[<<i, i>>] = 0
  <2>1. \A i \in Guests : x4[i] \in Nat
    BY DEF MailInv, Mail!TypeOK
  <2> QED BY <1>9, <2>1 DEF MailInv
<1> QED BY <1>3, <1>4, <1>14, <1>15, <1>16, <1>17 DEF MailInv

\* What a step leaves of the counts beside those of the inviter and the address it is about.
MailCounts ==
    /\ \A i \in Guests : /\ Cardinality(RowsOf(x1, i)) \in Nat /\ Cardinality(RowsOf(x3, i)) \in Nat
                          /\ Cardinality(Working(i)) \in Nat /\ Cardinality(Ahead(i)) \in Nat
                          /\ Cardinality(Unrecorded({i} \X Mail!Addresses)) \in Nat
    /\ \A e \in Mail!Addresses : /\ Cardinality(RowsTo(x1, e)) \in Nat /\ Cardinality(RowsTo(x3, e)) \in Nat
                                  /\ Cardinality(Mailing(e)) \in Nat
                                  /\ Cardinality(Unrecorded(Guests \X {e})) \in Nat
    /\ Cardinality(Senders) \in Nat /\ DailyLimit \in Nat /\ PerForm \in Nat /\ x6 \in Nat /\ PerTurn \in Nat
    /\ \A i \in Guests : x4[i] \in Nat /\ Besides(i) \in Nat /\ Besides(i) * PerTurn \in Nat

\* Every count is a number.
LEMMA MailCounted == ASSUME MailInv PROVE MailCounts
<1>1. /\ \A i \in Guests : Cardinality(RowsOf(x1, i)) \in Nat /\ Cardinality(RowsOf(x3, i)) \in Nat
      /\ \A e \in Mail!Addresses : Cardinality(RowsTo(x1, e)) \in Nat /\ Cardinality(RowsTo(x3, e)) \in Nat
  BY FS_CardinalityType DEF MailInv, RowsCounted
<1>2. DailyLimit \in Nat /\ PerForm \in Nat /\ x6 \in Nat /\ PerTurn \in Nat
  BY MailAssumption DEF MailInv, Mail!TypeOK, PerTurn, Mail!MinOf
<1>3. \A i \in Guests : x4[i] \in Nat /\ Besides(i) \in Nat
  BY DEF MailInv, Mail!TypeOK, Besides
<1>4. \A i \in Guests : Besides(i) * PerTurn \in Nat
  <2> HIDE DEF Besides, PerTurn
  <2> QED BY <1>2, <1>3
<1>5. \A P : Cardinality(Unrecorded(P)) \in Nat
  BY TurnsFinite, Zenon
<1> QED BY <1>1, <1>2, <1>3, <1>4, <1>5, TurnsFinite DEF MailCounts

\* A form is one more submission of its inviter, which is counted, and has not been told what it
\* may send.
LEMMA MailSubmits ==
    ASSUME MailInv, NEW h \in Senders, NEW i \in Guests, NEW list \in Mail!Lists(PerForm),
           Mail!Submit(h, i, list)
    PROVE  MailInv'
<1> USE MailAssumption
<1> DEFINE n == [pc |-> "count", by |-> i, todo |-> list]
<1>1. /\ x2[h] = Mail!Idle /\ x2' = [x2 EXCEPT ![h] = n] /\ x1' = x1 /\ x3' = x3 /\ x6' = x6
      /\ x4' = [x4 EXCEPT ![i] = IF Mail!AtWork(i) + 1 > @ THEN Mail!AtWork(i) + 1 ELSE @]
  BY DEF Mail!Submit
<1>2. list \in Seq(Mail!Addresses) /\ list # <<>> /\ Len(list) \in 1..PerForm
  BY ListsFit
<1>3. /\ SubmissionsFit'
      /\ x2' \in [Senders -> [pc : {"idle", "count", "look", "mail", "record"}, by : Guests \cup {NoOne},
                               todo : Seq(Mail!Addresses)]]
      /\ x2'[h] = n /\ \A j \in Senders : j # h => x2'[j] = x2[j]
  <2>1. /\ n \in [pc : {"idle", "count", "look", "mail", "record"}, by : Guests \cup {NoOne},
                   todo : Seq(Mail!Addresses)]
        /\ n.pc = "count" /\ n.by # NoOne /\ n.todo # <<>> /\ Len(n.todo) <= PerForm
    BY <1>2
  <2> HIDE DEF n
  <2> QED BY <1>1, <2>1, MailTurns
<1>4. MailCounts
  BY MailCounted
<1>5. Mail!AtWork(i) = Cardinality(Working(i))
  BY MailCount DEF Mail!AtWork, Working
<1>6. /\ \A j \in Guests : x4'[j] \in Nat /\ x4'[j] >= x4[j]
      /\ x4'[i] >= Cardinality(Working(i)) + 1 /\ x4' \in [Guests -> Nat]
  <2> DEFINE c == Cardinality(Working(i))
  <2>1. c \in Nat /\ x4' = [x4 EXCEPT ![i] = IF c + 1 > @ THEN c + 1 ELSE @]
    BY <1>1, <1>4, <1>5 DEF MailCounts
  <2>2. x4 \in [Guests -> Nat]
    BY DEF MailInv, Mail!TypeOK
  <2> HIDE DEF c
  <2>3. /\ \A j \in Guests : x4'[j] \in Nat /\ x4'[j] >= x4[j]
        /\ x4'[i] >= c + 1 /\ x4' \in [Guests -> Nat]
    BY <2>1, <2>2
  <2> QED BY <2>3 DEF c
<1>7. Mail!TypeOK'
  BY <1>1, <1>3, <1>6 DEF MailInv, Mail!TypeOK, Mail!Submit
<1>8. Working(i)' = Working(i) \cup {h} /\ \A j \in Guests : j # i => Working(j)' = Working(j)
  BY <1>1, <1>3 DEF Working, Mail!Idle
<1>9. \A j \in Guests : Cardinality(Working(j)') <= x4'[j]
  <2>1. IsFiniteSet(Working(i)) /\ Cardinality(Working(i)) \in Nat
    BY TurnsFinite, Zenon
  <2>2. Cardinality(Working(i)') <= Cardinality(Working(i)) + 1 /\ Cardinality(Working(i)') \in Nat
    BY <1>8, <2>1, AtMostOneMore, Zenon
  <2>3. Cardinality(Working(i)') <= x4'[i]
    BY <1>6, <2>1, <2>2
  <2>4. ASSUME NEW j \in Guests, j # i PROVE Cardinality(Working(j)') <= x4'[j]
    <3>1. Cardinality(Working(j)) <= x4[j] /\ x4[j] \in Nat /\ Cardinality(Working(j)) \in Nat
      BY <1>4 DEF MailInv, MailCounts
    <3> QED BY <1>6, <1>8, <2>4, <3>1
  <2> QED BY <2>3, <2>4
<1>10. /\ \A j \in Guests : Ahead(j)' = Ahead(j)
       /\ \A e : Mailing(e)' = Mailing(e)
       /\ \A P : Unrecorded(P)' = Unrecorded(P)
  <2>1. x2[h].pc = "idle" /\ x2'[h].pc = "count"
    BY <1>1, <1>3 DEF Mail!Idle
  <2>2. \A j \in Guests : Ahead(j)' = Ahead(j)
    BY <1>3, <2>1 DEF Ahead
  <2>3. \A e : Mailing(e)' = Mailing(e)
    BY <1>3, <2>1 DEF Mailing
  <2>4. \A P : Unrecorded(P)' = Unrecorded(P)
    BY <1>3, <2>1 DEF Unrecorded, Addressed
  <2> QED BY <2>2, <2>3, <2>4
<1>11. /\ \A j : RowsOf(x1, j)' = RowsOf(x1, j) /\ RowsOf(x3, j)' = RowsOf(x3, j)
       /\ \A e : RowsTo(x1, e)' = RowsTo(x1, e) /\ RowsTo(x3, e)' = RowsTo(x3, e)
  BY <1>1, MailSame
<1>12. \A j \in Guests : (Besides(j) * PerTurn)' >= Besides(j) * PerTurn /\ (Besides(j) * PerTurn)' \in Nat
  <2>1. \A j \in Guests : Besides(j)' \in Nat /\ Besides(j)' >= Besides(j) /\ Besides(j) \in Nat
    BY <1>4, <1>6 DEF Besides, MailCounts
  <2>2. PerTurn' = PerTurn /\ PerTurn \in Nat
    BY <1>4 DEF MailCounts, PerTurn, Mail!MinOf
  <2>3. \A a, b, c \in Nat : a >= b => a * c >= b * c /\ a * c \in Nat
    OBVIOUS
  <2> HIDE DEF Besides, PerTurn
  <2> QED BY <2>1, <2>2, <2>3
<1>13. RowsCounted' /\ MailsKnown'
  BY <1>1, <1>10, <1>11 DEF MailInv, RowsCounted, MailsKnown, Mail!Addresses
<1>14. MailsLimited'
  <2>1. ASSUME NEW j \in Guests
        PROVE  Cardinality(RowsOf(x3, j)) + Cardinality(Ahead(j)) <= DailyLimit + x6 + (Besides(j) * PerTurn)'
    <3>1. Cardinality(RowsOf(x3, j)) + Cardinality(Ahead(j)) <= DailyLimit + x6 + Besides(j) * PerTurn
      BY DEF MailInv, MailsLimited
    <3>2. /\ Cardinality(RowsOf(x3, j)) \in Nat /\ Cardinality(Ahead(j)) \in Nat
          /\ DailyLimit \in Nat /\ x6 \in Nat /\ Besides(j) * PerTurn \in Nat
      BY <1>4 DEF MailCounts
    <3>3. (Besides(j) * PerTurn)' >= Besides(j) * PerTurn /\ (Besides(j) * PerTurn)' \in Nat
      BY <1>12
    <3> HIDE DEF Besides, PerTurn
    <3> QED BY <3>1, <3>2, <3>3
  <2> QED BY <2>1, <1>1, <1>10, <1>11 DEF MailInv, MailsLimited, Mail!Addresses
<1>15. \A j \in Guests : x3'[<<j, j>>] = 0
  BY <1>1 DEF MailInv
<1> QED BY <1>3, <1>7, <1>9, <1>13, <1>14, <1>15 DEF MailInv

\* What a submission may send beside the others of its inviter, after the day was counted: it
\* took into account what was recorded, and what was not is in the hands of the others or lost.
LEMMA MailCountsDay ==
    ASSUME MailInv, NEW h \in Senders, NEW i \in Guests, i = x2[h].by, Mail!Count(h)
    PROVE  MailInv'
<1> USE MailAssumption
<1> DEFINE todo == x2[h].todo
           r == Mail!Remaining(i)
           few == SubSeq(todo, 1, Mail!MinOf(Len(todo), r))
           n == [x2[h] EXCEPT !.pc = "look", !.todo = few]
<1>1. /\ x2[h].pc = "count" /\ x2' = [x2 EXCEPT ![h] = IF r = 0 THEN Mail!Idle ELSE n]
      /\ UNCHANGED <<x1, x3, x4, x5, x6>>
  BY DEF Mail!Count
<1>2. /\ x2[h] \in [pc : {"idle", "count", "look", "mail", "record"}, by : Guests \cup {NoOne},
                    todo : Seq(Mail!Addresses)]
      /\ SubmissionFits(h) /\ x6 \in Nat /\ x6 <= MailFaults
  BY DEF MailInv, Mail!TypeOK, SubmissionsFit
<1>3. i \in Guests /\ todo # <<>> /\ Len(todo) <= PerForm /\ todo \in Seq(Mail!Addresses) /\ Len(todo) \in Nat
  BY <1>1, <1>2 DEF SubmissionFits
<1>4. MailCounts
  BY MailCounted
<1>5. CASE r = 0
  <2>1. x2' = [x2 EXCEPT ![h] = Mail!Idle] /\ x6' \in 0..MailFaults
    BY <1>1, <1>2, <1>5
  <2> QED BY <2>1, <1>1, MailShrinks
<1>6. CASE r # 0
  <2>1. /\ r \in Nat \ {0} /\ r = DailyLimit - Cardinality(RowsOf(x1, i))
    <3>1. Mail!Of(x1, i) = Cardinality(RowsOf(x1, i)) /\ Cardinality(RowsOf(x1, i)) \in Nat
      BY <1>3, <1>4, MailCount DEF Mail!Of, RowsOf, MailCounts
    <3> QED BY <3>1, <1>6 DEF Mail!Remaining
  <2> HIDE DEF r
  <2>2. /\ few \in Seq(Mail!Addresses) /\ few # <<>> /\ Len(few) <= Len(todo) /\ Len(few) <= r /\ Len(few) \in Nat
    <3> HIDE DEF todo
    <3>1. Mail!MinOf(Len(todo), r) \in 1..Len(todo) /\ Mail!MinOf(Len(todo), r) <= r
      BY <1>3, <2>1 DEF Mail!MinOf
    <3> QED BY <3>1, <1>3, <2>1
  <2> HIDE DEF few, todo
  <2>3. /\ n \in [pc : {"idle", "count", "look", "mail", "record"}, by : Guests \cup {NoOne},
                   todo : Seq(Mail!Addresses)]
        /\ n.pc = "look" /\ n.by = i /\ n.todo = few
    BY <1>2, <2>2
  <2> HIDE DEF n
  <2>4. Len(few) <= PerForm /\ Len(few) <= DailyLimit /\ i # NoOne
    <3>1. Cardinality(RowsOf(x1, i)) \in Nat /\ DailyLimit \in Nat
      BY <1>4 DEF MailCounts
    <3>2. Len(few) <= DailyLimit
      BY <3>1, <2>1, <2>2
    <3>3. Len(few) <= PerForm
      BY <2>2, <1>3
    <3> QED BY <3>2, <3>3
  <2>5. /\ SubmissionsFit'
        /\ x2' \in [Senders -> [pc : {"idle", "count", "look", "mail", "record"}, by : Guests \cup {NoOne},
                                 todo : Seq(Mail!Addresses)]]
        /\ x2'[h] = n /\ \A j \in Senders : j # h => x2'[j] = x2[j]
    BY <1>1, <1>6, <2>2, <2>3, <2>4, MailTurns
  <2>6. Mail!TypeOK'
    BY <2>5, <1>1 DEF MailInv, Mail!TypeOK
  <2>7. /\ \A j \in Guests : Working(j)' = Working(j)
        /\ \A j \in Guests : j # i => Ahead(j)' = Ahead(j)
        /\ \A e : Mailing(e)' = Mailing(e)
        /\ \A P : Unrecorded(P)' = Unrecorded(P)
    <3>1. \A j \in Guests : Working(j)' = Working(j)
      BY <2>3, <2>5 DEF Working
    <3>2. \A j \in Guests : j # i => Ahead(j)' = Ahead(j)
      BY <2>3, <2>5, <1>1 DEF Ahead
    <3>3. \A e : Mailing(e)' = Mailing(e)
      BY <2>3, <2>5, <1>1 DEF Mailing
    <3>4. \A P : Unrecorded(P)' = Unrecorded(P)
      BY <2>3, <2>5, <1>1 DEF Unrecorded, Addressed
    <3> QED BY <3>1, <3>2, <3>3, <3>4
  <2>8. /\ \A j : RowsOf(x1, j)' = RowsOf(x1, j) /\ RowsOf(x3, j)' = RowsOf(x3, j)
        /\ \A e : RowsTo(x1, e)' = RowsTo(x1, e) /\ RowsTo(x3, e)' = RowsTo(x3, e)
    BY <1>1, MailSame
  <2>9. /\ RowsCounted' /\ MailsKnown'
        /\ \A j \in Guests : Cardinality(Working(j)') <= x4'[j]
        /\ \A j \in Guests : x3'[<<j, j>>] = 0
    BY <1>1, <2>7, <2>8 DEF MailInv, RowsCounted, MailsKnown, Mail!Addresses
  \* The others, and what they have in hand.
  <2> DEFINE others == Working(i) \ {h}
             hand == others \X (1..PerTurn)
             open == Unrecorded({i} \X Mail!Addresses)
             theirs == {p \in Senders \X (1..PerForm) :
                           /\ x2[p[1]].by = i /\ x2[p[1]].pc \in {"look", "mail", "record"}
                           /\ p[2] <= Len(x2[p[1]].todo)}
             last == [g \in open |-> <<g, Len(x2[g].todo)>>]
  <2>10. /\ Cardinality(others) <= Besides(i) /\ Cardinality(others) \in Nat /\ IsFiniteSet(others)
    <3>1. h \in Working(i) /\ IsFiniteSet(Working(i)) /\ Cardinality(Working(i)) \in Nat
      BY TurnsFinite DEF Working
    <3>2. Cardinality(others) = Cardinality(Working(i)) - 1 /\ Cardinality(others) \in Nat /\ IsFiniteSet(others)
      BY <3>1, OneFewer, Zenon
    <3>3. Cardinality(Working(i)) <= x4[i] /\ x4[i] \in Nat
      BY <1>3, <1>4 DEF MailInv, MailCounts
    <3> HIDE DEF others
    <3> QED BY <3>1, <3>2, <3>3 DEF Besides
  <2>11. ASSUME NEW g \in Senders, x2[g].by = i, x2[g].pc \in {"look", "mail", "record"}
         PROVE  /\ Len(x2[g].todo) \in 1..PerForm /\ Len(x2[g].todo) \in 1..PerTurn /\ g \in others
    <3>1. SubmissionFits(g) /\ x2[g].todo \in Seq(Mail!Addresses)
      BY DEF MailInv, SubmissionsFit, Mail!TypeOK
    <3>2. Len(x2[g].todo) \in 1..PerForm /\ Len(x2[g].todo) <= DailyLimit
      BY <3>1, <2>11 DEF SubmissionFits
    <3>3. g # h
      BY <2>11, <1>1
    <3> QED BY <3>2, <3>3, <2>11, <1>4 DEF PerTurn, Mail!MinOf, MailCounts, Working
  <2>12. theirs \subseteq hand /\ Ahead(i) \subseteq theirs
    <3>1. Ahead(i) \subseteq theirs
      BY DEF Ahead
    <3>2. ASSUME NEW p \in theirs PROVE p \in hand
      <4>1. p = <<p[1], p[2]>> /\ p[1] \in others /\ p[2] \in 1..PerTurn
        BY <2>11, <1>4 DEF MailCounts
      <4> QED BY <4>1
    <3> QED BY <3>1, <3>2
  <2>13. last \in Injection(open, theirs \ Ahead(i))
    <3>1. ASSUME NEW g \in open PROVE last[g] \in theirs \ Ahead(i)
      <4>1. g \in Senders /\ x2[g].by = i /\ x2[g].pc = "record"
        BY DEF Unrecorded, Addressed
      <4>2. Len(x2[g].todo) \in 1..PerForm
        BY <4>1, <2>11
      <4> QED BY <4>1, <4>2 DEF Ahead
    <3>2. \A g, k \in open : last[g] = last[k] => g = k
      OBVIOUS
    <3>3. last = [g \in open |-> last[g]]
      OBVIOUS
    <3> HIDE DEF last, open, theirs
    <3> QED BY <3>3, <3>1, <3>2 DEF Injection, IsInjective
  <2>14. /\ IsFiniteSet(theirs) /\ Cardinality(theirs) <= Cardinality(others) * PerTurn
         /\ Cardinality(theirs) \in Nat
    <3>1. IsFiniteSet(1..PerTurn) /\ Cardinality(1..PerTurn) = PerTurn
      <4>1. PerTurn \in Nat
        BY <1>4 DEF MailCounts
      <4> QED BY ONLY <4>1, FirstNumbers
    <3>2. IsFiniteSet(hand) /\ Cardinality(hand) = Cardinality(others) * PerTurn
      <4> HIDE DEF others
      <4> QED BY <3>1, <2>10, FS_Product, Zenon
    <3> HIDE DEF hand, theirs
    <3> QED BY <3>2, <2>12, Fewer
  <2>15. Cardinality(Ahead(i)) + Cardinality(open) <= Cardinality(theirs)
    <3>1. IsFiniteSet(theirs \ Ahead(i))
          /\ Cardinality(theirs \ Ahead(i)) = Cardinality(theirs) - Cardinality(theirs \cap Ahead(i))
      BY <2>14, FS_Difference, Zenon
    <3>2. theirs \cap Ahead(i) = Ahead(i)
      BY <2>12, Zenon
    <3>3. Cardinality(open) <= Cardinality(theirs \ Ahead(i))
      BY <2>13, <3>1, FS_Injection, Zenon
    <3>4. Cardinality(Ahead(i)) \in Nat /\ Cardinality(open) \in Nat
      BY TurnsFinite, Zenon
    <3>5. Cardinality(theirs \ Ahead(i)) = Cardinality(theirs) - Cardinality(Ahead(i))
      BY <3>1, <3>2, Zenon
    <3>6. Cardinality(theirs) \in Nat
      BY <2>14
    <3> HIDE DEF theirs, open
    <3> QED BY <3>3, <3>4, <3>5, <3>6
  <2>16. Cardinality(Ahead(i)) + Cardinality(open) <= Besides(i) * PerTurn
    <3>1. \A a, b, c \in Nat : a <= b => a * c <= b * c /\ a * c \in Nat /\ b * c \in Nat
      OBVIOUS
    <3>2. Besides(i) \in Nat /\ PerTurn \in Nat
      BY <1>3, <1>4 DEF MailCounts
    <3>3. Cardinality(Ahead(i)) \in Nat /\ Cardinality(open) \in Nat
      BY TurnsFinite, Zenon
    <3> HIDE DEF theirs, open, others
    <3>4. Cardinality(others) * PerTurn <= Besides(i) * PerTurn /\ Cardinality(others) * PerTurn \in Nat
          /\ Besides(i) * PerTurn \in Nat
      BY <3>1, <3>2, <2>10
    <3> QED BY <3>3, <3>4, <2>14, <2>15
  <2>17. Cardinality(Ahead(i)') <= Cardinality(Ahead(i)) + Len(few) /\ Cardinality(Ahead(i)') \in Nat
    <3> DEFINE mine == {h} \X (1..Len(few))
    <3>1. Ahead(i)' = Ahead(i) \cup mine
      <4>1. ASSUME NEW p \in Senders \X (1..PerForm) PROVE p \in Ahead(i)' <=> p \in Ahead(i) \cup mine
        <5>1. /\ p = <<p[1], p[2]>> /\ p[1] \in Senders /\ p[2] \in 1..PerForm
              /\ p \in mine <=> p[1] = h /\ p[2] <= Len(few)
          BY <2>2
        <5> HIDE DEF mine
        <5>2. CASE p[1] = h
          <6>1. p \notin Ahead(i)
            BY <5>2, <1>1 DEF Ahead
          <6>2. p \in Ahead(i)' <=> p[2] <= Len(few)
            BY <5>2, <2>3, <2>5 DEF Ahead
          <6> QED BY <5>1, <5>2, <6>1, <6>2
        <5>3. CASE p[1] # h
          <6>1. p \in Ahead(i)' <=> p \in Ahead(i)
            BY <5>1, <5>3, <2>5 DEF Ahead
          <6> QED BY <5>1, <5>3, <6>1
        <5> QED BY <5>2, <5>3
      <4>2. mine \subseteq Senders \X (1..PerForm)
        BY <2>2, <2>4
      <4> QED BY <4>1, <4>2 DEF Ahead
    <3>2. IsFiniteSet(1..Len(few)) /\ Cardinality(1..Len(few)) = Len(few)
      <4>1. Len(few) \in Nat
        BY <2>2
      <4> QED BY ONLY <4>1, FirstNumbers
    <3>3. IsFiniteSet({h}) /\ Cardinality({h}) = 1
      BY FS_Singleton
    <3>4. IsFiniteSet(mine) /\ Cardinality(mine) = Len(few)
      <4>1. IsFiniteSet(mine) /\ Cardinality(mine) = Cardinality({h}) * Cardinality(1..Len(few))
        BY <3>2, <3>3, FS_Product, Zenon
      <4>2. 1 * Len(few) = Len(few)
        BY <2>2
      <4> QED BY <3>2, <3>3, <4>1, <4>2, Zenon
    <3> HIDE DEF mine
    <3>5. IsFiniteSet(Ahead(i)) /\ Cardinality(Ahead(i)) \in Nat
      BY TurnsFinite, Zenon
    <3>6. /\ IsFiniteSet(Ahead(i) \cup mine) /\ Cardinality(Ahead(i) \cup mine) \in Nat
          /\ Cardinality(Ahead(i) \cup mine) <= Cardinality(Ahead(i)) + Cardinality(mine)
      BY <3>4, <3>5, NoMoreTogether
    <3> QED BY <3>1, <3>4, <3>6
  <2>18. MailsLimited'
    <3>1. Cardinality(RowsOf(x3, i)) + Cardinality(Ahead(i)') <= DailyLimit + x6 + Besides(i) * PerTurn
      <4>1. Cardinality(RowsOf(x3, i)) <= Cardinality(RowsOf(x1, i)) + Cardinality(open) + x6
        BY <1>3 DEF MailInv, MailsKnown
      <4>2. /\ Cardinality(RowsOf(x3, i)) \in Nat /\ Cardinality(RowsOf(x1, i)) \in Nat /\ Cardinality(Ahead(i)) \in Nat
            /\ DailyLimit \in Nat /\ Besides(i) * PerTurn \in Nat /\ Cardinality(open) \in Nat /\ x6 \in Nat
        BY <1>3, <1>4 DEF MailCounts
      <4>3. Cardinality(Ahead(i)') <= Cardinality(Ahead(i)) + r
        BY <4>2, <2>1, <2>2, <2>17
      <4> DEFINE q == Besides(i) * PerTurn
      <4>4. Cardinality(Ahead(i)) + Cardinality(open) <= q /\ q \in Nat
        BY <2>16, <4>2
      <4> HIDE DEF open, q
      <4>5. \A a, b, c, d, e, g, k \in Nat :
               a <= b + c + x6 /\ k = DailyLimit - b /\ d <= e + k /\ e + c <= g => a + d <= DailyLimit + x6 + g
        BY <4>2
      <4>6. Cardinality(RowsOf(x3, i)) + Cardinality(Ahead(i)') <= DailyLimit + x6 + q
        BY <4>1, <4>2, <4>3, <4>4, <4>5, <2>1, <2>17
      <4> QED BY <4>6 DEF q
    <3>2. \A j \in Guests : (Besides(j) * PerTurn)' = Besides(j) * PerTurn
      BY <1>1 DEF Besides, PerTurn, Mail!MinOf
    <3>3. ASSUME NEW j \in Guests
          PROVE  Cardinality(RowsOf(x3, j)) + Cardinality(Ahead(j)') <= DailyLimit + x6 + Besides(j) * PerTurn
      <4>1. CASE j = i
        BY <4>1, <3>1
      <4>2. CASE j # i
        BY <4>2, <2>7 DEF MailInv, MailsLimited
      <4> QED BY <4>1, <4>2
    <3>4. \A e \in Mail!Addresses : Cardinality(RowsTo(x3, e)) + Cardinality(Mailing(e)') <= Cardinality(Senders) + x6
      BY <2>7 DEF MailInv, MailsLimited
    <3> HIDE DEF Besides
    <3> QED BY <3>2, <3>3, <3>4, <2>8, <1>1 DEF MailsLimited, Mail!Addresses
  <2> QED BY <2>5, <2>6, <2>9, <2>18 DEF MailInv
<1> QED BY <1>5, <1>6

\* An address that is looked up is nobody's own, and nothing of it is recorded: what has been
\* mailed to it is in the hands of others or lost, so that no more may be on their way than
\* there are submissions.
LEMMA MailLooks ==
    ASSUME MailInv, NEW h \in Senders, Mail!Look(h)
    PROVE  MailInv'
<1> USE MailAssumption
<1> DEFINE e == Head(x2[h].todo)
           n == [x2[h] EXCEPT !.pc = "mail"]
<1>1. /\ x2[h].pc = "look" /\ UNCHANGED <<x1, x3, x4, x5, x6>>
      /\ x2' = [x2 EXCEPT ![h] = IF e = x2[h].by \/ Mail!Quiet(x2[h].by, e) THEN Mail!Next1(h) ELSE n]
  BY DEF Mail!Look
<1>2. /\ x2[h] \in [pc : {"idle", "count", "look", "mail", "record"}, by : Guests \cup {NoOne},
                    todo : Seq(Mail!Addresses)]
      /\ SubmissionFits(h) /\ x6 \in 0..MailFaults /\ x2[h].todo # <<>> /\ x2[h].by # NoOne
      /\ Len(x2[h].todo) <= PerForm /\ Len(x2[h].todo) <= DailyLimit
  BY <1>1 DEF MailInv, Mail!TypeOK, SubmissionsFit, SubmissionFits
<1>3. MailCounts
  BY MailCounted
<1>4. CASE e = x2[h].by \/ Mail!Quiet(x2[h].by, e)
  <2>1. x2' = [x2 EXCEPT ![h] = Mail!Next1(h)] /\ x6' \in 0..MailFaults
    BY <1>1, <1>2, <1>4
  <2>2. LET m == Mail!Next1(h) IN
           \/ m = Mail!Idle
           \/ /\ m \in [pc : {"look"}, by : Guests \cup {NoOne}, todo : Seq(Mail!Addresses)]
              /\ m.by = x2[h].by /\ m.todo # <<>> /\ Len(m.todo) = Len(x2[h].todo) - 1
    BY <1>2, MailNext DEF MailInv
  <2> DEFINE m == Mail!Next1(h)
  <2> HIDE DEF m
  <2> QED BY <2>1, <2>2, <1>1, MailShrinks DEF m
<1>5. CASE ~(e = x2[h].by \/ Mail!Quiet(x2[h].by, e))
  <2>1. x2' = [x2 EXCEPT ![h] = n]
    BY <1>1, <1>5
  <2>2. e # x2[h].by /\ e \in Mail!Addresses
    BY <1>2, <1>5
  <2>3. /\ n \in [pc : {"idle", "count", "look", "mail", "record"}, by : Guests \cup {NoOne},
                   todo : Seq(Mail!Addresses)]
        /\ n.pc = "mail" /\ n.by = x2[h].by /\ n.todo = x2[h].todo
    BY <1>2
  <2> HIDE DEF n
  <2>4. /\ SubmissionsFit'
        /\ x2' \in [Senders -> [pc : {"idle", "count", "look", "mail", "record"}, by : Guests \cup {NoOne},
                                 todo : Seq(Mail!Addresses)]]
        /\ x2'[h] = n /\ \A j \in Senders : j # h => x2'[j] = x2[j]
    BY <2>1, <2>2, <2>3, <1>2, MailTurns
  <2>5. Mail!TypeOK'
    BY <2>4, <1>1 DEF MailInv, Mail!TypeOK
  <2>6. /\ \A j \in Guests : Working(j)' = Working(j)
        /\ \A j \in Guests : Ahead(j)' = Ahead(j)
        /\ \A a : a # e => Mailing(a)' = Mailing(a)
        /\ \A P : Unrecorded(P)' = Unrecorded(P)
    <3>1. \A j \in Guests : Working(j)' = Working(j)
      <4>1. \A g \in Senders : x2'[g].by = x2[g].by
        BY <2>3, <2>4
      <4> QED BY <4>1 DEF Working
    <3>2. \A j \in Guests : Ahead(j)' = Ahead(j)
      BY <2>3, <2>4, <1>1 DEF Ahead
    <3>3. \A a : a # e => Mailing(a)' = Mailing(a)
      BY <2>3, <2>4, <1>1 DEF Mailing
    <3>4. \A P : Unrecorded(P)' = Unrecorded(P)
      BY <2>3, <2>4, <1>1 DEF Unrecorded, Addressed
    <3> QED BY <3>1, <3>2, <3>3, <3>4
  <2>7. /\ \A j : RowsOf(x1, j)' = RowsOf(x1, j) /\ RowsOf(x3, j)' = RowsOf(x3, j)
        /\ \A a : RowsTo(x1, a)' = RowsTo(x1, a) /\ RowsTo(x3, a)' = RowsTo(x3, a)
    BY <1>1, MailSame
  <2>8. /\ RowsCounted' /\ MailsKnown'
        /\ \A j \in Guests : Cardinality(Working(j)') <= x4'[j]
        /\ \A j \in Guests : x3'[<<j, j>>] = 0
    BY <1>1, <2>6, <2>7 DEF MailInv, RowsCounted, MailsKnown, Mail!Addresses
  <2>9. PICK a \in Mail!Addresses : a = e
    BY <2>2
  <2>10. Cardinality(RowsTo(x1, a)) = 0
    <3>1. Cardinality(RowsTo(x1, a)) \in Nat /\ ~(Cardinality(RowsTo(x1, a)) > 0)
      BY <1>3, <1>5, <2>9, MailCount DEF Mail!Quiet, Mail!To, RowsTo, MailCounts
    <3> QED BY <3>1
  <2>11. Cardinality(RowsTo(x3, a)) + Cardinality(Mailing(a)') <= Cardinality(Senders) + x6
    <3> DEFINE open == Unrecorded(Guests \X {a})
    <3>1. open \cap Mailing(a)' = {} /\ open \subseteq Senders /\ Mailing(a)' \subseteq Senders
      BY <2>3, <2>4, <1>1 DEF Unrecorded, Mailing
    <3>2. /\ IsFiniteSet(open) /\ IsFiniteSet(Mailing(a)') /\ Cardinality(open) \in Nat
          /\ Cardinality(Mailing(a)') \in Nat
      BY <3>1, Fewer
    <3>3. Cardinality(open) + Cardinality(Mailing(a)') <= Cardinality(Senders)
      <4> HIDE DEF open
      <4> QED BY <3>1, <3>2, Apart
    <3>4. Cardinality(RowsTo(x3, a)) <= Cardinality(open) + x6 /\ Cardinality(RowsTo(x3, a)) \in Nat /\ x6 \in Nat
      <4>1. Cardinality(RowsTo(x3, a)) <= Cardinality(RowsTo(x1, a)) + Cardinality(open) + x6
        BY DEF MailInv, MailsKnown
      <4>2. Cardinality(RowsTo(x3, a)) \in Nat /\ x6 \in Nat
        BY <1>3 DEF MailCounts
      <4> HIDE DEF open
      <4> QED BY <4>1, <4>2, <2>10, <3>2
    <3>5. Cardinality(Senders) \in Nat
      BY <1>3 DEF MailCounts
    <3> HIDE DEF open
    <3> QED BY <3>2, <3>3, <3>4, <3>5
  <2>12. MailsLimited'
    <3>1. \A j \in Guests : (Besides(j) * PerTurn)' = Besides(j) * PerTurn
      BY <1>1 DEF Besides, PerTurn, Mail!MinOf
    <3>2. \A b \in Mail!Addresses : Cardinality(RowsTo(x3, b)) + Cardinality(Mailing(b)') <= Cardinality(Senders) + x6
      BY <2>6, <2>9, <2>11 DEF MailInv, MailsLimited
    <3> HIDE DEF Besides
    <3> QED BY <3>1, <3>2, <2>6, <2>7, <1>1 DEF MailInv, MailsLimited, Mail!Addresses
  <2> QED BY <2>4, <2>5, <2>8, <2>12 DEF MailInv
<1> QED BY <1>4, <1>5

\* What is counted of the pairs an inviter and an address are in, when one of theirs is.
LEMMA PairsOf ==
    ASSUME NEW i \in Guests, NEW e \in Mail!Addresses
    PROVE  /\ <<i, e>> \in Guests \X Mail!Addresses
           /\ \A j \in Guests : /\ {j} \X Mail!Addresses \in SUBSET (Guests \X Mail!Addresses)
                                /\ <<i, e>> \in {j} \X Mail!Addresses <=> j = i
           /\ \A a \in Mail!Addresses : /\ Guests \X {a} \in SUBSET (Guests \X Mail!Addresses)
                                        /\ <<i, e>> \in Guests \X {a} <=> a = e
OBVIOUS

\* T is one more than S when x is y.
MoreIf(S, T, x, y) == IsFiniteSet(T) /\ Cardinality(T) = Cardinality(S) + IF x = y THEN 1 ELSE 0

\* One more of a pair counts for its inviter and for its address.
LEMMA OneMoreOf ==
    ASSUME NEW f \in [Guests \X Mail!Addresses -> Nat], NEW i \in Guests, NEW e \in Mail!Addresses,
           NEW j \in Guests, IsFiniteSet(RowsOf(f, j)), NEW g, OneMoreOfPair(f, <<i, e>>, g)
    PROVE  MoreIf(RowsOf(f, j), RowsOf(g, j), j, i)
<1> DEFINE P == {j} \X Mail!Addresses
<1>1. P \in SUBSET (Guests \X Mail!Addresses) /\ (<<i, e>> \in P <=> j = i) /\ IsFiniteSet(Mail!Rows(f, P))
      /\ <<i, e>> \in Guests \X Mail!Addresses
  BY PairsOf DEF RowsOf
<1> HIDE DEF P
<1> DEFINE p == <<i, e>>
<1>5. OneMoreOfPair(f, p, g)
  OBVIOUS
<1>2. p \in Guests \X Mail!Addresses /\ (p \in P <=> j = i)
  BY <1>1
<1> HIDE DEF p
<1>3. MoreIn(f, g, p, P)
  BY <1>1, <1>2, <1>5, OneMoreRow
<1>4. /\ IsFiniteSet(Mail!Rows(g, P))
      /\ Cardinality(Mail!Rows(g, P)) = Cardinality(Mail!Rows(f, P)) + IF j = i THEN 1 ELSE 0
  BY <1>2, <1>3 DEF MoreIn
<1> QED BY <1>4 DEF P, RowsOf, MoreIf

\* The same for an address.
LEMMA OneMoreTo ==
    ASSUME NEW f \in [Guests \X Mail!Addresses -> Nat], NEW i \in Guests, NEW e \in Mail!Addresses,
           NEW a \in Mail!Addresses, IsFiniteSet(RowsTo(f, a)), NEW g, OneMoreOfPair(f, <<i, e>>, g)
    PROVE  MoreIf(RowsTo(f, a), RowsTo(g, a), a, e)
<1> DEFINE P == Guests \X {a}
<1>1. P \in SUBSET (Guests \X Mail!Addresses) /\ (<<i, e>> \in P <=> a = e) /\ IsFiniteSet(Mail!Rows(f, P))
      /\ <<i, e>> \in Guests \X Mail!Addresses
  BY PairsOf DEF RowsTo
<1> HIDE DEF P
<1> DEFINE p == <<i, e>>
<1>5. OneMoreOfPair(f, p, g)
  OBVIOUS
<1>2. p \in Guests \X Mail!Addresses /\ (p \in P <=> a = e)
  BY <1>1
<1> HIDE DEF p
<1>3. MoreIn(f, g, p, P)
  BY <1>1, <1>2, <1>5, OneMoreRow
<1>4. /\ IsFiniteSet(Mail!Rows(g, P))
      /\ Cardinality(Mail!Rows(g, P)) = Cardinality(Mail!Rows(f, P)) + IF a = e THEN 1 ELSE 0
  BY <1>2, <1>3 DEF MoreIn
<1> QED BY <1>4 DEF P, RowsTo, MoreIf

\* So of every inviter and every address, and with no other change.
MoreOf(f, i, e, g) ==
    /\ \A j \in Guests : /\ IsFiniteSet(RowsOf(g, j))
                         /\ Cardinality(RowsOf(g, j)) = Cardinality(RowsOf(f, j)) + IF j = i THEN 1 ELSE 0
    /\ \A a \in Mail!Addresses : /\ IsFiniteSet(RowsTo(g, a))
                                 /\ Cardinality(RowsTo(g, a)) = Cardinality(RowsTo(f, a)) + IF a = e THEN 1 ELSE 0

\* All of MoreOf follows from one more of the pair.
LEMMA OneMoreMail ==
    ASSUME NEW f \in [Guests \X Mail!Addresses -> Nat], NEW i \in Guests, NEW e \in Mail!Addresses,
           \A j \in Guests : IsFiniteSet(RowsOf(f, j)), \A a \in Mail!Addresses : IsFiniteSet(RowsTo(f, a)),
           NEW g, OneMoreOfPair(f, <<i, e>>, g)
    PROVE  MoreOf(f, i, e, g)
<1>1. ASSUME NEW j \in Guests
      PROVE  MoreIf(RowsOf(f, j), RowsOf(g, j), j, i)
  BY OneMoreOf
<1>2. ASSUME NEW a \in Mail!Addresses
      PROVE  MoreIf(RowsTo(f, a), RowsTo(g, a), a, e)
  BY OneMoreTo
<1> QED BY <1>1, <1>2 DEF MoreOf, MoreIf

\* A mail that leaves is one less to be sent, and one that is not recorded yet.
LEMMA MailSends ==
    ASSUME MailInv, NEW h \in Senders, NEW i \in Guests, NEW e \in Mail!Addresses,
           i = x2[h].by, e = Head(x2[h].todo), Mail!Mail(h), x6' = x6
    PROVE  MailInv'
<1> USE MailAssumption
<1> DEFINE n == [x2[h] EXCEPT !.pc = "record"]
           todo == x2[h].todo
<1>1. /\ x2[h] \in [pc : {"idle", "count", "look", "mail", "record"}, by : Guests \cup {NoOne},
                    todo : Seq(Mail!Addresses)]
      /\ SubmissionFits(h) /\ x6 \in 0..MailFaults
  BY DEF MailInv, Mail!TypeOK, SubmissionsFit
<1>2. /\ x2[h].pc = "mail" /\ UNCHANGED <<x1, x4, x5, x6>>
      /\ x2' = [x2 EXCEPT ![h] = n] /\ x3' = [x3 EXCEPT ![<<i, e>>] = @ + 1]
  BY <1>1 DEF Mail!Mail
<1>3. /\ todo # <<>> /\ Len(todo) <= PerForm /\ Len(todo) <= DailyLimit /\ e # i /\ i # NoOne
      /\ Len(todo) \in Nat \ {0}
  BY <1>1, <1>2 DEF SubmissionFits
<1>4. MailCounts
  BY MailCounted
<1>5. /\ n \in [pc : {"idle", "count", "look", "mail", "record"}, by : Guests \cup {NoOne},
                 todo : Seq(Mail!Addresses)]
      /\ n.pc = "record" /\ n.by = i /\ n.todo = todo
  BY <1>1
<1> HIDE DEF n, todo
<1>6. /\ SubmissionsFit'
      /\ x2' \in [Senders -> [pc : {"idle", "count", "look", "mail", "record"}, by : Guests \cup {NoOne},
                               todo : Seq(Mail!Addresses)]]
      /\ x2'[h] = n /\ \A j \in Senders : j # h => x2'[j] = x2[j]
  BY <1>2, <1>3, <1>5, MailTurns DEF todo
<1>7. x3 \in [Guests \X Mail!Addresses -> Nat] /\ x3' \in [Guests \X Mail!Addresses -> Nat]
  BY <1>2 DEF MailInv, Mail!TypeOK
<1>8. Mail!TypeOK'
  BY <1>2, <1>6, <1>7 DEF MailInv, Mail!TypeOK
<1>9. /\ \A j \in Guests : Working(j)' = Working(j)
      /\ \A j \in Guests : j # i => Ahead(j)' = Ahead(j)
      /\ \A a : a # e => Mailing(a)' = Mailing(a)
  <2>1. x2'[h].by = x2[h].by /\ x2'[h].todo = x2[h].todo /\ x2'[h].pc = "record"
    BY <1>5, <1>6 DEF todo
  <2>2. \A j \in Guests : Working(j)' = Working(j)
    BY <2>1, <1>6 DEF Working
  <2>3. \A j \in Guests : j # i => Ahead(j)' = Ahead(j)
    BY <2>1, <1>6 DEF Ahead
  <2>4. \A a : a # e => Mailing(a)' = Mailing(a)
    BY <2>1, <1>6 DEF Mailing
  <2> QED BY <2>2, <2>3, <2>4
<1>10. Cardinality(Ahead(i)') = Cardinality(Ahead(i)) - 1 /\ Cardinality(Ahead(i)') \in Nat
  <2> DEFINE this == <<h, Len(todo)>>
  <2>1. this \in Ahead(i)
    BY <1>2, <1>3 DEF Ahead, todo
  <2>2. Ahead(i)' = Ahead(i) \ {this}
    <3>1. ASSUME NEW p \in Senders \X (1..PerForm) PROVE p \in Ahead(i)' <=> p \in Ahead(i) /\ p # this
      <4>1. p = <<p[1], p[2]>> /\ p[1] \in Senders /\ p[2] \in 1..PerForm
        OBVIOUS
      <4>2. CASE p[1] = h
        <5>1. p \in Ahead(i)' <=> p[2] < Len(todo)
          BY <4>1, <4>2, <1>5, <1>6 DEF Ahead
        <5>2. p \in Ahead(i) <=> p[2] <= Len(todo)
          BY <4>1, <4>2, <1>2 DEF Ahead, todo
        <5>3. p # this <=> p[2] # Len(todo)
          BY <4>1, <4>2
        <5> QED BY <4>1, <5>1, <5>2, <5>3, <1>3
      <4>3. CASE p[1] # h
        BY <4>1, <4>3, <1>6 DEF Ahead
      <4> QED BY <4>2, <4>3
    <3> HIDE DEF this
    <3> QED BY <3>1 DEF Ahead
  <2>3. IsFiniteSet(Ahead(i))
    BY TurnsFinite, Zenon
  <2> HIDE DEF this
  <2> QED BY <2>1, <2>2, <2>3, OneFewer
<1>11. Cardinality(Mailing(e)') = Cardinality(Mailing(e)) - 1 /\ Cardinality(Mailing(e)') \in Nat
  <2>1. h \in Mailing(e) /\ Mailing(e)' = Mailing(e) \ {h}
    BY <1>2, <1>5, <1>6 DEF Mailing
  <2>2. IsFiniteSet(Mailing(e))
    BY TurnsFinite, Zenon
  <2> QED BY <2>1, <2>2, OneFewer
<1>12. ASSUME NEW P
       PROVE  /\ <<i, e>> \in P => Cardinality(Unrecorded(P)') = Cardinality(Unrecorded(P)) + 1
              /\ <<i, e>> \notin P => Cardinality(Unrecorded(P)') = Cardinality(Unrecorded(P))
  <2>1. h \notin Unrecorded(P)
    BY <1>2 DEF Unrecorded
  <2>2. ASSUME NEW g \in Senders
        PROVE  g \in Unrecorded(P)' <=> IF g = h THEN <<i, e>> \in P ELSE g \in Unrecorded(P)
    BY <1>5, <1>6 DEF Unrecorded, Addressed, todo
  <2>3. IsFiniteSet(Unrecorded(P))
    BY TurnsFinite, Zenon
  <2>4. CASE <<i, e>> \in P
    <3>1. Unrecorded(P)' = Unrecorded(P) \cup {h}
      BY <2>2, <2>4 DEF Unrecorded
    <3> QED BY <2>1, <2>3, <2>4, <3>1, AtMostOneMore
  <2>5. CASE <<i, e>> \notin P
    <3>1. Unrecorded(P)' = Unrecorded(P)
      BY <2>1, <2>2, <2>5 DEF Unrecorded
    <3> QED BY <2>5, <3>1
  <2> QED BY <2>4, <2>5
<1>13. /\ \A j \in Guests : RowsOf(x1, j)' = RowsOf(x1, j) /\ RowsOf(x3, j)' = RowsOf(x3', j)
       /\ \A a \in Mail!Addresses : RowsTo(x1, a)' = RowsTo(x1, a) /\ RowsTo(x3, a)' = RowsTo(x3', a)
  BY <1>2 DEF RowsOf, RowsTo
<1>14. /\ \A j \in Guests : /\ IsFiniteSet(RowsOf(x3', j))
                            /\ Cardinality(RowsOf(x3', j)) = Cardinality(RowsOf(x3, j)) + IF j = i THEN 1 ELSE 0
       /\ \A a \in Mail!Addresses : /\ IsFiniteSet(RowsTo(x3', a))
                                    /\ Cardinality(RowsTo(x3', a)) = Cardinality(RowsTo(x3, a)) + IF a = e THEN 1 ELSE 0
  <2>1. /\ \A j \in Guests : IsFiniteSet(RowsOf(x3, j))
        /\ \A a \in Mail!Addresses : IsFiniteSet(RowsTo(x3, a))
    BY DEF MailInv, RowsCounted
  <2>2. OneMoreOfPair(x3, <<i, e>>, x3')
    BY <1>2 DEF OneMoreOfPair
  <2>3. MoreOf(x3, i, e, x3')
    BY ONLY <2>1, <2>2, <1>7, OneMoreMail, i \in Guests, e \in Mail!Addresses
  <2> QED BY <2>3 DEF MoreOf
<1>15. RowsCounted'
  BY <1>13, <1>14 DEF MailInv, RowsCounted, Mail!Addresses
<1>16. MailsKnown'
  <2>1. ASSUME NEW j \in Guests
        PROVE  Cardinality(RowsOf(x3', j)) <= Cardinality(RowsOf(x1, j))
                 + Cardinality(Unrecorded({j} \X Mail!Addresses)') + x6
    <3> DEFINE P == {j} \X Mail!Addresses
    <3>1. <<i, e>> \in P <=> j = i
      BY PairsOf
    <3>2. Cardinality(RowsOf(x3, j)) <= Cardinality(RowsOf(x1, j)) + Cardinality(Unrecorded(P)) + x6
      BY DEF MailInv, MailsKnown
    <3>3. /\ Cardinality(RowsOf(x3, j)) \in Nat /\ Cardinality(RowsOf(x1, j)) \in Nat /\ x6 \in Nat
          /\ Cardinality(Unrecorded(P)) \in Nat
      BY <1>4 DEF MailCounts
    <3> HIDE DEF P
    <3>4. Cardinality(RowsOf(x3', j)) = Cardinality(RowsOf(x3, j)) + IF j = i THEN 1 ELSE 0
      BY <1>14
    <3>5. Cardinality(Unrecorded(P)') = Cardinality(Unrecorded(P)) + IF j = i THEN 1 ELSE 0
      BY <1>12, <3>1, <3>3
    <3>6. Cardinality(RowsOf(x3', j)) <= Cardinality(RowsOf(x1, j)) + Cardinality(Unrecorded(P)') + x6
      BY <3>2, <3>3, <3>4, <3>5
    <3> QED BY <3>6 DEF P
  <2>2. ASSUME NEW a \in Mail!Addresses
        PROVE  Cardinality(RowsTo(x3', a)) <= Cardinality(RowsTo(x1, a))
                 + Cardinality(Unrecorded(Guests \X {a})') + x6
    <3> DEFINE P == Guests \X {a}
    <3>1. <<i, e>> \in P <=> a = e
      BY PairsOf
    <3>2. Cardinality(RowsTo(x3, a)) <= Cardinality(RowsTo(x1, a)) + Cardinality(Unrecorded(P)) + x6
      BY DEF MailInv, MailsKnown
    <3>3. /\ Cardinality(RowsTo(x3, a)) \in Nat /\ Cardinality(RowsTo(x1, a)) \in Nat /\ x6 \in Nat
          /\ Cardinality(Unrecorded(P)) \in Nat
      BY <1>4 DEF MailCounts
    <3> HIDE DEF P
    <3>4. Cardinality(RowsTo(x3', a)) = Cardinality(RowsTo(x3, a)) + IF a = e THEN 1 ELSE 0
      BY <1>14
    <3>5. Cardinality(Unrecorded(P)') = Cardinality(Unrecorded(P)) + IF a = e THEN 1 ELSE 0
      BY <1>12, <3>1, <3>3
    <3>6. Cardinality(RowsTo(x3', a)) <= Cardinality(RowsTo(x1, a)) + Cardinality(Unrecorded(P)') + x6
      BY <3>2, <3>3, <3>4, <3>5
    <3> QED BY <3>6 DEF P
  <2> QED BY <2>1, <2>2, <1>2, <1>13 DEF MailsKnown, Mail!Addresses
<1>17. MailsLimited'
  <2>1. \A j \in Guests : (Besides(j) * PerTurn)' = Besides(j) * PerTurn
    BY <1>2 DEF Besides, PerTurn, Mail!MinOf
  <2>2. ASSUME NEW j \in Guests
        PROVE  Cardinality(RowsOf(x3', j)) + Cardinality(Ahead(j)') <= DailyLimit + x6 + Besides(j) * PerTurn
    <3>1. Cardinality(RowsOf(x3, j)) + Cardinality(Ahead(j)) <= DailyLimit + x6 + Besides(j) * PerTurn
      BY DEF MailInv, MailsLimited
    <3>2. Cardinality(RowsOf(x3, j)) \in Nat /\ Cardinality(Ahead(j)) \in Nat
      BY <1>4 DEF MailCounts
    <3>3. Cardinality(RowsOf(x3', j)) = Cardinality(RowsOf(x3, j)) + IF j = i THEN 1 ELSE 0
      BY <1>14
    <3>4. Cardinality(Ahead(j)') = Cardinality(Ahead(j)) - IF j = i THEN 1 ELSE 0
      BY <1>9, <1>10, <3>2
    <3>5. Cardinality(RowsOf(x3', j)) + Cardinality(Ahead(j)') = Cardinality(RowsOf(x3, j)) + Cardinality(Ahead(j))
      BY <3>2, <3>3, <3>4
    <3> QED BY <3>1, <3>5, Zenon
  <2>3. ASSUME NEW a \in Mail!Addresses
        PROVE  Cardinality(RowsTo(x3', a)) + Cardinality(Mailing(a)') <= Cardinality(Senders) + x6
    <3>1. Cardinality(RowsTo(x3, a)) + Cardinality(Mailing(a)) <= Cardinality(Senders) + x6
      BY DEF MailInv, MailsLimited
    <3>2. Cardinality(RowsTo(x3, a)) \in Nat /\ Cardinality(Mailing(a)) \in Nat
      BY <1>4 DEF MailCounts
    <3>3. Cardinality(RowsTo(x3', a)) = Cardinality(RowsTo(x3, a)) + IF a = e THEN 1 ELSE 0
      BY <1>14
    <3>4. Cardinality(Mailing(a)') = Cardinality(Mailing(a)) - IF a = e THEN 1 ELSE 0
      BY <1>9, <1>11, <3>2
    <3>5. Cardinality(RowsTo(x3', a)) + Cardinality(Mailing(a)') = Cardinality(RowsTo(x3, a)) + Cardinality(Mailing(a))
      BY <3>2, <3>3, <3>4
    <3> QED BY <3>1, <3>5, Zenon
  <2> HIDE DEF Besides
  <2> QED BY <2>1, <2>2, <2>3, <1>2, <1>13 DEF MailsLimited, Mail!Addresses
<1>18. /\ \A j \in Guests : Cardinality(Working(j)') <= x4'[j]
       /\ \A j \in Guests : x3'[<<j, j>>] = 0
  <2>1. \A j \in Guests : x3'[<<j, j>>] = x3[<<j, j>>]
    BY <1>2, <1>3, <1>7 DEF Mail!Addresses
  <2> QED BY <2>1, <1>2, <1>9 DEF MailInv
<1> QED BY <1>6, <1>8, <1>15, <1>16, <1>17, <1>18 DEF MailInv

\* A mail that is recorded was one that had not been: it is counted where it was waited for.
LEMMA MailRecords ==
    ASSUME MailInv, NEW h \in Senders, NEW i \in Guests, NEW e \in Mail!Addresses,
           i = x2[h].by, e = Head(x2[h].todo), Mail!Record(h),
           x1' = [x1 EXCEPT ![<<i, e>>] = @ + 1], x6' = x6
    PROVE  MailInv'
<1> USE MailAssumption
<1> DEFINE n == Mail!Next1(h)
           todo == x2[h].todo
<1>1. /\ x2[h] \in [pc : {"idle", "count", "look", "mail", "record"}, by : Guests \cup {NoOne},
                    todo : Seq(Mail!Addresses)]
      /\ SubmissionFits(h) /\ x6 \in 0..MailFaults
  BY DEF MailInv, Mail!TypeOK, SubmissionsFit
<1>2. /\ x2[h].pc = "record" /\ UNCHANGED <<x3, x4, x5, x6>> /\ x2' = [x2 EXCEPT ![h] = n]
  BY DEF Mail!Record
<1>3. /\ todo # <<>> /\ Len(todo) <= PerForm /\ Len(todo) <= DailyLimit /\ Len(todo) \in Nat \ {0}
  BY <1>1, <1>2 DEF SubmissionFits
<1>4. MailCounts
  BY MailCounted
<1>5. \/ n = Mail!Idle
      \/ /\ n \in [pc : {"look"}, by : Guests \cup {NoOne}, todo : Seq(Mail!Addresses)]
         /\ n.by = i /\ n.todo # <<>> /\ Len(n.todo) = Len(todo) - 1
  BY <1>3, MailNext DEF MailInv
<1> HIDE DEF n, todo
<1>6. /\ SubmissionsFit'
      /\ x2' \in [Senders -> [pc : {"idle", "count", "look", "mail", "record"}, by : Guests \cup {NoOne},
                               todo : Seq(Mail!Addresses)]]
      /\ x2'[h] = n /\ \A j \in Senders : j # h => x2'[j] = x2[j]
  <2>1. /\ n \in [pc : {"idle", "count", "look", "mail", "record"}, by : Guests \cup {NoOne},
                 todo : Seq(Mail!Addresses)]
        /\ n.pc = "idle" <=> n.by = NoOne
        /\ n.pc # "idle" => n.todo # <<>> /\ Len(n.todo) <= PerForm
        /\ n.pc \in {"look", "mail", "record"} => Len(n.todo) <= DailyLimit
        /\ n.pc \notin {"mail", "record"}
    <3>1. CASE n = Mail!Idle
      <4>1. n = [pc |-> "idle", by |-> NoOne, todo |-> <<>>]
        BY <3>1 DEF Mail!Idle
      <4> QED BY <4>1
    <3>2. CASE n # Mail!Idle
      <4>1. i # NoOne
        OBVIOUS
      <4> QED BY <3>2, <4>1, <1>3, <1>5
    <3> QED BY <3>1, <3>2
  <2> QED BY <2>1, <1>2, MailTurns
<1>7. n.pc \notin {"mail", "record"}
  BY <1>5 DEF Mail!Idle
<1>8. x1 \in [Guests \X Mail!Addresses -> Nat] /\ x1' \in [Guests \X Mail!Addresses -> Nat]
  BY DEF MailInv, Mail!TypeOK
<1>9. Mail!TypeOK'
  BY <1>2, <1>6, <1>8 DEF MailInv, Mail!TypeOK
<1>10. /\ \A j \in Guests : Cardinality(Working(j)') <= Cardinality(Working(j))
       /\ \A j \in Guests : Cardinality(Ahead(j)') <= Cardinality(Ahead(j)) /\ Cardinality(Ahead(j)') \in Nat
                            /\ Cardinality(Working(j)') \in Nat
       /\ \A a : Cardinality(Mailing(a)') <= Cardinality(Mailing(a)) /\ Cardinality(Mailing(a)') \in Nat
  <2>1. \A j \in Guests : Working(j)' \subseteq Working(j)
    <3>1. n.by # i => n.by = NoOne
      BY <1>5 DEF Mail!Idle
    <3>2. \A g \in Senders : x2'[g].by \in Guests => x2[g].by = x2'[g].by
      BY <3>1, <1>6
    <3> QED BY <3>2 DEF Working
  <2>2. \A j \in Guests : Ahead(j)' \subseteq Ahead(j)
    <3> SUFFICES ASSUME NEW j \in Guests, NEW p \in Senders \X (1..PerForm), p \in Ahead(j)'
                 PROVE  p \in Ahead(j)
      BY DEF Ahead
    <3>1. CASE p[1] = h
      BY <3>1, <1>2, <1>3, <1>5, <1>6 DEF Ahead, Mail!Idle, todo
    <3>2. CASE p[1] # h
      BY <3>2, <1>6 DEF Ahead
    <3> QED BY <3>1, <3>2
  <2>3. \A a : Mailing(a)' \subseteq Mailing(a)
    BY <1>6, <1>7 DEF Mailing
  <2> QED BY <2>1, <2>2, <2>3, TurnsFinite, Fewer
<1>11. ASSUME NEW P
       PROVE  /\ <<i, e>> \in P => Cardinality(Unrecorded(P)') = Cardinality(Unrecorded(P)) - 1
              /\ <<i, e>> \notin P => Cardinality(Unrecorded(P)') = Cardinality(Unrecorded(P))
  <2>1. h \in Unrecorded(P) <=> <<i, e>> \in P
    BY <1>2 DEF Unrecorded, Addressed
  <2>2. Unrecorded(P)' = Unrecorded(P) \ {h}
    BY <1>6, <1>7 DEF Unrecorded, Addressed
  <2>3. IsFiniteSet(Unrecorded(P))
    BY TurnsFinite, Zenon
  <2>4. CASE <<i, e>> \in P
    BY <2>1, <2>2, <2>3, <2>4, OneFewer
  <2>5. CASE <<i, e>> \notin P
    <3>1. Unrecorded(P)' = Unrecorded(P)
      BY <2>1, <2>2, <2>5
    <3> QED BY <2>5, <3>1
  <2> QED BY <2>4, <2>5
<1>12. /\ \A j \in Guests : RowsOf(x3, j)' = RowsOf(x3, j) /\ RowsOf(x1, j)' = RowsOf(x1', j)
       /\ \A a \in Mail!Addresses : RowsTo(x3, a)' = RowsTo(x3, a) /\ RowsTo(x1, a)' = RowsTo(x1', a)
  BY <1>2 DEF RowsOf, RowsTo
<1>13. /\ \A j \in Guests : /\ IsFiniteSet(RowsOf(x1', j))
                            /\ Cardinality(RowsOf(x1', j)) = Cardinality(RowsOf(x1, j)) + IF j = i THEN 1 ELSE 0
       /\ \A a \in Mail!Addresses : /\ IsFiniteSet(RowsTo(x1', a))
                                    /\ Cardinality(RowsTo(x1', a)) = Cardinality(RowsTo(x1, a)) + IF a = e THEN 1 ELSE 0
  <2>1. /\ \A j \in Guests : IsFiniteSet(RowsOf(x1, j))
        /\ \A a \in Mail!Addresses : IsFiniteSet(RowsTo(x1, a))
    BY DEF MailInv, RowsCounted
  <2>2. OneMoreOfPair(x1, <<i, e>>, x1')
    BY DEF OneMoreOfPair
  <2>3. MoreOf(x1, i, e, x1')
    BY ONLY <2>1, <2>2, <1>8, OneMoreMail, i \in Guests, e \in Mail!Addresses
  <2> QED BY <2>3 DEF MoreOf
<1>14. RowsCounted'
  BY <1>12, <1>13 DEF MailInv, RowsCounted, Mail!Addresses
<1>15. MailsKnown'
  <2>1. ASSUME NEW j \in Guests
        PROVE  Cardinality(RowsOf(x3, j)) <= Cardinality(RowsOf(x1', j))
                 + Cardinality(Unrecorded({j} \X Mail!Addresses)') + x6
    <3> DEFINE P == {j} \X Mail!Addresses
    <3>1. <<i, e>> \in P <=> j = i
      BY PairsOf
    <3>2. Cardinality(RowsOf(x3, j)) <= Cardinality(RowsOf(x1, j)) + Cardinality(Unrecorded(P)) + x6
      BY DEF MailInv, MailsKnown
    <3>3. /\ Cardinality(RowsOf(x3, j)) \in Nat /\ Cardinality(RowsOf(x1, j)) \in Nat /\ x6 \in Nat
          /\ Cardinality(Unrecorded(P)) \in Nat
      BY <1>4 DEF MailCounts
    <3> HIDE DEF P
    <3>4. Cardinality(RowsOf(x1', j)) = Cardinality(RowsOf(x1, j)) + IF j = i THEN 1 ELSE 0
      BY <1>13
    <3>5. Cardinality(Unrecorded(P)') = Cardinality(Unrecorded(P)) - IF j = i THEN 1 ELSE 0
      BY <1>11, <3>1, <3>3
    <3>6. Cardinality(RowsOf(x3, j)) <= Cardinality(RowsOf(x1', j)) + Cardinality(Unrecorded(P)') + x6
      BY <3>2, <3>3, <3>4, <3>5
    <3> QED BY <3>6 DEF P
  <2>2. ASSUME NEW a \in Mail!Addresses
        PROVE  Cardinality(RowsTo(x3, a)) <= Cardinality(RowsTo(x1', a))
                 + Cardinality(Unrecorded(Guests \X {a})') + x6
    <3> DEFINE P == Guests \X {a}
    <3>1. <<i, e>> \in P <=> a = e
      BY PairsOf
    <3>2. Cardinality(RowsTo(x3, a)) <= Cardinality(RowsTo(x1, a)) + Cardinality(Unrecorded(P)) + x6
      BY DEF MailInv, MailsKnown
    <3>3. /\ Cardinality(RowsTo(x3, a)) \in Nat /\ Cardinality(RowsTo(x1, a)) \in Nat /\ x6 \in Nat
          /\ Cardinality(Unrecorded(P)) \in Nat
      BY <1>4 DEF MailCounts
    <3> HIDE DEF P
    <3>4. Cardinality(RowsTo(x1', a)) = Cardinality(RowsTo(x1, a)) + IF a = e THEN 1 ELSE 0
      BY <1>13
    <3>5. Cardinality(Unrecorded(P)') = Cardinality(Unrecorded(P)) - IF a = e THEN 1 ELSE 0
      BY <1>11, <3>1, <3>3
    <3>6. Cardinality(RowsTo(x3, a)) <= Cardinality(RowsTo(x1', a)) + Cardinality(Unrecorded(P)') + x6
      BY <3>2, <3>3, <3>4, <3>5
    <3> QED BY <3>6 DEF P
  <2> QED BY <2>1, <2>2, <1>2, <1>12 DEF MailsKnown, Mail!Addresses
<1>16. MailsLimited'
  <2>1. \A j \in Guests : (Besides(j) * PerTurn)' = Besides(j) * PerTurn /\ Besides(j) * PerTurn \in Nat
    BY <1>2, <1>4 DEF Besides, PerTurn, Mail!MinOf, MailCounts
  <2>2. ASSUME NEW j \in Guests
        PROVE  Cardinality(RowsOf(x3, j)) + Cardinality(Ahead(j)') <= DailyLimit + x6 + Besides(j) * PerTurn
    <3>1. Cardinality(RowsOf(x3, j)) + Cardinality(Ahead(j)) <= DailyLimit + x6 + Besides(j) * PerTurn
      BY DEF MailInv, MailsLimited
    <3>2. /\ Cardinality(RowsOf(x3, j)) \in Nat /\ Cardinality(Ahead(j)) \in Nat /\ x6 \in Nat
          /\ Cardinality(Ahead(j)') <= Cardinality(Ahead(j)) /\ Cardinality(Ahead(j)') \in Nat
      BY <1>4, <1>10 DEF MailCounts
    <3> HIDE DEF Besides, PerTurn
    <3> QED BY <2>1, <3>1, <3>2
  <2>3. ASSUME NEW a \in Mail!Addresses
        PROVE  Cardinality(RowsTo(x3, a)) + Cardinality(Mailing(a)') <= Cardinality(Senders) + x6
    <3>1. Cardinality(RowsTo(x3, a)) + Cardinality(Mailing(a)) <= Cardinality(Senders) + x6
      BY DEF MailInv, MailsLimited
    <3>2. /\ Cardinality(RowsTo(x3, a)) \in Nat /\ Cardinality(Mailing(a)) \in Nat /\ x6 \in Nat
          /\ Cardinality(Mailing(a)') <= Cardinality(Mailing(a)) /\ Cardinality(Mailing(a)') \in Nat
          /\ Cardinality(Senders) \in Nat
      BY <1>4, <1>10 DEF MailCounts
    <3> QED BY <3>1, <3>2
  <2> HIDE DEF Besides
  <2> QED BY <2>1, <2>2, <2>3, <1>2, <1>12 DEF MailsLimited, Mail!Addresses
<1>17. /\ \A j \in Guests : Cardinality(Working(j)') <= x4'[j]
       /\ \A j \in Guests : x3'[<<j, j>>] = 0
  <2>1. \A j \in Guests : Cardinality(Working(j)) \in Nat /\ x4[j] \in Nat
    BY <1>4 DEF MailCounts
  <2> QED BY <2>1, <1>2, <1>10 DEF MailInv
<1> QED BY <1>6, <1>9, <1>14, <1>15, <1>16, <1>17 DEF MailInv

\* Every step of InviteMail keeps the invariant.
LEMMA MailStep == ASSUME MailInv, [Mail!Next]_(Mail!vars) PROVE MailInv'
<1> USE MailAssumption
<1>1. ASSUME UNCHANGED Mail!vars PROVE MailInv'
  <2>1. UNCHANGED <<x1, x2, x3, x4, x5, x6>>
    BY <1>1 DEF Mail!vars
  <2>2. /\ \A j : RowsOf(x1, j)' = RowsOf(x1, j) /\ RowsOf(x3, j)' = RowsOf(x3, j)
        /\ \A a : RowsTo(x1, a)' = RowsTo(x1, a) /\ RowsTo(x3, a)' = RowsTo(x3, a)
    BY <2>1, MailSame
  <2>3. /\ \A j : Working(j)' = Working(j) /\ Ahead(j)' = Ahead(j) /\ Mailing(j)' = Mailing(j)
        /\ \A P : Unrecorded(P)' = Unrecorded(P)
        /\ \A j : Besides(j)' = Besides(j)
    BY <2>1 DEF Working, Ahead, Mailing, Unrecorded, Addressed, Besides
  <2>4. Mail!TypeOK' /\ SubmissionsFit'
    BY <2>1 DEF MailInv, Mail!TypeOK, SubmissionsFit, SubmissionFits
  <2>5. /\ RowsCounted' /\ \A j \in Guests : Cardinality(Working(j)') <= x4'[j]
        /\ \A j \in Guests : x3'[<<j, j>>] = 0
    BY <2>1, <2>2, <2>3 DEF MailInv, RowsCounted, Mail!Addresses
  <2>6. MailsKnown'
    BY <2>1, <2>2, <2>3 DEF MailInv, MailsKnown, Mail!Addresses
  <2>7. MailsLimited'
    <3> HIDE DEF Besides, PerTurn
    <3>1. PerTurn' = PerTurn
      BY DEF PerTurn, Mail!MinOf
    <3> QED BY <2>1, <2>2, <2>3, <3>1 DEF MailInv, MailsLimited, Mail!Addresses
  <2> QED BY <2>3, <2>4, <2>5, <2>6, <2>7 DEF MailInv
<1>2. ASSUME NEW h \in Senders, NEW i \in Guests, NEW list \in Mail!Lists(PerForm), Mail!Submit(h, i, list)
      PROVE  MailInv'
  BY <1>2, MailSubmits
<1>3. ASSUME NEW h \in Senders, Mail!Count(h) PROVE MailInv'
  <2>1. PICK i \in Guests : i = x2[h].by
    BY <1>3 DEF MailInv, Mail!TypeOK, SubmissionsFit, SubmissionFits, Mail!Count
  <2> QED BY <1>3, <2>1, MailCountsDay
<1>4. ASSUME NEW h \in Senders, Mail!Look(h) PROVE MailInv'
  BY <1>4, MailLooks
<1>5. ASSUME NEW h \in Senders
      PROVE  /\ x2[h] \in [pc : {"idle", "count", "look", "mail", "record"}, by : Guests \cup {NoOne},
                           todo : Seq(Mail!Addresses)]
             /\ x6 \in 0..MailFaults
             /\ x2[h].pc \in {"mail", "record"} => /\ x2[h].todo # <<>> /\ x2[h].by \in Guests
                                                   /\ Head(x2[h].todo) \in Mail!Addresses
  BY DEF MailInv, Mail!TypeOK, SubmissionsFit, SubmissionFits
<1>6. ASSUME NEW h \in Senders, x2[h].pc \in {"mail", "record"}
      PROVE  \/ Mail!Next1(h) = Mail!Idle
             \/ /\ Mail!Next1(h) \in [pc : {"look"}, by : Guests \cup {NoOne}, todo : Seq(Mail!Addresses)]
                /\ Mail!Next1(h).by = x2[h].by /\ Mail!Next1(h).todo # <<>>
                /\ Len(Mail!Next1(h).todo) = Len(x2[h].todo) - 1
  BY <1>5, <1>6, MailNext DEF MailInv
<1>7. ASSUME NEW h \in Senders, x2[h].pc \in {"mail", "record"}, x2' = [x2 EXCEPT ![h] = Mail!Next1(h)],
             UNCHANGED <<x1, x3, x4, x5>>, x6 < MailFaults, x6' = x6 + 1
      PROVE  MailInv'
  <2> DEFINE n == Mail!Next1(h)
  <2>1. \/ n = Mail!Idle
        \/ /\ n \in [pc : {"look"}, by : Guests \cup {NoOne}, todo : Seq(Mail!Addresses)]
           /\ x2[h].pc \in {"look", "mail", "record"}
           /\ n.by = x2[h].by /\ n.todo # <<>> /\ Len(n.todo) = Len(x2[h].todo) - 1
    BY <1>6, <1>7
  <2>2. x2' = [x2 EXCEPT ![h] = n] /\ x6' \in 0..MailFaults
    BY <1>5, <1>7
  <2> HIDE DEF n
  <2> QED BY <1>7, <2>1, <2>2, MailShrinks
<1>8. ASSUME NEW h \in Senders, Mail!Mail(h) PROVE MailInv'
  <2>1. x2[h].pc = "mail"
    BY <1>8 DEF Mail!Mail
  <2>2. PICK i \in Guests, e \in Mail!Addresses : i = x2[h].by /\ e = Head(x2[h].todo)
    BY <2>1, <1>5
  <2>3. CASE x6' = x6
    BY <1>8, <2>2, <2>3, MailSends
  <2>4. CASE x6' # x6
    <3>1. /\ x2' = [x2 EXCEPT ![h] = Mail!Next1(h)] /\ UNCHANGED <<x1, x3, x4, x5>>
          /\ x6 < MailFaults /\ x6' = x6 + 1
      BY <1>8, <2>4 DEF Mail!Mail
    <3> QED BY <3>1, <2>1, <1>7
  <2> QED BY <2>3, <2>4
<1>9. ASSUME NEW h \in Senders, Mail!Record(h) PROVE MailInv'
  <2>1. x2[h].pc = "record"
    BY <1>9 DEF Mail!Record
  <2>2. PICK i \in Guests, e \in Mail!Addresses : i = x2[h].by /\ e = Head(x2[h].todo)
    BY <2>1, <1>5
  <2>3. CASE x6' = x6
    <3>1. x1' = [x1 EXCEPT ![<<i, e>>] = @ + 1]
      BY <1>9, <1>5, <2>2, <2>3 DEF Mail!Record
    <3> QED BY <3>1, <1>9, <2>2, <2>3, MailRecords
  <2>4. CASE x6' # x6
    <3>1. /\ x2' = [x2 EXCEPT ![h] = Mail!Next1(h)] /\ UNCHANGED <<x1, x3, x4, x5>>
          /\ x6 < MailFaults /\ x6' = x6 + 1
      BY <1>9, <2>4 DEF Mail!Record
    <3> QED BY <3>1, <2>1, <1>7
  <2> QED BY <2>3, <2>4
<1>10. ASSUME NEW h \in Senders, Mail!Die(h) PROVE MailInv'
  <2>1. /\ x2' = [x2 EXCEPT ![h] = Mail!Idle] /\ UNCHANGED <<x1, x3, x4, x5>>
        /\ x6' = x6 + 1 /\ x6' \in 0..MailFaults
    BY <1>5, <1>10 DEF Mail!Die
  <2> QED BY <2>1, MailShrinks
<1> QED BY <1>1, <1>2, <1>3, <1>4, <1>8, <1>9, <1>10 DEF Mail!Next

\* What is mailed is bounded, for the one who sends and for the one who gets it.
LEMMA MailLimits == ASSUME MailInv PROVE Mail!MailIsBounded
<1> USE MailAssumption
<1>1. MailCounts
  BY MailCounted
<1>2. ASSUME NEW i \in Guests
      PROVE  Mail!Of(x3, i) <= DailyLimit + x6
                               + (IF x4[i] = 0 THEN 0 ELSE x4[i] - 1) * Mail!MinOf(PerForm, DailyLimit)
  <2>1. Cardinality(RowsOf(x3, i)) + Cardinality(Ahead(i)) <= DailyLimit + x6 + Besides(i) * PerTurn
    BY DEF MailInv, MailsLimited
  <2>2. /\ Cardinality(RowsOf(x3, i)) \in Nat /\ Cardinality(Ahead(i)) \in Nat /\ x6 \in Nat
        /\ Besides(i) * PerTurn \in Nat
    BY <1>1 DEF MailCounts
  <2>3. Cardinality(RowsOf(x3, i)) <= DailyLimit + x6 + Besides(i) * PerTurn
    <3> HIDE DEF Besides, PerTurn
    <3> QED BY <2>1, <2>2
  <2>4. Mail!Of(x3, i) = Cardinality(RowsOf(x3, i))
    BY MailCount DEF Mail!Of, RowsOf
  <2> QED BY <2>3, <2>4, Zenon DEF Besides, PerTurn
<1>3. ASSUME NEW e \in Mail!Addresses
      PROVE  Mail!To(x3, e) <= Mail!Cardinality(Senders) + x6
  <2>1. Cardinality(RowsTo(x3, e)) + Cardinality(Mailing(e)) <= Cardinality(Senders) + x6
    BY DEF MailInv, MailsLimited
  <2>2. /\ Cardinality(RowsTo(x3, e)) \in Nat /\ Cardinality(Mailing(e)) \in Nat /\ x6 \in Nat
        /\ Cardinality(Senders) \in Nat
    BY <1>1 DEF MailCounts
  <2>3. Mail!To(x3, e) = Cardinality(RowsTo(x3, e)) /\ Mail!Cardinality(Senders) = Cardinality(Senders)
    BY MailCount DEF Mail!To, RowsTo
  <2> QED BY <2>1, <2>2, <2>3
<1>4. \A i \in Guests : x3[<<i, i>>] = 0
  BY DEF MailInv
<1> QED BY <1>2, <1>3, <1>4 DEF Mail!MailIsBounded, Mail!LimitHolds, Mail!StrangersLeftAlone

\* The count of AuthThrottle is the one of the theorems about finite sets.
LEMMA ThrottleCount == ASSUME NEW S PROVE Throttle!Cardinality(S) = Cardinality(S)
  BY Zenon DEF Throttle!Cardinality, Cardinality

\* A power of two is as many as the subsets of so many, and with one more there are twice as many.
LEMMA TwiceThePower == ASSUME NEW n \in Nat PROVE 2^n \in Nat /\ 2^(n + 1) = 2 * 2^n
<1> DEFINE S == 1..n
           x == n + 1
           B == {T \cup {x} : T \in SUBSET S}
<1>1. IsFiniteSet(S) /\ Cardinality(S) = n /\ x \notin S
  <2>1. IsFiniteSet(1..n) /\ Cardinality(1..n) = n
    BY FirstNumbers
  <2>2. x \notin S
    OBVIOUS
  <2> QED BY <2>1, <2>2
<1> HIDE DEF S
<1>2. IsFiniteSet(S \cup {x}) /\ Cardinality(S \cup {x}) = n + 1
  BY <1>1, FS_AddElement
<1> HIDE DEF x
<1>3. SUBSET (S \cup {x}) = (SUBSET S) \cup B
  <2>1. ASSUME NEW U \in SUBSET (S \cup {x}) PROVE U \in (SUBSET S) \cup B
    <3>1. CASE x \in U
      <4>1. U \ {x} \in SUBSET S /\ U = (U \ {x}) \cup {x}
        BY <3>1
      <4> QED BY <4>1
    <3>2. CASE x \notin U
      BY <3>2
    <3> QED BY <3>1, <3>2
  <2>2. ASSUME NEW U \in B PROVE U \in SUBSET (S \cup {x})
    OBVIOUS
  <2> QED BY <2>1, <2>2
<1>4. (SUBSET S) \cap B = {}
  BY <1>1
<1>5. IsFiniteSet(SUBSET S) /\ Cardinality(SUBSET S) = 2^n
  BY <1>1, FS_SUBSET
<1>6. Cardinality(SUBSET (S \cup {x})) = 2^(n + 1)
  BY <1>2, FS_SUBSET
<1>7. IsFiniteSet(B) /\ Cardinality(B) = Cardinality(SUBSET S)
  <2> DEFINE f == [T \in SUBSET S |-> T \cup {x}]
  <2>1. f \in [SUBSET S -> B]
    OBVIOUS
  <2>2. \A T, U \in SUBSET S : f[T] = f[U] => T = U
    <3> SUFFICES ASSUME NEW T \in SUBSET S, NEW U \in SUBSET S, T \cup {x} = U \cup {x} PROVE T = U
      OBVIOUS
    <3>1. T = (T \cup {x}) \ {x} /\ U = (U \cup {x}) \ {x}
      BY <1>1
    <3> QED BY <3>1
  <2>3. \A b \in B : \E T \in SUBSET S : f[T] = b
    OBVIOUS
  <2> HIDE DEF f, B
  <2>4. f \in Bijection(SUBSET S, B)
    BY <2>1, <2>2, <2>3 DEF Bijection, Injection, Surjection, IsInjective
  <2>5. ExistsBijection(SUBSET S, B)
    BY <2>4 DEF ExistsBijection
  <2> QED BY <2>5, <1>5, FS_Bijection
<1>8. Cardinality(SUBSET S) \in Nat
  BY <1>5, FS_CardinalityType
<1> HIDE DEF B
<1>9. Cardinality((SUBSET S) \cup B) = Cardinality(SUBSET S) + Cardinality(B) - Cardinality((SUBSET S) \cap B)
  <2> DEFINE A == SUBSET S
  <2> HIDE DEF A
  <2>1. IsFiniteSet(A) /\ IsFiniteSet(B)
    BY <1>5, <1>7 DEF A
  <2>2. Cardinality(A \cup B) = Cardinality(A) + Cardinality(B) - Cardinality(A \cap B)
    BY <2>1, FS_Union
  <2> QED BY <2>2 DEF A
<1>10. Cardinality((SUBSET S) \cup B) = 2^(n + 1)
  BY <1>3, <1>6, Zenon
<1>11. Cardinality((SUBSET S) \cap B) = 0
  BY <1>4, FS_EmptySet, Zenon
<1>12. Cardinality(SUBSET S) = 2^n /\ Cardinality(B) = 2^n /\ 2^n \in Nat
  BY <1>5, <1>7, <1>8, Zenon
<1>13. 2^(n + 1) = 2^n + 2^n - 0
  BY <1>9, <1>10, <1>11, <1>12, Zenon
<1>14. \A p \in Nat : \A q : q = p + p - 0 => q = 2 * p
  OBVIOUS
<1> QED BY <1>12, <1>13, <1>14, Zenon

\* What the Map holds of a caller, and what the history does.
Throttled ==
    /\ x1 \in Nat /\ x2 \subseteq Knockers \X Knockers
    /\ x3 \in [Knockers -> [strikes : Nat, lockedUntil : Nat, lastAt : Nat]]
    /\ x4 \in [Knockers -> Nat]
    /\ x5 \in [Knockers -> [length : Nat, asked : Nat, times : Nat]]

\* A caller that is not remembered has a blank entry and
\* no history; of one that is, the history tells when it asked last, and a lock it earned is the
\* one of its strikes.
CallerFits(k) ==
    /\ ~Throttle!InMap(k) => x3[k] = Throttle!Blank /\ x5[k] = Throttle!NoLock
    /\ Throttle!InMap(k) => /\ x3[k].strikes > 0 /\ x5[k].times > 0
                            /\ x3[k].lastAt = x5[k].asked /\ x3[k].lastAt <= x1
    /\ x5[k].length > 0 => /\ x3[k].strikes > FreeAttempts
                           /\ x5[k].length = Throttle!LockOf(x3[k].strikes)
\* The inductive invariant of AuthThrottle.
ThrottleInv == Throttled /\ \A k \in Knockers : CallerFits(k)

\* The lock of so many strikes is a number, and of one strike more the double, up to the ceiling.
LEMMA LocksDouble ==
    ASSUME NEW n \in Nat, n > FreeAttempts
    PROVE  /\ Throttle!LockOf(n) \in Nat /\ Throttle!LockOf(n) <= MaxLock
           /\ Throttle!LockOf(n + 1) = Throttle!MinOf(2 * Throttle!LockOf(n), MaxLock)
<1> USE ThrottleAssumption
<1> DEFINE m == n - FreeAttempts - 1
           p == 2^m
           b == BaseLock * p
<1>1. m \in Nat /\ n + 1 - FreeAttempts - 1 = m + 1
  OBVIOUS
<1>2. p \in Nat /\ 2^(m + 1) = 2 * p
  BY <1>1, TwiceThePower, Zenon
<1>3. Throttle!LockOf(n) = Throttle!MinOf(b, MaxLock)
  BY DEF Throttle!LockOf
<1>4. Throttle!LockOf(n + 1) = Throttle!MinOf(BaseLock * (2 * p), MaxLock)
  <2>1. Throttle!LockOf(n + 1) = Throttle!MinOf(BaseLock * 2^(n + 1 - FreeAttempts - 1), MaxLock)
    BY DEF Throttle!LockOf
  <2>2. 2^(n + 1 - FreeAttempts - 1) = 2 * p
    BY <1>1, <1>2
  <2> QED BY <2>1, <2>2
<1> HIDE DEF p
<1>5. b \in Nat /\ BaseLock * (2 * p) = 2 * b
  BY <1>2
<1> HIDE DEF b
<1> QED BY <1>3, <1>4, <1>5 DEF Throttle!MinOf

\* What the Map holds fits Throttled.
ThrottleEntry == [strikes : Nat, lockedUntil : Nat, lastAt : Nat]
ThrottleLock == [length : Nat, asked : Nat, times : Nat]

\* Nobody is remembered at the start.
LEMMA ThrottleInit == ASSUME Throttle!Init PROVE ThrottleInv
<1> USE ThrottleAssumption
<1>1. Throttle!Blank \in ThrottleEntry /\ Throttle!NoLock \in ThrottleLock
  BY DEF Throttle!Blank, Throttle!NoLock, ThrottleEntry, ThrottleLock
<1>2. Throttled
  BY <1>1 DEF Throttle!Init, Throttled, ThrottleEntry, ThrottleLock
<1>3. ASSUME NEW k \in Knockers PROVE CallerFits(k)
  <2>1. ~Throttle!InMap(k) /\ x3[k] = Throttle!Blank /\ x5[k] = Throttle!NoLock
    BY DEF Throttle!Init, Throttle!InMap
  <2>2. x5[k].length = 0
    BY <2>1 DEF Throttle!NoLock
  <2> QED BY <2>1, <2>2 DEF CallerFits
<1> QED BY <1>2, <1>3 DEF ThrottleInv

\* Sweeping keeps only callers that were remembered, and all that have not decayed while there is
\* room for everybody.
LEMMA SweepKeeps ==
    ASSUME NEW k \in Knockers
    PROVE  /\ k \in Throttle!Swept => Throttle!InMap(k)
           /\ Throttle!InMap(k) /\ ~Throttle!Decayed(k) /\ Throttle!Cardinality(Throttle!Tracked) <= MaxTracked
              => k \in Throttle!Swept
<1> USE ThrottleAssumption
<1>1. ASSUME k \in Throttle!Swept PROVE Throttle!InMap(k)
  BY <1>1 DEF Throttle!Swept, Throttle!Shed, Throttle!Tracked
<1>2. ASSUME Throttle!InMap(k), ~Throttle!Decayed(k), Throttle!Cardinality(Throttle!Tracked) <= MaxTracked
      PROVE  k \in Throttle!Swept
  <2> DEFINE S == {j \in Throttle!Tracked : ~Throttle!Decayed(j)}
             Y == {j \in S : <<k, j>> \in x2}
             T == Throttle!Tracked
  <2>1. k \in S /\ k \in T
    BY <1>2 DEF Throttle!Tracked
  <2>2. Y \subseteq T /\ T \subseteq Knockers
    BY DEF Throttle!Tracked
  <2>3. Cardinality(T) <= MaxTracked
    BY <1>2, ThrottleCount, Zenon
  <2> HIDE DEF Y, T
  <2>4. IsFiniteSet(T) /\ Cardinality(T) \in Nat
    BY <2>2, FS_Subset, FS_CardinalityType
  <2>5. IsFiniteSet(Y) /\ Cardinality(Y) <= Cardinality(T)
    BY <2>2, <2>4, FS_Subset
  <2>6. Cardinality(Y) \in Nat
    BY <2>5, FS_CardinalityType
  <2>7. Cardinality(Y) <= MaxTracked
    BY <2>3, <2>4, <2>5, <2>6
  <2>8. Throttle!Cardinality(Y) <= MaxTracked
    BY <2>7, ThrottleCount, Zenon
  <2>9. k \in Throttle!Shed(S)
    BY <2>1, <2>8 DEF Throttle!Shed, Y
  <2> QED BY <2>1, <2>9 DEF Throttle!Swept, T
<1> QED BY <1>1, <1>2

\* What is found of a caller after the sweep, in terms of its entry and its history.
LEMMA CallerFound ==
    ASSUME ThrottleInv, NEW k \in Knockers
    PROVE  LET e == Throttle!Found(k) IN
           /\ e \in ThrottleEntry /\ e.lastAt <= x1
           /\ k \in Throttle!Swept => /\ e = x3[k] /\ e.strikes > 0 /\ x5[k].asked = e.lastAt
                                      /\ x5[k].times > 0
           /\ k \notin Throttle!Swept => e.strikes = 0 /\ e.lockedUntil = 0 /\ e.lastAt = x1
<1> USE ThrottleAssumption
<1>1. /\ x1 \in Nat /\ x3[k] \in ThrottleEntry /\ CallerFits(k)
  BY DEF ThrottleInv, Throttled, ThrottleEntry
<1>2. CASE k \in Throttle!Swept
  <2>1. Throttle!Found(k) = x3[k]
    BY <1>2 DEF Throttle!Found
  <2>2. Throttle!InMap(k)
    BY <1>2, SweepKeeps
  <2> QED BY <1>1, <1>2, <2>1, <2>2 DEF CallerFits
<1>3. CASE k \notin Throttle!Swept
  <2>1. Throttle!Found(k) = [Throttle!Blank EXCEPT !.lastAt = x1]
    BY <1>3 DEF Throttle!Found
  <2>2. Throttle!Found(k) = [strikes |-> 0, lockedUntil |-> 0, lastAt |-> x1]
    BY <2>1 DEF Throttle!Blank
  <2> QED BY <1>1, <1>3, <2>2 DEF ThrottleEntry
<1> QED BY <1>2, <1>3

\* What becomes of an entry: a lock that runs is left as it is; otherwise a strike is counted,
\* which past the free ones earns a lock.
LEMMA Charges ==
    ASSUME x1 \in Nat, NEW e \in ThrottleEntry, e.lastAt <= x1
    PROVE  LET c == Throttle!Charged(e)
               n == Throttle!Strikes(e)
           IN  /\ c \in ThrottleEntry /\ c.lastAt = x1 /\ n \in Nat \ {0}
               /\ n = IF x1 - e.lastAt > Decay THEN 1 ELSE e.strikes + 1
               /\ e.lockedUntil > x1 => c.strikes = e.strikes /\ c.lockedUntil = e.lockedUntil
               /\ e.lockedUntil <= x1 =>
                     /\ c.strikes = n
                     /\ n > FreeAttempts => c.lockedUntil = x1 + Throttle!LockOf(n) /\ Throttle!LockOf(n) \in Nat
                     /\ n <= FreeAttempts => c.lockedUntil = e.lockedUntil
               /\ Throttle!Passes(e) <=> e.lockedUntil <= x1 /\ n <= FreeAttempts
<1> USE ThrottleAssumption
<1> DEFINE n == Throttle!Strikes(e)
<1>1. n \in Nat \ {0} /\ n = IF x1 - e.lastAt > Decay THEN 1 ELSE e.strikes + 1
  BY DEF Throttle!Strikes, ThrottleEntry
<1> HIDE DEF n
<1>2. n > FreeAttempts => Throttle!LockOf(n) \in Nat
  BY <1>1, LocksDouble
<1>3. CASE e.lockedUntil > x1
  <2>1. Throttle!Charged(e) = [e EXCEPT !.lastAt = x1]
    BY <1>3 DEF Throttle!Charged
  <2> QED BY <1>1, <1>3, <2>1 DEF ThrottleEntry, Throttle!Passes, n
<1>4. CASE ~(e.lockedUntil > x1)
  <2>1. Throttle!Charged(e) = [strikes |-> n, lastAt |-> x1,
           lockedUntil |-> IF n > FreeAttempts THEN x1 + Throttle!LockOf(n) ELSE e.lockedUntil]
    BY <1>4 DEF Throttle!Charged, n
  <2> QED BY <1>1, <1>2, <1>4, <2>1 DEF ThrottleEntry, Throttle!Passes, n
<1> QED BY <1>3, <1>4

\* An attempt, caller by caller: whoever is kept stays as it was, whoever is swept is forgotten,
\* and the one that asks is charged.
LEMMA Attempted ==
    ASSUME ThrottleInv, NEW k \in Knockers, Throttle!Attempt(k)
    PROVE  LET e == Throttle!Found(k)
               c == Throttle!Charged(e) IN
           /\ x1' = x1 /\ x2' \subseteq Knockers \X Knockers
           /\ x3' \in [Knockers -> ThrottleEntry] /\ x4' \in [Knockers -> Nat] /\ x5' \in [Knockers -> ThrottleLock]
           /\ \A j \in Knockers : Throttle!InMap(j)' <=> j = k \/ j \in Throttle!Swept
           /\ \A j \in Knockers : j # k =>
                 /\ x3'[j] = IF j \in Throttle!Swept THEN x3[j] ELSE Throttle!Blank
                 /\ x5'[j] = IF j \in Throttle!Swept THEN x5[j] ELSE Throttle!NoLock
           /\ x3'[k] = c /\ x5'[k].asked = x1
           /\ x5'[k].times = IF k \in Throttle!Swept THEN x5[k].times + 1 ELSE 1
           /\ x5'[k].length = IF e.lockedUntil <= x1 /\ ~Throttle!Passes(e) THEN c.lockedUntil - x1
                              ELSE IF k \notin Throttle!Swept \/ x1 - x5[k].asked > Decay THEN 0
                              ELSE x5[k].length
<1> USE ThrottleAssumption
<1> DEFINE e == Throttle!Found(k)
           c == Throttle!Charged(e)
           kept == Throttle!Swept
           length == IF e.lockedUntil <= x1 /\ ~Throttle!Passes(e) THEN c.lockedUntil - x1
                     ELSE IF k \notin kept \/ x1 - x5[k].asked > Decay THEN 0 ELSE x5[k].length
           times == IF k \in kept THEN x5[k].times + 1 ELSE 1
<1>1. /\ x1' = x1
      /\ x2' = (x2 \cap (kept \X kept)) \cup (IF k \in kept THEN {} ELSE (kept \cup {k}) \X {k})
      /\ x3' = [j \in Knockers |-> IF j = k THEN c ELSE IF j \in kept THEN x3[j] ELSE Throttle!Blank]
      /\ x5' = [j \in Knockers |-> IF j = k THEN [length |-> length, asked |-> x1, times |-> times]
                                   ELSE IF j \in kept THEN x5[j] ELSE Throttle!NoLock]
      /\ x4' = [x4 EXCEPT ![k] = IF Throttle!Passes(e) THEN @ + 1 ELSE @]
  BY DEF Throttle!Attempt
<1>2. /\ x1 \in Nat /\ x2 \subseteq Knockers \X Knockers /\ x3 \in [Knockers -> ThrottleEntry]
      /\ x4 \in [Knockers -> Nat] /\ x5 \in [Knockers -> ThrottleLock]
  BY DEF ThrottleInv, Throttled, ThrottleEntry, ThrottleLock
<1>3. kept \subseteq Knockers /\ \A j \in kept : <<j, j>> \in x2
  <2>1. \A j \in kept : j \in Knockers
    BY DEF Throttle!Swept, Throttle!Shed, Throttle!Tracked
  <2>2. \A j \in Knockers : j \in kept => <<j, j>> \in x2
    BY SweepKeeps DEF Throttle!InMap
  <2> QED BY <2>1, <2>2
<1>4. e \in ThrottleEntry /\ e.lastAt <= x1
  BY CallerFound
<1>5. /\ c \in ThrottleEntry
      /\ e.lockedUntil <= x1 /\ ~Throttle!Passes(e) => c.lockedUntil - x1 \in Nat
  <2> DEFINE n == Throttle!Strikes(e)
  <2>1. /\ c \in ThrottleEntry /\ n \in Nat
        /\ e.lockedUntil <= x1 /\ n > FreeAttempts => c.lockedUntil = x1 + Throttle!LockOf(n) /\ Throttle!LockOf(n) \in Nat
        /\ Throttle!Passes(e) <=> e.lockedUntil <= x1 /\ n <= FreeAttempts
    BY <1>2, <1>4, Charges
  <2> HIDE DEF e, c, n
  <2> QED BY <2>1, <1>2
<1> HIDE DEF e, c, kept
<1>6. x5[k] \in ThrottleLock
  BY <1>2
<1>7. length \in Nat /\ times \in Nat
  BY <1>5, <1>6 DEF ThrottleLock
<1>8. Throttle!Blank \in ThrottleEntry /\ Throttle!NoLock \in ThrottleLock
  BY DEF Throttle!Blank, Throttle!NoLock, ThrottleEntry, ThrottleLock
<1>9. [length |-> length, asked |-> x1, times |-> times] \in ThrottleLock
  BY <1>2, <1>7 DEF ThrottleLock
<1>10. ASSUME NEW j \in Knockers PROVE <<j, j>> \in x2' <=> j = k \/ j \in kept
  BY <1>1, <1>3
<1> HIDE DEF length, times
<1>11. x3' \in [Knockers -> ThrottleEntry] /\ x5' \in [Knockers -> ThrottleLock]
  BY <1>1, <1>2, <1>5, <1>8, <1>9
<1>12. x4' \in [Knockers -> Nat]
  BY <1>1, <1>2
<1>13. x2' \subseteq Knockers \X Knockers
  BY <1>1, <1>2, <1>3
<1>14. /\ x3'[k] = c /\ x5'[k] = [length |-> length, asked |-> x1, times |-> times]
       /\ \A j \in Knockers : j # k => /\ x3'[j] = IF j \in kept THEN x3[j] ELSE Throttle!Blank
                                      /\ x5'[j] = IF j \in kept THEN x5[j] ELSE Throttle!NoLock
  BY <1>1
<1>15. x5'[k].length = length /\ x5'[k].asked = x1 /\ x5'[k].times = times
  BY <1>14
<1> QED BY <1>1, <1>10, <1>11, <1>12, <1>13, <1>14, <1>15 DEF e, c, kept, length, times, Throttle!InMap

\* An attempt keeps the invariant.
LEMMA ThrottleAttempt ==
    ASSUME ThrottleInv, NEW k \in Knockers, Throttle!Attempt(k)
    PROVE  ThrottleInv'
<1> USE ThrottleAssumption
<1> DEFINE e == Throttle!Found(k)
           c == Throttle!Charged(e)
           n == Throttle!Strikes(e)
           kept == Throttle!Swept
<1>1. Throttled'
  BY Attempted DEF ThrottleInv, Throttled, ThrottleEntry, ThrottleLock
<1>2. ASSUME NEW j \in Knockers, j # k PROVE CallerFits(j)'
  <2>1. CallerFits(j) /\ (j \in kept => Throttle!InMap(j))
    BY SweepKeeps DEF ThrottleInv
  <2>2. /\ x3'[j] = IF j \in kept THEN x3[j] ELSE Throttle!Blank
        /\ x5'[j] = IF j \in kept THEN x5[j] ELSE Throttle!NoLock
        /\ Throttle!InMap(j)' <=> j \in kept
        /\ x1' = x1
    BY <1>2, Attempted
  <2>3. CASE j \in kept
    <3>1. Throttle!LockOf(x3[j].strikes)' = Throttle!LockOf(x3[j].strikes)
      BY <2>2, <2>3 DEF Throttle!LockOf, Throttle!MinOf
    <3> QED BY <2>1, <2>2, <2>3, <3>1 DEF CallerFits
  <2>4. CASE j \notin kept
    <3>1. x5'[j].length = 0
      BY <2>2, <2>4 DEF Throttle!NoLock
    <3>2. Throttle!Blank' = Throttle!Blank /\ Throttle!NoLock' = Throttle!NoLock
      BY DEF Throttle!Blank, Throttle!NoLock
    <3> QED BY <2>2, <2>4, <3>1, <3>2 DEF CallerFits
  <2> QED BY <2>3, <2>4
<1>3. CallerFits(k)'
  <2>1. /\ x3'[k] = c /\ x5'[k].asked = x1 /\ x1' = x1 /\ Throttle!InMap(k)'
        /\ x5'[k].times = IF k \in kept THEN x5[k].times + 1 ELSE 1
        /\ x5'[k].length = IF e.lockedUntil <= x1 /\ ~Throttle!Passes(e) THEN c.lockedUntil - x1
                           ELSE IF k \notin kept \/ x1 - x5[k].asked > Decay THEN 0
                           ELSE x5[k].length
    BY Attempted
  <2>2. /\ e \in ThrottleEntry /\ e.lastAt <= x1
        /\ k \in kept => e = x3[k] /\ e.strikes > 0 /\ x5[k].asked = e.lastAt /\ x5[k].times > 0
        /\ k \notin kept => e.strikes = 0 /\ e.lockedUntil = 0 /\ e.lastAt = x1
    BY CallerFound
  <2>3. /\ x1 \in Nat /\ x5[k].times \in Nat /\ x5[k].length \in Nat /\ CallerFits(k)
    BY DEF ThrottleInv, Throttled
  <2>4. /\ c \in ThrottleEntry /\ c.lastAt = x1 /\ n \in Nat \ {0}
        /\ n = IF x1 - e.lastAt > Decay THEN 1 ELSE e.strikes + 1
        /\ e.lockedUntil > x1 => c.strikes = e.strikes /\ c.lockedUntil = e.lockedUntil
        /\ e.lockedUntil <= x1 =>
              /\ c.strikes = n
              /\ n > FreeAttempts => c.lockedUntil = x1 + Throttle!LockOf(n) /\ Throttle!LockOf(n) \in Nat
              /\ n <= FreeAttempts => c.lockedUntil = e.lockedUntil
        /\ Throttle!Passes(e) <=> e.lockedUntil <= x1 /\ n <= FreeAttempts
    BY <2>2, <2>3, Charges
  <2>5. k \in kept /\ x5[k].length > 0 => /\ e.strikes > FreeAttempts
                                          /\ x5[k].length = Throttle!LockOf(e.strikes)
    BY <2>2, <2>3 DEF CallerFits
  <2> HIDE DEF e, c, n, kept
  <2>6. x3'[k].strikes > 0 /\ x5'[k].times > 0 /\ x3'[k].lastAt = x5'[k].asked /\ x3'[k].lastAt <= x1'
    BY <2>1, <2>2, <2>3, <2>4 DEF ThrottleEntry
  <2>7. ASSUME x5'[k].length > 0
        PROVE  c.strikes > FreeAttempts /\ x5'[k].length = Throttle!LockOf(c.strikes)
    <3>1. CASE e.lockedUntil > x1
      <4>1. x5'[k].length = x5[k].length /\ k \in kept /\ c.strikes = e.strikes
        BY <3>1, <2>1, <2>2, <2>3, <2>4, <2>7 DEF ThrottleEntry
      <4> QED BY <4>1, <2>5, <2>7
    <3>2. CASE e.lockedUntil <= x1 /\ n > FreeAttempts
      BY <3>2, <2>1, <2>3, <2>4
    <3>3. CASE e.lockedUntil <= x1 /\ n <= FreeAttempts
      <4>1. x5'[k].length = x5[k].length /\ k \in kept /\ x1 - e.lastAt <= Decay
        BY <3>3, <2>1, <2>2, <2>3, <2>4, <2>7 DEF ThrottleEntry
      <4>2. n = e.strikes + 1
        BY <4>1, <2>2, <2>3, <2>4 DEF ThrottleEntry
      <4>3. e.strikes \in Nat
        BY <2>2 DEF ThrottleEntry
      <4> QED BY <3>3, <4>1, <4>2, <4>3, <2>5, <2>7
    <3>4. e.lockedUntil \in Nat
      BY <2>2 DEF ThrottleEntry
    <3> QED BY <3>1, <3>2, <3>3, <3>4, <2>3, <2>4
  <2>8. \A m : Throttle!LockOf(m)' = Throttle!LockOf(m)
    BY DEF Throttle!LockOf, Throttle!MinOf
  <2>9. x5'[k].length > 0 => x3'[k].strikes > FreeAttempts /\ x5'[k].length = Throttle!LockOf(x3'[k].strikes)
    BY <2>1, <2>7
  <2> QED BY <2>1, <2>6, <2>9 DEF CallerFits, Throttle!LockOf, Throttle!MinOf
<1> QED BY <1>1, <1>2, <1>3 DEF ThrottleInv

\* A step that leaves the caller, the Map and its history leaves what fits.
LEMMA CallerStays ==
    ASSUME NEW k \in Knockers, CallerFits(k), x1 \in Nat, x1' \in Nat, x1 <= x1',
           Throttled, Throttle!InMap(k)' <=> Throttle!InMap(k), x3'[k] = x3[k], x5'[k] = x5[k]
    PROVE  CallerFits(k)'
<1>1. Throttle!LockOf(x3[k].strikes)' = Throttle!LockOf(x3'[k].strikes)
  BY DEF Throttle!LockOf, Throttle!MinOf
<1>2. Throttle!Blank' = Throttle!Blank /\ Throttle!NoLock' = Throttle!NoLock
  BY DEF Throttle!Blank, Throttle!NoLock
<1>3. x3[k].lastAt \in Nat
  BY DEF Throttled
<1>4. (x3[k].lastAt <= x1) => (x3'[k].lastAt <= x1')
  BY <1>3
<1>5. Throttle!LockOf(x3'[k].strikes) = Throttle!LockOf(x3[k].strikes)
  OBVIOUS
<1> QED BY <1>1, <1>2, <1>4, <1>5 DEF CallerFits

\* A request at the route that leaves it: it was let through before.
LEMMA Leaves ==
    ASSUME Throttled, NEW k \in Knockers, Throttle!Leave(k)
    PROVE  x4' \in [Knockers -> Nat] /\ x4'[k] < x4[k]
<1>1. x4 \in [Knockers -> Nat] /\ x4[k] > 0 /\ x4' = [x4 EXCEPT ![k] = @ - 1]
  BY DEF Throttled, Throttle!Leave
<1> QED BY <1>1

\* forgive, caller by caller.
LEMMA Forgiven ==
    ASSUME ThrottleInv, NEW k \in Knockers, Throttle!Forgive(k)
    PROVE  /\ x1' = x1 /\ x2' \subseteq Knockers \X Knockers
           /\ x3' \in [Knockers -> ThrottleEntry] /\ x5' \in [Knockers -> ThrottleLock]
           /\ ~Throttle!InMap(k)' /\ x3'[k] = Throttle!Blank /\ x5'[k] = Throttle!NoLock
           /\ \A j \in Knockers : j # k =>
                 (Throttle!InMap(j)' <=> Throttle!InMap(j)) /\ x3'[j] = x3[j] /\ x5'[j] = x5[j]
<1>1. /\ x1' = x1 /\ x2' = {p \in x2 : p[1] # k /\ p[2] # k} /\ x3' = [x3 EXCEPT ![k] = Throttle!Blank]
      /\ x5' = [x5 EXCEPT ![k] = Throttle!NoLock]
  BY DEF Throttle!Forgive
<1>2. /\ x2 \subseteq Knockers \X Knockers /\ x3 \in [Knockers -> ThrottleEntry] /\ x5 \in [Knockers -> ThrottleLock]
  BY DEF ThrottleInv, Throttled, ThrottleEntry, ThrottleLock
<1>3. Throttle!Blank \in ThrottleEntry /\ Throttle!NoLock \in ThrottleLock
  BY DEF Throttle!Blank, Throttle!NoLock, ThrottleEntry, ThrottleLock
<1>4. \A j \in Knockers : <<j, j>> \in x2' <=> j # k /\ <<j, j>> \in x2
  BY <1>1
<1>5. x3' \in [Knockers -> ThrottleEntry] /\ x5' \in [Knockers -> ThrottleLock]
  BY <1>1, <1>2, <1>3
<1>6. x2' \subseteq Knockers \X Knockers
  BY <1>1, <1>2
<1> QED BY <1>1, <1>2, <1>4, <1>5, <1>6 DEF Throttle!InMap

\* A sign-in with the right credential leaves the caller blank, and nobody else touched.
LEMMA ThrottleForgive ==
    ASSUME ThrottleInv, NEW k \in Knockers, Throttle!Forgive(k)
    PROVE  ThrottleInv'
<1>1. x4' \in [Knockers -> Nat]
  BY Leaves DEF ThrottleInv, Throttle!Forgive
<1>2. Throttled'
  BY <1>1, Forgiven DEF ThrottleInv, Throttled, ThrottleEntry, ThrottleLock
<1>3. ASSUME NEW j \in Knockers, j # k PROVE CallerFits(j)'
  <2>1. x1 \in Nat /\ x1' = x1
    BY Forgiven DEF ThrottleInv, Throttled
  <2> QED BY <1>3, <2>1, Forgiven, CallerStays DEF ThrottleInv
<1>4. CallerFits(k)'
  <2>1. ~Throttle!InMap(k)' /\ x3'[k] = Throttle!Blank /\ x5'[k] = Throttle!NoLock
    BY Forgiven
  <2>2. x5'[k].length = 0
    BY <2>1 DEF Throttle!NoLock
  <2>3. Throttle!Blank' = Throttle!Blank /\ Throttle!NoLock' = Throttle!NoLock
    BY DEF Throttle!Blank, Throttle!NoLock
  <2> QED BY <2>1, <2>2, <2>3 DEF CallerFits
<1> QED BY <1>2, <1>3, <1>4 DEF ThrottleInv

\* Every step of AuthThrottle keeps the invariant.
LEMMA ThrottleStep == ASSUME ThrottleInv, [Throttle!Next]_(Throttle!vars) PROVE ThrottleInv'
<1>1. ASSUME UNCHANGED <<x2, x3, x5>>, x1' \in Nat, x1 <= x1', x4' \in [Knockers -> Nat] PROVE ThrottleInv'
  <2>1. Throttled'
    BY <1>1 DEF ThrottleInv, Throttled
  <2>2. ASSUME NEW j \in Knockers PROVE CallerFits(j)'
    <3>1. Throttle!InMap(j)' <=> Throttle!InMap(j)
      BY <1>1 DEF Throttle!InMap
    <3> QED BY <1>1, <3>1, CallerStays DEF ThrottleInv, Throttled
  <2> QED BY <2>1, <2>2 DEF ThrottleInv
<1>2. x1 \in Nat /\ x4 \in [Knockers -> Nat]
  BY DEF ThrottleInv, Throttled
<1>3. CASE UNCHANGED Throttle!vars
  BY <1>1, <1>2, <1>3 DEF Throttle!vars
<1>4. CASE Throttle!Tick
  BY <1>1, <1>2, <1>4 DEF Throttle!Tick
<1>5. ASSUME NEW k \in Knockers, Throttle!Attempt(k) PROVE ThrottleInv'
  BY <1>5, ThrottleAttempt
<1>6. ASSUME NEW k \in Knockers, Throttle!Forgive(k) PROVE ThrottleInv'
  BY <1>6, ThrottleForgive
<1>7. ASSUME NEW k \in Knockers, Throttle!Fail(k) PROVE ThrottleInv'
  <2>1. UNCHANGED <<x1, x2, x3, x5>> /\ Throttle!Leave(k)
    BY <1>7 DEF Throttle!Fail
  <2>2. x4' \in [Knockers -> Nat]
    BY <2>1, Leaves DEF ThrottleInv
  <2> QED BY <1>1, <1>2, <2>1, <2>2
<1> QED BY <1>3, <1>4, <1>5, <1>6, <1>7 DEF Throttle!Next

\* The backoff holds: what a step does to a lock that was earned.
LEMMA BackoffStep ==
    ASSUME ThrottleInv, [Throttle!Next]_(Throttle!vars)
    PROVE  Throttle!BackoffHoldsStep
<1> USE ThrottleAssumption
<1>1. ASSUME NEW k \in Knockers
      PROVE  /\ x3[k] \in ThrottleEntry /\ x5[k] \in ThrottleLock /\ CallerFits(k) /\ x1 \in Nat
             /\ Throttle!Blank.strikes = 0 /\ Throttle!Blank.lockedUntil = 0 /\ Throttle!NoLock.times = 0
  BY DEF ThrottleInv, Throttled, ThrottleEntry, ThrottleLock, Throttle!Blank, Throttle!NoLock
<1>2. ASSUME NEW k \in Knockers,
             x5[k].length > 0, x3[k].lockedUntil <= x1, x1 - x5[k].asked <= Decay, x5'[k].times = x5[k].times + 1
      PROVE  x3'[k].lockedUntil = x1 + Throttle!MinOf(2 * x5[k].length, MaxLock)
  <2>1. /\ x3[k].strikes > FreeAttempts /\ x5[k].length = Throttle!LockOf(x3[k].strikes)
        /\ Throttle!InMap(k) /\ x5[k].times > 0 /\ x3[k].lastAt = x5[k].asked /\ x3[k].lastAt <= x1
        /\ x3[k].strikes \in Nat /\ x5[k].times \in Nat /\ x3[k].lastAt \in Nat
    <3>1. x5[k] # Throttle!NoLock
      BY <1>2 DEF Throttle!NoLock
    <3> QED BY <1>1, <1>2, <3>1 DEF CallerFits, ThrottleEntry, ThrottleLock
  <2>2. PICK j \in Knockers : Throttle!Attempt(j) /\ j = k
    <3>1. ~(x5'[k] = x5[k])
      BY <1>2, <2>1
    <3>2. x5'[k] # Throttle!NoLock
      BY <1>1, <1>2, <2>1
    <3>3. ~(UNCHANGED Throttle!vars) /\ ~Throttle!Tick /\ \A i \in Knockers : ~Throttle!Fail(i)
      BY <3>1 DEF Throttle!vars, Throttle!Tick, Throttle!Fail
    <3>4. \A i \in Knockers : ~Throttle!Forgive(i)
      BY <3>1, <3>2, Forgiven
    <3>5. PICK i \in Knockers : Throttle!Attempt(i)
      BY <3>3, <3>4 DEF Throttle!Next
    <3>6. i = k
      BY <3>1, <3>2, <3>5, Attempted
    <3> QED BY <3>5, <3>6
  <2> DEFINE e == Throttle!Found(k)
             c == Throttle!Charged(e)
             n == Throttle!Strikes(e)
  <2>3. k \in Throttle!Swept /\ x3'[k] = c
    <3>1. /\ x3'[k] = c /\ x5'[k].times = IF k \in Throttle!Swept THEN x5[k].times + 1 ELSE 1
      BY <2>2, Attempted
    <3> QED BY <3>1, <1>2, <2>1
  <2>4. e = x3[k]
    BY <2>3, CallerFound
  <2>5. n = x3[k].strikes + 1 /\ c.lockedUntil = x1 + Throttle!LockOf(n)
    <3>1. /\ n = IF x1 - e.lastAt > Decay THEN 1 ELSE e.strikes + 1
          /\ e.lockedUntil <= x1 /\ n > FreeAttempts => c.lockedUntil = x1 + Throttle!LockOf(n)
      BY <1>1, <2>1, <2>4, Charges
    <3> HIDE DEF c, n, e
    <3> QED BY <3>1, <2>1, <2>4, <1>1, <1>2
  <2> HIDE DEF c, n, e
  <2>6. Throttle!LockOf(n) = Throttle!MinOf(2 * x5[k].length, MaxLock)
    BY <2>1, <2>5, LocksDouble
  <2> QED BY <2>3, <2>5, <2>6
<1>3. ASSUME NEW k \in Knockers, x3[k].lockedUntil > x1
      PROVE  \/ x3'[k].lockedUntil = x3[k].lockedUntil
             \/ Throttle!Cardinality(Throttle!Tracked) > MaxTracked
             \/ x4'[k] < x4[k]
  <2>1. Throttle!InMap(k)
    BY <1>1, <1>3 DEF CallerFits
  <2>2. ~Throttle!Decayed(k)
    BY <1>1, <1>3 DEF Throttle!Decayed, ThrottleEntry
  <2>3. SUFFICES ASSUME ~(Throttle!Cardinality(Throttle!Tracked) > MaxTracked)
                 PROVE  x3'[k].lockedUntil = x3[k].lockedUntil \/ x4'[k] < x4[k]
    OBVIOUS
  <2>4. Throttle!Cardinality(Throttle!Tracked) <= MaxTracked
    <3>1. Throttle!Cardinality(Throttle!Tracked) = Cardinality(Throttle!Tracked) /\ Cardinality(Throttle!Tracked) \in Nat
      <4>1. Throttle!Tracked \subseteq Knockers
        BY DEF Throttle!Tracked
      <4> QED BY <4>1, ThrottleCount, FS_Subset, FS_CardinalityType
    <3> QED BY <2>3, <3>1
  <2>5. k \in Throttle!Swept
    BY <2>1, <2>2, <2>4, SweepKeeps
  <2>6. ASSUME NEW j \in Knockers, Throttle!Attempt(j) PROVE x3'[k].lockedUntil = x3[k].lockedUntil
    <3>1. CASE j = k
      <4>1. x3'[k] = Throttle!Charged(x3[k]) /\ x3[k].lastAt <= x1
        BY <2>5, <2>6, <3>1, Attempted, CallerFound
      <4> QED BY <4>1, <1>1, <1>3, Charges
    <3>2. CASE j # k
      BY <2>5, <2>6, <3>2, Attempted
    <3> QED BY <3>1, <3>2
  <2>7. ASSUME NEW j \in Knockers, Throttle!Forgive(j)
        PROVE  x3'[k].lockedUntil = x3[k].lockedUntil \/ x4'[k] < x4[k]
    <3>1. CASE j = k
      BY <2>7, <3>1, Leaves DEF Throttle!Forgive, ThrottleInv
    <3>2. CASE j # k
      BY <2>7, <3>2, Forgiven
    <3> QED BY <3>1, <3>2
  <2>8. CASE UNCHANGED x3
    BY <2>8
  <2> QED BY <2>6, <2>7, <2>8 DEF Throttle!Next, Throttle!Tick, Throttle!Fail, Throttle!vars
<1>4. ASSUME NEW k \in Knockers, Throttle!InMap(k), Throttle!Cardinality(Throttle!Tracked) <= MaxTracked, x1' = x1,
             Throttle!Cardinality(Throttle!Tracked)' >= Throttle!Cardinality(Throttle!Tracked), x3'[k] = Throttle!Blank
      PROVE  x1 - x3[k].lastAt > Decay
  <2>1. x3[k].strikes > 0 /\ x3[k] # Throttle!Blank
    BY <1>1, <1>4 DEF CallerFits
  <2>2. PICK j \in Knockers : Throttle!Attempt(j) \/ Throttle!Forgive(j)
    BY <1>4, <2>1 DEF Throttle!Next, Throttle!vars, Throttle!Tick, Throttle!Fail
  <2>3. CASE Throttle!Attempt(j)
    <3>1. CASE j = k
      <4> DEFINE e == Throttle!Found(k)
                 c == Throttle!Charged(e)
      <4>1. x3'[k] = c /\ e \in ThrottleEntry /\ e.lastAt <= x1
            /\ (k \in Throttle!Swept => e.strikes > 0)
            /\ (k \notin Throttle!Swept => e.lockedUntil = 0)
        BY <2>3, <3>1, Attempted, CallerFound
      <4>2. c.strikes > 0
        <5>1. /\ e.lockedUntil > x1 => c.strikes = e.strikes
              /\ e.lockedUntil <= x1 => c.strikes = Throttle!Strikes(e)
              /\ Throttle!Strikes(e) \in Nat \ {0}
          BY <1>1, <4>1, Charges
        <5> HIDE DEF c, e
        <5> QED BY <5>1, <4>1, <1>1 DEF ThrottleEntry
      <4> HIDE DEF c
      <4> QED BY <1>1, <1>4, <4>1, <4>2
    <3>2. CASE j # k
      <4>1. k \notin Throttle!Swept
        BY <1>4, <2>1, <2>3, <3>2, Attempted
      <4>2. Throttle!Decayed(k)
        BY <1>4, <4>1, SweepKeeps
      <4> QED BY <4>2 DEF Throttle!Decayed
    <3> QED BY <3>1, <3>2
  <2>4. CASE Throttle!Forgive(j)
    <3>1. CASE j # k
      BY <1>4, <2>1, <2>4, <3>1, Forgiven
    <3>2. CASE j = k
      <4> DEFINE T == Throttle!Tracked
      <4>1. T' = T \ {k} /\ k \in T /\ T \subseteq Knockers
        BY <1>4, <2>4, <3>2, Forgiven DEF Throttle!Tracked
      <4>2. Throttle!Cardinality(T) = Cardinality(T) /\ Throttle!Cardinality(T)' = Cardinality(T')
        BY ThrottleCount DEF Throttle!Cardinality, Cardinality
      <4> HIDE DEF T
      <4>3. IsFiniteSet(T) /\ Cardinality(T) \in Nat
        BY <4>1, FS_Subset, FS_CardinalityType
      <4>4. Cardinality(T') = Cardinality(T) - 1
        BY <4>1, <4>3, FS_RemoveElement
      <4>5. Throttle!Cardinality(T)' >= Throttle!Cardinality(T)
        BY <1>4 DEF T
      <4> QED BY <4>2, <4>3, <4>4, <4>5
    <3> QED BY <3>1, <3>2
  <2> QED BY <2>2, <2>3, <2>4
<1>5. Throttle!LocksEscalateStep
  BY <1>2 DEF Throttle!LocksEscalateStep
<1>6. Throttle!LocksLastStep
  BY <1>3 DEF Throttle!LocksLastStep
<1>7. Throttle!SweepIsInvisibleStep
  BY <1>4 DEF Throttle!SweepIsInvisibleStep
<1> QED BY <1>5, <1>6, <1>7 DEF Throttle!BackoffHoldsStep

\* The count of UpstreamCache is that one, too.
LEMMA CacheCount == ASSUME NEW S PROVE Cache!Cardinality(S) = Cardinality(S)
  BY Zenon DEF Cache!Cardinality, Cardinality

\* The bytes of entries, one by one.
Load(c) == UNION {{e} \X (1..e.bytes) : e \in c}

\* The weight of entries is the number of their bytes.
LEMMA WeightIs == ASSUME NEW c PROVE Cache!Weight(c) = Cardinality(Load(c))
  BY CacheCount, Zenon DEF Cache!Weight, Load

\* What some of the entries weigh, and the rest.
LEMMA WeightOfSome ==
    ASSUME NEW c, IsFiniteSet(Load(c)), NEW d, d \subseteq c
    PROVE  /\ IsFiniteSet(Load(d)) /\ Cardinality(Load(d)) \in Nat
           /\ IsFiniteSet(Load(c \ d)) /\ Cardinality(Load(c \ d)) \in Nat /\ Cardinality(Load(c)) \in Nat
           /\ Cardinality(Load(c)) = Cardinality(Load(d)) + Cardinality(Load(c \ d))
<1> DEFINE A == Load(d)
           B == Load(c \ d)
<1>1. Load(c) = A \cup B
  BY DEF Load
<1>2. A \cap B = {}
  <2>1. ASSUME NEW r, r \in A, r \in B PROVE FALSE
    <3>1. PICK e \in d : r \in {e} \X (1..e.bytes)
      BY <2>1 DEF Load
    <3>2. PICK f \in c \ d : r \in {f} \X (1..f.bytes)
      BY <2>1 DEF Load
    <3> QED BY <3>1, <3>2
  <2> HIDE DEF A, B
  <2> QED BY <2>1
<1>3. A \subseteq Load(c) /\ B \subseteq Load(c)
  BY <1>1
<1> HIDE DEF A, B
<1>4. IsFiniteSet(A) /\ IsFiniteSet(B)
  BY <1>3, FS_Subset
<1>5. Cardinality(A) \in Nat /\ Cardinality(B) \in Nat /\ Cardinality(Load(c)) \in Nat
  BY <1>4, FS_CardinalityType
<1>6. Cardinality(A \cup B) = Cardinality(A) + Cardinality(B) - Cardinality(A \cap B)
  BY <1>4, FS_Union
<1>7. Cardinality(A \cap B) = 0
  BY <1>2, FS_EmptySet, Zenon
<1>8. Cardinality(Load(c)) = Cardinality(A) + Cardinality(B)
  BY <1>1, <1>5, <1>6, <1>7
<1> QED BY <1>4, <1>5, <1>8 DEF A, B

\* What one more entry weighs.
LEMMA OneMoreEntry ==
    ASSUME NEW c, IsFiniteSet(Load(c)), NEW e, e \notin c, e.bytes \in Nat
    PROVE  /\ IsFiniteSet(Load(c \cup {e})) /\ Cardinality(Load(c)) \in Nat
           /\ Cardinality(Load(c \cup {e})) = Cardinality(Load(c)) + e.bytes
<1> DEFINE A == {e} \X (1..e.bytes)
           S == 1..e.bytes
<1>1. IsFiniteSet(S) /\ Cardinality(S) = e.bytes
  <2>1. \A n \in Nat : IsFiniteSet(1..n) /\ Cardinality(1..n) = n
    BY FirstNumbers
  <2> QED BY <2>1, Zenon
<1>2. IsFiniteSet(A) /\ Cardinality(A) = e.bytes
  <2> HIDE DEF S
  <2>1. IsFiniteSet({e}) /\ Cardinality({e}) = 1
    BY FS_Singleton
  <2>2. IsFiniteSet({e} \X S) /\ Cardinality({e} \X S) = Cardinality({e}) * Cardinality(S)
    BY ONLY <2>1, <1>1, FS_Product, Zenon
  <2>3. Cardinality({e}) * Cardinality(S) = e.bytes
    BY <2>1, <1>1
  <2> QED BY <2>2, <2>3, Zenon DEF S
<1>3. Load(c \cup {e}) = A \cup Load(c)
  <2>1. ASSUME NEW r \in Load(c \cup {e}) PROVE r \in A \cup Load(c)
    <3>1. PICK f \in c \cup {e} : r \in {f} \X (1..f.bytes)
      BY DEF Load
    <3>2. CASE f \in c
      BY <3>1, <3>2 DEF Load
    <3>3. CASE f = e
      BY <3>1, <3>3, Zenon
    <3> QED BY <3>2, <3>3
  <2>2. ASSUME NEW r \in A PROVE r \in Load(c \cup {e})
    BY <2>2, Zenon DEF Load
  <2>3. ASSUME NEW r \in Load(c) PROVE r \in Load(c \cup {e})
    BY DEF Load
  <2> HIDE DEF A
  <2> QED BY <2>1, <2>2, <2>3
<1>4. \A r \in A : r \notin Load(c)
  BY DEF Load
<1> HIDE DEF A
<1>5. IsFiniteSet(A \cup Load(c)) /\ Cardinality(Load(c)) \in Nat
      /\ Cardinality(A \cup Load(c)) = Cardinality(A) + Cardinality(Load(c)) - Cardinality(A \cap Load(c))
  BY <1>2, FS_Union, FS_CardinalityType
<1>6. A \cap Load(c) = {}
  BY <1>4
<1>7. Cardinality(A \cap Load(c)) = 0
  BY <1>6, FS_EmptySet, Zenon
<1>8. Cardinality(A \cup Load(c)) = Cardinality(Load(c)) + e.bytes
  BY <1>2, <1>5, <1>7
<1> QED BY <1>3, <1>5, <1>8, Zenon

\* Of numbers there is a least one.
LEMMA LeastNumber ==
    ASSUME NEW S \in SUBSET Nat, S # {}
    PROVE  \E n \in S : \A m \in S : n <= m
<1> DEFINE R == StrictSubsetOrdering(Nat)
           T == {1..n : n \in S}
<1>1. \A n \in Nat : 1..n \in FiniteSubsetsOf(Nat)
  <2>1. \A n \in Nat : IsFiniteSet(1..n)
    BY FirstNumbers
  <2> QED BY <2>1 DEF FiniteSubsetsOf
<1>2. T \subseteq FiniteSubsetsOf(Nat) /\ T # {}
  BY <1>1
<1>3. IsWellFoundedOn(R, FiniteSubsetsOf(Nat))
  BY FS_StrictSubsetOrderingWellFounded
<1>4. \E x \in T : \A y \in T : ~(<<y, x>> \in R)
  <2> HIDE DEF T, R
  <2> QED BY <1>2, <1>3, WFMin
<1>5. PICK n \in S : \A m \in S : ~(<<1..m, 1..n>> \in R)
  BY <1>4
<1>6. ASSUME NEW m \in S PROVE n <= m
  <2>1. SUFFICES ASSUME m < n PROVE FALSE
    OBVIOUS
  <2>2. 1..m \subseteq 1..n /\ 1..m # 1..n
    <3>1. n \in 1..n /\ n \notin 1..m
      BY <2>1
    <3> QED BY <2>1, <3>1
  <2>3. 1..m \in SUBSET Nat /\ 1..n \in SUBSET Nat
    OBVIOUS
  <2>4. <<1..m, 1..n>> \in R
    <3> DEFINE A == 1..m
               B == 1..n
    <3> HIDE DEF A, B
    <3>1. A \subseteq B /\ A # B /\ A \in SUBSET Nat /\ B \in SUBSET Nat
      BY <2>2, <2>3 DEF A, B
    <3>2. <<A, B>> \in R
      BY <3>1 DEF StrictSubsetOrdering
    <3> QED BY <3>2 DEF A, B
  <2> QED BY <2>4, <1>5
<1> QED BY <1>5, <1>6

\* What is held has a place that is not the last there can
\* be, and weighs what the running total says but for what was set over entries.
HeldFits ==
    /\ x2 \subseteq Cache!Entry /\ IsFiniteSet(Load(x2))
    /\ \E n \in Nat : \A e \in x2 : e.at <= n
    /\ Cardinality(Load(x2)) <= MaxHeld /\ x3 = Cardinality(Load(x2)) + x7
\* A fetch is shared: it is in flight once, and who waits waits for one in flight.
FetchesFit ==
    /\ x4 \subseteq Sources /\ x6 \in [Sources -> Nat]
    /\ \A k \in Sources : x6[k] <= 1 /\ (x6[k] = 1 <=> k \in x4)
    /\ x5 \in [Askers -> Sources \cup {NoOne}] /\ \A r \in Askers : x5[r] # NoOne => x5[r] \in x4
\* The inductive invariant of UpstreamCache.
CacheInv == x1 \in Nat /\ x7 \in Nat /\ HeldFits /\ FetchesFit

\* Nothing is held at the start.
LEMMA CacheInit == ASSUME Cache!Init PROVE CacheInv
<1> USE CacheAssumption
<1>1. x2 = {} /\ x3 = 0 /\ x7 = 0 /\ x1 = 0
  BY DEF Cache!Init
<1>2. Load({}) = {}
  BY DEF Load
<1>3. IsFiniteSet(Load(x2)) /\ Cardinality(Load(x2)) = 0
  BY <1>1, <1>2, FS_EmptySet
<1>4. HeldFits
  BY <1>1, <1>3 DEF HeldFits
<1>5. FetchesFit
  BY DEF FetchesFit, Cache!Init
<1> QED BY <1>1, <1>4, <1>5 DEF CacheInv

\* A new entry has a place of its own.
LEMMA PlaceIsThere ==
    ASSUME CacheInv, NEW k \in Sources
    PROVE  Cache!Place(k) \in Nat
<1>1. CASE Cache!At(k) # {}
  <2>1. (CHOOSE e \in Cache!At(k) : TRUE) \in x2
    BY <1>1 DEF Cache!At
  <2> QED BY <1>1, <2>1 DEF Cache!Place, CacheInv, HeldFits, Cache!Entry
<1>2. CASE Cache!At(k) = {}
  <2> DEFINE Above == {n \in Nat : \A e \in x2 : e.at <= n}
             Next == {e.at + 1 : e \in x2} \cup {1}
  <2>1. \A e \in x2 : e.at \in Nat
    BY DEF CacheInv, HeldFits, Cache!Entry
  <2>2. Above # {} /\ Above \in SUBSET Nat
    BY DEF CacheInv, HeldFits
  <2>3. PICK n \in Above : \A m \in Above : n <= m
    BY <2>2, LeastNumber
  <2>4. n + 1 \in Next
    <3>1. CASE n = 0
      BY <3>1
    <3>2. CASE n # 0
      <4>1. n - 1 \in Nat /\ n - 1 \notin Above
        BY <2>3, <3>2
      <4>2. PICK e \in x2 : ~(e.at <= n - 1)
        BY <4>1
      <4>3. e.at = n
        BY <4>2, <2>1, <2>3
      <4> QED BY <4>3
    <3> QED BY <3>1, <3>2
  <2>5. \A e \in x2 : e.at < n + 1
    BY <2>1, <2>3
  <2>6. Next \subseteq Nat
    BY <2>1
  <2>7. Cache!Place(k) = CHOOSE m \in Next : \A e \in x2 : e.at < m
    BY <1>2 DEF Cache!Place
  <2> HIDE DEF Next
  <2>8. Cache!Place(k) \in Next
    BY <2>4, <2>5, <2>7
  <2> QED BY <2>6, <2>8
<1> QED BY <1>1, <1>2

\* Setting an entry puts it where the one of its key was.
LEMMA EntrySet ==
    ASSUME CacheInv, NEW k \in Sources
    PROVE  LET c == Cache!Set(k) IN
           /\ c \subseteq Cache!Entry /\ IsFiniteSet(Load(c)) /\ Cardinality(Load(c)) \in Nat
           /\ Cardinality(Load(Cache!At(k))) \in Nat /\ Cardinality(Load(x2)) \in Nat
           /\ Cardinality(Load(c)) + Cardinality(Load(Cache!At(k))) = Cardinality(Load(x2)) + Weights[k]
           /\ \E n \in Nat : \A e \in c : e.at <= n
<1> USE CacheAssumption
<1> DEFINE e == [key |-> k, until |-> x1 + Lifetimes[k], bytes |-> Weights[k], at |-> Cache!Place(k)]
           old == Cache!At(k)
           rest == x2 \ old
<1>1. Cache!Set(k) = rest \cup {e}
  BY DEF Cache!Set
<1>2. e \in Cache!Entry /\ e.key = k /\ e.bytes = Weights[k] /\ e.at = Cache!Place(k) /\ Weights[k] \in Nat
  BY PlaceIsThere DEF CacheInv, Cache!Entry
<1>3. old \subseteq x2 /\ \A d \in x2 : d.key = k => d \in old
  BY DEF Cache!At
<1> HIDE DEF e, old
<1>4. e \notin rest
  BY <1>2, <1>3
<1>5. /\ IsFiniteSet(Load(rest)) /\ Cardinality(Load(rest)) \in Nat /\ Cardinality(Load(old)) \in Nat
      /\ Cardinality(Load(x2)) \in Nat /\ Cardinality(Load(x2)) = Cardinality(Load(old)) + Cardinality(Load(rest))
  BY <1>3, WeightOfSome DEF CacheInv, HeldFits
<1>6. rest \subseteq x2
  OBVIOUS
<1> HIDE DEF rest
<1>7. /\ IsFiniteSet(Load(rest \cup {e}))
      /\ Cardinality(Load(rest \cup {e})) = Cardinality(Load(rest)) + Weights[k]
  BY <1>2, <1>4, <1>5, OneMoreEntry
<1>8. rest \cup {e} \subseteq Cache!Entry
  BY <1>2, <1>6 DEF CacheInv, HeldFits
<1>9. \E n \in Nat : \A d \in rest \cup {e} : d.at <= n
  <2>1. PICK n \in Nat : \A d \in x2 : d.at <= n
    BY DEF CacheInv, HeldFits
  <2>2. PICK m \in Nat : n <= m /\ e.at <= m
    <3>1. e.at \in Nat
      BY <1>2, PlaceIsThere
    <3>2. n + e.at \in Nat /\ n <= n + e.at /\ e.at <= n + e.at
      BY <3>1
    <3> QED BY <3>2
  <2>3. \A d \in x2 : d.at \in Nat
    BY DEF CacheInv, HeldFits, Cache!Entry
  <2>4. \A d \in rest \cup {e} : d.at <= m
    BY <2>1, <2>2, <2>3, <1>6
  <2> QED BY <2>4
<1>10. Cardinality(Load(rest \cup {e})) + Cardinality(Load(old)) = Cardinality(Load(x2)) + Weights[k]
       /\ Cardinality(Load(rest \cup {e})) \in Nat
  BY <1>2, <1>5, <1>7
<1> QED BY <1>1, <1>5, <1>7, <1>8, <1>9, <1>10 DEF old

\* What stays of entries that weigh no more than n fits: all that is older than the oldest of it
\* went, and without that n would fit.
LEMMA WhatStaysFits ==
    ASSUME CacheAssumption, NEW c, c \subseteq Cache!Entry, IsFiniteSet(Load(c)),
           NEW n \in Nat, Cardinality(Load(c)) <= n
    PROVE  /\ Cache!Shed(c, n) \subseteq c /\ Cardinality(Load(c \ Cache!Shed(c, n))) <= MaxHeld
           /\ Cardinality(Load(Cache!Shed(c, n))) \in Nat /\ IsFiniteSet(Load(c \ Cache!Shed(c, n)))
           /\ Cardinality(Load(c)) = Cardinality(Load(Cache!Shed(c, n))) + Cardinality(Load(c \ Cache!Shed(c, n)))
<1> DEFINE gone == Cache!Shed(c, n)
           stay == c \ gone
           Older(e) == {d \in c : d.at < e.at}
<1>1. gone \subseteq c /\ \A e \in c : e \in gone <=> n > MaxHeld + Cardinality(Load(Older(e)))
  <2>1. \A e \in c : Cache!Weight(Older(e)) = Cardinality(Load(Older(e)))
    BY WeightIs
  <2> QED BY <2>1 DEF Cache!Shed
<1>2. stay \subseteq c /\ gone = c \ stay
  BY <1>1
<1> HIDE DEF gone, stay, Older
<1>3. /\ IsFiniteSet(Load(stay)) /\ Cardinality(Load(stay)) \in Nat /\ Cardinality(Load(gone)) \in Nat
      /\ Cardinality(Load(c)) \in Nat /\ Cardinality(Load(c)) = Cardinality(Load(stay)) + Cardinality(Load(gone))
  BY <1>2, WeightOfSome
<1>4. Cardinality(Load(stay)) <= MaxHeld
  <2>1. CASE stay = {}
    <3>1. Load(stay) = {}
      BY <2>1 DEF Load
    <3> QED BY <3>1, FS_EmptySet
  <2>2. CASE stay # {}
    <3> DEFINE places == {e.at : e \in stay}
    <3>1. places # {} /\ places \in SUBSET Nat
      BY <2>2, <1>2 DEF Cache!Entry
    <3>2. PICK p \in places : \A q \in places : p <= q
      BY <3>1, LeastNumber
    <3>3. PICK e \in stay : p = e.at
      BY <3>2
    <3>4. \A d \in stay : e.at <= d.at /\ e.at \in Nat /\ d.at \in Nat
      BY <3>1, <3>2, <3>3
    <3>5. Older(e) \subseteq c /\ stay \subseteq c \ Older(e)
      BY <3>4, <1>2 DEF Older
    <3>6. /\ Cardinality(Load(Older(e))) \in Nat /\ IsFiniteSet(Load(c \ Older(e)))
          /\ Cardinality(Load(c \ Older(e))) \in Nat
          /\ Cardinality(Load(c)) = Cardinality(Load(Older(e))) + Cardinality(Load(c \ Older(e)))
      BY <3>5, WeightOfSome
    <3>7. Cardinality(Load(stay)) <= Cardinality(Load(c \ Older(e)))
      <4> DEFINE rest == c \ Older(e)
      <4> HIDE DEF rest
      <4>1. IsFiniteSet(Load(rest)) /\ stay \subseteq rest
        BY <3>5, <3>6 DEF rest
      <4>2. /\ Cardinality(Load(stay)) \in Nat /\ Cardinality(Load(rest \ stay)) \in Nat
            /\ Cardinality(Load(rest)) = Cardinality(Load(stay)) + Cardinality(Load(rest \ stay))
        BY <4>1, WeightOfSome
      <4>3. Cardinality(Load(stay)) <= Cardinality(Load(rest))
        BY <4>2
      <4> QED BY <4>3 DEF rest
    <3>8. ~(n > MaxHeld + Cardinality(Load(Older(e))))
      BY <3>3, <1>1, <1>2
    <3> QED BY <3>6, <3>7, <3>8, <1>3
  <2> QED BY <2>1, <2>2
<1>5. Cardinality(Load(c)) = Cardinality(Load(gone)) + Cardinality(Load(stay))
  BY <1>3
<1> QED BY <1>1, <1>3, <1>4, <1>5 DEF gone, stay

\* A promise that settles is let go of by everybody.
LEMMA FetchSettles ==
    ASSUME FetchesFit, NEW k \in Sources, k \in x4, Cache!Settle(k)
    PROVE  FetchesFit'
<1> USE CacheAssumption
<1>1. /\ x4' = x4 \ {k} /\ x6' = [x6 EXCEPT ![k] = 0]
      /\ x5' = [r \in Askers |-> IF x5[r] = k THEN NoOne ELSE x5[r]]
  BY DEF Cache!Settle
<1>2. x4' \subseteq Sources /\ x6' \in [Sources -> Nat] /\ x5' \in [Askers -> Sources \cup {NoOne}]
  BY <1>1 DEF FetchesFit
<1>3. \A j \in Sources : x6'[j] <= 1 /\ (x6'[j] = 1 <=> j \in x4')
  BY <1>1 DEF FetchesFit
<1>4. \A r \in Askers : x5'[r] # NoOne => x5'[r] \in x4'
  BY <1>1 DEF FetchesFit
<1> QED BY <1>2, <1>3, <1>4 DEF FetchesFit

\* An answer that is held: it weighs what it does, and what had expired or is older makes room.
LEMMA CacheAnswered ==
    ASSUME CacheInv, NEW k \in Sources, Cache!Answered(k)
    PROVE  CacheInv'
<1> USE CacheAssumption
<1> DEFINE c == Cache!Set(k)
           fresh == {e \in c : Cache!Live(e)}
           n == x3 + Weights[k]
           m == n - Cardinality(Load(c \ fresh))
           gone == Cache!Shed(fresh, m)
           drift == x7 + Cardinality(Load(Cache!At(k)))
<1>1. /\ k \in x4 /\ Cache!Settle(k) /\ x1' = x1
      /\ x2' = fresh \ gone /\ x3' = m - Cardinality(Load(gone)) /\ x7' = drift
  <2>1. /\ k \in x4 /\ Cache!Settle(k) /\ Cache!Evict(c, n) /\ x7' = x7 + Cache!Weight(Cache!At(k))
    BY DEF Cache!Answered
  <2>2. x1' = x1
    BY <2>1 DEF Cache!Settle
  <2>3. Cache!Weight(c \ fresh) = Cardinality(Load(c \ fresh)) /\ Cache!Weight(Cache!At(k)) = Cardinality(Load(Cache!At(k)))
    BY WeightIs
  <2>4. x2' = fresh \ gone /\ x3' = m - Cache!Weight(gone)
    BY <2>1, <2>3 DEF Cache!Evict
  <2> HIDE DEF gone, m
  <2>5. Cache!Weight(gone) = Cardinality(Load(gone))
    BY WeightIs
  <2> QED BY <2>1, <2>2, <2>3, <2>4, <2>5
<1>2. /\ c \subseteq Cache!Entry /\ IsFiniteSet(Load(c)) /\ Cardinality(Load(c)) \in Nat
      /\ Cardinality(Load(Cache!At(k))) \in Nat /\ Cardinality(Load(x2)) \in Nat
      /\ Cardinality(Load(c)) + Cardinality(Load(Cache!At(k))) = Cardinality(Load(x2)) + Weights[k]
      /\ \E b \in Nat : \A e \in c : e.at <= b
  BY EntrySet
<1>3. fresh \subseteq c
  OBVIOUS
<1> HIDE DEF c, fresh
<1>4. /\ IsFiniteSet(Load(fresh)) /\ Cardinality(Load(fresh)) \in Nat /\ Cardinality(Load(c \ fresh)) \in Nat
      /\ Cardinality(Load(c)) = Cardinality(Load(fresh)) + Cardinality(Load(c \ fresh))
  BY <1>2, <1>3, WeightOfSome
<1>5. m = Cardinality(Load(fresh)) + drift /\ drift \in Nat
  <2>1. x3 = Cardinality(Load(x2)) + x7 /\ x7 \in Nat /\ Weights[k] \in Nat
    BY DEF CacheInv, HeldFits
  <2> QED BY <2>1, <1>2, <1>4
<1> HIDE DEF m, drift
<1>6. m \in Nat /\ Cardinality(Load(fresh)) <= m /\ fresh \subseteq Cache!Entry
  BY <1>2, <1>3, <1>4, <1>5
<1>7. /\ gone \subseteq fresh /\ Cardinality(Load(fresh \ gone)) <= MaxHeld
      /\ Cardinality(Load(gone)) \in Nat /\ IsFiniteSet(Load(fresh \ gone))
      /\ Cardinality(Load(fresh)) = Cardinality(Load(gone)) + Cardinality(Load(fresh \ gone))
  BY <1>4, <1>6, WhatStaysFits
<1> HIDE DEF gone
<1>8. HeldFits'
  <2>1. x2' \subseteq c
    BY <1>1, <1>3
  <2>2. x2' \subseteq Cache!Entry' /\ Cache!Entry' = Cache!Entry
    BY <2>1, <1>2 DEF Cache!Entry
  <2>3. \E b \in Nat : \A e \in x2' : e.at <= b
    BY <2>1, <1>2
  <2>4. IsFiniteSet(Load(x2')) /\ Cardinality(Load(x2')) <= MaxHeld
    BY <1>1, <1>7
  <2>5. x3' = Cardinality(Load(x2')) + x7'
    <3>1. Cardinality(Load(x2')) = Cardinality(Load(fresh \ gone)) /\ Cardinality(Load(fresh \ gone)) \in Nat
      BY <1>1, <1>7, FS_CardinalityType
    <3>2. x3' = m - Cardinality(Load(gone)) /\ x7' = drift
      BY <1>1
    <3> QED BY <3>1, <3>2, <1>4, <1>5, <1>7
  <2>6. Load(x2)' = Load(x2')
    BY DEF Load
  <2> QED BY <2>2, <2>3, <2>4, <2>5, <2>6 DEF HeldFits
<1>9. FetchesFit'
  BY <1>1, FetchSettles DEF CacheInv
<1> QED BY <1>1, <1>5, <1>8, <1>9 DEF CacheInv

\* A request that is answered from memory, joins a fetch or starts one.
LEMMA CacheAsked ==
    ASSUME CacheInv, NEW r \in Askers, NEW k \in Sources, Cache!Ask(r, k)
    PROVE  CacheInv'
<1> USE CacheAssumption
<1>1. UNCHANGED <<x1, x2, x3, x7>>
  BY DEF Cache!Ask
<1>2. HeldFits' /\ x1' \in Nat /\ x7' \in Nat
  BY <1>1 DEF CacheInv, HeldFits, Cache!Entry, Load
<1>3. FetchesFit'
  <2>1. CASE UNCHANGED <<x4, x5, x6>>
    BY <2>1 DEF CacheInv, FetchesFit
  <2>2. CASE ~(UNCHANGED <<x4, x5, x6>>)
    <3>1. /\ x5' = [x5 EXCEPT ![r] = k] /\ x4' = x4 \cup {k}
          /\ x6' = IF k \in x4 THEN x6 ELSE [x6 EXCEPT ![k] = @ + 1]
      BY <2>2 DEF Cache!Ask, Cache!Joins
    <3>2. x4' \subseteq Sources /\ x5' \in [Askers -> Sources \cup {NoOne}]
          /\ \A q \in Askers : x5'[q] # NoOne => x5'[q] \in x4'
      BY <3>1 DEF CacheInv, FetchesFit
    <3>3. x6' \in [Sources -> Nat] /\ \A j \in Sources : x6'[j] <= 1 /\ (x6'[j] = 1 <=> j \in x4')
      <4>1. CASE k \in x4
        BY <3>1, <4>1 DEF CacheInv, FetchesFit
      <4>2. CASE k \notin x4
        <5>1. x6[k] = 0
          BY <4>2 DEF CacheInv, FetchesFit
        <5> QED BY <3>1, <4>2, <5>1 DEF CacheInv, FetchesFit
      <4> QED BY <4>1, <4>2
    <3> QED BY <3>2, <3>3 DEF FetchesFit
  <2> QED BY <2>1, <2>2
<1> QED BY <1>2, <1>3 DEF CacheInv

\* Every step of UpstreamCache keeps the invariant.
LEMMA CacheStep == ASSUME CacheInv, [Cache!Next]_(Cache!vars) PROVE CacheInv'
<1> USE CacheAssumption
<1>1. ASSUME UNCHANGED <<x2, x3, x7>>, x1' \in Nat, FetchesFit' PROVE CacheInv'
  BY <1>1 DEF CacheInv, HeldFits, Cache!Entry, Load
<1>2. CASE UNCHANGED Cache!vars
  <2>1. UNCHANGED <<x1, x2, x3, x4, x5, x6, x7>>
    BY <1>2 DEF Cache!vars
  <2> QED BY <1>1, <2>1 DEF CacheInv, FetchesFit
<1>3. CASE Cache!Tick
  <2>1. UNCHANGED <<x2, x3, x4, x5, x6, x7>> /\ x1' = x1 + 1
    BY <1>3 DEF Cache!Tick
  <2> QED BY <1>1, <2>1 DEF CacheInv, FetchesFit
<1>4. ASSUME NEW r \in Askers, NEW k \in Sources, Cache!Ask(r, k) PROVE CacheInv'
  BY <1>4, CacheAsked
<1>5. ASSUME NEW k \in Sources, Cache!Answered(k) PROVE CacheInv'
  BY <1>5, CacheAnswered
<1>6. ASSUME NEW k \in Sources, Cache!Refused(k) PROVE CacheInv'
  <2>1. UNCHANGED <<x1, x2, x3, x7>> /\ k \in x4 /\ Cache!Settle(k)
    BY <1>6 DEF Cache!Refused, Cache!Settle
  <2> QED BY <1>1, <2>1, FetchSettles DEF CacheInv
<1> QED BY <1>2, <1>3, <1>4, <1>5, <1>6 DEF Cache!Next

\* Nothing is pulled twice at once, nobody waits for nothing, and the memory is bounded.
LEMMA CacheIsShared == ASSUME CacheInv PROVE Cache!SharedOnce
<1>1. Cache!OneUpstream
  BY DEF CacheInv, FetchesFit, Cache!OneUpstream
<1>2. Cache!MemoryBounded
  BY WeightIs DEF CacheInv, HeldFits, Cache!MemoryBounded
<1> QED BY <1>1, <1>2 DEF Cache!SharedOnce

\* An instance of a module has its own copy of the operators it extends.
LEMMA SameCardinality == ASSUME NEW S PROVE Station!Cardinality(S) = Cardinality(S)
  BY Zenon DEF Station!Cardinality, Cardinality

(* A step of the site is a step of the part that moves, or leaves it alone. *)
LEMMA FocusMoves ==
    ASSUME [SiteNext]_all
    PROVE  /\ focus' = focus
           /\ focus = "mail" => [Mail!Next]_(Mail!vars)
           /\ focus = "throttle" => [Throttle!Next]_(Throttle!vars)
           /\ focus = "cache" => [Cache!Next]_(Cache!vars)
           /\ focus = "vault" => [Sealing!Next]_(Sealing!vars)
           /\ focus = "radio" => [Station!Next]_(Station!vars)
           /\ focus = "relay" => [Relay!Next]_(Relay!vars)
           /\ focus = "watch" => [Watching!Next]_(Watching!vars)
           /\ focus = "page" => [Page!Next]_(Page!vars)
           /\ focus = "switch" =>
                [Switch(LoneTabs, LoneChecks, LoneEndpoints)!Next]_(Switch(LoneTabs, LoneChecks, LoneEndpoints)!vars)
           /\ focus = "switches" =>
                [Switch(BothTabs, BothChecks, BothEndpoints)!Next]_(Switch(BothTabs, BothChecks, BothEndpoints)!vars)
<1> USE DEF Rest6, Rest7, Rest8, Rest9, Rest10, Rest11, Rest12, Rest13, Rest14, Rest15
<1>1. CASE SiteNext
  BY <1>1 DEF SiteNext
<1>2. CASE UNCHANGED all
  BY <1>2 DEF all, Mail!vars, Throttle!vars, Cache!vars, Sealing!vars, Station!vars, Relay!vars,
     Watching!vars, Watching!watchVars,
     Watching!pageVars, Page!vars, Switch!vars
<1> QED BY <1>1, <1>2

\* The invariants of the parts, each while it is the one that moves.
KeepingInv ==
    /\ focus = "mail" => MailInv
    /\ focus = "throttle" => ThrottleInv
    /\ focus = "cache" => CacheInv
    /\ focus = "vault" => VaultInv
    /\ focus = "radio" => RadioInv
    /\ focus = "relay" => RelayInv
    /\ focus = "watch" => WatchInv
    /\ focus = "page" => PageInv
    /\ focus = "switch" => PushInv(LoneTabs, LoneChecks, LoneEndpoints)
    /\ focus = "switches" => PushInv(BothTabs, BothChecks, BothEndpoints)

\* The invariants hold in every state of the site.
LEMMA KeepingInductive == SiteSpec => []KeepingInv
<1>1. SiteInit => KeepingInv
  BY MailInit, ThrottleInit, CacheInit, VaultInit, RadioInit, RelayInit, WatchInit, PageInit, PushInit,
     PushAssumption DEF SiteInit,
     KeepingInv
<1>2. KeepingInv /\ [SiteNext]_all => KeepingInv'
  BY FocusMoves, MailStep, ThrottleStep, CacheStep, VaultStep, RadioStep, RelayStep, WatchStep, PageStep, PushStep,
     PushAssumption
     DEF KeepingInv, WatchGood
<1> QED BY <1>1, <1>2, PTL DEF SiteSpec

\* For any number of fetches, forms, sign-ins and refreshes: a load is minted once for every
\* time the memory was dropped, the row and the bearer are of the session the reader last asked
\* for, a locked vault holds none, and a code is used by one request (RadioSession).  Nothing is
\* fetched for a listener whom the line was closed to when the call came, and what a manifest
\* names comes back under its own line (RadioRelay).
THEOREM OneSessionIsKept == SiteSpec => []StationHolds
<1>1. RadioInv => Station!OneRefresh
  <2>1. Cardinality(Station!Loading) \in Nat
    BY RadioAssumption, FS_Subset, FS_CardinalityType DEF Station!Loading
  <2> QED BY <2>1, SameCardinality DEF RadioInv, LoadsCounted, Station!TypeOK, Station!OneRefresh
<1>2. KeepingInv => StationHolds
  BY <1>1 DEF KeepingInv, RadioInv, RelayInv, StationHolds, Station!OneSession
<1> QED BY <1>2, KeepingInductive, PTL

\* For any number of writes, locks and refreshes beside it, the move to the reader's own key
\* changes no address and no channel, and what it has been through is under that key unless a
\* request has written under the server's since (Vault).
THEOREM MoveLosesNothing == SiteSpec => MoveIsSafe
<1>1. KeepingInv /\ KeepingInv' /\ [SiteNext]_all => [focus = "vault" => Sealing!MoveIsSafeStep]_all
  BY FocusMoves, VaultStep DEF KeepingInv, VaultInv, Sealing!MoveIsSafeStep
<1> QED BY <1>1, KeepingInductive, PTL DEF SiteSpec, MoveIsSafe

\* For any limits, any number of callers, submissions and requests, and any order of their steps:
\* a lock that was earned lasts, the next is twice as long up to the ceiling, and a sweep forgives
\* nobody it should not (AuthThrottle); what is mailed for an inviter is bounded by the day's limit
\* and what was under way at once, what an address gets by the submissions at once, both but for
\* faults, and nobody mails their own address (InviteMail); a key is fetched once at a time, and
\* what is held weighs no more than it may (UpstreamCache).
THEOREM LimitsAreKept == SiteSpec => LimitsHold
<1>1. KeepingInv /\ [SiteNext]_all => [LimitsHoldStep]_all
  <2> SUFFICES ASSUME KeepingInv, [SiteNext]_all PROVE LimitsHoldStep
    OBVIOUS
  <2>1. focus = "throttle" => Throttle!BackoffHoldsStep
    BY FocusMoves, BackoffStep DEF KeepingInv
  <2>2. focus = "mail" => Mail!MailIsBounded'
    <3>1. (MailInv => Mail!MailIsBounded)'
      BY MailLimits, PTL
    <3> QED BY <3>1, FocusMoves, MailStep DEF KeepingInv
  <2>3. focus = "cache" => Cache!SharedOnce'
    <3>1. (CacheInv => Cache!SharedOnce)'
      BY CacheIsShared, PTL
    <3> QED BY <3>1, FocusMoves, CacheStep DEF KeepingInv
  <2> QED BY <2>1, <2>2, <2>3 DEF LimitsHoldStep
<1> QED BY <1>1, KeepingInductive, PTL DEF SiteSpec, LimitsHold

\* For any tabs, presses, navigations, sweeps, moves and faults: while nothing is under way, what
\* the browser is subscribed to is a row of the server that is live, unless the browser went on
\* after a deadline or refused to unsubscribe, and no row is forgotten while the browser still has
\* what it is for (PushToggle); the page that is shown is the newest, what plays in it can be
\* stopped and goes with it, and a sweep gives way (PagePlayer); a stream comes back through the
\* site, which never cuts it off, connects to no host that no lookup lets pass, and reaches one
\* whose answer does not change at an address that passes (Watch).
THEOREM PageAndBrowserAgree == SiteSpec => BrowserHolds
<1>1. ASSUME NEW CONSTANT T, NEW CONSTANT C, NEW CONSTANT E \in Nat
      PROVE  (PushInv(T, C, E) => Switch(T, C, E)!SubscribedIsStored)'
  <2>1. PushInv(T, C, E) => Switch(T, C, E)!SubscribedIsStored
    BY PushHolds
  <2> QED BY <2>1, PTL
<1>2. KeepingInv /\ [SiteNext]_all => [BrowserHoldsStep]_all
  <2> SUFFICES ASSUME KeepingInv, [SiteNext]_all PROVE BrowserHoldsStep
    OBVIOUS
  <2>1. ASSUME focus = "watch" PROVE Watching!WatchHoldsStep
    BY <2>1, FocusMoves, WatchStep DEF KeepingInv, WatchGood, WatchInv, Watching!WatchHoldsStep
  <2>2. ASSUME focus = "page" PROVE Page!PageHoldsStep
    <3>1. PageInv' /\ Page!SwapSilencesStep
      BY <2>2, FocusMoves, PageStep DEF KeepingInv
    <3>2. (PageInv => Page!OneHandle /\ Page!SweepYields /\ Page!NewestIsShown)'
      BY PageHolds, PTL
    <3> QED BY <3>1, <3>2 DEF Page!PageHoldsStep
  <2>3. ASSUME NEW CONSTANT T, NEW CONSTANT C, NEW CONSTANT E \in Nat,
               PushInv(T, C, E), [Switch(T, C, E)!Next]_(Switch(T, C, E)!vars)
        PROVE  Switch(T, C, E)!SwitchIsTrueStep
    <3>1. PushInv(T, C, E)' /\ Switch(T, C, E)!NeverForgottenStep
      BY <2>3, PushStep
    <3> QED BY <3>1, <1>1 DEF Switch!SwitchIsTrueStep
  <2>4. focus = "switch" => Switch(LoneTabs, LoneChecks, LoneEndpoints)!SwitchIsTrueStep
    BY <2>3, FocusMoves, PushAssumption DEF KeepingInv
  <2>5. focus = "switches" => Switch(BothTabs, BothChecks, BothEndpoints)!SwitchIsTrueStep
    BY <2>3, FocusMoves, PushAssumption DEF KeepingInv
  <2> QED BY <2>1, <2>2, <2>4, <2>5 DEF BrowserHoldsStep
<1> QED BY <1>2, KeepingInductive, PTL DEF SiteSpec, BrowserHolds
===============================================================================
