----------------------------- MODULE AccountProofs ----------------------------
(***************************************************************************)
(* Proofs about accounts and the people behind them.  Who an account       *)
(* belongs to: the emailed link and what it carries (SignIn), signing in   *)
(* with CoinPay (CoinpayIdentity), the password and how often it may be    *)
(* guessed (PasswordDoor).  What accounts are given: credit codes and      *)
(* scarce invites (Codes).  What people do to each other (Social), and     *)
(* what they follow (Following).  For any number of requests, links,       *)
(* addresses, people, messages, tabs, codes, slots and faults.  Proved     *)
(* through the instances of MCSite, whose registers x1, x2, ... are their  *)
(* variables in the order of the module.                                   *)
(***************************************************************************)
EXTENDS MCSite, Sequences, FiniteSetTheorems, TLAPS

\* The requests whose link is spent.
Past == Signing!SignInSteps \ {"consume"}

\* A request knows its link from the moment it is opened; past the update the link is spent,
\* and whoever else opened it is still before the update.
LinksSpent ==
    \A h \in Handlers :
        /\ x9[h].pc \in Signing!SignInSteps <=> x9[h].link # NoOne
        /\ x9[h].pc \in Past => x1[x9[h].link].state = "spent" /\ x9[h].addr # NoOne
        /\ \A g \in Handlers \ {h} : x9[h].pc \in Past /\ x9[g].link = x9[h].link => x9[g].pc = "consume"

\* Nobody was told that an address was made while it has no account, nor of the member's.
BornOnce ==
    /\ Member \in x2
    /\ \A a \in Signing!Addresses :
          /\ a \notin x2 => x11[a] = 0
          /\ x11[a] <= IF a = Member THEN 0 ELSE 1

\* `created` is only true of the sign-in that made the account, and both invites are of it.
Credited ==
    /\ \A h \in Handlers :
          /\ x9[h].pc \in Past \ {"account"} => x9[h].addr \in x2
          /\ x9[h].created => x9[h].pc \in Past \ {"account"} /\ x10[x9[h].addr] = x9[h].link
    /\ \A a \in Signing!Addresses :
          x4[a].by # NoOne => a \in x2 /\ x4[a].link # NoOne /\ x10[a] = x4[a].link
    /\ x5.by # NoOne => x5.by \in x2 /\ x10[x5.by] = x5.link

\* The days of the scarce invite go to its newcomer and its host, after it was accepted.
Rewarded ==
    /\ \A h \in Handlers : x9[h].bonus # {} => x9[h].pc = "bonus" /\ x9[h].addr = x5.by
    /\ \A t \in x6 : t.ref \in Signing!Sides =>
          x5.by # NoOne /\ t.to = IF t.ref = "invitee" THEN x5.by ELSE Host

\* A code is redeemed by somebody.
Redeeming == \A h \in Handlers : x9[h].pc \in {"spend", "days"} => x9[h].addr \in Signing!Addresses

\* The inductive invariant of SignIn.  CountedOnce alone is not inductive: it says nothing of
\* what a request in flight still holds (created, bonus) when it writes.
SignInInv == Redeeming /\ Signing!TypeOK /\ LinksSpent /\ BornOnce /\ Credited /\ Rewarded

\* An instance of a module has its own copy of the operators it extends.
LEMMA SameCardinality == ASSUME NEW S PROVE Signing!Cardinality(S) = Cardinality(S)
  BY Zenon DEF Signing!Cardinality, Cardinality

\* A request with a link shows that there is one to be counted.
LEMMA SomeLink == Signing!Cardinality(Links) \in Nat /\ \A l \in Links : 1 \in 0..Signing!Cardinality(Links)
<1>1. Signing!Cardinality(Links) = Cardinality(Links)
  BY SameCardinality
<1>2. Cardinality(Links) \in Nat
  BY SignInAssumption, FS_CardinalityType
<1>3. Links # {} => Cardinality(Links) # 0
  BY SignInAssumption, FS_EmptySet
<1> QED BY <1>1, <1>2, <1>3

\* Every step of a sign-in keeps the types.
LEMMA SignInTyped == ASSUME SignInInv, [Signing!Next]_(Signing!vars) PROVE Signing!TypeOK'
<1> DEFINE Rows == [state: {"none", "open", "expired", "spent"}, addr: Signing!Addresses,
                    scarce: BOOLEAN, profile: BOOLEAN]
<1>a. /\ x1 \in [Links -> Rows] /\ x9 \in [Handlers -> Signing!Locals]
      /\ \A h \in Handlers : x9[h].pc \in Signing!SignInSteps => x9[h].link \in Links
      /\ \A h \in Handlers : x9[h].pc \in Past => x9[h].addr \in Signing!Addresses
  <2>1. x1 \in [Links -> Rows] /\ x9 \in [Handlers -> Signing!Locals]
    BY DEF SignInInv, Signing!TypeOK
  <2> QED BY <2>1 DEF SignInInv, LinksSpent, Signing!Locals
<1>b. Signing!Idle \in Signing!Locals
  BY SignInAssumption DEF Signing!Idle, Signing!Locals
<1>1. ASSUME NEW l \in Links, NEW a \in Signing!Addresses, NEW f \in LinkForms,
             Signing!CreateLoginLink(l, a, f)
      PROVE  Signing!TypeOK'
  BY <1>1, SignInAssumption DEF SignInInv, Signing!TypeOK, Signing!CreateLoginLink
<1>2. ASSUME NEW l \in Links, Signing!Expire(l)
      PROVE  Signing!TypeOK'
  BY <1>2 DEF SignInInv, Signing!TypeOK, Signing!Expire
<1>3. ASSUME NEW i \in Inviters, Signing!InviteCodeFor(i)
      PROVE  Signing!TypeOK'
  BY <1>3 DEF SignInInv, Signing!TypeOK, Signing!InviteCodeFor
<1>4. ASSUME NEW h \in Handlers, NEW l \in Links, NEW c \in Inviters \cup {NoOne}, NEW i \in BOOLEAN,
             Signing!Open(h, l, c, i)
      PROVE  Signing!TypeOK'
  <2>1. (x9 \in [Handlers -> Signing!Locals])'
    BY <1>a, <1>b, <1>4 DEF Signing!Open, Signing!Request, Signing!Idle, Signing!Locals,
       Signing!SignInSteps, Past
  <2>2. (x1 \in [Links -> Rows])'
    BY <1>a, <1>4 DEF Signing!Open, Signing!Request
  <2> QED BY <2>1, <2>2, <1>a, <1>4, SignInAssumption, SomeLink DEF SignInInv, BornOnce,
     Signing!TypeOK, Signing!Open, Signing!Request, Signing!SignInSteps, Past
<1>5. ASSUME NEW h \in Handlers, Signing!Consume(h)
      PROVE  Signing!TypeOK'
  <2>1. CASE Signing!Spendable(x9[h].link)
    <3>1. x9[h].link \in Links
      BY <1>a, <1>5 DEF Signing!Consume, Signing!SignInSteps
    <3> DEFINE row == x1[x9[h].link]
    <3>2. /\ row.addr \in Signing!Addresses
          /\ row.profile \in BOOLEAN
          /\ row.scarce \in BOOLEAN
          /\ x9[h] \in Signing!Locals
      BY <1>a, <3>1
    <3> HIDE DEF row
    <3> DEFINE here == x9'[h]
    <3>4. here = [x9[h] EXCEPT !.pc = "account", !.addr = row.addr,
                        !.profile = row.profile, !.scarce = @ \/ row.scarce]
      BY <1>a, <1>5, <2>1 DEF row, Signing!Consume
    <3>7. here \in Signing!Locals
      <4> DEFINE both == x9[h].scarce \/ row.scarce
      <4>1. here = [x9[h] EXCEPT !.pc = "account", !.addr = row.addr,
                        !.profile = row.profile, !.scarce = both]
        BY <3>4
      <4>2. both \in BOOLEAN
        OBVIOUS
      <4> HIDE DEF both, here
      <4> QED BY <3>2, <4>1, <4>2 DEF Signing!Locals, Signing!SignInSteps
    <3>8. (x9 \in [Handlers -> Signing!Locals])'
      BY <1>a, <1>5, <2>1, <3>7 DEF Signing!Consume
    <3>5. (x1 \in [Links -> Rows])'
      BY <1>a, <1>5, <2>1, <3>1 DEF Signing!Consume
    <3> QED BY <1>a, <1>5, <2>1, <3>8, <3>5 DEF SignInInv, Signing!TypeOK, Signing!Consume
  <2>2. CASE ~Signing!Spendable(x9[h].link)
    BY <1>a, <1>b, <1>5, <2>2 DEF SignInInv, Signing!TypeOK, Signing!Consume
  <2> QED BY <2>1, <2>2
<1>6. ASSUME NEW h \in Handlers, Signing!FindOrCreateUser(h)
      PROVE  Signing!TypeOK'
  <2> DEFINE a == x9[h].addr
  <2>1. a \in Signing!Addresses /\ x9[h].link \in Links
    BY <1>a, <1>6 DEF Signing!FindOrCreateUser, Past, Signing!SignInSteps
  <2>2. Signing!Created(a) \in BOOLEAN
    BY DEF Signing!Created
  <2>3. x9'[h] \in Signing!Locals
    <3> DEFINE new == Signing!Created(a)
               here == [x9[h] EXCEPT !.pc = "claim", !.created = new]
    <3>1. x9[h] \in Signing!Locals /\ x9' = [x9 EXCEPT ![h] = here] /\ x9'[h] = here
      BY <1>a, <1>6 DEF Signing!FindOrCreateUser
    <3>2. new \in BOOLEAN
      BY <2>2
    <3> HIDE DEF new
    <3>3. here \in Signing!Locals
      BY <3>1, <3>2 DEF Signing!Locals, Signing!SignInSteps
    <3> QED BY <3>1, <3>3
  <2>4. (x9 \in [Handlers -> Signing!Locals])' /\ x2' \in SUBSET Signing!Addresses
    BY <1>a, <1>6, <2>1, <2>3 DEF SignInInv, Signing!TypeOK, Signing!FindOrCreateUser
  <2>5. x10' \in [Signing!Addresses -> Links \cup {NoOne}]
    BY <1>6, <2>1 DEF SignInInv, Signing!TypeOK, Signing!FindOrCreateUser
  <2>6. x11' \in [Signing!Addresses -> 0..Signing!Cardinality(Links)]
    <3>1. Signing!Created(a) => x11[a] = 0
      BY <2>1 DEF SignInInv, BornOnce, Signing!Created
    <3> QED BY <1>6, <2>1, <3>1, SomeLink DEF SignInInv, Signing!TypeOK, Signing!FindOrCreateUser
  <2> QED BY <1>6, <2>4, <2>5, <2>6 DEF SignInInv, Signing!TypeOK, Signing!FindOrCreateUser
<1>7. ASSUME NEW h \in Handlers, Signing!ClaimInvite(h)
      PROVE  Signing!TypeOK'
  <2>1. x9[h] \in Signing!Locals /\ x9[h].link \in Links /\ x9[h].addr \in Signing!Addresses
    BY <1>a, <1>7 DEF Signing!ClaimInvite, Past, Signing!SignInSteps
  <2>2. (x9 \in [Handlers -> Signing!Locals])'
    BY <1>a, <1>7 DEF Signing!ClaimInvite, Signing!Goto, Signing!Locals, Signing!SignInSteps
  <2>3. x4' \in [Signing!Addresses -> [by : Inviters \cup {NoOne}, link : Links \cup {NoOne}]]
    <3>1. x9[h].code \in Inviters \cup {NoOne}
      BY <2>1 DEF Signing!Locals
    <3> QED BY <1>7, <2>1, <3>1 DEF SignInInv, Signing!TypeOK, Signing!ClaimInvite
  <2>4. x13' \in 0..SignInFaults
    BY <1>7, SignInAssumption DEF SignInInv, Signing!TypeOK, Signing!ClaimInvite, Signing!Fault
  <2> QED BY <1>7, <2>2, <2>3, <2>4 DEF SignInInv, Signing!TypeOK, Signing!ClaimInvite
<1>8. ASSUME NEW h \in Handlers, Signing!AcceptInvite(h)
      PROVE  Signing!TypeOK'
  <2>1. x9[h] \in Signing!Locals /\ x9[h].link \in Links /\ x9[h].addr \in Signing!Addresses
    BY <1>a, <1>8 DEF Signing!AcceptInvite, Past, Signing!SignInSteps
  <2>2. (x9 \in [Handlers -> Signing!Locals])'
    BY <1>a, <1>8 DEF Signing!AcceptInvite, Signing!Goto, Signing!Locals, Signing!SignInSteps
  <2>3. x5' \in [by : Signing!Addresses \cup {NoOne}, link : Links \cup {NoOne}, withdrawn : BOOLEAN]
    BY <1>8, <2>1 DEF SignInInv, Signing!TypeOK, Signing!AcceptInvite
  <2>4. x13' \in 0..SignInFaults
    BY <1>8, SignInAssumption DEF SignInInv, Signing!TypeOK, Signing!AcceptInvite, Signing!Fault
  <2> QED BY <1>8, <2>2, <2>3, <2>4 DEF SignInInv, Signing!TypeOK, Signing!AcceptInvite
<1>9. ASSUME NEW h \in Handlers, Signing!SaveProfile(h)
      PROVE  Signing!TypeOK'
  <2>1. (x9 \in [Handlers -> Signing!Locals])'
    BY <1>a, <1>b, <1>9 DEF Signing!SaveProfile, Signing!Idle, Signing!Fault, Signing!Locals,
       Signing!SignInSteps, Past
  <2>2. (x1 \in [Links -> Rows])'
    BY <1>a, <1>9 DEF Signing!SaveProfile, Signing!Fault
  <2> QED BY <2>1, <2>2, <1>a, <1>9, SignInAssumption, SomeLink DEF SignInInv, BornOnce,
     Signing!TypeOK, Signing!SaveProfile, Signing!Fault, Signing!SignInSteps, Past
<1>10. ASSUME NEW h \in Handlers, Signing!Die(h)
      PROVE  Signing!TypeOK'
  <2>1. (x9 \in [Handlers -> Signing!Locals])'
    BY <1>a, <1>b, <1>10 DEF Signing!Die, Signing!Fault, Signing!Idle, Signing!Locals,
       Signing!SignInSteps, Past
  <2>2. (x1 \in [Links -> Rows])'
    BY <1>a, <1>10 DEF Signing!Die, Signing!Fault
  <2> QED BY <2>1, <2>2, <1>a, <1>10, SignInAssumption, SomeLink DEF SignInInv, BornOnce,
     Signing!TypeOK, Signing!Die, Signing!Fault, Signing!SignInSteps, Past
<1>11. ASSUME NEW h \in Handlers, NEW side \in Signing!Sides, Signing!GrantBonus(h, side)
      PROVE  Signing!TypeOK'
  <2> DEFINE rest == x9[h].bonus \ {side}
             who == IF side = "invitee" THEN x9[h].addr ELSE Host
  <2>1. x9[h] \in Signing!Locals /\ x9[h].addr \in Signing!Addresses /\ side \in Signing!Sides
    BY <1>a, <1>11 DEF Signing!GrantBonus, Past, Signing!SignInSteps
  <2>2. rest \in SUBSET Signing!Sides
    BY <2>1 DEF Signing!Locals
  <2>3. x9'[h] \in Signing!Locals
    <3> HIDE DEF rest
    <3> QED BY <1>a, <1>11, <2>1, <2>2 DEF rest, Signing!GrantBonus, Signing!Locals,
       Signing!SignInSteps
  <2>4. (x9 \in [Handlers -> Signing!Locals])'
    BY <1>a, <1>11, <2>3 DEF Signing!GrantBonus
  <2>5. x6' \subseteq [ref : {"code"} \cup Signing!Sides, to : Signing!Addresses \cup Inviters]
    BY <1>11, <2>1, SignInAssumption DEF SignInInv, Signing!TypeOK, Signing!GrantBonus
  <2>6. x13' \in 0..SignInFaults
    BY <1>11, SignInAssumption DEF SignInInv, Signing!TypeOK, Signing!GrantBonus, Signing!Fault
  <2> QED BY <1>11, <2>4, <2>5, <2>6 DEF SignInInv, Signing!TypeOK, Signing!GrantBonus
<1>12. ASSUME NEW h \in Handlers, Signing!AskWithdraw(h)
      PROVE  Signing!TypeOK'
  <2>1. (x9 \in [Handlers -> Signing!Locals])'
    BY <1>a, <1>b, <1>12, ZenonT(40) DEF Signing!AskWithdraw, Signing!Request, Signing!Idle, Signing!Goto,
       Signing!Locals, Signing!SignInSteps, Past
  <2>2. (x1 \in [Links -> Rows])'
    BY <1>a, <1>12 DEF Signing!AskWithdraw, Signing!Request, Signing!Goto
  <2> QED BY <2>1, <2>2, <1>a, <1>12, SignInAssumption, SomeLink DEF SignInInv, BornOnce,
     Signing!TypeOK, Signing!AskWithdraw, Signing!Request, Signing!Goto, Signing!SignInSteps, Past
<1>13. ASSUME NEW h \in Handlers, Signing!Withdraw(h)
      PROVE  Signing!TypeOK'
  <2>1. (x9 \in [Handlers -> Signing!Locals])'
    BY <1>a, <1>b, <1>13 DEF Signing!Withdraw, Signing!Idle, Signing!Locals, Signing!SignInSteps,
       Past
  <2>2. (x1 \in [Links -> Rows])'
    BY <1>a, <1>13 DEF Signing!Withdraw
  <2> QED BY <2>1, <2>2, <1>a, <1>13, SignInAssumption, SomeLink DEF SignInInv, BornOnce,
     Signing!TypeOK, Signing!Withdraw, Signing!SignInSteps, Past
<1>14. ASSUME NEW h \in Handlers, NEW a \in Signing!Addresses, Signing!AskRedeem(h, a)
      PROVE  Signing!TypeOK'
  <2>1. (x9 \in [Handlers -> Signing!Locals])'
    BY <1>a, <1>b, <1>14 DEF Signing!AskRedeem, Signing!Request, Signing!Idle, Signing!Locals,
       Signing!SignInSteps, Past
  <2>2. (x1 \in [Links -> Rows])'
    BY <1>a, <1>14 DEF Signing!AskRedeem, Signing!Request
  <2> QED BY <2>1, <2>2, <1>a, <1>14, SignInAssumption, SomeLink DEF SignInInv, BornOnce,
     Signing!TypeOK, Signing!AskRedeem, Signing!Request, Signing!SignInSteps, Past
<1>15. ASSUME NEW h \in Handlers, Signing!SpendCode(h)
      PROVE  Signing!TypeOK'
  <2> DEFINE a == x9[h].addr
             takes == a \notin x7 /\ Signing!Cardinality(x7) < MaxUses
  <2>1. x9[h] \in Signing!Locals /\ a \in Signing!Addresses
    BY <1>a, <1>15 DEF Signing!SpendCode, SignInInv, Redeeming
  <2> HIDE DEF takes
  <2>2. CASE takes
    <3>1. x7' = x7 \cup {a} /\ x9' = [x9 EXCEPT ![h].pc = "days"]
      BY <1>15, <2>2 DEF takes, Signing!SpendCode, Signing!Goto
    <3>2. (x9 \in [Handlers -> Signing!Locals])'
      BY <1>a, <3>1 DEF Signing!Locals
    <3> QED BY <1>15, <2>1, <3>1, <3>2 DEF SignInInv, Signing!TypeOK, Signing!SpendCode
  <2>3. CASE ~takes
    <3>1. x7' = x7 /\ x9' = [x9 EXCEPT ![h] = Signing!Idle]
      BY <1>15, <2>3 DEF takes, Signing!SpendCode
    <3>2. (x9 \in [Handlers -> Signing!Locals])'
      BY <1>a, <1>b, <3>1
    <3> QED BY <1>15, <3>1, <3>2 DEF SignInInv, Signing!TypeOK, Signing!SpendCode
  <2> QED BY <2>2, <2>3
<1>16. ASSUME NEW h \in Handlers, Signing!GrantDays(h)
      PROVE  Signing!TypeOK'
  <2>1. x9[h].addr \in Signing!Addresses
    BY <1>a, <1>16 DEF Signing!GrantDays, SignInInv, Redeeming
  <2>2. (x9 \in [Handlers -> Signing!Locals])'
    BY <1>a, <1>b, <1>16 DEF Signing!GrantDays
  <2>3. x6' \subseteq [ref : {"code"} \cup Signing!Sides, to : Signing!Addresses \cup Inviters]
    BY <1>16, <2>1 DEF SignInInv, Signing!TypeOK, Signing!GrantDays
  <2> QED BY <1>16, <2>2, <2>3 DEF SignInInv, Signing!TypeOK, Signing!GrantDays
<1>20. CASE UNCHANGED Signing!vars
  BY <1>20 DEF Signing!vars, SignInInv, Signing!TypeOK
<1> QED BY <1>20, <1>1, <1>2, <1>3, <1>4, <1>5, <1>6, <1>7, <1>8, <1>9, <1>10, <1>11, <1>12, <1>13,
   <1>14, <1>15, <1>16 DEF Signing!Next

\* At the start nothing was minted, spent or credited.
LEMMA SignInInit == Signing!Init => SignInInv
<1>1. ASSUME Signing!Init PROVE Signing!TypeOK
  <2>1. x1 \in [Links -> [state: {"none", "open", "expired", "spent"}, addr: Signing!Addresses,
                         scarce: BOOLEAN, profile: BOOLEAN]]
    BY <1>1 DEF Signing!Init, Signing!NoLink, Signing!Addresses
  <2>2. Signing!Idle \in Signing!Locals
    BY SignInAssumption DEF Signing!Idle, Signing!Locals
  <2>3. x9 \in [Handlers -> Signing!Locals]
    BY <1>1, <2>2 DEF Signing!Init
  <2>4. x11 \in [Signing!Addresses -> 0..Signing!Cardinality(Links)]
    BY <1>1, SomeLink DEF Signing!Init
  <2>5. x12 \in 0..MaxRequests /\ x13 \in 0..SignInFaults
    BY <1>1, SignInAssumption DEF Signing!Init
  <2> QED BY <1>1, <2>1, <2>3, <2>4, <2>5, SignInAssumption DEF Signing!Init, Signing!TypeOK,
     Signing!Unused, Signing!Addresses
<1>2. ASSUME Signing!Init PROVE Redeeming /\ LinksSpent /\ BornOnce /\ Credited /\ Rewarded
  BY <1>2, SignInAssumption DEF Signing!Init, Redeeming, LinksSpent, BornOnce, Credited, Rewarded,
     Past, Signing!SignInSteps, Signing!Addresses, Signing!Sides, Signing!NoLink, Signing!Idle,
     Signing!Unused
<1> QED BY <1>1, <1>2 DEF SignInInv

\* Every step of a sign-in keeps the invariant.
LEMMA SignInStep == ASSUME SignInInv, [Signing!Next]_(Signing!vars) PROVE SignInInv'
<1>0. Signing!TypeOK'
  BY SignInTyped
<1> USE DEF Redeeming, LinksSpent, BornOnce, Credited, Rewarded, Past, Signing!SignInSteps,
   Signing!Addresses, Signing!Sides
<1>1. ASSUME NEW l \in Links, NEW a \in Signing!Addresses, NEW f \in LinkForms,
             Signing!CreateLoginLink(l, a, f)
      PROVE  SignInInv'
  <2>1. Redeeming' /\ LinksSpent' /\ BornOnce'
    BY <1>1, SignInAssumption DEF SignInInv, Signing!TypeOK, Signing!Locals, Signing!CreateLoginLink
  <2>2. Credited' /\ Rewarded'
    BY <1>1, SignInAssumption DEF SignInInv, Signing!TypeOK, Signing!Locals, Signing!CreateLoginLink
  <2> QED BY ONLY <1>0, <2>1, <2>2 DEF SignInInv
<1>2. ASSUME NEW l \in Links, Signing!Expire(l)
      PROVE  SignInInv'
  <2>1. Redeeming' /\ LinksSpent' /\ BornOnce'
    BY <1>2, SignInAssumption DEF SignInInv, Signing!TypeOK, Signing!Locals, Signing!Expire
  <2>2. Credited' /\ Rewarded'
    BY <1>2, SignInAssumption DEF SignInInv, Signing!TypeOK, Signing!Locals, Signing!Expire
  <2> QED BY ONLY <1>0, <2>1, <2>2 DEF SignInInv
<1>3. ASSUME NEW i \in Inviters, Signing!InviteCodeFor(i)
      PROVE  SignInInv'
  <2>1. Redeeming' /\ LinksSpent' /\ BornOnce'
    BY <1>3, SignInAssumption DEF SignInInv, Signing!TypeOK, Signing!Locals, Signing!InviteCodeFor
  <2>2. Credited' /\ Rewarded'
    BY <1>3, SignInAssumption DEF SignInInv, Signing!TypeOK, Signing!Locals, Signing!InviteCodeFor
  <2> QED BY ONLY <1>0, <2>1, <2>2 DEF SignInInv
<1>4. ASSUME NEW h \in Handlers, NEW l \in Links, NEW c \in Inviters \cup {NoOne}, NEW i \in BOOLEAN,
             Signing!Open(h, l, c, i)
      PROVE  SignInInv'
  <2>1. Redeeming' /\ LinksSpent' /\ BornOnce'
    BY <1>4, SignInAssumption DEF SignInInv, Signing!TypeOK, Signing!Locals, Signing!Open,
       Signing!Request, Signing!Idle
  <2>2. Credited' /\ Rewarded'
    BY <1>4, SignInAssumption DEF SignInInv, Signing!TypeOK, Signing!Locals, Signing!Open,
       Signing!Request, Signing!Idle
  <2> QED BY ONLY <1>0, <2>1, <2>2 DEF SignInInv
<1>5. ASSUME NEW h \in Handlers, Signing!Consume(h)
      PROVE  SignInInv'
  <2> DEFINE l == x9[h].link
             takes == /\ l \in Links
                      /\ /\ x1[l].addr \in Signing!Addresses
                      /\ x1[l].state = "open"
                      /\ x1'[l].state = "spent"
                      /\ \A m \in Links \ {l} : x1'[m].state = x1[m].state
                      /\ x9'[h].pc = "account" /\ x9'[h].link = l /\ x9'[h].addr = x1[l].addr
                      /\ x9'[h].created = x9[h].created /\ x9'[h].bonus = x9[h].bonus
                      /\ \A g \in Handlers \ {h} : x9'[g] = x9[g]
             ends == x9' = [x9 EXCEPT ![h] = Signing!Idle] /\ x1' = x1
             rest == UNCHANGED <<x2, x3, x4, x5, x6, x7, x8, x10, x11, x12,
                      x13>> /\ x9[h].pc = "consume"
             types == x9 \in [Handlers -> Signing!Locals]
  <2>1. types /\ rest /\ (ends \/ takes)
    <3> DEFINE Rows == [state: {"none", "open", "expired", "spent"}, addr: Signing!Addresses,
                        scarce: BOOLEAN, profile: BOOLEAN]
    <3>1. types /\ rest /\ x1 \in [Links -> Rows] /\ l \in Links
      BY <1>5 DEF SignInInv, Signing!TypeOK, Signing!Consume, LinksSpent, Signing!SignInSteps,
         Signing!Locals
    <3>2. CASE x1[l].state = "open"
      BY <3>1, <3>2, <1>5 DEF Signing!Consume, Signing!Spendable, Signing!Locals
    <3>3. CASE x1[l].state # "open"
      BY <3>1, <3>3, <1>5 DEF Signing!Consume, Signing!Spendable
    <3> QED BY <3>2, <3>3
  <2> HIDE DEF takes, ends, rest, types
  <2>2. CASE takes
    <3>1. Redeeming' /\ LinksSpent' /\ BornOnce'
      BY <2>1, <2>2, SignInAssumption DEF takes, rest, types, SignInInv, Signing!Locals,
         Signing!Idle
    <3>2. Credited' /\ Rewarded'
      BY <2>1, <2>2, SignInAssumption DEF takes, rest, types, SignInInv, Signing!Locals,
         Signing!Idle
    <3> QED BY ONLY <1>0, <3>1, <3>2 DEF SignInInv
  <2>3. CASE ends
    <3>1. Redeeming' /\ LinksSpent' /\ BornOnce'
      BY <2>1, <2>3, SignInAssumption DEF ends, rest, types, SignInInv, Signing!Locals, Signing!Idle
    <3>2. Credited' /\ Rewarded'
      BY <2>1, <2>3, SignInAssumption DEF ends, rest, types, SignInInv, Signing!Locals, Signing!Idle
    <3> QED BY ONLY <1>0, <3>1, <3>2 DEF SignInInv
  <2> QED BY <2>1, <2>2, <2>3
<1>6. ASSUME NEW h \in Handlers, Signing!FindOrCreateUser(h)
      PROVE  SignInInv'
  <2>1. Redeeming' /\ LinksSpent' /\ BornOnce'
    BY <1>6, SignInAssumption DEF SignInInv, Signing!TypeOK, Signing!Locals,
       Signing!FindOrCreateUser, Signing!Created
  <2>2. Credited' /\ Rewarded'
    BY <1>6, SignInAssumption DEF SignInInv, Signing!TypeOK, Signing!Locals,
       Signing!FindOrCreateUser, Signing!Created
  <2> QED BY ONLY <1>0, <2>1, <2>2 DEF SignInInv
<1>7. ASSUME NEW h \in Handlers, Signing!ClaimInvite(h)
      PROVE  SignInInv'
  <2>1. Redeeming' /\ LinksSpent' /\ BornOnce'
    BY <1>7, SignInAssumption DEF SignInInv, Signing!TypeOK, Signing!Locals, Signing!ClaimInvite,
       Signing!Goto, Signing!IsNew, Signing!Fault
  <2>2. Credited' /\ Rewarded'
    BY <1>7, SignInAssumption DEF SignInInv, Signing!TypeOK, Signing!Locals, Signing!ClaimInvite,
       Signing!Goto, Signing!IsNew, Signing!Fault
  <2> QED BY ONLY <1>0, <2>1, <2>2 DEF SignInInv
<1>8. ASSUME NEW h \in Handlers, Signing!AcceptInvite(h)
      PROVE  SignInInv'
  <2> DEFINE goes == x5' = x5 /\ x9' = [x9 EXCEPT ![h].pc = "save"]
             takes == /\ x9[h].created /\ x5.by = NoOne
                      /\ x5' = [x5 EXCEPT !.by = x9[h].addr, !.link = x9[h].link]
                      /\ x9' = [x9 EXCEPT ![h].pc = "bonus", ![h].bonus = Signing!Sides]
             rest == UNCHANGED <<x1, x2, x3, x4, x6, x7, x8, x10, x11, x12>> /\ x9[h].pc = "scarce"
             types == /\ x9 \in [Handlers -> Signing!Locals]
                     /\ 
                     /\ x5 \in
                             [by : Signing!Addresses \cup {NoOne}, link : Links \cup {NoOne}, withdrawn : BOOLEAN]
  <2>1. types /\ rest /\ (goes \/ takes)
    BY <1>8 DEF SignInInv, Signing!TypeOK, Signing!AcceptInvite, Signing!Goto, Signing!IsNew,
       Signing!Redeemable
  <2> HIDE DEF goes, takes, rest, types
  <2>2. CASE goes
    <3>1. Redeeming' /\ LinksSpent' /\ BornOnce'
      BY <2>1, <2>2, SignInAssumption DEF goes, rest, types, SignInInv, Signing!Locals, Signing!Idle
    <3>2. Credited' /\ Rewarded'
      BY <2>1, <2>2, SignInAssumption DEF goes, rest, types, SignInInv, Signing!Locals, Signing!Idle
    <3> QED BY ONLY <1>0, <3>1, <3>2 DEF SignInInv
  <2>3. CASE takes
    <3>1. Redeeming' /\ LinksSpent' /\ BornOnce'
      BY <2>1, <2>3, SignInAssumption DEF takes, rest, types, SignInInv, Signing!Locals,
         Signing!Idle
    <3>2. Credited' /\ Rewarded'
      BY <2>1, <2>3, SignInAssumption DEF takes, rest, types, SignInInv, Signing!Locals,
         Signing!Idle
    <3> QED BY ONLY <1>0, <3>1, <3>2 DEF SignInInv
  <2> QED BY <2>1, <2>2, <2>3
<1>9. ASSUME NEW h \in Handlers, Signing!SaveProfile(h)
      PROVE  SignInInv'
  <2>1. Redeeming' /\ LinksSpent' /\ BornOnce'
    BY <1>9, SignInAssumption DEF SignInInv, Signing!TypeOK, Signing!Locals, Signing!SaveProfile,
       Signing!Idle, Signing!Fault
  <2>2. Credited' /\ Rewarded'
    BY <1>9, SignInAssumption DEF SignInInv, Signing!TypeOK, Signing!Locals, Signing!SaveProfile,
       Signing!Idle, Signing!Fault
  <2> QED BY ONLY <1>0, <2>1, <2>2 DEF SignInInv
<1>10. ASSUME NEW h \in Handlers, Signing!Die(h)
      PROVE  SignInInv'
  <2>1. Redeeming' /\ LinksSpent' /\ BornOnce'
    BY <1>10, SignInAssumption DEF SignInInv, Signing!TypeOK, Signing!Locals, Signing!Die,
       Signing!Fault, Signing!Idle
  <2>2. Credited' /\ Rewarded'
    BY <1>10, SignInAssumption DEF SignInInv, Signing!TypeOK, Signing!Locals, Signing!Die,
       Signing!Fault, Signing!Idle
  <2> QED BY ONLY <1>0, <2>1, <2>2 DEF SignInInv
<1>11. ASSUME NEW h \in Handlers, NEW side \in Signing!Sides, Signing!GrantBonus(h, side)
      PROVE  SignInInv'
  <2> DEFINE who == IF side = "invitee" THEN x9[h].addr ELSE Host
             rest == x9[h].bonus \ {side}
             next == IF rest = {} THEN "save" ELSE "bonus"
  <2>1. /\ x9 \in [Handlers -> Signing!Locals] /\ x9[h].pc = "bonus" /\ side \in x9[h].bonus
        /\ x9' = [x9 EXCEPT ![h].bonus = rest, ![h].pc = next]
        /\ UNCHANGED <<x1, x2, x3, x4, x5, x7, x8, x10, x11>>
    BY <1>11 DEF SignInInv, Signing!TypeOK, Signing!GrantBonus
  <2>2. \A t \in x6' : t \in x6 \/ (t.ref = side /\ t.to = who)
    BY <1>11 DEF Signing!GrantBonus
  <2>3. \A g \in Handlers :
           /\ x9'[g].link = x9[g].link /\ x9'[g].addr = x9[g].addr /\ x9'[g].created = x9[g].created
           /\ x9'[g].pc = (IF g = h THEN next ELSE x9[g].pc)
           /\ x9'[g].bonus = (IF g = h THEN rest ELSE x9[g].bonus)
    BY <2>1 DEF Signing!Locals
  <2> HIDE DEF rest, who
  <2>4. Redeeming' /\ LinksSpent' /\ BornOnce'
    BY <2>1, <2>3, SMTT(30) DEF SignInInv, Redeeming, LinksSpent, BornOnce, Past, Signing!SignInSteps
  <2>5. Credited'
    BY <2>1, <2>3, SMTT(30) DEF SignInInv, Credited, Past, Signing!SignInSteps
  <2>6. Rewarded'
    <3>1. \A g \in Handlers : x9'[g].bonus # {} => x9'[g].pc = "bonus" /\ x9'[g].addr = x5'.by
      BY <2>1, <2>3 DEF SignInInv, Rewarded, rest
    <3>2. x9[h].addr = x5.by /\ x5.by # NoOne
      BY <2>1 DEF SignInInv, Rewarded, LinksSpent, Past, Signing!SignInSteps
    <3>3. \A t \in x6' : t.ref \in Signing!Sides =>
             x5'.by # NoOne /\ t.to = IF t.ref = "invitee" THEN x5'.by ELSE Host
      BY <2>1, <2>2, <3>2 DEF SignInInv, Rewarded, who
    <3> QED BY <3>1, <3>3 DEF Rewarded
  <2> QED BY ONLY <1>0, <2>4, <2>5, <2>6 DEF SignInInv
<1>12. ASSUME NEW h \in Handlers, Signing!AskWithdraw(h)
      PROVE  SignInInv'
  <2>1. Redeeming' /\ LinksSpent' /\ BornOnce'
    BY <1>12, SignInAssumption DEF SignInInv, Signing!TypeOK, Signing!Locals, Signing!AskWithdraw,
       Signing!Request, Signing!Idle, Signing!Goto
  <2>2. Credited' /\ Rewarded'
    BY <1>12, SignInAssumption DEF SignInInv, Signing!TypeOK, Signing!Locals, Signing!AskWithdraw,
       Signing!Request, Signing!Idle, Signing!Goto
  <2> QED BY ONLY <1>0, <2>1, <2>2 DEF SignInInv
<1>13. ASSUME NEW h \in Handlers, Signing!Withdraw(h)
      PROVE  SignInInv'
  <2>1. Redeeming' /\ LinksSpent' /\ BornOnce'
    BY <1>13, SignInAssumption DEF SignInInv, Signing!TypeOK, Signing!Locals, Signing!Withdraw,
       Signing!Idle
  <2>2. Credited' /\ Rewarded'
    BY <1>13, SignInAssumption DEF SignInInv, Signing!TypeOK, Signing!Locals, Signing!Withdraw,
       Signing!Idle
  <2> QED BY ONLY <1>0, <2>1, <2>2 DEF SignInInv
<1>14. ASSUME NEW h \in Handlers, NEW a \in Signing!Addresses, Signing!AskRedeem(h, a)
      PROVE  SignInInv'
  <2>1. Redeeming' /\ LinksSpent' /\ BornOnce'
    BY <1>14, SignInAssumption DEF SignInInv, Signing!TypeOK, Signing!Locals, Signing!AskRedeem,
       Signing!Request, Signing!Idle
  <2>2. Credited' /\ Rewarded'
    BY <1>14, SignInAssumption DEF SignInInv, Signing!TypeOK, Signing!Locals, Signing!AskRedeem,
       Signing!Request, Signing!Idle
  <2> QED BY ONLY <1>0, <2>1, <2>2 DEF SignInInv
<1>15. ASSUME NEW h \in Handlers, Signing!SpendCode(h)
      PROVE  SignInInv'
  <2> DEFINE goes == x9' = [x9 EXCEPT ![h].pc = "days"]
             ends == x9' = [x9 EXCEPT ![h] = Signing!Idle]
             rest == UNCHANGED <<x1, x2, x3, x4, x5, x6, x8, x10, x11, x12,
                      x13>> /\ x9[h].pc = "spend"
             types == x9 \in [Handlers -> Signing!Locals]
  <2>1. types /\ rest /\ (goes \/ ends)
    BY <1>15 DEF SignInInv, Signing!TypeOK, Signing!SpendCode, Signing!Goto
  <2> HIDE DEF goes, ends, rest, types
  <2>2. CASE goes
    <3>1. Redeeming' /\ LinksSpent' /\ BornOnce'
      BY <2>1, <2>2, SignInAssumption DEF goes, rest, types, SignInInv, Signing!Locals, Signing!Idle
    <3>2. Credited' /\ Rewarded'
      BY <2>1, <2>2, SignInAssumption DEF goes, rest, types, SignInInv, Signing!Locals, Signing!Idle
    <3> QED BY ONLY <1>0, <3>1, <3>2 DEF SignInInv
  <2>3. CASE ends
    <3>1. Redeeming' /\ LinksSpent' /\ BornOnce'
      BY <2>1, <2>3, SignInAssumption DEF ends, rest, types, SignInInv, Signing!Locals, Signing!Idle
    <3>2. Credited' /\ Rewarded'
      BY <2>1, <2>3, SignInAssumption DEF ends, rest, types, SignInInv, Signing!Locals, Signing!Idle
    <3> QED BY ONLY <1>0, <3>1, <3>2 DEF SignInInv
  <2> QED BY <2>1, <2>2, <2>3
<1>16. ASSUME NEW h \in Handlers, Signing!GrantDays(h)
      PROVE  SignInInv'
  <2>1. Redeeming' /\ LinksSpent' /\ BornOnce'
    BY <1>16, SignInAssumption DEF SignInInv, Signing!TypeOK, Signing!Locals, Signing!GrantDays,
       Signing!Idle
  <2>2. Credited' /\ Rewarded'
    BY <1>16, SignInAssumption DEF SignInInv, Signing!TypeOK, Signing!Locals, Signing!GrantDays,
       Signing!Idle
  <2> QED BY ONLY <1>0, <2>1, <2>2 DEF SignInInv
<1>20. CASE UNCHANGED Signing!vars
  BY <1>20, <1>0 DEF Signing!vars, SignInInv
<1> QED BY <1>20, <1>1, <1>2, <1>3, <1>4, <1>5, <1>6, <1>7, <1>8, <1>9, <1>10, <1>11, <1>12, <1>13,
   <1>14, <1>15, <1>16 DEF Signing!Next

\* What the invariant says of the property.
LEMMA SignInCounts == SignInInv => Signing!CountedOnce
<1> SUFFICES ASSUME SignInInv PROVE Signing!CountedOnce
  OBVIOUS
<1>1. Signing!LinkSpentOnce
  BY DEF SignInInv, LinksSpent, Past, Signing!LinkSpentOnce
<1>2. Signing!CreatedOnce
  BY DEF SignInInv, BornOnce, Signing!CreatedOnce
<1>3. Signing!CreditIsOfTheBirth
  BY DEF SignInInv, Credited, Signing!CreditIsOfTheBirth
<1>4. Signing!BonusOnce
  <2> SUFFICES ASSUME NEW side \in Signing!Sides
               PROVE  LET given == {t \in x6 : t.ref = side}
                      IN  Signing!Cardinality(given) <= 1 /\ (given # {} => x5.by # NoOne)
    BY DEF Signing!BonusOnce
  <2> DEFINE given == {t \in x6 : t.ref = side}
             only == [ref |-> side, to |-> IF side = "invitee" THEN x5.by ELSE Host]
  <2>1. \A t \in given : t = only /\ x5.by # NoOne
    BY DEF SignInInv, Signing!TypeOK, Rewarded
  <2>2. given \subseteq {only} /\ (given # {} => x5.by # NoOne)
    BY <2>1
  <2> HIDE DEF given, only
  <2>3. Cardinality(given) <= Cardinality({only}) /\ Cardinality({only}) = 1
    BY <2>2, FS_Singleton, FS_Subset
  <2>4. Signing!Cardinality(given) <= 1
    BY <2>3, SameCardinality
  <2> QED BY <2>2, <2>4 DEF given
<1> QED BY <1>1, <1>2, <1>3, <1>4 DEF Signing!CountedOnce

\* The steps of a sign-in with CoinPay.
Working == {"connect", "taken", "join", "login", "create", "link", "delete", "again"}
\* Where a request may be, and what it then holds.
CoinpaySteps == {"idle", "leave", "unlink"} \cup Working
CoinpayLocals == [pc : CoinpaySteps, sub : Subs \cup {NoOne}, user : Coinpay!Accounts \cup {NoOne}]

\* A sign-in knows its sub; a request that links or deletes does so to an account that it
\* made; a disconnect that was let through is not of such an account.
CoinpayRoles ==
    \A r \in Requests :
        /\ x3[r].pc \in Working => x3[r].sub \in Subs
        /\ x3[r].pc \in {"connect", "taken", "join", "leave", "unlink"} => x3[r].user \in Coinpay!Accounts
        /\ x3[r].pc \in {"link", "delete"} => x3[r].user \in Fresh
        /\ x3[r].pc = "unlink" => x3[r].user \notin Fresh

\* The inductive invariant of CoinpayIdentity: the property, with what the requests carry.
CoinpayInv == Coinpay!TypeOK /\ CoinpayRoles /\ Coinpay!IdentitiesHold

\* At the start no sub is bound.
LEMMA CoinpayInit == Coinpay!Init => CoinpayInv
  BY CoinpayAssumption DEF Coinpay!Init, CoinpayInv, Coinpay!TypeOK, Coinpay!Idle, CoinpayRoles,
     Working, Coinpay!IdentitiesHold, Coinpay!OneHome, Coinpay!PlaceholdersReachable,
     Coinpay!Accounts

\* Every step of the CoinPay routes keeps the invariant.
LEMMA CoinpayStep == ASSUME CoinpayInv, [Coinpay!Next]_(Coinpay!vars) PROVE CoinpayInv'
<1>a. /\ x1 \subseteq Coinpay!Accounts /\ x2 \in [Subs -> Coinpay!Accounts \cup {NoOne}]
      /\ x3 \in [Requests -> CoinpayLocals] /\ x4 \in [Subs -> SUBSET Coinpay!Accounts]
      /\ x5 \subseteq Fresh /\ x6 \in 0..MaxInputs /\ x7 \in 0..CoinpayFaults
  BY DEF CoinpayInv, Coinpay!TypeOK, CoinpayLocals, CoinpaySteps, Working
<1>b. Coinpay!Idle \in CoinpayLocals
  BY DEF Coinpay!Idle, CoinpayLocals, CoinpaySteps
<1> USE DEF CoinpayInv, CoinpayRoles
<1>1. ASSUME NEW r \in Requests, NEW s \in Subs, NEW u \in Coinpay!Accounts \cup {NoOne},
             Coinpay!Callback(r, s, u)
      PROVE  CoinpayInv'
  <2> USE <1>a, <1>1, CoinpayAssumption DEF Coinpay!Callback, Coinpay!Idle, CoinpayLocals, Working
  <2>1. (x3 \in [Requests -> CoinpayLocals])'
    BY <1>b, SMTT(30) DEF CoinpaySteps
  <2>2. CoinpayRoles'
    BY DEF Coinpay!Accounts
  <2>3. Coinpay!TypeOK'
    BY <2>1 DEF Coinpay!TypeOK, CoinpaySteps
  <2>4. Coinpay!IdentitiesHold'
    BY DEF Coinpay!IdentitiesHold, Coinpay!OneHome, Coinpay!PlaceholdersReachable, Coinpay!Bound,
       Coinpay!Accounts
  <2> QED BY ONLY <2>2, <2>3, <2>4 DEF CoinpayInv
<1>2. ASSUME NEW r \in Requests, Coinpay!Connect(r) PROVE CoinpayInv'
  <2> USE <1>a, <1>2, CoinpayAssumption DEF Coinpay!Connect, Coinpay!Goto, Coinpay!End,
     Coinpay!Resolve, Coinpay!Idle, CoinpayLocals, Working
  <2>1. (x3 \in [Requests -> CoinpayLocals])'
    BY <1>b, SMTT(30) DEF CoinpaySteps
  <2>2. CoinpayRoles'
    BY DEF Coinpay!Accounts
  <2>3. Coinpay!TypeOK'
    BY <2>1 DEF Coinpay!TypeOK, CoinpaySteps
  <2>4. Coinpay!IdentitiesHold'
    BY DEF Coinpay!IdentitiesHold, Coinpay!OneHome, Coinpay!PlaceholdersReachable, Coinpay!Bound,
       Coinpay!Accounts
  <2> QED BY ONLY <2>2, <2>3, <2>4 DEF CoinpayInv
<1>3. ASSUME NEW r \in Requests, Coinpay!Taken(r) PROVE CoinpayInv'
  <2> USE <1>a, <1>3, CoinpayAssumption DEF Coinpay!Taken, Coinpay!Goto, Coinpay!End, Coinpay!Idle,
     CoinpayLocals, Working
  <2>1. (x3 \in [Requests -> CoinpayLocals])'
    BY <1>b, SMTT(30) DEF CoinpaySteps
  <2>2. CoinpayRoles'
    BY DEF Coinpay!Accounts
  <2>3. Coinpay!TypeOK'
    BY <2>1 DEF Coinpay!TypeOK, CoinpaySteps
  <2>4. Coinpay!IdentitiesHold'
    BY DEF Coinpay!IdentitiesHold, Coinpay!OneHome, Coinpay!PlaceholdersReachable, Coinpay!Bound,
       Coinpay!Accounts
  <2> QED BY ONLY <2>2, <2>3, <2>4 DEF CoinpayInv
<1>4. ASSUME NEW r \in Requests, Coinpay!Join(r) PROVE CoinpayInv'
  <2> USE <1>a, <1>4, CoinpayAssumption DEF Coinpay!Join, Coinpay!End, Coinpay!Attaches,
     Coinpay!Resolve, Coinpay!Idle, CoinpayLocals, Working
  <2>1. (x3 \in [Requests -> CoinpayLocals])'
    BY <1>b, SMTT(30) DEF CoinpaySteps
  <2>2. CoinpayRoles'
    BY DEF Coinpay!Accounts
  <2>3. Coinpay!TypeOK'
    BY <2>1 DEF Coinpay!TypeOK, CoinpaySteps
  <2>4. Coinpay!IdentitiesHold'
    BY DEF Coinpay!IdentitiesHold, Coinpay!OneHome, Coinpay!PlaceholdersReachable, Coinpay!Bound,
       Coinpay!Accounts
  <2> QED BY ONLY <2>2, <2>3, <2>4 DEF CoinpayInv
<1>5. ASSUME NEW r \in Requests, Coinpay!Login(r) PROVE CoinpayInv'
  <2> USE <1>a, <1>5, CoinpayAssumption DEF Coinpay!Login, Coinpay!End, Coinpay!Goto,
     Coinpay!Resolve, Coinpay!Idle, CoinpayLocals, Working
  <2>1. (x3 \in [Requests -> CoinpayLocals])'
    BY <1>b, SMTT(30) DEF CoinpaySteps
  <2>2. CoinpayRoles'
    BY DEF Coinpay!Accounts
  <2>3. Coinpay!TypeOK'
    BY <2>1 DEF Coinpay!TypeOK, CoinpaySteps
  <2>4. Coinpay!IdentitiesHold'
    BY DEF Coinpay!IdentitiesHold, Coinpay!OneHome, Coinpay!PlaceholdersReachable, Coinpay!Bound,
       Coinpay!Accounts
  <2> QED BY ONLY <2>2, <2>3, <2>4 DEF CoinpayInv
<1>6. ASSUME NEW r \in Requests, Coinpay!Link(r) PROVE CoinpayInv'
  <2> USE <1>a, <1>6, CoinpayAssumption DEF Coinpay!Link, Coinpay!End, Coinpay!Attaches, Coinpay!Goto,
     Coinpay!Resolve, Coinpay!Idle, Coinpay!AfterConflict, CoinpayLocals, Working
  <2>1. (x3 \in [Requests -> CoinpayLocals])'
    BY <1>b, SMTT(30) DEF CoinpaySteps
  <2>2. CoinpayRoles'
    BY DEF Coinpay!Accounts
  <2>3. Coinpay!TypeOK'
    BY <2>1 DEF Coinpay!TypeOK, CoinpaySteps
  <2>4. Coinpay!IdentitiesHold'
    BY DEF Coinpay!IdentitiesHold, Coinpay!OneHome, Coinpay!PlaceholdersReachable, Coinpay!Bound,
       Coinpay!Accounts
  <2> QED BY ONLY <2>2, <2>3, <2>4 DEF CoinpayInv
<1>7. ASSUME NEW r \in Requests, Coinpay!DeleteUser(r) PROVE CoinpayInv'
  <2> USE <1>a, <1>7, CoinpayAssumption DEF Coinpay!DeleteUser, CoinpayLocals, Working
  <2>1. (x3 \in [Requests -> CoinpayLocals])'
    BY <1>b, SMTT(30) DEF CoinpaySteps
  <2>2. CoinpayRoles'
    BY DEF Coinpay!Accounts
  <2>3. Coinpay!TypeOK'
    BY <2>1 DEF Coinpay!TypeOK, CoinpaySteps
  <2>4. Coinpay!IdentitiesHold'
    BY DEF Coinpay!IdentitiesHold, Coinpay!OneHome, Coinpay!PlaceholdersReachable, Coinpay!Bound,
       Coinpay!Accounts
  <2> QED BY ONLY <2>2, <2>3, <2>4 DEF CoinpayInv
<1>8. ASSUME NEW r \in Requests, NEW u \in Fresh, Coinpay!CreateUser(r, u) PROVE CoinpayInv'
  <2>a. u \in Coinpay!Accounts
    BY DEF Coinpay!Accounts
  <2> USE <1>a, <1>8, <2>a, CoinpayAssumption DEF Coinpay!CreateUser, CoinpayLocals, Working
  <2>1. (x3 \in [Requests -> CoinpayLocals])'
    BY <1>b, ZenonT(40) DEF CoinpaySteps
  <2>2. CoinpayRoles'
    BY DEF Coinpay!Accounts
  <2>3. Coinpay!TypeOK'
    BY <2>1 DEF Coinpay!TypeOK, CoinpaySteps
  <2>4. Coinpay!IdentitiesHold'
    BY DEF Coinpay!IdentitiesHold, Coinpay!OneHome, Coinpay!PlaceholdersReachable, Coinpay!Bound,
       Coinpay!Accounts
  <2> QED BY ONLY <2>2, <2>3, <2>4 DEF CoinpayInv
<1>9. ASSUME NEW r \in Requests, Coinpay!Again(r) PROVE CoinpayInv'
  <2> USE <1>a, <1>9, CoinpayAssumption DEF Coinpay!Again, Coinpay!End, Coinpay!Resolve,
     Coinpay!Idle, CoinpayLocals, Working
  <2>1. (x3 \in [Requests -> CoinpayLocals])'
    BY <1>b, SMTT(30) DEF CoinpaySteps
  <2>2. CoinpayRoles'
    BY DEF Coinpay!Accounts
  <2>3. Coinpay!TypeOK'
    BY <2>1 DEF Coinpay!TypeOK, CoinpaySteps
  <2>4. Coinpay!IdentitiesHold'
    BY DEF Coinpay!IdentitiesHold, Coinpay!OneHome, Coinpay!PlaceholdersReachable, Coinpay!Bound,
       Coinpay!Accounts
  <2> QED BY ONLY <2>2, <2>3, <2>4 DEF CoinpayInv
<1>10. ASSUME NEW r \in Requests, Coinpay!Leave(r) PROVE CoinpayInv'
  <2> USE <1>a, <1>10, CoinpayAssumption DEF Coinpay!Leave, Coinpay!MayLeave, Coinpay!Goto,
     Coinpay!End, Coinpay!Idle, CoinpayLocals, Working
  <2>1. (x3 \in [Requests -> CoinpayLocals])'
    BY <1>b, SMTT(30) DEF CoinpaySteps
  <2>2. CoinpayRoles'
    BY DEF Coinpay!Accounts
  <2>3. Coinpay!TypeOK'
    BY <2>1 DEF Coinpay!TypeOK, CoinpaySteps
  <2>4. Coinpay!IdentitiesHold'
    BY DEF Coinpay!IdentitiesHold, Coinpay!OneHome, Coinpay!PlaceholdersReachable, Coinpay!Bound,
       Coinpay!Accounts
  <2> QED BY ONLY <2>2, <2>3, <2>4 DEF CoinpayInv
<1>11. ASSUME NEW r \in Requests, Coinpay!Unlink(r) PROVE CoinpayInv'
  <2> USE <1>a, <1>11, CoinpayAssumption DEF Coinpay!Unlink, Coinpay!End, Coinpay!Idle,
     CoinpayLocals, Working
  <2>1. (x3 \in [Requests -> CoinpayLocals])'
    BY <1>b, SMTT(30) DEF CoinpaySteps
  <2>2. CoinpayRoles'
    BY DEF Coinpay!Accounts
  <2>3. Coinpay!TypeOK'
    BY <2>1 DEF Coinpay!TypeOK, CoinpaySteps
  <2>4. Coinpay!IdentitiesHold'
    BY DEF Coinpay!IdentitiesHold, Coinpay!OneHome, Coinpay!PlaceholdersReachable, Coinpay!Bound,
       Coinpay!Accounts
  <2> QED BY ONLY <2>2, <2>3, <2>4 DEF CoinpayInv
<1>12. ASSUME NEW r \in Requests, Coinpay!Die(r) PROVE CoinpayInv'
  <2> USE <1>a, <1>12, CoinpayAssumption DEF Coinpay!Die, Coinpay!End, Coinpay!Idle, CoinpayLocals,
     Working
  <2>1. (x3 \in [Requests -> CoinpayLocals])'
    BY <1>b, SMTT(30) DEF CoinpaySteps
  <2>2. CoinpayRoles'
    BY DEF Coinpay!Accounts
  <2>3. Coinpay!TypeOK'
    BY <2>1 DEF Coinpay!TypeOK, CoinpaySteps
  <2>4. Coinpay!IdentitiesHold'
    BY DEF Coinpay!IdentitiesHold, Coinpay!OneHome, Coinpay!PlaceholdersReachable, Coinpay!Bound,
       Coinpay!Accounts
  <2> QED BY ONLY <2>2, <2>3, <2>4 DEF CoinpayInv
<1>13. ASSUME NEW r \in Requests, NEW u \in Coinpay!Accounts, Coinpay!AskDisconnect(r, u)
      PROVE  CoinpayInv'
  <2> USE <1>a, <1>13, CoinpayAssumption DEF Coinpay!AskDisconnect, Coinpay!Idle, CoinpayLocals,
     Working
  <2>1. (x3 \in [Requests -> CoinpayLocals])'
    BY <1>b, SMTT(30) DEF CoinpaySteps
  <2>2. CoinpayRoles'
    BY DEF Coinpay!Accounts
  <2>3. Coinpay!TypeOK'
    BY <2>1 DEF Coinpay!TypeOK, CoinpaySteps
  <2>4. Coinpay!IdentitiesHold'
    BY DEF Coinpay!IdentitiesHold, Coinpay!OneHome, Coinpay!PlaceholdersReachable, Coinpay!Bound,
       Coinpay!Accounts
  <2> QED BY ONLY <2>2, <2>3, <2>4 DEF CoinpayInv
<1>20. CASE UNCHANGED Coinpay!vars
  BY <1>20 DEF Coinpay!vars, CoinpayInv, Coinpay!TypeOK, CoinpayRoles, Coinpay!IdentitiesHold,
     Coinpay!OneHome, Coinpay!PlaceholdersReachable, Coinpay!Bound
<1> QED BY <1>20, <1>1, <1>2, <1>3, <1>4, <1>5, <1>6, <1>7, <1>8, <1>9, <1>10, <1>11, <1>12,
   <1>13 DEF Coinpay!Next

(*************************************************************************)
(* Credit codes and scarce invites (the two instances of Codes).            *)
(*************************************************************************)
LEMMA SameCount ==
    ASSUME NEW S
    PROVE  Coded!Cardinality(S) = Cardinality(S) /\ Invited!Cardinality(S) = Cardinality(S)
  BY Zenon DEF Coded!Cardinality, Invited!Cardinality, Cardinality

\* The fields of a request.
CreditFields == {"step", "by", "id", "unit"}

\* A code is claimed by no more accounts than it was made for, and by none before it is made.
ClaimsBounded ==
    \A i \in CodeIds :
        /\ x2[i].takers \subseteq Redeemers /\ IsFiniteSet(x2[i].takers)
        /\ Cardinality(x2[i].takers) <= CodeUses
        /\ x2[i].unit \in Coded!Units \cup {NoOne}
        /\ x2[i].unit = NoOne => x2[i].takers = {}

\* A request redeems a code whose days can be used here, and grants what it has claimed.
ClaimsCarried ==
    \A h \in Clerks :
        /\ x5[h].step \in {"idle", "redeem", "grant"}
        /\ x5[h].step = "redeem" =>
              /\ x5[h].id \in CodeIds /\ x5[h].by \in Redeemers
              /\ x2[x5[h].id].unit # NoOne /\ Coded!Usable(x2[x5[h].id].unit)
        /\ x5[h].step = "grant" =>
              /\ x5[h].id \in CodeIds /\ x5[h].by \in x2[x5[h].id].takers
              /\ x5[h].unit = x2[x5[h].id].unit

\* Days are those of a code its account has claimed.
DaysClaimed ==
    \A t \in x4 : \E i \in CodeIds :
        t = [user |-> t.user, unit |-> x2[i].unit, ref |-> <<"code", i, "self">>] /\ t.user \in x2[i].takers

\* What keeps codes scarce: CodesAreBounded speaks of the days only, and they follow the claims.
CodedInv ==
    /\ x2 \in [CodeIds -> [unit : Coded!Units \cup {NoOne}, takers : SUBSET Redeemers, over : BOOLEAN]]
    /\ DOMAIN x5 = Clerks
    /\ \A h \in Clerks : DOMAIN x5[h] = CreditFields
    /\ ClaimsBounded /\ ClaimsCarried /\ DaysClaimed

\* No code is made at the start.
LEMMA CodedInit == Coded!Init => CodedInv
<1> SUFFICES ASSUME Coded!Init PROVE CodedInv OBVIOUS
<1>1. \A i \in CodeIds : x2[i] = [unit |-> NoOne, takers |-> {}, over |-> FALSE]
  BY DEF Coded!Init, Coded!NoCode
<1>2. x2 \in [CodeIds -> [unit : Coded!Units \cup {NoOne}, takers : SUBSET Redeemers, over : BOOLEAN]]
  BY DEF Coded!Init, Coded!NoCode
<1>3. ClaimsBounded
  BY <1>1, FS_EmptySet, CodesAssumption DEF ClaimsBounded
<1>4. ClaimsCarried /\ DOMAIN x5 = Clerks /\ \A h \in Clerks : DOMAIN x5[h] = CreditFields
  BY DEF Coded!Init, Coded!Idle, ClaimsCarried, CreditFields
<1>5. DaysClaimed
  BY DEF Coded!Init, DaysClaimed
<1> QED BY <1>2, <1>3, <1>4, <1>5 DEF CodedInv

\* A request that is not served any more carries nothing.
LEMMA CodedIdle == Coded!Idle.step = "idle" /\ DOMAIN Coded!Idle = CreditFields
  BY DEF Coded!Idle, CreditFields

\* Every step keeps the invariant.
LEMMA CodedStep == ASSUME CodedInv, [Coded!Next]_(Coded!vars) PROVE CodedInv'
<1> DEFINE Rec == [unit : Coded!Units \cup {NoOne}, takers : SUBSET Redeemers, over : BOOLEAN]
<1>0. /\ x2 \in [CodeIds -> Rec] /\ DOMAIN x5 = Clerks /\ \A h \in Clerks : DOMAIN x5[h] = CreditFields
      /\ ClaimsBounded /\ ClaimsCarried /\ DaysClaimed
  BY DEF CodedInv
<1>c. NoOne \notin Coded!Units
  BY CodesAssumption DEF Coded!Units
<1>1. ASSUME NEW i \in CodeIds, NEW unit \in Coded!Units, Coded!Mint(i, unit) PROVE CodedInv'
  <2>1. x2[i].unit = NoOne /\ x2' = [x2 EXCEPT ![i].unit = unit] /\ UNCHANGED <<x1, x3, x4, x5, x6, x7>>
    BY <1>1 DEF Coded!Mint
  <2>2. x2' \in [CodeIds -> Rec]
    BY <1>0, <2>1
  <2>3. \A j \in CodeIds : x2'[j].takers = x2[j].takers /\ (j # i => x2'[j] = x2[j]) /\ x2'[i].unit = unit
    BY <1>0, <2>1
  <2>4. x2[i].takers = {}
    BY <1>0, <2>1 DEF ClaimsBounded
  <2>5. ClaimsBounded'
    BY <1>0, <2>3, <2>4, <1>c DEF ClaimsBounded
  <2>6. ClaimsCarried'
    BY <1>0, <2>1, <2>3, <2>4 DEF ClaimsCarried, Coded!Usable
  <2>7. DaysClaimed'
    BY <1>0, <2>1, <2>3, <2>4 DEF DaysClaimed
  <2> QED BY <1>0, <2>1, <2>2, <2>5, <2>6, <2>7 DEF CodedInv
<1>2. ASSUME NEW i \in CodeIds, Coded!Withhold(i) PROVE CodedInv'
  <2>1. x2' = [x2 EXCEPT ![i].over = TRUE] /\ UNCHANGED <<x1, x3, x4, x5, x6, x7>>
    BY <1>2 DEF Coded!Withhold
  <2>2. x2' \in [CodeIds -> Rec] /\ \A j \in CodeIds : x2'[j].takers = x2[j].takers /\ x2'[j].unit = x2[j].unit
    BY <1>0, <2>1
  <2>3. ClaimsBounded' /\ ClaimsCarried' /\ DaysClaimed'
    BY <1>0, <2>1, <2>2 DEF ClaimsBounded, ClaimsCarried, DaysClaimed, Coded!Usable
  <2> QED BY <1>0, <2>1, <2>2, <2>3 DEF CodedInv
<1>3. ASSUME NEW u \in Redeemers, NEW i \in CodeIds, Coded!GrantByHand(u, i) PROVE CodedInv'
  <2>1. /\ u \in x2[i].takers /\ UNCHANGED <<x1, x2, x3, x5, x6, x7>>
        /\ x4' = x4 \cup {[user |-> u, unit |-> x2[i].unit, ref |-> <<"code", i, "self">>]}
    BY <1>3 DEF Coded!GrantByHand, Coded!Granted
  <2>2. DaysClaimed'
    BY <1>0, <2>1 DEF DaysClaimed
  <2> QED BY <1>0, <2>1, <2>2 DEF CodedInv, ClaimsBounded, ClaimsCarried, Coded!Usable
<1>4. ASSUME NEW h \in Clerks, NEW u \in Redeemers, NEW i \in CodeIds, Coded!AskRedeem(h, u, i) PROVE CodedInv'
  <2> DEFINE asked == [Coded!Idle EXCEPT !.step = "redeem", !.by = u, !.id = i]
  <2>1. /\ x2[i].unit # NoOne /\ UNCHANGED <<x1, x2, x3, x4, x7>>
        /\ \/ x5' = [x5 EXCEPT ![h] = Coded!Idle]
           \/ x5' = [x5 EXCEPT ![h] = asked] /\ Coded!Usable(x2[i].unit)
    BY <1>4 DEF Coded!AskRedeem
  <2>2. asked.step = "redeem" /\ asked.by = u /\ asked.id = i /\ DOMAIN asked = CreditFields
    BY DEF Coded!Idle, CreditFields
  <2> HIDE DEF asked
  <2>3. ClaimsCarried' /\ DOMAIN x5' = Clerks /\ \A g \in Clerks : DOMAIN x5'[g] = CreditFields
    BY <1>0, <2>1, <2>2, CodedIdle DEF ClaimsCarried, Coded!Usable
  <2> QED BY <1>0, <2>1, <2>3 DEF CodedInv, ClaimsBounded, DaysClaimed
<1>5. ASSUME NEW h \in Clerks, Coded!Redeem(h) PROVE CodedInv'
  <2> DEFINE i == x5[h].id u == x5[h].by
  <2>1. i \in CodeIds /\ u \in Redeemers /\ x2[i].unit # NoOne /\ x5[h].step = "redeem"
    BY <1>0, <1>5 DEF ClaimsCarried, Coded!Redeem
  <2>2. UNCHANGED <<x1, x3, x4, x6, x7>>
    BY <1>5 DEF Coded!Redeem
  <2>3. CASE ~x2[i].over /\ Coded!Free(i, u)
    <3> DEFINE more == x2[i].takers \cup {u}
    <3>1. /\ x2' = [x2 EXCEPT ![i].takers = more]
          /\ x5' = [x5 EXCEPT ![h].step = "grant", ![h].unit = x2[i].unit]
      BY <2>3, <1>5 DEF Coded!Redeem
    <3>2. u \notin x2[i].takers /\ Cardinality(x2[i].takers) < CodeUses
      BY <2>3, SameCount DEF Coded!Free
    <3>3. IsFiniteSet(more) /\ Cardinality(more) <= CodeUses
      <4>1. IsFiniteSet(x2[i].takers)
        BY <1>0, <2>1 DEF ClaimsBounded
      <4>2. Cardinality(x2[i].takers) \in Nat
        BY <4>1, FS_CardinalityType
      <4>3. IsFiniteSet(more) /\ Cardinality(more) = Cardinality(x2[i].takers) + 1
        BY <3>2, <4>1, FS_AddElement
      <4> HIDE DEF more
      <4> QED BY <3>2, <4>2, <4>3, CodesAssumption
    <3>4. /\ x2' \in [CodeIds -> Rec]
          /\ \A j \in CodeIds : x2'[j].unit = x2[j].unit /\ x2'[j].takers = IF j = i THEN more ELSE x2[j].takers
      BY <1>0, <2>1, <3>1
    <3>5. \A g \in Clerks :
             /\ DOMAIN x5'[g] = CreditFields /\ (g # h => x5'[g] = x5[g]) /\ x5'[h].step = "grant"
             /\ x5'[h].unit = x2[i].unit /\ x5'[h].id = i /\ x5'[h].by = u
      BY <1>0, <3>1 DEF CreditFields
    <3>6. u \in more /\ x2[i].takers \subseteq more /\ more \subseteq Redeemers
      BY <1>0, <2>1 DEF ClaimsBounded
    <3>7. DOMAIN x5' = Clerks
      BY <1>0, <3>1
    <3> HIDE DEF more, i, u
    <3>8. ClaimsBounded'
      BY <1>0, <2>1, <3>3, <3>4, <3>6 DEF ClaimsBounded
    <3>9. ClaimsCarried'
      BY <1>0, <2>1, <2>2, <3>4, <3>5, <3>6 DEF ClaimsCarried, Coded!Usable
    <3>10. DaysClaimed'
      BY <1>0, <2>1, <2>2, <3>4, <3>6 DEF DaysClaimed
    <3> QED BY <3>4, <3>5, <3>7, <3>8, <3>9, <3>10 DEF CodedInv
  <2>4. CASE ~(~x2[i].over /\ Coded!Free(i, u))
    <3>1. x5' = [x5 EXCEPT ![h] = Coded!Idle] /\ x2' = x2
      BY <2>4, <1>5 DEF Coded!Redeem, Coded!Done
    <3>2. ClaimsCarried' /\ DOMAIN x5' = Clerks /\ \A g \in Clerks : DOMAIN x5'[g] = CreditFields
      BY <1>0, <2>2, <3>1, CodedIdle DEF ClaimsCarried, Coded!Usable
    <3> QED BY <1>0, <2>2, <3>1, <3>2 DEF CodedInv, ClaimsBounded, DaysClaimed
  <2> QED BY <2>3, <2>4
<1>6. ASSUME NEW h \in Clerks, Coded!Grant(h) PROVE CodedInv'
  <2> DEFINE i == x5[h].id u == x5[h].by
  <2>1. /\ i \in CodeIds /\ u \in x2[i].takers /\ x5[h].unit = x2[i].unit
        /\ x5' = [x5 EXCEPT ![h] = Coded!Idle] /\ UNCHANGED <<x1, x2, x3, x6>>
        /\ \/ x4' = x4 \cup {[user |-> u, unit |-> x2[i].unit, ref |-> <<"code", i, "self">>]}
           \/ x4' = x4
    BY <1>0, <1>6 DEF ClaimsCarried, Coded!Grant, Coded!Granted, Coded!Done
  <2> HIDE DEF i, u
  <2>2. ClaimsCarried' /\ DOMAIN x5' = Clerks /\ \A g \in Clerks : DOMAIN x5'[g] = CreditFields
    BY <1>0, <2>1, CodedIdle DEF ClaimsCarried, Coded!Usable
  <2>3. DaysClaimed'
    BY <1>0, <2>1 DEF DaysClaimed
  <2> QED BY <1>0, <2>1, <2>2, <2>3 DEF CodedInv, ClaimsBounded
<1>7. ASSUME NEW h \in Clerks, Coded!Withdraw(h) \/ Coded!Reward(h) PROVE CodedInv'
  BY <1>0, <1>7 DEF ClaimsCarried, Coded!Withdraw, Coded!Reward
<1>8. CASE Coded!Restart
  <2>1. x5' = [h \in Clerks |-> Coded!Idle] /\ UNCHANGED <<x2, x3, x4, x6>>
    BY <1>8 DEF Coded!Restart
  <2>2. ClaimsCarried' /\ DOMAIN x5' = Clerks /\ \A g \in Clerks : DOMAIN x5'[g] = CreditFields
    BY <2>1, CodedIdle DEF ClaimsCarried
  <2> QED BY <1>0, <2>1, <2>2 DEF CodedInv, ClaimsBounded, DaysClaimed
<1>9. CASE UNCHANGED Coded!vars
  BY <1>0, <1>9 DEF CodedInv, ClaimsBounded, ClaimsCarried, DaysClaimed, Coded!Usable, Coded!vars
<1> QED BY <1>1, <1>2, <1>3, <1>4, <1>5, <1>6, <1>7, <1>8, <1>9 DEF Coded!Next

\* No more days are given of a code than accounts have claimed it.
LEMMA CodesBounded == CodedInv => Coded!CodesAreBounded
<1> SUFFICES ASSUME CodedInv, NEW i \in CodeIds
             PROVE  LET given == {t \in x4 : t.ref = <<"code", i, "self">>} IN
                    /\ Coded!Cardinality(given) <= CodeUses
                    /\ \A t \in given : t.user \in x2[i].takers /\ t.unit = x2[i].unit
  BY DEF Coded!CodesAreBounded
<1> DEFINE given == {t \in x4 : t.ref = <<"code", i, "self">>}
           who == [t \in given |-> t.user]
<1>1. \A t \in given :
         t = [user |-> t.user, unit |-> x2[i].unit, ref |-> <<"code", i, "self">>] /\ t.user \in x2[i].takers
  <2> TAKE t \in given
  <2>1. PICK j \in CodeIds :
           /\ t = [user |-> t.user, unit |-> x2[j].unit, ref |-> <<"code", j, "self">>]
           /\ t.user \in x2[j].takers
    BY DEF CodedInv, DaysClaimed
  <2>2. t.ref = <<"code", j, "self">> /\ t.ref = <<"code", i, "self">>
    BY <2>1
  <2>3. j = i
    BY <2>2
  <2> QED BY <2>1, <2>3
<1>2. who \in Injection(given, x2[i].takers)
  <2>1. who \in [given -> x2[i].takers]
    BY <1>1
  <2>2. ASSUME NEW t \in given, NEW s \in given, who[t] = who[s] PROVE t = s
    BY <1>1, <2>2
  <2> QED BY <2>1, <2>2 DEF Injection, IsInjective
<1>3. IsFiniteSet(x2[i].takers) /\ Cardinality(x2[i].takers) <= CodeUses
  BY DEF CodedInv, ClaimsBounded
<1>4. IsFiniteSet(given) /\ Cardinality(given) <= Cardinality(x2[i].takers)
  BY <1>2, <1>3, FS_Injection
<1>5. Cardinality(given) \in Nat /\ Cardinality(x2[i].takers) \in Nat
  BY <1>3, <1>4, FS_CardinalityType
<1>6. Cardinality(given) <= CodeUses
  <2> HIDE DEF given
  <2> QED BY <1>3, <1>4, <1>5, CodesAssumption
<1>7. Coded!Cardinality(given) <= CodeUses
  BY <1>6, SameCount
<1> QED BY <1>1, <1>7

\* Every step from a state of the invariant is as CodesHold asks.
LEMMA CodedHolds ==
    ASSUME CodedInv, CodedInv', [Coded!Next]_(Coded!vars)
    PROVE  Coded!CodesHoldStep
<1>1. Coded!CodesAreBounded'
  BY CodesBounded, PTL
<1>2. Coded!NothingIsBurnt
  <2> SUFFICES ASSUME NEW i \in CodeIds, x2'[i].takers # x2[i].takers
               PROVE  x2[i].unit = "premium" \/ x1
    BY DEF Coded!NothingIsBurnt
  <2>1. ASSUME NEW h \in Clerks, Coded!Redeem(h) PROVE x2[i].unit = "premium" \/ x1
    <3>1. x5[h].step = "redeem" /\ x5[h].id = i
      BY <2>1 DEF Coded!Redeem, CodedInv
    <3> QED BY <3>1 DEF CodedInv, ClaimsCarried, Coded!Usable
  <2>2. \A j \in CodeIds, unit \in Coded!Units : ~Coded!Mint(j, unit)
    BY DEF Coded!Mint, CodedInv
  <2>3. \A j \in CodeIds : ~Coded!Withhold(j)
    BY DEF Coded!Withhold, CodedInv
  <2> QED BY <2>1, <2>2, <2>3 DEF Coded!Next, Coded!vars, Coded!GrantByHand, Coded!AskRedeem, Coded!Grant,
     Coded!Withdraw, Coded!Reward, Coded!Restart
<1>3. Coded!InvitesAreScarce'
  <2>1. \A u : {i \in Coded!Of(u)' : (x3[i].user)' # NoOne \/ Coded!Status(i)' = "ok"} = {}
    BY DEF Coded!Of
  <2>2. Coded!Cardinality({}) = 0
    BY SameCount, FS_EmptySet
  <2> QED BY <2>1, <2>2 DEF Coded!InvitesAreScarce
<1>4. Coded!OnlyMineWithdrawn
  BY DEF Coded!OnlyMineWithdrawn
<1>5. Coded!BothAreRewarded'
  <2>1. \A t \in x4' : t.ref[1] = "code"
    <3> TAKE t \in x4'
    <3>1. PICK i \in CodeIds : t = [user |-> t.user, unit |-> x2'[i].unit, ref |-> <<"code", i, "self">>]
      BY DEF CodedInv, DaysClaimed
    <3>2. t.ref = <<"code", i, "self">>
      BY <3>1
    <3> QED BY <3>2
  <2> QED BY <2>1 DEF Coded!BothAreRewarded
<1>6. Coded!OneFailureOneSide
  <2>1. Coded!Missed = {} /\ Coded!Missed' = {}
    BY DEF Coded!Missed
  <2>2. Coded!Cardinality({}) = 0
    BY SameCount, FS_EmptySet
  <2>3. Coded!Cardinality(Coded!Missed') <= Coded!Cardinality(Coded!Missed) + 1
    BY <2>1, <2>2
  <2> QED BY <2>3 DEF Coded!OneFailureOneSide
<1> QED BY <1>1, <1>2, <1>3, <1>4, <1>5, <1>6 DEF Coded!CodesHoldStep

\* The two requests that give the days of an invite.
Giving == {"invitee", "inviter"}

InviteRecords ==
    [by : Enrolled \cup {NoOne}, user : Enrolled \cup {NoOne}, withdrawn : BOOLEAN, expired : BOOLEAN]

\* A request withdraws an invite of its own, or gives the days of one it has had accepted.
InvitesServed ==
    \A h \in Clerks :
        /\ x5[h].step \in {"idle", "withdraw"} \cup Giving
        /\ x5[h].step = "withdraw" =>
              x5[h].id \in InviteIds /\ x5[h].by # NoOne /\ x3[x5[h].id].by = x5[h].by
        /\ x5[h].step \in Giving =>
              x5[h].id \in InviteIds /\ x5[h].by # NoOne /\ x3[x5[h].id].user = x5[h].by

\* Nobody else gives the days of the same invite.
OneGives ==
    \A h, g \in Clerks : x5[h].step \in Giving /\ x5[g].step \in Giving /\ x5[h].id = x5[g].id => h = g

\* Whose the days of a side are.
Deserving(i, side) == IF side = "invitee" THEN x3[i].user ELSE x3[i].by

\* An invite is accepted after it was made; days are of one that was accepted, for one of its
\* sides, and of the unit in which the other side's are or will be given.
DaysOfInvites ==
    /\ \A i \in InviteIds : x3[i].user # NoOne => x3[i].by # NoOne
    /\ \A t \in x4 : \E i \in InviteIds, side \in Giving :
          /\ t = [user |-> Deserving(i, side), unit |-> t.unit, ref |-> <<"invite", i, side>>]
          /\ x3[i].user # NoOne
    /\ \A t, s \in x4 : t.ref[2] = s.ref[2] => t.unit = s.unit
    /\ \A t \in x4, h \in Clerks : x5[h].step \in Giving /\ t.ref[2] = x5[h].id => t.unit = x5[h].unit

\* What was charged against the quota, invites accepted although withdrawn included.
ChargesBounded == \A u \in Enrolled : Cardinality(Invited!Charged(u)) <= Quota

\* What keeps invites scarce: InvitesAreScarce counts those that bring somebody in, and an
\* invite that is withdrawn may still be among them.
InvitedInv ==
    /\ x3 \in [InviteIds -> InviteRecords]
    /\ DOMAIN x5 = Clerks /\ \A h \in Clerks : DOMAIN x5[h] = CreditFields
    /\ InvitesServed /\ OneGives /\ DaysOfInvites /\ ChargesBounded

LEMMA InvitedIdle == Invited!Idle.step = "idle" /\ DOMAIN Invited!Idle = CreditFields
  BY DEF Invited!Idle, CreditFields

\* The days of different invites have different references.
LEMMA RefOf ==
    ASSUME DaysOfInvites, NEW t \in x4, NEW i \in InviteIds, NEW side \in Giving,
           t = [user |-> Deserving(i, side), unit |-> t.unit, ref |-> <<"invite", i, side>>]
    PROVE  t.ref = <<"invite", i, side>> /\ t.ref[2] = i /\ t.ref[3] = side
<1>1. t.ref = <<"invite", i, side>>
  OBVIOUS
<1> QED BY <1>1

\* One more element is at most one more.
LEMMA AddOne ==
    ASSUME NEW S, NEW e, IsFiniteSet(S)
    PROVE  IsFiniteSet(S \cup {e}) /\ Cardinality(S \cup {e}) <= Cardinality(S) + 1
<1>1. Cardinality(S) \in Nat
  BY FS_CardinalityType
<1>2. IsFiniteSet(S \cup {e}) /\ Cardinality(S \cup {e}) = IF e \in S THEN Cardinality(S) ELSE Cardinality(S) + 1
  BY FS_AddElement
<1> QED BY <1>1, <1>2

\* No invite is there at the start.
LEMMA InvitedInit == Invited!Init => InvitedInv
<1> SUFFICES ASSUME Invited!Init PROVE InvitedInv OBVIOUS
<1>1. x3 \in [InviteIds -> InviteRecords] /\ \A i \in InviteIds : x3[i].by = NoOne /\ x3[i].user = NoOne
  BY DEF Invited!Init, Invited!NoInvite, InviteRecords
<1>2. /\ InvitesServed /\ OneGives
      /\ DOMAIN x5 = Clerks /\ \A h \in Clerks : DOMAIN x5[h] = CreditFields
  BY DEF Invited!Init, Invited!Idle, InvitesServed, OneGives, Giving, CreditFields
<1>3. DaysOfInvites
  BY <1>1 DEF Invited!Init, DaysOfInvites
<1>4. ChargesBounded
  <2>1. \A u \in Enrolled : Invited!Charged(u) = {}
    BY <1>1, CodesAssumption DEF Invited!Charged, Invited!Of
  <2> QED BY <2>1, FS_EmptySet, CodesAssumption DEF ChargesBounded
<1> QED BY <1>1, <1>2, <1>3, <1>4 DEF InvitedInv

\* What a step leaves of the invariant when it leaves the invites and the days alone and ends
\* or begins requests that give nothing.
LEMMA InvitedEnds ==
    ASSUME InvitedInv, NEW h \in Clerks, NEW r, x5' = [x5 EXCEPT ![h] = r], DOMAIN r = CreditFields,
           \/ r.step = "idle"
           \/ r.step = "withdraw" /\ r.id \in InviteIds /\ r.by # NoOne /\ x3[r.id].by = r.by,
           x3' = x3, x4' = x4
    PROVE  InvitedInv'
<1>1. /\ DOMAIN x5' = Clerks /\ \A g \in Clerks : DOMAIN x5'[g] = CreditFields
      /\ \A g \in Clerks : x5'[g] = IF g = h THEN r ELSE x5[g]
  BY DEF InvitedInv
<1>2. InvitesServed' /\ OneGives' /\ DaysOfInvites'
  BY <1>1 DEF InvitedInv, InvitesServed, OneGives, DaysOfInvites, Giving, Deserving
<1>3. ChargesBounded'
  BY DEF InvitedInv, ChargesBounded, Invited!Charged, Invited!Of
<1> QED BY <1>1, <1>2, <1>3 DEF InvitedInv

\* Fewer invites are charged, or the same.
LEMMA ChargesKept ==
    ASSUME InvitedInv, \A u \in Enrolled : Invited!Charged(u)' \subseteq Invited!Charged(u)
    PROVE  ChargesBounded'
<1> SUFFICES ASSUME NEW u \in Enrolled PROVE Cardinality(Invited!Charged(u)') <= Quota
  BY DEF ChargesBounded
<1> DEFINE old == Invited!Charged(u) new == Invited!Charged(u)'
<1>1. IsFiniteSet(old)
  BY FS_Subset, CodesAssumption DEF Invited!Charged, Invited!Of
<1>2. IsFiniteSet(new) /\ Cardinality(new) <= Cardinality(old)
  BY <1>1, FS_Subset
<1>3. Cardinality(old) <= Quota /\ Cardinality(old) \in Nat /\ Cardinality(new) \in Nat
  BY <1>1, <1>2, FS_CardinalityType DEF InvitedInv, ChargesBounded
<1> HIDE DEF old, new
<1>4. Cardinality(new) <= Quota
  BY <1>2, <1>3, CodesAssumption
<1> QED BY <1>4 DEF new

\* Every step keeps the invariant.
LEMMA InvitedStep == ASSUME InvitedInv, [Invited!Next]_(Invited!vars) PROVE InvitedInv'
<1>0. /\ x3 \in [InviteIds -> InviteRecords] /\ DOMAIN x5 = Clerks
      /\ \A h \in Clerks : DOMAIN x5[h] = CreditFields
      /\ InvitesServed /\ OneGives /\ DaysOfInvites
  BY DEF InvitedInv
<1>1. ASSUME NEW u \in Enrolled, NEW i \in InviteIds, Invited!CreateInvite(u, i) PROVE InvitedInv'
  <2>1. /\ x3[i].by = NoOne /\ Cardinality(Invited!Charged(u)) < Quota
        /\ x3' = [x3 EXCEPT ![i].by = u] /\ UNCHANGED <<x1, x2, x4, x5, x7>>
    BY <1>1, SameCount DEF Invited!CreateInvite
  <2>2. x3[i].user = NoOne
    BY <1>0, <2>1 DEF DaysOfInvites
  <2>3. /\ x3' \in [InviteIds -> InviteRecords] /\ x3'[i].by = u
        /\ \A j \in InviteIds :
              /\ x3'[j].user = x3[j].user /\ x3'[j].withdrawn = x3[j].withdrawn
              /\ j # i => x3'[j].by = x3[j].by
    BY <1>0, <2>1 DEF InviteRecords
  <2>4. u # NoOne
    BY CodesAssumption
  <2>5. InvitesServed' /\ OneGives'
    BY <1>0, <2>1, <2>2, <2>3 DEF InvitesServed, OneGives, Giving
  <2>6. DaysOfInvites'
    BY <1>0, <2>1, <2>2, <2>3, <2>4 DEF DaysOfInvites, Deserving, Giving
  <2>7. ChargesBounded'
    <3> SUFFICES ASSUME NEW v \in Enrolled PROVE Cardinality(Invited!Charged(v)') <= Quota
      BY DEF ChargesBounded
    <3>1. CASE v = u
      <4> DEFINE old == Invited!Charged(u) new == Invited!Charged(u)'
      <4>1. new \subseteq old \cup {i}
        BY <2>3 DEF Invited!Charged, Invited!Of
      <4>2. IsFiniteSet(old)
        BY FS_Subset, CodesAssumption DEF Invited!Charged, Invited!Of
      <4>3. Cardinality(old) \in Nat /\ Cardinality(old) < Quota
        BY <2>1, <4>2, FS_CardinalityType
      <4>4. IsFiniteSet(old \cup {i}) /\ Cardinality(old \cup {i}) <= Cardinality(old) + 1
        BY <4>2, AddOne
      <4>5. IsFiniteSet(new) /\ Cardinality(new) <= Cardinality(old \cup {i})
        BY <4>1, <4>4, FS_Subset
      <4>6. Cardinality(new) \in Nat /\ Cardinality(old \cup {i}) \in Nat
        BY <4>4, <4>5, FS_CardinalityType
      <4> HIDE DEF old, new
      <4>7. Cardinality(new) <= Quota
        BY <4>3, <4>4, <4>5, <4>6, CodesAssumption
      <4> QED BY <3>1, <4>7 DEF new
    <3>2. CASE v # u
      <4>1. Invited!Charged(v)' \subseteq Invited!Charged(v)
        BY <2>3, <3>2 DEF Invited!Charged, Invited!Of
      <4> DEFINE old == Invited!Charged(v) new == Invited!Charged(v)'
      <4>2. IsFiniteSet(old) /\ Cardinality(old) <= Quota
        BY FS_Subset, CodesAssumption DEF Invited!Charged, Invited!Of, InvitedInv, ChargesBounded
      <4>3. IsFiniteSet(new) /\ Cardinality(new) <= Cardinality(old)
        BY <4>1, <4>2, FS_Subset
      <4>4. Cardinality(old) \in Nat /\ Cardinality(new) \in Nat
        BY <4>2, <4>3, FS_CardinalityType
      <4> HIDE DEF old, new
      <4>5. Cardinality(new) <= Quota
        BY <4>2, <4>3, <4>4, CodesAssumption
      <4> QED BY <4>5 DEF new
    <3> QED BY <3>1, <3>2
  <2> QED BY <1>0, <2>1, <2>3, <2>5, <2>6, <2>7 DEF InvitedInv
<1>2. ASSUME NEW i \in InviteIds, Invited!Expire(i) PROVE InvitedInv'
  <2>1. x3' = [x3 EXCEPT ![i].expired = TRUE] /\ UNCHANGED <<x1, x2, x4, x5, x6, x7>>
    BY <1>2 DEF Invited!Expire
  <2>2. /\ x3' \in [InviteIds -> InviteRecords]
        /\ \A j \in InviteIds :
              x3'[j].user = x3[j].user /\ x3'[j].by = x3[j].by /\ x3'[j].withdrawn = x3[j].withdrawn
    BY <1>0, <2>1 DEF InviteRecords
  <2>3. InvitesServed' /\ OneGives' /\ DaysOfInvites'
    BY <1>0, <2>1, <2>2 DEF InvitesServed, OneGives, DaysOfInvites, Deserving, Giving
  <2>4. ChargesBounded'
    <3>1. \A u \in Enrolled : Invited!Charged(u)' \subseteq Invited!Charged(u)
      BY <2>2 DEF Invited!Charged, Invited!Of
    <3> QED BY <3>1, ChargesKept
  <2> QED BY <1>0, <2>1, <2>2, <2>3, <2>4 DEF InvitedInv
<1>3. ASSUME NEW h \in Clerks, NEW u \in Enrolled, NEW i \in InviteIds, Invited!AskWithdraw(h, u, i)
      PROVE  InvitedInv'
  <2> DEFINE asked == [Invited!Idle EXCEPT !.step = "withdraw", !.by = u, !.id = i]
  <2>1. /\ UNCHANGED <<x1, x2, x3, x4, x7>>
        /\ (x5' = [x5 EXCEPT ![h] = asked] /\ x3[i].by = u) \/ x5' = x5
    BY <1>3 DEF Invited!AskWithdraw, Invited!Mine
  <2>2. asked.step = "withdraw" /\ asked.by = u /\ asked.id = i /\ DOMAIN asked = CreditFields
    BY DEF Invited!Idle, CreditFields
  <2> HIDE DEF asked
  <2>3. CASE x5' = [x5 EXCEPT ![h] = asked] /\ x3[i].by = u
    BY <2>1, <2>2, <2>3, InvitedEnds, CodesAssumption
  <2>4. CASE x5' = x5
    BY <2>1, <2>4 DEF InvitedInv, InvitesServed, OneGives, DaysOfInvites, ChargesBounded, Deserving,
       Invited!Charged, Invited!Of
  <2> QED BY <2>1, <2>3, <2>4
<1>4. ASSUME NEW h \in Clerks, Invited!Withdraw(h) PROVE InvitedInv'
  <2> DEFINE i == x5[h].id
  <2>1. /\ i \in InviteIds /\ x3' = [x3 EXCEPT ![i].withdrawn = TRUE]
        /\ x5' = [x5 EXCEPT ![h] = Invited!Idle] /\ UNCHANGED <<x1, x2, x4, x6, x7>>
    BY <1>0, <1>4 DEF Invited!Withdraw, Invited!Done, InvitesServed
  <2> HIDE DEF i
  <2>2. /\ x3' \in [InviteIds -> InviteRecords]
        /\ \A j \in InviteIds :
              /\ x3'[j].user = x3[j].user /\ x3'[j].by = x3[j].by
              /\ x3[j].withdrawn => x3'[j].withdrawn
    BY <1>0, <2>1 DEF InviteRecords
  <2>3. /\ DOMAIN x5' = Clerks /\ \A g \in Clerks : DOMAIN x5'[g] = CreditFields
        /\ InvitesServed' /\ OneGives' /\ DaysOfInvites'
    BY <1>0, <2>1, <2>2, InvitedIdle DEF InvitesServed, OneGives, DaysOfInvites, Deserving, Giving
  <2>4. ChargesBounded'
    <3>1. \A u \in Enrolled : Invited!Charged(u)' \subseteq Invited!Charged(u)
      BY <2>2 DEF Invited!Charged, Invited!Of
    <3> QED BY <3>1, ChargesKept
  <2> QED BY <2>1, <2>2, <2>3, <2>4 DEF InvitedInv
<1>5. ASSUME NEW h \in Clerks, NEW u \in Enrolled, NEW i \in InviteIds, Invited!Accept(h, u, i)
      PROVE  InvitedInv'
  <2> DEFINE asked == [Invited!Idle EXCEPT !.step = "invitee", !.by = u, !.id = i, !.unit = Invited!Bonus]
  <2>1. /\ x3' = [x3 EXCEPT ![i].user = u] /\ x5' = [x5 EXCEPT ![h] = asked]
        /\ UNCHANGED <<x1, x2, x4, x7>> /\ Invited!Status(i) = "ok"
    BY <1>5 DEF Invited!Accept
  <2>2. x3[i].by # NoOne /\ x3[i].user = NoOne /\ ~x3[i].withdrawn
    BY <2>1 DEF Invited!Status
  <2>3. asked.step = "invitee" /\ asked.by = u /\ asked.id = i /\ DOMAIN asked = CreditFields
    BY DEF Invited!Idle, CreditFields
  <2> HIDE DEF asked
  <2>4. /\ x3' \in [InviteIds -> InviteRecords] /\ x3'[i].user = u
        /\ \A j \in InviteIds :
              /\ x3'[j].by = x3[j].by /\ x3'[j].withdrawn = x3[j].withdrawn
              /\ j # i => x3'[j].user = x3[j].user
    BY <1>0, <2>1 DEF InviteRecords
  <2>5. /\ DOMAIN x5' = Clerks
        /\ \A g \in Clerks : x5'[g] = (IF g = h THEN asked ELSE x5[g]) /\ DOMAIN x5'[g] = CreditFields
    BY <1>0, <2>1, <2>3
  <2>6. u # NoOne
    BY CodesAssumption
  <2>7. \A g \in Clerks : ~(x5[g].step \in Giving /\ x5[g].id = i)
    BY <1>0, <2>2 DEF InvitesServed
  <2>8. InvitesServed' /\ OneGives'
    BY <1>0, <2>3, <2>4, <2>5, <2>6, <2>7 DEF InvitesServed, OneGives, Giving
  <2>9. \A t \in x4 : t.ref[2] # i
    BY <1>0, <2>2, RefOf DEF DaysOfInvites
  <2>10. DaysOfInvites'
    <3>1. ASSUME NEW t \in x4'
          PROVE  \E j \in InviteIds, side \in Giving :
                    /\ t = [user |-> Deserving(j, side)', unit |-> t.unit, ref |-> <<"invite", j, side>>]
                    /\ x3'[j].user # NoOne
      <4>1. PICK j \in InviteIds, side \in Giving :
               /\ t = [user |-> Deserving(j, side), unit |-> t.unit, ref |-> <<"invite", j, side>>]
               /\ x3[j].user # NoOne
        BY <1>0, <2>1 DEF DaysOfInvites
      <4>2. j # i
        BY <2>2, <4>1
      <4>3. Deserving(j, side)' = Deserving(j, side) /\ x3'[j].user # NoOne
        BY <2>4, <4>1, <4>2 DEF Deserving
      <4> QED BY <4>1, <4>3
    <3>2. \A j \in InviteIds : x3'[j].user # NoOne => x3'[j].by # NoOne
      BY <1>0, <2>2, <2>4 DEF DaysOfInvites
    <3>3. \A t \in x4', g \in Clerks : x5'[g].step \in Giving /\ t.ref[2] = x5'[g].id => t.unit = x5'[g].unit
      BY <1>0, <2>1, <2>3, <2>5, <2>9 DEF DaysOfInvites
    <3>4. \A t, s \in x4' : t.ref[2] = s.ref[2] => t.unit = s.unit
      BY <1>0, <2>1 DEF DaysOfInvites
    <3> QED BY <3>1, <3>2, <3>3, <3>4 DEF DaysOfInvites
  <2>11. ChargesBounded'
    <3>1. \A v \in Enrolled : Invited!Charged(v)' \subseteq Invited!Charged(v)
      BY <2>2, <2>4 DEF Invited!Charged, Invited!Of
    <3> QED BY <3>1, ChargesKept
  <2> QED BY <2>4, <2>5, <2>8, <2>10, <2>11 DEF InvitedInv
<1>6. ASSUME NEW h \in Clerks, Invited!Reward(h) PROVE InvitedInv'
  <2> DEFINE i == x5[h].id side == x5[h].step
             next == IF side = "invitee" THEN [x5[h] EXCEPT !.step = "inviter"] ELSE Invited!Idle
             term == [user |-> Deserving(i, side), unit |-> x5[h].unit, ref |-> <<"invite", i, side>>]
  <2>1. /\ side \in Giving /\ i \in InviteIds /\ x3[i].user = x5[h].by /\ x5[h].by # NoOne
    BY <1>0, <1>6 DEF InvitesServed, Invited!Reward, Giving
  <2>2. /\ x5' = [x5 EXCEPT ![h] = next] /\ UNCHANGED <<x1, x2, x3, x6>>
        /\ x4' = x4 \cup {term} \/ x4' = x4
    BY <1>6, <2>1 DEF Invited!Reward, Invited!AfterFailure, Invited!Granted, Invited!Side, Deserving
  <2>3. /\ DOMAIN next = CreditFields
        /\ \/ next.step = "idle"
           \/ next.step \in Giving /\ next.id = i /\ next.by = x5[h].by /\ next.unit = x5[h].unit
    BY <1>0, InvitedIdle DEF Giving, CreditFields
  <2>4. term.unit = x5[h].unit /\ term.ref[2] = i
    <3>1. term.ref = <<"invite", i, side>>
      OBVIOUS
    <3> QED BY <3>1
  <2>5. term = [user |-> Deserving(i, side), unit |-> term.unit, ref |-> <<"invite", i, side>>]
    OBVIOUS
  <2> HIDE DEF i, side, next, term
  <2>6. /\ DOMAIN x5' = Clerks
        /\ \A g \in Clerks : x5'[g] = (IF g = h THEN next ELSE x5[g]) /\ DOMAIN x5'[g] = CreditFields
    BY <1>0, <2>2, <2>3
  <2>7. InvitesServed' /\ OneGives'
    BY <1>0, <2>1, <2>2, <2>3, <2>6 DEF InvitesServed, OneGives, Giving, i, side
  <2>8. DaysOfInvites'
    <3>1. ASSUME NEW t \in x4'
          PROVE  \E j \in InviteIds, s \in Giving :
                    /\ t = [user |-> Deserving(j, s)', unit |-> t.unit, ref |-> <<"invite", j, s>>]
                    /\ x3'[j].user # NoOne
      BY <1>0, <2>1, <2>2, <2>5 DEF DaysOfInvites, Deserving
    <3>2. \A t \in x4 : t.ref[2] = i => t.unit = x5[h].unit
      BY <1>0, <2>1 DEF DaysOfInvites, i, side
    <3>3. \A t, s \in x4' : t.ref[2] = s.ref[2] => t.unit = s.unit
      BY <1>0, <2>2, <2>4, <3>2 DEF DaysOfInvites
    <3>4. \A t \in x4', g \in Clerks : x5'[g].step \in Giving /\ t.ref[2] = x5'[g].id => t.unit = x5'[g].unit
      <4> SUFFICES ASSUME NEW t \in x4', NEW g \in Clerks, x5'[g].step \in Giving, t.ref[2] = x5'[g].id
                   PROVE  t.unit = x5'[g].unit
        OBVIOUS
      <4>1. CASE g = h
        BY <2>2, <2>3, <2>4, <2>6, <3>2, <4>1 DEF Giving
      <4>2. CASE g # h
        <5>1. x5[g].id # i
          BY <1>0, <2>1, <2>6, <4>2 DEF OneGives, i, side
        <5> QED BY <1>0, <2>2, <2>4, <2>6, <4>2, <5>1 DEF DaysOfInvites
      <4> QED BY <4>1, <4>2
    <3>5. \A j \in InviteIds : x3'[j].user # NoOne => x3'[j].by # NoOne
      BY <1>0, <2>2 DEF DaysOfInvites
    <3> QED BY <3>1, <3>3, <3>4, <3>5 DEF DaysOfInvites
  <2>9. ChargesBounded'
    BY <2>2 DEF InvitedInv, ChargesBounded, Invited!Charged, Invited!Of
  <2> QED BY <1>0, <2>2, <2>6, <2>7, <2>8, <2>9 DEF InvitedInv
<1>7. ASSUME NEW h \in Clerks, Invited!Redeem(h) \/ Invited!Grant(h) PROVE InvitedInv'
  BY <1>0, <1>7 DEF InvitesServed, Invited!Redeem, Invited!Grant, Giving
<1>8. CASE Invited!Restart
  <2>1. x5' = [h \in Clerks |-> Invited!Idle] /\ UNCHANGED <<x2, x3, x4, x6>>
    BY <1>8 DEF Invited!Restart
  <2>2. /\ DOMAIN x5' = Clerks /\ \A g \in Clerks : DOMAIN x5'[g] = CreditFields
        /\ InvitesServed' /\ OneGives' /\ DaysOfInvites'
    BY <1>0, <2>1, InvitedIdle DEF InvitesServed, OneGives, DaysOfInvites, Deserving, Giving
  <2> QED BY <1>0, <2>1, <2>2 DEF InvitedInv, ChargesBounded, Invited!Charged, Invited!Of
<1>9. CASE UNCHANGED Invited!vars
  BY <1>9 DEF Invited!vars, InvitedInv, InvitesServed, OneGives, DaysOfInvites, ChargesBounded, Deserving,
     Invited!Charged, Invited!Of
<1> QED BY <1>1, <1>2, <1>3, <1>4, <1>5, <1>6, <1>7, <1>8, <1>9 DEF Invited!Next

\* No account brings in more people than it was charged for.
LEMMA InvitesBounded == InvitedInv => Invited!InvitesAreScarce
<1> SUFFICES ASSUME InvitedInv, NEW u \in Enrolled
             PROVE  Invited!Cardinality({i \in Invited!Of(u) : x3[i].user # NoOne \/ Invited!Status(i) = "ok"})
                       <= Quota
  BY DEF Invited!InvitesAreScarce
<1> DEFINE brings == {i \in Invited!Of(u) : x3[i].user # NoOne \/ Invited!Status(i) = "ok"}
           charged == Invited!Charged(u)
<1>1. \A i : Invited!Status(i) = "ok" => ~x3[i].withdrawn
  BY DEF Invited!Status, InvitedInv, InviteRecords
<1>2. brings \subseteq charged
  BY <1>1 DEF Invited!Charged
<1>3. IsFiniteSet(charged) /\ Cardinality(charged) <= Quota
  BY FS_Subset, CodesAssumption DEF Invited!Charged, Invited!Of, InvitedInv, ChargesBounded
<1>4. IsFiniteSet(brings) /\ Cardinality(brings) <= Cardinality(charged)
  BY <1>2, <1>3, FS_Subset
<1>5. Cardinality(brings) \in Nat /\ Cardinality(charged) \in Nat
  BY <1>3, <1>4, FS_CardinalityType
<1> HIDE DEF brings, charged
<1>6. Cardinality(brings) <= Quota
  BY <1>3, <1>4, <1>5, CodesAssumption
<1> QED BY <1>6, SameCount DEF brings

\* Both sides get their own days, of one unit.
LEMMA BothRewarded == InvitedInv => Invited!BothAreRewarded
<1> SUFFICES ASSUME InvitedInv, NEW t \in x4, NEW s \in x4, t.ref[1] = "invite", s.ref[1] = "invite",
                    t.ref[2] = s.ref[2]
             PROVE  /\ t.unit = s.unit /\ (t.ref = s.ref => t = s)
                    /\ t.user = IF t.ref[3] = "invitee" THEN x3[t.ref[2]].user ELSE x3[t.ref[2]].by
  BY DEF Invited!BothAreRewarded
<1>1. PICK i \in InviteIds, side \in Giving :
         t = [user |-> Deserving(i, side), unit |-> t.unit, ref |-> <<"invite", i, side>>]
  BY DEF InvitedInv, DaysOfInvites
<1>2. PICK j \in InviteIds, other \in Giving :
         s = [user |-> Deserving(j, other), unit |-> s.unit, ref |-> <<"invite", j, other>>]
  BY DEF InvitedInv, DaysOfInvites
<1>3. t.ref[2] = i /\ t.ref[3] = side /\ s.ref[2] = j /\ s.ref[3] = other
  BY <1>1, <1>2, RefOf DEF InvitedInv
<1>4. t.unit = s.unit
  BY DEF InvitedInv, DaysOfInvites
<1>5. ASSUME t.ref = s.ref PROVE t = s
  <2>1. i = j /\ side = other
    BY <1>3, <1>5
  <2> QED BY <1>1, <1>2, <1>4, <2>1
<1>6. t.user = IF side = "invitee" THEN x3[i].user ELSE x3[i].by
  BY <1>1 DEF Deserving
<1> QED BY <1>3, <1>4, <1>5, <1>6

\* A set with at most one more element is at most one larger.
LEMMA OneMore ==
    ASSUME NEW S, NEW T, NEW x, IsFiniteSet(S), T \subseteq S \cup {x}
    PROVE  Cardinality(T) <= Cardinality(S) + 1
<1>1. IsFiniteSet(S \cup {x}) /\ Cardinality(S \cup {x}) <= Cardinality(S) + 1 /\ Cardinality(S) \in Nat
  BY FS_AddElement, FS_CardinalityType
<1>2. IsFiniteSet(T) /\ Cardinality(T) <= Cardinality(S \cup {x})
  BY <1>1, FS_Subset
<1>3. Cardinality(T) \in Nat /\ Cardinality(S \cup {x}) \in Nat
  BY <1>1, <1>2, FS_CardinalityType
<1> QED BY <1>1, <1>2, <1>3

\* Days that somebody has lost: of an accepted invite, with nobody who would still give them.
Gone(i, side) ==
    /\ x3[i].user # NoOne /\ \A t \in x4 : t.ref # <<"invite", i, side>>
    /\ \A h \in Clerks : x5[h].id # i \/ x5[h].step \notin {side, "invitee"}

\* A step that is no restart costs one side of one invite its days at most.
LEMMA OneSide ==
    ASSUME InvitedInv, InvitedInv', [Invited!Next]_(Invited!vars), ~Invited!Restart
    PROVE  \E x : \A i \in InviteIds, side \in Giving : Gone(i, side)' => Gone(i, side) \/ x = <<i, side>>
<1>0. /\ x3 \in [InviteIds -> InviteRecords] /\ DOMAIN x5 = Clerks /\ InvitesServed /\ OneGives
      /\ \A h \in Clerks : DOMAIN x5[h] = CreditFields
  BY DEF InvitedInv
<1> DEFINE Same == \A i \in InviteIds, side \in Giving : Gone(i, side)' => Gone(i, side)
<1>1. ASSUME NEW h \in Clerks, Invited!Reward(h)
      PROVE  \A i \in InviteIds, side \in Giving :
                Gone(i, side)' => Gone(i, side) \/ (i = x5[h].id /\ side = x5[h].step)
  <2> SUFFICES ASSUME NEW i \in InviteIds, NEW side \in Giving, Gone(i, side)', ~Gone(i, side)
               PROVE  i = x5[h].id /\ side = x5[h].step
    OBVIOUS
  <2>1. x3' = x3 /\ x4 \subseteq x4' /\ x5[h].step \in Giving
        /\ \A g \in Clerks : g # h => x5'[g] = x5[g]
    BY <1>0, <1>1 DEF Invited!Reward, Invited!Granted, Giving
  <2>2. PICK g \in Clerks : x5[g].id = i /\ x5[g].step \in {side, "invitee"}
    BY <2>1 DEF Gone
  <2>3. g = h
    BY <2>1, <2>2 DEF Gone
  <2>4. ASSUME x5[h].step = "invitee", side = "inviter" PROVE FALSE
    <3>1. x5' = [x5 EXCEPT ![h] = [x5[h] EXCEPT !.step = "inviter"]]
      BY <1>1, <2>4 DEF Invited!Reward, Invited!AfterFailure
    <3>2. x5'[h].id = i /\ x5'[h].step = "inviter"
      BY <1>0, <2>2, <2>3, <3>1 DEF CreditFields
    <3> QED BY <2>4, <3>2 DEF Gone
  <2> QED BY <2>2, <2>3, <2>4 DEF Giving
<1>2. ASSUME NEW h \in Clerks, NEW u \in Enrolled, NEW j \in InviteIds, Invited!Accept(h, u, j) PROVE Same
  <2> SUFFICES ASSUME NEW i \in InviteIds, NEW side \in Giving, Gone(i, side)' PROVE Gone(i, side)
    OBVIOUS
  <2> DEFINE asked == [Invited!Idle EXCEPT !.step = "invitee", !.by = u, !.id = j, !.unit = Invited!Bonus]
  <2>1. /\ x5[h].step = "idle" /\ x4' = x4 /\ x3' = [x3 EXCEPT ![j].user = u]
        /\ x5' = [x5 EXCEPT ![h] = asked]
    BY <1>2 DEF Invited!Accept, Invited!Asked
  <2>2. asked.step = "invitee" /\ asked.id = j
    BY DEF Invited!Idle
  <2> HIDE DEF asked
  <2>3. x5'[h].step = "invitee" /\ x5'[h].id = j /\ \A g \in Clerks : g # h => x5'[g] = x5[g]
    BY <1>0, <2>1, <2>2
  <2>4. i # j
    BY <2>3 DEF Gone
  <2>5. x3'[i] = x3[i]
    BY <2>1, <2>4
  <2> QED BY <2>1, <2>3, <2>5 DEF Gone, Giving
<1>3. ASSUME NEW h \in Clerks, Invited!Withdraw(h) PROVE Same
  <2>1. /\ x5[h].step = "withdraw" /\ x4' = x4 /\ x5[h].id \in InviteIds
        /\ x3' = [x3 EXCEPT ![x5[h].id].withdrawn = TRUE] /\ x5' = [x5 EXCEPT ![h] = Invited!Idle]
    BY <1>0, <1>3 DEF Invited!Withdraw, Invited!Done, InvitesServed
  <2>2. \A i \in InviteIds : x3'[i].user = x3[i].user
    BY <1>0, <2>1 DEF InviteRecords
  <2>3. \A g \in Clerks : g # h => x5'[g] = x5[g]
    BY <1>0, <2>1
  <2> QED BY <2>1, <2>2, <2>3 DEF Gone, Giving
<1>4. ASSUME NEW u \in Enrolled, NEW j \in InviteIds, Invited!CreateInvite(u, j) PROVE Same
  <2>1. x4' = x4 /\ x5' = x5 /\ \A i \in InviteIds : x3'[i].user = x3[i].user
    BY <1>0, <1>4 DEF Invited!CreateInvite, InviteRecords
  <2> QED BY <2>1 DEF Gone
<1>5. ASSUME NEW h \in Clerks, NEW u \in Enrolled, NEW j \in InviteIds, Invited!AskWithdraw(h, u, j) PROVE Same
  <2> DEFINE asked == [Invited!Idle EXCEPT !.step = "withdraw", !.by = u, !.id = j]
  <2>1. x3' = x3 /\ x4' = x4 /\ x5[h].step = "idle" /\ (x5' = x5 \/ x5' = [x5 EXCEPT ![h] = asked])
    BY <1>5 DEF Invited!AskWithdraw, Invited!Asked
  <2> HIDE DEF asked
  <2>2. \A g \in Clerks : g # h => x5'[g] = x5[g]
    BY <1>0, <2>1
  <2> QED BY <2>1, <2>2 DEF Gone, Giving
<1>6. ASSUME NEW i \in InviteIds, Invited!Expire(i) PROVE Same
  <2>1. x4' = x4 /\ x5' = x5 /\ \A j \in InviteIds : x3'[j].user = x3[j].user
    BY <1>0, <1>6 DEF Invited!Expire, InviteRecords
  <2> QED BY <2>1 DEF Gone
<1>7. ASSUME NEW h \in Clerks PROVE ~Invited!Redeem(h) /\ ~Invited!Grant(h)
  BY <1>0 DEF InvitesServed, Invited!Redeem, Invited!Grant, Giving
<1>8. CASE UNCHANGED Invited!vars
  BY <1>8 DEF Invited!vars, Gone
<1> HIDE DEF Same
<1>9. CASE Same
  BY <1>9 DEF Same
<1>10. CASE \E h \in Clerks : Invited!Reward(h)
  <2>1. PICK h \in Clerks : Invited!Reward(h)
    BY <1>10
  <2>2. \A i \in InviteIds, side \in Giving :
       Gone(i, side)' => Gone(i, side) \/ <<x5[h].id, x5[h].step>> = <<i, side>>
    BY <1>1, <2>1
  <2> QED BY <2>2
<1> QED BY <1>2, <1>3, <1>4, <1>5, <1>6, <1>7, <1>8, <1>9, <1>10 DEF Invited!Next

\* Every step from a state of the invariant is as CodesHold asks.
LEMMA InvitedHolds ==
    ASSUME InvitedInv, InvitedInv', [Invited!Next]_(Invited!vars)
    PROVE  Invited!CodesHoldStep
<1>1. Invited!CodesAreBounded' /\ Invited!NothingIsBurnt
  BY DEF Invited!CodesAreBounded, Invited!NothingIsBurnt
<1>2. Invited!InvitesAreScarce' /\ Invited!BothAreRewarded'
  BY InvitesBounded, BothRewarded, PTL
<1>3. Invited!OnlyMineWithdrawn
  <2> SUFFICES ASSUME NEW i \in InviteIds
               PROVE  /\ \/ x3'[i].withdrawn = x3[i].withdrawn
                         \/ \E h \in Clerks : x5[h].step = "withdraw" /\ x5[h].id = i /\ x5[h].by = x3[i].by
                      /\ x3[i].withdrawn => x3'[i].user = x3[i].user
    BY DEF Invited!OnlyMineWithdrawn
  <2>0. x3 \in [InviteIds -> InviteRecords] /\ InvitesServed
    BY DEF InvitedInv
  <2>1. ASSUME NEW h \in Clerks, NEW u \in Enrolled, NEW j \in InviteIds, Invited!Accept(h, u, j)
        PROVE  x3'[i].withdrawn = x3[i].withdrawn /\ (x3[i].withdrawn => x3'[i].user = x3[i].user)
    <3>1. ~x3[j].withdrawn
      BY <2>0, <2>1 DEF Invited!Accept, Invited!Status, InviteRecords
    <3>2. x3' = [x3 EXCEPT ![j].user = u]
      BY <2>1 DEF Invited!Accept
    <3> QED BY <2>0, <3>1, <3>2 DEF InviteRecords
  <2>2. ASSUME NEW h \in Clerks, Invited!Withdraw(h)
        PROVE  /\ x3'[i].user = x3[i].user
               /\ x3'[i].withdrawn # x3[i].withdrawn =>
                     x5[h].step = "withdraw" /\ x5[h].id = i /\ x5[h].by = x3[i].by
    BY <2>0, <2>2 DEF Invited!Withdraw, InvitesServed, InviteRecords
  <2>3. ASSUME NEW j \in InviteIds, Invited!Expire(j) \/ \E u \in Enrolled : Invited!CreateInvite(u, j)
        PROVE  x3'[i].withdrawn = x3[i].withdrawn /\ x3'[i].user = x3[i].user
    BY <2>0, <2>3 DEF Invited!Expire, Invited!CreateInvite, InviteRecords
  <2>4. CASE x3' = x3
    BY <2>4
  <2>5. x3' = x3 \/ (\E j \in InviteIds : Invited!Expire(j) \/ \E u \in Enrolled : Invited!CreateInvite(u, j))
        \/ (\E h \in Clerks : Invited!Withdraw(h))
        \/ \E h \in Clerks, u \in Enrolled, j \in InviteIds : Invited!Accept(h, u, j)
    BY DEF Invited!Next, Invited!vars, Invited!AskWithdraw, Invited!Redeem, Invited!Grant, Invited!Reward,
       Invited!Restart
  <2> QED BY <2>1, <2>2, <2>3, <2>4, <2>5
<1>4. Invited!OneFailureOneSide
  <2>1. CASE Invited!Restart
    BY <2>1 DEF Invited!OneFailureOneSide
  <2>2. CASE ~Invited!Restart
    <3> DEFINE before == Invited!Missed after == Invited!Missed'
    <3>1. PICK x : \A i \in InviteIds, side \in Giving : Gone(i, side)' => Gone(i, side) \/ x = <<i, side>>
      BY <2>2, OneSide
    <3>2. /\ before = {y \in InviteIds \X {"invitee", "inviter"} : Gone(y[1], y[2])}
          /\ after = {y \in InviteIds \X {"invitee", "inviter"} : Gone(y[1], y[2])'}
      BY DEF Invited!Missed, Gone
    <3>3. after \subseteq before \cup {x}
      BY <3>1, <3>2 DEF Giving
    <3>4. IsFiniteSet(InviteIds \X {"invitee", "inviter"})
      <4>1. IsFiniteSet({"invitee"} \cup {"inviter"})
        BY FS_Singleton, FS_AddElement
      <4>2. {"invitee", "inviter"} = {"invitee"} \cup {"inviter"}
        OBVIOUS
      <4> QED BY <4>1, <4>2, FS_Product, CodesAssumption
    <3>5. IsFiniteSet(before)
      BY <3>2, <3>4, FS_Subset
    <3> HIDE DEF before, after
    <3>6. Cardinality(after) <= Cardinality(before) + 1
      BY <3>3, <3>5, OneMore
    <3>7. Invited!Cardinality(Invited!Missed') <= Invited!Cardinality(Invited!Missed) + 1
      BY <3>6, SameCount DEF before, after
    <3> QED BY <3>7 DEF Invited!OneFailureOneSide
  <2> QED BY <2>1, <2>2
<1> QED BY <1>1, <1>2, <1>3, <1>4 DEF Invited!CodesHoldStep

(*************************************************************************)
(* The password and how often it may be guessed (PasswordDoor).          *)
(*************************************************************************)
DoorRequest ==
    [pc : {"idle", "count", "load", "verify", "record", "session"}, typed : Typed \cup {NoOne},
     hash : Typed \cup {NoOne}, ok : BOOLEAN]
DoorEntry == [ok : BOOLEAN, at : Nat]

\* The wrong guesses of the window that n is in, the failures that are on record for it since the
\* success k, and the requests that may still add to either.
Guesses(T, n) == {i \in DOMAIN T : T[i] + DoorWindow > n}
OnRecord(L, k, n) == {i \in DOMAIN L : ~L[i].ok /\ i > k /\ L[i].at + DoorWindow > n}
Entering(q) == {h \in Doors : q[h].pc \in {"load", "verify"}}
Pending(q) == {h \in Doors : q[h].pc = "record" /\ ~q[h].ok}

IsLast(L, k) ==
    /\ k \in Nat /\ k <= Len(L) /\ (k = 0 \/ L[k].ok)
    /\ \A j \in DOMAIN L : L[j].ok => j <= k

\* Each guess is on record, or its request has yet to record it.
Covered(T, L, q, m) ==
    \E k : /\ IsLast(L, k)
           /\ \A n \in Nat : n >= m =>
                 Cardinality(Guesses(T, n)) <= Cardinality(OnRecord(L, k, n)) + Cardinality(Pending(q))
\* The guesses of the window, with those that were let in.
LetIn(T, q, m) ==
    Cardinality(Guesses(T, m)) + Cardinality(Entering(q)) < DoorFailures + Cardinality(Doors)
Bounded(T, m) ==
    \A t \in 0..m : Cardinality({i \in DOMAIN T : T[i] <= t /\ T[i] + DoorWindow > t}) < DoorFailures
           + Cardinality(Doors)

DoorTypes ==
    /\ x1 \in Nat /\ x2 \in Typed \cup {NoOne} /\ x3 \in Seq(DoorEntry) /\ x4 \in [Doors -> DoorRequest]
    /\ x5 \in [Doors -> SUBSET Typed] /\ x6 \in Seq(Nat) /\ \A i \in DOMAIN x6 : x6[i] <= x1

\* What a request holds the account had while it ran.
Held(r, password, had) ==
    /\ r.pc # "idle" => password \in had \cup {NoOne} /\ r.typed \in Typed
    /\ r.pc \in {"verify", "record", "session"} => r.hash \in had \cup {NoOne}
    /\ (r.pc = "record" /\ r.ok) \/ r.pc = "session" => r.typed = r.hash

DoorInv ==
    /\ DoorTypes /\ Covered(x6, x3, x4, x1) /\ LetIn(x6, x4, x1) /\ Bounded(x6, x1)
    /\ \A h \in Doors : Held(x4[h], x2, x5[h])

\* PasswordDoor counts as everybody does.
LEMMA DoorCount == ASSUME NEW S PROVE Door!Cardinality(S) = Cardinality(S)
BY Zenon DEF Door!Cardinality, Cardinality

\* All of it is finite, and a request is not both let in and yet to record.
LEMMA DoorIsFinite ==
    ASSUME NEW T \in Seq(Nat), NEW L \in Seq(DoorEntry), NEW q, NEW k, NEW n
    PROVE  /\ IsFiniteSet(Guesses(T, n)) /\ Cardinality(Guesses(T, n)) \in Nat
           /\ IsFiniteSet(OnRecord(L, k, n)) /\ Cardinality(OnRecord(L, k, n)) \in Nat
           /\ IsFiniteSet(Entering(q)) /\ Cardinality(Entering(q)) \in Nat
           /\ IsFiniteSet(Pending(q)) /\ Cardinality(Pending(q)) \in Nat
           /\ Cardinality(Doors) \in Nat
           /\ Cardinality(Entering(q)) + Cardinality(Pending(q)) <= Cardinality(Doors)
           /\ DoorFailures \in Nat \ {0} /\ DoorWindow \in Nat \ {0}
<1>1. IsFiniteSet(1..Len(T)) /\ IsFiniteSet(1..Len(L))
  <2>1. Len(T) \in Int /\ Len(L) \in Int
    OBVIOUS
  <2> QED BY <2>1, FS_Interval
<1>2. Guesses(T, n) \subseteq 1..Len(T) /\ OnRecord(L, k, n) \subseteq 1..Len(L)
  BY DEF Guesses, OnRecord
<1>3. IsFiniteSet(Guesses(T, n)) /\ IsFiniteSet(OnRecord(L, k, n))
  BY <1>1, <1>2, FS_Subset
<1>4. IsFiniteSet(Doors)
  BY DoorAssumption
<1>5. Entering(q) \subseteq Doors /\ Pending(q) \subseteq Doors /\ Entering(q) \cap Pending(q) = {}
  BY DEF Entering, Pending
<1>6. IsFiniteSet(Entering(q)) /\ IsFiniteSet(Pending(q))
  BY <1>4, <1>5, FS_Subset
<1>7. /\ Cardinality(Entering(q)) \in Nat /\ Cardinality(Pending(q)) \in Nat /\ Cardinality(Doors) \in Nat
  BY <1>4, <1>6, FS_CardinalityType
<1>8. Cardinality(Entering(q)) + Cardinality(Pending(q)) <= Cardinality(Doors)
  <2>1. /\ Cardinality(Entering(q) \cup Pending(q))
            = Cardinality(Entering(q)) + Cardinality(Pending(q)) - Cardinality(Entering(q) \cap Pending(q))
    BY <1>6, FS_Union
  <2>2. Cardinality(Entering(q) \cap Pending(q)) = 0
    BY <1>5, FS_EmptySet
  <2>3. Cardinality(Entering(q) \cup Pending(q)) <= Cardinality(Doors)
    BY <1>4, <1>5, FS_Subset
  <2> QED BY <1>7, <2>1, <2>2, <2>3
<1> QED BY <1>3, <1>6, <1>7, <1>8, FS_CardinalityType, DoorAssumption

\* The last success is what the model chooses.
LEMMA LastIs ==
    ASSUME x3 \in Seq(DoorEntry), NEW k, IsLast(x3, k) PROVE Door!LastSuccess = k
<1> DEFINE oks == {i \in DOMAIN x3 : x3[i].ok}
<1>1. DOMAIN x3 \subseteq Nat /\ k \in Nat /\ DOMAIN x3 = 1..Len(x3) /\ Len(x3) \in Nat
  BY DEF IsLast
<1>2. CASE oks = {}
  <2>1. k = 0
    BY <1>1, <1>2 DEF IsLast
  <2> QED BY <1>2, <2>1 DEF Door!LastSuccess
<1>3. CASE oks # {}
  <2>1. k \in oks /\ \A j \in oks : j <= k
    BY <1>1, <1>3 DEF IsLast
  <2>2. \A i \in oks : (\A j \in oks : j <= i) => i = k
    BY <1>1, <2>1
  <2>3. Door!LastSuccess = CHOOSE i \in oks : \A j \in oks : j <= i
    BY <1>3 DEF Door!LastSuccess
  <2> HIDE DEF oks
  <2> QED BY <2>1, <2>2, <2>3
<1> QED BY <1>2, <1>3

\* To begin with nobody has guessed.
LEMMA DoorInit == ASSUME Door!Init PROVE DoorInv
<1>1. /\ x1 = 0 /\ x2 \in Typed \cup {NoOne} /\ x3 = <<>> /\ x6 = <<>> /\ x5 = [h \in Doors |-> {}]
      /\ x4 = [h \in Doors |-> [pc |-> "idle", typed |-> NoOne, hash |-> NoOne, ok |-> FALSE]]
  BY DEF Door!Init, Door!Idle
<1>2. DoorTypes
  BY <1>1 DEF DoorTypes, DoorRequest
<1>3. /\ \A n : Guesses(x6, n) = {} /\ Entering(x4) = {}
      /\ \A t : {i \in DOMAIN x6 : x6[i] <= t /\ x6[i] + DoorWindow > t} = {}
  BY <1>1 DEF Guesses, Entering
<1>4. IsLast(x3, 0)
  BY <1>1 DEF IsLast
<1>5. x3 \in Seq(DoorEntry) /\ x6 \in Seq(Nat)
  BY <1>2 DEF DoorTypes
<1>6. \A n : Cardinality(OnRecord(x3, 0, n)) \in Nat /\ Cardinality(Pending(x4)) \in Nat
  BY <1>5, DoorIsFinite
<1>7. Covered(x6, x3, x4, x1)
  BY <1>3, <1>4, <1>6, FS_EmptySet DEF Covered
<1>8. Cardinality(Doors) \in Nat /\ DoorFailures \in Nat \ {0}
  BY <1>5, DoorIsFinite
<1>9. LetIn(x6, x4, x1) /\ Bounded(x6, x1)
  BY <1>3, <1>8, FS_EmptySet DEF LetIn, Bounded
<1>10. \A h \in Doors : Held(x4[h], x2, x5[h])
  BY <1>1 DEF Held
<1> QED BY <1>2, <1>7, <1>9, <1>10 DEF DoorInv

\* The bounds hold on while no guess, no success and no later request is added.
LEMMA DoorKeeps ==
    ASSUME NEW q, Covered(x6, x3, x4, x1), LetIn(x6, x4, x1), Bounded(x6, x1),
           x6 \in Seq(Nat), x3 \in Seq(DoorEntry),
           Pending(x4) \subseteq Pending(q), Entering(q) \subseteq Entering(x4)
    PROVE  Covered(x6, x3, q, x1) /\ LetIn(x6, q, x1)
<1>1. Cardinality(Pending(x4)) <= Cardinality(Pending(q)) /\ Cardinality(Entering(q))
       <= Cardinality(Entering(x4))
      /\ Cardinality(Pending(x4)) \in Nat /\ Cardinality(Pending(q)) \in Nat
      /\ Cardinality(Entering(x4)) \in Nat /\ Cardinality(Entering(q)) \in Nat
      /\ DoorFailures \in Nat /\ Cardinality(Doors) \in Nat
  BY DoorIsFinite, FS_Subset
<1>2. \A n, k : Cardinality(Guesses(x6, n)) \in Nat /\ Cardinality(OnRecord(x3, k, n)) \in Nat
  BY DoorIsFinite
<1>3. Covered(x6, x3, q, x1)
  <2>1. PICK k : /\ IsLast(x3, k)
                 /\ \A n \in Nat : n >= x1 =>
                      Cardinality(Guesses(x6, n)) <= Cardinality(OnRecord(x3, k, n)) + Cardinality(Pending(x4))
    BY DEF Covered
  <2>2. ASSUME NEW n \in Nat, n >= x1
        PROVE  Cardinality(Guesses(x6, n)) <= Cardinality(OnRecord(x3, k, n)) + Cardinality(Pending(q))
    BY <1>1, <1>2, <2>1, <2>2
  <2> QED BY <2>1, <2>2 DEF Covered
<1>4. LetIn(x6, q, x1)
  <2>1. Cardinality(Guesses(x6, x1)) + Cardinality(Entering(x4)) < DoorFailures + Cardinality(Doors)
    BY DEF LetIn
  <2>2. Cardinality(Guesses(x6, x1)) \in Nat
    BY <1>2
  <2>3. Cardinality(Guesses(x6, x1)) + Cardinality(Entering(q)) < DoorFailures + Cardinality(Doors)
    BY <1>1, <2>1, <2>2
  <2> QED BY <2>3 DEF LetIn
<1> QED BY <1>3, <1>4

\* Time passes: fewer guesses are of the window.
LEMMA DoorTick == ASSUME DoorInv, Door!Tick PROVE DoorInv'
<1>1. x1' = x1 + 1 /\ UNCHANGED <<x2, x3, x4, x5, x6>>
  BY DEF Door!Tick
<1>2. DoorTypes /\ x1 \in Nat /\ x6 \in Seq(Nat) /\ x3 \in Seq(DoorEntry)
       /\ \A i \in DOMAIN x6 : x6[i] \in Nat /\ x6[i] <= x1
  BY DEF DoorInv, DoorTypes
<1>3. DoorTypes'
  BY <1>1, <1>2 DEF DoorTypes
<1>4. Covered(x6, x3, x4, x1 + 1)
  <2>1. \A n \in Nat : n >= x1 + 1 => n >= x1
    BY <1>2
  <2> QED BY <2>1 DEF DoorInv, Covered
<1>5. Guesses(x6, x1 + 1) \subseteq Guesses(x6, x1)
  <2>1. DoorWindow \in Nat
    BY DoorAssumption
  <2> QED BY <1>2, <2>1 DEF Guesses
<1>6. /\ Cardinality(Guesses(x6, x1 + 1)) <= Cardinality(Guesses(x6, x1))
      /\ Cardinality(Guesses(x6, x1)) \in Nat /\ Cardinality(Guesses(x6, x1 + 1)) \in Nat
      /\ Cardinality(Entering(x4)) \in Nat /\ DoorFailures \in Nat /\ Cardinality(Doors) \in Nat
  BY <1>2, <1>5, DoorIsFinite, FS_Subset
<1>7. LetIn(x6, x4, x1 + 1)
  BY <1>6 DEF DoorInv, LetIn
<1>8. Bounded(x6, x1 + 1)
  <2> SUFFICES ASSUME NEW t \in 0..(x1 + 1)
               PROVE  Cardinality({i \in DOMAIN x6 : x6[i] <= t /\ x6[i] + DoorWindow > t})
                      < DoorFailures + Cardinality(Doors)
    BY DEF Bounded
  <2>1. CASE t \in 0..x1
    BY <2>1 DEF DoorInv, Bounded
  <2>2. CASE t = x1 + 1
    <3>1. {i \in DOMAIN x6 : x6[i] <= t /\ x6[i] + DoorWindow > t} = Guesses(x6, x1 + 1)
      BY <1>2, <2>2 DEF Guesses
    <3> QED BY <1>6, <1>7, <3>1 DEF LetIn
  <2> QED BY <1>2, <2>1, <2>2
<1> QED BY <1>1, <1>3, <1>4, <1>7, <1>8 DEF DoorInv

\* The account has another password: a request that is under way may be of either.
LEMMA DoorSetPassword == ASSUME DoorInv, NEW p \in Typed \cup {NoOne}, Door!SetPassword(p) PROVE DoorInv'
<1>1. /\ x2' = p /\ UNCHANGED <<x1, x3, x4, x6>>
      /\ x5' = [h \in Doors |-> IF x4[h] = Door!Idle THEN {} ELSE x5[h] \cup ({p} \ {NoOne})]
  BY DEF Door!SetPassword
<1>2. DoorTypes'
  BY <1>1 DEF DoorInv, DoorTypes
<1>3. ASSUME NEW h \in Doors PROVE Held(x4[h], x2', x5'[h])
  <2>1. CASE x4[h] = Door!Idle
    <3>1. x4[h].pc = "idle"
      BY <2>1 DEF Door!Idle
    <3> QED BY <3>1 DEF Held
  <2>2. CASE x4[h] # Door!Idle
    <3>1. x5'[h] = x5[h] \cup ({p} \ {NoOne})
      BY <1>1, <2>2
    <3>2. Held(x4[h], x2, x5[h])
      BY DEF DoorInv
    <3> QED BY <1>1, <3>1, <3>2 DEF Held
  <2> QED BY <2>1, <2>2
<1> QED BY <1>1, <1>2, <1>3 DEF DoorInv

\* A request moves alone, and neither guesses nor records.
LEMMA DoorMoves ==
    ASSUME DoorInv, NEW h \in Doors, NEW r \in DoorRequest, x4' = [x4 EXCEPT ![h] = r],
           UNCHANGED <<x1, x2, x3, x6>>, x5' \in [Doors -> SUBSET Typed],
           \A k \in Doors : k # h => x5'[k] = x5[k],
           Held(r, x2, x5'[h]),
           x4[h].pc # "record" \/ x4[h].ok, r.pc \in {"load", "verify"} => x4[h].pc \in {"load", "verify"}
    PROVE  DoorInv'
<1>1. x4 \in [Doors -> DoorRequest] /\ x6 \in Seq(Nat) /\ x3 \in Seq(DoorEntry)
  BY DEF DoorInv, DoorTypes
<1>2. x4' \in [Doors -> DoorRequest] /\ x4'[h] = r /\ \A k \in Doors : k # h => x4'[k] = x4[k]
  BY <1>1
<1>3. Pending(x4) \subseteq Pending(x4') /\ Entering(x4') \subseteq Entering(x4)
  BY <1>2 DEF Pending, Entering
<1>4. Covered(x6, x3, x4', x1) /\ LetIn(x6, x4', x1)
  BY <1>1, <1>3, DoorKeeps DEF DoorInv
<1>5. \A k \in Doors : Held(x4'[k], x2, x5'[k])
  BY <1>2 DEF DoorInv
<1>6. DoorTypes'
  BY <1>2 DEF DoorInv, DoorTypes
<1> QED BY <1>4, <1>5, <1>6 DEF DoorInv

\* A request that is idle promises nothing.
LEMMA DoorIdle ==
    /\ Door!Idle \in DoorRequest /\ Door!Idle.pc = "idle" /\ \A p, had : Held(Door!Idle, p, had)
BY DEF Door!Idle, DoorRequest, Held

\* A request arrives, with a password that was typed.
LEMMA DoorAsk == ASSUME DoorInv, NEW h \in Doors, NEW p \in Typed, Door!Ask(h, p) PROVE DoorInv'
<1> DEFINE i == Door!Idle  r == [i EXCEPT !.pc = "count", !.typed = p]
<1>1. /\ x4[h] = Door!Idle /\ UNCHANGED <<x1, x2, x3, x6>> /\ x5' = [x5 EXCEPT ![h] = {x2} \ {NoOne}]
      /\ x4' = [x4 EXCEPT ![h] = r]
  BY DEF Door!Ask
<1>2. x5 \in [Doors -> SUBSET Typed] /\ x2 \in Typed \cup {NoOne}
  BY DEF DoorInv, DoorTypes
<1>3. x5' \in [Doors -> SUBSET Typed] /\ x5'[h] = {x2} \ {NoOne} /\ \A k \in Doors : k # h => x5'[k] = x5[k]
  BY <1>1, <1>2
<1>4. i \in DoorRequest /\ x4[h].pc = "idle"
  BY <1>1, DoorIdle
<1> HIDE DEF i
<1>5. r \in DoorRequest /\ r.pc = "count" /\ r.typed = p
  BY <1>4 DEF DoorRequest
<1> HIDE DEF r
<1>6. Held(r, x2, x5'[h])
  BY <1>3, <1>5 DEF Held
<1> QED BY <1>1, <1>3, <1>4, <1>5, <1>6, DoorMoves

\* A request reads the hash, or starts its session.
LEMMA DoorLoad ==
    ASSUME DoorInv, NEW h \in Doors, Door!Load(h) \/ Door!StartSession(h) PROVE DoorInv'
<1>1. /\ UNCHANGED <<x1, x2, x3, x5, x6>> /\ x5 \in [Doors -> SUBSET Typed] /\ x4[h] \in DoorRequest
      /\ x4 \in [Doors -> DoorRequest] /\ Held(x4[h], x2, x5[h]) /\ x2 \in Typed \cup {NoOne}
  BY DEF Door!Load, Door!StartSession, DoorInv, DoorTypes
<1>2. CASE Door!Load(h)
  <2> DEFINE r == [x4[h] EXCEPT !.pc = "verify", !.hash = x2]
  <2>1. x4[h].pc = "load" /\ x4' = [x4 EXCEPT ![h] = r]
    BY <1>1, <1>2 DEF Door!Load
  <2>2. r \in DoorRequest /\ r.pc = "verify" /\ r.hash = x2 /\ r.typed = x4[h].typed
    BY <1>1 DEF DoorRequest
  <2> HIDE DEF r
  <2>3. Held(r, x2, x5[h])
    BY <1>1, <2>1, <2>2 DEF Held
  <2> QED BY <1>1, <2>1, <2>2, <2>3, DoorMoves
<1>3. CASE Door!StartSession(h)
  <2>1. x4[h].pc = "session" /\ x4' = [x4 EXCEPT ![h] = Door!Idle]
    BY <1>3 DEF Door!StartSession
  <2> QED BY <1>1, <2>1, DoorIdle, DoorMoves
<1> QED BY <1>2, <1>3

\* A request is let in: the failures on record are fewer than the limit, so the guesses are too,
\* but for those of the requests that have yet to record.
LEMMA DoorCounts == ASSUME DoorInv, NEW h \in Doors, Door!Count(h) PROVE DoorInv'
<1>1. /\ UNCHANGED <<x1, x2, x3, x5, x6>> /\ x4[h].pc = "count"
      /\ x4' = [x4 EXCEPT ![h] = IF Door!Failures >= DoorFailures THEN Door!Idle ELSE [@ EXCEPT !.pc = "load"]]
  BY DEF Door!Count
<1>2. /\ x4 \in [Doors -> DoorRequest] /\ x6 \in Seq(Nat) /\ x3 \in Seq(DoorEntry) /\ x1 \in Nat
      /\ x5 \in [Doors -> SUBSET Typed] /\ x4[h] \in DoorRequest
      /\ Held(x4[h], x2, x5[h])
  BY DEF DoorInv, DoorTypes
<1>3. PICK k : /\ IsLast(x3, k)
               /\ \A n \in Nat : n >= x1 =>
                    Cardinality(Guesses(x6, n)) <= Cardinality(OnRecord(x3, k, n)) + Cardinality(Pending(x4))
  BY DEF DoorInv, Covered
<1>4. Door!Failures = Cardinality(OnRecord(x3, k, x1))
  <2>1. Door!LastSuccess = k
    BY <1>2, <1>3, LastIs
  <2> QED BY <2>1, DoorCount DEF Door!Failures, OnRecord
<1>5. CASE Door!Failures >= DoorFailures
  <2>1. x4' = [x4 EXCEPT ![h] = Door!Idle]
    BY <1>1, <1>5
  <2> QED BY <1>1, <1>2, <2>1, DoorIdle, DoorMoves
<1>6. CASE ~(Door!Failures >= DoorFailures)
  <2> DEFINE r == [x4[h] EXCEPT !.pc = "load"]
  <2>1. x4' = [x4 EXCEPT ![h] = r]
    BY <1>1, <1>2, <1>6
  <2>2. r \in DoorRequest /\ r.pc = "load" /\ r.typed = x4[h].typed
    BY <1>2 DEF DoorRequest
  <2> HIDE DEF r
  <2>3. x4' \in [Doors -> DoorRequest] /\ x4'[h] = r /\ \A j \in Doors : j # h => x4'[j] = x4[j]
    BY <1>2, <2>1, <2>2
  <2>4. Pending(x4') = Pending(x4)
    BY <1>1, <2>2, <2>3 DEF Pending
  <2>5. Covered(x6, x3, x4', x1)
    BY <2>4 DEF DoorInv, Covered
  <2>6. LetIn(x6, x4', x1)
    <3>1. /\ Cardinality(OnRecord(x3, k, x1)) \in Nat /\ Cardinality(Guesses(x6, x1)) \in Nat
          /\ Cardinality(Pending(x4')) \in Nat /\ Cardinality(Entering(x4')) \in Nat
          /\ Cardinality(Entering(x4')) + Cardinality(Pending(x4')) <= Cardinality(Doors)
          /\ Cardinality(Doors) \in Nat /\ DoorFailures \in Nat
      BY <1>2, DoorIsFinite
    <3>2. Cardinality(Guesses(x6, x1)) <= Cardinality(OnRecord(x3, k, x1)) + Cardinality(Pending(x4'))
      BY <1>2, <1>3, <2>4
    <3>3. Cardinality(OnRecord(x3, k, x1)) < DoorFailures
      BY <1>4, <1>6, <3>1
    <3> QED BY <3>1, <3>2, <3>3 DEF LetIn
  <2>7. \A j \in Doors : Held(x4'[j], x2, x5[j])
    <3>1. Held(r, x2, x5[h])
      BY <1>1, <1>2, <2>2 DEF Held
    <3> QED BY <2>3, <3>1 DEF DoorInv
  <2>8. DoorTypes'
    BY <1>1, <2>3 DEF DoorInv, DoorTypes
  <2> QED BY <1>1, <2>5, <2>6, <2>7, <2>8 DEF DoorInv
<1> QED BY <1>5, <1>6

\* A password is verified; one that is wrong is a guess, which its request has yet to record.
LEMMA DoorVerify == ASSUME DoorInv, NEW h \in Doors, Door!Verify(h) PROVE DoorInv'
<1> DEFINE b == Door!Matches(h)  r == [x4[h] EXCEPT !.pc = "record", !.ok = b]
<1>1. /\ UNCHANGED <<x1, x2, x3, x5>> /\ x4[h].pc = "verify" /\ x4 \in [Doors -> DoorRequest] /\ x6 \in Seq(Nat)
      /\ x3 \in Seq(DoorEntry) /\ x1 \in Nat /\ x5 \in [Doors -> SUBSET Typed] /\ x4[h] \in DoorRequest
      /\ Held(x4[h], x2, x5[h]) /\ \A i \in DOMAIN x6 : x6[i] <= x1
  BY DEF Door!Verify, DoorInv, DoorTypes
<1>2. /\ x4' = [x4 EXCEPT ![h] = r] /\ x6' = IF b THEN x6 ELSE Append(x6, x1)
  BY <1>1 DEF Door!Verify
<1>3. b \in BOOLEAN /\ (b <=> x4[h].hash = x4[h].typed)
  BY DEF Door!Matches
<1> HIDE DEF b
<1>4. r \in DoorRequest /\ r.pc = "record" /\ r.ok = b /\ r.typed = x4[h].typed /\ r.hash = x4[h].hash
  BY <1>1, <1>3 DEF DoorRequest
<1> HIDE DEF r
<1>5. Held(r, x2, x5[h])
  BY <1>1, <1>3, <1>4 DEF Held
<1>6. x4' \in [Doors -> DoorRequest] /\ x4'[h] = r /\ \A j \in Doors : j # h => x4'[j] = x4[j]
  BY <1>1, <1>2, <1>4
<1>7. CASE b
  <2>1. UNCHANGED x6
    BY <1>2, <1>7
  <2>2. x4[h].pc # "record"
    BY <1>1
  <2> QED BY <1>1, <1>2, <1>4, <1>5, <2>1, <2>2, DoorMoves
<1>8. CASE ~b
  <2>1. /\ x6' \in Seq(Nat) /\ Len(x6') = Len(x6) + 1 /\ x6'[Len(x6) + 1] = x1 /\ Len(x6) \in Nat
        /\ DOMAIN x6 = 1..Len(x6) /\ DOMAIN x6' = 1..(Len(x6) + 1) /\ \A i \in 1..Len(x6) : x6'[i] = x6[i]
    <3>1. x6' = Append(x6, x1)
      BY <1>2, <1>8
    <3> QED BY <1>1, <3>1
  <2>2. \A i \in DOMAIN x6' : x6'[i] <= x1
    BY <1>1, <2>1
  <2>3. \A n : Guesses(x6', n) \subseteq Guesses(x6, n) \cup {Len(x6) + 1}
    BY <2>1 DEF Guesses
  <2>4. Pending(x4') = Pending(x4) \cup {h} /\ h \notin Pending(x4)
    BY <1>1, <1>4, <1>6, <1>8 DEF Pending
  <2>5. Entering(x4') = Entering(x4) \ {h} /\ h \in Entering(x4)
    BY <1>1, <1>4, <1>6 DEF Entering
  <2>6. /\ \A n : Cardinality(Guesses(x6, n)) \in Nat /\ IsFiniteSet(Guesses(x6, n))
             /\ Cardinality(Guesses(x6', n)) \in Nat
        /\ \A n, k : Cardinality(OnRecord(x3, k, n)) \in Nat
        /\ IsFiniteSet(Pending(x4)) /\ IsFiniteSet(Entering(x4)) /\ Cardinality(Pending(x4)) \in Nat
        /\ Cardinality(Entering(x4)) \in Nat /\ DoorFailures \in Nat /\ Cardinality(Doors) \in Nat
    BY <1>1, <2>1, DoorIsFinite
  <2>7. Cardinality(Pending(x4')) = Cardinality(Pending(x4)) + 1
    BY <2>4, <2>6, FS_AddElement
  <2>8. Cardinality(Entering(x4')) = Cardinality(Entering(x4)) - 1
    BY <2>5, <2>6, FS_RemoveElement
  <2>9. ASSUME NEW n PROVE Cardinality(Guesses(x6', n)) <= Cardinality(Guesses(x6, n)) + 1
    <3>1. /\ IsFiniteSet(Guesses(x6, n) \cup {Len(x6) + 1})
          /\ Cardinality(Guesses(x6, n) \cup {Len(x6) + 1}) <= Cardinality(Guesses(x6, n)) + 1
          /\ Cardinality(Guesses(x6, n) \cup {Len(x6) + 1}) \in Nat
      <4>1. /\ IsFiniteSet(Guesses(x6, n) \cup {Len(x6) + 1})
            /\ Cardinality(Guesses(x6, n) \cup {Len(x6) + 1}) =
                 IF Len(x6) + 1 \in Guesses(x6, n) THEN Cardinality(Guesses(x6,
                        n)) ELSE Cardinality(Guesses(x6, n)) + 1
        BY <2>6, FS_AddElement
      <4> QED BY <2>6, <4>1
    <3>2. Cardinality(Guesses(x6', n)) <= Cardinality(Guesses(x6, n) \cup {Len(x6) + 1})
      BY <2>3, <3>1, FS_Subset
    <3> QED BY <2>6, <3>1, <3>2
  <2>10. Covered(x6', x3, x4', x1)
    <3>1. PICK k : /\ IsLast(x3, k)
                   /\ \A n \in Nat : n >= x1 =>
                        Cardinality(Guesses(x6, n)) <= Cardinality(OnRecord(x3, k, n))
                               + Cardinality(Pending(x4))
      BY DEF DoorInv, Covered
    <3>2. ASSUME NEW n \in Nat, n >= x1
          PROVE  Cardinality(Guesses(x6', n)) <= Cardinality(OnRecord(x3, k, n)) + Cardinality(Pending(x4'))
      <4>1. Cardinality(Guesses(x6, n)) <= Cardinality(OnRecord(x3, k, n)) + Cardinality(Pending(x4))
        BY <3>1, <3>2
      <4> QED BY <2>6, <2>7, <2>9, <4>1
    <3> QED BY <3>1, <3>2 DEF Covered
  <2>11. LetIn(x6', x4', x1)
    <3>1. Cardinality(Guesses(x6, x1)) + Cardinality(Entering(x4)) < DoorFailures + Cardinality(Doors)
      BY DEF DoorInv, LetIn
    <3> QED BY <2>6, <2>8, <2>9, <3>1 DEF LetIn
  <2>12. Bounded(x6', x1)
    <3> SUFFICES ASSUME NEW t \in 0..x1
                 PROVE  Cardinality({i \in DOMAIN x6' : x6'[i] <= t /\ x6'[i] + DoorWindow > t})
                        < DoorFailures + Cardinality(Doors)
      BY DEF Bounded
    <3>1. CASE t = x1
      <4>1. {i \in DOMAIN x6' : x6'[i] <= t /\ x6'[i] + DoorWindow > t} = Guesses(x6', x1)
        BY <2>2, <3>1 DEF Guesses
      <4>2. IsFiniteSet(Entering(x4')) /\ Cardinality(Entering(x4')) \in Nat
        BY <1>1, DoorIsFinite
      <4> QED BY <2>6, <2>11, <4>1, <4>2 DEF LetIn
    <3>2. CASE t # x1
      <4>1. {i \in DOMAIN x6' : x6'[i] <= t /\ x6'[i] + DoorWindow > t}
            = {i \in DOMAIN x6 : x6[i] <= t /\ x6[i] + DoorWindow > t}
        BY <1>1, <2>1, <3>2
      <4> QED BY <4>1 DEF DoorInv, Bounded
    <3> QED BY <3>1, <3>2
  <2>13. \A j \in Doors : Held(x4'[j], x2, x5[j])
    BY <1>5, <1>6 DEF DoorInv
  <2>14. DoorTypes'
    BY <1>1, <1>6, <2>1, <2>2 DEF DoorInv, DoorTypes
  <2> QED BY <1>1, <2>10, <2>11, <2>12, <2>13, <2>14 DEF DoorInv
<1> QED BY <1>3, <1>7, <1>8

\* The outcome is recorded: a success forgives the guesses, a failure is on record from now on.
LEMMA DoorRecord == ASSUME DoorInv, NEW h \in Doors, Door!Record(h) PROVE DoorInv'
<1>1. /\ UNCHANGED <<x1, x2, x5>> /\ x4[h].pc = "record" /\ x4 \in [Doors -> DoorRequest] /\ x6 \in Seq(Nat)
      /\ x3 \in Seq(DoorEntry) /\ x1 \in Nat /\ x5 \in [Doors -> SUBSET Typed] /\ x4[h] \in DoorRequest
      /\ Held(x4[h], x2, x5[h]) /\ \A i \in DOMAIN x6 : x6[i] \in Nat /\ x6[i] <= x1
  BY DEF Door!Record, DoorInv, DoorTypes
<1> DEFINE e == [ok |-> x4[h].ok, at |-> x1]
<1>2. e \in DoorEntry /\ e.ok = x4[h].ok /\ e.at = x1 /\ x3' = Append(x3, e)
  BY <1>1 DEF DoorEntry, DoorRequest, Door!Record
<1> HIDE DEF e
<1>3. /\ x3' \in Seq(DoorEntry) /\ Len(x3') = Len(x3) + 1 /\ x3'[Len(x3) + 1] = e /\ Len(x3) \in Nat
      /\ DOMAIN x3 = 1..Len(x3) /\ DOMAIN x3' = 1..(Len(x3) + 1) /\ \A i \in 1..Len(x3) : x3'[i] = x3[i]
  BY <1>1, <1>2
<1>4. CASE x4[h].ok
  <2> DEFINE r == [x4[h] EXCEPT !.pc = "session"]
  <2>1. x4' = [x4 EXCEPT ![h] = r] /\ x6' = <<>>
    BY <1>1, <1>4 DEF Door!Record
  <2>2. r \in DoorRequest /\ r.pc = "session" /\ r.typed = x4[h].typed /\ r.hash = x4[h].hash
    BY <1>1 DEF DoorRequest
  <2> HIDE DEF r
  <2>3. x4' \in [Doors -> DoorRequest] /\ x4'[h] = r /\ \A j \in Doors : j # h => x4'[j] = x4[j]
    BY <1>1, <2>1, <2>2
  <2>4. Held(r, x2, x5[h])
    BY <1>1, <1>4, <2>2 DEF Held
  <2>5. IsLast(x3', Len(x3) + 1)
    <3>1. x3'[Len(x3) + 1].ok
      BY <1>2, <1>3, <1>4
    <3>2. \A j \in DOMAIN x3' : j <= Len(x3) + 1
      BY <1>3
    <3> QED BY <1>3, <3>1, <3>2 DEF IsLast
  <2>6. x6' \in Seq(Nat) /\ DOMAIN x6' = {}
    BY <2>1
  <2>7. /\ \A n : Guesses(x6', n) = {}
        /\ \A t : {i \in DOMAIN x6' : x6'[i] <= t /\ x6'[i] + DoorWindow > t} = {}
    BY <2>6 DEF Guesses
  <2>8. /\ \A n, k : Cardinality(OnRecord(x3', k, n)) \in Nat
        /\ Cardinality(Pending(x4')) \in Nat /\ Cardinality(Entering(x4')) \in Nat
        /\ Cardinality(Entering(x4')) + Cardinality(Pending(x4')) <= Cardinality(Doors)
        /\ Cardinality(Doors) \in Nat /\ DoorFailures \in Nat \ {0}
    BY <1>3, <2>6, DoorIsFinite
  <2>9. Covered(x6', x3', x4', x1)
    <3>1. \A n : Cardinality(Guesses(x6', n)) = 0
      BY <2>7, FS_EmptySet
    <3>2. \A n : Cardinality(Guesses(x6', n)) <= Cardinality(OnRecord(x3', Len(x3) + 1, n))
           + Cardinality(Pending(x4'))
      BY <2>8, <3>1
    <3> QED BY <2>5, <3>2 DEF Covered
  <2>10. LetIn(x6', x4', x1) /\ Bounded(x6', x1)
    <3>1. LetIn(x6', x4', x1)
      BY <2>7, <2>8, FS_EmptySet DEF LetIn
    <3>2. Bounded(x6', x1)
      <4>1. 0 < DoorFailures + Cardinality(Doors) /\ Cardinality({}) = 0
        BY <2>8, FS_EmptySet
      <4> QED BY <2>7, <4>1 DEF Bounded
    <3> QED BY <3>1, <3>2
  <2>11. \A j \in Doors : Held(x4'[j], x2, x5[j])
    BY <2>3, <2>4 DEF DoorInv
  <2>12. DoorTypes'
    BY <1>1, <1>3, <2>3, <2>6 DEF DoorInv, DoorTypes
  <2> QED BY <1>1, <2>9, <2>10, <2>11, <2>12 DEF DoorInv
<1>5. CASE ~x4[h].ok
  <2>1. x4' = [x4 EXCEPT ![h] = Door!Idle] /\ x6' = x6
    BY <1>1, <1>5 DEF Door!Record
  <2>2. x4' \in [Doors -> DoorRequest] /\ x4'[h] = Door!Idle /\ \A j \in Doors : j # h => x4'[j] = x4[j]
    BY <1>1, <2>1, DoorIdle
  <2>3. Pending(x4') = Pending(x4) \ {h} /\ h \in Pending(x4) /\ Entering(x4') \subseteq Entering(x4)
    BY <1>1, <1>5, <2>2, DoorIdle DEF Pending, Entering
  <2>4. /\ \A n, k : Cardinality(OnRecord(x3', k, n)) \in Nat /\ Cardinality(OnRecord(x3, k, n)) \in Nat
                     /\ IsFiniteSet(OnRecord(x3', k, n)) /\ IsFiniteSet(OnRecord(x3, k, n))
        /\ \A n : Cardinality(Guesses(x6, n)) \in Nat
        /\ IsFiniteSet(Pending(x4)) /\ Cardinality(Pending(x4)) \in Nat
        /\ IsFiniteSet(Entering(x4)) /\ Cardinality(Entering(x4)) \in Nat /\ Cardinality(Entering(x4')) \in Nat
        /\ Cardinality(Doors) \in Nat /\ DoorFailures \in Nat /\ DoorWindow \in Nat \ {0}
    BY <1>1, <1>3, DoorIsFinite
  <2>5. Cardinality(Pending(x4')) = Cardinality(Pending(x4)) - 1 /\ Cardinality(Pending(x4)) >= 1
    <3>1. Cardinality(Pending(x4')) = Cardinality(Pending(x4)) - 1
      BY <2>3, <2>4, FS_RemoveElement
    <3>2. IsFiniteSet(Pending(x4')) /\ Cardinality(Pending(x4')) \in Nat
      BY <1>1, DoorIsFinite
    <3> QED BY <2>4, <3>1, <3>2
  <2>6. PICK k : /\ IsLast(x3, k)
                 /\ \A n \in Nat : n >= x1 =>
                      Cardinality(Guesses(x6, n)) <= Cardinality(OnRecord(x3, k, n)) + Cardinality(Pending(x4))
    BY DEF DoorInv, Covered
  <2>7. IsLast(x3', k)
    BY <1>2, <1>3, <1>5, <2>6 DEF IsLast
  <2>8. ASSUME NEW n \in Nat, n >= x1
        PROVE  Cardinality(Guesses(x6, n)) <= Cardinality(OnRecord(x3', k, n)) + Cardinality(Pending(x4'))
    <3>1. CASE x1 + DoorWindow > n
      <4>1. OnRecord(x3', k, n) = OnRecord(x3, k, n) \cup {Len(x3) + 1} /\ Len(x3) + 1 \notin OnRecord(x3, k, n)
        <5>1. k \in Nat /\ k <= Len(x3)
          BY <2>6 DEF IsLast
        <5> QED BY <1>2, <1>3, <1>5, <3>1, <5>1 DEF OnRecord
      <4>2. Cardinality(OnRecord(x3', k, n)) = Cardinality(OnRecord(x3, k, n)) + 1
        BY <2>4, <4>1, FS_AddElement
      <4>3. Cardinality(Guesses(x6, n)) <= Cardinality(OnRecord(x3, k, n)) + Cardinality(Pending(x4))
        BY <2>6, <2>8
      <4> QED BY <2>4, <2>5, <4>2, <4>3
    <3>2. CASE ~(x1 + DoorWindow > n)
      <4>1. Guesses(x6, n) = {}
        BY <1>1, <2>4, <3>2 DEF Guesses
      <4>2. Cardinality(Guesses(x6, n)) = 0
        BY <4>1, FS_EmptySet
      <4> QED BY <2>4, <2>5, <4>2
    <3> QED BY <3>1, <3>2
  <2>9. Covered(x6, x3', x4', x1)
    BY <2>7, <2>8 DEF Covered
  <2>10. LetIn(x6, x4', x1)
    <3>1. Cardinality(Entering(x4')) <= Cardinality(Entering(x4))
      BY <2>3, <2>4, FS_Subset
    <3> QED BY <2>4, <3>1 DEF DoorInv, LetIn
  <2>11. \A j \in Doors : Held(x4'[j], x2, x5[j])
    BY <2>2, DoorIdle DEF DoorInv
  <2>12. DoorTypes'
    BY <1>1, <1>3, <2>1, <2>2 DEF DoorInv, DoorTypes
  <2> QED BY <1>1, <2>1, <2>9, <2>10, <2>11, <2>12 DEF DoorInv
<1>6. x4[h].ok \in BOOLEAN
  BY <1>1 DEF DoorRequest
<1> QED BY <1>4, <1>5, <1>6

\* Every step of the door keeps the invariant.
LEMMA DoorStep == ASSUME DoorInv, [Door!Next]_(Door!vars) PROVE DoorInv'
<1>1. CASE UNCHANGED Door!vars
  <2>1. UNCHANGED <<x1, x2, x3, x4, x5, x6>>
    BY <1>1 DEF Door!vars
  <2>2. Entering(x4') = Entering(x4) /\ Pending(x4') = Pending(x4)
    BY <2>1
  <2>3. DoorTypes'
    BY <2>1 DEF DoorInv, DoorTypes
  <2> QED BY <2>1, <2>3 DEF DoorInv
<1>2. CASE Door!Next
  <2>1. CASE \E p \in Typed \cup {NoOne} : Door!SetPassword(p)
    BY <2>1, DoorSetPassword
  <2>2. CASE \E h \in Doors : \E p \in Typed : Door!Ask(h, p)
    BY <2>2, DoorAsk
  <2>3. CASE \E h \in Doors :
               Door!Count(h) \/ Door!Load(h) \/ Door!Verify(h) \/ Door!Record(h) \/ Door!StartSession(h)
    BY <2>3, DoorCounts, DoorLoad, DoorVerify, DoorRecord
  <2> QED BY <1>2, <2>1, <2>2, <2>3, DoorTick DEF Door!Next
<1> QED BY <1>1, <1>2

\* What is asked of the door holds wherever the invariant does.
LEMMA DoorIsKept == ASSUME DoorInv PROVE Door!DoorHolds
<1>1. Door!GuessesBounded
  BY DoorCount DEF DoorInv, Bounded, Door!GuessesBounded
<1>2. Door!SessionHadPassword
  <2> SUFFICES ASSUME NEW h \in Doors, x4[h].pc = "session" PROVE x4[h].typed \in x5[h]
    BY DEF Door!SessionHadPassword
  <2>1. Held(x4[h], x2, x5[h]) /\ NoOne \notin Typed
    BY DoorAssumption DEF DoorInv
  <2> QED BY <2>1 DEF Held
<1> QED BY <1>1, <1>2 DEF Door!DoorHolds

(*************************************************************************)
(* People, messages and comments (Social), for any group g of them.      *)
(*************************************************************************)
PeopleOf(g) == g.people \cup {NoOne}
Message(g) == [from : g.people, to : g.people, read : BOOLEAN, age : 0..2]
Comment(g) == [by : g.people, gone : BOOLEAN, age : 0..2]
PeopleRequest(g) ==
    [step : Among(g)!Steps, by : PeopleOf(g), to : PeopleOf(g), act : g.acts \cup {NoOne}, stood : BOOLEAN,
     shown : SUBSET Nat, older : Nat \cup {NoOne}, upto : Nat, age : Nat]

\* What a group is: what PeopleAssumption says of each.
GroupFits(g) ==
    /\ IsFiniteSet(g.people) /\ IsFiniteSet(g.handlers) /\ g.ties \subseteq g.people \X g.people
    /\ g.limit \in Nat \ {0} /\ g.page \in Nat /\ g.texts \in Nat /\ g.asks \in Nat /\ g.age \in Nat

\* The conversation of a request r among the messages m, and what of it was there when r came:
\* what a page shows, and what is beyond its window.
Between(m, r) == {i \in DOMAIN m : <<m[i].from, m[i].to>> \in {<<r.by, r.to>>, <<r.to, r.by>>}}
InWindow(g, m, r, i) == r.by \in g.members \/ m[i].age < 2
SeenOf(g, m, r) == {i \in Between(m, r) : i <= r.upto /\ InWindow(g, m, r, i)}
BeyondOf(g, m, r) == {i \in Between(m, r) : i <= r.upto /\ ~InWindow(g, m, r, i)}

\* A request of a conversation has, until time passes, what was there when it came: shown, unless there
\* is more than a page, or counted as older; and once marked it is read.
Whole(g, r, m, a) ==
    /\ r.step # "idle" => r.by \in g.people /\ r.to \in g.people
    /\ r.upto <= Len(m) /\ r.age <= a /\ r.shown \subseteq DOMAIN m
    /\ r.age = a /\ r.step \in {"mark", "page"} /\ Cardinality(Between(m, r)) <= g.page => SeenOf(g, m,
         r) \subseteq r.shown
    /\ r.age = a /\ r.older # NoOne => Cardinality(BeyondOf(g, m, r)) <= r.older
    /\ r.step = "page" => \A i \in 1..r.upto : m[i].from = r.to /\ m[i].to = r.by => m[i].read

\* A request that a block stood against goes no further, while the block lasts.
Barred(r, b) ==
    r.stood => /\ r.step \in {"gate", "block", "sever", "lift", "count", "send"}
               /\ {<<r.by, r.to>>, <<r.to, r.by>>} \cap b # {}
               /\ (r.step \in {"count", "send"} => r.act = "comment")

\* What somebody sent lately, and the requests that are about to send more: together they stay below
\* the limit and one for each handler.
LatelyOf(m, c, u, act) ==
    IF act = "message" THEN {i \in DOMAIN m : m[i].from = u /\ m[i].age = 0}
    ELSE {i \in DOMAIN c : c[i].by = u /\ c[i].age = 0}
Sending(g, q, u, act) == {h \in g.handlers : q[h].step = "send" /\ q[h].by = u /\ q[h].act = act}
Paced(g, m, c, q) ==
    \A u \in g.people, act \in {"message", "comment"} :
        Cardinality(LatelyOf(m, c, u, act)) + Cardinality(Sending(g, q, u, act)) < g.limit
               + Cardinality(g.handlers)

PeopleInv(g) ==
    /\ x3 \subseteq g.people \X g.people
    /\ x5 \in Seq(Message(g)) /\ x6 \in Seq(Comment(g)) /\ x9 \in Nat
    /\ x7 \in [g.handlers -> PeopleRequest(g)]
    /\ \A h \in g.handlers : Whole(g, x7[h], x5, x9) /\ Barred(x7[h], x4)
    /\ Paced(g, x5, x6, x7)

\* Messages that grow, keep what they are and are only marked: n after m.
Grown(m, n) ==
    /\ Len(m) <= Len(n)
    /\ \A i \in 1..Len(m) : /\ n[i].from = m[i].from /\ n[i].to = m[i].to /\ n[i].age = m[i].age
                            /\ m[i].read => n[i].read

\* Social counts as everybody does.
LEMMA GroupCount == ASSUME NEW g, NEW S PROVE Among(g)!Cardinality(S) = Cardinality(S)
BY Zenon DEF Among!Cardinality, Cardinality

\* What was there is found again among messages that grew.
LEMMA FoundAgain ==
    ASSUME NEW g, NEW r \in PeopleRequest(g), NEW m \in Seq(Message(g)), NEW n \in Seq(Message(g)), Grown(m, n),
           r.upto <= Len(m)
    PROVE  /\ Between(m, r) \subseteq Between(n, r) /\ IsFiniteSet(Between(n, r))
           /\ SeenOf(g, n, r) = SeenOf(g, m, r) /\ BeyondOf(g, n, r) = BeyondOf(g, m, r)
<1>1. /\ Len(m) \in Nat /\ Len(n) \in Nat /\ DOMAIN m = 1..Len(m) /\ DOMAIN n = 1..Len(n) /\ r.upto \in Nat
      /\ Len(m) <= Len(n)
  BY DEF Grown, PeopleRequest
<1>2. \A i \in 1..Len(m) : n[i].from = m[i].from /\ n[i].to = m[i].to /\ n[i].age = m[i].age
  BY DEF Grown
<1>3. Between(m, r) \subseteq Between(n, r)
  BY <1>1, <1>2 DEF Between
<1>4. \A i \in Between(n, r) : i <= r.upto => i \in Between(m, r)
  BY <1>1, <1>2 DEF Between
<1>5. \A i \in Between(m, r) : InWindow(g, m, r, i) <=> InWindow(g, n, r, i)
  BY <1>1, <1>2 DEF Between, InWindow
<1>6. IsFiniteSet(Between(n, r))
  <2>1. IsFiniteSet(1..Len(n)) /\ Between(n, r) \subseteq 1..Len(n)
    BY <1>1, FS_Interval DEF Between
  <2> QED BY <2>1, FS_Subset
<1> QED BY <1>3, <1>4, <1>5, <1>6 DEF SeenOf, BeyondOf

\* A request stays whole while messages grow, and when time passes.
LEMMA WholeStays ==
    ASSUME NEW g, NEW r \in PeopleRequest(g), NEW m \in Seq(Message(g)), NEW n \in Seq(Message(g)),
           NEW a \in Nat,
           GroupFits(g), Whole(g, r, m, a), Grown(m, n)
    PROVE  Whole(g, r, n, a)
<1>1. /\ Len(m) \in Nat /\ Len(n) \in Nat /\ DOMAIN m = 1..Len(m) /\ DOMAIN n = 1..Len(n) /\ r.upto \in Nat
      /\ Len(m) <= Len(n) /\ r.upto <= Len(m) /\ r.age <= a /\ r.shown \subseteq DOMAIN m /\ g.page \in Nat
  BY DEF Grown, PeopleRequest, Whole, GroupFits
<1>2. /\ Between(m, r) \subseteq Between(n, r) /\ IsFiniteSet(Between(n, r))
      /\ SeenOf(g, n, r) = SeenOf(g, m, r) /\ BeyondOf(g, n, r) = BeyondOf(g, m, r)
  BY <1>1, FoundAgain
<1>3. Cardinality(Between(n, r)) <= g.page => Cardinality(Between(m, r)) <= g.page
  <2>1. Cardinality(Between(m, r)) <= Cardinality(Between(n, r))
    BY <1>2, FS_Subset
  <2>2. Cardinality(Between(m, r)) \in Nat /\ Cardinality(Between(n, r)) \in Nat
    BY <1>2, FS_Subset, FS_CardinalityType
  <2> QED BY <1>1, <2>1, <2>2
<1>4. r.step = "page" => \A i \in 1..r.upto : n[i].from = r.to /\ n[i].to = r.by => n[i].read
  <2>1. \A i \in 1..r.upto : i \in 1..Len(m)
    BY <1>1
  <2> QED BY <2>1 DEF Grown, Whole
<1>5. r.shown \subseteq DOMAIN n
  BY <1>1
<1> QED BY <1>1, <1>2, <1>3, <1>4, <1>5 DEF Whole

\* A request whose time has passed promises nothing but what is there, and what it marked.
LEMMA WholeLater ==
    ASSUME NEW g, NEW r \in PeopleRequest(g), NEW m \in Seq(Message(g)), NEW n \in Seq(Message(g)),
           NEW a \in Nat,
           Whole(g, r, m, a), Len(n) = Len(m),
           \A i \in 1..Len(m) : n[i].from = m[i].from /\ n[i].to = m[i].to /\ n[i].read = m[i].read
    PROVE  Whole(g, r, n, a + 1)
<1>1. /\ Len(m) \in Nat /\ DOMAIN m = 1..Len(m) /\ DOMAIN n = 1..Len(m) /\ r.upto \in Nat
      /\ r.upto <= Len(m) /\ r.age <= a /\ r.shown \subseteq DOMAIN m /\ r.age \in Nat
  BY DEF PeopleRequest, Whole
<1>2. \A i \in 1..r.upto : i \in 1..Len(m)
  BY <1>1
<1>3. r.age <= a + 1 /\ r.age # a + 1
  BY <1>1
<1> QED BY <1>1, <1>2, <1>3 DEF Whole

\* The newest of no more than a page are all of them.
LEMMA NewestAreAll ==
    ASSUME NEW g, NEW r \in PeopleRequest(g), NEW m \in Seq(Message(g)), GroupFits(g),
           Cardinality(Between(m, r)) <= g.page, NEW S \in SUBSET Between(m, r)
    PROVE  Among(g)!Newest(S) = S
<1>1. IsFiniteSet(Between(m, r)) /\ g.page \in Nat
  <2>1. IsFiniteSet(1..Len(m)) /\ Between(m, r) \subseteq 1..Len(m)
    BY FS_Interval DEF Between
  <2> QED BY <2>1, FS_Subset DEF GroupFits
<1>2. ASSUME NEW i \in S PROVE Among(g)!Cardinality({j \in S : j > i}) < g.page
  <2> DEFINE T == {j \in S : j > i}
  <2>1. T \subseteq Between(m, r) \ {i} /\ i \in Between(m, r)
    BY DEF Between
  <2>2. /\ IsFiniteSet(Between(m, r) \ {i})
        /\ Cardinality(Between(m, r) \ {i}) = Cardinality(Between(m, r)) - 1
    BY <1>1, <2>1, FS_RemoveElement
  <2> HIDE DEF T
  <2>3. Cardinality(T) <= Cardinality(Between(m, r) \ {i}) /\ Cardinality(T) \in Nat
    BY <2>1, <2>2, FS_Subset, FS_CardinalityType
  <2>4. Cardinality(Between(m, r)) \in Nat
    BY <1>1, FS_CardinalityType
  <2>5. Cardinality(T) < g.page
    BY <1>1, <2>2, <2>3, <2>4
  <2> QED BY <2>5, GroupCount DEF T
<1> QED BY <1>2 DEF Among!Newest

\* What was sent lately, and what is about to be, is finite.
LEMMA PaceIsFinite ==
    ASSUME NEW g, GroupFits(g), NEW m \in Seq(Message(g)), NEW c \in Seq(Comment(g)), NEW q, NEW u, NEW act
    PROVE  /\ IsFiniteSet(LatelyOf(m, c, u, act)) /\ IsFiniteSet(Sending(g, q, u, act))
           /\ Cardinality(LatelyOf(m, c, u, act)) \in Nat /\ Cardinality(Sending(g, q, u, act)) \in Nat
           /\ Cardinality(g.handlers) \in Nat /\ Cardinality(Sending(g, q, u, act)) <= Cardinality(g.handlers)
<1>1. IsFiniteSet(1..Len(m)) /\ IsFiniteSet(1..Len(c))
  BY FS_Interval
<1>2. LatelyOf(m, c, u, act) \subseteq 1..Len(m) \/ LatelyOf(m, c, u, act) \subseteq 1..Len(c)
  BY DEF LatelyOf
<1>3. IsFiniteSet(LatelyOf(m, c, u, act))
  BY <1>1, <1>2, FS_Subset
<1>4. Sending(g, q, u, act) \subseteq g.handlers /\ IsFiniteSet(g.handlers)
  BY DEF Sending, GroupFits
<1> QED BY <1>3, <1>4, FS_Subset, FS_CardinalityType

\* The pace is kept by what sends nothing and plans to send no more.
LEMMA PaceStays ==
    ASSUME NEW g, GroupFits(g), NEW m \in Seq(Message(g)), NEW c \in Seq(Comment(g)), NEW q,
           NEW n \in Seq(Message(g)), NEW d \in Seq(Comment(g)), NEW p, Paced(g, m, c, q),
           \A u \in g.people, act \in {"message", "comment"} :
                /\ LatelyOf(n, d, u, act) \subseteq LatelyOf(m, c, u, act)
                /\ Sending(g, p, u, act) \subseteq Sending(g, q, u, act)
    PROVE  Paced(g, n, d, p)
<1> SUFFICES ASSUME NEW u \in g.people, NEW act \in {"message", "comment"}
             PROVE  Cardinality(LatelyOf(n, d, u, act)) + Cardinality(Sending(g, p, u, act))
                    < g.limit + Cardinality(g.handlers)
  BY DEF Paced
<1>1. /\ IsFiniteSet(LatelyOf(m, c, u, act)) /\ IsFiniteSet(Sending(g, q, u, act))
      /\ Cardinality(LatelyOf(m, c, u, act)) \in Nat /\ Cardinality(Sending(g, q, u, act)) \in Nat
      /\ Cardinality(LatelyOf(n, d, u, act)) \in Nat /\ Cardinality(Sending(g, p, u, act)) \in Nat
      /\ Cardinality(g.handlers) \in Nat /\ g.limit \in Nat
  BY PaceIsFinite DEF GroupFits
<1>2. /\ Cardinality(LatelyOf(n, d, u, act)) <= Cardinality(LatelyOf(m, c, u, act))
      /\ Cardinality(Sending(g, p, u, act)) <= Cardinality(Sending(g, q, u, act))
  BY <1>1, FS_Subset
<1>3. Cardinality(LatelyOf(m, c, u, act)) + Cardinality(Sending(g, q, u, act)) < g.limit
       + Cardinality(g.handlers)
  BY DEF Paced
<1> QED BY <1>1, <1>2, <1>3

\* A request that counted less than the limit may send: all that send at once are the handlers.
LEMMA PaceCounted ==
    ASSUME NEW g, GroupFits(g), NEW m \in Seq(Message(g)), NEW c \in Seq(Comment(g)), Paced(g, m, c, x7),
           NEW h \in g.handlers, x7 \in [g.handlers -> PeopleRequest(g)],
           Cardinality(LatelyOf(m, c, x7[h].by, x7[h].act)) < g.limit,
           x7' = [x7 EXCEPT ![h].step = "send"]
    PROVE  Paced(g, m, c, x7')
<1> SUFFICES ASSUME NEW u \in g.people, NEW act \in {"message", "comment"}
             PROVE  Cardinality(LatelyOf(m, c, u, act)) + Cardinality(Sending(g, x7', u, act))
                    < g.limit + Cardinality(g.handlers)
  BY DEF Paced
<1>1. /\ Cardinality(LatelyOf(m, c, u, act)) \in Nat /\ Cardinality(Sending(g, x7', u, act)) \in Nat
      /\ Cardinality(g.handlers) \in Nat /\ Cardinality(Sending(g, x7', u, act)) <= Cardinality(g.handlers)
      /\ g.limit \in Nat
  BY PaceIsFinite DEF GroupFits
<1>2. CASE u = x7[h].by /\ act = x7[h].act
  BY <1>1, <1>2
<1>3. CASE ~(u = x7[h].by /\ act = x7[h].act)
  <2>1. Sending(g, x7', u, act) = Sending(g, x7, u, act)
    <3>1. \A k \in g.handlers : x7'[k].by = x7[k].by /\ x7'[k].act = x7[k].act /\ (k # h
           => x7'[k].step = x7[k].step)
      BY DEF PeopleRequest
    <3> QED BY <3>1, <1>3 DEF Sending
  <2> QED BY <2>1 DEF Paced
<1> QED BY <1>2, <1>3

\* What was sent lately grew by no more than x, of the request r.
SentOne(g, m, c, n, d, r, x) ==
    \A u \in g.people, act \in {"message", "comment"} :
        LatelyOf(n, d, u, act) \subseteq LatelyOf(m, c, u, act)
            \cup (IF u = r.by /\ act = r.act THEN {x} ELSE {})

\* A request that sends is one less of those that are about to.
LEMMA PaceSent ==
    ASSUME NEW g, GroupFits(g), NEW m \in Seq(Message(g)), NEW c \in Seq(Comment(g)), NEW q, Paced(g, m, c, q),
           NEW n \in Seq(Message(g)), NEW d \in Seq(Comment(g)), NEW p,
           NEW h \in g.handlers, q[h].step = "send",
           p[h].step = "idle", \A k \in g.handlers : k # h => p[k] = q[k],
           NEW x, SentOne(g, m, c, n, d, q[h], x)
    PROVE  Paced(g, n, d, p)
<1> SUFFICES ASSUME NEW u \in g.people, NEW act \in {"message", "comment"}
             PROVE  Cardinality(LatelyOf(n, d, u, act)) + Cardinality(Sending(g, p, u, act))
                    < g.limit + Cardinality(g.handlers)
  BY DEF Paced
<1> DEFINE A == LatelyOf(m, c, u, act)  B == LatelyOf(n, d, u, act)
           S == Sending(g, q, u, act)   R == Sending(g, p, u, act)
<1>1. /\ IsFiniteSet(A) /\ IsFiniteSet(B) /\ IsFiniteSet(S) /\ IsFiniteSet(R)
      /\ Cardinality(A) \in Nat /\ Cardinality(B) \in Nat /\ Cardinality(S) \in Nat /\ Cardinality(R) \in Nat
      /\ Cardinality(g.handlers) \in Nat /\ g.limit \in Nat
  BY PaceIsFinite DEF GroupFits
<1>2. Cardinality(A) + Cardinality(S) < g.limit + Cardinality(g.handlers)
  BY DEF Paced
<1>3. B \subseteq A \cup (IF u = q[h].by /\ act = q[h].act THEN {x} ELSE {})
  BY DEF SentOne
<1>4. R = S \ {h} /\ (u = q[h].by /\ act = q[h].act <=> h \in S)
  BY DEF Sending
<1> HIDE DEF A, B, S, R
<1>5. CASE h \in S
  <2>1. Cardinality(R) = Cardinality(S) - 1
    BY <1>1, <1>4, <1>5, FS_RemoveElement
  <2>2. B \subseteq A \cup {x} /\ IsFiniteSet(A \cup {x})
    BY <1>1, <1>3, <1>4, <1>5, FS_AddElement
  <2>3. Cardinality(B) <= Cardinality(A \cup {x}) /\ Cardinality(A \cup {x}) <= Cardinality(A) + 1
        /\ Cardinality(A \cup {x}) \in Nat
    <3>1. Cardinality(A \cup {x}) = IF x \in A THEN Cardinality(A) ELSE Cardinality(A) + 1
      BY <1>1, FS_AddElement
    <3>2. Cardinality(B) <= Cardinality(A \cup {x})
      BY <2>2, FS_Subset
    <3> QED BY <1>1, <3>1, <3>2
  <2>4. Cardinality(B) + Cardinality(R) < g.limit + Cardinality(g.handlers)
    BY <1>1, <1>2, <2>1, <2>3
  <2> QED BY <2>4 DEF B, R
<1>6. CASE h \notin S
  <2>1. B \subseteq A /\ R = S
    BY <1>3, <1>4, <1>6
  <2>2. Cardinality(B) <= Cardinality(A)
    BY <1>1, <2>1, FS_Subset
  <2>3. Cardinality(B) + Cardinality(R) < g.limit + Cardinality(g.handlers)
    BY <1>1, <1>2, <2>1, <2>2
  <2> QED BY <2>3 DEF B, R
<1> QED BY <1>5, <1>6

\* A request that is idle, or has begun.
LEMMA PeopleIdle ==
    ASSUME NEW g
    PROVE  /\ Among(g)!Idle \in PeopleRequest(g) /\ Among(g)!Idle.step = "idle" /\ ~Among(g)!Idle.stood
           /\ \A m, a : a \in Nat /\ m \in Seq(Message(g)) => Whole(g, Among(g)!Idle, m, a)
           /\ \A b : Barred(Among(g)!Idle, b)
<1>1. /\ Among(g)!Idle \in PeopleRequest(g) /\ Among(g)!Idle.step = "idle" /\ ~Among(g)!Idle.stood
      /\ Among(g)!Idle.shown = {} /\ Among(g)!Idle.older = NoOne /\ Among(g)!Idle.upto = 0
      /\ Among(g)!Idle.age = 0
  BY DEF Among!Idle, PeopleRequest, PeopleOf, Among!Steps
<1>2. \A b : Barred(Among(g)!Idle, b)
  BY <1>1 DEF Barred
<1>3. ASSUME NEW m \in Seq(Message(g)), NEW a \in Nat PROVE Whole(g, Among(g)!Idle, m, a)
  BY <1>1, <1>3 DEF Whole
<1> QED BY <1>1, <1>2, <1>3

\* To begin with every request is idle.
LEMMA PeopleInit == ASSUME NEW g, GroupFits(g), Among(g)!Init PROVE PeopleInv(g)
<1>1. /\ x3 \subseteq g.people \X g.people /\ x5 = <<>> /\ x6 = <<>> /\ x9 = 0
      /\ x7 = [h \in g.handlers |-> Among(g)!Idle]
  BY DEF Among!Init, GroupFits
<1>2. x5 \in Seq(Message(g)) /\ x6 \in Seq(Comment(g)) /\ x9 \in Nat /\ DOMAIN x5 = {} /\ DOMAIN x6 = {}
  BY <1>1
<1>3. /\ x7 \in [g.handlers -> PeopleRequest(g)]
      /\ \A h \in g.handlers : Whole(g, x7[h], x5, x9) /\ Barred(x7[h], x4) /\ x7[h].step = "idle"
  BY <1>1, <1>2, PeopleIdle
<1>4. Paced(g, x5, x6, x7)
  <2> SUFFICES ASSUME NEW u \in g.people, NEW act \in {"message", "comment"}
               PROVE  Cardinality(LatelyOf(x5, x6, u, act)) + Cardinality(Sending(g, x7, u, act))
                      < g.limit + Cardinality(g.handlers)
    BY DEF Paced
  <2>1. LatelyOf(x5, x6, u, act) = {} /\ Sending(g, x7, u, act) = {}
    BY <1>2, <1>3 DEF LatelyOf, Sending
  <2>2. Cardinality({}) = 0
    BY FS_EmptySet
  <2>3. Cardinality(g.handlers) \in Nat /\ g.limit \in Nat \ {0}
    BY FS_CardinalityType DEF GroupFits
  <2> QED BY <2>1, <2>2, <2>3
<1> QED BY <1>1, <1>2, <1>3, <1>4 DEF PeopleInv

\* A request that changes alone, sends nothing and does not come to send.
LEMMA PeopleMoves ==
    ASSUME NEW g, GroupFits(g), PeopleInv(g), NEW h \in g.handlers, NEW q \in PeopleRequest(g),
           x7' = [x7 EXCEPT ![h] = q], q.step # "send", UNCHANGED <<x5, x6, x9>>,
           x3' \subseteq g.people \X g.people, x4 \subseteq x4',
           Whole(g, q, x5, x9), Barred(q, x4')
    PROVE  PeopleInv(g)'
<1>1. x7 \in [g.handlers -> PeopleRequest(g)] /\ x5 \in Seq(Message(g)) /\ x6 \in Seq(Comment(g)) /\ x9 \in Nat
  BY DEF PeopleInv
<1>2. x7' \in [g.handlers -> PeopleRequest(g)] /\ x7'[h] = q /\ \A k \in g.handlers : k # h => x7'[k] = x7[k]
  BY <1>1
<1>3. ASSUME NEW k \in g.handlers PROVE Whole(g, x7'[k], x5, x9) /\ Barred(x7'[k], x4')
  <2>1. k # h => Whole(g, x7[k], x5, x9) /\ Barred(x7[k], x4)
    BY DEF PeopleInv
  <2>2. k # h => Barred(x7[k], x4')
    BY <2>1 DEF Barred
  <2> QED BY <1>2, <2>1, <2>2
<1>4. Paced(g, x5, x6, x7')
  <2>1. \A u, act : Sending(g, x7', u, act) \subseteq Sending(g, x7, u, act)
    BY <1>2 DEF Sending
  <2>2. Paced(g, x5, x6, x7)
    BY DEF PeopleInv
  <2> QED BY <1>1, <2>1, <2>2, PaceStays
<1> QED BY <1>1, <1>2, <1>3, <1>4 DEF PeopleInv

\* A request arrives: it knows what was there, and whether a block stood.
LEMMA PeopleAsk ==
    ASSUME NEW g, GroupFits(g), PeopleInv(g), NEW h \in g.handlers, NEW u \in g.people, NEW v \in g.people,
           NEW act \in g.acts, Among(g)!Ask(h, u, v, act)
    PROVE  PeopleInv(g)'
<1> DEFINE s == Among(g)!First(act)  b == Among(g)!Blocked(u, v)
           q == [step |-> s, by |-> u, to |-> v, act |-> act, stood |-> b,
                 shown |-> {}, older |-> NoOne, upto |-> Len(x5), age |-> x9]
<1>1. /\ x7' = [x7 EXCEPT ![h] = [Among(g)!Idle EXCEPT !.step = s, !.by = u, !.to = v, !.act = act,
                                   !.age = x9, !.stood = b, !.upto = Len(x5)]]
      /\ UNCHANGED <<x3, x4, x5, x6, x9>>
  BY DEF Among!Ask
<1>2. s \in {"block", "lift", "count", "gate"} /\ (s = "count" => act = "comment")
  BY DEF Among!First
<1>3. x5 \in Seq(Message(g)) /\ x9 \in Nat /\ Len(x5) \in Nat /\ x3 \subseteq g.people \X g.people
  BY DEF PeopleInv
<1>4. b \in BOOLEAN /\ (b <=> {<<u, v>>, <<v, u>>} \cap x4 # {})
  BY DEF Among!Blocked, Among!Both
<1> HIDE DEF s, b
<1>5. x7' = [x7 EXCEPT ![h] = q]
  <2>1. Among(g)!Idle = [step |-> "idle", by |-> NoOne, to |-> NoOne, act |-> NoOne, stood |-> FALSE,
                         shown |-> {}, older |-> NoOne, upto |-> 0, age |-> 0]
    BY DEF Among!Idle
  <2> DEFINE i == Among(g)!Idle
             p == [i EXCEPT !.step = s, !.by = u, !.to = v, !.act = act, !.age = x9, !.stood = b,
                    !.upto = Len(x5)]
  <2>2. p = [f \in DOMAIN i |-> IF f = "step" THEN s ELSE IF f = "by" THEN u ELSE IF f = "to" THEN v
                                ELSE IF f = "act" THEN act ELSE IF f = "age" THEN x9 ELSE IF f = "stood" THEN b
                                ELSE IF f = "upto" THEN Len(x5) ELSE i[f]]
    BY <2>1
  <2>3. DOMAIN i = {"step", "by", "to", "act", "stood", "shown", "older", "upto", "age"}
         /\ i.shown = {} /\ i.older = NoOne
    BY <2>1
  <2>4. p = q
    BY <2>2, <2>3
  <2> QED BY <1>1, <2>4
<1>6. q \in PeopleRequest(g)
  BY <1>2, <1>3, <1>4 DEF PeopleRequest, PeopleOf, Among!Steps
<1>7. /\ q.step = s /\ q.by = u /\ q.to = v /\ q.act = act /\ q.stood = b /\ q.shown = {} /\ q.older = NoOne
      /\ q.upto = Len(x5) /\ q.age = x9
  OBVIOUS
<1> HIDE DEF q
<1>8. Whole(g, q, x5, x9) /\ q.step # "send"
  BY <1>2, <1>3, <1>7 DEF Whole
<1>9. Barred(q, x4)
  BY <1>2, <1>4, <1>7 DEF Barred
<1> QED BY <1>1, <1>3, <1>5, <1>6, <1>8, <1>9, PeopleMoves

\* A request goes on to a step at which it has nothing to show.
LEMMA PeopleGoOn ==
    ASSUME NEW g, GroupFits(g), PeopleInv(g), NEW h \in g.handlers, NEW s \in Among(g)!Steps \ {"mark",
           "page", "send"},
           x7[h].step # "idle", x7' = [x7 EXCEPT ![h].step = s], UNCHANGED <<x5, x6, x9>>,
           x3' \subseteq g.people \X g.people, x4 \subseteq x4',
           x7[h].stood => s \in {"gate", "block", "sever", "lift"}
    PROVE  PeopleInv(g)'
<1> DEFINE q == [x7[h] EXCEPT !.step = s]
<1>1. x7[h] \in PeopleRequest(g) /\ Whole(g, x7[h], x5, x9) /\ Barred(x7[h], x4) /\ DOMAIN x7 = g.handlers
  BY DEF PeopleInv
<1>2. x7' = [x7 EXCEPT ![h] = q]
  BY <1>1
<1>3. /\ q \in PeopleRequest(g) /\ q.step = s /\ q.stood = x7[h].stood /\ q.by = x7[h].by /\ q.to = x7[h].to
      /\ q.upto = x7[h].upto /\ q.age = x7[h].age /\ q.older = x7[h].older /\ q.shown = x7[h].shown
  BY <1>1 DEF PeopleRequest
<1>4. Whole(g, q, x5, x9)
  <2>1. BeyondOf(g, x5, q) = BeyondOf(g, x5, x7[h])
    BY <1>3 DEF BeyondOf, Between, InWindow
  <2> QED BY <1>1, <1>3, <2>1 DEF Whole
<1>5. Barred(q, x4')
  BY <1>1, <1>3 DEF Barred
<1> HIDE DEF q
<1> QED BY <1>2, <1>3, <1>4, <1>5, PeopleMoves

\* A request ends.
LEMMA PeopleEnds ==
    ASSUME NEW g, GroupFits(g), PeopleInv(g), NEW h \in g.handlers,
           x7' = [x7 EXCEPT ![h] = Among(g)!Idle], UNCHANGED <<x5, x6, x9>>,
           x3' \subseteq g.people \X g.people, x4 \subseteq x4'
    PROVE  PeopleInv(g)'
<1>1. x5 \in Seq(Message(g)) /\ x9 \in Nat
  BY DEF PeopleInv
<1> QED BY <1>1, PeopleMoves, PeopleIdle

\* Past the gate, and through a follow or a block.
LEMMA PeopleGate ==
    ASSUME NEW g, GroupFits(g), PeopleInv(g), NEW h \in g.handlers,
           Among(g)!Gate(h) \/ Among(g)!Write(h) \/ Among(g)!Block(h) \/ Among(g)!Sever(h)
           \/ Among(g)!Render(h)
    PROVE  PeopleInv(g)'
<1>1. x7[h] \in PeopleRequest(g) /\ Barred(x7[h], x4) /\ x7 \in [g.handlers -> PeopleRequest(g)]
      /\ x3 \subseteq g.people \X g.people
  BY DEF PeopleInv
<1>2. CASE Among(g)!Gate(h)
  <2>1. UNCHANGED <<x3, x4, x5, x6, x9>>
    BY <1>2 DEF Among!Gate
  <2>2. CASE Among(g)!Blocked(x7[h].by, x7[h].to)
    <3>1. x7' = [x7 EXCEPT ![h] = Among(g)!Idle]
      BY <1>1, <1>2, <2>2 DEF Among!Gate
    <3> QED BY <1>1, <2>1, <3>1, PeopleEnds
  <2>3. CASE ~Among(g)!Blocked(x7[h].by, x7[h].to)
    <3> DEFINE s == Among(g)!After(x7[h].act)
    <3>1. x7' = [x7 EXCEPT ![h].step = s] /\ x7[h].step # "idle"
      BY <1>1, <1>2, <2>3 DEF Among!Gate
    <3>2. s \in Among(g)!Steps \ {"mark", "page", "send"}
      BY DEF Among!After, Among!Steps
    <3>3. ~x7[h].stood
      BY <1>1, <2>3 DEF Barred, Among!Blocked, Among!Both
    <3> HIDE DEF s
    <3> QED BY <1>1, <2>1, <3>1, <3>2, <3>3, PeopleGoOn
  <2> QED BY <2>2, <2>3
<1>3. CASE Among(g)!Write(h)
  <2>1. /\ x7' = [x7 EXCEPT ![h] = Among(g)!Idle] /\ UNCHANGED <<x4, x5, x6, x9>> /\ x7[h].step = "write"
        /\ x3' = x3 \cup {<<x7[h].by, x7[h].to>>} \/ x3' \subseteq x3
    BY <1>3 DEF Among!Write
  <2>2. x3' \subseteq g.people \X g.people
    <3>1. x7[h].by \in g.people /\ x7[h].to \in g.people
      BY <2>1 DEF PeopleInv, Whole
    <3> QED BY <1>1, <2>1, <3>1
  <2> QED BY <2>1, <2>2, PeopleEnds
<1>4. CASE Among(g)!Block(h)
  <2>1. /\ x7' = [x7 EXCEPT ![h].step = "sever"] /\ UNCHANGED <<x3, x5, x6, x9>> /\ x4 \subseteq x4'
        /\ x7[h].step # "idle"
    BY <1>4 DEF Among!Block
  <2> QED BY <1>1, <2>1, PeopleGoOn DEF Among!Steps
<1>5. CASE Among(g)!Sever(h)
  <2>1. /\ x7' = [x7 EXCEPT ![h] = Among(g)!Idle] /\ UNCHANGED <<x4, x5, x6, x9>> /\ x3' \subseteq x3
    BY <1>5 DEF Among!Sever, Among!Severed
  <2> QED BY <1>1, <2>1, PeopleEnds
<1>6. CASE Among(g)!Render(h)
  <2>1. x7' = [x7 EXCEPT ![h] = Among(g)!Idle] /\ UNCHANGED <<x3, x4, x5, x6, x9>>
    BY <1>6 DEF Among!Render
  <2> QED BY <1>1, <2>1, PeopleEnds
<1> QED BY <1>2, <1>3, <1>4, <1>5, <1>6

\* A block that is lifted: whom it stopped may go on.
LEMMA PeopleLift ==
    ASSUME NEW g, GroupFits(g), PeopleInv(g), NEW h \in g.handlers, Among(g)!Lift(h)
    PROVE  PeopleInv(g)'
<1>1. /\ UNCHANGED <<x3, x5, x6, x9>> /\ x7[h].step = "lift"
      /\ x7' = [k \in g.handlers |-> IF k = h THEN Among(g)!Idle ELSE
                  [x7[k] EXCEPT !.stood = @ /\ Among(g)!Both(x7[k].by, x7[k].to) \cap x4' # {}]]
  BY DEF Among!Lift
<1>2. /\ x7 \in [g.handlers -> PeopleRequest(g)] /\ x5 \in Seq(Message(g)) /\ x9 \in Nat
           /\ x6 \in Seq(Comment(g))
      /\ \A k \in g.handlers : Whole(g, x7[k], x5, x9) /\ Barred(x7[k], x4)
  BY DEF PeopleInv
<1>3. ASSUME NEW k \in g.handlers, k # h
      PROVE  /\ x7'[k] \in PeopleRequest(g) /\ x7'[k].step = x7[k].step /\ x7'[k].by = x7[k].by
             /\ x7'[k].act = x7[k].act
             /\ Whole(g, x7'[k], x5, x9) /\ Barred(x7'[k], x4')
  <2> DEFINE r == x7[k]
             b == r.stood /\ Among(g)!Both(r.by, r.to) \cap x4' # {}
             q == [r EXCEPT !.stood = b]
  <2>1. r \in PeopleRequest(g) /\ x7'[k] = q /\ b \in BOOLEAN
    BY <1>1, <1>2, <1>3
  <2>2. /\ q \in PeopleRequest(g) /\ q.step = r.step /\ q.stood = b /\ q.by = r.by /\ q.to = r.to
        /\ q.upto = r.upto /\ q.age = r.age /\ q.older = r.older /\ q.shown = r.shown /\ q.act = r.act
    <3> HIDE DEF b, r
    <3> QED BY <2>1 DEF PeopleRequest
  <2>3. Whole(g, q, x5, x9)
    <3>1. Whole(g, r, x5, x9)
      BY <1>2
    <3> HIDE DEF r, q, b
    <3>2. BeyondOf(g, x5, q) = BeyondOf(g, x5, r) /\ SeenOf(g, x5, q) = SeenOf(g, x5, r)
          /\ Between(x5, q) = Between(x5, r)
      BY <2>2 DEF BeyondOf, SeenOf, Between, InWindow
    <3> QED BY <2>2, <3>1, <3>2 DEF Whole
  <2>4. Barred(q, x4')
    <3>1. Barred(r, x4) /\ (b => r.stood /\ {<<r.by, r.to>>, <<r.to, r.by>>} \cap x4' # {})
      BY <1>2 DEF Among!Both
    <3> HIDE DEF r, q, b
    <3> QED BY <2>2, <3>1 DEF Barred
  <2> QED BY <2>1, <2>2, <2>3, <2>4
<1>4. x7'[h] = Among(g)!Idle
  BY <1>1
<1>5. \A k \in g.handlers : x7'[k] \in PeopleRequest(g) /\ Whole(g, x7'[k], x5, x9) /\ Barred(x7'[k], x4')
  BY <1>2, <1>3, <1>4, PeopleIdle
<1>6. Paced(g, x5, x6, x7')
  <2>1. \A u, act : Sending(g, x7', u, act) \subseteq Sending(g, x7, u, act)
    BY <1>3, <1>4, PeopleIdle DEF Sending
  <2>2. Paced(g, x5, x6, x7)
    BY DEF PeopleInv
  <2> QED BY <1>2, <2>1, <2>2, PaceStays
<1>7. x7' \in [g.handlers -> PeopleRequest(g)]
  BY <1>1, <1>5
<1> QED BY <1>1, <1>2, <1>5, <1>6, <1>7 DEF PeopleInv

\* What was sent lately, as the model has it.
LEMMA LatelyIs ==
    ASSUME NEW g, NEW u, NEW act
    PROVE  Among(g)!Lately(u, act) = LatelyOf(x5, x6, u, act)
BY DEF Among!Lately, LatelyOf

\* What was sent lately is counted; who is below the limit may send.
LEMMA PeopleCount ==
    ASSUME NEW g, GroupFits(g), PeopleInv(g), NEW h \in g.handlers, Among(g)!Count(h)
    PROVE  PeopleInv(g)'
<1>1. /\ UNCHANGED <<x3, x4, x5, x6, x9>> /\ x7[h].step = "count"
      /\ x7' = [x7 EXCEPT ![h] = IF Among(g)!Cardinality(Among(g)!Lately(@.by, @.act)) >= g.limit
                                 THEN Among(g)!Idle ELSE [@ EXCEPT !.step = "send"]]
  BY DEF Among!Count
<1>2. /\ x7 \in [g.handlers -> PeopleRequest(g)] /\ x5 \in Seq(Message(g)) /\ x9 \in Nat
           /\ x6 \in Seq(Comment(g))
      /\ x7[h] \in PeopleRequest(g) /\ x3 \subseteq g.people \X g.people /\ Paced(g, x5, x6, x7)
      /\ \A k \in g.handlers : Whole(g, x7[k], x5, x9) /\ Barred(x7[k], x4)
  BY DEF PeopleInv
<1> DEFINE n == Cardinality(LatelyOf(x5, x6, x7[h].by, x7[h].act))
<1>3. n \in Nat /\ g.limit \in Nat
  BY <1>2, PaceIsFinite DEF GroupFits
<1>4. x7' = [x7 EXCEPT ![h] = IF n >= g.limit THEN Among(g)!Idle ELSE [x7[h] EXCEPT !.step = "send"]]
  BY <1>1, <1>2, GroupCount, LatelyIs
<1>5. CASE n >= g.limit
  <2>1. x7' = [x7 EXCEPT ![h] = Among(g)!Idle]
    BY <1>4, <1>5
  <2> QED BY <1>1, <1>2, <2>1, PeopleEnds
<1>6. CASE ~(n >= g.limit)
  <2> DEFINE q == [x7[h] EXCEPT !.step = "send"]
  <2>1. x7' = [x7 EXCEPT ![h].step = "send"] /\ x7' = [x7 EXCEPT ![h] = q] /\ n < g.limit
    BY <1>2, <1>3, <1>4, <1>6
  <2>2. Paced(g, x5, x6, x7')
    BY <1>2, <2>1, PaceCounted
  <2>3. /\ q \in PeopleRequest(g) /\ q.step = "send" /\ q.stood = x7[h].stood /\ q.by = x7[h].by
             /\ q.to = x7[h].to
        /\ q.upto = x7[h].upto /\ q.age = x7[h].age /\ q.older = x7[h].older /\ q.shown = x7[h].shown
        /\ q.act = x7[h].act
    BY <1>2 DEF PeopleRequest, Among!Steps
  <2>4. x7' \in [g.handlers -> PeopleRequest(g)] /\ x7'[h] = q /\ \A k \in g.handlers : k # h => x7'[k] = x7[k]
    BY <1>2, <2>1, <2>3
  <2> HIDE DEF q
  <2>5. Whole(g, q, x5, x9)
    <3>1. BeyondOf(g, x5, q) = BeyondOf(g, x5, x7[h])
      BY <2>3 DEF BeyondOf, Between, InWindow
    <3> QED BY <1>1, <1>2, <2>3, <3>1 DEF Whole
  <2>6. Barred(q, x4)
    BY <1>1, <1>2, <2>3 DEF Barred
  <2>7. \A k \in g.handlers : Whole(g, x7'[k], x5, x9) /\ Barred(x7'[k], x4)
    BY <1>2, <2>4, <2>5, <2>6
  <2> QED BY <1>1, <1>2, <2>2, <2>4, <2>7 DEF PeopleInv
<1> QED BY <1>5, <1>6

\* A message or a comment is sent.
LEMMA PeopleSend ==
    ASSUME NEW g, GroupFits(g), PeopleInv(g), NEW h \in g.handlers, Among(g)!Send(h)
    PROVE  PeopleInv(g)'
<1> DEFINE r == x7[h]
<1>1. /\ UNCHANGED <<x3, x4, x9>> /\ r.step = "send" /\ x7' = [x7 EXCEPT ![h] = Among(g)!Idle]
  BY DEF Among!Send
<1>2. /\ x7 \in [g.handlers -> PeopleRequest(g)] /\ x5 \in Seq(Message(g)) /\ x9 \in Nat
           /\ x6 \in Seq(Comment(g))
      /\ x3 \subseteq g.people \X g.people /\ Paced(g, x5, x6, x7)
      /\ \A k \in g.handlers : Whole(g, x7[k], x5, x9) /\ Barred(x7[k], x4)
  BY DEF PeopleInv
<1>3. r.by \in g.people /\ r.to \in g.people
  BY <1>1, <1>2 DEF Whole
<1>4. x7'[h] = Among(g)!Idle /\ x7'[h].step = "idle" /\ \A k \in g.handlers : k # h => x7'[k] = x7[k]
  BY <1>1, <1>2, PeopleIdle
<1>5. x7' \in [g.handlers -> PeopleRequest(g)]
  BY <1>1, <1>2, PeopleIdle
\* Whatever is appended, what was there is as it was.
<1>6. ASSUME x5' \in Seq(Message(g)), x6' \in Seq(Comment(g)), Grown(x5, x5'), NEW x,
             SentOne(g, x5, x6, x5', x6', x7[h], x)
      PROVE  PeopleInv(g)'
  <2>1. Paced(g, x5', x6', x7')
    <3>1. x7[h].step = "send"
      BY <1>1
    <3> QED BY <1>2, <1>4, <1>6, <3>1, PaceSent
  <2>2. ASSUME NEW k \in g.handlers PROVE Whole(g, x7'[k], x5', x9) /\ Barred(x7'[k], x4)
    <3>1. CASE k = h
      <4>1. Whole(g, Among(g)!Idle, x5', x9) /\ Barred(Among(g)!Idle, x4)
        BY <1>2, <1>6, PeopleIdle
      <4> QED BY <1>4, <3>1, <4>1
    <3>2. CASE k # h
      BY <1>2, <1>4, <1>6, <3>2, WholeStays
    <3> QED BY <3>1, <3>2
  <2> QED BY <1>1, <1>2, <1>5, <1>6, <2>1, <2>2 DEF PeopleInv
<1>7. CASE r.act = "message" /\ UNCHANGED x6
           /\ x5' = Append(x5, [from |-> r.by, to |-> r.to, read |-> FALSE, age |-> 0])
  <2> DEFINE m == [from |-> r.by, to |-> r.to, read |-> FALSE, age |-> 0]
  <2>1. m \in Message(g) /\ m.from = r.by /\ x5' = Append(x5, m)
    BY <1>3, <1>7 DEF Message
  <2> HIDE DEF m
  <2>2. /\ x5' \in Seq(Message(g)) /\ Len(x5') = Len(x5) + 1 /\ Len(x5) \in Nat /\ x5'[Len(x5) + 1] = m
        /\ \A i \in 1..Len(x5) : x5'[i] = x5[i]
    BY <1>2, <2>1
  <2>3. Grown(x5, x5')
    BY <2>2 DEF Grown
  <2>4. SentOne(g, x5, x6, x5', x6', x7[h], Len(x5) + 1)
    <3>1. DOMAIN x5' = 1..Len(x5') /\ DOMAIN x5 = 1..Len(x5)
      BY <1>2, <2>2
    <3> QED BY <1>7, <2>1, <2>2, <3>1 DEF LatelyOf, SentOne
  <2> HIDE DEF r
  <2> QED BY <1>2, <1>6, <1>7, <2>2, <2>3, <2>4
<1>8. CASE r.act = "comment" /\ UNCHANGED x5 /\ x6' = Append(x6, [by |-> r.by, gone |-> FALSE, age |-> 0])
  <2> DEFINE m == [by |-> r.by, gone |-> FALSE, age |-> 0]
  <2>1. m \in Comment(g) /\ m.by = r.by /\ x6' = Append(x6, m)
    BY <1>3, <1>8 DEF Comment
  <2> HIDE DEF m
  <2>2. /\ x6' \in Seq(Comment(g)) /\ Len(x6') = Len(x6) + 1 /\ Len(x6) \in Nat /\ x6'[Len(x6) + 1] = m
        /\ \A i \in 1..Len(x6) : x6'[i] = x6[i]
    BY <1>2, <2>1
  <2>3. Grown(x5, x5')
    BY <1>2, <1>8 DEF Grown
  <2>4. SentOne(g, x5, x6, x5', x6', x7[h], Len(x6) + 1)
    <3>1. DOMAIN x6' = 1..Len(x6') /\ DOMAIN x6 = 1..Len(x6)
      BY <1>2, <2>2
    <3> QED BY <1>8, <2>1, <2>2, <3>1 DEF LatelyOf, SentOne
  <2> HIDE DEF r
  <2> QED BY <1>2, <1>6, <1>8, <2>2, <2>3, <2>4
<1> QED BY <1>7, <1>8 DEF Among!Send

\* Every other step on the texts keeps who sent what and when, and takes back no reading.
LEMMA PeopleTouch ==
    ASSUME NEW g, GroupFits(g), PeopleInv(g), UNCHANGED <<x3, x4, x7, x9>>,
           x5' \in Seq(Message(g)), x6' \in Seq(Comment(g)), Grown(x5, x5'), Len(x5') = Len(x5),
                  Len(x6') = Len(x6),
           \A i \in 1..Len(x6) : x6'[i].by = x6[i].by /\ x6'[i].age = x6[i].age
    PROVE  PeopleInv(g)'
<1>1. /\ x7 \in [g.handlers -> PeopleRequest(g)] /\ x5 \in Seq(Message(g)) /\ x9 \in Nat
           /\ x6 \in Seq(Comment(g))
      /\ x3 \subseteq g.people \X g.people /\ Paced(g, x5, x6, x7)
      /\ \A k \in g.handlers : Whole(g, x7[k], x5, x9) /\ Barred(x7[k], x4)
  BY DEF PeopleInv
<1>2. /\ DOMAIN x5 = 1..Len(x5) /\ DOMAIN x5' = 1..Len(x5) /\ DOMAIN x6 = 1..Len(x6) /\ DOMAIN x6' = 1..Len(x6)
      /\ \A i \in 1..Len(x5) : x5'[i].from = x5[i].from /\ x5'[i].age = x5[i].age
  BY <1>1 DEF Grown
<1>3. \A u, act : LatelyOf(x5', x6', u, act) \subseteq LatelyOf(x5, x6, u, act)
  BY <1>2 DEF LatelyOf
<1>4. Paced(g, x5', x6', x7)
  BY <1>1, <1>3, PaceStays
<1>5. \A k \in g.handlers : Whole(g, x7[k], x5', x9)
  BY <1>1, WholeStays
<1> QED BY <1>1, <1>4, <1>5 DEF PeopleInv

\* A deleted comment is still of its author and of its time.
LEMMA PeopleDelete ==
    ASSUME NEW g, GroupFits(g), PeopleInv(g), NEW u \in g.people, NEW i \in DOMAIN x6,
           Among(g)!DeleteComment(u, i)
    PROVE  PeopleInv(g)'
<1>1. x5 \in Seq(Message(g)) /\ x6 \in Seq(Comment(g)) /\ DOMAIN x6 = 1..Len(x6) /\ Len(x6) \in Nat
  BY DEF PeopleInv
<1>2. UNCHANGED <<x3, x4, x5, x7, x9>> /\ x6' = [x6 EXCEPT ![i].gone = TRUE]
  BY DEF Among!DeleteComment
<1>3. \A k \in 1..Len(x6) : x6[k] \in Comment(g)
  BY <1>1
<1>4. /\ x6' \in [1..Len(x6) -> Comment(g)]
      /\ \A k \in 1..Len(x6) : x6'[k].by = x6[k].by /\ x6'[k].age = x6[k].age
  BY <1>1, <1>2, <1>3 DEF Comment
<1>5. x6' \in Seq(Comment(g)) /\ Len(x6') = Len(x6)
  BY <1>1, <1>4
<1>6. Grown(x5, x5') /\ Len(x5') = Len(x5) /\ x5' \in Seq(Message(g))
  BY <1>1, <1>2 DEF Grown
<1> QED BY <1>2, <1>4, <1>5, <1>6, PeopleTouch

\* A request goes on with more to show; nothing else moves but marks of reading.
LEMMA PeopleShows ==
    ASSUME NEW g, GroupFits(g), PeopleInv(g), NEW h \in g.handlers, NEW q \in PeopleRequest(g),
           x7' = [x7 EXCEPT ![h] = q], q.step # "send", UNCHANGED <<x3, x4, x6, x9>>,
           x5' \in Seq(Message(g)), Grown(x5, x5'), Len(x5') = Len(x5),
           Whole(g, q, x5', x9), Barred(q, x4)
    PROVE  PeopleInv(g)'
<1>1. /\ x7 \in [g.handlers -> PeopleRequest(g)] /\ x5 \in Seq(Message(g)) /\ x9 \in Nat
           /\ x6 \in Seq(Comment(g))
      /\ x3 \subseteq g.people \X g.people /\ Paced(g, x5, x6, x7)
      /\ \A k \in g.handlers : Whole(g, x7[k], x5, x9) /\ Barred(x7[k], x4)
  BY DEF PeopleInv
<1>2. x7' \in [g.handlers -> PeopleRequest(g)] /\ x7'[h] = q /\ \A k \in g.handlers : k # h => x7'[k] = x7[k]
  BY <1>1
<1>3. ASSUME NEW k \in g.handlers PROVE Whole(g, x7'[k], x5', x9) /\ Barred(x7'[k], x4)
  <2>1. CASE k = h
    BY <1>2, <2>1
  <2>2. CASE k # h
    BY <1>1, <1>2, <2>2, WholeStays
  <2> QED BY <2>1, <2>2
<1>4. Paced(g, x5', x6, x7')
  <2>1. \A u, act : Sending(g, x7', u, act) \subseteq Sending(g, x7, u, act)
    BY <1>2 DEF Sending
  <2>2. DOMAIN x5' = 1..Len(x5) /\ DOMAIN x5 = 1..Len(x5)
        /\ \A i \in 1..Len(x5) : x5'[i].from = x5[i].from /\ x5'[i].age = x5[i].age
    BY <1>1 DEF Grown
  <2>3. \A u, act : LatelyOf(x5', x6, u, act) \subseteq LatelyOf(x5, x6, u, act)
    BY <2>2 DEF LatelyOf
  <2> QED BY <1>1, <2>1, <2>3, PaceStays
<1> QED BY <1>1, <1>2, <1>3, <1>4 DEF PeopleInv

\* The conversation is read: what there is of it inside the window, unless it is more than a page.
LEMMA PeopleRead ==
    ASSUME NEW g, GroupFits(g), PeopleInv(g), NEW h \in g.handlers, Among(g)!Read(h)
    PROVE  PeopleInv(g)'
<1> DEFINE r == x7[h]
           S == {i \in Between(x5, r) : InWindow(g, x5, r, i)}
           N == Among(g)!Newest(S)
           q == [r EXCEPT !.step = "mark", !.shown = N]
<1>1. /\ x7 \in [g.handlers -> PeopleRequest(g)] /\ x5 \in Seq(Message(g)) /\ r \in PeopleRequest(g)
      /\ Whole(g, r, x5, x9) /\ Barred(r, x4)
  BY DEF PeopleInv
<1>2. S = {i \in Among(g)!Conversation(r.by, r.to) : Among(g)!Within(r.by, i)}
  BY DEF Between, InWindow, Among!Conversation, Among!Within, Among!Both
<1>3. UNCHANGED <<x3, x4, x5, x6, x9>> /\ r.step = "read" /\ x7' = [x7 EXCEPT ![h] = q]
  BY <1>1, <1>2 DEF Among!Read
<1>4. N \subseteq S /\ S \subseteq DOMAIN x5 /\ DOMAIN x5 \subseteq Nat /\ S \subseteq Between(x5, r)
  BY <1>1 DEF Among!Newest, Between
<1>5. Cardinality(Between(x5, r)) <= g.page => N = S
  BY <1>1, <1>4, NewestAreAll
<1>6. SeenOf(g, x5, r) \subseteq S
  BY DEF SeenOf
<1> HIDE DEF N, S, r
<1>7. /\ q \in PeopleRequest(g) /\ q.step = "mark" /\ q.stood = r.stood /\ q.by = r.by /\ q.to = r.to
      /\ q.upto = r.upto /\ q.age = r.age /\ q.older = r.older /\ q.shown = N /\ q.act = r.act
  BY <1>1, <1>4 DEF PeopleRequest, Among!Steps
<1> HIDE DEF q
<1>8. SeenOf(g, x5, q) = SeenOf(g, x5, r) /\ BeyondOf(g, x5, q) = BeyondOf(g, x5, r) /\ Between(x5,
       q) = Between(x5, r)
  BY <1>7 DEF SeenOf, BeyondOf, Between, InWindow
<1>9. Whole(g, q, x5, x9)
  BY <1>1, <1>3, <1>4, <1>5, <1>6, <1>7, <1>8 DEF Whole
<1>10. Barred(q, x4)
  BY <1>1, <1>3, <1>7 DEF Barred
<1>11. x5' \in Seq(Message(g)) /\ Grown(x5, x5') /\ Len(x5') = Len(x5) /\ Whole(g, q, x5', x9)
  BY <1>1, <1>3, <1>9 DEF Grown
<1> QED BY <1>3, <1>7, <1>10, <1>11, PeopleShows

\* What was there when the request came, from the other to the reader, is marked as read.
LEMMA PeopleMark ==
    ASSUME NEW g, GroupFits(g), PeopleInv(g), NEW h \in g.handlers, Among(g)!Mark(h)
    PROVE  PeopleInv(g)'
<1> DEFINE r == x7[h]
           q == [r EXCEPT !.step = "page"]
           mine(i) == x5[i].to = r.by /\ x5[i].from = r.to
<1>1. /\ x7 \in [g.handlers -> PeopleRequest(g)] /\ x5 \in Seq(Message(g)) /\ r \in PeopleRequest(g)
      /\ Whole(g, r, x5, x9) /\ Barred(r, x4) /\ DOMAIN x5 = 1..Len(x5) /\ Len(x5) \in Nat /\ x9 \in Nat
  BY DEF PeopleInv
<1>2. UNCHANGED <<x3, x4, x6, x9>> /\ r.step = "mark" /\ x7' = [x7 EXCEPT ![h] = q]
      /\ x5' = [i \in 1..Len(x5) |-> [x5[i] EXCEPT !.read = @ \/ mine(i)]]
  BY <1>1 DEF Among!Mark, Among!Marked
<1>3. \A i \in 1..Len(x5) : mine(i) \in BOOLEAN /\ x5[i] \in Message(g)
  BY <1>1
<1>4. ASSUME NEW i \in 1..Len(x5)
      PROVE  /\ x5'[i] \in Message(g) /\ x5'[i].from = x5[i].from /\ x5'[i].to = x5[i].to
             /\ x5'[i].age = x5[i].age /\ (x5[i].read \/ mine(i) => x5'[i].read)
  <2> DEFINE b == x5[i].read \/ mine(i)
  <2>1. b \in BOOLEAN /\ x5'[i] = [x5[i] EXCEPT !.read = b] /\ x5[i] \in Message(g)
    BY <1>2, <1>3
  <2>2. x5[i].read \/ mine(i) => b
    OBVIOUS
  <2> HIDE DEF b
  <2> QED BY <2>1, <2>2 DEF Message
<1>5. x5' \in Seq(Message(g)) /\ Len(x5') = Len(x5)
  <2>1. x5' \in [1..Len(x5) -> Message(g)]
    BY <1>2, <1>4
  <2> QED BY <1>1, <2>1
<1>6. Grown(x5, x5')
  BY <1>1, <1>4, <1>5 DEF Grown
<1>7. /\ q \in PeopleRequest(g) /\ q.step = "page" /\ q.stood = r.stood /\ q.by = r.by /\ q.to = r.to
      /\ q.upto = r.upto /\ q.age = r.age /\ q.older = r.older /\ q.shown = r.shown /\ q.act = r.act
  <2> HIDE DEF r
  <2> QED BY <1>1 DEF PeopleRequest, Among!Steps
<1>8. Whole(g, r, x5', x9)
  BY <1>1, <1>5, <1>6, WholeStays
<1>9. \A i \in 1..q.upto : x5'[i].from = q.to /\ x5'[i].to = q.by => x5'[i].read
  <2>1. r.upto <= Len(x5) /\ r.upto \in Nat
    BY <1>1 DEF Whole, PeopleRequest
  <2>2. \A i \in 1..r.upto : i \in 1..Len(x5)
    BY <1>1, <2>1
  <2> QED BY <1>4, <1>7, <2>2
<1> HIDE DEF q, r, mine
<1>10. SeenOf(g, x5', q) = SeenOf(g, x5', r) /\ BeyondOf(g, x5', q) = BeyondOf(g, x5', r)
       /\ Between(x5', q) = Between(x5', r)
  BY <1>7 DEF SeenOf, BeyondOf, Between, InWindow
<1>11. Whole(g, q, x5', x9)
  BY <1>2, <1>7, <1>8, <1>9, <1>10 DEF Whole
<1>12. Barred(q, x4)
  BY <1>1, <1>2, <1>7 DEF Barred
<1> QED BY <1>2, <1>5, <1>6, <1>7, <1>11, <1>12, PeopleShows

\* The positions of a list are finitely many.
LEMMA SpanIsFinite == ASSUME NEW T, NEW s \in Seq(T) PROVE IsFiniteSet(1..Len(s))
BY FS_Interval

\* What is beyond the window is counted.
LEMMA PeopleCountOlder ==
    ASSUME NEW g, GroupFits(g), PeopleInv(g), NEW h \in g.handlers, Among(g)!CountOlder(h)
    PROVE  PeopleInv(g)'
<1> DEFINE r == x7[h]
           B == {i \in Between(x5, r) : ~InWindow(g, x5, r, i)}
           n == Cardinality(B)
           q == [r EXCEPT !.older = n]
<1>1. /\ x7 \in [g.handlers -> PeopleRequest(g)] /\ x5 \in Seq(Message(g)) /\ r \in PeopleRequest(g)
      /\ Whole(g, r, x5, x9) /\ Barred(r, x4) /\ Len(x5) \in Nat
  BY DEF PeopleInv
<1>2. B = Among(g)!Beyond(h)
  BY DEF Between, InWindow, Among!Beyond, Among!Conversation, Among!Within, Among!Both
<1>3. UNCHANGED <<x3, x4, x5, x6, x9>> /\ r.step \in {"read", "mark", "page"} /\ x7' = [x7 EXCEPT ![h] = q]
  BY <1>1, <1>2, GroupCount DEF Among!CountOlder
<1>4. IsFiniteSet(B) /\ n \in Nat /\ Cardinality(BeyondOf(g, x5, r)) <= n
  <2>1. B \subseteq 1..Len(x5) /\ BeyondOf(g, x5, r) \subseteq B
    BY <1>1 DEF Between, BeyondOf
  <2>2. IsFiniteSet(B)
    <3> HIDE DEF B
    <3>1. IsFiniteSet(1..Len(x5))
      BY <1>1, SpanIsFinite
    <3> QED BY <2>1, <3>1, FS_Subset
  <2> HIDE DEF B
  <2> QED BY <2>1, <2>2, FS_Subset, FS_CardinalityType
<1> HIDE DEF n, B, r
<1>5. /\ q \in PeopleRequest(g) /\ q.step = r.step /\ q.stood = r.stood /\ q.by = r.by /\ q.to = r.to
      /\ q.upto = r.upto /\ q.age = r.age /\ q.older = n /\ q.shown = r.shown /\ q.act = r.act
  BY <1>1, <1>4 DEF PeopleRequest
<1> HIDE DEF q
<1>6. SeenOf(g, x5, q) = SeenOf(g, x5, r) /\ BeyondOf(g, x5, q) = BeyondOf(g, x5, r) /\ Between(x5,
       q) = Between(x5, r)
  BY <1>5 DEF SeenOf, BeyondOf, Between, InWindow
<1>7. Whole(g, q, x5, x9) /\ Barred(q, x4)
  BY <1>1, <1>3, <1>4, <1>5, <1>6 DEF Whole, Barred
<1>8. x5' \in Seq(Message(g)) /\ Grown(x5, x5') /\ Len(x5') = Len(x5) /\ Whole(g, q, x5', x9)
  BY <1>1, <1>3, <1>7 DEF Grown
<1> QED BY <1>3, <1>5, <1>7, <1>8, PeopleShows

\* Time passes: nothing was sent lately any more.
LEMMA PeoplePass ==
    ASSUME NEW g, GroupFits(g), PeopleInv(g), NEW d \in 1..2, Among(g)!Pass(d)
    PROVE  PeopleInv(g)'
<1>1. /\ x7 \in [g.handlers -> PeopleRequest(g)] /\ x5 \in Seq(Message(g)) /\ x9 \in Nat
           /\ x6 \in Seq(Comment(g))
      /\ x3 \subseteq g.people \X g.people /\ Paced(g, x5, x6, x7)
      /\ \A k \in g.handlers : Whole(g, x7[k], x5, x9) /\ Barred(x7[k], x4)
      /\ Len(x5) \in Nat /\ Len(x6) \in Nat /\ DOMAIN x5 = 1..Len(x5) /\ DOMAIN x6 = 1..Len(x6)
  BY DEF PeopleInv
<1>2. /\ UNCHANGED <<x3, x4, x7>> /\ x9' = x9 + 1
      /\ x5' = [i \in DOMAIN x5 |-> [x5[i] EXCEPT !.age = IF x5[i].age + d > 2 THEN 2 ELSE x5[i].age + d]]
      /\ x6' = [i \in DOMAIN x6 |-> [x6[i] EXCEPT !.age = IF x6[i].age + d > 2 THEN 2 ELSE x6[i].age + d]]
  BY DEF Among!Pass
<1>3. ASSUME NEW i \in 1..Len(x5)
      PROVE  /\ x5'[i] \in Message(g) /\ x5'[i].from = x5[i].from /\ x5'[i].to = x5[i].to
             /\ x5'[i].read = x5[i].read /\ x5'[i].age # 0
  <2> DEFINE n == IF x5[i].age + d > 2 THEN 2 ELSE x5[i].age + d
  <2>1. x5[i] \in Message(g) /\ x5[i].age \in 0..2
    <3>1. x5[i] \in Message(g)
      BY <1>1
    <3> QED BY <3>1 DEF Message
  <2>2. n \in 0..2 /\ n # 0 /\ x5'[i] = [x5[i] EXCEPT !.age = n]
    BY <1>1, <1>2, <2>1
  <2> HIDE DEF n
  <2> QED BY <2>1, <2>2 DEF Message
<1>4. ASSUME NEW i \in 1..Len(x6) PROVE x6'[i] \in Comment(g) /\ x6'[i].age # 0
  <2> DEFINE n == IF x6[i].age + d > 2 THEN 2 ELSE x6[i].age + d
  <2>1. x6[i] \in Comment(g) /\ x6[i].age \in 0..2
    <3>1. x6[i] \in Comment(g)
      BY <1>1
    <3> QED BY <3>1 DEF Comment
  <2>2. n \in 0..2 /\ n # 0 /\ x6'[i] = [x6[i] EXCEPT !.age = n]
    BY <1>1, <1>2, <2>1
  <2> HIDE DEF n
  <2> QED BY <2>1, <2>2 DEF Comment
<1>5. /\ x5' \in Seq(Message(g)) /\ Len(x5') = Len(x5) /\ DOMAIN x5' = 1..Len(x5)
      /\ x6' \in Seq(Comment(g)) /\ Len(x6') = Len(x6) /\ DOMAIN x6' = 1..Len(x6)
  <2>1. x5' \in [1..Len(x5) -> Message(g)] /\ x6' \in [1..Len(x6) -> Comment(g)]
    BY <1>1, <1>2, <1>3, <1>4
  <2>2. x5' \in Seq(Message(g)) /\ Len(x5') = Len(x5) /\ DOMAIN x5' = 1..Len(x5)
    <3>1. Len(x5) \in Nat
      BY <1>1
    <3> QED BY <2>1, <3>1
  <2>3. x6' \in Seq(Comment(g)) /\ Len(x6') = Len(x6) /\ DOMAIN x6' = 1..Len(x6)
    <3>1. Len(x6) \in Nat
      BY <1>1
    <3> QED BY <2>1, <3>1
  <2> QED BY <2>2, <2>3
<1>6. \A u, act : LatelyOf(x5', x6', u, act) = {}
  BY <1>3, <1>4, <1>5 DEF LatelyOf
<1>7. Paced(g, x5', x6', x7)
  BY <1>1, <1>5, <1>6, PaceStays
<1>8. \A k \in g.handlers : Whole(g, x7[k], x5', x9 + 1)
  BY <1>1, <1>3, <1>5, WholeLater
<1> QED BY <1>1, <1>2, <1>5, <1>7, <1>8 DEF PeopleInv

\* Every step of people keeps what is asked of them, and a block ends the follows of both.
LEMMA PeopleStep ==
    ASSUME NEW g, GroupFits(g), PeopleInv(g), [Among(g)!Next]_(Among(g)!vars)
    PROVE  PeopleInv(g)' /\ Among(g)!BlockEndsFollows
<1>0. x7 \in [g.handlers -> PeopleRequest(g)] /\ x3 \subseteq g.people \X g.people
      /\ x5 \in Seq(Message(g)) /\ x6 \in Seq(Comment(g))
  BY DEF PeopleInv
<1>1. CASE UNCHANGED Among(g)!vars
  <2>1. UNCHANGED <<x3, x4, x5, x6, x7, x9>>
    BY <1>1 DEF Among!vars
  <2>2. PeopleInv(g)' <=> PeopleInv(g)
    BY <2>1 DEF PeopleInv, Paced, Sending
  <2> QED BY <2>1, <2>2 DEF Among!BlockEndsFollows
<1>2. ASSUME NEW h \in g.handlers, NEW u \in g.people, NEW v \in g.people, NEW act \in g.acts \ {"delete",
       "profile"},
             Among(g)!Ask(h, u, v, act)
      PROVE  PeopleInv(g)' /\ Among(g)!BlockEndsFollows
  <2>1. x7[h].step = "idle" /\ \A k \in g.handlers : k # h => x7'[k] = x7[k]
    BY <1>0, <1>2 DEF Among!Ask
  <2>2. Among(g)!BlockEndsFollows
    BY <2>1 DEF Among!BlockEndsFollows
  <2> QED BY <1>2, <2>2, PeopleAsk
<1>3. ASSUME NEW h \in g.handlers,
             Among(g)!Gate(h) \/ Among(g)!Write(h) \/ Among(g)!Block(h) \/ Among(g)!Sever(h)
                    \/ Among(g)!Render(h)
             \/ Among(g)!Lift(h) \/ Among(g)!Count(h) \/ Among(g)!Send(h) \/ Among(g)!Read(h)
                    \/ Among(g)!Mark(h)
             \/ Among(g)!CountOlder(h)
      PROVE  PeopleInv(g)' /\ Among(g)!BlockEndsFollows
  <2>1. PeopleInv(g)'
    BY <1>3, PeopleGate, PeopleLift, PeopleCount, PeopleSend, PeopleRead, PeopleMark, PeopleCountOlder
  <2>2. ASSUME NEW k \in g.handlers, x7[k].step = "sever", x7'[k].step = "idle"
        PROVE  x3' \cap Among(g)!Both(x7[k].by, x7[k].to) = {}
    <3>1. CASE k # h
      <4>1. CASE Among(g)!Lift(h)
        <5>1. x7'[k] = [x7[k] EXCEPT !.stood = @ /\ Among(g)!Both(x7[k].by, x7[k].to) \cap x4' # {}]
          BY <3>1, <4>1 DEF Among!Lift
        <5>2. x7'[k].step = x7[k].step
          BY <1>0, <5>1 DEF PeopleRequest
        <5> QED BY <2>2, <5>2
      <4>2. CASE ~Among(g)!Lift(h)
        <5>1. x7'[k] = x7[k]
          BY <1>0, <1>3, <3>1, <4>2
             DEF Among!Gate, Among!Write, Among!Block, Among!Sever, Among!Render, Among!Count, Among!Send,
                 Among!Read, Among!Mark, Among!CountOlder
        <5> QED BY <2>2, <5>1
      <4> QED BY <4>1, <4>2
    <3>2. CASE k = h
      <4>1. Among(g)!Sever(h)
        BY <1>3, <2>2, <3>2
           DEF Among!Gate, Among!Write, Among!Block, Among!Lift, Among!Render, Among!Count, Among!Send,
               Among!Read, Among!Mark, Among!CountOlder, Among!Ready
      <4> QED BY <3>2, <4>1 DEF Among!Sever, Among!Severed
    <3> QED BY <3>1, <3>2
  <2>3. Among(g)!BlockEndsFollows
    BY <2>2 DEF Among!BlockEndsFollows
  <2> QED BY <2>1, <2>3
<1>4. ASSUME NEW u \in g.people, NEW i \in DOMAIN x6, Among(g)!DeleteComment(u, i)
      PROVE  PeopleInv(g)' /\ Among(g)!BlockEndsFollows
  <2>1. x7' = x7
    BY <1>4 DEF Among!DeleteComment
  <2>2. Among(g)!BlockEndsFollows
    BY <2>1 DEF Among!BlockEndsFollows
  <2> QED BY <1>4, <2>2, PeopleDelete
<1>5. ASSUME NEW u \in g.people, NEW handle \in BOOLEAN, NEW public \in BOOLEAN,
             Among(g)!UpdateProfile(u, handle, public)
      PROVE  PeopleInv(g)' /\ Among(g)!BlockEndsFollows
  <2>1. UNCHANGED <<x3, x4, x5, x6, x7, x9>>
    BY <1>5 DEF Among!UpdateProfile
  <2>2. PeopleInv(g)' <=> PeopleInv(g)
    BY <2>1 DEF PeopleInv, Paced, Sending
  <2> QED BY <2>1, <2>2 DEF Among!BlockEndsFollows
<1>6. ASSUME NEW d \in 1..2, Among(g)!Pass(d)
      PROVE  PeopleInv(g)' /\ Among(g)!BlockEndsFollows
  <2>1. x7' = x7
    BY <1>6 DEF Among!Pass
  <2>2. Among(g)!BlockEndsFollows
    BY <2>1 DEF Among!BlockEndsFollows
  <2> QED BY <1>6, <2>2, PeoplePass
<1>7. CASE Among(g)!Next
  <2>1. CASE \E h \in g.handlers, u, v \in g.people : \E act \in g.acts \ {"delete",
         "profile"} : Among(g)!Ask(h, u, v, act)
    BY <1>2, <2>1
  <2>2. CASE \E h \in g.handlers :
             Among(g)!Gate(h) \/ Among(g)!Write(h) \/ Among(g)!Block(h) \/ Among(g)!Sever(h)
                    \/ Among(g)!Render(h)
             \/ Among(g)!Lift(h) \/ Among(g)!Count(h) \/ Among(g)!Send(h) \/ Among(g)!Read(h)
                    \/ Among(g)!Mark(h)
             \/ Among(g)!CountOlder(h)
    BY <1>3, <2>2
  <2>3. CASE \E u \in g.people : \E i \in DOMAIN x6 : Among(g)!DeleteComment(u, i)
    BY <1>4, <2>3
  <2>4. CASE \E u \in g.people : \E handle, public \in BOOLEAN : Among(g)!UpdateProfile(u, handle, public)
    BY <1>5, <2>4
  <2>5. CASE \E d \in 1..2 : Among(g)!Pass(d)
    BY <1>6, <2>5
  <2> QED BY <1>7, <2>1, <2>2, <2>3, <2>4, <2>5 DEF Among!Next
<1> QED BY <1>1, <1>7

\* What is asked of people holds wherever the invariant does.
LEMMA PeopleCounts ==
    ASSUME NEW g, GroupFits(g), x3 \subseteq g.people \X g.people
    PROVE  Among(g)!CountsAgree
<1> SUFFICES ASSUME NEW p \in g.people, NEW viewer \in g.people \cup {NoOne}
             PROVE  Among(g)!FollowerCount(p, viewer) = Among(g)!Cardinality(Among(g)!FollowersOf(p, viewer))
  BY DEF Among!CountsAgree
<1> DEFINE open(f) == viewer # NoOne => Among(g)!Both(f, viewer) \cap x4 = {}
           A == {pair \in x3 : pair[2] = p /\ open(pair[1])}
           B == {f \in g.people : <<f, p>> \in x3 /\ open(f)}
           t == [f \in B |-> <<f, p>>]
<1>1. A = {pair \in x3 : pair[2] = p /\ (viewer # NoOne => Among(g)!Both(pair[1], viewer) \cap x4 = {})}
  OBVIOUS
<1>2. B = Among(g)!FollowersOf(p, viewer)
  BY DEF Among!FollowersOf, Among!Blocked
<1>3. B \subseteq g.people /\ IsFiniteSet(B)
  BY FS_Subset DEF GroupFits
<1>4. \A pair \in A : pair = <<pair[1], p>> /\ pair[1] \in B
  <2> TAKE pair \in A
  <2>1. pair \in g.people \X g.people /\ pair \in x3
    OBVIOUS
  <2>2. pair = <<pair[1], pair[2]>> /\ pair[1] \in g.people
    BY <2>1
  <2> QED BY <2>1, <2>2
<1>5. \A f \in B : <<f, p>> \in A
  OBVIOUS
<1> HIDE DEF A, B, open
<1>6. t \in Bijection(B, A)
  <2>1. t \in [B -> A]
    BY <1>5
  <2>2. \A f, k \in B : t[f] = t[k] => f = k
    OBVIOUS
  <2>3. \A pair \in A : \E f \in B : t[f] = pair
    <3> TAKE pair \in A
    <3>1. pair[1] \in B /\ t[pair[1]] = pair
      BY <1>4
    <3> QED BY <3>1
  <2> HIDE DEF t
  <2> QED BY <2>1, <2>2, <2>3 DEF Bijection, Injection, Surjection, IsInjective
<1>7. Cardinality(A) = Cardinality(B)
  BY <1>3, <1>6, FS_Bijection DEF ExistsBijection
<1>8. Among(g)!FollowerCount(p, viewer) = Cardinality(A)
  BY <1>1, GroupCount DEF Among!FollowerCount
<1>9. Among(g)!Cardinality(Among(g)!FollowersOf(p, viewer)) = Cardinality(B)
  BY <1>2, GroupCount
<1> QED BY <1>7, <1>8, <1>9

\* A page shows what is inside the window and counts what is beyond it: together, everything.
LEMMA PeopleVanish ==
    ASSUME NEW g, GroupFits(g), PeopleInv(g)
    PROVE  Among(g)!NothingVanishes
<1> SUFFICES ASSUME NEW h \in g.handlers, Among(g)!Ready(h), x7[h].age = x9,
                    Among(g)!Cardinality(Among(g)!Conversation(x7[h].by, x7[h].to)) <= g.page
             PROVE  Among(g)!Cardinality({i \in Among(g)!Conversation(x7[h].by, x7[h].to) : i <= x7[h].upto})
                    <= Among(g)!Cardinality(x7[h].shown) + x7[h].older
  BY DEF Among!NothingVanishes
<1> DEFINE r == x7[h]  S == SeenOf(g, x5, r)  B == BeyondOf(g, x5, r)
           A == {i \in Between(x5, r) : i <= r.upto}
<1>1. /\ x5 \in Seq(Message(g)) /\ r \in PeopleRequest(g) /\ Whole(g, r, x5, x9) /\ Len(x5) \in Nat
      /\ DOMAIN x5 = 1..Len(x5)
  BY DEF PeopleInv
<1>2. r.step = "page" /\ r.older # NoOne /\ r.older \in Nat
  BY <1>1 DEF Among!Ready, PeopleRequest
<1>3. Between(x5, r) = Among(g)!Conversation(r.by, r.to)
  BY DEF Between, Among!Conversation, Among!Both
<1>4. Cardinality(Between(x5, r)) <= g.page
  BY <1>3, GroupCount
<1>5. S \subseteq r.shown /\ Cardinality(B) <= r.older /\ r.shown \subseteq 1..Len(x5)
  BY <1>1, <1>2, <1>4 DEF Whole
<1>6. A = S \cup B
  BY DEF SeenOf, BeyondOf
<1>7. B \subseteq 1..Len(x5)
  BY <1>1 DEF BeyondOf, Between
<1>8. IsFiniteSet(1..Len(x5))
  BY <1>1, FS_Interval
<1> HIDE DEF A, B, S, r
<1>9. IsFiniteSet(r.shown) /\ IsFiniteSet(B) /\ IsFiniteSet(r.shown \cup B)
  BY <1>5, <1>7, <1>8, FS_Subset, FS_Union
<1>10. Cardinality(r.shown) \in Nat /\ Cardinality(B) \in Nat /\ Cardinality(r.shown \cup B) \in Nat
  BY <1>9, FS_CardinalityType
<1>11. Cardinality(r.shown \cup B) <= Cardinality(r.shown) + Cardinality(B)
  <2>1. Cardinality(r.shown \cup B) = Cardinality(r.shown) + Cardinality(B) - Cardinality(r.shown \cap B)
    BY <1>9, FS_Union
  <2>2. Cardinality(r.shown \cap B) \in Nat
    <3>1. IsFiniteSet(r.shown \cap B)
      BY <1>9, FS_Subset
    <3> QED BY <3>1, FS_CardinalityType
  <2> QED BY <1>10, <2>1, <2>2
<1>12. Cardinality(A) <= Cardinality(r.shown \cup B) /\ Cardinality(A) \in Nat
  <2>1. A \subseteq r.shown \cup B
    BY <1>5, <1>6
  <2> QED BY <1>9, <2>1, FS_Subset, FS_CardinalityType
<1>13. Cardinality(A) <= Cardinality(r.shown) + r.older
  BY <1>2, <1>5, <1>10, <1>11, <1>12
<1> QED BY <1>3, <1>13, GroupCount DEF A, r

\* What is asked of people holds wherever the invariant does.
LEMMA PeopleHolds ==
    ASSUME NEW g, GroupFits(g), PeopleInv(g)
    PROVE  /\ Among(g)!NothingPassesABlock /\ Among(g)!RateHolds /\ Among(g)!NothingVanishes
           /\ Among(g)!BadgeIsCleared /\ Among(g)!CountsAgree /\ Among(g)!LinksLead
<1>1. /\ x5 \in Seq(Message(g)) /\ x6 \in Seq(Comment(g)) /\ x3 \subseteq g.people \X g.people
      /\ Paced(g, x5, x6, x7)
      /\ \A h \in g.handlers : x7[h] \in PeopleRequest(g) /\ Whole(g, x7[h], x5, x9) /\ Barred(x7[h], x4)
  BY DEF PeopleInv
<1>2. Among(g)!NothingPassesABlock
  BY <1>1 DEF Among!NothingPassesABlock, Barred
<1>3. Among(g)!RateHolds
  <2> SUFFICES ASSUME NEW u \in g.people, NEW act \in {"message", "comment"}
               PROVE  Among(g)!Cardinality(LatelyOf(x5, x6, u, act)) < g.limit
                      + Among(g)!Cardinality(g.handlers)
    BY DEF Among!RateHolds, LatelyOf
  <2>1. Cardinality(LatelyOf(x5, x6, u, act)) + Cardinality(Sending(g, x7, u, act)) < g.limit
         + Cardinality(g.handlers)
    BY <1>1 DEF Paced
  <2>2. /\ Cardinality(LatelyOf(x5, x6, u, act)) \in Nat /\ Cardinality(Sending(g, x7, u, act)) \in Nat
        /\ Cardinality(g.handlers) \in Nat /\ g.limit \in Nat
    BY <1>1, PaceIsFinite DEF GroupFits
  <2>3. Cardinality(LatelyOf(x5, x6, u, act)) < g.limit + Cardinality(g.handlers)
    BY <2>1, <2>2
  <2> QED BY <2>3, GroupCount
<1>4. Among(g)!BadgeIsCleared
  BY <1>1 DEF Among!BadgeIsCleared, Among!Ready, Whole
<1>5. Among(g)!LinksLead
  BY DEF Among!LinksLead, Among!Resolves, Among!FollowersOf, Among!Linked, Among!Blocked, Among!Both
<1> QED BY <1>1, <1>2, <1>3, <1>4, <1>5, PeopleVanish, PeopleCounts

(*************************************************************************)
(* What is followed (Following), for any g of subjects, tabs and forms.  *)
(*************************************************************************)
PageOf(g) ==
    [kind : {"browse", "mine", "login"}, flash : Int, shown : SUBSET g.subjects,
           action : [g.subjects -> BOOLEAN],
     text : [g.subjects -> BOOLEAN], following : Nat, total : Nat]
PressOf(g) ==
    [tab : g.tabs \cup {0}, of : g.subjects, no : Nat, following : BOOLEAN, chip : BOOLEAN, at : {"out",
           "ok", "lost"}]

FollowFits(g) ==
    /\ IsFiniteSet(g.subjects) /\ g.leagues \subseteq g.subjects /\ 0 \notin g.tabs
    /\ g.forms \subseteq {"follow-all", "unfollow-all", "unfollow-everything"}
    /\ g.presses \in Nat /\ g.moves \in Nat /\ g.faults \in Nat

\* The presses of a button, of those that have not been answered.
PressesOf(P, t, s) == {p \in P : p.tab = t /\ p.of = s}

\* A button of a page, its presses P, and what is followed: at rest it says what is so; with a
\* press under way it still says what it said, and what is so is what the press made of it.
Truthful(page, s, P, fs, sg) ==
    /\ page.text[s] = page.action[s]
    /\ P = {} => (sg => (page.text[s] <=> s \in fs))
    /\ \A p \in P : /\ page.action[s] = p.following
                    /\ \A q \in P : q = p
                    /\ sg => (s \in fs <=> IF p.at = "ok" THEN ~p.following ELSE p.following)

FollowTypes(g) ==
    /\ x1 \subseteq g.subjects /\ x2 \subseteq g.leagues /\ x3 \in BOOLEAN
    /\ x4 \in [g.tabs -> PageOf(g)] /\ x5 \subseteq PressOf(g) /\ x6 \in Nat
    /\ x9 \in Int /\ x10 \in Int /\ x11 \in [g.tabs -> SUBSET g.subjects]
ChipsAreOfMine(g) == \A p \in x5 : p.tab \in g.tabs => (p.chip <=> x4[p.tab].kind = "mine")
ButtonsFit(g) ==
    \A t \in g.tabs : x4[t].kind = "browse" =>
        \A s \in x11[t] : Truthful(x4[t], s, PressesOf(x5, t, s), x1, x3)
Accounted == x9 + x10 = Cardinality(x1)
FollowInv(g) == FollowTypes(g) /\ ChipsAreOfMine(g) /\ ButtonsFit(g) /\ Accounted

\* Following counts as everybody does.
LEMMA FollowCount == ASSUME NEW g, NEW S PROVE Follow(g)!Cardinality(S) = Cardinality(S)
BY Zenon DEF Follow!Cardinality, Cardinality

\* What is followed is finite.
LEMMA SubjectsCount ==
    ASSUME NEW g, FollowFits(g), NEW S \in SUBSET g.subjects
    PROVE  IsFiniteSet(S) /\ Cardinality(S) \in Nat
BY FS_Subset, FS_CardinalityType DEF FollowFits

\* A page of the kind k on which every button says whether its subject is among fs.
Says(g, page, k, fs) ==
    /\ page \in PageOf(g) /\ page.kind = k
    /\ \A s \in g.subjects : page.text[s] = (s \in fs) /\ page.action[s] = (s \in fs)

\* A page that is rendered from what is followed.
LEMMA PageIs ==
    ASSUME NEW g, FollowFits(g), NEW fs \in SUBSET g.subjects, NEW n \in Int, NEW k \in {"browse", "mine",
           "login"},
           x2 \subseteq g.leagues
    PROVE  Says(g, Follow(g)!PageWith(fs, k, n), k, fs)
<1>1. Cardinality(fs \cap g.leagues) \in Nat /\ Cardinality(x2) \in Nat
  <2>1. fs \cap g.leagues \in SUBSET g.subjects /\ x2 \in SUBSET g.subjects
    BY DEF FollowFits
  <2> QED BY <2>1, SubjectsCount
<1>2. Follow(g)!PageWith(fs, k, n) =
        [kind |-> k, flash |-> n, shown |-> fs, action |-> [s \in g.subjects |-> s \in fs],
         text |-> [s \in g.subjects |-> s \in fs], following |-> Cardinality(fs \cap g.leagues),
         total |-> Cardinality(x2)]
  BY FollowCount DEF Follow!PageWith
<1> DEFINE f == [s \in g.subjects |-> s \in fs]
<1>3. f \in [g.subjects -> BOOLEAN] /\ \A s \in g.subjects : f[s] = (s \in fs)
  OBVIOUS
<1>4. /\ Follow(g)!PageWith(fs, k, n).text = f /\ Follow(g)!PageWith(fs, k, n).action = f
      /\ Follow(g)!PageWith(fs, k, n).kind = k
  BY <1>2
<1>5. Follow(g)!PageWith(fs, k, n) \in PageOf(g)
  <2> HIDE DEF f
  <2>1. Follow(g)!PageWith(fs, k, n) =
        [kind |-> k, flash |-> n, shown |-> fs, action |-> f, text |-> f,
         following |-> Cardinality(fs \cap g.leagues), total |-> Cardinality(x2)]
    BY <1>2 DEF f
  <2> QED BY <1>1, <1>3, <2>1 DEF PageOf
<1> QED BY <1>3, <1>4, <1>5 DEF Says

\* A button of such a page is truthful when it has no presses.
LEMMA PageIsTrue ==
    ASSUME NEW g, NEW page, NEW k, NEW fs, Says(g, page, k, fs), NEW s \in g.subjects, NEW sg
    PROVE  Truthful(page, s, {}, fs, sg)
BY DEF Says, Truthful

\* To begin with nothing is followed, and every button says so.
LEMMA FollowInit == ASSUME NEW g, FollowFits(g), Follow(g)!Init PROVE FollowInv(g)
<1> DEFINE pg == Follow(g)!PageWith({}, "browse", Follow(g)!NoFlash)
<1>1. /\ x1 = {} /\ x2 = g.leagues /\ x3 = TRUE /\ x4 = [t \in g.tabs |-> pg] /\ x5 = {} /\ x6 = 0
      /\ x9 = 0 /\ x10 = 0 /\ x11 = [t \in g.tabs |-> g.subjects]
  BY DEF Follow!Init, Follow!Page
<1>2. Follow(g)!NoFlash \in Int
  BY DEF Follow!NoFlash
<1>3. pg \in PageOf(g) /\ \A s \in g.subjects : Truthful(pg, s, {}, {}, x3)
  <2>1. Says(g, pg, "browse", {})
    BY <1>1, <1>2, PageIs
  <2> HIDE DEF pg
  <2> QED BY <2>1, PageIsTrue DEF Says
<1> HIDE DEF pg
<1>4. FollowTypes(g)
  BY <1>1, <1>3 DEF FollowTypes, FollowFits
<1>5. ChipsAreOfMine(g) /\ Accounted
  BY <1>1, FS_EmptySet DEF ChipsAreOfMine, Accounted
<1>6. ButtonsFit(g)
  <2>1. \A t, s : PressesOf(x5, t, s) = {}
    BY <1>1 DEF PressesOf
  <2> QED BY <1>1, <1>3, <2>1 DEF ButtonsFit
<1> QED BY <1>4, <1>5, <1>6 DEF FollowInv

\* A tab is shown a page that is current, and its presses answer nothing; what the others know to
\* be so does not change, or they know nothing any more.
LEMMA FollowShow ==
    ASSUME NEW g, FollowFits(g), FollowInv(g), NEW t \in g.tabs, NEW k \in {"browse", "mine", "login"},
           NEW n \in Int,
           NEW fs \in SUBSET g.subjects, Follow(g)!Show(t, Follow(g)!PageWith(fs, k, n)),
           x1' = fs, UNCHANGED <<x2, x3>>, x6' \in Nat,
           x11' \in [g.tabs -> SUBSET g.subjects],
           \A u \in g.tabs : u # t => x11'[u] \subseteq x11[u] /\ (fs = x1 \/ x11'[u] = {}),
           x9' \in Int, x10' \in Int, Accounted'
    PROVE  FollowInv(g)'
<1> DEFINE pg == Follow(g)!PageWith(fs, k, n)
<1>1. /\ x4' = [x4 EXCEPT ![t] = pg]
      /\ x5' = {p \in x5 : p.tab # t} \cup {[p EXCEPT !.tab = 0] : p \in {q \in x5 : q.tab = t /\ q.at = "out"}}
  BY DEF Follow!Show, Follow!Gone
<1>2. x4 \in [g.tabs -> PageOf(g)] /\ x5 \subseteq PressOf(g) /\ x2 \subseteq g.leagues /\ x3 \in BOOLEAN
  BY DEF FollowInv, FollowTypes
<1>3. pg \in PageOf(g) /\ pg.kind = k /\ \A s \in g.subjects : Truthful(pg, s, {}, fs, x3)
  <2>1. Says(g, pg, k, fs)
    BY <1>2, PageIs
  <2> HIDE DEF pg
  <2> QED BY <2>1, PageIsTrue DEF Says
<1> HIDE DEF pg
<1>4. ASSUME NEW p \in x5 PROVE [p EXCEPT !.tab = 0] \in PressOf(g) /\ [p EXCEPT !.tab = 0].tab = 0
  <2>1. p \in PressOf(g)
    BY <1>2
  <2> QED BY <2>1 DEF PressOf
<1>5. x5' \subseteq PressOf(g) /\ \A p \in x5' : (p \in x5 /\ p.tab # t) \/ p.tab = 0
  BY <1>1, <1>2, <1>4
<1>6. 0 \notin g.tabs
  BY DEF FollowFits
<1>7. /\ x4' \in [g.tabs -> PageOf(g)] /\ x4'[t] = pg /\ \A u \in g.tabs : u # t => x4'[u] = x4[u]
  BY <1>1, <1>2, <1>3
<1>8. FollowTypes(g)'
  BY <1>2, <1>5, <1>7 DEF FollowTypes
<1>9. ChipsAreOfMine(g)'
  BY <1>5, <1>6, <1>7 DEF ChipsAreOfMine, FollowInv
<1>10. \A s : PressesOf(x5', t, s) = {}
  BY <1>5, <1>6 DEF PressesOf
<1>11. \A u \in g.tabs : \A s : u # t => PressesOf(x5', u, s) = PressesOf(x5, u, s)
  <2> SUFFICES ASSUME NEW u \in g.tabs, NEW s, u # t PROVE PressesOf(x5', u, s) = PressesOf(x5, u, s)
    OBVIOUS
  <2>1. \A p \in x5 : p.tab = u => p \in x5'
    BY <1>1
  <2> QED BY <1>5, <1>6, <2>1 DEF PressesOf
<1>12. ButtonsFit(g)'
  <2> SUFFICES ASSUME NEW u \in g.tabs, x4'[u].kind = "browse", NEW s \in x11'[u]
               PROVE  Truthful(x4'[u], s, PressesOf(x5', u, s), x1', x3')
    BY DEF ButtonsFit
  <2>1. CASE u = t
    <3>1. s \in g.subjects
      OBVIOUS
    <3> QED BY <1>3, <1>7, <1>10, <2>1, <3>1
  <2>2. CASE u # t
    <3>1. s \in x11[u] /\ fs = x1 /\ x4[u].kind = "browse"
      BY <1>7, <2>2
    <3>2. Truthful(x4[u], s, PressesOf(x5, u, s), x1, x3)
      BY <3>1 DEF FollowInv, ButtonsFit
    <3> QED BY <1>7, <1>11, <2>2, <3>1, <3>2
  <2> QED BY <2>1, <2>2
<1> QED BY <1>8, <1>9, <1>12 DEF FollowInv

\* A page is asked for, or again.
LEMMA FollowVisit ==
    ASSUME NEW g, FollowFits(g), FollowInv(g), NEW t \in g.tabs, NEW kind \in {"browse", "mine"},
           Follow(g)!Visit(t, kind) \/ Follow(g)!Reload(t)
    PROVE  FollowInv(g)'
<1>1. /\ FollowTypes(g) /\ Accounted /\ UNCHANGED <<x1, x2, x3, x6, x9, x10>>
      /\ x11' = [x11 EXCEPT ![t] = g.subjects]
  BY DEF FollowInv, Follow!Visit, Follow!Reload
<1>2. PICK k \in {"browse", "mine", "login"}, n \in Int : Follow(g)!Show(t, Follow(g)!PageWith(x1, k, n))
  <2>1. CASE Follow(g)!Visit(t, kind)
    <3>1. (IF x3 THEN kind ELSE "login") \in {"browse", "mine", "login"} /\ Follow(g)!NoFlash \in Int
      BY DEF Follow!NoFlash
    <3> QED BY <2>1, <3>1 DEF Follow!Visit, Follow!Page
  <2>2. CASE Follow(g)!Reload(t)
    <3>1. x4[t].kind \in {"browse", "mine", "login"} /\ x4[t].flash \in Int
      BY <1>1 DEF FollowTypes, PageOf
    <3> QED BY <2>2, <3>1 DEF Follow!Reload, Follow!Page
  <2> QED BY <2>1, <2>2
<1>3. /\ x11' \in [g.tabs -> SUBSET g.subjects] /\ x1 \in SUBSET g.subjects /\ x9 \in Int
           /\ x10 \in Int /\ x6 \in Nat
      /\ \A u \in g.tabs : u # t => x11'[u] = x11[u]
  BY <1>1 DEF FollowTypes
<1>4. Accounted'
  BY <1>1 DEF Accounted
<1> QED BY <1>1, <1>2, <1>3, <1>4, FollowShow

\* All at once: the receipt is the difference between what was followed and what is.
LEMMA FollowSubmit ==
    ASSUME NEW g, FollowFits(g), FollowInv(g), NEW t \in g.tabs, NEW form \in g.forms, Follow(g)!Submit(t, form)
    PROVE  FollowInv(g)'
<1> DEFINE n == Follow(g)!Receipt(form, x1')
<1>1. FollowTypes(g) /\ Accounted
  BY DEF FollowInv
<1>2. /\ UNCHANGED <<x2, x3, x10>> /\ x6' = x6 + 1 /\ x1' = Follow(g)!After(form)
      /\ x9' = x9 + (IF form = "follow-all" THEN n ELSE 0 - n)
      /\ Follow(g)!Show(t, Follow(g)!PageWith(x1', x4[t].kind, n))
      /\ x11' = [Follow(g)!Others(t, g.subjects) EXCEPT ![t] = g.subjects]
      /\ Follow(g)!Offered(x4[t], form)
  BY DEF Follow!Submit
<1>3. form \in {"follow-all", "unfollow-all", "unfollow-everything"}
  BY DEF FollowFits
<1>4. /\ x1 \subseteq g.subjects /\ x2 \subseteq g.subjects /\ x9 \in Int /\ x10 \in Int /\ x6 \in Nat
      /\ x4[t].kind \in {"browse", "mine", "login"} /\ x11 \in [g.tabs -> SUBSET g.subjects]
  BY <1>1 DEF FollowTypes, FollowFits, PageOf
<1>5. x1' \subseteq g.subjects /\ (form = "follow-all" => x1 \subseteq x1') /\ (form # "follow-all"
       => x1' \subseteq x1)
  BY <1>2, <1>3, <1>4 DEF Follow!After
<1>6. n = Cardinality(IF form = "follow-all" THEN x1' \ x1 ELSE x1 \ x1')
  BY FollowCount DEF Follow!Receipt
<1>7. /\ IsFiniteSet(x1) /\ Cardinality(x1) \in Nat /\ IsFiniteSet(x1') /\ Cardinality(x1') \in Nat
  BY <1>4, <1>5, SubjectsCount
<1>8. /\ Cardinality(x1' \ x1) \in Nat /\ Cardinality(x1 \ x1') \in Nat
      /\ (x1 \subseteq x1' => Cardinality(x1' \ x1) = Cardinality(x1') - Cardinality(x1))
      /\ (x1' \subseteq x1 => Cardinality(x1 \ x1') = Cardinality(x1) - Cardinality(x1'))
  <2>1. IsFiniteSet(x1' \ x1) /\ IsFiniteSet(x1 \ x1')
    BY <1>7, FS_Subset
  <2>2. x1 \subseteq x1' => x1' \cap x1 = x1
    OBVIOUS
  <2>3. x1' \subseteq x1 => x1 \cap x1' = x1'
    OBVIOUS
  <2>4. Cardinality(x1' \ x1) = Cardinality(x1') - Cardinality(x1' \cap x1)
    BY <1>7, FS_Difference
  <2>5. Cardinality(x1 \ x1') = Cardinality(x1) - Cardinality(x1 \cap x1')
    BY <1>7, FS_Difference
  <2> QED BY <2>1, <2>2, <2>3, <2>4, <2>5, FS_CardinalityType
<1> HIDE DEF n
<1>9. n \in Int /\ x9' \in Int /\ x10' \in Int /\ Accounted'
  <2>1. x9 + x10 = Cardinality(x1) /\ x10' = x10
    BY <1>1, <1>2 DEF Accounted
  <2>2. CASE form = "follow-all"
    <3>1. n = Cardinality(x1') - Cardinality(x1) /\ x9' = x9 + n
      BY <1>2, <1>5, <1>6, <1>8, <2>2
    <3> QED BY <1>4, <1>7, <2>1, <3>1 DEF Accounted
  <2>3. CASE form # "follow-all"
    <3>1. n = Cardinality(x1) - Cardinality(x1') /\ x9' = x9 + (0 - n)
      BY <1>2, <1>5, <1>6, <1>8, <2>3
    <3> QED BY <1>4, <1>7, <2>1, <3>1 DEF Accounted
  <2> QED BY <2>2, <2>3
<1>10. /\ x11' \in [g.tabs -> SUBSET g.subjects]
       /\ \A u \in g.tabs : u # t => x11'[u] \subseteq x11[u] /\ x11'[u] = {}
  <2>1. Follow(g)!Others(t, g.subjects) = [u \in g.tabs |-> IF u = t THEN x11[u] ELSE x11[u] \ g.subjects]
    BY DEF Follow!Others
  <2>2. \A u \in g.tabs : x11[u] \subseteq g.subjects
    BY <1>4
  <2> QED BY <1>2, <2>1, <2>2
<1>11. x6' \in Nat
  BY <1>2, <1>4
<1> QED BY <1>2, <1>4, <1>5, <1>9, <1>10, <1>11, FollowShow

\* A button is pressed.
LEMMA FollowPress ==
    ASSUME NEW g, FollowFits(g), FollowInv(g), NEW t \in g.tabs, NEW s \in g.subjects, Follow(g)!Press(t, s)
    PROVE  FollowInv(g)'
<1> DEFINE p == [tab |-> t, of |-> s, no |-> x6, following |-> x4[t].action[s], chip |-> x4[t].kind = "mine",
                 at |-> "out"]
<1>1. /\ x4 \in [g.tabs -> PageOf(g)] /\ x5 \subseteq PressOf(g) /\ x6 \in Nat
           /\ x11 \in [g.tabs -> SUBSET g.subjects]
  BY DEF FollowInv, FollowTypes
<1>2. /\ UNCHANGED <<x1, x2, x3, x4, x9, x10>> /\ x6' = x6 + 1 /\ x5' = x5 \cup {p}
      /\ x11' = IF Follow(g)!InFlight(t, s) THEN [x11 EXCEPT ![t] = @ \ {s}] ELSE x11
  BY DEF Follow!Press
<1>3. x4[t] \in PageOf(g) /\ x4[t].action[s] \in BOOLEAN
  BY <1>1 DEF PageOf
<1>4. p \in PressOf(g) /\ p.tab = t /\ p.of = s /\ p.following = x4[t].action[s]
       /\ (p.chip <=> x4[t].kind = "mine")
      /\ p.at = "out"
  BY <1>1, <1>3 DEF PressOf
<1> HIDE DEF p
<1>5. Follow(g)!InFlight(t, s) <=> PressesOf(x5, t, s) # {}
  BY DEF Follow!InFlight, PressesOf
<1>6. /\ x11' \in [g.tabs -> SUBSET g.subjects] /\ \A u \in g.tabs : x11'[u] \subseteq x11[u]
      /\ (s \in x11'[t] => PressesOf(x5, t, s) = {})
  BY <1>1, <1>2, <1>5
<1>7. FollowTypes(g)'
  BY <1>1, <1>2, <1>4, <1>6 DEF FollowInv, FollowTypes
<1>8. ChipsAreOfMine(g)'
  BY <1>2, <1>4 DEF ChipsAreOfMine, FollowInv
<1>9. Accounted'
  BY <1>2 DEF Accounted, FollowInv
<1>10. ButtonsFit(g)'
  <2> SUFFICES ASSUME NEW u \in g.tabs, x4[u].kind = "browse", NEW z \in x11'[u]
               PROVE  Truthful(x4[u], z, PressesOf(x5', u, z), x1, x3)
    BY <1>2 DEF ButtonsFit
  <2>1. Truthful(x4[u], z, PressesOf(x5, u, z), x1, x3)
    BY <1>6 DEF FollowInv, ButtonsFit
  <2>2. CASE u = t /\ z = s
    <3>1. PressesOf(x5, t, s) = {} /\ PressesOf(x5', t, s) = {p}
      BY <1>2, <1>4, <1>6, <2>2 DEF PressesOf
    <3>2. x4[t].text[s] \in BOOLEAN /\ x4[t].action[s] \in BOOLEAN
      BY <1>3 DEF PageOf
    <3> QED BY <1>4, <2>1, <2>2, <3>1, <3>2 DEF Truthful
  <2>3. CASE ~(u = t /\ z = s)
    <3>1. PressesOf(x5', u, z) = PressesOf(x5, u, z)
      BY <1>2, <1>4, <2>3 DEF PressesOf
    <3> QED BY <2>1, <3>1
  <2> QED BY <2>2, <2>3
<1> QED BY <1>7, <1>8, <1>9, <1>10 DEF FollowInv

\* A press goes on: it is still of its button.
LEMMA FollowGoesOn ==
    ASSUME NEW g, FollowFits(g), FollowInv(g), NEW p \in x5, NEW at \in {"ok", "lost"},
           x5' = (x5 \ {p}) \cup {[p EXCEPT !.at = at]},
           UNCHANGED <<x2, x3, x4, x6>>, x1' \subseteq g.subjects, x9' \in Int, x10' \in Int, Accounted',
           x11' \in [g.tabs -> SUBSET g.subjects],
           \A t \in g.tabs : /\ x11'[t] \subseteq x11[t]
                             /\ (x3 => \A s \in x11'[t] : s # p.of \/ t # p.tab => (s \in x1' <=> s \in x1))
                             /\ (x3 /\ p.of \in x11'[t] /\ t = p.tab =>
                                     \/ at = "ok" /\ (p.of \in x1' <=> ~p.following)
                                     \/ at = "lost" /\ p.at # "ok" /\ x1' = x1)
    PROVE  FollowInv(g)'
<1> DEFINE q == [p EXCEPT !.at = at]
<1>1. /\ x4 \in [g.tabs -> PageOf(g)] /\ x5 \subseteq PressOf(g) /\ p \in PressOf(g) /\ x3 \in BOOLEAN
  BY DEF FollowInv, FollowTypes
<1>2. q \in PressOf(g) /\ q.tab = p.tab /\ q.of = p.of /\ q.following = p.following /\ q.chip = p.chip
       /\ q.at = at
      /\ p.following \in BOOLEAN
  BY <1>1 DEF PressOf
<1>3. x5' = (x5 \ {p}) \cup {q}
  OBVIOUS
<1> HIDE DEF q
<1>4. FollowTypes(g)'
  BY <1>1, <1>2, <1>3 DEF FollowInv, FollowTypes
<1>5. ChipsAreOfMine(g)'
  BY <1>2, <1>3 DEF ChipsAreOfMine, FollowInv
<1>6. ButtonsFit(g)'
  <2> SUFFICES ASSUME NEW u \in g.tabs, x4[u].kind = "browse", NEW z \in x11'[u]
               PROVE  Truthful(x4[u], z, PressesOf(x5', u, z), x1', x3)
    BY DEF ButtonsFit
  <2>1. Truthful(x4[u], z, PressesOf(x5, u, z), x1, x3)
    BY DEF FollowInv, ButtonsFit
  <2>2. CASE u = p.tab /\ z = p.of
    <3>1. p \in PressesOf(x5, u, z)
      BY <2>2 DEF PressesOf
    <3>2. \A r \in PressesOf(x5, u, z) : r = p
      BY <2>1, <3>1 DEF Truthful
    <3>3. PressesOf(x5', u, z) = {q}
      BY <1>2, <1>3, <2>2, <3>2 DEF PressesOf
    <3>4. x4[u].action[z] = p.following /\ x4[u].text[z] = x4[u].action[z]
          /\ (x3 => (z \in x1 <=> IF p.at = "ok" THEN ~p.following ELSE p.following))
      BY <2>1, <3>1 DEF Truthful
    <3>5. x3 => (z \in x1' <=> IF at = "ok" THEN ~p.following ELSE p.following)
      BY <2>2, <3>4
    <3> QED BY <1>2, <3>3, <3>4, <3>5 DEF Truthful
  <2>3. CASE ~(u = p.tab /\ z = p.of)
    <3>1. PressesOf(x5', u, z) = PressesOf(x5, u, z)
      BY <1>2, <1>3, <2>3 DEF PressesOf
    <3>2. x3 => (z \in x1' <=> z \in x1)
      BY <2>3
    <3> QED BY <2>1, <3>1, <3>2 DEF Truthful
  <2> QED BY <2>2, <2>3
<1> QED BY <1>4, <1>5, <1>6 DEF FollowInv

\* A press is served.
LEMMA FollowServe ==
    ASSUME NEW g, FollowFits(g), FollowInv(g), NEW p \in x5, Follow(g)!Serve(p)
    PROVE  FollowInv(g)'
<1>1. /\ x1 \subseteq g.subjects /\ x10 \in Int /\ x9 \in Int /\ p \in PressOf(g) /\ x3 \in BOOLEAN
      /\ x11 \in [g.tabs -> SUBSET g.subjects] /\ x9 + x10 = Cardinality(x1)
  BY DEF FollowInv, FollowTypes, Accounted
<1>2. p.of \in g.subjects /\ p.following \in BOOLEAN
  BY <1>1 DEF PressOf
<1>3. /\ x1' = IF ~x3 THEN x1 ELSE IF p.following THEN x1 \ {p.of} ELSE x1 \cup {p.of}
      /\ x10' = x10 + Cardinality(x1') - Cardinality(x1)
      /\ x5' = (x5 \ {p}) \cup {[p EXCEPT !.at = "ok"]}
      /\ x11' = [t \in g.tabs |-> IF x3 <=> t = p.tab THEN x11[t] ELSE x11[t] \ {p.of}]
      /\ UNCHANGED <<x2, x3, x4, x6, x9>>
  BY FollowCount DEF Follow!Serve
<1>4. x1' \subseteq g.subjects /\ (x3 => x1' = IF p.following THEN x1 \ {p.of} ELSE x1 \cup {p.of})
  BY <1>1, <1>2, <1>3
<1>5. Cardinality(x1) \in Nat /\ Cardinality(x1') \in Nat
  BY <1>1, <1>4, SubjectsCount
<1>6. x9' \in Int /\ x10' \in Int /\ Accounted'
  BY <1>1, <1>3, <1>5 DEF Accounted
<1>7. /\ x11' \in [g.tabs -> SUBSET g.subjects]
      /\ \A t \in g.tabs : x11'[t] \subseteq x11[t] /\ (x3 /\ t # p.tab => p.of \notin x11'[t])
  BY <1>1, <1>3
<1>8. \A t \in g.tabs : (x3 => \A s \in x11'[t] : s # p.of \/ t # p.tab => (s \in x1' <=> s \in x1))
                        /\ (x3 /\ p.of \in x11'[t] /\ t = p.tab => (p.of \in x1' <=> ~p.following))
  BY <1>2, <1>4, <1>7
<1> QED BY <1>3, <1>4, <1>6, <1>7, <1>8, FollowGoesOn

\* A press, or its answer, is lost.
LEMMA FollowLose ==
    ASSUME NEW g, FollowFits(g), FollowInv(g), NEW p \in x5, Follow(g)!Lose(p)
    PROVE  FollowInv(g)'
<1>1. /\ x1 \subseteq g.subjects /\ x10 \in Int /\ x9 \in Int /\ p \in PressOf(g)
      /\ x11 \in [g.tabs -> SUBSET g.subjects]
  BY DEF FollowInv, FollowTypes
<1>2. /\ x5' = (x5 \ {p}) \cup {[p EXCEPT !.at = "lost"]}
      /\ x11' = IF p.at = "ok" THEN [x11 EXCEPT ![p.tab] = @ \ {p.of}] ELSE x11
      /\ UNCHANGED <<x1, x2, x3, x4, x6, x9, x10>>
  BY DEF Follow!Lose
<1>3. Accounted'
  BY <1>2 DEF Accounted, FollowInv
<1>4. /\ x11' \in [g.tabs -> SUBSET g.subjects] /\ \A t \in g.tabs : x11'[t] \subseteq x11[t]
      /\ \A t \in g.tabs : t = p.tab /\ p.of \in x11'[t] => p.at # "ok"
  BY <1>1, <1>2
<1> QED BY <1>1, <1>2, <1>3, <1>4, FollowGoesOn

\* The button is told: it says what the answer made of it, or what it said before.
LEMMA FollowAnswer ==
    ASSUME NEW g, FollowFits(g), FollowInv(g), NEW p \in x5, Follow(g)!Answer(p)
    PROVE  FollowInv(g)'
<1> DEFINE s == p.of  pg == Follow(g)!Answered(x4[p.tab], p)
<1>1. /\ x4 \in [g.tabs -> PageOf(g)] /\ x5 \subseteq PressOf(g) /\ p \in PressOf(g) /\ x3 \in BOOLEAN
      /\ x11 \in [g.tabs -> SUBSET g.subjects]
  BY DEF FollowInv, FollowTypes
<1>2. /\ p.at # "out" /\ x5' = x5 \ {p} /\ UNCHANGED <<x1, x2, x3, x6, x9, x10, x11>>
      /\ x4' = IF p.tab = 0 THEN x4 ELSE [x4 EXCEPT ![p.tab] = pg]
  BY DEF Follow!Answer, Follow!Gone
<1>3. p.tab = 0 \/ p.tab \in g.tabs
  BY <1>1 DEF PressOf
<1>4. 0 \notin g.tabs
  BY DEF FollowFits
<1>5. s \in g.subjects /\ p.following \in BOOLEAN /\ p.at \in {"ok", "lost"}
  BY <1>1, <1>2 DEF PressOf
<1>6. ASSUME p.tab \in g.tabs
      PROVE  /\ pg \in PageOf(g) /\ pg.kind = x4[p.tab].kind
             /\ \A z \in g.subjects : z # s => pg.text[z] = x4[p.tab].text[z]
                  /\ pg.action[z] = x4[p.tab].action[z]
             /\ (p.at = "lost" => pg.text[s] = p.following /\ pg.action[s] = x4[p.tab].action[s])
             /\ (p.at = "ok" /\ ~p.chip => pg.text[s] = ~p.following /\ pg.action[s] = ~p.following)
  <2> DEFINE o == x4[p.tab]
  <2>1. o \in PageOf(g)
    BY <1>1, <1>6
  <2> HIDE DEF o, s
  <2>2. o.text \in [g.subjects -> BOOLEAN] /\ o.action \in [g.subjects -> BOOLEAN]
         /\ o.shown \subseteq g.subjects
    BY <2>1 DEF PageOf
  <2>3. CASE p.at = "lost"
    <3> DEFINE f == [o.text EXCEPT ![s] = p.following]
    <3>1. pg = [o EXCEPT !.text = f]
      BY <2>3 DEF Follow!Answered, o, s
    <3>2. f \in [g.subjects -> BOOLEAN] /\ f[s] = p.following /\ \A z \in g.subjects : z # s => f[z] = o.text[z]
      BY <1>5, <2>2
    <3> HIDE DEF f, pg
    <3>3. pg \in PageOf(g) /\ pg.text = f /\ pg.action = o.action /\ pg.kind = o.kind
      BY <2>1, <3>1, <3>2 DEF PageOf
    <3> QED BY <2>3, <3>2, <3>3 DEF o
  <2>4. CASE p.at = "ok" /\ p.chip
    <3> DEFINE S == o.shown \ {s}
    <3>1. pg = [o EXCEPT !.shown = S]
      BY <2>4 DEF Follow!Answered, o, s
    <3>2. S \subseteq g.subjects
      BY <2>2
    <3> HIDE DEF S, pg
    <3>3. pg \in PageOf(g) /\ pg.text = o.text /\ pg.action = o.action /\ pg.kind = o.kind
      BY <2>1, <3>1, <3>2 DEF PageOf
    <3> QED BY <2>4, <3>3 DEF o
  <2>5. CASE p.at = "ok" /\ ~p.chip
    <3> DEFINE f == [o.text EXCEPT ![s] = ~p.following]  a == [o.action EXCEPT ![s] = ~p.following]
    <3>1. pg = [o EXCEPT !.action = a, !.text = f]
      BY <2>5 DEF Follow!Answered, o, s
    <3>2. /\ f \in [g.subjects -> BOOLEAN] /\ f[s] = ~p.following /\ \A z \in g.subjects : z # s
               => f[z] = o.text[z]
          /\ a \in [g.subjects -> BOOLEAN] /\ a[s] = ~p.following
          /\ \A z \in g.subjects : z # s => a[z] = o.action[z]
      BY <1>5, <2>2
    <3> HIDE DEF f, a, pg
    <3>3. pg \in PageOf(g) /\ pg.text = f /\ pg.action = a /\ pg.kind = o.kind
      BY <2>1, <3>1, <3>2 DEF PageOf
    <3> QED BY <2>5, <3>2, <3>3 DEF o
  <2> QED BY <1>5, <2>3, <2>4, <2>5
<1> HIDE DEF pg
<1>7. /\ x4' \in [g.tabs -> PageOf(g)] /\ \A t \in g.tabs : x4'[t].kind = x4[t].kind
      /\ \A t \in g.tabs : t # p.tab => x4'[t] = x4[t]
      /\ (p.tab \in g.tabs => x4'[p.tab] = pg)
  BY <1>1, <1>2, <1>3, <1>4, <1>6
<1>8. FollowTypes(g)'
  BY <1>1, <1>2, <1>7 DEF FollowInv, FollowTypes
<1>9. ChipsAreOfMine(g)'
  BY <1>2, <1>7 DEF ChipsAreOfMine, FollowInv
<1>10. Accounted'
  BY <1>2 DEF Accounted, FollowInv
<1>11. ButtonsFit(g)'
  <2> SUFFICES ASSUME NEW u \in g.tabs, x4'[u].kind = "browse", NEW z \in x11[u]
               PROVE  Truthful(x4'[u], z, PressesOf(x5', u, z), x1, x3)
    BY <1>2 DEF ButtonsFit
  <2>1. Truthful(x4[u], z, PressesOf(x5, u, z), x1, x3) /\ z \in g.subjects /\ x4[u].kind = "browse"
    BY <1>1, <1>7 DEF FollowInv, ButtonsFit
  <2>2. CASE u = p.tab /\ z = s
    <3>1. p \in PressesOf(x5, u, z)
      BY <2>2 DEF PressesOf
    <3>2. \A r \in PressesOf(x5, u, z) : r = p
      BY <2>1, <3>1 DEF Truthful
    <3>3. PressesOf(x5', u, z) = {}
      BY <1>2, <3>2 DEF PressesOf
    <3>4. x4[u].action[z] = p.following /\ x4[u].text[z] = x4[u].action[z]
          /\ (x3 => (z \in x1 <=> IF p.at = "ok" THEN ~p.following ELSE p.following))
      BY <2>1, <3>1 DEF Truthful
    <3>5. ~p.chip
      BY <1>1, <2>1, <2>2 DEF FollowInv, ChipsAreOfMine
    <3>6. x4'[u] = pg
      BY <1>7, <2>2
    <3>7. CASE p.at = "lost"
      <4>1. pg.text[z] = p.following /\ pg.action[z] = p.following
        BY <1>6, <2>2, <3>4, <3>7
      <4> QED BY <3>3, <3>4, <3>6, <3>7, <4>1 DEF Truthful
    <3>8. CASE p.at = "ok"
      <4>1. pg.text[z] = ~p.following /\ pg.action[z] = ~p.following
        BY <1>6, <2>2, <3>5, <3>8
      <4> QED BY <3>3, <3>4, <3>6, <3>8, <4>1 DEF Truthful
    <3> QED BY <1>5, <3>7, <3>8
  <2>3. CASE ~(u = p.tab /\ z = s)
    <3>1. PressesOf(x5', u, z) = PressesOf(x5, u, z)
      BY <1>2, <2>3 DEF PressesOf
    <3>2. x4'[u].text[z] = x4[u].text[z] /\ x4'[u].action[z] = x4[u].action[z]
      BY <1>6, <1>7, <2>1, <2>3
    <3> QED BY <2>1, <3>1, <3>2 DEF Truthful
  <2> QED BY <2>2, <2>3
<1> QED BY <1>8, <1>9, <1>10, <1>11 DEF FollowInv

\* Every step of a reader and their tabs keeps the invariant.
LEMMA FollowStep ==
    ASSUME NEW g, FollowFits(g), FollowInv(g), [Follow(g)!Next]_(Follow(g)!vars)
    PROVE  FollowInv(g)'
<1>1. CASE UNCHANGED Follow(g)!vars
  <2>1. UNCHANGED <<x1, x2, x3, x4, x5, x6, x9, x10, x11>>
    BY <1>1 DEF Follow!vars
  <2> QED BY <2>1 DEF FollowInv, FollowTypes, ChipsAreOfMine, ButtonsFit, Accounted
<1>2. CASE Follow(g)!Lapse
  <2>1. UNCHANGED <<x1, x2, x4, x5, x6, x9, x10, x11>> /\ x3' = FALSE
    BY <1>2 DEF Follow!Lapse
  <2>2. ButtonsFit(g)'
    BY <2>1 DEF FollowInv, ButtonsFit, Truthful
  <2> QED BY <2>1, <2>2 DEF FollowInv, FollowTypes, ChipsAreOfMine, Accounted
<1>3. ASSUME NEW l \in g.leagues, Follow(g)!Catalogue(l) PROVE FollowInv(g)'
  <2>1. UNCHANGED <<x1, x3, x4, x5, x6, x9, x10, x11>> /\ x2' \subseteq x2 \cup {l}
    BY <1>3 DEF Follow!Catalogue
  <2> QED BY <2>1 DEF FollowInv, FollowTypes, ChipsAreOfMine, ButtonsFit, Accounted
<1>4. CASE Follow(g)!Next
  <2>1. CASE \E t \in g.tabs, kind \in {"browse", "mine"} : Follow(g)!Visit(t, kind)
    BY <2>1, FollowVisit
  <2>2. CASE \E t \in g.tabs : Follow(g)!Reload(t)
    BY <2>2, FollowVisit
  <2>3. CASE \E t \in g.tabs, s \in g.subjects : Follow(g)!Press(t, s)
    BY <2>3, FollowPress
  <2>4. CASE \E p \in x5 : Follow(g)!Serve(p) \/ Follow(g)!Lose(p) \/ Follow(g)!Answer(p)
    BY <2>4, FollowServe, FollowLose, FollowAnswer
  <2>5. CASE \E t \in g.tabs, form \in g.forms : Follow(g)!Submit(t, form)
    BY <2>5, FollowSubmit
  <2> QED BY <1>2, <1>3, <1>4, <2>1, <2>2, <2>3, <2>4, <2>5 DEF Follow!Next
<1> QED BY <1>1, <1>4

\* What is asked of buttons and receipts holds wherever the invariant does.
LEMMA FollowHolds == ASSUME NEW g, FollowFits(g), FollowInv(g) PROVE Follow(g)!FollowingHolds
<1>1. Follow(g)!ButtonIsTrue
  <2> SUFFICES ASSUME NEW t \in g.tabs, NEW s \in g.subjects, x4[t].kind = "browse", s \in x11[t],
                      ~Follow(g)!InFlight(t, s)
               PROVE  x4[t].text[s] = x4[t].action[s] /\ (x3 => (x4[t].text[s] <=> s \in x1))
    BY DEF Follow!ButtonIsTrue
  <2>1. PressesOf(x5, t, s) = {}
    BY DEF PressesOf, Follow!InFlight
  <2> QED BY <2>1 DEF FollowInv, ButtonsFit, Truthful
<1>2. Follow(g)!ReceiptsAddUp
  BY FollowCount DEF Follow!ReceiptsAddUp, FollowInv, Accounted
<1>3. Follow(g)!MissingIsOffered
  <2> SUFFICES ASSUME NEW t \in g.tabs, x4[t] = Follow(g)!Page("browse", x4[t].flash),
                      x1 \cap g.leagues \subseteq x2, ~(x2 \subseteq x1)
               PROVE  Follow(g)!Offered(x4[t], "follow-all")
    BY DEF Follow!MissingIsOffered
  <2>1. x1 \cap g.leagues \in SUBSET g.subjects /\ x2 \in SUBSET g.subjects /\ x2 \subseteq g.leagues
    BY DEF FollowInv, FollowTypes, FollowFits
  <2>2. x4[t].kind = "browse" /\ x4[t].following = Cardinality(x1 \cap g.leagues)
         /\ x4[t].total = Cardinality(x2)
    BY FollowCount DEF Follow!Page, Follow!PageWith
  <2>3. x1 \cap g.leagues # x2
    OBVIOUS
  <2>4. Cardinality(x1 \cap g.leagues) \in Nat /\ Cardinality(x2) \in Nat /\ IsFiniteSet(x2)
    BY <2>1, SubjectsCount
  <2>5. /\ Cardinality(x1 \cap g.leagues) <= Cardinality(x2)
        /\ Cardinality(x1 \cap g.leagues) # Cardinality(x2)
    BY <2>3, <2>4, FS_Subset
  <2>6. Cardinality(x1 \cap g.leagues) < Cardinality(x2)
    BY <2>4, <2>5
  <2> QED BY <2>2, <2>6 DEF Follow!Offered
<1> QED BY <1>1, <1>2, <1>3 DEF Follow!FollowingHolds

(***************************************************************************)
(* The site.  A step of it is a step of the part that moves, or leaves it   *)
(* alone.                                                                   *)
(***************************************************************************)
LEMMA FocusMoves ==
    ASSUME [SiteNext]_all
    PROVE  /\ focus' = focus
           /\ focus = "signin" => [Signing!Next]_(Signing!vars)
           /\ focus = "coinpay" => [Coinpay!Next]_(Coinpay!vars)
           /\ focus = "door" => [Door!Next]_(Door!vars)
           /\ focus = "codes" => [Coded!Next]_(Coded!vars)
           /\ focus = "invites" => [Invited!Next]_(Invited!vars)
           /\ focus = "talk" => [Among(Talk)!Next]_(Among(Talk)!vars)
           /\ focus = "circle" => [Among(Circle)!Next]_(Among(Circle)!vars)
           /\ focus = "remarks" => [Among(Remarks)!Next]_(Among(Remarks)!vars)
           /\ focus = "ties" => [Among(Tied)!Next]_(Among(Tied)!vars)
           /\ focus = "button" => [Follow(Buttons)!Next]_(Follow(Buttons)!vars)
           /\ focus = "receipts" => [Follow(Receipts)!Next]_(Follow(Receipts)!vars)
           /\ focus = "lapse" => [Follow(Lapsed)!Next]_(Follow(Lapsed)!vars)
<1> USE DEF Rest6, Rest7, Rest8, Rest9, Rest10, Rest11, Rest12, Rest13, Rest14, Rest15
<1>1. CASE SiteNext
  BY <1>1 DEF SiteNext
<1>2. CASE UNCHANGED all
  BY <1>2 DEF all, Signing!vars, Coinpay!vars, Door!vars, Coded!vars, Invited!vars, Among!vars, Follow!vars
<1> QED BY <1>1, <1>2

\* The invariant of the three parts, each while it is the one that moves.
AccountsInv ==
    (focus = "signin" => SignInInv) /\ (focus = "coinpay" => CoinpayInv) /\ (focus = "door" => DoorInv)

\* The invariants hold in every state of the site.
LEMMA AccountsInductive == SiteSpec => []AccountsInv
<1>1. SiteInit => AccountsInv
  BY SignInInit, CoinpayInit, DoorInit DEF SiteInit, AccountsInv
<1>2. AccountsInv /\ [SiteNext]_all => AccountsInv'
  BY FocusMoves, SignInStep, CoinpayStep, DoorStep DEF AccountsInv
<1> QED BY <1>1, <1>2, PTL DEF SiteSpec

\* However many links are spent, CoinPay callbacks arrive and passwords are typed at once, and
\* wherever requests die, for any number of requests, links, addresses, subs and passwords: a
\* link signs in once, an address is credited to one sign-in, the days are given once to each
\* side (SignIn), a sub is answered with the account that holds it and no account is out of
\* reach (CoinpayIdentity); at no moment were there more wrong guesses in the window than the
\* limit and one for each request allow, and whoever got in typed a password that the account
\* had while the request ran (PasswordDoor).
THEOREM AccountsAreSingle == SiteSpec => []AccountsHold
<1>1. AccountsInv => AccountsHold
  BY SignInCounts, DoorIsKept DEF AccountsInv, CoinpayInv, AccountsHold
<1> QED BY <1>1, AccountsInductive, PTL

\* The invariant of codes and invites, each while it is the one that moves.
CreditsInv == (focus = "codes" => CodedInv) /\ (focus = "invites" => InvitedInv)

\* The invariants hold in every state of the site.
LEMMA CreditsInductive == SiteSpec => []CreditsInv
<1>1. SiteInit => CreditsInv
  BY CodedInit, InvitedInit DEF SiteInit, CreditsInv
<1>2. CreditsInv /\ [SiteNext]_all => CreditsInv'
  BY FocusMoves, CodedStep, InvitedStep DEF CreditsInv
<1> QED BY <1>1, <1>2, PTL DEF SiteSpec

\* However codes and invites are claimed, withdrawn, retried and rewarded at once, and wherever
\* an insert fails or a deployment cuts a request short, for any number of accounts, requests,
\* codes, invites, uses and slots: a code gives days to as many accounts as it was made for, an
\* account brings in no more people than its quota, both sides of an invite get their days once,
\* and a failed insert costs one of them theirs at most (Codes).
THEOREM CreditsAreScarce == SiteSpec => InvitesHold
<1>1. CreditsInv /\ CreditsInv' /\ [SiteNext]_all => InvitesHoldStep
  BY FocusMoves, CodedHolds, InvitedHolds DEF CreditsInv, InvitesHoldStep
<1>2. CreditsInv /\ CreditsInv' /\ [SiteNext]_all => [InvitesHoldStep]_all
  BY <1>1
<1> QED BY <1>2, CreditsInductive, PTL DEF SiteSpec, InvitesHold

\* The invariant of groups and of what they follow, each while it is the one that moves.
PeopleGood ==
    /\ focus = "talk" => PeopleInv(Talk)
    /\ focus = "circle" => PeopleInv(Circle)
    /\ focus = "remarks" => PeopleInv(Remarks)
    /\ focus = "ties" => PeopleInv(Tied)
    /\ focus = "button" => FollowInv(Buttons)
    /\ focus = "receipts" => FollowInv(Receipts)
    /\ focus = "lapse" => FollowInv(Lapsed)

\* The groups are what the assumptions on the constants say.
LEMMA GroupsFit ==
    /\ GroupFits(Talk) /\ GroupFits(Circle) /\ GroupFits(Remarks) /\ GroupFits(Tied)
    /\ FollowFits(Buttons) /\ FollowFits(Receipts) /\ FollowFits(Lapsed)
BY PeopleAssumption, FollowAssumption DEF GroupFits, FollowFits

\* The invariants hold in every state of the site.
LEMMA PeopleInductive == SiteSpec => []PeopleGood
<1>1. SiteInit => PeopleGood
  BY GroupsFit, PeopleInit, FollowInit DEF SiteInit, PeopleGood
<1>2. PeopleGood /\ [SiteNext]_all => PeopleGood'
  BY GroupsFit, FocusMoves, PeopleStep, FollowStep DEF PeopleGood
<1> QED BY <1>1, <1>2, PTL DEF SiteSpec

\* For any people, requests, blocks, follows, messages and tabs, in any order: a request that a
\* block stood against does nothing while the block lasts, and the block ends the follows of
\* both; nobody sends more in an hour than the limit and one for each request at once; a page
\* of a conversation leaves out nothing without counting it, and clears its badge; the number
\* over a list is its length, and what it links to is there (Social).  A button whose presses
\* did not overlap says what is so, receipts add up to what is followed, and what is missing is
\* offered (Following).
THEOREM PeopleAgree == SiteSpec => PeopleHold
<1>1. ASSUME NEW CONSTANT g, GroupFits(g)
      PROVE  (PeopleInv(g) => /\ Among(g)!NothingPassesABlock /\ Among(g)!RateHolds /\ Among(g)!NothingVanishes
                              /\ Among(g)!BadgeIsCleared /\ Among(g)!CountsAgree /\ Among(g)!LinksLead)'
  <2>1. PeopleInv(g) => /\ Among(g)!NothingPassesABlock /\ Among(g)!RateHolds /\ Among(g)!NothingVanishes
                        /\ Among(g)!BadgeIsCleared /\ Among(g)!CountsAgree /\ Among(g)!LinksLead
    BY <1>1, PeopleHolds
  <2> QED BY <2>1, PTL
<1>2. ASSUME NEW CONSTANT g, FollowFits(g)
      PROVE  (FollowInv(g) => Follow(g)!FollowingHolds)'
  <2>1. FollowInv(g) => Follow(g)!FollowingHolds
    BY <1>2, FollowHolds
  <2> QED BY <2>1, PTL
<1>3. ASSUME NEW CONSTANT g, GroupFits(g), PeopleInv(g), [Among(g)!Next]_(Among(g)!vars)
      PROVE  Among(g)!PeopleHoldStep
  <2>1. PeopleInv(g)' /\ Among(g)!BlockEndsFollows
    BY <1>3, PeopleStep
  <2> QED BY <1>1, <1>3, <2>1 DEF Among!PeopleHoldStep
<1>4. ASSUME NEW CONSTANT g, FollowFits(g), FollowInv(g), [Follow(g)!Next]_(Follow(g)!vars)
      PROVE  Follow(g)!FollowingHolds'
  <2>1. FollowInv(g)'
    BY <1>4, FollowStep
  <2> QED BY <1>2, <1>4, <2>1
<1>5. PeopleGood /\ [SiteNext]_all => [PeopleHoldStep]_all
  <2> SUFFICES ASSUME PeopleGood, [SiteNext]_all PROVE PeopleHoldStep
    OBVIOUS
  <2>1. /\ focus = "talk" => Among(Talk)!PeopleHoldStep
        /\ focus = "circle" => Among(Circle)!PeopleHoldStep
        /\ focus = "remarks" => Among(Remarks)!PeopleHoldStep
        /\ focus = "ties" => Among(Tied)!PeopleHoldStep
    BY <1>3, GroupsFit, FocusMoves DEF PeopleGood
  <2>2. /\ focus' = "button" => Follow(Buttons)!FollowingHolds'
        /\ focus' = "receipts" => Follow(Receipts)!FollowingHolds'
        /\ focus' = "lapse" => Follow(Lapsed)!FollowingHolds'
    BY <1>4, GroupsFit, FocusMoves DEF PeopleGood
  <2> QED BY <2>1, <2>2, FocusMoves DEF PeopleHoldStep
<1> QED BY <1>5, PeopleInductive, PTL DEF SiteSpec, PeopleHold
===============================================================================
