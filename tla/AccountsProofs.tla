--------------------------- MODULE AccountsProofs ---------------------------
(***************************************************************************)
(* Proofs about Accounts for any number of requests, providers' identities *)
(* and login ids, whatever fails: every safety property of the run.        *)
(***************************************************************************)
EXTENDS Accounts, TLAPS

\* A callback that has started belongs to a flow that somebody consented to; an
\* exchange and a choice of a role that go on have their account.
InFlight ==
  /\ \A k \in Callbacks :
       /\ callback[k].flow # None => consent[callback[k].flow] # None
       /\ callback[k].pc \notin {"new", "done"} \/ codes[k] # None => callback[k].flow # None
  /\ \A x \in Exchanges : exchange[x].pc = "read" => exchange[x].code # None /\ exchange[x].account # None
  /\ \A c \in Confirms : confirm[c].pc = "read" => confirm[c].account # None

TypeInv == TypeOK /\ InFlight

-----------------------------------------------------------------------------
(* Types *)

\* At the start there are no accounts and no requests.
LEMMA InitType == Init => TypeInv
BY AccountsAssumption DEF Init, TypeInv, TypeOK, InFlight, NoAccount, Signing, Waiting, Buying, Asking,
     RoleOrNull, Roles, Accounts

-----------------------------------------------------------------------------
(* How a callback moves *)

CallbackStates ==
  [Callbacks -> [pc : {"new", "del", "profile", "find", "email", "create", "code", "done"},
                 flow : Flows \cup {None}, account : Accounts \cup {None}]]

TokenRecords == [account : Accounts, role : RoleOrNull, by : {"auth", "dev"}]

AccountRows ==
  [Accounts -> [there : BOOLEAN, login : LoginIds \cup {None}, identity : Identities \cup {None},
                email : Emails \cup {None}, role : RoleOrNull, number : {"null", "set"}]]

\* A callback goes on: its flow and its account stay.
LEMMA CallbackMoves ==
  ASSUME TypeInv, NEW k \in Callbacks, callback[k].pc \notin {"new", "done"},
         NEW pc \in {"profile", "email", "create", "done", "find"}, Advance(k, pc)
  PROVE  /\ callback' \in CallbackStates
         /\ callback'[k].pc = pc
         /\ \A j \in Callbacks :
              /\ callback'[j].flow = callback[j].flow /\ callback'[j].account = callback[j].account
              /\ j # k => callback'[j] = callback[j]
              /\ callback'[j].pc \notin {"new", "done"} => callback[j].pc \notin {"new", "done"}
BY DEF Advance, CallbackStates, TypeInv, TypeOK

\* A callback has its account: its flow stays.
LEMMA CallbackFinds ==
  ASSUME TypeInv, NEW k \in Callbacks, callback[k].pc \notin {"new", "done"}, NEW a \in Accounts,
         Found(k, a)
  PROVE  /\ callback' \in CallbackStates
         /\ callback'[k].pc = "code" /\ callback'[k].account = a
         /\ \A j \in Callbacks :
              /\ callback'[j].flow = callback[j].flow
              /\ j # k => callback'[j] = callback[j]
              /\ callback'[j].pc \notin {"new", "done"} => callback[j].pc \notin {"new", "done"}
BY DEF Found, CallbackStates, TypeInv, TypeOK

\* The code is stored: the callback is done, and its flow stays.
LEMMA CallbackEnds ==
  ASSUME TypeInv, NEW k \in Callbacks, CallbackCode(k)
  PROVE  /\ callback' \in CallbackStates
         /\ callback[k].pc = "code" /\ callback'[k].pc = "done"
         /\ \A j \in Callbacks :
              /\ callback'[j].flow = callback[j].flow
              /\ j # k => callback'[j] = callback[j]
              /\ callback'[j].pc \notin {"new", "done"} => callback[j].pc \notin {"new", "done"}
BY DEF CallbackCode, CallbackStates, TypeInv, TypeOK

\* A restart ends every request that had started.
LEMMA RestartEnds ==
  ASSUME TypeInv, Restart
  PROVE  /\ signup' \in [Signups -> [pc : {"new", "create", "done"}, login : LoginIds \cup {None},
                                     role : RoleOrNull]]
         /\ callback' \in CallbackStates
         /\ exchange' \in [Exchanges -> [pc : {"new", "read", "done"}, code : Callbacks \cup {None},
                                         account : Accounts \cup {None}]]
         /\ confirm' \in [Confirms -> [pc : {"new", "read", "done"}, account : Accounts \cup {None}]]
         /\ \A r \in Signups : signup'[r].pc = Died(signup[r].pc)
         /\ \A k \in Callbacks : callback'[k].pc = Died(callback[k].pc) /\ callback'[k].flow = callback[k].flow
         /\ \A x \in Exchanges : exchange'[x].pc # "read"
         /\ \A c \in Confirms : confirm'[c].pc # "read"
<1>1. \A pc : Died(pc) \in {"new", "done"}
  BY DEF Died
<1>2. /\ signup' \in [Signups -> [pc : {"new", "create", "done"}, login : LoginIds \cup {None},
                                  role : RoleOrNull]]
      /\ \A r \in Signups : signup'[r].pc = Died(signup[r].pc)
  BY <1>1 DEF Restart, Signing, RoleOrNull
<1>3. /\ callback' \in CallbackStates
      /\ \A k \in Callbacks : callback'[k].pc = Died(callback[k].pc) /\ callback'[k].flow = callback[k].flow
  BY <1>1 DEF Restart, CallbackStates, TypeInv, TypeOK
<1>4. /\ exchange' \in [Exchanges -> [pc : {"new", "read", "done"}, code : Callbacks \cup {None},
                                      account : Accounts \cup {None}]]
      /\ \A x \in Exchanges : exchange'[x].pc # "read"
  BY <1>1 DEF Restart, Buying
<1>5. /\ confirm' \in [Confirms -> [pc : {"new", "read", "done"}, account : Accounts \cup {None}]]
      /\ \A c \in Confirms : confirm'[c].pc # "read"
  BY <1>1 DEF Restart, Asking
<1>6. QED BY <1>2, <1>3, <1>4, <1>5

\* The updates of a row.
LEMMA RoleSet ==
  ASSUME TypeInv, NEW a \in Accounts, NEW role \in Roles, NEW b \in {"null", "set"},
         account' = [account EXCEPT ![a].role = role, ![a].number = b]
  PROVE  /\ account' \in AccountRows
         /\ account'[a].role = role /\ account'[a].number = b /\ account'[a].there = account[a].there
         /\ account'[a].identity = account[a].identity
         /\ \A c \in Accounts : c # a => account'[c] = account[c]
<1>0. account \in AccountRows BY DEF AccountRows, TypeInv, TypeOK
<1>1. account' \in AccountRows BY <1>0 DEF AccountRows, RoleOrNull
<1>2. account'[a].role = role /\ account'[a].number = b BY <1>0 DEF AccountRows
<1>3. account'[a].there = account[a].there BY <1>0 DEF AccountRows
<1>4. account'[a].identity = account[a].identity BY <1>0 DEF AccountRows
<1>5. \A c \in Accounts : c # a => account'[c] = account[c] BY <1>0 DEF AccountRows
<1>6. QED BY <1>1, <1>2, <1>3, <1>4, <1>5

LEMMA NumberSet ==
  ASSUME TypeInv, NEW a \in Accounts, account' = [account EXCEPT ![a].number = "set"]
  PROVE  /\ account' \in AccountRows
         /\ account'[a].role = account[a].role /\ account'[a].number = "set" /\ account'[a].there = account[a].there
         /\ account'[a].identity = account[a].identity
         /\ \A c \in Accounts : c # a => account'[c] = account[c]
<1>0. account \in AccountRows BY DEF AccountRows, TypeInv, TypeOK
<1>1. account' \in AccountRows BY <1>0 DEF AccountRows
<1>2. account'[a].role = account[a].role /\ account'[a].number = "set" BY <1>0 DEF AccountRows
<1>3. account'[a].there = account[a].there BY <1>0 DEF AccountRows
<1>4. account'[a].identity = account[a].identity BY <1>0 DEF AccountRows
<1>5. \A c \in Accounts : c # a => account'[c] = account[c] BY <1>0 DEF AccountRows
<1>6. QED BY <1>1, <1>2, <1>3, <1>4, <1>5

\* No flow changes, and no callback comes to life.
FlowsKept ==
  \A j \in Callbacks :
    /\ callback'[j].flow = callback[j].flow
    /\ callback'[j].pc \notin {"new", "done"} => callback[j].pc \notin {"new", "done"}

\* Such a step of a callback keeps the types if it does nothing else.
LEMMA CallbackTyped ==
  ASSUME TypeInv, callback' \in CallbackStates, FlowsKept, faults' \in Nat, states' \subseteq states,
         UNCHANGED <<account, codes, tokens, signup, consent, exchange, confirm, bought>>
  PROVE  TypeInv'
BY DEF TypeInv, TypeOK, InFlight, CallbackStates, FlowsKept

\* Every step keeps the types.
LEMMA NextType == TypeInv /\ [Next]_vars => TypeInv'
<1> SUFFICES ASSUME TypeInv, [Next]_vars PROVE TypeInv'
  OBVIOUS
<1> USE AccountsAssumption
<1>1. ASSUME NEW r \in Signups, NEW l \in LoginIds, NEW role \in Roles, SignupCheck(r, l, role) PROVE TypeInv'
  BY <1>1 DEF SignupCheck, Signing, TypeInv, TypeOK, InFlight, RoleOrNull, Roles, Accounts, requestVars
<1>2. ASSUME NEW r \in Signups, SignupCreate(r) PROVE TypeInv'
  <2> DEFINE s == signup[r]
  <2>1. signup' = [signup EXCEPT ![r] = Signing("done")] /\ r \in Accounts /\ s.role \in RoleOrNull
    BY <1>2 DEF SignupCreate, TypeInv, TypeOK, Accounts
  <2>2. signup' \in [Signups -> [pc : {"new", "create", "done"}, login : LoginIds \cup {None}, role : RoleOrNull]]
    BY <2>1 DEF Signing, RoleOrNull, TypeInv, TypeOK
  <2>3. CASE UNCHANGED <<account, tokens>>
    <3>1. faults' \in Nat
      BY <1>2 DEF SignupCreate, MayFail, TypeInv, TypeOK
    <3>2. QED BY <1>2, <2>2, <2>3, <3>1 DEF SignupCreate, TypeInv, TypeOK, InFlight
  <2>4. CASE account' = [account EXCEPT ![r] = [there |-> TRUE, login |-> s.login, identity |-> None,
                                email |-> None, role |-> s.role, number |-> NumberOf(s.role)]]
             /\ (tokens' = tokens \/ Issue(r, s.role))
    <3> DEFINE row == [there |-> TRUE, login |-> s.login, identity |-> None,
                                email |-> None, role |-> s.role, number |-> NumberOf(s.role)]
    <3>1. faults' \in Nat
      BY <1>2 DEF SignupCreate, MayFail, TypeInv, TypeOK
    <3>2. tokens' \subseteq TokenRecords
      BY <2>1, <2>4 DEF Issue, Token, TokenRecords, TypeInv, TypeOK
    <3>3. row \in [there : BOOLEAN, login : LoginIds \cup {None}, identity : Identities \cup {None},
                    email : Emails \cup {None}, role : RoleOrNull, number : {"null", "set"}]
      <4>1. NumberOf(s.role) \in {"null", "set"} BY DEF NumberOf
      <4>2. s.login \in LoginIds \cup {None}
        BY DEF TypeInv, TypeOK
      <4>3. QED BY <2>1, <4>1, <4>2
    <3>4. account' = [account EXCEPT ![r] = row]
      BY <2>4
    <3> HIDE DEF row
    <3>5. account' \in [Accounts -> [there : BOOLEAN, login : LoginIds \cup {None}, identity : Identities \cup {None},
                    email : Emails \cup {None}, role : RoleOrNull, number : {"null", "set"}]]
      BY <3>3, <3>4 DEF TypeInv, TypeOK
    <3>6. UNCHANGED <<states, codes, consent, callback, exchange, confirm, bought>>
      BY <1>2 DEF SignupCreate
    <3>7. QED BY <2>2, <3>1, <3>2, <3>5, <3>6 DEF TokenRecords, TypeInv, TypeOK, InFlight
  <2>5. QED BY <1>2, <2>3, <2>4 DEF SignupCreate
<1>3. ASSUME NEW l \in LoginIds, Login(l) PROVE TypeInv'
  BY <1>3 DEF Login, Issue, Token, Exists, TypeInv, TypeOK, InFlight, RoleOrNull, Roles, Accounts, requestVars
<1>4. ASSUME NEW f \in Flows, NEW i \in Identities, Start(f, i) PROVE TypeInv'
  BY <1>4 DEF Start, TypeInv, TypeOK, InFlight, RoleOrNull, Roles, Accounts, requestVars
<1>5. ASSUME NEW k \in Callbacks, NEW f \in Flows, CallbackState(k, f) PROVE TypeInv'
  BY <1>5 DEF CallbackState, TypeInv, TypeOK, InFlight, RoleOrNull, Roles, Accounts, requestVars
<1>6. ASSUME NEW k \in Callbacks, CallbackDel(k) PROVE TypeInv'
  <2>1. callback' \in CallbackStates /\ FlowsKept
    BY <1>6, CallbackMoves DEF CallbackDel, FlowsKept
  <2>2. states' \subseteq states /\ faults' \in Nat
    BY <1>6 DEF CallbackDel, TypeInv, TypeOK
  <2>3. QED BY <1>6, <2>1, <2>2, CallbackTyped DEF CallbackDel
<1>7. ASSUME NEW k \in Callbacks, CallbackProfile(k) PROVE TypeInv'
  <2>1. PICK pc \in {"find", "done"} : Advance(k, pc)
    BY <1>7 DEF CallbackProfile
  <2>2. callback' \in CallbackStates /\ FlowsKept
    BY <1>7, <2>1, CallbackMoves DEF CallbackProfile, FlowsKept
  <2>3. QED BY <1>7, <2>2, CallbackTyped DEF CallbackProfile, TypeInv, TypeOK
<1>8. ASSUME NEW k \in Callbacks, CallbackFind(k) PROVE TypeInv'
  <2>1. CASE Advance(k, "email")
    <3>1. callback' \in CallbackStates /\ FlowsKept
      BY <1>8, <2>1, CallbackMoves DEF CallbackFind, FlowsKept
    <3>2. QED BY <1>8, <3>1, CallbackTyped DEF CallbackFind, TypeInv, TypeOK
  <2>2. ASSUME NEW a \in Accounts, Found(k, a)
        PROVE  TypeInv'
    <3>1. callback' \in CallbackStates /\ FlowsKept
      BY <1>8, <2>2, CallbackFinds DEF CallbackFind, FlowsKept
    <3>2. QED BY <1>8, <3>1, CallbackTyped DEF CallbackFind, TypeInv, TypeOK
  <2>3. QED BY <1>8, <2>1, <2>2 DEF CallbackFind, OfIdentity
<1>9. ASSUME NEW k \in Callbacks, CallbackEmail(k) PROVE TypeInv'
  <2>1. PICK pc \in {"create", "done"} : Advance(k, pc)
    BY <1>9 DEF CallbackEmail
  <2>2. callback' \in CallbackStates /\ FlowsKept
    BY <1>9, <2>1, CallbackMoves DEF CallbackEmail, FlowsKept
  <2>3. QED BY <1>9, <2>2, CallbackTyped DEF CallbackEmail, TypeInv, TypeOK
<1>10. ASSUME NEW k \in Callbacks, CallbackCreate(k) PROVE TypeInv'
  <2> DEFINE i == Identity(k)
             row == [there |-> TRUE, login |-> None, identity |-> i, email |-> EmailOf[i],
                     role |-> "null", number |-> "null"]
  <2>1. callback[k].pc = "create" /\ k \in Accounts /\ i \in Identities
    BY <1>10 DEF CallbackCreate, Identity, TypeInv, TypeOK, InFlight, Accounts
  <2>2. UNCHANGED <<states, codes, tokens, signup, consent, exchange, confirm, bought>> /\ faults' \in Nat
    BY <1>10 DEF CallbackCreate, MayFail, TypeInv, TypeOK
  <2>3. /\ callback' \in CallbackStates
        /\ \A j \in Callbacks : callback'[j].flow = callback[j].flow
                              /\ (callback'[j].pc \notin {"new", "done"} => callback[j].pc \notin {"new", "done"})
    <3>1. CASE Advance(k, "done")
      BY <2>1, <3>1, CallbackMoves
    <3>2. CASE Found(k, k)
      BY <2>1, <3>2, CallbackFinds
    <3>3. QED BY <1>10, <3>1, <3>2 DEF CallbackCreate
  <2>4. row \in [there : BOOLEAN, login : LoginIds \cup {None}, identity : Identities \cup {None},
                  email : Emails \cup {None}, role : RoleOrNull, number : {"null", "set"}]
    BY <2>1 DEF Emails, RoleOrNull
  <2>5. account' = account \/ account' = [account EXCEPT ![k] = row]
    BY <1>10 DEF CallbackCreate
  <2> HIDE DEF row, i
  <2>6. account' \in [Accounts -> [there : BOOLEAN, login : LoginIds \cup {None}, identity : Identities \cup {None},
                  email : Emails \cup {None}, role : RoleOrNull, number : {"null", "set"}]]
    BY <2>4, <2>5 DEF TypeInv, TypeOK
  <2>7. QED BY <2>2, <2>3, <2>6 DEF TypeInv, TypeOK, InFlight, CallbackStates
<1>11. ASSUME NEW k \in Callbacks, CallbackCode(k) PROVE TypeInv'
  <2>1. /\ callback[k].pc = "code" /\ callback' \in CallbackStates
        /\ \A j \in Callbacks : callback'[j].flow = callback[j].flow
                              /\ (callback'[j].pc \notin {"new", "done"} => callback[j].pc \notin {"new", "done"})
    BY <1>11, CallbackEnds
  <2>2. callback[k].account \in Accounts \cup {None} /\ callback[k].flow # None
    BY <2>1 DEF TypeInv, TypeOK, InFlight
  <2>3. codes' \in [Callbacks -> Accounts \cup {None}] /\ (\A j \in Callbacks : j # k => codes'[j] = codes[j])
    BY <1>11, <2>2 DEF CallbackCode, TypeInv, TypeOK
  <2>4. InFlight'
    BY <1>11, <2>1, <2>2, <2>3 DEF CallbackCode, TypeInv, InFlight
  <2>5. TypeOK'
    BY <1>11, <2>1, <2>3 DEF CallbackCode, CallbackStates, TypeInv, TypeOK
  <2>6. QED BY <2>4, <2>5 DEF TypeInv
<1>12. ASSUME NEW k \in Callbacks, CallbackFails(k) PROVE TypeInv'
  <2>1. callback[k].pc \notin {"new", "done"} /\ Advance(k, "done") /\ faults' \in Nat
    BY <1>12 DEF CallbackFails, MayFail, TypeInv, TypeOK
  <2>2. callback' \in CallbackStates /\ FlowsKept
    BY <2>1, CallbackMoves DEF FlowsKept
  <2>3. QED BY <1>12, <2>1, <2>2, CallbackTyped DEF CallbackFails
<1>13. ASSUME NEW x \in Exchanges, NEW k \in Callbacks, ExchangeCode(x, k) PROVE TypeInv'
  BY <1>13 DEF ExchangeCode, Buying, TypeInv, TypeOK, InFlight, RoleOrNull, Roles, Accounts, requestVars
<1>14. ASSUME NEW x \in Exchanges, ExchangeRead(x) PROVE TypeInv'
  <2> DEFINE e == exchange[x]
  <2>1. e.pc = "read" /\ e.code \in Callbacks /\ e.account \in Accounts /\ faults' \in Nat
    BY <1>14 DEF ExchangeRead, MayFail, TypeInv, TypeOK, InFlight
  <2>2. account[e.account].role \in RoleOrNull
    BY <2>1 DEF TypeInv, TypeOK
  <2>3. tokens' \subseteq TokenRecords
    BY <1>14, <2>1, <2>2 DEF ExchangeRead, Issue, Token, TokenRecords, TypeInv, TypeOK
  <2>4. bought' \in [Callbacks -> SUBSET Exchanges]
    BY <1>14, <2>1 DEF ExchangeRead, TypeInv, TypeOK
  <2>5. /\ exchange' \in [Exchanges -> [pc : {"new", "read", "done"}, code : Callbacks \cup {None},
                                        account : Accounts \cup {None}]]
        /\ \A y \in Exchanges : exchange'[y].pc = "read" => exchange'[y] = exchange[y]
    BY <1>14 DEF ExchangeRead, Buying, TypeInv, TypeOK
  <2>6. QED BY <1>14, <2>1, <2>3, <2>4, <2>5 DEF ExchangeRead, TokenRecords, TypeInv, TypeOK, InFlight
<1>15. ASSUME NEW c \in Confirms, NEW a \in Accounts, NEW role \in Roles, ConfirmRole(c, a, role) PROVE TypeInv'
  <2>1. UNCHANGED <<states, codes, tokens, signup, consent, callback, exchange, bought>> /\ faults' \in Nat
    BY <1>15 DEF ConfirmRole, MayFail, TypeInv, TypeOK
  <2>2. \/ confirm' = [confirm EXCEPT ![c] = [pc |-> "read", account |-> a]]
        \/ confirm' = [confirm EXCEPT ![c] = Asking("done")]
    BY <1>15 DEF ConfirmRole
  <2>3. /\ confirm' \in [Confirms -> [pc : {"new", "read", "done"}, account : Accounts \cup {None}]]
        /\ \A d \in Confirms : confirm'[d].pc = "read" => confirm'[d].account # None
    <3>1. /\ confirm \in [Confirms -> [pc : {"new", "read", "done"}, account : Accounts \cup {None}]]
          /\ \A d \in Confirms : confirm[d].pc = "read" => confirm[d].account # None
          /\ a # None /\ a \in Accounts \cup {None}
      BY <1>15, AccountsAssumption DEF TypeInv, TypeOK, InFlight, Accounts
    <3>2. CASE confirm' = [confirm EXCEPT ![c] = [pc |-> "read", account |-> a]]
      BY <3>1, <3>2, <1>15
    <3>3. CASE confirm' = [confirm EXCEPT ![c] = [pc |-> "done", account |-> None]]
      BY <3>1, <3>3, <1>15
    <3>4. QED BY <2>2, <3>2, <3>3 DEF Asking
  <2>4. account' = account \/ account' = [account EXCEPT ![a].role = role, ![a].number = NumberOf(role)]
    BY <1>15 DEF ConfirmRole
  <2>5. NumberOf(role) \in {"null", "set"} BY DEF NumberOf
  <2>6. account' \in AccountRows
    BY <2>4, <2>5, RoleSet DEF TypeInv, TypeOK, AccountRows
  <2>7. QED BY <2>1, <2>3, <2>6 DEF TypeInv, TypeOK, InFlight, AccountRows
<1>16. ASSUME NEW c \in Confirms, ConfirmRead(c) PROVE TypeInv'
  BY <1>16 DEF ConfirmRead, Issue, Token, Asking, MayFail, TypeInv, TypeOK, InFlight, RoleOrNull, Roles, Accounts, requestVars
<1>17. ASSUME NEW a \in Accounts, SetNumber(a) PROVE TypeInv'
  <2>1. account' = [account EXCEPT ![a].number = "set"]
        /\ UNCHANGED <<states, codes, tokens, requestVars, bought, faults>>
    BY <1>17 DEF SetNumber
  <2>2. account' \in AccountRows
    BY <2>1, NumberSet
  <2>3. QED BY <2>1, <2>2 DEF TypeInv, TypeOK, InFlight, AccountRows, requestVars
<1>18. ASSUME Restart PROVE TypeInv'
  <2>1. UNCHANGED <<account, states, codes, tokens, consent, bought>> /\ faults' \in Nat
    BY <1>18 DEF Restart, MayFail, TypeInv, TypeOK
  <2>2. \A pc : Died(pc) \in {"new", "done"}
    BY DEF Died
  <2>3. QED BY <1>18, <2>1, <2>2, RestartEnds DEF TypeInv, TypeOK, InFlight, CallbackStates
<1>19. ASSUME NEW f \in Flows, ExpireState(f) PROVE TypeInv'
  BY <1>19 DEF ExpireState, TypeInv, TypeOK, InFlight, RoleOrNull, Roles, Accounts, requestVars
<1>20. ASSUME NEW k \in Callbacks, ExpireCode(k) PROVE TypeInv'
  BY <1>20 DEF ExpireCode, TypeInv, TypeOK, InFlight, RoleOrNull, Roles, Accounts, requestVars
<1>21. CASE UNCHANGED vars
  BY <1>21 DEF vars, requestVars, TypeInv, TypeOK, InFlight
<1>22. ASSUME NEW a \in Accounts, NEW role \in Roles, DevLogin(a, role) PROVE TypeInv'
  BY <1>22 DEF DevLogin, Token, requestVars, TypeInv, TypeOK, InFlight, RoleOrNull
<1>23. QED
  BY <1>1, <1>2, <1>3, <1>4, <1>5, <1>6, <1>7, <1>8, <1>9, <1>10, <1>11, <1>12, <1>13, <1>14, <1>15, <1>16, <1>17, <1>18, <1>19, <1>20, <1>21, <1>22 DEF Next, CallbackStep

\* Every reachable state is well typed, whatever fails.
THEOREM TypeCorrect == Spec => []TypeOK
<1>1. TypeInv => TypeOK
  BY DEF TypeInv
<1>2. QED BY <1>1, InitType, NextType, PTL DEF Spec

-----------------------------------------------------------------------------
(* What no step changes *)

\* A request that may still make its account has none.
Fresh ==
  /\ \A r \in Signups : signup[r].pc # "done" => ~Exists(r)
  /\ \A k \in Callbacks : callback[k].pc \notin {"code", "done"} => ~Exists(k)

\* An account that is there stays, with its identity, and a callback keeps the
\* flow and with it the identity that consented once it has started.
RowsStay ==
  \A a \in Accounts : Exists(a) => account'[a].there /\ account'[a].identity = account[a].identity
FlowsStay ==
  \A k \in Callbacks : callback[k].pc # "new" /\ callback[k].flow # None =>
    callback'[k].flow = callback[k].flow /\ consent'[callback[k].flow] = consent[callback[k].flow]

\* Nobody has an account at the start.
LEMMA InitFresh == Init => Fresh
BY DEF Init, Fresh, Exists, NoAccount, Accounts

\* A step that leaves the rows and the callbacks alone keeps all of it.
LEMMA RestStays ==
  ASSUME Fresh, UNCHANGED <<account, consent, signup, callback>>
  PROVE  Fresh' /\ RowsStay /\ FlowsStay
BY DEF Fresh, RowsStay, FlowsStay, Exists

\* So does a step of a callback that makes no account.
LEMMA CallbackStays ==
  ASSUME TypeInv, Fresh, NEW k \in Callbacks, UNCHANGED <<account, consent, signup>>,
         callback'[k].flow = callback[k].flow, callback[k].pc \in {"code", "done"} => callback'[k].pc \in {"code", "done"},
         \A j \in Callbacks : j # k => callback'[j] = callback[j],
         callback'[k].pc \in {"code", "done"} \/ ~Exists(k)
  PROVE  Fresh' /\ RowsStay /\ FlowsStay
BY DEF Fresh, RowsStay, FlowsStay, Exists, TypeInv, TypeOK, Accounts

\* Every step keeps the accounts and what their requests know of them.
LEMMA NextFresh ==
  ASSUME TypeInv, Fresh, [Next]_vars
  PROVE  Fresh' /\ RowsStay /\ FlowsStay
<1> USE AccountsAssumption
<1>1. ASSUME NEW r \in Signups, NEW l \in LoginIds, NEW role \in Roles, SignupCheck(r, l, role)
      PROVE  Fresh' /\ RowsStay /\ FlowsStay
  BY <1>1 DEF SignupCheck, Signing, Fresh, RowsStay, FlowsStay, Exists, TypeInv, TypeOK, Accounts
<1>2. ASSUME NEW r \in Signups, SignupCreate(r)
      PROVE  Fresh' /\ RowsStay /\ FlowsStay
  <2> DEFINE row == [there |-> TRUE, login |-> signup[r].login, identity |-> None,
                     email |-> None, role |-> signup[r].role, number |-> NumberOf(signup[r].role)]
  <2>1. r \in Accounts /\ ~Exists(r) /\ (\A k \in Callbacks : r # k)
    BY <1>2 DEF SignupCreate, Fresh, Accounts
  <2>2. UNCHANGED <<consent, callback>> /\ signup'[r].pc = "done" /\ (\A q \in Signups : q # r => signup'[q] = signup[q])
    BY <1>2 DEF SignupCreate, Signing, TypeInv, TypeOK
  <2>3. account' = account \/ account' = [account EXCEPT ![r] = row]
    BY <1>2 DEF SignupCreate
  <2> HIDE DEF row
  <2>4. \A a \in Accounts : a # r => account'[a] = account[a]
    BY <2>3 DEF TypeInv, TypeOK
  <2>5. Fresh'
    BY <2>1, <2>2, <2>4 DEF Fresh, Exists, Accounts
  <2>6. QED BY <2>1, <2>2, <2>4, <2>5 DEF RowsStay, FlowsStay, Exists
<1>3. ASSUME NEW l \in LoginIds, Login(l) PROVE Fresh' /\ RowsStay /\ FlowsStay
  BY <1>3, RestStays DEF Login, requestVars
<1>4. ASSUME NEW f \in Flows, NEW i \in Identities, Start(f, i) PROVE Fresh' /\ RowsStay /\ FlowsStay
  BY <1>4 DEF Start, Fresh, RowsStay, FlowsStay, Exists, TypeInv, TypeOK, InFlight
<1>5. ASSUME NEW k \in Callbacks, NEW f \in Flows, CallbackState(k, f) PROVE Fresh' /\ RowsStay /\ FlowsStay
  BY <1>5 DEF CallbackState, Fresh, RowsStay, FlowsStay, Exists, TypeInv, TypeOK, InFlight
<1>6. ASSUME NEW k \in Callbacks, CallbackDel(k) PROVE Fresh' /\ RowsStay /\ FlowsStay
  BY <1>6, CallbackMoves, CallbackStays DEF CallbackDel, Fresh
<1>7. ASSUME NEW k \in Callbacks, CallbackProfile(k) PROVE Fresh' /\ RowsStay /\ FlowsStay
  BY <1>7, CallbackMoves, CallbackStays DEF CallbackProfile, Fresh
<1>8. ASSUME NEW k \in Callbacks, CallbackFind(k) PROVE Fresh' /\ RowsStay /\ FlowsStay
  BY <1>8, CallbackMoves, CallbackFinds, CallbackStays DEF CallbackFind, OfIdentity, Fresh
<1>9. ASSUME NEW k \in Callbacks, CallbackEmail(k) PROVE Fresh' /\ RowsStay /\ FlowsStay
  <2>1. PICK pc \in {"create", "done"} : Advance(k, pc)
    BY <1>9 DEF CallbackEmail
  <2>2. QED BY <1>9, <2>1, CallbackMoves, CallbackStays DEF CallbackEmail, Fresh
<1>10. ASSUME NEW k \in Callbacks, CallbackCreate(k) PROVE Fresh' /\ RowsStay /\ FlowsStay
  <2> DEFINE row == [there |-> TRUE, login |-> None, identity |-> Identity(k), email |-> EmailOf[Identity(k)],
                     role |-> "null", number |-> "null"]
  <2>1. k \in Accounts /\ ~Exists(k) /\ (\A r \in Signups : r # k) /\ callback[k].pc = "create"
    BY <1>10 DEF CallbackCreate, Fresh, Accounts
  <2>2. /\ callback'[k].pc \in {"code", "done"}
        /\ \A j \in Callbacks : callback'[j].flow = callback[j].flow /\ (j # k => callback'[j] = callback[j])
    <3>1. CASE Advance(k, "done")
      BY <2>1, <3>1, CallbackMoves
    <3>2. CASE Found(k, k)
      BY <2>1, <3>2, CallbackFinds
    <3>3. QED BY <1>10, <3>1, <3>2 DEF CallbackCreate
  <2>3. UNCHANGED <<consent, signup>> /\ (account' = account \/ account' = [account EXCEPT ![k] = row])
    BY <1>10 DEF CallbackCreate
  <2> HIDE DEF row
  <2>4. \A a \in Accounts : a # k => account'[a] = account[a]
    BY <2>3 DEF TypeInv, TypeOK
  <2>5. Fresh'
    BY <2>1, <2>2, <2>3, <2>4 DEF Fresh, Exists, Accounts
  <2>6. QED BY <2>1, <2>2, <2>3, <2>4, <2>5 DEF RowsStay, FlowsStay, Exists
<1>11. ASSUME NEW k \in Callbacks, CallbackCode(k) PROVE Fresh' /\ RowsStay /\ FlowsStay
  BY <1>11, CallbackEnds, CallbackStays DEF CallbackCode, Fresh
<1>12. ASSUME NEW k \in Callbacks, CallbackFails(k) PROVE Fresh' /\ RowsStay /\ FlowsStay
  <2>1. callback[k].pc \notin {"new", "done"} /\ Advance(k, "done") /\ UNCHANGED <<account, consent, signup>>
    BY <1>12 DEF CallbackFails
  <2>2. QED BY <2>1, CallbackMoves, CallbackStays
<1>13. ASSUME NEW x \in Exchanges, NEW k \in Callbacks, ExchangeCode(x, k) PROVE Fresh' /\ RowsStay /\ FlowsStay
  BY <1>13, RestStays DEF ExchangeCode
<1>14. ASSUME NEW x \in Exchanges, ExchangeRead(x) PROVE Fresh' /\ RowsStay /\ FlowsStay
  BY <1>14, RestStays DEF ExchangeRead
<1>15. ASSUME NEW c \in Confirms, NEW a \in Accounts, NEW role \in Roles, ConfirmRole(c, a, role)
      PROVE  Fresh' /\ RowsStay /\ FlowsStay
  <2>1. UNCHANGED <<consent, signup, callback>>
    BY <1>15 DEF ConfirmRole
  <2>2. CASE account' = account
    BY <2>1, <2>2, RestStays
  <2>3. CASE account' = [account EXCEPT ![a].role = role, ![a].number = NumberOf(role)]
    <3>1. NumberOf(role) \in {"null", "set"}
      BY DEF NumberOf
    <3>2. \A b \in Accounts : account'[b].there = account[b].there /\ account'[b].identity = account[b].identity
      BY <2>3, <3>1, RoleSet
    <3>3. QED BY <2>1, <3>2 DEF Fresh, RowsStay, FlowsStay, Exists, Accounts
  <2>4. QED BY <1>15, <2>2, <2>3 DEF ConfirmRole
<1>16. ASSUME NEW c \in Confirms, ConfirmRead(c) PROVE Fresh' /\ RowsStay /\ FlowsStay
  BY <1>16, RestStays DEF ConfirmRead
<1>17. ASSUME NEW a \in Accounts, SetNumber(a) PROVE Fresh' /\ RowsStay /\ FlowsStay
  <2>1. UNCHANGED <<consent, signup, callback>> /\ account' = [account EXCEPT ![a].number = "set"]
    BY <1>17 DEF SetNumber, requestVars
  <2>2. \A b \in Accounts : account'[b].there = account[b].there /\ account'[b].identity = account[b].identity
    BY <2>1, NumberSet
  <2>3. QED BY <2>1, <2>2 DEF Fresh, RowsStay, FlowsStay, Exists, Accounts
<1>18. ASSUME Restart PROVE Fresh' /\ RowsStay /\ FlowsStay
  <2>1. UNCHANGED <<account, consent>>
    BY <1>18 DEF Restart
  <2>2. \A r \in Signups : signup'[r].pc = "done" \/ signup'[r].pc = signup[r].pc
    BY <1>18, RestartEnds DEF Died
  <2>3. \A k \in Callbacks : callback'[k].flow = callback[k].flow
                           /\ (callback'[k].pc = "done" \/ callback'[k].pc = callback[k].pc)
    BY <1>18, RestartEnds DEF Died
  <2>4. QED BY <2>1, <2>2, <2>3 DEF Fresh, RowsStay, FlowsStay, Exists, Accounts
<1>19. ASSUME NEW f \in Flows, ExpireState(f) PROVE Fresh' /\ RowsStay /\ FlowsStay
  BY <1>19, RestStays DEF ExpireState, requestVars
<1>20. ASSUME NEW k \in Callbacks, ExpireCode(k) PROVE Fresh' /\ RowsStay /\ FlowsStay
  BY <1>20, RestStays DEF ExpireCode, requestVars
<1>21. CASE UNCHANGED vars
  BY <1>21, RestStays DEF vars, requestVars
<1>22. ASSUME NEW a \in Accounts, NEW role \in Roles, DevLogin(a, role) PROVE Fresh' /\ RowsStay /\ FlowsStay
  BY <1>22, RestStays DEF DevLogin, requestVars
<1>23. QED
  BY <1>1, <1>2, <1>3, <1>4, <1>5, <1>6, <1>7, <1>8, <1>9, <1>10, <1>11, <1>12, <1>13, <1>14, <1>15, <1>16, <1>17, <1>18, <1>19, <1>20, <1>21, <1>22 DEF Next, CallbackStep

-----------------------------------------------------------------------------
(* The one-time code stands for whoever consented *)

Names(k, a)    == a \in Accounts /\ Exists(a) /\ account[a].identity = Identity(k)
NamesNext(k, a) == a \in Accounts /\ account'[a].there /\ account'[a].identity = consent'[callback'[k].flow]

\* The account is right from the moment it is found or made until a token is
\* issued for it, wherever it is kept meanwhile.
Named ==
  /\ \A k \in Callbacks :
       /\ callback[k].pc = "code" => Names(k, callback[k].account)
       /\ codes[k] # None => callback[k].pc = "done" /\ Names(k, codes[k])
  /\ \A x \in Exchanges : exchange[x].pc = "read" =>
       LET k == exchange[x].code IN
         k \in Callbacks /\ callback[k].pc = "done" /\ callback[k].flow # None /\ Names(k, exchange[x].account)

\* What a step may do to the requests that keep an account.
CallbacksGo ==
  \A k \in Callbacks :
    /\ callback[k].pc = "done" => callback'[k].pc = "done"
    /\ callback'[k].pc = "code" =>
         \/ callback[k].pc = "code" /\ callback'[k].account = callback[k].account
         \/ NamesNext(k, callback'[k].account)
CodesGo == \A k \in Callbacks : codes'[k] # None => codes'[k] = codes[k]
ExchangesGo == \A x \in Exchanges : exchange'[x].pc = "read" => exchange'[x] = exchange[x]

\* At the start nobody is named.
LEMMA InitNamed == Init => Named
BY DEF Init, Named, Waiting, Buying

\* Who was named is named, as accounts stay and flows stay.
LEMMA NamesStay ==
  ASSUME RowsStay, FlowsStay, NEW k \in Callbacks, callback[k].pc # "new", callback[k].flow # None,
         NEW a, Names(k, a)
  PROVE  NamesNext(k, a)
BY DEF RowsStay, FlowsStay, Names, NamesNext, Identity

\* A step that does no more than that keeps the names.
LEMMA NamedKept ==
  ASSUME TypeInv, Named, RowsStay, FlowsStay, CallbacksGo, CodesGo, ExchangesGo
  PROVE  Named'
<1>1. ASSUME NEW k \in Callbacks, callback'[k].pc = "code"
      PROVE  NamesNext(k, callback'[k].account)
  <2>1. CASE callback[k].pc = "code" /\ callback'[k].account = callback[k].account
    <3>1. callback[k].flow # None /\ Names(k, callback[k].account)
      BY <2>1 DEF Named, TypeInv, InFlight
    <3>2. QED BY <2>1, <3>1, NamesStay
  <2>2. QED BY <1>1, <2>1 DEF CallbacksGo
<1>2. ASSUME NEW k \in Callbacks, codes'[k] # None
      PROVE  callback'[k].pc = "done" /\ NamesNext(k, codes'[k])
  <2>1. codes'[k] = codes[k]
    BY <1>2 DEF CodesGo
  <2>2. callback[k].pc = "done" /\ callback[k].flow # None /\ Names(k, codes[k])
    BY <1>2, <2>1 DEF Named, TypeInv, InFlight
  <2>3. QED BY <2>1, <2>2, NamesStay DEF CallbacksGo
<1>3. ASSUME NEW x \in Exchanges, exchange'[x].pc = "read"
      PROVE  LET k == exchange'[x].code IN
               k \in Callbacks /\ callback'[k].pc = "done" /\ callback'[k].flow # None /\ NamesNext(k, exchange'[x].account)
  <2> DEFINE k == exchange[x].code
  <2>1. exchange'[x] = exchange[x]
    BY <1>3 DEF ExchangesGo
  <2>2. k \in Callbacks /\ callback[k].pc = "done" /\ callback[k].flow # None /\ Names(k, exchange[x].account)
    BY <1>3, <2>1 DEF Named
  <2>3. callback'[k].pc = "done" /\ callback'[k].flow # None
    BY <2>2 DEF CallbacksGo, FlowsStay
  <2>4. QED BY <2>1, <2>2, <2>3, NamesStay
<1>4. QED BY <1>1, <1>2, <1>3 DEF Named, Names, NamesNext, Exists, Identity

\* Every step keeps the names.
LEMMA NextNamed ==
  ASSUME TypeInv, Fresh, Named, [Next]_vars
  PROVE  Named'
<1> USE AccountsAssumption
<1>0. RowsStay /\ FlowsStay
  BY NextFresh
<1>1. ASSUME UNCHANGED <<codes, exchange, callback>> PROVE Named'
  BY <1>0, <1>1, NamedKept DEF CallbacksGo, CodesGo, ExchangesGo
<1>2. ASSUME NEW k \in Callbacks, CallbackStep(k), ~CallbackCode(k) PROVE Named'
  <2>1. callback[k].pc \notin {"new", "done"} /\ UNCHANGED <<codes, exchange>>
    BY <1>2 DEF CallbackStep, CallbackDel, CallbackProfile, CallbackFind, CallbackEmail, CallbackCreate, CallbackFails
  <2>2. CASE \E pc \in {"profile", "email", "create", "done", "find"} : Advance(k, pc)
    <3>1. CallbacksGo
      BY <2>1, <2>2, CallbackMoves DEF CallbacksGo
    <3>2. QED BY <1>0, <2>1, <3>1, NamedKept DEF CodesGo, ExchangesGo
  <2>3. ASSUME NEW a \in Accounts, Found(k, a), account'[a].there, account'[a].identity = consent'[callback[k].flow]
        PROVE  Named'
    <3>1. CallbacksGo
      BY <2>1, <2>3, CallbackFinds DEF CallbacksGo, NamesNext
    <3>2. QED BY <1>0, <2>1, <3>1, NamedKept DEF CodesGo, ExchangesGo
  <2>4. ASSUME CallbackFind(k) PROVE Named'
    <3>1. ASSUME NEW a \in OfIdentity(Identity(k)), Found(k, a) PROVE Named'
      BY <2>3, <2>4, <3>1 DEF CallbackFind, OfIdentity, Exists, Identity
    <3>2. QED BY <2>2, <2>4, <3>1 DEF CallbackFind
  <2>5. ASSUME CallbackCreate(k), Found(k, k) PROVE Named'
    <3> DEFINE row == [there |-> TRUE, login |-> None, identity |-> Identity(k), email |-> EmailOf[Identity(k)],
                       role |-> "null", number |-> "null"]
    <3>1. account' = [account EXCEPT ![k] = row] /\ UNCHANGED consent
      <4>1. ~Advance(k, "done")
        BY <2>1, <2>5, CallbackMoves, CallbackFinds DEF Accounts
      <4>2. QED BY <2>5, <4>1 DEF CallbackCreate
    <3>2. row.there /\ row.identity = Identity(k)
      OBVIOUS
    <3> HIDE DEF row
    <3>3. k \in Accounts /\ account'[k] = row
      BY <3>1 DEF TypeInv, TypeOK, Accounts
    <3>4. QED BY <2>3, <2>5, <3>1, <3>2, <3>3 DEF Identity
  <2>6. CASE CallbackDel(k) \/ CallbackFails(k)
    BY <2>2, <2>6 DEF CallbackDel, CallbackFails
  <2>7. CASE CallbackProfile(k) \/ CallbackEmail(k)
    BY <2>2, <2>7 DEF CallbackProfile, CallbackEmail
  <2>8. CASE CallbackCreate(k)
    BY <2>2, <2>5, <2>8 DEF CallbackCreate
  <2>9. QED BY <1>2, <2>4, <2>6, <2>7, <2>8 DEF CallbackStep
<1>3. ASSUME NEW k \in Callbacks, NEW f \in Flows, CallbackState(k, f) PROVE Named'
  <2>1. CallbacksGo /\ UNCHANGED <<codes, exchange>>
    BY <1>3 DEF CallbackState, CallbacksGo, TypeInv, TypeOK
  <2>2. QED BY <1>0, <2>1, NamedKept DEF CodesGo, ExchangesGo
<1>4. ASSUME NEW k \in Callbacks, CallbackCode(k) PROVE Named'
  <2>1. /\ callback[k].pc = "code" /\ callback'[k].pc = "done" /\ UNCHANGED <<exchange, consent, account>>
        /\ \A j \in Callbacks : callback'[j].flow = callback[j].flow /\ (j # k => callback'[j] = callback[j])
    BY <1>4, CallbackEnds DEF CallbackCode
  <2>2. Names(k, callback[k].account)
    BY <2>1 DEF Named
  <2>3. codes'[k] = callback[k].account /\ (\A j \in Callbacks : j # k => codes'[j] = codes[j])
    BY <1>4 DEF CallbackCode, TypeInv, TypeOK
  <2>4. QED BY <2>1, <2>2, <2>3 DEF Named, Names, Exists, Identity
<1>5. ASSUME NEW x \in Exchanges, NEW k \in Callbacks, ExchangeCode(x, k) PROVE Named'
  <2>1. /\ callback[k].pc = "done" /\ UNCHANGED <<account, consent, callback>>
        /\ IF codes[k] = None THEN exchange'[x].pc = "done"
                               ELSE exchange'[x] = [pc |-> "read", code |-> k, account |-> codes[k]]
        /\ \A y \in Exchanges : y # x => exchange'[y] = exchange[y]
        /\ codes'[k] = None /\ (\A j \in Callbacks : j # k => codes'[j] = codes[j])
    BY <1>5 DEF ExchangeCode, Buying, TypeInv, TypeOK
  <2>2. codes[k] # None => callback[k].flow # None /\ Names(k, codes[k])
    BY DEF Named, TypeInv, InFlight
  <2>3. QED BY <2>1, <2>2 DEF Named, Names, Exists, Identity
<1>6. ASSUME NEW x \in Exchanges, ExchangeRead(x) PROVE Named'
  <2>1. ExchangesGo /\ UNCHANGED <<codes, callback>>
    BY <1>6 DEF ExchangeRead, Buying, ExchangesGo, TypeInv, TypeOK
  <2>2. QED BY <1>0, <2>1, NamedKept DEF CallbacksGo, CodesGo
<1>7. ASSUME Restart PROVE Named'
  <2>1. \A k \in Callbacks : callback'[k].pc = "done" \/ (callback'[k].pc = "new" /\ callback[k].pc = "new")
    BY <1>7, RestartEnds DEF Died
  <2>2. \A x \in Exchanges : exchange'[x].pc # "read"
    BY <1>7, RestartEnds DEF Died
  <2>3. CallbacksGo /\ ExchangesGo /\ UNCHANGED codes
    BY <1>7, <2>1, <2>2 DEF Restart, CallbacksGo, ExchangesGo
  <2>4. QED BY <1>0, <2>3, NamedKept DEF CodesGo
<1>8. ASSUME NEW k \in Callbacks, ExpireCode(k) PROVE Named'
  <2>1. CodesGo /\ UNCHANGED <<callback, exchange>>
    BY <1>8 DEF ExpireCode, CodesGo, TypeInv, TypeOK, requestVars
  <2>2. QED BY <1>0, <2>1, NamedKept DEF CallbacksGo, ExchangesGo
<1>9. CASE \E r \in Signups : SignupCreate(r) \/ \E l \in LoginIds, role \in Roles : SignupCheck(r, l, role)
  BY <1>1, <1>9 DEF SignupCreate, SignupCheck
<1>10. CASE (\E l \in LoginIds : Login(l)) \/ UNCHANGED vars
  BY <1>1, <1>10 DEF Login, vars, requestVars
<1>11. CASE \E f \in Flows : ExpireState(f) \/ \E i \in Identities : Start(f, i)
  BY <1>1, <1>11 DEF ExpireState, Start, requestVars
<1>12. CASE \E c \in Confirms : ConfirmRead(c) \/ \E a \in Accounts, role \in Roles : ConfirmRole(c, a, role)
  BY <1>1, <1>12 DEF ConfirmRead, ConfirmRole
<1>13. CASE \E a \in Accounts : SetNumber(a) \/ \E role \in Roles : DevLogin(a, role)
  BY <1>1, <1>13 DEF SetNumber, DevLogin, requestVars
<1>14. QED
  BY <1>2, <1>3, <1>4, <1>5, <1>6, <1>7, <1>8, <1>9, <1>10, <1>11, <1>12, <1>13 DEF Next, CallbackStep

\* The one-time code and the exchange that has taken it stand for the account of
\* the identity that consented, for any number of logins at the same time.
THEOREM CodeIsOwn == Spec => []CodeNamesIdentity
<1>1. Init => TypeInv /\ Fresh /\ Named
  BY InitType, InitFresh, InitNamed
<1>2. (TypeInv /\ Fresh /\ Named) /\ [Next]_vars => (TypeInv /\ Fresh /\ Named)'
  BY NextType, NextFresh, NextNamed
<1>3. TypeInv /\ Fresh /\ Named => CodeNamesIdentity
  BY DEF Named, Names, CodeNamesIdentity
<1>4. QED BY <1>1, <1>2, <1>3, PTL DEF Spec

-----------------------------------------------------------------------------
(* The one-time code is used once *)

\* A code is waiting, or one exchange holds it or has used it.
Holds(x, k) == (exchange[x].pc = "read" /\ exchange[x].code = k) \/ x \in bought[k]
OneHolder ==
  \A k \in Callbacks :
    /\ codes[k] # None => callback[k].pc = "done"
    /\ callback[k].pc # "done" \/ codes[k] # None => \A x \in Exchanges : ~Holds(x, k)
    /\ \A x, y \in Exchanges : Holds(x, k) /\ Holds(y, k) => x = y

\* Nobody holds a code at the start.
LEMMA InitHolder == Init => OneHolder
BY DEF Init, OneHolder, Holds, Buying

\* A step that makes no code and no holder keeps it so.
LEMMA HoldersKept ==
  ASSUME OneHolder, CodesGo,
         \A k \in Callbacks : callback[k].pc = "done" => callback'[k].pc = "done",
         \A k \in Callbacks : callback'[k].pc = "done" => callback[k].pc = "done" \/ codes'[k] = None,
         \A k \in Callbacks : \A x \in Exchanges : Holds(x, k)' => Holds(x, k)
  PROVE  OneHolder'
BY DEF OneHolder, CodesGo

\* Every step keeps it so.
LEMMA NextHolder ==
  ASSUME TypeInv, OneHolder, [Next]_vars
  PROVE  OneHolder'
<1> USE AccountsAssumption
<1>1. ASSUME UNCHANGED <<codes, exchange, bought, callback>> PROVE OneHolder'
  BY <1>1 DEF OneHolder, Holds
<1>2. ASSUME NEW k \in Callbacks, UNCHANGED <<codes, exchange, bought>>,
             \A j \in Callbacks : j # k => callback'[j] = callback[j], callback[k].pc # "done"
      PROVE  OneHolder'
  BY <1>2 DEF OneHolder, Holds
<1>3. ASSUME NEW k \in Callbacks, CallbackStep(k), ~CallbackCode(k) PROVE OneHolder'
  <2>1. callback[k].pc \notin {"new", "done"} /\ UNCHANGED <<codes, exchange, bought>>
    BY <1>3 DEF CallbackStep, CallbackDel, CallbackProfile, CallbackFind, CallbackEmail, CallbackCreate, CallbackFails
  <2>2. (\E pc \in {"profile", "email", "create", "done", "find"} : Advance(k, pc)) \/ (\E a \in Accounts : Found(k, a))
    <3>1. CASE CallbackDel(k) \/ CallbackFails(k)
      BY <3>1 DEF CallbackDel, CallbackFails
    <3>2. CASE CallbackProfile(k) \/ CallbackEmail(k)
      BY <3>2 DEF CallbackProfile, CallbackEmail
    <3>3. CASE CallbackFind(k)
      BY <3>3 DEF CallbackFind, OfIdentity
    <3>4. CASE CallbackCreate(k)
      BY <3>4 DEF CallbackCreate, Accounts
    <3>5. QED BY <1>3, <3>1, <3>2, <3>3, <3>4 DEF CallbackStep
  <2>3. \A j \in Callbacks : j # k => callback'[j] = callback[j]
    BY <2>1, <2>2, CallbackMoves, CallbackFinds
  <2>4. QED BY <1>2, <2>1, <2>3
<1>4. ASSUME NEW k \in Callbacks, NEW f \in Flows, CallbackState(k, f) PROVE OneHolder'
  BY <1>2, <1>4 DEF CallbackState, TypeInv, TypeOK
<1>5. ASSUME NEW k \in Callbacks, CallbackCode(k) PROVE OneHolder'
  <2>1. /\ callback[k].pc = "code" /\ callback'[k].pc = "done" /\ UNCHANGED <<exchange, bought>>
        /\ \A j \in Callbacks : j # k => callback'[j] = callback[j]
    BY <1>5, CallbackEnds DEF CallbackCode
  <2>2. \A j \in Callbacks : j # k => codes'[j] = codes[j]
    BY <1>5 DEF CallbackCode, TypeInv, TypeOK
  <2>3. QED BY <2>1, <2>2 DEF OneHolder, Holds
<1>6. ASSUME NEW x \in Exchanges, NEW k \in Callbacks, ExchangeCode(x, k) PROVE OneHolder'
  <2>1. /\ callback[k].pc = "done" /\ exchange[x].pc = "new" /\ UNCHANGED <<bought, callback>>
        /\ IF codes[k] = None THEN exchange'[x].pc = "done"
                               ELSE exchange'[x] = [pc |-> "read", code |-> k, account |-> codes[k]]
        /\ \A y \in Exchanges : y # x => exchange'[y] = exchange[y]
        /\ codes'[k] = None /\ (\A j \in Callbacks : j # k => codes'[j] = codes[j])
    BY <1>6 DEF ExchangeCode, Buying, TypeInv, TypeOK
  <2>2. CASE codes[k] = None
    <3>1. CodesGo
      BY <2>1 DEF CodesGo
    <3>2. \A j \in Callbacks : \A y \in Exchanges : Holds(y, j)' => Holds(y, j)
      BY <2>1, <2>2 DEF Holds
    <3>3. QED BY <2>1, <3>1, <3>2, HoldersKept
  <2>3. CASE codes[k] # None
    <3>1. \A y \in Exchanges : ~Holds(y, k)
      BY <2>3 DEF OneHolder
    <3>2. \A y \in Exchanges : Holds(y, k)' => y = x
      BY <2>1, <3>1 DEF Holds
    <3>3. \A j \in Callbacks : \A y \in Exchanges : j # k /\ Holds(y, j)' => Holds(y, j)
      BY <2>1 DEF Holds
    <3>4. QED BY <2>1, <3>2, <3>3 DEF OneHolder
  <2>4. QED BY <2>2, <2>3
<1>7. ASSUME NEW x \in Exchanges, ExchangeRead(x) PROVE OneHolder'
  <2> DEFINE j == exchange[x].code
  <2>1. /\ exchange[x].pc = "read" /\ UNCHANGED <<codes, callback>> /\ exchange'[x].pc = "done"
        /\ \A y \in Exchanges : y # x => exchange'[y] = exchange[y]
    BY <1>7 DEF ExchangeRead, Buying, TypeInv, TypeOK
  <2>2. \A k \in Callbacks : \A y \in bought'[k] : y \in bought[k] \/ (k = j /\ y = x)
    BY <1>7 DEF ExchangeRead, Buying, TypeInv, TypeOK
  <2>3. \A k \in Callbacks : \A y \in Exchanges : Holds(y, k)' => Holds(y, k)
    BY <2>1, <2>2 DEF Holds
  <2>4. QED BY <2>1, <2>3, HoldersKept DEF CodesGo
<1>8. ASSUME Restart PROVE OneHolder'
  <2>1. \A k \in Callbacks : callback[k].pc = "done" => callback'[k].pc = "done"
    BY <1>8, RestartEnds DEF Died
  <2>2. \A x \in Exchanges : exchange'[x].pc # "read"
    BY <1>8, RestartEnds DEF Died
  <2>3. UNCHANGED <<codes, bought>>
    BY <1>8 DEF Restart
  <2>4. \A k \in Callbacks : \A x \in Exchanges : Holds(x, k)' => Holds(x, k)
    BY <2>2, <2>3 DEF Holds
  <2>5. \A k \in Callbacks : callback[k].pc # "done" => codes'[k] = None
    BY <2>3 DEF OneHolder
  <2>6. QED BY <2>1, <2>3, <2>4, <2>5, HoldersKept DEF CodesGo
<1>9. ASSUME NEW k \in Callbacks, ExpireCode(k) PROVE OneHolder'
  <2>1. CodesGo /\ UNCHANGED <<callback, exchange, bought>>
    BY <1>9 DEF ExpireCode, CodesGo, TypeInv, TypeOK, requestVars
  <2>2. QED BY <2>1, HoldersKept DEF Holds
<1>10. CASE \E r \in Signups : SignupCreate(r) \/ \E l \in LoginIds, role \in Roles : SignupCheck(r, l, role)
  BY <1>1, <1>10 DEF SignupCreate, SignupCheck
<1>11. CASE (\E l \in LoginIds : Login(l)) \/ UNCHANGED vars
  BY <1>1, <1>11 DEF Login, vars, requestVars
<1>12. CASE \E f \in Flows : ExpireState(f) \/ \E i \in Identities : Start(f, i)
  BY <1>1, <1>12 DEF ExpireState, Start, requestVars
<1>13. CASE \E c \in Confirms : ConfirmRead(c) \/ \E a \in Accounts, role \in Roles : ConfirmRole(c, a, role)
  BY <1>1, <1>13 DEF ConfirmRead, ConfirmRole
<1>14. CASE \E a \in Accounts : SetNumber(a) \/ \E role \in Roles : DevLogin(a, role)
  BY <1>1, <1>14 DEF SetNumber, DevLogin, requestVars
<1>15. QED
  BY <1>3, <1>4, <1>5, <1>6, <1>7, <1>8, <1>9, <1>10, <1>11, <1>12, <1>13, <1>14 DEF Next, CallbackStep

\* A one-time code buys one token, however many requests bring it.
THEOREM CodeBuysOnce == Spec => []OneTokenPerCode
<1>1. Init => TypeInv /\ OneHolder
  BY InitType, InitHolder
<1>2. (TypeInv /\ OneHolder) /\ [Next]_vars => (TypeInv /\ OneHolder)'
  BY NextType, NextHolder
<1>3. TypeInv /\ OneHolder => OneTokenPerCode
  BY DEF OneHolder, Holds, OneTokenPerCode, TypeInv, TypeOK
<1>4. QED BY <1>1, <1>2, <1>3, PTL DEF Spec

-----------------------------------------------------------------------------
(* A token tells the role the account has *)

\* Every student has a number, and who was given a token or chooses a role has an
\* account.
Tells ==
  /\ \A a \in Accounts : account[a].role = "student" => account[a].number = "set"
  /\ \A t \in tokens : t.by = "auth" =>
       Exists(t.account) /\ (t.role # "null" => account[t.account].role = t.role)
  /\ \A c \in Confirms : confirm[c].pc = "read" => Exists(confirm[c].account)
  /\ \A x \in Exchanges : exchange[x].pc = "read" => Exists(exchange[x].account)

\* There are no tokens at the start.
LEMMA InitTells == Init => Tells
BY DEF Init, Tells, NoAccount, Buying, Asking

\* What a step may do to accounts with a role, to the numbers, and to the tokens.
RolesStay ==
  \A a \in Accounts :
    /\ Exists(a) /\ account[a].role # "null" => account'[a].role = account[a].role
    /\ account'[a].role = "student" => account'[a].number = "set"
TokensGo ==
  \A t \in tokens' :
    t \in tokens \/ t.by = "dev" \/ (account'[t.account].there /\ t.role = account'[t.account].role)
AskersGo ==
  /\ \A c \in Confirms : confirm'[c].pc = "read" =>
       confirm'[c].account \in Accounts /\ (account'[confirm'[c].account].there \/ confirm'[c] = confirm[c])
  /\ \A x \in Exchanges : exchange'[x].pc = "read" =>
       exchange'[x].account \in Accounts /\ (account'[exchange'[x].account].there \/ exchange'[x] = exchange[x])

\* A step that does no more keeps the tokens true.
LEMMA TellsKept ==
  ASSUME TypeInv, Tells, RowsStay, RolesStay, TokensGo, AskersGo
  PROVE  Tells'
<1>1. \A t \in tokens : t.account \in Accounts
  BY DEF TypeInv, TypeOK
<1>2. \A t \in tokens' : t.by = "auth" =>
        account'[t.account].there /\ (t.role # "null" => account'[t.account].role = t.role)
  BY <1>1 DEF Tells, RowsStay, RolesStay, TokensGo
<1>3. \A c \in Confirms : confirm'[c].pc = "read" => account'[confirm'[c].account].there
  BY DEF AskersGo, Tells, RowsStay, Exists
<1>4. \A x \in Exchanges : exchange'[x].pc = "read" => account'[exchange'[x].account].there
  BY DEF AskersGo, Tells, RowsStay, Exists
<1>5. QED BY <1>2, <1>3, <1>4 DEF Tells, RolesStay, Exists

\* Every step keeps the tokens true.
LEMMA NextTells ==
  ASSUME TypeInv, Fresh, Named, Tells, [Next]_vars
  PROVE  Tells'
<1> USE AccountsAssumption
<1>0. RowsStay
  BY NextFresh
<1>1. ASSUME UNCHANGED <<account, tokens, exchange, confirm>> PROVE Tells'
  BY <1>1 DEF Tells, Exists
<1>2. ASSUME NEW a \in Accounts, Exists(a), Issue(a, account[a].role), UNCHANGED account,
             \A x \in Exchanges : exchange'[x].pc = "read" => exchange'[x] = exchange[x],
             \A c \in Confirms : confirm'[c].pc = "read" => confirm'[c] = confirm[c]
      PROVE  Tells'
  BY <1>2 DEF Issue, Token, Tells, Exists
<1>3. ASSUME UNCHANGED <<account, tokens>>,
             \A x \in Exchanges : exchange'[x].pc = "read" => exchange'[x] = exchange[x],
             \A c \in Confirms : confirm'[c].pc = "read" => confirm'[c] = confirm[c]
      PROVE  Tells'
  BY <1>3 DEF Tells, Exists
<1>4. ASSUME NEW r \in Signups, SignupCreate(r) PROVE Tells'
  <2> DEFINE row == [there |-> TRUE, login |-> signup[r].login, identity |-> None,
                     email |-> None, role |-> signup[r].role, number |-> NumberOf(signup[r].role)]
  <2>1. r \in Accounts /\ ~Exists(r) /\ UNCHANGED <<exchange, confirm>>
    BY <1>4 DEF SignupCreate, Fresh, Accounts
  <2>2. \/ UNCHANGED <<account, tokens>>
        \/ account' = [account EXCEPT ![r] = row] /\ (UNCHANGED tokens \/ Issue(r, signup[r].role))
    BY <1>4 DEF SignupCreate
  <2>3. CASE UNCHANGED <<account, tokens>>
    BY <1>1, <2>1, <2>3
  <2>4. CASE account' = [account EXCEPT ![r] = row] /\ (UNCHANGED tokens \/ Issue(r, signup[r].role))
    <3>1. row.there /\ row.role = signup[r].role /\ row.number = NumberOf(signup[r].role)
      OBVIOUS
    <3> HIDE DEF row
    <3>2. account'[r] = row /\ (\A a \in Accounts : a # r => account'[a] = account[a])
      BY <2>1, <2>4 DEF TypeInv, TypeOK
    <3>3. RolesStay
      BY <2>1, <3>1, <3>2 DEF RolesStay, Tells, NumberOf
    <3>4. TokensGo
      BY <2>4, <3>1, <3>2 DEF TokensGo, Issue, Token
    <3>5. AskersGo
      BY <2>1 DEF AskersGo, TypeInv, TypeOK, InFlight
    <3>6. QED BY <1>0, <3>3, <3>4, <3>5, TellsKept
  <2>5. QED BY <2>2, <2>3, <2>4
<1>5. ASSUME NEW k \in Callbacks, CallbackCreate(k) PROVE Tells'
  <2> DEFINE row == [there |-> TRUE, login |-> None, identity |-> Identity(k), email |-> EmailOf[Identity(k)],
                     role |-> "null", number |-> "null"]
  <2>1. k \in Accounts /\ ~Exists(k) /\ UNCHANGED <<tokens, exchange, confirm>>
    BY <1>5 DEF CallbackCreate, Fresh, Accounts
  <2>2. account' = account \/ account' = [account EXCEPT ![k] = row]
    BY <1>5 DEF CallbackCreate
  <2>3. row.role = "null"
    OBVIOUS
  <2> HIDE DEF row
  <2>4. RolesStay
    BY <2>1, <2>2, <2>3 DEF RolesStay, Tells, TypeInv, TypeOK
  <2>5. AskersGo
    BY <2>1 DEF AskersGo, TypeInv, TypeOK, InFlight
  <2>6. QED BY <1>0, <2>1, <2>4, <2>5, TellsKept DEF TokensGo
<1>6. ASSUME NEW c \in Confirms, NEW a \in Accounts, NEW role \in Roles, ConfirmRole(c, a, role) PROVE Tells'
  <2>1. /\ Token(a, "null", "auth") \in tokens /\ UNCHANGED <<tokens, exchange>>
        /\ account' # account => account[a].role = "null"
    BY <1>6 DEF ConfirmRole
  <2>2. Exists(a)
    BY <2>1 DEF Tells, Token
  <2>3. account' = account \/ account' = [account EXCEPT ![a].role = role, ![a].number = NumberOf(role)]
    BY <1>6 DEF ConfirmRole
  <2>4. NumberOf(role) \in {"null", "set"}
    BY DEF NumberOf
  <2>5. RolesStay
    BY <2>1, <2>3, <2>4, RoleSet DEF RolesStay, Tells, NumberOf
  <2>6. AskersGo
    <3>1. \/ confirm' = [confirm EXCEPT ![c] = [pc |-> "read", account |-> a]]
          \/ confirm' = [confirm EXCEPT ![c] = Asking("done")]
      BY <1>6 DEF ConfirmRole
    <3>2. /\ confirm'[c].pc = "read" => confirm'[c].account = a
          /\ \A d \in Confirms : d # c => confirm'[d] = confirm[d]
      BY <3>1 DEF Asking, TypeInv, TypeOK
    <3>3. QED BY <1>0, <2>1, <2>2, <3>2 DEF AskersGo, RowsStay, TypeInv, TypeOK, InFlight
  <2>7. QED BY <1>0, <2>1, <2>5, <2>6, TellsKept DEF TokensGo
<1>7. ASSUME NEW a \in Accounts, SetNumber(a) PROVE Tells'
  <2>1. account' = [account EXCEPT ![a].number = "set"] /\ UNCHANGED <<tokens, exchange, confirm>>
    BY <1>7 DEF SetNumber, requestVars
  <2>2. RolesStay
    BY <2>1, NumberSet DEF RolesStay, Tells
  <2>3. AskersGo
    BY <2>1 DEF AskersGo, TypeInv, TypeOK, InFlight
  <2>4. QED BY <1>0, <2>1, <2>2, <2>3, TellsKept DEF TokensGo
<1>8. ASSUME NEW l \in LoginIds, Login(l) PROVE Tells'
  BY <1>2, <1>8 DEF Login, requestVars
<1>9. ASSUME NEW x \in Exchanges, ExchangeRead(x) PROVE Tells'
  <2>1. /\ exchange[x].pc = "read" /\ UNCHANGED <<account, confirm>>
        /\ \A y \in Exchanges : exchange'[y].pc = "read" => exchange'[y] = exchange[y]
    BY <1>9 DEF ExchangeRead, Buying, TypeInv, TypeOK
  <2>2. exchange[x].account \in Accounts /\ Exists(exchange[x].account)
    BY <2>1 DEF Tells, TypeInv, TypeOK, InFlight
  <2>3. UNCHANGED tokens \/ Issue(exchange[x].account, account[exchange[x].account].role)
    BY <1>9 DEF ExchangeRead
  <2>4. QED BY <1>2, <1>3, <2>1, <2>2, <2>3
<1>10. ASSUME NEW c \in Confirms, ConfirmRead(c) PROVE Tells'
  <2>1. /\ confirm[c].pc = "read" /\ UNCHANGED <<account, exchange>>
        /\ \A d \in Confirms : confirm'[d].pc = "read" => confirm'[d] = confirm[d]
    BY <1>10 DEF ConfirmRead, Asking, TypeInv, TypeOK
  <2>2. confirm[c].account \in Accounts /\ Exists(confirm[c].account)
    BY <2>1 DEF Tells, TypeInv, TypeOK, InFlight
  <2>3. UNCHANGED tokens \/ Issue(confirm[c].account, account[confirm[c].account].role)
    BY <1>10 DEF ConfirmRead
  <2>4. QED BY <1>2, <1>3, <2>1, <2>2, <2>3
<1>11. ASSUME NEW x \in Exchanges, NEW k \in Callbacks, ExchangeCode(x, k) PROVE Tells'
  <2>1. /\ IF codes[k] = None THEN exchange'[x].pc = "done"
                               ELSE exchange'[x] = [pc |-> "read", code |-> k, account |-> codes[k]]
        /\ \A y \in Exchanges : y # x => exchange'[y] = exchange[y]
        /\ UNCHANGED <<account, tokens, confirm>>
    BY <1>11 DEF ExchangeCode, Buying, TypeInv, TypeOK
  <2>2. codes[k] # None => Exists(codes[k])
    BY DEF Named, Names
  <2>3. QED BY <2>1, <2>2 DEF Tells, Exists
<1>12. ASSUME Restart PROVE Tells'
  <2>1. \A c \in Confirms : confirm'[c].pc # "read"
    BY <1>12, RestartEnds DEF Died
  <2>2. \A x \in Exchanges : exchange'[x].pc # "read"
    BY <1>12, RestartEnds DEF Died
  <2>3. QED BY <1>3, <1>12, <2>1, <2>2 DEF Restart
<1>13. ASSUME NEW k \in Callbacks,
              CallbackStep(k) \/ ExpireCode(k) \/ \E f \in Flows : CallbackState(k, f) PROVE Tells'
  <2>1. CASE CallbackStep(k)
    BY <1>1, <1>5, <2>1 DEF CallbackStep, CallbackDel, CallbackProfile, CallbackFind, CallbackEmail, CallbackCode, CallbackFails
  <2>2. CASE ExpireCode(k) \/ \E f \in Flows : CallbackState(k, f)
    BY <1>1, <2>2 DEF ExpireCode, CallbackState, requestVars
  <2>3. QED BY <1>13, <2>1, <2>2
<1>14. CASE \E r \in Signups, l \in LoginIds, role \in Roles : SignupCheck(r, l, role)
  BY <1>1, <1>14 DEF SignupCheck
<1>15. CASE (\E f \in Flows : ExpireState(f) \/ \E i \in Identities : Start(f, i)) \/ UNCHANGED vars
  BY <1>1, <1>15 DEF ExpireState, Start, vars, requestVars
<1>16. ASSUME NEW a \in Accounts, NEW role \in Roles, DevLogin(a, role) PROVE Tells'
  <2>1. tokens' = tokens \cup {Token(a, role, "dev")} /\ UNCHANGED <<account, exchange, confirm>>
    BY <1>16 DEF DevLogin, requestVars
  <2>2. QED BY <2>1 DEF Tells, Exists, Token
<1>17. QED
  BY <1>16, <1>4, <1>6, <1>7, <1>8, <1>9, <1>10, <1>11, <1>12, <1>13, <1>14, <1>15 DEF Next

\* A token that somebody logged in for tells the role the account has for good, and
\* students have a number, however many requests choose a role.
THEOREM TokensTrue == Spec => []TokensTellRole
<1>1. Init => TypeInv /\ Fresh /\ Named /\ Tells
  BY InitType, InitFresh, InitNamed, InitTells
<1>2. (TypeInv /\ Fresh /\ Named /\ Tells) /\ [Next]_vars => (TypeInv /\ Fresh /\ Named /\ Tells)'
  BY NextType, NextFresh, NextNamed, NextTells
<1>3. TypeInv /\ Tells => TokensTellRole
  BY DEF Tells, TokensTellRole, TypeInv, TypeOK
<1>4. QED BY <1>1, <1>2, <1>3, PTL DEF Spec
=============================================================================
