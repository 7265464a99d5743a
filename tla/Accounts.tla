------------------------------ MODULE Accounts ------------------------------
(***************************************************************************)
(* How accounts come to be and who gets a token for them: signup and login *)
(* with a login id, login through an OAuth provider (start, callback,      *)
(* exchange of the one-time code), the choice of the role, the student     *)
(* number, and the login that asks for nothing.  The database, with its    *)
(* unique keys, and the two kinds of one-time values in Redis outlive the  *)
(* process; handlers interleave between their commands.                    *)
(*                                                                         *)
(* An account is named by the request that creates it, a one-time code by  *)
(* its callback, a state by its flow.  A token is the account and the role *)
(* it tells, and who asked for it; it may be used at any time.             *)
(***************************************************************************)
EXTENDS Naturals, FiniteSets

CONSTANTS
  Signups,     \* POST /auth/signup
  Flows,       \* GET /auth/google or /auth/kakao
  Callbacks,   \* GET /auth/<provider>/callback; a redirect may be followed twice
  Exchanges,   \* POST /auth/exchange
  Confirms,    \* PATCH /auth/role
  LoginIds,    \* what signups choose
  Identities,  \* who the providers vouch for
  EmailOf,     \* the email address the provider tells of an identity, or None
  None,
  MaxFaults,   \* bound: failures and restarts
  MaxDevs,     \* bound: different tokens of POST /auth/dev-login
  Faults       \* "io", "lost", "restart", "expiry"

Accounts == Signups \cup Callbacks
Emails   == {EmailOf[i] : i \in Identities}

ASSUME AccountsAssumption ==
  /\ Signups \cap Callbacks = {}
  /\ None \notin Accounts \cup LoginIds \cup Identities \cup Flows
  /\ MaxFaults \in Nat /\ MaxDevs \in Nat
  /\ Faults \subseteq {"io", "lost", "restart", "expiry"}

VARIABLES
  account,   \* User rows
  states,    \* oauth:state:<flow> in Redis
  codes,     \* oauth:code:<callback> in Redis: the account it stands for
  tokens,    \* tokens that were issued
  signup,    \* signup requests
  consent,   \* flows: the identity that consented at the provider
  callback,  \* callback requests
  exchange,  \* exchange requests
  confirm,   \* role requests
  bought,    \* history: the exchanges that got a token, by code
  faults     \* bound on failures

requestVars == <<signup, consent, callback, exchange, confirm>>
vars == <<account, states, codes, tokens, requestVars, bought, faults>>

NoAccount == [there |-> FALSE, login |-> None, identity |-> None, email |-> None,
              role |-> "null", number |-> "null"]
Exists(a) == account[a].there

Waiting == [pc |-> "new", flow |-> None, account |-> None]

\* Requests that know nothing, because they are "new" or "done".
Signing(pc) == [pc |-> pc, login |-> None, role |-> "null"]
Buying(pc)  == [pc |-> pc, code |-> None, account |-> None]
Asking(pc)  == [pc |-> pc, account |-> None]

Init ==
  /\ account = [a \in Accounts |-> NoAccount]
  /\ states = {} /\ codes = [k \in Callbacks |-> None] /\ tokens = {}
  /\ signup = [r \in Signups |-> Signing("new")]
  /\ consent = [f \in Flows |-> None]
  /\ callback = [k \in Callbacks |-> Waiting]
  /\ exchange = [x \in Exchanges |-> Buying("new")]
  /\ confirm = [c \in Confirms |-> Asking("new")]
  /\ bought = [k \in Callbacks |-> {}] /\ faults = 0

Roles == {"teacher", "student"}
NumberOf(role) == IF role = "student" THEN "set" ELSE "null"
MayFail(kind) == kind \in Faults /\ faults < MaxFaults /\ faults' = faults + 1

\* signToken for somebody who has shown who they are ("auth"), or not ("dev").
Token(a, role, by) == [account |-> a, role |-> role, by |-> by]
Issue(a, role) == tokens' = tokens \cup {Token(a, role, "auth")}

-----------------------------------------------------------------------------
(* Accounts with a login id *)

LoginTaken(l) == \E a \in Accounts : Exists(a) /\ account[a].login = l

\* Look the login id up; then bcrypt takes its time.
SignupCheck(r, l, role) ==
  /\ signup[r].pc = "new"
  /\ signup' = [signup EXCEPT ![r] = IF LoginTaken(l) THEN Signing("done")
                                      ELSE [pc |-> "create", login |-> l, role |-> role]]
  /\ UNCHANGED <<account, states, codes, tokens, consent, callback, exchange, confirm, bought, faults>>

\* The unique key on loginId has the last word.  Only students have a number.
SignupCreate(r) ==
  LET s == signup[r] IN
  /\ s.pc = "create"
  /\ signup' = [signup EXCEPT ![r] = Signing("done")]
  /\ IF LoginTaken(s.login)
       THEN UNCHANGED <<account, tokens, faults>>
       ELSE \/ /\ account' = [account EXCEPT ![r] = [there |-> TRUE, login |-> s.login, identity |-> None,
                                email |-> None, role |-> s.role, number |-> NumberOf(s.role)]]
               /\ \/ Issue(r, s.role) /\ UNCHANGED faults
                  \/ MayFail("lost") /\ UNCHANGED tokens
            \/ MayFail("io") /\ UNCHANGED <<account, tokens>>
  /\ UNCHANGED <<states, codes, consent, callback, exchange, confirm, bought>>

\* The row is read before the password is compared; an account without a
\* password, that is without a login id, is refused.
Login(l) ==
  \E a \in Accounts :
    /\ Exists(a) /\ account[a].login = l
    /\ Issue(a, account[a].role)
    /\ UNCHANGED <<account, states, codes, requestVars, bought, faults>>

-----------------------------------------------------------------------------
(* OAuth: start and callback *)

\* startOAuth stores the state and redirects to the provider, where the user
\* consents as one of the provider's identities.
Start(f, i) ==
  /\ consent[f] = None
  /\ consent' = [consent EXCEPT ![f] = i]
  /\ states' = states \cup {f}
  /\ UNCHANGED <<account, codes, tokens, signup, callback, exchange, confirm, bought, faults>>

Advance(k, pc) == callback' = [callback EXCEPT ![k].pc = pc]
Found(k, a) ==
  callback' = [callback EXCEPT ![k] = [pc |-> "code", flow |-> callback[k].flow, account |-> a]]
Identity(k) == consent[callback[k].flow]

\* GET of the state; its DEL is a command of its own.  (With the state of another
\* provider's flow the callback is refused as well.)
CallbackState(k, f) ==
  /\ callback[k].pc = "new" /\ consent[f] # None
  /\ callback' = [callback EXCEPT ![k] = [pc |-> IF f \in states THEN "del" ELSE "done",
                                          flow |-> f, account |-> None]]
  /\ UNCHANGED <<account, states, codes, tokens, signup, consent, exchange, confirm, bought, faults>>

CallbackDel(k) ==
  /\ callback[k].pc = "del"
  /\ states' = states \ {callback[k].flow}
  /\ Advance(k, "profile")
  /\ UNCHANGED <<account, codes, tokens, signup, consent, exchange, confirm, bought, faults>>

\* exchangeCodeForToken and fetchProfile.  Whether the provider takes its code a
\* second time is its own business: here it may, or it refuses.
CallbackProfile(k) ==
  /\ callback[k].pc = "profile"
  /\ Advance(k, "find") \/ Advance(k, "done")
  /\ UNCHANGED <<account, states, codes, tokens, signup, consent, exchange, confirm, bought, faults>>

OfIdentity(i) == {a \in Accounts : Exists(a) /\ account[a].identity = i}
OfEmail(e)    == {a \in Accounts : Exists(a) /\ e # None /\ account[a].email = e}

\* The account of the identity, if there is one.
CallbackFind(k) ==
  /\ callback[k].pc = "find"
  /\ \/ \E a \in OfIdentity(Identity(k)) :
          Found(k, a)
     \/ OfIdentity(Identity(k)) = {} /\ Advance(k, "email")
  /\ UNCHANGED <<account, states, codes, tokens, signup, consent, exchange, confirm, bought, faults>>

\* Mutant: the account that has the email address is taken for the user's.
CallbackEmailLinks(k) ==
  /\ callback[k].pc = "email"
  /\ \/ \E a \in OfEmail(EmailOf[Identity(k)]) :
          Found(k, a)
     \/ OfEmail(EmailOf[Identity(k)]) = {} /\ Advance(k, "create")
  /\ UNCHANGED <<account, states, codes, tokens, signup, consent, exchange, confirm, bought, faults>>

\* An email address that another account has is a reason to refuse, not to link.
CallbackEmail(k) ==
  /\ callback[k].pc = "email"
  /\ Advance(k, IF OfEmail(EmailOf[Identity(k)]) = {} THEN "create" ELSE "done")
  /\ UNCHANGED <<account, states, codes, tokens, signup, consent, exchange, confirm, bought, faults>>

\* The unique keys on (provider, providerId) and on email refuse the second of two
\* first logins.  If the answer is lost, the account is there for the next login.
CallbackCreate(k) ==
  LET i == Identity(k) IN
  /\ callback[k].pc = "create"
  /\ IF OfIdentity(i) \cup OfEmail(EmailOf[i]) # {}
       THEN Advance(k, "done") /\ UNCHANGED <<account, faults>>
       ELSE \/ /\ account' = [account EXCEPT ![k] = [there |-> TRUE, login |-> None, identity |-> i,
                                email |-> EmailOf[i], role |-> "null", number |-> "null"]]
               /\ \/ /\ Found(k, k)
                     /\ UNCHANGED faults
                  \/ MayFail("lost") /\ Advance(k, "done")
            \/ MayFail("io") /\ Advance(k, "done") /\ UNCHANGED account
  /\ UNCHANGED <<states, codes, tokens, signup, consent, exchange, confirm, bought>>

\* Mutant: the code stands for the provider's id of the user.
CallbackCodeOfIdentity(k) ==
  /\ callback[k].pc = "code"
  /\ codes' = [codes EXCEPT ![k] = Identity(k)]
  /\ Advance(k, "done")
  /\ UNCHANGED <<account, states, tokens, signup, consent, exchange, confirm, bought, faults>>

\* The one-time code, in the redirect to the app.
CallbackCode(k) ==
  /\ callback[k].pc = "code"
  /\ codes' = [codes EXCEPT ![k] = callback[k].account]
  /\ callback' = [callback EXCEPT ![k] = [pc |-> "done", flow |-> callback[k].flow, account |-> None]]
  /\ UNCHANGED <<account, states, tokens, signup, consent, exchange, confirm, bought, faults>>

\* Any other command of the callback fails: the user is sent back with an error.
CallbackFails(k) ==
  /\ callback[k].pc \notin {"new", "create", "done"} /\ MayFail("io")
  /\ Advance(k, "done")
  /\ UNCHANGED <<account, states, codes, tokens, signup, consent, exchange, confirm, bought>>

-----------------------------------------------------------------------------
(* The one-time code and the role *)

\* Mutant: GET, and the code stays until its TTL.
ExchangeGet(x, k) ==
  /\ exchange[x].pc = "new" /\ callback[k].pc = "done"
  /\ exchange' = [exchange EXCEPT ![x] = IF codes[k] = None THEN Buying("done")
                                          ELSE [pc |-> "read", code |-> k, account |-> codes[k]]]
  /\ UNCHANGED <<account, states, codes, tokens, signup, consent, callback, confirm, bought, faults>>

\* GETDEL: the code is used up, whatever happens next.
ExchangeCode(x, k) ==
  /\ exchange[x].pc = "new" /\ callback[k].pc = "done"
  /\ exchange' = [exchange EXCEPT ![x] = IF codes[k] = None THEN Buying("done")
                                          ELSE [pc |-> "read", code |-> k, account |-> codes[k]]]
  /\ codes' = [codes EXCEPT ![k] = None]
  /\ UNCHANGED <<account, states, tokens, signup, consent, callback, confirm, bought, faults>>

\* An account without a role gets a token that is good for PATCH /auth/role only.
ExchangeRead(x) ==
  LET e == exchange[x] IN
  /\ e.pc = "read"
  /\ exchange' = [exchange EXCEPT ![x] = Buying("done")]
  /\ \/ /\ Issue(e.account, account[e.account].role)
        /\ bought' = [bought EXCEPT ![e.code] = @ \cup {x}]
        /\ UNCHANGED faults
     \/ MayFail("io") /\ UNCHANGED <<tokens, bought>>
  /\ UNCHANGED <<account, states, codes, signup, consent, callback, confirm>>

\* Mutant: the role is set whatever it is by now.
ConfirmAnyway(c, a, role) ==
  /\ confirm[c].pc = "new" /\ Token(a, "null", "auth") \in tokens
  /\ account' = [account EXCEPT ![a].role = role, ![a].number = NumberOf(role)]
  /\ confirm' = [confirm EXCEPT ![c] = [pc |-> "read", account |-> a]]
  /\ UNCHANGED <<states, codes, tokens, signup, consent, callback, exchange, bought, faults>>

\* updateMany where role is null; 409 if that was nobody.
ConfirmRole(c, a, role) ==
  /\ confirm[c].pc = "new" /\ Token(a, "null", "auth") \in tokens
  /\ IF account[a].role = "null"
       THEN \/ /\ account' = [account EXCEPT ![a].role = role, ![a].number = NumberOf(role)]
               /\ \/ /\ confirm' = [confirm EXCEPT ![c] = [pc |-> "read", account |-> a]]
                     /\ UNCHANGED faults
                  \/ /\ confirm' = [confirm EXCEPT ![c] = Asking("done")]
                     /\ MayFail("lost")
            \/ /\ confirm' = [confirm EXCEPT ![c] = Asking("done")]
               /\ MayFail("io") /\ UNCHANGED account
       ELSE /\ confirm' = [confirm EXCEPT ![c] = Asking("done")]
            /\ UNCHANGED <<account, faults>>
  /\ UNCHANGED <<states, codes, tokens, signup, consent, callback, exchange, bought>>

\* The row is read again for the token.
ConfirmRead(c) ==
  /\ confirm[c].pc = "read"
  /\ confirm' = [confirm EXCEPT ![c] = Asking("done")]
  /\ \/ Issue(confirm[c].account, account[confirm[c].account].role) /\ UNCHANGED faults
     \/ MayFail("io") /\ UNCHANGED tokens
  /\ UNCHANGED <<account, states, codes, signup, consent, callback, exchange, bought>>

\* PATCH /auth/profile with any token that tells "student", for an account that is there.
SetNumber(a) ==
  /\ Exists(a) /\ \E by \in {"auth", "dev"} : Token(a, "student", by) \in tokens
  /\ account' = [account EXCEPT ![a].number = "set"]
  /\ UNCHANGED <<states, codes, tokens, requestVars, bought, faults>>

\* POST /auth/dev-login, which is there in every build: it signs whatever user id
\* and role it is told, without a look at the database.
DevLogin(a, role) ==
  /\ Cardinality({t \in tokens \cup {Token(a, role, "dev")} : t.by = "dev"}) <= MaxDevs
  /\ tokens' = tokens \cup {Token(a, role, "dev")}
  /\ UNCHANGED <<account, states, codes, requestVars, bought, faults>>

-----------------------------------------------------------------------------
(* The environment *)

Died(pc) == IF pc = "new" THEN "new" ELSE "done"

Restart ==
  /\ MayFail("restart")
  /\ signup' = [r \in Signups |-> Signing(Died(signup[r].pc))]
  /\ callback' = [k \in Callbacks |-> [pc |-> Died(callback[k].pc), flow |-> callback[k].flow, account |-> None]]
  /\ exchange' = [x \in Exchanges |-> Buying(Died(exchange[x].pc))]
  /\ confirm' = [c \in Confirms |-> Asking(Died(confirm[c].pc))]
  /\ UNCHANGED <<account, states, codes, tokens, consent, bought>>

\* States live five minutes, codes ninety seconds.
ExpireState(f) ==
  /\ "expiry" \in Faults /\ f \in states
  /\ states' = states \ {f}
  /\ UNCHANGED <<account, codes, tokens, requestVars, bought, faults>>

ExpireCode(k) ==
  /\ "expiry" \in Faults /\ codes[k] # None
  /\ codes' = [codes EXCEPT ![k] = None]
  /\ UNCHANGED <<account, states, tokens, requestVars, bought, faults>>

CallbackStep(k) ==
  \/ CallbackDel(k) \/ CallbackProfile(k) \/ CallbackFind(k) \/ CallbackEmail(k)
  \/ CallbackCreate(k) \/ CallbackCode(k) \/ CallbackFails(k)

Next ==
  \/ \E r \in Signups : SignupCreate(r) \/ \E l \in LoginIds, role \in Roles : SignupCheck(r, l, role)
  \/ \E l \in LoginIds : Login(l)
  \/ \E f \in Flows : ExpireState(f) \/ \E i \in Identities : Start(f, i)
  \/ \E k \in Callbacks : CallbackStep(k) \/ ExpireCode(k) \/ \E f \in Flows : CallbackState(k, f)
  \/ \E x \in Exchanges : ExchangeRead(x) \/ \E k \in Callbacks : ExchangeCode(x, k)
  \/ \E c \in Confirms : ConfirmRead(c) \/ \E a \in Accounts, role \in Roles : ConfirmRole(c, a, role)
  \/ \E a \in Accounts : SetNumber(a) \/ \E role \in Roles : DevLogin(a, role)
  \/ Restart

Spec == Init /\ [][Next]_vars

-----------------------------------------------------------------------------
(* Properties *)

RoleOrNull == Roles \cup {"null"}

TypeOK ==
  /\ account \in [Accounts -> [there : BOOLEAN, login : LoginIds \cup {None},
                               identity : Identities \cup {None}, email : Emails \cup {None},
                               role : RoleOrNull, number : {"null", "set"}]]
  /\ states \subseteq Flows /\ codes \in [Callbacks -> Accounts \cup {None}]
  /\ tokens \subseteq [account : Accounts, role : RoleOrNull, by : {"auth", "dev"}]
  /\ signup \in [Signups -> [pc : {"new", "create", "done"}, login : LoginIds \cup {None},
                             role : RoleOrNull]]
  /\ consent \in [Flows -> Identities \cup {None}]
  /\ callback \in [Callbacks -> [pc : {"new", "del", "profile", "find", "email", "create", "code", "done"},
                                 flow : Flows \cup {None}, account : Accounts \cup {None}]]
  /\ exchange \in [Exchanges -> [pc : {"new", "read", "done"}, code : Callbacks \cup {None},
                                 account : Accounts \cup {None}]]
  /\ confirm \in [Confirms -> [pc : {"new", "read", "done"}, account : Accounts \cup {None}]]
  /\ bought \in [Callbacks -> SUBSET Exchanges] /\ faults \in Nat

\* A one-time code buys one token, however many requests bring it at the same
\* time and whichever of them fails ("so that code is consumed exactly once").
OneTokenPerCode == \A k \in Callbacks : \A x, y \in bought[k] : x = y

\* The one-time code that a login through a provider ends with, and the exchange
\* that has taken it, stand for the account of the identity that consented: never
\* for the account of somebody else with the same email address, also when first
\* logins race and replies of the database are lost.
CodeNamesIdentity ==
  /\ \A k \in Callbacks : codes[k] # None => account[codes[k]].identity = Identity(k)
  /\ \A x \in Exchanges : exchange[x].pc = "read" => account[exchange[x].account].identity = Identity(exchange[x].code)

\* A token that somebody logged in for tells the role the account has for good: of
\* several requests that choose a role one is taken, no such token tells the other,
\* and a student who holds one has a number.  (dev-login signs any role for any
\* account, and with its token a teacher gets a number too.  Students older than the
\* number are not among these accounts.)
TokensTellRole ==
  \A t \in tokens :
    t.by = "auth" /\ t.role # "null" =>
      /\ account[t.account].role = t.role
      /\ t.role = "student" => account[t.account].number = "set"
=============================================================================
