---------------------------- MODULE ServicesProofs ----------------------------
(***************************************************************************)
(* Invariants of accounts-service, of the event catalogue and of the       *)
(* accounts client, each shown for the steps of its component and for any  *)
(* other step, which leaves the component's variables alone.               *)
(***************************************************************************)
EXTENDS Accounts, EventCatalog, AccountsClient, TLAPS

\* The history of failures only grows.
DisturbedGrows == disturbed \subseteq disturbed'
-----------------------------------------------------------------------------
(***************************************************************************)
(* accounts-service                                                        *)
(***************************************************************************)
AccountsMove(r) ==
    \/ Signup(r) \/ Login(r) \/ AccountsStep(r)
    \/ \E token \in User \cup {Nobody} : Me(r, token)

AccountsRest == UNCHANGED accountsVars /\ DisturbedGrows

HasSignupBody(r) == accountsBody[r] \in [email : Email, password : Password]

HasToken(r) == accountsBody[r] \in [token : User \cup {Nobody}]

Elsewhere(r) ==    \* somebody else holds the address
    \E u \in DOMAIN users : u # r /\ users[u] = accountsBody[r].email

(***************************************************************************)
(* What the state of a request says of it.  A signup is stored only when   *)
(* it is over, with its address, and its status tells who holds the        *)
(* address.  The user of a positive answer is stored.                      *)
(***************************************************************************)
AccountsRequest(r) ==
    /\ accountsAt[r] \in {"signup", "save", "login"} => HasSignupBody(r)
    /\ accountsAt[r] = "me" => HasToken(r)
    /\ accountsReply[r].status = 200 => accountsReply[r].user \in DOMAIN users
    /\ r \in DOMAIN users =>
          /\ accountsAt[r] = "done" /\ HasSignupBody(r)
          /\ users[r] = accountsBody[r].email
          /\ accountsReply[r].status = 201 \/ (accountsReply[r].status = 500 /\ r \in disturbed)
    /\ accountsAt[r] = "done" /\ HasSignupBody(r) =>
          /\ accountsReply[r].status = 201 => r \in DOMAIN users
          /\ accountsReply[r].status = 409 => Elsewhere(r)
          /\ accountsReply[r].status = 500 =>
                r \in disturbed \/ Elsewhere(r) \/ accountsBody[r].email = LongEmail
    /\ accountsAt[r] = "done" /\ HasToken(r) =>
          \/ accountsReply[r].status \in {200, 401, 404}
          \/ accountsReply[r].status = 500 /\ r \in disturbed

AccountsInv ==
    /\ AccountsTypeOK
    /\ OneUserPerEmail
    /\ \A r \in Request : AccountsRequest(r)

LEMMA BodiesDiffer ==
    ASSUME NEW body, body \in [email : Email, password : Password]
    PROVE  body \notin [token : User \cup {Nobody}]
<1>1. DOMAIN body = {"email", "password"}
  OBVIOUS
<1>2. body \in [token : User \cup {Nobody}] => DOMAIN body = {"token"}
  OBVIOUS
<1> QED
  BY <1>1, <1>2

\* The statuses of the errors that are thrown.
LEMMA AccountsStatuses ==
    /\ AccountsStatus("Zod") = 400 /\ AccountsStatus("Validation") = 400
    /\ AccountsStatus("Conflict") = 409 /\ AccountsStatus("Unauthorized") = 401
    /\ AccountsStatus("NotFound") = 404 /\ AccountsStatus("JsonWebToken") = 401
    /\ AccountsStatus("Other") = 500
BY DEF AccountsStatus, OrdersStatus

LEMMA AccountsInitially ==
    ASSUME AccountsInit
    PROVE  AccountsInv
<1> USE RegisteredAssumption DEF AccountsInit
<1>1. AccountsTypeOK
  BY DEF AccountsTypeOK, User, NoBody, NoAnswer
<1>2. OneUserPerEmail
  BY DEF OneUserPerEmail
<1>3. ASSUME NEW r \in Request PROVE AccountsRequest(r)
  BY DEF AccountsRequest, NoAnswer
<1> QED
  BY <1>1, <1>2, <1>3 DEF AccountsInv

\* What is true of a request stays true when others move and the table grows.
LEMMA AccountsOthers ==
    ASSUME NEW s \in Request, AccountsRequest(s), DisturbedGrows,
           accountsAt'[s] = accountsAt[s],
           accountsBody'[s] = accountsBody[s],
           accountsReply'[s] = accountsReply[s],
           s \in DOMAIN users' => s \in DOMAIN users,
           \A u \in DOMAIN users : u \in DOMAIN users' /\ users'[u] = users[u]
    PROVE  AccountsRequest(s)'
<1>1. (HasSignupBody(s)' <=> HasSignupBody(s)) /\ (HasToken(s)' <=> HasToken(s))
  BY DEF HasSignupBody, HasToken
<1>2. Elsewhere(s) => Elsewhere(s)'
  BY DEF Elsewhere
<1>3. s \in disturbed => s \in disturbed'
  BY DEF DisturbedGrows
<1> QED
  BY <1>1, <1>2, <1>3 DEF AccountsRequest

\* Steps that leave the table alone, and touch no request that is over.
LEMMA AccountsReads ==
    ASSUME AccountsInv, NEW r \in Request, UNCHANGED users, DisturbedGrows,
           accountsAt[r] # "done",
           AccountsTypeOK',
           \A s \in Request \ {r} :
              /\ accountsAt'[s] = accountsAt[s]
              /\ accountsBody'[s] = accountsBody[s]
              /\ accountsReply'[s] = accountsReply[s],
           r \notin DOMAIN users => AccountsRequest(r)'
    PROVE  AccountsInv'
<1>1. OneUserPerEmail'
  BY DEF AccountsInv, OneUserPerEmail
<1>2. r \notin DOMAIN users
  BY DEF AccountsInv, AccountsRequest
<1>3. ASSUME NEW s \in Request PROVE AccountsRequest(s)'
  BY <1>2, AccountsOthers DEF AccountsInv
<1> QED
  BY <1>1, <1>3 DEF AccountsInv

LEMMA AskAccountsInv ==
    ASSUME AccountsInv, NEW r \in Request, NEW await \in {"signup", "login", "me"},
           NEW body,
           body \in IF await = "me" THEN [token : User \cup {Nobody}]
                                    ELSE [email : Email, password : Password],
           Ask(r, body, await)
    PROVE  AccountsInv'
<1>1. AccountsTypeOK
  BY DEF AccountsInv
<1>2. /\ accountsAt[r] = "idle"
      /\ UNCHANGED <<users, disturbed>>
      /\ accountsBody' = [accountsBody EXCEPT ![r] = body]
  BY DEF Ask
<1>3. \/ /\ accountsAt' = [accountsAt EXCEPT ![r] = "done"]
         /\ accountsReply' = [accountsReply EXCEPT ![r] = [status |-> 400, user |-> Nobody]]
         /\ await = "signup"
      \/ /\ accountsAt' = [accountsAt EXCEPT ![r] = await]
         /\ UNCHANGED accountsReply
  BY AccountsStatuses DEF Ask, AccountsThrow, AccountsAnswer, AccountsGo
<1>4. AccountsTypeOK'
  <2>1. accountsBody' \in [Request -> [email : Email, password : Password]
                                        \cup [token : User \cup {Nobody}]]
    BY <1>1, <1>2 DEF AccountsTypeOK
  <2>2. /\ accountsAt' \in [Request -> {"idle", "signup", "save", "login", "me", "done"}]
        /\ accountsReply' \in [Request -> [status : {0, 200, 201, 400, 401, 404, 409, 500},
                                           user : User \cup {Nobody}]]
    BY <1>1, <1>3 DEF AccountsTypeOK
  <2> QED
    BY <1>1, <1>2, <2>1, <2>2 DEF AccountsTypeOK
<1>5. ASSUME r \notin DOMAIN users PROVE AccountsRequest(r)'
  <2>1. accountsBody'[r] = body
    BY <1>1, <1>2 DEF AccountsTypeOK
  <2>2. \/ accountsAt'[r] = "done" /\ accountsReply'[r].status = 400 /\ await = "signup"
        \/ accountsAt'[r] = await /\ accountsReply'[r] = accountsReply[r]
    BY <1>1, <1>3 DEF AccountsTypeOK
  <2>3. IF await = "me" THEN HasToken(r)' ELSE HasSignupBody(r)' /\ ~HasToken(r)'
    BY <2>1, BodiesDiffer DEF HasSignupBody, HasToken
  <2>4. accountsReply'[r].status = 200 => accountsReply'[r].user \in DOMAIN users'
    BY <1>2, <2>2 DEF AccountsInv, AccountsRequest
  <2> QED
    BY <1>2, <1>5, <2>2, <2>3, <2>4 DEF AccountsRequest
<1>6. \A s \in Request \ {r} :
         /\ accountsAt'[s] = accountsAt[s]
         /\ accountsBody'[s] = accountsBody[s]
         /\ accountsReply'[s] = accountsReply[s]
  BY <1>1, <1>2, <1>3 DEF AccountsTypeOK
<1> QED
  BY <1>2, <1>4, <1>5, <1>6, AccountsReads DEF DisturbedGrows

\* An answer, or the wait for another statement, keeps the types.
LEMMA AccountsAnswers ==
    ASSUME AccountsTypeOK, NEW r \in Request, UNCHANGED <<users, accountsBody>>,
           \/ AccountsGo(r, "save")
           \/ \E status \in {0, 200, 201, 400, 401, 404, 409, 500}, user \in User \cup {Nobody} :
                 AccountsAnswer(r, status, user)
    PROVE  /\ AccountsTypeOK'
           /\ \A s \in Request \ {r} :
                 /\ accountsAt'[s] = accountsAt[s]
                 /\ accountsBody'[s] = accountsBody[s]
                 /\ accountsReply'[s] = accountsReply[s]
<1>1. CASE AccountsGo(r, "save")
  BY <1>1 DEF AccountsTypeOK, AccountsGo
<1>2. CASE \E status \in {0, 200, 201, 400, 401, 404, 409, 500}, user \in User \cup {Nobody} :
              AccountsAnswer(r, status, user)
  <2>1. PICK status \in {0, 200, 201, 400, 401, 404, 409, 500}, user \in User \cup {Nobody} :
           AccountsAnswer(r, status, user)
    BY <1>2
  <2> QED
    BY <2>1 DEF AccountsTypeOK, AccountsAnswer
<1> QED
  BY <1>1, <1>2

LEMMA SignupLooksUp ==
    ASSUME AccountsInv, NEW r \in Request, SignupFindByEmail(r)
    PROVE  AccountsInv'
<1>1. AccountsTypeOK /\ AccountsRequest(r) /\ UNCHANGED <<users, accountsBody>>
      /\ accountsAt[r] = "signup" /\ DisturbedGrows
  BY DEF AccountsInv, SignupFindByEmail, DisturbedGrows, AccountsFails, Fault
<1>2. \/ UsersWith(accountsBody[r].email) # {} /\ AccountsAnswer(r, 409, Nobody)
      \/ AccountsAnswer(r, 400, Nobody)
      \/ AccountsGo(r, "save")
      \/ AccountsAnswer(r, 500, Nobody) /\ r \in disturbed'
  BY AccountsStatuses DEF SignupFindByEmail, AccountsThrow, AccountsFails, Fault
<1>3. /\ AccountsTypeOK'
      /\ \A s \in Request \ {r} :
            /\ accountsAt'[s] = accountsAt[s]
            /\ accountsBody'[s] = accountsBody[s]
            /\ accountsReply'[s] = accountsReply[s]
  BY <1>1, <1>2, AccountsAnswers
<1>4. ASSUME r \notin DOMAIN users PROVE AccountsRequest(r)'
  <2>1. HasSignupBody(r) /\ HasSignupBody(r)' /\ ~HasToken(r)'
    BY <1>1, BodiesDiffer DEF AccountsRequest, HasSignupBody, HasToken
  <2>2. UsersWith(accountsBody[r].email) # {} => Elsewhere(r)'
    BY <1>1, <1>4 DEF UsersWith, Elsewhere
  <2>3. CASE AccountsGo(r, "save")
    BY <1>1, <1>4, <2>1, <2>3 DEF AccountsRequest, AccountsGo, AccountsTypeOK
  <2>4. CASE ~AccountsGo(r, "save")
    <3>1. /\ accountsAt'[r] = "done"
          /\ \/ accountsReply'[r].status = 409 /\ Elsewhere(r)'
             \/ accountsReply'[r].status = 400
             \/ accountsReply'[r].status = 500 /\ r \in disturbed'
      BY <1>1, <1>2, <2>2, <2>4 DEF AccountsAnswer, AccountsTypeOK
    <3> QED
      BY <1>1, <1>4, <2>1, <3>1 DEF AccountsRequest
  <2> QED
    BY <2>3, <2>4
<1> QED
  BY <1>1, <1>3, <1>4, AccountsReads

\* A login, and GET /me: they store nothing, and are answered at once.
LEMMA AccountsQueries ==
    ASSUME AccountsInv, NEW r \in Request, LoginFindByEmail(r) \/ GetMe(r)
    PROVE  AccountsInv'
<1>1. AccountsTypeOK /\ UNCHANGED <<users, accountsBody>> /\ DisturbedGrows
      /\ accountsAt[r] \in {"login", "me"}
  BY DEF AccountsInv, LoginFindByEmail, GetMe, DisturbedGrows, AccountsFails, Fault
<1>2. \E status \in {200, 401, 404, 500}, user \in User \cup {Nobody} :
         /\ AccountsAnswer(r, status, user)
         /\ status = 500 => r \in disturbed'
         /\ status = 200 => user \in DOMAIN users
  <2>1. CASE LoginFindByEmail(r)
    <3>1. \A email : UsersWith(email) \subseteq User \cap DOMAIN users
      BY <1>1 DEF UsersWith, AccountsTypeOK
    <3> QED
      BY <2>1, <3>1, AccountsStatuses DEF LoginFindByEmail, AccountsThrow, AccountsFails, Fault
  <2>2. CASE GetMe(r)
    BY <1>1, <2>2, AccountsStatuses
    DEF GetMe, IsStored, AccountsThrow, AccountsFails, Fault, AccountsTypeOK
  <2> QED
    BY <2>1, <2>2
<1>3. /\ AccountsTypeOK'
      /\ \A s \in Request \ {r} :
            /\ accountsAt'[s] = accountsAt[s]
            /\ accountsBody'[s] = accountsBody[s]
            /\ accountsReply'[s] = accountsReply[s]
  BY <1>1, <1>2, AccountsAnswers
<1>4. accountsAt'[r] = "done" /\ accountsReply'[r].status \in {200, 401, 404, 500}
      /\ (accountsReply'[r].status = 500 => r \in disturbed')
      /\ (accountsReply'[r].status = 200 => accountsReply'[r].user \in DOMAIN users')
  BY <1>1, <1>2 DEF AccountsAnswer, AccountsTypeOK
<1>5. ASSUME r \notin DOMAIN users PROVE AccountsRequest(r)'
  BY <1>1, <1>4, <1>5 DEF AccountsRequest
<1> QED
  BY <1>1, <1>3, <1>5, AccountsReads

LEMMA SaveUserInv ==
    ASSUME AccountsInv, NEW r \in Request, SaveUser(r)
    PROVE  AccountsInv'
<1>1. AccountsTypeOK /\ AccountsRequest(r) /\ OneUserPerEmail /\ UNCHANGED accountsBody
      /\ accountsAt[r] = "save" /\ HasSignupBody(r) /\ r \notin DOMAIN users /\ DisturbedGrows
  BY DEF AccountsInv, AccountsRequest, SaveUser, DisturbedGrows, AccountsFails, Fault
<1> DEFINE email == accountsBody[r].email
<1>2. \/ /\ UsersWith(email) = {}
         /\ users' = [u \in DOMAIN users \cup {r} |-> IF u = r THEN email ELSE users[u]]
         /\ AccountsAnswer(r, 201, r) \/ (AccountsAnswer(r, 500, Nobody) /\ r \in disturbed')
      \/ /\ UNCHANGED users
         /\ \/ AccountsAnswer(r, 400, Nobody)
            \/ /\ AccountsAnswer(r, 500, Nobody)
               /\ r \in disturbed' \/ UsersWith(email) # {} \/ email = LongEmail
  BY <1>1, AccountsStatuses DEF SaveUser, InsertUser, AccountsThrow, AccountsFails, Fault
<1>3. email \in Email /\ r \in User
  BY <1>1 DEF HasSignupBody, User
<1>4. \E status \in {201, 400, 500}, user \in User \cup {Nobody} : AccountsAnswer(r, status, user)
  BY <1>2, <1>3
<1>5. CASE UNCHANGED users
  <2>1. /\ AccountsTypeOK'
        /\ \A s \in Request \ {r} :
              /\ accountsAt'[s] = accountsAt[s]
              /\ accountsBody'[s] = accountsBody[s]
              /\ accountsReply'[s] = accountsReply[s]
    BY <1>1, <1>4, <1>5, AccountsAnswers
  <2>2. UsersWith(email) # {} => Elsewhere(r)'
    BY <1>1, <1>5 DEF UsersWith, Elsewhere
  <2>3. accountsAt'[r] = "done" /\ accountsReply'[r].status \in {400, 500}
        /\ (accountsReply'[r].status = 500 => r \in disturbed' \/ Elsewhere(r)' \/ email = LongEmail)
    BY <1>1, <1>2, <1>5, <2>2 DEF AccountsAnswer, AccountsTypeOK
  <2>4. HasSignupBody(r)' /\ ~HasToken(r)' /\ accountsBody'[r].email = email
    BY <1>1, BodiesDiffer DEF HasSignupBody, HasToken
  <2>5. AccountsRequest(r)'
    BY <1>1, <1>5, <2>3, <2>4 DEF AccountsRequest
  <2> QED
    BY <1>1, <1>5, <2>1, <2>5, AccountsReads
<1>6. CASE ~UNCHANGED users
  <2>1. /\ UsersWith(email) = {}
        /\ users' = [u \in DOMAIN users \cup {r} |-> IF u = r THEN email ELSE users[u]]
        /\ accountsAt' = [accountsAt EXCEPT ![r] = "done"]
        /\ \/ accountsReply' = [accountsReply EXCEPT ![r] = [status |-> 201, user |-> r]]
           \/ /\ accountsReply' = [accountsReply EXCEPT ![r] = [status |-> 500, user |-> Nobody]]
              /\ r \in disturbed'
    BY <1>2, <1>6 DEF AccountsAnswer
  <2>2. AccountsTypeOK'
    <3>1. DOMAIN users' \subseteq User /\ users' \in [DOMAIN users' -> Email]
      BY <1>1, <1>3, <2>1 DEF AccountsTypeOK
    <3>2. /\ accountsAt' \in [Request -> {"idle", "signup", "save", "login", "me", "done"}]
          /\ accountsReply' \in [Request -> [status : {0, 200, 201, 400, 401, 404, 409, 500},
                                             user : User \cup {Nobody}]]
      BY <1>1, <1>3, <2>1 DEF AccountsTypeOK
    <3> QED
      BY <1>1, <3>1, <3>2 DEF AccountsTypeOK
  <2>3. OneUserPerEmail'
    BY <1>1, <2>1 DEF OneUserPerEmail, UsersWith
  <2>4. ASSUME NEW s \in Request PROVE AccountsRequest(s)'
    <3>1. CASE s = r
      <4>1. /\ accountsAt'[r] = "done" /\ r \in DOMAIN users' /\ users'[r] = email
            /\ HasSignupBody(r)' /\ ~HasToken(r)' /\ accountsBody'[r].email = email
            /\ \/ accountsReply'[r].status = 201
               \/ accountsReply'[r].status = 500 /\ r \in disturbed'
        <5>1. HasSignupBody(r)' /\ ~HasToken(r)' /\ accountsBody'[r].email = email
          BY <1>1, BodiesDiffer DEF HasSignupBody, HasToken
        <5> QED
          BY <1>1, <2>1, <5>1 DEF AccountsTypeOK
      <4> QED
        BY <3>1, <4>1 DEF AccountsRequest
    <3>2. CASE s # r
      <4>1. /\ accountsAt'[s] = accountsAt[s] /\ accountsBody'[s] = accountsBody[s]
            /\ accountsReply'[s] = accountsReply[s]
            /\ s \in DOMAIN users' => s \in DOMAIN users
            /\ \A u \in DOMAIN users : u \in DOMAIN users' /\ users'[u] = users[u]
        BY <1>1, <2>1, <3>2 DEF AccountsTypeOK
      <4> QED
        BY <1>1, <4>1, AccountsOthers DEF AccountsInv
    <3> QED
      BY <3>1, <3>2
  <2> QED
    BY <2>2, <2>3, <2>4 DEF AccountsInv
<1> QED
  BY <1>5, <1>6

\* Every step keeps the invariant of accounts-service.
LEMMA AccountsPreserved ==
    ASSUME AccountsInv, AccountsRest \/ \E r \in Request : AccountsMove(r)
    PROVE  AccountsInv'
<1>1. CASE AccountsRest
  <2>1. UNCHANGED <<users, accountsAt, accountsBody, accountsReply>> /\ DisturbedGrows
    BY <1>1 DEF AccountsRest, accountsVars
  <2>2. AccountsTypeOK' /\ OneUserPerEmail'
    BY <2>1 DEF AccountsInv, AccountsTypeOK, OneUserPerEmail
  <2>3. ASSUME NEW s \in Request PROVE AccountsRequest(s)'
    BY <2>1, AccountsOthers DEF AccountsInv
  <2> QED
    BY <2>2, <2>3 DEF AccountsInv
<1>2. ASSUME NEW r \in Request, Signup(r) \/ Login(r) PROVE AccountsInv'
  <2>1. PICK email \in Email, password \in Password, await \in {"signup", "login"} :
           Ask(r, [email |-> email, password |-> password], await)
    BY <1>2 DEF Signup, Login
  <2>2. [email |-> email, password |-> password] \in [email : Email, password : Password]
    OBVIOUS
  <2> QED
    BY <2>1, <2>2, AskAccountsInv
<1>3. ASSUME NEW r \in Request, NEW token \in User \cup {Nobody}, Me(r, token) PROVE AccountsInv'
  <2>1. Ask(r, [token |-> token], "me")
    BY <1>3 DEF Me
  <2> QED
    BY <2>1, AskAccountsInv
<1>4. ASSUME NEW r \in Request, AccountsStep(r) PROVE AccountsInv'
  BY <1>4, SignupLooksUp, AccountsQueries, SaveUserInv DEF AccountsStep
<1> QED
  BY <1>1, <1>2, <1>3, <1>4 DEF AccountsMove

LEMMA AccountsInvImplies ==
    ASSUME AccountsInv
    PROVE  SignupAnswerTrue
<1> SUFFICES ASSUME NEW r \in Request, IsSignup(r)
             PROVE  LET email == accountsBody[r].email
                        holders == UsersWith(email)
                    IN  CASE accountsReply[r].status = 201 -> holders = {r}
                          [] accountsReply[r].status = 400 -> r \notin holders
                          [] accountsReply[r].status = 409 -> holders \notin {{}, {r}}
                          [] OTHER -> r \in disturbed \/ holders \notin {{}, {r}} \/ email = LongEmail
  BY DEF SignupAnswerTrue
<1> DEFINE holders == UsersWith(accountsBody[r].email)
<1>1. AccountsRequest(r) /\ OneUserPerEmail /\ accountsAt[r] = "done" /\ HasSignupBody(r)
  BY DEF AccountsInv, IsSignup, HasSignupBody
<1>2. Elsewhere(r) => holders \notin {{}, {r}}
  BY DEF Elsewhere, UsersWith
<1>3. r \in DOMAIN users => holders = {r}
  BY <1>1 DEF AccountsRequest, OneUserPerEmail, UsersWith
<1>4. r \in holders => r \in DOMAIN users
  BY DEF UsersWith
<1>5. accountsReply[r].status \in {201, 400, 409, 500}
  BY DEF IsSignup
<1> QED
  BY <1>1, <1>2, <1>3, <1>4, <1>5 DEF AccountsRequest
-----------------------------------------------------------------------------
(***************************************************************************)
(* The event catalogue                                                     *)
(***************************************************************************)
CatalogMove(r) ==
    \/ \E body \in CreateEventRequest : CreateEvent(r, body)
    \/ CatalogStep(r)

CatalogRest == UNCHANGED catalogVars /\ DisturbedGrows

\* Why an event lacks ticket types; see IncompleteExplained.
Explained(e) ==
    \/ catalogAt[e] = "saveTicketType"
    \/ catalogReply[e].status = 400 /\ catalogBody[e].unstorable = ticketTypes[e] + 1
    \/ catalogReply[e].status = 500 /\ e \in disturbed

(***************************************************************************)
(* What a request and the event it creates say of each other: the event is *)
(* stored under the key of the request, not before its INSERT, and while   *)
(* ticket types are missing the request says why.                          *)
(***************************************************************************)
CatalogRequest(r) ==
    /\ catalogAt[r] # "idle" => catalogBody[r] \in CreateEventRequest
    /\ r \in DOMAIN events =>
          /\ catalogAt[r] \in {"saveTicketType", "done"}
          /\ events[r].organizer = catalogBody[r].organizer /\ events[r].key = catalogBody[r].key
          /\ catalogReply[r].status = 500 => r \in disturbed
          /\ ticketTypes[r] < TicketTypes => Explained(r)
    /\ r \notin DOMAIN events => ticketTypes[r] = 0
    /\ catalogAt[r] = "saveTicketType" => r \in DOMAIN events /\ ticketTypes[r] < TicketTypes
    /\ catalogReply[r].status # 0 => catalogAt[r] = "done"
    /\ Created(r) =>
          /\ catalogAt[r] = "done"
          /\ catalogReply[r].event \in DOMAIN events
          /\ catalogBody[r].key # NoKey =>
                events[catalogReply[r].event].key = catalogBody[r].key

(***************************************************************************)
(* A request without a key creates an event of its own, and fails only     *)
(* when its rows cannot be stored.                                         *)
(***************************************************************************)
KeylessRequest(r) ==
    catalogBody[r].key = NoKey /\ catalogAt[r] # "idle" =>
        /\ catalogAt[r] # "findByKey"
        /\ Created(r) => r \in DOMAIN events
        /\ catalogReply[r].status = 500 => r \in disturbed \/ catalogBody[r].unstorable = 0

OneEventPerKey ==
    \A e, f \in DOMAIN events :
        events[e].key # NoKey /\ events[e].key = events[f].key => e = f

CatalogInv ==
    /\ CatalogTypeOK
    /\ OneEventPerKey
    /\ \A r \in Request : CatalogRequest(r)

LEMMA OrdersStatuses ==
    /\ OrdersStatus("Zod") = 400 /\ OrdersStatus("Validation") = 400
    /\ OrdersStatus("Forbidden") = 403 /\ OrdersStatus("NotFound") = 404
    /\ OrdersStatus("Conflict") = 409 /\ OrdersStatus("Other") = 500
BY DEF OrdersStatus

LEMMA CatalogInitially ==
    ASSUME CatalogInit
    PROVE  CatalogInv
<1> USE CatalogAssumption DEF CatalogInit
<1>1. CatalogTypeOK
  BY DEF CatalogTypeOK
<1>2. OneEventPerKey
  BY DEF OneEventPerKey
<1>3. ASSUME NEW r \in Request PROVE CatalogRequest(r)
  BY DEF CatalogRequest, Created
<1> QED
  BY <1>1, <1>2, <1>3 DEF CatalogInv

\* Others move, and the table grows.
LEMMA CatalogOthers ==
    ASSUME NEW s \in Request, CatalogRequest(s), DisturbedGrows,
           catalogAt'[s] = catalogAt[s],
           catalogBody'[s] = catalogBody[s],
           catalogReply'[s] = catalogReply[s],
           ticketTypes'[s] = ticketTypes[s],
           s \in DOMAIN events' => s \in DOMAIN events,
           \A e \in DOMAIN events : e \in DOMAIN events' /\ events'[e] = events[e]
    PROVE  CatalogRequest(s)'
<1>1. (Explained(s) => Explained(s)') /\ (s \in disturbed => s \in disturbed')
  BY DEF Explained, DisturbedGrows
<1>2. Created(s)' <=> Created(s)
  BY DEF Created
<1> QED
  BY <1>1, <1>2 DEF CatalogRequest

\* A step of request r that stores no event; ticket types of r may be stored.
LEMMA CatalogReads ==
    ASSUME CatalogInv, NEW r \in Request, UNCHANGED events, DisturbedGrows,
           CatalogTypeOK',
           \A s \in Request \ {r} :
              /\ catalogAt'[s] = catalogAt[s]
              /\ catalogBody'[s] = catalogBody[s]
              /\ catalogReply'[s] = catalogReply[s]
              /\ ticketTypes'[s] = ticketTypes[s],
           CatalogRequest(r)'
    PROVE  CatalogInv'
<1>1. OneEventPerKey'
  BY DEF CatalogInv, OneEventPerKey
<1>2. ASSUME NEW s \in Request PROVE CatalogRequest(s)'
  BY CatalogOthers DEF CatalogInv
<1> QED
  BY <1>1, <1>2 DEF CatalogInv

LEMMA CreateEventInv ==
    ASSUME CatalogInv, NEW r \in Request, NEW body \in CreateEventRequest, CreateEvent(r, body)
    PROVE  CatalogInv'
<1>1. CatalogTypeOK /\ CatalogRequest(r) /\ catalogAt[r] = "idle" /\ DisturbedGrows
      /\ UNCHANGED <<events, ticketTypes>> /\ catalogBody' = [catalogBody EXCEPT ![r] = body]
  BY DEF CatalogInv, CreateEvent, DisturbedGrows
<1>2. \/ /\ catalogAt' = [catalogAt EXCEPT ![r] = "done"]
         /\ catalogReply' = [catalogReply EXCEPT ![r] = [status |-> 400, event |-> NoEvent]]
      \/ /\ \E await \in {"saveEvent", "findByKey"} : catalogAt' = [catalogAt EXCEPT ![r] = await]
         /\ UNCHANGED catalogReply
  BY OrdersStatuses DEF CreateEvent, CatalogThrow, CatalogAnswer, CatalogGo
<1>3. CatalogTypeOK'
  <2>1. catalogBody' \in [Request -> CreateEventRequest \cup {NoRequestYet}]
    BY <1>1 DEF CatalogTypeOK
  <2>2. /\ catalogAt' \in [Request -> {"idle", "findByKey", "saveEvent", "saveTicketType", "done"}]
        /\ catalogReply' \in [Request -> [status : {0, 201, 400, 500}, event : Request \cup {NoEvent}]]
    BY <1>1, <1>2 DEF CatalogTypeOK
  <2> QED
    BY <1>1, <2>1, <2>2 DEF CatalogTypeOK
<1>4. ~Created(r)'
  <2>1. ~Created(r)
    BY <1>1 DEF CatalogInv, CatalogRequest
  <2> QED
    BY <1>1, <1>2, <2>1 DEF Created, CatalogTypeOK
<1>5. CatalogRequest(r)'
  BY <1>1, <1>2, <1>4 DEF CatalogRequest, CatalogTypeOK
<1>6. \A s \in Request \ {r} :
         /\ catalogAt'[s] = catalogAt[s]
         /\ catalogBody'[s] = catalogBody[s]
         /\ catalogReply'[s] = catalogReply[s]
         /\ ticketTypes'[s] = ticketTypes[s]
  BY <1>1, <1>2 DEF CatalogTypeOK
<1> QED
  BY <1>1, <1>3, <1>5, <1>6, CatalogReads

LEMMA FindEventByKeyInv ==
    ASSUME CatalogInv, NEW r \in Request, FindEventByKey(r)
    PROVE  CatalogInv'
<1>1. CatalogTypeOK /\ CatalogRequest(r) /\ catalogAt[r] = "findByKey" /\ DisturbedGrows
      /\ UNCHANGED <<events, ticketTypes, catalogBody>>
  BY DEF CatalogInv, FindEventByKey, DisturbedGrows, CatalogFails, Fault
<1>2. \/ \E e \in DOMAIN events :
            /\ events[e].key = catalogBody[r].key
            /\ CatalogAnswer(r, 201, e)
      \/ CatalogGo(r, "saveEvent")
      \/ CatalogAnswer(r, 500, NoEvent)
  BY OrdersStatuses DEF FindEventByKey, EventsWithKey, CatalogThrow, CatalogFails
<1>3. \/ /\ catalogAt' = [catalogAt EXCEPT ![r] = "done"]
         /\ \/ \E e \in DOMAIN events :
                  /\ events[e].key = catalogBody[r].key
                  /\ catalogReply' = [catalogReply EXCEPT ![r] = [status |-> 201, event |-> e]]
            \/ catalogReply' = [catalogReply EXCEPT ![r] = [status |-> 500, event |-> NoEvent]]
      \/ catalogAt' = [catalogAt EXCEPT ![r] = "saveEvent"] /\ UNCHANGED catalogReply
  BY <1>2 DEF CatalogAnswer, CatalogGo
<1>4. CatalogTypeOK'
  <2>1. /\ catalogAt' \in [Request -> {"idle", "findByKey", "saveEvent", "saveTicketType", "done"}]
        /\ catalogReply' \in [Request -> [status : {0, 201, 400, 500}, event : Request \cup {NoEvent}]]
    BY <1>1, <1>3 DEF CatalogTypeOK
  <2> QED
    BY <1>1, <2>1 DEF CatalogTypeOK
<1>5. Created(r)' => /\ catalogAt'[r] = "done"
                     /\ catalogReply'[r].event \in DOMAIN events
                     /\ events[catalogReply'[r].event].key = catalogBody[r].key
  <2>1. ~Created(r)
    BY <1>1 DEF CatalogRequest
  <2> QED
    BY <1>1, <1>3, <2>1 DEF Created, CatalogTypeOK
<1>6. /\ catalogAt'[r] \in {"done", "saveEvent"} /\ r \notin DOMAIN events
      /\ catalogReply'[r].status # 0 => catalogAt'[r] = "done"
  BY <1>1, <1>3 DEF CatalogRequest, CatalogTypeOK
<1>7. CatalogRequest(r)'
  BY <1>1, <1>5, <1>6 DEF CatalogRequest
<1>8. \A s \in Request \ {r} :
         /\ catalogAt'[s] = catalogAt[s]
         /\ catalogBody'[s] = catalogBody[s]
         /\ catalogReply'[s] = catalogReply[s]
         /\ ticketTypes'[s] = ticketTypes[s]
  BY <1>1, <1>3 DEF CatalogTypeOK
<1> QED
  BY <1>1, <1>4, <1>7, <1>8, CatalogReads

LEMMA SaveEventInv ==
    ASSUME CatalogInv, NEW r \in Request, SaveEvent(r)
    PROVE  CatalogInv'
<1>1. CatalogTypeOK /\ CatalogRequest(r) /\ OneEventPerKey /\ catalogAt[r] = "saveEvent"
      /\ DisturbedGrows /\ UNCHANGED <<ticketTypes, catalogBody>> /\ r \notin DOMAIN events
      /\ catalogBody[r] \in CreateEventRequest /\ ticketTypes[r] = 0
  BY DEF CatalogInv, CatalogRequest, SaveEvent, DisturbedGrows, CatalogFails, Fault
<1> DEFINE body == catalogBody[r]
<1>2. \/ /\ EventsWithKey(body.key) = {}
         /\ InsertEvent(r)
         /\ CatalogGo(r, "saveTicketType") \/ (CatalogAnswer(r, 500, NoEvent) /\ r \in disturbed')
      \/ UNCHANGED events /\ CatalogAnswer(r, 500, NoEvent)
  BY OrdersStatuses DEF SaveEvent, CatalogThrow, CatalogFails, Fault
<1>3. \/ catalogAt' = [catalogAt EXCEPT ![r] = "saveTicketType"] /\ UNCHANGED catalogReply
      \/ /\ catalogAt' = [catalogAt EXCEPT ![r] = "done"]
         /\ catalogReply' = [catalogReply EXCEPT ![r] = [status |-> 500, event |-> NoEvent]]
  BY <1>2 DEF CatalogGo, CatalogAnswer
<1>4. /\ catalogAt' \in [Request -> {"idle", "findByKey", "saveEvent", "saveTicketType", "done"}]
      /\ catalogReply' \in [Request -> [status : {0, 201, 400, 500}, event : Request \cup {NoEvent}]]
  <2>1. catalogAt' \in [Request -> {"idle", "findByKey", "saveEvent", "saveTicketType", "done"}]
    BY <1>1, <1>3 DEF CatalogTypeOK
  <2>2. [status |-> 500, event |-> NoEvent] \in [status : {0, 201, 400, 500}, event : Request \cup {NoEvent}]
    OBVIOUS
  <2>3. catalogReply' \in [Request -> [status : {0, 201, 400, 500}, event : Request \cup {NoEvent}]]
    BY <1>1, <1>3, <2>2 DEF CatalogTypeOK
  <2> QED
    BY <2>1, <2>3
<1>5. ~Created(r)'
  <2>1. ~Created(r)
    BY <1>1 DEF CatalogRequest
  <2> QED
    BY <1>1, <1>3, <2>1 DEF Created, CatalogTypeOK
<1>6. \A s \in Request \ {r} :
         /\ catalogAt'[s] = catalogAt[s]
         /\ catalogBody'[s] = catalogBody[s]
         /\ catalogReply'[s] = catalogReply[s]
         /\ ticketTypes'[s] = ticketTypes[s]
  BY <1>1, <1>3 DEF CatalogTypeOK
<1>7. CASE UNCHANGED events /\ CatalogAnswer(r, 500, NoEvent)
  <2>1. CatalogTypeOK'
    BY <1>1, <1>4, <1>7 DEF CatalogTypeOK
  <2>2. catalogAt'[r] = "done"
    BY <1>1, <1>7 DEF CatalogAnswer, CatalogTypeOK
  <2>3. CatalogRequest(r)'
    BY <1>1, <1>5, <1>7, <2>2 DEF CatalogRequest
  <2> QED
    BY <1>1, <1>6, <1>7, <2>1, <2>3, CatalogReads
<1>8. CASE /\ EventsWithKey(body.key) = {}
           /\ InsertEvent(r)
           /\ CatalogGo(r, "saveTicketType") \/ (CatalogAnswer(r, 500, NoEvent) /\ r \in disturbed')
  <2>1. body.organizer \in Organizer /\ body.key \in EventKey \cup {NoKey}
    BY <1>1 DEF CreateEventRequest
  <2>2. events' = [e \in DOMAIN events \cup {r} |->
                      IF e = r THEN [organizer |-> body.organizer, key |-> body.key] ELSE events[e]]
    BY <1>8 DEF InsertEvent
  <2>3. CatalogTypeOK'
    <3>1. DOMAIN events' \subseteq Request
          /\ events' \in [DOMAIN events' -> [organizer : Organizer, key : EventKey \cup {NoKey}]]
      BY <1>1, <2>1, <2>2 DEF CatalogTypeOK
    <3> QED
      BY <1>1, <1>4, <3>1 DEF CatalogTypeOK
  <2>4. OneEventPerKey'
    BY <1>1, <1>8, <2>2 DEF OneEventPerKey, EventsWithKey
  <2>5. ASSUME NEW s \in Request PROVE CatalogRequest(s)'
    <3>1. CASE s = r
      <4>1. \/ catalogAt'[r] = "saveTicketType"
            \/ catalogAt'[r] = "done" /\ catalogReply'[r].status = 500 /\ r \in disturbed'
        BY <1>1, <1>8 DEF CatalogGo, CatalogAnswer, CatalogTypeOK
      <4>2. Explained(r)'
        BY <4>1 DEF Explained
      <4>3. /\ r \in DOMAIN events' /\ events'[r].key = catalogBody'[r].key
            /\ events'[r].organizer = catalogBody'[r].organizer
        BY <1>1, <2>2
      <4>4. ticketTypes'[r] < TicketTypes /\ (catalogReply'[r].status # 0 => catalogAt'[r] = "done")
        BY <1>1, <1>3, CatalogAssumption DEF CatalogRequest, CatalogTypeOK
      <4>5. catalogReply'[r].status = 500 => r \in disturbed'
        BY <4>1, <4>4
      <4> QED
        BY <1>1, <1>5, <3>1, <4>1, <4>2, <4>3, <4>4, <4>5 DEF CatalogRequest
    <3>2. CASE s # r
      <4>1. /\ s \in DOMAIN events' => s \in DOMAIN events
            /\ \A e \in DOMAIN events : e \in DOMAIN events' /\ events'[e] = events[e]
        BY <1>1, <2>2, <3>2
      <4> QED
        BY <1>1, <1>6, <3>2, <4>1, CatalogOthers DEF CatalogInv
    <3> QED
      BY <3>1, <3>2
  <2> QED
    BY <2>3, <2>4, <2>5 DEF CatalogInv
<1> QED
  BY <1>2, <1>7, <1>8

LEMMA SaveTicketTypeInv ==
    ASSUME CatalogInv, NEW r \in Request, SaveTicketType(r)
    PROVE  CatalogInv'
<1>1. CatalogTypeOK /\ CatalogRequest(r) /\ catalogAt[r] = "saveTicketType"
      /\ DisturbedGrows /\ UNCHANGED <<events, catalogBody>> /\ r \in DOMAIN events
      /\ catalogBody[r] \in CreateEventRequest /\ events[r].key = catalogBody[r].key
      /\ events[r].organizer = catalogBody[r].organizer
      /\ ticketTypes \in [Request -> 0 .. TicketTypes] /\ ticketTypes[r] < TicketTypes
      /\ ~Created(r)
  BY DEF CatalogInv, CatalogRequest, CatalogTypeOK, SaveTicketType, DisturbedGrows, CatalogFails, Fault
<1> DEFINE next == ticketTypes[r] + 1
<1>2. \/ /\ catalogBody[r].unstorable = next
         /\ CatalogAnswer(r, 400, NoEvent)
         /\ UNCHANGED ticketTypes
      \/ /\ InsertTicketType(r)
         /\ \/ next = TicketTypes /\ CatalogAnswer(r, 201, r)
            \/ next # TicketTypes /\ CatalogGo(r, "saveTicketType")
      \/ /\ CatalogAnswer(r, 500, NoEvent) /\ r \in disturbed'
         /\ InsertTicketType(r) \/ UNCHANGED ticketTypes
  BY OrdersStatuses DEF SaveTicketType, NextTicketType, CatalogThrow, CatalogFails, Fault
<1>3. next \in 1 .. TicketTypes /\ ticketTypes[r] \in Nat /\ TicketTypes \in Nat
  BY <1>1, CatalogAssumption
<1>4. ticketTypes' = ticketTypes \/ ticketTypes' = [ticketTypes EXCEPT ![r] = next]
  BY <1>2 DEF InsertTicketType
<1>5. \/ catalogAt' = [catalogAt EXCEPT ![r] = "saveTicketType"] /\ UNCHANGED catalogReply
      \/ /\ catalogAt' = [catalogAt EXCEPT ![r] = "done"]
         /\ \E status \in {201, 400, 500}, e \in {r, NoEvent} :
               catalogReply' = [catalogReply EXCEPT ![r] = [status |-> status, event |-> e]]
  BY <1>2 DEF CatalogGo, CatalogAnswer
<1>6. CatalogTypeOK'
  <2>1. /\ catalogAt' \in [Request -> {"idle", "findByKey", "saveEvent", "saveTicketType", "done"}]
        /\ catalogReply' \in [Request -> [status : {0, 201, 400, 500}, event : Request \cup {NoEvent}]]
    BY <1>1, <1>5 DEF CatalogTypeOK
  <2>2. ticketTypes' \in [Request -> 0 .. TicketTypes]
    BY <1>1, <1>3, <1>4
  <2> QED
    BY <1>1, <2>1, <2>2 DEF CatalogTypeOK
<1>e. /\ catalogBody'[r] \in CreateEventRequest /\ r \in DOMAIN events'
      /\ events'[r].key = catalogBody'[r].key /\ events'[r].organizer = catalogBody'[r].organizer
  BY <1>1
<1>7. ASSUME CatalogGo(r, "saveTicketType"), InsertTicketType(r), next # TicketTypes
      PROVE  CatalogRequest(r)'
  <2>1. catalogAt'[r] = "saveTicketType" /\ ticketTypes'[r] = next /\ UNCHANGED catalogReply
    BY <1>1, <1>7 DEF CatalogGo, InsertTicketType, CatalogTypeOK
  <2>2. ticketTypes'[r] < TicketTypes
    BY <1>3, <1>7, <2>1
  <2>3. ~Created(r)' /\ Explained(r)' /\ catalogReply'[r].status = 0
    BY <1>1, <2>1 DEF Created, Explained, CatalogRequest
  <2> QED
    BY <1>e, <2>1, <2>2, <2>3 DEF CatalogRequest
<1>8. ASSUME CatalogAnswer(r, 201, r), InsertTicketType(r), next = TicketTypes
      PROVE  CatalogRequest(r)'
  <2>1. /\ catalogAt'[r] = "done" /\ ticketTypes'[r] = next
        /\ catalogReply'[r].event = r /\ catalogReply'[r].status # 500
    BY <1>1, <1>8 DEF CatalogAnswer, InsertTicketType, CatalogTypeOK
  <2>2. ~(ticketTypes'[r] < TicketTypes)
    BY <1>3, <1>8, <2>1
  <2> QED
    BY <1>e, <2>1, <2>2 DEF CatalogRequest
<1>9. ASSUME \/ CatalogAnswer(r, 400, NoEvent) /\ UNCHANGED ticketTypes /\ catalogBody[r].unstorable = next
             \/ CatalogAnswer(r, 500, NoEvent) /\ r \in disturbed'
      PROVE  CatalogRequest(r)'
  <2>1. /\ catalogAt'[r] = "done"
        /\ \/ catalogReply'[r].status = 400 /\ UNCHANGED ticketTypes /\ catalogBody[r].unstorable = next
           \/ catalogReply'[r].status = 500 /\ r \in disturbed'
    BY <1>1, <1>9 DEF CatalogAnswer, CatalogTypeOK
  <2>2. ~Created(r)' /\ Explained(r)'
    BY <1>1, <2>1 DEF Created, Explained
  <2> QED
    BY <1>e, <2>1, <2>2 DEF CatalogRequest
<1>10. \A s \in Request \ {r} :
          /\ catalogAt'[s] = catalogAt[s]
          /\ catalogBody'[s] = catalogBody[s]
          /\ catalogReply'[s] = catalogReply[s]
          /\ ticketTypes'[s] = ticketTypes[s]
  BY <1>1, <1>4, <1>5 DEF CatalogTypeOK
<1>11. CatalogRequest(r)'
  BY <1>2, <1>7, <1>8, <1>9
<1> QED
  BY <1>1, <1>6, <1>10, <1>11, CatalogReads

LEMMA CatalogPreserved ==
    ASSUME CatalogInv, CatalogRest \/ \E r \in Request : CatalogMove(r)
    PROVE  CatalogInv'
<1>1. CASE CatalogRest
  <2>1. UNCHANGED <<events, ticketTypes, catalogAt, catalogBody, catalogReply>> /\ DisturbedGrows
    BY <1>1 DEF CatalogRest, catalogVars
  <2>2. CatalogTypeOK' /\ OneEventPerKey'
    BY <2>1 DEF CatalogInv, CatalogTypeOK, OneEventPerKey
  <2>3. ASSUME NEW s \in Request PROVE CatalogRequest(s)'
    BY <2>1, CatalogOthers DEF CatalogInv
  <2> QED
    BY <2>2, <2>3 DEF CatalogInv
<1>2. ASSUME NEW r \in Request, CatalogMove(r) PROVE CatalogInv'
  BY <1>2, CreateEventInv, FindEventByKeyInv, SaveEventInv, SaveTicketTypeInv
  DEF CatalogMove, CatalogStep
<1> QED
  BY <1>1, <1>2

LEMMA KeylessOthers ==
    ASSUME NEW s \in Request, KeylessRequest(s), DisturbedGrows,
           catalogAt'[s] = catalogAt[s],
           catalogBody'[s] = catalogBody[s],
           catalogReply'[s] = catalogReply[s],
           DOMAIN events \subseteq DOMAIN events'
    PROVE  KeylessRequest(s)'
BY DEF KeylessRequest, Created, DisturbedGrows

LEMMA KeylessPreserved ==
    ASSUME CatalogInv, \A r \in Request : KeylessRequest(r),
           CatalogRest \/ \E r \in Request : CatalogMove(r)
    PROVE  \A r \in Request : KeylessRequest(r)'
<1>1. CASE CatalogRest
  BY <1>1, KeylessOthers DEF CatalogRest, catalogVars
<1>2. ASSUME NEW r \in Request, CatalogMove(r) PROVE \A s \in Request : KeylessRequest(s)'
  <2>1. /\ CatalogTypeOK /\ CatalogRequest(r) /\ KeylessRequest(r)
        /\ catalogAt[r] # "done" /\ DisturbedGrows
        /\ DOMAIN events \subseteq DOMAIN events'
    BY <1>2
    DEF CatalogInv, CatalogMove, CreateEvent, CatalogStep, FindEventByKey, SaveEvent,
        SaveTicketType, InsertEvent, CatalogFails, Fault, DisturbedGrows
  <2>2. catalogReply[r].status = 0
    BY <2>1 DEF CatalogRequest
  <2>3. ASSUME NEW body \in CreateEventRequest, CreateEvent(r, body) PROVE KeylessRequest(r)'
    <3>1. \/ catalogAt'[r] = "done" /\ catalogReply'[r].status = 400
          \/ /\ catalogAt'[r] = IF body.key \in {NoKey, BlankKey} THEN "saveEvent" ELSE "findByKey"
             /\ catalogReply'[r].status = 0
      BY <2>1, <2>2, <2>3, OrdersStatuses
      DEF CreateEvent, CatalogThrow, CatalogAnswer, CatalogGo, CatalogTypeOK
    <3>2. catalogBody'[r] = body
      BY <2>1, <2>3 DEF CreateEvent, CatalogTypeOK
    <3> QED
      BY <3>1, <3>2 DEF KeylessRequest, Created
  <2>4. ASSUME FindEventByKey(r) PROVE KeylessRequest(r)'
    BY <2>1, <2>4 DEF FindEventByKey, KeylessRequest
  <2>5. ASSUME SaveEvent(r) PROVE KeylessRequest(r)'
    <3>1. /\ catalogBody[r].key = NoKey => EventsWithKey(catalogBody[r].key) = {}
          /\ UNCHANGED catalogBody
      BY <2>5 DEF EventsWithKey, SaveEvent
    <3>2. \/ CatalogGo(r, "saveTicketType")
          \/ /\ CatalogAnswer(r, 500, NoEvent)
             /\ \/ r \in disturbed'
                \/ EventsWithKey(catalogBody[r].key) # {} \/ catalogBody[r].unstorable = 0
      BY <2>5, OrdersStatuses DEF SaveEvent, CatalogThrow, CatalogFails, Fault
    <3>3. \/ catalogAt'[r] = "saveTicketType" /\ catalogReply'[r].status = 0
          \/ /\ catalogAt'[r] = "done" /\ catalogReply'[r].status = 500
             /\ \/ r \in disturbed'
                \/ EventsWithKey(catalogBody[r].key) # {} \/ catalogBody[r].unstorable = 0
      BY <2>1, <2>2, <3>2 DEF CatalogGo, CatalogAnswer, CatalogTypeOK
    <3> QED
      BY <3>1, <3>3 DEF KeylessRequest, Created
  <2>6. ASSUME SaveTicketType(r) PROVE KeylessRequest(r)'
    <3>1. r \in DOMAIN events' /\ UNCHANGED catalogBody
      BY <2>1, <2>6 DEF SaveTicketType, CatalogRequest
    <3>2. \/ CatalogGo(r, "saveTicketType")
          \/ CatalogAnswer(r, 201, r)
          \/ CatalogAnswer(r, 400, NoEvent)
          \/ CatalogAnswer(r, 500, NoEvent) /\ r \in disturbed'
      BY <2>6, OrdersStatuses
      DEF SaveTicketType, NextTicketType, CatalogThrow, CatalogFails, Fault
    <3>3. /\ catalogAt'[r] # "findByKey"
          /\ catalogReply'[r].status = 500 => r \in disturbed'
      BY <2>1, <2>2, <3>2 DEF CatalogGo, CatalogAnswer, CatalogTypeOK
    <3> QED
      BY <3>1, <3>3 DEF KeylessRequest
  <2>7. KeylessRequest(r)'
    BY <1>2, <2>3, <2>4, <2>5, <2>6 DEF CatalogMove, CatalogStep
  <2>8. \A s \in Request \ {r} :
           /\ catalogAt'[s] = catalogAt[s]
           /\ catalogBody'[s] = catalogBody[s]
           /\ catalogReply'[s] = catalogReply[s]
    BY <1>2, <2>1
    DEF CatalogMove, CreateEvent, CatalogStep, FindEventByKey, SaveEvent, SaveTicketType,
        NextTicketType, CatalogFails, CatalogThrow, CatalogAnswer, CatalogGo, CatalogTypeOK
  <2> QED
    BY <2>1, <2>7, <2>8, KeylessOthers
<1> QED
  BY <1>1, <1>2

LEMMA CatalogInvImplies ==
    ASSUME CatalogInv
    PROVE  SameKeySameEvent /\ IncompleteExplained
<1>1. SameKeySameEvent
  BY DEF CatalogInv, CatalogRequest, OneEventPerKey, SameKeySameEvent
<1>2. IncompleteExplained
  BY DEF CatalogInv, CatalogTypeOK, CatalogRequest, Explained, IncompleteExplained
<1> QED
  BY <1>1, <1>2
-----------------------------------------------------------------------------
(***************************************************************************)
(* The accounts client                                                     *)
(***************************************************************************)
ClientMove(r) ==
    GetUserById(r) \/ CallOnce(r, TRUE) \/ CallOnce(r, FALSE) \/ Pause(r)

\* What one attempt and the pause after it take at most, and all of them.
LongestPause == MaxRetries * Backoff
AttemptTime == Timeout + LongestPause
RetryBudget == MaxRetries * AttemptTime + Timeout

(***************************************************************************)
(* The time spent is within the attempts made, of which there are never    *)
(* more than MaxRetries before another one.                                *)
(***************************************************************************)
ClientRequest(r) ==
    /\ clientAt[r] = "idle" => attempt[r] = 0 /\ elapsed[r] = 0
    /\ clientAt[r] = "call" =>
          attempt[r] <= MaxRetries /\ elapsed[r] <= attempt[r] * AttemptTime
    /\ clientAt[r] = "pause" =>
          attempt[r] <= MaxRetries /\ elapsed[r] + LongestPause <= attempt[r] * AttemptTime
    /\ clientAt[r] \in {"found", "failed"} => elapsed[r] <= RetryBudget

ClientInv ==
    /\ ClientTypeOK
    /\ \A r \in Request : ClientRequest(r)

LEMMA Products ==
    ASSUME NEW a \in Nat, NEW b \in Nat, NEW c \in Nat
    PROVE  /\ a * c \in Nat
           /\ (a + 1) * c = a * c + c
           /\ 0 * c = 0
           /\ a <= b => a * c <= b * c
<1>1. a * c \in Nat /\ (a + 1) * c = a * c + c /\ 0 * c = 0
  OBVIOUS
<1>2. ASSUME a <= b PROVE a * c <= b * c
  <2>1. PICK d \in Nat : b = a + d
    <3>1. b - a \in Nat /\ b = a + (b - a)
      BY <1>2
    <3> QED
      BY <3>1
  <2>2. b * c = a * c + d * c /\ d * c \in Nat
    BY <2>1
  <2> QED
    BY <1>1, <2>2
<1> QED
  BY <1>1, <1>2

LEMMA Times ==
    /\ LongestPause \in Nat /\ AttemptTime \in Nat /\ RetryBudget \in Nat
    /\ \A a \in Nat : a <= MaxRetries => a * Backoff <= LongestPause
    /\ \A a \in Nat : a <= MaxRetries => a * AttemptTime <= MaxRetries * AttemptTime
    /\ \A a \in Nat : a * AttemptTime \in Nat
    /\ \A a \in Nat : (a + 1) * AttemptTime = a * AttemptTime + AttemptTime
<1> USE ClientAssumption
<1>1. LongestPause \in Nat /\ \A a \in Nat : a <= MaxRetries => a * Backoff <= LongestPause
  BY Products DEF LongestPause
<1>2. AttemptTime \in Nat
  BY <1>1 DEF AttemptTime
<1>3. /\ \A a \in Nat : a * AttemptTime \in Nat
      /\ \A a \in Nat : (a + 1) * AttemptTime = a * AttemptTime + AttemptTime
      /\ \A a \in Nat : a <= MaxRetries => a * AttemptTime <= MaxRetries * AttemptTime
  BY <1>2, Products
<1>4. RetryBudget \in Nat
  BY <1>3 DEF RetryBudget
<1> QED
  BY <1>1, <1>2, <1>3, <1>4

LEMMA ClientInitially ==
    ASSUME ClientInit
    PROVE  ClientInv
BY ClientAssumption DEF ClientInit, ClientInv, ClientTypeOK, ClientRequest

LEMMA ClientOthers ==
    ASSUME ClientInv, NEW r \in Request, ClientTypeOK',
           \A s \in Request \ {r} :
              clientAt'[s] = clientAt[s] /\ attempt'[s] = attempt[s] /\ elapsed'[s] = elapsed[s],
           ClientRequest(r)'
    PROVE  ClientInv'
<1> SUFFICES ASSUME NEW s \in Request PROVE ClientRequest(s)'
  BY DEF ClientInv
<1> QED
  BY DEF ClientInv, ClientRequest

LEMMA CallOnceInv ==
    ASSUME ClientInv, NEW r \in Request, CallOnce(r, TRUE) \/ CallOnce(r, FALSE)
    PROVE  ClientInv'
<1> DEFINE a == attempt[r]
           e == elapsed[r]
<1>1. /\ ClientTypeOK /\ clientAt[r] = "call" /\ elapsed' = [elapsed EXCEPT ![r] = @ + Timeout]
      /\ a \in Nat /\ e \in Nat /\ a <= MaxRetries /\ e <= a * AttemptTime
  BY ClientAssumption DEF ClientInv, ClientTypeOK, ClientRequest, CallOnce, Spend
<1>2. \/ ClientGo(r, "found") /\ UNCHANGED attempt
      \/ \E status : Rejected(r, status)
  BY DEF CallOnce
<1>3. \/ clientAt' = [clientAt EXCEPT ![r] = "found"] /\ attempt' = attempt
      \/ /\ attempt' = [attempt EXCEPT ![r] = a + 1]
         /\ \/ clientAt' = [clientAt EXCEPT ![r] = "failed"]
            \/ clientAt' = [clientAt EXCEPT ![r] = "pause"] /\ ~(attempt'[r] > MaxRetries)
  BY <1>2 DEF Rejected, ClientGo
<1>4. /\ clientAt'[r] \in {"found", "failed", "pause"}
      /\ attempt'[r] \in {a, a + 1} /\ elapsed'[r] = e + Timeout
      /\ clientAt'[r] = "pause" => attempt'[r] = a + 1 /\ a + 1 <= MaxRetries
  BY <1>1, <1>3, ClientAssumption DEF ClientTypeOK
<1>5. ClientTypeOK'
  <2>1. a + 1 \in 0 .. MaxRetries + 1 /\ a \in 0 .. MaxRetries + 1 /\ e + Timeout \in Nat
    BY <1>1, ClientAssumption
  <2>2. clientAt' \in [Request -> {"idle", "call", "pause", "found", "failed"}]
    BY <1>1, <1>3 DEF ClientTypeOK
  <2>3. attempt' \in [Request -> 0 .. MaxRetries + 1]
    BY <1>1, <1>3, <2>1 DEF ClientTypeOK
  <2>4. elapsed' \in [Request -> Nat]
    BY <1>1, <2>1 DEF ClientTypeOK
  <2> QED
    BY <2>2, <2>3, <2>4 DEF ClientTypeOK
<1>6. e + Timeout <= RetryBudget
  BY <1>1, Times, ClientAssumption DEF RetryBudget
<1>7. e + Timeout + LongestPause <= (a + 1) * AttemptTime
  BY <1>1, Times, ClientAssumption DEF AttemptTime
<1>8. ClientRequest(r)'
  BY <1>4, <1>6, <1>7 DEF ClientRequest
<1>9. \A s \in Request \ {r} :
         clientAt'[s] = clientAt[s] /\ attempt'[s] = attempt[s] /\ elapsed'[s] = elapsed[s]
  BY <1>1, <1>3 DEF ClientTypeOK
<1> QED
  BY <1>5, <1>8, <1>9, ClientOthers

LEMMA ClientPreserved ==
    ASSUME ClientInv, UNCHANGED clientVars \/ \E r \in Request : ClientMove(r)
    PROVE  ClientInv'
<1>1. CASE UNCHANGED clientVars
  BY <1>1 DEF clientVars, ClientInv, ClientTypeOK, ClientRequest
<1>2. ASSUME NEW r \in Request, GetUserById(r) PROVE ClientInv'
  <2>1. /\ ClientTypeOK /\ attempt[r] = 0 /\ elapsed[r] = 0
        /\ clientAt' = [clientAt EXCEPT ![r] = "call"] /\ UNCHANGED <<attempt, elapsed>>
    BY <1>2 DEF ClientInv, ClientRequest, GetUserById, ClientGo
  <2>2. ClientTypeOK'
    BY <2>1 DEF ClientTypeOK
  <2>3. ClientRequest(r)'
    <3>1. 0 <= MaxRetries /\ 0 <= 0 * AttemptTime
      BY Times, ClientAssumption
    <3> QED
      BY <2>1, <3>1 DEF ClientRequest, ClientTypeOK
  <2>4. \A s \in Request \ {r} :
           clientAt'[s] = clientAt[s] /\ attempt'[s] = attempt[s] /\ elapsed'[s] = elapsed[s]
    BY <2>1 DEF ClientTypeOK
  <2> QED
    BY <2>2, <2>3, <2>4, ClientOthers
<1>3. ASSUME NEW r \in Request, Pause(r) PROVE ClientInv'
  <2> DEFINE a == attempt[r]
             e == elapsed[r]
  <2>1. /\ ClientTypeOK /\ a \in Nat /\ e \in Nat
        /\ a <= MaxRetries /\ e + LongestPause <= a * AttemptTime
        /\ clientAt' = [clientAt EXCEPT ![r] = "call"] /\ UNCHANGED attempt
        /\ elapsed' = [elapsed EXCEPT ![r] = @ + Backoff * a]
    BY <1>3, ClientAssumption
    DEF ClientInv, ClientRequest, ClientTypeOK, Pause, ClientGo, Spend
  <2>2. Backoff * a \in Nat /\ Backoff * a = a * Backoff
    BY <2>1, ClientAssumption, Products
  <2>3. ClientTypeOK'
    BY <2>1, <2>2 DEF ClientTypeOK
  <2>4. ClientRequest(r)'
    <3>1. elapsed'[r] = e + Backoff * a /\ attempt'[r] = a /\ clientAt'[r] = "call"
      BY <2>1 DEF ClientTypeOK
    <3>2. e + Backoff * a <= a * AttemptTime
      BY <2>1, <2>2, Times
    <3> QED
      BY <2>1, <3>1, <3>2 DEF ClientRequest
  <2>5. \A s \in Request \ {r} :
           clientAt'[s] = clientAt[s] /\ attempt'[s] = attempt[s] /\ elapsed'[s] = elapsed[s]
    BY <2>1 DEF ClientTypeOK
  <2> QED
    BY <2>3, <2>4, <2>5, ClientOthers
<1> QED
  BY <1>1, <1>2, <1>3, CallOnceInv DEF ClientMove

LEMMA ClientInvImplies ==
    ASSUME ClientInv, RetryBudget <= LockTtl
    PROVE  RetriesFitLock
<1> SUFFICES ASSUME NEW r \in Request PROVE elapsed[r] <= LockTtl
  BY DEF RetriesFitLock
<1>1. ClientTypeOK /\ ClientRequest(r) /\ attempt[r] \in Nat /\ elapsed[r] \in Nat
  BY ClientAssumption DEF ClientInv, ClientTypeOK
<1>2. \A a \in Nat : a <= MaxRetries => a * AttemptTime <= RetryBudget
  BY Times, ClientAssumption DEF RetryBudget
<1>3. elapsed[r] <= RetryBudget
  BY <1>1, <1>2, Times DEF ClientTypeOK, ClientRequest
<1> QED
  BY <1>1, <1>3, Times, ClientAssumption
===============================================================================
