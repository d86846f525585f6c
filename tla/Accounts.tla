------------------------------- MODULE Accounts -------------------------------
(***************************************************************************)
(* accounts-service: POST /signup, POST /login and GET /me, with the table *)
(* users.  Every awaited statement is an action; accountsAt[r] names the   *)
(* one request r awaits.                                                   *)
(*                                                                         *)
(* A user takes the identity of the request that signs it up, a token is   *)
(* the user it was issued to, and of a password only its class is kept:    *)
(* "short" is refused by the schema of the body, "weak" (no letter, or no  *)
(* digit) by the password policy, "good" is the one that is right.         *)
(***************************************************************************)
EXTENDS ServiceCalls

CONSTANTS
    Email,
    Registered,  \* users stored before: a function from ids to addresses
    Removed,     \* a user whose row was deleted by hand: its tokens are still valid
    LongEmail,   \* an address that has no room in its column
    Nobody       \* no user

ASSUME RegisteredAssumption ==
    /\ Registered \in [DOMAIN Registered -> Email \ {LongEmail}]
    /\ DOMAIN Registered \cap Request = {}
    /\ Nobody \notin DOMAIN Registered \cup Request \cup {Removed}
    /\ Removed \notin DOMAIN Registered \cup Request
    /\ \A u, v \in DOMAIN Registered : Registered[u] = Registered[v] => u = v

VARIABLES
    users,         \* the table: a function from the ids present to addresses
    accountsAt,    \* the statement a request awaits
    accountsBody,  \* what it asked for: an address and a password, or a token
    accountsReply  \* the status it was answered with, and a user

accountsVars == <<users, accountsAt, accountsBody, accountsReply>>

User == DOMAIN Registered \cup Request \cup {Removed}
Password == {"short", "weak", "good"}
NoBody == [token |-> Nobody]
NoAnswer == [status |-> 0, user |-> Nobody]

AccountsTypeOK ==
    /\ DOMAIN users \subseteq User
    /\ users \in [DOMAIN users -> Email]
    /\ accountsAt \in [Request -> {"idle", "signup", "save", "login", "me", "done"}]
    /\ accountsBody \in [Request -> [email : Email, password : Password]
                                        \cup [token : User \cup {Nobody}]]
    /\ accountsReply \in [Request -> [status : {0, 200, 201, 400, 401, 404, 409, 500},
                                      user : User \cup {Nobody}]]

AccountsInit ==
    /\ users = Registered
    /\ accountsAt = [r \in Request |-> "idle"]
    /\ accountsBody = [r \in Request |-> NoBody]
    /\ accountsReply = [r \in Request |-> NoAnswer]
-----------------------------------------------------------------------------
AccountsGo(r, await) ==
    /\ accountsAt' = [accountsAt EXCEPT ![r] = await]
    /\ UNCHANGED accountsReply

AccountsAnswer(r, status, user) ==
    /\ accountsAt' = [accountsAt EXCEPT ![r] = "done"]
    /\ accountsReply' = [accountsReply EXCEPT ![r] = [status |-> status, user |-> user]]

AccountsThrow(r, error) == AccountsAnswer(r, AccountsStatus(error), Nobody)

AccountsFails(r) == Fault(r, "db") /\ AccountsThrow(r, "Other")

UsersWith(email) == {u \in DOMAIN users : users[u] = email}

\* findById
IsStored(id) == id \in DOMAIN users

\* The body is parsed before anything else.
Ask(r, body, await) ==
    /\ accountsAt[r] = "idle"
    /\ accountsBody' = [accountsBody EXCEPT ![r] = body]
    /\ IF await = "signup" /\ body.password = "short"
       THEN AccountsThrow(r, "Zod")
       ELSE AccountsGo(r, await)
    /\ UNCHANGED <<users, disturbed>>

Signup(r) ==
    \E email \in Email, password \in Password :
        Ask(r, [email |-> email, password |-> password], "signup")

Login(r) ==
    \E email \in Email, password \in Password :
        Ask(r, [email |-> email, password |-> password], "login")

\* findByEmail, then PasswordPolicy.validate and the hash.
SignupFindByEmail(r) ==
    /\ accountsAt[r] = "signup"
    /\ LET body == accountsBody[r]
           taken == UsersWith(body.email) # {}
       IN  \/ /\ UNCHANGED disturbed
              /\ \/ taken /\ AccountsThrow(r, "Conflict")
                 \/ ~taken /\ body.password = "weak" /\ AccountsThrow(r, "Validation")
                 \/ ~taken /\ body.password = "good" /\ AccountsGo(r, "save")
           \/ AccountsFails(r)
    /\ UNCHANGED <<users, accountsBody>>

InsertUser(r) ==
    users' = [u \in DOMAIN users \cup {r} |->
                 IF u = r THEN accountsBody[r].email ELSE users[u]]

SaveUserAnyway(r) ==    \* mutant: email is not unique
    /\ accountsAt[r] = "save"
    /\ InsertUser(r)
    /\ AccountsAnswer(r, 201, r)
    /\ UNCHANGED <<accountsBody, disturbed>>

\* The row is parsed: a name of more than 255 characters is refused.  INSERT;
\* the database refuses an address that is too long, or there already.
SaveUser(r) ==
    /\ accountsAt[r] = "save"
    /\ LET email == accountsBody[r].email
           free == UsersWith(email) = {} /\ email # LongEmail
       IN  \/ AccountsThrow(r, "Zod") /\ UNCHANGED <<users, disturbed>>
           \/ /\ free
              /\ InsertUser(r)
              /\ \/ AccountsAnswer(r, 201, r) /\ UNCHANGED disturbed
                 \/ AccountsFails(r)
           \/ ~free /\ AccountsThrow(r, "Other") /\ UNCHANGED <<users, disturbed>>
           \/ AccountsFails(r) /\ UNCHANGED users
    /\ UNCHANGED accountsBody

\* findByEmail and compare: the row read does not change in between.
LoginFindByEmail(r) ==
    /\ accountsAt[r] = "login"
    /\ LET body == accountsBody[r]
           found == UsersWith(body.email)
       IN  \/ /\ UNCHANGED disturbed
              /\ \/ body.password = "good" /\ \E u \in found : AccountsAnswer(r, 200, u)
                 \/ /\ found = {} \/ body.password # "good"
                    /\ AccountsThrow(r, "Unauthorized")
           \/ AccountsFails(r)
    /\ UNCHANGED <<users, accountsBody>>

\* GET /me; the token Nobody is one that jsonwebtoken refuses.
Me(r, token) == Ask(r, [token |-> token], "me")

GetMe(r) ==
    /\ accountsAt[r] = "me"
    /\ LET sub == accountsBody[r].token
       IN  \/ /\ UNCHANGED disturbed
              /\ \/ sub = Nobody /\ AccountsThrow(r, "JsonWebToken")
                 \/ IsStored(sub) /\ AccountsAnswer(r, 200, sub)
                 \/ sub # Nobody /\ ~IsStored(sub) /\ AccountsThrow(r, "NotFound")
           \/ sub # Nobody /\ AccountsFails(r)
    /\ UNCHANGED <<users, accountsBody>>

AccountsStep(r) ==
    SignupFindByEmail(r) \/ SaveUser(r) \/ LoginFindByEmail(r) \/ GetMe(r)
-----------------------------------------------------------------------------
(***************************************************************************)
(* Properties                                                              *)
(***************************************************************************)

(***************************************************************************)
(* Two users never share an address, although findByEmail and the INSERT   *)
(* of two signups interleave and statements may be executed and reported   *)
(* as failed; findByEmail takes the first row it finds.                    *)
(***************************************************************************)
OneUserPerEmail ==
    \A u, v \in DOMAIN users : users[u] = users[v] => u = v

IsSignup(r) ==
    /\ accountsAt[r] = "done"
    /\ accountsReply[r].status \in {201, 400, 409, 500}
    /\ accountsBody[r] \in [email : Email, password : Password]

(***************************************************************************)
(* The answer of a signup says what happened to the address: created means *)
(* it is stored under the new user, a conflict that somebody else has it,  *)
(* and an internal error that the database failed, that the address is too *)
(* long, or that somebody else was faster between the lookup and INSERT.   *)
(***************************************************************************)
SignupAnswerTrue ==
    \A r \in Request : IsSignup(r) =>
        LET email == accountsBody[r].email
            holders == UsersWith(email)
        IN  CASE accountsReply[r].status = 201 -> holders = {r}
              [] accountsReply[r].status = 400 -> r \notin holders
              [] accountsReply[r].status = 409 -> holders \notin {{}, {r}}
              [] OTHER -> r \in disturbed \/ holders \notin {{}, {r}} \/ email = LongEmail
=============================================================================
