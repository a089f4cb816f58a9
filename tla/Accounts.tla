------------------------------ MODULE Accounts ------------------------------
(* Accounts, sessions and form tokens of app/__init__.py: registration,     *)
(* login and logout from several browsers at once, over one users table.    *)
(* The session is a signed cookie: the server keeps none of it, and a       *)
(* request's answer replaces it.  A browser waits for its answer before it  *)
(* sends the next request, but may send a form it was shown long ago.       *)
EXTENDS Naturals, FiniteSets

CONSTANTS
    Browsers,
    Emails,        \* valid, in lower case; the demo account's among them
    Passwords,
    Short,         \* the passwords of fewer than 8 characters
    DemoEmail,     \* "ced@gmail.com"
    DemoPassword,  \* "12345"
    Nobody,        \* no user_email in the session
    MaxTokens,     \* bound: tokens drawn
    MaxFaults      \* bound: failed calls and restarts

ASSUME AccountsAssumption ==
    /\ DemoEmail \in Emails /\ Nobody \notin Emails
    /\ DemoPassword \in Short /\ Short \subseteq Passwords
    /\ {MaxTokens, MaxFaults} \subseteq Nat

VARIABLES
    users,       \* the users table: users[e], the password of account e
    recorded,    \* the emails of the user_registered events
    cookie,      \* cookie[b]: the session of browser b
    forms,       \* forms[b]: the forms it has been shown, and for whom
    request,     \* request[b]: the registration it waits for
    tokens,      \* tokens drawn so far: token_urlsafe never repeats one
    proved,      \* history: the accounts whose password b has sent
    astray,      \* history: was a form of another session accepted?
    faults       \* failures so far

vars == <<users, recorded, cookie, forms, request, tokens, proved, astray, faults>>

NoCookie == [user |-> Nobody, token |-> 0]
NoRequest == [step |-> "none"]

\* A row of the table is written; UNIQUE(email): there is one for an address.
Put(email, password) ==
    [e \in DOMAIN users \cup {email} |-> IF e = email THEN password ELSE users[e]]

\* initialize_database (50-66) on an empty file.
Init ==
    /\ users = [e \in {DemoEmail} |-> DemoPassword]
    /\ recorded = {}
    /\ cookie = [b \in Browsers |-> NoCookie]
    /\ forms = [b \in Browsers |-> {}]
    /\ request = [b \in Browsers |-> NoRequest]
    /\ proved = [b \in Browsers |-> {}]
    /\ tokens = 0 /\ astray = FALSE /\ faults = 0

Idle(b) == request[b] = NoRequest

Draw == tokens' = tokens + 1

\* The bound leaves a token for every registration under way.
Room == tokens + Cardinality({b \in Browsers : ~ Idle(b)}) < MaxTokens

\* A page with a form is rendered: csrf_token() (77-80) draws a token if the
\* session has none.
ShowPage(b) ==
    /\ Idle(b)
    /\ IF cookie[b].token = 0
       THEN Room /\ Draw /\ cookie' = [cookie EXCEPT ![b].token = tokens']
       ELSE UNCHANGED <<cookie, tokens>>
    /\ forms' = [forms EXCEPT ![b] = @ \cup {cookie'[b]}]
    /\ UNCHANGED <<users, recorded, request, proved, astray, faults>>

\* valid_csrf (83-86).
ValidCsrf(b, form) == cookie[b].token # 0 /\ form.token = cookie[b].token

\* "Your form expired" (158, 200, 615).
Refuse(b, form) == Idle(b) /\ ~ ValidCsrf(b, form) /\ UNCHANGED vars

\* A form is sent and taken.
Accept(b, form) ==
    /\ Idle(b) /\ Room
    /\ ValidCsrf(b, form)
    /\ astray' = (astray \/ form.user # cookie[b].user)

\* Mutated form of SignIn: the session keeps its token.
SignInKeepingToken(b, email) ==
    /\ cookie' = [cookie EXCEPT ![b].user = email]
    /\ UNCHANGED tokens

\* session.clear(), user_email, and a token of its own (173-176, 223-226).
SignIn(b, email) ==
    /\ Draw
    /\ cookie' = [cookie EXCEPT ![b] = [user |-> email, token |-> tokens']]

\* login (155-177).  What a wrong password leads to is LoginPipeline's.
Login(b, form, email, password) ==
    /\ Accept(b, form)
    /\ email \in DOMAIN users /\ users[email] = password
    /\ SignIn(b, email)
    /\ proved' = [proved EXCEPT ![b] = @ \cup {email}]
    /\ UNCHANGED <<users, recorded, forms, request, faults>>

\* register (197-228): checks, INSERT, session, event.
Register(b, form, email, password) ==
    /\ Accept(b, form)
    /\ password \notin Short
    /\ request' = [request EXCEPT ![b] = [step |-> "insert", email |-> email, password |-> password]]
    /\ UNCHANGED <<users, recorded, cookie, forms, tokens, proved, faults>>

Answer(b) == request' = [request EXCEPT ![b] = NoRequest]

\* Mutated forms of Insert: INSERT OR REPLACE, and INSERT OR IGNORE, which
\* raises nothing when the account is there.
InsertOrReplace(b) ==
    /\ request[b].step = "insert"
    /\ users' = Put(request[b].email, request[b].password)
    /\ request' = [request EXCEPT ![b].step = "record"]
    /\ proved' = [proved EXCEPT ![b] = @ \cup {request[b].email}]
    /\ UNCHANGED <<recorded, cookie, forms, tokens, astray, faults>>
InsertOrIgnore(b) ==
    /\ request[b].step = "insert"
    /\ users' = IF request[b].email \in DOMAIN users THEN users
                ELSE Put(request[b].email, request[b].password)
    /\ request' = [request EXCEPT ![b].step = "record"]
    /\ IF users'[request[b].email] = request[b].password
       THEN proved' = [proved EXCEPT ![b] = @ \cup {request[b].email}] ELSE UNCHANGED proved
    /\ UNCHANGED <<recorded, cookie, forms, tokens, astray, faults>>

\* 214-222: UNIQUE decides between two registrations of one address.
Insert(b) ==
    /\ request[b].step = "insert"
    /\ IF request[b].email \in DOMAIN users
       THEN Answer(b) /\ UNCHANGED <<users, proved>>
       ELSE /\ users' = Put(request[b].email, request[b].password)
            /\ request' = [request EXCEPT ![b].step = "record"]
            /\ proved' = [proved EXCEPT ![b] = @ \cup {request[b].email}]
    /\ UNCHANGED <<recorded, cookie, forms, tokens, astray, faults>>

\* Mutated form of Record: the account is announced nowhere.
RecordNothing(b) ==
    /\ request[b].step = "record"
    /\ SignIn(b, request[b].email)
    /\ Answer(b)
    /\ UNCHANGED <<users, recorded, forms, proved, astray, faults>>

\* 223-228.
Record(b) ==
    /\ request[b].step = "record"
    /\ recorded' = recorded \cup {request[b].email}
    /\ SignIn(b, request[b].email)
    /\ Answer(b)
    /\ UNCHANGED <<users, forms, proved, astray, faults>>

\* logout (611-618).
Logout(b, form) ==
    /\ cookie[b].user # Nobody
    /\ Accept(b, form)
    /\ cookie' = [cookie EXCEPT ![b] = NoCookie]
    /\ UNCHANGED <<users, recorded, forms, request, tokens, proved, faults>>

Fault == faults < MaxFaults /\ faults' = faults + 1

\* The users database is locked: no account.
InsertFails(b) ==
    /\ Fault
    /\ request[b].step = "insert"
    /\ Answer(b)
    /\ UNCHANGED <<users, recorded, cookie, forms, tokens, proved, astray>>

\* The event database is (227): a server error, whose answer carries the new
\* session all the same.
RecordFails(b) ==
    /\ Fault
    /\ request[b].step = "record"
    /\ SignIn(b, request[b].email)
    /\ Answer(b)
    /\ UNCHANGED <<users, recorded, forms, proved, astray>>

\* The process dies and a new one initialises the database: INSERT OR IGNORE
\* (60).  Cookies are the browsers' and stay valid.
Restart ==
    /\ Fault
    /\ users' = IF DemoEmail \in DOMAIN users THEN users ELSE Put(DemoEmail, DemoPassword)
    /\ request' = [b \in Browsers |-> NoRequest]
    /\ UNCHANGED <<recorded, cookie, forms, tokens, proved, astray>>

Next ==
    \/ Restart
    \/ \E b \in Browsers :
          \/ ShowPage(b)
          \/ Insert(b) \/ Record(b)
          \/ InsertFails(b) \/ RecordFails(b)
          \/ \E form \in forms[b] :
                \/ Refuse(b, form) \/ Logout(b, form)
                \/ \E email \in Emails, password \in Passwords :
                      \/ Login(b, form, email, password)
                      \/ Register(b, form, email, password)

Spec == Init /\ [][Next]_vars

-----------------------------------------------------------------------------

Sessions == [user : Emails \cup {Nobody}, token : 0 .. tokens]
Requests == [step : {"insert", "record"}, email : Emails, password : Passwords]

TypeOK ==
    /\ DOMAIN users \subseteq Emails /\ users \in [DOMAIN users -> Passwords]
    /\ recorded \subseteq Emails
    /\ cookie \in [Browsers -> Sessions] /\ forms \in [Browsers -> SUBSET Sessions]
    /\ request \in [Browsers -> Requests \cup {NoRequest}]
    /\ proved \in [Browsers -> SUBSET Emails]
    /\ tokens \in Nat /\ astray \in BOOLEAN /\ faults \in Nat

\* An account, once made, keeps its password: of two registrations of one
\* address one fails, and no restart resets an account.
PasswordsAreNotOverwritten ==
    [][\A e \in DOMAIN users : e \in DOMAIN users' /\ users'[e] = users[e]]_vars

\* A browser is signed in to an account only if it has sent that account's
\* password, in a login or in the registration that made the account.
SessionsAreEarned ==
    \A b \in Browsers : cookie[b].user # Nobody =>
        cookie[b].user \in DOMAIN users /\ cookie[b].user \in proved[b]

\* A form works only in the session it was shown in: after a login, a
\* registration or a logout the pages still open from before have expired.
FormsStayInTheirSession == ~ astray

\* The event log announces the accounts that were made and no others; one is
\* missing only while its registration is under way or after a failure.
RegistrationsAreRecorded ==
    /\ recorded \subseteq DOMAIN users
    /\ \A e \in DOMAIN users \ {DemoEmail} :
          \/ e \in recorded
          \/ \E b \in Browsers : request[b].step = "record" /\ request[b].email = e
          \/ faults > 0
=============================================================================
