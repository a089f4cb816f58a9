--------------------------- MODULE AccountsProofs ---------------------------
(* Accounts, sessions and forms for any number of browsers, addresses and   *)
(* passwords, and any number of failures and restarts.                      *)
EXTENDS Accounts, TLAPS

\* Why sessions are earned: a registration that is about to open one has
\* proved its password when its row went in.
EarnedInv ==
    \A b \in Browsers :
        /\ proved[b] \subseteq DOMAIN users
        /\ cookie[b].user # Nobody => cookie[b].user \in proved[b]
        /\ request[b].step = "record" => request[b].email \in proved[b]

\* Why forms stay in their session: a token belongs to one session, since a
\* change of the session draws another (173-176, 223-226) or drops it (616).
FormsInv ==
    /\ ~ astray
    /\ \A b \in Browsers : \A f \in forms[b] :
          f.token # 0 /\ f.token = cookie[b].token => f.user = cookie[b].user

\* The first start of the application.
LEMMA InitHolds == Init => TypeOK /\ EarnedInv /\ FormsInv /\ RegistrationsAreRecorded
<1> SUFFICES ASSUME Init PROVE TypeOK /\ EarnedInv /\ FormsInv /\ RegistrationsAreRecorded
  OBVIOUS
<1> USE AccountsAssumption DEF Init, NoCookie, NoRequest
<1>1. TypeOK
  <2>1. DOMAIN users \subseteq Emails /\ users \in [DOMAIN users -> Passwords]
    OBVIOUS
  <2>2. cookie \in [Browsers -> Sessions] /\ forms \in [Browsers -> SUBSET Sessions]
    BY DEF Sessions
  <2> QED
    BY <2>1, <2>2 DEF TypeOK
<1>2. EarnedInv
  BY DEF EarnedInv
<1>3. FormsInv
  BY DEF FormsInv
<1>4. RegistrationsAreRecorded
  BY DEF RegistrationsAreRecorded
<1> QED
  BY <1>1, <1>2, <1>3, <1>4

\* No request, failure or restart leaves the types.
LEMMA TypeStep == TypeOK /\ [Next]_vars => TypeOK'
<1> SUFFICES ASSUME TypeOK, [Next]_vars PROVE TypeOK'
  OBVIOUS
<1> USE AccountsAssumption DEF TypeOK, Sessions, Requests, NoCookie, NoRequest
<1>1. CASE Restart
  BY <1>1 DEF Restart, Fault, Put
<1>2. ASSUME NEW b \in Browsers, ShowPage(b)
      PROVE  TypeOK'
  BY <1>2 DEF ShowPage, Idle, Draw
<1>3. ASSUME NEW b \in Browsers, NEW form \in forms[b], Refuse(b, form)
      PROVE  TypeOK'
  BY <1>3 DEF Refuse, vars
<1>4. ASSUME NEW b \in Browsers, NEW form \in forms[b], Logout(b, form)
      PROVE  TypeOK'
  BY <1>4 DEF Logout, Accept, Idle, ValidCsrf
<1>5. ASSUME NEW b \in Browsers, NEW form \in forms[b], NEW email \in Emails,
             NEW password \in Passwords, Login(b, form, email, password)
      PROVE  TypeOK'
  BY <1>5 DEF Login, Accept, Idle, ValidCsrf, SignIn, Draw
<1>6. ASSUME NEW b \in Browsers, NEW form \in forms[b], NEW email \in Emails,
             NEW password \in Passwords, Register(b, form, email, password)
      PROVE  TypeOK'
  BY <1>6 DEF Register, Accept, Idle, ValidCsrf
<1>7. ASSUME NEW b \in Browsers, Insert(b)
      PROVE  TypeOK'
  BY <1>7 DEF Insert, Answer, Put
<1>8. ASSUME NEW b \in Browsers, Record(b)
      PROVE  TypeOK'
  BY <1>8 DEF Record, SignIn, Draw, Answer
<1>9. ASSUME NEW b \in Browsers, InsertFails(b)
      PROVE  TypeOK'
  BY <1>9 DEF InsertFails, Fault, Answer
<1>10. ASSUME NEW b \in Browsers, RecordFails(b)
      PROVE  TypeOK'
  BY <1>10 DEF RecordFails, Fault, SignIn, Draw, Answer
<1>11. CASE UNCHANGED vars
  BY <1>11 DEF vars
<1> QED
  BY <1>1, <1>2, <1>3, <1>4, <1>5, <1>6, <1>7, <1>8, <1>9, <1>10, <1>11 DEF Next

\* A session is opened only with a password that was compared or stored.
LEMMA EarnedStep == TypeOK /\ EarnedInv /\ [Next]_vars => EarnedInv'
<1> SUFFICES ASSUME TypeOK /\ EarnedInv, [Next]_vars PROVE EarnedInv'
  OBVIOUS
<1> USE AccountsAssumption DEF TypeOK, Sessions, Requests, NoCookie, NoRequest, EarnedInv
<1>1. CASE Restart
  BY <1>1 DEF Restart, Fault, Put
<1>2. ASSUME NEW b \in Browsers, ShowPage(b)
      PROVE  EarnedInv'
  BY <1>2 DEF ShowPage, Idle, Draw
<1>3. ASSUME NEW b \in Browsers, NEW form \in forms[b], Refuse(b, form)
      PROVE  EarnedInv'
  BY <1>3 DEF Refuse, vars
<1>4. ASSUME NEW b \in Browsers, NEW form \in forms[b], Logout(b, form)
      PROVE  EarnedInv'
  BY <1>4 DEF Logout, Accept, Idle, ValidCsrf
<1>5. ASSUME NEW b \in Browsers, NEW form \in forms[b], NEW email \in Emails,
             NEW password \in Passwords, Login(b, form, email, password)
      PROVE  EarnedInv'
  BY <1>5 DEF Login, Accept, Idle, ValidCsrf, SignIn, Draw
<1>6. ASSUME NEW b \in Browsers, NEW form \in forms[b], NEW email \in Emails,
             NEW password \in Passwords, Register(b, form, email, password)
      PROVE  EarnedInv'
  BY <1>6 DEF Register, Accept, Idle, ValidCsrf
<1>7. ASSUME NEW b \in Browsers, Insert(b)
      PROVE  EarnedInv'
  BY <1>7 DEF Insert, Answer, Put
<1>8. ASSUME NEW b \in Browsers, Record(b)
      PROVE  EarnedInv'
  BY <1>8 DEF Record, SignIn, Draw, Answer
<1>9. ASSUME NEW b \in Browsers, InsertFails(b)
      PROVE  EarnedInv'
  BY <1>9 DEF InsertFails, Fault, Answer
<1>10. ASSUME NEW b \in Browsers, RecordFails(b)
      PROVE  EarnedInv'
  BY <1>10 DEF RecordFails, Fault, SignIn, Draw, Answer
<1>11. CASE UNCHANGED vars
  BY <1>11 DEF vars
<1> QED
  BY <1>1, <1>2, <1>3, <1>4, <1>5, <1>6, <1>7, <1>8, <1>9, <1>10, <1>11 DEF Next

\* A new token is on no form yet, and a form is accepted with the token of
\* its own session only.
LEMMA FormsStep == TypeOK /\ FormsInv /\ [Next]_vars => FormsInv'
<1> SUFFICES ASSUME TypeOK /\ FormsInv, [Next]_vars PROVE FormsInv'
  OBVIOUS
<1> USE AccountsAssumption DEF TypeOK, Sessions, Requests, NoCookie, NoRequest, FormsInv
<1>1. CASE Restart
  BY <1>1 DEF Restart, Fault, Put
<1>2. ASSUME NEW b \in Browsers, ShowPage(b)
      PROVE  FormsInv'
  BY <1>2 DEF ShowPage, Idle, Draw
<1>3. ASSUME NEW b \in Browsers, NEW form \in forms[b], Refuse(b, form)
      PROVE  FormsInv'
  BY <1>3 DEF Refuse, vars
<1>4. ASSUME NEW b \in Browsers, NEW form \in forms[b], Logout(b, form)
      PROVE  FormsInv'
  BY <1>4 DEF Logout, Accept, Idle, ValidCsrf
<1>5. ASSUME NEW b \in Browsers, NEW form \in forms[b], NEW email \in Emails,
             NEW password \in Passwords, Login(b, form, email, password)
      PROVE  FormsInv'
  BY <1>5 DEF Login, Accept, Idle, ValidCsrf, SignIn, Draw
<1>6. ASSUME NEW b \in Browsers, NEW form \in forms[b], NEW email \in Emails,
             NEW password \in Passwords, Register(b, form, email, password)
      PROVE  FormsInv'
  BY <1>6 DEF Register, Accept, Idle, ValidCsrf
<1>7. ASSUME NEW b \in Browsers, Insert(b)
      PROVE  FormsInv'
  BY <1>7 DEF Insert, Answer, Put
<1>8. ASSUME NEW b \in Browsers, Record(b)
      PROVE  FormsInv'
  BY <1>8 DEF Record, SignIn, Draw, Answer
<1>9. ASSUME NEW b \in Browsers, InsertFails(b)
      PROVE  FormsInv'
  BY <1>9 DEF InsertFails, Fault, Answer
<1>10. ASSUME NEW b \in Browsers, RecordFails(b)
      PROVE  FormsInv'
  BY <1>10 DEF RecordFails, Fault, SignIn, Draw, Answer
<1>11. CASE UNCHANGED vars
  BY <1>11 DEF vars
<1> QED
  BY <1>1, <1>2, <1>3, <1>4, <1>5, <1>6, <1>7, <1>8, <1>9, <1>10, <1>11 DEF Next

\* An account is on its way to the event log until its row is there.
LEMMA RecordedStep == TypeOK /\ EarnedInv /\ RegistrationsAreRecorded /\ [Next]_vars => RegistrationsAreRecorded'
<1> SUFFICES ASSUME TypeOK /\ EarnedInv /\ RegistrationsAreRecorded, [Next]_vars PROVE RegistrationsAreRecorded'
  OBVIOUS
<1> USE AccountsAssumption DEF TypeOK, Sessions, Requests, NoCookie, NoRequest, EarnedInv, RegistrationsAreRecorded
<1>1. CASE Restart
  BY <1>1 DEF Restart, Fault, Put
<1>2. ASSUME NEW b \in Browsers, ShowPage(b)
      PROVE  RegistrationsAreRecorded'
  BY <1>2 DEF ShowPage, Idle, Draw
<1>3. ASSUME NEW b \in Browsers, NEW form \in forms[b], Refuse(b, form)
      PROVE  RegistrationsAreRecorded'
  BY <1>3 DEF Refuse, vars
<1>4. ASSUME NEW b \in Browsers, NEW form \in forms[b], Logout(b, form)
      PROVE  RegistrationsAreRecorded'
  BY <1>4 DEF Logout, Accept, Idle, ValidCsrf
<1>5. ASSUME NEW b \in Browsers, NEW form \in forms[b], NEW email \in Emails,
             NEW password \in Passwords, Login(b, form, email, password)
      PROVE  RegistrationsAreRecorded'
  BY <1>5 DEF Login, Accept, Idle, ValidCsrf, SignIn, Draw
<1>6. ASSUME NEW b \in Browsers, NEW form \in forms[b], NEW email \in Emails,
             NEW password \in Passwords, Register(b, form, email, password)
      PROVE  RegistrationsAreRecorded'
  BY <1>6 DEF Register, Accept, Idle, ValidCsrf
<1>7. ASSUME NEW b \in Browsers, Insert(b)
      PROVE  RegistrationsAreRecorded'
  <2>1. CASE request[b].email \in DOMAIN users
    BY <1>7, <2>1 DEF Insert, Answer
  <2>2. CASE request[b].email \notin DOMAIN users
    <3>1. /\ DOMAIN users' = DOMAIN users \cup {request[b].email}
          /\ recorded' = recorded /\ faults' = faults
          /\ request' = [request EXCEPT ![b].step = "record"]
      BY <1>7, <2>2 DEF Insert, Put
    <3>2. request[b] \in Requests
      BY <1>7 DEF Insert
    <3>3. /\ request'[b].step = "record" /\ request'[b].email = request[b].email
          /\ \A c \in Browsers : c # b => request'[c] = request[c]
      BY <3>1, <3>2
    <3>4. request[b].step = "insert"
      BY <1>7 DEF Insert
    <3> QED
      BY <3>1, <3>3, <3>4
  <2> QED
    BY <2>1, <2>2
<1>8. ASSUME NEW b \in Browsers, Record(b)
      PROVE  RegistrationsAreRecorded'
  BY <1>8 DEF Record, SignIn, Draw, Answer
<1>9. ASSUME NEW b \in Browsers, InsertFails(b)
      PROVE  RegistrationsAreRecorded'
  BY <1>9 DEF InsertFails, Fault, Answer
<1>10. ASSUME NEW b \in Browsers, RecordFails(b)
      PROVE  RegistrationsAreRecorded'
  BY <1>10 DEF RecordFails, Fault, SignIn, Draw, Answer
<1>11. CASE UNCHANGED vars
  BY <1>11 DEF vars
<1> QED
  BY <1>1, <1>2, <1>3, <1>4, <1>5, <1>6, <1>7, <1>8, <1>9, <1>10, <1>11 DEF Next

\* No step takes an account away or changes its password.
\* Every account is there after the step, with its password.
Kept == \A e \in DOMAIN users : e \in DOMAIN users' /\ users'[e] = users[e]

\* The same of one step.
LEMMA PasswordsStep == TypeOK /\ [Next]_vars => Kept
<1> SUFFICES ASSUME TypeOK, [Next]_vars PROVE Kept
  OBVIOUS
<1> USE AccountsAssumption DEF TypeOK, Sessions, Requests, NoCookie, NoRequest, Kept
<1>1. CASE Restart
  BY <1>1 DEF Restart, Fault, Put
<1>2. ASSUME NEW b \in Browsers, ShowPage(b)
      PROVE  Kept
  BY <1>2 DEF ShowPage, Idle, Draw
<1>3. ASSUME NEW b \in Browsers, NEW form \in forms[b], Refuse(b, form)
      PROVE  Kept
  BY <1>3 DEF Refuse, vars
<1>4. ASSUME NEW b \in Browsers, NEW form \in forms[b], Logout(b, form)
      PROVE  Kept
  BY <1>4 DEF Logout, Accept, Idle, ValidCsrf
<1>5. ASSUME NEW b \in Browsers, NEW form \in forms[b], NEW email \in Emails,
             NEW password \in Passwords, Login(b, form, email, password)
      PROVE  Kept
  BY <1>5 DEF Login, Accept, Idle, ValidCsrf, SignIn, Draw
<1>6. ASSUME NEW b \in Browsers, NEW form \in forms[b], NEW email \in Emails,
             NEW password \in Passwords, Register(b, form, email, password)
      PROVE  Kept
  BY <1>6 DEF Register, Accept, Idle, ValidCsrf
<1>7. ASSUME NEW b \in Browsers, Insert(b)
      PROVE  Kept
  BY <1>7 DEF Insert, Answer, Put
<1>8. ASSUME NEW b \in Browsers, Record(b)
      PROVE  Kept
  BY <1>8 DEF Record, SignIn, Draw, Answer
<1>9. ASSUME NEW b \in Browsers, InsertFails(b)
      PROVE  Kept
  BY <1>9 DEF InsertFails, Fault, Answer
<1>10. ASSUME NEW b \in Browsers, RecordFails(b)
      PROVE  Kept
  BY <1>10 DEF RecordFails, Fault, SignIn, Draw, Answer
<1>11. CASE UNCHANGED vars
  BY <1>11 DEF vars
<1> QED
  BY <1>1, <1>2, <1>3, <1>4, <1>5, <1>6, <1>7, <1>8, <1>9, <1>10, <1>11 DEF Next

-----------------------------------------------------------------------------

\* The inductive invariant holds in every reachable state.
THEOREM AccountsInvariant ==
    Spec => [](TypeOK /\ EarnedInv /\ FormsInv /\ RegistrationsAreRecorded)
BY InitHolds, TypeStep, EarnedStep, FormsStep, RecordedStep, PTL DEF Spec

\* A browser is signed in to an account only after it has sent that account's
\* password (app/__init__.py:149-228), however many browsers register and log
\* in at once.
THEOREM SessionsEarned == Spec => []SessionsAreEarned
<1>1. TypeOK /\ EarnedInv => SessionsAreEarned
  BY DEF TypeOK, EarnedInv, SessionsAreEarned
<1> QED
  BY <1>1, AccountsInvariant, PTL

\* A form works only in the session it was shown in (77-86).
THEOREM FormsStay == Spec => []FormsStayInTheirSession
<1>1. FormsInv => FormsStayInTheirSession
  BY DEF FormsInv, FormsStayInTheirSession
<1> QED
  BY <1>1, AccountsInvariant, PTL

\* Every account has its event, or is about to, or something failed (227).
THEOREM RegistrationsRecorded == Spec => []RegistrationsAreRecorded
BY AccountsInvariant, PTL

\* No registration and no restart changes the password of an account that is
\* there (60, 214-222).
THEOREM PasswordsStay == Spec => PasswordsAreNotOverwritten
<1>1. TypeOK /\ [Next]_vars
        => [\A e \in DOMAIN users : e \in DOMAIN users' /\ users'[e] = users[e]]_vars
  BY PasswordsStep DEF Kept
<1> QED
  BY <1>1, AccountsInvariant, PTL DEF Spec, PasswordsAreNotOverwritten
=============================================================================
