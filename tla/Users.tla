------------------------------- MODULE Users -------------------------------
(***************************************************************************)
(* Accounts: signing up with an email, logging in with a password, with a  *)
(* code sent to a phone and with WeChat (web/user.go, web/wechat.go,       *)
(* service/user.go, repository/user.go, repository/dao/user.go,            *)
(* repository/cache/user.go).                                              *)
(*                                                                         *)
(* The first login by phone creates the account, in three statements       *)
(* without a transaction; the unique indexes are all that orders two       *)
(* requests of the same person.  A right code and a right password are     *)
(* outcomes of a request, not modelled further.                            *)
(***************************************************************************)
EXTENDS Naturals, FiniteSets

CONSTANTS Requests,   \* goroutines that serve requests
          People,     \* persons: each has an email, a phone, a WeChat id
          Leading,    \* Leading[p]: the number that the email of p begins with
          MaxId,      \* bound: user ids
          MaxFaults,  \* bound: statements that fail
          None        \* NULL, no row, no entry

VARIABLES
  users,     \* users[i]: the row with the id i
  info,      \* info[i]: the entry user:info:i of redis
  req,       \* what each request is doing
  faults,    \* counts the failed statements, for the bound
  sessions   \* history: the tokens given: to whom, for which login, with which id

vars == <<users, info, req, faults, sessions>>

Ids    == 1 .. MaxId
Logins == {"sms", "wechat", "password"}
Idle   == [at |-> "idle"]

\* The columns are strings: a WeChat id may stand where a phone should.
Phone(p)  == <<"phone", p>>
OpenId(p) == <<"wechat", p>>
Strings   == {"phone", "wechat"} \X People
User      == [email : People \union {None}, phone : Strings \union {None},
              openId : Strings \union {None}]

\* NULL is no person, no string and no row.
Parameters == /\ MaxId \in Nat /\ MaxFaults \in Nat
              /\ None \notin People /\ None \notin Strings /\ None \notin User

Init == /\ users = [i \in Ids |-> None]
        /\ info  = [i \in Ids |-> None]
        /\ req = [r \in Requests |-> Idle]
        /\ faults = 0
        /\ sessions = {}

-----------------------------------------------------------------------------
(* The table. *)

Rows == {i \in Ids : users[i] # None}

FindByPhone(p)  == {i \in Rows : users[i].phone = Phone(p)}
FindByWechat(p) == {i \in Rows : users[i].openId = OpenId(p)}
FindByEmail(p)  == {i \in Rows : users[i].email = p}

\* A unique index has no two equal values, and any number of NULLs.
Clashes(u) == \E i \in Rows : \/ u.email # None /\ users[i].email = u.email
                              \/ u.phone # None /\ users[i].phone = u.phone
                              \/ u.openId # None /\ users[i].openId = u.openId

Insert(u) == /\ ~Clashes(u)
             /\ \E i \in Ids : /\ \A j \in Ids : j < i <=> j \in Rows
                               /\ users' = [users EXCEPT ![i] = u]

NoUser == [email |-> None, phone |-> None, openId |-> None]

Found(p, login) == CASE login = "sms"    -> FindByPhone(p)
                     [] login = "wechat" -> FindByWechat(p)
                     [] OTHER            -> FindByEmail(p)

\* The new user has the phone in the place of the email.
NewUserMisplaced(p, login) ==
  [NoUser EXCEPT !.openId = IF login = "sms" THEN Phone(p) ELSE OpenId(p)]

\* FindOrCrateByWechat puts the WeChat id in the place of the phone.
NewUser(p, login) ==
  [NoUser EXCEPT !.phone = IF login = "sms" THEN Phone(p) ELSE OpenId(p)]

-----------------------------------------------------------------------------
(* A login. *)

To(r, at) == req' = [req EXCEPT ![r].at = at]

\* LoginSMS with a right code, Callback, LoginJWT with a right password.
Login(r, p, login) ==
  /\ req[r].at = "idle"
  /\ req' = [req EXCEPT ![r] = [at |-> "find", who |-> p, login |-> login]]
  /\ UNCHANGED <<users, info, faults, sessions>>

\* A statement fails; the answer is an error.
Fault(r) ==
  /\ req[r].at \in {"find", "create", "again"}
  /\ faults < MaxFaults
  /\ faults' = faults + 1
  /\ req' = [req EXCEPT ![r] = Idle]
  /\ UNCHANGED <<users, info, sessions>>

\* The first query; a password needs an account that exists.
Find(r) ==
  LET ids == Found(req[r].who, req[r].login)
  IN /\ req[r].at = "find"
     /\ \/ \E i \in ids : req' = [req EXCEPT ![r] =
             [at |-> "token", who |-> @.who, login |-> @.login, id |-> i]]
        \/ ids = {} /\ req[r].login # "password" /\ To(r, "create")
        \/ ids = {} /\ req[r].login = "password" /\ req' = [req EXCEPT ![r] = Idle]
     /\ UNCHANGED <<users, info, faults, sessions>>

\* The account is created; a clash on any index is reported as one of the email,
\* and the request fails although the account it wanted is there.
Create(r) ==
  LET u == NewUser(req[r].who, req[r].login)
  IN /\ req[r].at = "create"
     /\ \/ Insert(u) /\ To(r, "again")
        \/ Clashes(u) /\ req' = [req EXCEPT ![r] = Idle] /\ UNCHANGED users
     /\ UNCHANGED <<info, faults, sessions>>

\* The user that Create was given has no id yet.
AgainSkipped(r) ==
  /\ req[r].at = "again"
  /\ req' = [req EXCEPT ![r] = [at |-> "token", who |-> @.who, login |-> @.login, id |-> 1]]
  /\ UNCHANGED <<users, info, faults, sessions>>

\* The account is read back for its id.  That of a WeChat user is not found.
Again(r) ==
  LET ids == Found(req[r].who, req[r].login)
  IN /\ req[r].at = "again"
     /\ \/ \E i \in ids : req' = [req EXCEPT ![r] =
             [at |-> "token", who |-> @.who, login |-> @.login, id |-> i]]
        \/ ids = {} /\ req' = [req EXCEPT ![r] = Idle]
     /\ UNCHANGED <<users, info, faults, sessions>>

SetLoginToken(r) ==
  /\ req[r].at = "token"
  /\ sessions' = sessions \union
       {[who |-> req[r].who, login |-> req[r].login, id |-> req[r].id]}
  /\ req' = [req EXCEPT ![r] = Idle]
  /\ UNCHANGED <<users, info, faults>>

-----------------------------------------------------------------------------
(* Other requests: one statement each. *)

SignUp(p) ==
  /\ Insert([NoUser EXCEPT !.email = p])
  /\ UNCHANGED <<info, req, faults, sessions>>

\* The entry goes where it was looked for.
EntryAsAsked(asked, found) == asked

\* The entry goes where the row says.
Entry(asked, found) == found

\* FindById compares the email with the id: MySQL takes the number that the text
\* begins with.  What it finds, if anything, is put into redis.  An entry that is
\* there, and can be read, is returned and nothing changes.
FindById(asked) ==
  /\ \E i \in Rows : /\ users[i].email # None /\ Leading[users[i].email] = asked
                     /\ \/ info' = [info EXCEPT ![Entry(asked, i)] = users[i]]
                        \/ UNCHANGED info
  /\ UNCHANGED <<users, req, faults, sessions>>

\* Fifteen minutes after it was written.
Expire(i) == /\ info[i] # None
             /\ info' = [info EXCEPT ![i] = None]
             /\ UNCHANGED <<users, req, faults, sessions>>

-----------------------------------------------------------------------------
Next == \/ \E r \in Requests, p \in People, l \in Logins : Login(r, p, l)
        \/ \E r \in Requests : Fault(r) \/ Find(r) \/ Create(r) \/ Again(r) \/ SetLoginToken(r)
        \/ \E p \in People : SignUp(p)
        \/ \E i \in Ids : FindById(i) \/ Expire(i)

Spec == Init /\ [][Next]_vars

\* A request that has begun goes on.
Goes(r)  == Find(r) \/ Create(r) \/ Again(r) \/ SetLoginToken(r)
FairSpec == Spec /\ \A r \in Requests : WF_vars(Goes(r))

-----------------------------------------------------------------------------
(* What is checked. *)

\* The type invariant; no two accounts share an email, a phone or a WeChat id, as
\* the lookups that take the first row assume (dao/user.go:67-97).
TypeOK ==
  /\ users \in [Ids -> User \union {None}]
  /\ info \in [Ids -> User \union {None}]
  /\ \A r \in Requests : req[r].at \in {"idle", "find", "create", "again", "token"}
  /\ faults \in 0 .. MaxFaults
  /\ sessions \in SUBSET [who : People, login : Logins, id : Ids]
  /\ \A p \in People : Cardinality(FindByEmail(p)) <= 1
  /\ \A i, j \in Rows : i # j => users[i].phone = None \/ users[i].phone # users[j].phone

\* A token is for the account of the person who has logged in, whichever request
\* created it and whatever else was created in between (service/user.go:69-104).
OwnAccount == \A s \in sessions : Found(s.who, s.login) = {s.id}

\* ... and nobody shares an email, a phone or a WeChat id with another account:
\* logging in never leads to the account of somebody else.
AccountInv == TypeOK /\ OwnAccount

\* The entry of redis for an id is the row with that id, although the query that
\* fills it does not look for the id (repository/user.go:53-78, dao/user.go:89).
EntryIsRow == \A i \in Ids : info[i] # None => info[i] = users[i]

\* A person who goes on trying to log in by phone gets in: a clash with a request
\* that was faster, and a statement that failed, cost one attempt each.
LoginByPhoneSucceeds ==
  \A p \in People :
    []<>(\E r \in Requests : req[r].at = "find" /\ req[r].who = p /\ req[r].login = "sms")
      => <>(\E s \in sessions : s.who = p /\ s.login = "sms")
=============================================================================
