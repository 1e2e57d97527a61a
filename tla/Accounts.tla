------------------------------ MODULE Accounts ------------------------------
(***************************************************************************)
(* User accounts: services/auth.py behind the endpoints of api/v1/auth.py, *)
(* the user lookup of api/deps.py, and create_superuser.py, over the table *)
(* users (models/user.py).                                                 *)
(*                                                                         *)
(* A request, or a run of the script, is one call.  It goes step by step   *)
(* from one await on PostgreSQL to the next; an INSERT or UPDATE is merged *)
(* with the COMMIT that follows it, since a concurrent INSERT of the same  *)
(* email, or UPDATE of the same row, waits for that COMMIT.  A password is *)
(* stored as itself: what Argon2 adds is that nobody can read it back.     *)
(***************************************************************************)
EXTENDS Naturals

CONSTANTS Requests,   \* calls of the endpoints, and runs of the script
          Ids,        \* primary keys of users
          Emails,     \* email addresses as people type them
          Passwords,  \* passwords as people type them
          Lower,      \* the lower case spelling of an email
          Strip,      \* a password without the white space around it
          Existing,   \* the accounts there are at first
          Faults,     \* which of "db_error", "deactivate" happen
          None

Row == [email : Emails, password : Passwords, active : BOOLEAN, superuser : BOOLEAN]

\* No two rows of a table share an email, nor two signups one but for its case.
OneRowPerMailbox(table) ==
    \A i, j \in Ids :
        table[i] # None /\ table[j] # None =>
            /\ ~table[i].superuser => Lower[table[i].email] = table[i].email
            /\ i # j => table[i].email # table[j].email

\* id: the account a request has inserted, or is authenticated as.
Call == [kind : {"signup", "script", "login", "change"}, email : Emails \union {None},
         password : Passwords, new : Passwords \union {None}, id : Ids \union {None},
         after : SUBSET Requests]

ASSUME AccountsAssumption ==
    /\ Lower \in [Emails -> Emails]
    /\ \A e \in Emails : Lower[Lower[e]] = Lower[e]
    /\ Strip \in [Passwords -> Passwords]
    /\ Existing \subseteq [Ids -> Row \union {None}]
    /\ \A table \in Existing : OneRowPerMailbox(table)
    /\ None \notin Requests \union Ids \union Emails \union Passwords \union Row \union Call

VARIABLES users,      \* the table: a row, or None, for every id
          call,       \* what each request asks for
          pc,         \* where each request is
          seen,       \* the user as the request's session has loaded it
          answer,     \* how each request was answered
          committed,  \* history: requests whose transaction committed
          failed,     \* history: requests that met a database error
          past        \* history: the passwords each account has had

vars == <<users, call, pc, seen, answer, committed, failed, past>>


Labels == {"start", "insert", "change", "refresh", "done"}

(***************************************************************************)
(* created: 201, or the script's last line; taken: 409, or the script's    *)
(* first; denied and inactive: 401; token and changed: 200; error: 500, or *)
(* the script's traceback.                                                 *)
(***************************************************************************)
Answers == {"pending", "created", "taken", "denied", "inactive", "token",
            "changed", "error"}

TypeOK ==
    /\ users \in [Ids -> Row \union {None}]
    /\ call \in [Requests -> Call \union {None}]
    /\ pc \in [Requests -> Labels]
    /\ seen \in [Requests -> Row \union {None}]
    /\ answer \in [Requests -> Answers]
    /\ committed \subseteq Requests
    /\ failed \subseteq Requests
    /\ past \in [Ids -> SUBSET Passwords]

\* Accounts that are there at first have come from a signup or from the script.
Init ==
    /\ users \in Existing
    /\ call = [r \in Requests |-> None]
    /\ pc = [r \in Requests |-> "start"]
    /\ seen = [r \in Requests |-> None]
    /\ answer = [r \in Requests |-> "pending"]
    /\ committed = {}
    /\ failed = {}
    /\ past = [i \in Ids |-> IF users[i] = None THEN {} ELSE {users[i].password}]

HasEmail(i, e) == users[i] # None /\ users[i].email = e
Taken(e)       == \E i \in Ids : HasEmail(i, e)

Answered == {r \in Requests : pc[r] = "done"}

Goto(r, label) == pc' = [pc EXCEPT ![r] = label]
Answer(r, a)   == answer' = [answer EXCEPT ![r] = a] /\ Goto(r, "done")
Ask(r, c)      == call' = [call EXCEPT ![r] = c]

\* A column without its unique index.
Free_Mutant(e) == TRUE

\* users.email is unique (models/user.py); create_superuser relies on it too.
Free(e) == ~Taken(e)
-----------------------------------------------------------------------------
\* The schema without its lowercase_email validator.
CheckEmail_Mutant(r, e, p) ==
    /\ pc[r] = "start"
    /\ Ask(r, [kind |-> "signup", email |-> e, password |-> Strip[p],
               new |-> None, id |-> None, after |-> Answered])
    /\ IF Taken(e)
         THEN Answer(r, "taken")
         ELSE Goto(r, "insert") /\ UNCHANGED answer
    /\ UNCHANGED <<users, seen, committed, failed, past>>

(***************************************************************************)
(* register, to its first await: UserCreate has lowered the email and      *)
(* stripped the password; SELECT EXISTS.                                   *)
(***************************************************************************)
CheckEmail(r, e, p) ==
    /\ pc[r] = "start"
    /\ Ask(r, [kind |-> "signup", email |-> Lower[e], password |-> Strip[p],
               new |-> None, id |-> None, after |-> Answered])
    /\ IF Taken(Lower[e])
         THEN Answer(r, "taken")
         ELSE Goto(r, "insert") /\ UNCHANGED answer
    /\ UNCHANGED <<users, seen, committed, failed, past>>

\* create_superuser, to its first await: no schema, the email as it was typed.
CheckSuperuser(r, e, p) ==
    /\ pc[r] = "start"
    /\ Ask(r, [kind |-> "script", email |-> e, password |-> p,
               new |-> None, id |-> None, after |-> Answered])
    /\ IF Taken(e)
         THEN Answer(r, "taken")
         ELSE Goto(r, "insert") /\ UNCHANGED answer
    /\ UNCHANGED <<users, seen, committed, failed, past>>

\* A user without the is_superuser flag.
NewUser_Mutant(r) ==
    [email |-> call[r].email, password |-> call[r].password, active |-> TRUE]

NewUser(r) ==
    [email |-> call[r].email, password |-> call[r].password,
     active |-> TRUE, superuser |-> call[r].kind = "script"]

\* The INSERT, committed.
Store(r, i) ==
    /\ users[i] = None
    /\ Free(call[r].email)
    /\ users' = [users EXCEPT ![i] = NewUser(r)]
    /\ call' = [call EXCEPT ![r].id = i]
    /\ committed' = committed \union {r}
    /\ past' = [past EXCEPT ![i] = {call[r].password}]

(***************************************************************************)
(* The INSERT and COMMIT of register or create_superuser: the unique index *)
(* refuses an email that another call has taken since the check, and       *)
(* register has no answer for that but the IntegrityError.                 *)
(***************************************************************************)
InsertUser(r) ==
    /\ pc[r] = "insert"
    /\ \/ /\ \E i \in Ids : Store(r, i)
          /\ IF call[r].kind = "script"
               THEN Answer(r, "created")
               ELSE Goto(r, "refresh") /\ UNCHANGED answer
       \/ /\ ~Free(call[r].email)
          /\ Answer(r, "error")
          /\ UNCHANGED <<users, call, committed, past>>
    /\ UNCHANGED <<seen, failed>>

\* register and change_password: refresh, and the answer.
RefreshUser(r) ==
    /\ pc[r] = "refresh"
    /\ Answer(r, IF call[r].kind = "signup" THEN "created" ELSE "changed")
    /\ UNCHANGED <<users, call, seen, committed, failed, past>>

(***************************************************************************)
(* authenticate: one SELECT by the email as it was typed, for the form of  *)
(* the login endpoint neither lowers nor strips, and the checks on what it *)
(* returned.                                                               *)
(***************************************************************************)
Authenticate(r, e, p) ==
    /\ pc[r] = "start"
    /\ \/ \E i \in Ids :
             /\ HasEmail(i, e)
             /\ Ask(r, [kind |-> "login", email |-> e, password |-> p,
                        new |-> None, id |-> i, after |-> Answered])
             /\ Answer(r, IF users[i].password # p THEN "denied"
                          ELSE IF users[i].active THEN "token" ELSE "inactive")
       \/ /\ ~Taken(e)
          /\ Ask(r, [kind |-> "login", email |-> e, password |-> p,
                     new |-> None, id |-> None, after |-> Answered])
          /\ Answer(r, "denied")
    /\ UNCHANGED <<users, seen, committed, failed, past>>

(***************************************************************************)
(* get_current_user, for a request to change a password: a token that does *)
(* not decode, has expired or names nobody is refused; otherwise the       *)
(* session loads the user, whether active or not.                          *)
(***************************************************************************)
GetCurrentUser(r, i, old, new) ==
    /\ pc[r] = "start"
    /\ Ask(r, [kind |-> "change", email |-> None, password |-> Strip[old],
               new |-> Strip[new], id |-> i, after |-> Answered])
    /\ \/ /\ users[i] # None
          /\ seen' = [seen EXCEPT ![r] = users[i]]
          /\ Goto(r, "change")
          /\ UNCHANGED answer
       \/ /\ Answer(r, "denied")
          /\ UNCHANGED seen
    /\ UNCHANGED <<users, committed, failed, past>>

\* The old password is one that the session has seen.
Verified(r) == call[r].password = seen[r].password

\* An UPDATE of all columns, from the user as it was loaded.
Update_Mutant(r) ==
    LET i == call[r].id IN
    /\ users' = [users EXCEPT ![i] = [seen[r] EXCEPT !.password = call[r].new]]
    /\ committed' = committed \union {r}
    /\ past' = [past EXCEPT ![i] = @ \union {call[r].new}]

\* The UPDATE, committed: SQLAlchemy writes the column that was assigned.
Update(r) ==
    LET i == call[r].id IN
    /\ users' = [users EXCEPT ![i].password = call[r].new]
    /\ committed' = committed \union {r}
    /\ past' = [past EXCEPT ![i] = @ \union {call[r].new}]

\* A change that does not ask for the old password.
ChangePassword_Mutant(r) ==
    /\ pc[r] = "change"
    /\ Update(r)
    /\ Goto(r, "refresh")
    /\ UNCHANGED <<call, seen, answer, failed>>

\* A change that is committed before the old password is looked at.
ChangePassword_LateMutant(r) ==
    /\ pc[r] = "change"
    /\ Update(r)
    /\ IF Verified(r)
         THEN Goto(r, "refresh") /\ UNCHANGED answer
         ELSE Answer(r, "denied")
    /\ UNCHANGED <<call, seen, failed>>

(***************************************************************************)
(* change_password: get returns the user that get_current_user has loaded  *)
(* into this session, without another SELECT and without a lock; the old   *)
(* password is compared with that copy, and the new one committed.         *)
(***************************************************************************)
ChangePassword(r) ==
    /\ pc[r] = "change"
    /\ IF Verified(r)
         THEN Update(r) /\ Goto(r, "refresh") /\ UNCHANGED answer
         ELSE Answer(r, "denied") /\ UNCHANGED <<users, committed, past>>
    /\ UNCHANGED <<call, seen, failed>>

(***************************************************************************)
(* SQLAlchemyError: at an INSERT or UPDATE, whose COMMIT may have gone     *)
(* through before the connection broke, or at the refresh after it.        *)
(***************************************************************************)
DbError(r) ==
    /\ \/ /\ pc[r] \in {"insert", "change", "refresh"}
          /\ UNCHANGED <<users, call, committed, past>>
       \/ /\ pc[r] = "insert"
          /\ \E i \in Ids : Store(r, i)
       \/ /\ pc[r] = "change"
          /\ Verified(r)
          /\ Update(r)
          /\ UNCHANGED call
    /\ failed' = failed \union {r}
    /\ Answer(r, "error")
    /\ UNCHANGED seen

\* An operator sets is_active to false: no endpoint does.
Deactivate(i) ==
    /\ users[i] # None
    /\ users[i].active
    /\ users' = [users EXCEPT ![i].active = FALSE]
    /\ UNCHANGED <<call, pc, seen, answer, committed, failed, past>>

Begin(r) ==
    \/ \E e \in Emails, p \in Passwords :
          CheckEmail(r, e, p) \/ CheckSuperuser(r, e, p) \/ Authenticate(r, e, p)
    \/ \E i \in Ids, old, new \in Passwords : GetCurrentUser(r, i, old, new)

Continue(r) == InsertUser(r) \/ RefreshUser(r) \/ ChangePassword(r)

\* Nobody has asked for anything that is not answered.
Quiet == Answered = Requests /\ UNCHANGED vars

Next ==
    \/ \E r \in Requests : Begin(r) \/ Continue(r)
    \/ "db_error" \in Faults /\ \E r \in Requests : DbError(r)
    \/ "deactivate" \in Faults /\ \E i \in Ids : Deactivate(i)
    \/ Quiet

Spec == Init /\ [][Next]_vars
-----------------------------------------------------------------------------
(***************************************************************************)
(* However registrations and runs of the script interleave between their   *)
(* check and their insert, an email has one account, and two accounts that *)
(* come from signups differ by more than upper and lower case.             *)
(***************************************************************************)
OneAccountPerMailbox == OneRowPerMailbox(users)

(***************************************************************************)
(* How a registration is answered says what became of it: 201 only to the  *)
(* call that owns the account, 409 only if there is one, and a 500 without *)
(* a database error only to a call that lost the race for the email and    *)
(* has stored nothing.  Whoever wins, a signup never yields a superuser.   *)
(***************************************************************************)
RegistrationsAreDecided ==
    \A r \in Answered : call[r].kind \in {"signup", "script"} =>
        /\ answer[r] = "created" =>
              /\ HasEmail(call[r].id, call[r].email)
              /\ users[call[r].id].superuser <=> call[r].kind = "script"
              /\ \A q \in Answered \ {r} :
                    answer[q] = "created" => call[q].email # call[r].email
        /\ answer[r] = "taken" => Taken(call[r].email)
        /\ answer[r] = "error" /\ r \notin failed =>
              Taken(call[r].email) /\ r \notin committed

(***************************************************************************)
(* A refusal (4xx) leaves nothing behind, and a success is committed.  Of  *)
(* a 500 the client learns nothing, unless no database error happened.     *)
(***************************************************************************)
AnswersMatchEffects ==
    \A r \in Answered :
        /\ answer[r] \in {"taken", "denied", "inactive", "token"} => r \notin committed
        /\ answer[r] \in {"created", "changed"} => r \in committed

(***************************************************************************)
(* Whoever has signed up, and then logs in with the same email and the     *)
(* same password, is refused only if the account's password has changed    *)
(* since, or if what was typed is not what the schema stored: an email     *)
(* with a capital letter, a password with white space around it.           *)
(***************************************************************************)
NewAccountsCanLogIn ==
    \A s, l \in Answered :
        /\ call[s].kind = "signup" /\ answer[s] = "created"
        /\ call[l].kind = "login" /\ s \in call[l].after
        /\ call[l].email = call[s].email /\ call[l].password = call[s].password
        /\ past[call[s].id] = {call[s].password}
        => answer[l] \in {"token", "inactive"}

(***************************************************************************)
(* A password is replaced only by a call that knew one the account had     *)
(* had by then: the current one, or, since the check is on a loaded copy,  *)
(* one that another change has replaced in the meantime.                   *)
(***************************************************************************)
PasswordsAreProved ==
    \A r \in committed : call[r].kind = "change" =>
        call[r].password \in past[call[r].id]

(***************************************************************************)
(* No interleaving of changes, registrations and deactivations removes an  *)
(* account, gives it another email or other rights, or makes it active     *)
(* again: a change writes back nothing but the password from the copy it   *)
(* has loaded before its await.                                            *)
(***************************************************************************)
AccountsKeepTheirIdentity ==
    [][\A i \in Ids : users[i] # None =>
          /\ users'[i] # None
          /\ users'[i].email = users[i].email
          /\ users'[i].superuser = users[i].superuser
          /\ users'[i].active => users[i].active]_vars
=============================================================================
