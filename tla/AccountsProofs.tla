--------------------------- MODULE AccountsProofs ---------------------------
(***************************************************************************)
(* Theorems about Accounts, for any number of requests, accounts and       *)
(* passwords.  What a request relies on about the table is kept by every   *)
(* step of the others because accounts only ever grow (Grows): so each     *)
(* action has to establish its own request's Stage, and Step adds the rest.*)
(***************************************************************************)
EXTENDS Accounts, TLAPS

Registers(r) == call[r].kind \in {"signup", "script"}

\* What holds of a request while it waits for its next step.
Waiting(r) ==
    /\ pc[r] = "start" => r \notin committed /\ r \notin failed
    /\ pc[r] # "start" => call[r] # None /\ call[r].after \subseteq Answered \ {r}
    /\ pc[r] = "insert" =>
         /\ Registers(r) /\ r \notin committed /\ r \notin failed
         /\ call[r].email \in Emails
         /\ call[r].kind = "signup" => Lower[call[r].email] = call[r].email
    /\ pc[r] = "change" =>
         /\ call[r].kind = "change" /\ r \notin committed
         /\ call[r].id \in Ids /\ call[r].new \in Passwords
         /\ users[call[r].id] # None /\ seen[r] # None
         /\ seen[r].password \in past[call[r].id]
    /\ pc[r] = "refresh" => r \in committed /\ call[r].kind \in {"signup", "change"}

\* What holds of a request that has committed.
Lasting(r) ==
    r \in committed =>
        /\ call[r].id \in Ids
        /\ users[call[r].id] # None
        /\ Registers(r) => /\ HasEmail(call[r].id, call[r].email)
                           /\ users[call[r].id].superuser <=> call[r].kind = "script"
        /\ call[r].kind = "change" => call[r].password \in past[call[r].id]

\* What holds of a request that has been answered.
Settled(r) ==
    pc[r] = "done" =>
        /\ answer[r] \in {"created", "changed"} => r \in committed
        /\ answer[r] = "created" => Registers(r)
        /\ answer[r] \in {"taken", "denied", "inactive", "token"} => r \notin committed
        /\ Registers(r) /\ answer[r] = "taken" => Taken(call[r].email)
        /\ Registers(r) /\ answer[r] = "error" /\ r \notin failed =>
             Taken(call[r].email) /\ r \notin committed

Stage(r) == Waiting(r) /\ Lasting(r) /\ Settled(r)

\* Two registrations never own the same row.
OwnersDiffer ==
    \A r, q \in committed : Registers(r) /\ Registers(q) /\ r # q =>
        call[r].id # call[q].id

\* The current password is among those the account has had.
Remembered == \A i \in Ids : users[i] # None => users[i].password \in past[i]

IInv ==
    /\ TypeOK
    /\ OneAccountPerMailbox
    /\ Remembered
    /\ OwnersDiffer
    /\ \A r \in Requests : Stage(r)
    /\ NewAccountsCanLogIn
-----------------------------------------------------------------------------
\* Accounts stay, with their email and rights, and remember their passwords.
Grows ==
    \A i \in Ids : users[i] # None =>
        /\ users'[i] # None
        /\ users'[i].email = users[i].email
        /\ users'[i].superuser = users[i].superuser
        /\ users'[i].active => users[i].active
        /\ past[i] \subseteq past'[i]

\* A step does not touch what belongs to request q.
Leaves(q) ==
    /\ call'[q] = call[q] /\ pc'[q] = pc[q] /\ seen'[q] = seen[q]
    /\ answer'[q] = answer[q]
    /\ q \in committed' <=> q \in committed
    /\ q \in failed' <=> q \in failed

\* Whatever others do, what a request relies on stays true.
LEMMA Others ==
    ASSUME TypeOK, Grows, Answered \subseteq Answered',
           NEW q \in Requests, Stage(q), Leaves(q)
    PROVE  Stage(q)'
<1>1. Waiting(q)'
  BY DEF Stage, Waiting, Leaves, Grows, Registers
<1>2. Lasting(q)'
  BY DEF Stage, Lasting, Leaves, Grows, Registers, HasEmail, Waiting, TypeOK, Call
<1>3. Settled(q)'
  BY DEF Stage, Settled, Leaves, Registers, Taken, HasEmail, Grows
<1> QED BY <1>1, <1>2, <1>3 DEF Stage

\* If the step answers a login of a new account, it lets the user in.
LogsIn(r) ==
    \A s \in Answered :
        /\ pc'[r] = "done" /\ call'[r].kind = "login"
        /\ call[s].kind = "signup" /\ answer[s] = "created"
        /\ call[s].email = call'[r].email /\ call[s].password = call'[r].password
        /\ past'[call[s].id] = {call[s].password}
        => answer'[r] \in {"token", "inactive"}

\* The part of a step's lemma that is the same for all: r moves, nobody else.
LEMMA Step ==
    ASSUME IInv, TypeOK', NEW r \in Requests, pc[r] # "done",
           \A q \in Requests \ {r} : Leaves(q),
           Grows, Stage(r)', OneAccountPerMailbox', Remembered', OwnersDiffer',
           LogsIn(r)
    PROVE  IInv'
<1>1. Answered \subseteq Answered'
  BY DEF Answered, Leaves
<1>2. \A q \in Requests : Stage(q)'
  <2> SUFFICES ASSUME NEW q \in Requests, q # r PROVE Stage(q)'
    OBVIOUS
  <2> QED BY <1>1, Others DEF IInv
<1>3. NewAccountsCanLogIn'
  <2> SUFFICES ASSUME NEW s \in Answered', NEW l \in Answered',
                      call'[s].kind = "signup", answer'[s] = "created",
                      call'[l].kind = "login", s \in call'[l].after,
                      call'[l].email = call'[s].email,
                      call'[l].password = call'[s].password,
                      past'[call'[s].id] = {call'[s].password}
               PROVE  answer'[l] \in {"token", "inactive"}
    BY DEF NewAccountsCanLogIn
  <2>0. s \in Requests /\ l \in Requests /\ r \notin Answered
    BY DEF Answered
  <2>1. CASE l = r
    <3>1. s # r
      BY <2>0, <2>1, <1>2 DEF Stage, Waiting, Answered
    <3>2. s \in Answered /\ Leaves(s)
      BY <2>0, <3>1 DEF Answered, Leaves
    <3> QED BY <2>0, <2>1, <3>2 DEF Answered, Leaves, LogsIn
  <2>2. CASE l # r
    <3>1. Leaves(l) /\ l \in Answered
      BY <2>0, <2>2 DEF Answered, Leaves
    <3>2. s \in Answered
      BY <2>0, <3>1 DEF IInv, Stage, Waiting, Answered, Leaves
    <3>3. Leaves(s)
      BY <2>0, <3>2
    <3>4. s \in committed /\ Stage(s)
      BY <2>0, <3>2, <3>3 DEF IInv, Stage, Settled, Answered, Leaves
    <3>5. past[call[s].id] = {call[s].password}
      <4>1. call[s].id \in Ids /\ users[call[s].id] # None
        BY <2>0, <3>4 DEF Stage, Lasting
      <4>2. users[call[s].id].password \in past[call[s].id]
        BY <4>1 DEF IInv, Remembered
      <4>3. past[call[s].id] \subseteq past'[call[s].id]
        BY <4>1 DEF Grows
      <4> QED BY <3>3, <4>2, <4>3 DEF Leaves
    <3> QED BY <3>1, <3>2, <3>3, <3>5 DEF IInv, NewAccountsCanLogIn, Leaves
  <2> QED BY <2>1, <2>2
<1> QED BY <1>2, <1>3 DEF IInv
-----------------------------------------------------------------------------
\* A step that leaves the table alone keeps what is said of the table.
LEMMA TableUnchanged ==
    ASSUME IInv, UNCHANGED <<users, past>>
    PROVE  Grows /\ OneAccountPerMailbox' /\ Remembered'
BY DEF IInv, Grows, OneAccountPerMailbox, OneRowPerMailbox, Remembered

\* A request that has not committed owns nothing: its call may change.
LEMMA OwnersUnchanged ==
    ASSUME IInv, NEW r \in Requests, r \notin committed, UNCHANGED committed,
           \A q \in Requests \ {r} : Leaves(q)
    PROVE  OwnersDiffer'
<1>1. \A q \in committed : q \in Requests /\ call'[q] = call[q]
  BY DEF IInv, TypeOK, Leaves
<1> QED BY <1>1 DEF IInv, OwnersDiffer, Registers

\* register checks for the email.
LEMMA CheckEmailStep ==
    ASSUME IInv, NEW r \in Requests, NEW e \in Emails, NEW p \in Passwords,
           CheckEmail(r, e, p)
    PROVE  IInv'
<1> DEFINE c == [kind |-> "signup", email |-> Lower[e], password |-> Strip[p],
                 new |-> None, id |-> None, after |-> Answered]
<1>1. c \in Call /\ c # None /\ Lower[Lower[e]] = Lower[e]
  BY AccountsAssumption DEF Call, Answered
<1>2. TypeOK'
  BY <1>1 DEF CheckEmail, Ask, Answer, Goto, IInv, TypeOK, Labels, Answers
<1>3. \A q \in Requests \ {r} : Leaves(q)
  BY DEF CheckEmail, Ask, Answer, Goto, IInv, TypeOK, Leaves
<1>4. Grows /\ OneAccountPerMailbox' /\ Remembered'
  BY TableUnchanged DEF CheckEmail
<1>5. /\ call'[r] = c /\ pc[r] = "start" /\ r \notin committed'
      /\ r \notin failed' /\ r \notin committed
      /\ \/ Taken(Lower[e]) /\ pc'[r] = "done" /\ answer'[r] = "taken"
         \/ pc'[r] = "insert"
  BY DEF CheckEmail, Ask, Answer, Goto, IInv, TypeOK, Stage, Waiting
<1>6. OwnersDiffer'
  BY <1>3, <1>5, OwnersUnchanged DEF CheckEmail
<1>7. Stage(r)'
  <2>1. call'[r].after \subseteq Answered' \ {r}
    BY <1>3, <1>5 DEF Answered, Leaves
  <2>2. Waiting(r)'
    <3>1. call'[r] # None /\ call'[r].kind = "signup" /\ call'[r].email = Lower[e]
      BY <1>1, <1>5
    <3>2. Lower[e] \in Emails
      BY AccountsAssumption
    <3> QED BY <1>1, <1>5, <2>1, <3>1, <3>2 DEF Waiting, Registers
  <2>3. Settled(r)'
    BY <1>5 DEF Settled, Registers, Taken, HasEmail, CheckEmail
  <2> QED BY <1>5, <2>2, <2>3 DEF Stage, Lasting
<1>8. pc[r] # "done" /\ LogsIn(r)
  BY <1>5 DEF LogsIn
<1> HIDE DEF c
<1> QED BY <1>2, <1>3, <1>4, <1>6, <1>7, <1>8, Step
\* create_superuser checks for the email.
LEMMA CheckSuperuserStep ==
    ASSUME IInv, NEW r \in Requests, NEW e \in Emails, NEW p \in Passwords,
           CheckSuperuser(r, e, p)
    PROVE  IInv'
<1> DEFINE c == [kind |-> "script", email |-> e, password |-> p,
                 new |-> None, id |-> None, after |-> Answered]
<1>1. c \in Call /\ c # None
  BY AccountsAssumption DEF Call, Answered
<1>2. TypeOK'
  BY <1>1 DEF CheckSuperuser, Ask, Answer, Goto, IInv, TypeOK, Labels, Answers
<1>3. \A q \in Requests \ {r} : Leaves(q)
  BY DEF CheckSuperuser, Ask, Answer, Goto, IInv, TypeOK, Leaves
<1>4. Grows /\ OneAccountPerMailbox' /\ Remembered'
  BY TableUnchanged DEF CheckSuperuser
<1>5. /\ call'[r] = c /\ pc[r] = "start" /\ r \notin committed'
      /\ r \notin failed' /\ r \notin committed
      /\ \/ Taken(e) /\ pc'[r] = "done" /\ answer'[r] = "taken"
         \/ pc'[r] = "insert"
  BY DEF CheckSuperuser, Ask, Answer, Goto, IInv, TypeOK, Stage, Waiting
<1>6. OwnersDiffer'
  BY <1>3, <1>5, OwnersUnchanged DEF CheckSuperuser
<1>7. Stage(r)'
  <2>1. call'[r].after \subseteq Answered' \ {r}
    BY <1>3, <1>5 DEF Answered, Leaves
  <2>2. Waiting(r)'
    <3>1. call'[r] # None /\ call'[r].kind = "script" /\ call'[r].email = e
      BY <1>1, <1>5
    <3> QED BY <1>5, <2>1, <3>1 DEF Waiting, Registers
  <2>3. Settled(r)'
    BY <1>5 DEF Settled, Registers, Taken, HasEmail, CheckSuperuser
  <2> QED BY <1>5, <2>2, <2>3 DEF Stage, Lasting
<1>8. pc[r] # "done" /\ LogsIn(r)
  BY <1>5 DEF LogsIn
<1> HIDE DEF c
<1> QED BY <1>2, <1>3, <1>4, <1>6, <1>7, <1>8, Step

\* Authenticating a login settles it at once.
LEMMA AuthenticateStep ==
    ASSUME IInv, NEW r \in Requests, NEW e \in Emails, NEW p \in Passwords,
           Authenticate(r, e, p)
    PROVE  IInv'
<1>1. PICK i \in Ids \union {None} :
        LET c == [kind |-> "login", email |-> e, password |-> p,
                  new |-> None, id |-> i, after |-> Answered]
        IN /\ Ask(r, c) /\ pc' = [pc EXCEPT ![r] = "done"]
           /\ \E a \in {"denied", "token", "inactive"} : answer' = [answer EXCEPT ![r] = a]
           /\ \/ /\ i \in Ids /\ HasEmail(i, e)
                 /\ users[i].password = p => answer'[r] \in {"token", "inactive"}
              \/ ~Taken(e)
  BY DEF Authenticate, Answer, Goto, IInv, TypeOK
<1> DEFINE c == [kind |-> "login", email |-> e, password |-> p,
                 new |-> None, id |-> i, after |-> Answered]
<1>2. c \in Call /\ c # None
  BY AccountsAssumption DEF Call, Answered
<1>3. TypeOK'
  BY <1>1, <1>2 DEF Authenticate, Ask, IInv, TypeOK, Labels, Answers
<1>4. \A q \in Requests \ {r} : Leaves(q)
  BY <1>1 DEF Authenticate, Ask, IInv, TypeOK, Leaves
<1>5. Grows /\ OneAccountPerMailbox' /\ Remembered'
  BY TableUnchanged DEF Authenticate
<1>6. /\ call'[r] = c /\ pc[r] = "start" /\ pc'[r] = "done"
      /\ r \notin committed' /\ r \notin committed
      /\ answer'[r] \in {"denied", "token", "inactive"}
  BY <1>1 DEF Authenticate, Ask, IInv, TypeOK, Stage, Waiting
<1>7. OwnersDiffer'
  BY <1>4, <1>6, OwnersUnchanged DEF Authenticate
<1>8. Stage(r)'
  <2>1. call'[r].after \subseteq Answered' \ {r}
    BY <1>4, <1>6 DEF Answered, Leaves
  <2>2. call'[r] # None /\ call'[r].kind = "login"
    BY <1>2, <1>6
  <2> QED BY <1>6, <2>1, <2>2 DEF Stage, Waiting, Lasting, Settled, Registers
<1>9. LogsIn(r)
  <2> SUFFICES ASSUME NEW s \in Answered, call[s].kind = "signup",
                      answer[s] = "created", call[s].email = e,
                      call[s].password = p, past'[call[s].id] = {p}
               PROVE  answer'[r] \in {"token", "inactive"}
    BY <1>6 DEF LogsIn
  <2>1. Stage(s) /\ s \in committed /\ Registers(s)
    BY DEF IInv, Stage, Settled, Answered, Registers
  <2>2. call[s].id \in Ids /\ HasEmail(call[s].id, e)
    BY <2>1 DEF Stage, Lasting
  <2>3. i = call[s].id
    BY <1>1, <2>2 DEF Taken, HasEmail, IInv, OneAccountPerMailbox, OneRowPerMailbox
  <2>4. users[i].password = p
    BY <2>2, <2>3 DEF IInv, Remembered, HasEmail, Authenticate
  <2> QED BY <1>1, <2>2, <2>3, <2>4 DEF Taken
<1> HIDE DEF c
<1> QED BY <1>3, <1>4, <1>5, <1>6, <1>7, <1>8, <1>9, Step

\* get_current_user loads the user whose password is to change.
LEMMA GetCurrentUserStep ==
    ASSUME IInv, NEW r \in Requests, NEW i \in Ids,
           NEW old \in Passwords, NEW new \in Passwords, GetCurrentUser(r, i, old, new)
    PROVE  IInv'
<1> DEFINE c == [kind |-> "change", email |-> None, password |-> Strip[old],
                 new |-> Strip[new], id |-> i, after |-> Answered]
<1>1. c \in Call /\ c # None /\ Strip[new] \in Passwords
  BY AccountsAssumption DEF Call, Answered
<1>2. TypeOK'
  BY <1>1 DEF GetCurrentUser, Ask, Answer, Goto, IInv, TypeOK, Labels, Answers
<1>3. \A q \in Requests \ {r} : Leaves(q)
  BY DEF GetCurrentUser, Ask, Answer, Goto, IInv, TypeOK, Leaves
<1>4. Grows /\ OneAccountPerMailbox' /\ Remembered'
  BY TableUnchanged DEF GetCurrentUser
<1>5. /\ call'[r] = c /\ pc[r] = "start" /\ r \notin committed' /\ r \notin committed
      /\ \/ users[i] # None /\ seen'[r] = users[i] /\ pc'[r] = "change"
         \/ pc'[r] = "done" /\ answer'[r] = "denied"
  BY DEF GetCurrentUser, Ask, Answer, Goto, IInv, TypeOK, Stage, Waiting
<1>6. OwnersDiffer'
  BY <1>3, <1>5, OwnersUnchanged DEF GetCurrentUser
<1>7. Stage(r)'
  <2>1. call'[r].after \subseteq Answered' \ {r}
    BY <1>3, <1>5 DEF Answered, Leaves
  <2>2. /\ call'[r] # None /\ call'[r].kind = "change" /\ call'[r].id = i
        /\ call'[r].new \in Passwords
    BY <1>1, <1>5
  <2>3. Waiting(r)'
    BY <1>5, <2>1, <2>2 DEF Waiting, GetCurrentUser, IInv, Remembered
  <2> QED BY <1>5, <2>2, <2>3 DEF Stage, Lasting, Settled, Registers
<1>8. pc[r] # "done" /\ LogsIn(r)
  BY <1>5 DEF LogsIn
<1> HIDE DEF c
<1> QED BY <1>2, <1>3, <1>4, <1>6, <1>7, <1>8, Step
-----------------------------------------------------------------------------
\* The step of a request beyond its first: it keeps what it has asked for.
Moves(r, label) ==
    /\ pc' = [pc EXCEPT ![r] = label]
    /\ answer' \in [Requests -> Answers]
    /\ \A q \in Requests \ {r} : answer'[q] = answer[q]
    /\ seen' = seen

\* Whoever moves on has not been answered, and had nobody answered after it.
LEMMA MovesLeave ==
    ASSUME IInv, NEW r \in Requests, pc[r] \in {"insert", "change", "refresh"},
           NEW label \in {"refresh", "done"}, Moves(r, label),
           \A q \in Requests \ {r} :
              /\ call'[q] = call[q]
              /\ q \in committed' <=> q \in committed
              /\ q \in failed' <=> q \in failed
    PROVE  /\ \A q \in Requests \ {r} : Leaves(q)
           /\ call[r].after \subseteq Answered' \ {r}
           /\ pc'[r] = label
           /\ pc' \in [Requests -> Labels]
<1>1. pc'[r] = label /\ pc' \in [Requests -> Labels]
  BY DEF Moves, IInv, TypeOK, Labels
<1>2. \A q \in Requests \ {r} : Leaves(q)
  BY DEF Moves, IInv, TypeOK, Leaves
<1>3. call[r].after \subseteq Answered \ {r}
  BY DEF IInv, Stage, Waiting
<1>4. Answered \subseteq Answered' \union {r}
  BY <1>2 DEF Answered, Leaves
<1> QED BY <1>1, <1>2, <1>3, <1>4

\* What an INSERT does: the row is new, and r comes to own it.
LEMMA StoreStep ==
    ASSUME IInv, NEW r \in Requests, NEW i \in Ids, pc[r] = "insert", Store(r, i)
    PROVE  /\ Grows /\ OneAccountPerMailbox' /\ Remembered' /\ OwnersDiffer'
           /\ Lasting(r)'
           /\ users' \in [Ids -> Row \union {None}]
           /\ call' \in [Requests -> Call \union {None}]
           /\ committed' \subseteq Requests
           /\ past' \in [Ids -> SUBSET Passwords]
           /\ call'[r].kind = call[r].kind /\ call'[r].email = call[r].email
           /\ call'[r].after = call[r].after /\ call'[r] # None
           /\ r \in committed'
           /\ \A q \in Requests \ {r} :
                 call'[q] = call[q] /\ (q \in committed' <=> q \in committed)
<1> DEFINE n == NewUser(r)
<1>1. /\ call[r] \in Call /\ Registers(r) /\ call[r].email \in Emails
      /\ r \notin committed
      /\ call[r].kind = "signup" => Lower[call[r].email] = call[r].email
  BY DEF IInv, TypeOK, Stage, Waiting
<1>2. /\ n \in Row /\ n.email = call[r].email /\ n.password = call[r].password
      /\ n.superuser <=> call[r].kind = "script"
  BY <1>1 DEF NewUser, Row, Call
<1>3. /\ users' = [users EXCEPT ![i] = n] /\ users[i] = None
      /\ users \in [Ids -> Row \union {None}]
      /\ past' = [past EXCEPT ![i] = {call[r].password}]
      /\ past \in [Ids -> SUBSET Passwords]
      /\ call' = [call EXCEPT ![r].id = i]
      /\ committed' = committed \union {r}
  BY DEF Store, IInv, TypeOK
<1>4. n # None
  BY <1>2, AccountsAssumption
<1> HIDE DEF n
<1>5. /\ users'[i] = n /\ \A j \in Ids \ {i} : users'[j] = users[j]
      /\ past'[i] = {call[r].password} /\ \A j \in Ids \ {i} : past'[j] = past[j]
  BY <1>3
<1>6. Grows /\ Remembered'
  BY <1>2, <1>3, <1>5 DEF Grows, Remembered, IInv
<1>7. OneAccountPerMailbox'
  <2>1. \A j \in Ids : users[j] # None => users[j].email # n.email
    BY <1>2 DEF Store, Free, Taken, HasEmail
  <2>2. ~n.superuser => Lower[n.email] = n.email
    BY <1>1, <1>2 DEF Registers
  <2> QED BY <1>5, <2>1, <2>2 DEF IInv, OneAccountPerMailbox, OneRowPerMailbox
<1>8. call'[r] = [call[r] EXCEPT !.id = i] /\ \A q \in Requests \ {r} : call'[q] = call[q]
  BY <1>3 DEF IInv, TypeOK
<1>9. /\ call'[r] \in Call /\ call'[r] # None /\ call'[r].id = i
      /\ call'[r].kind = call[r].kind /\ call'[r].email = call[r].email
      /\ call'[r].after = call[r].after
  BY <1>1, <1>8, AccountsAssumption DEF Call
<1>10. OwnersDiffer'
  <2>1. \A q \in committed : /\ q \in Requests \ {r} /\ call'[q] = call[q]
                            /\ users[call[q].id] # None
    BY <1>1, <1>8 DEF IInv, TypeOK, Stage, Lasting
  <2>2. \A q \in committed : call[q].id # i
    BY <1>3, <2>1
  <2> QED BY <1>3, <1>9, <2>1, <2>2 DEF OwnersDiffer, IInv, Registers
<1>11. Lasting(r)'
  BY <1>1, <1>2, <1>4, <1>5, <1>9 DEF Lasting, Registers, HasEmail
<1>12. /\ users' \in [Ids -> Row \union {None}]
       /\ past' \in [Ids -> SUBSET Passwords]
       /\ call' \in [Requests -> Call \union {None}]
       /\ committed' \subseteq Requests
  BY <1>1, <1>2, <1>3, <1>8, <1>9 DEF IInv, TypeOK, Call
<1> QED BY <1>3, <1>6, <1>7, <1>8, <1>9, <1>10, <1>11, <1>12

\* register or create_superuser inserts its user.
LEMMA InsertUserStep ==
    ASSUME IInv, NEW r \in Requests, InsertUser(r)
    PROVE  IInv'
<1>1. /\ pc[r] = "insert" /\ Registers(r) /\ r \notin committed /\ call[r] # None
      /\ failed' = failed /\ seen' = seen
  BY DEF InsertUser, IInv, Stage, Waiting
<1>2. CASE \E i \in Ids : Store(r, i)
  <2>1. PICK i \in Ids : Store(r, i)
    BY <1>2
  <2>2. PICK label \in {"refresh", "done"} :
          /\ Moves(r, label)
          /\ label = "refresh" => call[r].kind = "signup"
          /\ label = "done" => answer'[r] = "created"
    <3>1. IF call[r].kind = "script"
            THEN Answer(r, "created") ELSE Goto(r, "refresh") /\ UNCHANGED answer
      BY <2>1 DEF InsertUser, Store
    <3> QED BY <1>1, <3>1 DEF Answer, Goto, Moves, IInv, TypeOK, Answers, Registers
  <2>3. /\ \A q \in Requests \ {r} : Leaves(q)
        /\ call[r].after \subseteq Answered' \ {r}
        /\ pc'[r] = label /\ pc' \in [Requests -> Labels]
    BY <1>1, <2>1, <2>2, StoreStep, MovesLeave
  <2>4. Stage(r)'
    BY <1>1, <2>1, <2>2, <2>3, StoreStep DEF Stage, Waiting, Settled, Registers
  <2>5. TypeOK'
    BY <1>1, <2>1, <2>2, <2>3, StoreStep DEF TypeOK, IInv, Moves
  <2>6. LogsIn(r) /\ pc[r] # "done"
    BY <1>1, <2>1, StoreStep DEF LogsIn, Registers
  <2> QED BY <1>1, <2>1, <2>3, <2>4, <2>5, <2>6, StoreStep, Step
<1>3. CASE ~\E i \in Ids : Store(r, i)
  <2>1. /\ Taken(call[r].email) /\ UNCHANGED <<users, call, committed, past>>
        /\ answer'[r] = "error" /\ Moves(r, "done")
    BY <1>3 DEF InsertUser, Free, Answer, Goto, Moves, IInv, TypeOK, Answers
  <2>2. /\ \A q \in Requests \ {r} : Leaves(q)
        /\ call[r].after \subseteq Answered' \ {r}
        /\ pc'[r] = "done" /\ pc' \in [Requests -> Labels]
    BY <1>1, <2>1, MovesLeave
  <2>3. Grows /\ OneAccountPerMailbox' /\ Remembered' /\ OwnersDiffer'
    BY <1>1, <2>1, <2>2, TableUnchanged, OwnersUnchanged
  <2>4. Stage(r)'
    BY <1>1, <2>1, <2>2 DEF Stage, Waiting, Lasting, Settled, Registers, Taken, HasEmail
  <2>5. TypeOK'
    BY <1>1, <2>1, <2>2 DEF TypeOK, IInv, Moves
  <2>6. LogsIn(r) /\ pc[r] # "done"
    BY <1>1, <2>1 DEF LogsIn, Registers
  <2> QED BY <2>2, <2>3, <2>4, <2>5, <2>6, Step
<1> QED BY <1>2, <1>3

\* What an UPDATE of a password does: the account remembers both passwords.
LEMMA UpdateStep ==
    ASSUME IInv, NEW r \in Requests, pc[r] = "change", Verified(r), Update(r)
    PROVE  /\ Grows /\ OneAccountPerMailbox' /\ Remembered'
           /\ users' \in [Ids -> Row \union {None}]
           /\ committed' = committed \union {r}
           /\ past' \in [Ids -> SUBSET Passwords]
           /\ call[r].id \in Ids /\ users'[call[r].id] # None
           /\ call[r].password \in past'[call[r].id]
<1> DEFINE i == call[r].id
           n == [users[i] EXCEPT !.password = call[r].new]
<1>1. /\ i \in Ids /\ users[i] # None /\ call[r].new \in Passwords
      /\ call[r].password \in past[i] /\ users[i] \in Row
  BY DEF IInv, TypeOK, Stage, Waiting, Verified
<1>2. /\ users' = [users EXCEPT ![i] = n]
      /\ users \in [Ids -> Row \union {None}]
      /\ past' = [past EXCEPT ![i] = @ \union {call[r].new}]
      /\ past \in [Ids -> SUBSET Passwords]
      /\ committed' = committed \union {r}
  BY DEF Update, IInv, TypeOK
<1>3. /\ n \in Row /\ n.email = users[i].email /\ n.password = call[r].new
      /\ n.superuser = users[i].superuser /\ n.active = users[i].active
  BY <1>1 DEF Row
<1>4. n # None
  BY <1>3, AccountsAssumption
<1> HIDE DEF n
<1>5. /\ users'[i] = n /\ \A j \in Ids \ {i} : users'[j] = users[j]
      /\ past'[i] = past[i] \union {call[r].new} /\ \A j \in Ids \ {i} : past'[j] = past[j]
  BY <1>1, <1>2
<1>6. Grows /\ Remembered'
  BY <1>1, <1>3, <1>4, <1>5 DEF Grows, Remembered, IInv
<1>7. OneAccountPerMailbox'
  BY <1>1, <1>3, <1>5 DEF IInv, OneAccountPerMailbox, OneRowPerMailbox
<1>8. users' \in [Ids -> Row \union {None}] /\ past' \in [Ids -> SUBSET Passwords]
  BY <1>1, <1>2, <1>3
<1> QED BY <1>1, <1>2, <1>4, <1>5, <1>6, <1>7, <1>8

\* A committed change of a password owns no row as a registration does.
LEMMA ChangeOwnsNothing ==
    ASSUME IInv, NEW r \in Requests, pc[r] = "change",
           committed' = committed \union {r}, call' = call
    PROVE  OwnersDiffer' /\ ~Registers(r)
<1>1. call[r].kind = "change"
  BY DEF IInv, Stage, Waiting
<1> QED BY <1>1 DEF IInv, OwnersDiffer, Registers

\* change_password commits the new password, or refuses.
LEMMA ChangePasswordStep ==
    ASSUME IInv, NEW r \in Requests, ChangePassword(r)
    PROVE  IInv'
<1>1. /\ pc[r] = "change" /\ r \notin committed /\ call[r] # None
      /\ call[r].kind = "change" /\ UNCHANGED <<call, seen, failed>>
  BY DEF ChangePassword, IInv, Stage, Waiting
<1>2. LogsIn(r) /\ pc[r] # "done" /\ ~Registers(r)
  BY <1>1 DEF LogsIn, Registers
<1>3. CASE Verified(r)
  <2>1. Update(r) /\ Moves(r, "refresh")
    BY <1>3 DEF ChangePassword, Goto, Moves, IInv, TypeOK
  <2>2. /\ \A q \in Requests \ {r} : Leaves(q)
        /\ call[r].after \subseteq Answered' \ {r}
        /\ pc'[r] = "refresh" /\ pc' \in [Requests -> Labels]
    BY <1>1, <1>3, <2>1, UpdateStep, MovesLeave
  <2>3. Stage(r)'
    BY <1>1, <1>2, <1>3, <2>1, <2>2, UpdateStep DEF Stage, Waiting, Lasting, Settled, Registers
  <2>4. TypeOK'
    BY <1>1, <1>3, <2>1, <2>2, UpdateStep DEF TypeOK, IInv, Moves
  <2> QED BY <1>1, <1>2, <1>3, <2>1, <2>2, <2>3, <2>4, UpdateStep, ChangeOwnsNothing, Step
<1>4. CASE ~Verified(r)
  <2>1. /\ UNCHANGED <<users, committed, past>>
        /\ answer'[r] = "denied" /\ Moves(r, "done")
    BY <1>4 DEF ChangePassword, Answer, Goto, Moves, IInv, TypeOK, Answers
  <2>2. /\ \A q \in Requests \ {r} : Leaves(q)
        /\ call[r].after \subseteq Answered' \ {r}
        /\ pc'[r] = "done" /\ pc' \in [Requests -> Labels]
    BY <1>1, <2>1, MovesLeave
  <2>3. Grows /\ OneAccountPerMailbox' /\ Remembered' /\ OwnersDiffer'
    BY <1>1, <2>1, <2>2, TableUnchanged, OwnersUnchanged
  <2>4. Stage(r)'
    BY <1>1, <1>2, <2>1, <2>2 DEF Stage, Waiting, Lasting, Settled, Registers
  <2>5. TypeOK'
    BY <1>1, <2>1, <2>2 DEF TypeOK, IInv, Moves
  <2> QED BY <1>2, <2>2, <2>3, <2>4, <2>5, Step
<1> QED BY <1>3, <1>4

\* The refresh after the commit, and the answer.
LEMMA RefreshUserStep ==
    ASSUME IInv, NEW r \in Requests, RefreshUser(r)
    PROVE  IInv'
<1>1. /\ pc[r] = "refresh" /\ r \in committed /\ call[r] # None
      /\ call[r].kind \in {"signup", "change"}
      /\ UNCHANGED <<users, call, seen, committed, failed, past>>
  BY DEF RefreshUser, IInv, Stage, Waiting
<1>2. /\ answer'[r] \in {"created", "changed"} /\ Moves(r, "done")
      /\ answer'[r] = "created" => Registers(r)
  BY DEF RefreshUser, Answer, Goto, Moves, IInv, TypeOK, Answers, Registers
<1>3. /\ \A q \in Requests \ {r} : Leaves(q)
      /\ call[r].after \subseteq Answered' \ {r}
      /\ pc'[r] = "done" /\ pc' \in [Requests -> Labels]
  BY <1>1, <1>2, MovesLeave
<1>4. Grows /\ OneAccountPerMailbox' /\ Remembered' /\ OwnersDiffer'
  BY <1>1, TableUnchanged DEF IInv, OwnersDiffer, Registers
<1>5. Lasting(r)'
  BY <1>1 DEF IInv, Stage, Lasting, Registers, HasEmail
<1>6. Stage(r)'
  BY <1>1, <1>2, <1>3, <1>5 DEF Stage, Waiting, Settled, Registers
<1>7. TypeOK'
  BY <1>1, <1>2, <1>3 DEF TypeOK, IInv, Moves
<1>8. LogsIn(r) /\ pc[r] # "done"
  BY <1>1 DEF LogsIn
<1> QED BY <1>3, <1>4, <1>6, <1>7, <1>8, Step

\* A database error, before or after the COMMIT has gone through.
LEMMA DbErrorStep ==
    ASSUME IInv, NEW r \in Requests, DbError(r)
    PROVE  IInv'
<1>1. /\ pc[r] \in {"insert", "change", "refresh"} /\ call[r] # None
      /\ failed' = failed \union {r} /\ r \in failed' /\ failed' \subseteq Requests
      /\ answer'[r] = "error" /\ Moves(r, "done")
      /\ call[r].kind \in {"signup", "script", "change"}
  BY DEF DbError, Answer, Goto, Moves, IInv, TypeOK, Answers, Stage, Waiting, Registers
<1>2. CASE UNCHANGED <<users, call, committed, past>>
  <2>1. /\ \A q \in Requests \ {r} : Leaves(q)
        /\ call[r].after \subseteq Answered' \ {r}
        /\ pc'[r] = "done" /\ pc' \in [Requests -> Labels]
    BY <1>1, <1>2, MovesLeave
  <2>2. Grows /\ OneAccountPerMailbox' /\ Remembered' /\ OwnersDiffer'
    BY <1>2, TableUnchanged DEF IInv, OwnersDiffer, Registers
  <2>3. Lasting(r)'
    BY <1>2 DEF IInv, Stage, Lasting, Registers, HasEmail
  <2>4. Stage(r)'
    BY <1>1, <1>2, <2>1, <2>3 DEF Stage, Waiting, Settled, Registers
  <2>5. TypeOK'
    BY <1>1, <1>2, <2>1 DEF TypeOK, IInv, Moves
  <2>6. LogsIn(r) /\ pc[r] # "done"
    BY <1>1, <1>2 DEF LogsIn
  <2> QED BY <2>1, <2>2, <2>4, <2>5, <2>6, Step
<1>3. CASE pc[r] = "insert" /\ \E i \in Ids : Store(r, i)
  <2>1. PICK i \in Ids : Store(r, i)
    BY <1>3
  <2>2. /\ \A q \in Requests \ {r} : Leaves(q)
        /\ call[r].after \subseteq Answered' \ {r}
        /\ pc'[r] = "done" /\ pc' \in [Requests -> Labels]
    BY <1>1, <1>3, <2>1, StoreStep, MovesLeave
  <2>3. Stage(r)'
    BY <1>1, <1>3, <2>1, <2>2, StoreStep DEF Stage, Waiting, Settled, Registers
  <2>4. TypeOK'
    BY <1>1, <1>3, <2>1, <2>2, StoreStep DEF TypeOK, IInv, Moves
  <2>5. LogsIn(r) /\ pc[r] # "done"
    BY <1>1, <1>3, <2>1, StoreStep DEF LogsIn
  <2> QED BY <1>3, <2>1, <2>2, <2>3, <2>4, <2>5, StoreStep, Step
<1>4. CASE pc[r] = "change" /\ Verified(r) /\ Update(r) /\ UNCHANGED call
  <2>1. /\ \A q \in Requests \ {r} : Leaves(q)
        /\ call[r].after \subseteq Answered' \ {r}
        /\ pc'[r] = "done" /\ pc' \in [Requests -> Labels]
    BY <1>1, <1>4, UpdateStep, MovesLeave
  <2>2. ~Registers(r) /\ OwnersDiffer'
    BY <1>4, UpdateStep, ChangeOwnsNothing
  <2>3. Stage(r)'
    BY <1>1, <1>4, <2>1, <2>2, UpdateStep DEF Stage, Waiting, Lasting, Settled, Registers
  <2>4. TypeOK'
    BY <1>1, <1>4, <2>1, UpdateStep DEF TypeOK, IInv, Moves
  <2>5. LogsIn(r) /\ pc[r] # "done"
    BY <1>1, <1>4 DEF LogsIn
  <2> QED BY <1>4, <2>1, <2>2, <2>3, <2>4, <2>5, UpdateStep, Step
<1> QED BY <1>2, <1>3, <1>4 DEF DbError

\* An operator deactivates an account: nobody moves.
LEMMA DeactivateStep ==
    ASSUME IInv, NEW i \in Ids, Deactivate(i)
    PROVE  IInv'
<1> DEFINE n == [users[i] EXCEPT !.active = FALSE]
<1>1. /\ users' = [users EXCEPT ![i] = n] /\ users[i] \in Row /\ users[i] # None
      /\ UNCHANGED <<call, pc, seen, answer, committed, failed, past>>
      /\ users \in [Ids -> Row \union {None}]
  BY DEF Deactivate, IInv, TypeOK
<1>2. /\ n \in Row /\ n.email = users[i].email /\ n.password = users[i].password
      /\ n.superuser = users[i].superuser /\ n.active = FALSE
  BY <1>1 DEF Row
<1>3. n # None
  BY <1>2, AccountsAssumption
<1> HIDE DEF n
<1>4. users'[i] = n /\ \A j \in Ids \ {i} : users'[j] = users[j]
  BY <1>1
<1>5. Grows /\ Remembered'
  BY <1>1, <1>2, <1>3, <1>4 DEF Grows, Remembered, IInv
<1>6. OneAccountPerMailbox'
  BY <1>1, <1>2, <1>4 DEF IInv, OneAccountPerMailbox, OneRowPerMailbox
<1>7. \A q \in Requests : Stage(q)'
  BY <1>1, <1>5, Others DEF IInv, Leaves, Answered
<1>8. TypeOK'
  BY <1>1, <1>2 DEF IInv, TypeOK
<1>9. OwnersDiffer' /\ NewAccountsCanLogIn'
  BY <1>1 DEF IInv, OwnersDiffer, Registers, NewAccountsCanLogIn, Answered
<1> QED BY <1>5, <1>6, <1>7, <1>8, <1>9 DEF IInv
-----------------------------------------------------------------------------
\* The invariant holds of every table the system may find at first.
LEMMA InitInv == Init => IInv
<1> SUFFICES ASSUME Init PROVE IInv
  OBVIOUS
<1>1. users \in [Ids -> Row \union {None}] /\ OneRowPerMailbox(users)
  BY AccountsAssumption DEF Init
<1>2. past \in [Ids -> SUBSET Passwords] /\ Remembered
  <2>1. \A i \in Ids : users[i] # None => users[i].password \in Passwords
    BY <1>1 DEF Row
  <2> QED BY <2>1 DEF Init, Remembered
<1>3. TypeOK
  BY <1>1, <1>2 DEF Init, TypeOK, Labels, Answers
<1> QED BY <1>1, <1>2, <1>3 DEF Init, IInv, OneAccountPerMailbox, OwnersDiffer, Stage,
           Waiting, Lasting, Settled, NewAccountsCanLogIn, Answered

\* Every step keeps it.
LEMMA NextInv == IInv /\ [Next]_vars => IInv'
<1> SUFFICES ASSUME IInv, [Next]_vars PROVE IInv'
  OBVIOUS
<1>1. ASSUME NEW r \in Requests, Begin(r) PROVE IInv'
  BY <1>1, CheckEmailStep, CheckSuperuserStep, AuthenticateStep, GetCurrentUserStep DEF Begin
<1>2. ASSUME NEW r \in Requests, Continue(r) PROVE IInv'
  BY <1>2, InsertUserStep, RefreshUserStep, ChangePasswordStep DEF Continue
<1>3. CASE UNCHANGED vars
  BY <1>3 DEF vars, IInv, TypeOK, OneAccountPerMailbox, Remembered, OwnersDiffer, Registers,
     Stage, Waiting, Lasting, Settled, NewAccountsCanLogIn, Answered, Taken, HasEmail
<1> QED BY <1>1, <1>2, <1>3, DbErrorStep, DeactivateStep DEF Next, Quiet

LEMMA Invariance == Spec => []IInv
BY InitInv, NextInv, PTL DEF Spec

\* The table, the calls and the answers have their types.
THEOREM AccountsTypeCorrect == Spec => []TypeOK
<1>1. IInv => TypeOK
  BY DEF IInv
<1> QED BY <1>1, Invariance, PTL

\* An email has one account, and signups differ by more than case.
THEOREM MailboxesAreUnique == Spec => []OneAccountPerMailbox
<1>1. IInv => OneAccountPerMailbox
  BY DEF IInv
<1> QED BY <1>1, Invariance, PTL

\* The answer to a registration says what became of it.
THEOREM RegistrationsDecided == Spec => []RegistrationsAreDecided
<1>1. ASSUME IInv PROVE RegistrationsAreDecided
  <2> SUFFICES ASSUME NEW r \in Answered, Registers(r)
               PROVE  /\ answer[r] = "created" =>
                            /\ HasEmail(call[r].id, call[r].email)
                            /\ users[call[r].id].superuser <=> call[r].kind = "script"
                            /\ \A q \in Answered \ {r} :
                                  answer[q] = "created" => call[q].email # call[r].email
                      /\ answer[r] = "taken" => Taken(call[r].email)
                      /\ answer[r] = "error" /\ r \notin failed =>
                            Taken(call[r].email) /\ r \notin committed
    BY DEF RegistrationsAreDecided, Registers
  <2>1. \A q \in Answered : q \in Requests /\ pc[q] = "done" /\ Stage(q)
    BY <1>1 DEF Answered, IInv
  <2>2. \A q \in Answered : answer[q] = "created" => q \in committed
    BY <2>1 DEF Stage, Settled
  <2>3. ASSUME answer[r] = "created"
        PROVE  /\ call[r].id \in Ids /\ HasEmail(call[r].id, call[r].email)
               /\ users[call[r].id].superuser <=> call[r].kind = "script"
    BY <2>1, <2>2, <2>3 DEF Stage, Lasting
  <2>4. ASSUME answer[r] = "created", NEW q \in Answered \ {r}, answer[q] = "created"
        PROVE  call[q].email # call[r].email
    <3>1. q \in committed /\ r \in committed /\ Stage(q)
      BY <2>1, <2>2, <2>4
    <3>2. CASE Registers(q)
      <4>1. call[q].id # call[r].id /\ call[q].id \in Ids /\ HasEmail(call[q].id, call[q].email)
        BY <1>1, <2>4, <3>1, <3>2 DEF IInv, OwnersDiffer, Stage, Lasting
      <4> QED BY <1>1, <2>3, <2>4, <4>1
              DEF IInv, OneAccountPerMailbox, OneRowPerMailbox, HasEmail
    <3>3. CASE ~Registers(q)
      BY <2>1, <2>4, <3>3 DEF Stage, Settled
    <3> QED BY <3>2, <3>3
  <2> QED BY <2>1, <2>3, <2>4 DEF Stage, Settled
<1> QED BY <1>1, Invariance, PTL

\* A refusal leaves nothing behind, and a success is committed.
THEOREM AnswersMatch == Spec => []AnswersMatchEffects
<1>1. IInv => AnswersMatchEffects
  BY DEF IInv, AnswersMatchEffects, Answered, Stage, Settled
<1> QED BY <1>1, Invariance, PTL

\* Whoever has signed up can log in with what the schema stored.
THEOREM LoginsOfNewAccounts == Spec => []NewAccountsCanLogIn
<1>1. IInv => NewAccountsCanLogIn
  BY DEF IInv
<1> QED BY <1>1, Invariance, PTL

\* A password is replaced by whoever knew one the account has had.
THEOREM PasswordsProved == Spec => []PasswordsAreProved
<1>1. IInv => PasswordsAreProved
  BY DEF IInv, TypeOK, PasswordsAreProved, Stage, Lasting
<1> QED BY <1>1, Invariance, PTL

\* An account keeps its email and its rights, and is never activated again.
THEOREM IdentityKept == Spec => AccountsKeepTheirIdentity
<1> DEFINE Kept == \A i \in Ids : users[i] # None =>
                     /\ users'[i] # None
                     /\ users'[i].email = users[i].email
                     /\ users'[i].superuser = users[i].superuser
                     /\ users'[i].active => users[i].active
<1>1. ASSUME IInv, Next PROVE Kept \/ UNCHANGED vars
  <2>1. CASE UNCHANGED users
    BY <2>1
  <2>2. ASSUME NEW r \in Requests, NEW i \in Ids, pc[r] = "insert", Store(r, i) PROVE Kept
    BY <1>1, <2>2, StoreStep DEF Grows
  <2>3. ASSUME NEW r \in Requests, pc[r] = "change", Verified(r), Update(r) PROVE Kept
    BY <1>1, <2>3, UpdateStep DEF Grows
  <2>4. ASSUME NEW i \in Ids, Deactivate(i) PROVE Kept
    <3>1. users[i] \in Row /\ users \in [Ids -> Row \union {None}]
      BY <1>1, <2>4 DEF Deactivate, IInv, TypeOK
    <3>2. [users[i] EXCEPT !.active = FALSE] \in Row
      BY <3>1 DEF Row
    <3> QED BY <2>4, <3>1, <3>2, AccountsAssumption DEF Deactivate, Row
  <2>5. ASSUME NEW r \in Requests, Begin(r) PROVE UNCHANGED users
    BY <2>5 DEF Begin, CheckEmail, CheckSuperuser, Authenticate, GetCurrentUser
  <2>6. ASSUME NEW r \in Requests, Continue(r) PROVE Kept
    BY <2>1, <2>2, <2>3, <2>6 DEF Continue, InsertUser, RefreshUser, ChangePassword
  <2>7. ASSUME NEW r \in Requests, DbError(r) PROVE Kept
    BY <2>1, <2>2, <2>3, <2>7 DEF DbError
  <2> QED BY <1>1, <2>1, <2>4, <2>5, <2>6, <2>7 DEF Next, Quiet
<1>2. IInv /\ [Next]_vars => [Kept]_vars
  BY <1>1
<1> QED BY <1>2, Invariance, PTL DEF AccountsKeepTheirIdentity, Spec
=============================================================================
