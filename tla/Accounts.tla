------------------------------ MODULE Accounts ------------------------------
(***************************************************************************)
(* The local account of whoever sends a request: on every request with a   *)
(* bearer token, and on every socket connection, the server finds, links   *)
(* or creates a row of users, makes its global roles those of the token,   *)
(* and reads it with its roles (services/identity.service.js               *)
(* resolveAuthenticatedUser, repositories/auth.repository.js).             *)
(*                                                                         *)
(* A page sends several requests at once, so the first ones of a new       *)
(* visitor meet here.  All statements are on their own but those of        *)
(* replaceManagedUserRoles, whose transaction reads a snapshot and then    *)
(* deletes and inserts by key; it can be rolled back as a deadlock.        *)
(*                                                                         *)
(* Requests are those whose token has passed the checks on its claims.     *)
(* The token names a subject, which stays, and an e-mail address, which    *)
(* its owner can change there; the address of his account he changes here. *)
(***************************************************************************)
EXTENDS Integers, FiniteSets

CONSTANTS
  Requests,
  Subjects,     \* users of Keycloak
  UserIds,      \* ids of accounts, users.id
  Emails,       \* addresses
  Roles,        \* MANAGED_GLOBAL_ROLES
  UserRole,     \* ROLES.USER
  Suspended,    \* ids of accounts from before whose status is not active
  None          \* null

ASSUME AccountsAssumption ==
  /\ UserRole \in Roles
  /\ Suspended \subseteq UserIds
  /\ None \notin Subjects /\ None \notin UserIds /\ None \notin Emails

VARIABLES
  pc,        \* where resolveAuthenticatedUser is with a request
  token,     \* subject, address and managed roles of its token
  row,       \* the account it has found or made
  seen,      \* roles of the account its transaction has read
  answer,    \* how it ended, and the roles the request is served with
  users,     \* accounts that exist
  address,   \* email of an account
  linked,    \* keycloak_user_id of an account
  roles,     \* user_roles of an account
  contested, \* history: accounts two subjects found unlinked at once
  overtaken, \* history: requests whose account was synced by another meanwhile
  skewed     \* history: accounts whose last sync had read other roles

tableVars == <<users, address, linked, roles>>
historyVars == <<contested, overtaken, skewed>>
vars == <<pc, token, row, seen, answer, tableVars, historyVars>>

PC == {"idle", "by_subject", "by_email", "bind", "create", "sync", "write", "context", "done"}

Tokens == [subject: Subjects, email: Emails, roles: SUBSET Roles]

NoToken == [subject |-> None, email |-> None, roles |-> {}]

Answers == [kind: {"none", "user", "mismatch", "inactive", "error"}, roles: SUBSET Roles]

TypeOK ==
  /\ pc \in [Requests -> PC]
  /\ token \in [Requests -> Tokens \cup {NoToken}]
  /\ row \in [Requests -> UserIds \cup {None}]
  /\ seen \in [Requests -> SUBSET Roles]
  /\ answer \in [Requests -> Answers]
  /\ users \subseteq UserIds
  /\ address \in [users -> Emails]
  /\ linked \in [users -> Subjects \cup {None}]
  /\ roles \in [users -> SUBSET Roles]
  /\ contested \subseteq UserIds
  /\ overtaken \subseteq Requests
  /\ skewed \subseteq UserIds

\* Accounts from before Keycloak exist without a link and with the role of a user.
Init ==
  /\ pc = [r \in Requests |-> "idle"]
  /\ token = [r \in Requests |-> NoToken]
  /\ row = [r \in Requests |-> None]
  /\ seen = [r \in Requests |-> {}]
  /\ answer = [r \in Requests |-> [kind |-> "none", roles |-> {}]]
  /\ users \in SUBSET UserIds
  /\ address \in {a \in [users -> Emails] : \A d, e \in users : a[d] = a[e] => d = e}
  /\ linked = [e \in users |-> None]
  /\ roles = [e \in users |-> {UserRole}]
  /\ contested = {}
  /\ overtaken = {}
  /\ skewed = {}

-----------------------------------------------------------------------------
(* resolveAuthenticatedUser *)

Goto(r, step) == pc' = [pc EXCEPT ![r] = step]

Tell(r, kind, given) ==
  /\ Goto(r, "done")
  /\ answer' = [answer EXCEPT ![r] = [kind |-> kind, roles |-> given]]

\* The account of the request is e, and its roles come next.
Resolve(r, e) ==
  /\ Goto(r, "sync")
  /\ row' = [row EXCEPT ![r] = e]

Send(r) ==
  /\ pc[r] = "idle"
  /\ \E t \in Tokens : token' = [token EXCEPT ![r] = t]
  /\ Goto(r, "by_subject")
  /\ UNCHANGED <<row, seen, answer, tableVars, historyVars>>

\* findByKeycloakUserId.
FindBySubject(r) ==
  /\ pc[r] = "by_subject"
  /\ \/ \E e \in users : linked[e] = token[r].subject /\ Resolve(r, e)
     \/ /\ \A e \in users : linked[e] # token[r].subject
        /\ Goto(r, "by_email")
        /\ UNCHANGED row
  /\ UNCHANGED <<token, seen, answer, tableVars, historyVars>>

\* Requests that have found account e unlinked, for another subject.
Rivals(r, e) ==
  {q \in Requests : pc[q] = "bind" /\ row[q] = e /\ token[q].subject # token[r].subject}

Found(r, e) == e \in users /\ address[e] = token[r].email

NotFound(r) ==
  /\ \A e \in users : address[e] # token[r].email
  /\ Goto(r, "create")

LinkNext(r, e) ==
  /\ Goto(r, "bind")
  /\ row' = [row EXCEPT ![r] = e]
  /\ contested' = IF Rivals(r, e) = {} THEN contested ELSE contested \cup {e}

\* Mutant: the account with the address is taken, whoever it is linked to.
LinkAnyway(r) ==
  /\ pc[r] = "by_email"
  /\ \/ NotFound(r) /\ UNCHANGED <<row, contested>>
     \/ \E e \in UserIds : Found(r, e) /\ LinkNext(r, e)
  /\ UNCHANGED <<token, seen, answer, tableVars, overtaken, skewed>>

\* findByEmail; an account that is linked to another subject is refused.
FindByEmail(r) ==
  /\ pc[r] = "by_email"
  /\ \/ NotFound(r) /\ UNCHANGED <<row, answer, contested>>
     \/ \E e \in UserIds :
          /\ Found(r, e)
          /\ \/ /\ linked[e] \notin {None, token[r].subject}
                /\ Tell(r, "mismatch", {})
                /\ UNCHANGED <<row, contested>>
             \/ /\ linked[e] \in {None, token[r].subject}
                /\ LinkNext(r, e)
                /\ UNCHANGED answer
  /\ UNCHANGED <<token, seen, tableVars, overtaken, skewed>>

\* The unique indexes on keycloak_user_id and email, for a row with id e.
SubjectIsFree(r, e) == \A d \in users \ {e} : linked[d] # token[r].subject
AddressIsFree(m, e) == \A d \in users \ {e} : address[d] # m

\* bindKeycloakUserId: by the id of the row, whatever it is linked to by now, and
\* whatever its address is.
Bind(r) ==
  LET e == row[r] IN
  /\ pc[r] = "bind"
  /\ \/ /\ SubjectIsFree(r, e)
        /\ linked' = [linked EXCEPT ![e] = token[r].subject]
        /\ Resolve(r, e)
        /\ UNCHANGED answer
     \/ ~SubjectIsFree(r, e) /\ Tell(r, "error", {}) /\ UNCHANGED <<linked, row>>
  /\ UNCHANGED <<token, seen, users, address, roles, historyVars>>

\* createUser: a unique index refuses the second of two requests that found nothing.
CreateUser(r) ==
  LET m == token[r].email IN
  /\ pc[r] = "create"
  /\ \E e \in UserIds \ (users \cup Suspended) :
       \/ /\ AddressIsFree(m, e) /\ SubjectIsFree(r, e)
          /\ users' = users \cup {e}
          /\ address' = [d \in users \cup {e} |-> IF d = e THEN m ELSE address[d]]
          /\ linked' = [d \in users \cup {e} |-> IF d = e THEN token[r].subject ELSE linked[d]]
          /\ roles' = [d \in users \cup {e} |-> IF d = e THEN {} ELSE roles[d]]
          /\ Resolve(r, e)
          /\ UNCHANGED answer
       \/ /\ ~(AddressIsFree(m, e) /\ SubjectIsFree(r, e))
          /\ Tell(r, "error", {})
          /\ UNCHANGED <<row, tableVars>>
  /\ UNCHANGED <<token, seen, historyVars>>

\* Mutant: a token without managed roles gives none.
TokenRoles(r) == token[r].roles

\* getManagedRoleNamesFromClaims.
DesiredRoles(r) == IF token[r].roles = {} THEN {UserRole} ELSE token[r].roles

\* replaceManagedUserRoles: the transaction reads the roles of the account ...
SyncRead(r) ==
  /\ pc[r] = "sync"
  /\ seen' = [seen EXCEPT ![r] = roles[row[r]]]
  /\ Goto(r, "write")
  /\ UNCHANGED <<token, row, answer, tableVars, historyVars>>

\* Mutant: roles are added and never taken away.
AddRoles(r) == roles[row[r]] \cup DesiredRoles(r)

\* ... and deletes and inserts what it found too much and too little.
SyncedRoles(r) ==
  (roles[row[r]] \ (seen[r] \ DesiredRoles(r))) \cup (DesiredRoles(r) \ seen[r])

SyncWrite(r) ==
  /\ pc[r] = "write"
  /\ roles' = [roles EXCEPT ![row[r]] = SyncedRoles(r)]
  /\ Goto(r, "context")
  /\ overtaken' = overtaken \cup
       {q \in Requests \ {r} : row[q] = row[r] /\ pc[q] \in {"write", "context"}}
  /\ skewed' = IF seen[r] = roles[row[r]] THEN skewed \ {row[r]} ELSE skewed \cup {row[r]}
  /\ UNCHANGED <<token, row, seen, answer, users, address, linked, contested>>

\* Another transaction on the same rows makes a deadlock: it is rolled back.
SyncFails(r) ==
  /\ pc[r] = "write"
  /\ \E q \in Requests \ {r} : row[q] = row[r] /\ pc[q] = "write"
  /\ Tell(r, "error", {})
  /\ UNCHANGED <<token, row, seen, tableVars, historyVars>>

\* getUserWithContext and the check of the status of the account.
ReadContext(r) ==
  /\ pc[r] = "context"
  /\ IF row[r] \in Suspended THEN Tell(r, "inactive", {}) ELSE Tell(r, "user", roles[row[r]])
  /\ UNCHANGED <<token, row, seen, tableVars, historyVars>>

\* PATCH /api/user by an active user, whatever his token says: the unique index
\* refuses an address that another account has.
ChangeAddress(e) ==
  /\ e \in users \ Suspended /\ linked[e] # None
  /\ \E m \in Emails \ {address[e]} :
       AddressIsFree(m, e) /\ address' = [address EXCEPT ![e] = m]
  /\ UNCHANGED <<pc, token, row, seen, answer, users, linked, roles, historyVars>>

Resolving(r) ==
  \/ Send(r) \/ FindBySubject(r) \/ FindByEmail(r) \/ Bind(r) \/ CreateUser(r)
  \/ SyncRead(r) \/ SyncWrite(r) \/ SyncFails(r) \/ ReadContext(r)

Next ==
  \/ \E r \in Requests : Resolving(r)
  \/ \E e \in UserIds : ChangeAddress(e)

Spec == Init /\ [][Next]_vars

-----------------------------------------------------------------------------
(* Properties *)

\* An account that is linked to a user of Keycloak stays his, unless the requests of
\* two users found it unlinked at the same time: the check and the link are two
\* statements, and the second link replaces the first.
LinkStands ==
  [][\A e \in users \ contested :
       linked[e] # None => e \in users' /\ linked'[e] = linked[e]]_vars

\* A request is served with the roles of its own token, unless another request of
\* the same account came between its sync and its read.
ServedWithOwnRoles ==
  \A r \in Requests \ overtaken : answer[r].kind = "user" => answer[r].roles = DesiredRoles(r)

\* An account whose roles have been synced is not left without any, unless its last
\* sync worked on roles another one had changed since.
KeepsSomeRole ==
  \A r \in Requests :
    pc[r] \in {"context", "done"} /\ row[r] \notin skewed \cup {None}
      /\ answer[r].kind # "error" => roles[row[r]] # {}

-----------------------------------------------------------------------------
(* Why it holds: the invariant the proofs use. *)

Resolved(r) == pc[r] \in {"sync", "write", "context"}

\* Who is at work has a token, and an account from the moment it is resolved.
StepsRefer ==
  \A r \in Requests :
    /\ pc[r] # "done" => answer[r].kind = "none"
    /\ pc[r] # "idle" => token[r] \in Tokens
    /\ row[r] \in users \cup {None}
    /\ pc[r] = "bind" \/ Resolved(r) => row[r] # None
    /\ row[r] # None => pc[r] = "bind" \/ Resolved(r) \/ pc[r] = "done"

\* A request about to link an account finds it unlinked or its own, and so do all
\* others that are, unless the account is contested.
BindersAgree ==
  \A r \in Requests : pc[r] = "bind" /\ row[r] \notin contested =>
    /\ linked[row[r]] \in {None, token[r].subject}
    /\ \A q \in Requests : pc[q] = "bind" /\ row[q] = row[r] =>
         token[q].subject = token[r].subject

\* A sync nobody has overtaken writes what it has read, and leaves what it wrote.
SyncsStand ==
  \A r \in Requests \ overtaken :
    /\ pc[r] = "write" => seen[r] = roles[row[r]]
    /\ pc[r] = "context" => roles[row[r]] = DesiredRoles(r)

IInv ==
  /\ TypeOK
  /\ StepsRefer
  /\ BindersAgree
  /\ SyncsStand
  /\ ServedWithOwnRoles
  /\ KeepsSomeRole
=============================================================================
