---------------------------- MODULE AccountsProofs ----------------------------
(***************************************************************************)
(* Proofs about Accounts: accounts keep their owner and some role, and     *)
(* requests get the roles of their token, for any number of requests,      *)
(* users, addresses and roles.                                             *)
(***************************************************************************)
EXTENDS Accounts, TLAPS

\* A token always asks for some role.
LEMMA DesiredRolesSome ==
  ASSUME NEW r \in Requests, token[r] \in Tokens
  PROVE  DesiredRoles(r) \in (SUBSET Roles) \ {{}}
BY AccountsAssumption DEF DesiredRoles, Tokens

\* A sync that writes on what it has read leaves the roles of the token.
LEMMA SyncedAsDesired ==
  ASSUME NEW r \in Requests, seen[r] = roles[row[r]]
  PROVE  SyncedRoles(r) = DesiredRoles(r)
BY DEF SyncedRoles

\* The invariant holds before the first request.
LEMMA InitIInv == Init => IInv
<1> SUFFICES ASSUME Init PROVE IInv
  OBVIOUS
<1>1. TypeOK
  BY AccountsAssumption DEF Init, TypeOK, PC, Answers
<1>2. StepsRefer /\ BindersAgree /\ SyncsStand
  BY DEF Init, StepsRefer, Resolved, BindersAgree, SyncsStand
<1>3. ServedWithOwnRoles /\ KeepsSomeRole
  BY DEF Init, ServedWithOwnRoles, KeepsSomeRole
<1> QED
  BY <1>1, <1>2, <1>3 DEF IInv

\* Resolving a request, and answering one, keep the types of what they write.
LEMMA ResolveTypes ==
  ASSUME TypeOK, NEW r \in Requests, NEW e \in UserIds, Resolve(r, e)
  PROVE  row' \in [Requests -> UserIds \cup {None}]
BY DEF TypeOK, Resolve

LEMMA TellTypes ==
  ASSUME TypeOK, NEW r \in Requests, Tell(r, "error", {})
  PROVE  answer' \in [Requests -> Answers]
BY DEF TypeOK, Tell, Answers

\* Every step keeps the types.
LEMMA NextTypeOK == IInv /\ [Next]_vars => TypeOK'
<1> SUFFICES ASSUME TypeOK, StepsRefer, [Next]_vars PROVE TypeOK'
  BY DEF IInv
<1> USE AccountsAssumption DEF TypeOK, PC, Goto, tableVars, historyVars
<1>1. ASSUME NEW r \in Requests, Send(r) PROVE TypeOK'
  BY <1>1 DEF Send
<1>2. ASSUME NEW r \in Requests, FindBySubject(r) PROVE TypeOK'
  BY <1>2 DEF FindBySubject, Resolve
<1>3. ASSUME NEW r \in Requests, FindByEmail(r) PROVE TypeOK'
  <2>2. answer' \in [Requests -> Answers]
    <3>1. CASE UNCHANGED answer
      BY <3>1
    <3>2. CASE Tell(r, "mismatch", {})
      BY <3>2 DEF Tell, Answers
    <3> QED
      BY <1>3, <3>1, <3>2 DEF FindByEmail
  <2>3. pc' \in [Requests -> PC]
    BY <1>3 DEF FindByEmail, NotFound, LinkNext, Tell
  <2>4. contested' \subseteq UserIds /\ row' \in [Requests -> UserIds \cup {None}]
    BY <1>3 DEF FindByEmail, LinkNext
  <2> QED
    BY <1>3, <2>2, <2>3, <2>4 DEF FindByEmail
<1>4. ASSUME NEW r \in Requests, Bind(r) PROVE TypeOK'
  <2>1. row[r] \in users /\ token[r].subject \in Subjects
    BY <1>4 DEF Bind, StepsRefer, Tokens
  <2>2. linked' \in [users -> Subjects \cup {None}]
    <3>1. CASE linked' = [linked EXCEPT ![row[r]] = token[r].subject]
      BY <2>1, <3>1
    <3>2. CASE linked' = linked
      BY <3>2
    <3> QED
      BY <1>4, <3>1, <3>2 DEF Bind
  <2>3. answer' \in [Requests -> Answers] /\ row' \in [Requests -> UserIds \cup {None}]
    BY <1>4, <2>1, ResolveTypes, TellTypes DEF Bind
  <2>4. pc' \in [Requests -> PC]
    BY <1>4 DEF Bind, Resolve, Tell
  <2> QED
    BY <1>4, <2>2, <2>3, <2>4 DEF Bind
<1>5. ASSUME NEW r \in Requests, CreateUser(r) PROVE TypeOK'
  <2>1. token[r].email \in Emails /\ token[r].subject \in Subjects
    BY <1>5 DEF CreateUser, StepsRefer, Tokens
  <2>2. /\ users' \subseteq UserIds
        /\ address' \in [users' -> Emails]
        /\ linked' \in [users' -> Subjects \cup {None}]
        /\ roles' \in [users' -> SUBSET Roles]
    <3>1. ASSUME NEW e \in UserIds,
                 users' = users \cup {e},
                 address' = [d \in users \cup {e} |-> IF d = e THEN token[r].email
                                                       ELSE address[d]],
                 linked' = [d \in users \cup {e} |-> IF d = e THEN token[r].subject
                                                      ELSE linked[d]],
                 roles' = [d \in users \cup {e} |-> IF d = e THEN {} ELSE roles[d]]
          PROVE  /\ users' \subseteq UserIds
                 /\ address' \in [users' -> Emails]
                 /\ linked' \in [users' -> Subjects \cup {None}]
                 /\ roles' \in [users' -> SUBSET Roles]
      <4>1. users' \subseteq UserIds
        BY <2>1, <3>1
      <4>2. linked' \in [users \cup {e} -> Subjects \cup {None}]
        BY <2>1, <3>1
      <4>3. roles' \in [users \cup {e} -> SUBSET Roles]
        BY <2>1, <3>1
      <4>4. address' \in [users \cup {e} -> Emails]
        BY <2>1, <3>1
      <4> QED
        BY <3>1, <4>1, <4>2, <4>3, <4>4
    <3>2. CASE UNCHANGED tableVars
      BY <3>2
    <3> QED
      BY <1>5, <3>1, <3>2 DEF CreateUser
  <2>3. answer' \in [Requests -> Answers] /\ row' \in [Requests -> UserIds \cup {None}]
    BY <1>5, <2>1, ResolveTypes, TellTypes DEF CreateUser
  <2>4. pc' \in [Requests -> PC]
    BY <1>5 DEF CreateUser, Resolve, Tell
  <2> QED
    BY <1>5, <2>2, <2>3, <2>4 DEF CreateUser
<1>6. ASSUME NEW r \in Requests, SyncRead(r) PROVE TypeOK'
  BY <1>6 DEF SyncRead, StepsRefer, Resolved
<1>7. ASSUME NEW r \in Requests, SyncWrite(r) PROVE TypeOK'
  <2>1. row[r] \in users /\ DesiredRoles(r) \in SUBSET Roles
    BY <1>7, DesiredRolesSome DEF SyncWrite, StepsRefer, Resolved
  <2>2. SyncedRoles(r) \in SUBSET Roles
    BY <2>1 DEF SyncedRoles
  <2> QED
    BY <1>7, <2>1, <2>2 DEF SyncWrite
<1>8. ASSUME NEW r \in Requests, SyncFails(r) PROVE TypeOK'
  BY <1>8 DEF SyncFails, Tell, Answers
<1>9. ASSUME NEW r \in Requests, ReadContext(r) PROVE TypeOK'
  <2>1. row[r] \in users
    BY <1>9 DEF ReadContext, StepsRefer, Resolved
  <2>2. roles[row[r]] \in SUBSET Roles
    BY <2>1
  <2>3. answer' \in [Requests -> Answers]
    BY <1>9, <2>2 DEF ReadContext, Tell, Answers
  <2>4. pc' \in [Requests -> PC]
    BY <1>9 DEF ReadContext, Tell
  <2> QED
    BY <1>9, <2>3, <2>4 DEF ReadContext
<1>10. ASSUME NEW e \in UserIds, ChangeAddress(e) PROVE TypeOK'
  BY <1>10 DEF ChangeAddress
<1>11. CASE UNCHANGED vars
  BY <1>11 DEF vars
<1> QED
  BY <1>1, <1>2, <1>3, <1>4, <1>5, <1>6, <1>7, <1>8, <1>9, <1>10, <1>11 DEF Next, Resolving

\* Every step keeps what requests refer to.
LEMMA NextRefer == IInv /\ [Next]_vars => StepsRefer'
<1> SUFFICES ASSUME TypeOK, StepsRefer, [Next]_vars PROVE StepsRefer'
  BY DEF IInv
<1>0. /\ pc \in [Requests -> PC] /\ answer \in [Requests -> Answers]
      /\ token \in [Requests -> Tokens \cup {NoToken}]
      /\ row \in [Requests -> UserIds \cup {None}]
      /\ users \subseteq UserIds /\ None \notin UserIds
  BY AccountsAssumption DEF TypeOK
<1> USE <1>0 DEF StepsRefer, Resolved, Goto, tableVars, historyVars
<1>1. ASSUME NEW r \in Requests, Send(r) PROVE StepsRefer'
  BY <1>1 DEF Send
<1>2. ASSUME NEW r \in Requests, FindBySubject(r) PROVE StepsRefer'
  BY <1>2 DEF FindBySubject, Resolve
<1>3. ASSUME NEW r \in Requests, FindByEmail(r) PROVE StepsRefer'
  BY <1>3 DEF FindByEmail, Found, NotFound, LinkNext, Tell
<1>4. ASSUME NEW r \in Requests, Bind(r) PROVE StepsRefer'
  BY <1>4 DEF Bind, Resolve, Tell
<1>5. ASSUME NEW r \in Requests, CreateUser(r) PROVE StepsRefer'
  <2>1. token[r].email \in Emails
    BY <1>5 DEF CreateUser, Tokens
  <2> QED
    BY <1>5, <2>1 DEF CreateUser, Resolve, Tell
<1>6. ASSUME NEW r \in Requests, SyncRead(r) \/ SyncWrite(r) PROVE StepsRefer'
  BY <1>6 DEF SyncRead, SyncWrite
<1>7. ASSUME NEW r \in Requests, SyncFails(r) \/ ReadContext(r) PROVE StepsRefer'
  BY <1>7 DEF SyncFails, ReadContext, Tell
<1>8. ASSUME NEW e \in UserIds, ChangeAddress(e) PROVE StepsRefer'
  BY <1>8 DEF ChangeAddress
<1>9. CASE UNCHANGED vars
  BY <1>9 DEF vars
<1> QED
  BY <1>1, <1>2, <1>3, <1>4, <1>5, <1>6, <1>7, <1>8, <1>9 DEF Next, Resolving

\* Those about to link an account go on agreeing when nobody joins them and the
\* account stays unlinked or becomes their own.
LEMMA AgreementFrame ==
  ASSUME BindersAgree, UNCHANGED token, contested \subseteq contested',
         \A q \in Requests : pc'[q] = "bind" => pc[q] = "bind" /\ row'[q] = row[q],
         \A q \in Requests : pc[q] = "bind" /\ row[q] \notin contested =>
           linked'[row[q]] \in {linked[row[q]], token[q].subject}
  PROVE  BindersAgree'
BY DEF BindersAgree

\* Every step keeps the agreement of those about to link an account.
LEMMA NextAgree == IInv /\ [Next]_vars => BindersAgree'
<1> SUFFICES ASSUME TypeOK, StepsRefer, BindersAgree, [Next]_vars PROVE BindersAgree'
  BY DEF IInv
<1>0. /\ pc \in [Requests -> PC]
      /\ token \in [Requests -> Tokens \cup {NoToken}]
      /\ row \in [Requests -> UserIds \cup {None}]
      /\ linked \in [users -> Subjects \cup {None}]
  BY DEF TypeOK
<1>b. \A q \in Requests : pc[q] = "bind" => row[q] \in users
  BY DEF StepsRefer
<1> USE <1>0 DEF StepsRefer, BindersAgree, Goto, tableVars, historyVars
<1>1. ASSUME NEW r \in Requests, Send(r) PROVE BindersAgree'
  BY <1>1 DEF Send
<1>2. ASSUME NEW r \in Requests, FindBySubject(r) PROVE BindersAgree'
  BY <1>2, AgreementFrame DEF FindBySubject, Resolve
<1>3. ASSUME NEW r \in Requests, FindByEmail(r) PROVE BindersAgree'
  <2>1. CASE /\ pc' = [pc EXCEPT ![r] = "create"] \/ pc' = [pc EXCEPT ![r] = "done"]
             /\ UNCHANGED <<row, contested>>
    BY <1>3, <2>1 DEF FindByEmail
  <2>2. ASSUME NEW e \in UserIds, Found(r, e), linked[e] \in {None, token[r].subject},
               LinkNext(r, e)
        PROVE  BindersAgree'
    <3>1. Rivals(r, e) = {} => \A q \in Requests :
            pc[q] = "bind" /\ row[q] = e => token[q].subject = token[r].subject
      BY DEF Rivals
    <3>2. UNCHANGED <<token, linked>> /\ contested \subseteq contested'
      BY <1>3, <2>2 DEF FindByEmail, LinkNext
    <3>3. /\ pc' = [pc EXCEPT ![r] = "bind"] /\ row' = [row EXCEPT ![r] = e]
          /\ contested' = IF Rivals(r, e) = {} THEN contested ELSE contested \cup {e}
      BY <2>2 DEF LinkNext
    <3>4. e \in users
      BY <2>2 DEF Found
    <3> SUFFICES ASSUME NEW q \in Requests, pc'[q] = "bind", row'[q] \notin contested'
                 PROVE  /\ linked[row'[q]] \in {None, token[q].subject}
                        /\ \A d \in Requests : pc'[d] = "bind" /\ row'[d] = row'[q] =>
                             token[d].subject = token[q].subject
      BY <3>2
    <3>5. CASE row'[q] = e
      <4>1. Rivals(r, e) = {}
        BY <3>3, <3>5
      <4>2. \A d \in Requests : pc'[d] = "bind" /\ row'[d] = e =>
              token[d].subject = token[r].subject
        BY <3>1, <3>3, <4>1
      <4> QED
        BY <2>2, <3>5, <4>2
    <3>6. CASE row'[q] # e
      BY <3>2, <3>3, <3>6
    <3> QED
      BY <3>5, <3>6
  <2> QED
    BY <1>3, <2>1, <2>2 DEF FindByEmail, NotFound, Tell
<1>4. ASSUME NEW r \in Requests, Bind(r) PROVE BindersAgree'
  <2>1. /\ \A q \in Requests : pc'[q] = "bind" => pc[q] = "bind" /\ row'[q] = row[q]
        /\ UNCHANGED <<token, contested>>
    BY <1>4 DEF Bind, Resolve, Tell
  <2>2. ASSUME NEW q \in Requests, pc[q] = "bind", row[q] \notin contested
        PROVE  linked'[row[q]] \in {linked[row[q]], token[q].subject}
    <3>1. row[q] = row[r] => token[q].subject = token[r].subject
      BY <1>4, <2>2 DEF Bind
    <3>2. linked' = linked \/ linked' = [linked EXCEPT ![row[r]] = token[r].subject]
      BY <1>4 DEF Bind
    <3> QED
      BY <1>b, <2>2, <3>1, <3>2
  <2> QED
    BY <2>1, <2>2, AgreementFrame
<1>5. ASSUME NEW r \in Requests, CreateUser(r) PROVE BindersAgree'
  <2>1. /\ \A q \in Requests : pc'[q] = "bind" => pc[q] = "bind" /\ row'[q] = row[q]
        /\ UNCHANGED <<token, contested>>
    BY <1>5 DEF CreateUser, Resolve, Tell
  <2>2. \A d \in users : linked'[d] = linked[d]
    BY <1>5 DEF CreateUser
  <2> QED
    BY <1>b, <2>1, <2>2, AgreementFrame
<1>6. ASSUME NEW r \in Requests, SyncRead(r) \/ SyncWrite(r) PROVE BindersAgree'
  BY <1>6 DEF SyncRead, SyncWrite
<1>7. ASSUME NEW r \in Requests, SyncFails(r) \/ ReadContext(r) PROVE BindersAgree'
  BY <1>7 DEF SyncFails, ReadContext, Tell
<1>8. ASSUME NEW e \in UserIds, ChangeAddress(e) PROVE BindersAgree'
  BY <1>8 DEF ChangeAddress
<1>9. CASE UNCHANGED vars
  BY <1>9 DEF vars
<1> QED
  BY <1>1, <1>2, <1>3, <1>4, <1>5, <1>6, <1>7, <1>8, <1>9 DEF Next, Resolving

\* Every step keeps what has been read of the roles, and what was written of them.
LEMMA NextSyncs == IInv /\ [Next]_vars => (SyncsStand /\ ServedWithOwnRoles)'
<1> DEFINE Goal == (SyncsStand /\ ServedWithOwnRoles)'
<1> SUFFICES ASSUME TypeOK, StepsRefer, SyncsStand, ServedWithOwnRoles, [Next]_vars
             PROVE  Goal
  BY DEF IInv
<1>0. /\ pc \in [Requests -> PC] /\ answer \in [Requests -> Answers]
      /\ seen \in [Requests -> SUBSET Roles] /\ row \in [Requests -> UserIds \cup {None}]
      /\ token \in [Requests -> Tokens \cup {NoToken}]
      /\ roles \in [users -> SUBSET Roles] /\ None \notin users
  BY AccountsAssumption DEF TypeOK
<1> USE <1>0
    DEF StepsRefer, Resolved, SyncsStand, ServedWithOwnRoles, Goto, tableVars, historyVars
<1>1. ASSUME NEW r \in Requests, Send(r) PROVE Goal
  <2>1. \A q \in Requests \ {r} : DesiredRoles(q)' = DesiredRoles(q)
    BY <1>1 DEF Send, DesiredRoles
  <2> QED
    BY <1>1, <2>1 DEF Send
<1>2. ASSUME [Next]_vars, token' = token
      PROVE  \A q \in Requests : DesiredRoles(q)' = DesiredRoles(q)
  BY <1>2 DEF DesiredRoles
<1>3. ASSUME NEW r \in Requests, FindBySubject(r) \/ FindByEmail(r) \/ Bind(r) PROVE Goal
  BY <1>2, <1>3 DEF FindBySubject, FindByEmail, NotFound, LinkNext, Bind, Resolve, Tell
<1>4. ASSUME NEW r \in Requests, CreateUser(r) PROVE Goal
  BY <1>2, <1>4 DEF CreateUser, Resolve, Tell
<1>5. ASSUME NEW r \in Requests, SyncRead(r) PROVE Goal
  BY <1>2, <1>5 DEF SyncRead
<1>6. ASSUME NEW r \in Requests, SyncWrite(r) PROVE Goal
  <2>1. row[r] \in users /\ pc[r] = "write" /\ token' = token
    BY <1>6 DEF SyncWrite
  <2>2. roles' = [roles EXCEPT ![row[r]] = SyncedRoles(r)]
    BY <1>6 DEF SyncWrite
  <2>3. r \notin overtaken => SyncedRoles(r) = DesiredRoles(r)
    BY <2>1, SyncedAsDesired
  <2>4. /\ overtaken \subseteq overtaken'
        /\ \A q \in Requests \ {r} :
             row[q] = row[r] /\ pc[q] \in {"write", "context"} => q \in overtaken'
        /\ pc' = [pc EXCEPT ![r] = "context"] /\ UNCHANGED <<row, seen, answer>>
    BY <1>6 DEF SyncWrite
  <2>5. SyncsStand'
    <3> SUFFICES ASSUME NEW q \in Requests \ overtaken'
                 PROVE  /\ pc'[q] = "write" => seen'[q] = roles'[row'[q]]
                        /\ pc'[q] = "context" => roles'[row'[q]] = DesiredRoles(q)'
      OBVIOUS
    <3>1. CASE q = r
      BY <1>2, <2>1, <2>2, <2>3, <2>4, <3>1
    <3>2. CASE q # r
      BY <1>2, <2>1, <2>2, <2>4, <3>2
    <3> QED
      BY <3>1, <3>2
  <2>6. ServedWithOwnRoles'
    BY <1>2, <2>1, <2>4
  <2> QED
    BY <2>5, <2>6
<1>7. ASSUME NEW r \in Requests, SyncFails(r) \/ ReadContext(r) PROVE Goal
  BY <1>2, <1>7 DEF SyncFails, ReadContext, Tell
<1>8. ASSUME NEW e \in UserIds, ChangeAddress(e) PROVE Goal
  BY <1>2, <1>8 DEF ChangeAddress
<1>9. CASE UNCHANGED vars
  BY <1>2, <1>9 DEF vars
<1> QED
  BY <1>1, <1>3, <1>4, <1>5, <1>6, <1>7, <1>8, <1>9 DEF Next, Resolving

\* Every step leaves a synced account some role.
LEMMA NextKeeps == IInv /\ [Next]_vars => KeepsSomeRole'
<1> SUFFICES ASSUME TypeOK, StepsRefer, KeepsSomeRole, [Next]_vars PROVE KeepsSomeRole'
  BY DEF IInv
<1>0. /\ pc \in [Requests -> PC] /\ answer \in [Requests -> Answers]
      /\ row \in [Requests -> UserIds \cup {None}]
      /\ roles \in [users -> SUBSET Roles] /\ None \notin users
  BY AccountsAssumption DEF TypeOK
<1> USE <1>0 DEF StepsRefer, Resolved, KeepsSomeRole, Goto, tableVars, historyVars
<1>1. ASSUME NEW r \in Requests, Send(r) PROVE KeepsSomeRole'
  BY <1>1 DEF Send
<1>2. ASSUME NEW r \in Requests, FindBySubject(r) \/ FindByEmail(r) \/ Bind(r)
      PROVE  KeepsSomeRole'
  BY <1>2 DEF FindBySubject, FindByEmail, NotFound, LinkNext, Bind, Resolve, Tell
<1>3. ASSUME NEW r \in Requests, CreateUser(r) PROVE KeepsSomeRole'
  BY <1>3 DEF CreateUser, Resolve, Tell
<1>4. ASSUME NEW r \in Requests, SyncRead(r) PROVE KeepsSomeRole'
  BY <1>4 DEF SyncRead
<1>5. ASSUME NEW r \in Requests, SyncWrite(r) PROVE KeepsSomeRole'
  <2>1. row[r] \in users /\ token[r] \in Tokens /\ UNCHANGED <<row, answer>>
    BY <1>5 DEF SyncWrite
  <2>2. roles' = [roles EXCEPT ![row[r]] = SyncedRoles(r)]
    BY <1>5 DEF SyncWrite
  <2>3. row[r] \notin skewed' => SyncedRoles(r) # {}
    BY <1>5, <2>1, SyncedAsDesired, DesiredRolesSome DEF SyncWrite
  <2>4. skewed \ {row[r]} \subseteq skewed' /\ pc' = [pc EXCEPT ![r] = "context"]
    BY <1>5 DEF SyncWrite
  <2> QED
    BY <2>1, <2>2, <2>3, <2>4
<1>6. ASSUME NEW r \in Requests, SyncFails(r) PROVE KeepsSomeRole'
  BY <1>6 DEF SyncFails, Tell
<1>7. ASSUME NEW r \in Requests, ReadContext(r) PROVE KeepsSomeRole'
  <2>1. pc[r] = "context" /\ UNCHANGED <<row, roles, skewed>>
    BY <1>7 DEF ReadContext
  <2>2. /\ pc' = [pc EXCEPT ![r] = "done"]
        /\ \A q \in Requests \ {r} : answer'[q] = answer[q]
    BY <1>7 DEF ReadContext, Tell
  <2>3. answer[r].kind = "none"
    BY <2>1
  <2> QED
    BY <2>1, <2>2, <2>3
<1>8. ASSUME NEW e \in UserIds, ChangeAddress(e) PROVE KeepsSomeRole'
  BY <1>8 DEF ChangeAddress
<1>9. CASE UNCHANGED vars
  BY <1>9 DEF vars
<1> QED
  BY <1>1, <1>2, <1>3, <1>4, <1>5, <1>6, <1>7, <1>8, <1>9 DEF Next, Resolving

\* No step takes a linked account from its owner, unless it is contested.
LEMMA NextLink ==
  ASSUME IInv, [Next]_vars, NEW e \in users \ contested, linked[e] # None
  PROVE  e \in users' /\ linked'[e] = linked[e]
<1>0. /\ TypeOK /\ StepsRefer /\ BindersAgree
      /\ linked \in [users -> Subjects \cup {None}]
  BY DEF IInv, TypeOK
<1>1. ASSUME NEW r \in Requests, Bind(r) PROVE e \in users' /\ linked'[e] = linked[e]
  <2>1. row[r] = e => linked[e] = token[r].subject
    BY <1>0, <1>1 DEF Bind, BindersAgree
  <2> QED
    BY <1>0, <1>1, <2>1 DEF Bind
<1>2. ASSUME NEW r \in Requests, CreateUser(r)
      PROVE  e \in users' /\ linked'[e] = linked[e]
  <2>1. ASSUME NEW n \in UserIds \ (users \cup Suspended), users' = users \cup {n},
               linked' = [d \in users \cup {n} |-> IF d = n THEN token[r].subject
                                                    ELSE linked[d]]
        PROVE  e \in users' /\ linked'[e] = linked[e]
    BY <2>1
  <2>2. CASE UNCHANGED tableVars
    BY <2>2 DEF tableVars
  <2> QED
    BY <1>2, <2>1, <2>2 DEF CreateUser
<1>3. ASSUME NEW r \in Requests, \/ Send(r) \/ FindBySubject(r) \/ FindByEmail(r)
                                 \/ SyncRead(r) \/ SyncWrite(r) \/ SyncFails(r)
                                 \/ ReadContext(r)
      PROVE  e \in users' /\ linked'[e] = linked[e]
  BY <1>3 DEF Send, FindBySubject, FindByEmail, SyncRead, SyncWrite, SyncFails,
              ReadContext, tableVars
<1>4. ASSUME NEW d \in UserIds, ChangeAddress(d)
      PROVE  e \in users' /\ linked'[e] = linked[e]
  BY <1>4 DEF ChangeAddress
<1>5. CASE UNCHANGED vars
  BY <1>5 DEF vars, tableVars
<1> QED
  BY <1>1, <1>2, <1>3, <1>4, <1>5 DEF Next, Resolving

-----------------------------------------------------------------------------
(* The theorems.                                                           *)

\* The inductive invariant: what a request has found or read of an account still
\* holds, or the histories say that another request came between.
THEOREM SpecIInv == Spec => []IInv
<1>1. IInv /\ [Next]_vars => IInv'
  BY NextTypeOK, NextRefer, NextAgree, NextSyncs, NextKeeps DEF IInv
<1> QED
  BY <1>1, InitIInv, PTL DEF Spec

\* Every reachable state is well typed.
THEOREM TypeCorrect == Spec => []TypeOK
<1>1. IInv => TypeOK
  BY DEF IInv
<1> QED
  BY <1>1, SpecIInv, PTL

\* A request is served with the roles of its token, unless it was overtaken.
THEOREM OwnRoles == Spec => []ServedWithOwnRoles
<1>1. IInv => ServedWithOwnRoles
  BY DEF IInv
<1> QED
  BY <1>1, SpecIInv, PTL

\* A synced account has some role, unless its last sync was skewed.
THEOREM SomeRole == Spec => []KeepsSomeRole
<1>1. IInv => KeepsSomeRole
  BY DEF IInv
<1> QED
  BY <1>1, SpecIInv, PTL

\* An account that is linked keeps its owner, unless it was contested.
THEOREM LinksStand == Spec => LinkStands
<1> DEFINE Stands == \A e \in users \ contested :
                       linked[e] # None => e \in users' /\ linked'[e] = linked[e]
<1>1. IInv /\ [Next]_vars => Stands
  BY NextLink
<1>2. IInv /\ [Next]_vars => [Stands]_vars
  BY <1>1
<1>3. Spec => [][Stands]_vars
  BY <1>2, SpecIInv, PTL DEF Spec
<1> QED
  BY <1>3 DEF LinkStands
=============================================================================
