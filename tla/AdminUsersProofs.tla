--------------------------- MODULE AdminUsersProofs ---------------------------
(***************************************************************************)
(* Proofs about AdminUsers, for any emails, passwords and requests.        *)
(*                                                                         *)
(* The invariant adds to the two of the runs that every id in the bucket,  *)
(* gone from it or held by a request has been issued, so that a new one is *)
(* none of them, and that nobody deletes the own account.                  *)
(***************************************************************************)
EXTENDS AdminUsers, TLAPS

USE ConstantsAssumption DEF ConstantsAssumption

Issued ==
    /\ \A e \in Emails : Exists(e) => users[e].id \in 1 .. seq
    /\ gone \subseteq 1 .. seq
    /\ \A r \in Requests : req[r].step = "save" => req[r].id \in 1 .. seq

DeletesOthers ==
    \A r \in Requests : req[r].step = "delete" => req[r].by # req[r].email

IInv == TypeOK /\ Issued /\ DeletesOthers /\ DistinctIds /\ DeletedStayDeleted

------------------------------------------------------------------------------
(* What requests hold, and what is in the bucket.                          *)

LEMMA Kinds ==
    ASSUME NEW q \in ReqRecords
    PROVE  \/ q = Idle \/ q = Configuring
           \/ q \in [step : {"init"}, email : Emails, pass : Passwords]
           \/ q \in [step : {"save"}, email : Emails, id : Ids, new : Emails,
                     pass : Passwords]
           \/ q \in [step : {"delete"}, by : Emails, email : Emails]
           \/ q \in [step : {"forgot"}, email : Emails]
  BY DEF ReqRecords

LEMMA Fields ==
    ASSUME NEW q \in ReqRecords
    PROVE  /\ q.step = "init" => q.email \in Emails /\ q.pass \in Passwords
           /\ q.step = "save" => /\ q.email \in Emails /\ q.new \in Emails
                                 /\ q.id \in Ids /\ q.pass \in Passwords
           /\ q.step = "delete" => q.by \in Emails /\ q.email \in Emails
           /\ q.step = "forgot" => q.email \in Emails
  BY Kinds DEF Idle, Configuring

LEMMA StatesOK ==
    /\ Idle \in ReqRecords /\ Configuring \in ReqRecords
    /\ \A e \in Emails, p \in Passwords : Initing(e, p) \in ReqRecords
    /\ \A e, n \in Emails, i \in Ids, p \in Passwords :
            Saving(e, i, n, p) \in ReqRecords
    /\ \A b, e \in Emails : Deleting(b, e) \in ReqRecords
    /\ \A e \in Emails : Forgetting(e) \in ReqRecords
  BY DEF ReqRecords, Initing, Saving, Deleting, Forgetting

LEMMA Steps ==
    /\ Idle.step = "idle" /\ Configuring.step = "config"
    /\ \A e, p : Initing(e, p).step = "init"
    /\ \A e, i, n, p : Saving(e, i, n, p).step = "save" /\ Saving(e, i, n, p).id = i
    /\ \A b, e : /\ Deleting(b, e).step = "delete"
                 /\ Deleting(b, e).by = b /\ Deleting(b, e).email = e
    /\ \A e : Forgetting(e).step = "forgot"
  BY DEF Idle, Configuring, Initing, Saving, Deleting, Forgetting

LEMMA UserType ==
    ASSUME TypeOK, NEW e \in Emails, Exists(e)
    PROVE  users[e] \in Users /\ users[e].id \in Ids
  BY DEF TypeOK, Exists, Users

LEMMA IdsOfUsers ==
    \A i : i \in UserIds <=> \E e \in Emails : Exists(e) /\ users[e].id = i
  BY DEF UserIds

\* A request goes on to a state that holds an issued id and is no deletion of its
\* own user; the bucket stays.
LEMMA RequestMove ==
    ASSUME IInv, NEW r \in Requests, NEW q \in ReqRecords, Goto(r, q),
           q.step = "save" => q.id \in 1 .. seq,
           q.step = "delete" => q.by # q.email,
           UNCHANGED <<users, seq, gone, stale>>,
           keys' \subseteq Emails, configured' \in BOOLEAN
    PROVE  IInv'
<1>1. req' = [req EXCEPT ![r] = q]
  BY DEF Goto
<1>2. req' \in [Requests -> ReqRecords]
  BY <1>1 DEF IInv, TypeOK
<1>3. \A s \in Requests : req'[s] = IF s = r THEN q ELSE req[s]
  BY <1>1 DEF IInv, TypeOK
<1>4. TypeOK'
  BY <1>2 DEF IInv, TypeOK
<1>5. Issued' /\ DeletesOthers'
  BY <1>3 DEF IInv, Issued, DeletesOthers, Exists
<1>6. DistinctIds' /\ DeletedStayDeleted'
  BY DEF IInv, DistinctIds, DeletedStayDeleted, UserIds, Exists
<1> QED BY <1>4, <1>5, <1>6 DEF IInv

\* The bucket changes to accounts that were there, with fewer emails; a request may
\* go back to idle.
LEMMA BucketShrinks ==
    ASSUME IInv, NEW new \in [Emails -> Users \cup {NoUser}], Store(new),
           NEW r \in Requests, Goto(r, Idle),
           UNCHANGED <<seq, keys, configured>>, stale' \in BOOLEAN, stale => stale',
           \A e \in Emails : new[e] # NoUser => new[e].id \in 1 .. seq,
           ~stale' => \A e, f \in Emails :
               new[e] # NoUser /\ new[f] # NoUser /\ new[e].id = new[f].id => e = f,
           ~stale' => \A e \in Emails : new[e] # NoUser =>
                          \E f \in Emails : Exists(f) /\ users[f].id = new[e].id
    PROVE  IInv'
<1>1. users' = new /\ gone' = gone \cup (UserIds \ UserIds')
  BY DEF Store
<1>2. req' = [req EXCEPT ![r] = Idle]
  BY DEF Goto
<1>3. \A s \in Requests : req'[s] = IF s = r THEN Idle ELSE req[s]
  BY <1>2 DEF IInv, TypeOK
<1>4. \A i \in UserIds : i \in 1 .. seq /\ i \in Ids
  BY IdsOfUsers, UserType DEF IInv, Issued
<1>5. TypeOK'
  <2>1. req' \in [Requests -> ReqRecords]
    BY <1>2, StatesOK DEF IInv, TypeOK
  <2>2. gone' \subseteq Ids
    BY <1>1, <1>4 DEF IInv, TypeOK
  <2> QED BY <1>1, <2>1, <2>2 DEF IInv, TypeOK
<1>6. Issued'
  <2>1. gone' \subseteq 1 .. seq
    BY <1>1, <1>4 DEF IInv, Issued
  <2> QED BY <1>1, <1>3, <2>1, Steps DEF IInv, Issued, Exists
<1>7. DeletesOthers'
  BY <1>3, Steps DEF IInv, DeletesOthers
<1>8. DistinctIds'
  BY <1>1 DEF DistinctIds, Exists
<1>9. DeletedStayDeleted'
  <2> SUFFICES ASSUME ~stale', NEW i, i \in UserIds', i \in gone' PROVE FALSE
    BY DEF DeletedStayDeleted
  <2>1. \E e \in Emails : new[e] # NoUser /\ new[e].id = i
    BY <1>1 DEF UserIds, Exists
  <2>2. i \in UserIds
    BY <2>1, IdsOfUsers
  <2>3. i \in gone
    BY <1>1
  <2> QED BY <2>2, <2>3 DEF IInv, DeletedStayDeleted
<1> QED BY <1>5, <1>6, <1>7, <1>8, <1>9 DEF IInv

\* An account is added under a new id, and no request that is about to save holds
\* that id.
LEMMA BucketGrows ==
    ASSUME IInv, NEW e \in Emails, NEW p \in Passwords, ~Exists(e), SetUser(e, p),
           UNCHANGED <<keys, configured, stale>>,
           NEW r \in Requests, Goto(r, Configuring) \/ req' = req
    PROVE  IInv'
<1> DEFINE user == [id |-> seq + 1, pass |-> p]
<1>1. seq < MaxId /\ seq' = seq + 1 /\ users' = [users EXCEPT ![e] = user]
      /\ gone' = gone \cup (UserIds \ UserIds')
  BY DEF SetUser, Store
<1>2. seq \in Nat /\ seq' \in 0 .. MaxId /\ user \in Users /\ user # NoUser
  BY <1>1 DEF IInv, TypeOK, Users, Ids
<1>3. \A f \in Emails : users'[f] = IF f = e THEN user ELSE users[f]
  BY <1>1 DEF IInv, TypeOK
<1>4. \A s \in Requests : req'[s] = req[s] \/ req'[s] = Configuring
  BY DEF Goto, IInv, TypeOK
<1>5. \A i : i \in UserIds => i \in UserIds'
  BY <1>3 DEF UserIds, Exists
<1>6. gone' = gone
  BY <1>1, <1>5
<1>7. TypeOK'
  <2>1. req' \in [Requests -> ReqRecords]
    BY StatesOK DEF Goto, IInv, TypeOK
  <2>2. users' \in [Emails -> Users \cup {NoUser}]
    BY <1>1, <1>2 DEF IInv, TypeOK
  <2> QED BY <1>2, <1>6, <2>1, <2>2 DEF IInv, TypeOK
<1>8. Issued'
  BY <1>1, <1>2, <1>3, <1>4, <1>6, Steps DEF IInv, Issued, Exists
<1>9. DeletesOthers'
  BY <1>4, Steps DEF IInv, DeletesOthers
<1>10. \A f \in Emails : Exists(f) => users[f].id # seq + 1
  BY <1>2 DEF IInv, Issued
<1>11. DistinctIds'
  BY <1>2, <1>3, <1>10 DEF IInv, DistinctIds, Exists
<1>12. DeletedStayDeleted'
  <2>1. \A i \in UserIds' : i \in UserIds \/ i = seq + 1
    BY <1>3 DEF UserIds, Exists
  <2>2. seq + 1 \notin gone
    BY <1>2 DEF IInv, Issued
  <2> QED BY <1>6, <2>1, <2>2 DEF IInv, DeletedStayDeleted
<1> QED BY <1>7, <1>8, <1>9, <1>11, <1>12 DEF IInv

------------------------------------------------------------------------------

LEMMA InitInv == Init => IInv
<1> SUFFICES ASSUME Init PROVE IInv
  OBVIOUS
<1>1. \A e \in Emails : ~Exists(e)
  BY DEF Init, Exists
<1>2. UserIds = {}
  BY <1>1 DEF UserIds
<1>3. \A r \in Requests : req[r].step = "idle"
  BY Steps DEF Init
<1>4. TypeOK
  <2>1. req \in [Requests -> ReqRecords]
    BY StatesOK DEF Init
  <2>2. configured \in BOOLEAN /\ stale \in BOOLEAN
    BY Zenon DEF Init
  <2>3. users \in [Emails -> Users \cup {NoUser}]
    BY DEF Init
  <2>4. seq \in 0 .. MaxId /\ keys \subseteq Emails /\ gone \subseteq Ids
    BY DEF Init
  <2> QED BY <2>1, <2>2, <2>3, <2>4 DEF TypeOK
<1> QED BY <1>1, <1>2, <1>3, <1>4 DEF Init, IInv, Issued, DeletesOthers, DistinctIds,
           DeletedStayDeleted

\* UpdateUser moves an account, and takes another one's place at most.
LEMMA SaveInv == ASSUME IInv, NEW r \in Requests, SaveUser(r) PROVE IInv'
<1> DEFINE q == req[r]
           user == [id |-> q.id, pass |-> q.pass]
           new == [e \in Emails |-> IF e = q.new THEN user
                                    ELSE IF e = q.email THEN NoUser ELSE users[e]]
<1>1. TypeOK /\ Issued
  BY DEF IInv
<1>2. /\ q.step = "save" /\ Goto(r, Idle) /\ UNCHANGED <<seq, keys, configured>>
      /\ q.email \in Emails /\ q.new \in Emails /\ q.id \in Ids /\ q.pass \in Passwords
  BY <1>1, Fields DEF SaveUser, TypeOK
<1>3. CASE ~Exists(q.email)
  <2>1. UNCHANGED <<users, gone, stale>>
    BY <1>3 DEF SaveUser
  <2>2. keys' \subseteq Emails /\ configured' \in BOOLEAN
    BY <1>1, <1>2 DEF TypeOK
  <2>3. Idle.step # "save" /\ Idle.step # "delete" /\ Idle \in ReqRecords
    BY Steps, StatesOK
  <2>4. Goto(r, Idle) /\ seq' = seq
    BY <1>2
  <2> QED BY <2>1, <2>2, <2>3, <2>4, RequestMove
<1>4. CASE Exists(q.email)
  <2>1. Store(new)
    BY <1>4 DEF SaveUser
  <2>2. stale' = (stale \/ users[q.email].id # q.id)
    BY <1>4 DEF SaveUser
  <2>3. user \in Users /\ user.id = q.id
    BY <1>2 DEF Users
  <2>4. new \in [Emails -> Users \cup {NoUser}]
    BY <1>1, <2>3 DEF TypeOK
  <2>5. q.id \in 1 .. seq
    BY <1>1, <1>2 DEF Issued
  <2>6. \A e \in Emails : new[e] # NoUser => new[e].id \in 1 .. seq
    BY <1>1, <2>3, <2>5 DEF Issued, Exists
  <2>7. ASSUME ~stale'
        PROVE  /\ \A e, f \in Emails :
                     new[e] # NoUser /\ new[f] # NoUser /\ new[e].id = new[f].id => e = f
               /\ \A e \in Emails : new[e] # NoUser =>
                     \E f \in Emails : Exists(f) /\ users[f].id = new[e].id
    <3>1. ~stale /\ users[q.email].id = q.id
      BY <2>2, <2>7
    <3>2. \A e, f \in Emails :
             Exists(e) /\ Exists(f) /\ users[e].id = users[f].id => e = f
      BY <3>1 DEF IInv, DistinctIds
    <3>3. \A e \in Emails : new[e] # NoUser =>
             \/ e = q.new /\ new[e].id = q.id
             \/ e # q.email /\ Exists(e) /\ new[e] = users[e]
      BY <2>3 DEF Exists
    <3> HIDE DEF new
    <3>4. ASSUME NEW e \in Emails, NEW f \in Emails,
                 new[e] # NoUser, new[f] # NoUser, new[e].id = new[f].id
          PROVE  e = f
      BY <1>2, <1>4, <3>1, <3>2, <3>3, <3>4
    <3>5. ASSUME NEW e \in Emails, new[e] # NoUser
          PROVE  \E f \in Emails : Exists(f) /\ users[f].id = new[e].id
      BY <1>2, <1>4, <3>1, <3>3, <3>5
    <3> QED BY <3>4, <3>5
  <2>8. stale' \in BOOLEAN /\ (stale => stale')
    BY <2>2
  <2> HIDE DEF new
  <2> QED BY <1>2, <2>1, <2>4, <2>6, <2>7, <2>8, BucketShrinks
<1> QED BY <1>3, <1>4

LEMMA StepInv == IInv /\ [Next]_vars => IInv'
<1> SUFFICES ASSUME IInv, [Next]_vars PROVE IInv'
  OBVIOUS
<1>0. TypeOK /\ Issued /\ keys \subseteq Emails /\ configured \in BOOLEAN
  BY DEF IInv, TypeOK
<1>1. ASSUME NEW r \in Requests, NEW e \in Emails, NEW p \in Passwords,
             InitCheck(r, e, p)
      PROVE  IInv'
  BY <1>0, <1>1, RequestMove, StatesOK, Steps DEF InitCheck
<1>2. ASSUME NEW r \in Requests, NEW e \in Emails, NEW p \in Passwords,
             AddUser(r, e, p)
      PROVE  IInv'
  BY <1>2, BucketGrows DEF AddUser
<1>3. ASSUME NEW r \in Requests, NEW e \in Emails, NEW p \in Passwords,
             RecoverRead(r, e, p)
      PROVE  IInv'
  <2>1. users[e].id \in Ids /\ users[e].id \in 1 .. seq
    BY <1>0, <1>3, UserType DEF RecoverRead, Issued
  <2>2. /\ Saving(e, users[e].id, e, p) \in ReqRecords
        /\ Saving(e, users[e].id, e, p).step = "save"
        /\ Saving(e, users[e].id, e, p).id = users[e].id
    BY <2>1, StatesOK, Steps
  <2> QED BY <1>0, <1>3, <2>1, <2>2, RequestMove DEF RecoverRead
<1>4. ASSUME NEW r \in Requests, NEW e \in Emails, NEW n \in Emails,
             NEW p \in Passwords, EditRead(r, e, n, p)
      PROVE  IInv'
  <2>1. users[e].id \in Ids /\ users[e].id \in 1 .. seq
    BY <1>0, <1>4, UserType DEF EditRead, Issued
  <2>2. /\ Saving(e, users[e].id, n, p) \in ReqRecords
        /\ Saving(e, users[e].id, n, p).step = "save"
        /\ Saving(e, users[e].id, n, p).id = users[e].id
    BY <2>1, StatesOK, Steps
  <2> QED BY <1>0, <1>4, <2>1, <2>2, RequestMove DEF EditRead
<1>5. ASSUME NEW r \in Requests, NEW by \in Emails, NEW e \in Emails,
             DeleteRead(r, by, e)
      PROVE  IInv'
  BY <1>0, <1>5, RequestMove, StatesOK, Steps DEF DeleteRead
<1>6. ASSUME NEW r \in Requests, NEW e \in Emails, ForgotRead(r, e) PROVE IInv'
  BY <1>0, <1>6, RequestMove, StatesOK, Steps DEF ForgotRead
<1>7. ASSUME NEW r \in Requests, InitSetUser(r) PROVE IInv'
  <2>1. req[r].email \in Emails /\ req[r].pass \in Passwords
    BY <1>0, <1>7, Fields DEF InitSetUser, TypeOK
  <2>2. CASE Exists(req[r].email)
    <3>1. Goto(r, Idle) /\ UNCHANGED <<users, seq, gone, keys, configured, stale>>
      BY <1>7, <2>2 DEF InitSetUser
    <3> QED BY <1>0, <3>1, RequestMove, StatesOK, Steps
  <2>3. CASE ~Exists(req[r].email)
    <3>1. /\ SetUser(req[r].email, req[r].pass) /\ Goto(r, Configuring)
          /\ UNCHANGED <<keys, configured, stale>>
      BY <1>7, <2>3 DEF InitSetUser
    <3> QED BY <2>1, <2>3, <3>1, BucketGrows
  <2> QED BY <2>2, <2>3
<1>8. ASSUME NEW r \in Requests, InitSetConfig(r) PROVE IInv'
  <2>1. configured' \in BOOLEAN
    BY <1>8, Zenon DEF InitSetConfig
  <2> QED BY <1>0, <1>8, <2>1, RequestMove, StatesOK, Steps DEF InitSetConfig
<1>9. ASSUME NEW r \in Requests, SaveUser(r) PROVE IInv'
  BY <1>9, SaveInv
<1>10. ASSUME NEW r \in Requests, DeleteUser(r) PROVE IInv'
  <2> DEFINE new == [users EXCEPT ![req[r].email] = NoUser]
  <2>1. req[r].email \in Emails
    BY <1>0, <1>10, Fields DEF DeleteUser, TypeOK
  <2>2. new \in [Emails -> Users \cup {NoUser}]
    BY <1>0 DEF TypeOK
  <2>3. \A e \in Emails : new[e] # NoUser => Exists(e) /\ new[e] = users[e]
    BY <1>0, <2>1 DEF TypeOK, Exists
  <2>4. Store(new) /\ Goto(r, Idle) /\ UNCHANGED <<seq, keys, configured, stale>>
    BY <1>10 DEF DeleteUser
  <2>5. stale' \in BOOLEAN /\ (stale => stale')
    BY <1>0, <2>4 DEF TypeOK
  <2> HIDE DEF new
  <2>6. \A e \in Emails : new[e] # NoUser => new[e].id \in 1 .. seq
    BY <1>0, <2>3 DEF Issued
  <2>7. ~stale' => \A e, f \in Emails :
            new[e] # NoUser /\ new[f] # NoUser /\ new[e].id = new[f].id => e = f
    BY <2>3, <2>4 DEF IInv, DistinctIds
  <2>8. \A e \in Emails : new[e] # NoUser =>
            \E f \in Emails : Exists(f) /\ users[f].id = new[e].id
    BY <2>3
  <2> QED BY <2>2, <2>4, <2>5, <2>6, <2>7, <2>8, BucketShrinks
<1>11. ASSUME NEW r \in Requests, SetRecoveryKey(r) PROVE IInv'
  <2>1. keys' \subseteq Emails
    BY <1>0, <1>11, Fields DEF SetRecoveryKey, TypeOK
  <2> QED BY <1>0, <1>11, <2>1, RequestMove, StatesOK, Steps DEF SetRecoveryKey
<1>12. CASE Crash
  <2>1. req' = [r \in Requests |-> Idle]
        /\ UNCHANGED <<users, seq, keys, configured, gone, stale>>
    BY <1>12 DEF Crash
  <2>2. TypeOK'
    BY <1>0, <2>1, StatesOK DEF TypeOK
  <2>3. Issued' /\ DeletesOthers'
    BY <1>0, <2>1, Steps DEF Issued, DeletesOthers, Exists
  <2>4. DistinctIds' /\ DeletedStayDeleted'
    BY <2>1 DEF IInv, DistinctIds, DeletedStayDeleted, UserIds, Exists
  <2> QED BY <2>2, <2>3, <2>4 DEF IInv
<1>13. CASE UNCHANGED vars
  BY <1>13 DEF vars, IInv, TypeOK, Issued, DeletesOthers, DistinctIds,
     DeletedStayDeleted, UserIds, Exists
<1> QED BY <1>1, <1>2, <1>3, <1>4, <1>5, <1>6, <1>7, <1>8, <1>9, <1>10, <1>11, <1>12,
           <1>13 DEF Next

LEMMA InvHolds == Spec => []IInv
  BY InitInv, StepInv, PTL DEF Spec

\* Every variable of the accounts has its type.
THEOREM TypeCorrect == Spec => []TypeOK
  BY InvHolds, PTL DEF IInv

\* An account is in the bucket once, unless a save met another account under the
\* email that its handler read (SetUser, UpdateUser, DeleteUser).
THEOREM AccountsOnce == Spec => []DistinctIds
  BY InvHolds, PTL DEF IInv

\* An account that has gone does not come back, with the same exception.
THEOREM GoneForGood == Spec => []DeletedStayDeleted
  BY InvHolds, PTL DEF IInv

\* A step that empties the bucket is a deletion by a user who has gone meanwhile
\* (configUsersDeleteHandler).
THEOREM EmptiedByOverlap == Spec => EmptiedOnlyByOverlap
<1> DEFINE Emptied == UserIds # {} /\ UserIds' = {}
           Overlap == \E r \in Requests : req[r].step = "delete" /\ ~Exists(req[r].by)
<1>1. ASSUME IInv, [Next]_vars, Emptied PROVE Overlap
  <2>0. TypeOK
    BY <1>1 DEF IInv
  <2>1. PICK e \in Emails : Exists(e)
    BY <1>1, IdsOfUsers
  <2>2. \A f \in Emails : users'[f] = NoUser
    BY <1>1 DEF UserIds, Exists
  <2>3. users' # users
    BY <2>1, <2>2 DEF Exists
  <2>4. ASSUME NEW f \in Emails, NEW user \in Users, users'[f] = user PROVE FALSE
    BY <2>2, <2>4
  <2>5. ASSUME NEW f \in Emails, NEW p \in Passwords, SetUser(f, p) PROVE FALSE
    <3>1. users'[f] = [id |-> seq + 1, pass |-> p]
      BY <2>0, <2>5 DEF SetUser, Store, TypeOK
    <3>2. [id |-> seq + 1, pass |-> p] \in Users
      BY <2>0, <2>5 DEF SetUser, TypeOK, Users, Ids
    <3> QED BY <2>4, <3>1, <3>2
  <2>6. ASSUME NEW r \in Requests, SaveUser(r) PROVE FALSE
    <3>1. req[r].new \in Emails /\ [id |-> req[r].id, pass |-> req[r].pass] \in Users
      BY <2>0, <2>6, Fields DEF SaveUser, TypeOK, Users
    <3>2. users'[req[r].new] = [id |-> req[r].id, pass |-> req[r].pass]
      BY <2>3, <2>6, <3>1 DEF SaveUser, Store
    <3> QED BY <2>4, <3>1, <3>2
  <2>7. ASSUME NEW r \in Requests, InitSetUser(r) PROVE FALSE
    <3>1. req[r].email \in Emails /\ req[r].pass \in Passwords
      BY <2>0, <2>7, Fields DEF InitSetUser, TypeOK
    <3>2. SetUser(req[r].email, req[r].pass)
      BY <2>3, <2>7 DEF InitSetUser
    <3> QED BY <2>5, <3>1, <3>2
  <2>8. \E r \in Requests : DeleteUser(r)
    <3>1. ~UNCHANGED vars
      BY <2>3 DEF vars
    <3>2. Next
      BY <1>1, <3>1
    <3> QED BY <2>3, <2>5, <2>6, <2>7, <3>2
            DEF Next, InitCheck, AddUser, RecoverRead, EditRead, DeleteRead, ForgotRead,
                InitSetConfig, SetRecoveryKey, Crash
  <2>9. PICK r \in Requests : DeleteUser(r)
    BY <2>8
  <2>10. /\ req[r].step = "delete" /\ req[r].by \in Emails
         /\ req[r].by # req[r].email
    BY <1>1, <2>0, <2>9, Fields DEF DeleteUser, TypeOK, IInv, DeletesOthers
  <2>11. users'[req[r].by] = users[req[r].by]
    BY <2>0, <2>9, <2>10 DEF DeleteUser, Store, TypeOK
  <2>12. ~Exists(req[r].by)
    BY <2>2, <2>10, <2>11 DEF Exists
  <2> QED BY <2>10, <2>12
<1> QED BY <1>1, InvHolds, PTL DEF Spec, EmptiedOnlyByOverlap
=============================================================================
