----------------------------- MODULE AdminUsers -----------------------------
(***************************************************************************)
(* The administrators' accounts: the bucket __users of system/db/user.go,  *)
(* keyed by email, the bucket __recoveryKeys, and the handlers of          *)
(* system/admin/handlers.go that change them (first set-up of the system,  *)
(* adding, editing and deleting users, recovering a password).             *)
(*                                                                         *)
(* A handler reads the account it works for in one transaction and changes *)
(* the bucket in another; each transaction is a step.  Passwords that do   *)
(* not match, keys that are wrong, and forms that do not parse change      *)
(* nothing and are left out.                                               *)
(***************************************************************************)
EXTENDS Naturals

CONSTANTS
    Emails,
    Passwords,
    Requests,   \* goroutines serving requests
    MaxId,      \* bound: users ever added
    NoUser

Ids == 1 .. MaxId
Users == [id : Ids, pass : Passwords]

ASSUME ConstantsAssumption == MaxId \in Nat /\ NoUser \notin Users

VARIABLES
    users,        \* the bucket __users: email to user
    seq,          \* its auto-increment sequence
    keys,         \* the emails that have a recovery key
    configured,   \* has initHandler stored the settings of the system?
    req,          \* what each request holds between its steps
    gone,         \* history: ids that were in the bucket and left it
    stale         \* history: has UpdateUser replaced an account that is
                  \* not the one its handler read?

vars == <<users, seq, keys, configured, req, gone, stale>>

Idle == [step |-> "idle"]
Initing(e, p) == [step |-> "init", email |-> e, pass |-> p]
Configuring == [step |-> "config"]
Saving(e, id, new, p) ==
    [step |-> "save", email |-> e, id |-> id, new |-> new, pass |-> p]
Deleting(by, e) == [step |-> "delete", by |-> by, email |-> e]
Forgetting(e) == [step |-> "forgot", email |-> e]

ReqRecords ==
    {Idle, Configuring}
    \cup [step : {"init"}, email : Emails, pass : Passwords]
    \cup [step : {"save"}, email : Emails, id : Ids, new : Emails, pass : Passwords]
    \cup [step : {"delete"}, by : Emails, email : Emails]
    \cup [step : {"forgot"}, email : Emails]

Exists(e) == users[e] # NoUser
UserIds == {users[e].id : e \in {x \in Emails : Exists(x)}}

Init ==
    /\ users = [e \in Emails |-> NoUser]
    /\ seq = 0
    /\ keys = {}
    /\ configured = FALSE
    /\ req = [r \in Requests |-> Idle]
    /\ gone = {}
    /\ stale = FALSE

Goto(r, state) == req' = [req EXCEPT ![r] = state]

(* The bucket changes; ids that are no longer in it are gone.              *)
Store(new) ==
    /\ users' = new
    /\ gone' = gone \cup (UserIds \ UserIds')

----------------------------------------------------------------------------
(* Mutant: the id is the sequence before NextSequence.                     *)
SetUserFromZero(e, p) ==
    /\ Store([users EXCEPT ![e] = [id |-> seq, pass |-> p]])
    /\ seq' = seq + 1

(* SetUser's transaction, for an email that has no user yet.               *)
SetUser(e, p) ==
    /\ seq < MaxId
    /\ seq' = seq + 1
    /\ Store([users EXCEPT ![e] = [id |-> seq + 1, pass |-> p]])

(* initHandler: there is no user, so the system is not set up.             *)
InitCheck(r, e, p) ==
    /\ req[r] = Idle
    /\ \A x \in Emails : ~Exists(x)
    /\ Goto(r, Initing(e, p))
    /\ UNCHANGED <<users, seq, keys, configured, gone, stale>>

(* initHandler adds the first user, unless the email is taken by now.      *)
InitSetUser(r) ==
    /\ req[r].step = "init"
    /\ IF Exists(req[r].email)
         THEN Goto(r, Idle) /\ UNCHANGED <<users, seq, gone>>
         ELSE SetUser(req[r].email, req[r].pass) /\ Goto(r, Configuring)
    /\ UNCHANGED <<keys, configured, stale>>

(* initHandler stores the settings.                                        *)
InitSetConfig(r) ==
    /\ req[r] = Configuring
    /\ configured' = TRUE
    /\ Goto(r, Idle)
    /\ UNCHANGED <<users, seq, keys, gone, stale>>

(* configUsersHandler: anyone whose token is valid adds a user; tokens are *)
(* not revoked, so one can be valid once there was a user.                 *)
AddUser(r, e, p) ==
    /\ req[r] = Idle
    /\ seq > 0
    /\ ~Exists(e)
    /\ SetUser(e, p)
    /\ UNCHANGED <<keys, configured, req, stale>>

(* configUsersEditHandler: a user, who knows the password, changes email   *)
(* and password; CurrentUser reads the account.                            *)
EditRead(r, e, new, p) ==
    /\ req[r] = Idle
    /\ Exists(e)
    /\ Goto(r, Saving(e, users[e].id, new, p))
    /\ UNCHANGED <<users, seq, keys, configured, gone, stale>>

(* Mutant: UpdateUser does not look whether the user still exists.         *)
SaveUserUnchecked(r) ==
    LET q == req[r]
        user == [id |-> q.id, pass |-> q.pass]
    IN  /\ q.step = "save"
        /\ Store([e \in Emails |-> IF e = q.new THEN user
                                   ELSE IF e = q.email THEN NoUser ELSE users[e]])
        /\ stale' = (stale \/ (Exists(q.email) /\ users[q.email].id # q.id))
        /\ Goto(r, Idle)
        /\ UNCHANGED <<seq, keys, configured>>

(* Mutant: the record under the former email stays.                        *)
SaveUserKeepsFormer(r) ==
    LET q == req[r]
    IN  /\ q.step = "save"
        /\ Exists(q.email)
        /\ Store([users EXCEPT ![q.new] = [id |-> q.id, pass |-> q.pass]])
        /\ stale' = (stale \/ users[q.email].id # q.id)
        /\ Goto(r, Idle)
        /\ UNCHANGED <<seq, keys, configured>>

(* UpdateUser's transaction: if there is (by now) a user with the email    *)
(* that was read, the new record is put under the new email, whoever has   *)
(* it, and the record under the former one is deleted.                     *)
SaveUser(r) ==
    LET q == req[r]
        user == [id |-> q.id, pass |-> q.pass]
    IN  /\ q.step = "save"
        /\ IF Exists(q.email)
             THEN /\ Store([e \in Emails |->
                               IF e = q.new THEN user
                               ELSE IF e = q.email THEN NoUser ELSE users[e]])
                  /\ stale' = (stale \/ users[q.email].id # q.id)
             ELSE UNCHANGED <<users, gone, stale>>
        /\ Goto(r, Idle)
        /\ UNCHANGED <<seq, keys, configured>>

(* Mutant: users may delete themselves.                                    *)
DeleteReadAnyone(r, by, e) ==
    /\ req[r] = Idle
    /\ Exists(by)
    /\ Goto(r, Deleting(by, e))
    /\ UNCHANGED <<users, seq, keys, configured, gone, stale>>

(* configUsersDeleteHandler: a user deletes another one.                   *)
DeleteRead(r, by, e) ==
    /\ req[r] = Idle
    /\ Exists(by)
    /\ e # by
    /\ Goto(r, Deleting(by, e))
    /\ UNCHANGED <<users, seq, keys, configured, gone, stale>>

(* DeleteUser's transaction.                                               *)
DeleteUser(r) ==
    /\ req[r].step = "delete"
    /\ Store([users EXCEPT ![req[r].email] = NoUser])
    /\ Goto(r, Idle)
    /\ UNCHANGED <<seq, keys, configured, stale>>

(* forgotPasswordHandler: there is such a user...                          *)
ForgotRead(r, e) ==
    /\ req[r] = Idle
    /\ Exists(e)
    /\ Goto(r, Forgetting(e))
    /\ UNCHANGED <<users, seq, keys, configured, gone, stale>>

(* ... SetRecoveryKey; nothing ever removes a key.                         *)
SetRecoveryKey(r) ==
    /\ req[r].step = "forgot"
    /\ keys' = keys \cup {req[r].email}
    /\ Goto(r, Idle)
    /\ UNCHANGED <<users, seq, configured, gone, stale>>

(* recoveryKeyHandler: the key is right; the account is read, and will be  *)
(* saved with the new password.                                            *)
RecoverRead(r, e, p) ==
    /\ req[r] = Idle
    /\ e \in keys
    /\ Exists(e)
    /\ Goto(r, Saving(e, users[e].id, e, p))
    /\ UNCHANGED <<users, seq, keys, configured, gone, stale>>

(* The server stops and starts again.                                      *)
Crash ==
    /\ \E r \in Requests : req[r] # Idle
    /\ req' = [r \in Requests |-> Idle]
    /\ UNCHANGED <<users, seq, keys, configured, gone, stale>>

Next ==
    \/ \E r \in Requests, e \in Emails, p \in Passwords :
           InitCheck(r, e, p) \/ AddUser(r, e, p) \/ RecoverRead(r, e, p)
    \/ \E r \in Requests, e, new \in Emails, p \in Passwords : EditRead(r, e, new, p)
    \/ \E r \in Requests, by, e \in Emails : DeleteRead(r, by, e)
    \/ \E r \in Requests, e \in Emails : ForgotRead(r, e)
    \/ \E r \in Requests :
           \/ InitSetUser(r) \/ InitSetConfig(r) \/ SaveUser(r)
           \/ DeleteUser(r) \/ SetRecoveryKey(r)
    \/ Crash

Spec == Init /\ [][Next]_vars

----------------------------------------------------------------------------
(* Every variable has its type. *)
TypeOK ==
    /\ users \in [Emails -> Users \cup {NoUser}]
    /\ seq \in 0 .. MaxId
    /\ keys \subseteq Emails
    /\ configured \in BOOLEAN
    /\ req \in [Requests -> ReqRecords]
    /\ gone \subseteq Ids
    /\ stale \in BOOLEAN

(* An account is in the bucket once, whatever saves, renames onto another  *)
(* user's email, deletions and recoveries interleave; unless a save was    *)
(* committed over an account that had taken over the email in between.     *)
DistinctIds ==
    ~stale => \A e, f \in Emails :
        Exists(e) /\ Exists(f) /\ users[e].id = users[f].id => e = f

(* An account that was deleted, or replaced, while its owner's save or     *)
(* recovery was under way does not come back with that save (again unless  *)
(* its email was given to another account in between).                     *)
DeletedStayDeleted == ~stale => UserIds \cap gone = {}

(* The last user is only ever deleted by a request whose own user has gone *)
(* since the handler read it (two users who delete each other at once): by *)
(* itself, no handler leaves the system without a user.                    *)
EmptiedOnlyByOverlap ==
    [][UserIds # {} /\ UserIds' = {} =>
          \E r \in Requests : req[r].step = "delete" /\ ~Exists(req[r].by)]_vars
=============================================================================
