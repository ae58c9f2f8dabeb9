------------------------------ MODULE Accounts ------------------------------
(***************************************************************************)
(* Accounts, sessions and strategy grants of the API server (src/src/      *)
(* auth.rs and the account handlers of src/src/server.rs).  Every handler  *)
(* is a task; one statement of PostgreSQL is one step, so that statements  *)
(* of different requests interleave.  A task may be dropped between two    *)
(* steps: the client disconnects, or a statement fails.                    *)
(*                                                                         *)
(* Passwords are not modelled: whether one matches, and whether a text is  *)
(* a valid username or password, is an input.                              *)
(***************************************************************************)
EXTENDS Integers, FiniteSets

CONSTANTS
    UserIds,       \* nav_users.user_id, those never given out included
    FirstUsers,    \* [user id -> "admin", "user" or None] at the start
    Tokens,        \* session tokens, those never given out included
    FirstSessions, \* tokens of a user at the start: [token -> user id or None]
    Slugs,         \* enabled rows of strategy_envs
    Tasks,         \* requests the server handles at a time
    TTL,           \* SESSION_TTL_SECS
    RenewBelow,    \* SESSION_RENEW_BELOW_SECS
    Offers,        \* bound: the sets of endpoints clients may call in a behaviour
    MaxTime,       \* bound: clock
    MaxRequests,   \* bound: requests
    MaxDrops,      \* bound: dropped handlers
    None

ASSUME AccountsAssumption ==
    /\ TTL \in Nat /\ RenewBelow \in Nat /\ RenewBelow < TTL
    /\ MaxTime \in Nat /\ MaxRequests \in Nat /\ MaxDrops \in Nat
    /\ None \notin {"admin", "user"}
    /\ FirstUsers \in [UserIds -> {"admin", "user", None}]
    /\ \E id \in UserIds : FirstUsers[id] = "admin"
    /\ FirstSessions \in [Tokens -> UserIds \cup {None}]
    /\ \A k \in Tokens :
         FirstSessions[k] # None => FirstUsers[FirstSessions[k]] # None

VARIABLES
    now, requests, drops,
    offered,    \* the endpoints clients call in this behaviour, never changed
    users,      \* nav_users: [id -> role, None without a row]
    usedIds,    \* ids given out by the identity column
    sessions,   \* nav_sessions: [token -> row or None]
    issued,     \* history: tokens given out
    grants,     \* nav_user_strategy_grants: [id -> slugs], committed
    tasks,      \* the handlers under way
    replaced,   \* history: [id -> the slugs of the last grant request, None when
                \*   it overlapped another one of the same user]
    crossed     \* history: two removals of an admin overlapped

accountVars == <<offered, users, usedIds, sessions, issued, grants, tasks, replaced,
                 crossed>>
vars == <<now, requests, drops, accountVars>>

Idle == [pc |-> "idle"]
Session(user) == [user |-> user, expires |-> now + TTL]

Init ==
    /\ now = 0 /\ requests = 0 /\ drops = 0
    /\ offered \in Offers
    /\ users = FirstUsers
    /\ usedIds = {id \in UserIds : FirstUsers[id] # None}
    /\ sessions = [k \in Tokens |->
                     IF FirstSessions[k] = None THEN None
                     ELSE [user |-> FirstSessions[k], expires |-> TTL]]
    /\ issued = {k \in Tokens : FirstSessions[k] # None}
    /\ grants = [id \in UserIds |-> {}]
    /\ tasks = [t \in Tasks |-> Idle]
    /\ replaced = [id \in UserIds |-> {}]
    /\ crossed = FALSE

Admins == {id \in UserIds : users[id] = "admin"}
SessionsOf(id) ==
    {k \in Tokens : sessions[k] # None /\ sessions[k].user = id}
Without(tokens) == [k \in Tokens |-> IF k \in tokens THEN None ELSE sessions[k]]

To(t, pc) == tasks' = [tasks EXCEPT ![t].pc = pc]
Finish(t) == tasks' = [tasks EXCEPT ![t] = Idle]
At(t, pc) == tasks[t].pc = pc
-----------------------------------------------------------------------------
(* Sessions. *)

(* auth_login after the password was verified: the expired rows go, a row
   with a fresh token comes.  The password was verified a step before. *)
Login(t) ==
    /\ At(t, "idle") /\ requests < MaxRequests /\ "login" \in offered
    /\ requests' = requests + 1
    /\ \E id \in UserIds : users[id] # None
          /\ tasks' = [tasks EXCEPT ![t] = [pc |-> "dropExpired", user |-> id]]
    /\ UNCHANGED <<now, drops, offered, users, usedIds, sessions, issued, grants,
                   replaced, crossed>>

DropExpired(t) ==
    /\ At(t, "dropExpired")
    /\ sessions' = Without({k \in Tokens :
                      sessions[k] # None /\ sessions[k].expires =< now})
    /\ To(t, "createSession")
    /\ UNCHANGED <<now, requests, drops, offered, users, usedIds, issued, grants,
                   replaced, crossed>>

(* The row references nav_users: none is created for a deleted user. *)
CreateSession(t) ==
    /\ At(t, "createSession")
    /\ \/ /\ users[tasks[t].user] # None
          /\ \E k \in Tokens \ issued :
                /\ sessions' = [sessions EXCEPT ![k] = Session(tasks[t].user)]
                /\ issued' = issued \cup {k}
       \/ /\ users[tasks[t].user] = None
          /\ UNCHANGED <<sessions, issued>>
    /\ Finish(t)
    /\ UNCHANGED <<now, requests, drops, offered, users, usedIds, grants, replaced,
                   crossed>>

(* What a request asks for.  Its user and role are those the middleware
   reads with the session; they are not read again. *)
Requests ==
    [kind : {"logout", "password"}]
    \cup [kind : {"create"}, role : {"admin", "user"}]
    \cup [kind : {"update"}, target : UserIds, role : {"admin", "user", None},
          password : BOOLEAN]
    \cup [kind : {"delete"}, target : UserIds]
    \cup [kind : {"grants"}, target : UserIds, slugs : SUBSET Slugs]
AdminKinds == {"create", "update", "delete", "grants"}

ExpiresIn(k) == sessions[k].expires - now

(* require_auth with SessionStore::resolve: the row joined with its user. *)
Resolve(t, k, request) ==
    /\ At(t, "idle") /\ requests < MaxRequests
    /\ requests' = requests + 1
    /\ sessions[k] # None /\ request.kind \in offered
    /\ LET user == sessions[k].user
           task(pc) == [pc |-> pc, token |-> k, user |-> user,
                        admin |-> users[user] = "admin", request |-> request]
       IN  tasks' = [tasks EXCEPT ![t] =
                       task(CASE ExpiresIn(k) =< 0 -> "expired"
                              [] ExpiresIn(k) \in 1 .. RenewBelow - 1 -> "renew"
                              [] OTHER -> "authed")]
    /\ UNCHANGED <<now, drops, offered, users, usedIds, sessions, issued, grants,
                   replaced, crossed>>

DeleteExpired(t) ==
    /\ At(t, "expired")
    /\ sessions' = Without({tasks[t].token})
    /\ Finish(t)
    /\ UNCHANGED <<now, requests, drops, offered, users, usedIds, issued, grants,
                   replaced, crossed>>

(* mutant: the renewal inserts the row when it is gone. *)
RenewedUpsert(k, user) == [sessions EXCEPT ![k] = Session(user)]
Renewed(k, user) ==
    IF sessions[k] = None THEN sessions
    ELSE [sessions EXCEPT ![k] = Session(user)]

Renew(t) ==
    /\ At(t, "renew")
    /\ sessions' = Renewed(tasks[t].token, tasks[t].user)
    /\ To(t, "authed")
    /\ UNCHANGED <<now, requests, drops, offered, users, usedIds, issued, grants,
                   replaced, crossed>>

Authed(t, kind) ==
    /\ At(t, "authed") /\ tasks[t].request.kind = kind
    /\ kind \in AdminKinds => tasks[t].admin

(* ensure_admin *)
Forbidden(t) ==
    /\ At(t, "authed") /\ tasks[t].request.kind \in AdminKinds
    /\ ~tasks[t].admin
    /\ Finish(t)
    /\ UNCHANGED <<now, requests, drops, offered, users, usedIds, sessions, issued,
                   grants, replaced, crossed>>

Logout(t) ==
    /\ Authed(t, "logout")
    /\ sessions' = Without({tasks[t].token})
    /\ Finish(t)
    /\ UNCHANGED <<now, requests, drops, offered, users, usedIds, issued, grants,
                   replaced, crossed>>

(* change_password: the other sessions end a statement after the update. *)
ChangePassword(t) ==
    /\ Authed(t, "password")
    /\ \/ To(t, "revokeOthers")
       \/ Finish(t)                  \* refused: invalid or not the current one
    /\ UNCHANGED <<now, requests, drops, offered, users, usedIds, sessions, issued,
                   grants, replaced, crossed>>

RevokeOthers(t) ==
    /\ At(t, "revokeOthers")
    /\ sessions' = Without(SessionsOf(tasks[t].user) \ {tasks[t].token})
    /\ Finish(t)
    /\ UNCHANGED <<now, requests, drops, offered, users, usedIds, issued, grants,
                   replaced, crossed>>
-----------------------------------------------------------------------------
(* Accounts. *)

CreateUser(t) ==
    /\ Authed(t, "create")
    /\ \/ \E id \in UserIds \ usedIds :
             /\ users' = [users EXCEPT ![id] = tasks[t].request.role]
             /\ usedIds' = usedIds \cup {id}
       \/ UNCHANGED <<users, usedIds>>      \* 400, or the username is taken
    /\ Finish(t)
    /\ UNCHANGED <<now, requests, drops, offered, sessions, issued, grants, replaced,
                   crossed>>

Target(t) == tasks[t].request.target
Own(t) == Target(t) = tasks[t].user

(* update_nav_user: the target is read, and with it whether an admin is about
   to be demoted; the count, the update and the revocation follow. *)
LoadForUpdate(t) ==
    /\ Authed(t, "update")
    /\ LET role == tasks[t].request.role
           found == users[Target(t)]
       IN  CASE found = None -> Finish(t)
             [] found # None /\ role = None -> To(t, "setPassword")
             [] found # None /\ role = "user" /\ Own(t) -> Finish(t)
             [] found = "admin" /\ role = "user" /\ ~Own(t) -> To(t, "count")
             [] OTHER -> To(t, "write")
    /\ UNCHANGED <<now, requests, drops, offered, users, usedIds, sessions, issued,
                   grants, replaced, crossed>>

LoadForDelete(t) ==
    /\ Authed(t, "delete")
    /\ CASE users[Target(t)] = None \/ Own(t) -> Finish(t)
         [] users[Target(t)] = "admin" /\ ~Own(t) -> To(t, "count")
         [] OTHER -> To(t, "write")
    /\ UNCHANGED <<now, requests, drops, offered, users, usedIds, sessions, issued,
                   grants, replaced, crossed>>

(* mutant: an admin may be removed while one is left. *)
EnoughAdminsForOne == Cardinality(Admins) >= 1
EnoughAdmins == Cardinality(Admins) > 1

CountAdmins(t) ==
    /\ At(t, "count")
    /\ IF EnoughAdmins
       THEN tasks' = [tasks EXCEPT ![t].pc = "write"]
       ELSE Finish(t)
    /\ UNCHANGED <<now, requests, drops, offered, users, usedIds, sessions, issued,
                   grants, replaced, crossed>>

(* Removals that passed the count and are still to write. *)
Removing(t) ==
    /\ At(t, "write")
    /\ tasks[t].request.kind = "delete" \/ tasks[t].request.role = "user"
Crossed(t) ==
    crossed \/ (users[Target(t)] = "admin"
                /\ \E other \in Tasks \ {t} : Removing(other))

SetRole(t) ==
    /\ At(t, "write") /\ tasks[t].request.kind = "update"
    /\ LET role == tasks[t].request.role
       IN  /\ users' = IF users[Target(t)] = None THEN users
                       ELSE [users EXCEPT ![Target(t)] = role]
           /\ crossed' = IF role = "user" THEN Crossed(t) ELSE crossed
           /\ To(t, IF role = "user" THEN "revokeDemoted" ELSE "setPassword")
    /\ UNCHANGED <<now, requests, drops, offered, usedIds, sessions, issued, grants,
                   replaced>>

RevokeDemoted(t) ==
    /\ At(t, "revokeDemoted")
    /\ sessions' = Without(SessionsOf(Target(t)))
    /\ To(t, "setPassword")
    /\ UNCHANGED <<now, requests, drops, offered, users, usedIds, issued, grants,
                   replaced, crossed>>

SetPassword(t) ==
    /\ At(t, "setPassword")
    /\ IF tasks[t].request.password THEN To(t, "revokeAll") ELSE Finish(t)
    /\ UNCHANGED <<now, requests, drops, offered, users, usedIds, sessions, issued,
                   grants, replaced, crossed>>

RevokeAll(t) ==
    /\ At(t, "revokeAll")
    /\ sessions' = Without(SessionsOf(Target(t)))
    /\ Finish(t)
    /\ UNCHANGED <<now, requests, drops, offered, users, usedIds, issued, grants,
                   replaced, crossed>>
-----------------------------------------------------------------------------
(* Grants: one READ COMMITTED transaction of a DELETE and an INSERT.  Rows an
   open transaction deleted or inserted block others; a statement sees what
   was committed when it began. *)

GrantPcs == {"deleteGrants", "insertGrants", "commitGrants"}
Open(id) == {t \in Tasks : tasks[t].pc \in GrantPcs /\ Target(t) = id}

VisibleGrants(id) == grants[id]

(* The checks of set_nav_user_strategies, then the transaction begins and its
   DELETE takes its snapshot.  A request of an unknown slug is refused. *)
BeginGrants(t) ==
    /\ Authed(t, "grants")
    /\ IF users[Target(t)] = "user"
       THEN tasks' = [s \in Tasks |->
              CASE s = t -> [pc |-> "deleteGrants", token |-> tasks[t].token,
                             user |-> tasks[t].user, admin |-> tasks[t].admin,
                             request |-> tasks[t].request,
                             seen |-> VisibleGrants(Target(t)), deleted |-> {},
                             alone |-> Open(Target(t)) = {}]
                [] s \in Open(Target(t)) -> [tasks[s] EXCEPT !.alone = FALSE]
                [] OTHER -> tasks[s]]
       ELSE Finish(t)
    /\ UNCHANGED <<now, requests, drops, offered, users, usedIds, sessions, issued,
                   grants, replaced, crossed>>

Held(id, t) == UNION {tasks[s].deleted : s \in Open(id) \ {t}}
InsertedBy(id, t) ==
    UNION {IF At(s, "commitGrants") THEN tasks[s].request.slugs ELSE {} :
             s \in Open(id) \ {t}}

DeleteGrants(t) ==
    /\ At(t, "deleteGrants")
    /\ tasks[t].seen \cap Held(Target(t), t) = {}
    /\ tasks' = [tasks EXCEPT ![t].deleted = tasks[t].seen \cap grants[Target(t)],
                              ![t].pc = "insertGrants"]
    /\ UNCHANGED <<now, requests, drops, offered, users, usedIds, sessions, issued,
                   grants, replaced, crossed>>

(* The key is (user_id, strategy_slug): a slug another transaction inserted
   fails the statement, and the transaction is rolled back. *)
InsertGrants(t) ==
    /\ At(t, "insertGrants")
    /\ LET id == Target(t)
           slugs == tasks[t].request.slugs
       IN  /\ slugs \cap (Held(id, t) \cup InsertedBy(id, t)) = {}
           /\ IF \/ slugs # {} /\ users[id] = None
                 \/ slugs \cap (grants[id] \ tasks[t].deleted) # {}
              THEN Finish(t)
              ELSE To(t, "commitGrants")
    /\ UNCHANGED <<now, requests, drops, offered, users, usedIds, sessions, issued,
                   grants, replaced, crossed>>

CommitGrants(t) ==
    /\ At(t, "commitGrants")
    /\ LET id == Target(t)
           slugs == tasks[t].request.slugs
       IN  /\ grants' = [grants EXCEPT ![id] = (@ \ tasks[t].deleted) \cup slugs]
           /\ replaced' = [replaced EXCEPT ![id] =
                             IF tasks[t].alone THEN slugs ELSE None]
    /\ Finish(t)
    /\ UNCHANGED <<now, requests, drops, offered, users, usedIds, sessions, issued,
                   crossed>>

(* delete_nav_user: sessions and grants go with the row.  Rows a transaction
   inserted hold the user's row until it ends. *)
DeleteUser(t) ==
    /\ At(t, "write") /\ tasks[t].request.kind = "delete"
    /\ LET id == Target(t)
       IN  /\ Held(id, t) \cup InsertedBy(id, t) = {}
           /\ users' = [users EXCEPT ![id] = None]
           /\ sessions' = Without(SessionsOf(id))
           /\ grants' = [grants EXCEPT ![id] = {}]
           /\ replaced' = [replaced EXCEPT ![id] = {}]
           /\ crossed' = Crossed(t)
    /\ Finish(t)
    /\ UNCHANGED <<now, requests, drops, offered, usedIds, issued>>
-----------------------------------------------------------------------------
(* A handler is dropped or one of its statements fails: an open transaction
   is rolled back, what was written before stays. *)
Drop(t) ==
    /\ ~At(t, "idle") /\ drops < MaxDrops
    /\ drops' = drops + 1
    /\ Finish(t)
    /\ UNCHANGED <<now, requests, offered, users, usedIds, sessions, issued, grants,
                   replaced, crossed>>

(* Time matters to sessions and snapshots only. *)
Tick ==
    /\ now < MaxTime /\ offered \cap {"login", "snapshots"} # {}
    /\ now' = now + 1
    /\ UNCHANGED <<requests, drops, accountVars>>

AccountsNext ==
    \/ Tick
    \/ \E t \in Tasks :
         \/ Login(t) \/ DropExpired(t) \/ CreateSession(t)
         \/ \E k \in Tokens, request \in Requests : Resolve(t, k, request)
         \/ DeleteExpired(t) \/ Renew(t) \/ Forbidden(t)
         \/ Logout(t) \/ ChangePassword(t) \/ RevokeOthers(t)
         \/ CreateUser(t) \/ LoadForUpdate(t) \/ LoadForDelete(t)
         \/ CountAdmins(t) \/ SetRole(t) \/ RevokeDemoted(t)
         \/ SetPassword(t) \/ RevokeAll(t) \/ DeleteUser(t)
         \/ BeginGrants(t) \/ DeleteGrants(t) \/ InsertGrants(t)
         \/ CommitGrants(t)
         \/ Drop(t)

AccountsSpec == Init /\ [][AccountsNext]_vars
-----------------------------------------------------------------------------
(* A session that ended (logout, revocation, expiry, deleted account) never
   comes back, whatever renewal was under way. *)
EndedSessionStaysEnded ==
    [][\A k \in issued : sessions[k] = None => sessions'[k] = None]_vars

(* One admin is left after any number of updates and deletions, unless two
   removals both counted before either wrote. *)
AdminRemainsWhenSerial == crossed \/ Admins # {}

(* A user's grants are exactly the slugs of the last request that set them,
   unless it overlapped another one of the same user. *)
GrantsReplaced ==
    \A id \in UserIds : replaced[id] # None => grants[id] = replaced[id]

(* A session or a grant belongs to an account that exists. *)
NothingOrphaned ==
    \A id \in UserIds : users[id] = None => grants[id] = {} /\ SessionsOf(id) = {}

(* Accounts, sessions and grants stay consistent across handlers that check in
   one statement and write in another: an admin is left, nothing outlives its
   account, and grants are those of one request, never a mixture of two. *)
AccountsConsistent ==
    AdminRemainsWhenSerial /\ NothingOrphaned /\ GrantsReplaced
=============================================================================
