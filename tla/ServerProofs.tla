---------------------------- MODULE ServerProofs ----------------------------
(***************************************************************************)
(* Proofs about Server for every set of users, tokens, strategies and      *)
(* tasks: sessions stay ended, a strategy has one fee-rate process, PnL    *)
(* starts where its base ends, and the fee rates shown cover every market; *)
(* and checks made in one statement and writes made in another, with any   *)
(* other handler between them, leave an admin, orphan nothing and never    *)
(* mix the grants of two requests.                                         *)
(***************************************************************************)
EXTENDS Server, FiniteSetTheorems, TLAPS

-----------------------------------------------------------------------------
(* Sessions. *)

SessionShape == DOMAIN sessions = Tokens /\ issued \subseteq Tokens

(* What a step may do to the sessions. *)
SessionsStep ==
    /\ SessionShape'
    /\ \A k \in issued : sessions[k] = None => sessions'[k] = None

(* A handler that removes rows brings none back. *)
LEMMA Removal ==
    ASSUME SessionShape, NEW gone, sessions' = Without(gone), issued' = issued
    PROVE  SessionsStep
BY DEF SessionShape, SessionsStep, Without

(* Each handler removes rows, renews one that is there, or uses a token    *)
(* that was never given out.                                               *)
LEMMA AccountSessions ==
    ASSUME SessionShape, [AccountsNext]_vars
    PROVE  SessionsStep
  <1>1. CASE UNCHANGED <<sessions, issued>>
    BY <1>1 DEF SessionShape, SessionsStep
  <1>2. ASSUME NEW gone, sessions' = Without(gone), issued' = issued
        PROVE  SessionsStep
    BY <1>2, Removal
  <1>3. ASSUME NEW t \in Tasks, CreateSession(t)
        PROVE  SessionsStep
    <2>1. CASE UNCHANGED <<sessions, issued>>
      BY <2>1, <1>1
    <2>2. ASSUME NEW k \in Tokens \ issued,
                 sessions' = [sessions EXCEPT ![k] = Session(tasks[t].user)],
                 issued' = issued \cup {k}
          PROVE  SessionsStep
      BY <2>2 DEF SessionShape, SessionsStep
    <2>. QED  BY <1>3, <2>1, <2>2 DEF CreateSession
  <1>4. ASSUME NEW t \in Tasks, Renew(t)
        PROVE  SessionsStep
    BY <1>4 DEF Renew, Renewed, SessionShape, SessionsStep
  <1>5. ASSUME NEW t \in Tasks,
               \/ DropExpired(t) \/ DeleteExpired(t) \/ Logout(t)
               \/ RevokeOthers(t) \/ RevokeDemoted(t) \/ RevokeAll(t)
               \/ DeleteUser(t)
        PROVE  SessionsStep
    BY <1>5, <1>2 DEF DropExpired, DeleteExpired, Logout, RevokeOthers,
                      RevokeDemoted, RevokeAll, DeleteUser
  <1>6. ASSUME NEW t \in Tasks,
               \/ Login(t) \/ Forbidden(t) \/ ChangePassword(t)
               \/ (\E k \in Tokens, request \in Requests :
                      Resolve(t, k, request))
               \/ CreateUser(t) \/ LoadForUpdate(t) \/ LoadForDelete(t)
               \/ CountAdmins(t) \/ SetRole(t) \/ SetPassword(t)
               \/ BeginGrants(t) \/ DeleteGrants(t) \/ InsertGrants(t)
               \/ CommitGrants(t) \/ Drop(t)
        PROVE  SessionsStep
    BY <1>6, <1>1
    DEF Login, Forbidden, ChangePassword, Resolve, CreateUser, LoadForUpdate,
        LoadForDelete, CountAdmins, SetRole, SetPassword, BeginGrants,
        DeleteGrants, InsertGrants, CommitGrants, Drop
  <1>7. CASE Tick \/ UNCHANGED vars
    BY <1>7, <1>1 DEF Tick, vars, accountVars
  <1>. QED  BY <1>3, <1>4, <1>5, <1>6, <1>7 DEF AccountsNext

(* The other handlers of the server and a restart leave the sessions be.   *)
LEMMA ServerSessions ==
    ASSUME SessionShape, [ServerNext]_serverVars
    PROVE  SessionsStep
  <1>1. CASE AccountsStep \/ UNCHANGED vars
    BY <1>1, AccountSessions DEF AccountsStep
  <1>2. ASSUME UNCHANGED <<sessions, issued>>
        PROVE  SessionsStep
    BY <1>2 DEF SessionShape, SessionsStep
  <1>3. CASE Restart
    BY <1>3, <1>2 DEF Restart
  <1>4. ASSUME NEW t \in Tasks,
               \/ BeginSnapshotSync(t) \/ EndSnapshotSync(t)
               \/ (\E s \in Slugs : FetchSnapshot(t, s))
               \/ (\E s \in Slugs, ts \in 1 .. MaxTime : StoreSnapshot(t, s, ts))
               \/ (\E s \in Slugs, ts \in 1 .. MaxTime : CheckInitial(t, s, ts))
               \/ SelectInitial(t) \/ AnswerPnl(t)
               \/ (\E s \in Slugs : ClearInitial(t, s) \/ BeginPnl(t, s)
                                      \/ BeginFeeSync(t, s))
               \/ EndFeeSync(t)
        PROVE  SessionsStep
    BY <1>4, <1>2
    DEF BeginSnapshotSync, EndSnapshotSync, FetchSnapshot, StoreSnapshot,
        CheckInitial, SelectInitial, AnswerPnl, ClearInitial, BeginPnl,
        BeginFeeSync, EndFeeSync, accounts
  <1>5. ASSUME NEW p \in DOMAIN processes, FetchRates(p) \/ StoreRates(p)
        PROVE  SessionsStep
    BY <1>5, <1>1 DEF FetchRates, StoreRates
  <1>. QED  BY <1>1, <1>3, <1>4, <1>5 DEF ServerNext, serverVars

(***************************************************************************)
(* A session that ended by logout, revocation, expiry or with its account  *)
(* never comes back, whatever renewal was under way                        *)
(* (SessionStore::resolve).                                                *)
(***************************************************************************)
THEOREM SessionsStayEnded == ServerSpec => EndedSessionStaysEnded
  <1>1. ServerInit => SessionShape
    BY DEF ServerInit, Init, SessionShape
  <1>2. SessionShape /\ [ServerNext]_serverVars => SessionShape'
    BY ServerSessions DEF SessionsStep
  <1>3. SessionShape /\ [ServerNext]_serverVars =>
          [\A k \in issued : sessions[k] = None => sessions'[k] = None]_vars
    BY ServerSessions DEF SessionsStep
  <1>. QED
    BY <1>1, <1>2, <1>3, PTL DEF ServerSpec, EndedSessionStaysEnded

-----------------------------------------------------------------------------
(* Tasks: the handlers of Accounts leave those of the strategies alone.    *)

TaskShape ==
    /\ DOMAIN tasks = Tasks
    /\ \A t \in Tasks : "pc" \in DOMAIN tasks[t]

(* Where a handler of Accounts, or one that ended, may stand. *)
AccountPcs ==
    {"idle", "dropExpired", "createSession", "expired", "renew", "authed",
     "revokeOthers", "count", "write", "revokeDemoted", "setPassword",
     "revokeAll", "deleteGrants", "insertGrants", "commitGrants"}

(* Every task stays as it is or is one that pcs allows. *)
TasksStep(pcs) ==
    /\ TaskShape'
    /\ \A t \in Tasks : tasks'[t] = tasks[t] \/ tasks'[t].pc \in pcs

(* A task is replaced. *)
LEMMA Replacement ==
    ASSUME TaskShape, NEW pcs, NEW t \in Tasks, NEW task,
           "pc" \in DOMAIN task, task.pc \in pcs,
           tasks' = [tasks EXCEPT ![t] = task]
    PROVE  TasksStep(pcs)
BY DEF TaskShape, TasksStep

(* A handler moves on. *)
LEMMA Advance ==
    ASSUME TaskShape, NEW t \in Tasks, NEW pcs, NEW pc \in pcs, To(t, pc)
    PROVE  TasksStep(pcs)
  <1>. DEFINE task == [tasks[t] EXCEPT !.pc = pc]
  <1>1. tasks' = [tasks EXCEPT ![t] = task]
    BY DEF To
  <1>2. "pc" \in DOMAIN task /\ task.pc = pc
    BY DEF TaskShape
  <1>. HIDE DEF task
  <1>. QED  BY <1>1, <1>2, Replacement

(* A handler ends. *)
LEMMA Ending ==
    ASSUME TaskShape, NEW t \in Tasks, Finish(t), NEW pcs, "idle" \in pcs
    PROVE  TasksStep(pcs)
  <1>1. "pc" \in DOMAIN Idle /\ Idle.pc = "idle"
    BY DEF Idle
  <1>. QED  BY <1>1, Replacement DEF Finish

LEMMA AccountTasks ==
    ASSUME TaskShape, AccountsNext
    PROVE  TasksStep(AccountPcs)
  <1>1. ASSUME NEW t \in Tasks, \/ Finish(t)
                               \/ \E pc \in AccountPcs : To(t, pc)
        PROVE  TasksStep(AccountPcs)
    BY <1>1, Advance, Ending DEF AccountPcs
  <1>2. CASE Tick
    BY <1>2 DEF Tick, accountVars, TaskShape, TasksStep
  <1>3. ASSUME NEW t \in Tasks, Login(t)
        PROVE  TasksStep(AccountPcs)
    <2>1. PICK id : tasks' = [tasks EXCEPT ![t] =
                                [pc |-> "dropExpired", user |-> id]]
      BY <1>3 DEF Login
    <2>. QED  BY <2>1, Replacement DEF AccountPcs
  <1>4. ASSUME NEW t \in Tasks, NEW k \in Tokens, NEW request \in Requests,
               Resolve(t, k, request)
        PROVE  TasksStep(AccountPcs)
    <2>. DEFINE pc == CASE ExpiresIn(k) =< 0 -> "expired"
                        [] ExpiresIn(k) \in 1 .. RenewBelow - 1 -> "renew"
                        [] OTHER -> "authed"
                task == [pc |-> pc, token |-> k, user |-> sessions[k].user,
                         admin |-> users[sessions[k].user] = "admin",
                         request |-> request]
    <2>1. tasks' = [tasks EXCEPT ![t] = task]
      BY <1>4 DEF Resolve
    <2>2. pc \in AccountPcs
      BY DEF AccountPcs
    <2>3. "pc" \in DOMAIN task /\ task.pc \in AccountPcs
      BY <2>2
    <2>. HIDE DEF task
    <2>. QED  BY <2>1, <2>3, Replacement
  <1>5. ASSUME NEW t \in Tasks,
               \/ DropExpired(t) \/ CreateSession(t) \/ DeleteExpired(t)
               \/ Renew(t) \/ Forbidden(t) \/ Logout(t) \/ ChangePassword(t)
               \/ RevokeOthers(t) \/ CreateUser(t)
        PROVE  TasksStep(AccountPcs)
    BY <1>5, <1>1
    DEF DropExpired, CreateSession, DeleteExpired, Renew, Forbidden, Logout,
        ChangePassword, RevokeOthers, CreateUser, AccountPcs
  <1>6. ASSUME NEW t \in Tasks, LoadForUpdate(t) \/ LoadForDelete(t)
        PROVE  TasksStep(AccountPcs)
    BY <1>6, <1>1 DEF LoadForUpdate, LoadForDelete, AccountPcs
  <1>7. ASSUME NEW t \in Tasks, CountAdmins(t)
        PROVE  TasksStep(AccountPcs)
    BY <1>7, <1>1 DEF CountAdmins, To, AccountPcs
  <1>8. ASSUME NEW t \in Tasks, \/ SetRole(t) \/ RevokeDemoted(t)
                               \/ SetPassword(t) \/ RevokeAll(t)
        PROVE  TasksStep(AccountPcs)
    BY <1>8, <1>1 DEF SetRole, RevokeDemoted, SetPassword, RevokeAll, AccountPcs
  <1>9. ASSUME NEW t \in Tasks, \/ InsertGrants(t) \/ CommitGrants(t)
                               \/ DeleteUser(t) \/ Drop(t)
        PROVE  TasksStep(AccountPcs)
    BY <1>9, <1>1 DEF InsertGrants, CommitGrants, DeleteUser, Drop, AccountPcs
  <1>10. ASSUME NEW t \in Tasks, BeginGrants(t)
         PROVE  TasksStep(AccountPcs)
    <2>1. CASE Finish(t)
      BY <2>1, <1>1
    <2>. DEFINE task == [pc |-> "deleteGrants", token |-> tasks[t].token,
                         user |-> tasks[t].user, admin |-> tasks[t].admin,
                         request |-> tasks[t].request,
                         seen |-> VisibleGrants(Target(t)), deleted |-> {},
                         alone |-> Open(Target(t)) = {}]
                overlapped(s) == [tasks[s] EXCEPT !.alone = FALSE]
    <2>2. CASE tasks' = [s \in Tasks |->
                           CASE s = t -> task
                             [] s \in Open(Target(t)) -> overlapped(s)
                             [] OTHER -> tasks[s]]
      <3>1. "pc" \in DOMAIN task /\ task.pc \in AccountPcs
        BY DEF AccountPcs
      <3>2. \A s \in Open(Target(t)) :
              "pc" \in DOMAIN overlapped(s) /\ overlapped(s).pc \in AccountPcs
        BY DEF Open, GrantPcs, AccountPcs, TaskShape
      <3>. HIDE DEF task, overlapped
      <3>3. \A s \in Tasks : \/ tasks'[s] = task
                             \/ s \in Open(Target(t)) /\ tasks'[s] = overlapped(s)
                             \/ tasks'[s] = tasks[s]
        BY <2>2
      <3>4. DOMAIN tasks' = Tasks
        BY <2>2
      <3>. QED  BY <3>1, <3>2, <3>3, <3>4 DEF TaskShape, TasksStep
    <2>. QED  BY <1>10, <2>1, <2>2 DEF BeginGrants
  <1>11. ASSUME NEW t \in Tasks, DeleteGrants(t)
         PROVE  TasksStep(AccountPcs)
    <2>. DEFINE task == [[tasks[t] EXCEPT
                            !.deleted = tasks[t].seen \cap grants[Target(t)]]
                            EXCEPT !.pc = "insertGrants"]
    <2>1. tasks' = [tasks EXCEPT ![t] = task]
      BY <1>11 DEF DeleteGrants, TaskShape
    <2>2. "pc" \in DOMAIN task /\ task.pc = "insertGrants"
      BY DEF TaskShape
    <2>. HIDE DEF task
    <2>. QED  BY <2>1, <2>2, Replacement DEF AccountPcs
  <1>. QED
    BY <1>2, <1>3, <1>4, <1>5, <1>6, <1>7, <1>8, <1>9, <1>10, <1>11
    DEF AccountsNext

-----------------------------------------------------------------------------
(* Fee rates. *)

Answer == {NoAnswer} \cup UNION {Answers(s) : s \in Slugs}
Process == [slug : Slugs, state : {"fetch", "store", "exited"},
            answer : Answer, lifetime : Nat]

(* A process the present server started and that still runs. *)
Runs(p) == processes[p].state # "exited" /\ processes[p].lifetime = lifetime

Waits(t) == tasks[t].pc = "fees"

FeeShape ==
    /\ TaskShape
    /\ processes \in Seq(Process)
    /\ lifetime \in Nat
    /\ \A p \in DOMAIN processes : processes[p].lifetime =< lifetime

(* The slug of every running process is taken, and so is that of every     *)
(* handler that waits; the process it waits for is the one that runs.      *)
SlugsTaken ==
    /\ \A p \in DOMAIN processes : Runs(p) => processes[p].slug \in feeRateSyncs
    /\ \A t \in Tasks : Waits(t) =>
         /\ tasks[t].slug \in feeRateSyncs
         /\ tasks[t].process \in DOMAIN processes
         /\ \A p \in DOMAIN processes :
              Runs(p) /\ processes[p].slug = tasks[t].slug => p = tasks[t].process
         /\ \A u \in Tasks : Waits(u) /\ tasks[u].slug = tasks[t].slug => u = t

FeeInv == FeeShape /\ SlugsTaken /\ OneFeeSyncProcess

(* A step that starts no wait, no process and frees no slug. *)
LEMMA FeesUntouched ==
    ASSUME FeeInv, NEW pcs, "fees" \notin pcs, TasksStep(pcs),
           UNCHANGED <<processes, lifetime, feeRateSyncs>>
    PROVE  FeeInv'
  <1>1. \A t \in Tasks : Waits(t)' => tasks'[t] = tasks[t] /\ Waits(t)
    BY DEF TasksStep, Waits
  <1>2. FeeShape'
    BY DEF FeeInv, FeeShape, TasksStep
  <1>3. SlugsTaken'
    BY <1>1 DEF FeeInv, SlugsTaken, Runs
  <1>4. OneFeeSyncProcess'
    BY DEF FeeInv, OneFeeSyncProcess
  <1>. QED  BY <1>2, <1>3, <1>4 DEF FeeInv

(* After a restart no process is of the present server. *)
LEMMA FeesRestart ==
    ASSUME FeeInv, Restart
    PROVE  FeeInv'
  <1>. USE DEF FeeInv
  <1>1. /\ \A t \in Tasks : tasks'[t] = Idle
        /\ DOMAIN tasks' = Tasks
        /\ processes' = processes /\ lifetime' = lifetime + 1
    BY DEF Restart
  <1>a. \A p \in DOMAIN processes : processes[p].lifetime \in Nat
    <2>1. \A p \in DOMAIN processes : processes[p] \in Process
      BY DEF FeeShape
    <2>. QED  BY <2>1 DEF Process
  <1>b. \A p \in DOMAIN processes : processes[p].lifetime < lifetime'
    BY <1>1, <1>a DEF FeeShape
  <1>2. FeeShape'
    <2>1. TaskShape'
      BY <1>1 DEF TaskShape, Idle
    <2>. QED  BY <1>1, <1>a, <1>b, <2>1 DEF FeeShape
  <1>3. \A p \in DOMAIN processes : ~Runs(p)'
    BY <1>1, <1>a, <1>b DEF FeeShape, Runs
  <1>4. \A t \in Tasks : ~Waits(t)'
    BY <1>1 DEF Waits, Idle
  <1>5. SlugsTaken'
    BY <1>1, <1>3, <1>4 DEF SlugsTaken
  <1>6. OneFeeSyncProcess'
    BY <1>1 DEF OneFeeSyncProcess
  <1>. QED  BY <1>2, <1>5, <1>6

(* A process starts only where its slug was free. *)
LEMMA FeeSyncBegins ==
    ASSUME FeeInv, NEW t \in Tasks, NEW s \in Slugs, BeginFeeSync(t, s)
    PROVE  FeeInv'
  <1>. USE DEF FeeInv
  <1>1. CASE s \in feeRateSyncs
    <2>1. /\ tasks' = [tasks EXCEPT ![t] = Idle]
          /\ UNCHANGED <<processes, lifetime, feeRateSyncs>>
      BY <1>1 DEF BeginFeeSync, Accept
    <2>2. TasksStep({"idle"})
      BY <2>1, Replacement DEF Idle, FeeShape
    <2>. QED  BY <2>1, <2>2, FeesUntouched
  <1>2. CASE s \notin feeRateSyncs
    <2>. DEFINE n == Len(processes) + 1
                task == [pc |-> "fees", slug |-> s, process |-> n]
                started == [slug |-> s, state |-> "fetch", answer |-> NoAnswer,
                            lifetime |-> lifetime]
    <2>1. /\ tasks' = [tasks EXCEPT ![t] = task]
          /\ feeRateSyncs' = feeRateSyncs \cup {s}
          /\ processes' = Append(processes, started)
          /\ lifetime' = lifetime
      BY <1>2 DEF BeginFeeSync, Accept
    <2>2. started \in Process
      <3>1. NoAnswer \in Answer
        BY DEF Answer
      <3>. QED  BY <3>1 DEF FeeShape, Process
    <2>3. /\ processes' \in Seq(Process)
          /\ n \in Nat /\ DOMAIN processes = 1 .. (n - 1)
          /\ DOMAIN processes' = 1 .. n
          /\ \A p \in DOMAIN processes : processes'[p] = processes[p]
          /\ processes'[n] = started
      BY <2>1, <2>2 DEF FeeShape
    <2>4. /\ DOMAIN tasks' = Tasks
          /\ \A u \in Tasks : tasks'[u] = IF u = t THEN task ELSE tasks[u]
      BY <2>1 DEF FeeShape, TaskShape
    <2>5. FeeShape'
      BY <2>1, <2>3, <2>4 DEF FeeShape, TaskShape
    <2>6. \A p \in DOMAIN processes' :
            Runs(p)' <=> p = n \/ (p \in DOMAIN processes /\ Runs(p))
      BY <2>1, <2>3 DEF Runs
    <2>7. SlugsTaken'
      <3>1. \A p \in DOMAIN processes' :
              Runs(p)' => processes'[p].slug \in feeRateSyncs'
        BY <2>1, <2>3, <2>6 DEF SlugsTaken
      <3>2. ASSUME NEW u \in Tasks, Waits(u)'
            PROVE  /\ tasks'[u].slug \in feeRateSyncs'
                   /\ tasks'[u].process \in DOMAIN processes'
        BY <3>2, <2>1, <2>3, <2>4 DEF SlugsTaken, Waits
      <3>3. ASSUME NEW u \in Tasks, Waits(u)', NEW p \in DOMAIN processes',
                   Runs(p)', processes'[p].slug = tasks'[u].slug
            PROVE  p = tasks'[u].process
        <4>1. CASE u = t
          BY <4>1, <3>3, <1>2, <2>3, <2>4, <2>6 DEF SlugsTaken
        <4>2. CASE u # t
          BY <4>2, <3>3, <1>2, <2>3, <2>4, <2>6 DEF SlugsTaken, Waits
        <4>. QED  BY <4>1, <4>2
      <3>4. ASSUME NEW u \in Tasks, NEW v \in Tasks, Waits(u)', Waits(v)',
                   tasks'[v].slug = tasks'[u].slug
            PROVE  v = u
        BY <3>4, <1>2, <2>4 DEF SlugsTaken, Waits
      <3>. QED  BY <3>1, <3>2, <3>3, <3>4 DEF SlugsTaken
    <2>8. OneFeeSyncProcess'
      <3>1. \A p \in DOMAIN processes :
              /\ processes[p].slug = s
              /\ processes[p].lifetime = lifetime
              => processes[p].state = "exited"
        BY <1>2 DEF SlugsTaken, Runs
      <3>. QED  BY <2>3, <3>1 DEF OneFeeSyncProcess
    <2>. QED  BY <2>5, <2>7, <2>8
  <1>. QED  BY <1>1, <1>2

(* A handler frees its slug when the process it waited for has exited.     *)
LEMMA FeeSyncEnds ==
    ASSUME FeeInv, NEW t \in Tasks, EndFeeSync(t)
    PROVE  FeeInv'
  <1>. USE DEF FeeInv
  <1>1. /\ Waits(t) /\ processes[tasks[t].process].state = "exited"
        /\ feeRateSyncs' = feeRateSyncs \ {tasks[t].slug}
        /\ tasks' = [tasks EXCEPT ![t] = Idle]
        /\ UNCHANGED <<processes, lifetime>>
    BY DEF EndFeeSync, At, Waits, Finish
  <1>2. /\ DOMAIN tasks' = Tasks
        /\ \A u \in Tasks : tasks'[u] = IF u = t THEN Idle ELSE tasks[u]
    BY <1>1 DEF FeeShape, TaskShape
  <1>3. FeeShape'
    BY <1>1, <1>2 DEF FeeShape, TaskShape, Idle
  <1>4. \A p \in DOMAIN processes : Runs(p) => processes[p].slug # tasks[t].slug
    BY <1>1 DEF SlugsTaken, Runs
  <1>5. \A u \in Tasks : Waits(u)' =>
          u # t /\ Waits(u) /\ tasks'[u] = tasks[u]
    BY <1>2 DEF Waits, Idle
  <1>6. SlugsTaken'
    BY <1>1, <1>4, <1>5 DEF SlugsTaken, Runs
  <1>7. OneFeeSyncProcess'
    BY <1>1 DEF OneFeeSyncProcess
  <1>. QED  BY <1>3, <1>6, <1>7

(* A process goes on or exits; none begins to run again.                   *)
LEMMA ProcessesGoOn ==
    ASSUME FeeInv, NEW p \in DOMAIN processes, FetchRates(p) \/ StoreRates(p)
    PROVE  FeeInv'
  <1>. USE DEF FeeInv
  <1>1. PICK process \in Process :
          /\ processes' = [processes EXCEPT ![p] = process]
          /\ process.slug = processes[p].slug
          /\ process.lifetime = processes[p].lifetime
          /\ processes[p].state # "exited"
    <2>1. processes[p] \in Process
      BY DEF FeeShape
    <2>2. CASE FetchRates(p)
      <3>1. PICK process :
              /\ processes' = [processes EXCEPT ![p] = process]
              /\ \E answer \in Answers(processes[p].slug) :
                    process \in {[processes[p] EXCEPT !.answer = answer,
                                                     !.state = "store"],
                                [processes[p] EXCEPT !.state = "exited"]}
        BY <2>2 DEF FetchRates, FeeShape
      <3>2. \A answer \in Answers(processes[p].slug) : answer \in Answer
        <4>1. processes[p].slug \in Slugs
          BY <2>1 DEF Process
        <4>. QED  BY <4>1 DEF Answer
      <3>3. /\ process \in Process
            /\ process.slug = processes[p].slug
            /\ process.lifetime = processes[p].lifetime
        BY <2>1, <3>1, <3>2 DEF Process
      <3>. QED  BY <2>2, <3>1, <3>3 DEF FetchRates
    <2>3. CASE StoreRates(p)
      <3>. DEFINE process == [processes[p] EXCEPT !.state = "exited",
                                                  !.answer = NoAnswer]
      <3>1. processes' = [processes EXCEPT ![p] = process]
        BY <2>3 DEF StoreRates, FeeShape
      <3>a. NoAnswer \in Answer
        BY DEF Answer
      <3>2. /\ process \in Process
            /\ process.slug = processes[p].slug
            /\ process.lifetime = processes[p].lifetime
        BY <2>1, <3>a DEF Process
      <3>. HIDE DEF process
      <3>. QED  BY <2>3, <3>1, <3>2 DEF StoreRates
    <2>. QED  BY <2>2, <2>3
  <1>2. UNCHANGED <<tasks, lifetime, feeRateSyncs>>
    BY DEF FetchRates, StoreRates, vars, accountVars
  <1>3. /\ DOMAIN processes' = DOMAIN processes
        /\ processes' \in Seq(Process)
        /\ \A q \in DOMAIN processes :
             processes'[q] = IF q = p THEN process ELSE processes[q]
    BY <1>1 DEF FeeShape
  <1>4. \A q \in DOMAIN processes : Runs(q)' => Runs(q)
    BY <1>1, <1>2, <1>3 DEF Runs
  <1>5. FeeShape'
    BY <1>1, <1>2, <1>3 DEF FeeShape, TaskShape
  <1>6. SlugsTaken'
    BY <1>1, <1>2, <1>3, <1>4 DEF SlugsTaken, Waits
  <1>7. OneFeeSyncProcess'
    BY <1>1, <1>3 DEF OneFeeSyncProcess
  <1>. QED  BY <1>5, <1>6, <1>7

(* A snapshot sync begins, ends, or hears from a strategy.                 *)
LEMMA SyncTasks ==
    ASSUME TaskShape, NEW t \in Tasks,
           \/ BeginSnapshotSync(t) \/ EndSnapshotSync(t)
           \/ (\E s \in Slugs : FetchSnapshot(t, s))
    PROVE  TasksStep({"idle", "snapshots"})
  <1>. DEFINE pcs == {"idle", "snapshots"}
  <1>1. ASSUME NEW task, "pc" \in DOMAIN task, task.pc \in pcs,
               tasks' = [tasks EXCEPT ![t] = task]
        PROVE  TasksStep(pcs)
    BY <1>1, Replacement
  <1>2. ASSUME Finish(t)
        PROVE  TasksStep(pcs)
    BY <1>2, Ending
  <1>3. CASE EndSnapshotSync(t)
    BY <1>2, <1>3 DEF EndSnapshotSync
  <1>4. CASE BeginSnapshotSync(t)
    <2>. DEFINE task == [pc |-> "snapshots", pending |-> Slugs, fetched |-> {}]
    <2>1. "pc" \in DOMAIN task /\ task.pc \in pcs
      OBVIOUS
    <2>2. tasks' = [tasks EXCEPT ![t] = task] \/ Finish(t)
      BY <1>4 DEF BeginSnapshotSync, Accept, Finish
    <2>. HIDE DEF task
    <2>. QED  BY <1>1, <1>2, <2>1, <2>2
  <1>5. ASSUME NEW s \in Slugs, FetchSnapshot(t, s)
        PROVE  TasksStep(pcs)
    <2>1. PICK pending, fetched :
            tasks' = [tasks EXCEPT ![t].pending = pending,
                                   ![t].fetched = fetched]
      BY <1>5 DEF FetchSnapshot
    <2>. DEFINE task == [[tasks[t] EXCEPT !.pending = pending]
                                   EXCEPT !.fetched = fetched]
    <2>2. tasks' = [tasks EXCEPT ![t] = task]
      BY <2>1 DEF TaskShape
    <2>3. "pc" \in DOMAIN task /\ task.pc = "snapshots"
      BY <1>5 DEF TaskShape, FetchSnapshot, At
    <2>. HIDE DEF task
    <2>. QED  BY <1>1, <2>2, <2>3
  <1>. QED  BY <1>3, <1>4, <1>5

(* A snapshot is stored: the sync goes on.                                 *)
LEMMA StoreTasks ==
    ASSUME TaskShape, NEW t \in Tasks, NEW s \in Slugs, NEW ts \in 1 .. MaxTime,
           StoreSnapshot(t, s, ts)
    PROVE  TasksStep({"snapshots"})
  <1>1. PICK fetched : tasks' = [tasks EXCEPT ![t].fetched = fetched]
    BY DEF StoreSnapshot
  <1>. DEFINE task == [tasks[t] EXCEPT !.fetched = fetched]
  <1>2. tasks' = [tasks EXCEPT ![t] = task]
    BY <1>1 DEF TaskShape
  <1>3. "pc" \in DOMAIN task /\ task.pc = "snapshots"
    BY DEF TaskShape, StoreSnapshot, At
  <1>. HIDE DEF task
  <1>. QED  BY <1>2, <1>3, Replacement

(* A selection or a PnL answer is about to be made, or was.                *)
LEMMA PnlTasks ==
    ASSUME TaskShape, NEW t \in Tasks,
           \/ (\E s \in Slugs, ts \in 1 .. MaxTime : CheckInitial(t, s, ts))
           \/ SelectInitial(t) \/ AnswerPnl(t)
           \/ (\E s \in Slugs : ClearInitial(t, s) \/ BeginPnl(t, s))
    PROVE  TasksStep({"idle", "select", "pnl"})
  <1>. DEFINE pcs == {"idle", "select", "pnl"}
  <1>1. ASSUME NEW task, "pc" \in DOMAIN task, task.pc \in pcs,
               tasks' = [tasks EXCEPT ![t] = task]
        PROVE  TasksStep(pcs)
    BY <1>1, Replacement
  <1>2. ASSUME Finish(t)
        PROVE  TasksStep(pcs)
    BY <1>2, Ending
  <1>3. CASE SelectInitial(t) \/ AnswerPnl(t)
             \/ \E s \in Slugs : ClearInitial(t, s)
    BY <1>2, <1>3 DEF SelectInitial, AnswerPnl, ClearInitial, Accept, Finish
  <1>4. ASSUME NEW s \in Slugs, NEW ts \in 1 .. MaxTime, CheckInitial(t, s, ts)
        PROVE  TasksStep(pcs)
    <2>. DEFINE task == [pc |-> "select", slug |-> s, ts |-> ts]
    <2>1. "pc" \in DOMAIN task /\ task.pc \in pcs
      OBVIOUS
    <2>2. tasks' = [tasks EXCEPT ![t] = task] \/ Finish(t)
      BY <1>4 DEF CheckInitial, Accept, Finish
    <2>. HIDE DEF task
    <2>. QED  BY <1>1, <1>2, <2>1, <2>2
  <1>5. ASSUME NEW s \in Slugs, BeginPnl(t, s)
        PROVE  TasksStep(pcs)
    <2>. DEFINE task == [pc |-> "pnl", slug |-> s, base |-> initial[s]]
    <2>1. "pc" \in DOMAIN task /\ task.pc \in pcs
      OBVIOUS
    <2>2. tasks' = [tasks EXCEPT ![t] = task]
      BY <1>5 DEF BeginPnl, Accept
    <2>. HIDE DEF task
    <2>. QED  BY <1>1, <2>1, <2>2
  <1>. QED  BY <1>3, <1>4, <1>5

(* The handlers of snapshots, selections and PnL do not wait for a process. *)
LEMMA OtherHandlers ==
    ASSUME FeeInv, NEW t \in Tasks,
           \/ BeginSnapshotSync(t) \/ EndSnapshotSync(t)
           \/ (\E s \in Slugs : FetchSnapshot(t, s))
           \/ (\E s \in Slugs, ts \in 1 .. MaxTime : StoreSnapshot(t, s, ts))
           \/ (\E s \in Slugs, ts \in 1 .. MaxTime : CheckInitial(t, s, ts))
           \/ SelectInitial(t) \/ AnswerPnl(t)
           \/ (\E s \in Slugs : ClearInitial(t, s) \/ BeginPnl(t, s))
    PROVE  FeeInv'
  <1>1. UNCHANGED <<processes, lifetime, feeRateSyncs>>
    BY DEF BeginSnapshotSync, EndSnapshotSync, FetchSnapshot, StoreSnapshot,
           CheckInitial, SelectInitial, AnswerPnl, ClearInitial, BeginPnl,
           strategyVars
  <1>2. \/ TasksStep({"idle", "snapshots"}) \/ TasksStep({"snapshots"})
        \/ TasksStep({"idle", "select", "pnl"})
    BY SyncTasks, StoreTasks, PnlTasks DEF FeeInv, FeeShape
  <1>. QED  BY <1>1, <1>2, FeesUntouched

(* Every step of the server preserves the invariant.                       *)
LEMMA FeeStep == FeeInv /\ [ServerNext]_serverVars => FeeInv'
  <1>. SUFFICES ASSUME FeeInv, [ServerNext]_serverVars
                PROVE  FeeInv'
    OBVIOUS
  <1>0. TaskShape
    BY DEF FeeInv, FeeShape
  <1>1. CASE AccountsStep
    <2>1. TasksStep(AccountPcs)
      BY <1>0, <1>1, AccountTasks DEF AccountsStep
    <2>2. "fees" \notin AccountPcs
      BY DEF AccountPcs
    <2>3. UNCHANGED <<processes, lifetime, feeRateSyncs>>
      BY <1>1 DEF AccountsStep, SyncsAfter
    <2>. QED  BY <2>1, <2>2, <2>3, FeesUntouched
  <1>2. CASE UNCHANGED serverVars
    <2>1. UNCHANGED <<tasks, processes, lifetime, feeRateSyncs>>
      BY <1>2 DEF serverVars, vars, accountVars, strategyVars
    <2>2. TasksStep({})
      BY <1>0, <2>1 DEF TasksStep, TaskShape
    <2>. QED  BY <2>1, <2>2, FeesUntouched
  <1>. QED
    BY <1>1, <1>2, FeesRestart, FeeSyncBegins, FeeSyncEnds,
       ProcessesGoOn, OtherHandlers
    DEF ServerNext

LEMMA FeeInit == ServerInit => FeeInv
BY DEF ServerInit, Init, Idle, FeeInv, FeeShape, TaskShape, SlugsTaken, Waits,
       OneFeeSyncProcess

(***************************************************************************)
(* Two sync_fee_rates processes of one strategy never run at the same time *)
(* on behalf of one server, although clients leave before they end         *)
(* (sync_strategy_fee_rates): the slug is freed by the handler that saw    *)
(* its process exit.                                                       *)
(***************************************************************************)
THEOREM OneProcess == ServerSpec => []OneFeeSyncProcess
  <1>1. FeeInv => OneFeeSyncProcess
    BY DEF FeeInv
  <1>. QED  BY <1>1, FeeInit, FeeStep, PTL DEF ServerSpec

-----------------------------------------------------------------------------
(* PnL. *)

(* A snapshot that may be selected stays one: none is deleted.             *)
Base(s, base) == s \in Slugs /\ (base = None \/ Selectable(s, base))

(* What is selected, about to be selected, read by a handler or answered   *)
(* was selectable when it was checked, and is for ever.                    *)
PnlInv ==
    /\ TaskShape
    /\ DOMAIN snapshots = Slugs /\ DOMAIN initial = Slugs
    /\ \A s \in Slugs : Base(s, initial[s])
    /\ \A t \in Tasks : tasks[t].pc = "select" =>
         tasks[t].slug \in Slugs /\ Selectable(tasks[t].slug, tasks[t].ts)
    /\ \A t \in Tasks : tasks[t].pc = "pnl" => Base(tasks[t].slug, tasks[t].base)
    /\ \A a \in answers :
         /\ Base(a.slug, a.base)
         /\ a.from = IF a.base = None THEN Start[a.slug] ELSE a.base + 1

(* A step that starts no selection and no answer and deletes no snapshot.  *)
LEMMA PnlUntouched ==
    ASSUME PnlInv, NEW pcs, "select" \notin pcs, "pnl" \notin pcs,
           TasksStep(pcs), UNCHANGED <<snapshots, initial, answers>>
    PROVE  PnlInv'
BY DEF PnlInv, TasksStep, Base, Selectable

LEMMA SnapshotStored ==
    ASSUME PnlInv, NEW t \in Tasks, NEW s \in Slugs, NEW ts \in 1 .. MaxTime,
           StoreSnapshot(t, s, ts)
    PROVE  PnlInv'
  <1>4. TasksStep({"snapshots"})
    BY StoreTasks DEF PnlInv
  <1>5. /\ UNCHANGED <<initial, answers>>
        /\ snapshots' = [snapshots EXCEPT ![s] = @ \cup {ts}]
    BY DEF StoreSnapshot
  <1>6. DOMAIN snapshots' = Slugs
        /\ \A slug \in Slugs : snapshots[slug] \subseteq snapshots'[slug]
    BY <1>5 DEF PnlInv
  <1>7. \A slug, base : Base(slug, base) => Base(slug, base)'
    BY <1>6 DEF Base, Selectable
  <1>8. \A slug \in Slugs : \A base :
          Selectable(slug, base) => Selectable(slug, base)'
    BY <1>6 DEF Selectable
  <1>9. \A u \in Tasks : tasks'[u].pc \in {"select", "pnl"} =>
          tasks'[u] = tasks[u]
    BY <1>4 DEF TasksStep
  <1>. QED  BY <1>4, <1>5, <1>6, <1>7, <1>8, <1>9 DEF PnlInv, TasksStep

LEMMA InitialChecked ==
    ASSUME PnlInv, NEW t \in Tasks, NEW s \in Slugs, NEW ts \in 1 .. MaxTime,
           CheckInitial(t, s, ts)
    PROVE  PnlInv'
  <1>. DEFINE task == IF Selectable(s, ts)
                      THEN [pc |-> "select", slug |-> s, ts |-> ts] ELSE Idle
  <1>1. tasks' = [tasks EXCEPT ![t] = task]
    BY DEF CheckInitial, Accept
  <1>2. UNCHANGED <<snapshots, initial, answers>>
    BY DEF CheckInitial, strategyVars
  <1>3. \A u \in Tasks : tasks'[u] = IF u = t THEN task ELSE tasks[u]
    BY <1>1 DEF PnlInv, TaskShape
  <1>4. /\ "pc" \in DOMAIN task
        /\ task.pc # "pnl"
        /\ task.pc = "select" => task.slug \in Slugs
                                 /\ Selectable(task.slug, task.ts)
    BY DEF Idle
  <1>. HIDE DEF task
  <1>5. TaskShape'
    BY <1>1, <1>3, <1>4 DEF PnlInv, TaskShape
  <1>. QED  BY <1>2, <1>3, <1>4, <1>5 DEF PnlInv, Base, Selectable

(* Selecting and clearing: the handler ends.                               *)
LEMMA InitialChanges ==
    ASSUME PnlInv, NEW t \in Tasks,
           SelectInitial(t) \/ \E s \in Slugs : ClearInitial(t, s)
    PROVE  PnlInv'
  <1>1. PICK s \in Slugs : \E base : /\ initial' = [initial EXCEPT ![s] = base]
                                    /\ Base(s, base)
    BY DEF SelectInitial, ClearInitial, At, PnlInv, Base
  <1>2. Finish(t) /\ UNCHANGED <<snapshots, answers>>
    BY DEF SelectInitial, ClearInitial, Accept, Finish
  <1>3. TasksStep({"idle"})
    BY <1>2, Ending DEF PnlInv
  <1>4. \A u \in Tasks : tasks'[u].pc \in {"select", "pnl"} =>
          tasks'[u] = tasks[u]
    BY <1>3 DEF TasksStep
  <1>5. /\ DOMAIN initial' = Slugs
        /\ \A slug \in Slugs : Base(slug, initial'[slug])
    BY <1>1 DEF PnlInv
  <1>. QED
    BY <1>2, <1>3, <1>4, <1>5 DEF PnlInv, TasksStep, Base, Selectable

LEMMA PnlBegins ==
    ASSUME PnlInv, NEW t \in Tasks, NEW s \in Slugs, BeginPnl(t, s)
    PROVE  PnlInv'
  <1>. DEFINE task == [pc |-> "pnl", slug |-> s, base |-> initial[s]]
  <1>1. tasks' = [tasks EXCEPT ![t] = task]
    BY DEF BeginPnl, Accept
  <1>2. UNCHANGED <<snapshots, initial, answers>>
    BY DEF BeginPnl, strategyVars
  <1>3. \A u \in Tasks : tasks'[u] = IF u = t THEN task ELSE tasks[u]
    BY <1>1 DEF PnlInv, TaskShape
  <1>4. "pc" \in DOMAIN task /\ task.pc = "pnl" /\ Base(task.slug, task.base)
    BY DEF PnlInv
  <1>. HIDE DEF task
  <1>5. TaskShape'
    BY <1>1, <1>3, <1>4 DEF PnlInv, TaskShape
  <1>. QED  BY <1>2, <1>3, <1>4, <1>5 DEF PnlInv, Base, Selectable

(* The trades follow the base that was read, whatever is selected now.     *)
LEMMA PnlAnswered ==
    ASSUME PnlInv, NEW t \in Tasks, AnswerPnl(t)
    PROVE  PnlInv'
  <1>. DEFINE answer == [slug |-> tasks[t].slug, base |-> tasks[t].base,
                         from |-> LoadStart(t)]
  <1>1. /\ answers' = answers \cup {answer}
        /\ Finish(t)
        /\ UNCHANGED <<snapshots, initial>>
    BY DEF AnswerPnl
  <1>2. /\ Base(answer.slug, answer.base)
        /\ answer.from = IF answer.base = None THEN Start[answer.slug]
                         ELSE answer.base + 1
    BY DEF AnswerPnl, At, PnlInv, LoadStart
  <1>. HIDE DEF answer
  <1>3. TasksStep({"idle"})
    BY <1>1, Ending DEF PnlInv
  <1>4. \A u \in Tasks : tasks'[u].pc \in {"select", "pnl"} =>
          tasks'[u] = tasks[u]
    BY <1>3 DEF TasksStep
  <1>. QED
    BY <1>1, <1>2, <1>3, <1>4 DEF PnlInv, TasksStep, Base, Selectable

(* A fee-rate sync begins or ends.                                         *)
LEMMA FeeTasks ==
    ASSUME TaskShape, NEW t \in Tasks,
           EndFeeSync(t) \/ \E s \in Slugs : BeginFeeSync(t, s)
    PROVE  TasksStep({"idle", "fees"})
  <1>1. CASE EndFeeSync(t)
    BY <1>1, Ending DEF EndFeeSync
  <1>2. ASSUME NEW s \in Slugs, BeginFeeSync(t, s)
        PROVE  TasksStep({"idle", "fees"})
    <2>. DEFINE task == [pc |-> "fees", slug |-> s,
                         process |-> Len(processes) + 1]
    <2>1. "pc" \in DOMAIN task /\ task.pc \in {"idle", "fees"}
      OBVIOUS
    <2>2. tasks' = [tasks EXCEPT ![t] = task] \/ Finish(t)
      BY <1>2 DEF BeginFeeSync, Accept, Finish
    <2>. HIDE DEF task
    <2>. QED  BY <2>1, <2>2, Replacement, Ending
  <1>. QED  BY <1>1, <1>2

LEMMA PnlStep == PnlInv /\ [ServerNext]_serverVars => PnlInv'
  <1>. SUFFICES ASSUME PnlInv, [ServerNext]_serverVars
                PROVE  PnlInv'
    OBVIOUS
  <1>0. TaskShape
    BY DEF PnlInv
  <1>1. CASE AccountsStep
    <2>1. TasksStep(AccountPcs)
      BY <1>0, <1>1, AccountTasks DEF AccountsStep
    <2>2. "select" \notin AccountPcs /\ "pnl" \notin AccountPcs
      BY DEF AccountPcs
    <2>3. UNCHANGED <<snapshots, initial, answers>>
      BY <1>1 DEF AccountsStep
    <2>. QED  BY <2>1, <2>2, <2>3, PnlUntouched
  <1>2. ASSUME UNCHANGED <<tasks, snapshots, initial, answers>>
        PROVE  PnlInv'
    <2>1. TasksStep({})
      BY <1>0, <1>2 DEF TasksStep, TaskShape
    <2>. QED  BY <1>2, <2>1, PnlUntouched
  <1>3. CASE UNCHANGED serverVars
    BY <1>2, <1>3 DEF serverVars, vars, accountVars, strategyVars
  <1>4. ASSUME NEW p \in DOMAIN processes, FetchRates(p) \/ StoreRates(p)
        PROVE  PnlInv'
    BY <1>2, <1>4 DEF FetchRates, StoreRates, vars, accountVars
  <1>5. CASE Restart
    <2>1. /\ \A t \in Tasks : tasks'[t] = Idle
          /\ DOMAIN tasks' = Tasks
          /\ UNCHANGED <<snapshots, initial, answers>>
      BY <1>5 DEF Restart
    <2>2. TasksStep({"idle"})
      BY <2>1 DEF TasksStep, TaskShape, Idle
    <2>. QED  BY <2>1, <2>2, PnlUntouched
  <1>6. ASSUME NEW t \in Tasks,
               \/ BeginSnapshotSync(t) \/ EndSnapshotSync(t) \/ EndFeeSync(t)
               \/ (\E s \in Slugs : FetchSnapshot(t, s) \/ BeginFeeSync(t, s))
        PROVE  PnlInv'
    <2>1. UNCHANGED <<snapshots, initial, answers>>
      BY <1>6 DEF BeginSnapshotSync, EndSnapshotSync, EndFeeSync, FetchSnapshot,
                  BeginFeeSync, strategyVars
    <2>2. TasksStep({"idle", "snapshots"}) \/ TasksStep({"idle", "fees"})
      BY <1>0, <1>6, SyncTasks, FeeTasks
    <2>. QED  BY <2>1, <2>2, PnlUntouched
  <1>. QED
    BY <1>1, <1>3, <1>4, <1>5, <1>6, SnapshotStored, InitialChecked,
       InitialChanges, PnlBegins, PnlAnswered
    DEF ServerNext

(***************************************************************************)
(* A PnL answer starts its trades where its base ends, although the        *)
(* selection moves between the two reads, and its base is a stored and     *)
(* priced snapshot (get_strategy_pnl).                                     *)
(***************************************************************************)
THEOREM AnswersStartAtBase == ServerSpec => []PnlStartsAtBase
  <1>1. ServerInit => PnlInv
    BY DEF ServerInit, Init, Idle, PnlInv, TaskShape, Base
  <1>2. PnlInv => PnlStartsAtBase
    BY DEF PnlInv, PnlStartsAtBase, Base, Selectable
  <1>. QED  BY <1>1, <1>2, PnlStep, PTL DEF ServerSpec

-----------------------------------------------------------------------------
(* The fee rates shown.                                                    *)

RunsOf(s) == {row.fetchedAt : row \in feeRates[s]}

(* An answer for each market of the strategy, and a rate at least.         *)
Whole(s, answer) == answer \in Answers(s) /\ Complete(s, answer)

(* The last run stored a rate of each market it got one for.               *)
Covered(s, n) ==
    feeRates[s] # {} => \A m \in Markets[s] :
       \/ \E row \in feeRates[s] : row.market = m /\ row.fetchedAt = n
       \/ s \in EmptyAnswers /\ m \in unrated[s]

(* The runs of a strategy are numbered without a gap.                      *)
RatesInv ==
    /\ FeeInv
    /\ DOMAIN feeRates = Slugs /\ DOMAIN unrated = Slugs
    /\ \A p \in DOMAIN processes :
         processes[p].state = "store"
            => Whole(processes[p].slug, processes[p].answer)
    /\ \A s \in Slugs : \E n \in Nat : RunsOf(s) = 1 .. n /\ Covered(s, n)

LEMMA NextRun ==
    ASSUME RatesInv, NEW s \in Slugs, NEW n \in Nat, RunsOf(s) = 1 .. n
    PROVE  Cardinality(RunsOf(s)) = n
  <1>1. Cardinality(1 .. n) = IF 1 > n THEN 0 ELSE n - 1 + 1
    BY FS_Interval
  <1>. QED  BY <1>1

(* A run with an answer for each market stores under a new number.         *)
LEMMA RatesStored ==
    ASSUME RatesInv, FeeInv', NEW p \in DOMAIN processes, StoreRates(p)
    PROVE  RatesInv'
  <1>. DEFINE s == processes[p].slug
              answer == processes[p].answer
              at == Cardinality(RunsOf(s)) + 1
              rows == {[market |-> rate.market, symbol |-> rate.symbol,
                        fetchedAt |-> at] : rate \in answer.rates}
              blank == answer.answered \ Rated(answer.rates)
  <1>0. processes[p] \in Process /\ processes \in Seq(Process)
    BY DEF RatesInv, FeeInv, FeeShape
  <1>1. s \in Slugs /\ Whole(s, answer)
    BY <1>0 DEF Process, RatesInv, StoreRates
  <1>2. /\ feeRates' = [feeRates EXCEPT ![s] = feeRates[s] \cup rows]
        /\ unrated' = [unrated EXCEPT ![s] = blank]
    BY DEF StoreRates, StoredRates, RunsOf
  <1>3. PICK n \in Nat : RunsOf(s) = 1 .. n
    BY <1>1 DEF RatesInv
  <1>4. at = n + 1
    BY <1>1, <1>3, NextRun
  <1>5. /\ rows # {} /\ \A row \in rows : row.fetchedAt = at
        /\ \A m \in Markets[s] :
             \/ \E row \in rows : row.market = m
             \/ s \in EmptyAnswers /\ m \in blank
    <2>1. \A rate \in answer.rates : \E row \in rows : row.market = rate.market
      <3>1. ASSUME NEW rate \in answer.rates
            PROVE  \E row \in rows : row.market = rate.market
        <4>. DEFINE row == [market |-> rate.market, symbol |-> rate.symbol,
                            fetchedAt |-> at]
        <4>1. row \in rows /\ row.market = rate.market
          OBVIOUS
        <4>. QED  BY <4>1
      <3>. QED  BY <3>1
    <2>2. /\ answer.answered = Markets[s] /\ answer.rates # {}
          /\ s \in EmptyAnswers \/ Rated(answer.rates) = answer.answered
      BY <1>1 DEF Whole, Answers, Complete
    <2>3. \A m \in Markets[s] :
            m \in Rated(answer.rates) \/ (s \in EmptyAnswers /\ m \in blank)
      BY <2>2
    <2>4. \A m \in Rated(answer.rates) : \E row \in rows : row.market = m
      BY <2>1 DEF Rated
    <2>5. \A row \in rows : row.fetchedAt = at
      OBVIOUS
    <2>6. rows # {}
      BY <2>1, <2>2
    <2>. QED  BY <2>3, <2>4, <2>5, <2>6
  <1>. HIDE DEF s, answer, at, rows, blank
  <1>6. /\ DOMAIN feeRates' = Slugs /\ DOMAIN unrated' = Slugs
        /\ feeRates'[s] = feeRates[s] \cup rows /\ unrated'[s] = blank
        /\ \A other \in Slugs : other # s =>
             feeRates'[other] = feeRates[other] /\ unrated'[other] = unrated[other]
    BY <1>1, <1>2 DEF RatesInv
  <1>7. ASSUME NEW other \in Slugs
        PROVE  \E k \in Nat : RunsOf(other)' = 1 .. k /\ Covered(other, k)'
    <2>1. CASE other # s
      <3>1. PICK k \in Nat : RunsOf(other) = 1 .. k /\ Covered(other, k)
        BY DEF RatesInv
      <3>2. RunsOf(other)' = 1 .. k /\ Covered(other, k)'
        BY <1>6, <2>1, <3>1 DEF Covered, RunsOf
      <3>. QED  BY <3>2
    <2>2. CASE other = s
      <3>1. Covered(other, n + 1)'
        BY <1>4, <1>5, <1>6, <2>2 DEF Covered
      <3>2. {row.fetchedAt : row \in feeRates'[s]} =
              {row.fetchedAt : row \in feeRates[s]}
                \cup {row.fetchedAt : row \in rows}
        BY <1>6
      <3>3. {row.fetchedAt : row \in rows} = {n + 1}
        BY <1>4, <1>5
      <3>4. RunsOf(other)' = (1 .. n) \cup {n + 1}
        BY <1>3, <2>2, <3>2, <3>3 DEF RunsOf
      <3>5. (1 .. n) \cup {n + 1} = 1 .. (n + 1) /\ n + 1 \in Nat
        OBVIOUS
      <3>6. RunsOf(other)' = 1 .. (n + 1)
        BY <3>4, <3>5
      <3>. QED  BY <3>1, <3>5, <3>6
    <2>. QED  BY <2>1, <2>2
  <1>8. /\ DOMAIN processes' = DOMAIN processes
        /\ \A q \in DOMAIN processes :
             \/ processes'[q] = processes[q]
             \/ processes'[q].state = "exited"
    BY <1>0 DEF StoreRates, Process
  <1>9. \A q \in DOMAIN processes' :
          processes'[q].state = "store"
             => Whole(processes'[q].slug, processes'[q].answer)
    BY <1>8 DEF RatesInv
  <1>. QED  BY <1>6, <1>7, <1>9 DEF RatesInv, Whole, Complete, Answers

LEMMA RatesRest ==
    ASSUME RatesInv, FeeInv', UNCHANGED <<feeRates, unrated>>,
           \A p \in DOMAIN processes' :
              processes'[p].state = "store" =>
                 \/ Whole(processes'[p].slug, processes'[p].answer)
                 \/ p \in DOMAIN processes /\ processes'[p] = processes[p]
    PROVE  RatesInv'
  <1>1. \A s \in Slugs :
          \E n \in Nat : RunsOf(s)' = 1 .. n /\ Covered(s, n)'
    BY DEF RatesInv, Covered, RunsOf
  <1>. QED  BY <1>1 DEF RatesInv, Whole, Complete, Answers

LEMMA RatesStep == RatesInv /\ [ServerNext]_serverVars => RatesInv'
  <1>. SUFFICES ASSUME RatesInv, [ServerNext]_serverVars
                PROVE  RatesInv'
    OBVIOUS
  <1>0. FeeInv' /\ processes \in Seq(Process)
    BY FeeStep DEF RatesInv, FeeInv, FeeShape
  <1>1. ASSUME UNCHANGED <<processes, feeRates, unrated>>
        PROVE  RatesInv'
    BY <1>0, <1>1, RatesRest
  <1>2. CASE AccountsStep \/ Restart \/ UNCHANGED serverVars
    BY <1>1, <1>2 DEF AccountsStep, Restart, serverVars, strategyVars
  <1>3. ASSUME NEW t \in Tasks,
               \/ BeginSnapshotSync(t) \/ EndSnapshotSync(t)
               \/ (\E s \in Slugs : FetchSnapshot(t, s))
               \/ (\E s \in Slugs, ts \in 1 .. MaxTime :
                     StoreSnapshot(t, s, ts) \/ CheckInitial(t, s, ts))
               \/ SelectInitial(t) \/ AnswerPnl(t) \/ EndFeeSync(t)
               \/ (\E s \in Slugs : ClearInitial(t, s) \/ BeginPnl(t, s))
        PROVE  RatesInv'
    BY <1>1, <1>3
    DEF BeginSnapshotSync, EndSnapshotSync, FetchSnapshot, StoreSnapshot,
        CheckInitial, SelectInitial, AnswerPnl, EndFeeSync, ClearInitial,
        BeginPnl, strategyVars
  <1>4. ASSUME NEW t \in Tasks, NEW s \in Slugs, BeginFeeSync(t, s)
        PROVE  RatesInv'
    <2>1. CASE processes' = processes
      BY <1>1, <1>4, <2>1 DEF BeginFeeSync
    <2>2. ASSUME NEW started, started.state = "fetch",
                 processes' = Append(processes, started)
          PROVE  RatesInv'
      <3>1. \A p \in DOMAIN processes' :
              \/ p \in DOMAIN processes /\ processes'[p] = processes[p]
              \/ processes'[p] = started
        BY <1>0, <2>2
      <3>. QED  BY <1>0, <1>4, <2>2, <3>1, RatesRest DEF BeginFeeSync
    <2>. QED  BY <1>4, <2>1, <2>2 DEF BeginFeeSync
  <1>5. ASSUME NEW p \in DOMAIN processes, FetchRates(p)
        PROVE  RatesInv'
    <2>1. processes[p] \in Process
      BY <1>0
    <2>2. PICK answer \in Answers(processes[p].slug) :
            processes' = [processes EXCEPT ![p] =
               IF Complete(processes[p].slug, answer)
               THEN [@ EXCEPT !.answer = answer, !.state = "store"]
               ELSE [@ EXCEPT !.state = "exited"]]
      BY <1>5 DEF FetchRates
    <2>3. /\ DOMAIN processes' = DOMAIN processes
          /\ \A q \in DOMAIN processes : q # p => processes'[q] = processes[q]
          /\ processes'[p] =
               IF Complete(processes[p].slug, answer)
               THEN [processes[p] EXCEPT !.answer = answer, !.state = "store"]
               ELSE [processes[p] EXCEPT !.state = "exited"]
      BY <1>0, <2>2
    <2>4. processes'[p].state = "store"
             => Whole(processes'[p].slug, processes'[p].answer)
      BY <2>1, <2>2, <2>3 DEF Whole, Process
    <2>. QED  BY <1>0, <1>5, <2>3, <2>4, RatesRest DEF FetchRates
  <1>. QED
    BY <1>0, <1>2, <1>3, <1>4, <1>5, RatesStored DEF ServerNext

(***************************************************************************)
(* The fee rates shown are those of one run that got an answer for every   *)
(* market, whatever runs failed in part or overlapped across a restart     *)
(* (sync_strategy, load_latest_fee_rates): only an exchange that answers   *)
(* without a rate (normalize_bitget) leaves a market without one.          *)
(***************************************************************************)
THEOREM RatesShownAreComplete == ServerSpec => []LatestRatesComplete
  <1>1. ServerInit => RatesInv
    <2>. SUFFICES ASSUME ServerInit
                  PROVE  RatesInv
      OBVIOUS
    <2>1. FeeInv
      BY FeeInit
    <2>2. \A s \in Slugs : feeRates[s] = {}
      BY DEF ServerInit
    <2>3. \A s \in Slugs : Covered(s, 0) /\ RunsOf(s) = 1 .. 0
      BY <2>2 DEF Covered, RunsOf
    <2>4. \A s \in Slugs : \E n \in Nat : RunsOf(s) = 1 .. n /\ Covered(s, n)
      <3>1. 0 \in Nat
        OBVIOUS
      <3>. QED  BY <2>3, <3>1, Zenon
    <2>. QED  BY <2>1, <2>4 DEF RatesInv, ServerInit
  <1>2. RatesInv => LatestRatesComplete
    <2>. SUFFICES ASSUME RatesInv, NEW s \in Slugs, feeRates[s] # {},
                         NEW m \in Markets[s]
                  PROVE  \/ \E row \in LatestRates(s) : row.market = m
                         \/ s \in EmptyAnswers /\ m \in unrated[s]
      BY DEF LatestRatesComplete
    <2>1. PICK n \in Nat : RunsOf(s) = 1 .. n /\ Covered(s, n)
      BY DEF RatesInv
    <2>2. \A any \in feeRates[s] : any.fetchedAt \in 1 .. n
      BY <2>1 DEF RunsOf
    <2>3. \A row \in feeRates[s] : row.fetchedAt = n => row \in LatestRates(s)
      BY <2>2 DEF LatestRates
    <2>. QED  BY <2>1, <2>3 DEF Covered
  <1>. QED  BY <1>1, <1>2, RatesStep, PTL DEF ServerSpec

-----------------------------------------------------------------------------
(* Where a handler acts on what an earlier statement read.                 *)
Critical ==
    {"renew", "authed", "count", "write", "deleteGrants", "insertGrants",
     "commitGrants"}

UserShape ==
    /\ users \in [UserIds -> {"admin", "user", None}]
    /\ \A id \in UserIds : users[id] # None => id \in usedIds
GivenOut == \A k \in Tokens : sessions[k] # None => k \in issued
AccountShape ==
    /\ TaskShape /\ SessionShape /\ UserShape /\ GivenOut
    /\ DOMAIN grants = UserIds /\ DOMAIN replaced = UserIds

(* What the request of a task is, at the statements that act on it.        *)
Asked(t) ==
    /\ {"token", "user", "admin", "request"} \subseteq DOMAIN tasks[t]
    /\ tasks[t].request \in Requests
Removes(t) ==
    \/ tasks[t].request.kind = "delete"
    \/ /\ tasks[t].request.kind = "update"
       /\ tasks[t].request.role \in {"admin", "user"}
SetsGrants(t) ==
    /\ {"seen", "deleted", "alone"} \subseteq DOMAIN tasks[t]
    /\ tasks[t].request.kind = "grants"

(* A renewal knows the user of the session that it found. *)
Renews(t) ==
    LET k == tasks[t].token
    IN  k \in issued /\ (sessions[k] # None => sessions[k].user = tasks[t].user)

HandlerInv ==
    \A t \in Tasks :
        /\ tasks[t].pc \in Critical => Asked(t)
        /\ tasks[t].pc = "renew" => Renews(t)
        /\ tasks[t].pc \in {"count", "write"} => Removes(t)
        /\ tasks[t].pc \in GrantPcs => SetsGrants(t)

(* An admin other than its target outlives each removal that passed the
   count, unless two of them crossed. *)
AnotherAdmin(t) == \E id \in Admins : id # Target(t)
AdminInv ==
    crossed \/ /\ Admins # {}
               /\ \A t \in Tasks : Removing(t) => AnotherAdmin(t)

(* Slugs that are about to be committed hold their account. *)
Holds(t) == tasks[t].request.slugs # {} => users[Target(t)] # None
OrphanInv ==
    /\ NothingOrphaned
    /\ \A t \in Tasks : tasks[t].pc = "commitGrants" => Holds(t)

(* A request alone with its account's grants deletes all there are.        *)
Alone(t) ==
    /\ \A s \in Open(Target(t)) : s = t
    /\ IF tasks[t].pc = "deleteGrants" THEN grants[Target(t)] \subseteq tasks[t].seen
       ELSE grants[Target(t)] \subseteq tasks[t].deleted
GrantInv ==
    /\ GrantsReplaced
    /\ \A t \in Tasks : tasks[t].pc \in GrantPcs /\ tasks[t].alone => Alone(t)

AccountInv ==
    AccountShape /\ HandlerInv /\ AdminInv /\ OrphanInv /\ GrantInv

-----------------------------------------------------------------------------
(* What a request carries. *)
LEMMA RequestFields ==
    ASSUME NEW r \in Requests
    PROVE  /\ r.kind \in {"update", "delete", "grants"} => r.target \in UserIds
           /\ r.kind = "update" => r.role \in {"admin", "user", None}
           /\ r.kind = "create" => r.role \in {"admin", "user"}
BY DEF Requests

(* The accounts, and sessions that at most end. *)
AccountsRest ==
    /\ UNCHANGED <<users, usedIds, grants, replaced, crossed>>
    /\ issued \subseteq issued'
    /\ \A k \in Tokens : sessions'[k] = None \/ sessions'[k] = sessions[k]

(* A step that brings no handler to a statement that acts on what was read *)
(* before disturbs nothing.                                                *)
LEMMA Calm ==
    ASSUME AccountInv, NEW pcs, pcs \cap Critical = {}, TasksStep(pcs),
           SessionsStep, AccountsRest
    PROVE  AccountInv'
  <1>. USE DEF AccountInv
  <1>1. \A t \in Tasks : tasks'[t].pc \in Critical => tasks'[t] = tasks[t]
    BY DEF TasksStep
  <1>2. AccountShape'
    BY DEF AccountShape, UserShape, GivenOut, TasksStep, SessionsStep,
           SessionShape, AccountsRest
  <1>3. HandlerInv'
    <2>. SUFFICES ASSUME NEW t \in Tasks, tasks'[t].pc \in Critical
                  PROVE  /\ Asked(t)'
                         /\ tasks'[t].pc = "renew" => Renews(t)'
                         /\ tasks'[t].pc \in {"count", "write"} => Removes(t)'
                         /\ tasks'[t].pc \in GrantPcs => SetsGrants(t)'
      BY DEF HandlerInv, Critical, GrantPcs
    <2>1. tasks'[t] = tasks[t]
      BY <1>1
    <2>2. tasks[t].pc = "renew" => Renews(t)'
      BY <2>1 DEF HandlerInv, Renews, AccountsRest, AccountShape, SessionShape
    <2>. QED  BY <2>1, <2>2 DEF HandlerInv, Asked, Removes, SetsGrants
  <1>4. AdminInv'
    BY <1>1 DEF AdminInv, Admins, Removing, AnotherAdmin, Target, At, Critical,
                AccountsRest
  <1>5. OrphanInv'
    BY <1>1 DEF OrphanInv, NothingOrphaned, SessionsOf, Holds, Target, Critical,
                AccountsRest
  <1>6. GrantInv'
    <2>1. GrantsReplaced'
      BY DEF GrantInv, GrantsReplaced, AccountsRest
    <2>2. \A id : Open(id)' \subseteq Open(id)
      BY <1>1 DEF Open, Target, Critical, GrantPcs
    <2>. QED
      BY <1>1, <2>1, <2>2 DEF GrantInv, Alone, Target, Critical, GrantPcs,
                              AccountsRest
  <1>. QED  BY <1>2, <1>3, <1>4, <1>5, <1>6

-----------------------------------------------------------------------------
(* Handlers that check nothing they act on later.                          *)
CalmPcs == AccountPcs \ Critical

LEMMA CalmAccounts ==
    ASSUME AccountInv, NEW t \in Tasks,
           \/ Login(t) \/ DropExpired(t) \/ DeleteExpired(t) \/ Forbidden(t)
           \/ Logout(t) \/ ChangePassword(t) \/ RevokeOthers(t)
           \/ RevokeDemoted(t) \/ SetPassword(t) \/ RevokeAll(t) \/ Drop(t)
    PROVE  AccountInv'
  <1>0. TaskShape /\ SessionShape
    BY DEF AccountInv, AccountShape
  <1>1. AccountsNext
    BY DEF AccountsNext
  <1>2. SessionsStep
    BY <1>0, <1>1, AccountSessions
  <1>3. TasksStep(CalmPcs)
    <2>1. CASE Login(t)
      <3>1. PICK id : tasks' = [tasks EXCEPT ![t] =
                                  [pc |-> "dropExpired", user |-> id]]
        BY <2>1 DEF Login
      <3>. DEFINE task == [pc |-> "dropExpired", user |-> id]
      <3>2. "pc" \in DOMAIN task /\ task.pc \in CalmPcs
        BY DEF CalmPcs, AccountPcs, Critical
      <3>3. tasks' = [tasks EXCEPT ![t] = task]
        BY <3>1
      <3>. HIDE DEF task
      <3>. QED  BY <1>0, <3>2, <3>3, Replacement
    <2>2. CASE ~Login(t)
      <3>1. Finish(t) \/ \E pc \in CalmPcs : To(t, pc)
        BY <2>2 DEF DropExpired, DeleteExpired, Forbidden, Logout,
                    ChangePassword, RevokeOthers, RevokeDemoted, SetPassword,
                    RevokeAll, Drop, CalmPcs, AccountPcs, Critical
      <3>2. "idle" \in CalmPcs
        BY DEF CalmPcs, AccountPcs, Critical
      <3>. QED  BY <1>0, <3>1, <3>2, Advance, Ending
    <2>. QED  BY <2>1, <2>2
  <1>4. AccountsRest
    <2>1. UNCHANGED <<users, usedIds, grants, replaced, crossed, issued>>
      BY DEF Login, DropExpired, DeleteExpired, Forbidden, Logout,
             ChangePassword, RevokeOthers, RevokeDemoted, SetPassword,
             RevokeAll, Drop
    <2>2. sessions' = sessions \/ \E gone : sessions' = Without(gone)
      BY DEF Login, DropExpired, DeleteExpired, Forbidden, Logout,
             ChangePassword, RevokeOthers, RevokeDemoted, SetPassword,
             RevokeAll, Drop
    <2>. QED  BY <2>1, <2>2 DEF AccountsRest, Without
  <1>5. CalmPcs \cap Critical = {}
    BY DEF CalmPcs
  <1>. QED  BY <1>2, <1>3, <1>4, <1>5, Calm

(* The steps of the server that are not of Accounts.                       *)
LEMMA CalmServer ==
    ASSUME AccountInv, ServerNext, ~AccountsStep
    PROVE  AccountInv'
  <1>0. TaskShape /\ SessionShape
    BY DEF AccountInv, AccountShape
  <1>1. SessionsStep
    BY <1>0, ServerSessions
  <1>. DEFINE pcs == {"idle", "snapshots", "select", "pnl", "fees"}
  <1>2. \A few : few \subseteq pcs /\ TasksStep(few) => TasksStep(pcs)
    BY DEF TasksStep
  <1>3. AccountsRest /\ TasksStep(pcs)
    <2>1. CASE Restart
      <3>1. TasksStep({"idle"})
        BY <2>1 DEF Restart, TasksStep, TaskShape, Idle
      <3>. QED  BY <1>2, <2>1, <3>1 DEF Restart, AccountsRest
    <2>2. ASSUME NEW t \in Tasks,
                 \/ BeginSnapshotSync(t) \/ EndSnapshotSync(t)
                 \/ (\E s \in Slugs : FetchSnapshot(t, s))
          PROVE  AccountsRest /\ TasksStep(pcs)
      <3>1. AccountsRest
        BY <2>2 DEF BeginSnapshotSync, EndSnapshotSync, FetchSnapshot,
                    AccountsRest, accounts
      <3>2. TasksStep({"idle", "snapshots"})
        BY <1>0, <2>2, SyncTasks
      <3>. QED  BY <1>2, <3>1, <3>2
    <2>3. ASSUME NEW t \in Tasks, NEW s \in Slugs, NEW ts \in 1 .. MaxTime,
                 StoreSnapshot(t, s, ts)
          PROVE  AccountsRest /\ TasksStep(pcs)
      <3>1. AccountsRest
        BY <2>3 DEF StoreSnapshot, AccountsRest, accounts
      <3>2. TasksStep({"snapshots"})
        BY <1>0, <2>3, StoreTasks
      <3>. QED  BY <1>2, <3>1, <3>2
    <2>4. ASSUME NEW t \in Tasks,
                 \/ (\E s \in Slugs, ts \in 1 .. MaxTime : CheckInitial(t, s, ts))
                 \/ SelectInitial(t) \/ AnswerPnl(t)
                 \/ (\E s \in Slugs : ClearInitial(t, s) \/ BeginPnl(t, s))
          PROVE  AccountsRest /\ TasksStep(pcs)
      <3>1. AccountsRest
        BY <2>4 DEF CheckInitial, SelectInitial, AnswerPnl, ClearInitial,
                    BeginPnl, AccountsRest, accounts
      <3>2. TasksStep({"idle", "select", "pnl"})
        BY <1>0, <2>4, PnlTasks
      <3>. QED  BY <1>2, <3>1, <3>2
    <2>5. ASSUME NEW t \in Tasks,
                 EndFeeSync(t) \/ \E s \in Slugs : BeginFeeSync(t, s)
          PROVE  AccountsRest /\ TasksStep(pcs)
      <3>1. AccountsRest
        BY <2>5 DEF EndFeeSync, BeginFeeSync, AccountsRest, accounts
      <3>2. TasksStep({"idle", "fees"})
        BY <1>0, <2>5, FeeTasks
      <3>. QED  BY <1>2, <3>1, <3>2
    <2>6. ASSUME NEW p \in DOMAIN processes, FetchRates(p) \/ StoreRates(p)
          PROVE  AccountsRest /\ TasksStep(pcs)
      <3>1. UNCHANGED vars
        BY <2>6 DEF FetchRates, StoreRates
      <3>. QED
        BY <1>0, <3>1 DEF vars, accountVars, AccountsRest, TasksStep, TaskShape
    <2>. QED
      BY <2>1, <2>2, <2>3, <2>4, <2>5, <2>6 DEF ServerNext
  <1>4. pcs \cap Critical = {}
    BY DEF Critical
  <1>. QED  BY <1>1, <1>3, <1>4, Calm

-----------------------------------------------------------------------------
(* What a step of one handler leaves alone.                                *)
Others(t) == DOMAIN tasks' = Tasks /\ \A s \in Tasks : s # t => tasks'[s] = tasks[s]

(* A handler that moves on carries its request along.                      *)
LEMMA Moved ==
    ASSUME TaskShape, NEW t \in Tasks, NEW pc, To(t, pc)
    PROVE  /\ Others(t) /\ tasks'[t].pc = pc
           /\ DOMAIN tasks'[t] = DOMAIN tasks[t]
           /\ \A x \in DOMAIN tasks[t] : x # "pc" => tasks'[t][x] = tasks[t][x]
  <1>. DEFINE task == [tasks[t] EXCEPT !.pc = pc]
  <1>1. tasks' = [tasks EXCEPT ![t] = task]
    BY DEF To
  <1>2. /\ task.pc = pc /\ DOMAIN task = DOMAIN tasks[t]
        /\ \A x \in DOMAIN tasks[t] : x # "pc" => task[x] = tasks[t][x]
    BY DEF TaskShape
  <1>. HIDE DEF task
  <1>. QED  BY <1>1, <1>2 DEF TaskShape, Others

LEMMA Carried ==
    ASSUME TaskShape, NEW t \in Tasks, NEW pc, To(t, pc), Asked(t)
    PROVE  /\ Others(t) /\ tasks'[t].pc = pc /\ Asked(t)'
           /\ tasks'[t].token = tasks[t].token
           /\ tasks'[t].user = tasks[t].user
           /\ tasks'[t].request = tasks[t].request
  <1>1. /\ DOMAIN tasks'[t] = DOMAIN tasks[t]
        /\ \A x \in DOMAIN tasks[t] : x # "pc" => tasks'[t][x] = tasks[t][x]
        /\ Others(t) /\ tasks'[t].pc = pc
    BY Moved
  <1>2. \A x \in {"token", "user", "request"} : tasks'[t][x] = tasks[t][x]
    BY <1>1 DEF Asked
  <1>. QED  BY <1>1, <1>2 DEF Asked

LEMMA Finished ==
    ASSUME TaskShape, NEW t \in Tasks, Finish(t)
    PROVE  Others(t) /\ tasks'[t] = Idle /\ tasks'[t].pc = "idle"
BY DEF TaskShape, Finish, Others, Idle

(* The owner of a session given out stays.                                 *)
OwnersStay ==
    /\ issued \subseteq issued'
    /\ \A k \in issued : sessions'[k] # None =>
          sessions[k] # None /\ sessions'[k].user = sessions[k].user

HandlerOf(t) ==
    /\ tasks[t].pc \in Critical => Asked(t)
    /\ tasks[t].pc = "renew" => Renews(t)
    /\ tasks[t].pc \in {"count", "write"} => Removes(t)
    /\ tasks[t].pc \in GrantPcs => SetsGrants(t)

LEMMA HandlersRest ==
    ASSUME HandlerInv, NEW t \in Tasks, Others(t), HandlerOf(t)', OwnersStay
    PROVE  HandlerInv'
  <1>. SUFFICES ASSUME NEW s \in Tasks
                PROVE  HandlerOf(s)'
    BY DEF HandlerInv, HandlerOf
  <1>1. CASE s = t
    BY <1>1
  <1>2. CASE s # t
    <2>1. HandlerOf(s) /\ tasks'[s] = tasks[s]
      BY <1>2 DEF HandlerInv, HandlerOf, Others
    <2>2. Renews(s) => Renews(s)'
      BY <2>1 DEF Renews, OwnersStay
    <2>. QED  BY <2>1, <2>2 DEF HandlerOf, Asked, Removes, SetsGrants
  <1>. QED  BY <1>1, <1>2

(* No removal passes its count, and every admin stays one.                 *)
LEMMA AdminsRest ==
    ASSUME AdminInv, crossed' = crossed, Admins \subseteq Admins',
           \A t \in Tasks : Removing(t)' => Removing(t) /\ tasks'[t] = tasks[t]
    PROVE  AdminInv'
BY DEF AdminInv, AnotherAdmin, Target

(* No account, grant or session goes, and no grants are about to come.     *)
LEMMA OrphansRest ==
    ASSUME OrphanInv, HandlerInv, grants' = grants,
           \A id \in UserIds : users[id] # None => users'[id] # None,
           \A k \in Tokens : sessions'[k] # None =>
              \/ sessions[k] # None /\ sessions'[k].user = sessions[k].user
              \/ users'[sessions'[k].user] # None,
           \A t \in Tasks : tasks'[t].pc = "commitGrants" => tasks'[t] = tasks[t]
    PROVE  OrphanInv'
  <1>1. NothingOrphaned'
    BY DEF OrphanInv, NothingOrphaned, SessionsOf
  <1>2. \A t \in Tasks : tasks[t].pc = "commitGrants" => Target(t) \in UserIds
    BY RequestFields DEF HandlerInv, Critical, GrantPcs, Asked, SetsGrants, Target
  <1>. QED  BY <1>1, <1>2 DEF OrphanInv, Holds, Target

(* No request for grants comes or moves on.                                *)
LEMMA GrantsRest ==
    ASSUME GrantInv, UNCHANGED <<grants, replaced>>,
           \A t \in Tasks : tasks'[t].pc \in GrantPcs => tasks'[t] = tasks[t]
    PROVE  GrantInv'
  <1>1. GrantsReplaced'
    BY DEF GrantInv, GrantsReplaced
  <1>2. \A id : Open(id)' \subseteq Open(id)
    BY DEF Open, Target
  <1>. QED  BY <1>1, <1>2 DEF GrantInv, Alone, Target

-----------------------------------------------------------------------------
(* Shape and owners.                                                       *)
LEMMA ShapeStep ==
    ASSUME AccountShape, HandlerInv, AccountsNext
    PROVE  AccountShape'
  <1>1. TaskShape'
    BY AccountTasks DEF AccountShape, TasksStep
  <1>2. SessionShape'
    BY AccountSessions DEF AccountShape, SessionsStep
  <1>3. /\ DOMAIN grants' = UserIds /\ DOMAIN replaced' = UserIds
    BY DEF AccountShape, AccountsNext, Tick, accountVars, Login, DropExpired,
           CreateSession, Resolve, DeleteExpired, Renew, Forbidden, Logout,
           ChangePassword, RevokeOthers, CreateUser, LoadForUpdate,
           LoadForDelete, CountAdmins, SetRole, RevokeDemoted, SetPassword,
           RevokeAll, DeleteUser, BeginGrants, DeleteGrants, InsertGrants,
           CommitGrants, Drop
  <1>4. UserShape'
    <2>. USE DEF UserShape
    <2>1. CASE UNCHANGED <<users, usedIds>>
      BY <2>1 DEF AccountShape
    <2>2. ASSUME NEW t \in Tasks, CreateUser(t)
          PROVE  UserShape'
      <3>1. tasks[t].request.role \in {"admin", "user"}
        BY <2>2, RequestFields DEF CreateUser, Authed, At, HandlerInv, Critical,
                                   Asked
      <3>. QED  BY <2>1, <2>2, <3>1 DEF CreateUser, AccountShape
    <2>3. ASSUME NEW t \in Tasks, SetRole(t)
          PROVE  UserShape'
      <3>1. tasks[t].request.role \in {"admin", "user"}
        BY <2>3 DEF SetRole, At, HandlerInv, Removes
      <3>. QED  BY <2>3, <3>1 DEF SetRole, AccountShape
    <2>4. ASSUME NEW t \in Tasks, DeleteUser(t)
          PROVE  UserShape'
      BY <2>4 DEF DeleteUser, AccountShape
    <2>. QED
      BY <2>1, <2>2, <2>3, <2>4
      DEF AccountsNext, Tick, accountVars, Login, DropExpired, CreateSession,
          Resolve, DeleteExpired, Renew, Forbidden, Logout, ChangePassword,
          RevokeOthers, LoadForUpdate, LoadForDelete, CountAdmins,
          RevokeDemoted, SetPassword, RevokeAll, BeginGrants, DeleteGrants,
          InsertGrants, CommitGrants, Drop
  <1>5. GivenOut'
    <2>. USE DEF GivenOut
    <2>1. CASE UNCHANGED <<sessions, issued>>
      BY <2>1 DEF AccountShape
    <2>2. ASSUME NEW t \in Tasks, CreateSession(t)
          PROVE  GivenOut'
      BY <2>1, <2>2 DEF CreateSession, AccountShape, SessionShape
    <2>3. ASSUME NEW t \in Tasks, Renew(t)
          PROVE  GivenOut'
      BY <2>3 DEF Renew, Renewed, AccountShape, SessionShape
    <2>4. ASSUME NEW gone, sessions' = Without(gone), issued' = issued
          PROVE  GivenOut'
      BY <2>4 DEF Without, AccountShape
    <2>5. ASSUME NEW t \in Tasks,
                 \/ DropExpired(t) \/ DeleteExpired(t) \/ Logout(t)
                 \/ RevokeOthers(t) \/ RevokeDemoted(t) \/ RevokeAll(t)
                 \/ DeleteUser(t)
          PROVE  GivenOut'
      BY <2>5, <2>4 DEF DropExpired, DeleteExpired, Logout, RevokeOthers,
                        RevokeDemoted, RevokeAll, DeleteUser
    <2>. QED
      BY <2>1, <2>2, <2>3, <2>5
      DEF AccountsNext, Tick, accountVars, Login, Resolve, Forbidden,
          ChangePassword, CreateUser, LoadForUpdate, LoadForDelete,
          CountAdmins, SetRole, SetPassword, BeginGrants, DeleteGrants,
          InsertGrants, CommitGrants, Drop
  <1>. QED  BY <1>1, <1>2, <1>3, <1>4, <1>5 DEF AccountShape

(* A session is created for an account that exists.                        *)
LEMMA SessionCreated ==
    ASSUME AccountInv, NEW t \in Tasks, CreateSession(t)
    PROVE  AccountInv'
  <1>. USE DEF AccountInv
  <1>0. /\ TaskShape /\ AccountShape'
        /\ UNCHANGED <<users, usedIds, grants, replaced, crossed>>
    BY ShapeStep DEF AccountShape, AccountsNext, CreateSession
  <1>1. Others(t) /\ tasks'[t].pc = "idle"
    BY <1>0, Finished DEF CreateSession
  <1>2. \/ UNCHANGED <<sessions, issued>>
        \/ \E k \in Tokens \ issued :
             /\ users[tasks[t].user] # None
             /\ sessions' = [sessions EXCEPT ![k] = Session(tasks[t].user)]
             /\ issued' = issued \cup {k}
    BY DEF CreateSession
  <1>3. OwnersStay
    BY <1>2 DEF OwnersStay, AccountShape, SessionShape
  <1>4. \A k \in Tokens : sessions'[k] # None =>
              \/ sessions[k] # None /\ sessions'[k].user = sessions[k].user
              \/ users'[sessions'[k].user] # None
    BY <1>0, <1>2 DEF Session, AccountShape, SessionShape
  <1>5. HandlerInv'
    BY <1>1, <1>3, HandlersRest DEF HandlerOf, Critical, GrantPcs
  <1>6. \A s \in Tasks : tasks'[s].pc \in Critical => tasks'[s] = tasks[s]
    BY <1>1 DEF Others, Critical
  <1>7. AdminInv'
    BY <1>0, <1>6, AdminsRest DEF Admins, Removing, At, Critical
  <1>8. OrphanInv' /\ GrantInv'
    BY <1>0, <1>4, <1>6, OrphansRest, GrantsRest DEF Critical, GrantPcs
  <1>. QED  BY <1>0, <1>5, <1>7, <1>8

(* The middleware reads a session and its user.                            *)
LEMMA Resolved ==
    ASSUME AccountInv, NEW t \in Tasks, NEW k \in Tokens,
           NEW request \in Requests, Resolve(t, k, request)
    PROVE  AccountInv'
  <1>. USE DEF AccountInv
  <1>0. /\ TaskShape /\ AccountShape'
        /\ UNCHANGED <<users, usedIds, grants, replaced, crossed, sessions,
                       issued>>
    BY ShapeStep DEF AccountShape, AccountsNext, Resolve
  <1>. DEFINE pc == CASE ExpiresIn(k) =< 0 -> "expired"
                      [] ExpiresIn(k) \in 1 .. RenewBelow - 1 -> "renew"
                      [] OTHER -> "authed"
              task == [pc |-> pc, token |-> k, user |-> sessions[k].user,
                       admin |-> users[sessions[k].user] = "admin",
                       request |-> request]
  <1>1. tasks' = [tasks EXCEPT ![t] = task] /\ sessions[k] # None
    BY DEF Resolve
  <1>2. pc \in {"expired", "renew", "authed"}
    OBVIOUS
  <1>3. /\ task.pc \in {"expired", "renew", "authed"}
        /\ task.token = k /\ task.user = sessions[k].user
        /\ task.request = request
        /\ {"token", "user", "admin", "request"} \subseteq DOMAIN task
    BY <1>2
  <1>. HIDE DEF task, pc
  <1>4. Others(t) /\ tasks'[t] = task
    BY <1>0, <1>1 DEF TaskShape, Others
  <1>5. OwnersStay
    BY <1>0 DEF OwnersStay
  <1>6. HandlerOf(t)'
    BY <1>0, <1>1, <1>3, <1>4
    DEF HandlerOf, Asked, Renews, AccountShape, GivenOut, GrantPcs
  <1>7. HandlerInv'
    BY <1>4, <1>5, <1>6, HandlersRest
  <1>8. \A s \in Tasks : tasks'[s].pc \in {"count", "write"} \cup GrantPcs =>
          tasks'[s] = tasks[s]
    BY <1>3, <1>4 DEF Others, GrantPcs
  <1>9. AdminInv'
    BY <1>0, <1>8, AdminsRest DEF Admins, Removing, At
  <1>10. OrphanInv' /\ GrantInv'
    BY <1>0, <1>8, OrphansRest, GrantsRest DEF GrantPcs
  <1>. QED  BY <1>0, <1>7, <1>9, <1>10

(* A renewal that finds its session gone brings nothing back.              *)
LEMMA Renewal ==
    ASSUME AccountInv, NEW t \in Tasks, Renew(t)
    PROVE  AccountInv'
  <1>. USE DEF AccountInv
  <1>0. /\ TaskShape /\ AccountShape'
        /\ UNCHANGED <<users, usedIds, grants, replaced, crossed, issued>>
    BY ShapeStep DEF AccountShape, AccountsNext, Renew
  <1>1. tasks[t].pc = "renew" /\ Asked(t) /\ Renews(t)
    BY DEF Renew, At, HandlerInv, Critical
  <1>2. Others(t) /\ tasks'[t].pc = "authed" /\ Asked(t)'
    BY <1>0, <1>1, Carried DEF Renew
  <1>3. OwnersStay
    BY <1>0, <1>1
    DEF Renew, Renewed, Renews, Session, OwnersStay, AccountShape, SessionShape
  <1>4. \A k \in Tokens : sessions'[k] # None =>
          sessions[k] # None /\ sessions'[k].user = sessions[k].user
    BY <1>1
    DEF Renew, Renewed, Renews, Session, AccountShape, SessionShape
  <1>5. HandlerInv'
    BY <1>2, <1>3, HandlersRest DEF HandlerOf, GrantPcs
  <1>6. \A s \in Tasks : tasks'[s].pc \in {"count", "write"} \cup GrantPcs =>
          tasks'[s] = tasks[s]
    BY <1>2 DEF Others, GrantPcs
  <1>7. AdminInv'
    BY <1>0, <1>6, AdminsRest DEF Admins, Removing, At
  <1>8. OrphanInv' /\ GrantInv'
    BY <1>0, <1>4, <1>6, OrphansRest, GrantsRest DEF GrantPcs
  <1>. QED  BY <1>0, <1>5, <1>7, <1>8

-----------------------------------------------------------------------------
(* Accounts.                                                               *)

(* An account gets an id that was never given out.                         *)
LEMMA UserCreated ==
    ASSUME AccountInv, NEW t \in Tasks, CreateUser(t)
    PROVE  AccountInv'
  <1>. USE DEF AccountInv
  <1>0. /\ TaskShape /\ AccountShape'
        /\ UNCHANGED <<sessions, issued, grants, replaced, crossed>>
    BY ShapeStep DEF AccountShape, AccountsNext, CreateUser
  <1>1. Others(t) /\ tasks'[t].pc = "idle"
    BY <1>0, Finished DEF CreateUser
  <1>2. \A id \in UserIds : users[id] # None => users'[id] = users[id]
    BY DEF CreateUser, AccountShape, UserShape
  <1>3. \A s \in Tasks : tasks'[s].pc \in Critical => tasks'[s] = tasks[s]
    BY <1>1 DEF Others, Critical
  <1>4. HandlerInv'
    BY <1>0, <1>1, HandlersRest DEF HandlerOf, Critical, GrantPcs, OwnersStay
  <1>5. AdminInv'
    <2>1. Admins \subseteq Admins'
      BY <1>2, AccountsAssumption DEF Admins
    <2>. QED  BY <1>0, <1>3, <2>1, AdminsRest DEF Removing, At, Critical
  <1>6. OrphanInv' /\ GrantInv'
    BY <1>0, <1>2, <1>3, OrphansRest, GrantsRest DEF Critical, GrantPcs
  <1>. QED  BY <1>0, <1>4, <1>5, <1>6

(* The requests that read their target: what stays beside the admins.      *)
LEMMA Reading ==
    ASSUME AccountInv, NEW t \in Tasks,
           LoadForUpdate(t) \/ LoadForDelete(t) \/ CountAdmins(t)
    PROVE  /\ AccountShape' /\ HandlerInv' /\ OrphanInv' /\ GrantInv'
           /\ UNCHANGED <<users, crossed>> /\ Others(t)
           /\ \/ tasks'[t].pc \in {"idle", "setPassword", "count"}
              \/ tasks'[t].pc = "write" /\ tasks'[t].request = tasks[t].request
                 /\ (CountAdmins(t) => EnoughAdmins)
                 /\ (LoadForUpdate(t) =>
                       users[Target(t)] # "admin" \/ tasks[t].request.role # "user")
                 /\ (LoadForDelete(t) => users[Target(t)] # "admin")
  <1>. USE DEF AccountInv
  <1>0. /\ TaskShape /\ AccountShape'
        /\ UNCHANGED <<users, usedIds, sessions, issued, grants, replaced,
                       crossed>>
    BY ShapeStep DEF AccountShape, AccountsNext, LoadForUpdate, LoadForDelete,
                     CountAdmins
  <1>1. tasks[t].pc \in {"authed", "count"} /\ Asked(t)
    BY DEF LoadForUpdate, LoadForDelete, CountAdmins, Authed, At, HandlerInv,
           Critical
  <1>2. \/ Finish(t) \/ To(t, "setPassword")
        \/ To(t, "count") /\ Removes(t)
        \/ /\ To(t, "write") /\ Removes(t)
           /\ CountAdmins(t) => EnoughAdmins
           /\ LoadForUpdate(t) =>
                users[Target(t)] # "admin" \/ tasks[t].request.role # "user"
           /\ LoadForDelete(t) => users[Target(t)] # "admin"
    <2>1. CASE LoadForUpdate(t)
      <3>1. /\ tasks[t].request.kind = "update"
            /\ tasks[t].request.role \in {"admin", "user", None}
            /\ tasks[t].pc = "authed"
        BY <1>1, <2>1, RequestFields DEF LoadForUpdate, Authed, At, Asked
      <3>2. ~CountAdmins(t) /\ ~LoadForDelete(t)
        BY <3>1 DEF CountAdmins, LoadForDelete, Authed, At
      <3>. QED
        BY <2>1, <3>1, <3>2, AccountsAssumption DEF LoadForUpdate, Removes
    <2>2. CASE LoadForDelete(t)
      <3>1. tasks[t].request.kind = "delete" /\ tasks[t].pc = "authed"
        BY <2>2 DEF LoadForDelete, Authed, At
      <3>2. ~CountAdmins(t) /\ ~LoadForUpdate(t)
        BY <3>1 DEF CountAdmins, LoadForUpdate, Authed, At
      <3>. QED
        BY <2>2, <3>1, <3>2 DEF LoadForDelete, Removes
    <2>3. CASE CountAdmins(t)
      <3>1. tasks[t].pc = "count" /\ Removes(t)
        BY <2>3 DEF CountAdmins, At, HandlerInv
      <3>2. ~LoadForUpdate(t) /\ ~LoadForDelete(t)
        BY <3>1 DEF LoadForDelete, LoadForUpdate, Authed, At
      <3>. QED
        BY <2>3, <3>1, <3>2 DEF CountAdmins, To
    <2>. QED  BY <2>1, <2>2, <2>3
  <1>3. /\ Others(t)
        /\ \/ tasks'[t].pc \in {"idle", "setPassword"}
           \/ /\ tasks'[t].pc \in {"count", "write"} /\ Asked(t)'
              /\ tasks'[t].request = tasks[t].request /\ Removes(t)'
    <2>1. CASE Finish(t)
      BY <1>0, <2>1, Finished
    <2>2. CASE To(t, "setPassword")
      BY <1>0, <2>2, Moved
    <2>3. ASSUME NEW pc \in {"count", "write"}, To(t, pc), Removes(t)
          PROVE  <1>3
      BY <1>0, <1>1, <2>3, Carried DEF Removes
    <2>. QED  BY <1>2, <2>1, <2>2, <2>3
  <1>4. HandlerInv'
    BY <1>0, <1>3, HandlersRest DEF HandlerOf, Critical, GrantPcs, OwnersStay
  <1>5. \A s \in Tasks : tasks'[s].pc \in GrantPcs => tasks'[s] = tasks[s]
    BY <1>3 DEF Others, GrantPcs
  <1>6. OrphanInv' /\ GrantInv'
    BY <1>0, <1>5, OrphansRest, GrantsRest DEF GrantPcs
  <1>7. tasks'[t].pc = "write" => To(t, "write")
    BY <1>0, <1>2, Finished, Moved
  <1>8. tasks'[t].pc = "write" =>
           /\ CountAdmins(t) => EnoughAdmins
           /\ LoadForUpdate(t) =>
                users[Target(t)] # "admin" \/ tasks[t].request.role # "user"
           /\ LoadForDelete(t) => users[Target(t)] # "admin"
    BY <1>0, <1>2, Finished, Moved
  <1>. QED  BY <1>0, <1>3, <1>4, <1>6, <1>8

(* More than one admin: one of them is not the target.                     *)
LEMMA TwoAdmins ==
    ASSUME EnoughAdmins, NEW t
    PROVE  AnotherAdmin(t)
  <1>1. SUFFICES ASSUME Admins \subseteq {Target(t)}
                 PROVE  FALSE
    BY DEF AnotherAdmin
  <1>2. IsFiniteSet({Target(t)}) /\ Cardinality({Target(t)}) = 1
    BY FS_Singleton
  <1>3. Cardinality(Admins) =< 1 /\ Cardinality(Admins) \in Nat
    BY <1>1, <1>2, FS_Subset, FS_CardinalityType
  <1>. QED  BY <1>3 DEF EnoughAdmins

LEMMA AdminsRead ==
    ASSUME AccountInv, NEW t \in Tasks,
           LoadForUpdate(t) \/ LoadForDelete(t) \/ CountAdmins(t)
    PROVE  AccountInv'
  <1>. USE DEF AccountInv
  <1>1. /\ UNCHANGED <<users, crossed>> /\ Others(t)
        /\ \/ tasks'[t].pc \in {"idle", "setPassword", "count"}
           \/ tasks'[t].pc = "write" /\ tasks'[t].request = tasks[t].request
              /\ (CountAdmins(t) => EnoughAdmins)
              /\ (LoadForUpdate(t) =>
                    users[Target(t)] # "admin" \/ tasks[t].request.role # "user")
              /\ (LoadForDelete(t) => users[Target(t)] # "admin")
    BY Reading
  <1>2. ASSUME ~crossed, Removing(t)'
        PROVE  AnotherAdmin(t)'
    <2>1. tasks'[t].pc = "write" /\ Target(t)' = Target(t)
      BY <1>1, <1>2 DEF Removing, At, Target
    <2>2. CASE users[Target(t)] # "admin"
      BY <1>1, <1>2, <2>1, <2>2 DEF AdminInv, AnotherAdmin, Admins
    <2>3. CASE EnoughAdmins
      BY <1>1, <2>1, <2>3, TwoAdmins DEF AnotherAdmin, Admins
    <2>4. ~(LoadForUpdate(t) /\ tasks[t].request.role # "user")
      BY <1>1, <1>2, <2>1 DEF LoadForUpdate, Authed, Removing
    <2>. QED  BY <1>1, <2>1, <2>2, <2>3, <2>4
  <1>3. AdminInv'
    <2>1. \A s \in Tasks : s # t /\ Removing(s)' => Removing(s)
                              /\ Target(s)' = Target(s)
      BY <1>1 DEF Others, Removing, At, Target
    <2>. QED  BY <1>1, <1>2, <2>1 DEF AdminInv, AnotherAdmin, Admins
  <1>. QED  BY <1>3, Reading

(* A removal that wrote while another had counted is remembered, and any   *)
(* other leaves the admin the count saw.                                   *)
LEMMA RemovalWrites ==
    ASSUME AccountInv, NEW t \in Tasks, Removing(t), Others(t),
           tasks'[t].pc # "write", crossed' = Crossed(t),
           \A id \in UserIds : id # Target(t) => users'[id] = users[id]
    PROVE  AdminInv'
  <1>. USE DEF AccountInv
  <1>1. SUFFICES ASSUME ~crossed'
                 PROVE  /\ Admins' # {}
                        /\ \A s \in Tasks : Removing(s)' => AnotherAdmin(s)'
    BY DEF AdminInv
  <1>2. /\ ~crossed
        /\ \/ users[Target(t)] # "admin"
           \/ \A s \in Tasks \ {t} : ~Removing(s)
    BY <1>1 DEF Crossed
  <1>3. PICK id \in Admins : id # Target(t)
    BY <1>2 DEF AdminInv, AnotherAdmin
  <1>4. id \in Admins'
    BY <1>3 DEF Admins
  <1>5. ASSUME NEW s \in Tasks, Removing(s)'
        PROVE  AnotherAdmin(s)'
    <2>1. s # t /\ Removing(s) /\ Target(s)' = Target(s)
      BY <1>5 DEF Others, Removing, At, Target
    <2>2. users[Target(t)] # "admin"
      BY <1>2, <2>1
    <2>3. PICK other \in Admins : other # Target(s)
      BY <1>2, <2>1 DEF AdminInv, AnotherAdmin
    <2>4. other \in Admins'
      BY <2>2, <2>3 DEF Admins
    <2>. QED  BY <2>1, <2>3, <2>4 DEF AnotherAdmin
  <1>. QED  BY <1>4, <1>5

LEMMA RoleSet ==
    ASSUME AccountInv, NEW t \in Tasks, SetRole(t)
    PROVE  AccountInv'
  <1>. USE DEF AccountInv
  <1>0. /\ TaskShape /\ AccountShape'
        /\ UNCHANGED <<usedIds, sessions, issued, grants, replaced>>
    BY ShapeStep DEF AccountShape, AccountsNext, SetRole
  <1>1. /\ tasks[t].pc = "write" /\ Asked(t)
        /\ tasks[t].request.kind = "update"
        /\ tasks[t].request.role \in {"admin", "user"}
    BY DEF SetRole, At, HandlerInv, Critical, Removes
  <1>2. Others(t) /\ tasks'[t].pc \in {"revokeDemoted", "setPassword"}
    BY <1>0, Moved DEF SetRole
  <1>3. \A s \in Tasks : tasks'[s].pc \in Critical => tasks'[s] = tasks[s]
    BY <1>2 DEF Others, Critical
  <1>4. /\ \A id \in UserIds : users[id] # None => users'[id] # None
        /\ \A id \in UserIds : id # Target(t) => users'[id] = users[id]
        /\ \A id \in UserIds : tasks[t].request.role = "admin" =>
              users'[id] = users[id] \/ users'[id] = "admin"
    BY <1>1, AccountsAssumption DEF SetRole, AccountShape, UserShape
  <1>5. HandlerInv'
    BY <1>0, <1>2, HandlersRest DEF HandlerOf, Critical, GrantPcs, OwnersStay
  <1>6. AdminInv'
    <2>1. CASE tasks[t].request.role = "user"
      <3>1. Removing(t) /\ crossed' = Crossed(t)
        BY <1>1, <2>1 DEF Removing, At, SetRole
      <3>. QED  BY <1>2, <1>4, <3>1, RemovalWrites
    <2>2. CASE tasks[t].request.role = "admin"
      <3>1. crossed' = crossed
        BY <2>2 DEF SetRole
      <3>2. Admins \subseteq Admins'
        BY <1>4, <2>2 DEF Admins
      <3>. QED  BY <1>3, <3>1, <3>2, AdminsRest DEF Removing, At, Critical
    <2>. QED  BY <1>1, <2>1, <2>2
  <1>7. OrphanInv' /\ GrantInv'
    BY <1>0, <1>3, <1>4, OrphansRest, GrantsRest DEF Critical, GrantPcs
  <1>. QED  BY <1>0, <1>5, <1>6, <1>7

(* The row goes with its sessions and grants, unless rows about to be      *)
(* committed hold it.                                                      *)
LEMMA UserDeleted ==
    ASSUME AccountInv, NEW t \in Tasks, DeleteUser(t)
    PROVE  AccountInv'
  <1>. USE DEF AccountInv
  <1>0. TaskShape /\ AccountShape' /\ issued' = issued
    BY ShapeStep DEF AccountShape, AccountsNext, DeleteUser
  <1>1. /\ tasks[t].pc = "write" /\ Asked(t) /\ Removing(t)
        /\ tasks[t].request.kind = "delete"
    BY DEF DeleteUser, At, HandlerInv, Critical, Removing
  <1>2. Others(t) /\ tasks'[t].pc = "idle"
    BY <1>0, Finished DEF DeleteUser
  <1>3. \A s \in Tasks : tasks'[s].pc \in Critical =>
          s # t /\ tasks'[s] = tasks[s]
    BY <1>2 DEF Others, Critical
  <1>4. /\ users' = [users EXCEPT ![Target(t)] = None]
        /\ grants' = [grants EXCEPT ![Target(t)] = {}]
        /\ replaced' = [replaced EXCEPT ![Target(t)] = {}]
        /\ sessions' = Without(SessionsOf(Target(t)))
        /\ InsertedBy(Target(t), t) = {} /\ crossed' = Crossed(t)
    BY DEF DeleteUser
  <1>5. OwnersStay /\ \A k \in Tokens : sessions'[k] # None =>
          sessions'[k] = sessions[k] /\ k \notin SessionsOf(Target(t))
    BY <1>0, <1>4 DEF OwnersStay, Without, AccountShape, SessionShape
  <1>6. HandlerInv'
    BY <1>2, <1>5, HandlersRest DEF HandlerOf, Critical, GrantPcs
  <1>7. AdminInv'
    <2>1. \A id \in UserIds : id # Target(t) => users'[id] = users[id]
      BY <1>4 DEF AccountShape, UserShape
    <2>. QED  BY <1>1, <1>2, <1>4, <2>1, RemovalWrites
  <1>8. OrphanInv'
    <2>1. NothingOrphaned'
      BY <1>4, <1>5
      DEF OrphanInv, NothingOrphaned, SessionsOf, AccountShape, UserShape
    <2>2. ASSUME NEW s \in Tasks, tasks'[s].pc = "commitGrants"
          PROVE  Holds(s)'
      <3>1. /\ tasks'[s] = tasks[s] /\ s # t /\ tasks[s].pc = "commitGrants"
        BY <1>3, <2>2 DEF Critical
      <3>2. CASE Target(s) = Target(t)
        <4>1. s \in Open(Target(t)) \ {t} /\ At(s, "commitGrants")
          BY <3>1, <3>2 DEF Open, GrantPcs, At
        <4>2. tasks[s].request.slugs \subseteq InsertedBy(Target(t), t)
          BY <4>1 DEF InsertedBy
        <4>. QED  BY <1>4, <3>1, <4>2 DEF Holds
      <3>3. CASE Target(s) # Target(t)
        <4>1. Holds(s)
          BY <3>1 DEF OrphanInv
        <4>. QED
          BY <1>4, <3>1, <3>3, <4>1 DEF Holds, Target, AccountShape, UserShape
      <3>. QED  BY <3>2, <3>3
    <2>. QED  BY <2>1, <2>2 DEF OrphanInv
  <1>9. GrantInv'
    <2>1. GrantsReplaced'
      BY <1>4 DEF GrantInv, GrantsReplaced, AccountShape
    <2>2. \A id : Open(id)' \subseteq Open(id)
      BY <1>3 DEF Open, Target, Critical, GrantPcs
    <2>3. ASSUME NEW s \in Tasks, tasks'[s].pc \in GrantPcs, tasks'[s].alone
          PROVE  Alone(s)'
      <3>1. /\ tasks'[s] = tasks[s] /\ Alone(s) /\ Target(s) \in UserIds
        BY <1>3, <2>3, RequestFields
        DEF GrantInv, HandlerInv, Critical, GrantPcs, Asked, SetsGrants, Target
      <3>2. grants'[Target(s)] \subseteq grants[Target(s)]
        BY <1>4, <3>1 DEF AccountShape
      <3>. QED  BY <2>2, <3>1, <3>2 DEF Alone, Target
    <2>. QED  BY <2>1, <2>3 DEF GrantInv
  <1>. QED  BY <1>0, <1>6, <1>7, <1>8, <1>9

-----------------------------------------------------------------------------
(* Grants.                                                                 *)

(* A transaction begins; those open on the same account lose their claim   *)
(* to be alone.                                                            *)
LEMMA Began ==
    ASSUME AccountInv, NEW t \in Tasks, BeginGrants(t), ~Finish(t)
    PROVE  /\ DOMAIN tasks' = Tasks
           /\ tasks[t].pc = "authed" /\ tasks[t].request.kind = "grants"
           /\ Target(t) \in UserIds
           /\ tasks'[t].pc = "deleteGrants" /\ Asked(t)' /\ SetsGrants(t)'
           /\ tasks'[t].request = tasks[t].request
           /\ tasks'[t].seen = grants[Target(t)]
           /\ tasks'[t].alone => Open(Target(t)) = {}
           /\ \A s \in Tasks : s # t /\ s \notin Open(Target(t)) =>
                 tasks'[s] = tasks[s]
           /\ \A s \in Open(Target(t)) :
                 s # t /\ tasks'[s] = [tasks[s] EXCEPT !.alone = FALSE]
  <1>0. /\ tasks[t].pc = "authed" /\ tasks[t].request.kind = "grants"
        /\ Asked(t) /\ Target(t) \in UserIds
    BY RequestFields DEF AccountInv, BeginGrants, Authed, At, HandlerInv,
                         Critical, Asked, Target
  <1>. DEFINE task == [pc |-> "deleteGrants", token |-> tasks[t].token,
                       user |-> tasks[t].user, admin |-> tasks[t].admin,
                       request |-> tasks[t].request,
                       seen |-> VisibleGrants(Target(t)), deleted |-> {},
                       alone |-> Open(Target(t)) = {}]
              overlapped(s) == [tasks[s] EXCEPT !.alone = FALSE]
  <1>1. tasks' = [s \in Tasks |-> CASE s = t -> task
                                    [] s \in Open(Target(t)) -> overlapped(s)
                                    [] OTHER -> tasks[s]]
    BY DEF BeginGrants
  <1>2. /\ task.pc = "deleteGrants" /\ task.request = tasks[t].request
        /\ {"token", "user", "admin", "request", "seen", "deleted", "alone"}
             \subseteq DOMAIN task
        /\ task.seen = grants[Target(t)]
        /\ task.alone => Open(Target(t)) = {}
    BY DEF VisibleGrants
  <1>3. t \notin Open(Target(t)) /\ Open(Target(t)) \subseteq Tasks
    BY <1>0 DEF Open, GrantPcs
  <1>. HIDE DEF task, overlapped
  <1>4. /\ DOMAIN tasks' = Tasks /\ tasks'[t] = task
        /\ \A s \in Tasks : s # t /\ s \notin Open(Target(t)) =>
              tasks'[s] = tasks[s]
        /\ \A s \in Open(Target(t)) : s # t /\ tasks'[s] = overlapped(s)
    BY <1>1, <1>3
  <1>5. Asked(t)' /\ SetsGrants(t)'
    BY <1>0, <1>2, <1>4 DEF Asked, SetsGrants
  <1>. QED  BY <1>0, <1>2, <1>4, <1>5 DEF overlapped

(* What losing the claim leaves.                                           *)
LEMMA Overlapped ==
    ASSUME AccountInv, NEW s \in Tasks, tasks[s].pc \in GrantPcs,
           tasks'[s] = [tasks[s] EXCEPT !.alone = FALSE]
    PROVE  /\ tasks'[s].pc = tasks[s].pc /\ Asked(s)' /\ SetsGrants(s)'
           /\ tasks'[s].request = tasks[s].request
           /\ ~tasks'[s].alone
  <1>1. Asked(s) /\ SetsGrants(s) /\ "pc" \in DOMAIN tasks[s]
    BY DEF AccountInv, AccountShape, TaskShape, HandlerInv, Critical, GrantPcs
  <1>2. /\ DOMAIN tasks'[s] = DOMAIN tasks[s]
        /\ \A x \in DOMAIN tasks[s] : x # "alone" => tasks'[s][x] = tasks[s][x]
        /\ ~tasks'[s].alone
    BY <1>1 DEF SetsGrants
  <1>3. tasks'[s].pc = tasks[s].pc /\ tasks'[s].request = tasks[s].request
    BY <1>1, <1>2 DEF Asked
  <1>. QED  BY <1>1, <1>2, <1>3 DEF Asked, SetsGrants

LEMMA GrantsBegun ==
    ASSUME AccountInv, NEW t \in Tasks, BeginGrants(t), ~Finish(t)
    PROVE  AccountInv'
  <1>. USE DEF AccountInv
  <1>. DEFINE id == Target(t)
  <1>0. /\ TaskShape /\ AccountShape'
        /\ UNCHANGED <<users, usedIds, sessions, issued, grants, replaced,
                       crossed>>
    BY ShapeStep DEF AccountShape, AccountsNext, BeginGrants
  <1>1. /\ tasks[t].pc = "authed" /\ Target(t) \in UserIds
        /\ tasks'[t].pc = "deleteGrants" /\ Asked(t)' /\ SetsGrants(t)'
        /\ tasks'[t].request = tasks[t].request
        /\ tasks'[t].seen = grants[id]
        /\ tasks'[t].alone => Open(id) = {}
    BY Began
  <1>2. \A s \in Tasks : s # t /\ s \notin Open(id) => tasks'[s] = tasks[s]
    BY Began
  <1>3. \A s \in Open(id) :
          /\ s # t /\ s \in Tasks /\ tasks[s].pc \in GrantPcs
          /\ tasks'[s].pc = tasks[s].pc /\ Asked(s)' /\ SetsGrants(s)'
          /\ tasks'[s].request = tasks[s].request
          /\ ~tasks'[s].alone
    <2>. SUFFICES ASSUME NEW s \in Open(id)
                  PROVE  /\ s # t /\ s \in Tasks /\ tasks[s].pc \in GrantPcs
                         /\ tasks'[s].pc = tasks[s].pc
                         /\ Asked(s)' /\ SetsGrants(s)'
                         /\ tasks'[s].request = tasks[s].request
                         /\ ~tasks'[s].alone
      OBVIOUS
    <2>1. /\ s # t /\ s \in Tasks /\ tasks[s].pc \in GrantPcs
          /\ tasks'[s] = [tasks[s] EXCEPT !.alone = FALSE]
      BY Began DEF Open
    <2>. QED  BY <2>1, Overlapped
  <1>. HIDE DEF id
  <1>4. HandlerInv'
    <2>1. ASSUME NEW s \in Tasks
          PROVE  HandlerOf(s)'
      <3>1. CASE s = t
        BY <1>1, <3>1 DEF HandlerOf, GrantPcs
      <3>2. CASE s \in Open(id)
        BY <1>3, <3>2 DEF HandlerOf, GrantPcs
      <3>3. CASE s # t /\ s \notin Open(id)
        BY <1>0, <1>2, <3>3
        DEF HandlerInv, HandlerOf, Asked, Renews, Removes, SetsGrants
      <3>. QED  BY <3>1, <3>2, <3>3
    <2>. QED  BY <2>1 DEF HandlerInv, HandlerOf
  <1>5. AdminInv'
    <2>1. \A s \in Tasks : Removing(s)' => tasks'[s] = tasks[s]
      BY <1>1, <1>2, <1>3 DEF Removing, At, GrantPcs
    <2>2. \A s \in Tasks : Removing(s)' => Removing(s) /\ tasks'[s] = tasks[s]
      BY <2>1 DEF Removing, At
    <2>. QED  BY <1>0, <2>2, AdminsRest DEF Admins
  <1>6. \A s \in Tasks : s # t => tasks'[s].pc = tasks[s].pc
                                  /\ tasks'[s].request = tasks[s].request
    BY <1>2, <1>3
  <1>7. OrphanInv'
    <2>1. NothingOrphaned'
      BY <1>0 DEF OrphanInv, NothingOrphaned, SessionsOf
    <2>. QED  BY <1>0, <1>1, <1>6, <2>1 DEF OrphanInv, Holds, Target
  <1>8. GrantInv'
    <2>1. GrantsReplaced'
      BY <1>0 DEF GrantInv, GrantsReplaced
    <2>2. ASSUME NEW s \in Tasks, tasks'[s].pc \in GrantPcs, tasks'[s].alone
          PROVE  Alone(s)'
      <3>1. CASE s = t
        <4>1. Target(t)' = Target(t) /\ Open(Target(t)) = {}
          BY <1>1, <2>2, <3>1 DEF Target, id
        <4>2. \A u \in Tasks : tasks'[u].pc \in GrantPcs
                               /\ Target(u)' = Target(t)' => u = t
          BY <1>6, <4>1 DEF Open, Target
        <4>3. \A u \in Open(Target(t))' : u = t
          BY <4>2 DEF Open
        <4>4. grants'[Target(t)'] \subseteq tasks'[t].seen
          BY <1>0, <1>1, <4>1 DEF id
        <4>. QED  BY <1>1, <3>1, <4>3, <4>4 DEF Alone
      <3>2. CASE s # t
        <4>1. tasks'[s] = tasks[s] /\ Alone(s) /\ s \notin Open(id)
          BY <1>2, <1>3, <2>2, <3>2 DEF GrantInv
        <4>2. Target(s)' = Target(s) /\ Target(s) # id
          BY <2>2, <4>1 DEF Target, Open
        <4>3. \A u \in Tasks : u \in Open(Target(s))' => u \in Open(Target(s))
          BY <1>1, <1>6, <4>2 DEF Open, Target, id
        <4>. QED  BY <1>0, <4>1, <4>2, <4>3 DEF Alone, Open
      <3>. QED  BY <3>1, <3>2
    <2>. QED  BY <2>1, <2>2 DEF GrantInv
  <1>. QED  BY <1>0, <1>4, <1>5, <1>7, <1>8

(* A transaction goes on: its claim to be alone stays what it was, and it  *)
(* deletes all there are if it was.                                        *)
LEMMA GrantsGoOn ==
    ASSUME AccountInv, NEW t \in Tasks, AccountShape', Others(t),
           UNCHANGED <<users, sessions, issued, grants, replaced, crossed>>,
           tasks[t].pc \in GrantPcs, tasks'[t].pc \in GrantPcs \ {"deleteGrants"},
           Asked(t)', SetsGrants(t)', tasks'[t].request = tasks[t].request,
           tasks'[t].alone = tasks[t].alone,
           tasks[t].alone => grants[Target(t)] \subseteq tasks'[t].deleted,
           tasks'[t].pc = "commitGrants" => Holds(t)
    PROVE  AccountInv'
  <1>. USE DEF AccountInv
  <1>1. HandlerInv'
    BY HandlersRest DEF HandlerOf, GrantPcs, OwnersStay
  <1>2. \A s \in Tasks : Removing(s)' => Removing(s) /\ tasks'[s] = tasks[s]
    BY DEF Others, Removing, At, GrantPcs
  <1>3. AdminInv'
    BY <1>2, AdminsRest DEF Admins
  <1>4. OrphanInv'
    <2>1. NothingOrphaned'
      BY DEF OrphanInv, NothingOrphaned, SessionsOf
    <2>. QED  BY <2>1 DEF OrphanInv, Holds, Target, Others
  <1>5. GrantInv'
    <2>1. GrantsReplaced'
      BY DEF GrantInv, GrantsReplaced
    <2>2. \A s \in Tasks : s \in Open(Target(s)) => Target(s)' = Target(s)
      BY DEF Others, Target
    <2>3. \A id : \A s \in Tasks :
            tasks'[s].pc \in GrantPcs /\ Target(s)' = id => s \in Open(id)
      BY DEF Others, Target, Open
    <2>4. ASSUME NEW s \in Tasks, tasks'[s].pc \in GrantPcs, tasks'[s].alone
          PROVE  Alone(s)'
      <3>1. Target(s)' = Target(s) /\ Alone(s)
        BY <2>4 DEF Others, Target, GrantInv
      <3>2. \A u \in Open(Target(s))' : u = s
        BY <2>3, <3>1 DEF Open, Alone
      <3>3. CASE s = t
        <4>1. /\ grants'[Target(t)'] \subseteq tasks'[t].deleted
              /\ tasks'[t].pc # "deleteGrants"
          BY <2>4, <3>1, <3>3
        <4>. QED  BY <3>2, <3>3, <4>1 DEF Alone
      <3>4. CASE s # t
        BY <3>1, <3>2, <3>4 DEF Alone, Others
      <3>. QED  BY <3>3, <3>4
    <2>. QED  BY <2>1, <2>4 DEF GrantInv
  <1>. QED  BY <1>1, <1>3, <1>4, <1>5

LEMMA GrantsDeleted ==
    ASSUME AccountInv, NEW t \in Tasks, DeleteGrants(t)
    PROVE  AccountInv'
  <1>. USE DEF AccountInv
  <1>0. /\ TaskShape /\ AccountShape'
        /\ UNCHANGED <<users, sessions, issued, grants, replaced, crossed>>
    BY ShapeStep DEF AccountShape, AccountsNext, DeleteGrants
  <1>1. /\ tasks[t].pc = "deleteGrants" /\ Asked(t) /\ SetsGrants(t)
        /\ "pc" \in DOMAIN tasks[t]
    BY <1>0 DEF DeleteGrants, At, HandlerInv, Critical, GrantPcs, TaskShape
  <1>. DEFINE task == [[tasks[t] EXCEPT
                          !.deleted = tasks[t].seen \cap grants[Target(t)]]
                          EXCEPT !.pc = "insertGrants"]
  <1>2. tasks' = [tasks EXCEPT ![t] = task]
    BY <1>0 DEF DeleteGrants, TaskShape
  <1>3. /\ DOMAIN task = DOMAIN tasks[t] /\ task.pc = "insertGrants"
        /\ task.deleted = tasks[t].seen \cap grants[Target(t)]
        /\ \A x \in DOMAIN tasks[t] : x \notin {"pc", "deleted"} =>
              task[x] = tasks[t][x]
    BY <1>1 DEF SetsGrants
  <1>. HIDE DEF task
  <1>4. Others(t) /\ tasks'[t] = task
    BY <1>0, <1>2 DEF TaskShape, Others
  <1>5. task.request = tasks[t].request /\ task.alone = tasks[t].alone
    BY <1>1, <1>3 DEF Asked, SetsGrants
  <1>6. Asked(t)' /\ SetsGrants(t)'
    BY <1>1, <1>3, <1>4, <1>5 DEF Asked, SetsGrants
  <1>7. tasks[t].alone => grants[Target(t)] \subseteq task.deleted
    BY <1>1, <1>3 DEF GrantInv, Alone, GrantPcs
  <1>. QED
    BY <1>0, <1>1, <1>3, <1>4, <1>5, <1>6, <1>7, GrantsGoOn DEF GrantPcs

(* A transaction that fails is gone with what it deleted.                  *)
LEMMA GrantsRefused ==
    ASSUME AccountInv, NEW t \in Tasks, Finish(t), AccountShape',
           UNCHANGED <<users, sessions, issued, grants, replaced, crossed>>
    PROVE  AccountInv'
  <1>. USE DEF AccountInv
  <1>1. Others(t) /\ tasks'[t].pc = "idle"
    BY Finished DEF AccountShape
  <1>2. \A s \in Tasks : tasks'[s].pc \in Critical => tasks'[s] = tasks[s]
    BY <1>1 DEF Others, Critical
  <1>3. HandlerInv'
    BY <1>1, HandlersRest DEF HandlerOf, Critical, GrantPcs, OwnersStay
  <1>4. AdminInv'
    BY <1>2, AdminsRest DEF Admins, Removing, At, Critical
  <1>5. OrphanInv' /\ GrantInv'
    BY <1>2, OrphansRest, GrantsRest DEF Critical, GrantPcs
  <1>. QED  BY <1>3, <1>4, <1>5

LEMMA GrantsInserted ==
    ASSUME AccountInv, NEW t \in Tasks, InsertGrants(t)
    PROVE  AccountInv'
  <1>. USE DEF AccountInv
  <1>0. /\ TaskShape /\ AccountShape'
        /\ UNCHANGED <<users, sessions, issued, grants, replaced, crossed>>
    BY ShapeStep DEF AccountShape, AccountsNext, InsertGrants
  <1>1. CASE Finish(t)
    BY <1>0, <1>1, GrantsRefused
  <1>2. CASE To(t, "commitGrants") /\ Holds(t)
    <2>1. tasks[t].pc = "insertGrants" /\ Asked(t) /\ SetsGrants(t)
      BY DEF InsertGrants, At, HandlerInv, Critical, GrantPcs
    <2>2. /\ Others(t) /\ tasks'[t].pc = "commitGrants" /\ Asked(t)'
          /\ tasks'[t].request = tasks[t].request
      BY <1>0, <1>2, <2>1, Carried
    <2>3. /\ DOMAIN tasks'[t] = DOMAIN tasks[t]
          /\ \A x \in {"alone", "deleted"} : tasks'[t][x] = tasks[t][x]
      BY <1>0, <1>2, <2>1, Moved DEF SetsGrants
    <2>4. SetsGrants(t)'
      BY <2>1, <2>2, <2>3 DEF SetsGrants
    <2>5. tasks[t].alone => grants[Target(t)] \subseteq tasks'[t].deleted
      BY <2>1, <2>3 DEF GrantInv, Alone, GrantPcs
    <2>. QED
      BY <1>0, <1>2, <2>1, <2>2, <2>3, <2>4, <2>5, GrantsGoOn DEF GrantPcs
  <1>3. Finish(t) \/ (To(t, "commitGrants") /\ Holds(t))
    BY DEF InsertGrants, Holds
  <1>. QED  BY <1>1, <1>2, <1>3

(* The only step that brings grants.                                       *)
LEMMA GrantsCommitted ==
    ASSUME AccountInv, NEW t \in Tasks, CommitGrants(t)
    PROVE  AccountInv'
  <1>. USE DEF AccountInv
  <1>. DEFINE id == Target(t)
              slugs == tasks[t].request.slugs
  <1>0. /\ TaskShape /\ AccountShape'
        /\ UNCHANGED <<users, sessions, issued, crossed>>
    BY ShapeStep DEF AccountShape, AccountsNext, CommitGrants
  <1>1. /\ tasks[t].pc = "commitGrants" /\ Asked(t) /\ SetsGrants(t)
        /\ id \in UserIds
    BY RequestFields DEF CommitGrants, At, HandlerInv, Critical, GrantPcs,
                         Asked, SetsGrants, Target
  <1>2. /\ DOMAIN grants' = UserIds /\ DOMAIN replaced' = UserIds
        /\ grants'[id] = (grants[id] \ tasks[t].deleted) \cup slugs
        /\ replaced'[id] = IF tasks[t].alone THEN slugs ELSE None
        /\ \A other \in UserIds : other # id =>
              grants'[other] = grants[other] /\ replaced'[other] = replaced[other]
    BY <1>1 DEF CommitGrants, AccountShape
  <1>3. Others(t) /\ tasks'[t].pc = "idle"
    BY <1>0, Finished DEF CommitGrants
  <1>4. \A s \in Tasks : tasks'[s].pc \in Critical =>
          s # t /\ tasks'[s] = tasks[s]
    BY <1>3 DEF Others, Critical
  <1>5. HandlerInv'
    BY <1>0, <1>3, HandlersRest DEF HandlerOf, Critical, GrantPcs, OwnersStay
  <1>6. AdminInv'
    BY <1>0, <1>4, AdminsRest DEF Admins, Removing, At, Critical
  <1>7. t \in Open(id)
    BY <1>1 DEF Open, GrantPcs
  <1>8. tasks[t].alone => grants[id] \subseteq tasks[t].deleted
    BY <1>1 DEF GrantInv, Alone, GrantPcs
  <1>9. slugs # {} => users[id] # None
    BY <1>1 DEF OrphanInv, Holds
  <1>. HIDE DEF id, slugs
  <1>10. OrphanInv'
    <2>1. ASSUME NEW other \in UserIds, users'[other] = None
          PROVE  grants'[other] = {} /\ SessionsOf(other)' = {}
      <3>1. grants[other] = {} /\ SessionsOf(other) = {}
        BY <1>0, <2>1 DEF OrphanInv, NothingOrphaned
      <3>. QED  BY <1>0, <1>2, <1>9, <2>1, <3>1 DEF SessionsOf
    <2>2. NothingOrphaned'
      BY <2>1 DEF NothingOrphaned
    <2>. QED
      BY <1>0, <1>4, <2>2 DEF OrphanInv, Holds, Target, Critical
  <1>11. GrantInv'
    <2>1. GrantsReplaced'
      BY <1>2, <1>8 DEF GrantInv, GrantsReplaced
    <2>2. \A other : Open(other)' \subseteq Open(other)
      BY <1>4 DEF Open, Target, Critical, GrantPcs
    <2>3. ASSUME NEW s \in Tasks, tasks'[s].pc \in GrantPcs, tasks'[s].alone
          PROVE  Alone(s)'
      <3>1. s # t /\ tasks'[s] = tasks[s] /\ Alone(s) /\ Target(s)' = Target(s)
            /\ Target(s) \in UserIds
        BY <1>4, <2>3, RequestFields
        DEF GrantInv, HandlerInv, Critical, GrantPcs, Asked, SetsGrants, Target
      <3>2. Target(s) # id
        BY <1>7, <3>1 DEF Alone
      <3>. QED  BY <1>2, <2>2, <3>1, <3>2 DEF Alone
    <2>. QED  BY <2>1, <2>3 DEF GrantInv
  <1>. QED  BY <1>0, <1>5, <1>6, <1>10, <1>11

-----------------------------------------------------------------------------
(* Every step of the server preserves the invariant.                       *)
LEMMA AccountStep == AccountInv /\ [ServerNext]_serverVars => AccountInv'
  <1>. SUFFICES ASSUME AccountInv, [ServerNext]_serverVars
                PROVE  AccountInv'
    OBVIOUS
  <1>1. CASE Tick \/ UNCHANGED serverVars
    <2>1. UNCHANGED accountVars
      BY <1>1 DEF Tick, serverVars, vars
    <2>2. TasksStep({}) /\ SessionsStep /\ AccountsRest
      BY <2>1 DEF accountVars, TasksStep, SessionsStep, AccountsRest,
                  AccountInv, AccountShape, TaskShape, SessionShape
    <2>. QED  BY <2>2, Calm
  <1>2. ASSUME NEW t \in Tasks, BeginGrants(t)
        PROVE  AccountInv'
    <2>1. CASE Finish(t)
      <3>1. AccountShape'
        BY <1>2, ShapeStep DEF AccountInv, AccountsNext
      <3>. QED  BY <1>2, <2>1, <3>1, GrantsRefused DEF BeginGrants
    <2>. QED  BY <1>2, <2>1, GrantsBegun
  <1>3. CASE AccountsStep
    BY <1>1, <1>2, <1>3, CalmAccounts, SessionCreated, Resolved, Renewal,
       UserCreated, AdminsRead, RoleSet, UserDeleted, GrantsDeleted,
       GrantsInserted, GrantsCommitted
    DEF AccountsStep, AccountsNext
  <1>. QED  BY <1>1, <1>3, CalmServer

(***************************************************************************)
(* Accounts, sessions and grants stay consistent although every handler    *)
(* checks in one statement and writes in another: an admin is left unless  *)
(* two removals overlapped (update_nav_user, delete_nav_user), nothing     *)
(* outlives its account, and the grants of an account are those of one     *)
(* request (set_nav_user_strategies).                                      *)
(***************************************************************************)
THEOREM AccountsStayConsistent == ServerSpec => []AccountsConsistent
  <1>1. ServerInit => AccountInv
    <2>. SUFFICES ASSUME ServerInit
                  PROVE  AccountInv
      OBVIOUS
    <2>1. /\ DOMAIN tasks = Tasks
          /\ \A t \in Tasks : "pc" \in DOMAIN tasks[t] /\ tasks[t].pc = "idle"
      BY DEF ServerInit, Init, Idle
    <2>2. AccountShape
      BY <2>1, AccountsAssumption
      DEF ServerInit, Init, AccountShape, TaskShape, SessionShape, UserShape,
          GivenOut
    <2>3. Admins # {} /\ NothingOrphaned /\ GrantsReplaced
      BY AccountsAssumption
      DEF ServerInit, Init, Admins, NothingOrphaned, SessionsOf, GrantsReplaced
    <2>. QED
      BY <2>1, <2>2, <2>3
      DEF AccountInv, HandlerInv, AdminInv, OrphanInv, GrantInv, Critical,
          GrantPcs, Removing, At
  <1>2. AccountInv => AccountsConsistent
    BY DEF AccountInv, AdminInv, OrphanInv, GrantInv, AccountsConsistent,
           AdminRemainsWhenSerial
  <1>. QED  BY <1>1, <1>2, AccountStep, PTL DEF ServerSpec
=============================================================================
