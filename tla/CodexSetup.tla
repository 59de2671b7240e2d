----------------------------- MODULE CodexSetup -----------------------------
(***************************************************************************)
(* The transactions `nomad codex setup`, `repair` and `doctor` of codex.py *)
(* on one project, against the user: daemon commands, and editors of the   *)
(* project's and of the user-level configuration, which take no lock.      *)
(*                                                                         *)
(* A daemon operation (status, start, stop, restart, health) is one step:  *)
(* each holds the lock of the project, and Daemon.tla shows what happens   *)
(* inside (OneDaemon: at most one daemon, which the record names).  The    *)
(* commit is one step too: CodexCommit.tla shows what happens inside.      *)
(***************************************************************************)
EXTENDS Naturals, FiniteSets

CONSTANTS
  Txn,         \* the transactions
  Scenarios,   \* which operations they may be: assignments of setup, repair or doctor
  Instance,    \* the uuids of daemons
  NoInstance,
  Url,         \* the endpoints a daemon may have
  User,        \* who starts a daemon that no transaction has started
  MaxEvents,   \* bound: how often the user, an editor or a daemon acts
  Faults       \* what may go wrong

Op == {"setup", "repair", "doctor"}

ASSUME ConstantAssumption ==
  /\ Scenarios \subseteq [Txn -> Op]
  /\ NoInstance \notin Instance
  /\ User \notin Txn
  /\ Url \cap {"missing", "invalid"} = {}
  /\ MaxEvents \in Nat

\* start_error, stop_error, status_error: a daemon operation raises; health_error: so
\* does the health check of a healthy daemon (its status, the token, or 2 seconds);
\* io_error: a configuration or lock file cannot be read or written; read_error: nor
\* what a commit has exchanged; token_error: the token cannot be read;
\* interrupt: an exception that is no Exception; kill: the process dies.
ASSUME FaultAssumption ==
  Faults \subseteq {"start_error", "stop_error", "status_error", "health_error",
                    "io_error", "read_error", "token_error", "interrupt", "kill"}

VARIABLES
  daemon,      \* the recorded daemon of the project, or NoDaemon
  config,      \* the url of Nomad's entry in .codex/config.toml
  global,      \* what the user-level configuration says of the project
  credential,  \* whether the process environment holds the project's token
  op,          \* the operation of each transaction
  pc,          \* its next step
  loc,         \* its local variables
  established, \* history: one returned ok, only transactions have acted since, and
               \* no repair has taken the healthy daemon for an unhealthy one
  events       \* how often the environment has acted

world == <<daemon, config, global, credential>>
bounds == <<established, events>>
vars == <<world, op, pc, loc, bounds>>

\* current: its version is the transaction's; answers: it passes authenticated
\* health checks; by: who has launched it.
Recorded == [id : Instance, status : {"starting", "running", "mismatch"}, url : Url,
             current : BOOLEAN, answers : BOOLEAN, by : Txn \cup {User}]
NoDaemon == [id |-> NoInstance, status |-> "stopped", url |-> "missing",
             current |-> FALSE, answers |-> FALSE, by |-> User]
DaemonState == Recorded \cup {NoDaemon}

Config == Url \cup {"missing", "invalid"}
\* blocking: explicitly untrusted, an entry of the same name or with the same token
\* variable, or a file that cannot be parsed.
Global == {"trusted", "unknown", "blocking"}
Clear == {"trusted", "unknown"}
Part == {"project", "global", "daemon"}

\* snap, gsnap: the configurations it has read; seen: the daemon it was told of;
\* started: started_instance_id; restarted: its daemon_action; fresh: the parts it has
\* looked at and nobody else has changed since (for files, what their digest and
\* identity tell).  History: it has written, or found nothing to change; an interrupt
\* has ended it; it was told that its configuration is not active although it is; a
\* look of a doctor has failed.
Locals == [snap : Config, gsnap : Global, seen : DaemonState,
           started : Instance \cup {NoInstance}, restarted : BOOLEAN,
           fresh : SUBSET Part, written : BOOLEAN, interrupted : BOOLEAN,
           misreported : BOOLEAN, hindered : BOOLEAN]
NoLocals == [snap |-> "missing", gsnap |-> "unknown", seen |-> NoDaemon,
             started |-> NoInstance, restarted |-> FALSE,
             fresh |-> {}, written |-> FALSE, interrupted |-> FALSE,
             misreported |-> FALSE, hindered |-> FALSE]

Rollback == {"rollback_status", "rollback_stop"}
Locked == {"read_project", "read_global", "status", "prepare", "health", "restart",
           "health_again", "check_global", "commit", "postcommit", "token"} \cup Rollback
Doctor == {"doctor_global", "doctor_status", "doctor_health"}
\* not_undone: it failed, and its rollback was impossible; the caller cannot tell.
Ended == {"ok", "manual", "failed", "not_undone", "not_ok", "killed"}
Pc == {"begin"} \cup Locked \cup Doctor \cup Ended

-----------------------------------------------------------------------------
Init ==
  /\ op \in Scenarios
  /\ daemon = NoDaemon
  /\ config \in {"missing"} \cup Url
  /\ global \in Clear
  /\ credential \in BOOLEAN
  /\ pc = [t \in Txn |-> "begin"]
  /\ loc = [t \in Txn |-> NoLocals]
  /\ established = FALSE
  /\ events = 0

Fault(f) == f \in Faults

Goto(t, step) == pc' = [pc EXCEPT ![t] = step]

Changed == {part \in Part : \/ part = "daemon" /\ daemon' # daemon
                            \/ part = "project" /\ config' # config}

\* The locals of t become l; what t changes is no longer fresh for the others.
Set(t, l) ==
  loc' = [u \in Txn |-> IF u = t THEN l ELSE [loc[u] EXCEPT !.fresh = @ \ Changed]]

\* The locals of t once it has looked at a part.
Looked(t, part) == [loc[t] EXCEPT !.fresh = @ \cup {part}]

\* The lock of _codex_transaction_lock is a flock: it goes with the process.
HoldsLock(t) == pc[t] \in Locked

\* The transaction is over, and its locals with it.
End(t, how) ==
  /\ Goto(t, how)
  /\ Set(t, [NoLocals EXCEPT !.written = loc[t].written])

\* The handlers of _ready_daemon and of _configure_codex_locked: a daemon that was
\* started is rolled back unless the configuration is committed.

\* Mutant: an error after the commit is treated as one before it.
Fail_Always(t, committed) ==
  IF loc[t].started # NoInstance
  THEN Goto(t, "rollback_status") /\ Set(t, loc[t])
  ELSE End(t, "failed")

\* Mutant: the daemon on record is taken for the transaction's.
Fail_Recorded(t, committed) ==
  IF daemon # NoDaemon /\ ~committed
  THEN Goto(t, "rollback_status") /\ Set(t, [loc[t] EXCEPT !.started = daemon.id])
  ELSE End(t, "failed")

\* Mutant: the daemon of a failed transaction is left alone.
Fail_NoRollback(t, committed) == End(t, "failed")

Fail(t, committed) ==
  IF loc[t].started # NoInstance /\ ~committed
  THEN Goto(t, "rollback_status") /\ Set(t, loc[t])
  ELSE End(t, "failed")

\* uuid4 makes an identifier nobody has seen; which one makes no difference.
Unseen(i) == i # daemon.id /\ \A t \in Txn : i \notin {loc[t].seen.id, loc[t].started}
FreshId(i) == Unseen(i) /\ i = CHOOSE j \in Instance : Unseen(j)

\* Mutant: the endpoint is not recorded.
Launched_NoUrl(i, url, current, by) ==
  [id |-> i, status |-> "running", url |-> "missing", current |-> current,
   answers |-> TRUE, by |-> by]

Launched(i, url, current, by) ==
  [id |-> i, status |-> "running", url |-> url, current |-> current,
   answers |-> TRUE, by |-> by]

\* status_daemon promotes a starting daemon that answers.
Promoted(d) ==
  IF d.status = "starting" /\ d.answers THEN [d EXCEPT !.status = "running"] ELSE d

\* What _authenticated_health finds of the validated state d: the same process runs,
\* with its url and version, and answers.
Healthy(d) == daemon.id = d.id /\ daemon.status = "running" /\ daemon.answers

\* A status that fails may have promoted the daemon before.
StatusFails(fault) == Fault(fault) /\ daemon' \in {daemon, Promoted(daemon)}

\* _authenticated_health: health_daemon takes a status first, and may fail anyway.
HealthCall(d, ok) ==
  \/ ok = Healthy(d) /\ daemon' = Promoted(daemon)
  \/ ~ok /\ StatusFails("health_error")

-----------------------------------------------------------------------------
(* Up to the first change: what can be refused early is refused here       *)

Begin(t) ==
  /\ pc[t] = "begin" /\ op[t] # "doctor"
  /\ UNCHANGED <<world, bounds>>
  /\ \/ /\ \A u \in Txn : ~HoldsLock(u)
        /\ Goto(t, "read_project")
        /\ UNCHANGED loc
     \/ Fault("io_error") /\ Fail(t, FALSE)   \* the lock file cannot be used

ReadProjectConfig(t) ==
  /\ pc[t] = "read_project"
  /\ UNCHANGED <<world, bounds>>
  /\ \/ /\ config # "invalid"
        /\ Set(t, [Looked(t, "project") EXCEPT !.snap = config])
        /\ Goto(t, "read_global")
     \/ config = "invalid" /\ Fail(t, FALSE)
     \/ Fault("io_error") /\ Fail(t, FALSE)

ReadGlobalConfig(t) ==
  /\ pc[t] = "read_global"
  /\ UNCHANGED <<world, bounds>>
  /\ \/ /\ global \in Clear
        /\ Set(t, [Looked(t, "global") EXCEPT !.gsnap = global])
        /\ Goto(t, "status")
     \/ (global \notin Clear \/ Fault("io_error")) /\ Fail(t, FALSE)

-----------------------------------------------------------------------------
(* _ready_daemon                                                           *)

\* What t is told by status_daemon, or by a start that finds a daemon.
Find(t, next) ==
  /\ daemon' = Promoted(daemon)
  /\ Set(t, [Looked(t, "daemon") EXCEPT !.seen = daemon'])
  /\ Goto(t, next)

DaemonStatus(t) ==
  /\ pc[t] = "status"
  /\ UNCHANGED <<config, global, credential, bounds>>
  /\ \/ Find(t, "prepare")
     \/ StatusFails("status_error") /\ Fail(t, FALSE)

\* start_daemon: a daemon that runs by now is reused, and a start that fails leaves
\* none.  One that is still starting is refused by _validate_daemon_state.

StartDaemon(t) ==
  /\ pc[t] = "prepare" /\ loc[t].seen.status = "stopped"
  /\ UNCHANGED <<config, global, credential, bounds>>
  /\ \/ Promoted(daemon).status = "running" /\ Find(t, "health")
     \/ Promoted(daemon).status = "starting" /\ UNCHANGED daemon /\ Fail(t, FALSE)
     \/ /\ daemon.status \in {"stopped", "mismatch"}
        /\ \E i \in Instance, url \in Url :
             /\ FreshId(i)
             /\ daemon' = Launched(i, url, TRUE, t)
             /\ Set(t, [Looked(t, "daemon") EXCEPT !.seen = daemon', !.started = i])
        /\ Goto(t, "health")
     \/ /\ Fault("start_error")
        /\ daemon' = IF daemon.status = "mismatch" THEN NoDaemon ELSE daemon
        /\ Fail(t, FALSE)

ReuseDaemon(t) ==
  /\ pc[t] = "prepare" /\ loc[t].seen.status = "running"
  /\ Goto(t, "health")
  /\ UNCHANGED <<world, loc, bounds>>

\* Another process has the recorded pid, or the daemon is starting and this is a setup.
RefuseDaemon(t) ==
  /\ pc[t] = "prepare"
  /\ \/ loc[t].seen.status = "mismatch"
     \/ loc[t].seen.status = "starting" /\ op[t] = "setup"
  /\ UNCHANGED <<world, bounds>>
  /\ Fail(t, FALSE)

\* restart_daemon keeps the endpoint of what it stops.  It may fail before it has
\* stopped anything, and after; it does not stop a process that is not the daemon.
\* started_instance_id stays what it was.
Restart(t, next) ==
  \/ /\ daemon.status # "mismatch"
     /\ \E i \in Instance, url \in Url :
          /\ FreshId(i)
          /\ daemon # NoDaemon => url = daemon.url
          /\ daemon' = Launched(i, url, TRUE, t)
          /\ Set(t, [Looked(t, "daemon") EXCEPT !.seen = daemon', !.restarted = TRUE])
     /\ Goto(t, next)
  \/ /\ Fault("stop_error") \/ daemon.status = "mismatch"
     /\ UNCHANGED daemon
     /\ Fail(t, FALSE)
  \/ /\ Fault("start_error") /\ daemon.status # "mismatch"
     /\ daemon' = NoDaemon
     /\ Fail(t, FALSE)

RestartStarting(t) ==
  /\ pc[t] = "prepare" /\ loc[t].seen.status = "starting" /\ op[t] = "repair"
  /\ UNCHANGED <<config, global, credential, bounds>>
  /\ Restart(t, "health")

\* A repair restarts, once, a daemon that is unhealthy, or taken for it, or of another
\* version.

CheckHealth(t) ==
  LET l == loc[t]
      mayRestart == op[t] = "repair" /\ ~l.restarted
  IN
  /\ pc[t] = "health"
  /\ UNCHANGED <<config, global, credential, events>>
  /\ \E ok \in BOOLEAN :
       /\ HealthCall(l.seen, ok)
       /\ \/ /\ ok /\ l.seen.current
             /\ Goto(t, "check_global")
             /\ Set(t, l)
             /\ UNCHANGED established
          \/ /\ ~(ok /\ l.seen.current) /\ mayRestart
             /\ Goto(t, "restart")
             /\ Set(t, l)
             /\ established' = (established /\ ~(Healthy(l.seen) /\ l.seen.current))
          \/ /\ ~(ok /\ l.seen.current) /\ ~mayRestart
             /\ Fail(t, FALSE)
             /\ UNCHANGED established

RestartUnhealthy(t) ==
  /\ pc[t] = "restart"
  /\ UNCHANGED <<config, global, credential, bounds>>
  /\ Restart(t, "health_again")

CheckHealthAgain(t) ==
  /\ pc[t] = "health_again"
  /\ UNCHANGED <<config, global, credential, bounds>>
  /\ \/ /\ HealthCall(loc[t].seen, TRUE)
        /\ Goto(t, "check_global")
        /\ Set(t, loc[t])
     \/ HealthCall(loc[t].seen, FALSE) /\ Fail(t, FALSE)

-----------------------------------------------------------------------------
(* _commit_project_configuration, and the token                            *)

CheckGlobalCurrent(t) ==
  /\ pc[t] = "check_global"
  /\ UNCHANGED <<world, bounds>>
  /\ \/ "global" \in loc[t].fresh /\ Goto(t, "commit") /\ UNCHANGED loc
     \/ ("global" \notin loc[t].fresh \/ Fault("io_error")) /\ Fail(t, FALSE)

\* _update_project_config: nothing is written when the entry is right already.  A
\* commit that fails may have put the configuration in place, also over what an
\* editor has saved meanwhile, and says so; it says the contrary when it could not
\* read what it has exchanged.

CommitProjectConfig(t) ==
  /\ pc[t] = "commit"
  /\ UNCHANGED <<daemon, global, credential, bounds>>
  /\ \/ /\ "project" \in loc[t].fresh
        /\ config' = loc[t].seen.url
        /\ Set(t, [Looked(t, "project") EXCEPT !.written = TRUE])
        /\ Goto(t, "postcommit")
     \/ /\ "project" \notin loc[t].fresh \/ Fault("io_error")
        /\ UNCHANGED config
        /\ Fail(t, FALSE)
     \/ /\ Fault("io_error") /\ loc[t].snap # loc[t].seen.url
        /\ config' = loc[t].seen.url
        /\ Goto(t, "failed")
        /\ Set(t, [NoLocals EXCEPT !.written = TRUE])
     \/ /\ Fault("read_error") /\ loc[t].snap # loc[t].seen.url
        /\ config' = loc[t].seen.url
        /\ IF loc[t].started # NoInstance
           THEN /\ Goto(t, "rollback_status")
                /\ Set(t, [loc[t] EXCEPT !.written = TRUE, !.misreported = TRUE])
           ELSE /\ Goto(t, "failed")
                /\ Set(t, [NoLocals EXCEPT !.written = TRUE])

\* Mutant: the first analysis of the user-level file is taken for the last.
PostcommitGlobal_Skipped(t) ==
  /\ pc[t] = "postcommit"
  /\ UNCHANGED <<world, bounds>>
  /\ Set(t, Looked(t, "global"))
  /\ Goto(t, "token")

PostcommitGlobal(t) ==
  /\ pc[t] = "postcommit"
  /\ UNCHANGED <<world, bounds>>
  /\ \/ /\ global \in Clear
        /\ Set(t, [Looked(t, "global") EXCEPT !.gsnap = global])
        /\ Goto(t, "token")
     \/ (global \notin Clear \/ Fault("io_error")) /\ Fail(t, TRUE)

ConfigureToken(t) ==
  LET ok == credential /\ loc[t].gsnap = "trusted" IN
  /\ pc[t] = "token"
  /\ UNCHANGED <<world, events>>
  /\ \/ /\ Goto(t, IF ok THEN "ok" ELSE "manual")
        /\ established' = (established \/ (ok /\ loc[t].fresh = Part))
        /\ UNCHANGED loc
     \/ /\ Fault("token_error")
        /\ Fail(t, TRUE)
        /\ UNCHANGED established

-----------------------------------------------------------------------------
(* _rollback_started_daemon                                                *)

RollbackStatus(t) ==
  /\ pc[t] = "rollback_status"
  /\ UNCHANGED <<config, global, credential, bounds>>
  /\ \/ /\ daemon' = Promoted(daemon)
        /\ \/ /\ daemon.id = loc[t].started /\ daemon.status # "mismatch"
              /\ Goto(t, "rollback_stop")
              /\ Set(t, loc[t])
           \/ /\ daemon.id # loc[t].started \/ daemon.status = "mismatch"
              /\ End(t, "failed")
     \/ StatusFails("status_error") /\ End(t, "not_undone")

\* stop_daemon with expected_instance_id; what it raises is ignored.

\* Mutant: the instance is not compared again under the lock.
RollbackStop_Unchecked(t) ==
  /\ pc[t] = "rollback_stop"
  /\ UNCHANGED <<config, global, credential, bounds>>
  /\ daemon' = NoDaemon
  /\ End(t, "failed")

RollbackStop(t) ==
  /\ pc[t] = "rollback_stop"
  /\ UNCHANGED <<config, global, credential, bounds>>
  /\ \/ /\ daemon.id = loc[t].started /\ daemon.status # "mismatch"
        /\ daemon' = NoDaemon
        /\ End(t, "failed")
     \/ /\ daemon.id # loc[t].started \/ daemon.status = "mismatch"
        /\ UNCHANGED daemon
        /\ End(t, "failed")
     \/ Fault("stop_error") /\ UNCHANGED daemon /\ End(t, "not_undone")

-----------------------------------------------------------------------------
(* doctor_codex: it takes no lock                                          *)

\* What fails is reported, and the doctor goes on.
Hindered(t) == [loc[t] EXCEPT !.hindered = TRUE]
EndHindered(t) == Goto(t, "not_ok") /\ Set(t, [NoLocals EXCEPT !.hindered = TRUE])

DoctorProject(t) ==
  /\ pc[t] = "begin" /\ op[t] = "doctor"
  /\ UNCHANGED <<world, bounds>>
  /\ \/ Set(t, [Looked(t, "project") EXCEPT !.snap = config])
     \/ Fault("io_error") /\ Set(t, [Hindered(t) EXCEPT !.snap = "invalid"])
  /\ Goto(t, "doctor_global")

DoctorGlobal(t) ==
  /\ pc[t] = "doctor_global"
  /\ UNCHANGED <<world, bounds>>
  /\ \/ Set(t, [Looked(t, "global") EXCEPT !.gsnap = global])
     \/ Fault("io_error") /\ Set(t, [Hindered(t) EXCEPT !.gsnap = "blocking"])
  /\ Goto(t, "doctor_status")

DoctorStatus(t) ==
  /\ pc[t] = "doctor_status"
  /\ UNCHANGED <<config, global, credential, bounds>>
  /\ \/ Find(t, IF Promoted(daemon).status = "running" THEN "doctor_health" ELSE "not_ok")
     \/ StatusFails("status_error") /\ EndHindered(t)

\* Mutant: a configuration that names any daemon will do.
DoctorHealth_AnyUrl(t) ==
  LET l == loc[t]
      right == /\ l.seen.current /\ l.snap \in Url
               /\ l.gsnap = "trusted" /\ credential
  IN
  /\ pc[t] = "doctor_health"
  /\ UNCHANGED <<config, global, credential, bounds>>
  /\ daemon' = Promoted(daemon)
  /\ Goto(t, IF Healthy(l.seen) /\ right THEN "ok" ELSE "not_ok")
  /\ Set(t, l)

\* The token is read only if the daemon is healthy.
DoctorHealth(t) ==
  LET l == loc[t]
      right == /\ l.seen.current /\ l.snap = l.seen.url
               /\ l.gsnap = "trusted" /\ credential
  IN
  /\ pc[t] = "doctor_health"
  /\ UNCHANGED <<config, global, credential, bounds>>
  /\ \/ /\ daemon' = Promoted(daemon)
        /\ Goto(t, IF Healthy(l.seen) /\ right THEN "ok" ELSE "not_ok")
        /\ Set(t, l)
     \/ /\ StatusFails("health_error") \/ (Healthy(l.seen) /\ StatusFails("token_error"))
        /\ EndHindered(t)

-----------------------------------------------------------------------------
(* Ends that are no returns, and the environment                           *)

\* Inside the two handlers the daemon is rolled back, unless config_committed is set:
\* it is not between the commit and the return of the check that follows it.
Interrupt(t) ==
  /\ Fault("interrupt")
  /\ pc[t] \in Locked
  /\ UNCHANGED <<world, bounds>>
  /\ \/ pc[t] \in Rollback /\ End(t, "not_undone")
     \/ /\ pc[t] \notin Rollback
        /\ loc[t].started = NoInstance \/ pc[t] = "token"
        /\ End(t, "failed")
     \/ /\ pc[t] \notin Rollback \cup {"token"} /\ loc[t].started # NoInstance
        /\ Goto(t, "rollback_status")
        /\ Set(t, [loc[t] EXCEPT !.interrupted = TRUE])

Kill(t) ==
  /\ Fault("kill")
  /\ pc[t] \in Locked
  /\ UNCHANGED <<world, bounds>>
  /\ End(t, "killed")

Event(part) ==
  /\ events < MaxEvents
  /\ events' = events + 1
  /\ loc' = [t \in Txn |-> [loc[t] EXCEPT !.fresh = @ \ {part}]]
  /\ established' = FALSE
  /\ UNCHANGED <<credential, pc>>

\* The user starts a daemon, of this version or with an older Nomad; a start that is
\* killed leaves it starting.
UserStart ==
  /\ daemon.status \in {"stopped", "mismatch"}
  /\ \E i \in Instance, url \in Url, current \in BOOLEAN, status \in {"starting", "running"} :
       /\ FreshId(i)
       /\ daemon' = [Launched(i, url, current, User) EXCEPT !.status = status]
  /\ Event("daemon")
  /\ UNCHANGED <<config, global>>

UserStop ==
  /\ daemon.status \in {"starting", "running"}
  /\ daemon' = NoDaemon
  /\ Event("daemon")
  /\ UNCHANGED <<config, global>>

UserRestart ==
  /\ daemon.status \in {"starting", "running"}
  /\ \E i \in Instance :
       FreshId(i) /\ daemon' = Launched(i, daemon.url, TRUE, User)
  /\ Event("daemon")
  /\ UNCHANGED <<config, global>>

\* It hangs or recovers; it dies, and another process may get its pid.
DaemonHangs ==
  /\ daemon.status \in {"starting", "running"}
  /\ daemon' = [daemon EXCEPT !.answers = ~@]
  /\ Event("daemon")
  /\ UNCHANGED <<config, global>>

DaemonDies ==
  /\ daemon # NoDaemon
  /\ daemon' \in {NoDaemon, [daemon EXCEPT !.status = "mismatch", !.answers = FALSE]}
  /\ Event("daemon")
  /\ UNCHANGED <<config, global>>

EditProject ==
  /\ config' \in Config
  /\ Event("project")
  /\ UNCHANGED <<daemon, global>>

EditGlobal ==
  /\ global' \in Global
  /\ Event("global")
  /\ UNCHANGED <<daemon, config>>

-----------------------------------------------------------------------------
TxnStep(t) ==
  \/ Begin(t) \/ ReadProjectConfig(t) \/ ReadGlobalConfig(t)
  \/ DaemonStatus(t) \/ StartDaemon(t) \/ ReuseDaemon(t) \/ RefuseDaemon(t)
  \/ RestartStarting(t) \/ CheckHealth(t) \/ RestartUnhealthy(t) \/ CheckHealthAgain(t)
  \/ CheckGlobalCurrent(t) \/ CommitProjectConfig(t) \/ PostcommitGlobal(t)
  \/ ConfigureToken(t) \/ RollbackStatus(t) \/ RollbackStop(t)
  \/ DoctorProject(t) \/ DoctorGlobal(t) \/ DoctorStatus(t) \/ DoctorHealth(t)

Environment ==
  \/ UserStart \/ UserStop \/ UserRestart \/ DaemonHangs \/ DaemonDies
  \/ EditProject \/ EditGlobal

Next ==
  /\ Environment \/ \E t \in Txn : TxnStep(t) \/ Interrupt(t) \/ Kill(t)
  /\ UNCHANGED op

Spec == Init /\ [][Next]_vars

-----------------------------------------------------------------------------
(* Properties                                                              *)

\* The types of the shared state and of the transactions' variables.
TypeOK ==
  /\ daemon \in DaemonState
  /\ config \in Config /\ global \in Global /\ credential \in BOOLEAN
  /\ op \in Scenarios
  /\ pc \in [Txn -> Pc]
  /\ loc \in [Txn -> Locals]
  /\ established \in BOOLEAN /\ events \in 0 .. MaxEvents

\* What a setup is for: Codex finds a healthy daemon of this version.
Connected ==
  /\ daemon.status = "running" /\ daemon.answers /\ daemon.current
  /\ config = daemon.url
  /\ global = "trusted" /\ credential

\* A rollback stops nothing but a daemon that its own transaction has launched, even
\* when the user has put another daemon in its place.
RollbackSparesOthers ==
  [][\A t \in Txn : pc[t] = "rollback_stop" /\ pc'[t] # pc[t] /\ daemon' # daemon
                    => daemon.by = t]_vars

\* A transaction whose configuration is in place does not stop the daemon that this
\* configuration names, whatever fails afterwards.  There are two exceptions, both of
\* which the code has: an interrupt right after the commit, and a commit that could
\* not read what it had exchanged and says that its configuration is not active.
CommittedIsNotRolledBack ==
  \A t \in Txn : pc[t] \in Rollback /\ loc[t].written
                 => loc[t].interrupted \/ loc[t].misreported

\* A setup that fails and has not committed leaves no daemon of its own, unless the
\* rollback itself was impossible.
FailedSetupIsUndone ==
  \A t \in Txn :
    op[t] = "setup" /\ pc[t] = "failed" /\ ~loc[t].written
      => daemon.by # t \/ daemon.status = "mismatch"

\* When a setup or repair returns, then of what nobody has changed since it looked
\* everything is as its result says: the user-level file does not block, the
\* configuration names the daemon, and the daemon is of this version.
ResultHolds ==
  \A t \in Txn : op[t] # "doctor" /\ pc[t] \in {"ok", "manual"} =>
    /\ "global" \in loc[t].fresh => global \in Clear /\ (pc[t] = "ok" => global = "trusted")
    /\ "project" \in loc[t].fresh => config = loc[t].seen.url
    /\ "daemon" \in loc[t].fresh => daemon = loc[t].seen /\ daemon.current /\ daemon.answers

\* What one transaction has established no other one takes down again, be it a setup
\* that fails, a repair or a doctor.  The exception is a repair whose health check of
\* the healthy daemon fails: it restarts the daemon, and that may fail.  A setup or
\* a doctor whose health check fails is no exception.
OthersKeepIt == established => Connected

\* A doctor all of whose looks succeed, and whom nobody disturbs, says ok exactly when
\* a setup's purpose is achieved; one that could not look at something never says ok.
DoctorAgrees ==
  \A t \in Txn : op[t] = "doctor" =>
    /\ pc[t] = "ok" => ~loc[t].hindered /\ (loc[t].fresh = Part => Connected)
    /\ pc[t] = "not_ok" /\ ~loc[t].hindered /\ loc[t].fresh = Part => ~Connected
=============================================================================
