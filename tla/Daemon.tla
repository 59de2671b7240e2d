------------------------------- MODULE Daemon -------------------------------
(***************************************************************************)
(* The per-project daemon lifecycle of src/nomad/daemon.py.                *)
(*                                                                         *)
(* Two kinds of process share a few files of the daemon directory:         *)
(*                                                                         *)
(*   - a CLI invocation ("nomad daemon start | stop | status | restart"),  *)
(*     which runs one operation while it holds the project lock, and       *)
(*   - the child it may launch ("nomad serve --daemon-id ..."), which      *)
(*     claims the launching state under the claim lock, binds its port and *)
(*     serves until it exits.                                              *)
(*                                                                         *)
(* An invocation launches at most one child, so the fresh uuid of a launch *)
(* is represented by the invocation itself: instance c is the child of     *)
(* invocation c, and its pid is represented by c too.                      *)
(*                                                                         *)
(* All locks are flock locks, which the kernel drops when their process    *)
(* dies.  A lock is therefore no variable: it is held by the processes     *)
(* that are at a step between the acquisition and the release.             *)
(***************************************************************************)
EXTENDS Naturals, FiniteSets

CONSTANTS
  Cli,          \* the CLI invocations, and the instances they may launch
  NoCli,        \* no instance
  Project,      \* the projects, each with its own state, lock and token
  ProjectOf,    \* the project each invocation works on
  NPorts,       \* the size of the private port range
  Outside,      \* ports outside the range, for which only "--port" can ask
  NoPort,       \* no port
  DefaultPort,  \* the hash of the project's path, as an offset in the range
  Busy,         \* ports on which an unrelated service listens
  Request,      \* what "--port" of an invocation may be
  Expect,       \* what expected_instance_id of a stop may be
  Faults        \* the faults of the environment that may happen

Port == 0 .. NPorts - 1
AnyPort == Port \cup Outside
FaultKind == {"cli_crash", "pid_reuse", "ps_timeout", "popen_interrupt"}

ASSUME CliAssumption == NoCli \notin Cli /\ ProjectOf \in [Cli -> Project]
ASSUME PortAssumption ==
  /\ NPorts \in Nat \ {0}
  /\ NoPort \notin AnyPort
  /\ DefaultPort \in [Project -> Port]
  /\ Busy \subseteq AnyPort
  /\ Request \subseteq AnyPort \cup {NoPort}
ASSUME ChoiceAssumption ==
  /\ Expect \subseteq Cli \cup {NoCli}
  /\ Faults \subseteq FaultKind

VARIABLES
  \* the files of the daemon directory, per project
  state,     \* the lifecycle state file: whose it is, and its lifecycle
  profile,   \* the port profile
  token,     \* the token file: absent, torn (created, not written), ok
  \* the CLI invocations
  pc,        \* the step the invocation is at
  op,        \* the operation it runs
  want,      \* the port it asks for
  seen,      \* its copy of the state file
  picked,    \* the port selected for its child
  res,       \* its result
  \* the child processes
  proc,      \* what runs under the child's pid
  answered   \* history: the children that have answered an authenticated health call

files == <<state, profile, token>>
locals == <<want, seen, picked, answered>>
vars == <<state, profile, token, pc, op, want, seen, picked, res, proc, answered>>

Life == {"launching", "starting", "running"}
NoState == [inst |-> NoCli, life |-> "none"]
State == {NoState} \cup [inst : Cli, life : Life]
Record(i, l) == [inst |-> i, life |-> l]

Op == {"status", "stop", "start", "restart"}
Result == {"none", "stopped", "starting", "running", "mismatch", "refused", "error", "failed"}
Token == {"absent", "torn", "ok"}
Alive == {"booting", "claiming", "claimed", "serving"}
Proc == Alive \cup {"none", "dead", "reused"}

\* Steps of _launch_daemon_locked in which the child's Popen object is held.
Launched == {"claim", "ready", "verify", "persist_port", "persist_state", "terminate"}
\* Steps under the port allocation lock.
PortSteps == {"select", "launch", "token", "token_write", "popen", "remove"} \cup Launched
\* Steps that act on the copy of the state the invocation has read.
RecordSteps ==
  {"poll", "claim_lock", "recover", "alive", "owned", "recheck", "health",
   "promote_port", "promote_state", "signal", "await_exit"}
\* Steps under the project lock.
ProjectSteps == RecordSteps \cup PortSteps \cup {"read", "ports", "return"}
Pc == ProjectSteps \cup {"waiting", "done", "crashed"}

-----------------------------------------------------------------------------
(* Locks, and what a process can observe of the others.                    *)

\* Mutants: the project lock dropped before the launch, the port lock dropped
\* after the selection, a claim lock that outlives a killed command.
HoldsProjectLock_UntilLaunch(c) == pc[c] \in ProjectSteps \ PortSteps
HoldsPortLock_WhileSelecting(c) == pc[c] = "select"
HoldsClaimLock_Leaked(c) == pc[c] \in {"recover", "crashed"}

HoldsProjectLock(c) == pc[c] \in ProjectSteps
HoldsPortLock(c) == pc[c] \in PortSteps
HoldsClaimLock(c) == pc[c] = "recover"

ClaimLockFree(p) ==
  \A c \in Cli : ProjectOf[c] = p => ~HoldsClaimLock(c) /\ proc[c] # "claiming"

\* _pid_is_alive: some process has the pid.
PidAlive(i) == proc[i] \in Alive \cup {"reused"}

\* _process_owns_instance: that process is the instance.  ps may time out.
OwnedOutcomes(i) ==
  {proc[i] \in Alive} \cup (IF "ps_timeout" \in Faults THEN {FALSE} ELSE {})

\* _can_connect
InUse(q) == q \in Busy \/ \E i \in Cli : proc[i] = "serving" /\ picked[i] = q

\* _reserved_profile_ports
Reserved(p) == {profile[q] : q \in Project \ {p}} \ {NoPort}

\* Mutant: the scan does not wrap around.
ScanPorts_NoWrap(p) ==
  LET Nth(k) == DefaultPort[p] + k
      Free(k) == Nth(k) \notin Reserved(p) /\ ~InUse(Nth(k))
  IN  {Nth(k) : k \in {k \in Port : Free(k) /\ \A j \in Port : j < k => ~Free(j)}}

\* The scan of _select_start_port from the default port upwards, modulo the range.
ScanPorts(p) ==
  LET Nth(k) == (DefaultPort[p] + k) % NPorts
      Free(k) == Nth(k) \notin Reserved(p) /\ ~InUse(Nth(k))
  IN  {Nth(k) : k \in {k \in Port : Free(k) /\ \A j \in Port : j < k => ~Free(j)}}

\* The ports _select_start_port may return: one, or none when it raises.
StartPorts(p, requested) ==
  IF requested # NoPort
  THEN {requested} \ (Reserved(p) \cup {q \in AnyPort : InUse(q)})
  ELSE IF profile[p] # NoPort
       THEN {profile[p]} \ {q \in AnyPort : InUse(q)}
       ELSE ScanPorts(p)

-----------------------------------------------------------------------------
Init ==
  /\ state = [p \in Project |-> NoState]
  /\ profile = [p \in Project |-> NoPort]
  /\ token = [p \in Project |-> "absent"]
  /\ pc = [c \in Cli |-> "waiting"]
  /\ op \in [Cli -> Op]
  /\ want \in [Cli -> Request \cup {NoPort}]
  /\ \A c \in Cli : op[c] # "start" => want[c] = NoPort
  /\ seen = [c \in Cli |-> NoState]
  /\ picked = [c \in Cli |-> NoPort]
  /\ res = [c \in Cli |-> "none"]
  /\ proc = [c \in Cli |-> "none"]
  /\ answered = {}

Goto(c, step) == pc' = [pc EXCEPT ![c] = step]
SetState(c, s) == state' = [state EXCEPT ![ProjectOf[c]] = s]
SetProfile(c, q) == profile' = [profile EXCEPT ![ProjectOf[c]] = q]
SetToken(c, t) == token' = [token EXCEPT ![ProjectOf[c]] = t]
SetProc(i, s) == proc' = [proc EXCEPT ![i] = s]
See(c, s) == seen' = [seen EXCEPT ![c] = s]
Return(c, r) == Goto(c, "return") /\ res' = [res EXCEPT ![c] = r]

\* The caller goes on as it does when there is no state (any more).
Absent(c) ==
  \/ /\ op[c] \in {"status", "stop"}
     /\ Return(c, "stopped")
     /\ UNCHANGED op
  \/ /\ op[c] = "restart"
     /\ op' = [op EXCEPT ![c] = "start"]
     /\ Goto(c, "read")
     /\ UNCHANGED res
  \/ /\ op[c] = "start"
     /\ Goto(c, "ports")
     /\ UNCHANGED <<op, res>>

-----------------------------------------------------------------------------
(* Every operation: take the project lock, read the state.                 *)

AcquireProjectLock(c) ==
  /\ pc[c] = "waiting"
  /\ \A d \in Cli : ProjectOf[d] = ProjectOf[c] => ~HoldsProjectLock(d)
  /\ Goto(c, "read")
  /\ UNCHANGED <<files, op, locals, res, proc>>

ReadState(c) ==
  LET s == state[ProjectOf[c]] IN
  /\ pc[c] = "read"
  /\ See(c, s)
  /\ want' = IF op[c] = "restart" /\ s # NoState
             THEN [want EXCEPT ![c] = picked[s.inst]] ELSE want
  /\ \/ s = NoState /\ Absent(c)
     \/ s.life = "launching" /\ Goto(c, "poll") /\ UNCHANGED <<op, res>>
     \/ s.life \in {"starting", "running"} /\ Goto(c, "alive") /\ UNCHANGED <<op, res>>
  /\ UNCHANGED <<files, picked, proc, answered>>

\* _recover_launching_state waits for a change without the claim lock ...
PollLaunching(c) ==
  LET s == state[ProjectOf[c]] IN
  /\ pc[c] = "poll"
  /\ \/ s = NoState /\ Absent(c) /\ UNCHANGED seen
     \/ /\ s # NoState /\ (s.inst # seen[c].inst \/ s.life # "launching")
        /\ See(c, s)
        /\ Goto(c, "alive")
        /\ UNCHANGED <<op, res>>
     \/ Goto(c, "claim_lock") /\ UNCHANGED <<op, res, seen>>
  /\ UNCHANGED <<files, want, picked, proc, answered>>

\* ... and when none came in time, decides under the claim lock.
TakeClaimLock(c) ==
  /\ pc[c] = "claim_lock"
  /\ ClaimLockFree(ProjectOf[c])
  /\ Goto(c, "recover")
  /\ UNCHANGED <<files, op, locals, res, proc>>

\* Mutant: the state is removed without being read again under the claim lock.
RecoverLaunching_Blind(c) ==
  /\ pc[c] = "recover"
  /\ SetState(c, NoState)
  /\ Absent(c)
  /\ UNCHANGED <<profile, token, locals, proc>>

RecoverLaunching(c) ==
  LET s == state[ProjectOf[c]] IN
  /\ pc[c] = "recover"
  /\ \/ s = NoState /\ Absent(c) /\ UNCHANGED <<state, seen>>
     \/ /\ s = Record(seen[c].inst, "launching")
        /\ SetState(c, NoState)
        /\ Absent(c)
        /\ UNCHANGED seen
     \/ /\ s # NoState /\ s # Record(seen[c].inst, "launching")
        /\ See(c, s)
        /\ Goto(c, "alive")
        /\ UNCHANGED <<state, op, res>>
  /\ UNCHANGED <<profile, token, want, picked, proc, answered>>

\* A dead instance is forgotten; a stop of another instance than expected fails.
CheckAlive(c) ==
  /\ pc[c] = "alive"
  /\ \/ /\ op[c] = "stop"
        /\ \E e \in Expect \ {NoCli} : e # seen[c].inst
        /\ Return(c, "refused")
        /\ UNCHANGED <<state, op>>
     \/ /\ op[c] = "stop" => \E e \in Expect : e \in {NoCli, seen[c].inst}
        /\ \/ /\ PidAlive(seen[c].inst)
              /\ Goto(c, "owned")
              /\ UNCHANGED <<state, op, res>>
           \/ /\ ~PidAlive(seen[c].inst)
              /\ SetState(c, NoState)
              /\ Absent(c)
  /\ UNCHANGED <<profile, token, locals, proc>>

CheckOwned(c) ==
  /\ pc[c] = "owned"
  /\ \E owned \in OwnedOutcomes(seen[c].inst) :
       \/ /\ owned
          /\ Goto(c, IF op[c] \in {"stop", "restart"} THEN "signal" ELSE "health")
          /\ UNCHANGED <<state, res>>
       \/ /\ ~owned
          /\ \/ /\ op[c] = "status"
                /\ Return(c, "mismatch")
                /\ UNCHANGED state
             \/ /\ op[c] \in {"stop", "restart"}
                /\ Goto(c, "recheck")
                /\ UNCHANGED <<state, res>>
             \/ /\ op[c] = "start"
                /\ SetState(c, NoState)
                /\ Goto(c, "ports")
                /\ UNCHANGED res
  /\ UNCHANGED <<profile, token, op, locals, proc>>

-----------------------------------------------------------------------------
(* start and status: _recover_starting_state                               *)

\* Mutant: a starting daemon is promoted without a health call.
RecoverStarting_NoHealth(c) ==
  /\ pc[c] = "health"
  /\ \/ seen[c].life = "starting" /\ Goto(c, "promote_port") /\ UNCHANGED res
     \/ seen[c].life = "running" /\ Return(c, "running")
  /\ UNCHANGED <<files, op, locals, proc>>

RecoverStarting(c) ==
  LET i == seen[c].inst IN
  /\ pc[c] = "health"
  /\ \/ /\ seen[c].life = "starting"
        /\ \/ /\ token[ProjectOf[c]] = "ok" /\ proc[i] = "serving"
              /\ answered' = answered \cup {i}
              /\ Goto(c, "promote_port")
              /\ UNCHANGED res
           \/ Return(c, "starting") /\ UNCHANGED answered
        /\ UNCHANGED profile
     \/ /\ seen[c].life = "running"
        /\ \/ op[c] = "start" /\ SetProfile(c, picked[i])
           \/ op[c] = "status" /\ UNCHANGED profile
        /\ Return(c, "running")
        /\ UNCHANGED answered
     \/ /\ seen[c].life = "running" /\ op[c] = "start"   \* the write fails
        /\ Return(c, "error")
        /\ UNCHANGED <<profile, answered>>
  /\ UNCHANGED <<state, token, op, want, seen, picked, proc>>

\* A write replaces the file or fails; it may also be reported as failed when the
\* file was replaced and only its durability is uncertain.

\* Mutant: the state is promoted before the port is reserved.
PromotePort_StateFirst(c) ==
  /\ pc[c] = "promote_port"
  /\ SetState(c, Record(seen[c].inst, "running"))
  /\ Goto(c, "promote_state")
  /\ UNCHANGED <<profile, token, op, locals, res, proc>>

PromotePort(c) ==
  /\ pc[c] = "promote_port"
  /\ \/ /\ SetProfile(c, picked[seen[c].inst])
        /\ Goto(c, "promote_state")
        /\ UNCHANGED res
     \/ Return(c, "error") /\ UNCHANGED profile
  /\ UNCHANGED <<state, token, op, locals, proc>>

PromoteState(c) ==
  /\ pc[c] = "promote_state"
  /\ \/ /\ SetState(c, Record(seen[c].inst, "running"))
        /\ \E r \in {"running", "error"} : Return(c, r)
     \/ Return(c, "error") /\ UNCHANGED state
  /\ UNCHANGED <<profile, token, op, locals, proc>>

-----------------------------------------------------------------------------
(* stop, and the first half of restart: the rest of _stop_locked           *)

RecheckAlive(c) ==
  /\ pc[c] = "recheck"
  /\ \/ /\ PidAlive(seen[c].inst)
        /\ Return(c, "refused")
        /\ UNCHANGED <<state, op>>
     \/ /\ ~PidAlive(seen[c].inst)
        /\ SetState(c, NoState)
        /\ Absent(c)
  /\ UNCHANGED <<profile, token, locals, proc>>

SendSigterm(c) ==
  LET i == seen[c].inst IN
  /\ pc[c] = "signal"
  /\ \/ /\ PidAlive(i)
        /\ Goto(c, "await_exit")
        /\ UNCHANGED <<state, op, res>>
     \/ /\ ~PidAlive(i)
        /\ SetState(c, NoState)
        /\ Absent(c)
     \/ /\ proc[i] = "reused"   \* by a process of another user
        /\ Return(c, "error")
        /\ UNCHANGED <<state, op>>
  /\ UNCHANGED <<profile, token, locals, proc>>

\* Mutant: stop waits for the daemon without a deadline.
AwaitExit_NoTimeout(c) ==
  /\ pc[c] = "await_exit"
  /\ ~PidAlive(seen[c].inst)
  /\ SetState(c, NoState)
  /\ Absent(c)
  /\ UNCHANGED <<profile, token, locals, proc>>

AwaitExit(c) ==
  /\ pc[c] = "await_exit"
  /\ \/ /\ ~PidAlive(seen[c].inst)
        /\ SetState(c, NoState)
        /\ Absent(c)
     \/ /\ PidAlive(seen[c].inst)   \* the timeout
        /\ Return(c, "error")
        /\ UNCHANGED <<state, op>>
  /\ UNCHANGED <<profile, token, locals, proc>>

-----------------------------------------------------------------------------
(* start without a daemon: select a port and launch, under the port lock   *)

AcquirePortLock(c) ==
  /\ pc[c] = "ports"
  /\ \A d \in Cli : ~HoldsPortLock(d)
  /\ Goto(c, "select")
  /\ UNCHANGED <<files, op, locals, res, proc>>

SelectStartPort(c) ==
  LET choices == StartPorts(ProjectOf[c], want[c]) IN
  /\ pc[c] = "select"
  /\ \/ \E q \in choices : /\ picked' = [picked EXCEPT ![c] = q]
                           /\ Goto(c, "launch")
                           /\ UNCHANGED res
     \/ choices = {} /\ Return(c, "failed") /\ UNCHANGED picked
  /\ UNCHANGED <<files, op, want, seen, proc, answered>>

WriteLaunching(c) ==
  /\ pc[c] = "launch"
  /\ \/ Return(c, "failed") /\ UNCHANGED state   \* the port is in use, or the write fails
     \/ /\ ~InUse(picked[c])
        /\ SetState(c, Record(c, "launching"))
        /\ Goto(c, "token") \/ Goto(c, "remove")
        /\ UNCHANGED res
  /\ UNCHANGED <<profile, token, op, locals, proc>>

\* Mutants: an existing file is taken for a token whatever it holds; the file is
\* not created exclusively.
ReadOrCreateToken_Torn(c) ==
  LET p == ProjectOf[c] IN
  /\ pc[c] = "token"
  /\ \/ token[p] = "absent" /\ SetToken(c, "torn") /\ Goto(c, "token_write")
     \/ token[p] # "absent" /\ Goto(c, "popen") /\ UNCHANGED token
  /\ UNCHANGED <<state, profile, op, locals, res, proc>>

ReadOrCreateToken_Truncates(c) ==
  /\ pc[c] = "token"
  /\ SetToken(c, "torn")
  /\ Goto(c, "token_write")
  /\ UNCHANGED <<state, profile, op, locals, res, proc>>

\* _read_or_create_token: an existing file must hold a token; a new one is
\* created empty and written afterwards.
ReadOrCreateToken(c) ==
  LET p == ProjectOf[c] IN
  /\ pc[c] = "token"
  /\ \/ token[p] = "absent" /\ SetToken(c, "torn") /\ Goto(c, "token_write")
     \/ token[p] = "ok" /\ Goto(c, "popen") /\ UNCHANGED token
     \/ token[p] = "torn" /\ Goto(c, "remove") /\ UNCHANGED token
  /\ UNCHANGED <<state, profile, op, locals, res, proc>>

WriteToken(c) ==
  /\ pc[c] = "token_write"
  /\ \E written \in BOOLEAN :
       /\ SetToken(c, IF written THEN "ok" ELSE "absent")
       /\ Goto(c, IF written THEN "popen" ELSE "remove")
  /\ UNCHANGED <<state, profile, op, locals, res, proc>>

\* Popen may fail, or be interrupted when the child is already running and
\* its Popen object is not yet assigned.
SpawnChild(c) ==
  /\ pc[c] = "popen"
  /\ \/ Goto(c, "claim") /\ SetProc(c, "booting")
     \/ Goto(c, "remove") /\ UNCHANGED proc
     \/ /\ "popen_interrupt" \in Faults
        /\ Goto(c, "remove")
        /\ SetProc(c, "booting")
  /\ UNCHANGED <<files, op, locals, res>>

AwaitClaim(c) ==
  /\ pc[c] = "claim"
  /\ state[ProjectOf[c]] = Record(c, "starting")
  /\ Goto(c, "ready")
  /\ UNCHANGED <<files, op, locals, res, proc>>

AwaitReady(c) ==
  /\ pc[c] = "ready"
  /\ proc[c] = "serving"
  /\ answered' = answered \cup {c}
  /\ Goto(c, "verify")
  /\ UNCHANGED <<files, op, want, seen, picked, res, proc>>

\* The ownership check and the second read of the state.
VerifyChild(c) ==
  /\ pc[c] = "verify"
  /\ TRUE \in OwnedOutcomes(c)
  /\ state[ProjectOf[c]] = Record(c, "starting")
  /\ Goto(c, "persist_port")
  /\ UNCHANGED <<files, op, locals, res, proc>>

PersistPort(c) ==
  /\ pc[c] = "persist_port"
  /\ SetProfile(c, picked[c])
  /\ Goto(c, "persist_state")
  /\ UNCHANGED <<state, token, op, locals, res, proc>>

\* The write may be reported as failed after the file was replaced.
PersistState(c) ==
  /\ pc[c] = "persist_state"
  /\ SetState(c, Record(c, "running"))
  /\ \/ Return(c, "running")
     \/ Goto(c, "terminate") /\ UNCHANGED res
  /\ UNCHANGED <<profile, token, op, locals, proc>>

\* A wait timed out, the child exited, a check or a write failed, or the user
\* interrupted the command: the except clause of _launch_daemon_locked.
LaunchFails(c) ==
  /\ pc[c] \in Launched \ {"terminate"}
  /\ Goto(c, "terminate")
  /\ UNCHANGED <<files, op, locals, res, proc>>

\* Mutant: a failed launch signals its child and does not wait for it.
TerminateFailedStart_NoWait(c) ==
  /\ pc[c] = "terminate"
  /\ Goto(c, "remove")
  /\ UNCHANGED <<files, op, locals, res, proc>>

\* _terminate_failed_start returns when the child is gone or killed.
TerminateFailedStart(c) ==
  /\ pc[c] = "terminate"
  /\ SetProc(c, "dead")
  /\ Goto(c, "remove")
  /\ UNCHANGED <<files, op, locals, res>>

\* Mutant: a failed launch leaves its state behind.
RemoveFailedState_Kept(c) ==
  /\ pc[c] = "remove"
  /\ Return(c, "failed")
  /\ UNCHANGED <<files, op, locals, proc>>

RemoveFailedState(c) ==
  /\ pc[c] = "remove"
  /\ SetState(c, NoState)
  /\ Return(c, "failed")
  /\ UNCHANGED <<profile, token, op, locals, proc>>

Exit(c) ==
  /\ pc[c] = "return"
  /\ Goto(c, "done")
  /\ UNCHANGED <<files, op, locals, res, proc>>

\* The invocation is killed, or interrupted a second time while it cleans up.
CliCrash(c) ==
  /\ "cli_crash" \in Faults
  /\ HoldsProjectLock(c)
  /\ Goto(c, "crashed")
  /\ UNCHANGED <<files, op, locals, res, proc>>

-----------------------------------------------------------------------------
(* The child process                                                       *)

\* claim_daemon_state reads and checks the state under the claim lock ...
ReadClaim(i) ==
  /\ proc[i] = "booting"
  /\ ClaimLockFree(ProjectOf[i])
  /\ SetProc(i, IF state[ProjectOf[i]] = Record(i, "launching")
                THEN "claiming" ELSE "dead")
  /\ UNCHANGED <<files, pc, op, locals, res>>

\* ... and writes the claimed state.
WriteClaim(i) ==
  /\ proc[i] = "claiming"
  /\ SetState(i, Record(i, "starting"))
  /\ SetProc(i, "claimed")
  /\ UNCHANGED <<profile, token, pc, op, locals, res>>

BindPort(i) ==
  /\ proc[i] = "claimed"
  /\ SetProc(i, IF InUse(picked[i]) THEN "dead" ELSE "serving")
  /\ UNCHANGED <<files, pc, op, locals, res>>

\* The child crashes, is killed, or exits on SIGTERM.
ChildExit(i) ==
  /\ proc[i] \in Alive
  /\ SetProc(i, "dead")
  /\ UNCHANGED <<files, pc, op, locals, res>>

\* The kernel gives the pid to another process once the child is reaped.
ReusePid(i) ==
  /\ "pid_reuse" \in Faults
  /\ proc[i] = "dead" /\ pc[i] \notin Launched
  /\ SetProc(i, "reused")
  /\ UNCHANGED <<files, pc, op, locals, res>>

ForeignExit(i) ==
  /\ proc[i] = "reused"
  /\ SetProc(i, "dead")
  /\ UNCHANGED <<files, pc, op, locals, res>>

-----------------------------------------------------------------------------
CliStep(c) ==
  \/ AcquireProjectLock(c) \/ ReadState(c) \/ PollLaunching(c) \/ TakeClaimLock(c)
  \/ RecoverLaunching(c) \/ CheckAlive(c) \/ CheckOwned(c) \/ RecoverStarting(c)
  \/ PromotePort(c) \/ PromoteState(c) \/ RecheckAlive(c) \/ SendSigterm(c)
  \/ AwaitExit(c) \/ AcquirePortLock(c) \/ SelectStartPort(c) \/ WriteLaunching(c)
  \/ ReadOrCreateToken(c) \/ WriteToken(c) \/ SpawnChild(c) \/ AwaitClaim(c)
  \/ AwaitReady(c) \/ VerifyChild(c) \/ PersistPort(c) \/ PersistState(c)
  \/ LaunchFails(c) \/ TerminateFailedStart(c) \/ RemoveFailedState(c) \/ Exit(c)

ChildStep(i) == ReadClaim(i) \/ WriteClaim(i) \/ BindPort(i)

Environment(i) == CliCrash(i) \/ ChildExit(i) \/ ReusePid(i) \/ ForeignExit(i)

Next == \E c \in Cli : CliStep(c) \/ ChildStep(c) \/ Environment(c)

Spec == Init /\ [][Next]_vars

\* A process that can take its next step does: the scheduler runs it, and every
\* wait of an invocation is bounded by a timeout.  Nothing forces a child that
\* was signalled to exit, and no fault has to happen.
Fairness == \A c \in Cli : WF_vars(CliStep(c)) /\ WF_vars(ChildStep(c))

FairSpec == Spec /\ Fairness

-----------------------------------------------------------------------------
(* Properties                                                              *)

\* The types of the files, of the invocations' variables and of the children.
\* An invocation acts on a recorded daemon only after it has read its record.
TypeOK ==
  /\ state \in [Project -> State]
  /\ profile \in [Project -> AnyPort \cup {NoPort}]
  /\ token \in [Project -> Token]
  /\ pc \in [Cli -> Pc]
  /\ op \in [Cli -> Op]
  /\ want \in [Cli -> AnyPort \cup {NoPort}]
  /\ seen \in [Cli -> State]
  /\ picked \in [Cli -> AnyPort \cup {NoPort}]
  /\ res \in [Cli -> Result]
  /\ proc \in [Cli -> Proc]
  /\ answered \subseteq Cli
  /\ \A c \in Cli : pc[c] \in RecordSteps => seen[c] # NoState

\* A child that has claimed its state is named by the state file for as long as
\* it lives: no step of a start, stop, status, recovery or failed launch drops
\* or overwrites the record of a live daemon.  Hence a project never has two
\* live daemons, and none that "stop" cannot find.
LiveIsRecorded ==
  \A i \in Cli : proc[i] \in {"claimed", "serving"} =>
    /\ state[ProjectOf[i]].inst = i
    /\ state[ProjectOf[i]].life \in {"starting", "running"}

\* The port of a running daemon is the port the project's profile reserves: a
\* crash between the two writes of a launch or of a recovery never leaves a
\* running daemon whose port is not reserved.
RunningIsPersisted ==
  \A p \in Project : state[p].life = "running" =>
    profile[p] = picked[state[p].inst]

\* A state file says "running" only of an instance that has answered an
\* authenticated health call: the command that launched it, or one that found it
\* starting after its own command had gone, has called it.  It may have died
\* since, but a child that died, or whose pid was reused, before it ever served
\* is never recorded as running.
RunningWasHealthy ==
  \A p \in Project : state[p].life = "running" => state[p].inst \in answered

Quiet(p) ==
  /\ state[p] = NoState
  /\ \A i \in Cli : ProjectOf[i] = p => proc[i] \notin {"claiming", "claimed", "serving"}

\* When a command reports "stopped", and when a launch is reported as failed, no
\* state is left behind and no daemon of the project is live or about to claim
\* one, a child launched by an invocation that crashed included.
StoppedIsQuiet ==
  \A c \in Cli :
    /\ pc[c] = "return"
    /\ res[c] \in {"stopped", "failed"}
    => Quiet(ProjectOf[c])

\* No command returns while an unclaimed launch is on record: it waited for the
\* claim, or removed the record so that the child can no longer claim it.
ReturnsSettled ==
  \A c \in Cli : pc[c] = "return" => state[ProjectOf[c]].life # "launching"

\* The profiles of two projects never reserve the same port.
DistinctProfiles ==
  \A p, q \in Project : p # q /\ profile[p] # NoPort => profile[p] # profile[q]

\* A child is only ever launched with a whole token: what a start leaves that was
\* killed between the creation of the token file and its write is never used.
ChildHasToken == \A i \in Cli : proc[i] # "none" => token[ProjectOf[i]] = "ok"

\* A whole token is never removed or written again, by whatever starts, fails or is
\* killed: the token that users export to their clients stays valid.
TokenKept == [][\A p \in Project : token[p] = "ok" => token'[p] = "ok"]_vars

\* Every command ends: the three locks are always taken in an order, and
\* released, such that nobody waits for ever.
CommandsEnd == \A c \in Cli : <>(pc[c] \in {"done", "crashed"})

\* A launched child is not stuck before its claim: it claims, or exits.
ClaimsEnd == \A i \in Cli : proc[i] \in {"booting", "claiming"} ~>
                             proc[i] \notin {"booting", "claiming"}

\* The lifecycle implements the promise of a single recorded daemon: the live
\* daemons are the children that have claimed, the record is a claimed state.
LiveIn(p) == {i \in Cli : ProjectOf[i] = p /\ proc[i] \in {"claimed", "serving"}}
Recorded(p) == IF state[p].life \in {"starting", "running"} THEN state[p].inst ELSE NoCli
Promise == INSTANCE OneDaemon WITH
  Instance <- Cli,
  NoInstance <- NoCli,
  live <- [p \in Project |-> LiveIn(p)],
  record <- [p \in Project |-> Recorded(p)]
ImplementsPromise == Promise!Spec
=============================================================================
