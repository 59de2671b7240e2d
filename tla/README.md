# A TLA+ model of Nomad

Nomad (`src/src/nomad`, version 0.2) is an MCP server that lets a coding agent
work on remote machines over SSH. Around the server proper it keeps a
persistent HTTP daemon per project, registers that daemon in a Codex
configuration file, runs remote tasks in tmux, keeps SSH tunnels and
synchronises files. This directory holds TLA+ modules of the parts that keep
state, TLC configurations that check them on small instances, and proofs that
TLAPS checks for every value of the constants.

    tlc -config MCDaemon.cfg MCDaemon         # check a run (see the tables below)
    tlapm DaemonProofs.tla                    # check the proofs

Paths below are relative to `src/src/nomad` unless they start with `src/`.

## 1. Inventory

For each component: its state, its operations, what is hard about it, and what
makes it correct.

**Daemon lifecycle** (`daemon.py`, `cli.py`). State, in
`~/.nomad/daemons/<project hash>`: the state file (instance id, pid, port,
`launching | starting | running`), the token file, the port profile, and the
lock files of the project, of the port allocation and of the claim. Operations:
`start_daemon`, `status_daemon`, `stop_daemon`, `restart_daemon` in a
command-line process; `claim_daemon_state` and the server in the child it
launches; `read_daemon_token`, which only reads, and `health_daemon`, which
takes a status first. The processes meet only through the files and through
flock locks. Hard: commands run concurrently; a command may be killed at any
step and leave a child that is about to claim; pids are reused; writes fail
between two files; a stop times out. Correct when a live daemon is always the
recorded one, when reports and files agree, and when every command ends.

**Daemon ports and token** (`daemon.py`). A port is chosen by hashing the
project path and scanning a private range past reserved and busy ports, under
one lock for all projects; it is reserved by a profile that outlives the
daemon. Correct when no two projects reserve one port, a running daemon's port
is reserved, no daemon runs without a token, and a token once made is kept.

**Atomic configuration commit** (`codex_atomic.py`, and the snapshots of
`codex_config.py`). Replaces `.codex/config.toml`, which Codex and the user
edit without any lock, by an atomic exchange, and repairs the damage when the
exchange displaced something else than what was read. Hard: the editor saves
between any two system calls, calls fail half-way, the process is interrupted.
Correct when no version an editor saved is lost, when the error names where
versions are, and when "not committed" means that the old configuration is
active.

**Codex setup, repair and doctor** (`codex.py`, `codex_runtime.py`,
`codex_config.py`). A transaction under a lock per project: check the global
configuration, start or restart the daemon, check its health, commit the
configuration, check the global one again, publish the token; on any failure
before the commit, stop the daemon it has started. Hard: a rollback must stop
exactly its own instance; the global file changes between its two checks; a
failure after the commit must not roll back.

**Remote tasks** (`tools/tasks.py`). State on the server: tmux sessions, and a
script, a log and an exit file per task. `task_start`, `task_status`,
`task_list`, `task_kill` are each several SSH calls. Hard: two starts of one
name overlap; exit files of an earlier task survive; tmux matches session names
by prefix; a push deletes the files. Correct when a session runs its own
script, and a reported exit code belongs to the current run of the task.

**Tunnels and remote commands** (`tools/network.py`, `tools/commands.py`,
`ssh.py`). An SSH ControlMaster per target behind a control socket; commands
reuse it when it is there. Hard: the master may die, survive a failed `-O
exit`, or go on answering when the port is gone; the socket path is computed in
several places. Correct when a master that has the port can be found and
stopped, and a command that is given the proxy has a master behind it.

**Project configuration** (`config.py`, `tools/init.py`, `schema.py`).
`.nomad.json` and a process-wide cache of it, used by the worker threads of the
server. Hard: the cache is several globals set one after the other; saves are
read-modify-write. Correct when a load returns what the file was during the
call, the file is never half written, and the backup is what was replaced.

**File synchronisation** (`tools/sync.py`). rsync with a dry run that counts
deletions and a real run; the filter rules translated from `.gitignore`. Hard:
the tree changes between the two; what is deleted includes the files of the
tasks, which live in the same remote directory; the order of rules matters.

**MCP server** (`server.py`). Runs each tool call in a worker thread and turns
exceptions into results.

**Guards and logs** (`security.py`, `mcp_logging.py`). Predicates on commands
and paths, redaction, an audit log with rotation, log handlers. **Result
shaping** (`result.py`, `truncate.py`) is pure.

Interactions: setup calls the daemon operations and the commit; the daemon
child is the MCP server; tools called by the server use configuration, tunnels
and SSH, and write the audit log; every other pair of components meets through
files only. The list of hazards, each at its line and with the properties that
cover it, is in `PROJECT.json`; a hazard without one says what excuses it, and
section 9 lists what was observed of them.

## 2. Modules

| module | what | checked by | proved |
|---|---|---|---|
| `Daemon`, `OneDaemon` | lifecycle, ports and token; the abstract specification it implements | 5 runs, one with liveness | `DaemonProofs`, `DaemonPortsProofs` |
| `CodexCommit`, `SafeReplace` | the commit against an editor; the abstract specification it implements | 3 runs | `CodexCommitProofs` |
| `CodexSetup` | setup, repair and doctor as transactions: composes `OneDaemon`'s view of a daemon with the outcomes of a commit | `codex_setup` | `CodexSetupProofs` |
| `Tunnel` | control sockets, masters and the remote port under the calls that use them | `tasks` | `TasksProofs` |
| `Tasks` | extends `Tunnel`: tmux sessions and files of concurrent starts, kills, status calls and pushes | `tasks`, `tasks_push` | `TasksProofs` |
| `ConfigCache` | the cached configuration under threads, and its saves | `config_cache` | `ConfigCacheProofs` |

They compose as the code does: `CodexSetup` takes a daemon operation for one
step, which is what the project lock and the refinement of `OneDaemon` justify,
and a commit for one step with the outcomes `CodexCommit` has; `Tasks` extends
`Tunnel` because `task_start` calls `ensure_tunnel` on its way and because a
push works on the directory of the tasks. `MC*` modules and `.cfg` files hold
nothing but values of constants and symmetry.

## 3. The daemon: `Daemon.tla`

One TLA+ process per command-line invocation (`Cli`) and one per child. An
invocation launches at most one child, so the uuid of an instance, and its pid,
are represented by the invocation that launched it: `picked[c]` is the port of
instance `c`, `proc[c]` what runs under its pid.

| variable | in the code |
|---|---|
| `state[p]` | the state file of project `p`: `NoState` or instance and lifecycle |
| `profile[p]`, `token[p]` | the port profile; the token file (`torn` is created but empty) |
| `pc[c]`, `op[c]`, `want[c]` | where the invocation is, its operation, its `--port` |
| `seen[c]`, `picked[c]`, `res[c]` | the state it has read, the port of its child, its result |
| `proc[i]` | `booting` (forked), `claiming`, `claimed`, `serving`, `dead`, `reused` |
| `answered` | history: the children that have answered an authenticated health call |

The kernel drops a flock lock with its process, so a lock is not a variable:
`HoldsProjectLock(c)`, `HoldsPortLock(c)`, `HoldsClaimLock(c)` hold at the steps
between acquisition and release, and a killed invocation (`pc = "crashed"`) is
at none of them.

Each action is what the code does between two points where another process can
matter, guards and error paths included: `_recover_launching_state` is
`PollLaunching`, `TakeClaimLock`, `RecoverLaunching`; `_stop_locked` is
`ReadState`, `CheckAlive`, `CheckOwned`, `RecheckAlive`, `SendSigterm`,
`AwaitExit`; `_recover_starting_state` is `RecoverStarting`, `PromotePort`,
`PromoteState`; `_start_locked` and `_launch_daemon_locked` are
`AcquirePortLock` to `RemoveFailedState`; `claim_daemon_state` is `ReadClaim`,
`WriteClaim`. `restart` is a stop that goes on as a start on the old port.
Waits are bounded by timeouts in the code, so a wait may always give up
(`LaunchFails`, the second disjuncts of `PollLaunching` and `AwaitExit`).

The private port range is `Port`, in which a scan chooses; `Outside` are other
ports, for which only `--port` can ask, and `AnyPort` is both.

Faults of the environment are a constant: `cli_crash` (a command is killed at
any step under the project lock), `pid_reuse` (a reaped pid is given to another
process, also one that may not be signalled), `ps_timeout` (on a system without
`/proc` the arguments of a live process cannot be read in time),
`popen_interrupt` (an exception arrives after the fork and before the result of
`Popen` is assigned). A child may exit at any moment, always.

What is abstracted: the content of the state file beyond identity and
lifecycle; file permissions and symlink checks; the HTTP health exchange (it
succeeds exactly against the instance's own server, since the token and the
instance id are checked); a state file that is malformed. Removing a state file
never fails. `_terminate_failed_start` ends with a SIGKILL; the model takes the
child for gone then. `fork` inheriting lock descriptors is left out (Python
closes them in the child). The token reader has no effect and is left out; the
only effect of `health_daemon` is that of the status it takes first, which may
promote a starting daemon, and a status is an operation of the model.

`OneDaemon.tla` is what the lifecycle promises: at most one live daemon per
project, entered when none is live or recorded, forgotten only when dead.
`Daemon` implements it with `live` the children that have claimed and `record`
the instance of a claimed state.

### Runs

| run | configuration | what it shows |
|---|---|---|
| `daemon_safety` | 1 project, 3 commands, killed commands, reused pids | `LiveIsRecorded`, `RunningIsPersisted`, `RunningWasHealthy`, `StoppedIsQuiet`, `ReturnsSettled`, `ChildHasToken`, `TokenKept`, and that `OneDaemon` is implemented |
| `daemon_ports` | 2 projects, 3 commands, 3 ports of which one is busy, both projects hash to it, and a port outside the range for `--port`; reused pids and a slow `ps`, no killed command | `DistinctProfiles` |
| `daemon_fair` | 1 project, 2 commands, every fault, fairness | `CommandsEnd`, `ClaimsEnd`, and `RunningWasHealthy` even then |
| `daemon_ps_timeout` | 1 project, 3 commands, `ps_timeout` | a violation of `LiveIsRecorded`: a `False` of `_process_owns_instance` that means "no answer" makes a start remove the record of a live daemon |
| `daemon_ports_crash` | the same ports, with killed commands | a violation of `DistinctProfiles`: a recovery writes a port profile without the port lock |

Bounds. Three commands are enough for the interesting case: one is killed after
its launch, the second recovers, the third observes; a fourth could only repeat
the second's part, since all of them exclude each other by the project lock and
act on the files alone. The invocations are interchangeable, so symmetry is
used for the invariants; the run with liveness has none. Two invocations suffice
for `CommandsEnd`: a command waits only for locks of another command and of a
child. The port range has two or three ports: the default is the last one, so
that a scan wraps, and it is busy, so that both projects scan.

Fairness. `WF` of each invocation's step and of each child's step: the scheduler
runs a process that can run, and `flock` is granted when free (with finitely
many commands, weak fairness is enough). Nothing makes a child die: a stop of a
daemon that ignores SIGTERM ends by its timeout. Faults are never forced.

### Proofs (`DaemonProofs.tla`, `DaemonPortsProofs.tla`)

For any finite or infinite set of commands, any projects, ports and options:

| theorem | statement |
|---|---|
| `Typing` | `Spec => []TypeOK`, under every fault |
| `LiveDaemonIsRecorded` | `Benign => (Spec => []LiveIsRecorded)` |
| `StoppedLeavesNothing` | `Benign => (Spec => []StoppedIsQuiet)` |
| `CommandsReturnSettled` | `Benign => (Spec => []ReturnsSettled)` |
| `LifecycleImplementsPromise` | `Benign => (Spec => ImplementsPromise)` |
| `RunningPortIsReserved` | `Spec => []RunningIsPersisted`, under every fault |
| `RunningAnsweredHealth` | `Spec => []RunningWasHealthy`, under every fault |
| `ProfilesAreDistinct` | `Uninterrupted => (Spec => []DistinctProfiles)` |
| `ScanFindsFreePort` | the scan for a port is right, for a range of any size |
| `ChildrenHaveTokens` | `Spec => []ChildHasToken`, under every fault |
| `TokensAreKept` | `Spec => TokenKept`, under every fault |

`Benign` excludes `ps_timeout` and `popen_interrupt`, with which the properties
are false (the first is a run). Killed commands and reused pids are included.

`LiveIsRecorded` is not inductive. A command acts on its copy `seen[c]` of the
state, and on what it concluded from it, several steps later: the invariant must
say that the copy is still what is on file, or that what it is about to do is
harmless. `IInv` is `TypeOK`, `Mutex` (one command of a project is under its
lock), `Claiming` (a child between the two halves of its claim still has its
launching state on file, which is what the claim lock is for), `LiveIsRecorded`
and `Views`: for each command under the project lock and each step, how the
state on file relates to the copy it holds (`ViewRecord`), to the child it has
launched (`ViewLaunch`) and to the result it reports (`ViewReturn`). There is
one lemma per action; each also shows that the step is a step or a stutter of
`OneDaemon`. The lemmas on `Goto`, `SetState` and the other updates keep these
operators closed in the larger steps.

The other six are in `DaemonPortsProofs`. None needs `Benign`: what is recorded as
running, and the token, stay right even when a live daemon was forgotten.

- `RunningInv` is `TypeOK`, `Mutex`, `Persisted` (a project whose state is
  running has an instance that has answered a health call, and a profile with
  its port) and, for each command, `HealthView`: a record it has read as running
  is on file unless the file has changed to something that is not running; one
  it is about to promote has answered a health call, though it may be dead by
  now; between the two writes of a promotion the profile has the port already.
  Without the last part `Persisted` is not inductive, since a promotion acts on
  a state read several steps before.
- `PortInv` adds what makes the port lock sufficient: a state that is not
  running yet belongs to a launch that is still going on (`NoLeftover`), so that
  a command that reads a state reads a running one (`SeesRunning`) and nobody
  but the one launch under the port lock (`OneAllocates`) writes a profile, with
  a port that no other project reserves (`SelectedFree`). `Uninterrupted`
  excludes `cli_crash` and `popen_interrupt`, after which a launching or
  starting state has no launch, and a recovery writes its port outside the lock:
  then `DistinctProfiles` is false (`daemon_ports_crash` is the run with the
  first). `pid_reuse` and `ps_timeout` are included.
- `TokenInv` says what a command knows of the token from the creation of its
  file to the end of the launch. It needs `Mutex`: because the file is created
  and written under the project lock, a failed write removes the file this very
  start has made, and never one that a child is using.
- `ScanFindsFreePort` is about the operator `ScanPorts`, for every private range
  and every hashed port: it has exactly one element, free and unreserved, unless
  there is no such port. The scan visits every port of the range because adding
  the start modulo the size is onto (`ScanVisits`), and it has a first hit
  because the order of the natural numbers is well-founded (`LeastPort`).

A step of a command changes only its own variables and its own project's files
(`CommandFrame`), and nobody else of the project is under the lock meanwhile
(`CommandAlone`); so each action is shown to restore what is said of itself and of
its project, and the rest is kept for all actions at once.

Only model-checked: the two liveness properties (fairness is outside what the
proofs treat).

## 4. The commit: `CodexCommit.tla`

One transaction, from its snapshot to its return, and an editor that replaces
`config.toml` by a new file, or removes it, at any moment. Transactions of one
project exclude each other (`_codex_transaction_lock`) and use random names, so
that a second one would add nothing.

| variable | in the code |
|---|---|
| `config`, `temp` | contents of `config.toml` and of the temporary file, or `Absent` |
| `proposed`, `copies` | the `nomad-proposed` file; the `concurrent` copies |
| `snap` | the content in the snapshot, `Absent` when there was no file |
| `displaced`, `active` | the digests read after an exchange; `Absent` is `None` |
| `report` | the return or the exception: its type, `config_committed`, and whether it names the temporary file |
| `owed` | history: versions the editor saved and did not itself replace |

A digest is the content itself. Every system call on a file the editor may touch
is an action of its own; reads of files only the transaction touches are joined
to the step that uses them. `AtomicExchange`, `AtomicNoReplace` and
`CompareDigests` are `_replace_temporary_config`; `CopyDisplaced` to
`DropDisplaced` are `_resolve_exchange_conflict`; `RecoverSafely`,
`RecoverExchange`, `Recover` are `_recover_from_conflict_failure`;
`ReturnAndClean` is what the two `finally` clauses do to errors that name no
preserved file. `io_error` lets every call that writes fail, with ignored
failures ignored; `read_error` lets a file be unreadable when it is looked at
again; `kill` ends the process at any step; `interrupt` raises an exception that
is no `Exception`, which runs the `finally` clauses only. A refusal because
`.codex` itself was replaced is a `write_failed` here, with the same effects.
The editor does not write in place through a descriptor it opened earlier: no
commit can detect such a write after its last look at the file.

`SafeReplace.tla` is what the commit promises to whoever shares the directory: it
installs its content once and moves what was there aside; afterwards it only puts
back what it has moved aside; a version that is neither the old nor the proposed
one leaves the side only by being put back, unless an interrupt comes; the file
never vanishes by its doing, and nothing changes once it is over. `CodexCommit`
implements it with `aside` the contents of the temporary file and of the copies,
and `phase` from `pc`. The number of saves is shared, so that a step of the
commit cannot pass for one of the editor. `NoEditLost` speaks of what is in the
directory; this speaks of what each step may do to it.

| run | what it shows |
|---|---|
| `codex_commit` | with failing calls and a killed or interrupted process: `NoEditLost` (until an interrupt), `EditsReported`, `UncommittedIsInactive`, and that `SafeReplace` is implemented |
| `codex_commit_interrupt` | a violation of `NoEditLostAtAll`: the `finally` clause deletes what an exchange has displaced |
| `codex_commit_read` | a violation of `UncommittedIsInactive`: a digest of `None` is taken for an absent file |

Bounds: three saves (or removals), with five contents including the old and the
proposed one. The algorithm changes `config.toml` at most three times (two
exchanges, or one and the exchange of the recovery), so that three saves can fall
before, between and after the exchanges.

Proved in `CodexCommitProofs.tla`, for any contents and any number of saves:
`Typing`; `EditsAreKept` (`NoEditLost`, whatever fails); `EditsAreReported` and
`UncommittedCommitsAreInactive` (if files can be read again);
`CommitImplementsPromise` (`Spec => ImplementsPromise`, whatever fails).
`SafeInv` adds to the types what the temporary file holds wherever it is removed
(`TempKnown`): nothing, the proposed content, the snapshot, or a version already
copied. `ReportInv` adds, for each step, that the editor's version is active or
that the step about to be taken exchanges it back (`InactiveWhere`), and that a
temporary file the error does not name holds nothing unknown (`TempAccounted`).
The refinement needs of `SafeInv` that only known or copied contents are
dropped, and that the exchange of the recovery puts a displaced version back
(`AsideKnown`); a step that moves nothing is a stutter or the end (`QuietStep`),
the first exchange is `Install` (`Installs`), and the later ones are `PutBack`
(`SwapPutsBack`).

## 5. The transactions: `CodexSetup.tla`

Any number of `nomad codex setup`, `repair` and `doctor` processes on one
project, against a user who starts, stops and restarts the daemon by hand,
editors of both configuration files, and a daemon that hangs, recovers, dies or
loses its pid.

| variable | in the code |
|---|---|
| `daemon` | the recorded daemon: instance, status, url, whether it has the version of the transactions, whether it answers; history: who has launched it |
| `config` | the url of Nomad's entry in `.codex/config.toml`, or `missing`, `invalid` |
| `global` | what the analysis of the user-level configuration says of the project |
| `credential` | whether the environment of Codex has the token of the project |
| `pc`, `loc` | the step and the local variables of a transaction: its snapshots, the daemon it was told of, `started_instance_id`, `daemon_action` |
| `loc[t].fresh` | the parts nobody else has changed since `t` looked at them: for files this is what digest and identity tell the code, for the daemon history |
| `established` | history: a transaction has returned ok undisturbed, only transactions have acted since, and no repair has taken the healthy daemon for an unhealthy one |
| `loc[t].written`, `.interrupted`, `.misreported`, `.hindered` | history: its configuration is in place; an interrupt has ended it; it was told that its configuration is not active although it is; a look of a doctor has failed |

`Begin` to `CheckHealthAgain` are `_configure_codex_locked` up to the end of
`_ready_daemon`; `CheckGlobalCurrent`, `CommitProjectConfig`,
`PostcommitGlobal` and `ConfigureToken` follow; `Fail` is the handlers of both
functions, which roll back when `started_instance_id` is set and the
configuration is not committed; `RollbackStatus` and `RollbackStop` are
`_rollback_started_daemon`, with `stop_daemon(expected_instance_id=...)`. A
doctor takes no lock, reports what fails and goes on. Faults: each daemon
operation raises, the health call of a healthy daemon among them
(`health_error`: its status, the token, or the two seconds); a status that
raises may have promoted the daemon before; a file cannot be read or written;
what a commit has exchanged cannot be read (`read_error`, the fault of
`CodexCommit` under which a commit says of an active configuration that it is
not, so that the handler rolls back the daemon it names); the token cannot be
read; an exception that is no `Exception` arrives at any step under the lock;
the process is killed.

`codex_setup` takes a setup with a repair (two writers, one of which may restart
the daemon), and a setup with a doctor (a writer with a reader), with two
disturbances and every fault. Two transactions are enough because they exclude
each other by the lock (only doctors overlap with others) and leave nothing
behind but the shared state; two disturbances can put another daemon in place of
the transaction's and break one more thing. The proofs have no such bound. Uuids
are unique in the code; the model takes any that nobody holds.

| property | what could be wrong |
|---|---|
| `RollbackSparesOthers` | a rollback stops the daemon a user has started in place of the transaction's |
| `CommittedIsNotRolledBack` | a failure after the commit stops the daemon the configuration names. Excused: an interrupt right after the commit (`interrupted`), a commit that says it is not active although it is (`misreported`) |
| `FailedSetupIsUndone` | a setup that fails leaves its daemon running, unless the rollback was impossible |
| `ResultHolds` | the result says something of a part nobody has touched that is not so |
| `OthersKeepIt` | a second transaction that fails, or finds fault, undoes what the first has established. Excused: a repair whose health call of the healthy daemon fails restarts it, and that may fail |
| `DoctorAgrees` | an undisturbed doctor all of whose looks succeed says ok where a setup would not, or the reverse; one of whose looks failed says ok |

What the code does not prevent is in the properties, not in the model: an
interrupt between the commit and the assignment of `config_committed`
(`codex.py:285`) rolls a committed daemon back (`loc[t].interrupted`), and so
does a commit that says the contrary of what it did (`codex.py:292`,
`loc[t].misreported`; the run `codex_commit_read` shows it inside the commit); a
repair's restarted daemon is not rolled back (`FailedSetupIsUndone` is about
setups). The two instants between the return of `start_daemon` and the handler
around it are left out.

Proved in `CodexSetupProofs.tla`, for any numbers of transactions, instances,
urls and events and any faults:

| theorem | statement |
|---|---|
| `TypeCorrect` | `Spec => []TypeOK` |
| `CommitKeepsDaemon` | `Spec => []CommittedIsNotRolledBack` |
| `FailureIsUndone` | `Spec => []FailedSetupIsUndone` |
| `ResultIsTrue` | `Spec => []ResultHolds` |
| `EstablishedStays` | `Spec => []OthersKeepIt` |
| `DoctorIsRight` | `Spec => []DoctorAgrees` |
| `RollbackSpares` | `Spec => RollbackSparesOthers` |

The invariant `TxnInv(t)` speaks of one transaction and of the world: its
operation and history fit its step (`Flow`), the daemon it takes for its own is
its own (`Own`), a part that is fresh is what it has seen (`Fresh`), and what a
setup has verified and a doctor has said is kept (`Verified`, `Said`). `Mutex` is
the lock. A step of `t` restores `TxnInv(t)` (`Good`); anybody else's keeps it,
because what such a step changes is not fresh any more for `t` (`Kept`) and a
daemon it launches has an instance id that `t` does not know (`Spared`).
`OthersKeepIt` needs more: `EstInv` says that, while a connection is established,
no transaction has anything to restart or to roll back (`Quiet`).

## 6. Tunnels and tasks: `Tunnel.tla`, `Tasks.tla`

The server keeps nothing in memory about tunnels and tasks. Every call learns
what it knows by ssh commands, and each of them is one step; between two of
them other worker threads, or other servers on the same machine, act.

| variable | in the code |
|---|---|
| `holder` | who has the remote port: nobody, a foreign process (such as the sshd of a connection that is gone), or the connection of the master a `tunnel_start` for that label has started |
| `sock[l]` | the control socket of a label: none; stale, the file of a killed master; live, its master has the port; deaf, its master answers and has not noticed that the port is lost. The path is a hash of the name as given, so "default" and the resolved name have two |
| `parting` | the labels of which a master that has lost its port, and whose socket is gone or was never there, has still to end |
| `session[n]` | the tmux session of task `n`: the start that made it, the script it has read, its phase |
| `script[n]`, `exitf[n]`, `log[n]`, `dir` | the files of the task and their directory, `{remote_path}/.nomad/tasks` |
| `late` | remote commands whose ssh has timed out here and which may still run there |
| `pc`, `call` | the step and the arguments of each thread |
| `lost`, `last`, `mixed`, `swept`, `call[c].upset` | history, for the properties |

| action | code |
|---|---|
| `EnsureTunnel`, `StartCheck`, `StartPort`, `StartSpawn` | `run_remote` and `task_start` up to their tunnel; `tunnel_start` |
| `RunCommand` | the remote command of `run_remote` |
| `StatusCheck`, `StopExit`, `StopUnlink` | `tunnel_status`, `tunnel_stop` |
| `HasSession`, `Write`, `NewSession` | the three remote calls of `task_start` |
| `TaskStatus`, `TaskKill` | `task_status`, `task_kill` |
| `PushDryRun`, `Push` | `sync_push` up to its threshold; the real run |
| `RunsLate`, `SessionReads`, `SessionExits`, `SessionEnds` | the remote host: late commands, and the script `generate_task_script` writes |
| `MasterDies`, `PortDropped`, `DeafEnds`, `PartingEnds` | a master that ends at once or is killed; one whose port is gone before it notices (`ServerAliveInterval=30`, `ServerAliveCountMax=3`, `ssh.py:293-296`), and which ends later |
| `PortTaken`, `PortReleased` | other programs of the remote host |

Guards and preflight probes change nothing and are joined to the step after
them; a guard that refuses is the `ssh_error` of that step. ssh, tmux and rsync
are modelled from their manuals, as the code uses them: an `ssh -M` that finds a
file at the path of its socket runs without one; a master that ends removes
the file at the path of its socket, its successor's by then perhaps (one that
never had a socket removes nothing; the two are not told apart, which only
makes more happen in the model); a `-t` that names no session is
a prefix; `rsync --delete` removes what the project does not have, and part of
it when it fails. The shell of a session opens its log first, so that a session
made without the directory ends at once. A push is one step for the remote
files: the order in which rsync removes them is covered by the runs that fail
half-way. Other tasks, and the case that a task's command is itself the writer
of project files, are not in the model.

Faults: ssh fails; the check of the master or of the port is too slow, which the
code takes for "no master" and "port free"; the request to exit fails; `ssh -f`
is too slow; a remote command outlives its ssh; a script cannot enter its
directory.

| run | configuration | what it shows |
|---|---|---|
| `tasks` | 2 threads, 3 calls of any of the eight operations, 2 labels, tasks `train` and `trainGpu`, every fault, one late command, one network event, threshold 5 | `NoOrphan`, `TunnelUpForLaunch`, `OwnScript`, `StatusIsOfLastRun` |
| `tasks_push` | the same without faults | a violation of `ResultKept` |

Bounds. Two threads overlap; the third call is the one that observes, or that
comes between the two steps of another. With three calls two starts overlap and
a status looks on, a stop and a start race and a status looks on, a task runs, a
push removes its files and a status looks on. One late command and one network
event are enough for each excuse of the properties. With two tasks both outcomes
of the threshold happen (one finished task has 3 files and 2 directories, two
have more). The threads are interchangeable; symmetry is used.

| property | what could be wrong, and what is excused |
|---|---|
| `NoOrphan` | a master has the port and no status sees it and no stop stops it. Excused (`lost`): a stop whose exit request failed removes the socket; a start between the two steps of a stop; a start that finds the socket of another master, killed or deaf; a master that ends late and removes its successor's |
| `TunnelUpForLaunch` | a command is given the proxy without the master of its own label at the port. Excused (`upset`): the port was lost since the call began, or before, and the master it found had not noticed |
| `OwnScript` | a session runs the script of another `task_start`. Excused (`mixed`): two starts of a task past their check at a time, a late one included; a check that ssh itself has failed, which counts as "no session" |
| `StatusIsOfLastRun` | "finished" for the exit file of an earlier run, or "missing", "unknown" for a run that has ended by itself. Excused: a run that was killed or could not begin leaves the old exit file; a push |
| `ResultKept` | the same without the excuse of a push: what the documentation says, and is not so |

Proved in `TasksProofs.tla`, for any numbers of threads, labels, tasks, calls,
events and late commands and any faults:

| theorem | statement |
|---|---|
| `TypeCorrect` | `Spec => []TypeOK` |
| `MasterReachable` | `Spec => []NoOrphan` |
| `TunnelBehindLaunch` | `Spec => []TunnelUpForLaunch` |
| `SessionRunsOwnScript` | `Spec => []OwnScript` |
| `StatusCorrect` | `Spec => StatusIsOfLastRun` |

The invariant `Inv` has four parts. `Typed` adds to the types that a call is at
a step it has. `TunnelInv` adds to the two properties that a socket that is
live is that of the master that has the port (`LiveHasPort`; a deaf one is not
live) and that a stop about to remove the socket of the
master that has the port is one whose exit request was in vain
(`UnlinkIsLost`); with the second, removing the socket cannot orphan a master
unnoticed. `StartInv` says for each task that is not mixed that at most one
start is past its check, or late, and then there is no session (`OneStart`), and
that the script file is that start's, or gone (`OwnUpload`): the three remote
calls are made one by `OneStart`. `LastInv` relates session, exit file and the
history of the last run (`LastRun`), and says that without the directory there
are no exit files (`NoDir`). Each action has one lemma; what an action on one
task or one call leaves alone of the others is in `Frame`, `StartKept` and
`MovedTunnelInv`.

## 7. The configuration: `ConfigCache.tla`

The worker threads of one server share three globals and no lock, so that every
access to one of them is a step, and so is every access to a file: `Exists` to
`UnCopy` are `load_config`, `BakExists` to `Replace` are `save_config_file`,
`InvCache` to `InvMtime` are `invalidate_config_cache`, `Probe` and
`MakeDirectories` what `init_probe_target` and `init_save_config` do before they
save. An editor replaces or removes the file; the server is killed.

Every write makes another content, and so another mtime: a content stands for
the mtime of its write. `broken` is a file that is truncated, or written by two
threads at a time. `loc[t].fd` is what has become of the temporary file a thread
holds open, since another thread may rename it meanwhile: all threads of a
process use one name. Normalisation and validation are the choice between
`Version` and `Invalid`.

`config_cache` has two threads, three calls, one edit or kill, three valid
versions and an invalid one: two calls race and the third observes, and a
version can be replaced twice.

| property | what could be wrong, and what is excused |
|---|---|
| `LoadIsCurrent` | a load returns what the file was not at any time during the call. Excused: another thread has assigned the globals while this one used them, or two threads have mixed their assignments, after which the cache may be wrong until the file changes again |
| `FileIsWhole` | the file is half written, also when the server is killed. Excused: two saves that have the temporary file at the same time |
| `BackupIsReplaced` | a save overwrites what is not in the backup. Excused: the file or the backup has changed since the save has looked |

Proved in `ConfigCacheProofs.tla`, for any numbers of threads, configurations,
calls and events and any faults:

| theorem | statement |
|---|---|
| `TypeCorrect` | `Spec => []TypeOK` |
| `LoadsAreCurrent` | `Spec => []LoadIsCurrent` |
| `FileStaysWhole` | `Spec => FileIsWhole` |
| `BackupHolds` | `Spec => BackupIsReplaced` |

`CacheInv` rests on two facts. A content has one place (`OnePlace`): the file,
the temporary file, or one save that is going to write it; when it has left all
of them it is `Gone` and does not come back, so that an mtime found again is that
of the same write. And the three globals are mixed by several threads, or being
assigned by one (`Assigned`), or `Consistent`: the cached configuration is the
one of the cached mtime or was read after it (`Pair`), and then every load that
has seen the older content has seen this one too, which is what makes a hit of
the cache current even when the file changes between `stat` and the read.
`ThreadInv` adds for each thread what it knows of the file (`SeenInv`), of the
globals (`ReadInv`), of its temporary file (`AloneInv`) and of the backup
(`BackupInv`).

## 8. Liveness

Only the daemon has liveness properties: its commands wait for locks and for
children. A call of `Tunnel`, `Tasks` or `ConfigCache` waits for nobody; it is a
fixed number of steps, each with a timeout in the code, and that it ends is only
that threads are scheduled. A transaction of `CodexSetup` waits for one flock
lock, which the kernel frees with its holder, and its steps are daemon commands
whose end is `CommandsEnd`.

## 9. Findings

Each is a run that finds the property violated:

- `daemon.py:361`: a start removes the record of a live daemon when `ps` was too
  slow (`daemon_ps_timeout`). While the daemon listens on the persisted port the
  same start is refused (`daemon.py:758-764`), and no command finds the daemon
  any more.
- `daemon.py:1058`: two projects' profiles may name one port after a start was
  killed (`daemon_ports_crash`).
- `codex_atomic.py:81`: an interrupt between the exchange and the resolution of a
  conflict deletes the user's version (`codex_commit_interrupt`).
- `codex_atomic.py:335`: an unreadable file is taken for an absent one, and the
  error says that the concurrent version is active when it is not
  (`codex_commit_read`).
- `tools/sync.py:385`: a push deletes the scripts, logs and exit files of the
  tasks, which are in the directory it pushes to: a finished task becomes
  "missing", and a running one cannot write its exit file (`tasks_push`). A rule
  `.nomad/` among the built-in excludes would prevent it.

Observed while modelling, and excused in the properties above (the excuse is
named) or left to the reader:

- `tools/tasks.py:259`: two `task_start`s of one task that are both past their
  check share the path of the script, and the session of the one that answers ok
  may run the script of the other, which is refused (`mixed`). A retry after a
  timeout is such a pair, since the remote command may still run. The check also
  takes an error of ssh for "no session".
- `tools/network.py:549`: the socket file of a killed master makes the next master
  run without a socket (`lost`). `tunnel_status` says "stopped" of it and
  no stop ends it, against `src/docs/08-implementation-spec.md:369` ("must still
  be able to detect an existing tunnel via its control socket").
- `tools/network.py:882`: `tunnel_stop` does not look at what came of the exit
  request, and removes whatever socket it finds afterwards, also that of a
  master another call has started since (`lost`).
- `tools/network.py:793`: `tunnel_status`, and the check before a command, ask the
  master only. For up to 90 seconds it answers that it is up when the remote port
  is gone (`upset`), against `src/docs/03-network.md:152` ("Check whether the SSH
  master and the remote port are still usable").
- `config.py:69`: threads that mix their assignments of the three cache globals
  leave an old configuration, or "unconfigured", with the mtime of the present
  file; `config.py:50`: a load returns `None` when another thread has emptied the
  cache between its assignment and its copy (`mixed`, `raced`).
- `config.py:355`: the saves of a process share the backup and the name of the
  temporary file, and `.nomad.json` may become half written (`alone`, `late`).
- `codex.py:285`, `292`: an interrupt just after the commit, or a commit that
  misreports itself, rolls a committed daemon back (`interrupted`,
  `misreported`). The daemon a repair has restarted is not rolled back; a repair
  whose health call of a healthy daemon fails restarts it, and another
  transaction's connection is gone if that fails.
- A rerun of a task that is killed leaves the exit file of the run before, and its
  status is "finished" with the old code.
- `task_kill` and `task_status` name the session without a leading `=`: without a
  session of its own, `train` is taken for the only one that begins with `train`.
- `task_start` hashes the resolved name of the target, `tunnel_start` the name as
  given: after `tunnel_start("default")` a `task_start` finds the port in use.
- `init_probe_target` saves the configuration it has loaded up to 20 seconds ago.
- A pid may be reused between the ownership check and `os.kill`
  (`daemon.py:520`): the model lets it happen, and states nothing about it.

## 10. What is not proved, and what is not modelled

Only model-checked: the liveness of the daemon's commands and claims
(`CommandsEnd`, `ClaimsEnd`). Every other property of a passing run is proved. The
findings are counterexamples, which only a run can show.

Not modelled, and why:

- `sync_pull` (it writes to a local directory nothing else reads), and the
  translation of `.gitignore` rules to rsync filters: an algorithm on strings
  whose result means what rsync says it means. In the model the project has no
  rule that concerns `.nomad`.
- `server.py`: the dispatch of calls to worker threads is the interleaving of
  `Tunnel`, `Tasks` and `ConfigCache`; the rest turns exceptions into results.
- `task_list`, `net_diagnose`, `init_discover`, `init_verify_and_probe`,
  `read_daemon_token`: they read and change nothing. `health_daemon` changes
  nothing but what the status it takes first may change.
- `security.py`, `mcp_logging.py`: predicates on strings, redaction, an
  append-only audit log whose rotation races with itself at the cost of log
  lines only.
- `result.py`, `truncate.py`, `schema.py`: functions on strings and dictionaries
  without state, for which a model would repeat the code.
