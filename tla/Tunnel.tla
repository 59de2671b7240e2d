------------------------------- MODULE Tunnel -------------------------------
(***************************************************************************)
(* The reverse tunnel of one target (tools/network.py) and the calls that  *)
(* need it: tunnel_start, tunnel_status, tunnel_stop and run_remote; what  *)
(* task_start does once it has the tunnel, and the calls that need none,   *)
(* are in Tasks.tla.                                                       *)
(*                                                                         *)
(* The server runs every tool call in a worker thread and keeps nothing in *)
(* memory about tunnels: a call learns what it knows from the ssh master   *)
(* behind a control socket and from the remote port.  Each ssh command is  *)
(* one step; between two of them other calls, and the network, act.        *)
(*                                                                         *)
(* The target's reverse tunnel is enabled.  Its name may be given in two   *)
(* ways ("default", or its name in the configuration), and the path of the *)
(* control socket is a hash of the name as given.                          *)
(***************************************************************************)
EXTENDS Naturals, FiniteSets

CONSTANTS
  Client,      \* the worker threads of servers
  Label,       \* the names under which a call may refer to the target
  Resolved,    \* its name in the configuration, which task_start uses
  Name,        \* the names of tasks (Tasks.tla)
  MaxCalls,    \* bound: how many calls are made
  MaxEvents,   \* bound: how often the network, or another program, acts
  Faults       \* what may go wrong

ASSUME TunnelAssumption ==
  /\ Resolved \in Label
  /\ Name # {}
  /\ Label \cap {"free", "foreign"} = {}
  /\ MaxCalls \in Nat /\ MaxEvents \in Nat

\* ssh_error: ssh fails or times out where nothing depends on it, or a guard refuses the
\* call; check_timeout, probe_timeout: the check of the master, or of the port, is too
\* slow; exit_error: the master is not told to exit; spawn_timeout: ssh -f is too slow;
\* late: a remote command that has timed out here may still run there; cd_error: the
\* directory of the project cannot be entered (both in Tasks.tla).
ASSUME FaultAssumption ==
  Faults \subseteq {"ssh_error", "check_timeout", "probe_timeout", "exit_error",
                    "spawn_timeout", "late", "cd_error"}

VARIABLES
  holder,  \* who has the remote port: nobody, a foreign process (such as the sshd of a
           \* connection that is gone), or the master a tunnel_start for that label has
           \* started
  sock,    \* what is at the path of each label's control socket
  parting, \* labels of which a master without port and socket is still to end
  lost,    \* history: the master got out of reach in a way the code does not prevent
  pc,      \* the next step of each client, or the answer of its last call
  call,    \* its call
  calls,   \* how many calls were made
  starts,  \* and how many of them are task_starts
  events   \* how often the environment has acted

tunnel == <<holder, sock, parting, lost>>
threads == <<pc, call, calls, starts, events>>
tunnelVars == <<tunnel, threads>>

\* stale: the socket file of a master that was killed.  live: its master has the port.
\* deaf: its master answers, and has not noticed that it has lost connection and port.
Socket == {"none", "stale", "live", "deaf"}

TunnelOp == {"tunnel_start", "tunnel_status", "tunnel_stop", "run_remote"}
TaskOp == {"task_start", "task_status", "task_kill"}
Op == TunnelOp \cup TaskOp \cup {"sync_push"}

\* id: a number that tells one task_start from another; upset: history, the port was lost
\* since the call has begun, or before and the master it has found had not noticed.
Call == [op : Op, label : Label, name : Name, id : 0 .. MaxCalls,
         upset : BOOLEAN]

TunnelSteps == {"ensure", "start_check", "start_port", "start_spawn", "run", "stop_exit",
                "stop_unlink", "status_check"}
TaskSteps == {"has_session", "write", "new_session", "status", "kill", "push_dry", "push"}
\* done: the call has returned, be its result ok or not, on which nothing depends; the
\* others are what a status says.
Answers == {"done", "running", "stopped", "finished", "unknown", "missing", "no_answer"}

Idle(c) == pc[c] \in Answers
Port == {"free", "foreign"} \cup Label

TunnelTypeOK ==
  /\ holder \in Port
  /\ sock \in [Label -> Socket]
  /\ parting \subseteq Label
  /\ lost \in BOOLEAN
  /\ pc \in [Client -> TunnelSteps \cup TaskSteps \cup Answers]
  /\ call \in [Client -> Call]
  /\ calls \in 0 .. MaxCalls
  /\ starts \in 0 .. calls
  /\ events \in 0 .. MaxEvents

-----------------------------------------------------------------------------
NoCall == [op |-> "tunnel_status", label |-> Resolved, name |-> CHOOSE n \in Name : TRUE,
           id |-> 0, upset |-> FALSE]

TunnelInit ==
  /\ holder = "free"
  /\ sock = [l \in Label |-> "none"]
  /\ parting = {}
  /\ lost = FALSE
  /\ pc = [c \in Client |-> "done"]
  /\ call = [c \in Client |-> NoCall]
  /\ calls = 0
  /\ starts = 0
  /\ events = 0

Fault(f) == f \in Faults

Goto(c, step) == pc' = [pc EXCEPT ![c] = step]

\* A call goes on, or returns.
Continue(c, step) == Goto(c, step) /\ UNCHANGED <<call, calls, starts, events>>
Return(c, answer) ==
  Goto(c, answer) /\ call' = [call EXCEPT ![c] = NoCall] /\ UNCHANGED <<calls, starts, events>>
Fail(c) == Return(c, "done")

\* The calls under way, when the port is lost.
Upset == [c \in Client |-> IF Idle(c) THEN call[c] ELSE [call[c] EXCEPT !.upset = TRUE]]

-----------------------------------------------------------------------------
(* The ssh commands *)

\* The master of the label answers through its control socket.
Up(l) == sock[l] \in {"live", "deaf"}

\* Mutant: the file of the socket is enough.
Check_File(l) == sock[l] # "none"

\* What _check_tunnel_master returns.
Check(l) == Up(l)
Checks(l) == {Check(l)} \cup (IF Fault("check_timeout") THEN {FALSE} ELSE {})

\* What _check_remote_port_in_use returns.
PortProbes == {holder # "free"} \cup (IF Fault("probe_timeout") THEN {FALSE} ELSE {})

\* Another call is about to remove the socket of the label.
Unlinking(l) == \E c \in Client : pc[c] = "stop_unlink" /\ call[c].label = l

\* ssh -f -N -M -S .. -o ExitOnForwardFailure=yes: a master that cannot have the port
\* exits.  One that finds a file at the path of its socket runs without a socket.
MasterStarts(l) ==
  /\ holder = "free"
  /\ holder' = l
  /\ sock' = IF sock[l] = "none" THEN [sock EXCEPT ![l] = "live"] ELSE sock
  /\ lost' = (sock[l] # "none" \/ Unlinking(l))
  /\ UNCHANGED parting

\* The master no longer has the port, and its socket is something else.
MasterLoses(next, socket) ==
  /\ holder \in Label
  /\ holder' = next
  /\ sock' = IF sock[holder] = "live" THEN [sock EXCEPT ![holder] = socket] ELSE sock
  /\ lost' = FALSE

-----------------------------------------------------------------------------
(* The calls *)

First == [tunnel_start |-> "start_check", tunnel_status |-> "status_check",
          tunnel_stop |-> "stop_exit", run_remote |-> "ensure",
          task_start |-> "ensure", task_status |-> "status", task_kill |-> "kill",
          sync_push |-> "push_dry"]

\* A client makes a call.
BeginCall(c) ==
  /\ Idle(c)
  /\ calls < MaxCalls
  /\ \E op \in Op, l \in Label, n \in Name :
       /\ op \notin TunnelOp => l = Resolved
       /\ op \notin TaskOp => n = NoCall.name
       /\ call' = [call EXCEPT ![c] =
            [op |-> op, label |-> l, name |-> n, upset |-> FALSE,
             id |-> IF op = "task_start" THEN starts + 1 ELSE 0]]
       /\ starts' = IF op = "task_start" THEN starts + 1 ELSE starts
       /\ Goto(c, First[op])
  /\ calls' = calls + 1
  /\ UNCHANGED <<tunnel, events>>

\* The tunnel is up, as far as its master knows: tunnel_start answers, run_remote and
\* task_start go on.
Ready(c, deaf) ==
  IF call[c].op = "tunnel_start" THEN Return(c, "done")
  ELSE /\ Goto(c, IF call[c].op = "run_remote" THEN "run" ELSE "has_session")
       /\ call' = [call EXCEPT ![c].upset = @ \/ deaf]
       /\ UNCHANGED <<calls, starts, events>>

\* run_remote and task_start, and tunnel_start, which they call if the tunnel is not up:
\* the guards and probe_ssh_connectivity_result, which may end the call, then the check
\* of the master.  The probe tells nothing the model keeps, so that the two are one step.
LooksForMaster(c, otherwise) ==
  /\ UNCHANGED tunnel
  /\ \/ \E up \in Checks(call[c].label) :
          IF up THEN Ready(c, sock[call[c].label] = "deaf") ELSE Continue(c, otherwise)
     \/ Fault("ssh_error") /\ Fail(c)

EnsureTunnel(c) == pc[c] = "ensure" /\ LooksForMaster(c, "start_check")
StartCheck(c) == pc[c] = "start_check" /\ LooksForMaster(c, "start_port")

StartPort(c) ==
  /\ pc[c] = "start_port"
  /\ UNCHANGED tunnel
  /\ \E used \in PortProbes : IF used THEN Fail(c) ELSE Continue(c, "start_spawn")

\* An ssh that is too slow is killed: before it has done anything, after it has made its
\* socket, or when the master already runs in the background.
StartSpawn(c) ==
  /\ pc[c] = "start_spawn"
  /\ LET l == call[c].label IN
     \/ MasterStarts(l) /\ Ready(c, FALSE)
     \/ (holder # "free" \/ Fault("ssh_error")) /\ UNCHANGED tunnel /\ Fail(c)
     \/ /\ Fault("spawn_timeout")
        /\ \/ MasterStarts(l)
           \/ /\ sock[l] = "none"
              /\ sock' = [sock EXCEPT ![l] = "stale"]
              /\ UNCHANGED <<holder, parting, lost>>
        /\ Fail(c)

\* The command itself: what it does on the remote host is its own affair.
RunCommand(c) ==
  /\ pc[c] = "run"
  /\ UNCHANGED tunnel
  /\ \/ Return(c, "done")
     \/ Fault("ssh_error") /\ Fail(c)

StatusCheck(c) ==
  /\ pc[c] = "status_check"
  /\ UNCHANGED tunnel
  /\ \/ \E up \in Checks(call[c].label) : Return(c, IF up THEN "running" ELSE "stopped")
     \/ Fault("ssh_error") /\ Fail(c)

\* Mutant: tunnel_stop only removes the socket.
StopExit_Unlink(c) ==
  /\ pc[c] = "stop_exit"
  /\ UNCHANGED tunnel
  /\ Continue(c, "stop_unlink")

\* tunnel_stop tells the master to exit, whatever comes of it.
StopExit(c) ==
  /\ pc[c] = "stop_exit"
  /\ LET l == call[c].label IN
     \/ /\ sock[l] = "live"
        /\ MasterLoses("free", "none")
        /\ UNCHANGED parting
        /\ call' = Upset
        /\ Goto(c, "stop_unlink")
        /\ UNCHANGED <<calls, starts, events>>
     \/ /\ sock[l] = "deaf"
        /\ sock' = [sock EXCEPT ![l] = "none"]
        /\ UNCHANGED <<holder, parting, lost>>
        /\ Continue(c, "stop_unlink")
     \/ ~Up(l) /\ UNCHANGED tunnel /\ Continue(c, "stop_unlink")
     \/ /\ Up(l) /\ Fault("exit_error")
        /\ lost' = (lost \/ sock[l] = "live")
        /\ UNCHANGED <<holder, sock, parting>>
        /\ Continue(c, "stop_unlink")
     \/ Fault("ssh_error") /\ UNCHANGED tunnel /\ Fail(c)   \* a guard refuses

\* It removes the socket, and always answers that the tunnel is stopped.
StopUnlink(c) ==
  /\ pc[c] = "stop_unlink"
  /\ LET l == call[c].label IN
     /\ sock' = [sock EXCEPT ![l] = "none"]
     /\ parting' = IF sock[l] = "deaf" THEN parting \cup {l} ELSE parting
  /\ UNCHANGED <<holder, lost>>
  /\ Return(c, "done")

TunnelCall(c) ==
  \/ EnsureTunnel(c) \/ StartCheck(c) \/ StartPort(c) \/ StartSpawn(c) \/ RunCommand(c)
  \/ StatusCheck(c) \/ StopExit(c) \/ StopUnlink(c)

-----------------------------------------------------------------------------
(* The environment *)

Event == events < MaxEvents /\ events' = events + 1 /\ UNCHANGED <<calls, starts>>

\* The master notices at once that its connection is gone, and cleans up, or is killed
\* and leaves its socket; the remote sshd may notice later.
MasterDies(socket) ==
  /\ \E next \in {"free", "foreign"} : MasterLoses(next, socket)
  /\ UNCHANGED parting
  /\ call' = Upset
  /\ Event /\ UNCHANGED pc

\* The remote sshd gives up the connection, or is gone; the master goes on answering
\* until ServerAliveCountMax messages had no reply.
PortDropped ==
  /\ MasterLoses("free", "deaf")
  /\ parting' = IF sock[holder] = "live" THEN parting ELSE parting \cup {holder}
  /\ call' = Upset
  /\ Event /\ UNCHANGED pc

\* Then it ends, and removes the file at the path of its socket: its own, or by now
\* perhaps the socket of another master.
DeafEnds(l) ==
  /\ sock[l] = "deaf"
  /\ sock' = [sock EXCEPT ![l] = "none"]
  /\ UNCHANGED <<holder, parting, lost, threads>>

PartingEnds(l) ==
  /\ l \in parting
  /\ parting' = parting \ {l}
  /\ sock' = [sock EXCEPT ![l] = "none"]
  /\ lost' = (lost \/ sock[l] = "live")
  /\ UNCHANGED <<holder, threads>>

\* A process of the remote host takes the port, or gives it back.
PortTaken ==
  holder = "free" /\ holder' = "foreign" /\ Event /\ UNCHANGED <<sock, parting, lost, pc, call>>
PortReleased ==
  holder = "foreign" /\ holder' = "free" /\ Event /\ UNCHANGED <<sock, parting, lost, pc, call>>

TunnelEnvironment ==
  \/ \E socket \in {"none", "stale"} : MasterDies(socket)
  \/ PortDropped
  \/ \E l \in Label : DeafEnds(l) \/ PartingEnds(l)
  \/ PortTaken \/ PortReleased

-----------------------------------------------------------------------------
(* Properties *)

\* A master that has the port can be reached through its control socket, so that
\* tunnel_status sees it and tunnel_stop stops it; except for what the code does not
\* prevent: a stop whose exit request failed and which removes the socket all the same, a
\* start between the two steps of a stop, a start that finds the socket of another
\* master, killed or deaf, and a master that ends late and removes its successor's.
NoOrphan == holder \in Label => sock[holder] = "live" \/ lost

\* Past its check of the tunnel, a call that exports the proxy to the remote command has
\* the master of its own label at the other end of the port, unless the port was lost
\* since the call has begun, or the master it found had not noticed that it was.
Launching == {"run"} \cup {"has_session", "write", "new_session"}
TunnelUpForLaunch ==
  \A c \in Client : pc[c] \in Launching => holder = call[c].label \/ call[c].upset
=============================================================================
