------------------------------- MODULE Tasks --------------------------------
(***************************************************************************)
(* The long-running tasks of one target (tools/tasks.py): task_start,      *)
(* task_status and task_kill, with the calls and the tunnel of Tunnel.tla, *)
(* of which task_start makes use; and sync_push (tools/sync.py), whose     *)
(* rsync --delete empties the directory that holds the files of the tasks. *)
(*                                                                         *)
(* A task is a tmux session on the remote host and three files named after *)
(* it: its script, its log, and the exit file the script writes at its end.*)
(* Nothing is kept locally, and each ssh command is one step.  A session   *)
(* reads its script only after tmux has made it.                           *)
(***************************************************************************)
EXTENDS Tunnel

CONSTANTS
  Prefix,      \* the pairs of names of which the first is a prefix of the second
  MaxLate,     \* bound: how many commands that have timed out are still to run at a time
  MaxDeletes   \* RSYNC_DELETE_THRESHOLD

ASSUME TasksAssumption ==
  /\ MaxLate \in Nat /\ MaxDeletes \in Nat
  /\ Prefix \subseteq Name \X Name
  /\ \A n \in Name : <<n, n>> \notin Prefix

VARIABLES
  session,  \* the tmux session of each task, or NoSession
  script,   \* which task_start has written its script file
  exitf,    \* which run has written its exit file
  log,      \* whether it has a log
  dir,      \* whether there is the directory of the files, .nomad/tasks
  late,     \* commands that have timed out here and may still run there
  last,     \* history: the last run of each task, and how it has ended
  mixed,    \* history: the last two starts of a task were not one after the other
  swept     \* history: a push has removed files of the last run of a task

remote == <<session, script, exitf, log, dir>>
taskVars == <<remote, late, last, mixed, swept>>
vars == <<tunnelVars, taskVars>>

\* A run, or a script, is called by the number of its task_start; 0 is none.
Id == 0 .. MaxCalls

\* run: the start that has made it; ran: whose script it has read.
\* new: bash has not read the script yet; exited: it has written the exit file.
NoSession == [run |-> 0, ran |-> 0, phase |-> "none"]
Session == [run : Id, ran : Id, phase : {"none", "new", "running", "exited"}]
Late == [kind : {"write", "new", "kill"}, name : Name, id : Id]
Last == [run : Id, ended : {"no", "normally", "early"}]

\* The variables keep to their ranges.
TypeOK ==
  /\ TunnelTypeOK
  /\ session \in [Name -> Session]
  /\ script \in [Name -> Id]
  /\ exitf \in [Name -> Id]
  /\ log \in [Name -> BOOLEAN]
  /\ dir \in BOOLEAN
  /\ late \subseteq Late
  /\ last \in [Name -> Last]
  /\ mixed \subseteq Name
  /\ swept \subseteq Name

Init ==
  /\ TunnelInit
  /\ session = [n \in Name |-> NoSession]
  /\ script = [n \in Name |-> 0]
  /\ exitf = [n \in Name |-> 0]
  /\ log = [n \in Name |-> FALSE]
  /\ dir = FALSE
  /\ late = {}
  /\ last = [n \in Name |-> [run |-> 0, ended |-> "no"]]
  /\ mixed = {}
  /\ swept = {}

-----------------------------------------------------------------------------
(* tmux, and the files *)

Exists(n) == session[n] # NoSession

\* The session tmux takes `-t n` for: that of the name, or the only one whose name
\* begins with it.
Target(n) ==
  LET begins == {m \in Name : <<n, m>> \in Prefix /\ Exists(m)} IN
  IF Exists(n) THEN {n} ELSE IF Cardinality(begins) = 1 THEN begins ELSE {}

WriteScript(n, id) ==
  /\ dir' = TRUE
  /\ script' = [script EXCEPT ![n] = id]
  /\ UNCHANGED <<session, exitf, log, last, swept>>

\* tmux new-session; the shell of the session opens its log first, and ends if it cannot.
MakeSession(n, id) ==
  /\ UNCHANGED <<script, exitf, dir>>
  /\ \/ /\ dir
        /\ session' = [session EXCEPT ![n] = [run |-> id, ran |-> 0, phase |-> "new"]]
        /\ log' = [log EXCEPT ![n] = TRUE]
        /\ last' = [last EXCEPT ![n] = [run |-> id, ended |-> "no"]]
        /\ swept' = swept \ {n}
     \/ /\ ~dir
        /\ last' = [last EXCEPT ![n] = [run |-> id, ended |-> "early"]]
        /\ UNCHANGED <<session, log, swept>>

\* The session of n is gone.
Gone(n, how) ==
  /\ session' = [session EXCEPT ![n] = NoSession]
  /\ last' = [last EXCEPT ![n].ended = how]

\* tmux kill-session, which fails silently if there is none.
KillSession(n) ==
  /\ UNCHANGED <<script, exitf, log, dir, swept>>
  /\ IF Target(n) = {} THEN UNCHANGED <<session, last>>
     ELSE \E m \in Target(n) :
            Gone(m, IF session[m].phase = "exited" THEN "normally" ELSE "early")

\* The files of the tasks.
File ==
  {<<"script", n>> : n \in {m \in Name : script[m] # 0}}
    \cup {<<"exit", n>> : n \in {m \in Name : exitf[m] # 0}}
    \cup {<<"log", n>> : n \in {m \in Name : log[m]}}

\* What rsync --dry-run says it would delete, two directories included: the project has
\* none of it here, and no rule that keeps rsync from .nomad.
Deletions == IF dir THEN Cardinality(File) + 2 ELSE 0

\* rsync --delete removes files, and at last the directories.
Delete(gone) ==
  /\ script' = [n \in Name |-> IF <<"script", n>> \in gone THEN 0 ELSE script[n]]
  /\ exitf' = [n \in Name |-> IF <<"exit", n>> \in gone THEN 0 ELSE exitf[n]]
  /\ log' = [n \in Name |-> log[n] /\ <<"log", n>> \notin gone]
  /\ dir' = (dir /\ gone # File)
  /\ swept' = IF gone = File THEN Name
              ELSE swept \cup {n \in Name : \E f \in gone : f[2] = n}
  /\ UNCHANGED session

-----------------------------------------------------------------------------
(* The calls *)

\* A remote command that times out: ssh is killed, the command need not be.
TimesOut(c, kind) ==
  /\ Fault("late")
  /\ Cardinality(late) < MaxLate
  /\ late' = late \cup {[kind |-> kind, name |-> call[c].name, id |-> call[c].id]}
  /\ UNCHANGED <<tunnel, remote, last, mixed, swept>>
  /\ Fail(c)

\* It fails, and has no effect.
RemoteFails(c) == Fault("ssh_error") /\ UNCHANGED <<tunnel, taskVars>> /\ Fail(c)

\* Another start of the same task is past its check, or may still take effect.
Overlapped(c) ==
  \/ \E d \in Client \ {c} : /\ pc[d] \in {"write", "new_session"}
                             /\ call[d].name = call[c].name
  \/ \E k \in late : k.name = call[c].name /\ k.kind \in {"write", "new"}

\* Mutant: whether the task exists is not looked at.
HasSession_Blind(c) ==
  /\ pc[c] = "has_session"
  /\ UNCHANGED <<tunnel, remote, late, last, swept>>
  /\ mixed' = IF Overlapped(c) THEN mixed \cup {call[c].name} ELSE mixed \ {call[c].name}
  /\ Continue(c, "write")

\* task_start looks for a session of the name.  An answer of ssh that is no "yes" is a
\* "no", an error of ssh itself included.
HasSession(c) ==
  /\ pc[c] = "has_session"
  /\ \/ /\ Target(call[c].name) # {}
        /\ UNCHANGED <<tunnel, taskVars>>
        /\ Fail(c)
     \/ /\ Target(call[c].name) = {}
        /\ UNCHANGED <<tunnel, remote, late, last, swept>>
        /\ mixed' = IF Overlapped(c) THEN mixed \cup {call[c].name}
                    ELSE mixed \ {call[c].name}
        /\ Continue(c, "write")
     \/ /\ Fault("ssh_error")
        /\ UNCHANGED <<tunnel, remote, late, last, swept>>
        /\ mixed' = mixed \cup {call[c].name}
        /\ Continue(c, "write")
     \/ RemoteFails(c)

\* It uploads the script.
Write(c) ==
  /\ pc[c] = "write"
  /\ \/ /\ WriteScript(call[c].name, call[c].id)
        /\ UNCHANGED <<tunnel, late, mixed>>
        /\ Continue(c, "new_session")
     \/ RemoteFails(c)
     \/ TimesOut(c, "write")

\* It makes the session, which tmux refuses if there is one of exactly this name.
NewSession(c) ==
  /\ pc[c] = "new_session"
  /\ \/ /\ ~Exists(call[c].name)
        /\ MakeSession(call[c].name, call[c].id)
        /\ UNCHANGED <<tunnel, late, mixed>>
        /\ Return(c, "done")
     \/ Exists(call[c].name) /\ UNCHANGED <<tunnel, taskVars>> /\ Fail(c)
     \/ RemoteFails(c)
     \/ TimesOut(c, "new")

\* Mutant: the exit file is looked at before the session.
StatusOf_File(n) ==
  IF exitf[n] # 0 THEN "finished"
  ELSE IF Target(n) # {} THEN "running"
  ELSE IF log[n] THEN "unknown"
  ELSE "missing"

\* Mutant: what is said of a log without an exit file is passed on as it is.
StatusOf_Unparsed(n) ==
  IF Target(n) # {} THEN "running"
  ELSE IF exitf[n] # 0 THEN "finished"
  ELSE IF log[n] THEN "log_exists_without_exit"
  ELSE "missing"

\* What the script of task_status prints.
StatusOf(n) ==
  IF Target(n) # {} THEN "running"
  ELSE IF exitf[n] # 0 THEN "finished"
  ELSE IF log[n] THEN "unknown"
  ELSE "missing"

TaskStatus(c) ==
  /\ pc[c] = "status"
  /\ UNCHANGED <<tunnel, taskVars>>
  /\ \/ Return(c, StatusOf(call[c].name))
     \/ Fault("ssh_error") /\ (Return(c, "no_answer") \/ Fail(c))

TaskKill(c) ==
  /\ pc[c] = "kill"
  /\ \/ /\ KillSession(call[c].name)
        /\ UNCHANGED <<tunnel, late, mixed>>
        /\ Return(c, "done")
     \/ RemoteFails(c)
     \/ TimesOut(c, "kill")

\* sync_push: guards, preflight, the filter and the dry run, none of which changes
\* anything; too many deletions end it.
PushDryRun(c) ==
  /\ pc[c] = "push_dry"
  /\ UNCHANGED <<tunnel, taskVars>>
  /\ \/ Deletions <= MaxDeletes /\ Continue(c, "push")
     \/ (Deletions > MaxDeletes \/ Fault("ssh_error")) /\ Fail(c)

\* The real run deletes what there is by now.  If it fails, or is too slow, it has
\* deleted some of it.
Push(c) ==
  /\ pc[c] = "push"
  /\ UNCHANGED <<tunnel, late, last, mixed>>
  /\ \/ Delete(File) /\ Return(c, "done")
     \/ /\ Fault("ssh_error")
        /\ \E gone \in SUBSET File : Delete(gone)
        /\ Fail(c)

-----------------------------------------------------------------------------
(* The remote host *)

\* A command that has timed out takes effect all the same.
RunsLate(k) ==
  /\ late' = late \ {k}
  /\ UNCHANGED <<tunnelVars, mixed>>
  /\ \/ k.kind = "write" /\ WriteScript(k.name, k.id)
     \/ k.kind = "new" /\ IF Exists(k.name) THEN UNCHANGED <<remote, last, swept>>
                          ELSE MakeSession(k.name, k.id)
     \/ k.kind = "kill" /\ KillSession(k.name)

\* The script is read; it ends at once when it cannot change to its directory, and bash
\* when there is no script.
SessionReads(n) ==
  /\ session[n].phase = "new"
  /\ UNCHANGED <<tunnelVars, script, exitf, log, dir, late, mixed, swept>>
  /\ \/ /\ script[n] # 0
        /\ session' = [session EXCEPT ![n].ran = script[n], ![n].phase = "running"]
        /\ UNCHANGED last
     \/ (script[n] = 0 \/ Fault("cd_error")) /\ Gone(n, "early")

\* The command is over: the script writes the exit file, if it can.
SessionExits(n) ==
  /\ session[n].phase = "running"
  /\ session' = [session EXCEPT ![n].phase = "exited"]
  /\ exitf' = IF dir THEN [exitf EXCEPT ![n] = session[n].run] ELSE exitf
  /\ UNCHANGED <<tunnelVars, script, log, dir, late, last, mixed, swept>>

\* Bash ends, and tmux with it.
SessionEnds(n) ==
  /\ session[n].phase = "exited"
  /\ Gone(n, "normally")
  /\ UNCHANGED <<tunnelVars, script, exitf, log, dir, late, mixed, swept>>

-----------------------------------------------------------------------------
TunnelNext ==
  \/ \E c \in Client : BeginCall(c) \/ TunnelCall(c)
  \/ TunnelEnvironment

TaskNext ==
  \/ \E c \in Client : HasSession(c) \/ Write(c) \/ NewSession(c) \/ TaskStatus(c)
                       \/ TaskKill(c) \/ PushDryRun(c) \/ Push(c)
  \/ \E k \in late : RunsLate(k)
  \/ \E n \in Name : SessionReads(n) \/ SessionExits(n) \/ SessionEnds(n)

Next == (TunnelNext /\ UNCHANGED taskVars) \/ TaskNext

Spec == Init /\ [][Next]_vars

-----------------------------------------------------------------------------
(* Properties *)

\* A session runs the script of the task_start that has made it, although checking for
\* the session, uploading the script and making the session are three remote calls and
\* the script is read later still; unless two starts of one task overlap, an earlier
\* one that timed out may still take effect, or ssh itself failed at the check.
OwnScript ==
  \A n \in Name \ mixed :
    session[n].phase \in {"running", "exited"} => session[n].ran = session[n].run

\* What task_status makes of the session and the exit file is about the last run of the
\* task: it does not say finished for the exit file of an earlier run, unless the last
\* one was killed or could not begin, which leaves the old file in place; and once the
\* last run has ended by itself, it is neither missing nor unknown, unless a push has
\* removed its files.
StatusIsOfLastRun ==
  [][\A c \in Client : pc[c] = "status" /\ pc'[c] # "status" =>
       LET n == call[c].name IN
       /\ pc'[c] = "finished" => last[n].ended = "early" \/ exitf[n] = last[n].run
       /\ last[n].ended = "normally" /\ n \notin swept =>
            pc'[c] \notin {"missing", "unknown"}]_vars

\* "When the command exits, the exit code is forcibly written [...], preventing state
\* loss" (docs/02-tools.md): what has ended by itself is never missing or unknown.
ResultKept ==
  [][\A c \in Client : pc[c] = "status" /\ pc'[c] # "status" =>
       (last[call[c].name].ended = "normally" => pc'[c] \notin {"missing", "unknown"})]_vars
=============================================================================
