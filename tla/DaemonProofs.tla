---------------------------- MODULE DaemonProofs ----------------------------
(***************************************************************************)
(* Proofs about Daemon, for any number of commands, projects and ports.    *)
(***************************************************************************)
EXTENDS Daemon, TLAPS

\* The environment in which a live daemon cannot be forgotten: ps answers, and
\* an interrupt does not hit the launch between the fork and the assignment of
\* the Popen object.
Benign == Faults \cap {"ps_timeout", "popen_interrupt"} = {}

-----------------------------------------------------------------------------
(* Types                                                                   *)

\* What a step may write is well typed: the selected port is a port.
LEMMA StartPortsType ==
  ASSUME NEW p \in Project, NEW r \in AnyPort \cup {NoPort},
         profile \in [Project -> AnyPort \cup {NoPort}]
  PROVE  StartPorts(p, r) \subseteq AnyPort
<1>1. \A k \in Port : (DefaultPort[p] + k) % NPorts \in Port
  <2> SUFFICES ASSUME NEW k \in Port PROVE (DefaultPort[p] + k) % NPorts \in Port
    OBVIOUS
  <2>1. DefaultPort[p] \in Nat /\ k \in Nat /\ NPorts \in Nat /\ NPorts > 0
    BY PortAssumption DEF Port
  <2>2. QED
    BY <2>1 DEF Port
<1>2. ScanPorts(p) \subseteq Port
  BY <1>1 DEF ScanPorts
<1>3. QED
  BY <1>2 DEF StartPorts, AnyPort

\* The records of the state file.
LEMMA StateFacts ==
  ASSUME NEW s \in State, s # NoState
  PROVE  s.inst \in Cli /\ s.life \in Life
BY DEF State

LEMMA NoStateFacts == NoState \in State /\ NoState.inst = NoCli /\ NoState.life = "none"
BY DEF State, NoState

LEMMA RecordFacts ==
  ASSUME NEW i \in Cli, NEW l \in Life
  PROVE  /\ Record(i, l) \in State /\ Record(i, l) # NoState
         /\ Record(i, l).inst = i /\ Record(i, l).life = l
BY CliAssumption DEF State, NoState, Record, Life

\* The names of the steps: those that act on a record, and the others.
LEMMA StepFacts ==
  /\ "poll" \in Pc /\ "claim_lock" \in Pc /\ "recover" \in Pc /\ "alive" \in Pc
  /\ "owned" \in Pc /\ "recheck" \in Pc /\ "health" \in Pc /\ "promote_port" \in Pc
  /\ "promote_state" \in Pc /\ "signal" \in Pc /\ "await_exit" \in Pc /\ "read" \in Pc
  /\ "ports" \in Pc /\ "return" \in Pc /\ "waiting" \in Pc /\ "done" \in Pc
  /\ "crashed" \in Pc /\ "select" \in Pc /\ "launch" \in Pc /\ "token" \in Pc
  /\ "token_write" \in Pc /\ "popen" \in Pc /\ "remove" \in Pc /\ "claim" \in Pc
  /\ "ready" \in Pc /\ "verify" \in Pc /\ "persist_port" \in Pc /\ "persist_state" \in Pc
  /\ "terminate" \in Pc
  /\ "read" \notin RecordSteps /\ "ports" \notin RecordSteps /\ "return" \notin RecordSteps
  /\ "waiting" \notin RecordSteps /\ "done" \notin RecordSteps /\ "crashed" \notin RecordSteps
  /\ "select" \notin RecordSteps /\ "launch" \notin RecordSteps /\ "token" \notin RecordSteps
  /\ "token_write" \notin RecordSteps /\ "popen" \notin RecordSteps /\ "remove" \notin RecordSteps
  /\ "claim" \notin RecordSteps /\ "ready" \notin RecordSteps /\ "verify" \notin RecordSteps
  /\ "persist_port" \notin RecordSteps /\ "persist_state" \notin RecordSteps /\ "terminate" \notin RecordSteps
  /\ "poll" \in RecordSteps /\ "claim_lock" \in RecordSteps /\ "recover" \in RecordSteps
  /\ "alive" \in RecordSteps /\ "owned" \in RecordSteps /\ "recheck" \in RecordSteps
  /\ "health" \in RecordSteps /\ "promote_port" \in RecordSteps /\ "promote_state" \in RecordSteps
  /\ "signal" \in RecordSteps /\ "await_exit" \in RecordSteps
BY DEF Pc, ProjectSteps, RecordSteps, PortSteps, Launched

\* The values the variables take.
LEMMA ValueFacts ==
  /\ "none" \in Result /\ "stopped" \in Result /\ "starting" \in Result
  /\ "running" \in Result /\ "mismatch" \in Result /\ "refused" \in Result
  /\ "error" \in Result /\ "failed" \in Result
  /\ "none" \in Proc /\ "booting" \in Proc /\ "claiming" \in Proc /\ "claimed" \in Proc
  /\ "serving" \in Proc /\ "dead" \in Proc /\ "reused" \in Proc
  /\ "launching" \in Life /\ "starting" \in Life /\ "running" \in Life
  /\ "absent" \in Token /\ "torn" \in Token /\ "ok" \in Token /\ "start" \in Op
BY DEF Result, Proc, Alive, Life, Token, Op

\* What an update of one variable of one command leaves alone.
LEMMA GotoFacts ==
  ASSUME pc \in [Cli -> Pc], NEW c \in Cli, NEW s \in Pc, Goto(c, s)
  PROVE  /\ pc' \in [Cli -> Pc] /\ pc'[c] = s
         /\ \A d \in Cli : d # c => pc'[d] = pc[d]
BY DEF Goto

LEMMA SetStateFacts ==
  ASSUME state \in [Project -> State], NEW c \in Cli, NEW s \in State, SetState(c, s)
  PROVE  /\ state' \in [Project -> State] /\ state'[ProjectOf[c]] = s
         /\ \A p \in Project : p # ProjectOf[c] => state'[p] = state[p]
BY CliAssumption DEF SetState

LEMMA SetProfileFacts ==
  ASSUME profile \in [Project -> AnyPort \cup {NoPort}], NEW c \in Cli,
         NEW q \in AnyPort \cup {NoPort}, SetProfile(c, q)
  PROVE  /\ profile' \in [Project -> AnyPort \cup {NoPort}] /\ profile'[ProjectOf[c]] = q
         /\ \A p \in Project : p # ProjectOf[c] => profile'[p] = profile[p]
BY CliAssumption DEF SetProfile

LEMMA SetTokenFacts ==
  ASSUME token \in [Project -> Token], NEW c \in Cli, NEW t \in Token, SetToken(c, t)
  PROVE  /\ token' \in [Project -> Token] /\ token'[ProjectOf[c]] = t
         /\ \A p \in Project : p # ProjectOf[c] => token'[p] = token[p]
BY CliAssumption DEF SetToken

LEMMA SetProcFacts ==
  ASSUME proc \in [Cli -> Proc], NEW c \in Cli, NEW s \in Proc, SetProc(c, s)
  PROVE  /\ proc' \in [Cli -> Proc] /\ proc'[c] = s
         /\ \A d \in Cli : d # c => proc'[d] = proc[d]
BY DEF SetProc

LEMMA SeeFacts ==
  ASSUME seen \in [Cli -> State], NEW c \in Cli, NEW s \in State, See(c, s)
  PROVE  /\ seen' \in [Cli -> State] /\ seen'[c] = s
         /\ \A d \in Cli : d # c => seen'[d] = seen[d]
BY DEF See

LEMMA ReturnFacts ==
  ASSUME pc \in [Cli -> Pc], res \in [Cli -> Result],
         NEW c \in Cli, NEW r \in Result, Return(c, r)
  PROVE  /\ pc' \in [Cli -> Pc] /\ pc'[c] = "return"
         /\ \A d \in Cli : d # c => pc'[d] = pc[d] /\ res'[d] = res[d]
         /\ res' \in [Cli -> Result] /\ res'[c] = r
BY StepFacts, GotoFacts DEF Return

LEMMA AbsentFacts ==
  ASSUME pc \in [Cli -> Pc], op \in [Cli -> Op], res \in [Cli -> Result],
         NEW c \in Cli, Absent(c)
  PROVE  /\ pc' \in [Cli -> Pc] /\ op' \in [Cli -> Op] /\ res' \in [Cli -> Result]
         /\ \A d \in Cli : d # c => pc'[d] = pc[d] /\ op'[d] = op[d] /\ res'[d] = res[d]
         /\ pc'[c] \in {"return", "read", "ports"}
<1>1. CASE op[c] \in {"status", "stop"} /\ Return(c, "stopped") /\ UNCHANGED op
  BY <1>1, ReturnFacts DEF Result
<1>2. CASE op[c] = "restart" /\ op' = [op EXCEPT ![c] = "start"] /\ Goto(c, "read")
           /\ UNCHANGED res
  <2>1. "start" \in Op
    BY DEF Op
  <2>2. QED
    BY <1>2, <2>1, GotoFacts, StepFacts
<1>3. CASE op[c] = "start" /\ Goto(c, "ports") /\ UNCHANGED <<op, res>>
  BY <1>3, GotoFacts, StepFacts
<1>4. QED
  BY <1>1, <1>2, <1>3 DEF Absent

LEMMA InitTypeOK == Init => TypeOK
BY ValueFacts, StepFacts, NoStateFacts, PortAssumption
DEF Init, TypeOK

LEMMA NextTypeOK == TypeOK /\ [Next]_vars => TypeOK'
<1> SUFFICES ASSUME TypeOK, [Next]_vars PROVE TypeOK'
  OBVIOUS
<1> USE CliAssumption, StepFacts, ValueFacts DEF TypeOK, files, locals
<1>1. CASE UNCHANGED vars
  BY <1>1 DEF vars
<1>2. ASSUME NEW c \in Cli, CliStep(c) PROVE TypeOK'
  <2>1. CASE AcquireProjectLock(c)  BY <2>1, GotoFacts DEF AcquireProjectLock
  <2>2. CASE ReadState(c)
    <3>1. want' \in [Cli -> AnyPort \cup {NoPort}]
      BY SMTT(30), <2>2, StateFacts DEF ReadState
    <3>2. /\ seen' \in [Cli -> State] /\ seen'[c] = state[ProjectOf[c]]
          /\ \A d \in Cli : d # c => seen'[d] = seen[d]
      BY SMTT(30), <2>2, SeeFacts DEF ReadState
    <3>3. CASE Absent(c)
      BY SMTT(30), <2>2, <3>1, <3>2, <3>3, AbsentFacts DEF ReadState
    <3>4. CASE state[ProjectOf[c]] # NoState /\ UNCHANGED <<op, res>>
      BY SMTT(30), <2>2, <3>1, <3>2, <3>4, GotoFacts, AbsentFacts DEF ReadState
    <3>5. QED
      BY SMTT(30), <2>2, <3>3, <3>4, NoStateFacts DEF ReadState
  <2>3. CASE PollLaunching(c)       BY SMTT(30), <2>3, NoStateFacts, GotoFacts, SeeFacts, AbsentFacts DEF PollLaunching
  <2>4. CASE TakeClaimLock(c)       BY <2>4, GotoFacts DEF TakeClaimLock
  <2>5. CASE RecoverLaunching(c)
    BY SMTT(30), <2>5, NoStateFacts, GotoFacts, SeeFacts, AbsentFacts, SetStateFacts DEF RecoverLaunching
  <2>6. CASE CheckAlive(c)
    BY SMTT(30), <2>6, NoStateFacts, GotoFacts, ReturnFacts, AbsentFacts, SetStateFacts DEF CheckAlive
  <2>7. CASE CheckOwned(c)
    <3>1. state' \in [Project -> State]
      BY SMTT(30), <2>7, NoStateFacts, SetStateFacts DEF CheckOwned
    <3>2. CASE op[c] = "status"
      BY SMTT(30), <2>7, <3>1, <3>2, GotoFacts, ReturnFacts DEF CheckOwned
    <3>3. CASE op[c] \in {"stop", "restart"}
      BY SMTT(30), <2>7, <3>1, <3>3, GotoFacts DEF CheckOwned
    <3>4. CASE op[c] = "start"
      BY SMTT(30), <2>7, <3>1, <3>4, GotoFacts DEF CheckOwned
    <3>5. QED
      BY <3>2, <3>3, <3>4 DEF Op
  <2>8. CASE RecoverStarting(c)
    <3>1. seen[c].inst \in Cli
      BY SMTT(30), <2>8, StateFacts DEF RecoverStarting
    <3>2. QED
      BY SMTT(30), <2>8, <3>1, GotoFacts, ReturnFacts, SetProfileFacts DEF RecoverStarting
  <2>9. CASE PromotePort(c)
    <3>1. seen[c].inst \in Cli
      BY <2>9, StateFacts DEF PromotePort
    <3>2. QED
      BY SMTT(30), <2>9, <3>1, GotoFacts, ReturnFacts, SetProfileFacts DEF PromotePort
  <2>10. CASE PromoteState(c)
    <3>1. seen[c].inst \in Cli
      BY SMTT(30), <2>10, StateFacts DEF PromoteState
    <3>2. Record(seen[c].inst, "running") \in State
      BY <3>1, RecordFacts
    <3>3. QED
      BY SMTT(30), <2>10, <3>2, ReturnFacts, SetStateFacts DEF PromoteState
  <2>11. CASE RecheckAlive(c)
    BY SMTT(30), <2>11, NoStateFacts, ReturnFacts, AbsentFacts, SetStateFacts DEF RecheckAlive
  <2>12. CASE SendSigterm(c)
    <3>1. CASE Goto(c, "await_exit") /\ UNCHANGED <<state, op, res>>
      BY <2>12, <3>1, GotoFacts DEF SendSigterm
    <3>2. CASE SetState(c, NoState) /\ Absent(c)
      BY SMTT(30), <2>12, <3>2, NoStateFacts, AbsentFacts, SetStateFacts DEF SendSigterm
    <3>3. CASE Return(c, "error") /\ UNCHANGED <<state, op>>
      BY <2>12, <3>3, ReturnFacts DEF SendSigterm
    <3>4. QED
      BY <2>12, <3>1, <3>2, <3>3 DEF SendSigterm
  <2>13. CASE AwaitExit(c)
    BY SMTT(30), <2>13, NoStateFacts, ReturnFacts, AbsentFacts, SetStateFacts DEF AwaitExit
  <2>14. CASE AcquirePortLock(c)    BY <2>14, GotoFacts DEF AcquirePortLock
  <2>15. CASE SelectStartPort(c)
    <3>1. StartPorts(ProjectOf[c], want[c]) \subseteq AnyPort
      BY StartPortsType
    <3>2. QED
      BY SMTT(30), <2>15, <3>1, GotoFacts, ReturnFacts DEF SelectStartPort
  <2>16. CASE WriteLaunching(c)
    <3>1. Record(c, "launching") \in State
      BY RecordFacts
    <3>2. QED
      BY SMTT(30), <2>16, <3>1, GotoFacts, ReturnFacts, SetStateFacts DEF WriteLaunching
  <2>17. CASE ReadOrCreateToken(c)  BY SMTT(30), <2>17, SetTokenFacts, GotoFacts DEF ReadOrCreateToken
  <2>18. CASE WriteToken(c)         BY SMTT(30), <2>18, SetTokenFacts, GotoFacts DEF WriteToken
  <2>19. CASE SpawnChild(c)         BY SMTT(30), <2>19, GotoFacts, SetProcFacts DEF SpawnChild
  <2>20. CASE AwaitClaim(c)         BY <2>20, GotoFacts DEF AwaitClaim
  <2>21. CASE AwaitReady(c)         BY <2>21, GotoFacts DEF AwaitReady
  <2>22. CASE VerifyChild(c)        BY <2>22, GotoFacts DEF VerifyChild
  <2>23. CASE PersistPort(c)        BY <2>23, SetProfileFacts, GotoFacts DEF PersistPort
  <2>24. CASE PersistState(c)
    <3>1. Record(c, "running") \in State
      BY RecordFacts
    <3>2. QED
      BY SMTT(30), <2>24, <3>1, GotoFacts, ReturnFacts, SetStateFacts DEF PersistState
  <2>25. CASE LaunchFails(c)        BY <2>25, GotoFacts DEF LaunchFails
  <2>26. CASE TerminateFailedStart(c)
    BY SMTT(30), <2>26, GotoFacts, SetProcFacts DEF TerminateFailedStart
  <2>27. CASE RemoveFailedState(c)
    <3>1. state' \in [Project -> State]
      BY SMTT(30), <2>27, NoStateFacts, SetStateFacts DEF RemoveFailedState
    <3>2. QED
      BY SMTT(30), <2>27, <3>1, ReturnFacts DEF RemoveFailedState
  <2>28. CASE Exit(c)               BY <2>28, GotoFacts DEF Exit
  <2>29. QED
    BY <1>2, <2>1, <2>2, <2>3, <2>4, <2>5, <2>6, <2>7, <2>8, <2>9, <2>10, <2>11, <2>12,
       <2>13, <2>14, <2>15, <2>16, <2>17, <2>18, <2>19, <2>20, <2>21, <2>22, <2>23,
       <2>24, <2>25, <2>26, <2>27, <2>28 DEF CliStep
<1>3. ASSUME NEW c \in Cli, ChildStep(c) PROVE TypeOK'
  <2>1. Record(c, "starting") \in State
    BY RecordFacts
  <2>2. QED
    BY <1>3, <2>1, SetProcFacts, SetStateFacts
    DEF ChildStep, ReadClaim, WriteClaim, BindPort
<1>4. ASSUME NEW c \in Cli, Environment(c) PROVE TypeOK'
  BY <1>4, GotoFacts, SetProcFacts
  DEF Environment, CliCrash, ChildExit, ReusePid, ForeignExit
<1>5. QED
  BY <1>1, <1>2, <1>3, <1>4 DEF Next

\* Types: every file, variable and child process only ever holds a value of its
\* type, and a command acts on a recorded daemon only after reading its record,
\* for any number of commands, projects and ports and under every fault.
THEOREM Typing == Spec => []TypeOK
<1>1. QED
  BY InitTypeOK, NextTypeOK, PTL DEF Spec

-----------------------------------------------------------------------------
(* The inductive invariant                                                 *)

\* At most one invocation is between the acquisition and the release of the
\* project lock.
Mutex ==
  \A c, d \in Cli :
    c # d /\ ProjectOf[c] = ProjectOf[d] /\ HoldsProjectLock(c) => ~HoldsProjectLock(d)

\* A child that has read its claim finds it unchanged when it writes.
Claiming ==
  \A i \in Cli : proc[i] = "claiming" =>
    /\ state[ProjectOf[i]] = Record(i, "launching")
    /\ \A c \in Cli : ProjectOf[c] = ProjectOf[i] => pc[c] # "recover"

\* What an invocation knows, step by step, of the record s of its project.
ViewRecord(c, s) ==
  /\ pc[c] \in {"poll", "claim_lock", "recover"} =>
       /\ seen[c].inst \in Cli
       /\ s \in {Record(seen[c].inst, "launching"), Record(seen[c].inst, "starting")}
  /\ pc[c] \in RecordSteps \ {"poll", "claim_lock", "recover"} =>
       s = seen[c] /\ s.life \in {"starting", "running"}
  /\ pc[c] \in {"recheck", "signal", "await_exit"} => op[c] \in {"stop", "restart"}

ViewLaunch(c, s) ==
  /\ pc[c] \in RecordSteps \cup {"waiting", "read", "ports", "select", "launch", "token",
                                 "token_write", "popen"} => proc[c] = "none"
  /\ pc[c] \in {"ports", "select", "launch"} => s = NoState
  /\ pc[c] \in {"token", "token_write", "popen"} => s = Record(c, "launching")
  /\ pc[c] = "claim" => s \in {Record(c, "launching"), Record(c, "starting")}
  /\ pc[c] \in {"ready", "verify", "persist_port", "persist_state"} =>
       s = Record(c, "starting")
  /\ pc[c] = "terminate" => s.inst = c
  /\ pc[c] = "remove" => s.inst = c /\ proc[c] \in {"none", "dead", "reused"}

ViewReturn(c, s) ==
  pc[c] = "return" =>
    /\ s.life # "launching"
    /\ res[c] \in {"stopped", "failed"} => s = NoState

View(c) ==
  LET s == state[ProjectOf[c]] IN ViewRecord(c, s) /\ ViewLaunch(c, s) /\ ViewReturn(c, s)

Views == \A c \in Cli : View(c)

IInv == TypeOK /\ Mutex /\ Claiming /\ LiveIsRecorded /\ Views

-----------------------------------------------------------------------------
(* What a step of one process leaves to the others                         *)

\* The other invocations and projects do not notice a step of c.
OthersKeep(c) ==
  /\ \A d \in Cli : d # c =>
       /\ pc'[d] = pc[d] /\ op'[d] = op[d] /\ seen'[d] = seen[d]
       /\ res'[d] = res[d] /\ proc'[d] = proc[d]
  /\ \A p \in Project : p # ProjectOf[c] => state'[p] = state[p]

\* No child of the project has claimed the record or is about to.
Settled(p) ==
  \A i \in Cli : ProjectOf[i] = p => proc[i] \notin {"claiming", "claimed", "serving"}

\* The record is kept, at most promoted, or nobody depends on it.
RecordKept(p) ==
  \/ state'[p] = state[p]
  \/ Settled(p) /\ state'[p].life \notin {"starting", "running"}
  \/ /\ state'[p].inst = state[p].inst
     /\ state[p].life \in {"starting", "running"} /\ state'[p].life \in {"starting", "running"}

\* What a step must show: the invariant holds after it, and it is a step of the
\* promise or invisible to it.
StepOK == IInv' /\ [Promise!Next]_(Promise!vars)

\* A step that changes the daemons or the record of one project at most.
LEMMA PromiseStep ==
  ASSUME NEW p \in Project,
         \A q \in Project : q # p => LiveIn(q)' = LiveIn(q) /\ Recorded(q)' = Recorded(q),
         \/ LiveIn(p)' = LiveIn(p) /\ Recorded(p)' = Recorded(p)
         \/ LiveIn(p)' = {} /\ Recorded(p)' = Recorded(p)
         \/ LiveIn(p) = {} /\ LiveIn(p)' = {} /\ Recorded(p)' = NoCli
         \/ \E i \in Cli : /\ ProjectOf[i] = p /\ LiveIn(p) = {} /\ Recorded(p) = NoCli
                           /\ LiveIn(p)' = {i} /\ Recorded(p)' = i
  PROVE  [Promise!Next]_(Promise!vars)
<1> DEFINE live == [q \in Project |-> LiveIn(q)]
           record == [q \in Project |-> Recorded(q)]
<1>1. CASE LiveIn(p)' = LiveIn(p) /\ Recorded(p)' = Recorded(p)
  <2>1. live' = live /\ record' = record
    BY <1>1
  <2>2. QED
    BY <2>1 DEF Promise!vars
<1>2. CASE LiveIn(p)' = {} /\ Recorded(p)' = Recorded(p)
  <2>1. live' = [live EXCEPT ![p] = {}] /\ record' = record
    BY <1>2
  <2>2. QED
    BY <2>1 DEF Promise!Next, Promise!Die
<1>3. CASE LiveIn(p) = {} /\ LiveIn(p)' = {} /\ Recorded(p)' = NoCli
  <2>1. live' = live /\ record' = [record EXCEPT ![p] = NoCli] /\ live[p] = {}
    BY <1>3
  <2>2. QED
    BY <2>1 DEF Promise!Next, Promise!Forget
<1>4. ASSUME NEW i \in Cli, ProjectOf[i] = p, LiveIn(p) = {}, Recorded(p) = NoCli,
             LiveIn(p)' = {i}, Recorded(p)' = i
      PROVE  [Promise!Next]_(Promise!vars)
  <2>1. /\ live[p] = {} /\ record[p] = NoCli
        /\ live' = [live EXCEPT ![p] = {i}] /\ record' = [record EXCEPT ![p] = i]
    BY <1>4
  <2>2. Promise!Claim(i)
    BY <1>4, <2>1 DEF Promise!Claim
  <2>3. QED
    BY <2>2 DEF Promise!Next
<1>5. QED
  BY <1>1, <1>2, <1>3, <1>4

LEMMA ViewOfOthers ==
  ASSUME IInv, NEW c \in Cli, HoldsProjectLock(c), OthersKeep(c), NEW d \in Cli, d # c
  PROVE  View(d)'
<1>1. /\ pc'[d] = pc[d] /\ op'[d] = op[d] /\ seen'[d] = seen[d]
      /\ res'[d] = res[d] /\ proc'[d] = proc[d]
  BY DEF OthersKeep
<1>2. View(d)
  BY DEF IInv, Views
<1>3. CASE ProjectOf[d] # ProjectOf[c]
  <2>1. state'[ProjectOf[d]] = state[ProjectOf[d]]
    BY <1>3, CliAssumption DEF OthersKeep
  <2>2. QED
    BY <1>1, <1>2, <2>1 DEF View, ViewRecord, ViewLaunch, ViewReturn
<1>4. CASE ProjectOf[d] = ProjectOf[c]
  <2>1. pc'[d] \notin ProjectSteps
    BY <1>1, <1>4 DEF IInv, Mutex, HoldsProjectLock
  <2>2. QED
    BY <1>1, <1>2, <2>1
    DEF View, ViewRecord, ViewLaunch, ViewReturn, ProjectSteps, RecordSteps, PortSteps, Launched
<1>5. QED
  BY <1>3, <1>4

\* A step under the project lock preserves the invariant if it preserves the
\* view of its own command and keeps the record.
LEMMA LockedStep ==
  ASSUME IInv, TypeOK', NEW c \in Cli, HoldsProjectLock(c), OthersKeep(c), View(c)',
         proc'[c] \in {proc[c], "booting", "dead"}, RecordKept(ProjectOf[c]),
         pc'[c] = "recover" =>
           \A i \in Cli : ProjectOf[i] = ProjectOf[c] => proc[i] # "claiming"
  PROVE  StepOK
<1>1. Mutex'
  BY DEF IInv, Mutex, HoldsProjectLock, OthersKeep
<1>2. Claiming'
  <2> SUFFICES ASSUME NEW i \in Cli, proc'[i] = "claiming"
               PROVE  /\ state'[ProjectOf[i]] = Record(i, "launching")
                      /\ \A d \in Cli : ProjectOf[d] = ProjectOf[i] => pc'[d] # "recover"
    BY DEF Claiming
  <2>1. proc[i] = "claiming"
    BY DEF OthersKeep
  <2>2. state[ProjectOf[i]] = Record(i, "launching")
    BY <2>1 DEF IInv, Claiming
  <2>3. state[ProjectOf[i]].life = "launching"
    BY <2>2, RecordFacts, ValueFacts
  <2>4. state'[ProjectOf[i]] = state[ProjectOf[i]]
    BY <2>1, <2>3, CliAssumption DEF RecordKept, Settled, OthersKeep
  <2>5. ASSUME NEW d \in Cli, ProjectOf[d] = ProjectOf[i] PROVE pc'[d] # "recover"
    BY <2>1, <2>5 DEF IInv, Claiming, OthersKeep
  <2>6. QED
    BY <2>2, <2>4, <2>5
<1>3. LiveIsRecorded'
  <2> SUFFICES ASSUME NEW i \in Cli, proc'[i] \in {"claimed", "serving"}
               PROVE  /\ state'[ProjectOf[i]].inst = i
                      /\ state'[ProjectOf[i]].life \in {"starting", "running"}
    BY DEF LiveIsRecorded
  <2>1. proc[i] \in {"claimed", "serving"}
    BY DEF OthersKeep
  <2>2. state[ProjectOf[i]].inst = i /\ state[ProjectOf[i]].life \in {"starting", "running"}
    BY <2>1 DEF IInv, LiveIsRecorded
  <2>3. QED
    BY <2>1, <2>2, CliAssumption DEF RecordKept, Settled, OthersKeep
<1>4. Views'
  BY ViewOfOthers DEF Views
<1>5. [Promise!Next]_(Promise!vars)
  <2> DEFINE p == ProjectOf[c]
  <2>1. p \in Project
    BY CliAssumption
  <2>2. \A q \in Project : q # p => LiveIn(q)' = LiveIn(q) /\ Recorded(q)' = Recorded(q)
    BY DEF OthersKeep, LiveIn, Recorded
  <2>3. LiveIn(p)' = LiveIn(p) \/ LiveIn(p)' = {}
    <3>1. CASE proc'[c] = proc[c]
      BY <3>1 DEF OthersKeep, LiveIn
    <3>2. CASE proc'[c] \in {"booting", "dead"}
      <4>1. LiveIn(p)' = LiveIn(p) \ {c}
        BY <3>2 DEF OthersKeep, LiveIn
      <4>2. LiveIn(p) \subseteq {state[p].inst}
        BY DEF LiveIn, IInv, LiveIsRecorded
      <4>3. QED
        BY <4>1, <4>2
    <3>3. QED
      BY <3>1, <3>2
  <2>4. CASE \/ state'[p] = state[p]
             \/ /\ state'[p].inst = state[p].inst
                /\ state[p].life \in {"starting", "running"}
                /\ state'[p].life \in {"starting", "running"}
    <3>1. Recorded(p)' = Recorded(p)
      BY <2>4 DEF Recorded
    <3>2. QED
      BY <2>1, <2>2, <2>3, <3>1, PromiseStep
  <2>5. CASE Settled(p) /\ state'[p].life \notin {"starting", "running"}
    <3>1. LiveIn(p) = {} /\ Recorded(p)' = NoCli
      BY <2>5 DEF LiveIn, Settled, Recorded
    <3>2. QED
      BY <2>1, <2>2, <2>3, <3>1, PromiseStep
  <2>6. QED
    BY <2>4, <2>5 DEF RecordKept
<1>6. QED
  BY <1>1, <1>2, <1>3, <1>4, <1>5 DEF IInv, StepOK

\* A step that changes nothing but what runs under the pid of a child.
LEMMA ProcStep ==
  ASSUME IInv, TypeOK', NEW i \in Cli, UNCHANGED <<files, pc, op, locals, res>>,
         \A d \in Cli : d # i => proc'[d] = proc[d],
         proc[i] # "none",
         \/ proc'[i] \in {"dead", "reused"}
         \/ proc[i] = "claimed" /\ proc'[i] = "serving"
         \/ /\ proc[i] = "booting" /\ proc'[i] = "claiming"
            /\ state[ProjectOf[i]] = Record(i, "launching")
            /\ \A c \in Cli : ProjectOf[c] = ProjectOf[i] => pc[c] # "recover"
  PROVE  StepOK
<1>1. state' = state /\ pc' = pc /\ op' = op /\ seen' = seen /\ res' = res
  BY DEF files, locals
<1>2. Mutex'
  BY <1>1 DEF IInv, Mutex, HoldsProjectLock
<1>3. Claiming'
  BY <1>1 DEF IInv, Claiming
<1>4. LiveIsRecorded'
  BY <1>1 DEF IInv, LiveIsRecorded
<1>5. Views'
  <2> SUFFICES ASSUME NEW c \in Cli PROVE View(c)'
    BY DEF Views
  <2>1. View(c)
    BY DEF IInv, Views
  <2>2. /\ proc[c] = "none" => proc'[c] = "none"
        /\ proc[c] \in {"none", "dead", "reused"} => proc'[c] \in {"none", "dead", "reused"}
    OBVIOUS
  <2>3. QED
    BY <1>1, <2>1, <2>2 DEF View, ViewRecord, ViewLaunch, ViewReturn
<1>6. [Promise!Next]_(Promise!vars)
  <2> DEFINE p == ProjectOf[i]
  <2>1. /\ p \in Project
        /\ \A q \in Project : Recorded(q)' = Recorded(q)
        /\ \A q \in Project : q # p => LiveIn(q)' = LiveIn(q)
    BY <1>1, CliAssumption DEF LiveIn, Recorded
  <2>2. LiveIn(p)' = LiveIn(p) \/ LiveIn(p)' = LiveIn(p) \ {i}
    BY DEF LiveIn
  <2>3. LiveIn(p) \subseteq {state[p].inst} /\ (i \in LiveIn(p) => state[p].inst = i)
    BY DEF LiveIn, IInv, LiveIsRecorded
  <2>4. LiveIn(p)' = LiveIn(p) \/ LiveIn(p)' = {}
    BY <2>2, <2>3
  <2>5. QED
    BY <2>1, <2>4, PromiseStep
<1>7. QED
  BY <1>2, <1>3, <1>4, <1>5, <1>6 DEF IInv, StepOK

-----------------------------------------------------------------------------
(* Every step preserves the invariant                                      *)

LEMMA HeldSteps ==
  /\ "read" \in ProjectSteps /\ "ports" \in ProjectSteps /\ "return" \in ProjectSteps
  /\ "poll" \in ProjectSteps /\ "claim_lock" \in ProjectSteps /\ "recover" \in ProjectSteps
  /\ "alive" \in ProjectSteps /\ "owned" \in ProjectSteps /\ "recheck" \in ProjectSteps
  /\ "health" \in ProjectSteps /\ "promote_port" \in ProjectSteps /\ "promote_state" \in ProjectSteps
  /\ "signal" \in ProjectSteps /\ "await_exit" \in ProjectSteps /\ "select" \in ProjectSteps
  /\ "launch" \in ProjectSteps /\ "token" \in ProjectSteps /\ "token_write" \in ProjectSteps
  /\ "popen" \in ProjectSteps /\ "remove" \in ProjectSteps /\ "claim" \in ProjectSteps
  /\ "ready" \in ProjectSteps /\ "verify" \in ProjectSteps /\ "persist_port" \in ProjectSteps
  /\ "persist_state" \in ProjectSteps /\ "terminate" \in ProjectSteps
BY DEF ProjectSteps, RecordSteps, PortSteps, Launched

LEMMA RecordIs ==
  ASSUME NEW s \in State, s # NoState
  PROVE  s = Record(s.inst, s.life)
BY DEF State, Record

\* A command that finds no record goes on with a true view.
LEMMA AbsentView ==
  ASSUME TypeOK, NEW c \in Cli, Absent(c), state'[ProjectOf[c]] = NoState, proc'[c] = "none"
  PROVE  View(c)'
<1>1. pc'[c] \in {"return", "read", "ports"}
  BY AbsentFacts DEF TypeOK
<1>2. QED
  BY <1>1, NoStateFacts DEF View, ViewRecord, ViewLaunch, ViewReturn, RecordSteps

\* Forgetting a dead child leaves nobody behind.
LEMMA DeadIsSettled ==
  ASSUME IInv, NEW p \in Project, state[p].life # "launching",
         \A i \in Cli : state[p].inst = i => proc[i] \notin {"claimed", "serving"}
  PROVE  Settled(p)
<1> SUFFICES ASSUME NEW i \in Cli, ProjectOf[i] = p,
                    proc[i] \in {"claiming", "claimed", "serving"}
             PROVE  FALSE
  BY DEF Settled
<1>1. CASE proc[i] = "claiming"
  <2>1. state[p] = Record(i, "launching")
    BY <1>1 DEF IInv, Claiming
  <2>2. QED
    BY <2>1, RecordFacts, ValueFacts
<1>2. CASE proc[i] \in {"claimed", "serving"}
  BY <1>2 DEF IInv, LiveIsRecorded
<1>3. QED
  BY <1>1, <1>2



\* The steps every locked action is made of.
LEMMA GotoStep ==
  ASSUME IInv, TypeOK', NEW c \in Cli, HoldsProjectLock(c), NEW s \in Pc, Goto(c, s),
         UNCHANGED <<state, op, seen, res, proc>>, View(c)',
         s = "recover" => \A i \in Cli : ProjectOf[i] = ProjectOf[c] => proc[i] # "claiming"
  PROVE  StepOK
<1>1. OthersKeep(c) /\ pc'[c] = s
  BY GotoFacts DEF IInv, TypeOK, OthersKeep
<1>2. QED
  BY <1>1, LockedStep DEF RecordKept

LEMMA ReturnStep ==
  ASSUME IInv, TypeOK', NEW c \in Cli, HoldsProjectLock(c), NEW r \in Result, Return(c, r),
         UNCHANGED <<op, seen, proc>>,
         \A p \in Project : p # ProjectOf[c] => state'[p] = state[p],
         RecordKept(ProjectOf[c]), state'[ProjectOf[c]].life # "launching",
         r \in {"stopped", "failed"} => state'[ProjectOf[c]] = NoState
  PROVE  StepOK
<1>1. /\ pc'[c] = "return" /\ res'[c] = r
      /\ \A d \in Cli : d # c => pc'[d] = pc[d] /\ res'[d] = res[d]
  BY ReturnFacts DEF IInv, TypeOK
<1>2. OthersKeep(c)
  BY <1>1 DEF OthersKeep
<1>3. View(c)'
  BY <1>1 DEF View, ViewRecord, ViewLaunch, ViewReturn, RecordSteps
<1>4. QED
  BY <1>1, <1>2, <1>3, LockedStep

LEMMA AbsentStep ==
  ASSUME IInv, TypeOK', NEW c \in Cli, HoldsProjectLock(c), Absent(c), proc[c] = "none",
         UNCHANGED proc, \A d \in Cli : d # c => seen'[d] = seen[d],
         state'[ProjectOf[c]] = NoState,
         \A p \in Project : p # ProjectOf[c] => state'[p] = state[p],
         RecordKept(ProjectOf[c])
  PROVE  StepOK
<1>1. TypeOK
  BY DEF IInv
<1>2. /\ pc'[c] \in {"return", "read", "ports"}
      /\ \A d \in Cli : d # c => pc'[d] = pc[d] /\ op'[d] = op[d] /\ res'[d] = res[d]
  BY <1>1, AbsentFacts DEF TypeOK
<1>3. OthersKeep(c)
  BY <1>2 DEF OthersKeep
<1>4. View(c)'
  BY <1>1, AbsentView
<1>5. QED
  BY <1>2, <1>3, <1>4, LockedStep

LEMMA SeeStep ==
  ASSUME IInv, TypeOK', NEW c \in Cli, HoldsProjectLock(c), proc[c] = "none",
         See(c, state[ProjectOf[c]]), Goto(c, "alive"), UNCHANGED <<state, op, res, proc>>,
         state[ProjectOf[c]].life \in {"starting", "running"}
  PROVE  StepOK
<1>1. ProjectOf[c] \in Project
  BY CliAssumption
<1>2. /\ seen'[c] = state[ProjectOf[c]]
      /\ \A d \in Cli : d # c => seen'[d] = seen[d]
  BY <1>1, SeeFacts DEF IInv, TypeOK
<1>3. pc'[c] = "alive" /\ \A d \in Cli : d # c => pc'[d] = pc[d]
  BY GotoFacts, StepFacts DEF IInv, TypeOK
<1>4. OthersKeep(c)
  BY <1>2, <1>3 DEF OthersKeep
<1>5. View(c)'
  BY <1>2, <1>3 DEF View, ViewRecord, ViewLaunch, ViewReturn, RecordSteps
<1>6. QED
  BY <1>3, <1>4, <1>5, LockedStep DEF RecordKept

\* A step that forgets a record whose daemon is dead.
LEMMA ForgetStep ==
  ASSUME IInv, TypeOK', NEW c \in Cli,
         pc[c] \in RecordSteps \ {"poll", "claim_lock", "recover"},
         proc[seen[c].inst] \notin {"claimed", "serving"},
         SetState(c, NoState), UNCHANGED <<seen, proc>>
  PROVE  /\ Settled(ProjectOf[c]) /\ RecordKept(ProjectOf[c])
         /\ state'[ProjectOf[c]] = NoState
         /\ \A p \in Project : p # ProjectOf[c] => state'[p] = state[p]
<1>1. ProjectOf[c] \in Project
  BY CliAssumption
<1>2. state[ProjectOf[c]] = seen[c] /\ state[ProjectOf[c]].life \in {"starting", "running"}
  BY DEF IInv, Views, View, ViewRecord
<1>3. Settled(ProjectOf[c])
  BY <1>1, <1>2, DeadIsSettled
<1>4. QED
  BY <1>3, SetStateFacts, NoStateFacts DEF RecordKept, IInv, TypeOK

LEMMA ForgetAbsentStep ==
  ASSUME IInv, TypeOK', NEW c \in Cli,
         pc[c] \in RecordSteps \ {"poll", "claim_lock", "recover"},
         proc[seen[c].inst] \notin {"claimed", "serving"},
         SetState(c, NoState), Absent(c), UNCHANGED <<seen, proc>>
  PROVE  StepOK
<1>1. HoldsProjectLock(c)
  BY DEF HoldsProjectLock, ProjectSteps
<1>2. proc[c] = "none"
  BY DEF IInv, Views, View, ViewLaunch
<1>3. QED
  BY <1>1, <1>2, ForgetStep, AbsentStep

LEMMA AcquireProjectLockKeeps ==
  ASSUME IInv, TypeOK', NEW c \in Cli, AcquireProjectLock(c)
  PROVE  StepOK
<1>1. /\ UNCHANGED <<state, op, seen, res, proc>>
      /\ \A d \in Cli : ProjectOf[d] = ProjectOf[c] => ~HoldsProjectLock(d)
  BY DEF AcquireProjectLock, files, locals
<1>2. pc'[c] = "read" /\ \A d \in Cli : d # c => pc'[d] = pc[d]
  BY GotoFacts, StepFacts DEF AcquireProjectLock, IInv, TypeOK
<1>3. Mutex'
  BY <1>1, <1>2 DEF IInv, Mutex, HoldsProjectLock
<1>4. Claiming'
  BY <1>1, <1>2 DEF IInv, Claiming
<1>5. LiveIsRecorded'
  BY <1>1 DEF IInv, LiveIsRecorded
<1>6. Views'
  <2> SUFFICES ASSUME NEW d \in Cli PROVE View(d)'
    BY DEF Views
  <2>1. View(d)
    BY DEF IInv, Views
  <2>2. CASE d = c
    <3>1. proc[c] = "none"
      BY <2>1, <2>2 DEF AcquireProjectLock, View, ViewLaunch
    <3>2. QED
      BY <1>1, <1>2, <2>2, <3>1 DEF View, ViewRecord, ViewLaunch, ViewReturn, RecordSteps
  <2>3. CASE d # c
    BY <1>1, <1>2, <2>1, <2>3 DEF View, ViewRecord, ViewLaunch, ViewReturn
  <2>4. QED
    BY <2>2, <2>3
<1>7. [Promise!Next]_(Promise!vars)
  BY <1>1 DEF Promise!vars, LiveIn, Recorded
<1>8. QED
  BY <1>3, <1>4, <1>5, <1>6, <1>7 DEF IInv, StepOK

LEMMA ReadStateKeeps ==
  ASSUME IInv, TypeOK', NEW c \in Cli, ReadState(c)
  PROVE  StepOK
<1>1. TypeOK /\ View(c) /\ ProjectOf[c] \in Project
  BY CliAssumption DEF IInv, Views
<1>2. HoldsProjectLock(c)
  BY HeldSteps DEF ReadState, HoldsProjectLock
<1>3. UNCHANGED <<state, proc>> /\ proc[c] = "none"
  BY <1>1 DEF ReadState, files, View, ViewLaunch
<1>4. /\ seen'[c] = state[ProjectOf[c]]
      /\ \A d \in Cli : d # c => seen'[d] = seen[d]
  BY <1>1, SeeFacts DEF ReadState, TypeOK
<1>5. CASE state[ProjectOf[c]] = NoState /\ Absent(c)
  BY <1>2, <1>3, <1>4, <1>5, AbsentStep DEF RecordKept
<1>6. CASE state[ProjectOf[c]].life = "launching" /\ Goto(c, "poll") /\ UNCHANGED <<op, res>>
  <2>1. pc'[c] = "poll" /\ \A d \in Cli : d # c => pc'[d] = pc[d]
    BY <1>1, <1>6, GotoFacts, StepFacts DEF TypeOK
  <2>2. state[ProjectOf[c]] = Record(seen'[c].inst, "launching") /\ seen'[c].inst \in Cli
    BY <1>1, <1>4, <1>6, RecordIs, StateFacts, NoStateFacts DEF TypeOK
  <2>3. OthersKeep(c)
    BY <1>3, <1>4, <1>6, <2>1 DEF OthersKeep
  <2>4. View(c)'
    BY <1>3, <2>1, <2>2 DEF View, ViewRecord, ViewLaunch, ViewReturn, RecordSteps
  <2>5. QED
    BY <1>2, <1>3, <2>1, <2>3, <2>4, LockedStep DEF RecordKept
<1>7. CASE /\ state[ProjectOf[c]].life \in {"starting", "running"}
           /\ Goto(c, "alive") /\ UNCHANGED <<op, res>>
  BY <1>2, <1>3, <1>7, SeeStep DEF ReadState
<1>8. QED
  BY <1>5, <1>6, <1>7 DEF ReadState

LEMMA PollLaunchingKeeps ==
  ASSUME IInv, TypeOK', NEW c \in Cli, PollLaunching(c)
  PROVE  StepOK
<1>1. View(c)
  BY DEF IInv, Views
<1>2. HoldsProjectLock(c)
  BY HeldSteps DEF PollLaunching, HoldsProjectLock
<1>3. UNCHANGED <<state, proc>> /\ proc[c] = "none"
  BY <1>1 DEF PollLaunching, files, View, ViewLaunch, RecordSteps
<1>4. /\ seen[c].inst \in Cli
      /\ state[ProjectOf[c]] \in {Record(seen[c].inst, "launching"),
                                  Record(seen[c].inst, "starting")}
  BY <1>1 DEF PollLaunching, View, ViewRecord
<1>5. CASE state[ProjectOf[c]] = NoState /\ Absent(c) /\ UNCHANGED seen
  BY <1>2, <1>3, <1>5, AbsentStep DEF RecordKept
<1>6. CASE /\ state[ProjectOf[c]].inst # seen[c].inst \/ state[ProjectOf[c]].life # "launching"
           /\ See(c, state[ProjectOf[c]]) /\ Goto(c, "alive") /\ UNCHANGED <<op, res>>
  <2>1. state[ProjectOf[c]].life = "starting"
    BY <1>4, <1>6, RecordFacts, ValueFacts
  <2>2. QED
    BY <1>2, <1>3, <1>6, <2>1, SeeStep
<1>7. CASE Goto(c, "claim_lock") /\ UNCHANGED <<op, res, seen>>
  <2>1. pc'[c] = "claim_lock" /\ "claim_lock" \in Pc
    BY <1>7, GotoFacts, StepFacts DEF IInv, TypeOK
  <2>2. View(c)'
    BY <1>3, <1>4, <1>7, <2>1 DEF View, ViewRecord, ViewLaunch, ViewReturn, RecordSteps
  <2>3. QED
    BY <1>2, <1>3, <1>7, <2>1, <2>2, GotoStep
<1>8. QED
  BY <1>5, <1>6, <1>7 DEF PollLaunching

LEMMA TakeClaimLockKeeps ==
  ASSUME IInv, TypeOK', NEW c \in Cli, TakeClaimLock(c)
  PROVE  StepOK
<1>1. View(c)
  BY DEF IInv, Views
<1>2. HoldsProjectLock(c)
  BY HeldSteps DEF TakeClaimLock, HoldsProjectLock
<1>3. /\ pc[c] = "claim_lock" /\ Goto(c, "recover") /\ UNCHANGED <<state, op, seen, res, proc>>
      /\ \A i \in Cli : ProjectOf[i] = ProjectOf[c] => proc[i] # "claiming"
  BY DEF TakeClaimLock, ClaimLockFree, files, locals
<1>4. pc'[c] = "recover" /\ "recover" \in Pc
  BY <1>3, GotoFacts, StepFacts DEF IInv, TypeOK
<1>5. View(c)'
  BY <1>1, <1>3, <1>4 DEF View, ViewRecord, ViewLaunch, ViewReturn, RecordSteps
<1>6. QED
  BY <1>2, <1>3, <1>4, <1>5, GotoStep

LEMMA RecoverLaunchingKeeps ==
  ASSUME IInv, TypeOK', NEW c \in Cli, RecoverLaunching(c)
  PROVE  StepOK
<1>1. View(c) /\ pc[c] = "recover" /\ UNCHANGED proc /\ ProjectOf[c] \in Project
  BY CliAssumption DEF IInv, Views, RecoverLaunching
<1>2. HoldsProjectLock(c)
  BY <1>1, HeldSteps DEF HoldsProjectLock
<1>3. proc[c] = "none"
  BY <1>1 DEF View, ViewLaunch, RecordSteps
<1>4. /\ seen[c].inst \in Cli
      /\ state[ProjectOf[c]] \in {Record(seen[c].inst, "launching"),
                                  Record(seen[c].inst, "starting")}
  BY <1>1 DEF View, ViewRecord
<1>5. CASE state[ProjectOf[c]] = NoState /\ Absent(c) /\ UNCHANGED <<state, seen>>
  BY <1>1, <1>2, <1>3, <1>5, AbsentStep DEF RecordKept
<1>6. CASE /\ state[ProjectOf[c]] = Record(seen[c].inst, "launching")
           /\ SetState(c, NoState) /\ Absent(c) /\ UNCHANGED seen
  <2>1. state[ProjectOf[c]].life = "launching"
    BY <1>4, <1>6, RecordFacts, ValueFacts
  <2>2. Settled(ProjectOf[c])
    BY <1>1, <2>1 DEF IInv, Settled, Claiming, LiveIsRecorded
  <2>3. /\ state'[ProjectOf[c]] = NoState
        /\ \A p \in Project : p # ProjectOf[c] => state'[p] = state[p]
    BY <1>6, SetStateFacts, NoStateFacts DEF IInv, TypeOK
  <2>4. QED
    BY <1>1, <1>2, <1>3, <1>6, <2>2, <2>3, NoStateFacts, AbsentStep DEF RecordKept
<1>7. CASE /\ state[ProjectOf[c]] # Record(seen[c].inst, "launching")
           /\ See(c, state[ProjectOf[c]]) /\ Goto(c, "alive") /\ UNCHANGED <<state, op, res>>
  <2>1. state[ProjectOf[c]].life = "starting"
    BY <1>4, <1>7, RecordFacts, ValueFacts
  <2>2. QED
    BY <1>1, <1>2, <1>3, <1>7, <2>1, SeeStep
<1>8. QED
  BY <1>5, <1>6, <1>7 DEF RecoverLaunching

LEMMA RecordView ==
  ASSUME IInv, NEW c \in Cli, pc[c] \in RecordSteps \ {"poll", "claim_lock", "recover"}
  PROVE  /\ state[ProjectOf[c]] = seen[c] /\ seen[c].life \in {"starting", "running"}
         /\ seen[c].inst \in Cli /\ proc[c] = "none" /\ HoldsProjectLock(c)
         /\ ProjectOf[c] \in Project
         /\ pc[c] \in {"recheck", "signal", "await_exit"} => op[c] \in {"stop", "restart"}
<1>1. View(c) /\ seen[c] \in State /\ seen[c] # NoState
  BY DEF IInv, Views, TypeOK
<1>2. seen[c].inst \in Cli
  BY <1>1, StateFacts
<1>3. QED
  BY <1>1, <1>2, CliAssumption
  DEF View, ViewRecord, ViewLaunch, HoldsProjectLock, ProjectSteps

\* A command that only goes on to another step of the same phase.
LEMMA RecordGotoStep ==
  ASSUME IInv, TypeOK', NEW c \in Cli,
         pc[c] \in RecordSteps \ {"poll", "claim_lock", "recover"},
         NEW s \in RecordSteps \ {"poll", "claim_lock", "recover"}, Goto(c, s),
         s \in {"recheck", "signal", "await_exit"} => op[c] \in {"stop", "restart"},
         UNCHANGED <<state, op, seen, res, proc>>
  PROVE  StepOK
<1>1. s \in Pc /\ s # "recover"
  BY DEF Pc, ProjectSteps
<1>2. pc'[c] = s
  BY <1>1, GotoFacts DEF IInv, TypeOK
<1>3. View(c)'
  BY <1>2, RecordView DEF View, ViewRecord, ViewLaunch, ViewReturn, RecordSteps
<1>4. QED
  BY <1>1, <1>3, RecordView, GotoStep

LEMMA CheckAliveKeeps ==
  ASSUME IInv, TypeOK', NEW c \in Cli, CheckAlive(c)
  PROVE  StepOK
<1>1. pc[c] = "alive" /\ pc[c] \in RecordSteps \ {"poll", "claim_lock", "recover"}
  BY DEF CheckAlive, RecordSteps
<1>2. UNCHANGED <<seen, proc>>
  BY DEF CheckAlive, locals
<1>3. CASE Return(c, "refused") /\ UNCHANGED <<state, op>>
  BY <1>1, <1>2, <1>3, RecordView, ReturnStep, ValueFacts DEF RecordKept
<1>4. CASE Goto(c, "owned") /\ UNCHANGED <<state, op, res>>
  BY <1>1, <1>2, <1>4, StepFacts, RecordGotoStep
<1>5. CASE ~PidAlive(seen[c].inst) /\ SetState(c, NoState) /\ Absent(c)
  BY <1>1, <1>2, <1>5, ForgetAbsentStep DEF PidAlive, Alive
<1>6. QED
  BY <1>3, <1>4, <1>5 DEF CheckAlive

LEMMA CheckOwnedKeeps ==
  ASSUME Benign, IInv, TypeOK', NEW c \in Cli, CheckOwned(c)
  PROVE  StepOK
<1>1. pc[c] = "owned" /\ pc[c] \in RecordSteps \ {"poll", "claim_lock", "recover"}
  BY DEF CheckOwned, RecordSteps
<1>2. UNCHANGED <<op, seen, proc>>
  BY DEF CheckOwned, locals
<1>3. CASE /\ Goto(c, IF op[c] \in {"stop", "restart"} THEN "signal" ELSE "health")
           /\ UNCHANGED <<state, res>>
  <2>1. CASE op[c] \in {"stop", "restart"}
    BY <1>1, <1>2, <1>3, <2>1, StepFacts, RecordGotoStep
  <2>2. CASE op[c] \notin {"stop", "restart"}
    BY <1>1, <1>2, <1>3, <2>2, StepFacts, RecordGotoStep
  <2>3. QED
    BY <2>1, <2>2
<1>4. CASE op[c] = "status" /\ Return(c, "mismatch") /\ UNCHANGED state
  BY <1>1, <1>2, <1>4, RecordView, ReturnStep, ValueFacts DEF RecordKept
<1>5. CASE op[c] \in {"stop", "restart"} /\ Goto(c, "recheck") /\ UNCHANGED <<state, res>>
  BY <1>1, <1>2, <1>5, StepFacts, RecordGotoStep
<1>6. CASE /\ \E owned \in OwnedOutcomes(seen[c].inst) : ~owned
           /\ op[c] = "start" /\ SetState(c, NoState) /\ Goto(c, "ports") /\ UNCHANGED res
  <2>1. proc[seen[c].inst] \notin {"claimed", "serving"}
    BY <1>6 DEF OwnedOutcomes, Benign, Alive
  <2>2. /\ Settled(ProjectOf[c]) /\ RecordKept(ProjectOf[c])
        /\ state'[ProjectOf[c]] = NoState
        /\ \A p \in Project : p # ProjectOf[c] => state'[p] = state[p]
    BY <1>1, <1>2, <1>6, <2>1, ForgetStep
  <2>3. pc'[c] = "ports" /\ \A d \in Cli : d # c => pc'[d] = pc[d]
    BY <1>6, GotoFacts, StepFacts DEF IInv, TypeOK
  <2>4. OthersKeep(c)
    BY <1>2, <1>6, <2>2, <2>3 DEF OthersKeep
  <2>5. View(c)'
    BY <1>1, <1>2, <2>2, <2>3, RecordView
    DEF View, ViewRecord, ViewLaunch, ViewReturn, RecordSteps
  <2>6. QED
    BY <1>1, <1>2, <2>2, <2>3, <2>4, <2>5, RecordView, LockedStep
<1>7. QED
  BY <1>3, <1>4, <1>5, <1>6 DEF CheckOwned

LEMMA RecoverStartingKeeps ==
  ASSUME IInv, TypeOK', NEW c \in Cli, RecoverStarting(c)
  PROVE  StepOK
<1>1. pc[c] = "health" /\ pc[c] \in RecordSteps \ {"poll", "claim_lock", "recover"}
  BY DEF RecoverStarting, RecordSteps
<1>2. UNCHANGED <<state, op, seen, proc>>
  BY DEF RecoverStarting, locals
<1>3. CASE Goto(c, "promote_port") /\ UNCHANGED res
  BY <1>1, <1>2, <1>3, StepFacts, RecordGotoStep
<1>4. CASE Return(c, "starting")
  BY <1>1, <1>2, <1>4, RecordView, ReturnStep, ValueFacts DEF RecordKept
<1>5. CASE Return(c, "running")
  BY <1>1, <1>2, <1>5, RecordView, ReturnStep, ValueFacts DEF RecordKept
<1>6. CASE Return(c, "error")
  BY <1>1, <1>2, <1>6, RecordView, ReturnStep, ValueFacts DEF RecordKept
<1>7. QED
  <2>1. \/ Goto(c, "promote_port") /\ UNCHANGED res
        \/ Return(c, "starting") \/ Return(c, "running") \/ Return(c, "error")
    BY DEF RecoverStarting
  <2>2. QED
    BY <1>3, <1>4, <1>5, <1>6, <2>1

LEMMA PromotePortKeeps ==
  ASSUME IInv, TypeOK', NEW c \in Cli, PromotePort(c)
  PROVE  StepOK
<1>1. pc[c] = "promote_port" /\ pc[c] \in RecordSteps \ {"poll", "claim_lock", "recover"}
  BY DEF PromotePort, RecordSteps
<1>2. UNCHANGED <<state, op, seen, proc>>
  BY DEF PromotePort, locals
<1>3. CASE Goto(c, "promote_state") /\ UNCHANGED res
  BY <1>1, <1>2, <1>3, StepFacts, RecordGotoStep
<1>4. CASE Return(c, "error")
  BY <1>1, <1>2, <1>4, RecordView, ReturnStep, ValueFacts DEF RecordKept
<1>5. QED
  BY <1>3, <1>4 DEF PromotePort

LEMMA PromoteStateKeeps ==
  ASSUME IInv, TypeOK', NEW c \in Cli, PromoteState(c)
  PROVE  StepOK
<1>1. pc[c] = "promote_state" /\ pc[c] \in RecordSteps \ {"poll", "claim_lock", "recover"}
  BY DEF PromoteState, RecordSteps
<1>2. UNCHANGED <<op, seen, proc>>
  BY DEF PromoteState, locals
<1>3. CASE Return(c, "error") /\ UNCHANGED state
  BY <1>1, <1>2, <1>3, RecordView, ReturnStep, ValueFacts DEF RecordKept
<1>4. ASSUME SetState(c, Record(seen[c].inst, "running")),
             NEW r \in {"running", "error"}, Return(c, r)
      PROVE  StepOK
  <2>1. /\ Record(seen[c].inst, "running") \in State
        /\ Record(seen[c].inst, "running").inst = seen[c].inst
        /\ Record(seen[c].inst, "running").life = "running"
    BY <1>1, RecordView, RecordFacts, ValueFacts
  <2>2. /\ state'[ProjectOf[c]] = Record(seen[c].inst, "running")
        /\ \A p \in Project : p # ProjectOf[c] => state'[p] = state[p]
    BY <1>4, <2>1, SetStateFacts DEF IInv, TypeOK
  <2>3. RecordKept(ProjectOf[c])
    BY <1>1, <2>1, <2>2, RecordView DEF RecordKept
  <2>4. r \in Result /\ r \notin {"stopped", "failed"}
    BY ValueFacts
  <2>5. QED
    BY <1>1, <1>2, <1>4, <2>1, <2>2, <2>3, <2>4, RecordView, ReturnStep, ValueFacts
<1>5. QED
  BY <1>3, <1>4 DEF PromoteState

LEMMA RecheckAliveKeeps ==
  ASSUME IInv, TypeOK', NEW c \in Cli, RecheckAlive(c)
  PROVE  StepOK
<1>1. pc[c] = "recheck" /\ pc[c] \in RecordSteps \ {"poll", "claim_lock", "recover"}
  BY DEF RecheckAlive, RecordSteps
<1>2. UNCHANGED <<seen, proc>>
  BY DEF RecheckAlive, locals
<1>3. CASE Return(c, "refused") /\ UNCHANGED <<state, op>>
  BY <1>1, <1>2, <1>3, RecordView, ReturnStep, ValueFacts DEF RecordKept
<1>4. CASE ~PidAlive(seen[c].inst) /\ SetState(c, NoState) /\ Absent(c)
  BY <1>1, <1>2, <1>4, ForgetAbsentStep DEF PidAlive, Alive
<1>5. QED
  BY <1>3, <1>4 DEF RecheckAlive

LEMMA SendSigtermKeeps ==
  ASSUME IInv, TypeOK', NEW c \in Cli, SendSigterm(c)
  PROVE  StepOK
<1>1. pc[c] = "signal" /\ pc[c] \in RecordSteps \ {"poll", "claim_lock", "recover"}
  BY DEF SendSigterm, RecordSteps
<1>2. UNCHANGED <<seen, proc>>
  BY DEF SendSigterm, locals
<1>3. CASE Goto(c, "await_exit") /\ UNCHANGED <<state, op, res>>
  BY <1>1, <1>2, <1>3, StepFacts, RecordView, RecordGotoStep
<1>4. CASE ~PidAlive(seen[c].inst) /\ SetState(c, NoState) /\ Absent(c)
  BY <1>1, <1>2, <1>4, ForgetAbsentStep DEF PidAlive, Alive
<1>5. CASE Return(c, "error") /\ UNCHANGED <<state, op>>
  BY <1>1, <1>2, <1>5, RecordView, ReturnStep, ValueFacts DEF RecordKept
<1>6. QED
  BY <1>3, <1>4, <1>5 DEF SendSigterm

LEMMA AwaitExitKeeps ==
  ASSUME IInv, TypeOK', NEW c \in Cli, AwaitExit(c)
  PROVE  StepOK
<1>1. pc[c] = "await_exit" /\ pc[c] \in RecordSteps \ {"poll", "claim_lock", "recover"}
  BY DEF AwaitExit, RecordSteps
<1>2. UNCHANGED <<seen, proc>>
  BY DEF AwaitExit, locals
<1>3. CASE Return(c, "error") /\ UNCHANGED <<state, op>>
  BY <1>1, <1>2, <1>3, RecordView, ReturnStep, ValueFacts DEF RecordKept
<1>4. CASE ~PidAlive(seen[c].inst) /\ SetState(c, NoState) /\ Absent(c)
  BY <1>1, <1>2, <1>4, ForgetAbsentStep DEF PidAlive, Alive
<1>5. QED
  BY <1>3, <1>4 DEF AwaitExit

-----------------------------------------------------------------------------
(* Launching under the port lock                                           *)

\* Before the child exists, and while the launch holds its Popen object.
LEMMA LaunchView ==
  ASSUME IInv, NEW c \in Cli
  PROVE  LET s == state[ProjectOf[c]] IN
         /\ pc[c] \in {"ports", "select", "launch"} => s = NoState /\ proc[c] = "none"
         /\ pc[c] \in {"token", "token_write", "popen"} =>
              s = Record(c, "launching") /\ proc[c] = "none"
         /\ pc[c] = "claim" => s \in {Record(c, "launching"), Record(c, "starting")}
         /\ pc[c] \in {"ready", "verify", "persist_port", "persist_state"} =>
              s = Record(c, "starting")
         /\ pc[c] = "terminate" => s.inst = c
         /\ pc[c] = "remove" => s.inst = c /\ proc[c] \in {"none", "dead", "reused"}
         /\ pc[c] \in PortSteps \cup {"ports"} => HoldsProjectLock(c)
BY DEF IInv, Views, View, ViewLaunch, HoldsProjectLock, ProjectSteps, RecordSteps

\* The names of the steps of a launch.
LEMMA LaunchSteps ==
  /\ Launched = {"claim", "ready", "verify", "persist_port", "persist_state", "terminate"}
  /\ PortSteps = {"select", "launch", "token", "token_write", "popen", "remove",
       "claim", "ready", "verify", "persist_port", "persist_state", "terminate"}
BY DEF Launched, PortSteps

\* A command goes on within the launch and nothing else happens.
LEMMA LaunchGotoStep ==
  ASSUME IInv, TypeOK', NEW c \in Cli, pc[c] \in PortSteps \cup {"ports"},
         NEW s \in PortSteps, Goto(c, s), UNCHANGED <<state, op, seen, res, proc>>,
         LET r == state[ProjectOf[c]] IN
         /\ s \in {"select", "launch"} => r = NoState /\ proc[c] = "none"
         /\ s \in {"token", "token_write", "popen"} => r = Record(c, "launching") /\ proc[c] = "none"
         /\ s = "claim" => r \in {Record(c, "launching"), Record(c, "starting")}
         /\ s \in {"ready", "verify", "persist_port", "persist_state"} => r = Record(c, "starting")
         /\ s = "terminate" => r.inst = c
         /\ s = "remove" => r.inst = c /\ proc[c] \in {"none", "dead", "reused"}
  PROVE  StepOK
<1>1. s \in Pc /\ s # "recover" /\ s # "return" /\ s \notin RecordSteps
      /\ s \notin {"waiting", "read", "ports"}
  BY DEF Pc, ProjectSteps, PortSteps, Launched, RecordSteps
<1>2. pc'[c] = s
  BY <1>1, GotoFacts DEF IInv, TypeOK
<1>3. ViewRecord(c, state[ProjectOf[c]])' /\ ViewReturn(c, state[ProjectOf[c]])'
  BY <1>1, <1>2 DEF ViewRecord, ViewReturn, RecordSteps
<1>4. ViewLaunch(c, state[ProjectOf[c]])'
  BY <1>1, <1>2 DEF ViewLaunch
<1>5. HoldsProjectLock(c)
  BY LaunchView
<1>6. QED
  BY <1>1, <1>3, <1>4, <1>5, GotoStep DEF View

LEMMA AcquirePortLockKeeps ==
  ASSUME IInv, TypeOK', NEW c \in Cli, AcquirePortLock(c)
  PROVE  StepOK
BY LaunchView, LaunchSteps, LaunchGotoStep DEF AcquirePortLock, files, locals

LEMMA SelectStartPortKeeps ==
  ASSUME IInv, TypeOK', NEW c \in Cli, SelectStartPort(c)
  PROVE  StepOK
<1>1. /\ pc[c] = "select" /\ state[ProjectOf[c]] = NoState /\ proc[c] = "none"
      /\ HoldsProjectLock(c) /\ UNCHANGED <<state, op, seen, proc>>
  BY LaunchView, LaunchSteps DEF SelectStartPort, files
<1>2. CASE Goto(c, "launch") /\ UNCHANGED res
  BY <1>1, <1>2, LaunchSteps, LaunchGotoStep
<1>3. CASE Return(c, "failed")
  BY <1>1, <1>3, ReturnStep, NoStateFacts, ValueFacts DEF RecordKept
<1>4. QED
  BY <1>2, <1>3 DEF SelectStartPort

LEMMA WriteLaunchingKeeps ==
  ASSUME IInv, TypeOK', NEW c \in Cli, WriteLaunching(c)
  PROVE  StepOK
<1>1. /\ pc[c] = "launch" /\ state[ProjectOf[c]] = NoState /\ proc[c] = "none"
      /\ HoldsProjectLock(c) /\ UNCHANGED <<op, seen, proc>> /\ ProjectOf[c] \in Project
  BY LaunchView, LaunchSteps, CliAssumption DEF WriteLaunching, locals
<1>2. CASE Return(c, "failed") /\ UNCHANGED state
  BY <1>1, <1>2, ReturnStep, NoStateFacts, ValueFacts DEF RecordKept
<1>3. ASSUME SetState(c, Record(c, "launching")),
             NEW s \in {"token", "remove"}, Goto(c, s), UNCHANGED res
      PROVE  StepOK
  <2>1. /\ state'[ProjectOf[c]] = Record(c, "launching")
        /\ state'[ProjectOf[c]].life = "launching" /\ state'[ProjectOf[c]].inst = c
        /\ \A p \in Project : p # ProjectOf[c] => state'[p] = state[p]
    BY <1>3, SetStateFacts, RecordFacts, ValueFacts DEF IInv, TypeOK
  <2>2. pc'[c] = s /\ \A d \in Cli : d # c => pc'[d] = pc[d]
    BY <1>3, GotoFacts, StepFacts DEF IInv, TypeOK
  <2>3. \A i \in Cli : state[ProjectOf[c]].inst = i => proc[i] \notin {"claimed", "serving"}
    BY <1>1, NoStateFacts, CliAssumption
  <2>4. Settled(ProjectOf[c])
    BY <1>1, <2>3, DeadIsSettled, NoStateFacts
  <2>5. OthersKeep(c)
    BY <1>1, <1>3, <2>1, <2>2 DEF OthersKeep
  <2>6. View(c)'
    BY <1>1, <2>1, <2>2 DEF View, ViewRecord, ViewLaunch, ViewReturn, RecordSteps
  <2>7. QED
    BY <1>1, <2>1, <2>2, <2>4, <2>5, <2>6, LockedStep DEF RecordKept
<1>4. QED
  BY <1>2, <1>3 DEF WriteLaunching

\* The record of a launch names its own instance.
LEMMA LaunchRecords ==
  ASSUME NEW c \in Cli
  PROVE  Record(c, "launching").inst = c /\ Record(c, "starting").inst = c
BY RecordFacts, ValueFacts

LEMMA ReadOrCreateTokenKeeps ==
  ASSUME IInv, TypeOK', NEW c \in Cli, ReadOrCreateToken(c)
  PROVE  StepOK
<1>1. /\ pc[c] = "token" /\ state[ProjectOf[c]] = Record(c, "launching") /\ proc[c] = "none"
      /\ UNCHANGED <<state, op, seen, res, proc>>
  BY LaunchView DEF ReadOrCreateToken, locals
<1>2. Goto(c, "token_write") \/ Goto(c, "popen") \/ Goto(c, "remove")
  BY DEF ReadOrCreateToken
<1>3. QED
  BY <1>1, <1>2, LaunchRecords, LaunchSteps, LaunchGotoStep

LEMMA WriteTokenKeeps ==
  ASSUME IInv, TypeOK', NEW c \in Cli, WriteToken(c)
  PROVE  StepOK
<1>1. /\ pc[c] = "token_write" /\ state[ProjectOf[c]] = Record(c, "launching") /\ proc[c] = "none"
      /\ UNCHANGED <<state, op, seen, res, proc>>
  BY LaunchView DEF WriteToken, locals
<1>2. Goto(c, "popen") \/ Goto(c, "remove")
  BY DEF WriteToken
<1>3. QED
  BY <1>1, <1>2, LaunchRecords, LaunchSteps, LaunchGotoStep

LEMMA SpawnChildKeeps ==
  ASSUME Benign, IInv, TypeOK', NEW c \in Cli, SpawnChild(c)
  PROVE  StepOK
<1>1. /\ pc[c] = "popen" /\ state[ProjectOf[c]] = Record(c, "launching") /\ proc[c] = "none"
      /\ HoldsProjectLock(c) /\ UNCHANGED <<state, op, seen, res>>
  BY LaunchView, LaunchSteps DEF SpawnChild, files, locals
<1>2. CASE Goto(c, "claim") /\ SetProc(c, "booting")
  <2>1. proc'[c] = "booting" /\ \A d \in Cli : d # c => proc'[d] = proc[d]
    BY <1>2, SetProcFacts, ValueFacts DEF IInv, TypeOK
  <2>2. pc'[c] = "claim" /\ \A d \in Cli : d # c => pc'[d] = pc[d]
    BY <1>2, GotoFacts, StepFacts DEF IInv, TypeOK
  <2>3. OthersKeep(c)
    BY <1>1, <2>1, <2>2 DEF OthersKeep
  <2>4. View(c)'
    BY <1>1, <2>1, <2>2 DEF View, ViewRecord, ViewLaunch, ViewReturn, RecordSteps
  <2>5. QED
    BY <1>1, <2>1, <2>2, <2>3, <2>4, LockedStep DEF RecordKept
<1>3. CASE Goto(c, "remove") /\ UNCHANGED proc
  BY <1>1, <1>3, LaunchRecords, LaunchSteps, LaunchGotoStep
<1>4. QED
  BY <1>2, <1>3 DEF SpawnChild, Benign

LEMMA LaunchMovesKeep ==
  ASSUME IInv, TypeOK', NEW c \in Cli,
         AwaitClaim(c) \/ AwaitReady(c) \/ VerifyChild(c) \/ PersistPort(c) \/ LaunchFails(c)
  PROVE  StepOK
<1>1. UNCHANGED <<state, op, seen, res, proc>>
  BY DEF AwaitClaim, AwaitReady, VerifyChild, PersistPort, LaunchFails, files, locals
<1>2. CASE AwaitClaim(c)
  BY <1>1, <1>2, LaunchSteps, LaunchGotoStep DEF AwaitClaim
<1>3. CASE AwaitReady(c)
  BY <1>1, <1>3, LaunchSteps, LaunchView, LaunchGotoStep DEF AwaitReady
<1>4. CASE VerifyChild(c)
  BY <1>1, <1>4, LaunchSteps, LaunchGotoStep DEF VerifyChild
<1>5. CASE PersistPort(c)
  BY <1>1, <1>5, LaunchSteps, LaunchView, LaunchGotoStep DEF PersistPort
<1>6. CASE LaunchFails(c)
  <2>1. pc[c] \in Launched \ {"terminate"} /\ Goto(c, "terminate")
    BY <1>6 DEF LaunchFails
  <2>2. state[ProjectOf[c]].inst = c
    BY <2>1, LaunchSteps, LaunchView, LaunchRecords
  <2>3. QED
    BY <1>1, <2>1, <2>2, LaunchSteps, LaunchGotoStep
<1>7. QED
  BY <1>2, <1>3, <1>4, <1>5, <1>6

LEMMA PersistStateKeeps ==
  ASSUME IInv, TypeOK', NEW c \in Cli, PersistState(c)
  PROVE  StepOK
<1>1. /\ pc[c] = "persist_state" /\ state[ProjectOf[c]] = Record(c, "starting")
      /\ HoldsProjectLock(c) /\ UNCHANGED <<op, seen, proc>> /\ ProjectOf[c] \in Project
  BY LaunchView, LaunchSteps, CliAssumption DEF PersistState, locals
<1>2. /\ Record(c, "running") \in State /\ Record(c, "running").inst = c
      /\ Record(c, "running").life = "running"
      /\ Record(c, "starting").inst = c /\ Record(c, "starting").life = "starting"
  BY RecordFacts, ValueFacts
<1>3. /\ state'[ProjectOf[c]] = Record(c, "running")
      /\ \A p \in Project : p # ProjectOf[c] => state'[p] = state[p]
  BY <1>2, SetStateFacts DEF PersistState, IInv, TypeOK
<1>4. RecordKept(ProjectOf[c])
  BY <1>1, <1>2, <1>3 DEF RecordKept
<1>5. CASE Return(c, "running")
  BY <1>1, <1>2, <1>3, <1>4, <1>5, ReturnStep, ValueFacts
<1>6. CASE Goto(c, "terminate") /\ UNCHANGED res
  <2>1. pc'[c] = "terminate" /\ \A d \in Cli : d # c => pc'[d] = pc[d]
    BY <1>6, GotoFacts, StepFacts DEF IInv, TypeOK
  <2>2. OthersKeep(c)
    BY <1>1, <1>3, <1>6, <2>1 DEF OthersKeep
  <2>3. View(c)'
    BY <1>2, <1>3, <2>1 DEF View, ViewRecord, ViewLaunch, ViewReturn, RecordSteps
  <2>4. QED
    BY <1>1, <1>4, <2>1, <2>2, <2>3, LockedStep
<1>7. QED
  BY <1>5, <1>6 DEF PersistState

LEMMA TerminateFailedStartKeeps ==
  ASSUME IInv, TypeOK', NEW c \in Cli, TerminateFailedStart(c)
  PROVE  StepOK
<1>1. /\ pc[c] = "terminate" /\ state[ProjectOf[c]].inst = c
      /\ HoldsProjectLock(c) /\ UNCHANGED <<state, op, seen, res>>
  BY LaunchView, LaunchSteps DEF TerminateFailedStart, files, locals
<1>2. proc'[c] = "dead" /\ \A d \in Cli : d # c => proc'[d] = proc[d]
  BY SetProcFacts, ValueFacts DEF TerminateFailedStart, IInv, TypeOK
<1>3. pc'[c] = "remove" /\ \A d \in Cli : d # c => pc'[d] = pc[d]
  BY GotoFacts, StepFacts DEF TerminateFailedStart, IInv, TypeOK
<1>4. OthersKeep(c)
  BY <1>1, <1>2, <1>3 DEF OthersKeep
<1>5. View(c)'
  BY <1>1, <1>2, <1>3 DEF View, ViewRecord, ViewLaunch, ViewReturn, RecordSteps
<1>6. QED
  BY <1>1, <1>2, <1>3, <1>4, <1>5, LockedStep DEF RecordKept

LEMMA RemoveFailedStateKeeps ==
  ASSUME IInv, TypeOK', NEW c \in Cli, RemoveFailedState(c)
  PROVE  StepOK
<1>1. /\ state[ProjectOf[c]].inst = c /\ proc[c] \in {"none", "dead", "reused"}
      /\ HoldsProjectLock(c) /\ UNCHANGED <<op, seen, proc>> /\ ProjectOf[c] \in Project
  BY LaunchView, LaunchSteps, CliAssumption DEF RemoveFailedState, locals
<1>2. /\ state'[ProjectOf[c]] = NoState
      /\ \A p \in Project : p # ProjectOf[c] => state'[p] = state[p]
  BY SetStateFacts, NoStateFacts DEF RemoveFailedState, IInv, TypeOK
<1>3. Settled(ProjectOf[c])
  BY <1>1, RecordFacts, ValueFacts DEF Settled, IInv, Claiming, LiveIsRecorded
<1>4. QED
  BY <1>1, <1>2, <1>3, ReturnStep, NoStateFacts, ValueFacts DEF RemoveFailedState, RecordKept

\* An invocation that ends, or is killed, leaves files and children as they are.
LEMMA LeavingKeeps ==
  ASSUME IInv, TypeOK', NEW c \in Cli, Exit(c) \/ CliCrash(c)
  PROVE  StepOK
<1>1. HoldsProjectLock(c) /\ UNCHANGED <<state, op, seen, res, proc>>
  BY HeldSteps DEF Exit, CliCrash, HoldsProjectLock, files, locals
<1>2. PICK s \in {"done", "crashed"} : Goto(c, s)
  BY DEF Exit, CliCrash
<1>3. pc'[c] = s /\ s \in Pc
  BY <1>2, GotoFacts, StepFacts DEF IInv, TypeOK
<1>4. View(c)'
  BY <1>3 DEF View, ViewRecord, ViewLaunch, ViewReturn, RecordSteps
<1>5. QED
  BY <1>1, <1>2, <1>3, <1>4, GotoStep

-----------------------------------------------------------------------------
(* The child                                                               *)

LEMMA ReadClaimKeeps ==
  ASSUME IInv, TypeOK', NEW i \in Cli, ReadClaim(i)
  PROVE  StepOK
<1>1. /\ proc[i] = "booting" /\ UNCHANGED <<files, pc, op, locals, res>>
      /\ \A c \in Cli : ProjectOf[c] = ProjectOf[i] => pc[c] # "recover"
  BY DEF ReadClaim, ClaimLockFree, HoldsClaimLock
<1>2. CASE state[ProjectOf[i]] = Record(i, "launching") /\ SetProc(i, "claiming")
  <2>1. proc'[i] = "claiming" /\ \A d \in Cli : d # i => proc'[d] = proc[d]
    BY <1>2, SetProcFacts, ValueFacts DEF IInv, TypeOK
  <2>2. QED
    BY <1>1, <1>2, <2>1, ProcStep
<1>3. CASE SetProc(i, "dead")
  <2>1. proc'[i] = "dead" /\ \A d \in Cli : d # i => proc'[d] = proc[d]
    BY <1>3, SetProcFacts, ValueFacts DEF IInv, TypeOK
  <2>2. QED
    BY <1>1, <2>1, ProcStep
<1>4. QED
  BY <1>2, <1>3 DEF ReadClaim

LEMMA WriteClaimKeeps ==
  ASSUME IInv, TypeOK', NEW i \in Cli, WriteClaim(i)
  PROVE  StepOK
<1>1. /\ UNCHANGED <<pc, op, seen, res>> /\ proc[i] = "claiming" /\ ProjectOf[i] \in Project
  BY CliAssumption DEF WriteClaim, locals
<1>2. /\ state[ProjectOf[i]] = Record(i, "launching")
      /\ state[ProjectOf[i]].inst = i /\ state[ProjectOf[i]].life = "launching"
      /\ state[ProjectOf[i]] # NoState
      /\ Record(i, "starting").inst = i /\ Record(i, "starting").life = "starting"
  BY <1>1, RecordFacts, ValueFacts DEF IInv, Claiming
<1>3. /\ state'[ProjectOf[i]] = Record(i, "starting")
      /\ \A p \in Project : p # ProjectOf[i] => state'[p] = state[p]
  BY SetStateFacts, RecordFacts, ValueFacts DEF WriteClaim, IInv, TypeOK
<1>4. proc'[i] = "claimed" /\ \A d \in Cli : d # i => proc'[d] = proc[d]
  BY SetProcFacts, ValueFacts DEF WriteClaim, IInv, TypeOK
<1>5. Mutex'
  BY <1>1 DEF IInv, Mutex, HoldsProjectLock
<1>6. Claiming'
  <2> SUFFICES ASSUME NEW j \in Cli, proc'[j] = "claiming"
               PROVE  /\ state'[ProjectOf[j]] = Record(j, "launching")
                      /\ \A c \in Cli : ProjectOf[c] = ProjectOf[j] => pc'[c] # "recover"
    BY DEF Claiming
  <2>1. j # i /\ proc[j] = "claiming"
    BY <1>4
  <2>2. /\ state[ProjectOf[j]] = Record(j, "launching") /\ state[ProjectOf[j]].inst = j
        /\ \A c \in Cli : ProjectOf[c] = ProjectOf[j] => pc[c] # "recover"
    BY <2>1, RecordFacts, ValueFacts DEF IInv, Claiming
  <2>3. ProjectOf[j] # ProjectOf[i] /\ ProjectOf[j] \in Project
    BY <1>2, <2>1, <2>2, CliAssumption
  <2>4. QED
    BY <1>1, <1>3, <2>2, <2>3
<1>7. LiveIsRecorded'
  <2> SUFFICES ASSUME NEW j \in Cli, proc'[j] \in {"claimed", "serving"}
               PROVE  /\ state'[ProjectOf[j]].inst = j
                      /\ state'[ProjectOf[j]].life \in {"starting", "running"}
    BY DEF LiveIsRecorded
  <2>1. CASE j = i
    BY <1>2, <1>3, <2>1
  <2>2. CASE j # i
    <3>1. state[ProjectOf[j]].inst = j /\ state[ProjectOf[j]].life \in {"starting", "running"}
      BY <1>4, <2>2 DEF IInv, LiveIsRecorded
    <3>2. ProjectOf[j] # ProjectOf[i] /\ ProjectOf[j] \in Project
      BY <1>2, <2>2, <3>1, CliAssumption
    <3>3. QED
      BY <1>3, <3>1, <3>2
  <2>3. QED
    BY <2>1, <2>2
<1>8. Views'
  <2> SUFFICES ASSUME NEW c \in Cli PROVE View(c)'
    BY DEF Views
  <2>1. View(c)
    BY DEF IInv, Views
  <2>2. CASE ProjectOf[c] # ProjectOf[i]
    <3>1. state'[ProjectOf[c]] = state[ProjectOf[c]] /\ proc'[c] = proc[c]
      BY <1>3, <1>4, <2>2, CliAssumption
    <3>2. QED
      BY <1>1, <2>1, <3>1 DEF View, ViewRecord, ViewLaunch, ViewReturn
  <2>3. CASE ProjectOf[c] = ProjectOf[i]
    <3>1. ViewRecord(c, state[ProjectOf[c]])'
      <4>1. pc[c] \in {"poll", "claim_lock", "recover"} => seen[c].inst = i
        BY <1>2, <2>1, <2>3, RecordFacts, ValueFacts DEF View, ViewRecord
      <4>2. pc[c] \notin RecordSteps \ {"poll", "claim_lock", "recover"}
        BY <1>2, <2>1, <2>3 DEF View, ViewRecord
      <4>3. QED
        BY <1>1, <1>3, <2>1, <2>3, <4>1, <4>2 DEF View, ViewRecord, RecordSteps
    <3>2. ViewLaunch(c, state[ProjectOf[c]])'
      <4>1. CASE c = i
        <5>1. pc[c] \in {"claim", "terminate"}
              \/ pc[c] \notin PortSteps \cup RecordSteps \cup {"waiting", "read", "ports"}
          BY <1>1, <1>2, <2>1, <4>1, LaunchSteps, RecordFacts, ValueFacts DEF View, ViewLaunch
        <5>2. QED
          BY <1>1, <1>2, <1>3, <4>1, <5>1 DEF ViewLaunch, PortSteps, Launched, RecordSteps
      <4>2. CASE c # i
        <5>1. pc[c] \notin PortSteps \cup {"ports"}
          <6>1. Record(c, "launching").inst = c /\ Record(c, "starting").inst = c
            BY RecordFacts, ValueFacts
          <6>2. QED
            BY <1>2, <2>1, <2>3, <4>2, <6>1, LaunchSteps DEF View, ViewLaunch
        <5>2. proc'[c] = proc[c]
          BY <1>4, <4>2
        <5>3. QED
          BY <1>1, <2>1, <5>1, <5>2 DEF View, ViewLaunch, PortSteps, Launched
      <4>3. QED
        BY <4>1, <4>2
    <3>3. ViewReturn(c, state[ProjectOf[c]])'
      BY <1>1, <1>2, <2>1, <2>3 DEF View, ViewReturn
    <3>4. QED
      BY <3>1, <3>2, <3>3 DEF View
  <2>4. QED
    BY <2>2, <2>3
<1>9. [Promise!Next]_(Promise!vars)
  <2> DEFINE p == ProjectOf[i]
  <2>1. \A q \in Project : q # p => LiveIn(q)' = LiveIn(q) /\ Recorded(q)' = Recorded(q)
    BY <1>3, <1>4 DEF LiveIn, Recorded
  <2>2. LiveIn(p) = {} /\ Recorded(p) = NoCli
    BY <1>2 DEF LiveIn, Recorded, IInv, LiveIsRecorded
  <2>3. LiveIn(p)' = {i} /\ Recorded(p)' = i
    BY <1>2, <1>3, <1>4, <2>2 DEF LiveIn, Recorded
  <2>4. QED
    BY <1>1, <2>1, <2>2, <2>3, PromiseStep
<1>10. QED
  BY <1>5, <1>6, <1>7, <1>8, <1>9 DEF IInv, StepOK

\* The child binds its port, exits, and its pid is given to another process.
LEMMA OtherProcessStepsKeep ==
  ASSUME IInv, TypeOK', NEW i \in Cli,
         BindPort(i) \/ ChildExit(i) \/ ReusePid(i) \/ ForeignExit(i)
  PROVE  StepOK
<1>1. UNCHANGED <<files, pc, op, locals, res>> /\ proc[i] # "none"
  BY DEF BindPort, ChildExit, ReusePid, ForeignExit, Alive
<1>2. PICK s \in {"dead", "serving", "reused"} :
        SetProc(i, s) /\ (s = "serving" => proc[i] = "claimed")
  BY DEF BindPort, ChildExit, ReusePid, ForeignExit
<1>3. proc'[i] = s /\ \A d \in Cli : d # i => proc'[d] = proc[d]
  BY <1>2, SetProcFacts, ValueFacts DEF IInv, TypeOK
<1>4. QED
  BY <1>1, <1>2, <1>3, ProcStep

-----------------------------------------------------------------------------
(* The invariant and what follows from it                                  *)

\* Every step preserves the invariant and keeps the promise.
LEMMA StepsOK ==
  ASSUME Benign
  PROVE  IInv /\ [Next]_vars => StepOK
<1> SUFFICES ASSUME IInv, [Next]_vars PROVE StepOK
  OBVIOUS
<1>1. TypeOK'
  BY NextTypeOK DEF IInv
<1>2. CASE UNCHANGED vars
  <2>1. IInv'
    BY <1>1, <1>2
    DEF vars, IInv, Mutex, HoldsProjectLock, Claiming, LiveIsRecorded, Views, View,
        ViewRecord, ViewLaunch, ViewReturn
  <2>2. [Promise!Next]_(Promise!vars)
    BY <1>2 DEF vars, Promise!vars, LiveIn, Recorded
  <2>3. QED
    BY <2>1, <2>2 DEF StepOK
<1>3. ASSUME NEW c \in Cli, CliStep(c) PROVE StepOK
  BY <1>1, <1>3, AcquireProjectLockKeeps, ReadStateKeeps, PollLaunchingKeeps,
     TakeClaimLockKeeps, RecoverLaunchingKeeps, CheckAliveKeeps, CheckOwnedKeeps,
     RecoverStartingKeeps, PromotePortKeeps, PromoteStateKeeps, RecheckAliveKeeps,
     SendSigtermKeeps, AwaitExitKeeps, AcquirePortLockKeeps, SelectStartPortKeeps,
     WriteLaunchingKeeps, ReadOrCreateTokenKeeps, WriteTokenKeeps, SpawnChildKeeps,
     LaunchMovesKeep, PersistStateKeeps, TerminateFailedStartKeeps,
     RemoveFailedStateKeeps, LeavingKeeps
  DEF CliStep
<1>4. ASSUME NEW c \in Cli, ChildStep(c) PROVE StepOK
  BY <1>1, <1>4, ReadClaimKeeps, WriteClaimKeeps, OtherProcessStepsKeep DEF ChildStep
<1>5. ASSUME NEW c \in Cli, Environment(c) PROVE StepOK
  BY <1>1, <1>5, LeavingKeeps, OtherProcessStepsKeep DEF Environment
<1>6. QED
  BY <1>2, <1>3, <1>4, <1>5 DEF Next

LEMMA Invariance == Benign => (Spec => []IInv)
<1> SUFFICES ASSUME Benign PROVE Spec => []IInv
  OBVIOUS
<1>1. Init => IInv
  <2> SUFFICES ASSUME Init PROVE IInv
    OBVIOUS
  <2>1. TypeOK
    BY InitTypeOK
  <2>2. /\ \A c \in Cli : pc[c] = "waiting" /\ proc[c] = "none"
    BY DEF Init
  <2>3. Mutex
    BY <2>2 DEF Mutex, HoldsProjectLock, ProjectSteps, RecordSteps, PortSteps, Launched
  <2>4. Claiming /\ LiveIsRecorded
    BY <2>2 DEF Claiming, LiveIsRecorded
  <2>5. Views
    BY <2>2 DEF Views, View, ViewRecord, ViewLaunch, ViewReturn, RecordSteps
  <2>6. QED
    BY <2>1, <2>3, <2>4, <2>5 DEF IInv
<1>2. IInv /\ [Next]_vars => IInv'
  BY StepsOK DEF StepOK
<1>3. QED
  BY <1>1, <1>2, PTL DEF Spec

\* No command, recovery or failed launch ever drops or overwrites the record of
\* a live daemon, as long as ps answers and no interrupt hits Popen itself:
\* whatever commands are killed and whatever pids are given away.
THEOREM LiveDaemonIsRecorded == Benign => (Spec => []LiveIsRecorded)
<1> SUFFICES ASSUME Benign PROVE Spec => []LiveIsRecorded
  OBVIOUS
<1>1. IInv => LiveIsRecorded
  BY DEF IInv
<1>2. QED
  BY <1>1, Invariance, PTL

\* A command that reports "stopped" and a start that reports a failure leave no
\* state and no daemon of the project behind.
THEOREM StoppedLeavesNothing == Benign => (Spec => []StoppedIsQuiet)
<1> SUFFICES ASSUME Benign PROVE Spec => []StoppedIsQuiet
  OBVIOUS
<1>1. IInv => StoppedIsQuiet
  <2> SUFFICES ASSUME IInv, NEW c \in Cli, pc[c] = "return",
                      res[c] \in {"stopped", "failed"}
               PROVE  Quiet(ProjectOf[c])
    BY DEF StoppedIsQuiet
  <2>1. ProjectOf[c] \in Project /\ state[ProjectOf[c]] = NoState
    BY CliAssumption DEF IInv, Views, View, ViewReturn
  <2>2. \A i \in Cli : state[ProjectOf[c]].inst = i => proc[i] \notin {"claimed", "serving"}
    BY <2>1, NoStateFacts, CliAssumption
  <2>3. Settled(ProjectOf[c])
    BY <2>1, <2>2, DeadIsSettled, NoStateFacts
  <2>4. QED
    BY <2>1, <2>3 DEF Quiet, Settled
<1>2. QED
  BY <1>1, Invariance, PTL

\* No command returns while an unclaimed launch is on record.
THEOREM CommandsReturnSettled == Benign => (Spec => []ReturnsSettled)
<1> SUFFICES ASSUME Benign PROVE Spec => []ReturnsSettled
  OBVIOUS
<1>1. IInv => ReturnsSettled
  BY DEF IInv, Views, View, ViewReturn, ReturnsSettled
<1>2. QED
  BY <1>1, Invariance, PTL

\* The lifecycle is a refinement of the single recorded daemon: whatever the
\* files, locks and commands do, a daemon enters service only when the project
\* has none and no record of one, and is forgotten only when it is dead.
THEOREM LifecycleImplementsPromise == Benign => (Spec => ImplementsPromise)
<1> SUFFICES ASSUME Benign PROVE Spec => Promise!Spec
  BY DEF ImplementsPromise
<1>1. Init => Promise!Init
  <2> SUFFICES ASSUME Init PROVE Promise!Init
    OBVIOUS
  <2>1. \A p \in Project : LiveIn(p) = {} /\ Recorded(p) = NoCli
    BY NoStateFacts DEF Init, LiveIn, Recorded
  <2>2. QED
    BY <2>1 DEF Promise!Init
<1>2. IInv /\ [Next]_vars => [Promise!Next]_(Promise!vars)
  BY StepsOK DEF StepOK
<1>3. QED
  BY <1>1, <1>2, Invariance, PTL DEF Spec, Promise!Spec
=============================================================================
