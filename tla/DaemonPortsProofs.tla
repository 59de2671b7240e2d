--------------------------- MODULE DaemonPortsProofs ---------------------------
(***************************************************************************)
(* More proofs about Daemon, for any number of commands, projects and      *)
(* ports: what a running daemon's record guarantees, under every fault of  *)
(* the environment, that no two projects reserve the same port, what the   *)
(* scan for a port finds, and what becomes of the token.                   *)
(***************************************************************************)
EXTENDS DaemonProofs, WellFoundedInduction

-----------------------------------------------------------------------------
(* The inductive invariant of a running daemon                             *)

\* The steps of an invocation that has not launched its child.
Unlaunched ==
  {"waiting", "read", "ports", "select", "launch", "token", "token_write", "popen"}
    \cup RecordSteps

\* The steps of a launch before it has written the running state.
Unpromoted == {"ports"} \cup (PortSteps \ {"terminate", "remove"})

\* The child has answered a health call; it may have exited since.
Healthy(i) == i \in answered /\ proc[i] \in {"serving", "dead", "reused"}

\* The project reserves the port of the instance.
Reserves(p, i) == profile[p] = picked[i]

\* A running daemon is healthy and its port is reserved.
Persisted(p) ==
  state[p].life = "running" => Healthy(state[p].inst) /\ Reserves(p, state[p].inst)

\* What an invocation knows, step by step, of the running daemon and of the one
\* it is about to record as running.
HealthView(c) ==
  LET p == ProjectOf[c] IN
  /\ pc[c] \in Unlaunched => proc[c] = "none"
  /\ pc[c] \in RecordSteps =>
       /\ state[p].life = "running" => state[p] = seen[c]
       /\ seen[c].life = "running" => Healthy(seen[c].inst) /\ Reserves(p, seen[c].inst)
  /\ pc[c] \in {"promote_port", "promote_state"} =>
       seen[c].life = "starting" /\ Healthy(seen[c].inst)
  /\ pc[c] = "promote_state" => Reserves(p, seen[c].inst)
  /\ pc[c] \in Unpromoted => state[p].life # "running"
  /\ pc[c] \in {"verify", "persist_port", "persist_state"} => Healthy(c)
  /\ pc[c] = "persist_state" => Reserves(p, c)

RunningInv ==
  /\ TypeOK /\ Mutex
  /\ \A p \in Project : Persisted(p)
  /\ \A c \in Cli : HealthView(c)

-----------------------------------------------------------------------------
(* What a step leaves alone                                                *)

\* The other invocations, children and projects do not notice a step of c.
Frame(c) ==
  /\ \A d \in Cli \ {c} :
       /\ pc'[d] = pc[d] /\ seen'[d] = seen[d]
       /\ picked'[d] = picked[d] /\ proc'[d] = proc[d]
  /\ \A p \in Project \ {ProjectOf[c]} : state'[p] = state[p] /\ profile'[p] = profile[p]

\* No other invocation is between the acquisition and the release of c's lock.
Alone(c) ==
  \A d \in Cli \ {c} : ProjectOf[d] = ProjectOf[c] => ~HoldsProjectLock(d)

LEMMA AbsentFrame ==
  ASSUME pc \in [Cli -> Pc], NEW c \in Cli, Absent(c)
  PROVE  \A d \in Cli \ {c} : pc'[d] = pc[d]
BY DEF Absent, Return, Goto

\* A step of an invocation changes its own variables, its own child and the
\* files of its own project only.
LEMMA CommandFrame ==
  ASSUME TypeOK, NEW c \in Cli, CliStep(c) \/ CliCrash(c)
  PROVE  Frame(c)
<1> USE CliAssumption, AbsentFrame
    DEF TypeOK, Frame, files, locals, Return, Goto, SetState, SetProfile, SetProc, See
<1>1. CASE AcquireProjectLock(c)  BY <1>1 DEF AcquireProjectLock
<1>2. CASE ReadState(c)           BY SMTT(30), <1>2 DEF ReadState
<1>3. CASE PollLaunching(c)       BY SMTT(30), <1>3 DEF PollLaunching
<1>4. CASE TakeClaimLock(c)       BY <1>4 DEF TakeClaimLock
<1>5. CASE RecoverLaunching(c)    BY SMTT(30), <1>5 DEF RecoverLaunching
<1>6. CASE CheckAlive(c)          BY SMTT(30), <1>6 DEF CheckAlive
<1>7. CASE CheckOwned(c)          BY SMTT(30), <1>7 DEF CheckOwned
<1>8. CASE RecoverStarting(c)     BY SMTT(30), <1>8 DEF RecoverStarting
<1>9. CASE PromotePort(c)         BY SMTT(30), <1>9 DEF PromotePort
<1>10. CASE PromoteState(c)       BY SMTT(30), <1>10 DEF PromoteState
<1>11. CASE RecheckAlive(c)       BY SMTT(30), <1>11 DEF RecheckAlive
<1>12. CASE SendSigterm(c)        BY SMTT(30), <1>12 DEF SendSigterm
<1>13. CASE AwaitExit(c)          BY SMTT(30), <1>13 DEF AwaitExit
<1>14. CASE AcquirePortLock(c)    BY <1>14 DEF AcquirePortLock
<1>15. CASE SelectStartPort(c)    BY SMTT(30), <1>15 DEF SelectStartPort
<1>16. CASE WriteLaunching(c)     BY SMTT(30), <1>16 DEF WriteLaunching
<1>17. CASE ReadOrCreateToken(c)  BY <1>17 DEF ReadOrCreateToken
<1>18. CASE WriteToken(c)         BY <1>18 DEF WriteToken
<1>19. CASE SpawnChild(c)         BY <1>19 DEF SpawnChild
<1>20. CASE AwaitClaim(c)         BY <1>20 DEF AwaitClaim
<1>21. CASE AwaitReady(c)         BY <1>21 DEF AwaitReady
<1>22. CASE VerifyChild(c)        BY <1>22 DEF VerifyChild
<1>23. CASE PersistPort(c)        BY <1>23 DEF PersistPort
<1>24. CASE PersistState(c)       BY <1>24 DEF PersistState
<1>25. CASE LaunchFails(c)        BY <1>25 DEF LaunchFails
<1>26. CASE TerminateFailedStart(c)  BY <1>26 DEF TerminateFailedStart
<1>27. CASE RemoveFailedState(c)  BY <1>27 DEF RemoveFailedState
<1>28. CASE Exit(c)               BY <1>28 DEF Exit
<1>29. CASE CliCrash(c)           BY <1>29 DEF CliCrash
<1>30. QED
  BY <1>1, <1>2, <1>3, <1>4, <1>5, <1>6, <1>7, <1>8, <1>9, <1>10, <1>11, <1>12,
     <1>13, <1>14, <1>15, <1>16, <1>17, <1>18, <1>19, <1>20, <1>21, <1>22, <1>23,
     <1>24, <1>25, <1>26, <1>27, <1>28, <1>29 DEF CliStep

\* An invocation acts under the lock of its project, or takes it while no other
\* has it.
LEMMA CommandAlone ==
  ASSUME Mutex, NEW c \in Cli, CliStep(c) \/ CliCrash(c)
  PROVE  Alone(c)
<1>1. CASE AcquireProjectLock(c)
  BY <1>1 DEF AcquireProjectLock, Alone
<1>2. CASE HoldsProjectLock(c)
  BY <1>2 DEF Mutex, Alone
<1>3. QED
  BY <1>1, <1>2, HeldSteps DEF HoldsProjectLock, CliStep, CliCrash, ReadState, PollLaunching,
     TakeClaimLock, RecoverLaunching, CheckAlive, CheckOwned, RecoverStarting, PromotePort,
     PromoteState, RecheckAlive, SendSigterm, AwaitExit, AcquirePortLock, SelectStartPort,
     WriteLaunching, ReadOrCreateToken, WriteToken, SpawnChild, AwaitClaim, AwaitReady,
     VerifyChild, PersistPort, PersistState, LaunchFails, TerminateFailedStart,
     RemoveFailedState, Exit, Launched

-----------------------------------------------------------------------------
(* Every step preserves the invariant of a running daemon                  *)

\* What a health call has shown is never forgotten.
LEMMA CommandAnswers ==
  ASSUME NEW c \in Cli, CliStep(c) \/ CliCrash(c)
  PROVE  answered \subseteq answered'
BY DEF CliStep, AcquireProjectLock, ReadState, PollLaunching, TakeClaimLock,
   RecoverLaunching, CheckAlive, CheckOwned, RecoverStarting, PromotePort, PromoteState,
   RecheckAlive, SendSigterm, AwaitExit, AcquirePortLock, SelectStartPort,
   WriteLaunching, ReadOrCreateToken, WriteToken, SpawnChild, AwaitClaim, AwaitReady,
   VerifyChild, PersistPort, PersistState, LaunchFails, TerminateFailedStart,
   RemoveFailedState, Exit, CliCrash, locals

\* A healthy child stays so, and its port is the one selected before its launch.
LEMMA HealthyStays ==
  ASSUME RunningInv, TypeOK', [Next]_vars, NEW i \in Cli, Healthy(i)
  PROVE  Healthy(i)' /\ picked'[i] = picked[i]
<1> USE DEF Healthy, files, locals
<1>1. CASE UNCHANGED vars
  BY <1>1 DEF vars
<1>2. ASSUME NEW c \in Cli, CliStep(c) \/ CliCrash(c) PROVE Healthy(i)' /\ picked'[i] = picked[i]
  <2>1. CASE c # i
    BY <1>2, <2>1, CommandFrame, CommandAnswers DEF Frame, RunningInv
  <2>2. CASE c = i
    <3>1. pc[c] \notin {"select", "popen"}
      BY <2>2 DEF RunningInv, HealthView, Unlaunched
    <3>2. picked' = picked
      BY <1>2, <3>1 DEF CliStep, AcquireProjectLock, ReadState, PollLaunching, TakeClaimLock,
         RecoverLaunching, CheckAlive, CheckOwned, RecoverStarting, PromotePort, PromoteState,
         RecheckAlive, SendSigterm, AwaitExit, AcquirePortLock, SelectStartPort,
         WriteLaunching, ReadOrCreateToken, WriteToken, SpawnChild, AwaitClaim, AwaitReady,
         VerifyChild, PersistPort, PersistState, LaunchFails, TerminateFailedStart,
         RemoveFailedState, Exit, CliCrash
    <3>3. proc' = proc \/ SetProc(c, "dead")
      BY <1>2, <3>1 DEF CliStep, AcquireProjectLock, ReadState, PollLaunching, TakeClaimLock,
         RecoverLaunching, CheckAlive, CheckOwned, RecoverStarting, PromotePort, PromoteState,
         RecheckAlive, SendSigterm, AwaitExit, AcquirePortLock, SelectStartPort,
         WriteLaunching, ReadOrCreateToken, WriteToken, SpawnChild, AwaitClaim, AwaitReady,
         VerifyChild, PersistPort, PersistState, LaunchFails, TerminateFailedStart,
         RemoveFailedState, Exit, CliCrash
    <3>4. QED
      BY <1>2, <2>2, <3>2, <3>3, SetProcFacts, ValueFacts, CommandAnswers
      DEF RunningInv, TypeOK
  <2>3. QED
    BY <2>1, <2>2
<1>3. ASSUME NEW c \in Cli, ChildStep(c) \/ ChildExit(c) \/ ReusePid(c) \/ ForeignExit(c)
      PROVE  Healthy(i)' /\ picked'[i] = picked[i]
  BY <1>3 DEF ChildStep, ReadClaim, WriteClaim, BindPort, ChildExit, ReusePid, ForeignExit,
     SetProc, RunningInv, TypeOK
<1>4. QED
  BY <1>1, <1>2, <1>3 DEF Next, Environment

\* What a step of an invocation must show of its own project.
Settles(p) ==
  \/ state'[p] = state[p] /\ profile'[p] = profile[p]
  \/ state'[p].life # "running"
  \/ Persisted(p)'

LEMMA CommandKeepsRunning ==
  ASSUME RunningInv, TypeOK', [Next]_vars, NEW c \in Cli, CliStep(c) \/ CliCrash(c),
         HealthView(c)', Settles(ProjectOf[c])
  PROVE  RunningInv'
<1>1. Frame(c) /\ Alone(c)
  BY CommandFrame, CommandAlone DEF RunningInv
<1>2. \A i \in Cli : Healthy(i) => Healthy(i)' /\ picked'[i] = picked[i]
  BY HealthyStays
<1>3. Mutex'
  BY <1>1 DEF RunningInv, Mutex, HoldsProjectLock, Frame, Alone
<1>4. ASSUME NEW p \in Project PROVE Persisted(p)'
  <2>1. Persisted(p) /\ (state[p].life = "running" => state[p].inst \in Cli)
    BY StateFacts, NoStateFacts DEF RunningInv, TypeOK
  <2>2. CASE state'[p] = state[p] /\ profile'[p] = profile[p]
    BY <1>2, <2>1, <2>2 DEF Persisted, Reserves, Healthy
  <2>3. CASE p = ProjectOf[c]
    BY <2>2, <2>3 DEF Settles, Persisted
  <2>4. QED
    BY <1>1, <2>2, <2>3 DEF Frame
<1>5. ASSUME NEW d \in Cli PROVE HealthView(d)'
  <2>1. CASE d = c
    BY <2>1
  <2>2. CASE d # c /\ ProjectOf[d] = ProjectOf[c]
    <3>1. pc[d] \notin ProjectSteps /\ pc'[d] = pc[d] /\ proc'[d] = proc[d] /\ HealthView(d)
      BY <1>1, <2>2 DEF RunningInv, Alone, Frame, HoldsProjectLock
    <3>2. QED
      BY <3>1 DEF HealthView, ProjectSteps, RecordSteps, PortSteps, Launched, Unlaunched,
         Unpromoted
  <2>3. CASE ProjectOf[d] # ProjectOf[c]
    <3>1. /\ pc'[d] = pc[d] /\ seen'[d] = seen[d] /\ proc'[d] = proc[d] /\ HealthView(d)
          /\ state'[ProjectOf[d]] = state[ProjectOf[d]]
          /\ profile'[ProjectOf[d]] = profile[ProjectOf[d]]
      BY <1>1, <2>3, CliAssumption DEF RunningInv, Frame
    <3>2. pc[d] \in RecordSteps => seen[d].inst \in Cli
      BY StateFacts DEF RunningInv, TypeOK
    <3>3. {"promote_port", "promote_state"} \subseteq RecordSteps
      BY StepFacts
    <3>4. QED
      BY <1>2, <3>1, <3>2, <3>3 DEF HealthView, Reserves, Healthy
  <2>4. QED
    BY <2>1, <2>2, <2>3
<1>6. QED
  BY <1>3, <1>4, <1>5 DEF RunningInv

\* A step of a child writes no running state, and leaves the invocations alone.
LEMMA ChildKeepsRunning ==
  ASSUME RunningInv, TypeOK', [Next]_vars, NEW i \in Cli,
         ChildStep(i) \/ ChildExit(i) \/ ReusePid(i) \/ ForeignExit(i)
  PROVE  RunningInv'
<1>1. pc' = pc /\ seen' = seen /\ profile' = profile /\ picked' = picked
  BY DEF ChildStep, ReadClaim, WriteClaim, BindPort, ChildExit, ReusePid, ForeignExit, files, locals
<1>2. \A j \in Cli : proc[j] = "none" => proc'[j] = "none"
  BY DEF ChildStep, ReadClaim, WriteClaim, BindPort, ChildExit, ReusePid, ForeignExit, Alive,
     SetProc, RunningInv, TypeOK
<1>3. \A p \in Project : state'[p] = state[p] \/ state'[p].life # "running"
  <2>1. CASE WriteClaim(i)
    BY <2>1, SetStateFacts, RecordFacts, ValueFacts DEF WriteClaim, RunningInv, TypeOK
  <2>2. CASE state' = state
    BY <2>2
  <2>3. QED
    BY <2>1, <2>2 DEF ChildStep, ReadClaim, BindPort, ChildExit, ReusePid, ForeignExit, files
<1>4. \A j \in Cli : Healthy(j) => Healthy(j)'
  BY HealthyStays
<1>5. Mutex'
  BY <1>1 DEF RunningInv, Mutex, HoldsProjectLock
<1>6. ASSUME NEW p \in Project PROVE Persisted(p)'
  <2>1. Persisted(p) /\ (state[p].life = "running" => state[p].inst \in Cli)
    BY StateFacts, NoStateFacts DEF RunningInv, TypeOK
  <2>2. QED
    BY <1>1, <1>3, <1>4, <2>1 DEF Persisted, Reserves
<1>7. ASSUME NEW c \in Cli PROVE HealthView(c)'
  <2>1. HealthView(c) /\ ProjectOf[c] \in Project
    BY CliAssumption DEF RunningInv
  <2>2. pc[c] \in RecordSteps => seen[c].inst \in Cli
    BY StateFacts DEF RunningInv, TypeOK
  <2>3. {"promote_port", "promote_state"} \subseteq RecordSteps
    BY StepFacts
  <2>4. QED
    BY <1>1, <1>2, <1>3, <1>4, <2>1, <2>2, <2>3 DEF HealthView, Reserves
<1>8. QED
  BY <1>5, <1>6, <1>7 DEF RunningInv

\* A command that returns, ends or gives its launch up depends on nothing.
LEMMA AwayView ==
  ASSUME NEW c \in Cli,
         pc'[c] \in {"return", "done", "crashed", "terminate", "remove"}
  PROVE  HealthView(c)'
BY DEF HealthView, Unlaunched, Unpromoted, RecordSteps, PortSteps, Launched

\* A command that has read, or written, that there is no state.
LEMMA AbsentHealth ==
  ASSUME TypeOK, NEW c \in Cli, Absent(c), proc'[c] = "none",
         state'[ProjectOf[c]] = NoState
  PROVE  HealthView(c)' /\ Settles(ProjectOf[c])
<1>1. pc'[c] \in {"return", "read", "ports"}
  BY AbsentFacts DEF TypeOK
<1>2. QED
  BY <1>1, NoStateFacts DEF HealthView, Unlaunched, Unpromoted, RecordSteps, PortSteps, Launched, Settles

\* A command that goes on with the record it has just read.
LEMMA FreshHealth ==
  ASSUME RunningInv, NEW c \in Cli, proc'[c] = "none", picked' = picked, proc' = proc,
         answered' = answered, state' = state, profile' = profile,
         seen'[c] = state[ProjectOf[c]],
         pc'[c] \in RecordSteps \ {"promote_port", "promote_state"}
  PROVE  HealthView(c)' /\ Settles(ProjectOf[c])
<1>1. Persisted(ProjectOf[c])
  BY CliAssumption DEF RunningInv
<1>2. QED
  BY <1>1 DEF HealthView, Unlaunched, Unpromoted, RecordSteps, PortSteps, Launched, Settles,
     Persisted, Healthy, Reserves

\* A command that goes on with the record it has read before.
LEMMA SameHealth ==
  ASSUME RunningInv, NEW c \in Cli, pc[c] \in RecordSteps,
         seen' = seen, picked' = picked, proc' = proc, answered' = answered,
         state' = state, profile' = profile,
         pc'[c] \in RecordSteps \ {"promote_port", "promote_state"}
  PROVE  HealthView(c)' /\ Settles(ProjectOf[c])
<1>1. HealthView(c)
  BY DEF RunningInv
<1>2. QED
  BY <1>1 DEF HealthView, Unlaunched, Unpromoted, RecordSteps, PortSteps, Launched, Settles,
     Healthy, Reserves

\* Reading the state, waiting for a claim, and the recovery of an unclaimed launch.
LEMMA ReadingHealth ==
  ASSUME RunningInv, TypeOK', NEW c \in Cli,
         \/ AcquireProjectLock(c) \/ ReadState(c) \/ PollLaunching(c)
         \/ TakeClaimLock(c) \/ RecoverLaunching(c)
  PROVE  HealthView(c)' /\ Settles(ProjectOf[c])
<1> DEFINE s == state[ProjectOf[c]]
<1>1. /\ TypeOK /\ HealthView(c) /\ ProjectOf[c] \in Project
      /\ picked' = picked /\ proc' = proc /\ profile' = profile /\ answered' = answered
  BY CliAssumption DEF RunningInv, AcquireProjectLock, ReadState, PollLaunching, TakeClaimLock,
     RecoverLaunching, files, locals
<1>2. pc[c] \in Unlaunched /\ proc'[c] = "none"
  BY <1>1 DEF AcquireProjectLock, ReadState, PollLaunching, TakeClaimLock, RecoverLaunching,
     Unlaunched, RecordSteps, HealthView
<1>3. CASE AcquireProjectLock(c)
  <2>1. pc'[c] = "read" /\ state' = state
    BY <1>1, <1>3, GotoFacts, StepFacts DEF AcquireProjectLock, TypeOK, files
  <2>2. QED
    BY <1>1, <1>2, <2>1 DEF HealthView, Unpromoted, RecordSteps, PortSteps, Launched, Settles
<1>4. CASE ReadState(c)
  <2>1. seen'[c] = s /\ state' = state
    BY <1>1, <1>4, SeeFacts DEF ReadState, TypeOK, files
  <2>2. CASE s = NoState /\ Absent(c)
    BY <1>1, <1>2, <2>1, <2>2, AbsentHealth
  <2>3. CASE Goto(c, "poll") \/ Goto(c, "alive")
    BY <1>1, <1>2, <2>1, <2>3, FreshHealth, GotoFacts, StepFacts DEF TypeOK
  <2>4. QED
    BY <1>4, <2>2, <2>3 DEF ReadState
<1>5. CASE PollLaunching(c)
  <2>1. state' = state
    BY <1>5 DEF PollLaunching, files
  <2>2. CASE s = NoState /\ Absent(c)
    BY <1>1, <1>2, <2>1, <2>2, AbsentHealth
  <2>3. CASE See(c, s) /\ Goto(c, "alive")
    BY <1>1, <1>2, <2>1, <2>3, FreshHealth, GotoFacts, SeeFacts, StepFacts DEF TypeOK
  <2>4. CASE Goto(c, "claim_lock") /\ seen' = seen
    BY <1>1, <1>5, <2>1, <2>4, SameHealth, GotoFacts, StepFacts DEF TypeOK, PollLaunching
  <2>5. QED
    BY <1>5, <2>2, <2>3, <2>4 DEF PollLaunching
<1>6. CASE TakeClaimLock(c)
  BY <1>1, <1>6, SameHealth, GotoFacts, StepFacts DEF TypeOK, TakeClaimLock, files, locals
<1>7. CASE RecoverLaunching(c)
  <2>1. CASE s = NoState /\ Absent(c) /\ state' = state
    BY <1>1, <1>2, <2>1, AbsentHealth
  <2>2. CASE SetState(c, NoState) /\ Absent(c)
    BY <1>1, <1>2, <2>2, AbsentHealth, SetStateFacts, NoStateFacts DEF TypeOK
  <2>3. CASE See(c, s) /\ Goto(c, "alive") /\ state' = state
    BY <1>1, <1>2, <2>3, FreshHealth, GotoFacts, SeeFacts, StepFacts DEF TypeOK
  <2>4. QED
    BY <1>7, <2>1, <2>2, <2>3 DEF RecoverLaunching
<1>8. QED
  BY <1>3, <1>4, <1>5, <1>6, <1>7

\* The ownership check of a recorded daemon, and its stop.
LEMMA StoppingHealth ==
  ASSUME RunningInv, TypeOK', NEW c \in Cli,
         CheckAlive(c) \/ CheckOwned(c) \/ RecheckAlive(c) \/ SendSigterm(c) \/ AwaitExit(c)
  PROVE  HealthView(c)' /\ Settles(ProjectOf[c])
<1>1. /\ TypeOK /\ HealthView(c) /\ seen' = seen
      /\ picked' = picked /\ proc' = proc /\ profile' = profile /\ answered' = answered
  BY DEF RunningInv, CheckAlive, CheckOwned, RecheckAlive, SendSigterm, AwaitExit, files, locals
<1>2. pc[c] \in RecordSteps /\ proc'[c] = "none"
  BY <1>1 DEF CheckAlive, CheckOwned, RecheckAlive, SendSigterm, AwaitExit,
     Unlaunched, RecordSteps, HealthView
<1>3. CASE SetState(c, NoState) /\ Absent(c)
  BY <1>1, <1>2, <1>3, AbsentHealth, SetStateFacts, NoStateFacts DEF TypeOK
<1>4. CASE SetState(c, NoState) /\ Goto(c, "ports")
  <2>1. state'[ProjectOf[c]] = NoState /\ pc'[c] = "ports"
    BY <1>1, <1>4, SetStateFacts, NoStateFacts, GotoFacts, StepFacts DEF TypeOK
  <2>2. QED
    BY <1>2, <2>1, NoStateFacts DEF HealthView, RecordSteps, Settles
<1>5. CASE state' = state /\ \E r \in Result : Return(c, r)
  <2>1. pc'[c] = "return"
    BY <1>1, <1>5, ReturnFacts DEF TypeOK
  <2>2. QED
    BY <1>1, <1>5, <2>1, AwayView DEF Settles
<1>6. CASE /\ state' = state
           /\ \E s \in {"owned", "signal", "health", "recheck", "await_exit"} : Goto(c, s)
  <2>1. pc'[c] \in RecordSteps \ {"promote_port", "promote_state"}
    BY <1>1, <1>6, GotoFacts, StepFacts DEF TypeOK
  <2>2. QED
    BY <1>1, <1>2, <1>6, <2>1, SameHealth
<1>7. QED
  BY <1>3, <1>4, <1>5, <1>6, ValueFacts
  DEF CheckAlive, CheckOwned, RecheckAlive, SendSigterm, AwaitExit

\* The recovery of a starting daemon.
LEMMA PromotingHealth ==
  ASSUME RunningInv, TypeOK', NEW c \in Cli,
         RecoverStarting(c) \/ PromotePort(c) \/ PromoteState(c)
  PROVE  HealthView(c)' /\ Settles(ProjectOf[c])
<1> DEFINE p == ProjectOf[c]
           i == seen[c].inst
<1>1. /\ TypeOK /\ HealthView(c) /\ p \in Project /\ seen' = seen
      /\ picked' = picked /\ proc' = proc
  BY CliAssumption DEF RunningInv, RecoverStarting, PromotePort, PromoteState, files, locals
<1>2. pc[c] \in RecordSteps /\ proc'[c] = "none" /\ i \in Cli
  BY <1>1, StateFacts, StepFacts DEF RecoverStarting, PromotePort, PromoteState,
     Unlaunched, HealthView, TypeOK
<1>3. CASE RecoverStarting(c)
  <2>1. CASE state' = state /\ profile' = profile /\ \E r \in Result : Return(c, r)
    BY <1>1, <2>1, AwayView, ReturnFacts DEF Settles, TypeOK
  <2>2. CASE /\ seen[c].life = "starting" /\ proc[i] = "serving"
             /\ answered' = answered \cup {i}
             /\ Goto(c, "promote_port") /\ profile' = profile /\ state' = state
    <3>1. pc'[c] = "promote_port"
      BY <1>1, <2>2, GotoFacts, StepFacts DEF TypeOK
    <3>2. QED
      BY <1>1, <1>2, <2>2, <3>1, StepFacts
      DEF HealthView, Settles, Healthy, Unpromoted, PortSteps, Launched
  <2>3. CASE /\ seen[c].life = "running" /\ SetProfile(c, picked[i])
             /\ state' = state /\ answered' = answered /\ Return(c, "running")
    <3>1. pc'[c] = "return" /\ profile'[p] = picked[i]
      BY <1>1, <1>2, <2>3, ReturnFacts, ValueFacts, SetProfileFacts DEF TypeOK
    <3>2. Persisted(p)'
      BY <1>1, <1>2, <2>3, <3>1 DEF HealthView, Persisted, Healthy, Reserves
    <3>3. QED
      BY <3>1, <3>2, AwayView DEF Settles
  <2>4. QED
    BY <1>3, <2>1, <2>2, <2>3, ValueFacts DEF RecoverStarting
<1>4. CASE PromotePort(c)
  <2>1. seen[c].life = "starting" /\ Healthy(i) /\ state[p].life # "running" /\ state' = state
        /\ answered' = answered
    BY <1>1, <1>4, StepFacts DEF PromotePort, HealthView, locals
  <2>2. CASE Return(c, "error") /\ profile' = profile
    BY <1>1, <2>1, <2>2, AwayView, ReturnFacts, ValueFacts DEF Settles, TypeOK
  <2>3. CASE SetProfile(c, picked[i]) /\ Goto(c, "promote_state")
    <3>1. pc'[c] = "promote_state" /\ profile'[p] = picked[i]
      BY <1>1, <1>2, <2>3, GotoFacts, StepFacts, SetProfileFacts DEF TypeOK
    <3>2. QED
      BY <1>1, <1>2, <2>1, <3>1
      DEF HealthView, Settles, Healthy, Reserves, Unpromoted, PortSteps, Launched
  <2>4. QED
    BY <1>4, <2>2, <2>3 DEF PromotePort
<1>5. CASE PromoteState(c)
  <2>1. Healthy(i) /\ Reserves(p, i) /\ profile' = profile /\ answered' = answered
    BY <1>1, <1>5 DEF PromoteState, HealthView, locals
  <2>2. HealthView(c)'
    BY <1>1, <1>5, AwayView, ReturnFacts, ValueFacts DEF PromoteState, TypeOK
  <2>3. CASE SetState(c, Record(i, "running"))
    <3>1. state'[p] = Record(i, "running") /\ Record(i, "running").inst = i
      BY <1>1, <1>2, <2>3, SetStateFacts, RecordFacts, ValueFacts DEF TypeOK
    <3>2. QED
      BY <1>1, <2>1, <2>2, <3>1 DEF Settles, Persisted, Healthy, Reserves
  <2>4. CASE state' = state
    BY <2>1, <2>2, <2>4 DEF Settles
  <2>5. QED
    BY <1>5, <2>3, <2>4 DEF PromoteState
<1>6. QED
  BY <1>3, <1>4, <1>5

\* The steps of a launch that leave the record, the profile and the child alone.
LEMMA LaunchMovesHealth ==
  ASSUME RunningInv, TypeOK', NEW c \in Cli,
         \/ AcquirePortLock(c) \/ SelectStartPort(c) \/ ReadOrCreateToken(c) \/ WriteToken(c)
         \/ AwaitClaim(c) \/ AwaitReady(c) \/ VerifyChild(c) \/ LaunchFails(c)
         \/ Exit(c) \/ CliCrash(c)
  PROVE  HealthView(c)' /\ Settles(ProjectOf[c])
<1>1. /\ TypeOK /\ HealthView(c) /\ Settles(ProjectOf[c]) /\ proc' = proc
      /\ state' = state /\ profile' = profile
  BY DEF RunningInv, Settles, AcquirePortLock, SelectStartPort, ReadOrCreateToken, WriteToken,
     AwaitClaim, AwaitReady, VerifyChild, LaunchFails, Exit, CliCrash, files, locals
<1>2. answered \subseteq answered'
  BY CommandAnswers DEF CliStep
<1>3. CASE pc'[c] \in {"return", "done", "crashed", "terminate", "remove"}
  BY <1>1, <1>3, AwayView
<1>4. CASE /\ pc[c] \in {"ports", "select", "token", "token_write"}
           /\ pc'[c] \in {"select", "launch", "token_write", "popen"}
  BY <1>1, <1>4 DEF HealthView, Unlaunched, Unpromoted, RecordSteps, PortSteps, Launched
<1>5. CASE /\ pc[c] \in {"claim", "ready", "verify"}
           /\ pc'[c] \in {"ready", "verify", "persist_port"}
           /\ pc'[c] = "ready" \/ (proc[c] = "serving" /\ c \in answered') \/ pc[c] = "verify"
  BY <1>1, <1>2, <1>5 DEF HealthView, Unlaunched, Unpromoted, RecordSteps, PortSteps, Launched, Healthy
<1>6. QED
  <2> USE <1>1, GotoFacts, StepFacts DEF TypeOK
  <2>1. CASE AcquirePortLock(c)    BY <2>1, <1>4 DEF AcquirePortLock
  <2>2. CASE SelectStartPort(c)
    BY <2>2, <1>3, <1>4, ReturnFacts, ValueFacts DEF SelectStartPort
  <2>3. CASE ReadOrCreateToken(c)  BY <2>3, <1>3, <1>4 DEF ReadOrCreateToken
  <2>4. CASE WriteToken(c)         BY <2>4, <1>3, <1>4 DEF WriteToken
  <2>5. CASE AwaitClaim(c)         BY <2>5, <1>5 DEF AwaitClaim
  <2>6. CASE AwaitReady(c)         BY <2>6, <1>5 DEF AwaitReady
  <2>7. CASE VerifyChild(c)        BY <2>7, <1>5 DEF VerifyChild
  <2>8. CASE LaunchFails(c)        BY <2>8, <1>3 DEF LaunchFails
  <2>9. CASE Exit(c) \/ CliCrash(c)  BY <2>9, <1>3 DEF Exit, CliCrash
  <2>10. QED
    BY <2>1, <2>2, <2>3, <2>4, <2>5, <2>6, <2>7, <2>8, <2>9

\* The steps of a launch that write the record or the profile, or change the child.
LEMMA LaunchWritesHealth ==
  ASSUME RunningInv, TypeOK', NEW c \in Cli,
         \/ WriteLaunching(c) \/ SpawnChild(c) \/ PersistPort(c) \/ PersistState(c)
         \/ TerminateFailedStart(c) \/ RemoveFailedState(c)
  PROVE  HealthView(c)' /\ Settles(ProjectOf[c])
<1> DEFINE p == ProjectOf[c]
<1>1. TypeOK /\ HealthView(c) /\ p \in Project
  BY CliAssumption DEF RunningInv
<1>2. CASE WriteLaunching(c)
  <2>1. CASE Return(c, "failed") /\ state' = state
    BY <1>1, <1>2, <2>1, ReturnFacts, ValueFacts, AwayView DEF WriteLaunching, Settles, TypeOK
  <2>2. CASE SetState(c, Record(c, "launching")) /\ (Goto(c, "token") \/ Goto(c, "remove"))
    <3>1. state'[p].life # "running"
      BY <1>1, <2>2, SetStateFacts, RecordFacts, ValueFacts DEF TypeOK
    <3>2. pc'[c] \in {"token", "remove"} /\ proc'[c] = "none"
      BY <1>1, <1>2, <2>2, GotoFacts, StepFacts DEF WriteLaunching, HealthView, Unlaunched, TypeOK
    <3>3. QED
      BY <3>1, <3>2 DEF HealthView, Settles, RecordSteps
  <2>3. QED
    BY <1>2, <2>1, <2>2 DEF WriteLaunching
<1>3. CASE SpawnChild(c)
  <2>1. /\ pc'[c] \in {"claim", "remove"} /\ state' = state /\ profile' = profile
        /\ state[p].life # "running"
    BY <1>1, <1>3, GotoFacts, StepFacts
    DEF SpawnChild, HealthView, Unpromoted, PortSteps, Launched, TypeOK, files
  <2>2. QED
    BY <2>1 DEF HealthView, Settles, RecordSteps, Unlaunched
<1>4. CASE PersistPort(c)
  <2>1. /\ pc'[c] = "persist_state" /\ state' = state /\ proc' = proc /\ picked' = picked
        /\ answered' = answered /\ state[p].life # "running" /\ Healthy(c)
    BY <1>1, <1>4, GotoFacts, StepFacts
    DEF PersistPort, HealthView, Unpromoted, PortSteps, Launched, TypeOK, locals
  <2>2. profile'[p] = picked[c]
    BY <1>1, <1>4, SetProfileFacts DEF PersistPort, TypeOK
  <2>3. QED
    BY <2>1, <2>2 DEF HealthView, Settles, RecordSteps, Unlaunched, Healthy, Reserves
<1>5. CASE PersistState(c)
  <2>1. /\ Healthy(c) /\ Reserves(p, c)
        /\ profile' = profile /\ proc' = proc /\ picked' = picked /\ answered' = answered
    BY <1>1, <1>5 DEF PersistState, HealthView, locals
  <2>2. state'[p] = Record(c, "running") /\ Record(c, "running").inst = c
    BY <1>1, <1>5, SetStateFacts, RecordFacts, ValueFacts DEF PersistState, TypeOK
  <2>3. pc'[c] \in {"return", "terminate"}
    BY <1>1, <1>5, GotoFacts, ReturnFacts, StepFacts, ValueFacts DEF PersistState, TypeOK
  <2>4. QED
    BY <2>1, <2>2, <2>3, AwayView DEF Settles, Persisted, Healthy, Reserves
<1>6. CASE TerminateFailedStart(c)
  BY <1>1, <1>6, GotoFacts, StepFacts, AwayView DEF TerminateFailedStart, Settles, TypeOK, files
<1>7. CASE RemoveFailedState(c)
  <2>1. state'[p].life # "running"
    BY <1>1, <1>7, SetStateFacts, NoStateFacts DEF RemoveFailedState, TypeOK
  <2>2. QED
    BY <1>1, <1>7, <2>1, ReturnFacts, ValueFacts, AwayView DEF RemoveFailedState, Settles, TypeOK
<1>8. QED
  BY <1>2, <1>3, <1>4, <1>5, <1>6, <1>7

LEMMA NextRunningInv == RunningInv /\ [Next]_vars => RunningInv'
<1> SUFFICES ASSUME RunningInv, [Next]_vars PROVE RunningInv'
  OBVIOUS
<1>1. TypeOK'
  BY NextTypeOK DEF RunningInv
<1>2. CASE UNCHANGED vars
  BY <1>1, <1>2 DEF vars, RunningInv, Mutex, HoldsProjectLock, Persisted, HealthView, Healthy, Reserves
<1>3. ASSUME NEW c \in Cli, CliStep(c) \/ CliCrash(c) PROVE RunningInv'
  <2>1. HealthView(c)' /\ Settles(ProjectOf[c])
    BY <1>1, <1>3, ReadingHealth, StoppingHealth, PromotingHealth, LaunchMovesHealth,
       LaunchWritesHealth DEF CliStep
  <2>2. QED
    BY <1>1, <1>3, <2>1, CommandKeepsRunning
<1>4. ASSUME NEW i \in Cli, ChildStep(i) \/ ChildExit(i) \/ ReusePid(i) \/ ForeignExit(i)
      PROVE  RunningInv'
  BY <1>1, <1>4, ChildKeepsRunning
<1>5. QED
  BY <1>2, <1>3, <1>4 DEF Next, Environment

LEMMA RunningInvariance == Spec => []RunningInv
<1>1. Init => RunningInv
  <2> SUFFICES ASSUME Init PROVE RunningInv
    OBVIOUS
  <2>1. \A c \in Cli : pc[c] = "waiting" /\ proc[c] = "none"
    BY DEF Init
  <2>2. \A p \in Project : state[p].life # "running"
    BY NoStateFacts DEF Init
  <2>3. Mutex
    BY <2>1 DEF Mutex, HoldsProjectLock, ProjectSteps, RecordSteps, PortSteps, Launched
  <2>4. \A c \in Cli : HealthView(c)
    BY <2>1 DEF HealthView, RecordSteps, Unpromoted, PortSteps, Launched
  <2>5. QED
    BY <2>2, <2>3, <2>4, InitTypeOK DEF RunningInv, Persisted
<1>2. QED
  BY <1>1, NextRunningInv, PTL DEF Spec

\* Whatever commands are killed, whichever pids are given away, whether ps
\* answers and wherever an interrupt hits: the port of the running daemon on
\* record is the port its project's profile reserves.
THEOREM RunningPortIsReserved == Spec => []RunningIsPersisted
<1>1. RunningInv => RunningIsPersisted
  BY DEF RunningInv, Persisted, Reserves, RunningIsPersisted
<1>2. QED
  BY <1>1, RunningInvariance, PTL

\* Under every fault, a state file says "running" only of a child that has
\* answered a health call: the launch that waited for it, or the recovery of a
\* launch that was killed.
THEOREM RunningAnsweredHealth == Spec => []RunningWasHealthy
<1>1. RunningInv => RunningWasHealthy
  BY DEF RunningInv, Persisted, Healthy, RunningWasHealthy
<1>2. QED
  BY <1>1, RunningInvariance, PTL

-----------------------------------------------------------------------------
(* No two projects reserve the same port                                   *)

\* No command is killed, or interrupted between the fork and the assignment of
\* the Popen object.  Without this a recovery may find a starting daemon that
\* lost its launch, and writes its port into the profile without the port lock.
Uninterrupted == Faults \cap {"cli_crash", "popen_interrupt"} = {}

\* The steps of a launch that may have written its state and not removed it.
HoldsRecord == {"token", "token_write", "popen", "remove"} \cup Launched

\* The steps of a launch that go by the port it has selected.
PortSelected == PortSteps \ {"select", "terminate", "remove"}

\* A state names an instance of its own project, and an unpromoted instance
\* belongs to a launch that is still going on.
OwnRecord == \A p \in Project : state[p] # NoState => ProjectOf[state[p].inst] = p
NoLeftover ==
  \A p \in Project : state[p].life \in {"launching", "starting"} =>
    pc[state[p].inst] \in HoldsRecord
ChildHeld == \A i \in Cli : proc[i] \in {"booting", "claiming", "claimed"} => pc[i] \in Launched

\* Hence a command only ever reads the state of a running daemon.
SeesRunning == \A c \in Cli : pc[c] \in RecordSteps => seen[c].life = "running"

\* One launch at a time goes by a selected port, which no other project reserves.
OneAllocates == \A c, d \in Cli : pc[c] \in PortSteps /\ pc[d] \in PortSteps => c = d
SelectedFree ==
  \A c \in Cli : pc[c] \in PortSelected => picked[c] \in AnyPort \ Reserved(ProjectOf[c])

PortInv ==
  /\ RunningInv
  /\ OwnRecord /\ NoLeftover /\ ChildHeld /\ SeesRunning
  /\ OneAllocates /\ SelectedFree /\ DistinctProfiles

\* What a step of an invocation must show of itself and of its own project.
RecordInHand(c) ==
  LET s == state'[ProjectOf[c]] IN
  /\ s # NoState => ProjectOf[s.inst] = ProjectOf[c]
  /\ s.life \in {"launching", "starting"} => pc'[s.inst] \in HoldsRecord
  /\ proc'[c] \in {"booting", "claiming", "claimed"} => pc'[c] \in Launched
  /\ pc'[c] \in RecordSteps => seen'[c].life = "running"

PortInHand(c) ==
  /\ pc'[c] \in PortSteps => pc[c] \in PortSteps \/ \A d \in Cli : pc[d] \notin PortSteps
  /\ pc'[c] \in PortSelected => picked'[c] \in AnyPort \ Reserved(ProjectOf[c])
  /\ \/ profile'[ProjectOf[c]] = profile[ProjectOf[c]]
     \/ pc[c] \in PortSelected /\ profile'[ProjectOf[c]] = picked[c]

LEMMA PortsDistinct ==
  ASSUME DistinctProfiles, NEW p \in Project, profile[p] # NoPort
  PROVE  profile[p] \notin Reserved(p)
BY DEF DistinctProfiles, Reserved

\* A step that shows both preserves the invariant.
LEMMA CommandKeepsPorts ==
  ASSUME PortInv, TypeOK', RunningInv', NEW c \in Cli, CliStep(c),
         RecordInHand(c), PortInHand(c)
  PROVE  PortInv'
<1>1. /\ TypeOK /\ Frame(c) /\ ProjectOf[c] \in Project
      /\ \A d \in Cli : ProjectOf[d] \in Project
  BY CommandFrame, CliAssumption DEF PortInv, RunningInv
<1>2. \A p \in Project : state[p] # NoState => state[p].inst \in Cli
  BY <1>1, StateFacts DEF TypeOK
<1>3. OwnRecord'
  BY <1>1 DEF PortInv, OwnRecord, RecordInHand, Frame
<1>4. NoLeftover'
  <2> SUFFICES ASSUME NEW p \in Project, state'[p].life \in {"launching", "starting"}
               PROVE  pc'[state'[p].inst] \in HoldsRecord
    BY DEF NoLeftover
  <2>1. CASE p = ProjectOf[c]
    BY <2>1 DEF RecordInHand
  <2>2. CASE p # ProjectOf[c]
    <3>1. state'[p] = state[p] /\ state[p] # NoState
      BY <1>1, <2>2, NoStateFacts DEF Frame
    <3>2. state[p].inst \in Cli \ {c}
      BY <1>2, <2>2, <3>1 DEF PortInv, OwnRecord
    <3>3. QED
      BY <1>1, <3>1, <3>2 DEF PortInv, NoLeftover, Frame
  <2>3. QED
    BY <2>1, <2>2
<1>5. ChildHeld'
  BY <1>1 DEF PortInv, ChildHeld, RecordInHand, Frame
<1>6. SeesRunning'
  BY <1>1 DEF PortInv, SeesRunning, RecordInHand, Frame
<1>7. OneAllocates'
  BY <1>1 DEF PortInv, OneAllocates, PortInHand, Frame
<1>8. SelectedFree'
  <2> SUFFICES ASSUME NEW d \in Cli, pc'[d] \in PortSelected
               PROVE  picked'[d] \in AnyPort \ Reserved(ProjectOf[d])'
    BY DEF SelectedFree
  <2>1. CASE d = c
    <3>1. \A q \in Project \ {ProjectOf[c]} : profile'[q] = profile[q]
      BY <1>1 DEF Frame
    <3>2. Reserved(ProjectOf[c])' = Reserved(ProjectOf[c])
      BY <3>1 DEF Reserved
    <3>3. QED
      BY <2>1, <3>2 DEF PortInHand
  <2>2. CASE d # c
    <3>1. pc[d] \in PortSelected /\ picked'[d] = picked[d]
      BY <1>1, <2>2 DEF Frame
    <3>2. pc[c] \notin PortSelected
      BY <2>2, <3>1 DEF PortInv, OneAllocates, PortSelected
    <3>3. \A q \in Project : profile'[q] = profile[q]
      BY <1>1, <3>2 DEF PortInHand, Frame
    <3>4. Reserved(ProjectOf[d])' = Reserved(ProjectOf[d])
      BY <3>3 DEF Reserved
    <3>5. QED
      BY <3>1, <3>4 DEF PortInv, SelectedFree
  <2>3. QED
    BY <2>1, <2>2
<1>9. DistinctProfiles'
  <2>1. CASE profile'[ProjectOf[c]] = profile[ProjectOf[c]]
    BY <1>1, <2>1 DEF PortInv, DistinctProfiles, Frame
  <2>2. CASE pc[c] \in PortSelected /\ profile'[ProjectOf[c]] = picked[c]
    <3>1. picked[c] \in AnyPort /\ picked[c] # NoPort /\ picked[c] \notin Reserved(ProjectOf[c])
      BY <2>2, PortAssumption DEF PortInv, SelectedFree
    <3>2. \A q \in Project \ {ProjectOf[c]} : profile[q] # picked[c]
      BY <3>1 DEF Reserved
    <3>3. QED
      BY <1>1, <2>2, <3>2 DEF PortInv, DistinctProfiles, Frame
  <2>3. QED
    BY <2>1, <2>2 DEF PortInHand
<1>10. QED
  BY <1>3, <1>4, <1>5, <1>6, <1>7, <1>8, <1>9 DEF PortInv

\* A step of a child writes no profile, and claims only while its launch waits.
LEMMA ChildKeepsPorts ==
  ASSUME PortInv, TypeOK', RunningInv', NEW i \in Cli,
         ChildStep(i) \/ ChildExit(i) \/ ReusePid(i) \/ ForeignExit(i)
  PROVE  PortInv'
<1>1. /\ TypeOK /\ pc' = pc /\ seen' = seen /\ profile' = profile /\ picked' = picked
      /\ ProjectOf[i] \in Project
  BY CliAssumption DEF PortInv, RunningInv, ChildStep, ReadClaim, WriteClaim, BindPort,
     ChildExit, ReusePid, ForeignExit, files, locals
<1>2. \A j \in Cli : proc'[j] \in {"booting", "claiming", "claimed"} =>
                     proc[j] \in {"booting", "claiming", "claimed"}
  BY <1>1 DEF ChildStep, ReadClaim, WriteClaim, BindPort, ChildExit, ReusePid, ForeignExit,
     SetProc, TypeOK
<1>3. ChildHeld'
  BY <1>1, <1>2 DEF PortInv, ChildHeld
<1>4. SeesRunning' /\ OneAllocates' /\ DistinctProfiles'
  BY <1>1 DEF PortInv, SeesRunning, OneAllocates, DistinctProfiles
<1>5. SelectedFree'
  BY <1>1 DEF PortInv, SelectedFree, Reserved
<1>6. CASE state' = state
  BY <1>1, <1>3, <1>4, <1>5, <1>6 DEF PortInv, OwnRecord, NoLeftover
<1>7. CASE WriteClaim(i)
  <2>1. pc[i] \in HoldsRecord
    BY <1>7 DEF PortInv, ChildHeld, WriteClaim, HoldsRecord
  <2>2. /\ state'[ProjectOf[i]] = Record(i, "starting")
        /\ \A p \in Project : p # ProjectOf[i] => state'[p] = state[p]
    BY <1>1, <1>7, SetStateFacts, RecordFacts, ValueFacts DEF WriteClaim, TypeOK
  <2>3. Record(i, "starting").inst = i
    BY RecordFacts, ValueFacts
  <2>4. OwnRecord' /\ NoLeftover'
    BY <1>1, <2>1, <2>2, <2>3 DEF PortInv, OwnRecord, NoLeftover
  <2>5. QED
    BY <1>3, <1>4, <1>5, <2>4 DEF PortInv
<1>8. QED
  BY <1>6, <1>7 DEF ChildStep, ReadClaim, BindPort, ChildExit, ReusePid, ForeignExit, files

\* The selection never returns a port that another project reserves, whether the
\* port is requested, the project's own or found by the scan.
LEMMA SelectionIsFree ==
  ASSUME TypeOK, DistinctProfiles, NEW p \in Project, NEW r \in AnyPort \cup {NoPort}
  PROVE  StartPorts(p, r) \subseteq AnyPort \ Reserved(p)
<1>1. StartPorts(p, r) \subseteq AnyPort
  BY StartPortsType DEF TypeOK
<1>2. profile[p] # NoPort => profile[p] \notin Reserved(p)
  BY PortsDistinct
<1>3. ScanPorts(p) \cap Reserved(p) = {}
  BY DEF ScanPorts
<1>4. QED
  BY <1>1, <1>2, <1>3 DEF StartPorts

\* The launch that an unpromoted state belongs to holds the lock of the project:
\* a command that holds the lock, and is not that launch, finds no such state.
LEMMA FoundIsRunning ==
  ASSUME PortInv, NEW c \in Cli, HoldsProjectLock(c), pc[c] \notin HoldsRecord,
         state[ProjectOf[c]] # NoState
  PROVE  state[ProjectOf[c]].life = "running"
<1> DEFINE s == state[ProjectOf[c]]
<1>1. ProjectOf[c] \in Project /\ s.inst \in Cli /\ s.life \in Life /\ ProjectOf[s.inst] = ProjectOf[c]
  BY CliAssumption, StateFacts DEF PortInv, RunningInv, TypeOK, OwnRecord
<1>2. CASE s.life \in {"launching", "starting"}
  <2>1. pc[s.inst] \in HoldsRecord
    BY <1>1, <1>2 DEF PortInv, NoLeftover
  <2>2. HoldsProjectLock(s.inst) /\ s.inst # c
    BY <2>1 DEF HoldsRecord, HoldsProjectLock, ProjectSteps, PortSteps
  <2>3. QED
    BY <1>1, <2>2 DEF PortInv, RunningInv, Mutex
<1>3. QED
  BY <1>1, <1>2 DEF Life

\* A step that does not launch, and keeps or removes the state.
LEMMA OutsidePorts ==
  ASSUME PortInv, NEW c \in Cli, CliStep(c), pc[c] \notin HoldsRecord,
         pc'[c] \notin PortSteps, proc' = proc,
         profile'[ProjectOf[c]] = profile[ProjectOf[c]],
         state'[ProjectOf[c]] \in {state[ProjectOf[c]], NoState},
         pc'[c] \in RecordSteps => seen'[c].life = "running"
  PROVE  RecordInHand(c) /\ PortInHand(c)
<1> DEFINE s == state[ProjectOf[c]]
<1>1. TypeOK /\ Frame(c) /\ ProjectOf[c] \in Project
  BY CommandFrame, CliAssumption DEF PortInv, RunningInv
<1>2. proc'[c] \notin {"booting", "claiming", "claimed"}
  BY DEF PortInv, ChildHeld, HoldsRecord
<1>3. ASSUME s.life \in {"launching", "starting"} PROVE pc'[s.inst] \in HoldsRecord
  <2>1. s.inst \in Cli /\ pc[s.inst] \in HoldsRecord
    BY <1>1, <1>3, StateFacts, NoStateFacts DEF PortInv, NoLeftover, TypeOK
  <2>2. QED
    BY <1>1, <2>1 DEF Frame
<1>4. RecordInHand(c)
  BY <1>1, <1>2, <1>3, NoStateFacts DEF RecordInHand, PortInv, OwnRecord
<1>5. QED
  BY <1>4 DEF PortInHand, PortSelected

LEMMA ReadingPorts ==
  ASSUME PortInv, NEW c \in Cli,
         \/ AcquireProjectLock(c) \/ ReadState(c) \/ PollLaunching(c)
         \/ TakeClaimLock(c) \/ RecoverLaunching(c)
  PROVE  RecordInHand(c) /\ PortInHand(c)
<1> DEFINE s == state[ProjectOf[c]]
<1>1. TypeOK /\ CliStep(c) /\ ProjectOf[c] \in Project /\ SeesRunning
  BY CliAssumption DEF CliStep, PortInv, RunningInv
<1>2. /\ pc[c] \in {"waiting", "read", "poll", "claim_lock", "recover"}
      /\ proc' = proc /\ profile' = profile
  BY DEF AcquireProjectLock, ReadState, PollLaunching, TakeClaimLock, RecoverLaunching, files, locals
<1>3. pc[c] \notin HoldsRecord
  BY <1>2 DEF HoldsRecord, Launched
<1>4. s # NoState /\ pc[c] # "waiting" => s.life = "running"
  BY <1>2, <1>3, FoundIsRunning, HeldSteps DEF HoldsProjectLock
<1>5. state'[ProjectOf[c]] \in {s, NoState}
  <2>1. CASE SetState(c, NoState)
    BY <1>1, <2>1, SetStateFacts, NoStateFacts DEF TypeOK
  <2>2. QED
    BY <2>1 DEF AcquireProjectLock, ReadState, PollLaunching, TakeClaimLock, RecoverLaunching, files
<1>6. pc'[c] \notin PortSteps
  <2>1. CASE Absent(c)
    BY <1>1, <2>1, AbsentFacts DEF TypeOK, PortSteps, Launched
  <2>2. CASE \E t \in {"read", "poll", "alive", "claim_lock", "recover"} : Goto(c, t)
    BY <1>1, <2>2, GotoFacts, StepFacts DEF TypeOK, PortSteps, Launched
  <2>3. QED
    BY <2>1, <2>2 DEF AcquireProjectLock, ReadState, PollLaunching, TakeClaimLock, RecoverLaunching
<1>7. pc'[c] \in RecordSteps => seen'[c].life = "running"
  <2>1. CASE Absent(c)
    BY <1>1, <2>1, AbsentFacts, StepFacts DEF TypeOK
  <2>2. CASE Goto(c, "read")
    BY <1>1, <2>2, GotoFacts, StepFacts DEF TypeOK
  <2>3. CASE See(c, s) /\ s # NoState /\ pc[c] # "waiting"
    BY <1>1, <1>4, <2>3, SeeFacts DEF TypeOK
  <2>4. CASE pc[c] \in RecordSteps /\ seen' = seen
    BY <1>1, <2>4 DEF SeesRunning
  <2>5. QED
    BY <2>1, <2>2, <2>3, <2>4, StepFacts, NoStateFacts
    DEF AcquireProjectLock, ReadState, PollLaunching, TakeClaimLock, RecoverLaunching, locals
<1>8. QED
  BY <1>1, <1>2, <1>3, <1>5, <1>6, <1>7, OutsidePorts

LEMMA StoppingPorts ==
  ASSUME PortInv, NEW c \in Cli,
         CheckAlive(c) \/ CheckOwned(c) \/ RecheckAlive(c) \/ SendSigterm(c) \/ AwaitExit(c)
  PROVE  RecordInHand(c) /\ PortInHand(c)
<1>1. TypeOK /\ CliStep(c) /\ ProjectOf[c] \in Project /\ SeesRunning
  BY CliAssumption DEF CliStep, PortInv, RunningInv
<1>2. pc[c] \in RecordSteps /\ proc' = proc /\ profile' = profile /\ seen' = seen
  BY DEF CheckAlive, CheckOwned, RecheckAlive, SendSigterm, AwaitExit, RecordSteps, files, locals
<1>3. pc[c] \notin HoldsRecord
  BY <1>2 DEF HoldsRecord, Launched, RecordSteps
<1>4. state'[ProjectOf[c]] \in {state[ProjectOf[c]], NoState}
  <2>1. CASE SetState(c, NoState)
    BY <1>1, <2>1, SetStateFacts, NoStateFacts DEF TypeOK
  <2>2. QED
    BY <2>1 DEF CheckAlive, CheckOwned, RecheckAlive, SendSigterm, AwaitExit
<1>5. pc'[c] \notin PortSteps
  <2>1. CASE Absent(c)
    BY <1>1, <2>1, AbsentFacts DEF TypeOK, PortSteps, Launched
  <2>2. CASE \E t \in {"owned", "signal", "health", "recheck", "await_exit", "ports"} : Goto(c, t)
    BY <1>1, <2>2, GotoFacts, StepFacts DEF TypeOK, PortSteps, Launched
  <2>3. CASE \E r \in Result : Return(c, r)
    BY <1>1, <2>3, ReturnFacts DEF TypeOK, PortSteps, Launched
  <2>4. QED
    BY <2>1, <2>2, <2>3, ValueFacts DEF CheckAlive, CheckOwned, RecheckAlive, SendSigterm, AwaitExit
<1>6. seen'[c].life = "running"
  BY <1>1, <1>2 DEF SeesRunning
<1>7. QED
  BY <1>1, <1>2, <1>3, <1>4, <1>5, <1>6, OutsidePorts

\* A recovery finds a running daemon, whose port the profile already reserves.
LEMMA PromotingPorts ==
  ASSUME PortInv, NEW c \in Cli, RecoverStarting(c) \/ PromotePort(c) \/ PromoteState(c)
  PROVE  RecordInHand(c) /\ PortInHand(c)
<1> DEFINE i == seen[c].inst
<1>1. TypeOK /\ CliStep(c) /\ ProjectOf[c] \in Project /\ HealthView(c) /\ pc[c] \in RecordSteps
  BY CliAssumption, StepFacts DEF CliStep, PortInv, RunningInv, RecoverStarting, PromotePort, PromoteState
<1>2. seen[c].life = "running" /\ i \in Cli
  BY <1>1, StateFacts DEF PortInv, SeesRunning, TypeOK
<1>3. RecoverStarting(c)
  BY <1>1, <1>2 DEF HealthView, PromotePort, PromoteState
<1>4. state' = state /\ proc' = proc /\ seen' = seen /\ pc[c] \notin HoldsRecord
  BY <1>3 DEF RecoverStarting, locals, HoldsRecord, Launched
<1>5. pc'[c] = "return"
  BY <1>1, <1>2, <1>3, ReturnFacts, ValueFacts DEF RecoverStarting, TypeOK
<1>6. profile[ProjectOf[c]] = picked[i]
  BY <1>1, <1>2 DEF HealthView, Reserves
<1>7. profile'[ProjectOf[c]] = profile[ProjectOf[c]]
  <2>1. CASE SetProfile(c, picked[i])
    BY <1>1, <1>2, <1>6, <2>1, SetProfileFacts DEF TypeOK
  <2>2. QED
    BY <1>2, <1>3, <2>1 DEF RecoverStarting
<1>8. QED
  BY <1>1, <1>4, <1>5, <1>7, OutsidePorts, StepFacts DEF PortSteps, Launched

\* A step of a launch that keeps the record, the profile and the selected port.
LEMMA LaunchMovePorts ==
  ASSUME PortInv, NEW c \in Cli, CliStep(c), pc[c] \in PortSelected,
         pc'[c] \in PortSteps \ {"select"},
         pc[c] \in HoldsRecord => pc'[c] \in HoldsRecord,
         pc[c] \in Launched => pc'[c] \in Launched,
         state' = state, profile' = profile, picked' = picked, proc' = proc
  PROVE  RecordInHand(c) /\ PortInHand(c)
<1> DEFINE s == state[ProjectOf[c]]
<1>1. TypeOK /\ Frame(c) /\ ProjectOf[c] \in Project
  BY CommandFrame, CliAssumption DEF PortInv, RunningInv
<1>2. pc'[c] \notin RecordSteps
  BY DEF RecordSteps, PortSteps, Launched
<1>3. ASSUME s.life \in {"launching", "starting"} PROVE pc'[s.inst] \in HoldsRecord
  <2>1. s.inst \in Cli /\ pc[s.inst] \in HoldsRecord
    BY <1>1, <1>3, StateFacts, NoStateFacts DEF PortInv, NoLeftover, TypeOK
  <2>2. QED
    BY <1>1, <2>1 DEF Frame
<1>4. RecordInHand(c)
  BY <1>1, <1>2, <1>3 DEF RecordInHand, PortInv, OwnRecord, ChildHeld
<1>5. picked[c] \in AnyPort \ Reserved(ProjectOf[c])
  BY DEF PortInv, SelectedFree
<1>6. QED
  BY <1>4, <1>5 DEF PortInHand, PortSelected

\* The port lock and the selection.
LEMMA SelectingPorts ==
  ASSUME PortInv, NEW c \in Cli, AcquirePortLock(c) \/ SelectStartPort(c)
  PROVE  RecordInHand(c) /\ PortInHand(c)
<1> DEFINE s == state[ProjectOf[c]]
<1>1. TypeOK /\ CliStep(c) /\ Frame(c) /\ ProjectOf[c] \in Project /\ DistinctProfiles
  BY CommandFrame, CliAssumption DEF CliStep, PortInv, RunningInv
<1>2. /\ pc[c] \in {"ports", "select"} /\ pc[c] \notin HoldsRecord
      /\ state' = state /\ proc' = proc /\ profile' = profile
  BY DEF AcquirePortLock, SelectStartPort, files, locals, HoldsRecord, Launched
<1>3. CASE pc'[c] \in {"select", "launch"}
  <2>1. ASSUME s.life \in {"launching", "starting"} PROVE pc'[s.inst] \in HoldsRecord
    <3>1. s.inst \in Cli /\ pc[s.inst] \in HoldsRecord
      BY <1>1, <2>1, StateFacts, NoStateFacts DEF PortInv, NoLeftover, TypeOK
    <3>2. QED
      BY <1>1, <1>2, <3>1 DEF Frame
  <2>2. RecordInHand(c)
    BY <1>1, <1>2, <1>3, <2>1 DEF RecordInHand, PortInv, OwnRecord, ChildHeld, HoldsRecord, RecordSteps
  <2>3. pc'[c] \in PortSteps => pc[c] \in PortSteps \/ \A d \in Cli : pc[d] \notin PortSteps
    BY <1>2, <1>3 DEF AcquirePortLock, SelectStartPort, HoldsPortLock, PortSteps
  <2>4. pc'[c] \in PortSelected => picked'[c] \in AnyPort \ Reserved(ProjectOf[c])
    <3>1. CASE AcquirePortLock(c)
      BY <1>1, <3>1, GotoFacts, StepFacts DEF AcquirePortLock, PortSelected, TypeOK
    <3>2. CASE SelectStartPort(c)
      <4>1. StartPorts(ProjectOf[c], want[c]) \subseteq AnyPort \ Reserved(ProjectOf[c])
        BY <1>1, SelectionIsFree DEF TypeOK
      <4>2. pc'[c] = "launch" => picked'[c] \in StartPorts(ProjectOf[c], want[c])
        BY <1>1, <3>2, ReturnFacts, ValueFacts DEF SelectStartPort, TypeOK
      <4>3. QED
        BY <1>3, <4>1, <4>2 DEF PortSelected
    <3>3. QED
      BY <3>1, <3>2
  <2>5. QED
    BY <1>2, <2>2, <2>3, <2>4 DEF PortInHand
<1>4. CASE pc'[c] = "return"
  BY <1>1, <1>2, <1>4, OutsidePorts, StepFacts DEF PortSteps, Launched
<1>5. QED
  BY <1>1, <1>3, <1>4, GotoFacts, ReturnFacts, StepFacts, ValueFacts
  DEF AcquirePortLock, SelectStartPort, TypeOK

\* The token, the waits for the child, a failure, and the end of the command.
LEMMA MovingPorts ==
  ASSUME PortInv, NEW c \in Cli,
         \/ ReadOrCreateToken(c) \/ WriteToken(c) \/ AwaitClaim(c) \/ AwaitReady(c)
         \/ VerifyChild(c) \/ LaunchFails(c) \/ Exit(c)
  PROVE  RecordInHand(c) /\ PortInHand(c)
<1>1. TypeOK /\ CliStep(c) /\ state' = state /\ profile' = profile /\ picked' = picked /\ proc' = proc
  BY DEF CliStep, PortInv, RunningInv, ReadOrCreateToken, WriteToken, AwaitClaim, AwaitReady,
     VerifyChild, LaunchFails, Exit, files, locals
<1>2. CASE Exit(c)
  <2>1. pc[c] = "return" /\ pc'[c] = "done"
    BY <1>1, <1>2, GotoFacts, StepFacts DEF Exit, TypeOK
  <2>2. QED
    BY <1>1, <2>1, OutsidePorts, StepFacts DEF HoldsRecord, PortSteps, Launched
<1>3. CASE ReadOrCreateToken(c) \/ WriteToken(c)
  <2>1. pc[c] \in {"token", "token_write"} /\ pc'[c] \in {"token_write", "popen", "remove"}
    BY <1>1, <1>3, GotoFacts, StepFacts DEF ReadOrCreateToken, WriteToken, TypeOK
  <2>2. QED
    BY <1>1, <2>1, LaunchMovePorts DEF HoldsRecord, PortSelected, PortSteps, Launched
<1>4. CASE AwaitClaim(c) \/ AwaitReady(c) \/ VerifyChild(c) \/ LaunchFails(c)
  <2>1. pc[c] \in Launched \ {"terminate"} /\ pc'[c] \in Launched
    BY <1>1, <1>4, GotoFacts, StepFacts
    DEF AwaitClaim, AwaitReady, VerifyChild, LaunchFails, Launched, TypeOK
  <2>2. QED
    BY <1>1, <2>1, LaunchMovePorts DEF HoldsRecord, PortSelected, PortSteps, Launched
<1>5. QED
  BY <1>2, <1>3, <1>4

\* The steps of a launch that write the record or the profile, or change the child.
LEMMA WritingPorts ==
  ASSUME PortInv, Uninterrupted, NEW c \in Cli,
         \/ WriteLaunching(c) \/ SpawnChild(c) \/ PersistPort(c) \/ PersistState(c)
         \/ TerminateFailedStart(c) \/ RemoveFailedState(c)
  PROVE  RecordInHand(c) /\ PortInHand(c)
<1> DEFINE p == ProjectOf[c]
           s == state[p]
<1>1. /\ TypeOK /\ CliStep(c) /\ Frame(c) /\ p \in Project /\ HealthView(c)
      /\ (pc[c] \in PortSelected => picked[c] \in AnyPort \ Reserved(p))
  BY CommandFrame, CliAssumption DEF CliStep, PortInv, RunningInv, SelectedFree
<1>2. /\ s # NoState => s.inst \in Cli /\ ProjectOf[s.inst] = p
      /\ s.life \in {"launching", "starting"} => s.inst \in Cli /\ pc[s.inst] \in HoldsRecord
  BY <1>1, StateFacts, NoStateFacts DEF PortInv, NoLeftover, OwnRecord, TypeOK
<1>3. /\ proc[c] \in {"booting", "claiming", "claimed"} => pc[c] \in Launched
      /\ Record(c, "launching").inst = c /\ Record(c, "running").inst = c
      /\ Record(c, "running").life = "running" /\ Record(c, "launching") \in State
      /\ Record(c, "running") \in State
  BY RecordFacts, ValueFacts DEF PortInv, ChildHeld
<1>4. SpawnChild(c) => Goto(c, "claim") \/ (Goto(c, "remove") /\ proc' = proc)
  <2>1. "popen_interrupt" \notin Faults
    BY DEF Uninterrupted
  <2>2. QED
    BY <2>1 DEF SpawnChild
<1> USE <1>1, StepFacts, ValueFacts
<1>5. CASE WriteLaunching(c)
  <2>1. pc[c] = "launch" /\ proc' = proc /\ profile' = profile /\ picked' = picked
    BY <1>5 DEF WriteLaunching, locals
  <2>2. CASE Return(c, "failed") /\ state' = state
    <3>1. pc'[c] = "return"
      BY <2>2, ReturnFacts DEF TypeOK
    <3>2. QED
      BY <2>1, <2>2, <3>1, OutsidePorts DEF HoldsRecord, PortSteps, Launched
  <2>3. CASE SetState(c, Record(c, "launching")) /\ (Goto(c, "token") \/ Goto(c, "remove"))
    <3>1. state'[p] = Record(c, "launching") /\ pc'[c] \in {"token", "remove"}
      BY <1>3, <2>3, SetStateFacts, GotoFacts DEF TypeOK
    <3>2. RecordInHand(c)
      BY <1>3, <2>1, <3>1 DEF RecordInHand, HoldsRecord, Launched
    <3>3. QED
      BY <2>1, <3>1, <3>2 DEF PortInHand, PortSelected, PortSteps
  <2>4. QED
    BY <1>5, <2>2, <2>3 DEF WriteLaunching
<1>6. CASE SpawnChild(c)
  <2>1. pc[c] = "popen" /\ state' = state /\ profile' = profile /\ picked' = picked
    BY <1>6 DEF SpawnChild, files, locals
  <2>2. pc'[c] = "claim" \/ (pc'[c] = "remove" /\ proc' = proc)
    BY <1>4, <1>6, GotoFacts DEF TypeOK
  <2>3. s.life \in {"launching", "starting"} => pc'[s.inst] \in HoldsRecord
    BY <1>2, <2>2 DEF Frame, HoldsRecord, Launched
  <2>4. RecordInHand(c)
    BY <1>2, <1>3, <2>1, <2>2, <2>3 DEF RecordInHand, Launched
  <2>5. QED
    BY <2>1, <2>2, <2>4 DEF PortInHand, PortSelected, PortSteps, Launched
<1>7. CASE PersistPort(c)
  <2>1. /\ pc[c] = "persist_port" /\ pc'[c] = "persist_state" /\ profile'[p] = picked[c]
        /\ state' = state /\ picked' = picked
    BY <1>7, GotoFacts, SetProfileFacts DEF PersistPort, TypeOK, locals
  <2>2. s.life \in {"launching", "starting"} => pc'[s.inst] \in HoldsRecord
    BY <1>2, <2>1 DEF Frame, HoldsRecord, Launched
  <2>3. RecordInHand(c)
    BY <1>2, <2>1, <2>2 DEF RecordInHand, Launched
  <2>4. QED
    BY <2>1, <2>3 DEF PortInHand, PortSelected, PortSteps, Launched
<1>8. CASE PersistState(c)
  <2>1. /\ pc[c] = "persist_state" /\ profile' = profile /\ picked' = picked /\ proc' = proc
        /\ pc'[c] \in {"return", "terminate"} /\ state'[p] = Record(c, "running")
    BY <1>3, <1>8, GotoFacts, ReturnFacts, SetStateFacts DEF PersistState, TypeOK, locals
  <2>2. Healthy(c)
    BY <2>1 DEF HealthView
  <2>3. RecordInHand(c)
    BY <1>3, <2>1, <2>2 DEF RecordInHand, Healthy
  <2>4. QED
    BY <2>1, <2>3 DEF PortInHand, PortSelected, PortSteps, Launched
<1>9. CASE TerminateFailedStart(c)
  <2>1. /\ pc[c] = "terminate" /\ pc'[c] = "remove" /\ proc'[c] = "dead"
        /\ state' = state /\ profile' = profile
    BY <1>9, GotoFacts, SetProcFacts DEF TerminateFailedStart, TypeOK, files
  <2>2. s.life \in {"launching", "starting"} => pc'[s.inst] \in HoldsRecord
    BY <1>2, <2>1 DEF Frame, HoldsRecord
  <2>3. RecordInHand(c)
    BY <1>2, <2>1, <2>2 DEF RecordInHand
  <2>4. QED
    BY <2>1, <2>3 DEF PortInHand, PortSelected, PortSteps, Launched
<1>10. CASE RemoveFailedState(c)
  <2>1. /\ pc[c] = "remove" /\ pc'[c] = "return" /\ state'[p] = NoState
        /\ proc' = proc /\ profile' = profile
    BY <1>10, ReturnFacts, SetStateFacts, NoStateFacts DEF RemoveFailedState, TypeOK
  <2>2. RecordInHand(c)
    BY <1>3, <2>1, NoStateFacts DEF RecordInHand, Launched
  <2>3. QED
    BY <2>1, <2>2 DEF PortInHand, PortSelected, PortSteps, Launched
<1>11. QED
  BY <1>5, <1>6, <1>7, <1>8, <1>9, <1>10

LEMMA NextPortInv ==
  ASSUME Uninterrupted
  PROVE  PortInv /\ [Next]_vars => PortInv'
<1> SUFFICES ASSUME PortInv, [Next]_vars PROVE PortInv'
  OBVIOUS
<1>1. RunningInv' /\ TypeOK'
  BY NextRunningInv DEF PortInv, RunningInv
<1>2. CASE UNCHANGED vars
  BY <1>1, <1>2 DEF vars, PortInv, OwnRecord, NoLeftover, ChildHeld, SeesRunning, OneAllocates,
     SelectedFree, Reserved, DistinctProfiles
<1>3. ASSUME NEW c \in Cli, CliStep(c) PROVE PortInv'
  <2>1. RecordInHand(c) /\ PortInHand(c)
    BY <1>3, ReadingPorts, StoppingPorts, PromotingPorts, SelectingPorts, MovingPorts, WritingPorts
    DEF CliStep
  <2>2. QED
    BY <1>1, <1>3, <2>1, CommandKeepsPorts
<1>4. ASSUME NEW i \in Cli, ChildStep(i) \/ ChildExit(i) \/ ReusePid(i) \/ ForeignExit(i)
      PROVE  PortInv'
  BY <1>1, <1>4, ChildKeepsPorts
<1>5. \A c \in Cli : ~CliCrash(c)
  BY DEF CliCrash, Uninterrupted
<1>6. QED
  BY <1>2, <1>3, <1>4, <1>5 DEF Next, Environment

LEMMA PortInvariance == Uninterrupted => (Spec => []PortInv)
<1> SUFFICES ASSUME Uninterrupted PROVE Spec => []PortInv
  OBVIOUS
<1>1. Init => OwnRecord /\ NoLeftover /\ ChildHeld /\ SeesRunning /\ OneAllocates
               /\ SelectedFree /\ DistinctProfiles
  BY NoStateFacts, StepFacts
  DEF Init, OwnRecord, NoLeftover, ChildHeld, SeesRunning, OneAllocates, SelectedFree,
      DistinctProfiles, PortSelected, PortSteps, Launched
<1>2. RunningInv /\ OwnRecord /\ NoLeftover /\ ChildHeld /\ SeesRunning /\ OneAllocates
        /\ SelectedFree /\ DistinctProfiles => PortInv
  BY DEF PortInv
<1>3. PortInv /\ [Next]_vars => PortInv'
  BY NextPortInv
<1>4. QED
  BY <1>1, <1>2, <1>3, RunningInvariance, PTL DEF Spec

\* No two projects reserve the same port, as long as no command is killed and no
\* interrupt hits Popen itself, whatever pids are given away and whether ps
\* answers: the launches select and reserve one after the other, and a command
\* outside the port lock only ever reserves the port its project has already.
THEOREM ProfilesAreDistinct == Uninterrupted => (Spec => []DistinctProfiles)
<1> SUFFICES ASSUME Uninterrupted PROVE Spec => []DistinctProfiles
  OBVIOUS
<1>1. PortInv => DistinctProfiles
  BY DEF PortInv
<1>2. QED
  BY <1>1, PortInvariance, PTL

-----------------------------------------------------------------------------
(* The scan for a free port                                                *)

\* Arithmetic modulo the size of the range.
LEMMA ModFacts ==
  ASSUME NEW n \in Nat \ {0}, NEW x \in Nat, x < n
  PROVE  x % n = x /\ (x + n) % n = x
OBVIOUS

\* The scan visits every port of the range.
LEMMA ScanVisits ==
  ASSUME NEW p \in Project, NEW q \in Port
  PROVE  \E k \in Port : (DefaultPort[p] + k) % NPorts = q
<1> DEFINE d == DefaultPort[p]
<1>1. d \in Nat /\ q \in Nat /\ NPorts \in Nat \ {0} /\ d < NPorts /\ q < NPorts
  BY PortAssumption DEF Port
<1>2. CASE d <= q
  <2>1. q - d \in Port /\ d + (q - d) = q
    BY <1>1, <1>2 DEF Port
  <2>2. QED
    BY <1>1, <2>1, ModFacts
<1>3. CASE q < d
  <2>1. q + NPorts - d \in Port /\ d + (q + NPorts - d) = q + NPorts
    BY <1>1, <1>3 DEF Port
  <2>2. QED
    BY <1>1, <2>1, ModFacts
<1>4. QED
  BY <1>1, <1>2, <1>3

\* A set of offsets in the range has a least one.
LEMMA LeastPort ==
  ASSUME NEW S \in SUBSET Port, S # {}
  PROVE  \E k \in S : \A j \in Port : j < k => j \notin S
<1> DEFINE Less == {ss \in Nat \X Nat : ss[1] < ss[2]}
<1>1. OpToRel(<, Nat) = Less
  BY DEF OpToRel
<1>2. IsWellFoundedOn(Less, Nat)
  BY <1>1, NatLessThanWellFounded
<1>3. S \subseteq Nat
  BY PortAssumption DEF Port
<1> HIDE DEF Less
<1>4. PICK k \in S : \A j \in S : ~ (<<j, k>> \in Less)
  BY <1>2, <1>3, WFMin
<1>5. ASSUME NEW j \in S, j < k PROVE FALSE
  <2>1. <<j, k>> \in Less
    BY <1>3, <1>5 DEF Less
  <2>2. QED
    BY <1>4, <2>1
<1>6. QED
  BY <1>5

\* The scan for a port, which starts at the hashed port and wraps around, finds
\* exactly one port of a range of any size, which is free and which no other project
\* reserves; it finds none only if there is no such port.
THEOREM ScanFindsFreePort ==
  ASSUME NEW p \in Project
  PROVE  /\ \A q, r \in ScanPorts(p) : q = r
         /\ \A q \in ScanPorts(p) : q \notin Reserved(p) /\ ~InUse(q)
         /\ ScanPorts(p) = {} => \A q \in Port : q \in Reserved(p) \/ InUse(q)
<1> DEFINE Nth(k) == (DefaultPort[p] + k) % NPorts
           Free(k) == Nth(k) \notin Reserved(p) /\ ~InUse(Nth(k))
           First == {k \in Port : Free(k) /\ \A j \in Port : j < k => ~Free(j)}
<1>1. ScanPorts(p) = {Nth(k) : k \in First}
  BY DEF ScanPorts
<1>2. \A k, j \in First : k = j
  BY DEF Port
<1>3. ASSUME NEW q \in Port, q \notin Reserved(p), ~InUse(q)
      PROVE  First # {}
  <2>1. PICK k \in Port : Nth(k) = q
    BY ScanVisits
  <2>2. {j \in Port : Free(j)} # {}
    BY <1>3, <2>1
  <2> HIDE DEF Free
  <2>3. PICK i \in {j \in Port : Free(j)} : \A j \in Port : j < i => j \notin {h \in Port : Free(h)}
    BY <2>2, LeastPort
  <2>4. QED
    BY <2>3
<1>4. QED
  BY <1>1, <1>2, <1>3

-----------------------------------------------------------------------------
(* The token                                                               *)

\* What a command knows of its project's token while it writes it, and from then on
\* until the launch is over; a child has it for ever.
TokenView(c) ==
  LET t == token[ProjectOf[c]] IN
  /\ pc[c] = "token_write" => t = "torn"
  /\ pc[c] \in {"popen"} \cup Launched => t = "ok"
  /\ proc[c] # "none" => t = "ok"

TokenInv == \A c \in Cli : TokenView(c)

\* The token of a project is written only by a launch that has found, or made, it
\* absent or torn, and then nobody of the project relies on it.
TokenMoves ==
  /\ \A p \in Project : token[p] = "ok" => token'[p] = "ok"
  /\ TokenInv'

\* The steps that leave the tokens alone.
LEMMA OtherStepsKeepToken ==
  ASSUME RunningInv, TokenInv, TypeOK', token' = token,
         \A c \in Cli :
           /\ pc'[c] # pc[c] =>
                /\ pc'[c] # "token_write"
                /\ pc'[c] \in {"popen"} \cup Launched => token[ProjectOf[c]] = "ok"
           /\ proc'[c] # proc[c] => token[ProjectOf[c]] = "ok"
  PROVE  TokenMoves
<1>1. ASSUME NEW c \in Cli PROVE TokenView(c)'
  <2>1. TokenView(c)
    BY DEF TokenInv
  <2>2. CASE pc'[c] = pc[c]
    BY <2>1, <2>2 DEF TokenView
  <2>3. CASE pc'[c] # pc[c]
    BY <2>1, <2>3 DEF TokenView
  <2>4. QED
    BY <2>2, <2>3
<1>2. QED
  BY <1>1 DEF TokenMoves, TokenInv

\* The steps that write the token: the other commands of the project are not under its
\* lock, and no child of the project was ever launched.
LEMMA TokenStepsKeepToken ==
  ASSUME RunningInv, TokenInv, TypeOK', NEW c \in Cli, ReadOrCreateToken(c) \/ WriteToken(c)
  PROVE  TokenMoves
<1> DEFINE p == ProjectOf[c]
<1>1. TypeOK /\ p \in Project /\ Frame(c) /\ Alone(c) /\ TokenView(c) /\ proc' = proc
  BY CommandFrame, CommandAlone, CliAssumption
  DEF RunningInv, TokenInv, CliStep, ReadOrCreateToken, WriteToken
<1>2. pc'[c] = "popen" => token'[p] = "ok"
  BY <1>1, GotoFacts, SetTokenFacts, StepFacts, ValueFacts
  DEF TypeOK, ReadOrCreateToken, WriteToken
<1>3. pc'[c] = "token_write" => token'[p] = "torn"
  BY <1>1, GotoFacts, SetTokenFacts, StepFacts, ValueFacts
  DEF TypeOK, ReadOrCreateToken, WriteToken
<1>4. pc'[c] \in {"token_write", "popen", "remove"}
  BY <1>1, GotoFacts, StepFacts DEF TypeOK, ReadOrCreateToken, WriteToken
<1>5. token[p] # "ok" \/ token' = token
  BY <1>1 DEF ReadOrCreateToken, WriteToken, TokenView
<1>6. \A q \in Project : q # p => token'[q] = token[q]
  BY <1>1, SetTokenFacts, ValueFacts DEF TypeOK, ReadOrCreateToken, WriteToken
<1>7. TokenView(c)'
  <2>1. proc'[c] # "none" => token'[p] = "ok"
    BY <1>1, <1>5 DEF TokenView
  <2>2. QED
    BY <1>2, <1>3, <1>4, <2>1 DEF TokenView, Launched
<1>8. ASSUME NEW d \in Cli, d # c PROVE TokenView(d)'
  <2>1. TokenView(d) /\ pc'[d] = pc[d] /\ proc'[d] = proc[d] /\ ProjectOf[d] \in Project
    BY <1>1, <1>8, CliAssumption DEF TokenInv, Frame
  <2>2. CASE ProjectOf[d] # p
    BY <1>6, <2>1, <2>2 DEF TokenView
  <2>3. CASE ProjectOf[d] = p
    <3>1. pc[d] \notin {"token_write", "popen"} \cup Launched
      BY <1>1, <1>8, <2>3 DEF Alone, HoldsProjectLock, ProjectSteps, PortSteps
    <3>2. proc[d] # "none" => token'[p] = "ok"
      BY <1>5, <2>1, <2>3 DEF TokenView
    <3>3. QED
      BY <2>1, <2>3, <3>1, <3>2 DEF TokenView
  <2>4. QED
    BY <2>2, <2>3
<1>9. QED
  BY <1>5, <1>6, <1>7, <1>8 DEF TokenMoves, TokenInv

LEMMA NextTokenInv == RunningInv /\ TokenInv /\ [Next]_vars => TokenMoves
<1> SUFFICES ASSUME RunningInv, TokenInv, [Next]_vars PROVE TokenMoves
  OBVIOUS
<1>1. TypeOK /\ TypeOK'
  BY NextTypeOK DEF RunningInv
<1>2. CASE UNCHANGED vars
  BY <1>1, <1>2, OtherStepsKeepToken DEF vars
<1>3. ASSUME NEW c \in Cli, ReadOrCreateToken(c) \/ WriteToken(c) PROVE TokenMoves
  BY <1>1, <1>3, TokenStepsKeepToken
<1>4. ASSUME NEW c \in Cli, CliStep(c) \/ CliCrash(c), ~(ReadOrCreateToken(c) \/ WriteToken(c))
      PROVE  TokenMoves
  <2>1. token' = token
    BY <1>4 DEF CliStep, AcquireProjectLock, ReadState, PollLaunching, TakeClaimLock,
       RecoverLaunching, CheckAlive, CheckOwned, RecoverStarting, PromotePort, PromoteState,
       RecheckAlive, SendSigterm, AwaitExit, AcquirePortLock, SelectStartPort, WriteLaunching,
       SpawnChild, AwaitClaim, AwaitReady, VerifyChild, PersistPort, PersistState, LaunchFails,
       TerminateFailedStart, RemoveFailedState, Exit, CliCrash, files
  <2>2. Frame(c) /\ TokenView(c)
    BY <1>1, <1>4, CommandFrame DEF TokenInv
  <2>3. \/ pc[c] \in {"popen"} \cup Launched
        \/ pc'[c] \notin {"token_write", "popen"} \cup Launched /\ proc' = proc
    <3>1. CASE pc[c] \in {"popen"} \cup Launched
      BY <3>1
    <3>2. CASE proc' = proc /\ (Absent(c) \/ \E r \in Result : Return(c, r))
      BY <1>1, <3>2, AbsentFacts, ReturnFacts DEF TypeOK, Launched
    <3>3. CASE /\ proc' = proc
               /\ \E t \in RecordSteps \cup {"read", "ports", "select", "launch", "token",
                                             "remove", "done", "crashed"} : Goto(c, t)
      BY <1>1, <3>3, GotoFacts, StepFacts DEF TypeOK, Launched, RecordSteps
    <3>4. QED
      BY <1>4, <3>1, <3>2, <3>3, ValueFacts, StepFacts
      DEF CliStep, AcquireProjectLock, ReadState, PollLaunching, TakeClaimLock,
       RecoverLaunching, CheckAlive, CheckOwned, RecoverStarting, PromotePort, PromoteState,
       RecheckAlive, SendSigterm, AwaitExit, AcquirePortLock, SelectStartPort, WriteLaunching,
       SpawnChild, AwaitClaim, AwaitReady, VerifyChild, PersistPort, PersistState, LaunchFails,
       TerminateFailedStart, RemoveFailedState, Exit, CliCrash, Launched
  <2>4. pc'[c] # "token_write"
    <3>1. \/ Absent(c) \/ \E r \in Result : Return(c, r)
          \/ \E t \in Pc \ {"token_write"} : Goto(c, t)
      BY <1>4, ValueFacts, StepFacts
      DEF CliStep, AcquireProjectLock, ReadState, PollLaunching, TakeClaimLock,
       RecoverLaunching, CheckAlive, CheckOwned, RecoverStarting, PromotePort, PromoteState,
       RecheckAlive, SendSigterm, AwaitExit, AcquirePortLock, SelectStartPort, WriteLaunching,
       SpawnChild, AwaitClaim, AwaitReady, VerifyChild, PersistPort, PersistState, LaunchFails,
       TerminateFailedStart, RemoveFailedState, Exit, CliCrash
    <3>2. QED
      BY <1>1, <3>1, AbsentFacts, ReturnFacts, GotoFacts DEF TypeOK
  <2>5. QED
    BY <1>1, <2>1, <2>2, <2>3, <2>4, OtherStepsKeepToken DEF Frame, TokenView
<1>5. ASSUME NEW i \in Cli, ChildStep(i) \/ ChildExit(i) \/ ReusePid(i) \/ ForeignExit(i)
      PROVE  TokenMoves
  <2>1. token' = token /\ pc' = pc /\ proc[i] # "none"
    BY <1>5 DEF ChildStep, ReadClaim, WriteClaim, BindPort, ChildExit, ReusePid, ForeignExit,
       files, Alive
  <2>2. \A d \in Cli : d # i => proc'[d] = proc[d]
    BY <1>1, <1>5 DEF ChildStep, ReadClaim, WriteClaim, BindPort, ChildExit, ReusePid,
       ForeignExit, SetProc, TypeOK
  <2>3. token[ProjectOf[i]] = "ok"
    BY <2>1 DEF TokenInv, TokenView
  <2>4. QED
    BY <1>1, <2>1, <2>2, <2>3, OtherStepsKeepToken
<1>6. QED
  BY <1>2, <1>3, <1>4, <1>5 DEF Next, Environment

LEMMA TokenInvariance == Spec => []TokenInv
<1>1. Init => TokenInv
  BY DEF Init, TokenInv, TokenView, Launched
<1>2. RunningInv /\ TokenInv /\ [Next]_vars => TokenInv'
  BY NextTokenInv DEF TokenMoves
<1>3. QED
  BY <1>1, <1>2, RunningInvariance, PTL DEF Spec

\* Under every fault, a child is only launched with a whole token: a token file left
\* empty by a start that was killed is never used.
THEOREM ChildrenHaveTokens == Spec => []ChildHasToken
<1>1. TokenInv => ChildHasToken
  BY DEF TokenInv, TokenView, ChildHasToken
<1>2. QED
  BY <1>1, TokenInvariance, PTL

\* Under every fault, a token once whole stays as it is: a failing write removes only
\* the file its own launch has created.
THEOREM TokensAreKept == Spec => TokenKept
<1>1. RunningInv /\ TokenInv /\ [Next]_vars
        => [\A p \in Project : token[p] = "ok" => token'[p] = "ok"]_vars
  BY NextTokenInv DEF TokenMoves
<1>2. QED
  BY <1>1, RunningInvariance, TokenInvariance, PTL DEF Spec, TokenKept
=============================================================================
