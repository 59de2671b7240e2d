---------------------------- MODULE TasksProofs -----------------------------
(***************************************************************************)
(* Proofs about Tunnel and Tasks, for any number of clients, names of the  *)
(* target, tasks, calls, events and late commands, and any set of faults.  *)
(***************************************************************************)
EXTENDS Tasks, TLAPS

-----------------------------------------------------------------------------
(* The invariants                                                          *)

Steps == TunnelSteps \cup TaskSteps \cup Answers

\* The steps at which a call may still find the tunnel up, and go on.
Connecting == {"ensure", "start_check", "start_port", "start_spawn"}
Starting == {"has_session", "write", "new_session"}

\* A step belongs to a call that has it, and a task_start has a number.
StepOp ==
  \A c \in Client :
    /\ pc[c] \in Connecting => call[c].op \in {"tunnel_start", "run_remote", "task_start"}
    /\ pc[c] \in Starting => call[c].op = "task_start"
    /\ call[c].op = "task_start" => call[c].id # 0

Typed == TypeOK /\ StepOp

\* A live master has the port; and a stop that is about to remove the socket of
\* the master that has the port is one whose exit request was in vain.
LiveHasPort == \A l \in Label : sock[l] = "live" => holder = l
UnlinkIsLost ==
  \A c \in Client : pc[c] = "stop_unlink" /\ holder = call[c].label => lost

TunnelInv == LiveHasPort /\ UnlinkIsLost /\ NoOrphan /\ TunnelUpForLaunch

Uploading(c, n) == pc[c] \in {"write", "new_session"} /\ call[c].name = n
LateStart(k, n) == k.kind \in {"write", "new"} /\ k.name = n

\* Unless starts were mixed, one start of a task at a time is past its check, or may
\* still take effect after it has timed out, and then there is no session.
OneStart(n) ==
  /\ \A c, d \in Client : Uploading(c, n) /\ Uploading(d, n) => c = d
  /\ \A c \in Client : Uploading(c, n) =>
       session[n] = NoSession /\ \A k \in late : ~LateStart(k, n)
  /\ \A k \in late : LateStart(k, n) =>
       session[n] = NoSession /\ \A j \in late : LateStart(j, n) => j = k

\* The script is the one of the start that makes the session, or has made it, if a push
\* has not removed it.
OwnUpload(n) ==
  /\ \A c \in Client : pc[c] = "new_session" /\ call[c].name = n => script[n] \in {0, call[c].id}
  /\ \A k \in late : k.kind = "new" /\ k.name = n => script[n] \in {0, k.id}
  /\ session[n].phase = "new" => script[n] \in {0, session[n].run}
  /\ session[n].phase \in {"running", "exited"} => session[n].ran = session[n].run

StartInv == \A n \in Name \ mixed : OneStart(n) /\ OwnUpload(n)

\* The exit file of the last run is there, or a push has removed it.
HasResult(n) == exitf[n] = last[n].run \/ (n \in swept /\ exitf[n] = 0)

\* What is known of the last run of a task: the session is its, and the exit file if it
\* has written one.
LastRun(n) ==
  /\ last[n].ended = "normally" => last[n].run # 0 /\ HasResult(n)
  /\ Exists(n) =>
       /\ last[n].run # 0 /\ last[n].ended = "no"
       /\ session[n].run = last[n].run /\ session[n].phase # "none"
       /\ session[n].phase = "exited" => HasResult(n)
  /\ ~Exists(n) /\ last[n].ended = "no" => exitf[n] = 0

\* Without the directory there is no exit file, and the sessions have lost theirs to a
\* push.
NoDir == ~dir => \A n \in Name : exitf[n] = 0 /\ (Exists(n) => n \in swept)

LateHasId == \A k \in late : k.kind = "new" => k.id # 0
LastInv == LateHasId /\ NoDir /\ \A n \in Name : LastRun(n)

-----------------------------------------------------------------------------
(* The helpers                                                             *)

\* Where a call may go.
LEMMA StepFacts ==
  /\ Connecting \subseteq Steps /\ Starting \subseteq Steps /\ Answers \subseteq Steps
  /\ TunnelSteps \subseteq Steps /\ TaskSteps \subseteq Steps
  /\ Connecting \cap Answers = {} /\ TaskSteps \cap Answers = {}
BY DEF Steps, Connecting, Starting, TunnelSteps, TaskSteps, Answers

\* There is a name for the tasks, and one for the target.
LEMMA NoCallFacts ==
  /\ NoCall \in Call /\ NoCall.op = "tunnel_status" /\ NoCall.id = 0
<1>1. (CHOOSE n \in Name : TRUE) \in Name
  BY TunnelAssumption
<1>2. 0 \in 0 .. MaxCalls /\ Resolved \in Label
  BY TunnelAssumption
<1>3. "tunnel_status" \in Op /\ FALSE \in BOOLEAN
  BY DEF Op, TunnelOp
<1> QED
  BY <1>1, <1>2, <1>3 DEF NoCall, Call

\* One client goes to another step.
LEMMA GotoFacts ==
  ASSUME pc \in [Client -> Steps], NEW c \in Client, NEW s \in Steps, Goto(c, s)
  PROVE  /\ pc' \in [Client -> Steps] /\ pc'[c] = s
         /\ \A d \in Client : d # c => pc'[d] = pc[d]
BY DEF Goto

LEMMA ContinueFacts ==
  ASSUME pc \in [Client -> Steps], NEW c \in Client, NEW s \in Steps, Continue(c, s)
  PROVE  /\ pc' \in [Client -> Steps] /\ pc'[c] = s
         /\ \A d \in Client : d # c => pc'[d] = pc[d]
         /\ call' = call /\ UNCHANGED <<calls, starts, events>>
BY GotoFacts DEF Continue

LEMMA ReturnFacts ==
  ASSUME pc \in [Client -> Steps], call \in [Client -> Call],
         NEW c \in Client, NEW a \in Answers, Return(c, a)
  PROVE  /\ pc' \in [Client -> Steps] /\ pc'[c] = a
         /\ \A d \in Client : d # c => pc'[d] = pc[d] /\ call'[d] = call[d]
         /\ call' \in [Client -> Call] /\ call'[c] = NoCall
         /\ UNCHANGED <<calls, starts, events>>
BY GotoFacts, NoCallFacts, StepFacts DEF Return

\* Losing the port marks the calls under way, and changes nothing else of them.
LEMMA UpsetFacts ==
  ASSUME call \in [Client -> Call], call' = Upset
  PROVE  /\ call' \in [Client -> Call]
         /\ \A d \in Client :
              /\ call'[d].op = call[d].op /\ call'[d].label = call[d].label
              /\ call'[d].name = call[d].name /\ call'[d].id = call[d].id
              /\ ~Idle(d) => call'[d].upset
<1> SUFFICES ASSUME NEW d \in Client
             PROVE  /\ Upset[d] \in Call
                    /\ Upset[d].op = call[d].op /\ Upset[d].label = call[d].label
                    /\ Upset[d].name = call[d].name /\ Upset[d].id = call[d].id
                    /\ ~Idle(d) => Upset[d].upset
  BY DEF Upset
<1>1. call[d] \in Call
  OBVIOUS
<1> QED
  BY <1>1 DEF Upset, Call

\* A client moves on: it keeps its call, or ends it.
Moved(c) ==
  /\ pc' \in [Client -> Steps] /\ call' \in [Client -> Call]
  /\ \A d \in Client : d # c => pc'[d] = pc[d] /\ call'[d] = call[d]
  /\ call'[c] = call[c] \/ (call'[c] = NoCall /\ pc'[c] \in Answers)
  /\ UNCHANGED <<calls, starts, events>>

LEMMA TypedFacts ==
  ASSUME Typed
  PROVE  pc \in [Client -> Steps] /\ call \in [Client -> Call]
BY DEF Typed, TypeOK, TunnelTypeOK, Steps

LEMMA MovesOn ==
  ASSUME Typed, NEW c \in Client, NEW s \in Steps, Continue(c, s)
  PROVE  Moved(c) /\ pc'[c] = s /\ call' = call
BY TypedFacts, ContinueFacts DEF Moved

LEMMA MovesOut ==
  ASSUME Typed, NEW c \in Client, NEW a \in Answers, Return(c, a)
  PROVE  Moved(c) /\ pc'[c] = a /\ call'[c] = NoCall
BY TypedFacts, ReturnFacts DEF Moved

LEMMA FailFacts ==
  ASSUME Typed, NEW c \in Client, Fail(c)
  PROVE  Moved(c) /\ pc'[c] = "done" /\ call'[c] = NoCall
BY MovesOut DEF Fail, Answers

\* A call that found the tunnel goes on.
LEMMA ReadyFacts ==
  ASSUME Typed, NEW c \in Client, pc[c] \in Connecting, NEW deaf \in BOOLEAN, Ready(c, deaf)
  PROVE  \/ Moved(c) /\ pc'[c] = "done"
         \/ /\ pc'[c] = "run" \/ (pc'[c] = "has_session" /\ call[c].op = "task_start")
            /\ pc' \in [Client -> Steps] /\ \A d \in Client : d # c => pc'[d] = pc[d]
            /\ call' = [call EXCEPT ![c].upset = @ \/ deaf]
            /\ UNCHANGED <<calls, starts, events>>
<1>1. call[c].op \in {"tunnel_start", "run_remote", "task_start"}
  BY DEF Typed, StepOp
<1>2. CASE call[c].op = "tunnel_start"
  <2>1. Return(c, "done")
    BY <1>2 DEF Ready
  <2> QED
    BY <2>1, MovesOut DEF Answers
<1>3. CASE call[c].op = "run_remote"
  <2>1. Goto(c, "run") /\ "run" \in Steps
    BY <1>3 DEF Ready, Steps, TunnelSteps
  <2> QED
    BY <1>3, <2>1, TypedFacts, GotoFacts DEF Ready
<1>4. CASE call[c].op = "task_start"
  <2>1. Goto(c, "has_session") /\ "has_session" \in Steps
    BY <1>4 DEF Ready, Steps, TaskSteps
  <2> QED
    BY <1>4, <2>1, TypedFacts, GotoFacts DEF Ready
<1> QED
  BY <1>1, <1>2, <1>3, <1>4

\* With a master that is not deaf it keeps its call.
LEMMA ReadyLiveFacts ==
  ASSUME Typed, NEW c \in Client, pc[c] \in Connecting, Ready(c, FALSE)
  PROVE  /\ Moved(c)
         /\ \/ pc'[c] = "done"
            \/ pc'[c] = "run"
            \/ pc'[c] = "has_session" /\ call[c].op = "task_start"
<1>1. call[c] \in Call /\ call \in [Client -> Call]
  BY TypedFacts
<1>2. [call EXCEPT ![c].upset = @ \/ FALSE] = call
  <2>1. [call[c] EXCEPT !.upset = @ \/ FALSE] = call[c]
    BY <1>1 DEF Call
  <2> QED
    BY <1>1, <2>1
<1> QED
  BY <1>1, <1>2, ReadyFacts DEF Moved

\* With a deaf one it is marked.
LEMMA ReadyDeafFacts ==
  ASSUME Typed, NEW c \in Client, call' = [call EXCEPT ![c].upset = @ \/ TRUE]
  PROVE  /\ call' \in [Client -> Call] /\ \A d \in Client : d # c => call'[d] = call[d]
         /\ call'[c].op = call[c].op /\ call'[c].label = call[c].label
         /\ call'[c].name = call[c].name /\ call'[c].id = call[c].id /\ call'[c].upset
<1>1. call[c] \in Call /\ call \in [Client -> Call]
  BY TypedFacts
<1> DEFINE k == [call[c] EXCEPT !.upset = TRUE]
<1>2. /\ k \in Call /\ k.op = call[c].op /\ k.label = call[c].label /\ k.name = call[c].name
      /\ k.id = call[c].id /\ k.upset
  BY <1>1 DEF Call
<1>3. call' = [call EXCEPT ![c] = k]
  OBVIOUS
<1> HIDE DEF k
<1> QED
  BY <1>1, <1>2, <1>3

-----------------------------------------------------------------------------
(* Types                                                                   *)

TunnelDataOK ==
  /\ holder \in Port /\ sock \in [Label -> Socket] /\ parting \subseteq Label
  /\ lost \in BOOLEAN
TaskDataOK ==
  /\ session \in [Name -> Session] /\ script \in [Name -> Id] /\ exitf \in [Name -> Id]
  /\ log \in [Name -> BOOLEAN] /\ dir \in BOOLEAN
  /\ late \subseteq Late /\ last \in [Name -> Last]
  /\ mixed \subseteq Name /\ swept \subseteq Name

LEMMA TypeOKParts ==
  TypeOK <=> /\ TunnelDataOK /\ TaskDataOK
             /\ pc \in [Client -> Steps] /\ call \in [Client -> Call]
             /\ calls \in 0 .. MaxCalls /\ starts \in 0 .. calls /\ events \in 0 .. MaxEvents
BY DEF TypeOK, TunnelTypeOK, TunnelDataOK, TaskDataOK, Steps

\* A client that moves on to a step of its call is well typed.
LEMMA MovedTyped ==
  ASSUME Typed, NEW c \in Client, Moved(c),
         TunnelDataOK', TaskDataOK',
         pc'[c] \in Connecting => pc[c] \in Connecting,
         pc'[c] \in Starting => call[c].op = "task_start"
  PROVE  Typed'
<1>1. TypeOK'
  BY TypeOKParts DEF Typed, TypeOK, TunnelTypeOK, TunnelDataOK, TaskDataOK, Moved, Steps
<1>2. StepOp'
  <2> SUFFICES ASSUME NEW d \in Client
               PROVE  /\ pc'[d] \in Connecting =>
                           call'[d].op \in {"tunnel_start", "run_remote", "task_start"}
                      /\ pc'[d] \in Starting => call'[d].op = "task_start"
                      /\ call'[d].op = "task_start" => call'[d].id # 0
    BY DEF StepOp
  <2>1. CASE d # c
    BY <2>1 DEF Moved, Typed, StepOp
  <2>2. CASE d = c /\ call'[c] = call[c]
    BY <2>2 DEF Typed, StepOp
  <2>3. CASE d = c /\ call'[c] = NoCall /\ pc'[c] \in Answers
    BY <2>3, StepFacts, NoCallFacts DEF Starting, TaskSteps, Answers, Connecting
  <2> QED
    BY <2>1, <2>2, <2>3 DEF Moved
<1> QED
  BY <1>1, <1>2 DEF Typed

LEMMA UnchangedTypes ==
  ASSUME Typed
  PROVE  /\ UNCHANGED tunnel => TunnelDataOK'
         /\ UNCHANGED taskVars => TaskDataOK'
BY TypeOKParts DEF Typed, tunnel, taskVars, remote, TunnelDataOK, TaskDataOK

LEMMA MasterStartsType ==
  ASSUME Typed, NEW l \in Label, MasterStarts(l)
  PROVE  TunnelDataOK'
<1>1. TunnelDataOK
  BY TypeOKParts DEF Typed
<1>2. holder' \in Port
  BY DEF MasterStarts, Port
<1>3. sock' \in [Label -> Socket]
  BY <1>1 DEF MasterStarts, TunnelDataOK, Socket
<1>4. lost' \in BOOLEAN
  BY DEF MasterStarts
<1> QED
  BY <1>1, <1>2, <1>3, <1>4 DEF TunnelDataOK, MasterStarts

LEMMA MasterLosesType ==
  ASSUME Typed, NEW n \in {"free", "foreign"}, NEW s \in Socket, MasterLoses(n, s),
         parting' \subseteq Label
  PROVE  TunnelDataOK'
<1>1. TunnelDataOK
  BY TypeOKParts DEF Typed
<1>2. sock' \in [Label -> Socket]
  BY <1>1 DEF MasterLoses, TunnelDataOK
<1> QED
  BY <1>2 DEF MasterLoses, TunnelDataOK, Port

-----------------------------------------------------------------------------
(* The tunnel                                                              *)

\* What a step of the tunnel leaves alone of the calls of the tasks.
Frame ==
  \A d \in Client :
    /\ pc'[d] \in {"write", "new_session"} =>
         pc'[d] = pc[d] /\ call'[d].name = call[d].name /\ call'[d].id = call[d].id
    /\ pc[d] = "status" => pc'[d] = "status"

LEMMA MovedFrame ==
  ASSUME NEW c \in Client, Moved(c), pc[c] # "status", pc'[c] \notin {"write", "new_session"}
  PROVE  Frame
BY DEF Moved, Frame

\* The invariant when the tunnel is left alone.
LEMMA MovedTunnelInv ==
  ASSUME TunnelInv, NEW c \in Client, Moved(c), UNCHANGED tunnel,
         pc'[c] = "stop_unlink" => (holder = call[c].label => lost),
         pc'[c] \in Launching => pc[c] \in Launching \/ holder = call[c].label
  PROVE  TunnelInv'
<1>1. LiveHasPort' /\ NoOrphan'
  BY DEF TunnelInv, LiveHasPort, NoOrphan, tunnel
<1>2. UnlinkIsLost'
  <2> SUFFICES ASSUME NEW d \in Client, pc'[d] = "stop_unlink", holder = call'[d].label
               PROVE  lost
    BY DEF UnlinkIsLost, tunnel
  <2>1. CASE d # c
    BY <2>1 DEF Moved, TunnelInv, UnlinkIsLost
  <2>2. CASE d = c
    BY <2>2 DEF Moved, Answers
  <2> QED
    BY <2>1, <2>2
<1>3. TunnelUpForLaunch'
  <2> SUFFICES ASSUME NEW d \in Client, pc'[d] \in Launching, holder # call'[d].label
               PROVE  call'[d].upset
    BY DEF TunnelUpForLaunch, tunnel
  <2>1. pc[d] \in Launching /\ call'[d] = call[d]
    BY DEF Moved, Answers, Launching
  <2> QED
    BY <2>1 DEF TunnelInv, TunnelUpForLaunch
<1> QED
  BY <1>1, <1>2, <1>3 DEF TunnelInv

\* A client that leaves tunnel and tasks alone.
LEMMA QuietStep ==
  ASSUME Typed, TunnelInv, NEW c \in Client, Moved(c), UNCHANGED tunnel, UNCHANGED taskVars,
         pc[c] \notin {"status"} \cup Starting, pc'[c] \notin {"write", "new_session"},
         pc'[c] \in Connecting => pc[c] \in Connecting,
         pc'[c] = "has_session" => call[c].op = "task_start",
         pc'[c] = "stop_unlink" => (holder = call[c].label => lost),
         pc'[c] \in Launching => pc[c] \in Launching \/ holder = call[c].label
  PROVE  Typed' /\ TunnelInv' /\ Frame
<1>1. Typed'
  BY UnchangedTypes, MovedTyped DEF Starting
<1>2. TunnelInv'
  BY MovedTunnelInv
<1>3. Frame
  BY MovedFrame
<1> QED
  BY <1>1, <1>2, <1>3

\* A call that found a deaf master.
LEMMA ReadyDeafStep ==
  ASSUME Typed, TunnelInv, NEW c \in Client, pc[c] \in {"ensure", "start_check"},
         Ready(c, TRUE), UNCHANGED tunnel, UNCHANGED taskVars
  PROVE  Typed' /\ TunnelInv' /\ Frame
<1> USE DEF Connecting, Starting, Launching
<1>1. CASE Moved(c) /\ pc'[c] = "done"
  BY <1>1, QuietStep
<1>2. CASE /\ pc'[c] = "run" \/ (pc'[c] = "has_session" /\ call[c].op = "task_start")
           /\ pc' \in [Client -> Steps] /\ \A d \in Client : d # c => pc'[d] = pc[d]
           /\ call' = [call EXCEPT ![c].upset = @ \/ TRUE]
           /\ UNCHANGED <<calls, starts, events>>
  <2>1. /\ call' \in [Client -> Call] /\ \A d \in Client : d # c => call'[d] = call[d]
        /\ call'[c].op = call[c].op /\ call'[c].label = call[c].label
        /\ call'[c].name = call[c].name /\ call'[c].id = call[c].id /\ call'[c].upset
    BY <1>2, ReadyDeafFacts
  <2>2. TypeOK'
    BY <1>2, <2>1, UnchangedTypes, TypeOKParts DEF Typed, TypeOK, TunnelTypeOK, TunnelDataOK, TaskDataOK, Steps
  <2>3. StepOp'
    BY <1>2, <2>1 DEF Typed, StepOp
  <2>4. LiveHasPort' /\ NoOrphan'
    BY DEF TunnelInv, LiveHasPort, NoOrphan, tunnel
  <2>5. UnlinkIsLost'
    BY <1>2, <2>1 DEF TunnelInv, UnlinkIsLost, tunnel
  <2>6. TunnelUpForLaunch'
    BY <1>2, <2>1 DEF TunnelInv, TunnelUpForLaunch, tunnel
  <2>7. Frame
    BY <1>2, <2>1 DEF Frame
  <2> QED
    BY <2>2, <2>3, <2>4, <2>5, <2>6, <2>7 DEF Typed, TunnelInv
<1> QED
  BY <1>1, <1>2, ReadyFacts

LEMMA LooksForMasterStep ==
  ASSUME Typed, TunnelInv, NEW c \in Client, pc[c] \in {"ensure", "start_check"},
         NEW s \in {"start_check", "start_port"}, LooksForMaster(c, s), UNCHANGED taskVars
  PROVE  Typed' /\ TunnelInv' /\ Frame
<1> USE DEF Connecting, Starting, Launching
<1> DEFINE l == call[c].label
<1>0. UNCHANGED tunnel /\ l \in Label
  BY TypedFacts DEF LooksForMaster, Call
<1>1. CASE sock[l] = "live" /\ Ready(c, FALSE)
  <2>1. holder = l
    BY <1>0, <1>1 DEF TunnelInv, LiveHasPort
  <2>2. /\ Moved(c)
        /\ pc'[c] = "done" \/ pc'[c] = "run" \/ (pc'[c] = "has_session" /\ call[c].op = "task_start")
    BY <1>1, ReadyLiveFacts
  <2> QED
    BY <1>0, <2>1, <2>2, QuietStep
<1>2. CASE sock[l] = "deaf" /\ Ready(c, TRUE)
  BY <1>0, <1>2, ReadyDeafStep
<1>3. CASE Continue(c, s)
  <2>1. Moved(c) /\ pc'[c] = s
    BY <1>3, MovesOn DEF Steps, TunnelSteps
  <2> QED
    BY <1>0, <2>1, QuietStep
<1>4. CASE Fail(c)
  <2>1. Moved(c) /\ pc'[c] = "done"
    BY <1>4, FailFacts
  <2> QED
    BY <1>0, <2>1, QuietStep
<1>5. \A up \in Checks(l) : up => sock[l] \in {"live", "deaf"}
  BY DEF Checks, Check, Up
<1> QED
  BY <1>1, <1>2, <1>3, <1>4, <1>5 DEF LooksForMaster

LEMMA StartPortStep ==
  ASSUME Typed, TunnelInv, NEW c \in Client, StartPort(c), UNCHANGED taskVars
  PROVE  Typed' /\ TunnelInv' /\ Frame
<1> USE DEF Connecting, Starting, Launching
<1>0. UNCHANGED tunnel /\ pc[c] = "start_port"
  BY DEF StartPort
<1>1. CASE Continue(c, "start_spawn")
  <2>1. Moved(c) /\ pc'[c] = "start_spawn"
    BY <1>1, MovesOn DEF Steps, TunnelSteps
  <2> QED
    BY <1>0, <2>1, QuietStep
<1>2. CASE Fail(c)
  <2>1. Moved(c) /\ pc'[c] = "done"
    BY <1>2, FailFacts
  <2> QED
    BY <1>0, <2>1, QuietStep
<1> QED
  BY <1>1, <1>2 DEF StartPort

\* The steps that only look, and answer.
LEMMA AnswerStep ==
  ASSUME Typed, TunnelInv, NEW c \in Client, RunCommand(c) \/ StatusCheck(c), UNCHANGED taskVars
  PROVE  Typed' /\ TunnelInv' /\ Frame
<1> USE DEF Connecting, Starting, Launching
<1>0. UNCHANGED tunnel /\ pc[c] \in {"run", "status_check"}
  BY DEF RunCommand, StatusCheck
<1>1. \E a \in Answers : Return(c, a)
  BY DEF RunCommand, StatusCheck, Fail, Answers
<1>2. PICK a \in Answers : Moved(c) /\ pc'[c] = a
  BY <1>1, MovesOut
<1> QED
  BY <1>0, <1>2, QuietStep DEF Answers

LEMMA MasterStartsInv ==
  ASSUME Typed, TunnelInv, NEW c \in Client, Moved(c), pc'[c] # "stop_unlink",
         NEW l \in Label, MasterStarts(l), pc'[c] \in Launching => call[c].label = l
  PROVE  TunnelInv'
<1>0. holder = "free" /\ holder \notin Label /\ holder' = l /\ sock \in [Label -> Socket]
  BY TunnelAssumption, TypeOKParts DEF MasterStarts, Typed, TunnelDataOK
<1>1. LiveHasPort'
  <2> SUFFICES ASSUME NEW m \in Label, (sock[m] = "live")', m # l PROVE FALSE
    BY <1>0 DEF LiveHasPort
  <2>1. sock[m] = "live"
    BY <1>0 DEF MasterStarts
  <2> QED
    BY <1>0, <2>1 DEF TunnelInv, LiveHasPort
<1>2. UnlinkIsLost'
  <2> SUFFICES ASSUME NEW d \in Client, pc'[d] = "stop_unlink", call'[d].label = l
               PROVE  lost'
    BY <1>0 DEF UnlinkIsLost
  <2>1. d # c /\ pc[d] = "stop_unlink" /\ call[d].label = l
    BY DEF Moved
  <2> QED
    BY <2>1 DEF MasterStarts, Unlinking
<1>3. NoOrphan'
  BY <1>0 DEF MasterStarts, NoOrphan
<1>4. TunnelUpForLaunch'
  <2> SUFFICES ASSUME NEW d \in Client, pc'[d] \in Launching, call'[d].label # l
               PROVE  call'[d].upset
    BY <1>0 DEF TunnelUpForLaunch
  <2>1. d # c
    BY DEF Moved, Launching, Answers
  <2>2. pc[d] \in Launching /\ call'[d] = call[d] /\ call[d].label # holder
    BY <1>0, <2>1, TypedFacts DEF Moved, Call
  <2> QED
    BY <2>2 DEF TunnelInv, TunnelUpForLaunch
<1> QED
  BY <1>1, <1>2, <1>3, <1>4 DEF TunnelInv

\* The socket of a killed ssh.
LEMMA StaleSocketInv ==
  ASSUME Typed, TunnelInv, NEW c \in Client, Moved(c), pc'[c] \in Answers,
         NEW l \in Label, sock[l] = "none", sock' = [sock EXCEPT ![l] = "stale"],
         UNCHANGED <<holder, parting, lost>>
  PROVE  TunnelDataOK' /\ TunnelInv'
<1>0. TunnelDataOK
  BY TypeOKParts DEF Typed
<1>1. /\ sock' \in [Label -> Socket]
      /\ \A m \in Label : sock'[m] = "live" <=> sock[m] = "live"
  BY <1>0 DEF TunnelDataOK, Socket
<1>2. LiveHasPort' /\ NoOrphan'
  BY <1>1 DEF TunnelInv, LiveHasPort, NoOrphan
<1>3. UnlinkIsLost'
  <2> SUFFICES ASSUME NEW d \in Client, pc'[d] = "stop_unlink", holder = call'[d].label
               PROVE  lost
    BY DEF UnlinkIsLost
  <2>1. d # c /\ pc[d] = "stop_unlink" /\ call[d].label = holder
    BY DEF Moved, Answers
  <2> QED
    BY <2>1 DEF TunnelInv, UnlinkIsLost
<1>4. TunnelUpForLaunch'
  <2> SUFFICES ASSUME NEW d \in Client, pc'[d] \in Launching, holder # call'[d].label
               PROVE  call'[d].upset
    BY DEF TunnelUpForLaunch
  <2>1. d # c
    BY DEF Launching, Answers
  <2> QED
    BY <2>1 DEF Moved, TunnelInv, TunnelUpForLaunch
<1> QED
  BY <1>0, <1>1, <1>2, <1>3, <1>4 DEF TunnelInv, TunnelDataOK

LEMMA StartSpawnStep ==
  ASSUME Typed, TunnelInv, NEW c \in Client, StartSpawn(c), UNCHANGED taskVars
  PROVE  Typed' /\ TunnelInv' /\ Frame
<1> USE DEF Connecting, Starting, Launching
<1> DEFINE l == call[c].label
<1>0. pc[c] = "start_spawn" /\ l \in Label /\ TaskDataOK'
  BY TypedFacts, UnchangedTypes DEF StartSpawn, Call
<1>1. CASE MasterStarts(l) /\ Ready(c, FALSE)
  <2>1. /\ Moved(c)
        /\ pc'[c] = "done" \/ pc'[c] = "run" \/ (pc'[c] = "has_session" /\ call[c].op = "task_start")
    BY <1>0, <1>1, ReadyLiveFacts
  <2>2. TunnelDataOK'
    BY <1>0, <1>1, MasterStartsType
  <2>3. Typed'
    BY <1>0, <2>1, <2>2, MovedTyped
  <2>4. TunnelInv'
    BY <1>0, <1>1, <2>1, MasterStartsInv
  <2>5. Frame
    BY <1>0, <2>1, MovedFrame
  <2> QED
    BY <2>3, <2>4, <2>5
<1>2. CASE MasterStarts(l) /\ Fail(c)
  <2>1. Moved(c) /\ pc'[c] = "done"
    BY <1>2, FailFacts
  <2>2. TunnelDataOK'
    BY <1>0, <1>2, MasterStartsType
  <2>3. Typed'
    BY <1>0, <2>1, <2>2, MovedTyped
  <2>4. TunnelInv'
    BY <1>0, <1>2, <2>1, MasterStartsInv
  <2>5. Frame
    BY <1>0, <2>1, MovedFrame
  <2> QED
    BY <2>3, <2>4, <2>5
<1>3. CASE UNCHANGED tunnel /\ Fail(c)
  <2>1. Moved(c) /\ pc'[c] = "done"
    BY <1>3, FailFacts
  <2> QED
    BY <1>0, <1>3, <2>1, QuietStep
<1>4. CASE /\ sock[l] = "none" /\ sock' = [sock EXCEPT ![l] = "stale"]
           /\ UNCHANGED <<holder, parting, lost>> /\ Fail(c)
  <2>1. Moved(c) /\ pc'[c] = "done" /\ pc'[c] \in Answers
    BY <1>4, FailFacts DEF Answers
  <2>2. TunnelDataOK' /\ TunnelInv'
    BY <1>0, <1>4, <2>1, StaleSocketInv
  <2>3. Typed'
    BY <1>0, <2>1, <2>2, MovedTyped
  <2>4. Frame
    BY <1>0, <2>1, MovedFrame
  <2> QED
    BY <2>2, <2>3, <2>4
<1> QED
  BY <1>1, <1>2, <1>3, <1>4 DEF StartSpawn

LEMMA StopUnlinkStep ==
  ASSUME Typed, TunnelInv, NEW c \in Client, StopUnlink(c), UNCHANGED taskVars
  PROVE  Typed' /\ TunnelInv' /\ Frame
<1> DEFINE l == call[c].label
<1>0. /\ pc[c] = "stop_unlink" /\ l \in Label /\ TaskDataOK' /\ TunnelDataOK
      /\ sock' = [sock EXCEPT ![l] = "none"] /\ UNCHANGED <<holder, lost>>
      /\ parting' = IF sock[l] = "deaf" THEN parting \cup {l} ELSE parting
  BY TypedFacts, UnchangedTypes, TypeOKParts DEF StopUnlink, Call, Typed
<1>1. Moved(c) /\ pc'[c] = "done"
  BY MovesOut DEF StopUnlink, Answers
<1>2. /\ sock' \in [Label -> Socket] /\ parting' \subseteq Label
      /\ \A m \in Label : (sock'[m] = "live" <=> m # l /\ sock[m] = "live")
  BY <1>0 DEF TunnelDataOK, Socket
<1>3. Typed'
  BY <1>0, <1>1, <1>2, MovedTyped DEF TunnelDataOK, Connecting, Starting
<1>4. LiveHasPort'
  BY <1>0, <1>2 DEF TunnelInv, LiveHasPort
<1>5. NoOrphan'
  <2>1. holder = l => lost
    BY <1>0 DEF TunnelInv, UnlinkIsLost
  <2> QED
    BY <1>0, <1>2, <2>1 DEF TunnelInv, NoOrphan
<1>6. UnlinkIsLost'
  BY <1>0, <1>1 DEF Moved, TunnelInv, UnlinkIsLost
<1>7. TunnelUpForLaunch'
  BY <1>0, <1>1 DEF Moved, TunnelInv, TunnelUpForLaunch, Launching
<1>8. Frame
  BY <1>0, <1>1, MovedFrame
<1> QED
  BY <1>3, <1>4, <1>5, <1>6, <1>7, <1>8 DEF TunnelInv

-----------------------------------------------------------------------------
(* The master loses the port                                               *)

\* The port is lost, in a step that keeps the calls but marks those under way.
LEMMA MasterLosesInv ==
  ASSUME Typed, TunnelInv, NEW n \in {"free", "foreign"}, NEW s \in {"none", "stale", "deaf"},
         MasterLoses(n, s), call' = Upset,
         \A d \in Client : pc'[d] = pc[d] \/ pc'[d] \notin Launching
  PROVE  TunnelInv'
<1>0. /\ holder \in Label /\ holder' \notin Label
      /\ sock \in [Label -> Socket]
  BY TunnelAssumption, TypeOKParts DEF MasterLoses, Typed, TunnelDataOK
<1>1. LiveHasPort'
  <2> SUFFICES ASSUME NEW m \in Label, (sock[m] = "live")' PROVE FALSE
    BY DEF LiveHasPort
  <2>1. CASE m # holder
    <3>1. sock[m] = "live"
      BY <1>0, <2>1 DEF MasterLoses
    <3> QED
      BY <2>1, <3>1 DEF TunnelInv, LiveHasPort
  <2>2. CASE m = holder
    BY <1>0, <2>2 DEF MasterLoses
  <2> QED
    BY <2>1, <2>2
<1>2. NoOrphan'
  BY <1>0 DEF NoOrphan
<1>3. UnlinkIsLost'
  <2>1. \A d \in Client : call'[d].label \in Label
    BY TypedFacts, UpsetFacts DEF Call
  <2> QED
    BY <1>0, <2>1 DEF UnlinkIsLost
<1>4. TunnelUpForLaunch'
  <2> SUFFICES ASSUME NEW d \in Client, pc'[d] \in Launching
               PROVE  call'[d].upset
    BY DEF TunnelUpForLaunch
  <2>1. ~Idle(d)
    BY DEF Launching, Idle, Answers
  <2> QED
    BY <2>1, TypedFacts, UpsetFacts
<1> QED
  BY <1>1, <1>2, <1>3, <1>4 DEF TunnelInv

\* Calls that are marked are well typed.
LEMMA UpsetTyped ==
  ASSUME Typed, call' = Upset, TunnelDataOK', TaskDataOK', pc' \in [Client -> Steps],
         UNCHANGED <<calls, starts>>, events' \in 0 .. MaxEvents,
         \A d \in Client : pc'[d] = pc[d] \/ pc'[d] = "stop_unlink"
  PROVE  Typed'
<1>0. call' \in [Client -> Call]
  BY TypedFacts, UpsetFacts
<1>1. TypeOK'
  BY <1>0, TypeOKParts DEF Typed, TypeOK, TunnelTypeOK, TunnelDataOK, TaskDataOK, Steps
<1>2. \A d \in Client : call'[d].op = call[d].op /\ call'[d].id = call[d].id
  BY TypedFacts, UpsetFacts
<1>3. StepOp'
  <2> SUFFICES ASSUME NEW d \in Client
               PROVE  /\ pc'[d] \in Connecting =>
                           call'[d].op \in {"tunnel_start", "run_remote", "task_start"}
                      /\ pc'[d] \in Starting => call'[d].op = "task_start"
                      /\ call'[d].op = "task_start" => call'[d].id # 0
    BY DEF StepOp
  <2> QED
    BY <1>2 DEF Typed, StepOp, Connecting, Starting
<1> QED
  BY <1>1, <1>3 DEF Typed

LEMMA MasterDiesStep ==
  ASSUME Typed, TunnelInv, NEW s \in {"none", "stale"}, MasterDies(s), UNCHANGED taskVars
  PROVE  Typed' /\ TunnelInv' /\ Frame
<1>0. PICK n \in {"free", "foreign"} :
        /\ MasterLoses(n, s) /\ call' = Upset /\ pc' = pc /\ UNCHANGED <<parting, calls, starts>>
        /\ events < MaxEvents /\ events' = events + 1
  BY DEF MasterDies, Event
<1>1. TunnelDataOK' /\ TaskDataOK'
  BY <1>0, MasterLosesType, UnchangedTypes, TypeOKParts DEF Typed, TunnelDataOK, Socket
<1>2. events' \in 0 .. MaxEvents
  BY <1>0, TypeOKParts, TunnelAssumption DEF Typed
<1>3. Typed'
  BY <1>0, <1>1, <1>2, TypedFacts, UpsetTyped
<1>4. TunnelInv'
  BY <1>0, MasterLosesInv
<1>5. Frame
  BY <1>0, TypedFacts, UpsetFacts DEF Frame
<1> QED
  BY <1>3, <1>4, <1>5

LEMMA PortDroppedStep ==
  ASSUME Typed, TunnelInv, PortDropped, UNCHANGED taskVars
  PROVE  Typed' /\ TunnelInv' /\ Frame
<1>0. /\ MasterLoses("free", "deaf") /\ call' = Upset /\ pc' = pc
      /\ UNCHANGED <<calls, starts>>
      /\ parting' = IF sock[holder] = "live" THEN parting ELSE parting \cup {holder}
      /\ events < MaxEvents /\ events' = events + 1
  BY DEF PortDropped, Event
<1>1. TunnelDataOK' /\ TaskDataOK'
  <2>1. parting' \subseteq Label
    BY <1>0, TypeOKParts DEF Typed, TunnelDataOK, MasterLoses
  <2> QED
    BY <1>0, <2>1, MasterLosesType, UnchangedTypes DEF Socket
<1>2. events' \in 0 .. MaxEvents
  BY <1>0, TypeOKParts, TunnelAssumption DEF Typed
<1>3. Typed'
  BY <1>0, <1>1, <1>2, TypedFacts, UpsetTyped
<1>4. TunnelInv'
  BY <1>0, MasterLosesInv
<1>5. Frame
  BY <1>0, TypedFacts, UpsetFacts DEF Frame
<1> QED
  BY <1>3, <1>4, <1>5

\* A deaf master ends, with or without its socket.
LEMMA DeafStep ==
  ASSUME Typed, TunnelInv, NEW l \in Label, DeafEnds(l) \/ PartingEnds(l), UNCHANGED taskVars
  PROVE  Typed' /\ TunnelInv' /\ Frame
<1>0. /\ sock' = [sock EXCEPT ![l] = "none"] /\ UNCHANGED <<holder, threads>>
      /\ parting' \subseteq parting /\ lost' = (lost \/ sock[l] = "live")
      /\ TunnelDataOK
  BY TypeOKParts DEF DeafEnds, PartingEnds, Typed, TunnelDataOK
<1>1. /\ sock' \in [Label -> Socket] /\ lost' \in BOOLEAN
      /\ \A m \in Label : (sock'[m] = "live" <=> m # l /\ sock[m] = "live")
  BY <1>0 DEF TunnelDataOK, Socket
<1>2. Typed'
  <2>1. TunnelDataOK' /\ TaskDataOK'
    BY <1>0, <1>1, UnchangedTypes DEF TunnelDataOK
  <2>2. TypeOK'
    BY <1>0, <2>1, TypeOKParts DEF Typed, TypeOK, TunnelTypeOK, TunnelDataOK, TaskDataOK, threads
  <2> QED
    BY <1>0, <2>2 DEF Typed, StepOp, threads
<1>3. LiveHasPort' /\ NoOrphan'
  BY <1>0, <1>1 DEF TunnelInv, LiveHasPort, NoOrphan
<1>4. UnlinkIsLost' /\ TunnelUpForLaunch'
  BY <1>0 DEF TunnelInv, UnlinkIsLost, TunnelUpForLaunch, threads
<1>5. Frame
  BY <1>0 DEF Frame, threads
<1> QED
  BY <1>2, <1>3, <1>4, <1>5 DEF TunnelInv

LEMMA StopExitStep ==
  ASSUME Typed, TunnelInv, NEW c \in Client, StopExit(c), UNCHANGED taskVars
  PROVE  Typed' /\ TunnelInv' /\ Frame
<1> USE DEF Connecting, Starting, Launching
<1> DEFINE l == call[c].label
<1>0. /\ pc[c] = "stop_exit" /\ l \in Label /\ TaskDataOK'
      /\ "stop_unlink" \in Steps
  BY TypedFacts, UnchangedTypes DEF StopExit, Call, Steps, TunnelSteps
<1>1. CASE MasterLoses("free", "none") /\ call' = Upset /\ Goto(c, "stop_unlink")
           /\ UNCHANGED <<parting, calls, starts, events>>
  <2>1. /\ pc' \in [Client -> Steps] /\ pc'[c] = "stop_unlink"
        /\ \A d \in Client : d # c => pc'[d] = pc[d]
    BY <1>0, <1>1, TypedFacts, GotoFacts
  <2>2. TunnelDataOK' /\ events' \in 0 .. MaxEvents
    BY <1>1, MasterLosesType, TypeOKParts DEF Typed, TunnelDataOK, Socket
  <2>3. Typed'
    BY <1>0, <1>1, <2>1, <2>2, UpsetTyped
  <2>4. TunnelInv'
    BY <1>1, <2>1, MasterLosesInv
  <2>5. Frame
    BY <1>0, <1>1, <2>1, TypedFacts, UpsetFacts DEF Frame
  <2> QED
    BY <2>3, <2>4, <2>5
<1>2. CASE ~Up(l) /\ UNCHANGED tunnel /\ Continue(c, "stop_unlink")
  <2>1. Moved(c) /\ pc'[c] = "stop_unlink"
    BY <1>0, <1>2, MovesOn
  <2>2. holder = l => lost
    BY <1>0, <1>2 DEF TunnelInv, NoOrphan, Up
  <2> QED
    BY <1>0, <1>2, <2>1, <2>2, QuietStep
<1>3. CASE /\ lost' = (lost \/ sock[l] = "live")
           /\ UNCHANGED <<holder, sock, parting>> /\ Continue(c, "stop_unlink")
  <2>1. Moved(c) /\ pc'[c] = "stop_unlink"
    BY <1>0, <1>3, MovesOn
  <2>2. TunnelDataOK'
    BY <1>3, TypeOKParts DEF Typed, TunnelDataOK
  <2>3. Typed'
    BY <1>0, <2>1, <2>2, MovedTyped
  <2>4. LiveHasPort' /\ NoOrphan'
    BY <1>3 DEF TunnelInv, LiveHasPort, NoOrphan
  <2>5. UnlinkIsLost'
    <3>1. holder = l => lost'
      BY <1>0, <1>3 DEF TunnelInv, NoOrphan
    <3> QED
      BY <1>0, <1>3, <2>1, <3>1 DEF Moved, Answers, TunnelInv, UnlinkIsLost
  <2>6. TunnelUpForLaunch'
    BY <1>3, <2>1 DEF Moved, TunnelInv, TunnelUpForLaunch
  <2>7. Frame
    BY <1>0, <2>1, MovedFrame
  <2> QED
    BY <2>3, <2>4, <2>5, <2>6, <2>7 DEF TunnelInv
<1>4. CASE /\ sock[l] = "deaf" /\ sock' = [sock EXCEPT ![l] = "none"]
           /\ UNCHANGED <<holder, parting, lost>> /\ Continue(c, "stop_unlink")
  <2>1. Moved(c) /\ pc'[c] = "stop_unlink" /\ call' = call
    BY <1>0, <1>4, MovesOn
  <2>0. /\ sock' \in [Label -> Socket] /\ TunnelDataOK
        /\ \A m \in Label : (sock'[m] = "live" <=> sock[m] = "live")
    BY <1>0, <1>4, TypeOKParts DEF Typed, TunnelDataOK, Socket
  <2>2. TunnelDataOK'
    BY <1>4, <2>0 DEF TunnelDataOK
  <2>3. Typed'
    BY <1>0, <2>1, <2>2, MovedTyped
  <2>4. LiveHasPort' /\ NoOrphan'
    BY <1>4, <2>0 DEF TunnelInv, LiveHasPort, NoOrphan
  <2>5. UnlinkIsLost'
    <3>1. holder = l => lost
      BY <1>0, <1>4 DEF TunnelInv, NoOrphan
    <3> QED
      BY <1>4, <2>1, <3>1 DEF Moved, TunnelInv, UnlinkIsLost
  <2>6. TunnelUpForLaunch'
    BY <1>4, <2>1 DEF Moved, TunnelInv, TunnelUpForLaunch
  <2>7. Frame
    BY <1>0, <2>1, MovedFrame
  <2> QED
    BY <2>3, <2>4, <2>5, <2>6, <2>7 DEF TunnelInv
<1>5. CASE UNCHANGED tunnel /\ Fail(c)
  <2>1. Moved(c) /\ pc'[c] = "done"
    BY <1>5, FailFacts
  <2> QED
    BY <1>0, <1>5, <2>1, QuietStep
<1> QED
  BY <1>1, <1>2, <1>3, <1>4, <1>5 DEF StopExit

-----------------------------------------------------------------------------
(* The other steps of the tunnel                                           *)

LEMMA PortStep ==
  ASSUME Typed, TunnelInv, PortTaken \/ PortReleased, UNCHANGED taskVars
  PROVE  Typed' /\ TunnelInv' /\ Frame
<1>0. /\ UNCHANGED <<sock, parting, lost, pc, call, calls, starts>>
      /\ events < MaxEvents /\ events' = events + 1
      /\ holder \notin Label /\ holder' \notin Label /\ holder' \in Port
  BY TunnelAssumption DEF PortTaken, PortReleased, Event, Port
<1>1. Typed'
  <2>1. TunnelDataOK' /\ TaskDataOK' /\ events' \in 0 .. MaxEvents
    BY <1>0, UnchangedTypes, TypeOKParts, TunnelAssumption DEF Typed, TunnelDataOK
  <2>2. TypeOK'
    BY <1>0, <2>1 DEF Typed, TypeOK, TunnelTypeOK, TunnelDataOK, TaskDataOK
  <2> QED
    BY <1>0, <2>2 DEF Typed, StepOp
<1>2. LiveHasPort'
  BY <1>0 DEF TunnelInv, LiveHasPort
<1>3. NoOrphan'
  BY <1>0 DEF NoOrphan
<1>4. UnlinkIsLost'
  BY <1>0, TypedFacts DEF UnlinkIsLost, Call
<1>5. TunnelUpForLaunch'
  <2>1. \A d \in Client : call[d].label # holder
    BY <1>0, TypedFacts DEF Call
  <2> QED
    BY <1>0, <2>1 DEF TunnelInv, TunnelUpForLaunch
<1>6. Frame
  BY <1>0 DEF Frame
<1> QED
  BY <1>1, <1>2, <1>3, <1>4, <1>5, <1>6 DEF TunnelInv

\* The first step of a call.
LEMMA FirstFacts ==
  ASSUME NEW op \in Op
  PROVE  /\ First[op] \in {"start_check", "status_check", "stop_exit", "ensure", "status",
                          "kill", "push_dry"}
         /\ First[op] \in Connecting => op \in {"tunnel_start", "run_remote", "task_start"}
<1>1. First["tunnel_start"] = "start_check" /\ First["tunnel_status"] = "status_check"
      /\ First["tunnel_stop"] = "stop_exit" /\ First["run_remote"] = "ensure"
      /\ First["task_start"] = "ensure" /\ First["task_status"] = "status"
      /\ First["task_kill"] = "kill" /\ First["sync_push"] = "push_dry"
  BY DEF First
<1> QED
  BY <1>1 DEF Op, TunnelOp, TaskOp, Connecting

LEMMA BeginCallStep ==
  ASSUME Typed, TunnelInv, NEW c \in Client, BeginCall(c), UNCHANGED taskVars
  PROVE  Typed' /\ TunnelInv' /\ Frame
<1>0. PICK op \in Op, l \in Label, n \in Name :
        /\ call' = [call EXCEPT ![c] =
             [op |-> op, label |-> l, name |-> n, upset |-> FALSE,
              id |-> IF op = "task_start" THEN starts + 1 ELSE 0]]
        /\ starts' = IF op = "task_start" THEN starts + 1 ELSE starts
        /\ Goto(c, First[op])
  BY DEF BeginCall
<1> DEFINE i == IF op = "task_start" THEN starts + 1 ELSE 0
           r == [op |-> op, label |-> l, name |-> n, upset |-> FALSE, id |-> i]
<1>1. /\ calls' = calls + 1 /\ calls < MaxCalls /\ UNCHANGED <<tunnel, events>>
      /\ pc[c] \in Answers
  BY DEF BeginCall, Idle
<1>2. /\ calls' \in 0 .. MaxCalls /\ starts' \in 0 .. calls' /\ i \in 0 .. MaxCalls
      /\ op = "task_start" => i # 0
  BY <1>0, <1>1, TypeOKParts, TunnelAssumption DEF Typed
<1>3. r \in Call /\ r.op = op /\ r.id = i
  <2> HIDE DEF i
  <2> QED
    BY <1>2 DEF Call
<1>4. call' \in [Client -> Call] /\ call'[c] = r /\ \A d \in Client : d # c => call'[d] = call[d]
  <2>1. call' = [call EXCEPT ![c] = r] /\ call \in [Client -> Call]
    BY <1>0, TypedFacts
  <2> HIDE DEF r
  <2> QED
    BY <1>3, <2>1
<1> HIDE DEF r, i
<1>5. First[op] \in Steps /\ First[op] \notin Starting /\ First[op] # "stop_unlink"
      /\ First[op] \notin Launching
  BY FirstFacts DEF Steps, TunnelSteps, TaskSteps, Starting, Launching
<1>6. pc' \in [Client -> Steps] /\ pc'[c] = First[op] /\ \A d \in Client : d # c => pc'[d] = pc[d]
  BY <1>0, <1>5, TypedFacts, GotoFacts
<1>7. Typed'
  <2>1. TunnelDataOK' /\ TaskDataOK' /\ events' \in 0 .. MaxEvents
    BY <1>1, UnchangedTypes, TypeOKParts DEF Typed
  <2>2. TypeOK'
    BY <1>2, <1>4, <1>6, <2>1
    DEF TypeOK, TunnelTypeOK, TunnelDataOK, TaskDataOK, Steps
  <2>3. StepOp'
    <3> SUFFICES ASSUME NEW d \in Client
                 PROVE  /\ pc'[d] \in Connecting =>
                             call'[d].op \in {"tunnel_start", "run_remote", "task_start"}
                        /\ pc'[d] \in Starting => call'[d].op = "task_start"
                        /\ call'[d].op = "task_start" => call'[d].id # 0
      BY DEF StepOp
    <3>1. CASE d # c
      BY <1>4, <1>6, <3>1 DEF Typed, StepOp
    <3>2. CASE d = c
      BY <1>2, <1>3, <1>4, <1>5, <1>6, <3>2, FirstFacts
    <3> QED
      BY <3>1, <3>2
  <2> QED
    BY <2>2, <2>3 DEF Typed
<1>8. LiveHasPort' /\ NoOrphan'
  BY <1>1 DEF TunnelInv, LiveHasPort, NoOrphan, tunnel
<1>9. UnlinkIsLost'
  BY <1>1, <1>4, <1>5, <1>6 DEF TunnelInv, UnlinkIsLost, tunnel
<1>10. TunnelUpForLaunch'
  BY <1>1, <1>4, <1>5, <1>6 DEF TunnelInv, TunnelUpForLaunch, tunnel
<1>11. Frame
  <2>1. pc[c] # "status" /\ pc'[c] \notin {"write", "new_session"}
    BY <1>1, <1>5, <1>6 DEF Answers, Starting
  <2> QED
    BY <1>4, <1>6, <2>1 DEF Frame
<1> QED
  BY <1>7, <1>8, <1>9, <1>10, <1>11 DEF TunnelInv

\* A step of the tunnel.
LEMMA TunnelStep ==
  ASSUME Typed, TunnelInv, TunnelNext, UNCHANGED taskVars
  PROVE  Typed' /\ TunnelInv' /\ Frame
<1>1. ASSUME NEW c \in Client, BeginCall(c)
      PROVE  Typed' /\ TunnelInv' /\ Frame
  BY <1>1, BeginCallStep
<1>2. ASSUME NEW c \in Client, EnsureTunnel(c) \/ StartCheck(c)
      PROVE  Typed' /\ TunnelInv' /\ Frame
  <2>1. \/ pc[c] = "ensure" /\ LooksForMaster(c, "start_check")
        \/ pc[c] = "start_check" /\ LooksForMaster(c, "start_port")
    BY <1>2 DEF EnsureTunnel, StartCheck
  <2> QED
    BY <2>1, LooksForMasterStep
<1>3. ASSUME NEW c \in Client, StartPort(c) \/ StartSpawn(c)
      PROVE  Typed' /\ TunnelInv' /\ Frame
  BY <1>3, StartPortStep, StartSpawnStep
<1>4. ASSUME NEW c \in Client, RunCommand(c) \/ StatusCheck(c)
      PROVE  Typed' /\ TunnelInv' /\ Frame
  BY <1>4, AnswerStep
<1>5. ASSUME NEW c \in Client, StopExit(c) \/ StopUnlink(c)
      PROVE  Typed' /\ TunnelInv' /\ Frame
  BY <1>5, StopExitStep, StopUnlinkStep
<1>6. CASE TunnelEnvironment
  BY <1>6, MasterDiesStep, PortDroppedStep, DeafStep, PortStep DEF TunnelEnvironment
<1> QED
  BY <1>1, <1>2, <1>3, <1>4, <1>5, <1>6 DEF TunnelNext, TunnelCall

-----------------------------------------------------------------------------
(* What the remote commands do                                             *)

LEMMA CallFacts ==
  ASSUME Typed, NEW c \in Client
  PROVE  /\ call[c] \in Call /\ call[c].name \in Name /\ call[c].id \in Id
         /\ call[c].label \in Label
BY TypedFacts DEF Call, Id

LEMMA LateFacts ==
  ASSUME Typed, NEW k \in late
  PROVE  k \in Late /\ k.name \in Name /\ k.id \in Id /\ k.kind \in {"write", "new", "kill"}
<1>1. k \in Late
  BY TypeOKParts DEF Typed, TaskDataOK
<1> QED
  BY <1>1 DEF Late

LEMMA NoSessionFacts ==
  NoSession \in Session /\ NoSession.phase = "none"
<1>1. 0 \in Id
  BY TunnelAssumption DEF Id
<1> QED
  BY <1>1 DEF NoSession, Session

LEMMA WriteFacts ==
  ASSUME Typed, NEW n \in Name, NEW i \in Id, WriteScript(n, i)
  PROVE  /\ script' \in [Name -> Id] /\ script'[n] = i
         /\ \A m \in Name : m # n => script'[m] = script[m]
         /\ dir' = TRUE /\ UNCHANGED <<session, exitf, log, last, swept>>
BY TypeOKParts DEF Typed, TaskDataOK, WriteScript

\* A record of a session, or of a last run.
LEMMA RecordFacts ==
  ASSUME NEW i \in Id, NEW j \in Id, NEW p \in {"none", "new", "running", "exited"},
         NEW e \in {"no", "normally", "early"}
  PROVE  /\ [run |-> i, ran |-> j, phase |-> p] \in Session
         /\ [run |-> i, ended |-> e] \in Last
BY DEF Session, Last

LEMMA MakeFacts ==
  ASSUME Typed, NEW n \in Name, NEW i \in Id, MakeSession(n, i)
  PROVE  /\ session' \in [Name -> Session] /\ last' \in [Name -> Last]
         /\ log' \in [Name -> BOOLEAN] /\ swept' \subseteq Name
         /\ last'[n].run = i
         /\ \/ /\ dir /\ swept' = swept \ {n} /\ last'[n].ended = "no"
               /\ session'[n] # NoSession /\ session'[n].run = i /\ session'[n].phase = "new"
            \/ ~dir /\ swept' = swept /\ last'[n].ended = "early" /\ session' = session
         /\ \A m \in Name : m # n => session'[m] = session[m] /\ last'[m] = last[m]
         /\ UNCHANGED <<script, exitf, dir>>
<1> DEFINE s == [run |-> i, ran |-> 0, phase |-> "new"]
           e == [run |-> i, ended |-> "no"]
           f == [run |-> i, ended |-> "early"]
<1>1. 0 \in Id
  BY TunnelAssumption DEF Id
<1>2. s \in Session /\ e \in Last /\ f \in Last
  BY <1>1, RecordFacts
<1>3. /\ s.run = i /\ s.phase = "new" /\ e.run = i /\ e.ended = "no"
      /\ f.run = i /\ f.ended = "early"
  OBVIOUS
<1>4. s # NoSession
  BY <1>3, NoSessionFacts
<1>5. /\ \/ /\ dir /\ session' = [session EXCEPT ![n] = s] /\ last' = [last EXCEPT ![n] = e]
            /\ log' = [log EXCEPT ![n] = TRUE] /\ swept' = swept \ {n}
         \/ ~dir /\ last' = [last EXCEPT ![n] = f] /\ UNCHANGED <<session, log, swept>>
      /\ UNCHANGED <<script, exitf, dir>>
  BY DEF MakeSession
<1>6. /\ session \in [Name -> Session] /\ last \in [Name -> Last]
      /\ log \in [Name -> BOOLEAN] /\ swept \subseteq Name
  BY TypeOKParts DEF Typed, TaskDataOK
<1> HIDE DEF s, e, f
<1>7. CASE dir
  BY <1>2, <1>3, <1>4, <1>5, <1>6, <1>7
<1>8. CASE ~dir
  BY <1>2, <1>3, <1>5, <1>6, <1>8
<1> QED
  BY <1>7, <1>8

LEMMA LastFacts ==
  ASSUME Typed, NEW n \in Name
  PROVE  last[n].run \in Id /\ session[n].run \in Id /\ session[n].ran \in Id
         /\ session[n].phase \in {"none", "new", "running", "exited"}
<1>1. last[n] \in Last /\ session[n] \in Session
  BY TypeOKParts DEF Typed, TaskDataOK
<1> QED
  BY <1>1 DEF Last, Session

LEMMA GoneFacts ==
  ASSUME Typed, NEW n \in Name, NEW h \in {"normally", "early"}, Gone(n, h)
  PROVE  /\ session' \in [Name -> Session] /\ last' \in [Name -> Last]
         /\ session'[n] = NoSession /\ last'[n].run = last[n].run /\ last'[n].ended = h
         /\ \A m \in Name : m # n => session'[m] = session[m] /\ last'[m] = last[m]
<1>1. session \in [Name -> Session] /\ last \in [Name -> Last] /\ last[n] \in Last
  BY TypeOKParts DEF Typed, TaskDataOK
<1> DEFINE e == [last[n] EXCEPT !.ended = h]
<1>2. e \in Last /\ e.run = last[n].run /\ e.ended = h
  BY <1>1 DEF Last
<1>3. session' = [session EXCEPT ![n] = NoSession] /\ last' = [last EXCEPT ![n] = e]
  BY DEF Gone
<1> HIDE DEF e
<1> QED
  BY <1>1, <1>2, <1>3, NoSessionFacts

\* What tmux takes for the session of a name.
LEMMA TargetFacts ==
  ASSUME NEW n \in Name
  PROVE  /\ Target(n) \subseteq Name
         /\ Exists(n) => Target(n) # {}
         /\ \A m \in Target(n) : Exists(m)
<1> DEFINE B == {m \in Name : <<n, m>> \in Prefix /\ Exists(m)}
<1>1. Target(n) = IF Exists(n) THEN {n} ELSE IF Cardinality(B) = 1 THEN B ELSE {}
  BY DEF Target
<1>2. B \subseteq Name /\ \A m \in B : Exists(m)
  OBVIOUS
<1> HIDE DEF B
<1> QED
  BY <1>1, <1>2

\* Nothing is killed, or one session that is there.
LEMMA KillFacts ==
  ASSUME Typed, NEW n \in Name, KillSession(n)
  PROVE  /\ UNCHANGED <<script, exitf, log, dir, swept>>
         /\ \/ UNCHANGED <<session, last>>
            \/ \E m \in Name, h \in {"normally", "early"} :
                 /\ Exists(m) /\ Gone(m, h)
                 /\ h = "normally" => session[m].phase = "exited"
BY TargetFacts DEF KillSession

LEMMA KillType ==
  ASSUME Typed, NEW n \in Name, KillSession(n)
  PROVE  session' \in [Name -> Session] /\ last' \in [Name -> Last]
BY KillFacts, GoneFacts, TypeOKParts DEF Typed, TaskDataOK

-----------------------------------------------------------------------------
(* Types, of the steps of the tasks                                        *)

\* A client of a task moves on.
LEMMA TaskMove ==
  ASSUME Typed, TunnelInv, NEW c \in Client, Moved(c), UNCHANGED tunnel, TaskDataOK',
         pc[c] \in TaskSteps, pc'[c] \in {"write", "new_session", "push"} \cup Answers,
         pc'[c] \in Starting => pc[c] \in Starting
  PROVE  Typed' /\ TunnelInv'
<1>1. pc[c] \in Starting => call[c].op = "task_start"
  BY DEF Typed, StepOp
<1>2. Typed'
  BY <1>1, UnchangedTypes, MovedTyped DEF Connecting, Answers, Starting
<1>3. TunnelInv'
  <2>1. pc'[c] # "stop_unlink"
    BY DEF Answers
  <2>2. pc'[c] \in Launching => pc[c] \in Launching
    BY DEF Answers, Launching, Starting
  <2> QED
    BY <2>1, <2>2, MovedTunnelInv
<1> QED
  BY <1>2, <1>3

\* The remote host acts: the clients do not.
LEMMA RemoteMove ==
  ASSUME Typed, TunnelInv, UNCHANGED tunnelVars, TaskDataOK'
  PROVE  Typed' /\ TunnelInv'
<1>0. UNCHANGED <<holder, sock, parting, lost, pc, call, calls, starts, events>> /\ UNCHANGED tunnel
  BY DEF tunnelVars, tunnel, threads
<1>1. TypeOK'
  BY <1>0 DEF Typed, TypeOK, TunnelTypeOK, TaskDataOK
<1>2. StepOp'
  BY <1>0 DEF Typed, StepOp
<1>3. TunnelInv'
  BY <1>0 DEF TunnelInv, LiveHasPort, UnlinkIsLost, NoOrphan, TunnelUpForLaunch
<1> QED
  BY <1>1, <1>2, <1>3 DEF Typed

LEMMA TimesOutFacts ==
  ASSUME Typed, NEW c \in Client, NEW kind \in {"write", "new", "kill"}, TimesOut(c, kind)
  PROVE  \E k \in Late :
           /\ k.kind = kind /\ k.name = call[c].name /\ k.id = call[c].id
           /\ late' = late \cup {k}
           /\ UNCHANGED <<tunnel, remote, last, mixed, swept>>
           /\ Moved(c) /\ pc'[c] = "done"
<1> DEFINE k == [kind |-> kind, name |-> call[c].name, id |-> call[c].id]
<1>1. k \in Late /\ k.kind = kind /\ k.name = call[c].name /\ k.id = call[c].id
  BY CallFacts DEF Late
<1>2. late' = late \cup {k} /\ UNCHANGED <<tunnel, remote, last, mixed, swept>> /\ Fail(c)
  BY DEF TimesOut
<1>3. Moved(c) /\ pc'[c] = "done"
  BY <1>2, FailFacts
<1> HIDE DEF k
<1> QED
  BY <1>1, <1>2, <1>3

LEMMA RemoteFailsFacts ==
  ASSUME Typed, NEW c \in Client, RemoteFails(c)
  PROVE  UNCHANGED <<tunnel, taskVars>> /\ Moved(c) /\ pc'[c] = "done"
BY FailFacts DEF RemoteFails

LEMMA DataFacts ==
  ASSUME Typed
  PROVE  /\ session \in [Name -> Session] /\ script \in [Name -> Id] /\ exitf \in [Name -> Id]
         /\ log \in [Name -> BOOLEAN] /\ dir \in BOOLEAN
         /\ late \subseteq Late /\ last \in [Name -> Last]
         /\ mixed \subseteq Name /\ swept \subseteq Name
BY TypeOKParts DEF Typed, TaskDataOK

-----------------------------------------------------------------------------
(* One start at a time                                                     *)

\* The invariant does not care for sessions and scripts that go away, calls that return,
\* and commands that run or time out, unless they start a task.
LEMMA StartKept ==
  ASSUME Typed, StartInv, \A n \in Name : script'[n] \in {0, script[n]}, mixed \subseteq mixed',
         \A n \in Name : session'[n] = session[n] \/ session'[n] = NoSession,
         \A k \in late' : k \in late \/ k.kind = "kill",
         \A d \in Client : pc'[d] \in {"write", "new_session"} =>
           pc'[d] = pc[d] /\ call'[d].name = call[d].name /\ call'[d].id = call[d].id
  PROVE  StartInv'
<1> SUFFICES ASSUME NEW n \in Name, n \notin mixed'
             PROVE  OneStart(n)' /\ OwnUpload(n)'
  BY DEF StartInv
<1>0. OneStart(n) /\ OwnUpload(n)
  BY DEF StartInv
<1>1. \A d \in Client : Uploading(d, n)' => Uploading(d, n)
  BY DEF Uploading
<1>2. \A k \in late' : LateStart(k, n) => k \in late
  BY DEF LateStart
<1>3. OneStart(n)'
  <2>1. \A c, d \in Client : Uploading(c, n)' /\ Uploading(d, n)' => c = d
    BY <1>0, <1>1 DEF OneStart
  <2>2. \A c \in Client : Uploading(c, n)' =>
          session'[n] = NoSession /\ \A k \in late' : ~LateStart(k, n)
    BY <1>0, <1>1, <1>2 DEF OneStart
  <2>3. \A k \in late' : LateStart(k, n) =>
          session'[n] = NoSession /\ \A j \in late' : LateStart(j, n) => j = k
    BY <1>0, <1>2 DEF OneStart
  <2> QED
    BY <2>1, <2>2, <2>3 DEF OneStart, LateStart
<1>4. OwnUpload(n)'
  <2>1. \A c \in Client : pc'[c] = "new_session" /\ call'[c].name = n => script'[n] \in {0, call'[c].id}
    BY <1>0 DEF OwnUpload
  <2>2. \A k \in late' : k.kind = "new" /\ k.name = n => script'[n] \in {0, k.id}
    BY <1>0 DEF OwnUpload
  <2>3. /\ session'[n].phase = "new" => script'[n] \in {0, session'[n].run}
        /\ session'[n].phase \in {"running", "exited"} => session'[n].ran = session'[n].run
    BY <1>0, NoSessionFacts DEF OwnUpload
  <2> QED
    BY <2>1, <2>2, <2>3 DEF OwnUpload
<1> QED
  BY <1>3, <1>4

LEMMA HasSessionFacts ==
  ASSUME Typed, NEW c \in Client, HasSession(c)
  PROVE  /\ pc[c] = "has_session" /\ Moved(c) /\ UNCHANGED <<tunnel, remote, late, last, swept>>
         /\ \/ pc'[c] = "done" /\ UNCHANGED mixed
            \/ /\ pc'[c] = "write" /\ call' = call
               /\ \/ mixed' = mixed \cup {call[c].name}
                  \/ /\ mixed' = mixed \ {call[c].name} /\ ~Overlapped(c)
                     /\ session[call[c].name] = NoSession
<1> USE DEF taskVars
<1>0. pc[c] = "has_session" /\ "write" \in Steps
  BY DEF HasSession, Steps, TaskSteps
<1>1. CASE UNCHANGED <<tunnel, taskVars>> /\ Fail(c)
  BY <1>0, <1>1, FailFacts
<1>2. CASE /\ Target(call[c].name) = {} /\ UNCHANGED <<tunnel, remote, late, last, swept>>
           /\ mixed' = IF Overlapped(c) THEN mixed \cup {call[c].name}
                       ELSE mixed \ {call[c].name}
           /\ Continue(c, "write")
  <2>1. Moved(c) /\ pc'[c] = "write" /\ call' = call
    BY <1>0, <1>2, MovesOn
  <2>2. session[call[c].name] = NoSession
    BY <1>2, CallFacts, TargetFacts DEF Exists
  <2> QED
    BY <1>0, <1>2, <2>1, <2>2
<1>3. CASE UNCHANGED <<tunnel, remote, late, last, swept>> /\ mixed' = mixed \cup {call[c].name}
           /\ Continue(c, "write")
  <2>1. Moved(c) /\ pc'[c] = "write" /\ call' = call
    BY <1>0, <1>3, MovesOn
  <2> QED
    BY <1>0, <1>3, <2>1
<1>4. CASE RemoteFails(c)
  BY <1>0, <1>4, RemoteFailsFacts
<1> QED
  BY <1>1, <1>2, <1>3, <1>4 DEF HasSession

LEMMA HasSessionStep ==
  ASSUME Typed, TunnelInv, StartInv, LastInv, NEW c \in Client, HasSession(c)
  PROVE  Typed' /\ TunnelInv' /\ StartInv' /\ LastInv'
<1> DEFINE m == call[c].name
<1>0. m \in Name /\ pc[c] = "has_session" /\ Moved(c)
      /\ UNCHANGED <<tunnel, session, script, exitf, log, dir, late, last, swept>>
  BY CallFacts, HasSessionFacts DEF remote
<1>1. Typed' /\ TunnelInv'
  <2>1. TaskDataOK'
    BY <1>0, HasSessionFacts, DataFacts DEF TaskDataOK
  <2>2. pc[c] \in TaskSteps /\ pc[c] \in Starting /\ pc'[c] \in {"write"} \cup Answers
    BY <1>0, HasSessionFacts DEF TaskSteps, Starting, Answers
  <2> QED
    BY <1>0, <2>1, <2>2, TaskMove
<1>2. LastInv'
  BY <1>0 DEF LastInv, LateHasId, NoDir, LastRun, HasResult, Exists
<1>3. CASE pc'[c] = "done" /\ UNCHANGED mixed
  <2>1. StartInv'
    BY <1>0, <1>3, StartKept DEF Moved
  <2> QED
    BY <1>1, <1>2, <2>1
<1>4. CASE /\ pc'[c] = "write" /\ call' = call
           /\ \/ mixed' = mixed \cup {m}
              \/ mixed' = mixed \ {m} /\ ~Overlapped(c) /\ session[m] = NoSession
  <2> SUFFICES ASSUME NEW n \in Name, n \notin mixed'
               PROVE  OneStart(n)' /\ OwnUpload(n)'
    BY <1>1, <1>2 DEF StartInv
  <2>1. \A d \in Client : pc'[d] = "new_session" => d # c /\ pc[d] = "new_session"
    BY <1>0, <1>4 DEF Moved
  <2>2. CASE n # m
    <3>0. OneStart(n) /\ OwnUpload(n)
      BY <1>4, <2>2 DEF StartInv
    <3>1. \A d \in Client : Uploading(d, n)' <=> Uploading(d, n)
      BY <1>0, <1>4, <2>2 DEF Uploading, Moved
    <3>2. OneStart(n)'
      BY <1>0, <3>0, <3>1 DEF OneStart, LateStart
    <3>3. OwnUpload(n)'
      BY <1>0, <1>4, <2>1, <3>0 DEF OwnUpload
    <3> QED
      BY <3>2, <3>3
  <2>3. CASE n = m
    <3>0. ~Overlapped(c) /\ session[m] = NoSession
      BY <1>4, <2>3
    <3>1. \A d \in Client : Uploading(d, n)' => d = c
      BY <1>0, <1>4, <2>3, <3>0 DEF Overlapped, Uploading, Moved
    <3>2. \A k \in late : ~LateStart(k, n)
      BY <2>3, <3>0 DEF Overlapped, LateStart
    <3>3. OneStart(n)'
      BY <1>0, <2>3, <3>0, <3>1, <3>2 DEF OneStart, LateStart
    <3>4. ~\E d \in Client : pc'[d] = "new_session" /\ call'[d].name = n
      BY <1>4, <3>1 DEF Uploading
    <3>5. OwnUpload(n)'
      BY <1>0, <2>3, <3>0, <3>2, <3>4, NoSessionFacts DEF OwnUpload, LateStart
    <3> QED
      BY <3>3, <3>5
  <2> QED
    BY <2>2, <2>3
<1> QED
  BY <1>3, <1>4, HasSessionFacts

\* A remote command of a client that fails.
LEMMA FailedStep ==
  ASSUME Typed, TunnelInv, StartInv, LastInv, NEW c \in Client, RemoteFails(c),
         pc[c] \in TaskSteps
  PROVE  Typed' /\ TunnelInv' /\ StartInv' /\ LastInv'
<1>0. /\ Moved(c) /\ pc'[c] = "done" /\ pc'[c] \in Answers /\ pc'[c] \notin Starting
      /\ UNCHANGED <<tunnel, session, script, exitf, log, dir, late, last, mixed, swept>>
  BY RemoteFailsFacts DEF taskVars, remote, Answers, Starting
<1>1. TaskDataOK'
  BY <1>0, DataFacts DEF TaskDataOK
<1>2. Typed' /\ TunnelInv'
  BY <1>0, <1>1, TaskMove
<1>3. StartInv'
  BY <1>0, StartKept DEF Moved
<1>4. LastInv'
  BY <1>0 DEF LastInv, LateHasId, NoDir, LastRun, HasResult, Exists
<1> QED
  BY <1>2, <1>3, <1>4

\* The script of a start is uploaded, by its client or late: nobody else uploads one.
LEMMA OwnUploadWritten ==
  ASSUME Typed, NEW n \in Name, NEW i \in Id, WriteScript(n, i),
         n \notin mixed', session[n] = NoSession,
         \A k \in late' : ~LateStart(k, n),
         \A d \in Client : pc'[d] = "new_session" /\ call'[d].name = n => call'[d].id = i
  PROVE  OwnUpload(n)'
<1>1. script'[n] = i /\ session' = session
  BY WriteFacts
<1> QED
  BY <1>1, NoSessionFacts DEF OwnUpload, LateStart

LEMMA WriteStep ==
  ASSUME Typed, TunnelInv, StartInv, LastInv, NEW c \in Client, Write(c)
  PROVE  Typed' /\ TunnelInv' /\ StartInv' /\ LastInv'
<1> DEFINE m == call[c].name
<1>0. m \in Name /\ call[c].id \in Id /\ pc[c] = "write" /\ pc[c] \in TaskSteps
      /\ pc[c] \in Starting /\ "new_session" \in Steps
  BY CallFacts DEF Write, TaskSteps, Starting, Steps
<1>a. Uploading(c, m)
  BY <1>0 DEF Uploading
<1>1. CASE WriteScript(m, call[c].id) /\ UNCHANGED <<tunnel, late, mixed>>
           /\ Continue(c, "new_session")
  <2>0. Moved(c) /\ pc'[c] = "new_session" /\ call' = call
    BY <1>0, <1>1, MovesOn
  <2>1. /\ script' \in [Name -> Id] /\ script'[m] = call[c].id
        /\ \A n \in Name : n # m => script'[n] = script[n]
        /\ dir' = TRUE /\ UNCHANGED <<session, exitf, log, last, swept>>
    BY <1>0, <1>1, WriteFacts
  <2>2. Typed' /\ TunnelInv'
    <3>1. TaskDataOK'
      BY <1>1, <2>1, DataFacts DEF TaskDataOK
    <3> QED
      BY <1>0, <1>1, <2>0, <3>1, TaskMove
  <2>3. LastInv'
    BY <1>1, <2>1 DEF LastInv, LateHasId, NoDir, LastRun, HasResult, Exists
  <2>4. ASSUME NEW n \in Name, n \notin mixed'
        PROVE  OneStart(n)' /\ OwnUpload(n)'
    <3>0. OneStart(n) /\ OwnUpload(n)
      BY <1>1, <2>4 DEF StartInv
    <3>1. \A d \in Client : Uploading(d, n)' <=> Uploading(d, n)
      BY <1>0, <2>0 DEF Uploading, Moved
    <3>2. OneStart(n)'
      BY <1>1, <2>1, <3>0, <3>1 DEF OneStart, LateStart
    <3>3. CASE n # m
      <4>1. \A d \in Client : pc'[d] = "new_session" /\ call'[d].name = n => pc[d] = "new_session"
        BY <2>0, <3>3 DEF Moved
      <4> QED
        BY <1>1, <2>0, <2>1, <3>0, <3>2, <3>3, <4>1 DEF OwnUpload
    <3>4. CASE n = m
      <4>1. session[n] = NoSession /\ \A k \in late' : ~LateStart(k, n)
        BY <1>1, <1>a, <3>0, <3>4 DEF OneStart
      <4>2. \A d \in Client : pc'[d] = "new_session" /\ call'[d].name = n => d = c
        BY <1>a, <3>0, <3>1, <3>4 DEF OneStart, Uploading
      <4>3. OwnUpload(n)'
        BY <1>0, <1>1, <2>0, <2>4, <3>4, <4>1, <4>2, OwnUploadWritten
      <4> QED
        BY <3>2, <4>3
    <3> QED
      BY <3>3, <3>4
  <2> QED
    BY <2>2, <2>3, <2>4 DEF StartInv
<1>2. CASE RemoteFails(c)
  BY <1>0, <1>2, FailedStep
<1>3. CASE TimesOut(c, "write")
  <2>0. PICK k \in Late :
          /\ k.kind = "write" /\ k.name = m /\ late' = late \cup {k}
          /\ UNCHANGED <<tunnel, session, script, exitf, log, dir, last, mixed, swept>>
          /\ Moved(c) /\ pc'[c] = "done" /\ pc'[c] \in Answers /\ pc'[c] \notin Starting
    BY <1>3, TimesOutFacts DEF remote, Answers, Starting
  <2>1. TaskDataOK'
    BY <2>0, DataFacts DEF TaskDataOK
  <2>2. Typed' /\ TunnelInv'
    BY <1>0, <2>0, <2>1, TaskMove
  <2>3. LastInv'
    BY <2>0 DEF LastInv, LateHasId, NoDir, LastRun, HasResult, Exists
  <2>4. ASSUME NEW n \in Name, n \notin mixed'
        PROVE  OneStart(n)' /\ OwnUpload(n)'
    <3>0. OneStart(n) /\ OwnUpload(n)
      BY <2>0, <2>4 DEF StartInv
    <3>1. \A d \in Client : Uploading(d, n)' => d # c /\ Uploading(d, n)
      BY <2>0 DEF Uploading, Moved
    <3>2. OwnUpload(n)'
      <4>1. \A d \in Client : pc'[d] = "new_session" => d # c
        BY <2>0
      <4> QED
        BY <2>0, <3>0, <4>1 DEF OwnUpload, Moved
    <3>3. CASE n # m
      <4>1. \A j \in late' : LateStart(j, n) => j \in late
        BY <2>0, <3>3 DEF LateStart
      <4>2. OneStart(n)'
        BY <2>0, <3>0, <3>1, <4>1 DEF OneStart, LateStart
      <4> QED
        BY <3>2, <4>2
    <3>4. CASE n = m
      <4>1. session[n] = NoSession /\ \A j \in late : ~LateStart(j, n)
        BY <1>a, <3>0, <3>4 DEF OneStart
      <4>2. \A d \in Client : ~Uploading(d, n)'
        BY <1>a, <3>0, <3>1, <3>4 DEF OneStart
      <4>3. OneStart(n)'
        BY <2>0, <4>1, <4>2 DEF OneStart, LateStart
      <4> QED
        BY <3>2, <4>3
    <3> QED
      BY <3>3, <3>4
  <2> QED
    BY <2>2, <2>3, <2>4 DEF StartInv
<1> QED
  BY <1>1, <1>2, <1>3 DEF Write

\* A session is made, by its client or late.
LEMMA MakeLast ==
  ASSUME Typed, LastInv, NEW n \in Name, ~Exists(n),
         NEW i \in Id, i # 0, MakeSession(n, i), LateHasId'
  PROVE  LastInv'
<1>0. /\ last'[n].run = i /\ UNCHANGED <<exitf, dir>>
      /\ \/ /\ dir /\ swept' = swept \ {n} /\ last'[n].ended = "no"
            /\ session'[n] # NoSession /\ session'[n].run = i /\ session'[n].phase = "new"
         \/ ~dir /\ swept' = swept /\ last'[n].ended = "early" /\ session' = session
      /\ \A m \in Name : m # n => session'[m] = session[m] /\ last'[m] = last[m]
  BY MakeFacts
<1>1. NoDir'
  BY <1>0 DEF LastInv, NoDir, Exists
<1> SUFFICES ASSUME NEW m \in Name PROVE LastRun(m)'
  BY <1>1 DEF LastInv
<1>2. LastRun(m)
  BY DEF LastInv
<1>3. CASE m = n
  BY <1>0, <1>3 DEF LastRun, HasResult, Exists
<1>4. CASE m # n
  BY <1>0, <1>2, <1>4 DEF LastRun, HasResult, Exists
<1> QED
  BY <1>3, <1>4

LEMMA GoneLast ==
  ASSUME Typed, LastInv, NEW n \in Name, NEW h \in {"normally", "early"}, Exists(n), Gone(n, h),
         h = "normally" => session[n].phase = "exited", UNCHANGED <<exitf, dir, swept>>, LateHasId'
  PROVE  LastInv'
<1>0. /\ session'[n] = NoSession /\ last'[n].run = last[n].run /\ last'[n].ended = h
      /\ \A m \in Name : m # n => session'[m] = session[m] /\ last'[m] = last[m]
  BY GoneFacts
<1>a. NoDir'
  BY <1>0 DEF LastInv, NoDir, Exists
<1> SUFFICES ASSUME NEW m \in Name PROVE LastRun(m)'
  BY <1>a DEF LastInv
<1>1. LastRun(m) /\ LastRun(n)
  BY DEF LastInv
<1>2. CASE m = n
  BY <1>0, <1>1, <1>2 DEF LastRun, HasResult, Exists
<1>3. CASE m # n
  BY <1>0, <1>1, <1>3 DEF LastRun, HasResult, Exists
<1> QED
  BY <1>2, <1>3

LEMMA KillLast ==
  ASSUME Typed, LastInv, NEW n \in Name, KillSession(n), LateHasId'
  PROVE  LastInv'
<1>1. CASE UNCHANGED <<session, last>>
  BY <1>1, KillFacts DEF LastInv, NoDir, LastRun, HasResult, Exists
<1>2. CASE \E m \in Name, h \in {"normally", "early"} :
             Exists(m) /\ Gone(m, h) /\ (h = "normally" => session[m].phase = "exited")
  <2>1. UNCHANGED <<exitf, dir, swept>>
    BY KillFacts
  <2> QED
    BY <1>2, <2>1, GoneLast
<1> QED
  BY <1>1, <1>2, KillFacts

LEMMA KillSessions ==
  ASSUME Typed, NEW n \in Name, KillSession(n)
  PROVE  \A m \in Name : session'[m] = session[m] \/ session'[m] = NoSession
BY KillFacts, GoneFacts

\* The session of a start that has uploaded its script: there is no other start.
LEMMA MakeStart ==
  ASSUME Typed, StartInv, NEW n \in Name, NEW i \in Id, MakeSession(n, i), UNCHANGED mixed,
         late' \subseteq late,
         \A d \in Client : pc'[d] \in {"write", "new_session"} =>
           pc'[d] = pc[d] /\ call'[d].name = call[d].name /\ call'[d].id = call[d].id,
         n \notin mixed => /\ script[n] \in {0, i} /\ \A d \in Client : ~Uploading(d, n)'
                           /\ \A k \in late' : ~LateStart(k, n)
  PROVE  StartInv'
<1> SUFFICES ASSUME NEW m \in Name, m \notin mixed
             PROVE  OneStart(m)' /\ OwnUpload(m)'
  BY DEF StartInv
<1>0. OneStart(m) /\ OwnUpload(m)
  BY DEF StartInv
<1>1. /\ session' = session \/ (session'[n].run = i /\ session'[n].phase = "new")
      /\ script' = script
      /\ m # n => session'[m] = session[m]
  BY MakeFacts
<1>2. \A d \in Client : Uploading(d, m)' => Uploading(d, m)
  BY DEF Uploading
<1>3. CASE m # n
  <2>1. OneStart(m)'
    BY <1>0, <1>1, <1>2, <1>3 DEF OneStart, LateStart
  <2>2. OwnUpload(m)'
    BY <1>0, <1>1, <1>3 DEF OwnUpload
  <2> QED
    BY <2>1, <2>2
<1>4. CASE m = n
  <2>1. OneStart(m)'
    BY <1>4, <1>0, <1>2 DEF OneStart, LateStart
  <2>2. OwnUpload(m)'
    BY <1>0, <1>1, <1>4 DEF OwnUpload, LateStart
  <2> QED
    BY <2>1, <2>2
<1> QED
  BY <1>3, <1>4

LEMMA NewSessionStep ==
  ASSUME Typed, TunnelInv, StartInv, LastInv, NEW c \in Client, NewSession(c)
  PROVE  Typed' /\ TunnelInv' /\ StartInv' /\ LastInv'
<1> SUFFICES ASSUME NEW m \in Name, m = call[c].name, NEW i \in Id, i = call[c].id
             PROVE  Typed' /\ TunnelInv' /\ StartInv' /\ LastInv'
  BY CallFacts
<1>0. /\ i # 0 /\ pc[c] = "new_session" /\ pc[c] \in TaskSteps
      /\ pc[c] \in Starting
  BY CallFacts DEF NewSession, TaskSteps, Starting, Typed, StepOp
<1>a. Uploading(c, m)
  BY <1>0 DEF Uploading
<1>b. ASSUME m \notin mixed
      PROVE  /\ script[m] \in {0, i} /\ session[m] = NoSession
             /\ \A d \in Client : Uploading(d, m) => d = c
             /\ \A k \in late : ~LateStart(k, m)
  <2>0. OneStart(m) /\ OwnUpload(m)
    BY <1>0, <1>b DEF StartInv
  <2>1. script[m] \in {0, i}
    BY <1>0, <2>0 DEF OwnUpload
  <2> QED
    BY <1>a, <2>0, <2>1 DEF OneStart
<1>1. CASE ~Exists(m) /\ MakeSession(m, i) /\ UNCHANGED <<tunnel, late, mixed>> /\ Return(c, "done")
  <2>0. Moved(c) /\ pc'[c] = "done" /\ pc'[c] \in Answers /\ pc'[c] \notin Starting
    BY <1>1, MovesOut DEF Answers, Starting
  <2>1. TaskDataOK'
    BY <1>0, <1>1, MakeFacts, DataFacts DEF TaskDataOK
  <2>2. Typed' /\ TunnelInv'
    BY <1>0, <1>1, <2>0, <2>1, TaskMove
  <2>3. LastInv'
    <3>1. LateHasId'
      BY <1>1 DEF LastInv, LateHasId
    <3> QED
      BY <1>0, <1>1, <3>1, MakeLast
  <2>4. \A d \in Client : pc'[d] \in {"write", "new_session"} =>
           d # c /\ pc'[d] = pc[d] /\ call'[d].name = call[d].name /\ call'[d].id = call[d].id
    BY <2>0 DEF Moved
  <2>5. m \notin mixed => \A d \in Client : ~Uploading(d, m)'
    BY <1>b, <2>4 DEF Uploading
  <2>6. StartInv'
    BY <1>1, <1>b, <2>4, <2>5, MakeStart
  <2> QED
    BY <2>2, <2>3, <2>6
<1>2. CASE UNCHANGED <<tunnel, taskVars>> /\ Fail(c)
  <2>0. /\ Moved(c) /\ pc'[c] = "done" /\ pc'[c] \in Answers /\ pc'[c] \notin Starting
        /\ UNCHANGED <<tunnel, session, script, exitf, log, dir, late, last, mixed, swept>>
    BY <1>2, FailFacts DEF taskVars, remote, Answers, Starting
  <2>1. TaskDataOK'
    BY <2>0, DataFacts DEF TaskDataOK
  <2>2. Typed' /\ TunnelInv'
    BY <1>0, <2>0, <2>1, TaskMove
  <2>3. StartInv'
    BY <2>0, StartKept DEF Moved
  <2>4. LastInv'
    BY <2>0 DEF LastInv, LateHasId, NoDir, LastRun, HasResult, Exists
  <2> QED
    BY <2>2, <2>3, <2>4
<1>3. CASE RemoteFails(c)
  BY <1>0, <1>3, FailedStep
<1>4. CASE TimesOut(c, "new")
  <2>0. PICK k \in Late :
          /\ k.kind = "new" /\ k.name = m /\ k.id = i /\ late' = late \cup {k}
          /\ UNCHANGED <<tunnel, session, script, exitf, log, dir, last, mixed, swept>>
          /\ Moved(c) /\ pc'[c] = "done" /\ pc'[c] \in Answers /\ pc'[c] \notin Starting
    BY <1>4, TimesOutFacts DEF remote, Answers, Starting
  <2>1. TaskDataOK'
    BY <2>0, DataFacts DEF TaskDataOK
  <2>2. Typed' /\ TunnelInv'
    BY <1>0, <2>0, <2>1, TaskMove
  <2>3. LastInv'
    <3>1. LateHasId'
      BY <1>0, <2>0 DEF LastInv, LateHasId
    <3> QED
      BY <2>0, <3>1 DEF LastInv, NoDir, LastRun, HasResult, Exists
  <2>4. ASSUME NEW n \in Name, n \notin mixed'
        PROVE  OneStart(n)' /\ OwnUpload(n)'
    <3>0. OneStart(n) /\ OwnUpload(n)
      BY <2>0, <2>4 DEF StartInv
    <3>1. \A d \in Client : Uploading(d, n)' => d # c /\ Uploading(d, n)
      BY <2>0 DEF Uploading, Moved
    <3>2. \A d \in Client : pc'[d] = "new_session" => d # c /\ pc[d] = pc'[d] /\ call'[d] = call[d]
      BY <2>0 DEF Moved
    <3>3. CASE n # m
      <4>1. \A j \in late' : LateStart(j, n) => j \in late
        BY <2>0, <3>3 DEF LateStart
      <4>2. OneStart(n)'
        BY <2>0, <3>0, <3>1, <4>1 DEF OneStart, LateStart
      <4>3. OwnUpload(n)'
        BY <2>0, <3>0, <3>2, <3>3 DEF OwnUpload
      <4> QED
        BY <4>2, <4>3
    <3>4. CASE n = m
      <4>0. /\ script[n] \in {0, i} /\ session[n] = NoSession /\ \A j \in late : ~LateStart(j, n)
            /\ \A d \in Client : Uploading(d, n) => d = c
        BY <1>b, <2>0, <2>4, <3>4
      <4>1. \A d \in Client : ~Uploading(d, n)'
        BY <3>1, <4>0
      <4>2. OneStart(n)'
        BY <2>0, <4>0, <4>1 DEF OneStart, LateStart
      <4>3. OwnUpload(n)'
        <5>1. \A j \in late' : j.kind = "new" /\ j.name = n => j = k
          BY <2>0, <4>0 DEF LateStart
        <5>2. ~\E d \in Client : pc'[d] = "new_session" /\ call'[d].name = n
          BY <4>1 DEF Uploading
        <5> QED
          BY <2>0, <4>0, <5>1, <5>2, NoSessionFacts DEF OwnUpload
      <4> QED
        BY <4>2, <4>3
    <3> QED
      BY <3>3, <3>4
  <2> QED
    BY <2>2, <2>3, <2>4 DEF StartInv
<1> QED
  BY <1>1, <1>2, <1>3, <1>4 DEF NewSession

LEMMA TaskStatusStep ==
  ASSUME Typed, TunnelInv, StartInv, LastInv, NEW c \in Client, TaskStatus(c)
  PROVE  Typed' /\ TunnelInv' /\ StartInv' /\ LastInv'
<1>0. pc[c] = "status" /\ pc[c] \in TaskSteps /\ UNCHANGED <<tunnel, taskVars>>
  BY DEF TaskStatus, TaskSteps
<1>1. \E a \in Answers : Return(c, a)
  BY DEF TaskStatus, StatusOf, Fail, Answers
<1>2. Moved(c) /\ pc'[c] \in Answers /\ pc'[c] \notin Starting
  BY <1>1, MovesOut DEF Answers, Starting
<1>3. TaskDataOK' /\ UNCHANGED tunnel
      /\ UNCHANGED <<session, script, exitf, log, dir, late, last, mixed, swept>>
  BY <1>0, UnchangedTypes DEF taskVars, remote
<1>4. Typed' /\ TunnelInv'
  BY <1>0, <1>2, <1>3, TaskMove
<1>5. StartInv'
  BY <1>2, <1>3, StartKept DEF Moved, Starting
<1>6. LastInv'
  BY <1>3 DEF LastInv, LateHasId, NoDir, LastRun, HasResult, Exists
<1> QED
  BY <1>4, <1>5, <1>6

LEMMA TaskKillStep ==
  ASSUME Typed, TunnelInv, StartInv, LastInv, NEW c \in Client, TaskKill(c)
  PROVE  Typed' /\ TunnelInv' /\ StartInv' /\ LastInv'
<1> SUFFICES ASSUME NEW m \in Name, m = call[c].name
             PROVE  Typed' /\ TunnelInv' /\ StartInv' /\ LastInv'
  BY CallFacts
<1>0. pc[c] = "kill" /\ pc[c] \in TaskSteps
  BY DEF TaskKill, TaskSteps
<1>1. CASE KillSession(m) /\ UNCHANGED <<tunnel, late, mixed>> /\ Return(c, "done")
  <2>0. Moved(c) /\ pc'[c] = "done" /\ pc'[c] \in Answers /\ pc'[c] \notin Starting
    BY <1>1, MovesOut DEF Answers, Starting
  <2>1. UNCHANGED <<script, exitf, log, dir, swept>>
    BY <1>1, KillFacts
  <2>2. TaskDataOK'
    BY <1>1, <2>1, KillType, DataFacts DEF TaskDataOK
  <2>3. Typed' /\ TunnelInv'
    BY <1>0, <1>1, <2>0, <2>2, TaskMove
  <2>4. StartInv'
    <3>1. \A n \in Name : session'[n] = session[n] \/ session'[n] = NoSession
      BY <1>1, KillSessions
    <3> QED
      BY <1>1, <2>0, <2>1, <3>1, StartKept DEF Moved
  <2>5. LastInv'
    <3>1. LateHasId'
      BY <1>1 DEF LastInv, LateHasId
    <3> QED
      BY <1>1, <3>1, KillLast
  <2> QED
    BY <2>3, <2>4, <2>5
<1>2. CASE RemoteFails(c)
  BY <1>0, <1>2, FailedStep
<1>3. CASE TimesOut(c, "kill")
  <2>0. PICK k \in Late :
          /\ k.kind = "kill" /\ late' = late \cup {k}
          /\ UNCHANGED <<tunnel, session, script, exitf, log, dir, last, mixed, swept>>
          /\ Moved(c) /\ pc'[c] = "done" /\ pc'[c] \in Answers /\ pc'[c] \notin Starting
    BY <1>3, TimesOutFacts DEF remote, Answers, Starting
  <2>1. TaskDataOK'
    BY <2>0, DataFacts DEF TaskDataOK
  <2>2. Typed' /\ TunnelInv'
    BY <1>0, <2>0, <2>1, TaskMove
  <2>3. StartInv'
    <3>1. \A j \in late' : j \in late \/ j.kind = "kill"
      BY <2>0
    <3> QED
      BY <2>0, <3>1, StartKept DEF Moved
  <2>4. LastInv'
    BY <2>0 DEF LastInv, LateHasId, NoDir, LastRun, HasResult, Exists
  <2> QED
    BY <2>2, <2>3, <2>4
<1> QED
  BY <1>1, <1>2, <1>3 DEF TaskKill

LEMMA PushDryRunStep ==
  ASSUME Typed, TunnelInv, StartInv, LastInv, NEW c \in Client, PushDryRun(c)
  PROVE  Typed' /\ TunnelInv' /\ StartInv' /\ LastInv'
<1>0. pc[c] = "push_dry" /\ pc[c] \in TaskSteps /\ UNCHANGED <<tunnel, taskVars>>
  BY DEF PushDryRun, TaskSteps
<1>1. Moved(c) /\ pc'[c] \in {"push", "done"}
  <2>1. CASE Continue(c, "push")
    BY <2>1, MovesOn DEF Steps, TaskSteps
  <2>2. CASE Fail(c)
    BY <2>2, FailFacts
  <2> QED
    BY <2>1, <2>2 DEF PushDryRun
<1>2. pc'[c] \in {"push"} \cup Answers /\ pc'[c] \notin Starting
  BY <1>1 DEF Answers, Starting
<1>3. TaskDataOK' /\ UNCHANGED tunnel
      /\ UNCHANGED <<session, script, exitf, log, dir, late, last, mixed, swept>>
  BY <1>0, UnchangedTypes DEF taskVars, remote
<1>4. Typed' /\ TunnelInv'
  BY <1>0, <1>2, <1>1, <1>3, TaskMove
<1>5. StartInv'
  BY <1>1, <1>3, StartKept DEF Moved
<1>6. LastInv'
  BY <1>3 DEF LastInv, LateHasId, NoDir, LastRun, HasResult, Exists
<1> QED
  BY <1>4, <1>5, <1>6

\* What a push leaves of the files, and whose it has removed.
LEMMA DeleteFacts ==
  ASSUME Typed, NEW gone \in SUBSET File, Delete(gone)
  PROVE  /\ script' \in [Name -> Id] /\ exitf' \in [Name -> Id]
         /\ log' \in [Name -> BOOLEAN] /\ dir' \in BOOLEAN /\ swept' \subseteq Name
         /\ swept \subseteq swept' /\ UNCHANGED session
         /\ \A n \in Name : /\ script'[n] \in {0, script[n]}
                            /\ exitf'[n] = exitf[n] \/ (exitf'[n] = 0 /\ n \in swept')
         /\ ~dir' => ~dir \/ (swept' = Name /\ \A n \in Name : exitf'[n] = 0)
<1>0. 0 \in Id
  BY TunnelAssumption DEF Id
<1>1. /\ script \in [Name -> Id] /\ exitf \in [Name -> Id] /\ log \in [Name -> BOOLEAN]
      /\ dir \in BOOLEAN /\ swept \subseteq Name
  BY DataFacts
<1>2. /\ script' = [n \in Name |-> IF <<"script", n>> \in gone THEN 0 ELSE script[n]]
      /\ exitf' = [n \in Name |-> IF <<"exit", n>> \in gone THEN 0 ELSE exitf[n]]
      /\ log' = [n \in Name |-> log[n] /\ <<"log", n>> \notin gone]
      /\ dir' = (dir /\ gone # File) /\ UNCHANGED session
      /\ swept' = IF gone = File THEN Name
                  ELSE swept \cup {n \in Name : \E f \in gone : f[2] = n}
  BY DEF Delete
<1>3. \A n \in Name : <<"exit", n>> \in gone => n \in swept'
  BY <1>2
<1>4. gone = File => \A n \in Name : exitf'[n] = 0
  <2> SUFFICES ASSUME gone = File, NEW n \in Name, exitf[n] # 0
               PROVE  <<"exit", n>> \in gone
    BY <1>2
  <2>1. <<"exit", n>> \in {<<"exit", m>> : m \in {k \in Name : exitf[k] # 0}}
    OBVIOUS
  <2> QED
    BY <2>1 DEF File
<1>5. swept \subseteq swept' /\ swept' \subseteq Name
  BY <1>1, <1>2
<1>6. /\ script' \in [Name -> Id] /\ exitf' \in [Name -> Id]
      /\ log' \in [Name -> BOOLEAN] /\ dir' \in BOOLEAN
  BY <1>0, <1>1, <1>2
<1>7. \A n \in Name : /\ script'[n] \in {0, script[n]}
                      /\ exitf'[n] = exitf[n] \/ (exitf'[n] = 0 /\ n \in swept')
  BY <1>2, <1>3
<1>8. ~dir' => ~dir \/ (swept' = Name /\ \A n \in Name : exitf'[n] = 0)
  BY <1>2, <1>4
<1> QED
  BY <1>2, <1>5, <1>6, <1>7, <1>8

LEMMA PushStep ==
  ASSUME Typed, TunnelInv, StartInv, LastInv, NEW c \in Client, Push(c)
  PROVE  Typed' /\ TunnelInv' /\ StartInv' /\ LastInv'
<1>0. pc[c] = "push" /\ pc[c] \in TaskSteps /\ UNCHANGED <<tunnel, late, last, mixed>>
  BY DEF Push, TaskSteps
<1>1. Moved(c) /\ pc'[c] \in {"done"}
  <2>1. Return(c, "done") \/ Fail(c)
    BY DEF Push
  <2> QED
    BY <2>1, MovesOut, FailFacts DEF Answers
<1>2. pc'[c] \in Answers /\ pc'[c] \notin Starting
  BY <1>1 DEF Answers, Starting
<1>3. PICK gone \in SUBSET File : Delete(gone)
  BY DEF Push
<1>4. /\ script' \in [Name -> Id] /\ exitf' \in [Name -> Id]
      /\ log' \in [Name -> BOOLEAN] /\ dir' \in BOOLEAN /\ swept' \subseteq Name
      /\ swept \subseteq swept' /\ UNCHANGED session
      /\ \A n \in Name : /\ script'[n] \in {0, script[n]}
                         /\ exitf'[n] = exitf[n] \/ (exitf'[n] = 0 /\ n \in swept')
      /\ ~dir' => ~dir \/ (swept' = Name /\ \A n \in Name : exitf'[n] = 0)
  BY <1>3, DeleteFacts
<1>5. Typed' /\ TunnelInv'
  <2>1. TaskDataOK'
    BY <1>0, <1>4, DataFacts DEF TaskDataOK
  <2> QED
    BY <1>0, <1>1, <1>2, <2>1, TaskMove
<1>6. StartInv'
  BY <1>0, <1>1, <1>4, StartKept DEF Moved
<1>7. LastInv'
  <2>1. LateHasId'
    BY <1>0 DEF LastInv, LateHasId
  <2>2. NoDir'
    BY <1>4 DEF LastInv, NoDir, Exists
  <2>3. ASSUME NEW n \in Name PROVE LastRun(n)'
    <3>1. LastRun(n)
      BY DEF LastInv
    <3>2. HasResult(n) => HasResult(n)'
      BY <1>0, <1>4 DEF HasResult
    <3>3. exitf[n] = 0 => exitf'[n] = 0
      BY <1>4
    <3> QED
      BY <1>0, <1>4, <3>1, <3>2, <3>3 DEF LastRun, Exists
  <2> QED
    BY <2>1, <2>2, <2>3 DEF LastInv
<1> QED
  BY <1>5, <1>6, <1>7

\* A command that has timed out takes effect.
LEMMA RunsLateStep ==
  ASSUME Typed, TunnelInv, StartInv, LastInv, NEW k \in late, RunsLate(k)
  PROVE  Typed' /\ TunnelInv' /\ StartInv' /\ LastInv'
<1> SUFFICES ASSUME NEW m \in Name, m = k.name, NEW i \in Id, i = k.id
             PROVE  Typed' /\ TunnelInv' /\ StartInv' /\ LastInv'
  BY LateFacts
<1>0. /\ late' = late \ {k} /\ UNCHANGED <<tunnelVars, mixed, pc, call>>
      /\ late' \in SUBSET Late
  BY DataFacts DEF RunsLate, tunnelVars, threads
<1>a. LateHasId'
  BY <1>0 DEF LastInv, LateHasId
<1>b. TaskDataOK' => Typed' /\ TunnelInv'
  BY <1>0, RemoteMove
<1>c. ASSUME m \notin mixed, LateStart(k, m)
      PROVE  /\ session[m] = NoSession /\ \A d \in Client : ~Uploading(d, m)
             /\ \A j \in late' : ~LateStart(j, m)
  BY <1>0, <1>c DEF StartInv, OneStart
<1>1. CASE k.kind = "write" /\ WriteScript(m, i)
  <2>1. /\ script' \in [Name -> Id] /\ script'[m] = i
        /\ \A n \in Name : n # m => script'[n] = script[n]
        /\ dir' = TRUE /\ UNCHANGED <<session, exitf, log, last, swept>>
    BY <1>1, WriteFacts
  <2>2. TaskDataOK'
    BY <1>0, <2>1, DataFacts DEF TaskDataOK
  <2>3. LastInv'
    BY <1>a, <2>1 DEF LastInv, NoDir, LastRun, HasResult, Exists
  <2>4. ASSUME NEW n \in Name, n \notin mixed'
        PROVE  OneStart(n)' /\ OwnUpload(n)'
    <3>0. OneStart(n) /\ OwnUpload(n)
      BY <1>0, <2>4 DEF StartInv
    <3>1. OneStart(n)'
      BY <1>0, <2>1, <3>0 DEF OneStart, Uploading, LateStart
    <3>2. CASE n # m
      BY <1>0, <2>1, <3>0, <3>1, <3>2 DEF OwnUpload
    <3>3. CASE n = m
      <4>0. LateStart(k, m)
        BY <1>1 DEF LateStart
      <4>1. /\ session[m] = NoSession /\ \A d \in Client : ~Uploading(d, m)
            /\ \A j \in late' : ~LateStart(j, m)
        BY <1>0, <1>c, <2>4, <3>3, <4>0
      <4>2. \A d \in Client : ~(pc'[d] = "new_session" /\ call'[d].name = m)
        BY <1>0, <4>1 DEF Uploading
      <4>3. OwnUpload(m)'
        BY <1>1, <2>4, <3>3, <4>1, <4>2, OwnUploadWritten
      <4> QED
        BY <3>1, <3>3, <4>3
    <3> QED
      BY <3>2, <3>3
  <2> QED
    BY <1>b, <2>2, <2>3, <2>4 DEF StartInv
<1>2. CASE k.kind = "new" /\ UNCHANGED <<remote, last, swept>>
  <2>1. UNCHANGED <<session, script, exitf, log, dir, last, swept>>
    BY <1>2 DEF remote
  <2>2. TaskDataOK'
    BY <1>0, <2>1, DataFacts DEF TaskDataOK
  <2>3. StartInv'
    BY <1>0, <2>1, StartKept
  <2>4. LastInv'
    BY <1>a, <2>1 DEF LastInv, NoDir, LastRun, HasResult, Exists
  <2> QED
    BY <1>b, <2>2, <2>3, <2>4
<1>3. CASE k.kind = "new" /\ ~Exists(m) /\ MakeSession(m, i)
  <2>1. TaskDataOK'
    BY <1>0, <1>3, MakeFacts, DataFacts DEF TaskDataOK
  <2>2. i # 0
    BY <1>3 DEF LastInv, LateHasId
  <2>3. LastInv'
    BY <1>3, <1>a, <2>2, MakeLast
  <2>4. LateStart(k, m)
    BY <1>3 DEF LateStart
  <2>5. ASSUME m \notin mixed
        PROVE  /\ script[m] \in {0, i} /\ \A d \in Client : ~Uploading(d, m)'
               /\ \A j \in late' : ~LateStart(j, m)
    <3>1. script[m] \in {0, i}
      BY <1>3, <2>5 DEF StartInv, OwnUpload
    <3>2. \A d \in Client : ~Uploading(d, m)'
      BY <1>0, <1>c, <2>4, <2>5 DEF Uploading
    <3> QED
      BY <1>c, <2>4, <2>5, <3>1, <3>2
  <2>6. StartInv'
    BY <1>0, <1>3, <2>5, MakeStart
  <2> QED
    BY <1>b, <2>1, <2>3, <2>6
<1>4. CASE k.kind = "kill" /\ KillSession(m)
  <2>1. UNCHANGED <<script, exitf, log, dir, swept>>
    BY <1>4, KillFacts
  <2>2. TaskDataOK'
    BY <1>0, <1>4, <2>1, KillType, DataFacts DEF TaskDataOK
  <2>3. \A n \in Name : session'[n] = session[n] \/ session'[n] = NoSession
    BY <1>4, KillSessions
  <2>4. StartInv'
    BY <1>0, <2>1, <2>3, StartKept
  <2>5. LastInv'
    BY <1>4, <1>a, KillLast
  <2> QED
    BY <1>b, <2>2, <2>4, <2>5
<1> QED
  BY <1>1, <1>2, <1>3, <1>4 DEF RunsLate

-----------------------------------------------------------------------------
(* The sessions                                                            *)

\* A session goes on: its script, or what it has run, is its own.
LEMMA PhaseStart ==
  ASSUME Typed, StartInv, UNCHANGED <<tunnelVars, script, late, mixed>>, NEW n \in Name,
         session[n] # NoSession, \A m \in Name : m # n => session'[m] = session[m],
         session'[n].run = session[n].run, session'[n].phase \in {"running", "exited"},
         n \notin mixed => session'[n].ran = session[n].run
  PROVE  StartInv'
<1> SUFFICES ASSUME NEW m \in Name, m \notin mixed
             PROVE  OneStart(m)' /\ OwnUpload(m)'
  BY DEF StartInv
<1>0. OneStart(m) /\ OwnUpload(m) /\ UNCHANGED <<pc, call>>
  BY DEF StartInv, tunnelVars, threads
<1>1. CASE m # n
  BY <1>0, <1>1 DEF OneStart, OwnUpload, Uploading, LateStart
<1>2. CASE m = n
  <2>1. /\ \A d \in Client : ~Uploading(d, n)
        /\ \A k \in late : ~LateStart(k, n)
    BY <1>0, <1>2 DEF OneStart
  <2>2. OneStart(m)'
    BY <1>0, <1>2, <2>1 DEF OneStart, Uploading, LateStart
  <2>3. OwnUpload(m)'
    BY <1>0, <1>2 DEF OwnUpload
  <2> QED
    BY <2>2, <2>3
<1> QED
  BY <1>1, <1>2

LEMMA SessionGoneStep ==
  ASSUME Typed, TunnelInv, StartInv, LastInv, NEW n \in Name, Exists(n),
         NEW h \in {"normally", "early"}, Gone(n, h),
         h = "normally" => session[n].phase = "exited",
         UNCHANGED <<tunnelVars, script, exitf, log, dir, late, mixed, swept>>
  PROVE  Typed' /\ TunnelInv' /\ StartInv' /\ LastInv'
<1>1. /\ session' \in [Name -> Session] /\ last' \in [Name -> Last]
      /\ \A m \in Name : session'[m] = session[m] \/ session'[m] = NoSession
  BY GoneFacts
<1>2. TaskDataOK'
  BY <1>1, DataFacts DEF TaskDataOK
<1>3. Typed' /\ TunnelInv'
  BY <1>2, RemoteMove
<1>4. StartInv'
  BY <1>1, StartKept DEF tunnelVars, threads
<1>5. LastInv'
  BY GoneLast DEF LastInv, LateHasId
<1> QED
  BY <1>3, <1>4, <1>5

LEMMA SessionReadsStep ==
  ASSUME Typed, TunnelInv, StartInv, LastInv, NEW n \in Name, SessionReads(n)
  PROVE  Typed' /\ TunnelInv' /\ StartInv' /\ LastInv'
<1>0. /\ session[n].phase = "new" /\ Exists(n)
      /\ UNCHANGED <<tunnelVars, script, exitf, log, dir, late, mixed, swept>>
      /\ session[n] \in Session /\ script[n] \in Id /\ session \in [Name -> Session]
  BY NoSessionFacts, DataFacts DEF SessionReads, Exists
<1>1. CASE session' = [session EXCEPT ![n].ran = script[n], ![n].phase = "running"]
           /\ script[n] # 0 /\ UNCHANGED last
  <2> DEFINE s == [session[n] EXCEPT !.ran = script[n], !.phase = "running"]
  <2>1. s \in Session /\ s.run = session[n].run /\ s.ran = script[n] /\ s.phase = "running"
    BY <1>0 DEF Session
  <2>2. session' = [session EXCEPT ![n] = s]
    BY <1>0, <1>1
  <2> HIDE DEF s
  <2>3. /\ session' \in [Name -> Session] /\ session'[n] = s
        /\ \A m \in Name : m # n => session'[m] = session[m]
    BY <1>0, <2>1, <2>2
  <2>4. TaskDataOK'
    BY <1>0, <1>1, <2>3, DataFacts DEF TaskDataOK
  <2>5. Typed' /\ TunnelInv'
    BY <1>0, <2>4, RemoteMove
  <2>6. n \notin mixed => script[n] = session[n].run
    BY <1>0, <1>1 DEF StartInv, OwnUpload
  <2>7. StartInv'
    BY <1>0, <2>1, <2>3, <2>6, PhaseStart DEF Exists
  <2>8. LastInv'
    <3>0. NoDir'
      BY <1>0, <2>3 DEF LastInv, NoDir, Exists
    <3> SUFFICES ASSUME NEW m \in Name PROVE LastRun(m)'
      BY <1>0, <3>0 DEF LastInv, LateHasId
    <3>1. LastRun(m)
      BY DEF LastInv
    <3>2. CASE m = n
      BY <1>0, <1>1, <2>1, <2>3, <3>1, <3>2, NoSessionFacts DEF LastRun, HasResult, Exists
    <3>3. CASE m # n
      BY <1>0, <1>1, <2>3, <3>1, <3>3 DEF LastRun, HasResult, Exists
    <3> QED
      BY <3>2, <3>3
  <2> QED
    BY <2>5, <2>7, <2>8
<1>2. CASE Gone(n, "early")
  BY <1>0, <1>2, SessionGoneStep
<1> QED
  BY <1>1, <1>2 DEF SessionReads

LEMMA SessionExitsStep ==
  ASSUME Typed, TunnelInv, StartInv, LastInv, NEW n \in Name, SessionExits(n)
  PROVE  Typed' /\ TunnelInv' /\ StartInv' /\ LastInv'
<1>0. /\ session[n].phase = "running" /\ Exists(n)
      /\ UNCHANGED <<tunnelVars, script, log, dir, late, last, mixed, swept>>
      /\ session[n] \in Session /\ session \in [Name -> Session] /\ exitf \in [Name -> Id]
      /\ session[n].run \in Id
  BY NoSessionFacts, DataFacts, LastFacts DEF SessionExits, Exists
<1> DEFINE s == [session[n] EXCEPT !.phase = "exited"]
<1>1. s \in Session /\ s.run = session[n].run /\ s.ran = session[n].ran /\ s.phase = "exited"
  BY <1>0 DEF Session
<1>2. /\ session' = [session EXCEPT ![n] = s]
      /\ exitf' = IF dir THEN [exitf EXCEPT ![n] = session[n].run] ELSE exitf
  BY DEF SessionExits
<1> HIDE DEF s
<1>3. /\ session' \in [Name -> Session] /\ session'[n] = s
      /\ exitf' \in [Name -> Id] /\ exitf'[n] = (IF dir THEN session[n].run ELSE exitf[n])
      /\ \A m \in Name : m # n => session'[m] = session[m] /\ exitf'[m] = exitf[m]
  BY <1>0, <1>1, <1>2
<1>4. TaskDataOK'
  BY <1>0, <1>3, DataFacts DEF TaskDataOK
<1>5. Typed' /\ TunnelInv'
  BY <1>0, <1>4, RemoteMove
<1>6. n \notin mixed => session[n].ran = session[n].run
  BY <1>0 DEF StartInv, OwnUpload
<1>7. StartInv'
  BY <1>0, <1>1, <1>3, <1>6, PhaseStart DEF Exists
<1>8. LastInv'
  <2>0. NoDir'
    BY <1>0, <1>3 DEF LastInv, NoDir, Exists
  <2>a. ~dir => exitf[n] = 0 /\ n \in swept
    BY <1>0 DEF LastInv, NoDir
  <2> SUFFICES ASSUME NEW m \in Name PROVE LastRun(m)'
    BY <1>0, <2>0 DEF LastInv, LateHasId
  <2>1. LastRun(m)
    BY DEF LastInv
  <2>2. CASE m = n
    BY <1>0, <1>1, <1>3, <2>a, <2>1, <2>2, NoSessionFacts DEF LastRun, HasResult, Exists
  <2>3. CASE m # n
    BY <1>0, <1>3, <2>1, <2>3 DEF LastRun, HasResult, Exists
  <2> QED
    BY <2>2, <2>3
<1> QED
  BY <1>5, <1>7, <1>8

LEMMA SessionEndsStep ==
  ASSUME Typed, TunnelInv, StartInv, LastInv, NEW n \in Name, SessionEnds(n)
  PROVE  Typed' /\ TunnelInv' /\ StartInv' /\ LastInv'
<1>0. /\ session[n].phase = "exited" /\ Exists(n) /\ Gone(n, "normally")
      /\ UNCHANGED <<tunnelVars, script, exitf, log, dir, late, mixed, swept>>
  BY NoSessionFacts DEF SessionEnds, Exists
<1> QED
  BY <1>0, SessionGoneStep

-----------------------------------------------------------------------------
(* The invariant                                                           *)

Inv == Typed /\ TunnelInv /\ StartInv /\ LastInv

LEMMA InitInv == Init => Inv
<1> SUFFICES ASSUME Init PROVE Inv
  OBVIOUS
<1> USE DEF Init, TunnelInit
<1>0. 0 \in Id /\ 0 \in 0 .. MaxCalls /\ 0 \in 0 .. 0 /\ 0 \in 0 .. MaxEvents
  BY TunnelAssumption DEF Id
<1>1. TunnelDataOK
  BY DEF TunnelDataOK, Port, Socket
<1>2. TaskDataOK
  <2>1. session \in [Name -> Session] /\ script \in [Name -> Id] /\ exitf \in [Name -> Id]
        /\ log \in [Name -> BOOLEAN] /\ dir \in BOOLEAN
        /\ late \subseteq Late /\ mixed \subseteq Name /\ swept \subseteq Name
    BY <1>0, NoSessionFacts
  <2>2. [run |-> 0, ended |-> "no"] \in Last
    BY <1>0 DEF Last
  <2>3. last \in [Name -> Last]
    BY <2>2
  <2> QED
    BY <2>1, <2>3 DEF TaskDataOK
<1>3. pc \in [Client -> Steps] /\ call \in [Client -> Call]
      /\ \A c \in Client : pc[c] = "done" /\ call[c] = NoCall
  BY NoCallFacts DEF Steps, Answers
<1>4. Typed
  <2>1. TypeOK
    BY <1>0, <1>1, <1>2, <1>3, TypeOKParts
  <2>2. StepOp
    BY <1>3, NoCallFacts DEF StepOp, Connecting, Starting
  <2> QED
    BY <2>1, <2>2 DEF Typed
<1>5. TunnelInv
  BY <1>3, TunnelAssumption
  DEF TunnelInv, LiveHasPort, UnlinkIsLost, NoOrphan, TunnelUpForLaunch, Up, Launching
<1>6. StartInv
  BY <1>3, NoSessionFacts DEF StartInv, OneStart, OwnUpload, Uploading, LateStart
<1>7. LastInv
  BY DEF LastInv, LateHasId, NoDir, LastRun, HasResult, Exists
<1> QED
  BY <1>4, <1>5, <1>6, <1>7 DEF Inv

\* Whatever the clients, the environment and the remote host do keeps the invariant.
LEMMA NextInv == Inv /\ [Next]_vars => Inv'
<1> SUFFICES ASSUME Inv, [Next]_vars PROVE Inv'
  OBVIOUS
<1>0. Typed /\ TunnelInv /\ StartInv /\ LastInv
  BY DEF Inv
<1>1. CASE TunnelNext /\ UNCHANGED taskVars
  <2>1. Typed' /\ TunnelInv' /\ Frame
    BY <1>0, <1>1, TunnelStep
  <2>2. UNCHANGED <<session, script, exitf, log, dir, late, last, mixed, swept>>
    BY <1>1 DEF taskVars, remote
  <2>3. StartInv'
    BY <1>0, <2>1, <2>2, StartKept DEF Frame
  <2>4. LastInv'
    BY <1>0, <2>2 DEF LastInv, LateHasId, NoDir, LastRun, HasResult, Exists
  <2> QED
    BY <2>1, <2>3, <2>4 DEF Inv
<1>2. ASSUME NEW c \in Client, HasSession(c) \/ Write(c) \/ NewSession(c) \/ TaskStatus(c)
                               \/ TaskKill(c) \/ PushDryRun(c) \/ Push(c)
      PROVE  Inv'
  <2>1. CASE HasSession(c)
    BY <1>0, <2>1, HasSessionStep DEF Inv
  <2>2. CASE Write(c)
    BY <1>0, <2>2, WriteStep DEF Inv
  <2>3. CASE NewSession(c)
    BY <1>0, <2>3, NewSessionStep DEF Inv
  <2>4. CASE TaskStatus(c)
    BY <1>0, <2>4, TaskStatusStep DEF Inv
  <2>5. CASE TaskKill(c)
    BY <1>0, <2>5, TaskKillStep DEF Inv
  <2>6. CASE PushDryRun(c) \/ Push(c)
    BY <1>0, <2>6, PushDryRunStep, PushStep DEF Inv
  <2> QED
    BY <1>2, <2>1, <2>2, <2>3, <2>4, <2>5, <2>6
<1>3. ASSUME NEW k \in late, RunsLate(k) PROVE Inv'
  BY <1>0, <1>3, RunsLateStep DEF Inv
<1>4. ASSUME NEW n \in Name, SessionReads(n) \/ SessionExits(n) \/ SessionEnds(n) PROVE Inv'
  BY <1>0, <1>4, SessionReadsStep, SessionExitsStep, SessionEndsStep DEF Inv
<1>5. CASE UNCHANGED vars
  <2>1. UNCHANGED tunnelVars /\ UNCHANGED <<session, script, exitf, log, dir, late, last, mixed, swept>>
    BY <1>5 DEF vars, taskVars, remote
  <2>2. Typed' /\ TunnelInv'
    BY <1>0, <2>1, RemoteMove, DataFacts DEF TaskDataOK
  <2>3. StartInv'
    BY <1>0, <2>1, StartKept DEF tunnelVars, threads
  <2>4. LastInv'
    BY <1>0, <2>1 DEF LastInv, LateHasId, NoDir, LastRun, HasResult, Exists
  <2> QED
    BY <2>2, <2>3, <2>4 DEF Inv
<1> QED
  BY <1>1, <1>2, <1>3, <1>4, <1>5 DEF Next, TaskNext

\* The invariant holds in every reachable state.
LEMMA Invariance == Spec => []Inv
BY InitInv, NextInv, PTL DEF Spec

-----------------------------------------------------------------------------
(* The theorems                                                            *)

\* The variables of the tunnels and of the tasks keep to their ranges.
THEOREM TypeCorrect == Spec => []TypeOK
<1>1. Inv => TypeOK
  BY DEF Inv, Typed
<1> QED
  BY <1>1, Invariance, PTL

\* Every master that has the port can be reached through its control socket, but for a
\* stop whose exit request failed, a start within a stop, a start that finds the socket of
\* a killed or deaf master, and a master that ends late (network.py: tunnel_start,
\* tunnel_stop).
THEOREM MasterReachable == Spec => []NoOrphan
<1>1. Inv => NoOrphan
  BY DEF Inv, TunnelInv
<1> QED
  BY <1>1, Invariance, PTL

\* A remote command that exports the proxy has the master of its own label at the other
\* end of the port, unless the port was lost since the call began, or the master that
\* answered the check had not noticed that it was (commands.py: run_remote, tasks.py:
\* task_start).
THEOREM TunnelBehindLaunch == Spec => []TunnelUpForLaunch
<1>1. Inv => TunnelUpForLaunch
  BY DEF Inv, TunnelInv
<1> QED
  BY <1>1, Invariance, PTL

\* A session runs the script of the task_start that made it, unless starts of the task
\* overlap, or ssh failed at the check (tasks.py: task_start).
THEOREM SessionRunsOwnScript == Spec => []OwnScript
<1>1. Inv => OwnScript
  BY DEF Inv, StartInv, OwnUpload, OwnScript
<1> QED
  BY <1>1, Invariance, PTL

-----------------------------------------------------------------------------
(* What task_status answers                                                *)

StatusStep ==
  \A c \in Client : pc[c] = "status" /\ pc'[c] # "status" =>
    LET n == call[c].name IN
    /\ pc'[c] = "finished" => last[n].ended = "early" \/ exitf[n] = last[n].run
    /\ last[n].ended = "normally" /\ n \notin swept => pc'[c] \notin {"missing", "unknown"}

\* Only the step of task_status ends a call that is at it.
LEMMA StatusKept ==
  ASSUME Typed, NEW c \in Client,
         \/ HasSession(c) \/ Write(c) \/ NewSession(c) \/ TaskKill(c)
         \/ PushDryRun(c) \/ Push(c)
  PROVE  StatusStep
<1>1. pc[c] # "status"
  BY DEF HasSession, Write, NewSession, TaskKill, PushDryRun, Push
<1>2. \A d \in Client : d # c => pc'[d] = pc[d]
  <2>1. CASE HasSession(c)
    BY <2>1, HasSessionFacts DEF Moved
  <2>2. CASE RemoteFails(c)
    BY <2>2, RemoteFailsFacts DEF Moved
  <2>3. CASE \E kind \in {"write", "new", "kill"} : TimesOut(c, kind)
    BY <2>3, TimesOutFacts DEF Moved
  <2>4. CASE \/ Continue(c, "new_session") \/ Continue(c, "push")
             \/ Return(c, "done") \/ Fail(c)
    BY <2>4, MovesOn, MovesOut, FailFacts DEF Moved, Steps, TaskSteps, Answers
  <2> QED
    BY <2>1, <2>2, <2>3, <2>4 DEF Write, NewSession, TaskKill, PushDryRun, Push
<1> QED
  BY <1>1, <1>2 DEF StatusStep

LEMMA StatusAnswers ==
  ASSUME Typed, LastInv, NEW c \in Client, TaskStatus(c)
  PROVE  StatusStep
<1> SUFFICES ASSUME NEW n \in Name, n = call[c].name PROVE StatusStep
  BY CallFacts
<1>0. LastRun(n) /\ (Exists(n) => Target(n) # {})
  BY TargetFacts DEF LastInv
<1>1. CASE Return(c, StatusOf(n))
  <2>1. StatusOf(n) \in Answers
    BY DEF StatusOf, Answers
  <2>2. Moved(c) /\ pc'[c] = StatusOf(n)
    BY <1>1, <2>1, MovesOut
  <2>3. StatusOf(n) = "finished" => last[n].ended = "early" \/ exitf[n] = last[n].run
    <3> SUFFICES ASSUME StatusOf(n) = "finished", last[n].ended # "early"
                 PROVE  exitf[n] = last[n].run
      OBVIOUS
    <3>1. ~Exists(n) /\ exitf[n] # 0
      BY <1>0 DEF StatusOf
    <3>2. last[n].ended \in {"no", "normally", "early"}
      BY DataFacts DEF Last
    <3> QED
      BY <1>0, <3>1, <3>2 DEF LastRun, HasResult
  <2>4. last[n].ended = "normally" /\ n \notin swept =>
          StatusOf(n) \notin {"missing", "unknown"}
    BY <1>0 DEF LastRun, HasResult, StatusOf
  <2> QED
    BY <2>2, <2>3, <2>4 DEF StatusStep, Moved
<1>2. CASE Return(c, "no_answer") \/ Fail(c)
  <2>1. Moved(c) /\ pc'[c] \in {"no_answer", "done"}
    BY <1>2, MovesOut, FailFacts DEF Answers
  <2> QED
    BY <2>1 DEF StatusStep, Moved
<1> QED
  BY <1>1, <1>2 DEF TaskStatus

LEMMA StatusNext == Inv /\ [Next]_vars => StatusStep
<1> SUFFICES ASSUME Inv, [Next]_vars PROVE StatusStep
  OBVIOUS
<1>0. Typed /\ TunnelInv /\ StartInv /\ LastInv
  BY DEF Inv
<1>1. CASE TunnelNext /\ UNCHANGED taskVars
  BY <1>0, <1>1, TunnelStep DEF Frame, StatusStep
<1>2. ASSUME NEW c \in Client, HasSession(c) \/ Write(c) \/ NewSession(c) \/ TaskStatus(c)
                               \/ TaskKill(c) \/ PushDryRun(c) \/ Push(c)
      PROVE  StatusStep
  BY <1>0, <1>2, StatusKept, StatusAnswers
<1>3. CASE \/ UNCHANGED vars \/ \E k \in late : RunsLate(k)
           \/ \E n \in Name : SessionReads(n) \/ SessionExits(n) \/ SessionEnds(n)
  <2>1. UNCHANGED pc
    BY <1>3 DEF RunsLate, SessionReads, SessionExits, SessionEnds, vars, tunnelVars, threads
  <2> QED
    BY <2>1 DEF StatusStep
<1> QED
  BY <1>1, <1>2, <1>3 DEF Next, TaskNext

\* task_status says finished for an exit file of the last run only, unless that run was
\* killed or could not begin; and a run that has ended by itself is neither missing nor
\* unknown, unless a push has removed its files (tasks.py: task_status).
THEOREM StatusCorrect == Spec => StatusIsOfLastRun
<1>1. Inv /\ [Next]_vars => [StatusStep]_vars
  BY StatusNext
<1> QED
  BY <1>1, Invariance, PTL DEF Spec, StatusIsOfLastRun, StatusStep

=============================================================================
