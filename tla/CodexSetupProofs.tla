------------------------- MODULE CodexSetupProofs --------------------------
(***************************************************************************)
(* Theorems about CodexSetup, for any number of transactions, instances,   *)
(* endpoints and events, and for every set of faults.                      *)
(*                                                                         *)
(* The invariant has a part for each transaction t, TxnInv(t), that speaks *)
(* of t and of the world only: a step of t restores it (Good), a step of   *)
(* anybody else keeps it, because what such a step changes is not fresh    *)
(* for t any more (Kept) and the daemon it may launch has an identifier    *)
(* that t does not know (Spared).  EstInv adds what makes an established   *)
(* connection stay: nobody has anything to restart or to roll back.        *)
(***************************************************************************)
EXTENDS CodexSetup, TLAPS

-----------------------------------------------------------------------------
(* The inductive invariant                                                  *)

Early == {"begin", "read_project", "read_global", "status", "prepare"}
Uncommitted == Early \cup {"health", "restart", "health_again", "check_global", "commit"}
Committed == {"postcommit", "token", "ok", "manual"}
Checked == Committed \cup {"check_global", "commit"}
Asking == {"health", "health_again", "doctor_health"}

\* What the step of a transaction says of its operation and of its history.
Flow(t) ==
  /\ pc[t] \in Early => loc[t].started = NoInstance
  /\ pc[t] \in Uncommitted => ~loc[t].written
  /\ pc[t] \in {"postcommit", "token"} => loc[t].written
  /\ pc[t] \in Rollback =>
       /\ loc[t].started # NoInstance
       /\ loc[t].written => loc[t].interrupted \/ loc[t].misreported
  /\ pc[t] \in Locked => op[t] # "doctor"
  /\ pc[t] \in Doctor => op[t] = "doctor"
  /\ pc[t] \in {"restart", "health_again"} => op[t] = "repair"

\* The daemon a transaction takes for its own is its own, and that of a setup
\* is the one it has started.
Own(t) ==
  /\ loc[t].started # NoInstance /\ daemon.id = loc[t].started => daemon.by = t
  /\ op[t] = "setup" /\ daemon.by = t /\ pc[t] \notin Ended => daemon.id = loc[t].started
  /\ op[t] = "setup" /\ daemon.by = t /\ pc[t] = "failed" /\ ~loc[t].written
       => daemon.status = "mismatch"

\* What is still fresh is what the transaction has seen.
Fresh(t) ==
  /\ "daemon" \in loc[t].fresh /\ pc[t] \notin Rollback => daemon = loc[t].seen
  /\ "global" \in loc[t].fresh => global = loc[t].gsnap
  /\ op[t] = "doctor" /\ "project" \in loc[t].fresh => config = loc[t].snap
  /\ op[t] # "doctor" /\ pc[t] \in Committed /\ "project" \in loc[t].fresh
       => config = loc[t].seen.url
  /\ pc[t] = "begin" => loc[t].fresh = {}
  /\ pc[t] = "doctor_global" => "global" \notin loc[t].fresh

\* What a setup or repair has verified.  A health call is made of a running daemon, and
\* a doctor that could not look at a file takes it for invalid.
Verified(t) ==
  /\ op[t] # "doctor" =>
       /\ pc[t] = "health_again" => loc[t].seen.current
       /\ pc[t] \in Checked =>
            /\ loc[t].seen.current /\ loc[t].seen.status = "running"
            /\ "daemon" \in loc[t].fresh => loc[t].seen.answers
       /\ pc[t] \in {"token", "ok", "manual"} => loc[t].gsnap \in Clear
       /\ pc[t] = "ok" => loc[t].gsnap = "trusted"
  /\ pc[t] \in Asking => loc[t].seen.status = "running"
  /\ op[t] = "doctor" /\ loc[t].hindered =>
       /\ pc[t] # "begin"
       /\ pc[t] = "doctor_global" => loc[t].snap = "invalid"
       /\ pc[t] \in Doctor => loc[t].snap = "invalid" \/ loc[t].gsnap = "blocking"

\* What a doctor has said.
Said(t) ==
  op[t] = "doctor" =>
    /\ pc[t] = "ok" => ~loc[t].hindered /\ (loc[t].fresh = Part => Connected)
    /\ pc[t] = "not_ok" /\ ~loc[t].hindered /\ loc[t].fresh = Part => ~Connected

TxnInv(t) == Flow(t) /\ Own(t) /\ Fresh(t) /\ Verified(t) /\ Said(t)

-----------------------------------------------------------------------------
(* A step seen by the transactions that do not take it                      *)

\* The transaction does nothing; what others change is no longer fresh for it.
Kept(u) ==
  /\ pc'[u] = pc[u] /\ op'[u] = op[u]
  /\ loc'[u].snap = loc[u].snap /\ loc'[u].gsnap = loc[u].gsnap
  /\ loc'[u].seen = loc[u].seen /\ loc'[u].started = loc[u].started
  /\ loc'[u].written = loc[u].written /\ loc'[u].interrupted = loc[u].interrupted
  /\ loc'[u].misreported = loc[u].misreported /\ loc'[u].hindered = loc[u].hindered
  /\ loc'[u].fresh \subseteq loc[u].fresh
  /\ "daemon" \in loc'[u].fresh => daemon' = daemon
  /\ "project" \in loc'[u].fresh => config' = config
  /\ "global" \in loc'[u].fresh => global' = global
  /\ credential' = credential

\* The daemon stays the same instance, it is gone, or it is not u who has launched it.
Spared(u) ==
  \/ /\ daemon'.id = daemon.id /\ daemon'.by = daemon.by
     /\ daemon.status = "mismatch" => daemon'.status = "mismatch"
  \/ daemon' = NoDaemon
  \/ daemon'.by # u /\ daemon'.id # loc[u].started

\* The invariant of a transaction survives the steps of everybody else.
LEMMA OthersStep ==
  ASSUME TypeOK, NEW u \in Txn, TxnInv(u), Kept(u), Spared(u)
  PROVE  TxnInv(u)'
<1>1. Flow(u)'
  BY DEF TxnInv, Flow, Kept
<1>2. Own(u)'
  <2>1. User # u
    BY ConstantAssumption
  <2>2. daemon' = NoDaemon => daemon'.id = NoInstance /\ daemon'.by = User
    BY DEF NoDaemon
  <2> QED
    BY <2>1, <2>2 DEF TxnInv, Own, Kept, Spared
<1>3. Fresh(u)'
  BY DEF TxnInv, Fresh, Kept
<1>4. Verified(u)'
  BY DEF TxnInv, Verified, Kept
<1>5. Said(u)'
  <2>1. loc'[u].fresh = Part => loc[u].fresh = Part
    BY DEF TypeOK, Locals, Kept
  <2>2. loc'[u].fresh = Part => (Connected' <=> Connected)
    <3>1. loc'[u].fresh = Part => UNCHANGED <<daemon, config, global, credential>>
      BY DEF Kept, Part
    <3> QED
      BY <3>1 DEF Connected
  <2> QED
    BY <2>1, <2>2 DEF TxnInv, Said, Kept
<1> QED
  BY <1>1, <1>2, <1>3, <1>4, <1>5 DEF TxnInv

\* Set changes the locals of one transaction, and spoils what it changes for the others.
LEMMA SetFacts ==
  ASSUME TypeOK, NEW t \in Txn, NEW step \in Pc, NEW l \in Locals,
         Goto(t, step), Set(t, l), UNCHANGED <<global, credential, op>>
  PROVE  /\ pc' \in [Txn -> Pc] /\ loc' \in [Txn -> Locals]
         /\ pc'[t] = step /\ loc'[t] = l
         /\ \A u \in Txn \ {t} : Kept(u)
<1>1. pc \in [Txn -> Pc] /\ loc \in [Txn -> Locals]
  BY DEF TypeOK
<1>2. pc' \in [Txn -> Pc] /\ pc'[t] = step /\ \A u \in Txn \ {t} : pc'[u] = pc[u]
  BY <1>1 DEF Goto
<1>3. loc'[t] = l
  BY DEF Set
<1>4. ASSUME NEW u \in Txn \ {t}
      PROVE  loc'[u] \in Locals /\ Kept(u)
  <2>1. loc'[u] = [loc[u] EXCEPT !.fresh = @ \ Changed]
    BY <1>4 DEF Set
  <2>2. loc[u] \in Locals
    BY <1>1
  <2>3. /\ loc'[u] \in Locals
        /\ loc'[u].snap = loc[u].snap /\ loc'[u].gsnap = loc[u].gsnap
        /\ loc'[u].seen = loc[u].seen /\ loc'[u].started = loc[u].started
        /\ loc'[u].written = loc[u].written /\ loc'[u].interrupted = loc[u].interrupted
        /\ loc'[u].misreported = loc[u].misreported /\ loc'[u].hindered = loc[u].hindered
        /\ loc'[u].fresh = loc[u].fresh \ Changed
    BY <2>1, <2>2 DEF Locals
  <2> QED
    BY <1>2, <2>3 DEF Kept, Changed, Part
<1>5. loc' \in [Txn -> Locals]
  <2>1. \A u \in Txn : loc'[u] \in Locals
    BY <1>3, <1>4
  <2>2. loc' = [u \in Txn |-> loc'[u]]
    BY DEF Set
  <2> QED
    BY <2>1, <2>2
<1> QED
  BY <1>2, <1>3, <1>4, <1>5

LEMMA GotoFacts ==
  ASSUME TypeOK, NEW t \in Txn, NEW step \in Pc,
         Goto(t, step), UNCHANGED <<loc, world, op>>
  PROVE  /\ pc' \in [Txn -> Pc] /\ loc' \in [Txn -> Locals]
         /\ pc'[t] = step /\ loc'[t] = loc[t]
         /\ \A u \in Txn \ {t} : Kept(u)
<1>1. pc \in [Txn -> Pc] /\ loc \in [Txn -> Locals]
  BY DEF TypeOK
<1>2. pc' \in [Txn -> Pc] /\ pc'[t] = step /\ \A u \in Txn \ {t} : pc'[u] = pc[u]
  BY <1>1 DEF Goto
<1> QED
  BY <1>1, <1>2 DEF Kept, world

-----------------------------------------------------------------------------
(* Ends and rollbacks                                                        *)

\* What a step of t shows: its own invariant holds again, and the others only watch.
Good(t) ==
  /\ pc' \in [Txn -> Pc] /\ loc' \in [Txn -> Locals] /\ daemon' \in DaemonState
  /\ TxnInv(t)'
  /\ \A u \in Txn \ {t} : Kept(u) /\ Spared(u)

LEMMA NoDaemonFacts ==
  /\ NoDaemon \in DaemonState
  /\ NoDaemon.id = NoInstance /\ NoDaemon.by = User /\ NoDaemon.status = "stopped"
  /\ NoDaemon.current = FALSE /\ NoDaemon.answers = FALSE
  /\ NoInstance \notin Instance
  /\ \A t \in Txn : User # t
BY ConstantAssumption DEF NoDaemon, DaemonState

\* A recorded daemon is not NoDaemon: it has an identifier.
LEMMA DaemonFacts ==
  ASSUME NEW d \in DaemonState
  PROVE  /\ d.status \in {"starting", "running", "mismatch", "stopped"}
         /\ d.id \in Instance \cup {NoInstance}
         /\ d.current \in BOOLEAN /\ d.answers \in BOOLEAN
         /\ d # NoDaemon <=> d.id # NoInstance
         /\ d # NoDaemon <=> d.status # "stopped"
         /\ d.by \in Txn => d # NoDaemon
<1>1. CASE d = NoDaemon
  BY <1>1, NoDaemonFacts
<1>2. CASE d \in Recorded
  BY <1>2, NoDaemonFacts DEF Recorded
<1> QED
  BY <1>1, <1>2 DEF DaemonState

LEMMA PromotedFacts ==
  ASSUME NEW d \in DaemonState
  PROVE  /\ Promoted(d) \in DaemonState
         /\ Promoted(d).id = d.id /\ Promoted(d).by = d.by /\ Promoted(d).url = d.url
         /\ d.status = "mismatch" <=> Promoted(d).status = "mismatch"
         /\ d.status = "stopped" <=> Promoted(d).status = "stopped"
         /\ d.status = "running" => Promoted(d) = d
<1>1. CASE d = NoDaemon
  <2>1. Promoted(d) = d
    BY <1>1, NoDaemonFacts DEF Promoted
  <2> QED
    BY <2>1
<1>2. CASE d \in Recorded
  BY <1>2 DEF Recorded, Promoted, DaemonState
<1> QED
  BY <1>1, <1>2 DEF DaemonState

LEMMA NoLocalsFacts ==
  /\ NoLocals \in Locals
  /\ \A b \in BOOLEAN : [NoLocals EXCEPT !.written = b] \in Locals
  /\ \A b \in BOOLEAN :
       LET l == [NoLocals EXCEPT !.written = b] IN
       l.started = NoInstance /\ l.fresh = {} /\ l.written = b
  /\ LET l == [NoLocals EXCEPT !.hindered = TRUE] IN
     l \in Locals /\ l.started = NoInstance /\ l.fresh = {} /\ l.hindered
BY NoDaemonFacts DEF NoLocals, Locals, Config, Global, Clear, Part

\* A transaction ends: it failed, or was killed.  A daemon of its own is left only if
\* it has committed, if it was killed, or if the process is not the daemon any more.
LEMMA EndFacts ==
  ASSUME TypeOK, NEW t \in Txn, NEW how \in Ended \ {"ok", "manual", "not_ok"},
         End(t, how), UNCHANGED <<global, credential, op>>,
         daemon' \in DaemonState,
         op[t] = "setup" /\ daemon'.by = t /\ how = "failed" /\ ~loc[t].written
           => daemon'.status = "mismatch"
  PROVE  /\ pc' \in [Txn -> Pc] /\ loc' \in [Txn -> Locals]
         /\ TxnInv(t)' /\ \A u \in Txn \ {t} : Kept(u)
<1> DEFINE l == [NoLocals EXCEPT !.written = loc[t].written]
<1>1. loc[t].written \in BOOLEAN
  BY DEF TypeOK, Locals
<1>2. l \in Locals /\ l.started = NoInstance /\ l.fresh = {} /\ l.written = loc[t].written
  BY <1>1, NoLocalsFacts
<1>3. how \in Pc
  BY DEF Pc
<1>4. Goto(t, how) /\ Set(t, l)
  BY DEF End
<1> HIDE DEF l
<1>5. /\ pc' \in [Txn -> Pc] /\ loc' \in [Txn -> Locals]
      /\ pc'[t] = how /\ loc'[t] = l /\ \A u \in Txn \ {t} : Kept(u)
  BY <1>2, <1>3, <1>4, SetFacts
<1>6. op'[t] = op[t]
  OBVIOUS
<1>7. how \in {"failed", "not_undone", "killed"}
  BY DEF Ended
<1>8. Flow(t)'
  BY <1>2, <1>5, <1>7
     DEF Flow, Early, Uncommitted, Rollback, Locked, Doctor
<1>9. Own(t)'
  BY <1>2, <1>5, <1>6, <1>7 DEF Own, Ended
<1>10. Fresh(t)' /\ Said(t)'
  BY <1>2, <1>5, <1>7 DEF Fresh, Said, Part
<1>11. Verified(t)'
  BY <1>5, <1>7 DEF Verified, Checked, Committed, Asking, Doctor
<1> QED
  BY <1>5, <1>8, <1>9, <1>10, <1>11 DEF TxnInv

\* A transaction turns to its rollback, or goes on with it.
LEMMA RollbackFacts ==
  ASSUME TypeOK, NEW t \in Txn, TxnInv(t), NEW l \in Locals,
         NEW step \in Rollback, Goto(t, step), Set(t, l), UNCHANGED <<global, credential, op>>,
         daemon' \in DaemonState, Spared(t),
         op[t] # "doctor", pc[t] \notin Ended,
         l.started = loc[t].started, l.fresh = loc[t].fresh, l.gsnap = loc[t].gsnap,
         l.started # NoInstance,
         l.written => l.interrupted \/ l.misreported
  PROVE  /\ pc' \in [Txn -> Pc] /\ loc' \in [Txn -> Locals]
         /\ TxnInv(t)' /\ \A u \in Txn \ {t} : Kept(u)
<1>1. step \in Pc
  BY DEF Pc, Locked, Rollback
<1>2. /\ pc' \in [Txn -> Pc] /\ loc' \in [Txn -> Locals]
      /\ pc'[t] = step /\ loc'[t] = l /\ \A u \in Txn \ {t} : Kept(u)
  BY <1>1, SetFacts
<1>3. op'[t] = op[t]
  OBVIOUS
<1>4. Flow(t)'
  BY <1>2, <1>3 DEF Flow, Early, Uncommitted, Rollback, Locked, Doctor
<1>5. Own(t)'
  BY <1>2, <1>3, NoDaemonFacts DEF TxnInv, Own, Spared, Ended, Rollback
<1>6. Fresh(t)'
  BY <1>2, <1>3 DEF TxnInv, Fresh, Rollback, Committed
<1>7. Verified(t)' /\ Said(t)'
  BY <1>2, <1>3 DEF Verified, Said, Checked, Committed, Rollback, Asking
<1> QED
  BY <1>2, <1>4, <1>5, <1>6, <1>7 DEF TxnInv

\* The handlers: a transaction that fails has rolled back nothing, or turns to it.
LEMMA FailFacts ==
  ASSUME TypeOK, NEW t \in Txn, TxnInv(t), NEW committed \in BOOLEAN,
         Fail(t, committed), UNCHANGED <<config, global, credential, op>>,
         daemon' \in DaemonState, Spared(t),
         op[t] # "doctor", pc[t] \notin Ended,
         committed <=> loc[t].written
  PROVE  /\ pc' \in [Txn -> Pc] /\ loc' \in [Txn -> Locals]
         /\ TxnInv(t)' /\ \A u \in Txn \ {t} : Kept(u)
<1>1. loc[t] \in Locals
  BY DEF TypeOK
<1>2. CASE loc[t].started # NoInstance /\ ~committed
  <2>1. "rollback_status" \in Rollback
    BY DEF Rollback
  <2> QED
    BY <1>1, <1>2, <2>1, RollbackFacts DEF Fail
<1>3. CASE ~(loc[t].started # NoInstance /\ ~committed)
  <2>1. End(t, "failed")
    BY <1>3 DEF Fail
  <2>2. op[t] = "setup" /\ daemon'.by = t /\ ~loc[t].written => daemon'.status = "mismatch"
    <3>1. SUFFICES ASSUME op[t] = "setup", daemon'.by = t, ~loc[t].written PROVE FALSE
      OBVIOUS
    <3>2. loc[t].started = NoInstance
      BY <1>3, <3>1
    <3>3. daemon'.id # NoInstance
      BY <3>1, DaemonFacts
    <3>4. daemon.by = t => daemon.id = loc[t].started
      BY <3>1 DEF TxnInv, Own
    <3> QED
      BY <3>1, <3>2, <3>3, <3>4, NoDaemonFacts DEF Spared
  <2>3. "failed" \in Ended \ {"ok", "manual", "not_ok"}
    BY DEF Ended
  <2> QED
    BY <2>1, <2>2, <2>3, EndFacts
<1> QED
  BY <1>2, <1>3

-----------------------------------------------------------------------------
(* The steps of a transaction                                                *)

Unlocked == \A u \in Txn : pc[u] \notin Locked

\* What a transaction's lookup changes.
LEMMA LookedFacts ==
  ASSUME TypeOK, NEW t \in Txn, NEW part \in Part
  PROVE  LET l == Looked(t, part) IN
         /\ l \in Locals
         /\ l.snap = loc[t].snap /\ l.gsnap = loc[t].gsnap /\ l.seen = loc[t].seen
         /\ l.started = loc[t].started /\ l.written = loc[t].written
         /\ l.interrupted = loc[t].interrupted /\ l.misreported = loc[t].misreported
         /\ l.hindered = loc[t].hindered /\ l.fresh = loc[t].fresh \cup {part}
<1>1. loc[t] \in Locals
  BY DEF TypeOK
<1> QED
  BY <1>1 DEF Looked, Locals

\* A step that leaves the daemon alone spares everybody's.
LEMMA UnchangedSpares ==
  ASSUME UNCHANGED daemon
  PROVE  \A u \in Txn : Spared(u)
BY DEF Spared

\* A status call, failed or not, at most promotes the daemon.
LEMMA StatusFacts ==
  ASSUME TypeOK, daemon' \in {daemon, Promoted(daemon)}
  PROVE  /\ daemon' \in DaemonState /\ daemon'.id = daemon.id /\ daemon'.by = daemon.by
         /\ daemon.status = "mismatch" => daemon'.status = "mismatch"
         /\ daemon.status = "running" => daemon' = daemon
         /\ \A u \in Txn : Spared(u)
<1>1. daemon \in DaemonState
  BY DEF TypeOK
<1>2. /\ daemon' \in DaemonState /\ daemon'.id = daemon.id /\ daemon'.by = daemon.by
      /\ daemon.status = "mismatch" => daemon'.status = "mismatch"
      /\ daemon.status = "running" => daemon' = daemon
  BY <1>1, PromotedFacts
<1> QED
  BY <1>2 DEF Spared

LEMMA StatusFailsFacts ==
  ASSUME NEW fault, StatusFails(fault)
  PROVE  daemon' \in {daemon, Promoted(daemon)}
BY DEF StatusFails

LEMMA HealthFacts ==
  ASSUME NEW d, NEW ok \in BOOLEAN, HealthCall(d, ok)
  PROVE  daemon' \in {daemon, Promoted(daemon)} /\ (ok => Healthy(d))
BY StatusFailsFacts DEF HealthCall

\* A transaction looks at the daemon and goes on.
LEMMA LookOnFacts ==
  ASSUME TypeOK, NEW t \in Txn, NEW step \in Pc, Goto(t, step), Set(t, loc[t]),
         daemon' \in {daemon, Promoted(daemon)}, UNCHANGED <<config, global, credential, op>>
  PROVE  /\ daemon' \in DaemonState /\ daemon'.id = daemon.id /\ daemon'.by = daemon.by
         /\ daemon.status = "running" => daemon' = daemon
         /\ pc' \in [Txn -> Pc] /\ loc' \in [Txn -> Locals]
         /\ pc'[t] = step /\ loc'[t] = loc[t]
         /\ \A u \in Txn \ {t} : Kept(u)
         /\ \A u \in Txn : Spared(u)
<1>1. loc[t] \in Locals
  BY DEF TypeOK
<1> QED
  BY <1>1, StatusFacts, SetFacts

LEMMA BeginGood ==
  ASSUME TypeOK, NEW t \in Txn, TxnInv(t), Begin(t), UNCHANGED op
  PROVE  Good(t)
<1>1. pc[t] = "begin" /\ op[t] # "doctor" /\ UNCHANGED <<daemon, config, global, credential>>
  BY DEF Begin, world
<1>2. daemon' \in DaemonState /\ \A u \in Txn : Spared(u)
  BY <1>1, UnchangedSpares DEF TypeOK
<1>3. ~loc[t].written /\ pc[t] \notin Ended
  BY <1>1 DEF TxnInv, Flow, Uncommitted, Early, Ended
<1>4. CASE Fail(t, FALSE)
  BY <1>1, <1>2, <1>3, <1>4, FailFacts DEF Good
<1>5. CASE Goto(t, "read_project") /\ UNCHANGED loc
  <2>1. "read_project" \in Pc
    BY DEF Pc, Locked
  <2>2. /\ pc' \in [Txn -> Pc] /\ loc' \in [Txn -> Locals]
        /\ pc'[t] = "read_project" /\ loc'[t] = loc[t]
        /\ \A u \in Txn \ {t} : Kept(u)
    BY <1>1, <1>5, <2>1, GotoFacts DEF world
  <2>3. Flow(t)' /\ Own(t)'
    BY <1>1, <2>2 DEF TxnInv, Flow, Own, Early, Uncommitted, Rollback, Locked, Doctor, Ended
  <2>4. Fresh(t)' /\ Verified(t)' /\ Said(t)'
    BY <1>1, <2>2 DEF TxnInv, Fresh, Verified, Said, Checked, Committed, Rollback, Asking
  <2> QED
    BY <1>2, <2>2, <2>3, <2>4 DEF Good, TxnInv
<1> QED
  BY <1>4, <1>5 DEF Begin

LEMMA ReadProjectConfigGood ==
  ASSUME TypeOK, NEW t \in Txn, TxnInv(t), ReadProjectConfig(t), UNCHANGED op
  PROVE  Good(t)
<1>1. pc[t] = "read_project" /\ UNCHANGED <<daemon, config, global, credential>>
  BY DEF ReadProjectConfig, world
<1>2. daemon' \in DaemonState /\ \A u \in Txn : Spared(u)
  BY <1>1, UnchangedSpares DEF TypeOK
<1>3. ~loc[t].written /\ pc[t] \notin Ended /\ op[t] # "doctor"
  BY <1>1 DEF TxnInv, Flow, Uncommitted, Early, Ended, Locked
<1>4. CASE Fail(t, FALSE)
  BY <1>1, <1>2, <1>3, <1>4, FailFacts DEF Good
<1>5. CASE /\ Set(t, [Looked(t, "project") EXCEPT !.snap = config])
           /\ Goto(t, "read_global")
  <2> DEFINE l == [Looked(t, "project") EXCEPT !.snap = config]
  <2>1. /\ l \in Locals /\ l.gsnap = loc[t].gsnap /\ l.seen = loc[t].seen
        /\ l.started = loc[t].started /\ l.written = loc[t].written
        /\ l.fresh = loc[t].fresh \cup {"project"} /\ l.snap = config
    BY LookedFacts DEF Part, TypeOK, Locals
  <2>2. Set(t, l)
    BY <1>5
  <2> HIDE DEF l
  <2>3. "read_global" \in Pc
    BY DEF Pc, Locked
  <2>4. /\ pc' \in [Txn -> Pc] /\ loc' \in [Txn -> Locals]
        /\ pc'[t] = "read_global" /\ loc'[t] = l
        /\ \A u \in Txn \ {t} : Kept(u)
    BY <1>1, <1>5, <2>1, <2>2, <2>3, SetFacts
  <2>5. Flow(t)' /\ Own(t)'
    BY <1>1, <2>1, <2>4 DEF TxnInv, Flow, Own, Early, Uncommitted, Rollback, Locked, Doctor, Ended
  <2>6. Fresh(t)' /\ Verified(t)' /\ Said(t)'
    BY <1>1, <1>3, <2>1, <2>4
       DEF TxnInv, Fresh, Verified, Said, Checked, Committed, Rollback, Asking
  <2> QED
    BY <1>2, <2>4, <2>5, <2>6 DEF Good, TxnInv
<1> QED
  BY <1>4, <1>5 DEF ReadProjectConfig

LEMMA ReadGlobalConfigGood ==
  ASSUME TypeOK, NEW t \in Txn, TxnInv(t), ReadGlobalConfig(t), UNCHANGED op
  PROVE  Good(t)
<1>1. pc[t] = "read_global" /\ UNCHANGED <<daemon, config, global, credential>>
  BY DEF ReadGlobalConfig, world
<1>2. daemon' \in DaemonState /\ \A u \in Txn : Spared(u)
  BY <1>1, UnchangedSpares DEF TypeOK
<1>3. ~loc[t].written /\ pc[t] \notin Ended /\ op[t] # "doctor"
  BY <1>1 DEF TxnInv, Flow, Uncommitted, Early, Ended, Locked
<1>4. CASE Fail(t, FALSE)
  BY <1>1, <1>2, <1>3, <1>4, FailFacts DEF Good
<1>5. CASE /\ Set(t, [Looked(t, "global") EXCEPT !.gsnap = global])
           /\ Goto(t, "status")
  <2> DEFINE l == [Looked(t, "global") EXCEPT !.gsnap = global]
  <2>1. /\ l \in Locals /\ l.gsnap = global /\ l.seen = loc[t].seen
        /\ l.started = loc[t].started /\ l.written = loc[t].written
        /\ l.fresh = loc[t].fresh \cup {"global"} /\ l.snap = loc[t].snap
    BY LookedFacts DEF Part, TypeOK, Locals
  <2>2. Set(t, l)
    BY <1>5
  <2> HIDE DEF l
  <2>3. "status" \in Pc
    BY DEF Pc, Locked
  <2>4. /\ pc' \in [Txn -> Pc] /\ loc' \in [Txn -> Locals]
        /\ pc'[t] = "status" /\ loc'[t] = l
        /\ \A u \in Txn \ {t} : Kept(u)
    BY <1>1, <1>5, <2>1, <2>2, <2>3, SetFacts
  <2>5. Flow(t)' /\ Own(t)'
    BY <1>1, <2>1, <2>4 DEF TxnInv, Flow, Own, Early, Uncommitted, Rollback, Locked, Doctor, Ended
  <2>6. Fresh(t)' /\ Verified(t)' /\ Said(t)'
    BY <1>1, <1>3, <2>1, <2>4
       DEF TxnInv, Fresh, Verified, Said, Checked, Committed, Rollback, Asking
  <2> QED
    BY <1>2, <2>4, <2>5, <2>6 DEF Good, TxnInv
<1> QED
  BY <1>4, <1>5 DEF ReadGlobalConfig

\* A transaction is told of a daemon that nobody has launched in this step.
LEMMA FindFacts ==
  ASSUME TypeOK, NEW t \in Txn, TxnInv(t), NEW next \in Pc, Find(t, next),
         UNCHANGED <<config, global, credential, op>>
  PROVE  LET l == [Looked(t, "daemon") EXCEPT !.seen = daemon'] IN
         /\ daemon' = Promoted(daemon) /\ daemon' \in DaemonState
         /\ daemon'.id = daemon.id /\ daemon'.by = daemon.by
         /\ \A u \in Txn : Spared(u)
         /\ pc' \in [Txn -> Pc] /\ loc' \in [Txn -> Locals]
         /\ pc'[t] = next /\ \A u \in Txn \ {t} : Kept(u)
         /\ loc'[t].gsnap = loc[t].gsnap /\ loc'[t].seen = daemon'
         /\ loc'[t].started = loc[t].started /\ loc'[t].written = loc[t].written
         /\ loc'[t].fresh = loc[t].fresh \cup {"daemon"} /\ loc'[t].snap = loc[t].snap
         /\ loc'[t].hindered = loc[t].hindered
<1> DEFINE l == [Looked(t, "daemon") EXCEPT !.seen = daemon']
<1>1. daemon' = Promoted(daemon) /\ Set(t, l) /\ Goto(t, next)
  BY DEF Find
<1>2. daemon \in DaemonState
  BY DEF TypeOK
<1>3. daemon' \in DaemonState /\ daemon'.id = daemon.id /\ daemon'.by = daemon.by
      /\ (daemon.status = "mismatch" => daemon'.status = "mismatch")
  BY <1>1, <1>2, PromotedFacts
<1>4. \A u \in Txn : Spared(u)
  BY <1>3 DEF Spared
<1>5. /\ l \in Locals /\ l.gsnap = loc[t].gsnap /\ l.seen = daemon'
      /\ l.started = loc[t].started /\ l.written = loc[t].written
      /\ l.fresh = loc[t].fresh \cup {"daemon"} /\ l.snap = loc[t].snap
      /\ l.hindered = loc[t].hindered
  BY <1>3, LookedFacts DEF Part, Locals
<1> HIDE DEF l
<1> QED
  BY <1>1, <1>3, <1>4, <1>5, SetFacts

LEMMA DaemonStatusGood ==
  ASSUME TypeOK, NEW t \in Txn, TxnInv(t), DaemonStatus(t), UNCHANGED op
  PROVE  Good(t)
<1>1. pc[t] = "status" /\ UNCHANGED <<config, global, credential>>
  BY DEF DaemonStatus
<1>3. ~loc[t].written /\ pc[t] \notin Ended /\ op[t] # "doctor"
  BY <1>1 DEF TxnInv, Flow, Uncommitted, Early, Ended, Locked
<1>4. CASE StatusFails("status_error") /\ Fail(t, FALSE)
  <2>1. daemon' \in DaemonState /\ \A u \in Txn : Spared(u)
    BY <1>4, StatusFacts, StatusFailsFacts
  <2> QED
    BY <1>1, <1>3, <1>4, <2>1, FailFacts DEF Good
<1>5. CASE Find(t, "prepare")
  <2>1. "prepare" \in Pc
    BY DEF Pc, Locked
  <2>4. /\ daemon' \in DaemonState /\ daemon'.id = daemon.id /\ daemon'.by = daemon.by
        /\ \A u \in Txn : Spared(u)
        /\ pc' \in [Txn -> Pc] /\ loc' \in [Txn -> Locals]
        /\ pc'[t] = "prepare" /\ \A u \in Txn \ {t} : Kept(u)
        /\ loc'[t].gsnap = loc[t].gsnap /\ loc'[t].seen = daemon'
        /\ loc'[t].started = loc[t].started /\ loc'[t].written = loc[t].written
        /\ loc'[t].fresh = loc[t].fresh \cup {"daemon"}
    BY <1>1, <1>5, <2>1, FindFacts
  <2>5. Flow(t)' /\ Own(t)'
    BY <1>1, <1>3, <2>4 DEF TxnInv, Flow, Own, Early, Uncommitted, Rollback, Locked, Doctor, Ended
  <2>6. Fresh(t)' /\ Verified(t)' /\ Said(t)'
    BY <1>1, <1>3, <2>4 DEF TxnInv, Fresh, Verified, Said, Checked, Committed, Rollback, Asking
  <2> QED
    BY <2>4, <2>5, <2>6 DEF Good, TxnInv
<1> QED
  BY <1>4, <1>5 DEF DaemonStatus

\* A new daemon of t has an identifier that nobody knows.
LEMMA LaunchedFacts ==
  ASSUME TypeOK, NEW t \in Txn, NEW i \in Instance, NEW url \in Url, FreshId(i),
         daemon' = Launched(i, url, TRUE, t)
  PROVE  /\ daemon' \in DaemonState /\ daemon'.id = i /\ daemon'.by = t
         /\ daemon'.status = "running" /\ daemon'.current /\ daemon'.answers
         /\ daemon'.url = url
         /\ i # NoInstance /\ i # loc[t].started
         /\ \A u \in Txn \ {t} : Spared(u)
<1>1. /\ daemon' \in DaemonState /\ daemon'.id = i /\ daemon'.by = t
      /\ daemon'.status = "running" /\ daemon'.current /\ daemon'.answers
      /\ daemon'.url = url
  BY DEF Launched, DaemonState, Recorded
<1>2. i # NoInstance /\ \A u \in Txn : i # loc[u].started
  BY NoDaemonFacts DEF FreshId, Unseen
<1> QED
  BY <1>1, <1>2 DEF Spared

LEMMA StartDaemonGood ==
  ASSUME TypeOK, NEW t \in Txn, TxnInv(t), StartDaemon(t), UNCHANGED op
  PROVE  Good(t)
<1>1. /\ pc[t] = "prepare" /\ UNCHANGED <<config, global, credential>>
      /\ loc[t] \in Locals /\ daemon \in DaemonState
  BY DEF StartDaemon, TypeOK
<1>2. "health" \in Pc
  BY DEF Pc, Locked
<1>3. /\ ~loc[t].written /\ pc[t] \notin Ended /\ op[t] # "doctor"
      /\ loc[t].started = NoInstance
  BY <1>1 DEF TxnInv, Flow, Uncommitted, Early, Ended, Locked
<1>4. CASE UNCHANGED daemon /\ Fail(t, FALSE)
  <2>1. daemon' \in DaemonState /\ \A u \in Txn : Spared(u)
    BY <1>4, UnchangedSpares DEF TypeOK
  <2> QED
    BY <1>1, <1>3, <1>4, <2>1, FailFacts DEF Good
<1>5. CASE Promoted(daemon).status = "running" /\ Find(t, "health")
  <2>4. /\ daemon' = Promoted(daemon)
        /\ daemon' \in DaemonState /\ daemon'.id = daemon.id /\ daemon'.by = daemon.by
        /\ \A u \in Txn : Spared(u)
        /\ pc' \in [Txn -> Pc] /\ loc' \in [Txn -> Locals]
        /\ pc'[t] = "health" /\ \A u \in Txn \ {t} : Kept(u)
        /\ loc'[t].gsnap = loc[t].gsnap /\ loc'[t].seen = daemon'
        /\ loc'[t].started = loc[t].started /\ loc'[t].written = loc[t].written
        /\ loc'[t].fresh = loc[t].fresh \cup {"daemon"}
    BY <1>1, <1>5, <1>2, FindFacts
  <2>5. Flow(t)' /\ Own(t)'
    BY <1>1, <1>3, <2>4 DEF TxnInv, Flow, Own, Early, Uncommitted, Rollback, Locked, Doctor, Ended
  <2>6. Fresh(t)' /\ Verified(t)' /\ Said(t)'
    BY <1>1, <1>3, <1>5, <2>4
       DEF TxnInv, Fresh, Verified, Said, Checked, Committed, Rollback, Asking
  <2> QED
    BY <2>4, <2>5, <2>6 DEF Good, TxnInv
<1>6. ASSUME NEW i \in Instance, NEW url \in Url, FreshId(i),
             daemon' = Launched(i, url, TRUE, t),
             Set(t, [Looked(t, "daemon") EXCEPT !.seen = daemon', !.started = i]),
             Goto(t, "health")
      PROVE  Good(t)
  <2> DEFINE m == Looked(t, "daemon")
             l == [m EXCEPT !.seen = daemon', !.started = i]
  <2>1. /\ daemon' \in DaemonState /\ daemon'.id = i /\ daemon'.by = t
        /\ i # NoInstance /\ daemon'.status = "running" /\ \A u \in Txn \ {t} : Spared(u)
    BY <1>6, LaunchedFacts
  <2>2. /\ l \in Locals /\ l.gsnap = loc[t].gsnap /\ l.seen = daemon'
        /\ l.started = i /\ l.written = loc[t].written
        /\ l.fresh = loc[t].fresh \cup {"daemon"} /\ l.snap = loc[t].snap
    <3>1. /\ m \in Locals /\ m.gsnap = loc[t].gsnap /\ m.snap = loc[t].snap
          /\ m.started = loc[t].started /\ m.written = loc[t].written
          /\ m.fresh = loc[t].fresh \cup {"daemon"}
      BY LookedFacts DEF Part
    <3> HIDE DEF m
    <3> QED
      BY <2>1, <3>1 DEF Locals
  <2>3. Set(t, l)
    BY <1>6
  <2> HIDE DEF l, m
  <2>4. /\ pc' \in [Txn -> Pc] /\ loc' \in [Txn -> Locals]
        /\ pc'[t] = "health" /\ loc'[t] = l /\ \A u \in Txn \ {t} : Kept(u)
    BY <1>1, <1>2, <1>6, <2>2, <2>3, SetFacts
  <2>5. Flow(t)' /\ Own(t)'
    BY <1>1, <1>3, <2>1, <2>2, <2>4
       DEF TxnInv, Flow, Own, Early, Uncommitted, Rollback, Locked, Doctor, Ended
  <2>6. Fresh(t)' /\ Verified(t)' /\ Said(t)'
    BY <1>1, <1>3, <2>1, <2>2, <2>4
       DEF TxnInv, Fresh, Verified, Said, Checked, Committed, Rollback, Asking
  <2> QED
    BY <2>1, <2>4, <2>5, <2>6 DEF Good, TxnInv
<1>7. CASE daemon' = NoDaemon /\ Fail(t, FALSE)
  <2>1. daemon' \in DaemonState /\ \A u \in Txn : Spared(u)
    BY <1>7, NoDaemonFacts DEF Spared
  <2> QED
    BY <1>1, <1>3, <1>7, <2>1, FailFacts DEF Good
<1> QED
  BY <1>4, <1>5, <1>6, <1>7 DEF StartDaemon

LEMMA ReuseDaemonGood ==
  ASSUME TypeOK, NEW t \in Txn, TxnInv(t), ReuseDaemon(t), UNCHANGED op
  PROVE  Good(t)
<1>1. /\ pc[t] = "prepare" /\ Goto(t, "health") /\ loc[t].seen.status = "running"
      /\ UNCHANGED <<world, loc>> /\ UNCHANGED <<daemon, config, global, credential>>
  BY DEF ReuseDaemon, world
<1>2. daemon' \in DaemonState /\ \A u \in Txn : Spared(u)
  BY <1>1, UnchangedSpares DEF TypeOK
<1>3. "health" \in Pc
  BY DEF Pc, Locked
<1>4. op[t] # "doctor"
  BY <1>1 DEF TxnInv, Flow, Locked
<1>5. /\ pc' \in [Txn -> Pc] /\ loc' \in [Txn -> Locals]
      /\ pc'[t] = "health" /\ loc'[t] = loc[t] /\ \A u \in Txn \ {t} : Kept(u)
  BY <1>1, <1>3, GotoFacts
<1>6. Flow(t)' /\ Own(t)'
  BY <1>1, <1>5 DEF TxnInv, Flow, Own, Early, Uncommitted, Rollback, Locked, Doctor, Ended
<1>7. Fresh(t)' /\ Verified(t)' /\ Said(t)'
  BY <1>1, <1>4, <1>5
     DEF TxnInv, Fresh, Verified, Said, Checked, Committed, Rollback, Asking
<1> QED
  BY <1>2, <1>5, <1>6, <1>7 DEF Good, TxnInv

\* A failure before the commit that at most promotes the daemon.
LEMMA EarlyFailGood ==
  ASSUME TypeOK, NEW t \in Txn, TxnInv(t), Fail(t, FALSE),
         daemon' \in {daemon, Promoted(daemon)}, UNCHANGED <<config, global, credential, op>>,
         pc[t] \in Uncommitted, op[t] # "doctor"
  PROVE  Good(t)
<1>1. daemon' \in DaemonState /\ \A u \in Txn : Spared(u)
  BY StatusFacts
<1>2. ~loc[t].written /\ pc[t] \notin Ended
  BY DEF TxnInv, Flow, Uncommitted, Early, Ended
<1> QED
  BY <1>1, <1>2, FailFacts DEF Good

LEMMA RefuseDaemonGood ==
  ASSUME TypeOK, NEW t \in Txn, TxnInv(t), RefuseDaemon(t), UNCHANGED op
  PROVE  Good(t)
<1>1. pc[t] = "prepare" /\ UNCHANGED world /\ Fail(t, FALSE)
  BY DEF RefuseDaemon
<1>2. pc[t] \in Uncommitted /\ op[t] # "doctor"
  BY <1>1 DEF TxnInv, Flow, Locked, Uncommitted, Early
<1> QED
  BY <1>1, <1>2, EarlyFailGood DEF world

\* A restart puts a daemon of t in the place of whichever was there.
LEMMA RestartGood ==
  ASSUME TypeOK, NEW t \in Txn, TxnInv(t), NEW next \in {"health", "health_again"},
         Restart(t, next), pc[t] \in {"prepare", "restart"}, op[t] = "repair",
         UNCHANGED <<config, global, credential, op>>
  PROVE  Good(t)
<1>1. loc[t] \in Locals /\ daemon \in DaemonState
  BY DEF TypeOK
<1>2. next \in Pc
  BY DEF Pc, Locked
<1>3. ~loc[t].written /\ pc[t] \notin Ended /\ pc[t] \in Uncommitted
  BY DEF TxnInv, Flow, Uncommitted, Early, Ended
<1>4. CASE UNCHANGED daemon /\ Fail(t, FALSE)
  BY <1>3, <1>4, EarlyFailGood DEF world
<1>5. CASE daemon' = NoDaemon /\ Fail(t, FALSE)
  <2>1. daemon' \in DaemonState /\ \A u \in Txn : Spared(u)
    BY <1>5, NoDaemonFacts DEF Spared
  <2> QED
    BY <1>1, <1>3, <1>5, <2>1, FailFacts DEF Good
<1>6. ASSUME NEW i \in Instance, NEW url \in Url, FreshId(i),
             daemon' = Launched(i, url, TRUE, t),
             Set(t, [Looked(t, "daemon") EXCEPT !.seen = daemon', !.restarted = TRUE]),
             Goto(t, next)
      PROVE  Good(t)
  <2> DEFINE m == Looked(t, "daemon")
             l == [m EXCEPT !.seen = daemon', !.restarted = TRUE]
  <2>1. /\ daemon' \in DaemonState /\ daemon'.id = i /\ daemon'.by = t /\ daemon'.current
        /\ i # loc[t].started /\ daemon'.status = "running"
        /\ \A u \in Txn \ {t} : Spared(u)
    BY <1>6, LaunchedFacts
  <2>2. /\ l \in Locals /\ l.gsnap = loc[t].gsnap /\ l.seen = daemon'
        /\ l.started = loc[t].started /\ l.written = loc[t].written
        /\ l.fresh = loc[t].fresh \cup {"daemon"} /\ l.snap = loc[t].snap
    <3>1. /\ m \in Locals /\ m.gsnap = loc[t].gsnap /\ m.snap = loc[t].snap
          /\ m.started = loc[t].started /\ m.written = loc[t].written
          /\ m.fresh = loc[t].fresh \cup {"daemon"}
      BY LookedFacts DEF Part
    <3> HIDE DEF m
    <3> QED
      BY <2>1, <3>1 DEF Locals
  <2>3. Set(t, l)
    BY <1>6
  <2> HIDE DEF l, m
  <2>4. /\ pc' \in [Txn -> Pc] /\ loc' \in [Txn -> Locals]
        /\ pc'[t] = next /\ loc'[t] = l /\ \A u \in Txn \ {t} : Kept(u)
    BY <1>1, <1>2, <1>6, <2>2, <2>3, SetFacts
  <2>5. Flow(t)' /\ Own(t)'
    BY <1>1, <1>3, <2>1, <2>2, <2>4
       DEF TxnInv, Flow, Own, Early, Uncommitted, Rollback, Locked, Doctor, Ended
  <2>6. Fresh(t)' /\ Verified(t)' /\ Said(t)'
    BY <1>1, <1>3, <2>1, <2>2, <2>4
       DEF TxnInv, Fresh, Verified, Said, Checked, Committed, Rollback, Asking
  <2> QED
    BY <2>1, <2>4, <2>5, <2>6 DEF Good, TxnInv
<1> QED
  BY <1>4, <1>5, <1>6 DEF Restart

LEMMA RestartsGood ==
  ASSUME TypeOK, NEW t \in Txn, TxnInv(t), RestartStarting(t) \/ RestartUnhealthy(t),
         UNCHANGED op
  PROVE  Good(t)
<1>1. CASE RestartStarting(t)
  BY <1>1, RestartGood DEF RestartStarting
<1>2. CASE RestartUnhealthy(t)
  <2>1. op[t] = "repair"
    BY <1>2 DEF RestartUnhealthy, TxnInv, Flow
  <2> QED
    BY <1>2, <2>1, RestartGood DEF RestartUnhealthy
<1> QED
  BY <1>1, <1>2

\* A step to another place of the program, nothing else.
LEMMA MoveFacts ==
  ASSUME TypeOK, NEW t \in Txn, NEW step \in Pc, Goto(t, step), UNCHANGED <<world, loc, op>>
  PROVE  /\ daemon' \in DaemonState /\ UNCHANGED <<daemon, config, global, credential>>
         /\ pc' \in [Txn -> Pc] /\ loc' \in [Txn -> Locals]
         /\ pc'[t] = step /\ loc'[t] = loc[t]
         /\ \A u \in Txn \ {t} : Kept(u) /\ Spared(u)
<1>1. UNCHANGED <<daemon, config, global, credential>>
  BY DEF world
<1>2. daemon' \in DaemonState /\ \A u \in Txn : Spared(u)
  BY <1>1, UnchangedSpares DEF TypeOK
<1> QED
  BY <1>1, <1>2, GotoFacts

LEMMA CheckHealthGood ==
  ASSUME TypeOK, NEW t \in Txn, TxnInv(t), CheckHealth(t), UNCHANGED op
  PROVE  Good(t)
<1>1. /\ pc[t] = "health" /\ UNCHANGED <<config, global, credential>>
      /\ loc[t].seen.status = "running"
  BY DEF CheckHealth, TxnInv, Verified, Asking
<1>2. pc[t] \in Uncommitted /\ op[t] # "doctor"
  BY <1>1 DEF TxnInv, Flow, Locked, Uncommitted, Early
<1>3. PICK ok \in BOOLEAN :
        /\ HealthCall(loc[t].seen, ok)
        /\ \/ ok /\ loc[t].seen.current /\ Goto(t, "check_global") /\ Set(t, loc[t])
           \/ op[t] = "repair" /\ Goto(t, "restart") /\ Set(t, loc[t])
           \/ Fail(t, FALSE)
  BY DEF CheckHealth
<1>4. daemon' \in {daemon, Promoted(daemon)} /\ (ok => Healthy(loc[t].seen))
  BY <1>3, HealthFacts
<1>5. CASE Fail(t, FALSE)
  BY <1>1, <1>2, <1>4, <1>5, EarlyFailGood
<1>6. ASSUME NEW step \in {"check_global", "restart"}, Goto(t, step), Set(t, loc[t]),
             step = "check_global" => Healthy(loc[t].seen) /\ loc[t].seen.current,
             step = "restart" => op[t] = "repair"
      PROVE  Good(t)
  <2>1. step \in Pc
    BY DEF Pc, Locked
  <2>2. /\ daemon' \in DaemonState /\ daemon'.id = daemon.id /\ daemon'.by = daemon.by
        /\ daemon.status = "running" => daemon' = daemon
        /\ pc' \in [Txn -> Pc] /\ loc' \in [Txn -> Locals]
        /\ pc'[t] = step /\ loc'[t] = loc[t]
        /\ \A u \in Txn \ {t} : Kept(u)
        /\ \A u \in Txn : Spared(u)
    BY <1>1, <1>4, <1>6, <2>1, LookOnFacts
  <2>3. Flow(t)' /\ Own(t)'
    BY <1>1, <1>2, <1>6, <2>2
       DEF TxnInv, Flow, Own, Early, Uncommitted, Rollback, Locked, Doctor, Ended
  <2>4. Fresh(t)' /\ Said(t)'
    BY <1>1, <1>2, <1>6, <2>2 DEF TxnInv, Fresh, Said, Committed, Rollback
  <2>5. "daemon" \in loc[t].fresh => daemon = loc[t].seen
    BY <1>1 DEF TxnInv, Fresh, Rollback
  <2>6. Verified(t)'
    BY <1>1, <1>2, <1>6, <2>2, <2>5 DEF Verified, Healthy, Checked, Committed, Asking
  <2> QED
    BY <2>2, <2>3, <2>4, <2>6 DEF Good, TxnInv
<1> QED
  BY <1>3, <1>4, <1>5, <1>6

LEMMA CheckHealthAgainGood ==
  ASSUME TypeOK, NEW t \in Txn, TxnInv(t), CheckHealthAgain(t), UNCHANGED op
  PROVE  Good(t)
<1>1. /\ pc[t] = "health_again" /\ UNCHANGED <<config, global, credential>>
      /\ loc[t].seen.status = "running"
  BY DEF CheckHealthAgain, TxnInv, Verified, Asking
<1>2. pc[t] \in Uncommitted /\ op[t] # "doctor" /\ loc[t].seen.current
  BY <1>1 DEF TxnInv, Flow, Verified, Locked, Uncommitted, Early
<1>3. CASE HealthCall(loc[t].seen, FALSE) /\ Fail(t, FALSE)
  <2>1. daemon' \in {daemon, Promoted(daemon)}
    BY <1>3, HealthFacts
  <2> QED
    BY <1>1, <1>2, <1>3, <2>1, EarlyFailGood
<1>4. CASE /\ HealthCall(loc[t].seen, TRUE)
           /\ Goto(t, "check_global") /\ Set(t, loc[t])
  <2>1. "check_global" \in Pc
    BY DEF Pc, Locked
  <2>2. daemon' \in {daemon, Promoted(daemon)} /\ Healthy(loc[t].seen)
    BY <1>4, HealthFacts
  <2>3. /\ daemon' \in DaemonState /\ daemon'.id = daemon.id /\ daemon'.by = daemon.by
        /\ daemon.status = "running" => daemon' = daemon
        /\ pc' \in [Txn -> Pc] /\ loc' \in [Txn -> Locals]
        /\ pc'[t] = "check_global" /\ loc'[t] = loc[t]
        /\ \A u \in Txn \ {t} : Kept(u)
        /\ \A u \in Txn : Spared(u)
    BY <1>1, <1>4, <2>1, <2>2, LookOnFacts
  <2>4. Flow(t)' /\ Own(t)'
    BY <1>1, <1>2, <2>3
       DEF TxnInv, Flow, Own, Early, Uncommitted, Rollback, Locked, Doctor, Ended
  <2>5. Fresh(t)' /\ Said(t)'
    BY <1>1, <1>2, <2>3 DEF TxnInv, Fresh, Said, Committed, Rollback
  <2>6. "daemon" \in loc[t].fresh => daemon = loc[t].seen
    BY <1>1 DEF TxnInv, Fresh, Rollback
  <2>7. Verified(t)'
    BY <1>1, <1>2, <2>2, <2>3, <2>6 DEF Verified, Healthy, Checked, Committed, Asking
  <2> QED
    BY <2>3, <2>4, <2>5, <2>7 DEF Good, TxnInv
<1> QED
  BY <1>3, <1>4 DEF CheckHealthAgain

LEMMA CheckGlobalCurrentGood ==
  ASSUME TypeOK, NEW t \in Txn, TxnInv(t), CheckGlobalCurrent(t), UNCHANGED op
  PROVE  Good(t)
<1>1. pc[t] = "check_global" /\ UNCHANGED world
  BY DEF CheckGlobalCurrent
<1>2. pc[t] \in Uncommitted /\ op[t] # "doctor"
  BY <1>1 DEF TxnInv, Flow, Locked, Uncommitted, Early
<1>3. CASE Fail(t, FALSE)
  BY <1>1, <1>2, <1>3, EarlyFailGood DEF world
<1>4. CASE Goto(t, "commit") /\ UNCHANGED loc
  <2>1. "commit" \in Pc
    BY DEF Pc, Locked
  <2>2. /\ daemon' \in DaemonState /\ UNCHANGED <<daemon, config, global, credential>>
        /\ pc' \in [Txn -> Pc] /\ loc' \in [Txn -> Locals]
        /\ pc'[t] = "commit" /\ loc'[t] = loc[t]
        /\ \A u \in Txn \ {t} : Kept(u) /\ Spared(u)
    BY <1>1, <1>4, <2>1, MoveFacts
  <2>3. Flow(t)' /\ Own(t)'
    BY <1>1, <1>2, <2>2 DEF TxnInv, Flow, Own, Early, Uncommitted, Rollback, Locked, Doctor, Ended
  <2>4. Fresh(t)' /\ Said(t)' /\ Verified(t)'
    BY <1>1, <1>2, <2>2 DEF TxnInv, Fresh, Said, Verified, Checked, Committed, Rollback, Asking
  <2> QED
    BY <2>2, <2>3, <2>4 DEF Good, TxnInv
<1> QED
  BY <1>3, <1>4 DEF CheckGlobalCurrent

LEMMA CommitProjectConfigGood ==
  ASSUME TypeOK, NEW t \in Txn, TxnInv(t), CommitProjectConfig(t), UNCHANGED op
  PROVE  Good(t)
<1>1. pc[t] = "commit" /\ UNCHANGED <<daemon, global, credential>>
  BY DEF CommitProjectConfig
<1>2. pc[t] \in Uncommitted /\ op[t] # "doctor"
  BY <1>1 DEF TxnInv, Flow, Locked, Uncommitted, Early
<1>3. daemon' \in DaemonState /\ \A u \in Txn : Spared(u)
  BY <1>1, UnchangedSpares DEF TypeOK
<1>4. CASE UNCHANGED config /\ Fail(t, FALSE)
  BY <1>1, <1>2, <1>4, EarlyFailGood DEF world
<1>5. CASE /\ config' = loc[t].seen.url
           /\ Set(t, [Looked(t, "project") EXCEPT !.written = TRUE])
           /\ Goto(t, "postcommit")
  <2> DEFINE m == Looked(t, "project")
             l == [m EXCEPT !.written = TRUE]
  <2>1. /\ l \in Locals /\ l.gsnap = loc[t].gsnap /\ l.seen = loc[t].seen
        /\ l.started = loc[t].started /\ l.written = TRUE
        /\ l.fresh = loc[t].fresh \cup {"project"}
    <3>1. /\ m \in Locals /\ m.gsnap = loc[t].gsnap /\ m.seen = loc[t].seen
          /\ m.started = loc[t].started /\ m.fresh = loc[t].fresh \cup {"project"}
      BY LookedFacts DEF Part
    <3> HIDE DEF m
    <3> QED
      BY <3>1 DEF Locals
  <2>2. Set(t, l)
    BY <1>5
  <2> HIDE DEF l, m
  <2>3. "postcommit" \in Pc
    BY DEF Pc, Locked
  <2>4. /\ pc' \in [Txn -> Pc] /\ loc' \in [Txn -> Locals]
        /\ pc'[t] = "postcommit" /\ loc'[t] = l /\ \A u \in Txn \ {t} : Kept(u)
    BY <1>1, <1>5, <2>1, <2>2, <2>3, SetFacts
  <2>5. Flow(t)' /\ Own(t)'
    BY <1>1, <1>2, <2>1, <2>4
       DEF TxnInv, Flow, Own, Early, Uncommitted, Rollback, Locked, Doctor, Ended
  <2>6. Fresh(t)'
    BY <1>1, <1>2, <1>5, <2>1, <2>4 DEF TxnInv, Fresh, Rollback
  <2>7. Verified(t)' /\ Said(t)'
    BY <1>1, <1>2, <2>1, <2>4 DEF TxnInv, Verified, Said, Checked, Committed, Asking
  <2> QED
    BY <1>3, <2>4, <2>5, <2>6, <2>7 DEF Good, TxnInv
<1>6. CASE /\ loc[t].started # NoInstance
           /\ Goto(t, "rollback_status")
           /\ Set(t, [loc[t] EXCEPT !.written = TRUE, !.misreported = TRUE])
  <2> DEFINE l == [loc[t] EXCEPT !.written = TRUE, !.misreported = TRUE]
  <2>1. /\ l \in Locals /\ l.started = loc[t].started /\ l.fresh = loc[t].fresh
        /\ l.gsnap = loc[t].gsnap /\ l.misreported
    BY DEF TypeOK, Locals
  <2>2. Set(t, l)
    BY <1>6
  <2> HIDE DEF l
  <2>3. "rollback_status" \in Rollback /\ pc[t] \notin Ended
    BY <1>1 DEF Rollback, Ended
  <2> QED
    BY <1>1, <1>2, <1>3, <1>6, <2>1, <2>2, <2>3, RollbackFacts DEF Good
<1>7. CASE Goto(t, "failed") /\ Set(t, [NoLocals EXCEPT !.written = TRUE])
  <2> DEFINE l == [NoLocals EXCEPT !.written = TRUE]
  <2>1. l \in Locals /\ l.started = NoInstance /\ l.written = TRUE /\ l.fresh = {}
    BY NoLocalsFacts
  <2>2. Set(t, l)
    BY <1>7
  <2> HIDE DEF l
  <2>3. "failed" \in Pc
    BY DEF Pc, Ended
  <2>4. /\ pc' \in [Txn -> Pc] /\ loc' \in [Txn -> Locals]
        /\ pc'[t] = "failed" /\ loc'[t] = l /\ \A u \in Txn \ {t} : Kept(u)
    BY <1>1, <1>7, <2>1, <2>2, <2>3, SetFacts
  <2>5. Flow(t)' /\ Own(t)'
    BY <2>1, <2>4 DEF Flow, Own, Early, Uncommitted, Rollback, Locked, Doctor, Ended
  <2>6. Fresh(t)' /\ Verified(t)' /\ Said(t)'
    BY <2>1, <2>4 DEF Fresh, Verified, Said, Checked, Committed, Asking, Doctor
  <2> QED
    BY <1>3, <2>4, <2>5, <2>6 DEF Good, TxnInv
<1> QED
  BY <1>4, <1>5, <1>6, <1>7 DEF CommitProjectConfig

\* A failure after the commit.
LEMMA LateFailGood ==
  ASSUME TypeOK, NEW t \in Txn, TxnInv(t), Fail(t, TRUE), UNCHANGED <<world, op>>,
         pc[t] \in {"postcommit", "token"}
  PROVE  Good(t)
<1>1. UNCHANGED <<daemon, config, global, credential>>
  BY DEF world
<1>2. daemon' \in DaemonState /\ \A u \in Txn : Spared(u)
  BY <1>1, UnchangedSpares DEF TypeOK
<1>3. loc[t].written /\ pc[t] \notin Ended /\ op[t] # "doctor"
  BY DEF TxnInv, Flow, Ended, Locked
<1>4. TRUE \in BOOLEAN
  OBVIOUS
<1> QED
  BY <1>1, <1>2, <1>3, <1>4, FailFacts DEF Good

LEMMA PostcommitGlobalGood ==
  ASSUME TypeOK, NEW t \in Txn, TxnInv(t), PostcommitGlobal(t), UNCHANGED op
  PROVE  Good(t)
<1>1. pc[t] = "postcommit" /\ UNCHANGED world /\ UNCHANGED <<daemon, config, global, credential>>
  BY DEF PostcommitGlobal, world
<1>2. op[t] # "doctor" /\ loc[t].written
  BY <1>1 DEF TxnInv, Flow, Locked
<1>3. daemon' \in DaemonState /\ \A u \in Txn : Spared(u)
  BY <1>1, UnchangedSpares DEF TypeOK
<1>4. CASE Fail(t, TRUE)
  BY <1>1, <1>4, LateFailGood
<1>5. CASE /\ global \in Clear
           /\ Set(t, [Looked(t, "global") EXCEPT !.gsnap = global])
           /\ Goto(t, "token")
  <2> DEFINE l == [Looked(t, "global") EXCEPT !.gsnap = global]
  <2>1. /\ l \in Locals /\ l.gsnap = global /\ l.seen = loc[t].seen
        /\ l.started = loc[t].started /\ l.written = loc[t].written
        /\ l.fresh = loc[t].fresh \cup {"global"}
    BY LookedFacts DEF Part, TypeOK, Locals
  <2>2. Set(t, l)
    BY <1>5
  <2> HIDE DEF l
  <2>3. "token" \in Pc
    BY DEF Pc, Locked
  <2>4. /\ pc' \in [Txn -> Pc] /\ loc' \in [Txn -> Locals]
        /\ pc'[t] = "token" /\ loc'[t] = l /\ \A u \in Txn \ {t} : Kept(u)
    BY <1>1, <1>5, <2>1, <2>2, <2>3, SetFacts
  <2>5. Flow(t)' /\ Own(t)'
    BY <1>1, <1>2, <2>1, <2>4
       DEF TxnInv, Flow, Own, Early, Uncommitted, Rollback, Locked, Doctor, Ended
  <2>6. Fresh(t)'
    BY <1>1, <1>2, <2>1, <2>4 DEF TxnInv, Fresh, Rollback, Committed
  <2>7. Verified(t)' /\ Said(t)'
    BY <1>1, <1>2, <1>5, <2>1, <2>4 DEF TxnInv, Verified, Said, Checked, Committed, Asking
  <2> QED
    BY <1>3, <2>4, <2>5, <2>6, <2>7 DEF Good, TxnInv
<1> QED
  BY <1>4, <1>5 DEF PostcommitGlobal

LEMMA ConfigureTokenGood ==
  ASSUME TypeOK, NEW t \in Txn, TxnInv(t), ConfigureToken(t), UNCHANGED op
  PROVE  Good(t)
<1>1. pc[t] = "token" /\ UNCHANGED world
  BY DEF ConfigureToken
<1>2. op[t] # "doctor" /\ loc[t].written
  BY <1>1 DEF TxnInv, Flow, Locked
<1>3. CASE Fail(t, TRUE)
  BY <1>1, <1>3, LateFailGood
<1>4. ASSUME NEW step \in {"ok", "manual"}, Goto(t, step), UNCHANGED loc,
             step = "ok" => loc[t].gsnap = "trusted"
      PROVE  Good(t)
  <2>1. step \in Pc
    BY DEF Pc, Ended
  <2>2. /\ daemon' \in DaemonState /\ UNCHANGED <<daemon, config, global, credential>>
        /\ pc' \in [Txn -> Pc] /\ loc' \in [Txn -> Locals]
        /\ pc'[t] = step /\ loc'[t] = loc[t]
        /\ \A u \in Txn \ {t} : Kept(u) /\ Spared(u)
    BY <1>1, <1>4, <2>1, MoveFacts
  <2>3. Flow(t)' /\ Own(t)'
    BY <1>1, <1>2, <2>2 DEF TxnInv, Flow, Own, Early, Uncommitted, Rollback, Locked, Doctor, Ended
  <2>4. Fresh(t)' /\ Said(t)' /\ Verified(t)'
    BY <1>1, <1>2, <1>4, <2>2 DEF TxnInv, Fresh, Said, Verified, Checked, Committed, Rollback, Asking
  <2> QED
    BY <2>2, <2>3, <2>4 DEF Good, TxnInv
<1> QED
  BY <1>3, <1>4 DEF ConfigureToken

LEMMA RollbackStatusGood ==
  ASSUME TypeOK, NEW t \in Txn, TxnInv(t), RollbackStatus(t), UNCHANGED op
  PROVE  Good(t)
<1>1. /\ pc[t] = "rollback_status" /\ UNCHANGED <<config, global, credential>>
      /\ loc[t] \in Locals
  BY DEF RollbackStatus, TypeOK
<1>2. /\ op[t] # "doctor" /\ pc[t] \notin Ended
      /\ loc[t].started # NoInstance
      /\ loc[t].written => loc[t].interrupted \/ loc[t].misreported
  BY <1>1 DEF TxnInv, Flow, Locked, Rollback, Ended
<1>3. daemon' \in {daemon, Promoted(daemon)}
  BY StatusFailsFacts DEF RollbackStatus
<1>4. /\ daemon' \in DaemonState /\ daemon'.id = daemon.id /\ daemon'.by = daemon.by
      /\ daemon.status = "mismatch" => daemon'.status = "mismatch"
      /\ \A u \in Txn : Spared(u)
  BY <1>3, StatusFacts
<1>5. {"failed", "not_undone"} \subseteq Ended \ {"ok", "manual", "not_ok"}
  BY DEF Ended
<1>6. CASE Goto(t, "rollback_stop") /\ Set(t, loc[t])
  <2>1. "rollback_stop" \in Rollback
    BY DEF Rollback
  <2> QED
    BY <1>1, <1>2, <1>4, <1>6, <2>1, RollbackFacts DEF Good
<1>7. CASE /\ daemon.id # loc[t].started \/ daemon.status = "mismatch"
           /\ End(t, "failed")
  <2>1. op[t] = "setup" /\ daemon'.by = t => daemon'.status = "mismatch"
    BY <1>2, <1>4, <1>7 DEF TxnInv, Own
  <2> QED
    BY <1>1, <1>4, <1>5, <1>7, <2>1, EndFacts DEF Good
<1>8. CASE End(t, "not_undone")
  BY <1>1, <1>4, <1>5, <1>8, EndFacts DEF Good
<1> QED
  BY <1>6, <1>7, <1>8 DEF RollbackStatus

LEMMA RollbackStopGood ==
  ASSUME TypeOK, NEW t \in Txn, TxnInv(t), RollbackStop(t), UNCHANGED op
  PROVE  Good(t)
<1>1. /\ pc[t] = "rollback_stop" /\ UNCHANGED <<config, global, credential>>
      /\ loc[t] \in Locals /\ daemon \in DaemonState
  BY DEF RollbackStop, TypeOK
<1>2. pc[t] \notin Ended
  BY <1>1 DEF Ended
<1>3. {"failed", "not_undone"} \subseteq Ended \ {"ok", "manual", "not_ok"}
  BY DEF Ended
<1>4. CASE daemon' = NoDaemon /\ End(t, "failed")
  <2>1. daemon' \in DaemonState /\ daemon'.by # t /\ \A u \in Txn : Spared(u)
    BY <1>4, NoDaemonFacts DEF Spared
  <2> QED
    BY <1>1, <1>3, <1>4, <2>1, EndFacts DEF Good
<1>5. CASE /\ daemon.id # loc[t].started \/ daemon.status = "mismatch"
           /\ UNCHANGED daemon /\ End(t, "failed")
  <2>1. daemon' \in DaemonState /\ \A u \in Txn : Spared(u)
    BY <1>1, <1>5, UnchangedSpares
  <2>2. op[t] = "setup" /\ daemon'.by = t => daemon'.status = "mismatch"
    BY <1>2, <1>5 DEF TxnInv, Own
  <2> QED
    BY <1>1, <1>3, <1>5, <2>1, <2>2, EndFacts DEF Good
<1>6. CASE UNCHANGED daemon /\ End(t, "not_undone")
  <2>1. daemon' \in DaemonState /\ \A u \in Txn : Spared(u)
    BY <1>1, <1>6, UnchangedSpares
  <2> QED
    BY <1>1, <1>3, <1>6, <2>1, EndFacts DEF Good
<1> QED
  BY <1>4, <1>5, <1>6 DEF RollbackStop

\* Both lookups of a doctor at a file, and their failures.
LEMMA DoctorFilesGood ==
  ASSUME TypeOK, NEW t \in Txn, TxnInv(t), DoctorProject(t) \/ DoctorGlobal(t), UNCHANGED op
  PROVE  Good(t)
<1>1. UNCHANGED <<daemon, config, global, credential>>
  BY DEF DoctorProject, DoctorGlobal, world
<1>2. /\ daemon' \in DaemonState /\ \A u \in Txn : Spared(u)
      /\ loc[t] \in Locals /\ config \in Config /\ global \in Global
  BY <1>1, UnchangedSpares DEF TypeOK
<1>3. op[t] = "doctor" /\ pc[t] \in {"begin", "doctor_global"}
  BY DEF DoctorProject, DoctorGlobal, TxnInv, Flow, Doctor
<1>4. "doctor_global" \in Pc /\ "doctor_status" \in Pc
  BY DEF Pc, Doctor
<1>5. ASSUME NEW part \in {"project", "global"}, NEW l \in Locals,
             NEW step \in {"doctor_global", "doctor_status"},
             l.seen = loc[t].seen, l.started = loc[t].started,
             \/ l.fresh = loc[t].fresh \cup {part} /\ l.hindered = loc[t].hindered
             \/ l.fresh = loc[t].fresh \ {part} /\ l.hindered,
             part = "project" => /\ step = "doctor_global" /\ pc[t] = "begin"
                                 /\ l.fresh \subseteq {"project"}
                                 /\ l.snap = config \/ part \notin l.fresh
                                 /\ l.hindered => loc[t].hindered \/ l.snap = "invalid",
             part = "project" => l.gsnap = loc[t].gsnap,
             part = "global" => /\ step = "doctor_status" /\ pc[t] = "doctor_global"
                                /\ l.gsnap = global \/ part \notin l.fresh
                                /\ l.hindered => loc[t].hindered \/ l.gsnap = "blocking",
             part = "global" => l.snap = loc[t].snap,
             Set(t, l), Goto(t, step)
      PROVE  Good(t)
  <2>1. /\ pc' \in [Txn -> Pc] /\ loc' \in [Txn -> Locals]
        /\ pc'[t] = step /\ loc'[t] = l /\ \A u \in Txn \ {t} : Kept(u)
    BY <1>1, <1>4, <1>5, SetFacts
  <2>2. Flow(t)' /\ Own(t)'
    BY <1>1, <1>3, <1>5, <2>1
       DEF TxnInv, Flow, Own, Early, Uncommitted, Rollback, Locked, Doctor, Ended
  <2>3. Fresh(t)'
    BY <1>1, <1>3, <1>5, <2>1 DEF TxnInv, Fresh, Rollback
  <2>4. Verified(t)' /\ Said(t)'
    BY <1>1, <1>3, <1>5, <2>1 DEF TxnInv, Verified, Said, Asking, Doctor
  <2> QED
    BY <1>2, <2>1, <2>2, <2>3, <2>4 DEF Good, TxnInv
<1>6. CASE DoctorProject(t)
  <2>1. pc[t] = "begin" /\ Goto(t, "doctor_global")
    BY <1>6 DEF DoctorProject
  <2>2. CASE Set(t, [Looked(t, "project") EXCEPT !.snap = config])
    <3> DEFINE l == [Looked(t, "project") EXCEPT !.snap = config]
    <3>1. /\ l \in Locals /\ l.gsnap = loc[t].gsnap /\ l.seen = loc[t].seen
          /\ l.started = loc[t].started /\ l.snap = config /\ l.hindered = loc[t].hindered
          /\ l.fresh = loc[t].fresh \cup {"project"}
      BY <1>2, LookedFacts DEF Part, Locals
    <3>2. Set(t, l)
      BY <2>2
    <3> HIDE DEF l
    <3>3. l.fresh \subseteq {"project"}
      BY <2>1, <3>1 DEF TxnInv, Fresh
    <3> QED
      BY <1>5, <2>1, <3>1, <3>2, <3>3
  <2>3. CASE Set(t, [Hindered(t) EXCEPT !.snap = "invalid"])
    <3> DEFINE l == [Hindered(t) EXCEPT !.snap = "invalid"]
    <3>1. /\ l \in Locals /\ l.gsnap = loc[t].gsnap /\ l.seen = loc[t].seen
          /\ l.started = loc[t].started /\ l.snap = "invalid" /\ l.hindered
          /\ l.fresh = loc[t].fresh
      BY <1>2 DEF Hindered, Locals, Config
    <3>2. Set(t, l)
      BY <2>3
    <3> HIDE DEF l
    <3>3. l.fresh = loc[t].fresh \ {"project"} /\ l.fresh \subseteq {"project"}
      BY <2>1, <3>1 DEF TxnInv, Fresh
    <3> QED
      BY <1>5, <2>1, <3>1, <3>2, <3>3
  <2> QED
    BY <1>6, <2>2, <2>3 DEF DoctorProject
<1>7. CASE DoctorGlobal(t)
  <2>1. pc[t] = "doctor_global" /\ Goto(t, "doctor_status")
    BY <1>7 DEF DoctorGlobal
  <2>2. CASE Set(t, [Looked(t, "global") EXCEPT !.gsnap = global])
    <3> DEFINE l == [Looked(t, "global") EXCEPT !.gsnap = global]
    <3>1. /\ l \in Locals /\ l.snap = loc[t].snap /\ l.seen = loc[t].seen
          /\ l.started = loc[t].started /\ l.gsnap = global /\ l.hindered = loc[t].hindered
          /\ l.fresh = loc[t].fresh \cup {"global"}
      BY <1>2, LookedFacts DEF Part, Locals
    <3>2. Set(t, l)
      BY <2>2
    <3> HIDE DEF l
    <3> QED
      BY <1>5, <2>1, <3>1, <3>2
  <2>3. CASE Set(t, [Hindered(t) EXCEPT !.gsnap = "blocking"])
    <3> DEFINE l == [Hindered(t) EXCEPT !.gsnap = "blocking"]
    <3>1. /\ l \in Locals /\ l.snap = loc[t].snap /\ l.seen = loc[t].seen
          /\ l.started = loc[t].started /\ l.gsnap = "blocking" /\ l.hindered
          /\ l.fresh = loc[t].fresh
      BY <1>2 DEF Hindered, Locals, Global
    <3>2. Set(t, l)
      BY <2>3
    <3> HIDE DEF l
    <3>3. l.fresh = loc[t].fresh \ {"global"}
      BY <2>1, <3>1 DEF TxnInv, Fresh
    <3> QED
      BY <1>5, <2>1, <3>1, <3>2, <3>3
  <2> QED
    BY <1>7, <2>2, <2>3 DEF DoctorGlobal
<1> QED
  BY <1>6, <1>7

\* A doctor that could not ask the daemon is not ok.
LEMMA EndHinderedGood ==
  ASSUME TypeOK, NEW t \in Txn, TxnInv(t), op[t] = "doctor", EndHindered(t),
         daemon' \in {daemon, Promoted(daemon)}, UNCHANGED <<config, global, credential, op>>
  PROVE  Good(t)
<1> DEFINE l == [NoLocals EXCEPT !.hindered = TRUE]
<1>1. l \in Locals /\ l.started = NoInstance /\ l.fresh = {} /\ l.hindered
  BY NoLocalsFacts
<1>2. Goto(t, "not_ok") /\ Set(t, l) /\ "not_ok" \in Pc
  BY DEF EndHindered, Pc, Ended
<1> HIDE DEF l
<1>3. /\ pc' \in [Txn -> Pc] /\ loc' \in [Txn -> Locals]
      /\ pc'[t] = "not_ok" /\ loc'[t] = l /\ \A u \in Txn \ {t} : Kept(u)
  BY <1>1, <1>2, SetFacts
<1>4. daemon' \in DaemonState /\ \A u \in Txn : Spared(u)
  BY StatusFacts
<1>5. Flow(t)' /\ Own(t)'
  BY <1>1, <1>3 DEF Flow, Own, Early, Uncommitted, Rollback, Locked, Doctor
<1>6. Fresh(t)' /\ Verified(t)' /\ Said(t)'
  BY <1>1, <1>3 DEF Fresh, Verified, Said, Asking, Doctor
<1> QED
  BY <1>3, <1>4, <1>5, <1>6 DEF Good, TxnInv

LEMMA DoctorStatusGood ==
  ASSUME TypeOK, NEW t \in Txn, TxnInv(t), DoctorStatus(t), UNCHANGED op
  PROVE  Good(t)
<1>1. pc[t] = "doctor_status" /\ UNCHANGED <<config, global, credential>>
  BY DEF DoctorStatus
<1>2. op[t] = "doctor" /\ pc[t] \notin Ended
  BY <1>1 DEF TxnInv, Flow, Doctor, Ended
<1>3. CASE StatusFails("status_error") /\ EndHindered(t)
  BY <1>1, <1>2, <1>3, StatusFailsFacts, EndHinderedGood
<1>4. ASSUME NEW next \in {"doctor_health", "not_ok"}, Find(t, next),
             next = "doctor_health" <=> Promoted(daemon).status = "running"
      PROVE  Good(t)
  <2>1. next \in Pc
    BY DEF Pc, Doctor, Ended
  <2>2. /\ daemon' = Promoted(daemon) /\ daemon' \in DaemonState
        /\ daemon'.id = daemon.id /\ daemon'.by = daemon.by
        /\ \A u \in Txn : Spared(u)
        /\ pc' \in [Txn -> Pc] /\ loc' \in [Txn -> Locals]
        /\ pc'[t] = next /\ \A u \in Txn \ {t} : Kept(u)
        /\ loc'[t].gsnap = loc[t].gsnap /\ loc'[t].seen = daemon'
        /\ loc'[t].started = loc[t].started /\ loc'[t].snap = loc[t].snap
        /\ loc'[t].hindered = loc[t].hindered
        /\ loc'[t].fresh = loc[t].fresh \cup {"daemon"}
    BY <1>1, <1>4, <2>1, FindFacts
  <2>3. Flow(t)' /\ Own(t)'
    BY <1>1, <1>2, <2>2
       DEF TxnInv, Flow, Own, Early, Uncommitted, Rollback, Locked, Doctor, Ended
  <2>4. Fresh(t)' /\ Verified(t)'
    BY <1>1, <1>2, <1>4, <2>2 DEF TxnInv, Fresh, Verified, Rollback, Asking, Doctor
  <2>5. Said(t)'
    BY <1>4, <2>2 DEF Said, Connected
  <2> QED
    BY <2>2, <2>3, <2>4, <2>5 DEF Good, TxnInv
<1>5. CASE Find(t, IF Promoted(daemon).status = "running" THEN "doctor_health" ELSE "not_ok")
  BY <1>4, <1>5
<1> QED
  BY <1>3, <1>5 DEF DoctorStatus

LEMMA DoctorHealthGood ==
  ASSUME TypeOK, NEW t \in Txn, TxnInv(t), DoctorHealth(t), UNCHANGED op
  PROVE  Good(t)
<1> DEFINE good == /\ Healthy(loc[t].seen) /\ loc[t].seen.current
                   /\ loc[t].snap = loc[t].seen.url /\ loc[t].gsnap = "trusted" /\ credential
           step == IF good THEN "ok" ELSE "not_ok"
<1>1. /\ pc[t] = "doctor_health" /\ UNCHANGED <<config, global, credential>>
      /\ loc[t].seen.status = "running" /\ loc[t].seen \in DaemonState
  BY DEF DoctorHealth, TxnInv, Verified, Asking, TypeOK, Locals
<1>2. op[t] = "doctor"
  BY <1>1 DEF TxnInv, Flow, Doctor
<1>3. CASE /\ StatusFails("health_error") \/ StatusFails("token_error")
           /\ EndHindered(t)
  BY <1>1, <1>2, <1>3, StatusFailsFacts, EndHinderedGood
<1>4. CASE daemon' = Promoted(daemon) /\ Goto(t, step) /\ Set(t, loc[t])
  <2>1. step \in {"ok", "not_ok"} /\ (step = "ok" <=> good)
    OBVIOUS
  <2>2. loc[t].fresh = Part => daemon = loc[t].seen /\ (good <=> Connected)
    <3>1. SUFFICES ASSUME loc[t].fresh = Part PROVE daemon = loc[t].seen /\ (good <=> Connected)
      OBVIOUS
    <3>2. daemon = loc[t].seen /\ global = loc[t].gsnap /\ config = loc[t].snap
      BY <1>1, <1>2, <3>1 DEF TxnInv, Fresh, Part, Rollback
    <3> QED
      BY <3>2 DEF Connected, Healthy
  <2>3. good => ~loc[t].hindered
    <3>1. loc[t].seen.url \notin {"invalid"}
      BY <1>1, NoDaemonFacts, ConstantAssumption DEF DaemonState, Recorded
    <3> QED
      BY <1>1, <1>2, <3>1 DEF TxnInv, Verified, Doctor
  <2> HIDE DEF good, step
  <2>4. step \in Pc
    BY <2>1 DEF Pc, Ended
  <2>5. /\ daemon' \in DaemonState /\ daemon'.id = daemon.id /\ daemon'.by = daemon.by
        /\ daemon.status = "running" => daemon' = daemon
        /\ pc' \in [Txn -> Pc] /\ loc' \in [Txn -> Locals]
        /\ pc'[t] = step /\ loc'[t] = loc[t]
        /\ \A u \in Txn \ {t} : Kept(u)
        /\ \A u \in Txn : Spared(u)
    BY <1>1, <1>4, <2>4, LookOnFacts
  <2>6. Flow(t)' /\ Own(t)'
    BY <1>1, <1>2, <2>1, <2>5
       DEF TxnInv, Flow, Own, Early, Uncommitted, Rollback, Locked, Doctor, Ended
  <2>7. Fresh(t)' /\ Verified(t)'
    BY <1>1, <1>2, <2>1, <2>5 DEF TxnInv, Fresh, Verified, Rollback, Asking, Doctor
  <2>8. loc[t].fresh = Part => (Connected' <=> Connected)
    BY <1>1, <2>2, <2>5 DEF Connected
  <2>9. Said(t)'
    BY <2>1, <2>2, <2>3, <2>5, <2>8 DEF Said
  <2> QED
    BY <2>5, <2>6, <2>7, <2>9 DEF Good, TxnInv
<1> QED
  BY <1>3, <1>4 DEF DoctorHealth

LEMMA InterruptGood ==
  ASSUME TypeOK, NEW t \in Txn, TxnInv(t), Interrupt(t), UNCHANGED op
  PROVE  Good(t)
<1>1. pc[t] \in Locked /\ UNCHANGED <<daemon, config, global, credential>>
  BY DEF Interrupt, world
<1>2. daemon' \in DaemonState /\ \A u \in Txn : Spared(u)
  BY <1>1, UnchangedSpares DEF TypeOK
<1>3. op[t] # "doctor" /\ pc[t] \notin Ended
  BY <1>1 DEF TxnInv, Flow, Locked, Rollback, Ended
<1>4. {"failed", "not_undone"} \subseteq Ended \ {"ok", "manual", "not_ok"}
  BY DEF Ended
<1>5. loc[t] \in Locals /\ daemon \in DaemonState
  BY DEF TypeOK
<1>6. CASE End(t, "not_undone")
  BY <1>1, <1>2, <1>4, <1>6, EndFacts DEF Good
<1>7. CASE /\ loc[t].started = NoInstance \/ pc[t] = "token"
           /\ End(t, "failed")
  <2>1. pc[t] = "token" => loc[t].written
    BY DEF TxnInv, Flow
  <2>2. daemon.by = t => daemon.id # NoInstance
    BY <1>5, DaemonFacts
  <2>3. ~(op[t] = "setup" /\ daemon'.by = t /\ ~loc[t].written)
    BY <1>1, <1>3, <1>7, <2>1, <2>2 DEF TxnInv, Own
  <2> QED
    BY <1>1, <1>2, <1>4, <1>7, <2>3, EndFacts DEF Good
<1>8. CASE /\ loc[t].started # NoInstance
           /\ Goto(t, "rollback_status")
           /\ Set(t, [loc[t] EXCEPT !.interrupted = TRUE])
  <2> DEFINE l == [loc[t] EXCEPT !.interrupted = TRUE]
  <2>1. /\ l \in Locals /\ l.started = loc[t].started /\ l.fresh = loc[t].fresh
        /\ l.gsnap = loc[t].gsnap /\ l.interrupted
    BY <1>5 DEF Locals
  <2>2. Set(t, l)
    BY <1>8
  <2> HIDE DEF l
  <2>3. "rollback_status" \in Rollback
    BY DEF Rollback
  <2> QED
    BY <1>1, <1>2, <1>3, <1>8, <2>1, <2>2, <2>3, RollbackFacts DEF Good
<1> QED
  BY <1>6, <1>7, <1>8 DEF Interrupt

LEMMA KillGood ==
  ASSUME TypeOK, NEW t \in Txn, TxnInv(t), Kill(t), UNCHANGED op
  PROVE  Good(t)
<1>1. End(t, "killed") /\ UNCHANGED <<daemon, config, global, credential>>
  BY DEF Kill, world
<1>2. daemon' \in DaemonState /\ \A u \in Txn : Spared(u)
  BY <1>1, UnchangedSpares DEF TypeOK
<1>3. "killed" \in Ended \ {"ok", "manual", "not_ok"}
  BY DEF Ended
<1> QED
  BY <1>1, <1>2, <1>3, EndFacts DEF Good

\* Every step of a transaction.
LEMMA StepGood ==
  ASSUME TypeOK, NEW t \in Txn, TxnInv(t), TxnStep(t) \/ Interrupt(t) \/ Kill(t), UNCHANGED op
  PROVE  Good(t)
BY BeginGood, ReadProjectConfigGood, ReadGlobalConfigGood, DaemonStatusGood, StartDaemonGood,
   ReuseDaemonGood, RefuseDaemonGood, RestartsGood, CheckHealthGood, CheckHealthAgainGood,
   CheckGlobalCurrentGood, CommitProjectConfigGood, PostcommitGlobalGood, ConfigureTokenGood,
   RollbackStatusGood, RollbackStopGood, DoctorFilesGood, DoctorStatusGood, DoctorHealthGood,
   InterruptGood, KillGood DEF TxnStep

-----------------------------------------------------------------------------
(* The environment                                                           *)

\* An event that leaves the transactions where they are.
LEMMA EventFacts ==
  ASSUME TypeOK, NEW part \in Part, Event(part), UNCHANGED op,
         part = "daemon" \/ UNCHANGED daemon,
         part = "project" \/ UNCHANGED config,
         part = "global" \/ UNCHANGED global
  PROVE  /\ pc' \in [Txn -> Pc] /\ loc' \in [Txn -> Locals]
         /\ established' = FALSE /\ events' \in 0 .. MaxEvents /\ credential' = credential
         /\ pc' = pc /\ \A u \in Txn : Kept(u)
<1>1. /\ events < MaxEvents /\ events' = events + 1 /\ established' = FALSE
      /\ pc' = pc /\ credential' = credential
      /\ loc' = [t \in Txn |-> [loc[t] EXCEPT !.fresh = @ \ {part}]]
  BY DEF Event
<1>2. events' \in 0 .. MaxEvents
  BY <1>1, ConstantAssumption DEF TypeOK
<1>3. pc' \in [Txn -> Pc] /\ loc \in [Txn -> Locals]
  BY <1>1 DEF TypeOK
<1>4. ASSUME NEW u \in Txn
      PROVE  loc'[u] \in Locals /\ Kept(u)
  <2>1. loc'[u] = [loc[u] EXCEPT !.fresh = @ \ {part}]
    BY <1>1
  <2>2. loc[u] \in Locals
    BY <1>3
  <2>3. /\ loc'[u] \in Locals
        /\ loc'[u].snap = loc[u].snap /\ loc'[u].gsnap = loc[u].gsnap
        /\ loc'[u].seen = loc[u].seen /\ loc'[u].started = loc[u].started
        /\ loc'[u].written = loc[u].written /\ loc'[u].interrupted = loc[u].interrupted
        /\ loc'[u].misreported = loc[u].misreported /\ loc'[u].hindered = loc[u].hindered
        /\ loc'[u].fresh = loc[u].fresh \ {part}
    BY <2>1, <2>2 DEF Locals
  <2> QED
    BY <1>1, <2>3 DEF Kept, Part
<1>5. loc' \in [Txn -> Locals]
  <2>1. \A u \in Txn : loc'[u] \in Locals
    BY <1>4
  <2>2. loc' = [u \in Txn |-> loc'[u]]
    BY <1>1
  <2> QED
    BY <2>1, <2>2
<1> QED
  BY <1>1, <1>2, <1>3, <1>4, <1>5

\* The user and the daemon itself launch no daemon in a transaction's name.
LEMMA EnvironmentFacts ==
  ASSUME TypeOK, Environment, UNCHANGED op
  PROVE  /\ TypeOK' /\ established' = FALSE /\ pc' = pc
         /\ \A u \in Txn : Kept(u) /\ Spared(u)
<1>1. "daemon" \in Part /\ "project" \in Part /\ "global" \in Part
  BY DEF Part
<1>2. /\ daemon \in DaemonState /\ config \in Config /\ global \in Global
      /\ credential \in BOOLEAN /\ op \in Scenarios
  BY DEF TypeOK
<1>3. ASSUME NEW part \in Part, Event(part),
             part = "daemon" \/ UNCHANGED daemon,
             part = "project" \/ UNCHANGED config,
             part = "global" \/ UNCHANGED global,
             daemon' \in DaemonState, config' \in Config, global' \in Global,
             \A u \in Txn : Spared(u)
      PROVE  /\ TypeOK' /\ established' = FALSE /\ pc' = pc
             /\ \A u \in Txn : Kept(u) /\ Spared(u)
  <2>1. /\ pc' \in [Txn -> Pc] /\ loc' \in [Txn -> Locals]
        /\ established' = FALSE /\ events' \in 0 .. MaxEvents /\ credential' = credential
        /\ pc' = pc /\ \A u \in Txn : Kept(u)
    BY <1>3, EventFacts
  <2> QED
    BY <1>2, <1>3, <2>1 DEF TypeOK
<1>4. ASSUME Event("daemon"), UNCHANGED <<config, global>>, daemon' \in DaemonState,
             \A u \in Txn : Spared(u)
      PROVE  /\ TypeOK' /\ established' = FALSE /\ pc' = pc
             /\ \A u \in Txn : Kept(u) /\ Spared(u)
  BY <1>1, <1>2, <1>3, <1>4
<1>5. CASE UserStart \/ UserRestart
  <2>1. PICK i \in Instance :
          FreshId(i) /\ daemon' \in DaemonState /\ daemon'.by = User /\ daemon'.id = i
    <3>1. CASE UserStart
      <4>1. PICK i \in Instance, url \in Url, current \in BOOLEAN,
                 status \in {"starting", "running"} :
              /\ FreshId(i)
              /\ daemon' = [Launched(i, url, current, User) EXCEPT !.status = status]
        BY <3>1 DEF UserStart
      <4>2. daemon' \in DaemonState /\ daemon'.by = User /\ daemon'.id = i
        BY <4>1 DEF Launched, DaemonState, Recorded
      <4> QED
        BY <4>1, <4>2
    <3>2. CASE UserRestart
      <4>1. PICK i \in Instance : FreshId(i) /\ daemon' = Launched(i, daemon.url, TRUE, User)
        BY <3>2 DEF UserRestart
      <4>2. daemon \in Recorded
        BY <1>2, <3>2, NoDaemonFacts DEF UserRestart, DaemonState
      <4>3. daemon.url \in Url
        BY <4>2 DEF Recorded
      <4>4. daemon' \in DaemonState /\ daemon'.by = User /\ daemon'.id = i
        BY <4>1, <4>3 DEF Launched, DaemonState, Recorded
      <4> QED
        BY <4>1, <4>4
    <3> QED
      BY <1>5, <3>1, <3>2
  <2>3. \A u \in Txn : Spared(u)
    BY <2>1, NoDaemonFacts DEF Spared, FreshId, Unseen
  <2>4. Event("daemon") /\ UNCHANGED <<config, global>>
    BY <1>5 DEF UserStart, UserRestart
  <2> QED
    BY <1>4, <2>1, <2>3, <2>4
<1>6. CASE UserStop
  <2>1. daemon' \in DaemonState /\ \A u \in Txn : Spared(u)
    BY <1>6, NoDaemonFacts DEF UserStop, Spared
  <2> QED
    BY <1>4, <1>6, <2>1 DEF UserStop
<1>7. CASE DaemonHangs
  <2>1. daemon \in Recorded
    BY <1>2, <1>7, NoDaemonFacts DEF DaemonHangs, DaemonState
  <2>2. /\ daemon' \in DaemonState /\ daemon'.id = daemon.id /\ daemon'.by = daemon.by
        /\ daemon'.status = daemon.status
    BY <1>7, <2>1 DEF DaemonHangs, Recorded, DaemonState
  <2>3. \A u \in Txn : Spared(u)
    BY <2>2 DEF Spared
  <2> QED
    BY <1>4, <1>7, <2>2, <2>3 DEF DaemonHangs
<1>8. CASE DaemonDies
  <2>1. daemon \in Recorded
    BY <1>2, <1>8 DEF DaemonDies, DaemonState
  <2>2. CASE daemon' = NoDaemon
    <3>1. daemon' \in DaemonState /\ \A u \in Txn : Spared(u)
      BY <2>2, NoDaemonFacts DEF Spared
    <3> QED
      BY <1>4, <1>8, <3>1 DEF DaemonDies
  <2>3. CASE daemon' = [daemon EXCEPT !.status = "mismatch", !.answers = FALSE]
    <3>1. /\ daemon' \in DaemonState /\ daemon'.id = daemon.id /\ daemon'.by = daemon.by
          /\ daemon'.status = "mismatch"
      BY <2>1, <2>3 DEF Recorded, DaemonState
    <3>2. \A u \in Txn : Spared(u)
      BY <3>1 DEF Spared
    <3> QED
      BY <1>4, <1>8, <3>1, <3>2 DEF DaemonDies
  <2> QED
    BY <1>8, <2>2, <2>3 DEF DaemonDies
<1>9. CASE EditProject
  <2>1. daemon' \in DaemonState /\ \A u \in Txn : Spared(u)
    BY <1>2, <1>9, UnchangedSpares DEF EditProject
  <2> QED
    BY <1>1, <1>2, <1>3, <1>9, <2>1 DEF EditProject
<1>10. CASE EditGlobal
  <2>1. daemon' \in DaemonState /\ \A u \in Txn : Spared(u)
    BY <1>2, <1>10, UnchangedSpares DEF EditGlobal
  <2> QED
    BY <1>1, <1>2, <1>3, <1>10, <2>1 DEF EditGlobal
<1> QED
  BY <1>5, <1>6, <1>7, <1>8, <1>9, <1>10 DEF Environment

-----------------------------------------------------------------------------
(* The invariant and what follows from it                                    *)

LEMMA RestOfTypes ==
  ASSUME TypeOK, NEW t \in Txn, TxnStep(t) \/ Interrupt(t) \/ Kill(t), UNCHANGED op
  PROVE  /\ config' \in Config /\ global' \in Global /\ credential' \in BOOLEAN
         /\ op' \in Scenarios /\ established' \in BOOLEAN /\ events' \in 0 .. MaxEvents
<1>1. /\ config \in Config /\ global \in Global /\ credential \in BOOLEAN
      /\ op \in Scenarios /\ established \in BOOLEAN /\ events \in 0 .. MaxEvents
  BY DEF TypeOK
<1>2. loc[t].seen \in DaemonState
  BY DEF TypeOK, Locals
<1>3. loc[t].seen.url \in Config
  BY <1>2 DEF DaemonState, Recorded, NoDaemon, Config
<1>4. CASE CommitProjectConfig(t)
  BY <1>1, <1>3, <1>4 DEF CommitProjectConfig, bounds
<1>5. CASE ConfigureToken(t)
  BY <1>1, <1>5 DEF ConfigureToken, world
<1>6. CASE CheckHealth(t)
  BY <1>1, <1>6 DEF CheckHealth
<1>7. CASE ~CommitProjectConfig(t) /\ ~ConfigureToken(t) /\ ~CheckHealth(t)
  <2>1. UNCHANGED <<config, global, credential, established, events>>
    BY <1>7 DEF TxnStep, Interrupt, Kill, Begin, ReadProjectConfig, ReadGlobalConfig,
       DaemonStatus, StartDaemon, ReuseDaemon, RefuseDaemon, RestartStarting,
       RestartUnhealthy, CheckHealthAgain, CheckGlobalCurrent, PostcommitGlobal,
       RollbackStatus, RollbackStop, DoctorProject, DoctorGlobal, DoctorStatus, DoctorHealth,
       world, bounds
  <2> QED
    BY <1>1, <2>1
<1> QED
  BY <1>4, <1>5, <1>6, <1>7

\* The lock of the transactions.
Mutex == \A t, u \in Txn : pc[t] \in Locked /\ pc[u] \in Locked => t = u

SafeInv == TypeOK /\ Mutex /\ \A t \in Txn : TxnInv(t)

\* A transaction is inside only if it was, or if nobody was.
LEMMA LockStep ==
  ASSUME TypeOK, NEW t \in Txn, TxnInv(t), TxnStep(t) \/ Interrupt(t) \/ Kill(t), UNCHANGED op
  PROVE  pc[t] \in Locked \/ Unlocked \/ pc'[t] \notin Locked
<1>1. SUFFICES ASSUME pc[t] \notin Locked, ~Unlocked PROVE pc'[t] \notin Locked
  OBVIOUS
<1>2. pc \in [Txn -> Pc]
  BY DEF TypeOK
<1>3. \A step \in Pc : Goto(t, step) => pc'[t] = step
  BY <1>2 DEF Goto
<1>4. {"failed", "not_ok", "ok"} \cup Doctor \subseteq Pc \ Locked
  BY DEF Pc, Doctor, Ended, Locked, Rollback
<1>5. ~Interrupt(t) /\ ~Kill(t)
  BY <1>1 DEF Interrupt, Kill
<1>6. CASE Begin(t)
  <2>1. Fail(t, FALSE) /\ pc[t] = "begin"
    BY <1>1, <1>6 DEF Begin, HoldsLock, Unlocked
  <2>2. loc[t].started = NoInstance
    BY <2>1 DEF TxnInv, Flow, Early
  <2> QED
    BY <1>3, <1>4, <2>1, <2>2 DEF Fail, End
<1>7. CASE DoctorProject(t) \/ DoctorGlobal(t) \/ DoctorStatus(t) \/ DoctorHealth(t)
  <2>1. \E step \in {"not_ok", "ok"} \cup Doctor : Goto(t, step)
    BY <1>7 DEF DoctorProject, DoctorGlobal, DoctorStatus, DoctorHealth, Find, EndHindered, Doctor
  <2> QED
    BY <1>3, <1>4, <2>1
<1>8. CASE ~Begin(t) /\ ~(DoctorProject(t) \/ DoctorGlobal(t) \/ DoctorStatus(t) \/ DoctorHealth(t))
  <2>1. pc[t] \in Locked
    BY <1>5, <1>8 DEF TxnStep, ReadProjectConfig, ReadGlobalConfig,
       DaemonStatus, StartDaemon, ReuseDaemon, RefuseDaemon, RestartStarting, CheckHealth,
       RestartUnhealthy, CheckHealthAgain, CheckGlobalCurrent, CommitProjectConfig,
       PostcommitGlobal, ConfigureToken, RollbackStatus, RollbackStop, Locked, Rollback
  <2> QED
    BY <1>1, <2>1
<1> QED
  BY <1>6, <1>7, <1>8

LEMMA InitInv == Init => SafeInv
<1> SUFFICES ASSUME Init PROVE SafeInv
  OBVIOUS
<1>1. TypeOK
  <2>1. NoLocals \in Locals
    BY NoLocalsFacts
  <2>2. loc \in [Txn -> Locals]
    BY <2>1 DEF Init
  <2>3. pc \in [Txn -> Pc]
    BY DEF Init, Pc
  <2>4. events \in 0 .. MaxEvents
    BY ConstantAssumption DEF Init
  <2> QED
    BY <2>2, <2>3, <2>4, NoDaemonFacts DEF Init, TypeOK, Config, Global, Clear
<1>2. Mutex
  BY DEF Init, Mutex, Locked, Rollback
<1>3. ASSUME NEW t \in Txn PROVE TxnInv(t)
  <2>1. /\ loc[t].started = NoInstance /\ loc[t].written = FALSE /\ loc[t].fresh = {}
        /\ loc[t].hindered = FALSE /\ pc[t] = "begin" /\ daemon.by = User
    BY <1>3, NoDaemonFacts DEF Init, NoLocals
  <2>2. Flow(t) /\ Own(t)
    BY <2>1, NoDaemonFacts DEF Flow, Own, Early, Uncommitted, Rollback, Locked, Doctor
  <2>3. Fresh(t) /\ Verified(t) /\ Said(t)
    BY <2>1 DEF Fresh, Verified, Said, Checked, Committed, Asking
  <2> QED
    BY <2>2, <2>3 DEF TxnInv
<1> QED
  BY <1>1, <1>2, <1>3 DEF SafeInv

LEMMA NextInv == SafeInv /\ [Next]_vars => SafeInv'
<1> SUFFICES ASSUME SafeInv, [Next]_vars PROVE SafeInv'
  OBVIOUS
<1>1. TypeOK /\ Mutex /\ \A t \in Txn : TxnInv(t)
  BY DEF SafeInv
<1>2. CASE Environment /\ UNCHANGED op
  <2>1. TypeOK' /\ pc' = pc /\ \A u \in Txn : Kept(u) /\ Spared(u)
    BY <1>1, <1>2, EnvironmentFacts
  <2>2. \A u \in Txn : TxnInv(u)'
    BY <1>1, <2>1, OthersStep
  <2> QED
    BY <1>1, <2>1, <2>2 DEF SafeInv, Mutex
<1>3. ASSUME NEW t \in Txn, TxnStep(t) \/ Interrupt(t) \/ Kill(t), UNCHANGED op
      PROVE  SafeInv'
  <2>1. Good(t)
    BY <1>1, <1>3, StepGood
  <2>2. TypeOK'
    BY <1>1, <1>3, <2>1, RestOfTypes DEF TypeOK, Good
  <2>3. \A u \in Txn \ {t} : TxnInv(u)'
    BY <1>1, <2>1, OthersStep DEF Good
  <2>4. pc[t] \in Locked \/ Unlocked \/ pc'[t] \notin Locked
    BY <1>1, <1>3, LockStep
  <2>5. \A u \in Txn \ {t} : pc'[u] = pc[u]
    BY <2>1 DEF Good, Kept
  <2>6. Mutex'
    BY <1>1, <2>4, <2>5 DEF Mutex, Unlocked
  <2> QED
    BY <2>1, <2>2, <2>3, <2>6 DEF SafeInv, Good
<1>4. CASE UNCHANGED vars
  BY <1>1, <1>4 DEF SafeInv, TypeOK, Mutex, TxnInv, Flow, Own, Fresh, Verified, Said, Connected,
     vars, world, bounds
<1> QED
  BY <1>2, <1>3, <1>4 DEF Next

-----------------------------------------------------------------------------
(* What has been established stays                                           *)

Found == {"prepare", "health", "check_global", "commit", "postcommit", "token"}

\* A transaction that has nothing to start, restart or roll back.
Quiet(t) ==
  /\ pc[t] \in Locked => loc[t].started = NoInstance
  /\ pc[t] \notin {"restart", "health_again"} \cup Rollback
  /\ pc[t] \in Found => loc[t].seen = daemon

EstInv == established => Connected /\ \A t \in Txn : Quiet(t)

LEMMA ConnectedFacts ==
  ASSUME TypeOK, Connected
  PROVE  Promoted(daemon) = daemon /\ daemon.status = "running" /\ Healthy(daemon)
BY PromotedFacts DEF TypeOK, Connected, Healthy

LEMMA OutsideIsQuiet ==
  ASSUME NEW t \in Txn, pc[t] \notin Locked
  PROVE  Quiet(t)
BY DEF Quiet, Locked, Found, Rollback

LEMMA EndedIsOutside == Ended \cap Locked = {} /\ Doctor \cap Locked = {}
BY DEF Ended, Locked, Rollback, Doctor

LEMMA EndIsQuiet ==
  ASSUME TypeOK, NEW t \in Txn, NEW how \in Ended, Goto(t, how)
  PROVE  Quiet(t)'
<1>1. pc'[t] = how
  BY DEF Goto, TypeOK
<1>2. pc'[t] \notin Locked
  BY <1>1, EndedIsOutside
<1> QED
  BY <1>2 DEF Quiet, Locked, Found, Rollback

\* A quiet transaction that fails is over.
LEMMA FailIsQuiet ==
  ASSUME TypeOK, NEW t \in Txn, NEW committed \in BOOLEAN, Fail(t, committed),
         loc[t].started = NoInstance
  PROVE  Quiet(t)'
<1>1. Goto(t, "failed") /\ "failed" \in Ended
  BY DEF Fail, End, Ended
<1> QED
  BY <1>1, EndIsQuiet

\* The quiet transactions take nothing down, and stay quiet.
LEMMA QuietStep ==
  ASSUME TypeOK, NEW t \in Txn, TxnInv(t), Quiet(t), Connected,
         TxnStep(t) \/ Interrupt(t) \/ Kill(t), UNCHANGED op, established'
  PROVE  UNCHANGED daemon /\ Connected' /\ Quiet(t)'
<1>1. /\ pc \in [Txn -> Pc] /\ loc \in [Txn -> Locals] /\ daemon \in DaemonState
      /\ daemon.status = "running" /\ Promoted(daemon) = daemon /\ Healthy(daemon)
      /\ daemon.current
  BY ConnectedFacts DEF TypeOK, Connected
<1>2. pc[t] \notin {"restart", "health_again", "rollback_status", "rollback_stop"}
  BY DEF Quiet, Rollback
<1>3. pc[t] \in Locked \cup {"begin"} => loc[t].started = NoInstance
  BY DEF Quiet, TxnInv, Flow, Early
<1>4. pc[t] \in Found => loc[t].seen = daemon
  BY DEF Quiet
<1>5. \A step : Goto(t, step) => pc'[t] = step
  BY <1>1 DEF Goto
<1>6. \A how \in Ended : Goto(t, how) => Quiet(t)'
  BY EndIsQuiet
<1>7. ASSUME UNCHANGED <<daemon, config, global, credential>>
      PROVE  Connected'
  BY <1>7 DEF Connected
<1>8. ASSUME NEW committed \in BOOLEAN, Fail(t, committed), pc[t] \in Locked \cup {"begin"}
      PROVE  Quiet(t)'
  BY <1>3, <1>8, FailIsQuiet
<1>9. {"failed", "not_undone", "killed", "ok", "manual", "not_ok"} \subseteq Ended
  BY DEF Ended
<1>10. ASSUME NEW step \in Pc, Goto(t, step), step \notin {"restart", "health_again"} \cup Rollback,
              pc[t] \in Locked, loc'[t].started = loc[t].started,
              step \in Found => loc'[t].seen = daemon'
       PROVE  Quiet(t)'
  BY <1>3, <1>5, <1>10 DEF Quiet
<1>11. ASSUME NEW l, Set(t, l) PROVE loc'[t] = l
  BY <1>11 DEF Set
<1>12. \A step : step \in Locked => step \in Pc
  BY DEF Pc
<1>13. CASE Begin(t)
  <2>1. UNCHANGED <<daemon, config, global, credential>>
    BY <1>13 DEF Begin, world
  <2>2. CASE Fail(t, FALSE)
    BY <1>7, <1>8, <1>13, <2>1, <2>2 DEF Begin
  <2>3. CASE Goto(t, "read_project") /\ UNCHANGED loc
    <3>1. pc'[t] = "read_project" /\ loc'[t].started = NoInstance
      BY <1>3, <1>5, <1>13, <2>3 DEF Begin
    <3>2. Quiet(t)'
      BY <3>1 DEF Quiet, Found, Rollback
    <3> QED
      BY <1>7, <2>1, <3>2
  <2> QED
    BY <1>13, <2>2, <2>3 DEF Begin
<1>14. CASE ReadProjectConfig(t) \/ ReadGlobalConfig(t)
  <2>1. UNCHANGED <<daemon, config, global, credential>> /\ pc[t] \in Locked
    BY <1>14 DEF ReadProjectConfig, ReadGlobalConfig, world, Locked
  <2>2. CASE Fail(t, FALSE)
    BY <1>7, <1>8, <2>1, <2>2
  <2>3. ASSUME NEW step \in {"read_global", "status"}, Goto(t, step),
               loc'[t].started = loc[t].started
        PROVE  Quiet(t)'
    BY <1>10, <1>12, <2>1, <2>3 DEF Locked, Found, Rollback
  <2>4. CASE /\ Set(t, [Looked(t, "project") EXCEPT !.snap = config])
             /\ Goto(t, "read_global")
    <3>1. loc'[t].started = loc[t].started
      BY <1>11, <2>4, LookedFacts DEF Part, Locals
    <3> QED
      BY <1>7, <2>1, <2>3, <2>4, <3>1
  <2>5. CASE /\ Set(t, [Looked(t, "global") EXCEPT !.gsnap = global])
             /\ Goto(t, "status")
    <3>1. loc'[t].started = loc[t].started
      BY <1>11, <2>5, LookedFacts DEF Part, Locals
    <3> QED
      BY <1>7, <2>1, <2>3, <2>5, <3>1
  <2> QED
    BY <1>14, <2>2, <2>4, <2>5 DEF ReadProjectConfig, ReadGlobalConfig
<1>15. CASE DaemonStatus(t)
  <2>1. UNCHANGED <<config, global, credential>> /\ pc[t] \in Locked
    BY <1>15 DEF DaemonStatus, Locked
  <2>2. CASE StatusFails("status_error") /\ Fail(t, FALSE)
    <3>1. UNCHANGED daemon
      BY <1>1, <2>2, StatusFailsFacts
    <3> QED
      BY <1>7, <1>8, <2>1, <2>2, <3>1
  <2>3. CASE Find(t, "prepare")
    <3>1. "prepare" \in Pc
      BY DEF Pc, Locked
    <3>2. /\ daemon' = daemon /\ pc'[t] = "prepare"
          /\ loc'[t].started = loc[t].started /\ loc'[t].seen = daemon'
      BY <1>1, <2>1, <2>3, <3>1, FindFacts
    <3>3. Quiet(t)'
      BY <1>3, <2>1, <3>2 DEF Quiet, Rollback
    <3> QED
      BY <1>7, <2>1, <3>2, <3>3
  <2> QED
    BY <1>15, <2>2, <2>3 DEF DaemonStatus
<1>16. CASE StartDaemon(t) \/ RefuseDaemon(t) \/ RestartStarting(t)
  <2>1. loc[t].seen = daemon
    BY <1>4, <1>16 DEF StartDaemon, RefuseDaemon, RestartStarting, Found
  <2> QED
    BY <1>1, <1>16, <2>1 DEF StartDaemon, RefuseDaemon, RestartStarting
<1>17. CASE ReuseDaemon(t)
  <2>1. /\ pc[t] = "prepare" /\ Goto(t, "health")
        /\ UNCHANGED <<daemon, config, global, credential>> /\ UNCHANGED loc
    BY <1>17 DEF ReuseDaemon, world
  <2>2. pc'[t] = "health" /\ loc'[t].started = NoInstance /\ loc'[t].seen = daemon'
    BY <1>3, <1>4, <1>5, <2>1 DEF Locked, Found
  <2>3. Quiet(t)'
    BY <2>2 DEF Quiet, Rollback
  <2> QED
    BY <1>7, <2>1, <2>3
<1>18. CASE CheckHealth(t)
  <2>1. pc[t] = "health" /\ UNCHANGED <<config, global, credential>>
    BY <1>18 DEF CheckHealth
  <2>2. Healthy(loc[t].seen) /\ loc[t].seen.current
    BY <1>1, <1>4, <2>1 DEF Found
  <2>3. PICK ok \in BOOLEAN :
          /\ HealthCall(loc[t].seen, ok)
          /\ \/ Goto(t, "check_global") /\ Set(t, loc[t])
             \/ Fail(t, FALSE)
    BY <1>18, <2>2 DEF CheckHealth
  <2>4. UNCHANGED daemon
    BY <1>1, <2>3, HealthFacts
  <2>5. CASE Fail(t, FALSE)
    BY <1>7, <1>8, <2>1, <2>4, <2>5 DEF Locked
  <2>6. CASE Goto(t, "check_global") /\ Set(t, loc[t])
    <3>1. pc'[t] = "check_global" /\ loc'[t].started = NoInstance /\ loc'[t].seen = daemon'
      BY <1>3, <1>4, <1>5, <1>11, <2>1, <2>4, <2>6 DEF Locked, Found
    <3>2. Quiet(t)'
      BY <3>1 DEF Quiet, Rollback
    <3> QED
      BY <1>7, <2>1, <2>4, <3>2
  <2> QED
    BY <2>3, <2>5, <2>6
<1>19. CASE RestartUnhealthy(t) \/ CheckHealthAgain(t) \/ RollbackStatus(t) \/ RollbackStop(t)
  BY <1>2, <1>19 DEF RestartUnhealthy, CheckHealthAgain, RollbackStatus, RollbackStop
<1>20. CASE CheckGlobalCurrent(t)
  <2>1. pc[t] = "check_global" /\ UNCHANGED <<daemon, config, global, credential>>
    BY <1>20 DEF CheckGlobalCurrent, world
  <2>2. CASE Fail(t, FALSE)
    BY <1>7, <1>8, <2>1, <2>2 DEF Locked
  <2>3. CASE Goto(t, "commit") /\ UNCHANGED loc
    <3>1. pc'[t] = "commit" /\ loc'[t].started = NoInstance /\ loc'[t].seen = daemon'
      BY <1>3, <1>4, <1>5, <2>1, <2>3 DEF Locked, Found
    <3>2. Quiet(t)'
      BY <3>1 DEF Quiet, Rollback
    <3> QED
      BY <1>7, <2>1, <3>2
  <2> QED
    BY <1>20, <2>2, <2>3 DEF CheckGlobalCurrent
<1>21. CASE CommitProjectConfig(t)
  <2>1. /\ pc[t] = "commit" /\ UNCHANGED <<daemon, global, credential>>
        /\ loc[t].seen = daemon
    BY <1>4, <1>21 DEF CommitProjectConfig, Found
  <2>2. ASSUME config' = loc[t].seen.url PROVE Connected'
    BY <2>1, <2>2 DEF Connected
  <2>3. CASE UNCHANGED config /\ Fail(t, FALSE)
    BY <1>7, <1>8, <2>1, <2>3 DEF Locked
  <2>4. CASE /\ config' = loc[t].seen.url
             /\ Set(t, [Looked(t, "project") EXCEPT !.written = TRUE])
             /\ Goto(t, "postcommit")
    <3>1. loc'[t].started = loc[t].started /\ loc'[t].seen = loc[t].seen
      BY <1>11, <2>4, LookedFacts DEF Part, Locals
    <3>2. pc'[t] = "postcommit"
      BY <1>5, <2>4
    <3>3. Quiet(t)'
      BY <1>3, <2>1, <3>1, <3>2 DEF Quiet, Rollback, Locked
    <3> QED
      BY <2>1, <2>2, <2>4, <3>3
  <2>5. CASE config' = loc[t].seen.url /\ Goto(t, "failed")
    BY <1>6, <1>9, <2>1, <2>2, <2>5
  <2>6. loc[t].started = NoInstance
    BY <1>3, <1>21 DEF CommitProjectConfig, Locked
  <2> QED
    BY <1>21, <2>3, <2>4, <2>5, <2>6 DEF CommitProjectConfig
<1>22. CASE PostcommitGlobal(t)
  <2>1. pc[t] = "postcommit" /\ UNCHANGED <<daemon, config, global, credential>>
    BY <1>22 DEF PostcommitGlobal, world
  <2>2. CASE Fail(t, TRUE)
    BY <1>7, <1>8, <2>1, <2>2 DEF Locked
  <2>3. CASE /\ Set(t, [Looked(t, "global") EXCEPT !.gsnap = global])
             /\ Goto(t, "token")
    <3>1. loc'[t].started = loc[t].started /\ loc'[t].seen = loc[t].seen
      BY <1>11, <2>3, LookedFacts DEF Part, Locals
    <3>2. pc'[t] = "token" /\ loc[t].seen = daemon
      BY <1>4, <1>5, <2>1, <2>3 DEF Found
    <3>3. Quiet(t)'
      BY <1>3, <2>1, <3>1, <3>2 DEF Quiet, Rollback, Locked
    <3> QED
      BY <1>7, <2>1, <3>3
  <2> QED
    BY <1>22, <2>2, <2>3 DEF PostcommitGlobal
<1>23. CASE ConfigureToken(t)
  <2>1. pc[t] = "token" /\ UNCHANGED <<daemon, config, global, credential>>
    BY <1>23 DEF ConfigureToken, world
  <2>2. CASE Fail(t, TRUE)
    BY <1>7, <1>8, <2>1, <2>2 DEF Locked
  <2>3. CASE \E how \in {"ok", "manual"} : Goto(t, how)
    BY <1>6, <1>7, <1>9, <2>1, <2>3
  <2> QED
    BY <1>23, <2>2, <2>3 DEF ConfigureToken
<1>24. CASE DoctorProject(t) \/ DoctorGlobal(t) \/ DoctorStatus(t) \/ DoctorHealth(t)
  <2>1. UNCHANGED <<daemon, config, global, credential>>
    BY <1>1, <1>24, StatusFailsFacts
       DEF DoctorProject, DoctorGlobal, DoctorStatus, DoctorHealth, Find, world
  <2>2. \E step \in {"not_ok", "ok"} \cup Doctor : Goto(t, step)
    BY <1>24 DEF DoctorProject, DoctorGlobal, DoctorStatus, DoctorHealth, Find, EndHindered, Doctor
  <2>3. pc'[t] \notin Locked
    BY <1>5, <1>9, <2>2, EndedIsOutside
  <2>4. Quiet(t)'
    BY <2>3 DEF Quiet, Locked, Found, Rollback
  <2> QED
    BY <1>7, <2>1, <2>4
<1>25. CASE Interrupt(t) \/ Kill(t)
  <2>1. pc[t] \in Locked /\ UNCHANGED <<daemon, config, global, credential>>
    BY <1>25 DEF Interrupt, Kill, world
  <2>2. \E how \in {"failed", "not_undone", "killed"} : Goto(t, how)
    BY <1>3, <1>25, <2>1 DEF Interrupt, Kill, End
  <2> QED
    BY <1>6, <1>7, <1>9, <2>1, <2>2
<1> QED
  BY <1>13, <1>14, <1>15, <1>16, <1>17, <1>18, <1>19, <1>20, <1>21, <1>22, <1>23, <1>24, <1>25
     DEF TxnStep

LEMMA NextEst == SafeInv /\ EstInv /\ [Next]_vars => EstInv'
<1> SUFFICES ASSUME SafeInv, EstInv, [Next]_vars, established'
             PROVE  Connected' /\ \A u \in Txn : Quiet(u)'
  BY DEF EstInv
<1>1. TypeOK /\ Mutex /\ \A t \in Txn : TxnInv(t)
  BY DEF SafeInv
<1>2. CASE Environment /\ UNCHANGED op
  BY <1>1, <1>2, EnvironmentFacts
<1>3. ASSUME NEW t \in Txn, TxnStep(t) \/ Interrupt(t) \/ Kill(t), UNCHANGED op
      PROVE  Connected' /\ \A u \in Txn : Quiet(u)'
  <2>1. \A u \in Txn \ {t} : Kept(u)
    BY <1>1, <1>3, StepGood DEF Good
  <2>2. CASE established
    <3>1. Connected /\ \A u \in Txn : Quiet(u)
      BY <2>2 DEF EstInv
    <3>2. UNCHANGED daemon /\ Connected' /\ Quiet(t)'
      BY <1>1, <1>3, <3>1, QuietStep
    <3>3. \A u \in Txn \ {t} : Quiet(u)'
      BY <2>1, <3>1, <3>2 DEF Kept, Quiet
    <3> QED
      BY <3>2, <3>3
  <2>3. CASE ~established
    <3>1. ConfigureToken(t)
      BY <1>3, <2>3 DEF TxnStep, Interrupt, Kill, Begin, ReadProjectConfig, ReadGlobalConfig,
         DaemonStatus, StartDaemon, ReuseDaemon, RefuseDaemon, RestartStarting, CheckHealth,
         RestartUnhealthy, CheckHealthAgain, CheckGlobalCurrent, CommitProjectConfig,
         PostcommitGlobal, RollbackStatus, RollbackStop, DoctorProject, DoctorGlobal,
         DoctorStatus, DoctorHealth, bounds
    <3>2. /\ pc[t] = "token" /\ credential /\ loc[t].gsnap = "trusted" /\ loc[t].fresh = Part
          /\ Goto(t, "ok") /\ UNCHANGED <<daemon, config, global, credential>>
      BY <2>3, <3>1 DEF ConfigureToken, world
    <3>3. op[t] # "doctor"
      BY <1>1, <3>2 DEF TxnInv, Flow, Locked
    <3>4. daemon = loc[t].seen /\ global = loc[t].gsnap /\ config = loc[t].seen.url
      BY <1>1, <3>2, <3>3 DEF TxnInv, Fresh, Part, Rollback, Committed
    <3>5. daemon.current /\ daemon.answers /\ daemon.status = "running"
      BY <1>1, <3>2, <3>3, <3>4 DEF TxnInv, Verified, Checked, Committed, Part
    <3>6. Connected'
      BY <3>2, <3>4, <3>5 DEF Connected
    <3>7. Quiet(t)'
      BY <1>1, <3>2, EndIsQuiet DEF Ended
    <3>8. ASSUME NEW u \in Txn \ {t} PROVE Quiet(u)'
      <4>1. pc[u] \notin Locked
        BY <1>1, <3>2, <3>8 DEF Mutex, Locked
      <4>2. pc'[u] \notin Locked
        BY <2>1, <3>8, <4>1 DEF Kept
      <4> QED
        BY <4>2 DEF Quiet, Locked, Found, Rollback
    <3> QED
      BY <3>6, <3>7, <3>8
  <2> QED
    BY <2>2, <2>3
<1>4. CASE UNCHANGED vars
  BY <1>4 DEF EstInv, Connected, Quiet, vars, world, bounds
<1> QED
  BY <1>2, <1>3, <1>4 DEF Next

-----------------------------------------------------------------------------
(* The theorems                                                              *)

LEMMA Invariant == Spec => [](SafeInv /\ EstInv)
<1>1. Init => EstInv
  BY DEF Init, EstInv
<1> QED
  BY <1>1, InitInv, NextInv, NextEst, PTL DEF Spec

\* The shared state and the transactions' variables keep to their types.
THEOREM TypeCorrect == Spec => []TypeOK
<1>1. SafeInv => TypeOK
  BY DEF SafeInv
<1> QED
  BY <1>1, Invariant, PTL

\* A transaction whose configuration is in place turns to a rollback only when an
\* interrupt makes it, or a commit that says the configuration is not active, however
\* many other transactions and events there are.
THEOREM CommitKeepsDaemon == Spec => []CommittedIsNotRolledBack
<1>1. SafeInv => CommittedIsNotRolledBack
  BY DEF SafeInv, TxnInv, Flow, CommittedIsNotRolledBack
<1> QED
  BY <1>1, Invariant, PTL

\* A setup that failed before its commit, and could roll back, has left no daemon of
\* its own.
THEOREM FailureIsUndone == Spec => []FailedSetupIsUndone
<1>1. SafeInv => FailedSetupIsUndone
  BY DEF SafeInv, TxnInv, Own, FailedSetupIsUndone
<1> QED
  BY <1>1, Invariant, PTL

\* What a setup or repair returns is true of everything that nobody has changed since it
\* looked.
THEOREM ResultIsTrue == Spec => []ResultHolds
<1>1. ASSUME SafeInv PROVE ResultHolds
  <2>1. ASSUME NEW t \in Txn, op[t] # "doctor", pc[t] \in {"ok", "manual"}
        PROVE  /\ "global" \in loc[t].fresh
                    => global \in Clear /\ (pc[t] = "ok" => global = "trusted")
               /\ "project" \in loc[t].fresh => config = loc[t].seen.url
               /\ "daemon" \in loc[t].fresh
                    => daemon = loc[t].seen /\ daemon.current /\ daemon.answers
    BY <1>1, <2>1 DEF SafeInv, TxnInv, Fresh, Verified, Committed, Checked, Rollback
  <2> QED
    BY <2>1 DEF ResultHolds
<1> QED
  BY <1>1, Invariant, PTL

\* What one transaction has established no number of others takes down again, whatever
\* fails in them, unless a repair's health check of the healthy daemon fails.
THEOREM EstablishedStays == Spec => []OthersKeepIt
<1>1. EstInv => OthersKeepIt
  BY DEF EstInv, OthersKeepIt
<1> QED
  BY <1>1, Invariant, PTL

\* A doctor that nobody disturbs says ok only when a setup's purpose is achieved, and
\* always then, unless it could not look at something; then it never says ok.
THEOREM DoctorIsRight == Spec => []DoctorAgrees
<1>1. SafeInv => DoctorAgrees
  BY DEF SafeInv, TxnInv, Said, DoctorAgrees
<1> QED
  BY <1>1, Invariant, PTL

\* A rollback stops only a daemon that its own transaction has launched, whoever has
\* put which daemon in its place meanwhile.
THEOREM RollbackSpares == Spec => RollbackSparesOthers
<1> DEFINE A == \A t \in Txn :
       pc[t] = "rollback_stop" /\ pc'[t] # pc[t] /\ daemon' # daemon => daemon.by = t
<1>1. ASSUME SafeInv, [Next]_vars PROVE A
  <2>1. SUFFICES ASSUME NEW t \in Txn, pc[t] = "rollback_stop", pc'[t] # pc[t], daemon' # daemon
                 PROVE  daemon.by = t
    OBVIOUS
  <2>2. TypeOK /\ TxnInv(t) /\ \A u \in Txn : TxnInv(u)
    BY <1>1 DEF SafeInv
  <2>3. ~(Environment /\ UNCHANGED op) /\ ~UNCHANGED vars
    BY <2>1, <2>2, EnvironmentFacts DEF vars
  <2>4. PICK u \in Txn : (TxnStep(u) \/ Interrupt(u) \/ Kill(u)) /\ UNCHANGED op
    BY <1>1, <2>3 DEF Next
  <2>5. u = t
    BY <2>1, <2>2, <2>4, StepGood DEF Good, Kept
  <2>6. RollbackStop(t)
    BY <2>1, <2>4, <2>5 DEF TxnStep, Interrupt, Kill, Begin, ReadProjectConfig,
       ReadGlobalConfig, DaemonStatus, StartDaemon, ReuseDaemon, RefuseDaemon,
       RestartStarting, CheckHealth, RestartUnhealthy, CheckHealthAgain, CheckGlobalCurrent,
       CommitProjectConfig, PostcommitGlobal, ConfigureToken, RollbackStatus, DoctorProject,
       DoctorGlobal, DoctorStatus, DoctorHealth, world
  <2>7. daemon.id = loc[t].started
    BY <2>1, <2>6 DEF RollbackStop
  <2>8. loc[t].started # NoInstance
    BY <2>1, <2>2 DEF TxnInv, Flow, Rollback
  <2> QED
    BY <2>2, <2>7, <2>8 DEF TxnInv, Own
<1>2. SafeInv /\ [Next]_vars => [A]_vars
  BY <1>1
<1> QED
  BY <1>2, Invariant, PTL DEF Spec, RollbackSparesOthers
=============================================================================
