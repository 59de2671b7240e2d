-------------------------- MODULE CodexCommitProofs --------------------------
(***************************************************************************)
(* Proofs about CodexCommit, for any contents and any number of saves.     *)
(***************************************************************************)
EXTENDS CodexCommit, TLAPS

\* A file the transaction reads again can be read.
Readable == "read_error" \notin Faults

-----------------------------------------------------------------------------
(* The inductive invariant                                                 *)

\* What the temporary file holds where the transaction removes it.
TempKnown ==
  /\ pc = "write" => temp = Absent
  /\ pc \in {"check", "propose", "exchange", "install"} => temp = Mine
  /\ pc = "exchange" => snap # Absent
  /\ pc = "install" => snap = Absent
  /\ pc = "compare" => (temp = Absent <=> snap = Absent)
  /\ pc = "unlink_temp" => temp = Old
  /\ pc \in {"unlink_proposed", "sync"} => temp = Absent
  /\ pc \in {"drop", "drop_again"} /\ displaced # Absent => temp = Mine \/ temp \in copies

SafeInv == TypeOK /\ TempKnown /\ NoEditLost

\* config.toml is not the transaction's, unless the editor saved the same content.
Inactive == config # Mine \/ Mine \in owed

\* Before the first exchange, and once a conflict has been seen and the editor's
\* version is active, the transaction's version is not.
InactiveWhere ==
  /\ pc \in {"write", "check", "propose", "exchange", "install", "drop"} => Inactive
  /\ pc = "copy" => active = Mine \/ Inactive
  /\ pc \in {"copy_again", "drop_again"} => active \in {Absent, Mine} \/ Inactive
  /\ pc = "returned" /\ ~report.committed => Inactive

\* What is in the temporary file when it is abandoned is known, or was copied.
TempAccounted ==
  /\ pc \in {"drop", "drop_again"} => temp \in {Absent, Mine} \cup copies
  /\ pc = "returned" /\ ~report.temp => temp \in {Absent, Old, Mine} \cup copies

\* Without a save there is no conflict.
ConflictNeedsSave ==
  /\ saves = 0 /\ pc \in {"write", "check", "propose", "exchange", "install"} => config = snap
  /\ saves = 0 /\ pc = "compare" => config = Mine /\ temp = snap
  /\ pc \in Conflict => saves > 0
  /\ pc = "returned" /\ report.kind \in {"conflict", "recovery_required"} => saves > 0
  /\ pc = "returned" /\ report.kind = "recovery_required" => proposed

ReportInv == InactiveWhere /\ TempAccounted /\ ConflictNeedsSave

-----------------------------------------------------------------------------
(* Types                                                                   *)

LEMMA KindFacts ==
  /\ "none" \in Kind /\ "committed" \in Kind /\ "cleanup_failed" \in Kind
  /\ "durability_uncertain" \in Kind /\ "conflict" \in Kind
  /\ "recovery_required" \in Kind /\ "write_failed" \in Kind
BY DEF Kind

\* What a transaction leaves when it returns.
LEMMA ReturnFacts ==
  ASSUME NEW k \in Kind, NEW c \in BOOLEAN, NEW t \in BOOLEAN, Return(k, c, t)
  PROVE  /\ pc' = "returned" /\ report' \in Report
         /\ report'.kind = k /\ report'.committed = c /\ report'.temp = t
BY DEF Return, Goto, Report

LEMMA CleanFacts ==
  ASSUME NEW k \in Kind, NEW c \in BOOLEAN, ReturnAndClean(k, c)
  PROVE  /\ pc' = "returned" /\ report' \in Report
         /\ report'.kind = k /\ report'.committed = c /\ report'.temp = FALSE
         /\ temp' \in {Absent, temp} /\ proposed' \in {FALSE, proposed}
<1>1. Return(k, c, FALSE) /\ DropTemp /\ DropProposed
  BY DEF ReturnAndClean
<1>2. QED
  BY <1>1, ReturnFacts DEF DropTemp, DropProposed

\* Every step keeps the types, whatever goes wrong.
LEMMA TypesKept ==
  ASSUME TypeOK, [Next]_vars
  PROVE  TypeOK'
<1> USE ContentAssumption, KindFacts, ReturnFacts, CleanFacts
    DEF TypeOK, Goto, File, Pc, Steps, Conflict, files, digests, editor
<1>1. CASE WriteTemporary
  BY <1>1 DEF WriteTemporary
<1>2. CASE AssertSnapshotCurrent
  BY <1>2 DEF AssertSnapshotCurrent
<1>3. CASE WriteProposed
  BY <1>3 DEF WriteProposed
<1>4. CASE AtomicExchange
  BY <1>4 DEF AtomicExchange, Swap
<1>5. CASE AtomicNoReplace
  BY <1>5 DEF AtomicNoReplace, DropIfDigest, DropTemp
<1>6. CASE CompareDigests
  BY <1>6 DEF CompareDigests, Digests, digests
<1>7. CASE UnlinkCommittedTemporary
  BY <1>7 DEF UnlinkCommittedTemporary, DropProposed
<1>8. CASE UnlinkProposed
  BY <1>8 DEF UnlinkProposed
<1>9. CASE SyncDirectory
  BY <1>9 DEF SyncDirectory
<1>10. CASE CopyDisplaced
  BY <1>10 DEF CopyDisplaced
<1>11. CASE RestoreDisplaced
  BY <1>11 DEF RestoreDisplaced, Swap
<1>12. CASE CompareAgain
  BY <1>12 DEF CompareAgain, Digests
<1>13. CASE CopyDisplacedAgain
  BY <1>13 DEF CopyDisplacedAgain
<1>14. CASE DropDisplacedAgain
  BY <1>14 DEF DropDisplacedAgain, DropIfDigest, DropTemp
<1>15. CASE DropDisplaced
  BY <1>15 DEF DropDisplaced, DropIfDigest, DropTemp
<1>16. CASE RecoverSafely
  BY <1>16 DEF RecoverSafely, Digests
<1>17. CASE RecoverExchange
  BY <1>17 DEF RecoverExchange, Swap
<1>18. CASE Recover
  <2>1. report' \in Report /\ pc' = "returned"
    BY <1>18 DEF Recover
  <2>2. temp' \in {Absent, temp}
    BY <1>18 DEF Recover, DropIfDigest, DropTemp
  <2>3. QED
    BY <1>18, <2>1, <2>2 DEF Recover
<1>19. CASE Interrupt
  BY <1>19 DEF Interrupt
<1>20. CASE Kill
  BY <1>20 DEF Kill
<1>21. ASSUME NEW x \in Saves, Save(x) PROVE TypeOK'
  BY <1>21 DEF Save
<1>22. CASE RemoveConfig
  BY <1>22 DEF RemoveConfig
<1>23. CASE UNCHANGED vars
  BY <1>23 DEF vars
<1>24. QED
  BY <1>1, <1>2, <1>3, <1>4, <1>5, <1>6, <1>7, <1>8, <1>9, <1>10, <1>11, <1>12, <1>13, <1>14, <1>15, <1>16, <1>17, <1>18, <1>19, <1>20, <1>21, <1>22, <1>23 DEF Next, Commit, Editor

LEMMA TypesAtFirst == Init => TypeOK
<1> SUFFICES ASSUME Init PROVE TypeOK
  OBVIOUS
<1>1. report \in Report
  BY KindFacts DEF Init, Report
<1>2. pc = "write" /\ "write" \in Pc /\ pc \notin Conflict
  BY DEF Init, Pc, Steps, Conflict
<1>3. {config, temp, displaced, active} \subseteq File /\ snap \in {Old, Absent}
  BY ContentAssumption DEF Init, File
<1>4. copies \subseteq Content /\ owed \subseteq Content /\ proposed \in BOOLEAN
  BY DEF Init
<1>5. saves \in 0 .. MaxSaves
  BY ContentAssumption DEF Init
<1>6. QED
  BY <1>1, <1>2, <1>3, <1>4, <1>5 DEF TypeOK

\* The types of the files, of the transaction's variables and of the editor's.
THEOREM Typing == Spec => []TypeOK
<1>1. Init => TypeOK
  BY TypesAtFirst
<1>2. TypeOK /\ [Next]_vars => TypeOK'
  BY TypesKept
<1>3. QED
  BY <1>1, <1>2, PTL DEF Spec

-----------------------------------------------------------------------------
(* No edit is lost                                                         *)

\* Every step but an interrupt keeps every version.
LEMMA VersionsKept ==
  ASSUME SafeInv, [Next]_vars
  PROVE  (TempKnown /\ NoEditLost)'
<1> USE ContentAssumption, KindFacts, ReturnFacts, CleanFacts
    DEF SafeInv, TypeOK, TempKnown, NoEditLost, Unknown, Present, Goto, File, files, digests, editor
<1>1. CASE WriteTemporary
  BY <1>1 DEF WriteTemporary
<1>2. CASE AssertSnapshotCurrent
  BY <1>2 DEF AssertSnapshotCurrent
<1>3. CASE WriteProposed
  BY <1>3 DEF WriteProposed
<1>4. CASE AtomicExchange
  BY <1>4 DEF AtomicExchange, Swap
<1>5. CASE AtomicNoReplace
  BY <1>5 DEF AtomicNoReplace, DropIfDigest, DropTemp
<1>6. CASE CompareDigests
  BY <1>6 DEF CompareDigests, Digests, digests
<1>7. CASE UnlinkCommittedTemporary
  BY <1>7 DEF UnlinkCommittedTemporary, DropProposed
<1>8. CASE UnlinkProposed
  BY <1>8 DEF UnlinkProposed
<1>9. CASE SyncDirectory
  BY <1>9 DEF SyncDirectory
<1>10. CASE CopyDisplaced
  BY <1>10 DEF CopyDisplaced
<1>11. CASE RestoreDisplaced
  BY <1>11 DEF RestoreDisplaced, Swap
<1>12. CASE CompareAgain
  BY <1>12 DEF CompareAgain, Digests
<1>13. CASE CopyDisplacedAgain
  BY <1>13 DEF CopyDisplacedAgain
<1>14. CASE DropDisplacedAgain
  BY <1>14 DEF DropDisplacedAgain, DropIfDigest, DropTemp
<1>15. CASE DropDisplaced
  BY <1>15 DEF DropDisplaced, DropIfDigest, DropTemp
<1>16. CASE RecoverSafely
  BY <1>16 DEF RecoverSafely, Digests
<1>17. CASE RecoverExchange
  BY <1>17 DEF RecoverExchange, Swap
<1>18. CASE Recover
  <2>1. pc' = "returned"
    BY <1>18 DEF Recover, Return
  <2>2. temp' = temp \/ temp = Mine
    BY <1>18 DEF Recover, Digests, DropIfDigest, DropTemp
  <2>3. QED
    BY <1>18, <2>1, <2>2 DEF Recover
<1>19. CASE Interrupt
  BY <1>19 DEF Interrupt
<1>20. CASE Kill
  BY <1>20 DEF Kill, Steps, Conflict
<1>21. ASSUME NEW x \in Saves, Save(x) PROVE (TempKnown /\ NoEditLost)'
  BY <1>21 DEF Save
<1>22. CASE RemoveConfig
  BY <1>22 DEF RemoveConfig
<1>23. CASE UNCHANGED vars
  BY <1>23 DEF vars
<1>24. QED
  BY <1>1, <1>2, <1>3, <1>4, <1>5, <1>6, <1>7, <1>8, <1>9, <1>10, <1>11, <1>12, <1>13, <1>14, <1>15, <1>16, <1>17, <1>18, <1>19, <1>20, <1>21, <1>22, <1>23
     DEF Next, Commit, Editor

LEMMA SafeInvariant == Spec => []SafeInv
<1>1. Init => SafeInv
  BY TypesAtFirst DEF Init, SafeInv, TempKnown, NoEditLost, Unknown, Present
<1>2. SafeInv /\ [Next]_vars => SafeInv'
  BY TypesKept, VersionsKept DEF SafeInv
<1>3. QED
  BY <1>1, <1>2, PTL DEF Spec

\* Whatever calls fail, and wherever the process is killed, a version that the
\* editor has saved is in the directory, unless an interrupt comes.
THEOREM EditsAreKept == Spec => []NoEditLost
<1>1. Spec => []SafeInv
  BY SafeInvariant
<1>2. SafeInv => NoEditLost
  BY DEF SafeInv
<1>3. QED
  BY <1>1, <1>2, PTL

-----------------------------------------------------------------------------
(* What a report says is so                                                *)

\* What has to be shown of a step by which the transaction returns.
LEMMA ReturnKeepsReport ==
  ASSUME pc' = "returned",
         ~report'.committed => Inactive',
         ~report'.temp => temp' \in {Absent, Old, Mine} \cup copies',
         report'.kind \in {"conflict", "recovery_required"} => saves' > 0,
         report'.kind = "recovery_required" => proposed'
  PROVE  ReportInv'
BY DEF ReportInv, InactiveWhere, TempAccounted, ConflictNeedsSave, Conflict

\* Every step that can read what it wants to read keeps the
\* relation between the files and the step, and between the files and the report.
LEMMA ReportsKept ==
  ASSUME Readable, SafeInv, ReportInv, [Next]_vars
  PROVE  ReportInv'
<1> USE ContentAssumption, KindFacts, ReturnFacts, CleanFacts
    DEF SafeInv, TypeOK, TempKnown, ReportInv, InactiveWhere, Inactive, TempAccounted,
        ConflictNeedsSave, Conflict, Goto, File, files, digests, editor
<1>a. ~ReadError
  BY DEF Readable, ReadError
<1>b. \A f : Digests(f) = {f}
  BY <1>a DEF Digests
<1>1. CASE WriteTemporary
  BY <1>1, <1>a, <1>b DEF WriteTemporary
<1>2. CASE AssertSnapshotCurrent
  <2>1. config = snap /\ Goto("propose") => ReportInv'
    BY <1>2 DEF AssertSnapshotCurrent
  <2>2. ASSUME ReturnAndClean("conflict", FALSE) PROVE ReportInv'
    <3>1. pc' = "returned" /\ ~report'.committed /\ ~report'.temp /\ report'.kind = "conflict"
      BY <2>2, Zenon
    <3>2. temp' \in {Absent, Mine}
      <4>1. temp = Mine
        BY <1>2 DEF AssertSnapshotCurrent
      <4>2. temp' \in {Absent, temp}
        BY <2>2, Zenon
      <4>3. QED
        BY <4>1, <4>2
    <3>3. config # snap \/ saves > 0
      BY <1>2, <1>a, <3>1 DEF AssertSnapshotCurrent
    <3>4. saves > 0 /\ Inactive /\ UNCHANGED <<saves, config, owed, copies>>
      BY <1>2, <3>3 DEF AssertSnapshotCurrent
    <3>5. Inactive' /\ saves' > 0 /\ temp' \in {Absent, Old, Mine} \cup copies'
      BY <3>2, <3>4
    <3> HIDE KindFacts, ReturnFacts, CleanFacts
             DEF ReportInv, InactiveWhere, Inactive, TempAccounted, ConflictNeedsSave
    <3>6. QED
      BY <3>1, <3>5, ReturnKeepsReport
  <2>3. QED
    BY <1>2, <2>1, <2>2 DEF AssertSnapshotCurrent
<1>3. CASE WriteProposed
  BY <1>3, <1>a, <1>b DEF WriteProposed
<1>4. CASE AtomicExchange
  BY <1>4, <1>a, <1>b DEF AtomicExchange, Swap
<1>5. CASE AtomicNoReplace
  <2>1. CASE config = Absent /\ config' = temp /\ temp' = Absent /\ Goto("compare")
    BY <1>5, <2>1 DEF AtomicNoReplace
  <2>2. CASE config # Absent /\ DropIfDigest(Mine) /\ Return("conflict", FALSE, FALSE)
    <3>1. temp' \in {Absent, Mine}
      BY <1>5, <2>2 DEF AtomicNoReplace, DropIfDigest, DropTemp
    <3>2. pc' = "returned" /\ ~report'.committed /\ ~report'.temp /\ report'.kind = "conflict"
      BY <2>2, Zenon
    <3>3. saves > 0 /\ UNCHANGED <<saves, config, owed, copies>>
      <4>1. config # snap
        BY <1>5, <2>2 DEF AtomicNoReplace
      <4>2. saves # 0
        BY <1>5, <4>1 DEF AtomicNoReplace
      <4>3. UNCHANGED <<saves, owed, copies>>
        BY <1>5 DEF AtomicNoReplace
      <4>4. UNCHANGED config
        BY <1>5, <2>2 DEF AtomicNoReplace
      <4>5. QED
        BY <4>2, <4>3, <4>4
    <3>4. Inactive
      BY <1>5 DEF AtomicNoReplace
    <3>5. Inactive' /\ saves' > 0 /\ temp' \in {Absent, Old, Mine} \cup copies'
      BY <3>1, <3>3, <3>4
    <3> HIDE KindFacts, ReturnFacts, CleanFacts
             DEF ReportInv, InactiveWhere, Inactive, TempAccounted, ConflictNeedsSave
    <3>6. QED
      BY <3>2, <3>5, ReturnKeepsReport
  <2>3. CASE IoError /\ ReturnAndClean("write_failed", FALSE) /\ UNCHANGED config
    BY <1>5, <2>3 DEF AtomicNoReplace
  <2>4. QED
    BY <1>5, <2>1, <2>2, <2>3 DEF AtomicNoReplace
<1>6. CASE CompareDigests
  <2>1. displaced' = temp /\ active' = config
    BY <1>6, <1>b DEF CompareDigests
  <2>2. CASE temp = snap /\ config = Mine
    BY <1>6, <1>b, <2>1, <2>2 DEF CompareDigests
  <2>3. CASE snap = Absent /\ config # Mine
    BY <1>6, <1>b, <2>1, <2>3 DEF CompareDigests
  <2>4. CASE snap # Absent /\ (temp # snap \/ config # Mine)
    <3>1. pc' = IF temp # Mine THEN "copy" ELSE IF config = Mine THEN "restore" ELSE "drop"
      BY <1>6, <1>b, <2>4 DEF CompareDigests
    <3>2. saves > 0
      BY <1>6, <2>4 DEF CompareDigests
    <3>3. QED
      BY <1>6, <2>1, <3>1, <3>2 DEF CompareDigests
  <2>5. QED
    BY <1>6, <2>2, <2>3, <2>4 DEF CompareDigests
<1>7. CASE UnlinkCommittedTemporary
  BY <1>7, <1>a, <1>b DEF UnlinkCommittedTemporary, DropProposed
<1>8. CASE UnlinkProposed
  BY <1>8, <1>a, <1>b DEF UnlinkProposed
<1>9. CASE SyncDirectory
  BY <1>9, <1>a, <1>b DEF SyncDirectory
<1>10. CASE CopyDisplaced
  BY <1>10, <1>a, <1>b DEF CopyDisplaced
<1>11. CASE RestoreDisplaced
  BY <1>11, <1>a, <1>b DEF RestoreDisplaced, Swap
<1>12. CASE CompareAgain
  BY <1>12, <1>a, <1>b DEF CompareAgain
<1>13. CASE CopyDisplacedAgain
  BY <1>13, <1>a, <1>b DEF CopyDisplacedAgain
<1>14. CASE DropDisplacedAgain
  BY <1>14, <1>a, <1>b DEF DropDisplacedAgain, DropIfDigest, DropTemp
<1>15. CASE DropDisplaced
  BY <1>15, <1>a, <1>b DEF DropDisplaced, DropIfDigest, DropTemp
<1>16. CASE RecoverSafely
  BY <1>16, <1>a, <1>b DEF RecoverSafely
<1>17. CASE RecoverExchange
  BY <1>17, <1>a, <1>b DEF RecoverExchange, Swap
<1>18. CASE Recover
  <2>1. Return("recovery_required", config = Mine, temp # Mine /\ temp # Absent)
    BY <1>18, <1>b DEF Recover
  <2>2. /\ pc' = "returned" /\ report'.kind = "recovery_required"
        /\ report'.committed <=> config = Mine
        /\ report'.temp <=> temp # Mine /\ temp # Absent
    BY <2>1 DEF Return
  <2>3. temp' \in {Absent, temp}
    BY <1>18 DEF Recover, DropIfDigest, DropTemp
  <2>4. saves > 0 /\ proposed /\ UNCHANGED <<saves, proposed, config, owed, copies>>
    BY <1>18 DEF Recover
  <2>5. QED
    BY <2>2, <2>3, <2>4
<1>19. CASE Interrupt
  BY <1>19, <1>a, <1>b DEF Interrupt
<1>20. CASE Kill
  BY <1>20, <1>a, <1>b DEF Kill
<1>21. ASSUME NEW x \in Saves, Save(x) PROVE ReportInv'
  BY <1>21, <1>a, <1>b DEF Save
<1>22. CASE RemoveConfig
  BY <1>22, <1>a, <1>b DEF RemoveConfig
<1>23. CASE UNCHANGED vars
  BY <1>23, <1>a, <1>b DEF vars
<1>24. QED
  BY <1>1, <1>2, <1>3, <1>4, <1>5, <1>6, <1>7, <1>8, <1>9, <1>10, <1>11, <1>12, <1>13, <1>14, <1>15, <1>16, <1>17, <1>18, <1>19, <1>20, <1>21, <1>22, <1>23
     DEF Next, Commit, Editor

LEMMA ReportInvariant == Readable => (Spec => [](SafeInv /\ ReportInv))
<1> SUFFICES ASSUME Readable PROVE Spec => [](SafeInv /\ ReportInv)
  OBVIOUS
<1>1. Init => ReportInv
  BY ContentAssumption DEF Init, ReportInv, InactiveWhere, Inactive, TempAccounted, ConflictNeedsSave, Conflict
<1>2. SafeInv /\ ReportInv /\ [Next]_vars => ReportInv'
  BY ReportsKept
<1>3. Spec => []SafeInv
  BY SafeInvariant
<1>4. QED
  BY <1>1, <1>2, <1>3, PTL DEF Spec

\* When the transaction can read its files again, an error that says
\* "not committed" leaves a configuration that is not the transaction's.
THEOREM UncommittedCommitsAreInactive ==
  Readable => (Spec => []UncommittedIsInactive)
<1> SUFFICES ASSUME Readable PROVE Spec => []UncommittedIsInactive
  OBVIOUS
<1>1. Spec => [](SafeInv /\ ReportInv)
  BY ReportInvariant
<1>2. ReportInv => UncommittedIsInactive
  BY DEF ReportInv, InactiveWhere, Inactive, UncommittedIsInactive
<1>3. QED
  BY <1>1, <1>2, PTL

\* Under the same condition the user finds every version when the transaction
\* has returned: active, or in a file that the error names.
THEOREM EditsAreReported ==
  Readable => (Spec => []EditsReported)
<1> SUFFICES ASSUME Readable PROVE Spec => []EditsReported
  OBVIOUS
<1>1. Spec => [](SafeInv /\ ReportInv)
  BY ReportInvariant
<1>2. SafeInv /\ ReportInv => EditsReported
  <2> SUFFICES ASSUME SafeInv, ReportInv, pc = "returned" PROVE EditsReported
    BY DEF EditsReported
  <2>1. Unknown \subseteq {config, temp} \cup copies
    BY DEF SafeInv, NoEditLost, Present
  <2>2. ~report.temp => temp \in {Absent, Old, Mine} \cup copies
    BY DEF ReportInv, TempAccounted
  <2>3. Absent \notin Unknown /\ Old \notin Unknown /\ Mine \notin Unknown
    BY ContentAssumption DEF SafeInv, TypeOK, Unknown
  <2>4. Unknown \subseteq copies \cup {config} \cup (IF report.temp THEN {temp} ELSE {})
    BY <2>1, <2>2, <2>3
  <2>5. QED
    BY <2>4 DEF EditsReported, ReportInv, ConflictNeedsSave, SafeInv, TypeOK
<1>3. QED
  BY <1>1, <1>2, PTL
-----------------------------------------------------------------------------
(* The commit implements SafeReplace                                       *)

\* What the recovery exchanges is neither the transaction's own content nor nothing.
AsideKnown == pc = "recover_exchange" => temp \notin {Absent, Mine}

LEMMA AsideKnownKept ==
  ASSUME AsideKnown, [Next]_vars
  PROVE  AsideKnown'
<1> USE DEF AsideKnown, Goto
<1>1. CASE RecoverSafely
  BY <1>1 DEF RecoverSafely, Digests, files
<1>2. CASE Commit /\ ~RecoverSafely
  BY <1>2 DEF Commit, WriteTemporary, AssertSnapshotCurrent, WriteProposed, AtomicExchange,
     AtomicNoReplace, CompareDigests, UnlinkCommittedTemporary, UnlinkProposed,
     SyncDirectory, CopyDisplaced, RestoreDisplaced, CompareAgain, CopyDisplacedAgain,
     DropDisplacedAgain, DropDisplaced, RecoverExchange, Recover, ReturnAndClean, Return
<1>3. CASE Interrupt \/ Kill
  BY <1>3 DEF Interrupt, Kill
<1>4. CASE Editor
  BY <1>4 DEF Editor, Save, RemoveConfig
<1>5. CASE UNCHANGED vars
  BY <1>5 DEF vars, files
<1>6. QED
  BY <1>1, <1>2, <1>3, <1>4, <1>5 DEF Next

\* The phase at each step, and after it.
First == {"write", "check", "propose", "exchange", "install"}
Later == Steps \ First

LEMMA PhaseFacts ==
  /\ pc \in First => Phase = "before"
  /\ pc \in Later => Phase = "after"
  /\ pc \in {"returned", "killed"} => Phase = "over"
  /\ pc = "interrupted" => Phase = "cut"
BY DEF Phase, First, Later, Steps, Conflict

LEMMA PhaseFactsNext ==
  /\ pc' \in First => Phase' = "before"
  /\ pc' \in Later => Phase' = "after"
  /\ pc' \in {"returned", "killed"} => Phase' = "over"
  /\ pc' = "interrupted" => Phase' = "cut"
BY DEF Phase, First, Later, Steps, Conflict

\* Where the commit may be after a step that is within a phase.
SamePhase ==
  \/ pc' = pc
  \/ pc \in First /\ pc' \in First
  \/ pc \in Later /\ pc' \in Later

LEMMA PhaseKept == ASSUME SamePhase PROVE Phase' = Phase
<1>1. CASE pc' = pc
  BY <1>1 DEF Phase
<1>2. QED
  BY <1>1, PhaseFacts, PhaseFactsNext DEF SamePhase

\* A step that moves no version and stays in its phase, or ends it, is none, or the
\* end, of the abstract commit.
LEMMA QuietStep ==
  ASSUME config' = config, saves' = saves, Aside' = Aside,
         SamePhase \/ (pc \in Steps /\ pc' \in {"returned", "killed"})
  PROVE  [Promise!Next]_(Promise!vars)
<1>1. CASE SamePhase
  BY <1>1, PhaseKept DEF Promise!vars
<1>2. CASE pc \in Steps /\ pc' \in {"returned", "killed"}
  <2>1. Phase \in {"before", "after"} /\ Phase' = "over"
    BY <1>2, PhaseFacts, PhaseFactsNext DEF Later
  <2>2. Promise!End
    BY <2>1 DEF Promise!End
  <2>3. QED
    BY <2>2 DEF Promise!Next
<1>3. QED
  BY <1>1, <1>2

\* An exchange after the commit puts back what it has displaced.
LEMMA SwapPutsBack ==
  ASSUME Swap, pc \in Later, pc' \in Later, temp # Absent,
         saves' = saves, copies' = copies
  PROVE  [Promise!Next]_(Promise!vars)
<1>1. temp \in Aside \cup {Old, Mine}
  BY DEF Aside
<1>2. Aside' \in {Aside \cup Promise!Foreign(config),
                  (Aside \ {temp}) \cup Promise!Foreign(config)}
  <2>1. CASE temp \in copies
    <3>1. Aside' = Aside \cup Promise!Foreign(config)
      BY <2>1 DEF Aside, Swap, Promise!Foreign
    <3>2. QED
      BY <3>1
  <2>2. CASE temp \notin copies
    <3>1. Aside' = (Aside \ {temp}) \cup Promise!Foreign(config)
      BY <2>2 DEF Aside, Swap, Promise!Foreign
    <3>2. QED
      BY <3>1
  <2>3. QED
    BY <2>1, <2>2
<1>3. Phase = "after" /\ Phase' = "after"
  BY PhaseFacts, PhaseFactsNext
<1>4. Promise!PutBack(temp)
  BY <1>2, <1>3 DEF Promise!PutBack, Swap
<1>5. QED
  BY <1>1, <1>4 DEF Promise!Next

\* The commit itself moves the file it replaces to the temporary file.
LEMMA Installs ==
  ASSUME pc \in First, pc' \in Later, config' = temp, temp = Mine, temp' = config,
         saves' = saves, copies' = copies
  PROVE  [Promise!Next]_(Promise!vars)
<1>1. Aside' = Aside \cup Promise!Foreign(config)
  BY DEF Aside, Promise!Foreign
<1>2. Promise!Install
  BY <1>1, PhaseFacts, PhaseFactsNext DEF Promise!Install
<1>3. QED
  BY <1>2 DEF Promise!Next

\* Only the transaction's own content, the one it has read or a copied version is
\* removed from the temporary file.
LEMMA AsideKept ==
  ASSUME copies' = copies,
         \/ temp' = temp
         \/ temp \in {Absent, Old, Mine} \cup copies /\ temp' \in {Absent, Mine}
  PROVE  Aside' = Aside
BY DEF Aside

LEMMA CopyKept ==
  ASSUME temp' = temp, copies' \in {copies, copies \cup {temp}}
  PROVE  Aside' = Aside
BY DEF Aside

\* The steps of the commit, one by one.
LEMMA CommitIsPromised ==
  ASSUME SafeInv, AsideKnown, Commit
  PROVE  [Promise!Next]_(Promise!vars)
<1> USE ContentAssumption, CleanFacts, KindFacts
    DEF SafeInv, TypeOK, TempKnown, SamePhase, First, Later, Steps, Conflict,
        Goto, files, digests, editor
<1>1. CASE WriteTemporary
  <2>1. config' = config /\ saves' = saves /\ copies' = copies
        /\ temp = Absent /\ temp' \in {Absent, Mine}
        /\ pc = "write" /\ pc' \in {"check", "returned"}
    BY <1>1 DEF WriteTemporary
  <2>2. QED
    BY <2>1, QuietStep, AsideKept
<1>2. CASE AssertSnapshotCurrent
  <2>1. config' = config /\ saves' = saves /\ copies' = copies
        /\ temp = Mine /\ temp' \in {Absent, Mine}
        /\ pc = "check" /\ pc' \in {"propose", "returned"}
    BY <1>2 DEF AssertSnapshotCurrent
  <2>2. QED
    BY <2>1, QuietStep, AsideKept
<1>3. CASE WriteProposed
  <2>1. config' = config /\ saves' = saves /\ copies' = copies
        /\ temp = Mine /\ temp' \in {Absent, Mine}
        /\ pc = "propose" /\ pc' \in {"exchange", "install", "returned"}
    BY <1>3 DEF WriteProposed
  <2>2. QED
    BY <2>1, QuietStep, AsideKept
<1>4. CASE AtomicExchange
  <2>1. CASE Swap /\ Goto("compare")
    BY <1>4, <2>1, Installs DEF AtomicExchange, Swap
  <2>2. CASE ~(Swap /\ Goto("compare"))
    <3>1. config' = config /\ saves' = saves /\ copies' = copies
          /\ temp = Mine /\ temp' \in {Absent, Mine}
          /\ pc = "exchange" /\ pc' = "returned"
      BY <1>4, <2>2 DEF AtomicExchange
    <3>2. QED
      BY <3>1, QuietStep, AsideKept
  <2>3. QED
    BY <2>1, <2>2
<1>5. CASE AtomicNoReplace
  <2>1. CASE config = Absent /\ config' = temp /\ temp' = Absent /\ Goto("compare")
    BY <1>5, <2>1, Installs DEF AtomicNoReplace
  <2>2. CASE ~(config = Absent /\ config' = temp /\ temp' = Absent /\ Goto("compare"))
    <3>1. config' = config /\ saves' = saves /\ copies' = copies
          /\ temp = Mine /\ temp' \in {Absent, Mine}
          /\ pc = "install" /\ pc' = "returned"
      BY <1>5, <2>2 DEF AtomicNoReplace, DropIfDigest, DropTemp, Return
    <3>2. QED
      BY <3>1, QuietStep, AsideKept
  <2>3. QED
    BY <2>1, <2>2
<1>6. CASE CompareDigests
  <2>1. config' = config /\ saves' = saves /\ copies' = copies /\ temp' = temp
        /\ pc = "compare" /\ pc' \in {"unlink_proposed", "unlink_temp", "returned", "copy", "restore", "drop"}
    BY <1>6 DEF CompareDigests, Return
  <2>2. QED
    BY <2>1, QuietStep, AsideKept
<1>7. CASE UnlinkCommittedTemporary
  <2>1. config' = config /\ saves' = saves /\ copies' = copies
        /\ temp = Old /\ temp' \in {Absent, temp}
        /\ pc = "unlink_temp" /\ pc' \in {"unlink_proposed", "returned"}
    BY <1>7 DEF UnlinkCommittedTemporary, Return
  <2>2. QED
    BY <2>1, QuietStep, AsideKept
<1>8. CASE UnlinkProposed
  <2>1. config' = config /\ saves' = saves /\ copies' = copies /\ temp' = temp
        /\ pc = "unlink_proposed" /\ pc' \in {"sync", "returned"}
    BY <1>8 DEF UnlinkProposed, Return
  <2>2. QED
    BY <2>1, QuietStep, AsideKept
<1>9. CASE SyncDirectory
  <2>1. config' = config /\ saves' = saves /\ copies' = copies /\ temp' = temp
        /\ pc = "sync" /\ pc' = "returned"
    BY <1>9 DEF SyncDirectory, Return
  <2>2. QED
    BY <2>1, QuietStep, AsideKept
<1>10. CASE CopyDisplaced
  <2>1. config' = config /\ saves' = saves /\ temp' = temp
        /\ copies' \in {copies, copies \cup {temp}}
        /\ pc = "copy" /\ pc' \in {"restore", "drop", "recover_safely"}
    BY <1>10 DEF CopyDisplaced
  <2>2. QED
    BY <2>1, QuietStep, CopyKept
<1>11. CASE RestoreDisplaced
  <2>1. CASE Swap /\ Goto("recheck")
    BY <1>11, <2>1, SwapPutsBack DEF RestoreDisplaced
  <2>2. CASE ~(Swap /\ Goto("recheck"))
    <3>1. config' = config /\ saves' = saves /\ copies' = copies /\ temp' = temp
          /\ pc = "restore" /\ pc' = "recover"
      BY <1>11, <2>2 DEF RestoreDisplaced
    <3>2. QED
      BY <3>1, QuietStep, AsideKept
  <2>3. QED
    BY <2>1, <2>2
<1>12. CASE CompareAgain
  <2>1. config' = config /\ saves' = saves /\ copies' = copies /\ temp' = temp
        /\ pc = "recheck" /\ pc' \in {"copy_again", "drop_again"}
    BY <1>12 DEF CompareAgain
  <2>2. QED
    BY <2>1, QuietStep, AsideKept
<1>13. CASE CopyDisplacedAgain
  <2>1. config' = config /\ saves' = saves /\ temp' = temp
        /\ copies' \in {copies, copies \cup {temp}}
        /\ pc = "copy_again" /\ pc' \in {"drop_again", "recover"}
    BY <1>13 DEF CopyDisplacedAgain
  <2>2. QED
    BY <2>1, QuietStep, CopyKept
<1>14. CASE DropDisplacedAgain
  <2>1. config' = config /\ saves' = saves /\ copies' = copies
        /\ pc = "drop_again" /\ pc' \in {"recover", "returned"}
    BY <1>14 DEF DropDisplacedAgain, Return
  <2>2. temp' = temp \/ (temp \in {Mine} \cup copies /\ temp' = Absent)
    BY <1>14 DEF DropDisplacedAgain, DropIfDigest, DropTemp
  <2>3. QED
    BY <2>1, <2>2, QuietStep, AsideKept
<1>15. CASE DropDisplaced
  <2>1. config' = config /\ saves' = saves /\ copies' = copies
        /\ pc = "drop" /\ pc' = "returned"
    BY <1>15 DEF DropDisplaced, Return
  <2>2. temp' = temp \/ (temp \in {Mine} \cup copies /\ temp' = Absent)
    BY <1>15 DEF DropDisplaced, DropIfDigest, DropTemp
  <2>3. QED
    BY <2>1, <2>2, QuietStep, AsideKept
<1>16. CASE RecoverSafely
  <2>1. config' = config /\ saves' = saves /\ copies' = copies /\ temp' = temp
        /\ pc = "recover_safely" /\ pc' \in {"recover_exchange", "recover"}
    BY <1>16 DEF RecoverSafely
  <2>2. QED
    BY <2>1, QuietStep, AsideKept
<1>17. CASE RecoverExchange
  <2>1. CASE Swap
    BY <1>17, <2>1, SwapPutsBack DEF RecoverExchange, AsideKnown
  <2>2. CASE ~Swap
    <3>1. config' = config /\ saves' = saves /\ copies' = copies /\ temp' = temp
          /\ pc = "recover_exchange" /\ pc' = "recover"
      BY <1>17, <2>2 DEF RecoverExchange
    <3>2. QED
      BY <3>1, QuietStep, AsideKept
  <2>3. QED
    BY <2>1, <2>2
<1>18. CASE Recover
  <2>1. config' = config /\ saves' = saves /\ copies' = copies
        /\ pc = "recover" /\ pc' = "returned"
    BY <1>18 DEF Recover, Return
  <2>2. temp' = temp \/ (temp = Mine /\ temp' = Absent)
    BY <1>18 DEF Recover, Digests, DropIfDigest, DropTemp
  <2>3. QED
    BY <2>1, <2>2, QuietStep, AsideKept
<1>19. QED
  BY <1>1, <1>2, <1>3, <1>4, <1>5, <1>6, <1>7, <1>8, <1>9, <1>10, <1>11, <1>12,
     <1>13, <1>14, <1>15, <1>16, <1>17, <1>18 DEF Commit

\* What the editor, an interrupt and a kill do.
LEMMA OthersArePromised ==
  ASSUME SafeInv, Interrupt \/ Kill \/ Editor \/ UNCHANGED vars
  PROVE  [Promise!Next]_(Promise!vars)
<1>1. CASE Interrupt
  <2>1. Aside' \subseteq Aside
    BY <1>1 DEF Interrupt, Aside
  <2>2. Phase \in {"before", "after"} /\ Phase' = "cut"
    BY <1>1, PhaseFacts, PhaseFactsNext DEF Interrupt, Goto, Later
  <2>3. Promise!Cut
    BY <1>1, <2>1, <2>2 DEF Interrupt, Promise!Cut, editor
  <2>4. QED
    BY <2>3 DEF Promise!Next
<1>2. CASE Kill
  BY <1>2, QuietStep, AsideKept DEF Kill, Goto, files, editor
<1>3. CASE Editor
  <2>1. config' \in File /\ saves' = saves + 1 /\ pc' = pc
        /\ temp' = temp /\ copies' = copies
    BY <1>3, ContentAssumption DEF Editor, Save, RemoveConfig, File
  <2>2. Aside' = Aside /\ Phase' = Phase
    BY <2>1 DEF Aside, Phase
  <2>3. Promise!Edit
    BY <2>1, <2>2 DEF Promise!Edit, File
  <2>4. QED
    BY <2>3 DEF Promise!Next
<1>4. CASE UNCHANGED vars
  BY <1>4, QuietStep, AsideKept DEF vars, files, editor, SamePhase
<1>5. QED
  BY <1>1, <1>2, <1>3, <1>4

\* Whatever the editor saves between any two calls, whichever calls fail, whatever
\* cannot be read and wherever the process is killed, the commit is a SafeReplace:
\* it installs its content once, and then only puts back what it has displaced.
THEOREM CommitImplementsPromise == Spec => ImplementsPromise
<1> SUFFICES Spec => Promise!Spec
  BY DEF ImplementsPromise
<1>1. Init => AsideKnown /\ Promise!Init
  <2> SUFFICES ASSUME Init PROVE AsideKnown /\ Promise!Init
    OBVIOUS
  <2>1. Aside = {} /\ Phase = "before"
    BY PhaseFacts DEF Init, Aside, First
  <2>2. QED
    BY <2>1 DEF Init, AsideKnown, Promise!Init
<1>2. AsideKnown /\ [Next]_vars => AsideKnown'
  BY AsideKnownKept
<1>3. SafeInv /\ AsideKnown /\ [Next]_vars => [Promise!Next]_(Promise!vars)
  BY CommitIsPromised, OthersArePromised DEF Next
<1>4. Spec => []SafeInv
  BY SafeInvariant
<1>5. QED
  BY <1>1, <1>2, <1>3, <1>4, PTL DEF Spec, Promise!Spec
=============================================================================
