----------------------------- MODULE CodexCommit -----------------------------
(***************************************************************************)
(* The commit of a project's .codex/config.toml by codex_atomic.py, against *)
(* an editor that saves the same file and takes no lock.                   *)
(*                                                                         *)
(* One transaction has read the file (its snapshot) and now replaces it.   *)
(* Every call that touches a file another program may touch is a step of   *)
(* its own.  Transactions of one project exclude each other by the         *)
(* transaction lock, and use random names for their own files, so that one *)
(* transaction and an editor are all the actors there are.                 *)
(*                                                                         *)
(* A file is its content: a member of Content, or Absent.                  *)
(***************************************************************************)
EXTENDS Naturals, FiniteSets

CONSTANTS
  Content,     \* what a configuration file may hold
  Absent,      \* no file
  Old,         \* the content the transaction has read, if there was a file
  Mine,        \* the content it wants to commit
  Saves,       \* what the editor may save
  MaxSaves,    \* bound: how often the editor saves
  Faults       \* what may go wrong

ASSUME ContentAssumption ==
  /\ Absent \notin Content
  /\ {Old, Mine} \subseteq Content
  /\ Old # Mine
  /\ Saves \subseteq Content
  /\ MaxSaves \in Nat
\* io_error: a call that changes the directory or writes a file fails; read_error:
\* a file cannot be opened as a regular file or read (it is a symbolic link, or no
\* descriptor is left); kill: the process dies; interrupt: it gets an exception
\* that is no Exception, a KeyboardInterrupt.
FaultKind == {"io_error", "read_error", "kill", "interrupt"}
ASSUME FaultAssumption == Faults \subseteq FaultKind

VARIABLES
  \* the files of the .codex directory
  config,     \* config.toml
  temp,       \* the temporary file of the transaction
  proposed,   \* whether the copy of the proposed content exists
  copies,     \* the contents of the preserved copies of concurrent versions
  \* the transaction
  snap,       \* the content it has read, or Absent
  pc,         \* its next step
  displaced,  \* the digest of what an exchange took out of config.toml
  active,     \* the digest of config.toml after an exchange
  report,     \* what it returns or raises
  \* the editor
  saves,      \* the number of saves and removals
  owed        \* its saves that it has not itself replaced or removed

files == <<config, temp, proposed, copies>>
digests == <<displaced, active>>
editor == <<saves, owed>>
vars == <<files, snap, pc, digests, report, editor>>

File == Content \cup {Absent}
Kind == {"none", "committed", "cleanup_failed", "durability_uncertain",
         "conflict", "recovery_required", "write_failed"}
Report == [kind : Kind, committed : BOOLEAN, temp : BOOLEAN]

\* Steps at which the transaction has seen a conflict.
Conflict == {"copy", "restore", "recheck", "copy_again", "drop", "drop_again",
             "recover_safely", "recover_exchange", "recover"}
Steps == {"write", "check", "propose", "exchange", "install", "compare",
          "unlink_temp", "unlink_proposed", "sync"} \cup Conflict
Pc == Steps \cup {"returned", "interrupted", "killed"}

IoError == "io_error" \in Faults
ReadError == "read_error" \in Faults

\* What _file_digest_at may answer: Absent stands for None.
Digests(file) == {file} \cup (IF ReadError THEN {Absent} ELSE {})

-----------------------------------------------------------------------------
Init ==
  /\ snap \in {Old, Absent}
  /\ config = snap
  /\ temp = Absent /\ proposed = FALSE /\ copies = {}
  /\ pc = "write"
  /\ displaced = Absent /\ active = Absent
  /\ report = [kind |-> "none", committed |-> FALSE, temp |-> FALSE]
  /\ saves = 0 /\ owed = {}

Goto(step) == pc' = step

\* The transaction ends; tempReported is whether the report names the temporary file.
Return(kind, committed, tempReported) ==
  /\ Goto("returned")
  /\ report' = [kind |-> kind, committed |-> committed, temp |-> tempReported]

\* An unlink of the transaction's own file; a failure is ignored.
DropTemp == temp' = Absent \/ (IoError /\ UNCHANGED temp)
DropProposed == proposed' = FALSE \/ (IoError /\ UNCHANGED proposed)

\* _unlink_if_digest removes nothing when the digest was None, or is None now.
DropIfDigest(digest) ==
  \/ digest # Absent /\ temp = digest /\ DropTemp
  \/ (digest = Absent \/ temp # digest \/ ReadError) /\ UNCHANGED temp

\* The end of a transaction whose error names no preserved file: both finally
\* clauses remove the transaction's own files.
ReturnAndClean(kind, committed) ==
  /\ Return(kind, committed, FALSE)
  /\ DropTemp /\ DropProposed

-----------------------------------------------------------------------------
(* Up to the first change of config.toml                                   *)

\* Mutant: a failed write of the temporary file is ignored.
WriteTemporary_Ignored ==
  /\ pc = "write"
  /\ temp' = Mine \/ UNCHANGED temp
  /\ Goto("check")
  /\ UNCHANGED <<config, proposed, copies, snap, digests, report, editor>>

WriteTemporary ==
  /\ pc = "write"
  /\ \/ /\ temp' = Mine
        /\ Goto("check")
        /\ UNCHANGED <<report, proposed>>
     \/ /\ IoError
        /\ ReturnAndClean("write_failed", FALSE)
  /\ UNCHANGED <<config, copies, snap, digests, editor>>

\* _assert_project_snapshot_current_fd compares existence, digest and identity.
\* A file saved again with the same content may have another identity.
AssertSnapshotCurrent ==
  /\ pc = "check"
  /\ \/ /\ config = snap
        /\ Goto("propose")
        /\ UNCHANGED <<report, temp, proposed>>
     \/ /\ config # snap \/ saves > 0 \/ ReadError
        /\ ReturnAndClean("conflict", FALSE)
  /\ UNCHANGED <<config, copies, snap, digests, editor>>

WriteProposed ==
  /\ pc = "propose"
  /\ \/ /\ proposed' = TRUE
        /\ Goto(IF snap = Absent THEN "install" ELSE "exchange")
        /\ UNCHANGED <<report, temp>>
     \/ /\ IoError
        /\ ReturnAndClean("write_failed", FALSE)
  /\ UNCHANGED <<config, copies, snap, digests, editor>>

Swap == config' = temp /\ temp' = config

\* Mutant: a rename over config.toml, after the old content was kept aside.
AtomicExchange_Rename ==
  /\ pc = "exchange"
  /\ config' = temp /\ temp' = snap
  /\ Goto("compare")
  /\ UNCHANGED <<proposed, copies, snap, digests, report, editor>>

\* The exchange fails when there is no config.toml (any more).
AtomicExchange ==
  /\ pc = "exchange"
  /\ \/ /\ config # Absent
        /\ Swap
        /\ Goto("compare")
        /\ UNCHANGED <<report, proposed>>
     \/ /\ IoError \/ config = Absent
        /\ ReturnAndClean("write_failed", FALSE)
        /\ UNCHANGED config
  /\ UNCHANGED <<copies, snap, digests, editor>>

AtomicNoReplace ==
  /\ pc = "install"
  /\ \/ /\ config = Absent
        /\ config' = temp /\ temp' = Absent
        /\ Goto("compare")
        /\ UNCHANGED <<report, proposed>>
     \/ /\ config # Absent   \* FileExistsError
        /\ DropIfDigest(Mine)
        /\ Return("conflict", FALSE, FALSE)
        /\ UNCHANGED <<config, proposed>>
     \/ /\ IoError
        /\ ReturnAndClean("write_failed", FALSE)
        /\ UNCHANGED config
  /\ UNCHANGED <<copies, snap, digests, editor>>

-----------------------------------------------------------------------------
(* The digests after it: no conflict                                       *)

\* displaced stays None when the snapshot had no file: nothing was exchanged.
CompareDigests ==
  /\ pc = "compare"
  /\ \E d \in Digests(temp), a \in Digests(config) :
       /\ displaced' = d /\ active' = a
       /\ \/ /\ d = snap /\ a = Mine
             /\ Goto(IF snap = Absent THEN "unlink_proposed" ELSE "unlink_temp")
             /\ UNCHANGED report
          \/ /\ snap = Absent /\ a # Mine
             /\ Return("conflict", FALSE, FALSE)
          \/ /\ snap # Absent
             /\ d # snap \/ a # Mine
             /\ Goto(IF d \notin {Absent, Mine} THEN "copy"
                     ELSE IF d = Mine /\ a = Mine THEN "restore" ELSE "drop")
             /\ UNCHANGED report
  /\ UNCHANGED <<files, snap, editor>>

UnlinkCommittedTemporary ==
  /\ pc = "unlink_temp"
  /\ \/ /\ temp' = Absent
        /\ Goto("unlink_proposed")
        /\ UNCHANGED <<report, proposed>>
     \/ /\ IoError
        /\ Return("cleanup_failed", TRUE, TRUE)
        /\ DropProposed
        /\ UNCHANGED temp
  /\ UNCHANGED <<config, copies, snap, digests, editor>>

UnlinkProposed ==
  /\ pc = "unlink_proposed"
  /\ \/ proposed' = FALSE /\ Goto("sync") /\ UNCHANGED report
     \/ IoError /\ Return("cleanup_failed", TRUE, FALSE) /\ UNCHANGED proposed
  /\ UNCHANGED <<config, temp, copies, snap, digests, editor>>

SyncDirectory ==
  /\ pc = "sync"
  /\ \/ Return("committed", TRUE, FALSE)
     \/ IoError /\ Return("durability_uncertain", TRUE, FALSE)
  /\ UNCHANGED <<files, snap, digests, editor>>

-----------------------------------------------------------------------------
(* _resolve_exchange_conflict                                              *)

\* Mutant: the displaced version is copied and not put back.
CopyDisplaced_NoRestore ==
  /\ pc = "copy"
  /\ copies' = copies \cup {temp}
  /\ Goto("drop")
  /\ UNCHANGED <<config, temp, proposed, snap, digests, report, editor>>

CopyDisplaced ==
  /\ pc = "copy"
  /\ \/ /\ copies' = copies \cup {temp}
        /\ Goto(IF active = Mine THEN "restore" ELSE "drop")
     \/ (IoError \/ ReadError) /\ Goto("recover_safely") /\ UNCHANGED copies
  /\ UNCHANGED <<config, temp, proposed, snap, digests, report, editor>>

\* Mutant: the displaced version is put back by a rename.
RestoreDisplaced_Rename ==
  /\ pc = "restore"
  /\ config' = temp /\ temp' = Absent
  /\ Goto("recheck")
  /\ UNCHANGED <<proposed, copies, snap, digests, report, editor>>

RestoreDisplaced ==
  /\ pc = "restore"
  /\ \/ config # Absent /\ Swap /\ Goto("recheck")
     \/ (IoError \/ config = Absent) /\ Goto("recover") /\ UNCHANGED <<config, temp>>
  /\ UNCHANGED <<proposed, copies, snap, digests, report, editor>>

\* active and displaced become the digests after the second exchange.
CompareAgain ==
  /\ pc = "recheck"
  /\ active' \in Digests(config)
  /\ displaced' \in Digests(temp)
  /\ Goto(IF displaced' \notin {Absent, Mine} THEN "copy_again" ELSE "drop_again")
  /\ UNCHANGED <<files, snap, report, editor>>

CopyDisplacedAgain ==
  /\ pc = "copy_again"
  /\ \/ copies' = copies \cup {temp} /\ Goto("drop_again")
     \/ (IoError \/ ReadError) /\ Goto("recover") /\ UNCHANGED copies
  /\ UNCHANGED <<config, temp, proposed, snap, digests, report, editor>>

DropDisplacedAgain ==
  /\ pc = "drop_again"
  /\ DropIfDigest(displaced)
  /\ \/ active \in {Absent, Mine} /\ Goto("recover") /\ UNCHANGED report
     \/ active \notin {Absent, Mine} /\ Return("conflict", FALSE, FALSE)
  /\ UNCHANGED <<config, proposed, copies, snap, digests, editor>>

DropDisplaced ==
  /\ pc = "drop"
  /\ DropIfDigest(displaced)
  /\ Return("conflict", FALSE, FALSE)
  /\ UNCHANGED <<config, proposed, copies, snap, digests, editor>>

-----------------------------------------------------------------------------
(* _recover_from_conflict_failure, with and without restore_if_safe        *)

RecoverSafely ==
  /\ pc = "recover_safely"
  /\ \E a \in Digests(config), t \in Digests(temp) :
       Goto(IF a = Mine /\ t \notin {Absent, Mine} THEN "recover_exchange" ELSE "recover")
  /\ UNCHANGED <<files, snap, digests, report, editor>>

RecoverExchange ==
  /\ pc = "recover_exchange"
  /\ \/ config # Absent /\ Swap
     \/ (IoError \/ config = Absent) /\ UNCHANGED <<config, temp>>
  /\ Goto("recover")
  /\ UNCHANGED <<proposed, copies, snap, digests, report, editor>>

\* Mutant: the error does not name the temporary file it retains.
Recover_Unreported ==
  /\ pc = "recover"
  /\ Return("recovery_required", config = Mine, FALSE)
  /\ UNCHANGED <<files, snap, digests, editor>>

Recover ==
  /\ pc = "recover"
  /\ \E a \in Digests(config), t \in Digests(temp) :
       /\ IF a # Mine /\ t = Mine THEN DropIfDigest(Mine) ELSE UNCHANGED temp
       /\ Return("recovery_required", a = Mine, t # Mine /\ temp # Absent)
  /\ UNCHANGED <<config, proposed, copies, snap, digests, editor>>

-----------------------------------------------------------------------------
(* Ends that are no returns, and the editor                                *)

\* An exception that is no Exception runs the finally clauses only: the
\* temporary file is removed, the proposed copy is kept in a conflict.
Interrupt ==
  /\ "interrupt" \in Faults
  /\ pc \in Steps
  /\ Goto("interrupted")
  /\ temp' = Absent
  /\ proposed' = (proposed /\ pc \in Conflict)
  /\ UNCHANGED <<config, copies, snap, digests, report, editor>>

Kill ==
  /\ "kill" \in Faults
  /\ pc \in Steps
  /\ Goto("killed")
  /\ UNCHANGED <<files, snap, digests, report, editor>>

\* The editor saves by renaming a new file over config.toml, or removes it.
\* What it overwrites it no longer misses.
Save(x) ==
  /\ saves < MaxSaves
  /\ saves' = saves + 1
  /\ config' = x
  /\ owed' = (owed \ {config}) \cup {x}
  /\ UNCHANGED <<temp, proposed, copies, snap, pc, digests, report>>

RemoveConfig ==
  /\ saves < MaxSaves
  /\ config # Absent
  /\ saves' = saves + 1
  /\ config' = Absent
  /\ owed' = owed \ {config}
  /\ UNCHANGED <<temp, proposed, copies, snap, pc, digests, report>>

-----------------------------------------------------------------------------
Commit ==
  \/ WriteTemporary \/ AssertSnapshotCurrent \/ WriteProposed
  \/ AtomicExchange \/ AtomicNoReplace \/ CompareDigests
  \/ UnlinkCommittedTemporary \/ UnlinkProposed \/ SyncDirectory
  \/ CopyDisplaced \/ RestoreDisplaced \/ CompareAgain \/ CopyDisplacedAgain
  \/ DropDisplacedAgain \/ DropDisplaced
  \/ RecoverSafely \/ RecoverExchange \/ Recover

Editor == RemoveConfig \/ \E x \in Saves : Save(x)

Next == Commit \/ Interrupt \/ Kill \/ Editor

Spec == Init /\ [][Next]_vars

-----------------------------------------------------------------------------
(* Properties                                                              *)

\* The types of the files and of the transaction's variables.  There is a temporary
\* file whenever one is exchanged or copied, and a proposed copy in a conflict.
TypeOK ==
  /\ {config, temp, displaced, active} \subseteq File
  /\ proposed \in BOOLEAN
  /\ copies \subseteq Content
  /\ snap \in {Old, Absent}
  /\ pc \in Pc
  /\ report \in Report
  /\ saves \in 0 .. MaxSaves
  /\ owed \subseteq Content
  /\ pc \in {"check", "propose", "exchange", "install", "copy", "restore", "copy_again"}
     => temp # Absent
  /\ pc \in Conflict \cup {"exchange", "install", "compare"} => proposed

\* What the transaction must not lose: versions saved by the editor, and not
\* replaced by it, that hold something the transaction does not know of.
Unknown == owed \ {Old, Mine}

\* The versions that are still in the directory.
Present == {config, temp} \cup copies

\* No version the editor saved is lost, at any moment, unless an interrupt cuts the
\* transaction short: it is the active file, or was moved to the temporary file, or
\* was copied beside it.  Hence a killed commit leaves every version behind.
NoEditLost == pc # "interrupted" => Unknown \subseteq Present

\* The same of every end of a transaction, the interrupted ones included, as the
\* recovery promises ("preserving files if uncertain").
NoEditLostAtAll == Unknown \subseteq Present

\* When the transaction returns, the user finds every version: as the active file,
\* or in a file the error names; and in a conflict also the proposed content.
EditsReported ==
  pc = "returned" =>
    /\ Unknown \subseteq copies \cup {config} \cup (IF report.temp THEN {temp} ELSE {})
    /\ saves > 0 \/ report.kind \notin {"conflict", "recovery_required"}
    /\ report.kind = "recovery_required" => proposed

\* An error that says "not committed" leaves a configuration that is not the
\* transaction's: the caller stops the daemon that configuration would name.
UncommittedIsInactive ==
  pc = "returned" /\ ~report.committed => config # Mine \/ Mine \in owed

\* The commit as an observer of the directory sees it.
Aside == ({temp} \cup copies) \ {Old, Mine, Absent}
Phase ==
  CASE pc \in {"write", "check", "propose", "exchange", "install"} -> "before"
    [] pc \in {"returned", "killed"} -> "over"
    [] pc = "interrupted" -> "cut"
    [] OTHER -> "after"

Promise == INSTANCE SafeReplace WITH
  New <- Mine, file <- config, aside <- Aside, phase <- Phase, edits <- saves

\* The commit implements SafeReplace: whatever the editor saves between any two
\* calls, whichever of them fail and wherever the process is killed, config.toml
\* changes by the commit once to the new content and then only back to a version
\* it had displaced, and no version of the editor is dropped on the way.
ImplementsPromise == Promise!Spec
=============================================================================
