---------------------------- MODULE ConfigCache -----------------------------
(***************************************************************************)
(* The configuration of a project, .nomad.json: the cache of load_config   *)
(* in config.py, save_config_file, and the tools that write through it,    *)
(* init_save_config and init_probe_target of tools/init.py.                *)
(*                                                                         *)
(* The worker threads of one server share three global variables and no    *)
(* lock: each access to one of them is a step, and so is each access to a  *)
(* file.  An editor writes the file when it likes, and the server may be   *)
(* killed.                                                                 *)
(***************************************************************************)
EXTENDS Naturals, FiniteSets

CONSTANTS
  Thread,    \* the worker threads of the server
  Version,   \* the valid configurations; every write makes another one
  Invalid,   \* contents an editor may leave that are no valid configuration
  MaxCalls,  \* bound: how many calls are made
  MaxEvents, \* bound: how often the editor acts, or the server is killed
  Faults     \* what may go wrong

ASSUME ConfigAssumption ==
  /\ Version \cap Invalid = {}
  /\ (Version \cup Invalid) \cap {"absent", "broken", "unconfigured", "none", "error"} = {}
  /\ MaxCalls \in Nat /\ MaxEvents \in Nat

\* ssh_error: the remote host does not answer; kill: the server is killed.
ASSUME FaultAssumption == Faults \subseteq {"ssh_error", "kill"}

VARIABLES
  file,    \* .nomad.json
  bak,     \* .nomad.json.bak
  tmp,     \* ..nomad.json.tmp.<pid>, one for all threads of the process
  cache,   \* _CONFIG_CACHE
  cpath,   \* whether _CONFIG_CACHE_PATH is the path of the file
  cmtime,  \* _CONFIG_CACHE_MTIME_NS
  pc,      \* the next step of each thread
  loc,     \* its local variables
  used,    \* the contents written so far, or about to be
  calls,   \* how many calls were made
  events,  \* how often the environment has acted
  mixed    \* history: the global variables were last assigned by two threads at a time

files == <<file, bak, tmp>>
globals == <<cache, cpath, cmtime, mixed>>
bounds == <<used, calls, events>>
vars == <<files, globals, pc, loc, bounds>>

\* broken: truncated, or written by two threads at a time.  Every write gives a file
\* another st_mtime_ns, so that a content is also the mtime of the write that made it.
Content == Version \cup Invalid \cup {"absent", "broken"}
Cached == Version \cup {"unconfigured", "none"}
Mtime == Content \cup {"none"}

\* The steps between the first access to the global variables and the last one.
Assigning == {"set_path", "set_mtime", "un_path", "un_mtime", "inv_path", "inv_mtime"}
Reading == {"check_path", "check_mtime", "copy", "un_copy"} \cup Assigning
LoadSteps == {"exists", "stat", "check_cache", "check_path", "check_mtime", "copy", "read",
              "set_cache", "set_path", "set_mtime", "un_cache", "un_path", "un_mtime",
              "un_copy"}
\* Those in which a save has the temporary file.
Writing == {"tmp_write", "replace"}
SaveSteps == {"mkdir", "probe", "bak_exists", "bak_read", "bak_open", "bak_write",
              "tmp_open", "inv_cache", "inv_path", "inv_mtime"} \cup Writing

\* stat: the mtime of the file; text: what was read of it; got: what load_config has
\* returned; new: what is to be saved; fd: what the temporary file it has opened became
\* (it may be renamed and replaced under it).  History: seen: what the file was since its
\* load began; raced: another thread has assigned the global variables while it used
\* them; late: the file, or the backup, was changed since it has looked for the one;
\* alone: no other save had the temporary file at the same time.
Locals == [op : {"load", "save", "probe"}, stat : Content, text : Content,
           got : Cached \cup {"error"}, new : Version \cup {"absent"},
           fd : {"tmp", "file", "gone"}, seen : SUBSET Content,
           raced : BOOLEAN, late : BOOLEAN, alone : BOOLEAN]
NoLocals == [op |-> "load", stat |-> "absent", text |-> "absent", got |-> "none",
             new |-> "absent", fd |-> "gone", seen |-> {},
             raced |-> FALSE, late |-> FALSE, alone |-> TRUE]

\* The variables keep to their ranges.
TypeOK ==
  /\ file \in Content /\ bak \in Content /\ tmp \in Content
  /\ cache \in Cached /\ cpath \in BOOLEAN /\ cmtime \in Mtime /\ mixed \in BOOLEAN
  /\ pc \in [Thread -> LoadSteps \cup SaveSteps \cup {"idle", "loaded"}]
  /\ loc \in [Thread -> Locals]
  /\ used \subseteq Version \cup Invalid
  /\ calls \in 0 .. MaxCalls /\ events \in 0 .. MaxEvents

-----------------------------------------------------------------------------
Init ==
  /\ \/ file = "absent" /\ used = {}
     \/ \E v \in Version : file = v /\ used = {v}
  /\ bak = "absent" /\ tmp = "absent"
  /\ cache = "none" /\ cpath = FALSE /\ cmtime = "none" /\ mixed = FALSE
  /\ pc = [t \in Thread |-> "idle"]
  /\ loc = [t \in Thread |-> NoLocals]
  /\ calls = 0 /\ events = 0

Fault(f) == f \in Faults
New == (Version \cup Invalid) \ used

Goto(t, step) == pc' = [pc EXCEPT ![t] = step]

\* What a file that is open becomes when the temporary file is renamed, or when the
\* editor replaces the configuration.
Renamed == [tmp |-> "file", file |-> "gone", gone |-> "gone"]
Replaced == [tmp |-> "tmp", file |-> "gone", gone |-> "gone"]
Same == [tmp |-> "tmp", file |-> "file", gone |-> "gone"]

\* The locals of u after somebody else's step.
Noted(u, fds) ==
  [loc[u] EXCEPT
     !.fd = fds[@],
     !.seen = IF pc[u] \in LoadSteps THEN @ \cup {file'} ELSE @,
     !.raced = @ \/ (pc[u] \in Reading /\ <<cache, cpath, cmtime>>' # <<cache, cpath, cmtime>>),
     !.late = @ \/ (/\ pc[u] \in SaveSteps
                   /\ (<<file, bak>>' # <<file, bak>> \/ fds # Same))]

\* t goes on to a step, with locals l.
Step(t, step, l) ==
  /\ Goto(t, step)
  /\ loc' = [u \in Thread |-> IF u = t THEN l ELSE Noted(u, Same)]

Goes(t, step) == Step(t, step, loc[t])
End(t) == Step(t, "idle", NoLocals)

-----------------------------------------------------------------------------
(* load_config *)

\* A tool is called.  init_save_config has validated what it is to save.
Begin(t) ==
  /\ pc[t] = "idle"
  /\ calls < MaxCalls
  /\ calls' = calls + 1
  /\ UNCHANGED <<files, globals, events>>
  /\ \/ \E op \in {"load", "probe"} :
          /\ Step(t, "exists", [NoLocals EXCEPT !.op = op, !.seen = {file}])
          /\ UNCHANGED used
     \/ \E v \in New \cap Version :
          /\ Step(t, "mkdir", [NoLocals EXCEPT !.op = "save", !.new = v])
          /\ used' = used \cup {v}

Loaded(t, got) == Step(t, "loaded", [loc[t] EXCEPT !.got = got])

Exists(t) ==
  /\ pc[t] = "exists"
  /\ UNCHANGED <<files, globals, bounds>>
  /\ Goes(t, IF file = "absent" THEN "un_cache" ELSE "stat")

Stat(t) ==
  /\ pc[t] = "stat"
  /\ UNCHANGED <<files, globals, bounds>>
  /\ IF file = "absent" THEN Loaded(t, "error")
     ELSE Step(t, "check_cache", [loc[t] EXCEPT !.stat = file])

\* Another thread has assigned some of the global variables, and not yet the others.
Midway(t) == \E u \in Thread \ {t} : pc[u] \in Assigning

CheckCache(t) ==
  /\ pc[t] = "check_cache"
  /\ UNCHANGED <<files, globals, bounds>>
  /\ Step(t, IF cache = "none" THEN "read" ELSE "check_path",
          [loc[t] EXCEPT !.raced = mixed \/ Midway(t)])

CheckPath(t) ==
  /\ pc[t] = "check_path"
  /\ UNCHANGED <<files, globals, bounds>>
  /\ Goes(t, IF cpath THEN "check_mtime" ELSE "read")

\* What is broken has an mtime of its own too.
CheckMtime(t) ==
  /\ pc[t] = "check_mtime"
  /\ UNCHANGED <<files, globals, bounds>>
  /\ Goes(t, IF cmtime = loc[t].stat /\ cmtime # "broken" THEN "copy" ELSE "read")

\* The copy is made of what the variable is by now.
Copy(t) ==
  /\ pc[t] = "copy"
  /\ UNCHANGED <<files, globals, bounds>>
  /\ Loaded(t, cache)

\* Mutant: what is read is not validated.
Read_Unvalidated(t) ==
  /\ pc[t] = "read"
  /\ UNCHANGED <<files, globals, bounds>>
  /\ IF file # "absent" THEN Step(t, "set_cache", [loc[t] EXCEPT !.text = file])
     ELSE Loaded(t, "error")

Read(t) ==
  /\ pc[t] = "read"
  /\ UNCHANGED <<files, globals, bounds>>
  /\ IF file \in Version THEN Step(t, "set_cache", [loc[t] EXCEPT !.text = file])
     ELSE Loaded(t, "error")

SetCache(t) ==
  /\ pc[t] = "set_cache"
  /\ cache' = loc[t].text
  /\ mixed' = Midway(t)
  /\ UNCHANGED <<files, cpath, cmtime, bounds>>
  /\ Goes(t, "set_path")

SetPath(t) ==
  /\ pc[t] = "set_path"
  /\ cpath' = TRUE
  /\ UNCHANGED <<files, cache, cmtime, mixed, bounds>>
  /\ Goes(t, "set_mtime")

\* Mutant: the mtime is looked up after the file was read.
SetMtime_Now(t) ==
  /\ pc[t] = "set_mtime"
  /\ cmtime' = file
  /\ UNCHANGED <<files, cache, cpath, mixed, bounds>>
  /\ Loaded(t, loc[t].text)

SetMtime(t) ==
  /\ pc[t] = "set_mtime"
  /\ cmtime' = loc[t].stat
  /\ UNCHANGED <<files, cache, cpath, mixed, bounds>>
  /\ Loaded(t, loc[t].text)

\* There was no file.
UnCache(t) ==
  /\ pc[t] = "un_cache"
  /\ cache' = "unconfigured"
  /\ mixed' = Midway(t)
  /\ UNCHANGED <<files, cpath, cmtime, bounds>>
  /\ Goes(t, "un_path")

UnPath(t) ==
  /\ pc[t] = "un_path"
  /\ cpath' = TRUE
  /\ UNCHANGED <<files, cache, cmtime, mixed, bounds>>
  /\ Goes(t, "un_mtime")

UnMtime(t) ==
  /\ pc[t] = "un_mtime"
  /\ cmtime' = "none"
  /\ UNCHANGED <<files, cache, cpath, mixed, bounds>>
  /\ Goes(t, "un_copy")

UnCopy(t) ==
  /\ pc[t] = "un_copy"
  /\ UNCHANGED <<files, globals, bounds>>
  /\ Loaded(t, cache)

\* A tool that only reads has its configuration; init_probe_target goes on if the
\* configuration is a remote one.
UseConfig(t) ==
  /\ pc[t] = "loaded"
  /\ UNCHANGED <<files, globals, bounds>>
  /\ IF loc[t].op = "probe" /\ loc[t].got \in Version THEN Goes(t, "probe") ELSE End(t)

-----------------------------------------------------------------------------
(* save_config_file *)

\* init_probe_target asks the remote host, and changes the configuration it has loaded.
Probe(t) ==
  /\ pc[t] = "probe"
  /\ UNCHANGED <<files, globals, calls, events>>
  /\ \/ \E v \in New \cap Version :
          /\ Step(t, "bak_exists", [loc[t] EXCEPT !.new = v, !.late = FALSE])
          /\ used' = used \cup {v}
     \/ Fault("ssh_error") /\ UNCHANGED used /\ End(t)

\* init_save_config makes the directories of the remote hosts first.
MakeDirectories(t) ==
  /\ pc[t] = "mkdir"
  /\ UNCHANGED <<files, globals, bounds>>
  /\ \/ Step(t, "bak_exists", [loc[t] EXCEPT !.late = FALSE])
     \/ Fault("ssh_error") /\ End(t)

\* Mutant: a backup that is there already is kept.
BakExists_Once(t) ==
  /\ pc[t] = "bak_exists"
  /\ UNCHANGED <<files, globals, bounds>>
  /\ Step(t, IF file = "absent" \/ bak # "absent" THEN "tmp_open" ELSE "bak_read",
          [loc[t] EXCEPT !.late = FALSE])

BakExists(t) ==
  /\ pc[t] = "bak_exists"
  /\ UNCHANGED <<files, globals, bounds>>
  /\ Step(t, IF file = "absent" THEN "tmp_open" ELSE "bak_read",
          [loc[t] EXCEPT !.late = FALSE])

BakRead(t) ==
  /\ pc[t] = "bak_read"
  /\ UNCHANGED <<files, globals, bounds>>
  /\ IF file = "absent" THEN End(t)
     ELSE Step(t, "bak_open", [loc[t] EXCEPT !.text = file])

BakOpen(t) ==
  /\ pc[t] = "bak_open"
  /\ bak' = "broken"
  /\ UNCHANGED <<file, tmp, globals, bounds>>
  /\ Goes(t, "bak_write")

\* The backups of two threads may be written over each other.
BakWrite(t) ==
  /\ pc[t] = "bak_write"
  /\ bak' \in IF bak = "broken" THEN {loc[t].text} ELSE {loc[t].text, "broken"}
  /\ UNCHANGED <<file, tmp, globals, bounds>>
  /\ Goes(t, "tmp_open")

\* Mutant: the configuration is written in place.
TmpOpen_InPlace(t) ==
  /\ pc[t] = "tmp_open"
  /\ file' = "broken"
  /\ UNCHANGED <<bak, tmp, globals, bounds>>
  /\ Step(t, "tmp_write", [loc[t] EXCEPT !.fd = "file"])

\* write_text truncates the file that another thread may have opened.
TmpOpen(t) ==
  /\ pc[t] = "tmp_open"
  /\ tmp' = "broken"
  /\ UNCHANGED <<file, bak, globals, bounds>>
  /\ Goto(t, "tmp_write")
  /\ LET others == {u \in Thread \ {t} : pc[u] \in Writing} IN
     loc' = [u \in Thread |->
               IF u = t THEN [loc[t] EXCEPT !.fd = "tmp", !.alone = (others = {})]
               ELSE [Noted(u, Same) EXCEPT !.alone = @ /\ u \notin others]]

\* It writes to the file it has opened, whatever that became.
TmpWrite(t) ==
  /\ pc[t] = "tmp_write"
  /\ LET over(content) == IF content = "broken" THEN {loc[t].new}
                          ELSE {loc[t].new, "broken"} IN
     \/ loc[t].fd = "tmp" /\ tmp' \in over(tmp) /\ UNCHANGED file
     \/ loc[t].fd = "file" /\ file' \in over(file) /\ UNCHANGED tmp
     \/ loc[t].fd = "gone" /\ UNCHANGED <<file, tmp>>
  /\ UNCHANGED <<bak, globals, bounds>>
  /\ Step(t, "replace", [loc[t] EXCEPT !.fd = "gone"])

\* The rename fails when another thread has renamed the temporary file already.
Replace(t) ==
  /\ pc[t] = "replace"
  /\ UNCHANGED <<bak, globals, bounds>>
  /\ IF tmp = "absent" THEN UNCHANGED <<file, tmp>> /\ End(t)
     ELSE /\ file' = tmp
          /\ tmp' = "absent"
          /\ Goto(t, "inv_cache")
          /\ loc' = [u \in Thread |-> IF u = t THEN loc[t] ELSE Noted(u, Renamed)]

InvCache(t) ==
  /\ pc[t] = "inv_cache"
  /\ cache' = "none"
  /\ mixed' = Midway(t)
  /\ UNCHANGED <<files, cpath, cmtime, bounds>>
  /\ Goes(t, "inv_path")

InvPath(t) ==
  /\ pc[t] = "inv_path"
  /\ cpath' = FALSE
  /\ UNCHANGED <<files, cache, cmtime, mixed, bounds>>
  /\ Goes(t, "inv_mtime")

InvMtime(t) ==
  /\ pc[t] = "inv_mtime"
  /\ cmtime' = "none"
  /\ UNCHANGED <<files, cache, cpath, mixed, bounds>>
  /\ End(t)

Load(t) ==
  \/ Exists(t) \/ Stat(t) \/ CheckCache(t) \/ CheckPath(t) \/ CheckMtime(t) \/ Copy(t)
  \/ Read(t) \/ SetCache(t) \/ SetPath(t) \/ SetMtime(t)
  \/ UnCache(t) \/ UnPath(t) \/ UnMtime(t) \/ UnCopy(t) \/ UseConfig(t)

Save(t) ==
  \/ Probe(t) \/ MakeDirectories(t) \/ BakExists(t) \/ BakRead(t) \/ BakOpen(t)
  \/ BakWrite(t) \/ TmpOpen(t) \/ TmpWrite(t) \/ Replace(t)
  \/ InvCache(t) \/ InvPath(t) \/ InvMtime(t)

-----------------------------------------------------------------------------
(* The environment *)

Event == events < MaxEvents /\ events' = events + 1 /\ UNCHANGED calls

\* An editor replaces or removes the file.
Edit ==
  /\ file' \in New \cup {"absent"}
  /\ file' # file
  /\ used' = used \cup ({file'} \ {"absent"})
  /\ UNCHANGED <<bak, tmp, globals, pc>>
  /\ loc' = [u \in Thread |-> Noted(u, Replaced)]
  /\ Event

\* The server is killed, and started again with another pid.
Kill ==
  /\ Fault("kill")
  /\ tmp' = "absent"
  /\ cache' = "none" /\ cpath' = FALSE /\ cmtime' = "none" /\ mixed' = FALSE
  /\ pc' = [t \in Thread |-> "idle"]
  /\ loc' = [t \in Thread |-> NoLocals]
  /\ UNCHANGED <<file, bak, used>>
  /\ Event

Next == (\E t \in Thread : Begin(t) \/ Load(t) \/ Save(t)) \/ Edit \/ Kill

Spec == Init /\ [][Next]_vars

-----------------------------------------------------------------------------
(* Properties *)

\* What load_config returns is what the file was at some time during the call, although
\* it compares the mtime, reads the file and fills the cache in steps and the file may
\* change between any two of them; unless another thread assigned the global variables
\* while this one used them, or two threads have mixed what they assigned.
LoadIsCurrent ==
  \A t \in Thread : pc[t] = "loaded" /\ ~loc[t].raced =>
    \/ loc[t].got = "error"
    \/ loc[t].got = "unconfigured" /\ "absent" \in loc[t].seen
    \/ loc[t].got \in loc[t].seen

\* The configuration is never a file that is half written, also when the server is
\* killed, unless two threads had the temporary file at the same time.
FileIsWhole ==
  [][file' = "broken" => file = "broken" \/ \E t \in Thread : pc[t] \in Writing /\ ~loc[t].alone]_vars

\* What a save overwrites is in the backup, and so is not lost when the new configuration
\* is a mistake; unless the file or the backup has changed since the save has looked.
BackupIsReplaced ==
  [][\A t \in Thread : pc[t] = "replace" /\ pc'[t] = "inv_cache" =>
       file = "absent" \/ bak = file \/ loc[t].late]_vars
=============================================================================
