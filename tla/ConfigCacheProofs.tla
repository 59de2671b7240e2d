------------------------ MODULE ConfigCacheProofs ---------------------------
(***************************************************************************)
(* Proofs about the configuration of a project, for any number of threads, *)
(* configurations, calls and events of the environment.                    *)
(*                                                                         *)
(* Two facts carry the invariant.  Every content has one place: it is in   *)
(* the file, in the temporary file, or pending in one save, and once it    *)
(* has gone from all of them it is Gone for good, so that an mtime that is *)
(* found again is the mtime of the same write.  And the three variables of *)
(* the cache are either Mixed by several threads, or being assigned by one *)
(* thread, or Consistent: the configuration is the one of the mtime, or    *)
(* was read later (Pair), and then whoever has seen the older content has  *)
(* seen this one too.                                                      *)
(***************************************************************************)
EXTENDS ConfigCache, TLAPS

-----------------------------------------------------------------------------
(* The inductive invariant                                                   *)

Steps == LoadSteps \cup SaveSteps \cup {"idle", "loaded"}
Real == Version \cup Invalid
\* A save with a configuration that is not written yet.
Pending == {"mkdir", "bak_exists", "bak_read", "bak_open", "bak_write", "tmp_open", "tmp_write"}
\* The steps with the mtime of the file, and those without a file.
Stats == {"check_cache", "check_path", "check_mtime", "copy", "read",
          "set_cache", "set_path", "set_mtime"}
Uns == {"un_cache", "un_path", "un_mtime", "un_copy"}

\* A content that never comes back.
Gone(m) ==
  /\ m \in used /\ file # m /\ tmp # m
  /\ \A u \in Thread : pc[u] \in Pending => loc[u].new # m

\* A configuration v goes with the mtime m: it is the one of this write, or was read
\* later, and whoever has seen the older one has seen this one too.
Pair(m, v) ==
  \/ v = m
  \/ /\ Gone(m)
     /\ \A u \in Thread : pc[u] \in LoadSteps /\ m \in loc[u].seen => v \in loc[u].seen

\* Every content is in one place.
OnePlace ==
  /\ file \in used \cup {"absent", "broken"}
  /\ tmp \in (used \cap Version) \cup {"absent", "broken"}
  /\ tmp \in Version => tmp # file
  /\ \A u \in Thread : pc[u] \in Pending =>
       /\ loc[u].new \in used \cap Version /\ loc[u].new # file /\ loc[u].new # tmp
       /\ \A w \in Thread : pc[w] \in Pending /\ loc[w].new = loc[u].new => w = u

\* What a load knows of the file.
SeenInv(u) ==
  pc[u] \in LoadSteps =>
    /\ file \in loc[u].seen
    /\ \A m \in loc[u].seen \cap Real : m = file \/ Gone(m)
    /\ pc[u] \in Stats => loc[u].stat \in loc[u].seen \ {"absent"}
    /\ pc[u] \in {"set_cache", "set_path", "set_mtime"} =>
         /\ loc[u].text \in loc[u].seen \cap Version
         /\ loc[u].stat # "broken" => Pair(loc[u].stat, loc[u].text)
    /\ pc[u] \in Uns => "absent" \in loc[u].seen

\* The three global variables belong together.
Consistent ==
  /\ cache \in Version /\ cmtime \notin {"none", "broken"} => Pair(cmtime, cache)
  /\ cache = "unconfigured" => cmtime = "none"
  /\ cmtime # "absent"

\* One thread is assigning them.
Assigned(u) ==
  /\ pc[u] \in {"set_path", "set_mtime"} => cache = loc[u].text
  /\ pc[u] \in {"un_path", "un_mtime"} => cache = "unconfigured"
  /\ pc[u] \in {"inv_path", "inv_mtime"} => cache = "none"

Unmixed ==
  ~mixed =>
    /\ \A u, w \in Thread : pc[u] \in Assigning /\ pc[w] \in Assigning => u = w
    /\ \A u \in Thread : pc[u] \in Assigning => Assigned(u)
    /\ (\A u \in Thread : pc[u] \notin Assigning) => Consistent

\* What a load knows of the global variables.
ReadInv(u) ==
  ~loc[u].raced =>
    /\ pc[u] \in {"check_path", "check_mtime", "copy"} => cache # "none" /\ Consistent
    /\ pc[u] = "copy" => cmtime = loc[u].stat /\ cmtime # "broken"
    /\ pc[u] \in {"un_path", "un_mtime", "un_copy"} => cache = "unconfigured"
    /\ pc[u] = "loaded" => \/ loc[u].got = "error"
                           \/ loc[u].got = "unconfigured" /\ "absent" \in loc[u].seen
                           \/ loc[u].got \in loc[u].seen

\* A save that has the temporary file for itself.
AloneInv(u) ==
  pc[u] \in Writing =>
    /\ loc[u].fd = "file" => ~loc[u].alone
    /\ loc[u].alone =>
         /\ \A w \in Thread : pc[w] \in Writing => w = u
         /\ pc[u] = "tmp_write" => tmp = "broken" /\ loc[u].fd = "tmp"
         /\ pc[u] = "replace" => tmp \in Version

\* What a save knows of the backup.
BackupInv(u) ==
  /\ pc[u] = "tmp_write" /\ loc[u].fd = "file" => loc[u].late
  /\ ~loc[u].late =>
       /\ pc[u] \in {"bak_open", "bak_write"} => loc[u].text = file
       /\ pc[u] = "bak_write" => bak = "broken"
       /\ pc[u] \in {"tmp_open", "tmp_write", "replace"} => file = "absent" \/ bak = file

ThreadInv(u) == SeenInv(u) /\ ReadInv(u) /\ AloneInv(u) /\ BackupInv(u)

CacheInv == TypeOK /\ OnePlace /\ Unmixed /\ \A u \in Thread : ThreadInv(u)

-----------------------------------------------------------------------------
(* A step seen by the threads that do not take it                            *)

Fd == {"tmp", "file", "gone"}

LEMMA FdsFacts ==
  /\ Same \in [Fd -> Fd] /\ Renamed \in [Fd -> Fd] /\ Replaced \in [Fd -> Fd]
  /\ \A d \in Fd : Same[d] = d
  /\ Renamed["tmp"] = "file" /\ Renamed["file"] = "gone" /\ Renamed["gone"] = "gone"
  /\ Replaced["tmp"] = "tmp" /\ Replaced["file"] = "gone" /\ Replaced["gone"] = "gone"
BY DEF Same, Renamed, Replaced, Fd

LEMMA NotedFacts ==
  ASSUME TypeOK, NEW u \in Thread, NEW fds \in [Fd -> Fd], file' \in Content
  PROVE  LET n == Noted(u, fds) IN
         /\ n \in Locals
         /\ n.stat = loc[u].stat /\ n.text = loc[u].text /\ n.got = loc[u].got
         /\ n.new = loc[u].new /\ n.alone = loc[u].alone /\ n.op = loc[u].op
         /\ n.fd = fds[loc[u].fd]
         /\ n.seen = IF pc[u] \in LoadSteps THEN loc[u].seen \cup {file'} ELSE loc[u].seen
         /\ loc[u].raced => n.raced
         /\ pc[u] \in Reading /\ ~n.raced => UNCHANGED <<cache, cpath, cmtime>>
         /\ loc[u].late => n.late
         /\ pc[u] \in SaveSteps /\ ~n.late => UNCHANGED <<file, bak>> /\ fds = Same
<1> DEFINE raced == loc[u].raced \/ (pc[u] \in Reading /\ <<cache, cpath, cmtime>>' # <<cache, cpath, cmtime>>)
           late == loc[u].late \/ (/\ pc[u] \in SaveSteps
                                   /\ (<<file, bak>>' # <<file, bak>> \/ fds # Same))
           seen == IF pc[u] \in LoadSteps THEN loc[u].seen \cup {file'} ELSE loc[u].seen
           fd == fds[loc[u].fd]
<1>1. loc[u] \in Locals
  BY DEF TypeOK
<1>2. raced \in BOOLEAN /\ late \in BOOLEAN
  OBVIOUS
<1>3. fd \in Fd /\ seen \in SUBSET Content
  BY <1>1 DEF Locals, Fd
<1>4. Noted(u, fds) = [loc[u] EXCEPT !.fd = fd, !.seen = seen, !.raced = raced, !.late = late]
  BY DEF Noted
<1>5. /\ raced <=> loc[u].raced \/ (pc[u] \in Reading /\ ~UNCHANGED <<cache, cpath, cmtime>>)
      /\ late <=> loc[u].late \/ (pc[u] \in SaveSteps /\ ~(UNCHANGED <<file, bak>> /\ fds = Same))
  OBVIOUS
<1> HIDE DEF raced, late, seen, fd
<1>6. LET n == Noted(u, fds) IN
      /\ n \in Locals
      /\ n.stat = loc[u].stat /\ n.text = loc[u].text /\ n.got = loc[u].got
      /\ n.new = loc[u].new /\ n.alone = loc[u].alone /\ n.op = loc[u].op
      /\ n.fd = fd /\ n.seen = seen /\ n.raced = raced /\ n.late = late
  BY <1>1, <1>2, <1>3, <1>4 DEF Locals, Fd
<1> QED
  BY <1>5, <1>6 DEF seen, fd

\* What becomes of the locals of u when somebody else acts.
Watched(u, fds) ==
  /\ pc'[u] = pc[u]
  /\ loc'[u].stat = loc[u].stat /\ loc'[u].text = loc[u].text /\ loc'[u].got = loc[u].got
  /\ loc'[u].new = loc[u].new
  /\ loc'[u].fd = fds[loc[u].fd]
  /\ loc'[u].seen = IF pc[u] \in LoadSteps THEN loc[u].seen \cup {file'} ELSE loc[u].seen
  /\ loc[u].raced => loc'[u].raced
  /\ pc[u] \in Reading /\ ~loc'[u].raced => UNCHANGED <<cache, cpath, cmtime>>
  /\ loc[u].late => loc'[u].late
  /\ pc[u] \in SaveSteps /\ ~loc'[u].late => UNCHANGED <<file, bak>> /\ fds = Same

LEMMA WatchedFacts ==
  ASSUME TypeOK, NEW u \in Thread, NEW fds \in [Fd -> Fd], file' \in Content,
         pc'[u] = pc[u], loc'[u] = Noted(u, fds)
  PROVE  loc'[u] \in Locals /\ Watched(u, fds) /\ loc'[u].alone = loc[u].alone
BY NotedFacts DEF Watched

\* A step of t.
LEMMA StepFacts ==
  ASSUME TypeOK, NEW t \in Thread, NEW step \in Steps, NEW l \in Locals,
         Step(t, step, l), file' \in Content
  PROVE  /\ pc' \in [Thread -> Steps] /\ loc' \in [Thread -> Locals]
         /\ pc'[t] = step /\ loc'[t] = l
         /\ \A u \in Thread \ {t} : Watched(u, Same) /\ loc'[u].alone = loc[u].alone
<1>1. pc \in [Thread -> Steps]
  BY DEF TypeOK, Steps
<1>2. pc' \in [Thread -> Steps] /\ pc'[t] = step /\ \A u \in Thread \ {t} : pc'[u] = pc[u]
  BY <1>1 DEF Step, Goto
<1>3. /\ loc' = [u \in Thread |-> IF u = t THEN l ELSE Noted(u, Same)]
      /\ loc'[t] = l /\ \A u \in Thread \ {t} : loc'[u] = Noted(u, Same)
  BY DEF Step
<1>4. \A u \in Thread \ {t} :
        loc'[u] \in Locals /\ Watched(u, Same) /\ loc'[u].alone = loc[u].alone
  BY <1>2, <1>3, WatchedFacts, FdsFacts
<1>5. loc' \in [Thread -> Locals]
  <2>1. \A u \in Thread : loc'[u] \in Locals
    BY <1>3, <1>4
  <2>2. loc' = [u \in Thread |-> loc'[u]]
    BY <1>3
  <2> QED
    BY <2>1, <2>2
<1> QED
  BY <1>2, <1>3, <1>4, <1>5

-----------------------------------------------------------------------------
(* The contents                                                              *)

\* What has gone does not come back, and what the file was is gone.
Passes ==
  /\ \A m \in Real : Gone(m) => Gone(m)'
  /\ \A m \in Real : file = m /\ file' # m => Gone(m)'

LEMMA RealFacts ==
  /\ \A m \in Real : m \notin {"absent", "broken", "unconfigured", "none", "error"}
  /\ Version \subseteq Real
BY ConfigAssumption DEF Real

\* A thread does something else than to write or to begin a save.
LEMMA ContentsStay ==
  ASSUME TypeOK, OnePlace, NEW t \in Thread, UNCHANGED <<file, tmp, used>>,
         pc'[t] \in Pending => pc[t] \in Pending /\ loc'[t].new = loc[t].new,
         \A u \in Thread \ {t} : pc'[u] = pc[u] /\ loc'[u].new = loc[u].new
  PROVE  OnePlace' /\ Passes
<1>1. \A u \in Thread : pc'[u] \in Pending => pc[u] \in Pending /\ loc'[u].new = loc[u].new
  OBVIOUS
<1>2. OnePlace'
  BY <1>1 DEF OnePlace
<1>3. Passes
  BY <1>1 DEF Passes, Gone
<1> QED
  BY <1>2, <1>3

\* A thread makes a configuration that was never written.
LEMMA ContentsNew ==
  ASSUME TypeOK, OnePlace, NEW t \in Thread, NEW v \in New \cap Version,
         UNCHANGED <<file, tmp>>, used' = used \cup {v},
         pc[t] \notin Pending, loc'[t].new = v,
         \A u \in Thread \ {t} : pc'[u] = pc[u] /\ loc'[u].new = loc[u].new
  PROVE  OnePlace' /\ Passes
<1>1. v \in Version /\ v \notin used /\ v \in Real
  BY RealFacts DEF New
<1>2. v # file /\ v # tmp
  BY <1>1, RealFacts DEF OnePlace
<1>3. \A u \in Thread \ {t} : pc'[u] \in Pending =>
        pc[u] \in Pending /\ loc'[u].new = loc[u].new /\ loc[u].new # v
  BY <1>1 DEF OnePlace
<1>4. OnePlace'
  BY <1>1, <1>2, <1>3 DEF OnePlace
<1>5. Passes
  <2>1. ASSUME NEW m \in Real, Gone(m) PROVE Gone(m)'
    BY <1>1, <1>3, <2>1 DEF Gone
  <2> QED
    BY <2>1 DEF Passes
<1> QED
  BY <1>4, <1>5

\* A thread truncates the temporary file.
LEMMA ContentsOpen ==
  ASSUME TypeOK, OnePlace, NEW t \in Thread, UNCHANGED <<file, used>>, tmp' = "broken",
         pc[t] \in Pending, loc'[t].new = loc[t].new,
         \A u \in Thread \ {t} : pc'[u] = pc[u] /\ loc'[u].new = loc[u].new
  PROVE  OnePlace' /\ Passes
<1>1. \A u \in Thread : pc'[u] \in Pending => pc[u] \in Pending /\ loc'[u].new = loc[u].new
  OBVIOUS
<1>2. OnePlace'
  BY <1>1, RealFacts DEF OnePlace
<1>3. Passes
  BY <1>1, RealFacts DEF Passes, Gone
<1> QED
  BY <1>2, <1>3

\* A thread writes its configuration to the file it has opened.
LEMMA ContentsWrite ==
  ASSUME TypeOK, OnePlace, NEW t \in Thread, UNCHANGED used,
         pc[t] \in Pending, pc'[t] \notin Pending,
         tmp' \in {tmp, loc[t].new, "broken"}, file' \in {file, loc[t].new, "broken"},
         tmp' = tmp \/ file' = file,
         \A u \in Thread \ {t} : pc'[u] = pc[u] /\ loc'[u].new = loc[u].new
  PROVE  OnePlace' /\ Passes
<1>1. \A u \in Thread : pc'[u] \in Pending =>
        u # t /\ pc[u] \in Pending /\ loc'[u].new = loc[u].new /\ loc[u].new # loc[t].new
  BY DEF OnePlace
<1>2. loc[t].new \in used \cap Version /\ loc[t].new # file /\ loc[t].new # tmp
  BY DEF OnePlace
<1>3. OnePlace'
  BY <1>1, <1>2, RealFacts DEF OnePlace
<1>4. ASSUME NEW m \in Real, Gone(m) PROVE Gone(m)'
  <2>1. m # loc[t].new
    BY <1>4 DEF Gone
  <2> QED
    BY <1>1, <1>4, <2>1, RealFacts DEF Gone
<1>5. ASSUME NEW m \in Real, file = m, file' # m PROVE Gone(m)'
  <2>1. m \in used
    BY <1>5, RealFacts DEF OnePlace
  <2>2. tmp' = tmp /\ tmp # m
    BY <1>5, RealFacts DEF OnePlace
  <2>3. \A u \in Thread : pc'[u] \in Pending => loc'[u].new # m
    BY <1>1, <1>5 DEF OnePlace
  <2> QED
    BY <1>5, <2>1, <2>2, <2>3 DEF Gone
<1> QED
  BY <1>3, <1>4, <1>5 DEF Passes

\* A thread renames the temporary file.
LEMMA ContentsRename ==
  ASSUME TypeOK, OnePlace, NEW t \in Thread, UNCHANGED used,
         file' = tmp, tmp' = "absent", pc'[t] \notin Pending,
         \A u \in Thread \ {t} : pc'[u] = pc[u] /\ loc'[u].new = loc[u].new
  PROVE  OnePlace' /\ Passes
<1>1. \A u \in Thread : pc'[u] \in Pending => pc[u] \in Pending /\ loc'[u].new = loc[u].new
  OBVIOUS
<1>2. OnePlace'
  BY <1>1, RealFacts DEF OnePlace
<1>3. ASSUME NEW m \in Real, Gone(m) PROVE Gone(m)'
  BY <1>1, <1>3, RealFacts DEF Gone
<1>4. ASSUME NEW m \in Real, file = m, file' # m PROVE Gone(m)'
  <2>1. m \in used /\ m # "absent"
    BY <1>4, RealFacts DEF OnePlace
  <2>2. \A u \in Thread : pc'[u] \in Pending => loc'[u].new # m
    BY <1>1, <1>4 DEF OnePlace
  <2> QED
    BY <1>4, <2>1, <2>2 DEF Gone
<1> QED
  BY <1>2, <1>3, <1>4 DEF Passes

\* The editor replaces or removes the file.
LEMMA ContentsEdit ==
  ASSUME TypeOK, OnePlace, UNCHANGED tmp, file' \in New \cup {"absent"},
         used' = used \cup ({file'} \ {"absent"}),
         \A u \in Thread : pc'[u] = pc[u] /\ loc'[u].new = loc[u].new
  PROVE  OnePlace' /\ Passes
<1>1. file' \notin used
  BY RealFacts DEF New, TypeOK, Real
<1>2. file' # tmp \/ file' = "absent"
  BY <1>1, RealFacts DEF OnePlace, New, Real
<1>3. used \subseteq used' /\ file' \in used' \cup {"absent"}
  OBVIOUS
<1>4. \A u \in Thread : pc[u] \in Pending => loc[u].new # file'
  BY <1>1 DEF OnePlace
<1>5. OnePlace'
  BY <1>2, <1>3, <1>4, RealFacts DEF OnePlace
<1>6. ASSUME NEW m \in Real, Gone(m) PROVE Gone(m)'
  BY <1>1, <1>3, <1>6 DEF Gone
<1>7. ASSUME NEW m \in Real, file = m, file' # m PROVE Gone(m)'
  <2>1. m \in used /\ m # tmp
    BY <1>7, RealFacts DEF OnePlace
  <2>2. \A u \in Thread : pc'[u] \in Pending => loc'[u].new # m
    BY <1>7 DEF OnePlace
  <2> QED
    BY <1>3, <1>7, <2>1, <2>2 DEF Gone
<1> QED
  BY <1>5, <1>6, <1>7 DEF Passes

-----------------------------------------------------------------------------
(* The threads that watch                                                    *)

\* What the actor has seen grows with the file, or begins with it.
Grows(t) ==
  pc'[t] \in LoadSteps =>
    \/ pc[t] \in LoadSteps /\ loc'[t].seen = loc[t].seen /\ file' = file
    \/ loc'[t].seen = {file'}

LEMMA PairStays ==
  ASSUME TypeOK, Passes, \A u \in Thread : SeenInv(u),
         NEW actors \in SUBSET Thread, NEW fds,
         \A u \in actors : Grows(u), \A u \in Thread \ actors : Watched(u, fds),
         NEW m \in Real, NEW v, Pair(m, v)
  PROVE  Pair(m, v)'
<1>1. CASE v = m
  BY <1>1 DEF Pair
<1>2. CASE v # m
  <2>1. Gone(m) /\ \A u \in Thread : pc[u] \in LoadSteps /\ m \in loc[u].seen => v \in loc[u].seen
    BY <1>2 DEF Pair
  <2>2. Gone(m)' /\ file' # m
    BY <2>1 DEF Passes, Gone
  <2>3. ASSUME NEW u \in Thread, pc'[u] \in LoadSteps, m \in loc'[u].seen
        PROVE  v \in loc'[u].seen
    <3>1. CASE u \in actors
      <4>1. CASE loc'[u].seen = {file'}
        BY <2>2, <2>3, <4>1
      <4>2. CASE pc[u] \in LoadSteps /\ loc'[u].seen = loc[u].seen
        BY <2>1, <2>3, <4>2
      <4> QED
        BY <2>3, <3>1, <4>1, <4>2 DEF Grows
    <3>2. CASE u \notin actors
      <4>1. pc'[u] = pc[u] /\ (pc[u] \in LoadSteps => loc'[u].seen = loc[u].seen \cup {file'})
        BY <3>2 DEF Watched
      <4>2. m \in loc[u].seen
        BY <2>2, <2>3, <4>1
      <4> QED
        BY <2>1, <2>3, <4>1, <4>2
    <3> QED
      BY <3>1, <3>2
  <2> QED
    BY <2>2, <2>3 DEF Pair
<1> QED
  BY <1>1, <1>2

\* The mtimes of the invariant are contents.
LEMMA MtimeFacts ==
  ASSUME TypeOK
  PROVE  /\ cmtime \notin {"none", "broken", "absent"} => cmtime \in Real
         /\ \A u \in Thread : loc[u].stat \notin {"broken", "absent"} => loc[u].stat \in Real
BY DEF TypeOK, Locals, Mtime, Content, Real

LEMMA ConsistentStays ==
  ASSUME TypeOK, Consistent, UNCHANGED <<cache, cmtime>>,
         \A m \in Real : \A v : Pair(m, v) => Pair(m, v)'
  PROVE  Consistent'
<1>1. cache \in Version /\ cmtime \notin {"none", "broken"} => Pair(cmtime, cache)'
  <2>1. SUFFICES ASSUME NEW m, NEW v, m = cmtime, v = cache, v \in Version,
                        m \notin {"none", "broken"}
                 PROVE  Pair(m, v)'
    OBVIOUS
  <2> QED
    BY <2>1, MtimeFacts DEF Consistent
<1> QED
  BY <1>1 DEF Consistent

LEMMA SeenWatched ==
  ASSUME TypeOK, Passes, NEW u \in Thread, NEW fds, SeenInv(u), Watched(u, fds),
         \A m \in Real : \A v : Pair(m, v) => Pair(m, v)'
  PROVE  SeenInv(u)'
<1>1. SUFFICES ASSUME pc[u] \in LoadSteps PROVE SeenInv(u)'
  BY DEF SeenInv, Watched
<1>2. /\ loc'[u].seen = loc[u].seen \cup {file'} /\ pc'[u] = pc[u]
      /\ loc'[u].stat = loc[u].stat /\ loc'[u].text = loc[u].text
  BY <1>1 DEF Watched
<1>3. \A m \in loc'[u].seen \cap Real : m = file' \/ Gone(m)'
  BY <1>1, <1>2 DEF SeenInv, Passes
<1>4. /\ pc[u] \in Stats => loc[u].stat \in loc'[u].seen \ {"absent"}
      /\ pc[u] \in {"set_cache", "set_path", "set_mtime"} => loc[u].text \in loc'[u].seen \cap Version
      /\ pc[u] \in Uns => "absent" \in loc'[u].seen
  BY <1>1, <1>2 DEF SeenInv
<1>5. ASSUME pc[u] \in {"set_cache", "set_path", "set_mtime"}, loc[u].stat # "broken"
      PROVE  (Pair(loc[u].stat, loc[u].text))'
  <2>1. loc[u].stat \in Real /\ Pair(loc[u].stat, loc[u].text)
    BY <1>1, <1>5, MtimeFacts DEF SeenInv, Stats
  <2>2. SUFFICES ASSUME NEW m \in Real, NEW v, m = loc[u].stat, v = loc[u].text, Pair(m, v)
                 PROVE  Pair(m, v)'
    BY <1>2, <2>1
  <2> QED
    BY <2>2
<1> QED
  BY <1>2, <1>3, <1>4, <1>5 DEF SeenInv

LEMMA ReadWatched ==
  ASSUME TypeOK, NEW u \in Thread, NEW fds, ReadInv(u), Watched(u, fds),
         \A m \in Real : \A v : Pair(m, v) => Pair(m, v)'
  PROVE  ReadInv(u)'
<1>1. SUFFICES ASSUME ~loc'[u].raced PROVE ReadInv(u)'
  BY DEF ReadInv
<1>2. /\ ~loc[u].raced /\ pc'[u] = pc[u] /\ loc'[u].stat = loc[u].stat
      /\ loc'[u].got = loc[u].got
      /\ pc[u] \in Reading => UNCHANGED <<cache, cpath, cmtime>>
  BY <1>1 DEF Watched
<1>3. {"check_path", "check_mtime", "copy", "un_path", "un_mtime", "un_copy"} \subseteq Reading
  BY DEF Reading, Assigning
<1>4. pc[u] \in {"check_path", "check_mtime", "copy"} => cache' # "none" /\ Consistent'
  BY <1>2, <1>3, ConsistentStays DEF ReadInv
<1>5. /\ pc[u] = "copy" => cmtime' = loc[u].stat /\ cmtime' # "broken"
      /\ pc[u] \in {"un_path", "un_mtime", "un_copy"} => cache' = "unconfigured"
  BY <1>2, <1>3 DEF ReadInv
<1>6. pc[u] = "loaded" => loc'[u].seen = loc[u].seen
  BY DEF Watched, LoadSteps
<1> QED
  BY <1>2, <1>4, <1>5, <1>6 DEF ReadInv

LEMMA BackupWatched ==
  ASSUME TypeOK, NEW u \in Thread, NEW fds \in [Fd -> Fd], BackupInv(u), Watched(u, fds)
  PROVE  BackupInv(u)'
<1>1. {"bak_open", "bak_write", "tmp_open", "tmp_write", "replace"} \subseteq SaveSteps
  BY DEF SaveSteps, Writing
<1>2. loc[u].fd \in Fd
  BY DEF TypeOK, Locals, Fd
<1>3. CASE loc'[u].late
  BY <1>3 DEF BackupInv
<1>4. CASE ~loc'[u].late
  <2>1. ~loc[u].late /\ pc'[u] = pc[u] /\ loc'[u].text = loc[u].text
    BY <1>4 DEF Watched
  <2>2. pc[u] \in SaveSteps => UNCHANGED <<file, bak>> /\ loc'[u].fd = loc[u].fd
    BY <1>2, <1>4, FdsFacts DEF Watched
  <2> QED
    BY <1>1, <2>1, <2>2 DEF BackupInv
<1> QED
  BY <1>3, <1>4

\* Nobody but the actors does anything, and they leave the temporary file alone.
LEMMA AloneStays ==
  ASSUME TypeOK, \A u \in Thread : AloneInv(u), UNCHANGED tmp,
         NEW actors \in SUBSET Thread, NEW fds \in {Same, Replaced},
         \A u \in actors : pc'[u] \notin Writing,
         \A u \in Thread \ actors : Watched(u, fds) /\ loc'[u].alone = loc[u].alone
  PROVE  \A u \in Thread : AloneInv(u)'
<1>1. SUFFICES ASSUME NEW u \in Thread, pc'[u] \in Writing PROVE AloneInv(u)'
  BY DEF AloneInv
<1>2. \A w \in Thread : pc'[w] \in Writing => pc[w] = pc'[w] /\ w \notin actors
  BY DEF Watched
<1>3. loc'[u].fd = fds[loc[u].fd] /\ loc'[u].alone = loc[u].alone /\ pc[u] \in Writing
  BY <1>1, <1>2 DEF Watched
<1>4. loc[u].fd \in Fd
  BY DEF TypeOK, Locals, Fd
<1>5. /\ loc'[u].fd = "file" => loc[u].fd = "file"
      /\ loc[u].fd = "tmp" => loc'[u].fd = "tmp"
  BY <1>3, <1>4, FdsFacts DEF Fd
<1> QED
  BY <1>2, <1>3, <1>5 DEF AloneInv

LEMMA UnmixedStays ==
  ASSUME TypeOK, Unmixed, UNCHANGED globals,
         \A m \in Real : \A v : Pair(m, v) => Pair(m, v)',
         NEW actors \in SUBSET Thread, NEW fds,
         \A u \in actors : pc[u] \notin Assigning /\ pc'[u] \notin Assigning,
         \A u \in Thread \ actors : Watched(u, fds)
  PROVE  Unmixed'
<1>1. UNCHANGED <<cache, cmtime, mixed>>
  BY DEF globals
<1>2. \A u \in Thread : pc'[u] \in Assigning <=> pc[u] \in Assigning
  BY DEF Watched
<1>3. \A u \in Thread : pc'[u] \in Assigning => pc'[u] = pc[u] /\ loc'[u].text = loc[u].text
  BY DEF Watched
<1>4. \A u \in Thread : pc[u] \in Assigning /\ Assigned(u) => Assigned(u)'
  BY <1>1, <1>2, <1>3 DEF Assigned
<1>5. Consistent => Consistent'
  BY <1>1, ConsistentStays
<1> QED
  BY <1>1, <1>2, <1>4, <1>5 DEF Unmixed

-----------------------------------------------------------------------------
(* The steps of a thread                                                     *)

\* A step that changes the actor's own variables and at most the backup: everything but
\* its own invariant.
LEMMA MoveStep ==
  ASSUME CacheInv, NEW t \in Thread, NEW step \in Steps, NEW l \in Locals,
         Step(t, step, l), UNCHANGED <<file, tmp, globals, used>>, bak' \in Content,
         step \in Pending => pc[t] \in Pending /\ l.new = loc[t].new,
         step \in LoadSteps => \/ pc[t] \in LoadSteps /\ l.seen = loc[t].seen
                               \/ l.seen = {file},
         pc[t] \notin Assigning, step \notin Assigning, step \notin Writing,
         events' \in 0 .. MaxEvents, calls' \in 0 .. MaxCalls
  PROVE  /\ TypeOK' /\ OnePlace' /\ Unmixed' /\ Passes
         /\ pc'[t] = step /\ loc'[t] = l
         /\ \A m \in Real : \A v : Pair(m, v) => Pair(m, v)'
         /\ \A u \in Thread \ {t} : SeenInv(u)' /\ ReadInv(u)' /\ BackupInv(u)'
         /\ \A u \in Thread : AloneInv(u)'
<1>1. TypeOK /\ OnePlace /\ Unmixed /\ \A u \in Thread : ThreadInv(u)
  BY DEF CacheInv
<1> DEFINE actors == {t}
<1>0. /\ actors \in SUBSET Thread /\ \A u \in actors : u = t
      /\ \A u \in Thread \ actors : u \in Thread \ {t}
  OBVIOUS
<1> HIDE DEF actors
<1>2. file' \in Content
  BY <1>1 DEF TypeOK
<1>3. /\ pc' \in [Thread -> Steps] /\ loc' \in [Thread -> Locals]
      /\ pc'[t] = step /\ loc'[t] = l
      /\ \A u \in Thread \ {t} : Watched(u, Same) /\ loc'[u].alone = loc[u].alone
  BY <1>1, <1>2, StepFacts
<1>4. TypeOK'
  BY <1>1, <1>3 DEF TypeOK, globals, Steps
<1>5. OnePlace' /\ Passes
  BY <1>1, <1>3, ContentsStay DEF Watched
<1>6. Grows(t)
  BY <1>3 DEF Grows
<1>7. \A m \in Real : \A v : Pair(m, v) => Pair(m, v)'
  BY <1>0, <1>1, <1>3, <1>5, <1>6, PairStays DEF ThreadInv
<1>8. Unmixed'
  BY <1>0, <1>1, <1>3, <1>7, UnmixedStays
<1>9. \A u \in Thread \ {t} : SeenInv(u)' /\ ReadInv(u)' /\ BackupInv(u)'
  BY <1>1, <1>3, <1>5, <1>7, SeenWatched, ReadWatched, BackupWatched, FdsFacts DEF ThreadInv
<1>10. \A u \in Thread : AloneInv(u)'
  BY <1>0, <1>1, <1>3, AloneStays DEF ThreadInv
<1> QED
  BY <1>3, <1>4, <1>5, <1>7, <1>8, <1>9, <1>10

LEMMA QuietStep ==
  ASSUME CacheInv, NEW t \in Thread, NEW step \in Steps, NEW l \in Locals,
         Step(t, step, l), UNCHANGED <<file, bak, tmp, globals, used>>,
         step \in Pending => pc[t] \in Pending /\ l.new = loc[t].new,
         step \in LoadSteps => \/ pc[t] \in LoadSteps /\ l.seen = loc[t].seen
                               \/ l.seen = {file},
         pc[t] \notin Assigning, step \notin Assigning, step \notin Writing,
         events' \in 0 .. MaxEvents, calls' \in 0 .. MaxCalls
  PROVE  /\ TypeOK' /\ OnePlace' /\ Unmixed' /\ Passes
         /\ pc'[t] = step /\ loc'[t] = l
         /\ \A m \in Real : \A v : Pair(m, v) => Pair(m, v)'
         /\ \A u \in Thread \ {t} : SeenInv(u)' /\ ReadInv(u)' /\ BackupInv(u)'
         /\ \A u \in Thread : AloneInv(u)'
<1>1. bak' \in Content
  BY DEF CacheInv, TypeOK
<1> QED
  BY <1>1, MoveStep

\* What these two show, for the lemmas below.
Others(t, step, l) ==
  /\ TypeOK' /\ OnePlace' /\ Unmixed' /\ Passes
  /\ pc'[t] = step /\ loc'[t] = l
  /\ \A m \in Real : \A v : Pair(m, v) => Pair(m, v)'
  /\ \A u \in Thread \ {t} : SeenInv(u)' /\ ReadInv(u)' /\ BackupInv(u)'
  /\ \A u \in Thread : AloneInv(u)'

LEMMA Together ==
  ASSUME NEW t \in Thread, NEW step, NEW l, Others(t, step, l),
         SeenInv(t)', ReadInv(t)', BackupInv(t)'
  PROVE  CacheInv'
BY DEF Others, CacheInv, ThreadInv

LEMMA BoundsFacts ==
  ASSUME TypeOK, UNCHANGED bounds
  PROVE  events' \in 0 .. MaxEvents /\ calls' \in 0 .. MaxCalls /\ used' = used
BY DEF TypeOK, bounds

LEMMA NoLocalsFacts ==
  /\ NoLocals \in Locals /\ NoLocals.seen = {} /\ NoLocals.new = "absent"
  /\ NoLocals.raced = FALSE /\ NoLocals.late = FALSE
BY DEF NoLocals, Locals, Content, Cached

\* A thread is done.
LEMMA EndInv ==
  ASSUME CacheInv, NEW t \in Thread, End(t), UNCHANGED <<files, globals, used>>,
         events' \in 0 .. MaxEvents, calls' \in 0 .. MaxCalls, pc[t] \notin Assigning
  PROVE  CacheInv'
<1>1. /\ "idle" \in Steps /\ "idle" \notin Pending /\ "idle" \notin LoadSteps
      /\ "idle" \notin Assigning /\ "idle" \notin Writing
  BY DEF Steps, Pending, LoadSteps, Assigning, Writing
<1>2. Others(t, "idle", NoLocals)
  BY <1>1, NoLocalsFacts, QuietStep DEF Others, End, files
<1>3. SeenInv(t)' /\ ReadInv(t)' /\ BackupInv(t)'
  BY <1>1, <1>2 DEF Others, SeenInv, ReadInv, BackupInv
<1> QED
  BY <1>2, <1>3, Together

\* A load returns.
LEMMA LoadedInv ==
  ASSUME CacheInv, NEW t \in Thread, NEW got \in Cached \cup {"error"}, Loaded(t, got),
         UNCHANGED <<files, globals, bounds>>, pc[t] \notin Assigning,
         ~loc[t].raced => \/ got = "error"
                          \/ got = "unconfigured" /\ "absent" \in loc[t].seen
                          \/ got \in loc[t].seen
  PROVE  CacheInv'
<1> DEFINE l == [loc[t] EXCEPT !.got = got]
<1>1. /\ "loaded" \in Steps /\ "loaded" \notin Pending /\ "loaded" \notin LoadSteps
      /\ "loaded" \notin Assigning /\ "loaded" \notin Writing
  BY DEF Steps, Pending, LoadSteps, Assigning, Writing
<1>2. l \in Locals /\ l.got = got /\ l.raced = loc[t].raced /\ l.seen = loc[t].seen
  BY DEF CacheInv, TypeOK, Locals
<1>3. Step(t, "loaded", l)
  BY DEF Loaded
<1> HIDE DEF l
<1>4. Others(t, "loaded", l)
  BY <1>1, <1>2, <1>3, BoundsFacts, QuietStep DEF Others, files, CacheInv
<1>5. SeenInv(t)' /\ BackupInv(t)'
  BY <1>1, <1>4 DEF Others, SeenInv, BackupInv
<1>6. ReadInv(t)'
  BY <1>2, <1>4 DEF Others, ReadInv
<1> QED
  BY <1>4, <1>5, <1>6, Together

\* A load goes on with the same knowledge of the file.
LEMMA LoadMove ==
  ASSUME CacheInv, NEW t \in Thread, NEW step \in LoadSteps, NEW l \in Locals,
         Step(t, step, l), UNCHANGED <<files, globals, bounds>>,
         pc[t] \in LoadSteps, pc[t] \notin Assigning, step \notin Assigning,
         l.seen = loc[t].seen
  PROVE  /\ Others(t, step, l) /\ UNCHANGED <<file, bak, cache, cpath, cmtime>>
         /\ file \in loc[t].seen
         /\ \A m \in loc'[t].seen \cap Real : m = file' \/ Gone(m)'
         /\ Consistent => Consistent'
         /\ BackupInv(t)'
<1>1. step \in Steps /\ step \notin Pending /\ step \notin Writing /\ step \notin {"bak_open", "bak_write", "replace"}
  BY DEF Steps, Pending, LoadSteps, Writing
<1>2. Others(t, step, l)
  BY <1>1, BoundsFacts, QuietStep DEF Others, files, CacheInv
<1>3. SeenInv(t) /\ TypeOK
  BY DEF CacheInv, ThreadInv
<1>4. UNCHANGED <<file, bak, cache, cpath, cmtime>>
  BY DEF files, globals
<1>5. /\ file \in loc[t].seen
      /\ \A m \in loc'[t].seen \cap Real : m = file' \/ Gone(m)'
  BY <1>2, <1>3, <1>4 DEF SeenInv, Others, Passes
<1>6. Consistent => Consistent'
  BY <1>2, <1>3, <1>4, ConsistentStays DEF Others
<1>7. BackupInv(t)'
  BY <1>1, <1>2 DEF Others, BackupInv, Pending
<1> QED
  BY <1>2, <1>4, <1>5, <1>6, <1>7

LEMMA ExistsInv ==
  ASSUME CacheInv, NEW t \in Thread, Exists(t)
  PROVE  CacheInv'
<1> DEFINE step == IF file = "absent" THEN "un_cache" ELSE "stat"
<1>1. /\ pc[t] = "exists" /\ UNCHANGED <<files, globals, bounds>> /\ Step(t, step, loc[t])
      /\ loc[t] \in Locals
  BY DEF Exists, Goes, CacheInv, TypeOK
<1>2. /\ step \in {"un_cache", "stat"} /\ (step = "un_cache" => file = "absent")
      /\ step \in LoadSteps /\ step \notin Assigning
      /\ pc[t] \in LoadSteps /\ pc[t] \notin Assigning
  BY <1>1 DEF LoadSteps, Assigning
<1> HIDE DEF step
<1>3. /\ Others(t, step, loc[t]) /\ UNCHANGED <<file, bak, cache, cpath, cmtime>>
      /\ file \in loc[t].seen
      /\ \A m \in loc'[t].seen \cap Real : m = file' \/ Gone(m)'
      /\ BackupInv(t)'
  BY <1>1, <1>2, LoadMove
<1>4. SeenInv(t)'
  BY <1>2, <1>3 DEF Others, SeenInv, Stats, Uns
<1>5. ReadInv(t)'
  BY <1>2, <1>3 DEF Others, ReadInv
<1> QED
  BY <1>3, <1>4, <1>5, Together

LEMMA StatInv ==
  ASSUME CacheInv, NEW t \in Thread, Stat(t)
  PROVE  CacheInv'
<1>1. /\ pc[t] = "stat" /\ UNCHANGED <<files, globals, bounds>>
      /\ loc[t] \in Locals /\ file \in Content
  BY DEF Stat, CacheInv, TypeOK
<1>2. pc[t] \in LoadSteps /\ pc[t] \notin Assigning
  BY <1>1 DEF LoadSteps, Assigning
<1>3. CASE Loaded(t, "error")
  BY <1>1, <1>2, <1>3, LoadedInv
<1>4. CASE file # "absent" /\ Step(t, "check_cache", [loc[t] EXCEPT !.stat = file])
  <2> DEFINE l == [loc[t] EXCEPT !.stat = file]
  <2>1. l \in Locals /\ l.stat = file /\ l.seen = loc[t].seen /\ Step(t, "check_cache", l)
    BY <1>1, <1>4 DEF Locals
  <2> HIDE DEF l
  <2>2. "check_cache" \in LoadSteps /\ "check_cache" \notin Assigning
    BY DEF LoadSteps, Assigning
  <2>3. /\ Others(t, "check_cache", l) /\ UNCHANGED <<file, bak, cache, cpath, cmtime>>
        /\ file \in loc[t].seen
        /\ \A m \in loc'[t].seen \cap Real : m = file' \/ Gone(m)'
        /\ BackupInv(t)'
    BY <1>1, <1>2, <2>1, <2>2, LoadMove
  <2>4. SeenInv(t)'
    BY <1>4, <2>1, <2>3 DEF Others, SeenInv, Stats, Uns
  <2>5. ReadInv(t)'
    BY <2>3 DEF Others, ReadInv
  <2> QED
    BY <2>3, <2>4, <2>5, Together
<1> QED
  BY <1>3, <1>4 DEF Stat

LEMMA CheckCacheInv ==
  ASSUME CacheInv, NEW t \in Thread, CheckCache(t)
  PROVE  CacheInv'
<1> DEFINE step == IF cache = "none" THEN "read" ELSE "check_path"
           raced == mixed \/ Midway(t)
           l == [loc[t] EXCEPT !.raced = raced]
<1>1. /\ pc[t] = "check_cache" /\ UNCHANGED <<files, globals, bounds>> /\ Step(t, step, l)
      /\ loc[t] \in Locals
  BY DEF CheckCache, CacheInv, TypeOK
<1>2. /\ step \in {"read", "check_path"} /\ (step = "check_path" => cache # "none")
      /\ step \in LoadSteps /\ step \notin Assigning
      /\ pc[t] \in LoadSteps /\ pc[t] \notin Assigning
  BY <1>1 DEF LoadSteps, Assigning
<1>3. raced \in BOOLEAN
  BY DEF CacheInv, TypeOK
<1>4. ~raced => Consistent
  BY <1>2 DEF CacheInv, Unmixed, Midway
<1> HIDE DEF step, raced
<1>5. l \in Locals /\ l.raced = raced /\ l.seen = loc[t].seen /\ l.stat = loc[t].stat
  BY <1>1, <1>3 DEF Locals
<1> HIDE DEF l
<1>6. /\ Others(t, step, l) /\ UNCHANGED <<file, bak, cache, cpath, cmtime>>
      /\ file \in loc[t].seen
      /\ \A m \in loc'[t].seen \cap Real : m = file' \/ Gone(m)'
      /\ Consistent => Consistent'
      /\ BackupInv(t)'
  BY <1>1, <1>2, <1>5, LoadMove
<1>7. loc[t].stat \in loc[t].seen \ {"absent"}
  BY <1>1, <1>2 DEF CacheInv, ThreadInv, SeenInv, Stats
<1>8. SeenInv(t)'
  BY <1>2, <1>5, <1>6, <1>7 DEF Others, SeenInv, Uns
<1>9. ReadInv(t)'
  BY <1>2, <1>4, <1>5, <1>6 DEF Others, ReadInv
<1> QED
  BY <1>6, <1>8, <1>9, Together

\* The next two comparisons.
LEMMA CheckInv ==
  ASSUME CacheInv, NEW t \in Thread, CheckPath(t) \/ CheckMtime(t)
  PROVE  CacheInv'
<1>1. PICK step \in {"read", "check_mtime", "copy"} :
        /\ Step(t, step, loc[t]) /\ UNCHANGED <<files, globals, bounds>>
        /\ pc[t] \in {"check_path", "check_mtime"}
        /\ step = "copy" => cmtime = loc[t].stat /\ cmtime # "broken"
  BY DEF CheckPath, CheckMtime, Goes
<1>2. /\ step \in LoadSteps /\ step \notin Assigning
      /\ pc[t] \in LoadSteps /\ pc[t] \notin Assigning /\ loc[t] \in Locals
  BY <1>1 DEF LoadSteps, Assigning, CacheInv, TypeOK
<1>3. /\ Others(t, step, loc[t]) /\ UNCHANGED <<file, bak, cache, cpath, cmtime>>
      /\ file \in loc[t].seen
      /\ \A m \in loc'[t].seen \cap Real : m = file' \/ Gone(m)'
      /\ Consistent => Consistent'
      /\ BackupInv(t)'
  BY <1>1, <1>2, LoadMove
<1>4. loc[t].stat \in loc[t].seen \ {"absent"}
  BY <1>1, <1>2 DEF CacheInv, ThreadInv, SeenInv, Stats
<1>5. SeenInv(t)'
  BY <1>1, <1>3, <1>4 DEF Others, SeenInv, Uns
<1>6. ~loc[t].raced => cache # "none" /\ Consistent
  BY <1>1 DEF CacheInv, ThreadInv, ReadInv
<1>7. ReadInv(t)'
  BY <1>1, <1>3, <1>6 DEF Others, ReadInv
<1> QED
  BY <1>3, <1>5, <1>7, Together

LEMMA CopyInv ==
  ASSUME CacheInv, NEW t \in Thread, Copy(t) \/ UnCopy(t)
  PROVE  CacheInv'
<1>1. /\ pc[t] \in {"copy", "un_copy"} /\ UNCHANGED <<files, globals, bounds>> /\ Loaded(t, cache)
      /\ cache \in Cached /\ loc[t].stat \in Content
  BY DEF Copy, UnCopy, CacheInv, TypeOK, Locals
<1>2. pc[t] \in LoadSteps /\ pc[t] \notin Assigning
  BY <1>1 DEF LoadSteps, Assigning
<1>3. ReadInv(t) /\ SeenInv(t) /\ TypeOK
  BY DEF CacheInv, ThreadInv
<1>4. ASSUME pc[t] = "un_copy", ~loc[t].raced
      PROVE  cache = "unconfigured" /\ "absent" \in loc[t].seen
  BY <1>2, <1>3, <1>4 DEF ReadInv, SeenInv, Uns
<1>5. ASSUME pc[t] = "copy", ~loc[t].raced
      PROVE  cache \in loc[t].seen
  <2>1. /\ cache # "none" /\ Consistent /\ cmtime = loc[t].stat /\ cmtime # "broken"
        /\ loc[t].stat \in loc[t].seen \ {"absent"}
    BY <1>2, <1>3, <1>5 DEF ReadInv, SeenInv, Stats
  <2>2. loc[t].stat \in Real
    BY <1>3, <2>1, MtimeFacts
  <2>3. cache \in Version
    BY <1>1, <2>1, <2>2, RealFacts DEF Consistent, Cached
  <2>4. Pair(loc[t].stat, cache)
    BY <2>1, <2>2, <2>3, RealFacts DEF Consistent
  <2> QED
    BY <1>2, <2>1, <2>4 DEF Pair
<1> QED
  BY <1>1, <1>2, <1>4, <1>5, LoadedInv

LEMMA ReadStepInv ==
  ASSUME CacheInv, NEW t \in Thread, Read(t)
  PROVE  CacheInv'
<1>1. /\ pc[t] = "read" /\ UNCHANGED <<files, globals, bounds>>
      /\ loc[t] \in Locals /\ file \in Content
  BY DEF Read, CacheInv, TypeOK
<1>2. pc[t] \in LoadSteps /\ pc[t] \notin Assigning
  BY <1>1 DEF LoadSteps, Assigning
<1>3. CASE Loaded(t, "error")
  BY <1>1, <1>2, <1>3, LoadedInv
<1>4. CASE file \in Version /\ Step(t, "set_cache", [loc[t] EXCEPT !.text = file])
  <2> DEFINE l == [loc[t] EXCEPT !.text = file]
  <2>1. /\ l \in Locals /\ l.stat = loc[t].stat /\ l.seen = loc[t].seen /\ l.text = file
        /\ Step(t, "set_cache", l)
    BY <1>1, <1>4 DEF Locals
  <2> HIDE DEF l
  <2>2. "set_cache" \in LoadSteps /\ "set_cache" \notin Assigning
    BY DEF LoadSteps, Assigning
  <2>3. /\ Others(t, "set_cache", l) /\ UNCHANGED <<file, bak, cache, cpath, cmtime>>
        /\ file \in loc[t].seen
        /\ \A m \in loc'[t].seen \cap Real : m = file' \/ Gone(m)'
        /\ BackupInv(t)'
    BY <1>1, <1>2, <2>1, <2>2, LoadMove
  <2>4. loc[t].stat \in loc[t].seen \ {"absent"} /\ SeenInv(t)
    BY <1>1, <1>2 DEF CacheInv, ThreadInv, SeenInv, Stats
  <2>5. ASSUME NEW m \in Real, m = loc[t].stat PROVE Pair(m, file)
    <3>1. m = file \/ Gone(m)
      BY <1>2, <2>4, <2>5 DEF SeenInv
    <3>2. \A u \in Thread : pc[u] \in LoadSteps => file \in loc[u].seen
      BY DEF CacheInv, ThreadInv, SeenInv
    <3> QED
      BY <3>1, <3>2 DEF Pair
  <2>6. loc'[t].stat = loc[t].stat /\ loc'[t].text = file /\ loc'[t].seen = loc[t].seen
    BY <2>1, <2>3 DEF Others
  <2>7. ASSUME loc[t].stat # "broken" PROVE (Pair(loc[t].stat, loc[t].text))'
    <3>1. loc[t].stat \in Real
      BY <2>4, <2>7, MtimeFacts DEF CacheInv
    <3>2. ASSUME NEW m \in Real, NEW v, m = loc[t].stat, v = file PROVE Pair(m, v)'
      BY <2>3, <2>5, <3>2 DEF Others
    <3>3. SUFFICES ASSUME NEW m, NEW v, m = loc'[t].stat, v = loc'[t].text PROVE Pair(m, v)'
      OBVIOUS
    <3> QED
      BY <2>6, <3>1, <3>2, <3>3
  <2>8. SeenInv(t)'
    BY <1>4, <2>3, <2>4, <2>6, <2>7 DEF Others, SeenInv, Uns
  <2>9. ReadInv(t)'
    BY <2>3 DEF Others, ReadInv
  <2> QED
    BY <2>3, <2>8, <2>9, Together
<1> QED
  BY <1>3, <1>4 DEF Read

\* A thread assigns a global variable: everything but the variables' own invariant, and
\* the actor's.
AssignOthers(t, step, l) ==
  /\ TypeOK' /\ OnePlace' /\ Passes
  /\ pc'[t] = step /\ loc'[t] = l /\ UNCHANGED file
  /\ \A m \in Real : \A v : Pair(m, v) => Pair(m, v)'
  /\ \A u \in Thread \ {t} : pc'[u] = pc[u] /\ SeenInv(u)' /\ ReadInv(u)' /\ BackupInv(u)'
  /\ \A u \in Thread : AloneInv(u)'

LEMMA AssignStep ==
  ASSUME CacheInv, NEW t \in Thread, NEW step \in Steps, NEW l \in Locals,
         Step(t, step, l), UNCHANGED <<files, bounds>>,
         step \notin Pending, step \notin Writing,
         step \in LoadSteps => pc[t] \in LoadSteps /\ l.seen = loc[t].seen,
         cache' \in Cached, cpath' \in BOOLEAN, cmtime' \in Mtime, mixed' \in BOOLEAN
  PROVE  AssignOthers(t, step, l)
<1>1. TypeOK /\ OnePlace /\ \A u \in Thread : ThreadInv(u)
  BY DEF CacheInv
<1>2. file' \in Content /\ UNCHANGED <<file, bak, tmp>>
  BY <1>1 DEF TypeOK, files
<1>3. /\ pc' \in [Thread -> Steps] /\ loc' \in [Thread -> Locals]
      /\ pc'[t] = step /\ loc'[t] = l
      /\ \A u \in Thread \ {t} : Watched(u, Same) /\ loc'[u].alone = loc[u].alone
  BY <1>1, <1>2, StepFacts
<1>4. TypeOK'
  BY <1>1, <1>2, <1>3 DEF TypeOK, bounds, Steps
<1>5. OnePlace' /\ Passes
  BY <1>1, <1>2, <1>3, BoundsFacts, ContentsStay DEF Watched
<1>6. Grows(t)
  BY <1>2, <1>3 DEF Grows
<1> DEFINE actors == {t}
<1>7. /\ actors \in SUBSET Thread /\ \A u \in actors : u = t
      /\ \A u \in Thread \ actors : u \in Thread \ {t}
  OBVIOUS
<1> HIDE DEF actors
<1>8. \A m \in Real : \A v : Pair(m, v) => Pair(m, v)'
  BY <1>1, <1>3, <1>5, <1>6, <1>7, PairStays DEF ThreadInv
<1>9. \A u \in Thread \ {t} : SeenInv(u)' /\ ReadInv(u)' /\ BackupInv(u)'
  BY <1>1, <1>3, <1>5, <1>8, SeenWatched, ReadWatched, BackupWatched, FdsFacts DEF ThreadInv
<1>10. \A u \in Thread : AloneInv(u)'
  BY <1>1, <1>2, <1>3, <1>7, AloneStays DEF ThreadInv
<1>11. \A u \in Thread \ {t} : pc'[u] = pc[u]
  BY <1>3 DEF Watched
<1> QED
  BY <1>2, <1>3, <1>4, <1>5, <1>8, <1>9, <1>10, <1>11 DEF AssignOthers

LEMMA AssignTogether ==
  ASSUME NEW t \in Thread, NEW step, NEW l, AssignOthers(t, step, l),
         SeenInv(t)', ReadInv(t)', BackupInv(t)', Unmixed'
  PROVE  CacheInv'
BY DEF AssignOthers, CacheInv, ThreadInv

\* The first of the three assignments tells whether another thread is midway.
LEMMA FirstUnmixed ==
  ASSUME NEW t \in Thread, NEW step \in Assigning, NEW l, AssignOthers(t, step, l),
         mixed' = Midway(t), Assigned(t)'
  PROVE  Unmixed'
<1>1. SUFFICES ASSUME ~Midway(t) PROVE Unmixed'
  BY DEF Unmixed
<1>2. \A u \in Thread \ {t} : pc'[u] \notin Assigning
  BY <1>1 DEF Midway, AssignOthers
<1>3. pc'[t] \in Assigning
  BY DEF AssignOthers
<1> QED
  BY <1>2, <1>3 DEF Unmixed

\* The second one finds what the first has assigned.
LEMMA SecondUnmixed ==
  ASSUME CacheInv, NEW t \in Thread, NEW step \in Assigning, NEW l, AssignOthers(t, step, l),
         pc[t] \in Assigning, UNCHANGED <<cache, mixed>>, l.text = loc[t].text,
         step \in {"set_path", "set_mtime"} => pc[t] \in {"set_path", "set_mtime"},
         step \in {"un_path", "un_mtime"} => pc[t] \in {"un_path", "un_mtime"},
         step \in {"inv_path", "inv_mtime"} => pc[t] \in {"inv_path", "inv_mtime"}
  PROVE  Unmixed'
<1>1. SUFFICES ASSUME ~mixed PROVE Unmixed'
  BY DEF Unmixed
<1>2. Assigned(t) /\ \A u \in Thread : pc[u] \in Assigning => u = t
  BY <1>1 DEF CacheInv, Unmixed
<1>3. \A u \in Thread \ {t} : pc'[u] \notin Assigning
  BY <1>2 DEF AssignOthers
<1>4. pc'[t] \in Assigning /\ Assigned(t)'
  BY <1>2 DEF AssignOthers, Assigned
<1> QED
  BY <1>3, <1>4 DEF Unmixed

\* After the last one the variables belong together.
LEMMA ThirdUnmixed ==
  ASSUME CacheInv, NEW t \in Thread, NEW step, NEW l, AssignOthers(t, step, l),
         pc[t] \in Assigning, step \notin Assigning, UNCHANGED <<cache, mixed>>,
         ~mixed /\ Assigned(t) => Consistent'
  PROVE  Unmixed'
<1>1. SUFFICES ASSUME ~mixed PROVE Unmixed'
  BY DEF Unmixed
<1>2. Assigned(t) /\ \A u \in Thread : pc[u] \in Assigning => u = t
  BY <1>1 DEF CacheInv, Unmixed
<1>3. \A u \in Thread : pc'[u] \notin Assigning
  BY <1>2 DEF AssignOthers
<1> QED
  BY <1>1, <1>2, <1>3 DEF Unmixed

LEMMA SetCacheInv ==
  ASSUME CacheInv, NEW t \in Thread, SetCache(t) \/ SetPath(t)
  PROVE  CacheInv'
<1> DEFINE step == IF pc[t] = "set_cache" THEN "set_path" ELSE "set_mtime"
<1>1. /\ pc[t] \in {"set_cache", "set_path"} /\ UNCHANGED <<files, bounds>> /\ UNCHANGED cmtime
      /\ Step(t, step, loc[t])
      /\ loc[t] \in Locals /\ cmtime \in Mtime /\ cache \in Cached /\ mixed \in BOOLEAN
  BY DEF SetCache, SetPath, Goes, CacheInv, TypeOK, files
<1>2. /\ step \in Steps /\ step \notin Pending /\ step \notin Writing
      /\ step \in LoadSteps /\ pc[t] \in LoadSteps /\ step \in Assigning
      /\ step \in {"set_path", "set_mtime"}
      /\ step = "set_mtime" => pc[t] = "set_path"
  BY <1>1 DEF Steps, Pending, LoadSteps, Writing, Assigning
<1> HIDE DEF step
<1>3. /\ loc[t].text \in loc[t].seen \cap Version
      /\ loc[t].stat \in loc[t].seen \ {"absent"} /\ SeenInv(t)
      /\ loc[t].stat # "broken" => Pair(loc[t].stat, loc[t].text)
  BY <1>1, <1>2 DEF CacheInv, ThreadInv, SeenInv, Stats
<1>4. /\ cache' \in Cached /\ cpath' \in BOOLEAN /\ cmtime' \in Mtime /\ mixed' \in BOOLEAN
  <2>1. cpath \in BOOLEAN
    BY DEF CacheInv, TypeOK
  <2>2. CASE SetCache(t)
    BY <1>1, <1>3, <2>1, <2>2 DEF SetCache, Cached, Midway
  <2>3. CASE SetPath(t)
    BY <1>1, <2>3 DEF SetPath
  <2> QED
    BY <2>2, <2>3
<1>5. AssignOthers(t, step, loc[t])
  BY <1>1, <1>2, <1>4, AssignStep
<1>6. loc'[t] = loc[t] /\ pc'[t] = step /\ file' = file
  BY <1>5 DEF AssignOthers
<1>7. SeenInv(t)'
  <2>1. \A m \in loc'[t].seen \cap Real : m = file' \/ Gone(m)'
    BY <1>2, <1>3, <1>5, <1>6 DEF SeenInv, AssignOthers, Passes
  <2>2. ASSUME loc[t].stat # "broken" PROVE (Pair(loc[t].stat, loc[t].text))'
    <3>1. loc[t].stat \in Real
      BY <1>3, <2>2, MtimeFacts DEF CacheInv
    <3>2. SUFFICES ASSUME NEW m \in Real, NEW v, m = loc[t].stat, v = loc[t].text PROVE Pair(m, v)'
      BY <1>6, <3>1
    <3> QED
      BY <1>3, <1>5, <2>2, <3>2 DEF AssignOthers
  <2>3. file \in loc[t].seen
    BY <1>2, <1>3 DEF SeenInv
  <2> QED
    BY <1>2, <1>3, <1>6, <2>1, <2>2, <2>3 DEF SeenInv, Uns
<1>8. ReadInv(t)' /\ BackupInv(t)'
  BY <1>2, <1>6 DEF ReadInv, BackupInv
<1>9. Unmixed'
  <2>1. CASE SetCache(t)
    <3>1. mixed' = Midway(t) /\ cache' = loc[t].text
      BY <2>1 DEF SetCache
    <3>2. Assigned(t)'
      BY <1>2, <1>6, <3>1 DEF Assigned
    <3> QED
      BY <1>2, <1>5, <3>1, <3>2, FirstUnmixed
  <2>2. CASE SetPath(t)
    <3>1. pc[t] = "set_path" /\ UNCHANGED <<cache, mixed>>
      BY <2>2 DEF SetPath
    <3>2. pc[t] \in Assigning
      BY <3>1 DEF Assigning
    <3> QED
      BY <1>2, <1>5, <3>1, <3>2, SecondUnmixed
  <2> QED
    BY <2>1, <2>2
<1> QED
  BY <1>5, <1>7, <1>8, <1>9, AssignTogether

LEMMA SetMtimeInv ==
  ASSUME CacheInv, NEW t \in Thread, SetMtime(t)
  PROVE  CacheInv'
<1> DEFINE l == [loc[t] EXCEPT !.got = loc[t].text]
<1>1. /\ pc[t] = "set_mtime" /\ UNCHANGED <<files, bounds>> /\ UNCHANGED <<cache, cpath, mixed>>
      /\ cmtime' = loc[t].stat /\ Step(t, "loaded", l)
      /\ loc[t] \in Locals /\ cache \in Cached /\ cpath \in BOOLEAN /\ mixed \in BOOLEAN
  BY DEF SetMtime, Loaded, CacheInv, TypeOK, files
<1>2. /\ "loaded" \in Steps /\ "loaded" \notin Pending /\ "loaded" \notin Writing
      /\ "loaded" \notin LoadSteps /\ pc[t] \in LoadSteps /\ "loaded" \notin Assigning
      /\ pc[t] \in Assigning
  BY <1>1 DEF Steps, Pending, LoadSteps, Writing, Assigning
<1>3. /\ loc[t].text \in loc[t].seen \cap Version
      /\ loc[t].stat \in loc[t].seen \ {"absent"}
      /\ loc[t].stat # "broken" => Pair(loc[t].stat, loc[t].text)
  BY <1>1, <1>2 DEF CacheInv, ThreadInv, SeenInv, Stats
<1>4. /\ l \in Locals /\ l.got = loc[t].text /\ l.seen = loc[t].seen
  BY <1>1, <1>3 DEF Locals, Cached
<1>5. cmtime' \in Mtime
  BY <1>1 DEF Locals, Mtime
<1> HIDE DEF l
<1>6. AssignOthers(t, "loaded", l)
  BY <1>1, <1>2, <1>4, <1>5, AssignStep
<1>7. SeenInv(t)' /\ BackupInv(t)'
  BY <1>2, <1>6 DEF AssignOthers, SeenInv, BackupInv
<1>8. ReadInv(t)'
  BY <1>3, <1>4, <1>6 DEF AssignOthers, ReadInv
<1>9. ASSUME Assigned(t) PROVE Consistent'
  <2>1. cache' = loc[t].text /\ cache' \in Version /\ cmtime' = loc[t].stat
    BY <1>1, <1>3, <1>9 DEF Assigned
  <2>2. ASSUME loc[t].stat \notin {"none", "broken"} PROVE (Pair(cmtime, cache))'
    <3>1. loc[t].stat \in Real
      BY <1>3, <2>2, MtimeFacts DEF CacheInv
    <3>2. SUFFICES ASSUME NEW m \in Real, NEW v, m = loc[t].stat, v = loc[t].text PROVE Pair(m, v)'
      BY <2>1, <3>1
    <3> QED
      BY <1>3, <1>6, <2>2, <3>2 DEF AssignOthers
  <2>3. cache' # "unconfigured"
    BY <2>1, RealFacts
  <2> QED
    BY <1>3, <2>1, <2>2, <2>3 DEF Consistent
<1>10. Unmixed'
  BY <1>1, <1>2, <1>6, <1>9, ThirdUnmixed
<1> QED
  BY <1>6, <1>7, <1>8, <1>10, AssignTogether

LEMMA UnConfigureInv ==
  ASSUME CacheInv, NEW t \in Thread, UnCache(t) \/ UnPath(t) \/ UnMtime(t)
  PROVE  CacheInv'
<1> DEFINE step == IF pc[t] = "un_cache" THEN "un_path"
                   ELSE IF pc[t] = "un_path" THEN "un_mtime" ELSE "un_copy"
<1>1. /\ pc[t] \in {"un_cache", "un_path", "un_mtime"} /\ UNCHANGED <<files, bounds>>
      /\ Step(t, step, loc[t])
      /\ pc[t] = "un_cache" => cache' = "unconfigured" /\ mixed' = Midway(t) /\ UNCHANGED cmtime
      /\ pc[t] # "un_cache" => UNCHANGED <<cache, mixed>>
      /\ pc[t] = "un_path" => UNCHANGED cmtime
      /\ pc[t] = "un_mtime" => cmtime' = "none"
      /\ cpath' \in BOOLEAN
      /\ loc[t] \in Locals /\ cmtime \in Mtime /\ cache \in Cached /\ mixed \in BOOLEAN
  BY DEF UnCache, UnPath, UnMtime, Goes, CacheInv, TypeOK, files
<1>2. /\ step \in Steps /\ step \notin Pending /\ step \notin Writing
      /\ step \in LoadSteps /\ pc[t] \in LoadSteps
      /\ step \in {"un_path", "un_mtime", "un_copy"}
      /\ step = "un_path" => pc[t] = "un_cache"
      /\ step = "un_mtime" => pc[t] = "un_path"
      /\ step = "un_copy" => pc[t] = "un_mtime"
  BY <1>1 DEF Steps, Pending, LoadSteps, Writing, Assigning
<1> HIDE DEF step
<1>3. "absent" \in loc[t].seen /\ file \in loc[t].seen /\ SeenInv(t) /\ ReadInv(t)
  BY <1>1, <1>2 DEF CacheInv, ThreadInv, SeenInv, Uns
<1>4. cache' \in Cached /\ cmtime' \in Mtime /\ mixed' \in BOOLEAN
  BY <1>1 DEF Cached, Mtime, Midway
<1>5. AssignOthers(t, step, loc[t])
  BY <1>1, <1>2, <1>4, AssignStep
<1>6. loc'[t] = loc[t] /\ pc'[t] = step /\ file' = file
  BY <1>5 DEF AssignOthers
<1>7. SeenInv(t)'
  <2>1. \A m \in loc'[t].seen \cap Real : m = file' \/ Gone(m)'
    BY <1>2, <1>3, <1>5, <1>6 DEF SeenInv, AssignOthers, Passes
  <2> QED
    BY <1>2, <1>3, <1>6, <2>1 DEF SeenInv, Stats
<1>8. ReadInv(t)' /\ BackupInv(t)'
  BY <1>1, <1>2, <1>3, <1>6 DEF ReadInv, BackupInv
<1>9. Unmixed'
  <2>1. CASE pc[t] = "un_cache"
    <3>1. step \in Assigning /\ Assigned(t)'
      BY <1>1, <1>2, <1>6, <2>1 DEF Assigned, Assigning
    <3> QED
      BY <1>1, <1>5, <2>1, <3>1, FirstUnmixed
  <2>2. CASE pc[t] = "un_path"
    <3>1. step = "un_mtime" /\ step \in Assigning /\ pc[t] \in Assigning
      BY <1>2, <2>2 DEF Assigning
    <3> QED
      BY <1>1, <1>5, <2>2, <3>1, SecondUnmixed
  <2>3. CASE pc[t] = "un_mtime"
    <3>1. step \notin Assigning /\ pc[t] \in Assigning
      BY <1>2, <2>3 DEF Assigning
    <3>2. Consistent'
      BY <1>1, <2>3 DEF Consistent
    <3> QED
      BY <1>1, <1>5, <2>3, <3>1, <3>2, ThirdUnmixed
  <2> QED
    BY <1>1, <2>1, <2>2, <2>3
<1> QED
  BY <1>5, <1>7, <1>8, <1>9, AssignTogether

\* invalidate_config_cache.
LEMMA InvalidateInv ==
  ASSUME CacheInv, NEW t \in Thread, InvCache(t) \/ InvPath(t) \/ InvMtime(t)
  PROVE  CacheInv'
<1> DEFINE step == IF pc[t] = "inv_cache" THEN "inv_path"
                   ELSE IF pc[t] = "inv_path" THEN "inv_mtime" ELSE "idle"
           l == IF pc[t] = "inv_mtime" THEN NoLocals ELSE loc[t]
<1>1. /\ pc[t] \in {"inv_cache", "inv_path", "inv_mtime"} /\ UNCHANGED <<files, bounds>>
      /\ Step(t, step, l)
      /\ pc[t] = "inv_cache" => cache' = "none" /\ mixed' = Midway(t) /\ UNCHANGED cmtime
      /\ pc[t] # "inv_cache" => UNCHANGED <<cache, mixed>>
      /\ pc[t] = "inv_path" => UNCHANGED cmtime
      /\ pc[t] = "inv_mtime" => cmtime' = "none"
      /\ cpath' \in BOOLEAN
      /\ cmtime \in Mtime /\ cache \in Cached /\ mixed \in BOOLEAN
  BY DEF InvCache, InvPath, InvMtime, Goes, End, CacheInv, TypeOK, files
<1>2. /\ step \in Steps /\ step \notin Pending /\ step \notin Writing /\ step \notin LoadSteps
      /\ step \in {"inv_path", "inv_mtime", "idle"}
      /\ step = "inv_path" => pc[t] = "inv_cache"
      /\ step = "inv_mtime" => pc[t] = "inv_path"
      /\ step = "idle" => pc[t] = "inv_mtime"
  BY <1>1 DEF Steps, Pending, LoadSteps, SaveSteps, Writing, Assigning
<1>3. l \in Locals /\ (pc[t] # "inv_mtime" => l = loc[t])
  BY NoLocalsFacts DEF CacheInv, TypeOK
<1> HIDE DEF step, l
<1>4. cache' \in Cached /\ cmtime' \in Mtime /\ mixed' \in BOOLEAN
  BY <1>1 DEF Cached, Mtime, Midway
<1>5. AssignOthers(t, step, l)
  BY <1>1, <1>2, <1>3, <1>4, AssignStep
<1>6. loc'[t] = l /\ pc'[t] = step
  BY <1>5 DEF AssignOthers
<1>7. SeenInv(t)' /\ ReadInv(t)' /\ BackupInv(t)'
  BY <1>2, <1>6 DEF SeenInv, ReadInv, BackupInv
<1>8. Unmixed'
  <2>1. CASE pc[t] = "inv_cache"
    <3>1. step \in Assigning /\ Assigned(t)'
      BY <1>1, <1>2, <1>6, <2>1 DEF Assigned, Assigning
    <3> QED
      BY <1>1, <1>5, <2>1, <3>1, FirstUnmixed
  <2>2. CASE pc[t] = "inv_path"
    <3>1. step = "inv_mtime" /\ step \in Assigning /\ pc[t] \in Assigning
      BY <1>2, <2>2 DEF Assigning
    <3>2. l.text = loc[t].text
      BY <1>3, <2>2
    <3> QED
      BY <1>1, <1>5, <2>2, <3>1, <3>2, SecondUnmixed
  <2>3. CASE pc[t] = "inv_mtime"
    <3>1. step \notin Assigning /\ pc[t] \in Assigning
      BY <1>2, <2>3 DEF Assigning
    <3>2. Assigned(t) => Consistent'
      BY <1>1, <2>3 DEF Consistent, Assigned
    <3> QED
      BY <1>1, <1>5, <2>3, <3>1, <3>2, ThirdUnmixed
  <2> QED
    BY <1>1, <2>1, <2>2, <2>3
<1> QED
  BY <1>5, <1>7, <1>8, AssignTogether

\* A save goes on, and has not opened its temporary file.
LEMMA SaveMove ==
  ASSUME CacheInv, NEW t \in Thread,
         NEW step \in {"probe", "bak_exists", "bak_read", "bak_open", "bak_write", "tmp_open"},
         NEW l \in Locals, Step(t, step, l),
         UNCHANGED <<file, tmp, globals, bounds>>, bak' \in Content,
         step \in Pending => pc[t] \in Pending /\ l.new = loc[t].new,
         pc[t] \notin Assigning, BackupInv(t)'
  PROVE  CacheInv'
<1>1. /\ step \in Steps /\ step \notin LoadSteps /\ step \notin Assigning /\ step \notin Writing
      /\ step # "loaded"
  BY DEF Steps, SaveSteps, LoadSteps, Assigning, Writing
<1>2. events' \in 0 .. MaxEvents /\ calls' \in 0 .. MaxCalls /\ used' = used
  BY BoundsFacts DEF CacheInv
<1>3. Others(t, step, l)
  BY <1>1, <1>2, MoveStep DEF Others
<1>4. SeenInv(t)' /\ ReadInv(t)'
  BY <1>1, <1>3 DEF Others, SeenInv, ReadInv, LoadSteps
<1> QED
  BY <1>3, <1>4, Together

LEMMA UseConfigInv ==
  ASSUME CacheInv, NEW t \in Thread, UseConfig(t)
  PROVE  CacheInv'
<1>1. /\ pc[t] = "loaded" /\ UNCHANGED <<files, globals, bounds>> /\ loc[t] \in Locals
      /\ bak' \in Content /\ UNCHANGED <<file, tmp>>
  BY DEF UseConfig, CacheInv, TypeOK, files
<1>2. pc[t] \notin Assigning
  BY <1>1 DEF Assigning
<1>3. CASE End(t)
  BY <1>1, <1>2, <1>3, BoundsFacts, EndInv DEF CacheInv
<1>4. CASE Step(t, "probe", loc[t])
  <2>1. pc'[t] = "probe"
    BY <1>4 DEF Step, Goto, CacheInv, TypeOK
  <2>2. "probe" \notin Pending
    BY DEF Pending
  <2>3. BackupInv(t)'
    BY <2>1 DEF BackupInv
  <2> QED
    BY <1>1, <1>2, <1>4, <2>2, <2>3, SaveMove
<1> QED
  BY <1>3, <1>4 DEF UseConfig, Goes

LEMMA MakeDirectoriesInv ==
  ASSUME CacheInv, NEW t \in Thread, MakeDirectories(t)
  PROVE  CacheInv'
<1> DEFINE l == [loc[t] EXCEPT !.late = FALSE]
<1>1. /\ pc[t] = "mkdir" /\ UNCHANGED <<files, globals, bounds>> /\ loc[t] \in Locals
      /\ bak' \in Content /\ UNCHANGED <<file, tmp>>
  BY DEF MakeDirectories, CacheInv, TypeOK, files
<1>2. pc[t] \notin Assigning /\ pc[t] \in Pending
  BY <1>1 DEF Assigning, Pending
<1>3. CASE End(t)
  BY <1>1, <1>2, <1>3, BoundsFacts, EndInv DEF CacheInv
<1>4. CASE Step(t, "bak_exists", l)
  <2>1. l \in Locals /\ l.new = loc[t].new
    BY <1>1 DEF Locals
  <2>2. pc'[t] = "bak_exists"
    BY <1>4 DEF Step, Goto, CacheInv, TypeOK
  <2>3. BackupInv(t)'
    BY <2>2 DEF BackupInv
  <2> QED
    BY <1>1, <1>2, <1>4, <2>1, <2>3, SaveMove
<1> QED
  BY <1>3, <1>4 DEF MakeDirectories

LEMMA BakExistsInv ==
  ASSUME CacheInv, NEW t \in Thread, BakExists(t)
  PROVE  CacheInv'
<1> DEFINE step == IF file = "absent" THEN "tmp_open" ELSE "bak_read"
           l == [loc[t] EXCEPT !.late = FALSE]
<1>1. /\ pc[t] = "bak_exists" /\ UNCHANGED <<files, globals, bounds>> /\ loc[t] \in Locals
      /\ bak' \in Content /\ UNCHANGED <<file, tmp>> /\ Step(t, step, l)
  BY DEF BakExists, CacheInv, TypeOK, files
<1>2. pc[t] \notin Assigning /\ pc[t] \in Pending
  BY <1>1 DEF Assigning, Pending
<1>3. l \in Locals /\ l.new = loc[t].new
  BY <1>1 DEF Locals
<1>4. step \in {"tmp_open", "bak_read"} /\ (step = "tmp_open" => file = "absent")
  OBVIOUS
<1>5. pc'[t] = step
  BY <1>1 DEF Step, Goto, CacheInv, TypeOK
<1> HIDE DEF step, l
<1>6. BackupInv(t)'
  BY <1>1, <1>4, <1>5 DEF BackupInv
<1> QED
  BY <1>1, <1>2, <1>3, <1>4, <1>6, SaveMove

LEMMA BakReadInv ==
  ASSUME CacheInv, NEW t \in Thread, BakRead(t)
  PROVE  CacheInv'
<1> DEFINE l == [loc[t] EXCEPT !.text = file]
<1>1. /\ pc[t] = "bak_read" /\ UNCHANGED <<files, globals, bounds>> /\ loc[t] \in Locals
      /\ bak' \in Content /\ UNCHANGED <<file, tmp>> /\ file \in Content
  BY DEF BakRead, CacheInv, TypeOK, files
<1>2. pc[t] \notin Assigning /\ pc[t] \in Pending
  BY <1>1 DEF Assigning, Pending
<1>3. CASE End(t)
  BY <1>1, <1>2, <1>3, BoundsFacts, EndInv DEF CacheInv
<1>4. CASE Step(t, "bak_open", l)
  <2>1. l \in Locals /\ l.new = loc[t].new /\ l.text = file
    BY <1>1 DEF Locals
  <2>2. pc'[t] = "bak_open" /\ loc'[t] = l
    BY <1>4 DEF Step, Goto, CacheInv, TypeOK
  <2> HIDE DEF l
  <2>3. BackupInv(t)'
    BY <1>1, <2>1, <2>2 DEF BackupInv
  <2> QED
    BY <1>1, <1>2, <1>4, <2>1, <2>3, SaveMove
<1> QED
  BY <1>3, <1>4 DEF BakRead

\* The backup is truncated and written.
LEMMA BakWriteInv ==
  ASSUME CacheInv, NEW t \in Thread, BakOpen(t) \/ BakWrite(t)
  PROVE  CacheInv'
<1> DEFINE step == IF pc[t] = "bak_open" THEN "bak_write" ELSE "tmp_open"
<1>1. /\ pc[t] \in {"bak_open", "bak_write"} /\ UNCHANGED <<file, tmp, globals, bounds>>
      /\ loc[t] \in Locals /\ Step(t, step, loc[t])
      /\ pc[t] = "bak_open" => bak' = "broken"
      /\ pc[t] = "bak_write" =>
           bak' = loc[t].text \/ (bak # "broken" /\ bak' = "broken")
  BY DEF BakOpen, BakWrite, Goes, CacheInv, TypeOK
<1>2. pc[t] \notin Assigning /\ pc[t] \in Pending
  BY <1>1 DEF Assigning, Pending
<1>3. /\ step \in {"bak_write", "tmp_open"} /\ (step = "bak_write" => pc[t] = "bak_open")
      /\ step = "tmp_open" => pc[t] = "bak_write"
  BY <1>1
<1>4. pc'[t] = step /\ loc'[t] = loc[t]
  BY <1>1 DEF Step, Goto, CacheInv, TypeOK
<1> HIDE DEF step
<1>5. bak' \in Content
  BY <1>1 DEF Locals, Content
<1>6. BackupInv(t)
  BY DEF CacheInv, ThreadInv
<1>7. BackupInv(t)'
  BY <1>1, <1>3, <1>4, <1>6 DEF BackupInv
<1> QED
  BY <1>1, <1>2, <1>3, <1>5, <1>7, SaveMove

\* A thread makes a configuration that it will save.
LEMMA NewStep ==
  ASSUME CacheInv, NEW t \in Thread, NEW v \in New \cap Version,
         NEW step \in {"mkdir", "bak_exists"}, NEW l \in Locals, Step(t, step, l),
         UNCHANGED <<files, globals>>, used' = used \cup {v}, l.new = v,
         events' \in 0 .. MaxEvents, calls' \in 0 .. MaxCalls,
         pc[t] \notin Pending, pc[t] \notin Assigning, pc[t] \notin Writing
  PROVE  CacheInv'
<1>1. TypeOK /\ OnePlace /\ Unmixed /\ \A u \in Thread : ThreadInv(u)
  BY DEF CacheInv
<1>2. /\ step \in Steps /\ step \notin LoadSteps /\ step \notin Assigning
      /\ step \notin Writing
  BY DEF Steps, SaveSteps, LoadSteps, Assigning, Writing
<1> DEFINE actors == {t}
<1>3. /\ actors \in SUBSET Thread /\ \A u \in actors : u = t
      /\ \A u \in Thread \ actors : u \in Thread \ {t}
  OBVIOUS
<1> HIDE DEF actors
<1>4. file' \in Content /\ UNCHANGED <<file, bak, tmp>>
  BY <1>1 DEF TypeOK, files
<1>5. /\ pc' \in [Thread -> Steps] /\ loc' \in [Thread -> Locals]
      /\ pc'[t] = step /\ loc'[t] = l
      /\ \A u \in Thread \ {t} : Watched(u, Same) /\ loc'[u].alone = loc[u].alone
  BY <1>1, <1>2, <1>4, StepFacts
<1>6. TypeOK'
  BY <1>1, <1>4, <1>5 DEF TypeOK, globals, Steps
<1>7. OnePlace' /\ Passes
  <2>1. loc'[t].new = v /\ \A u \in Thread \ {t} : pc'[u] = pc[u] /\ loc'[u].new = loc[u].new
    BY <1>5 DEF Watched
  <2> QED
    BY <1>1, <1>4, <2>1, ContentsNew
<1>8. Grows(t)
  BY <1>2, <1>5 DEF Grows
<1>9. \A m \in Real : \A w : Pair(m, w) => Pair(m, w)'
  BY <1>1, <1>3, <1>5, <1>7, <1>8, PairStays DEF ThreadInv
<1>10. Unmixed'
  BY <1>1, <1>2, <1>3, <1>5, <1>9, UnmixedStays
<1>11. \A u \in Thread \ {t} : SeenInv(u)' /\ ReadInv(u)' /\ BackupInv(u)'
  BY <1>1, <1>5, <1>7, <1>9, SeenWatched, ReadWatched, BackupWatched, FdsFacts DEF ThreadInv
<1>12. \A u \in Thread : AloneInv(u)'
  BY <1>1, <1>2, <1>3, <1>4, <1>5, AloneStays DEF ThreadInv
<1>13. SeenInv(t)' /\ ReadInv(t)' /\ BackupInv(t)'
  BY <1>5 DEF SeenInv, ReadInv, BackupInv, LoadSteps
<1> QED
  BY <1>6, <1>7, <1>10, <1>11, <1>12, <1>13 DEF CacheInv, ThreadInv

LEMMA ProbeInv ==
  ASSUME CacheInv, NEW t \in Thread, Probe(t)
  PROVE  CacheInv'
<1>1. /\ pc[t] = "probe" /\ UNCHANGED <<files, globals>> /\ loc[t] \in Locals
      /\ events' \in 0 .. MaxEvents /\ calls' \in 0 .. MaxCalls
  BY DEF Probe, CacheInv, TypeOK
<1>2. pc[t] \notin Pending /\ pc[t] \notin Assigning /\ pc[t] \notin Writing
  BY <1>1 DEF Pending, Assigning, Writing
<1>3. CASE UNCHANGED used /\ End(t)
  BY <1>1, <1>2, <1>3, EndInv
<1>4. ASSUME NEW v \in New \cap Version, used' = used \cup {v},
             Step(t, "bak_exists", [loc[t] EXCEPT !.new = v, !.late = FALSE])
      PROVE  CacheInv'
  <2> DEFINE l == [loc[t] EXCEPT !.new = v, !.late = FALSE]
  <2>1. l \in Locals /\ l.new = v /\ Step(t, "bak_exists", l)
    BY <1>1, <1>4 DEF Locals
  <2> HIDE DEF l
  <2> QED
    BY <1>1, <1>2, <1>4, <2>1, NewStep
<1> QED
  BY <1>3, <1>4 DEF Probe

LEMMA BeginInv ==
  ASSUME CacheInv, NEW t \in Thread, Begin(t)
  PROVE  CacheInv'
<1>1. /\ pc[t] = "idle" /\ UNCHANGED <<files, globals, events>> /\ file \in Content
      /\ events' \in 0 .. MaxEvents /\ calls' \in 0 .. MaxCalls
  <2>1. calls \in 0 .. MaxCalls /\ events \in 0 .. MaxEvents /\ file \in Content
    BY DEF CacheInv, TypeOK
  <2>2. /\ pc[t] = "idle" /\ UNCHANGED <<files, globals>>
        /\ calls < MaxCalls /\ calls' = calls + 1 /\ events' = events
    BY DEF Begin
  <2>3. calls' \in 0 .. MaxCalls
    BY <2>1, <2>2, ConfigAssumption
  <2> QED
    BY <2>1, <2>2, <2>3
<1>2. pc[t] \notin Pending /\ pc[t] \notin Assigning /\ pc[t] \notin Writing
  BY <1>1 DEF Pending, Assigning, Writing
<1>3. ASSUME NEW op \in {"load", "probe"}, UNCHANGED used,
             Step(t, "exists", [NoLocals EXCEPT !.op = op, !.seen = {file}])
      PROVE  CacheInv'
  <2> DEFINE l == [NoLocals EXCEPT !.op = op, !.seen = {file}]
  <2>1. l \in Locals /\ l.seen = {file} /\ Step(t, "exists", l)
    BY <1>1, <1>3, NoLocalsFacts DEF Locals
  <2> HIDE DEF l
  <2>2. /\ "exists" \in Steps /\ "exists" \notin Pending /\ "exists" \notin Assigning
        /\ "exists" \notin Writing
    BY DEF Steps, LoadSteps, Pending, Assigning, Writing
  <2>3. Others(t, "exists", l) /\ file' = file
    BY <1>1, <1>2, <1>3, <2>1, <2>2, QuietStep DEF Others, files
  <2>4. SeenInv(t)' /\ ReadInv(t)' /\ BackupInv(t)'
    BY <2>1, <2>3 DEF Others, SeenInv, ReadInv, BackupInv, Stats, Uns
  <2> QED
    BY <2>3, <2>4, Together
<1>4. ASSUME NEW v \in New \cap Version, used' = used \cup {v},
             Step(t, "mkdir", [NoLocals EXCEPT !.op = "save", !.new = v])
      PROVE  CacheInv'
  <2> DEFINE l == [NoLocals EXCEPT !.op = "save", !.new = v]
  <2>1. l \in Locals /\ l.new = v /\ Step(t, "mkdir", l)
    BY <1>4, NoLocalsFacts DEF Locals
  <2> HIDE DEF l
  <2> QED
    BY <1>1, <1>2, <1>4, <2>1, NewStep
<1> QED
  BY <1>3, <1>4 DEF Begin

-----------------------------------------------------------------------------
(* The steps that change the files                                           *)

LEMMA FileStep ==
  ASSUME CacheInv, TypeOK', OnePlace', Passes, UNCHANGED globals,
         NEW actors \in SUBSET Thread, NEW fds \in [Fd -> Fd],
         \A u \in actors : /\ pc[u] \notin Assigning
                           /\ pc'[u] \in {"tmp_write", "replace", "inv_cache"}
                           /\ BackupInv(u)',
         \A u \in Thread \ actors : Watched(u, fds),
         \A u \in Thread : AloneInv(u)'
  PROVE  CacheInv'
<1>1. TypeOK /\ Unmixed /\ \A u \in Thread : ThreadInv(u)
  BY DEF CacheInv
<1>2. \A u \in actors : pc'[u] \notin LoadSteps /\ pc'[u] \notin Assigning
  BY DEF LoadSteps, Assigning
<1>3. \A u \in actors : Grows(u)
  BY <1>2 DEF Grows
<1>4. \A m \in Real : \A v : Pair(m, v) => Pair(m, v)'
  BY <1>1, <1>3, PairStays DEF ThreadInv
<1>5. Unmixed'
  BY <1>1, <1>2, <1>4, UnmixedStays
<1>6. \A u \in Thread \ actors : SeenInv(u)' /\ ReadInv(u)' /\ BackupInv(u)'
  BY <1>1, <1>4, SeenWatched, ReadWatched, BackupWatched DEF ThreadInv
<1>7. \A u \in actors : SeenInv(u)' /\ ReadInv(u)'
  BY <1>2 DEF SeenInv, ReadInv
<1>8. \A u \in Thread : ThreadInv(u)'
  BY <1>6, <1>7 DEF ThreadInv
<1> QED
  BY <1>5, <1>8 DEF CacheInv

LEMMA TmpOpenInv ==
  ASSUME CacheInv, NEW t \in Thread, TmpOpen(t)
  PROVE  CacheInv'
<1> DEFINE others == {u \in Thread \ {t} : pc[u] \in Writing}
           l == [loc[t] EXCEPT !.fd = "tmp", !.alone = (others = {})]
<1>1. TypeOK /\ OnePlace /\ \A u \in Thread : ThreadInv(u)
  BY DEF CacheInv
<1>2. /\ pc[t] = "tmp_open" /\ tmp' = "broken" /\ UNCHANGED <<file, bak, globals, bounds>>
      /\ pc' = [pc EXCEPT ![t] = "tmp_write"]
      /\ loc' = [u \in Thread |-> IF u = t THEN l
                 ELSE [Noted(u, Same) EXCEPT !.alone = @ /\ u \notin others]]
  BY DEF TmpOpen, Goto
<1>3. /\ loc[t] \in Locals /\ file' \in Content /\ pc \in [Thread -> Steps]
  BY <1>1, <1>2 DEF TypeOK, Steps
<1>4. (others = {}) \in BOOLEAN /\ (others = {} <=> \A u \in Thread \ {t} : pc[u] \notin Writing)
  OBVIOUS
<1>5. /\ l \in Locals /\ l.fd = "tmp" /\ l.new = loc[t].new /\ l.late = loc[t].late
      /\ l.alone => \A u \in Thread \ {t} : pc[u] \notin Writing
  BY <1>3, <1>4 DEF Locals
<1>6. "tmp_write" \in Steps /\ "tmp_write" \in Writing /\ "tmp_open" \in Pending
      /\ "tmp_open" \notin Assigning
  BY DEF Steps, SaveSteps, Writing, Pending, Assigning
<1>7. pc' \in [Thread -> Steps] /\ pc'[t] = "tmp_write" /\ \A u \in Thread \ {t} : pc'[u] = pc[u]
  BY <1>2, <1>3, <1>6
<1>8. ASSUME NEW u \in Thread \ {t}
      PROVE  /\ loc'[u] \in Locals /\ Watched(u, Same)
             /\ loc'[u].alone => loc[u].alone /\ pc[u] \notin Writing
  <2> DEFINE n == Noted(u, Same)
             alone == n.alone /\ u \notin others
  <2>1. /\ n \in Locals
        /\ n.stat = loc[u].stat /\ n.text = loc[u].text /\ n.got = loc[u].got
        /\ n.new = loc[u].new /\ n.alone = loc[u].alone
        /\ n.fd = Same[loc[u].fd]
        /\ n.seen = IF pc[u] \in LoadSteps THEN loc[u].seen \cup {file'} ELSE loc[u].seen
        /\ loc[u].raced => n.raced
        /\ pc[u] \in Reading /\ ~n.raced => UNCHANGED <<cache, cpath, cmtime>>
        /\ loc[u].late => n.late
        /\ pc[u] \in SaveSteps /\ ~n.late => UNCHANGED <<file, bak>> /\ Same = Same
    BY <1>1, <1>3, NotedFacts, FdsFacts
  <2>2. loc'[u] = [n EXCEPT !.alone = alone]
    BY <1>2
  <2>3. alone \in BOOLEAN /\ (alone => loc[u].alone /\ pc[u] \notin Writing)
    BY <2>1
  <2> HIDE DEF n, alone
  <2>4. /\ loc'[u] \in Locals /\ loc'[u].alone = alone
        /\ loc'[u].stat = n.stat /\ loc'[u].text = n.text /\ loc'[u].got = n.got
        /\ loc'[u].new = n.new /\ loc'[u].fd = n.fd /\ loc'[u].seen = n.seen
        /\ loc'[u].raced = n.raced /\ loc'[u].late = n.late
    BY <2>1, <2>2, <2>3 DEF Locals
  <2> QED
    BY <1>7, <2>1, <2>3, <2>4 DEF Watched
<1>9. loc'[t] = l /\ loc' \in [Thread -> Locals]
  <2>1. loc' = [u \in Thread |-> loc'[u]] /\ loc'[t] = l
    BY <1>2
  <2> HIDE DEF l
  <2>2. \A u \in Thread : loc'[u] \in Locals
    BY <1>5, <1>8, <2>1
  <2> QED
    BY <2>1, <2>2
<1> HIDE DEF l, others
<1>10. TypeOK'
  BY <1>1, <1>2, <1>7, <1>9 DEF TypeOK, globals, bounds, Content, Steps
<1>11. OnePlace' /\ Passes
  <2>1. /\ loc'[t].new = loc[t].new /\ pc[t] \in Pending /\ used' = used
        /\ \A u \in Thread \ {t} : pc'[u] = pc[u] /\ loc'[u].new = loc[u].new
    BY <1>2, <1>5, <1>6, <1>8, <1>9 DEF Watched, bounds
  <2> QED
    BY <1>1, <1>2, <2>1, ContentsOpen
<1>12. BackupInv(t)'
  BY <1>1, <1>2, <1>5, <1>7, <1>9 DEF ThreadInv, BackupInv
<1>13. \A u \in Thread : AloneInv(u)'
  <2>1. AloneInv(t)'
    BY <1>2, <1>5, <1>7, <1>9 DEF AloneInv
  <2>2. \A u \in Thread \ {t} : AloneInv(u)'
    BY <1>7, <1>8 DEF AloneInv
  <2> QED
    BY <2>1, <2>2
<1> DEFINE actors == {t}
<1>14. /\ actors \in SUBSET Thread /\ \A u \in actors : u = t
       /\ \A u \in Thread \ actors : u \in Thread \ {t}
  OBVIOUS
<1> HIDE DEF actors
<1>15. pc[t] \notin Assigning /\ pc'[t] = "tmp_write" /\ UNCHANGED globals
  BY <1>2, <1>6, <1>7
<1>16. \A u \in Thread \ {t} : Watched(u, Same)
  BY <1>8
<1> QED
  BY <1>10, <1>11, <1>12, <1>13, <1>14, <1>15, <1>16, FileStep, FdsFacts

LEMMA TmpWriteInv ==
  ASSUME CacheInv, NEW t \in Thread, TmpWrite(t)
  PROVE  CacheInv'
<1> DEFINE l == [loc[t] EXCEPT !.fd = "gone"]
<1>1. TypeOK /\ OnePlace /\ \A u \in Thread : ThreadInv(u)
  BY DEF CacheInv
<1>2. /\ pc[t] = "tmp_write" /\ UNCHANGED <<bak, globals, bounds>> /\ Step(t, "replace", l)
      /\ loc[t] \in Locals /\ used' = used
  BY <1>1 DEF TmpWrite, TypeOK, bounds
<1>3. /\ pc[t] \in Pending /\ pc[t] \in Writing /\ pc[t] \notin Assigning
      /\ "replace" \notin Pending /\ "replace" \in Steps /\ "replace" \in Writing
  BY <1>2 DEF Pending, Writing, Assigning, Steps, SaveSteps
<1>4. loc[t].new \in Version
  BY <1>1, <1>3 DEF OnePlace
<1>5. /\ tmp' \in {tmp, loc[t].new, "broken"} /\ file' \in {file, loc[t].new, "broken"}
      /\ tmp' = tmp \/ file' = file
      /\ loc[t].fd # "file" => file' = file
      /\ loc[t].fd = "tmp" /\ tmp = "broken" => tmp' = loc[t].new
  BY DEF TmpWrite
<1>6. file' \in Content /\ tmp' \in Content
  BY <1>1, <1>4, <1>5 DEF TypeOK, Content
<1>7. l \in Locals /\ l.fd = "gone" /\ l.new = loc[t].new /\ l.late = loc[t].late
      /\ l.alone = loc[t].alone
  BY <1>2 DEF Locals
<1> HIDE DEF l
<1>8. /\ pc' \in [Thread -> Steps] /\ loc' \in [Thread -> Locals]
      /\ pc'[t] = "replace" /\ loc'[t] = l
      /\ \A u \in Thread \ {t} : Watched(u, Same) /\ loc'[u].alone = loc[u].alone
  BY <1>1, <1>2, <1>3, <1>6, <1>7, StepFacts
<1>9. TypeOK'
  BY <1>1, <1>2, <1>6, <1>8 DEF TypeOK, globals, bounds, Steps
<1>10. OnePlace' /\ Passes
  <2>1. \A u \in Thread \ {t} : pc'[u] = pc[u] /\ loc'[u].new = loc[u].new
    BY <1>8 DEF Watched
  <2> QED
    BY <1>1, <1>2, <1>3, <1>5, <1>8, <2>1, ContentsWrite
<1>11. BackupInv(t)'
  BY <1>1, <1>2, <1>5, <1>7, <1>8 DEF ThreadInv, BackupInv
<1>12. AloneInv(t) /\ \A u \in Thread : AloneInv(u)
  BY <1>1 DEF ThreadInv
<1>13. \A u \in Thread \ {t} : AloneInv(u)'
  <2>1. \A u \in Thread \ {t} : pc[u] \in Writing => ~loc[u].alone
    BY <1>3, <1>12 DEF AloneInv
  <2> QED
    BY <1>8, <2>1 DEF AloneInv, Watched
<1>14. AloneInv(t)'
  <2>1. SUFFICES ASSUME loc[t].alone PROVE AloneInv(t)'
    BY <1>7, <1>8 DEF AloneInv
  <2>2. /\ \A w \in Thread : pc[w] \in Writing => w = t
        /\ tmp = "broken" /\ loc[t].fd = "tmp"
    BY <1>2, <1>3, <1>12, <2>1 DEF AloneInv
  <2>3. \A w \in Thread : pc'[w] \in Writing => w = t
    BY <1>8, <2>2 DEF Watched
  <2> QED
    BY <1>4, <1>5, <1>7, <1>8, <2>2, <2>3 DEF AloneInv
<1> DEFINE actors == {t}
<1>15. /\ actors \in SUBSET Thread /\ \A u \in actors : u = t
       /\ \A u \in Thread \ actors : u \in Thread \ {t}
  OBVIOUS
<1> HIDE DEF actors
<1> QED
  BY <1>2, <1>3, <1>8, <1>9, <1>10, <1>11, <1>13, <1>14, <1>15, FileStep, FdsFacts

LEMMA ReplaceInv ==
  ASSUME CacheInv, NEW t \in Thread, Replace(t)
  PROVE  CacheInv'
<1>1. TypeOK /\ OnePlace /\ \A u \in Thread : ThreadInv(u)
  BY DEF CacheInv
<1>2. pc[t] = "replace" /\ UNCHANGED <<bak, globals, bounds>> /\ loc[t] \in Locals
  BY <1>1 DEF Replace, TypeOK
<1>3. /\ pc[t] \in Writing /\ pc[t] \notin Assigning /\ "inv_cache" \in Steps
      /\ "inv_cache" \notin Pending /\ "inv_cache" \notin Writing
  BY <1>2 DEF Pending, Writing, Assigning, Steps, SaveSteps
<1>4. CASE tmp = "absent"
  <2>1. UNCHANGED files /\ End(t)
    BY <1>4 DEF Replace, files
  <2> QED
    BY <1>1, <1>2, <1>3, <2>1, BoundsFacts, EndInv
<1>5. CASE tmp # "absent"
  <2>1. /\ file' = tmp /\ tmp' = "absent" /\ pc' = [pc EXCEPT ![t] = "inv_cache"]
        /\ loc' = [u \in Thread |-> IF u = t THEN loc[t] ELSE Noted(u, Renamed)]
    BY <1>5 DEF Replace, Goto
  <2>2. file' \in Content /\ pc \in [Thread -> Steps]
    BY <1>1, <2>1 DEF TypeOK, Steps
  <2>3. pc' \in [Thread -> Steps] /\ pc'[t] = "inv_cache" /\ \A u \in Thread \ {t} : pc'[u] = pc[u]
    BY <1>3, <2>1, <2>2
  <2>4. \A u \in Thread \ {t} : loc'[u] = Noted(u, Renamed)
    BY <2>1
  <2>5. \A u \in Thread \ {t} :
          loc'[u] \in Locals /\ Watched(u, Renamed) /\ loc'[u].alone = loc[u].alone
    BY <1>1, <2>2, <2>3, <2>4, WatchedFacts, FdsFacts
  <2>6. loc' \in [Thread -> Locals]
    <3>1. loc' = [u \in Thread |-> loc'[u]] /\ loc'[t] = loc[t]
      BY <2>1
    <3>2. \A u \in Thread : loc'[u] \in Locals
      BY <1>2, <2>5, <3>1
    <3> QED
      BY <3>1, <3>2
  <2>7. TypeOK'
    BY <1>1, <1>2, <2>1, <2>2, <2>3, <2>6 DEF TypeOK, globals, bounds, Content, Steps
  <2>8. OnePlace' /\ Passes
    <3>1. used' = used /\ \A u \in Thread \ {t} : pc'[u] = pc[u] /\ loc'[u].new = loc[u].new
      BY <1>2, <2>5 DEF Watched, bounds
    <3> QED
      BY <1>1, <1>3, <2>1, <2>3, <3>1, ContentsRename
  <2>9. \A u \in Thread \ {t} : pc[u] \in Writing => ~loc[u].alone
    BY <1>1, <1>3 DEF ThreadInv, AloneInv
  <2>10. \A u \in Thread : AloneInv(u)'
    BY <1>3, <2>3, <2>5, <2>9 DEF AloneInv
  <2>11. BackupInv(t)'
    BY <2>3 DEF BackupInv
  <2> DEFINE actors == {t}
  <2>12. /\ actors \in SUBSET Thread /\ \A u \in actors : u = t
         /\ \A u \in Thread \ actors : u \in Thread \ {t}
    OBVIOUS
  <2> HIDE DEF actors
  <2> QED
    BY <1>2, <1>3, <2>3, <2>5, <2>7, <2>8, <2>10, <2>11, <2>12, FileStep, FdsFacts
<1> QED
  BY <1>4, <1>5

-----------------------------------------------------------------------------
(* The environment                                                           *)

LEMMA EventFacts ==
  ASSUME TypeOK, Event
  PROVE  events' \in 0 .. MaxEvents /\ calls' \in 0 .. MaxCalls
BY ConfigAssumption DEF TypeOK, Event

LEMMA EditInv ==
  ASSUME CacheInv, Edit
  PROVE  CacheInv'
<1>1. TypeOK /\ OnePlace /\ \A u \in Thread : ThreadInv(u)
  BY DEF CacheInv
<1>2. /\ file' \in New \cup {"absent"} /\ used' = used \cup ({file'} \ {"absent"})
      /\ UNCHANGED <<bak, tmp, globals, pc>>
      /\ loc' = [u \in Thread |-> Noted(u, Replaced)]
      /\ Event
  BY DEF Edit
<1>3. file' \in Content /\ used' \subseteq Version \cup Invalid
  BY <1>1, <1>2 DEF TypeOK, Content, New
<1>4. \A u \in Thread :
        loc'[u] \in Locals /\ Watched(u, Replaced) /\ loc'[u].alone = loc[u].alone
  BY <1>1, <1>2, <1>3, WatchedFacts, FdsFacts
<1>5. loc' \in [Thread -> Locals]
  <2>1. loc' = [u \in Thread |-> loc'[u]]
    BY <1>2
  <2> QED
    BY <1>4, <2>1
<1>6. TypeOK'
  BY <1>1, <1>2, <1>3, <1>5, EventFacts DEF TypeOK, globals
<1>7. OnePlace' /\ Passes
  <2>1. \A u \in Thread : pc'[u] = pc[u] /\ loc'[u].new = loc[u].new
    BY <1>4 DEF Watched
  <2> QED
    BY <1>1, <1>2, <2>1, ContentsEdit
<1>8. \A u \in Thread : AloneInv(u)
  BY <1>1 DEF ThreadInv
<1> DEFINE actors == {u \in Thread : FALSE}
<1>9. actors \in SUBSET Thread /\ (\A u \in actors : FALSE)
  OBVIOUS
<1> HIDE DEF actors
<1>10. \A u \in Thread : AloneInv(u)'
  BY <1>1, <1>2, <1>4, <1>8, <1>9, AloneStays
<1> QED
  BY <1>2, <1>4, <1>6, <1>7, <1>9, <1>10, FileStep, FdsFacts

\* A thread that does nothing.
LEMMA IdleFacts ==
  ASSUME NEW u, pc[u] = "idle"
  PROVE  SeenInv(u) /\ ReadInv(u) /\ AloneInv(u) /\ BackupInv(u)
         /\ pc[u] \notin Pending /\ pc[u] \notin Assigning /\ pc[u] \in Steps
BY DEF SeenInv, ReadInv, AloneInv, BackupInv, LoadSteps, Writing, Pending, Assigning, Steps

LEMMA KillInv ==
  ASSUME CacheInv, Kill
  PROVE  CacheInv'
<1>1. /\ tmp' = "absent" /\ cache' = "none" /\ cpath' = FALSE /\ cmtime' = "none"
      /\ mixed' = FALSE /\ UNCHANGED <<file, bak, used>>
      /\ pc' = [t \in Thread |-> "idle"] /\ loc' = [t \in Thread |-> NoLocals]
      /\ TypeOK /\ OnePlace /\ Event
  BY DEF Kill, CacheInv
<1>2. \A u \in Thread : pc'[u] = "idle"
  BY <1>1
<1>3. \A u \in Thread : /\ SeenInv(u)' /\ ReadInv(u)' /\ AloneInv(u)' /\ BackupInv(u)'
                        /\ pc'[u] \notin Pending /\ pc'[u] \notin Assigning /\ pc'[u] \in Steps
  BY <1>2 DEF SeenInv, ReadInv, AloneInv, BackupInv, LoadSteps, Writing, Pending, Assigning, Steps
<1>4. TypeOK'
  BY <1>1, <1>2, <1>3, EventFacts, NoLocalsFacts DEF TypeOK, Content, Cached, Mtime, Steps
<1>5. OnePlace'
  BY <1>1, <1>3, RealFacts DEF OnePlace
<1>6. Consistent'
  BY <1>1 DEF Consistent
<1>7. Unmixed'
  BY <1>3, <1>6 DEF Unmixed
<1> QED
  BY <1>3, <1>4, <1>5, <1>7 DEF CacheInv, ThreadInv

-----------------------------------------------------------------------------
(* The invariant, and the theorems                                           *)

LEMMA InitInv == Init => CacheInv
<1> SUFFICES ASSUME Init PROVE CacheInv
  OBVIOUS
<1>1. /\ tmp = "absent" /\ bak = "absent" /\ cache = "none" /\ cpath = FALSE
      /\ cmtime = "none" /\ mixed = FALSE /\ calls = 0 /\ events = 0
      /\ pc = [t \in Thread |-> "idle"] /\ loc = [t \in Thread |-> NoLocals]
      /\ file \in Version \cup {"absent"} /\ used \subseteq Version
      /\ file \in used \cup {"absent"}
  BY DEF Init
<1>2. \A u \in Thread : /\ SeenInv(u) /\ ReadInv(u) /\ AloneInv(u) /\ BackupInv(u)
                        /\ pc[u] \notin Pending /\ pc[u] \notin Assigning /\ pc[u] \in Steps
  BY <1>1, IdleFacts
<1>3. TypeOK
  <2>1. calls \in 0 .. MaxCalls /\ events \in 0 .. MaxEvents
    BY <1>1, ConfigAssumption
  <2>2. pc \in [Thread -> LoadSteps \cup SaveSteps \cup {"idle", "loaded"}] /\ loc \in [Thread -> Locals]
    BY <1>1, NoLocalsFacts
  <2>3. /\ file \in Content /\ bak \in Content /\ tmp \in Content /\ cache \in Cached
        /\ cpath \in BOOLEAN /\ cmtime \in Mtime /\ mixed \in BOOLEAN
        /\ used \subseteq Version \cup Invalid
    BY <1>1 DEF Content, Cached, Mtime
  <2> QED
    BY <2>1, <2>2, <2>3 DEF TypeOK
<1>4. OnePlace
  BY <1>1, <1>2, RealFacts DEF OnePlace
<1>5. Consistent
  BY <1>1, RealFacts DEF Consistent
<1>6. Unmixed
  BY <1>2, <1>5 DEF Unmixed
<1> QED
  BY <1>2, <1>3, <1>4, <1>6 DEF CacheInv, ThreadInv

LEMMA NextInv ==
  ASSUME CacheInv, Next
  PROVE  CacheInv'
<1>1. ASSUME NEW t \in Thread, Begin(t) PROVE CacheInv'
  BY <1>1, BeginInv
<1>2. ASSUME NEW t \in Thread, Load(t) PROVE CacheInv'
  BY <1>2, ExistsInv, StatInv, CheckCacheInv, CheckInv, CopyInv, ReadStepInv, SetCacheInv,
     SetMtimeInv, UnConfigureInv, UseConfigInv DEF Load
<1>3. ASSUME NEW t \in Thread, Save(t) PROVE CacheInv'
  BY <1>3, ProbeInv, MakeDirectoriesInv, BakExistsInv, BakReadInv, BakWriteInv, TmpOpenInv,
     TmpWriteInv, ReplaceInv, InvalidateInv DEF Save
<1> QED
  BY <1>1, <1>2, <1>3, EditInv, KillInv DEF Next

LEMMA StutterInv ==
  ASSUME CacheInv, UNCHANGED vars
  PROVE  CacheInv'
<1>1. UNCHANGED <<file, bak, tmp, cache, cpath, cmtime, mixed, pc, loc, used, calls, events>>
  BY DEF vars, files, globals, bounds
<1>2. TypeOK' /\ OnePlace'
  BY <1>1 DEF CacheInv, TypeOK, OnePlace
<1>3. Consistent => Consistent'
  BY <1>1 DEF Consistent, Pair, Gone
<1>4. Unmixed'
  BY <1>1, <1>3 DEF CacheInv, Unmixed, Assigned
<1>5. \A u \in Thread : SeenInv(u)'
  BY <1>1 DEF CacheInv, ThreadInv, SeenInv, Pair, Gone
<1>6. \A u \in Thread : ReadInv(u)' /\ AloneInv(u)' /\ BackupInv(u)'
  BY <1>1, <1>3 DEF CacheInv, ThreadInv, ReadInv, AloneInv, BackupInv
<1> QED
  BY <1>2, <1>4, <1>5, <1>6 DEF CacheInv, ThreadInv

LEMMA Invariant == Spec => []CacheInv
<1>1. CacheInv /\ [Next]_vars => CacheInv'
  BY NextInv, StutterInv
<1> QED
  BY InitInv, <1>1, PTL DEF Spec

\* For any number of threads, configurations, calls and events, and whatever goes wrong:
\* the variables keep to their ranges.
THEOREM TypeCorrect == Spec => []TypeOK
<1>1. CacheInv => TypeOK
  BY DEF CacheInv
<1> QED
  BY <1>1, Invariant, PTL

\* For any number of threads: what load_config of config.py returns is what the file was
\* at some time during the call, unless threads have raced for the global variables.
THEOREM LoadsAreCurrent == Spec => []LoadIsCurrent
<1>1. CacheInv => LoadIsCurrent
  BY DEF CacheInv, ThreadInv, ReadInv, LoadIsCurrent
<1> QED
  BY <1>1, Invariant, PTL

\* Only a thread that shares the temporary file with another one makes the
\* configuration a half-written file, in any execution.
THEOREM FileStaysWhole == Spec => FileIsWhole
<1> DEFINE Whole == file' = "broken" =>
             file = "broken" \/ \E t \in Thread : pc[t] \in Writing /\ ~loc[t].alone
<1>1. ASSUME CacheInv, Next, file' = "broken", file # "broken" PROVE Whole
  <2>1. \A u \in Thread : AloneInv(u)
    BY <1>1 DEF CacheInv, ThreadInv
  <2>2. ASSUME NEW t \in Thread, TmpWrite(t) PROVE Whole
    <3>1. pc[t] = "tmp_write" /\ loc[t].fd = "file" /\ pc[t] \in Writing
      BY <1>1, <2>2 DEF TmpWrite, Writing
    <3> QED
      BY <2>1, <3>1 DEF AloneInv
  <2>3. ASSUME NEW t \in Thread, Replace(t) PROVE Whole
    <3>1. pc[t] = "replace" /\ tmp = "broken" /\ pc[t] \in Writing
      BY <1>1, <2>3 DEF Replace, Writing
    <3>2. tmp \notin Version
      BY <3>1, RealFacts
    <3> QED
      BY <2>1, <3>1, <3>2 DEF AloneInv
  <2>4. ~Edit /\ ~Kill
    BY <1>1, RealFacts DEF Edit, Kill, New, Real
  <2>5. ASSUME NEW t \in Thread, Begin(t) \/ Load(t) PROVE FALSE
    BY <1>1, <2>5 DEF Begin, Load, Exists, Stat, CheckCache, CheckPath, CheckMtime, Copy, Read,
         SetCache, SetPath, SetMtime, UnCache, UnPath, UnMtime, UnCopy, UseConfig, files
  <2>6. ASSUME NEW t \in Thread, Save(t), ~TmpWrite(t), ~Replace(t) PROVE FALSE
    BY <1>1, <2>6 DEF Save, Probe, MakeDirectories, BakExists, BakRead, BakOpen, BakWrite,
         TmpOpen, InvCache, InvPath, InvMtime, files
  <2> QED
    BY <1>1, <2>2, <2>3, <2>4, <2>5, <2>6 DEF Next
<1>2. CacheInv /\ [Next]_vars => [Whole]_vars
  BY <1>1
<1> QED
  BY <1>2, Invariant, PTL DEF Spec, FileIsWhole

\* For any number of threads: the configuration that save_config_file overwrites is in the
\* backup, unless the file or the backup has changed since the save has looked.
THEOREM BackupHolds == Spec => BackupIsReplaced
<1> DEFINE Kept == \A t \in Thread : pc[t] = "replace" /\ pc'[t] = "inv_cache" =>
             file = "absent" \/ bak = file \/ loc[t].late
<1>1. CacheInv => Kept
  BY DEF CacheInv, ThreadInv, BackupInv
<1>2. CacheInv /\ [Next]_vars => [Kept]_vars
  BY <1>1
<1> QED
  BY <1>2, Invariant, PTL DEF Spec, BackupIsReplaced
=============================================================================
