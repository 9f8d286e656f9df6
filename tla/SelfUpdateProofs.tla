-------------------------- MODULE SelfUpdateProofs --------------------------
(***************************************************************************)
(* What self_update::run promises for any number of runs and versions, as  *)
(* long as no two of them swap at once and, on macOS, none finds another   *)
(* binary under its name than the one it was started from.  The inductive  *)
(* invariant says what the directory looks like at each point of the one   *)
(* swap under way.                                                         *)
(***************************************************************************)
EXTENDS SelfUpdate, TLAPS

(* From the renaming away to the end.                                      *)
After == {"open", "write", "restore", "chmod", "remove"}

(* The inode a run executes is whole and executable, and nobody writes it. *)
ImageIntact ==
  host = "linux" \/ ~raced => \A r \in Runs : pc[r] \in Live =>
    /\ file[image[r]].whole
    /\ file[image[r]].mode = "x"
    /\ \A q \in Runs : fd[q] # image[r]

(* A run's own inode is nowhere before the run creates it.                 *)
Unborn ==
  \A r \in Runs : pc[r] \in (Live \ After) \union {"idle", "open"} =>
    /\ \A n \in Names : dir[n] # r
    /\ \A q \in Runs : fd[q] # r /\ image[q] # r

OnlyWritersWrite == \A r \in Runs : fd[r] # None <=> pc[r] = "write"

PathNamed == \A r \in Runs : pc[r] \in After => path[r] \in Names

DirIsInjective == dir["exe"] # None => dir["exe"] # dir["old"]

OneAtATime == \A p, q \in Runs : pc[p] \in After /\ pc[q] \in After => p = q

(* What a run that has asked for its path will find there.                 *)
PathHolds ==
  \A r \in Runs : host = "linux" /\ pc[r] = "rename" /\ path[r] # "deleted" =>
    \/ dir[path[r]] = image[r]
    \/ path[r] = "old" /\ dir["old"] = None

(* The swap under way: .old is the image, and what is in its place.        *)
SwapHolds ==
  \A r \in Runs : pc[r] \in After =>
    /\ dir["old"] = image[r]
    /\ host = "macos" => path[r] = "exe"
    /\ pc[r] \in {"write", "chmod", "remove"} => path[r] = "exe" /\ dir["exe"] = r
    /\ pc[r] = "open" /\ path[r] = "exe" => dir["exe"] = None
    /\ pc[r] = "restore" /\ path[r] = "exe" => dir["exe"] = None \/ ~file[dir["exe"]].whole
    /\ pc[r] = "write" => fd[r] = r /\ file[r].by = r
    /\ pc[r] = "write" => ~file[r].whole
    /\ pc[r] \in {"write", "chmod"} => file[r].mode = "plain"
    /\ pc[r] \in {"write", "chmod", "remove"} => file[r].version = target[r]
    /\ pc[r] \in {"chmod", "remove"} => file[r].whole
    /\ pc[r] = "remove" => file[r].mode # "plain"

Swapped == ~raced => OneAtATime /\ PathHolds /\ SwapHolds

IInv ==
  /\ TypeOK /\ ImageIntact /\ Unborn /\ OnlyWritersWrite /\ PathNamed
  /\ DirIsInjective /\ Swapped /\ CopyKept

-----------------------------------------------------------------------------
(* The directory as installed satisfies the invariant.                     *)
LEMMA InitHolds ==
  ASSUME Init
  PROVE  IInv
<1>0. /\ Installed \in Versions /\ Shipped \in Inodes /\ None \notin Inodes
      /\ dir = [n \in Names |-> IF n = "exe" THEN Shipped ELSE None]
      /\ file = [i \in Inodes |-> [version |-> Installed, whole |-> i = Shipped, by |-> i,
                                   mode |-> IF i = Shipped THEN "x" ELSE "plain"]]
    BY SelfUpdateAssumption DEF Init, Inodes
<1>1. TypeOK
  <2>1. dir \in [Names -> Inodes \union {None}]
      BY <1>0
  <2>2. file \in [Inodes -> Files]
      BY <1>0 DEF Files
  <2> QED BY <2>1, <2>2, <1>0 DEF Init, TypeOK, Names
<1>2. ImageIntact
    BY SelfUpdateAssumption, SMTT(60) DEF Init, ImageIntact, Live
<1>3. Unborn
    BY SelfUpdateAssumption, SMTT(60) DEF Init, Unborn, Inodes
<1>4. OnlyWritersWrite
    BY SelfUpdateAssumption DEF Init, OnlyWritersWrite, Inodes
<1>5. PathNamed
    BY SelfUpdateAssumption, SMTT(60) DEF Init, PathNamed, Names
<1>6. DirIsInjective
    BY SelfUpdateAssumption, SMTT(60) DEF Init, DirIsInjective, Names
<1>7. Swapped
    BY SelfUpdateAssumption, SMTT(60) DEF Init, Swapped, OneAtATime,
       PathHolds, SwapHolds, After, Usable, Whole, Names
<1>8. CopyKept
  <2>1. Usable("exe")
      BY <1>0, SelfUpdateAssumption DEF Usable, Whole, Names
  <2> QED BY <2>1 DEF CopyKept, Names
<1> QED BY <1>1, <1>2, <1>3, <1>4, <1>5, <1>6, <1>7, <1>8 DEF IInv

(* A run starts from a whole file that nobody writes.                       *)
LEMMA LaunchKeeps ==
  ASSUME IInv, NEW r \in Runs, Launch(r)
  PROVE  IInv'
<1>0. PICK n \in Names : /\ Executable(n) /\ (host = "linux" => ~OpenForWriting(dir[n]))
                        /\ image' = [image EXCEPT ![r] = dir[n]]
                        /\ current' = [current EXCEPT ![r] = VersionAt(n)]
                        /\ path' = [path EXCEPT ![r] = n]
    BY DEF Launch
<1>a. /\ pc[r] = "idle" /\ pc' = [pc EXCEPT ![r] = "check"]
      /\ UNCHANGED <<host, dir, file, target, fd, raced>>
    BY DEF Launch, GoTo
<1>b. dir[n] \in Inodes /\ file[dir[n]] \in Files /\ file[dir[n]].mode = "x" /\ file[dir[n]].whole
    BY <1>0 DEF Executable, Whole, IInv, TypeOK
<1>c. host = "linux" \/ ~raced => \A q \in Runs : fd[q] # dir[n]
  <2>1. CASE host = "linux"
      BY <2>1, <1>0 DEF OpenForWriting
  <2>2. ASSUME ~raced, NEW q \in Runs, fd[q] = dir[n]
        PROVE  FALSE
    <3>1. pc[q] = "write"
        BY <2>2, <1>b, SelfUpdateAssumption DEF IInv, OnlyWritersWrite
    <3>2. fd[q] = q /\ file[q].mode = "plain"
        BY <3>1, <2>2 DEF IInv, Swapped, SwapHolds, After
    <3> QED BY <3>2, <2>2, <1>b
  <2> QED BY <2>1, <2>2
<1>1. TypeOK'
    BY <1>0, <1>a, <1>b, SMTT(60) DEF IInv, TypeOK, VersionAt, Live, Files
<1>2. ImageIntact'
    BY <1>0, <1>a, <1>b, <1>c, SMTT(60) DEF IInv, TypeOK, ImageIntact
<1>3. Unborn'
    BY <1>0, SelfUpdateAssumption, SMTT(60) DEF GoTo, Launch, IInv, Unborn
<1>4. OnlyWritersWrite'
    BY <1>0, SelfUpdateAssumption, SMTT(60) DEF GoTo, Launch, IInv,
       OnlyWritersWrite
<1>5. PathNamed'
    BY <1>0, SelfUpdateAssumption, SMTT(60) DEF GoTo, Launch, IInv,
       PathNamed, After
<1>6. DirIsInjective'
    BY <1>0, SelfUpdateAssumption, SMTT(60) DEF Launch, IInv, DirIsInjective
<1>7. Swapped'
    BY <1>0, SelfUpdateAssumption, SMTT(60) DEF GoTo, Launch, IInv, Swapped,
       OneAtATime, PathHolds, SwapHolds, After, Usable, Whole,
       VersionAt
<1>8. CopyKept'
    BY <1>0, SelfUpdateAssumption, SMTT(60) DEF Launch, Executable, CopyKept,
       Usable, Whole
<1> QED BY <1>1, <1>2, <1>3, <1>4, <1>5, <1>6, <1>7, <1>8 DEF IInv

(* Nothing but the version asked for changes.                               *)
LEMMA CheckKeeps ==
  ASSUME IInv, NEW r \in Runs, Check(r)
  PROVE  IInv'
<1>1. TypeOK'
    BY SelfUpdateAssumption, SMTT(60) DEF GoTo, Check, IInv, TypeOK, Live,
       Ended
<1>2. ImageIntact'
    BY SelfUpdateAssumption, SMTT(60) DEF GoTo, Check, IInv, TypeOK,
       ImageIntact, Live
<1>3. Unborn'
    BY SelfUpdateAssumption, SMTT(60) DEF GoTo, Check, IInv, TypeOK, Unborn,
       After, Ended
<1>4. OnlyWritersWrite'
    BY SelfUpdateAssumption, SMTT(60) DEF GoTo, Check, IInv, TypeOK,
       OnlyWritersWrite, Inodes
<1>5. PathNamed'
    BY SelfUpdateAssumption, SMTT(60) DEF GoTo, Check, IInv, TypeOK,
       PathNamed, After
<1>6. DirIsInjective'
    BY SelfUpdateAssumption, SMTT(60) DEF GoTo, Check, IInv, TypeOK,
       DirIsInjective, Unborn
<1>7. Swapped'
    BY SelfUpdateAssumption, SMTT(60) DEF GoTo, Check, IInv, TypeOK, Swapped,
       OneAtATime, PathHolds, SwapHolds, After, Usable, Whole,
       VersionAt, PathNamed
<1>8. CopyKept'
    BY SelfUpdateAssumption, SMTT(60) DEF Check, IInv, CopyKept, Usable,
       Whole
<1> QED BY <1>1, <1>2, <1>3, <1>4, <1>5, <1>6, <1>7, <1>8 DEF IInv

(* Nothing in the directory changes.                                        *)
LEMMA DownloadKeeps ==
  ASSUME IInv, NEW r \in Runs, Download(r)
  PROVE  IInv'
<1>1. TypeOK'
    BY SelfUpdateAssumption, SMTT(60) DEF GoTo, Download, IInv, TypeOK, Live,
       Ended
<1>2. ImageIntact'
    BY SelfUpdateAssumption, SMTT(60) DEF GoTo, Download, IInv, TypeOK,
       ImageIntact, Ended
<1>3. Unborn'
    BY SelfUpdateAssumption, SMTT(60) DEF GoTo, Download, IInv, TypeOK,
       Unborn, After, Ended
<1>4. OnlyWritersWrite'
    BY SelfUpdateAssumption, SMTT(60) DEF GoTo, Download, IInv, TypeOK,
       OnlyWritersWrite
<1>5. PathNamed'
    BY SelfUpdateAssumption, SMTT(60) DEF GoTo, Download, IInv, TypeOK,
       PathNamed, After
<1>6. DirIsInjective'
    BY SelfUpdateAssumption, SMTT(60) DEF Download, IInv, DirIsInjective
<1>7. Swapped'
    BY SelfUpdateAssumption, SMTT(60) DEF GoTo, Download, IInv, TypeOK,
       Swapped, OneAtATime, PathHolds, SwapHolds, After, Usable,
       Whole, VersionAt, PathNamed
<1>8. CopyKept'
    BY SelfUpdateAssumption, SMTT(60) DEF Download, IInv, CopyKept, Usable,
       Whole
<1> QED BY <1>1, <1>2, <1>3, <1>4, <1>5, <1>6, <1>7, <1>8 DEF IInv

(* The path is the image's at this moment.                                  *)
LEMMA ResolveKeeps ==
  ASSUME IInv, NEW r \in Runs, Resolve(r)
  PROVE  IInv'
<1>1. TypeOK'
    BY SelfUpdateAssumption, SMTT(60) DEF GoTo, Resolve, PathOf, IInv,
       TypeOK, Live, Ended
<1>2. ImageIntact'
    BY SelfUpdateAssumption, SMTT(60) DEF GoTo, Resolve, IInv, TypeOK,
       ImageIntact, Ended
<1>3. Unborn'
    BY SelfUpdateAssumption, SMTT(60) DEF GoTo, Resolve, IInv, TypeOK,
       Unborn, After, Ended
<1>4. OnlyWritersWrite'
    BY SelfUpdateAssumption, SMTT(60) DEF GoTo, Resolve, IInv, TypeOK,
       OnlyWritersWrite
<1>5. PathNamed'
    BY SelfUpdateAssumption, SMTT(60) DEF GoTo, Resolve, IInv, TypeOK,
       PathNamed, After
<1>6. DirIsInjective'
    BY SelfUpdateAssumption, SMTT(60) DEF Resolve, IInv, DirIsInjective
<1>7. Swapped'
    BY SelfUpdateAssumption, SMTT(60) DEF GoTo, Resolve, PathOf, IInv,
       TypeOK, Swapped, OneAtATime, PathHolds, SwapHolds, After,
       Usable, Whole, VersionAt
<1>8. CopyKept'
    BY SelfUpdateAssumption, SMTT(60) DEF Resolve, IInv, CopyKept, Usable,
       Whole
<1> QED BY <1>1, <1>2, <1>3, <1>4, <1>5, <1>6, <1>7, <1>8 DEF IInv

(* Unless it races, the run becomes the only one past its renaming.         *)
LEMMA RenameKeeps ==
  ASSUME IInv, NEW r \in Runs, Rename(r)
  PROVE  IInv'
<1>1. TypeOK'
    BY SelfUpdateAssumption, SMTT(60) DEF GoTo, Rename, Moved, IInv, TypeOK,
       ImageIntact, Live, Ended, Files
<1>2. ImageIntact'
    BY SelfUpdateAssumption, SMTT(60) DEF GoTo, Rename, IInv, TypeOK,
       ImageIntact, Ended
<1>3. Unborn'
    BY SelfUpdateAssumption, SMTT(60) DEF GoTo, Rename, Moved, IInv, TypeOK,
       Unborn, After, Ended, Inodes
<1>4. OnlyWritersWrite'
    BY SelfUpdateAssumption, SMTT(60) DEF GoTo, Rename, IInv, TypeOK,
       OnlyWritersWrite
<1>5. PathNamed'
    BY SelfUpdateAssumption, SMTT(60) DEF GoTo, Rename, IInv, TypeOK,
       PathNamed, After
<1>6. DirIsInjective'
    BY SelfUpdateAssumption, SMTT(60) DEF Rename, Moved, IInv, TypeOK,
       DirIsInjective, Names
<1>a. /\ pc[r] = "rename" /\ host \in Hosts
      /\ UNCHANGED <<host, file, image, current, target, path, fd>>
    BY DEF Rename, IInv, TypeOK
<1>7. CASE pc' = [pc EXCEPT ![r] = "failed"] /\ UNCHANGED <<dir, raced>>
  <2>1. Swapped'
    BY <1>7, <1>a, SMTT(60) DEF IInv, TypeOK, Swapped, OneAtATime, PathHolds,
       SwapHolds, After
  <2>2. CopyKept'
    BY <1>7, <1>a DEF IInv, CopyKept, Usable, Whole
  <2> QED BY <2>1, <2>2, <1>1, <1>2, <1>3, <1>4, <1>5, <1>6 DEF IInv
<1>8. CASE /\ path[r] # "deleted" /\ dir[path[r]] # None
           /\ dir' = Moved(path[r], "old")
           /\ raced' = (raced \/ Races(r))
           /\ pc' = [pc EXCEPT ![r] = "open"]
  <2> SUFFICES ASSUME ~raced'
               PROVE  Swapped' /\ CopyKept'
      BY <1>1, <1>2, <1>3, <1>4, <1>5, <1>6 DEF IInv, Swapped, CopyKept
  <2>1. ~raced /\ ~OthersSwapping(r) /\ (host = "macos" => ~Strays(r))
      BY <1>8 DEF Races, IInv, TypeOK
  <2>2. dir[path[r]] = image[r] /\ path[r] \in Names /\ (host = "macos" => path[r] = "exe")
    <3>1. CASE host = "linux"
        BY <3>1, <2>1, <1>8, <1>a DEF IInv, TypeOK, Swapped, PathHolds
    <3>2. CASE host = "macos"
        BY <3>2, <2>1 DEF Strays, Names
    <3> QED BY <3>1, <3>2, <1>a DEF Hosts
  <2>3. image[r] \in Inodes /\ image[r] # None /\ dir'["old"] = image[r]
      BY <2>2, <1>8, <1>a, SelfUpdateAssumption DEF Moved, IInv, TypeOK, Names
  <2>4. path[r] = "exe" => dir'["exe"] = None
      BY <1>8 DEF Moved, IInv, TypeOK, Names
  <2>5. \A q \in Runs : pc'[q] \in After \/ pc'[q] = "rename" => q = r /\ pc'[q] = "open"
      BY <2>1, <1>8, <1>a DEF OthersSwapping, Swapping, After, IInv, TypeOK
  <2>6. OneAtATime' /\ PathHolds'
      BY <2>5 DEF OneAtATime, PathHolds, After
  <2>7. SwapHolds'
      BY <2>2, <2>3, <2>4, <2>5, <1>a DEF SwapHolds
  <2>8. CopyKept'
    <3>1. file[image[r]].whole /\ file[image[r]].mode = "x"
        BY <2>1, <1>a DEF IInv, ImageIntact, Live
    <3> QED BY <3>1, <2>3, <1>a DEF CopyKept, Usable, Whole, Names
  <2> QED BY <2>6, <2>7, <2>8 DEF Swapped
<1> QED BY <1>7, <1>8 DEF Rename, GoTo

(* Unless it has raced, a run finds the name free and creates its own file.  *)
LEMMA OpenKeeps ==
  ASSUME IInv, NEW r \in Runs, Open(r)
  PROVE  IInv'
<1> DEFINE there == dir[path[r]]
<1>a. /\ path[r] \in Names /\ r \in Inodes /\ r # None
      /\ there \in Inodes \union {None} /\ pc[r] = "open"
    BY SelfUpdateAssumption, SMTT(60) DEF Open, IInv, TypeOK, ImageIntact,
       PathNamed, DirIsInjective, CopyKept, After, Files, Inodes
<1>b. UNCHANGED <<host, image, current, target, path, raced>>
    BY DEF Open
<1>1. CASE /\ there = None
           /\ dir' = [dir EXCEPT ![path[r]] = r]
           /\ fd' = [fd EXCEPT ![r] = r]
           /\ file' = [file EXCEPT ![r] = [version |-> target[r], whole |-> FALSE,
                                          by |-> r, mode |-> "plain"]]
           /\ pc' = [pc EXCEPT ![r] = "write"]
  <2>a. \A q \in Runs : image[q] # r
    BY <1>a DEF IInv, Unborn
  <2>1. TypeOK'
    BY <1>a, <1>b, <1>1, SelfUpdateAssumption, SMTT(60) DEF IInv, TypeOK,
       Live, Ended, Names, Files
  <2>2. ImageIntact'
    <3> SUFFICES ASSUME host = "linux" \/ ~raced, NEW q \in Runs, pc'[q] \in Live
                 PROVE  /\ file'[image[q]].whole
                        /\ file'[image[q]].mode = "x"
                        /\ \A p \in Runs : fd'[p] # image[q]
        BY <1>b DEF ImageIntact
    <3>1. pc[q] \in Live /\ image[q] \in Inodes
        BY <1>1, <1>a DEF Live, IInv, TypeOK
    <3>2. image[q] # r
        BY <3>1, <2>a
    <3> QED BY <3>1, <3>2, <1>1 DEF IInv, TypeOK, ImageIntact
  <2>3. Unborn'
    BY <1>a, <1>b, <1>1, SelfUpdateAssumption, SMTT(60) DEF IInv, TypeOK,
       Unborn, After
  <2>4. OnlyWritersWrite'
    BY <1>a, <1>b, <1>1, SelfUpdateAssumption, SMTT(60) DEF IInv, TypeOK,
       OnlyWritersWrite
  <2>5. PathNamed'
    BY <1>a, <1>b, <1>1, SelfUpdateAssumption, SMTT(60) DEF IInv, PathNamed
  <2>6. DirIsInjective'
    BY <1>a, <1>b, <1>1, SelfUpdateAssumption, SMTT(60) DEF IInv,
       DirIsInjective, Unborn, Names
  <2>7. Swapped'
    BY <1>a, <1>b, <1>1, SelfUpdateAssumption, SMTT(60) DEF IInv, TypeOK,
       Swapped, OneAtATime, PathHolds, SwapHolds, After, Usable,
       Names
  <2>8. CopyKept'
    BY <1>a, <1>b, <1>1, SelfUpdateAssumption, SMTT(60) DEF IInv, TypeOK,
       ImageIntact, Unborn, CopyKept, After, Usable, Whole,
       VersionAt
  <2> QED BY <2>1, <2>2, <2>3, <2>4, <2>5, <2>6, <2>7, <2>8 DEF IInv
<1>2. CASE /\ there # None /\ (host = "linux" => ~Executing(there))
           /\ fd' = [fd EXCEPT ![r] = there]
           /\ file' = [file EXCEPT ![there].version = target[r], ![there].whole = FALSE,
                                  ![there].by = r]
           /\ pc' = [pc EXCEPT ![r] = "write"]
           /\ UNCHANGED dir
  <2>a. raced
    <3>1. ~raced => dir["old"] = image[r] /\ (host = "macos" \/ path[r] = "exe" => there = None)
        BY <1>a DEF IInv, Swapped, SwapHolds, After, TypeOK
    <3>2. host = "linux" => there # image[r]
        BY <1>a, <1>2 DEF Executing, Live
    <3> QED BY <3>1, <3>2, <1>2, <1>a DEF IInv, TypeOK, Hosts, Names
  <2>b. file' = [file EXCEPT ![there] = [file[there] EXCEPT !.version = target[r],
                                             !.whole = FALSE, !.by = r]]
    BY <1>2
  <2>c. raced' = raced
    BY <1>b
  <2>d. host = "linux" => \A q \in Runs : pc[q] \in Live => image[q] # there
    BY <1>2 DEF Executing
  <2>1. TypeOK'
    BY <1>a, <1>b, <1>2, <2>b, <2>d, SelfUpdateAssumption, SMTT(60) DEF IInv,
       TypeOK, Live, Ended, Names, Files
  <2>2. ImageIntact'
    BY <1>a, <1>b, <1>2, <2>a, <2>b, <2>d, SelfUpdateAssumption, SMTT(60) DEF IInv,
       TypeOK, ImageIntact, Live
  <2>3. Unborn'
    BY <1>a, <1>b, <1>2, <2>b, <2>d, SelfUpdateAssumption, SMTT(60) DEF IInv,
       TypeOK, Unborn, After
  <2>4. OnlyWritersWrite'
    BY <1>a, <1>b, <1>2, <2>b, <2>d, SelfUpdateAssumption, SMTT(60) DEF IInv,
       TypeOK, OnlyWritersWrite
  <2>5. PathNamed'
    BY <1>a, <1>b, <1>2, <2>b, <2>d, SelfUpdateAssumption, SMTT(60) DEF IInv,
       PathNamed
  <2>6. DirIsInjective'
    BY <1>a, <1>b, <1>2, <2>b, <2>d, SelfUpdateAssumption, SMTT(60) DEF IInv,
       DirIsInjective
  <2>7. Swapped'
    BY <2>a, <2>c DEF Swapped
  <2>8. CopyKept'
    BY <2>a, <2>c DEF CopyKept
  <2> QED BY <2>1, <2>2, <2>3, <2>4, <2>5, <2>6, <2>7, <2>8 DEF IInv
<1>3. CASE pc' = [pc EXCEPT ![r] = "restore"] /\ UNCHANGED <<dir, fd, file>>
  <2>1. TypeOK'
    BY <1>a, <1>b, <1>3, SelfUpdateAssumption, SMTT(60) DEF IInv, TypeOK,
       Live, Ended
  <2>2. ImageIntact'
    BY <1>a, <1>b, <1>3, SelfUpdateAssumption, SMTT(60) DEF IInv, TypeOK,
       ImageIntact, Live
  <2>3. Unborn'
    BY <1>a, <1>b, <1>3, SelfUpdateAssumption, SMTT(60) DEF IInv, TypeOK,
       Unborn, After
  <2>4. OnlyWritersWrite'
    BY <1>a, <1>b, <1>3, SelfUpdateAssumption, SMTT(60) DEF IInv,
       OnlyWritersWrite
  <2>5. PathNamed'
    BY <1>a, <1>b, <1>3, SelfUpdateAssumption, SMTT(60) DEF IInv, PathNamed
  <2>6. DirIsInjective'
    BY <1>a, <1>b, <1>3, SelfUpdateAssumption, SMTT(60) DEF IInv,
       DirIsInjective
  <2>7. Swapped'
    BY <1>a, <1>b, <1>3, SelfUpdateAssumption, SMTT(60) DEF IInv, Swapped,
       OneAtATime, PathHolds, SwapHolds, After, Usable, Whole,
       VersionAt
  <2>8. CopyKept'
    BY <1>a, <1>b, <1>3, SelfUpdateAssumption, SMTT(60) DEF IInv, CopyKept,
       Usable, Whole
  <2> QED BY <2>1, <2>2, <2>3, <2>4, <2>5, <2>6, <2>7, <2>8 DEF IInv
<1> QED BY <1>1, <1>2, <1>3 DEF Open, GoTo

(* Unless it has raced, the file written is the run's own and it is alone.   *)
LEMMA WriteKeeps ==
  ASSUME IInv, NEW r \in Runs, Write(r)
  PROVE  IInv'
<1>a. fd[r] \in Inodes
    BY SelfUpdateAssumption, SMTT(60) DEF Write, IInv, TypeOK, ImageIntact,
       Unborn, OnlyWritersWrite
<1>b. /\ pc[r] = "write" /\ fd' = [fd EXCEPT ![r] = None]
      /\ UNCHANGED <<host, dir, image, current, target, path, raced>>
    BY DEF Write, Closed
<1>c. ~raced => Alone(r) /\ fd[r] = r
    BY <1>a, <1>b, SelfUpdateAssumption, SMTT(60) DEF Alone, IInv, Unborn,
       OnlyWritersWrite, Swapped, SwapHolds, CopyKept,
       After
<1>1. CASE UNCHANGED file /\ pc' = [pc EXCEPT ![r] = "restore"]
  <2>1. TypeOK'
    BY <1>a, <1>b, <1>c, <1>1, SelfUpdateAssumption, SMTT(60) DEF IInv,
       TypeOK, Live, Ended
  <2>2. ImageIntact'
    BY <1>a, <1>b, <1>c, <1>1, SelfUpdateAssumption, SMTT(60) DEF IInv,
       TypeOK, ImageIntact, Live
  <2>3. Unborn'
    BY <1>a, <1>b, <1>c, <1>1, SelfUpdateAssumption, SMTT(60) DEF IInv,
       TypeOK, Unborn, After, Inodes, Names
  <2>4. OnlyWritersWrite'
    BY <1>a, <1>b, <1>c, <1>1, SelfUpdateAssumption, SMTT(60) DEF IInv,
       TypeOK, OnlyWritersWrite
  <2>5. PathNamed'
    BY <1>a, <1>b, <1>c, <1>1, SelfUpdateAssumption, SMTT(60) DEF IInv,
       PathNamed, After
  <2>6. DirIsInjective'
    BY <1>a, <1>b, <1>c, <1>1, SelfUpdateAssumption, SMTT(60) DEF IInv,
       DirIsInjective
  <2>7. Swapped'
    <3> SUFFICES ASSUME ~raced PROVE OneAtATime' /\ PathHolds' /\ SwapHolds'
    BY <1>a, <1>b, <1>c, <1>1, SelfUpdateAssumption, SMTT(60) DEF Swapped,
       OneAtATime
    <3>1. OneAtATime'
    BY <1>a, <1>b, <1>c, <1>1, SelfUpdateAssumption, SMTT(60) DEF IInv,
       TypeOK, Swapped, OneAtATime, After, Usable
    <3>2. PathHolds'
    BY <1>a, <1>b, <1>c, <1>1, SelfUpdateAssumption, SMTT(60) DEF IInv,
       TypeOK, Swapped, OneAtATime, PathHolds, SwapHolds
    <3>3. SwapHolds'
    BY <1>a, <1>b, <1>c, <1>1, SelfUpdateAssumption, SMTT(60) DEF IInv,
       TypeOK, Swapped, OneAtATime, PathHolds, SwapHolds, After, Usable
    <3> QED BY <3>1, <3>2, <3>3
  <2>8. CopyKept'
    BY <1>a, <1>b, <1>c, <1>1, SelfUpdateAssumption, SMTT(60) DEF IInv,
       CopyKept, Usable, Whole
  <2> QED BY <2>1, <2>2, <2>3, <2>4, <2>5, <2>6, <2>7, <2>8 DEF IInv
<1>2. ASSUME NEW whole \in IF Alone(r) THEN {TRUE} ELSE BOOLEAN,
             file' = [file EXCEPT ![fd[r]].whole = whole],
             pc' = [pc EXCEPT ![r] = "chmod"]
      PROVE  IInv'
  <2>a. whole \in BOOLEAN /\ (~raced => whole = TRUE /\ fd[r] = r)
    BY <1>2, <1>c
  <2>b. file' = [file EXCEPT ![fd[r]].whole = whole]
    BY <1>2
  <2>c. pc' = [pc EXCEPT ![r] = "chmod"]
    BY <1>2
  <2>1. TypeOK'
    BY <1>a, <1>b, <2>a, <2>b, <2>c, SelfUpdateAssumption, SMTT(60) DEF IInv,
       TypeOK, Live, Ended, Names, Files
  <2>2. ImageIntact'
    BY <1>a, <1>b, <2>a, <2>b, <2>c, SelfUpdateAssumption, SMTT(60) DEF IInv,
       TypeOK, ImageIntact, Live
  <2>3. Unborn'
    BY <1>a, <1>b, <2>a, <2>b, <2>c, SelfUpdateAssumption, SMTT(60) DEF IInv,
       TypeOK, Unborn, After, Inodes, Names
  <2>4. OnlyWritersWrite'
    BY <1>a, <1>b, <2>a, <2>b, <2>c, SelfUpdateAssumption, SMTT(60) DEF IInv,
       TypeOK, OnlyWritersWrite
  <2>5. PathNamed'
    BY <1>a, <1>b, <2>a, <2>b, <2>c, SelfUpdateAssumption, SMTT(60) DEF IInv,
       PathNamed, After
  <2>6. DirIsInjective'
    BY <1>a, <1>b, <2>a, <2>b, <2>c, SelfUpdateAssumption, SMTT(60) DEF IInv,
       DirIsInjective
  <2>7. Swapped'
    BY <1>a, <1>b, <2>a, <2>b, <2>c, SelfUpdateAssumption, SMTT(60) DEF IInv,
       TypeOK, Swapped, OneAtATime, PathHolds, SwapHolds, After,
       Usable
  <2>8. CopyKept'
    BY <1>a, <1>b, <2>a, <2>b, <2>c, SelfUpdateAssumption, SMTT(60) DEF IInv,
       CopyKept, Usable, Whole
  <2> QED BY <2>1, <2>2, <2>3, <2>4, <2>5, <2>6, <2>7, <2>8 DEF IInv
<1> QED BY <1>1, <1>2 DEF Write, GoTo

(* The image goes back under its name, if the renaming succeeds.            *)
LEMMA RestoreKeeps ==
  ASSUME IInv, NEW r \in Runs, Restore(r)
  PROVE  IInv'
<1>1. TypeOK'
    BY SelfUpdateAssumption, SMTT(60) DEF GoTo, Restore, Moved, IInv, TypeOK,
       Ended, Names
<1>2. ImageIntact'
    BY SelfUpdateAssumption, SMTT(60) DEF GoTo, Restore, IInv, ImageIntact,
       Live
<1>3. Unborn'
    BY SelfUpdateAssumption, SMTT(60) DEF GoTo, Restore, Moved, IInv, TypeOK,
       Unborn, Live, Inodes, Names
<1>4. OnlyWritersWrite'
    BY SelfUpdateAssumption, SMTT(60) DEF GoTo, Restore, Moved, IInv, TypeOK,
       OnlyWritersWrite
<1>5. PathNamed'
    BY SelfUpdateAssumption, SMTT(60) DEF GoTo, Restore, Moved, IInv, TypeOK,
       PathNamed, After
<1>6. DirIsInjective'
    BY SelfUpdateAssumption, SMTT(60) DEF GoTo, Restore, Moved, IInv, TypeOK,
       DirIsInjective, Unborn, Names
<1>7. Swapped'
    BY SelfUpdateAssumption, SMTT(60) DEF GoTo, Restore, Moved, IInv, TypeOK,
       Swapped, OneAtATime, PathHolds, SwapHolds, After, Usable,
       Whole, VersionAt, PathNamed, ImageIntact, Unborn, Live, Names
<1>8. CopyKept'
    BY SelfUpdateAssumption, SMTT(60) DEF Restore, Moved, IInv, TypeOK,
       PathNamed, Swapped, SwapHolds, CopyKept, After, Usable, Whole, Names
<1> QED BY <1>1, <1>2, <1>3, <1>4, <1>5, <1>6, <1>7, <1>8 DEF IInv

(* Only now is the new file one that counts.                                *)
LEMMA ChmodKeeps ==
  ASSUME IInv, NEW r \in Runs, Chmod(r)
  PROVE  IInv'
<1> DEFINE there == dir[path[r]]
<1>a. there \in Inodes \union {None} /\ r \in Inodes /\ pc[r] = "chmod"
    BY SelfUpdateAssumption, SMTT(60) DEF Chmod, IInv, TypeOK, ImageIntact,
       PathNamed, DirIsInjective, CopyKept, After, Files, Inodes
<1>b. /\ UNCHANGED <<host, dir, image, current, target, path, fd, raced>>
      /\ pc' = [pc EXCEPT ![r] = "remove"]
    BY DEF Chmod, GoTo
<1>1. CASE there = None /\ UNCHANGED file
  <2>1. TypeOK'
    BY <1>a, <1>b, <1>1, SelfUpdateAssumption, SMTT(60) DEF IInv, TypeOK,
       Live, Ended
  <2>2. ImageIntact'
    BY <1>a, <1>b, <1>1, SelfUpdateAssumption, SMTT(60) DEF IInv, TypeOK,
       ImageIntact, Live
  <2>3. Unborn'
    BY <1>a, <1>b, <1>1, SelfUpdateAssumption, SMTT(60) DEF IInv, TypeOK,
       Unborn, After
  <2>4. OnlyWritersWrite'
    BY <1>a, <1>b, <1>1, SelfUpdateAssumption, SMTT(60) DEF IInv,
       OnlyWritersWrite
  <2>5. PathNamed'
    BY <1>a, <1>b, <1>1, SelfUpdateAssumption, SMTT(60) DEF IInv, PathNamed,
       After
  <2>6. DirIsInjective'
    BY <1>a, <1>b, <1>1, SelfUpdateAssumption, SMTT(60) DEF IInv,
       DirIsInjective
  <2>7. Swapped'
    BY <1>a, <1>b, <1>1, SelfUpdateAssumption, SMTT(60) DEF IInv, Swapped,
       SwapHolds, After
  <2>8. CopyKept'
    BY <1>a, <1>b, <1>1, SelfUpdateAssumption, SMTT(60) DEF IInv, CopyKept,
       Usable, Whole
  <2> QED BY <2>1, <2>2, <2>3, <2>4, <2>5, <2>6, <2>7, <2>8 DEF IInv
<1>2. ASSUME NEW mode \in {"x", "refused"}, file[there].mode = "x" => mode = "x",
             there # None, file' = [file EXCEPT ![there].mode = mode]
      PROVE  IInv'
  <2>a. there # None /\ there \in Inodes
    BY <1>2, <1>a
  <2>b. /\ file' = [file EXCEPT ![there].mode = mode]
        /\ file[there].mode = "x" => mode = "x"
    BY <1>2
  <2>1. TypeOK'
    BY <1>a, <1>b, <2>a, <2>b, SelfUpdateAssumption, SMTT(60) DEF IInv,
       TypeOK, Live, Ended, Names, Files
  <2>2. ImageIntact'
    BY <1>a, <1>b, <2>a, <2>b, SelfUpdateAssumption, SMTT(60) DEF IInv,
       TypeOK, ImageIntact, Live
  <2>3. Unborn'
    BY <1>a, <1>b, <2>a, <2>b, SelfUpdateAssumption, SMTT(60) DEF IInv,
       TypeOK, Unborn, After
  <2>4. OnlyWritersWrite'
    BY <1>a, <1>b, <2>a, <2>b, SelfUpdateAssumption, SMTT(60) DEF IInv,
       OnlyWritersWrite
  <2>5. PathNamed'
    BY <1>a, <1>b, <2>a, <2>b, SelfUpdateAssumption, SMTT(60) DEF IInv,
       PathNamed, After
  <2>6. DirIsInjective'
    BY <1>a, <1>b, <2>a, <2>b, SelfUpdateAssumption, SMTT(60) DEF IInv,
       DirIsInjective
  <2>7. Swapped'
    BY <1>a, <1>b, <2>a, <2>b, SelfUpdateAssumption, SMTT(60) DEF IInv,
       TypeOK, DirIsInjective, Swapped, OneAtATime, PathHolds,
       SwapHolds, CopyKept, After, Usable, Whole, VersionAt,
       Live, Ended, Names, Files, Inodes
  <2>8. CopyKept'
    BY <1>a, <1>b, <2>a, <2>b, SelfUpdateAssumption, SMTT(60) DEF IInv,
       CopyKept, Usable, Whole
  <2> QED BY <2>1, <2>2, <2>3, <2>4, <2>5, <2>6, <2>7, <2>8 DEF IInv
<1> QED BY <1>1, <1>2 DEF Chmod

(* The copy set aside goes when the new one is in place.                    *)
LEMMA RemoveKeeps ==
  ASSUME IInv, NEW r \in Runs, Remove(r)
  PROVE  IInv'
<1>1. TypeOK'
    BY SelfUpdateAssumption, SMTT(60) DEF GoTo, Remove, IInv, TypeOK, Ended
<1>2. ImageIntact'
    BY SelfUpdateAssumption, SMTT(60) DEF GoTo, Remove, IInv, TypeOK,
       ImageIntact, Live
<1>3. Unborn'
    BY SelfUpdateAssumption, SMTT(60) DEF GoTo, Remove, IInv, TypeOK, Unborn,
       Live, Inodes
<1>4. OnlyWritersWrite'
    BY SelfUpdateAssumption, SMTT(60) DEF GoTo, Remove, IInv, TypeOK,
       OnlyWritersWrite, Inodes
<1>5. PathNamed'
    BY SelfUpdateAssumption, SMTT(60) DEF GoTo, Remove, IInv, TypeOK,
       PathNamed, After
<1>6. DirIsInjective'
    BY SelfUpdateAssumption, SMTT(60) DEF GoTo, Remove, IInv, TypeOK,
       DirIsInjective, Unborn
<1>7. Swapped'
    BY SelfUpdateAssumption, SMTT(60) DEF GoTo, Remove, IInv, TypeOK,
       Swapped, OneAtATime, PathHolds, SwapHolds, After, Usable,
       Whole, VersionAt, PathNamed
<1>8. CopyKept'
    BY SelfUpdateAssumption, SMTT(60) DEF GoTo, Remove, IInv, TypeOK,
       Swapped, OneAtATime, PathHolds, SwapHolds, CopyKept,
       After, Usable, Whole, VersionAt, Inodes
<1> QED BY <1>1, <1>2, <1>3, <1>4, <1>5, <1>6, <1>7, <1>8 DEF IInv

(* Whatever a killed run leaves can be relied on.                           *)
LEMMA KillKeeps ==
  ASSUME IInv, NEW r \in Runs, Kill(r)
  PROVE  IInv'
<1>1. TypeOK'
    BY SelfUpdateAssumption, SMTT(60) DEF GoTo, Kill, Closed, IInv, TypeOK,
       Ended
<1>2. ImageIntact'
    BY SelfUpdateAssumption, SMTT(60) DEF GoTo, Kill, Closed, IInv, TypeOK,
       ImageIntact
<1>3. Unborn'
    BY SelfUpdateAssumption, SMTT(60) DEF GoTo, Kill, Closed, IInv, Unborn,
       Live, Inodes
<1>4. OnlyWritersWrite'
    BY SelfUpdateAssumption, SMTT(60) DEF GoTo, Kill, Closed, IInv, TypeOK,
       OnlyWritersWrite
<1>5. PathNamed'
    BY SelfUpdateAssumption, SMTT(60) DEF GoTo, Kill, Closed, IInv, TypeOK,
       PathNamed, After
<1>6. DirIsInjective'
    BY SelfUpdateAssumption, SMTT(60) DEF GoTo, Kill, Closed, IInv, TypeOK,
       DirIsInjective
<1>7. Swapped'
    BY SelfUpdateAssumption, SMTT(60) DEF GoTo, Kill, Closed, IInv, TypeOK,
       Swapped, OneAtATime, PathHolds, SwapHolds, After, Usable,
       Whole, VersionAt
<1>8. CopyKept'
    BY SelfUpdateAssumption, SMTT(60) DEF Kill, IInv, CopyKept, Usable, Whole
<1> QED BY <1>1, <1>2, <1>3, <1>4, <1>5, <1>6, <1>7, <1>8 DEF IInv

(* The operator moves a copy to where none can be executed.                 *)
LEMMA MoveBackKeeps ==
  ASSUME IInv, MoveBack
  PROVE  IInv'
<1>1. TypeOK'
    BY SelfUpdateAssumption, SMTT(60) DEF MoveBack, Moved, IInv, TypeOK,
       Names
<1>2. ImageIntact'
    BY SelfUpdateAssumption, SMTT(60) DEF MoveBack, IInv, ImageIntact
<1>3. Unborn'
    BY SelfUpdateAssumption, SMTT(60) DEF MoveBack, Moved, IInv, TypeOK,
       Unborn, Inodes, Names
<1>4. OnlyWritersWrite'
    BY SelfUpdateAssumption, SMTT(60) DEF MoveBack, Swapping, IInv, TypeOK,
       OnlyWritersWrite, Inodes
<1>5. PathNamed'
    BY SelfUpdateAssumption, SMTT(60) DEF MoveBack, Swapping, PathNamed,
       After
<1>6. DirIsInjective'
    BY SelfUpdateAssumption, SMTT(60) DEF MoveBack, Moved, IInv, TypeOK,
       DirIsInjective, Names
<1>7. Swapped'
    BY SelfUpdateAssumption, SMTT(60) DEF MoveBack, Swapping, Executable,
       Moved, IInv, TypeOK, Swapped, OneAtATime, PathHolds, SwapHolds, After, Usable, Whole, Live, Names
<1>8. CopyKept'
    BY SelfUpdateAssumption, SMTT(60) DEF MoveBack, Executable, Moved, IInv,
       TypeOK, CopyKept, Usable, Whole, Names
<1> QED BY <1>1, <1>2, <1>3, <1>4, <1>5, <1>6, <1>7, <1>8 DEF IInv

(* A step in which nothing happens.                                        *)
LEMMA Stuttering ==
  ASSUME IInv, UNCHANGED vars
  PROVE  IInv'
<1>1. TypeOK'
    BY DEF vars, IInv, TypeOK
<1>2. ImageIntact'
    BY DEF vars, IInv, ImageIntact
<1>3. Unborn'
    BY DEF vars, IInv, Unborn
<1>4. OnlyWritersWrite'
    BY DEF vars, IInv, OnlyWritersWrite
<1>5. PathNamed'
    BY DEF vars, IInv, PathNamed
<1>6. DirIsInjective'
    BY DEF vars, IInv, DirIsInjective
<1>7. Swapped'
    BY DEF vars, IInv, Swapped, OneAtATime, PathHolds, SwapHolds, Usable, Whole, VersionAt
<1>8. CopyKept'
    BY DEF vars, IInv, CopyKept, Usable, Whole
<1> QED BY <1>1, <1>2, <1>3, <1>4, <1>5, <1>6, <1>7, <1>8 DEF IInv

(* Every step of the system keeps the invariant.                           *)
LEMMA Inductive ==
  ASSUME IInv, [Next]_vars
  PROVE  IInv'
<1>1. ASSUME NEW r \in Runs, Launch(r) \/ Step(r) \/ Kill(r)
      PROVE  IInv'
    BY <1>1, LaunchKeeps, CheckKeeps, DownloadKeeps, ResolveKeeps, RenameKeeps,
       OpenKeeps, WriteKeeps, RestoreKeeps, ChmodKeeps, RemoveKeeps, KillKeeps DEF Step
<1>2. CASE MoveBack
    BY <1>2, MoveBackKeeps
<1>3. CASE UNCHANGED vars
    BY <1>3, Stuttering
<1> QED BY <1>1, <1>2, <1>3 DEF Next

(* The invariant holds at every moment.                                    *)
THEOREM Invariant == Spec => []IInv
<1>1. Init => IInv
    BY InitHolds
<1>2. IInv /\ [Next]_vars => IInv'
    BY Inductive
<1> QED BY <1>1, <1>2, PTL DEF Spec

(* Every variable of self_update::run's model has its type.                *)
THEOREM TypeCorrect == Spec => []TypeOK
<1>1. IInv => TypeOK
    BY DEF IInv
<1> QED BY <1>1, Invariant, PTL

(* Unless two updates swap at once, a usable copy of the binary is in the  *)
(* directory at every moment (self_update.rs, the renaming to the removal).*)
THEOREM ACopyIsKept == Spec => []CopyKept
<1>1. IInv => CopyKept
    BY DEF IInv
<1> QED BY <1>1, Invariant, PTL

(* The run that moves: every other run's program counter stays.            *)
LEMMA OnlyItsOwn ==
  ASSUME IInv, Next, NEW r \in Runs, pc'[r] # pc[r]
  PROVE  Launch(r) \/ Step(r) \/ Kill(r)
<1>1. PICK q \in Runs : Launch(q) \/ Step(q) \/ Kill(q)
    BY DEF Next, MoveBack
<1>2. \E label : GoTo(q, label)
    BY <1>1, Zenon DEF Launch, Step, Kill, Check, Download, Resolve, Rename, Open, Write,
       Restore, Chmod, Remove
<1>3. q = r
    BY <1>2 DEF GoTo, IInv, TypeOK
<1> QED BY <1>1, <1>3

(* A copy that stays where it is, as it is, is kept.                       *)
LEMMA KeptWhereItIs ==
  ASSUME NEW n \in Names, Usable(n), dir'[n] = dir[n], file'[dir[n]] = file[dir[n]]
  PROVE  Kept(dir[n])'
BY DEF Kept, Usable, Whole

(* ReplacesItsOwn, of one step of one run.                                 *)
LEMMA ReplacedByStep ==
  ASSUME IInv, NEW r \in Runs, Launch(r) \/ Step(r) \/ Kill(r), ~raced',
         NEW i \in Inodes, Kept(i), ~Kept(i)'
  PROVE  \/ i = image[r] /\ Usable("exe")' /\ VersionAt("exe")' = target[r]
         \/ i = dir["old"] /\ Kept(image[r])'
<1> PICK n \in Names : dir[n] = i /\ Usable(n)
    BY DEF Kept
<1>1. ~raced
    BY SelfUpdateAssumption DEF IInv, TypeOK, Step, Launch, Check, Download, Resolve,
       Rename, Open, Write, Restore, Chmod, Remove, Kill
<1>2. dir[n] \in Inodes /\ dir[n] # None
    BY DEF Usable, Whole
<1>3. /\ OneAtATime /\ PathHolds /\ SwapHolds
    BY <1>1 DEF IInv, Swapped
<1>4. ~UNCHANGED <<dir, file>>
    BY KeptWhereItIs
<1>5. CASE Rename(r)
  <2>1. CASE UNCHANGED dir
      BY <2>1, <1>4, <1>5 DEF Rename
  <2>2. CASE /\ path[r] # "deleted" /\ dir[path[r]] # None
             /\ dir' = Moved(path[r], "old")
             /\ raced' = (raced \/ Races(r))
    <3>1. path[r] # "old" /\ path[r] \in Names
        BY <2>2, <1>4, <1>5 DEF Moved, Rename, IInv, TypeOK
    <3>2. dir["exe"] = image[r] /\ path[r] = "exe"
      <4>1. CASE host = "linux"
          BY <4>1, <3>1, <2>2, <1>3, <1>5 DEF PathHolds, Rename, Names
      <4>2. CASE host = "macos"
          BY <4>2, <2>2 DEF Races, Strays
      <4> QED BY <4>1, <4>2 DEF IInv, TypeOK, Hosts
    <3>3. /\ UNCHANGED <<file, image>> /\ pc[r] = "rename"
          /\ image[r] \in Inodes /\ image[r] # None
        BY <1>5, SelfUpdateAssumption DEF Rename, IInv, TypeOK
    <3>4. file[image[r]].whole /\ file[image[r]].mode = "x"
        BY <3>3, <1>1 DEF IInv, ImageIntact, Live
    <3>5. dir'["old"] = image[r]
        BY <3>2, <2>2 DEF Moved, IInv, TypeOK, Names
    <3>6. Kept(image[r])'
        BY <3>3, <3>4, <3>5 DEF Kept, Usable, Whole, Names
    <3> QED BY <3>2, <3>3, <3>6 DEF Names
  <2> QED BY <1>5, <2>1, <2>2 DEF Rename
<1>6. CASE Open(r)
  <2>1. CASE UNCHANGED <<dir, fd, file>>
      BY <2>1, <1>4
  <2>2. path[r] \in Names /\ pc[r] = "open" /\ r # dir[n]
      BY <1>6 DEF Open, IInv, PathNamed, Unborn, After
  <2>3. CASE /\ dir[path[r]] = None
             /\ dir' = [dir EXCEPT ![path[r]] = r]
             /\ file' = [file EXCEPT ![r] = [version |-> target[r], whole |-> FALSE,
                                            by |-> r, mode |-> "plain"]]
    <3>1. dir'[n] = dir[n]
        BY <2>3, <1>2 DEF IInv, TypeOK
    <3>2. file'[dir[n]] = file[dir[n]]
        BY <2>3, <2>2, <1>2 DEF IInv, TypeOK
    <3> QED BY <3>1, <3>2, KeptWhereItIs
  <2>4. CASE dir[path[r]] # None /\ (host = "linux" => ~Executing(dir[path[r]]))
    <3>1. path[r] = "exe"
      <4>1. CASE host = "linux"
        <5>1. dir[path[r]] # image[r]
            BY <4>1, <2>4, <2>2 DEF Executing, Live
        <5> QED BY <5>1, <2>2, <1>3 DEF SwapHolds, After, Names
      <4>2. CASE host = "macos"
          BY <4>2, <2>2, <1>3 DEF SwapHolds, After
      <4> QED BY <4>1, <4>2 DEF IInv, TypeOK, Hosts
    <3>2. dir["exe"] = None
        BY <3>1, <2>2, <1>3 DEF SwapHolds, After
    <3> QED BY <3>1, <3>2, <2>4
  <2> QED BY <1>6, <2>1, <2>3, <2>4, Zenon DEF Open
<1>7. CASE Write(r)
  <2>1. /\ pc[r] = "write" /\ fd[r] = r /\ ~file[r].whole /\ r \in Inodes
        /\ UNCHANGED dir
      BY <1>7, <1>3 DEF Write, SwapHolds, After, Inodes
  <2>2. dir[n] # r
      BY <2>1 DEF Usable, Whole
  <2>3. file'[dir[n]] = file[dir[n]]
    <3>1. CASE UNCHANGED file
        BY <3>1
    <3>2. ASSUME NEW whole \in BOOLEAN, file' = [file EXCEPT ![fd[r]].whole = whole]
          PROVE  file'[dir[n]] = file[dir[n]]
        BY <3>2, <2>1, <2>2, <1>2 DEF IInv, TypeOK
    <3> QED BY <1>7, <3>1, <3>2 DEF Write
  <2> QED BY <2>1, <2>3, KeptWhereItIs
<1>8. CASE Restore(r)
  <2>0. /\ pc[r] = "restore" /\ path[r] \in Names /\ UNCHANGED file
        /\ \/ dir["old"] # None /\ dir' = Moved("old", path[r])
           \/ UNCHANGED dir
      BY <1>8 DEF Restore, IInv, PathNamed, After
  <2>1. path[r] = "exe" /\ dir["old"] # None /\ dir' = Moved("old", path[r])
      BY <2>0, <1>4 DEF Moved, Names
  <2>2. n = "old"
      BY <2>1, <2>0, <1>3 DEF SwapHolds, After, Usable, Whole, Names
  <2>3. dir'["exe"] = dir["old"]
      BY <2>1 DEF Moved, IInv, TypeOK, Names
  <2> QED BY <2>2, <2>3, <2>0 DEF Kept, Usable, Whole, Names
<1>9. CASE Chmod(r)
  <2>1. /\ path[r] = "exe" /\ dir["exe"] = r /\ file[r].mode = "plain"
        /\ r \in Inodes /\ r # None /\ UNCHANGED dir
      BY <1>9, <1>3, SelfUpdateAssumption DEF Chmod, SwapHolds, After, Inodes
  <2>2. dir[n] # r
      BY <2>1 DEF Usable
  <2>3. file'[dir[n]] = file[dir[n]]
    <3>1. \/ file' = [file EXCEPT ![r].mode = "x"]
          \/ file' = [file EXCEPT ![r].mode = IF @ = "x" THEN @ ELSE "refused"]
        BY <1>9, <2>1, Zenon DEF Chmod
    <3> QED BY <3>1, <2>1, <2>2, <1>2 DEF IInv, TypeOK
  <2> QED BY <2>1, <2>3, KeptWhereItIs
<1>10. CASE Remove(r)
  <2>1. dir' = [dir EXCEPT !["old"] = None] /\ UNCHANGED file
      BY <1>10, <1>4 DEF Remove
  <2>2. /\ dir["exe"] = r /\ dir["old"] = image[r] /\ file[r].version = target[r]
        /\ file[r].whole /\ file[r].mode # "plain"
        /\ pc[r] = "remove" /\ r \in Inodes /\ r # None
      BY <1>10, <1>3, SelfUpdateAssumption DEF Remove, SwapHolds, After, Inodes
  <2>3. dir'["exe"] = dir["exe"]
      BY <2>1 DEF IInv, TypeOK, Names
  <2>4. n = "old"
      BY <2>1, <2>3, KeptWhereItIs DEF Names
  <2>5. Usable("exe")' /\ VersionAt("exe")' = target[r]
      BY <2>1, <2>2, <2>3 DEF Usable, Whole, VersionAt
  <2> QED BY <2>2, <2>4, <2>5
<1>11. CASE Launch(r) \/ Kill(r) \/ Check(r) \/ Download(r) \/ Resolve(r)
    BY <1>11, <1>4 DEF Launch, Kill, Check, Download, Resolve
<1> QED BY <1>5, <1>6, <1>7, <1>8, <1>9, <1>10, <1>11 DEF Step

(* Unless two updates swap at once, and on macOS unless one finds another  *)
(* binary than its own under its name, no run gives up a usable binary but *)
(* the one it was started from, and that for the release it asked for.     *)
THEOREM NothingElseIsReplaced == Spec => ReplacesItsOwn
<1>1. IInv /\ [Next]_vars =>
        [raced' \/ \A r \in Runs : pc'[r] # pc[r] =>
           \A i \in Inodes : Kept(i) /\ ~Kept(i)' =>
             \/ i = image[r] /\ Usable("exe")' /\ VersionAt("exe")' = target[r]
             \/ i = dir["old"] /\ Kept(image[r])']_vars
  <2> SUFFICES ASSUME IInv, Next, ~raced', NEW r \in Runs, pc'[r] # pc[r],
                      NEW i \in Inodes, Kept(i), ~Kept(i)'
               PROVE  \/ i = image[r] /\ Usable("exe")' /\ VersionAt("exe")' = target[r]
                      \/ i = dir["old"] /\ Kept(image[r])'
      OBVIOUS
  <2>1. Launch(r) \/ Step(r) \/ Kill(r)
      BY OnlyItsOwn
  <2> QED BY <2>1, ReplacedByStep
<1> QED BY <1>1, Invariant, PTL DEF Spec, ReplacesItsOwn

(* A run that ends "Upgraded" has installed what it downloaded, under the  *)
(* name it was started by, unless another was swapping too.                *)
THEOREM TheUpgradeIsInstalled == Spec => UpgradedIsInstalled
<1>1. IInv /\ [Next]_vars =>
        [\A r \in Runs : pc[r] = "remove" /\ pc'[r] = "upgraded" /\ ~raced =>
           Usable("exe") /\ VersionAt("exe") = target[r]]_vars
  <2> SUFFICES ASSUME IInv, NEW r \in Runs, pc[r] = "remove", ~raced
               PROVE  Usable("exe") /\ VersionAt("exe") = target[r]
      OBVIOUS
  <2>1. /\ dir["exe"] = r /\ file[r].version = target[r] /\ file[r].whole
        /\ file[r].mode # "plain" /\ r # None
      BY SelfUpdateAssumption DEF IInv, Swapped, SwapHolds, After, Inodes
  <2> QED BY <2>1 DEF Usable, Whole, VersionAt
<1> QED BY <1>1, Invariant, PTL DEF Spec, UpgradedIsInstalled

(* A run whose writing fails leaves the binary it was started from under   *)
(* its name or as .old, unless another was swapping too.                   *)
THEOREM TheImageIsKept == Spec => FailureKeepsImage
<1>1. IInv /\ [Next]_vars =>
        [\A r \in Runs : pc[r] = "restore" /\ pc'[r] = "failed" /\ ~raced =>
           dir'[path[r]] = image[r] \/ dir'["old"] = image[r]]_vars
  <2> SUFFICES ASSUME IInv, Next, NEW r \in Runs, pc[r] = "restore",
                      pc'[r] = "failed", ~raced
               PROVE  dir'[path[r]] = image[r] \/ dir'["old"] = image[r]
      OBVIOUS
  <2>1. dir["old"] = image[r] /\ path[r] \in Names
      BY DEF IInv, Swapped, SwapHolds, PathNamed, After
  <2>2. Restore(r)
    <3>1. Launch(r) \/ Step(r) \/ Kill(r)
        BY OnlyItsOwn
    <3>2. pc'[r] # "killed"
        OBVIOUS
    <3> QED BY <3>1, <3>2 DEF Step, Launch, Kill, Check, Download, Resolve, Rename, Open,
          Write, Chmod, Remove, GoTo, IInv, TypeOK
  <2>3. CASE UNCHANGED dir
      BY <2>1, <2>3
  <2>4. CASE dir' = Moved("old", path[r])
    <3>1. dir'[path[r]] = dir["old"]
        BY <2>4, <2>1 DEF Moved, IInv, TypeOK
    <3> QED BY <3>1, <2>1
  <2> QED BY <2>2, <2>3, <2>4 DEF Restore
<1> QED BY <1>1, Invariant, PTL DEF Spec, FailureKeepsImage

=============================================================================
