----------------------------- MODULE SelfUpdate -----------------------------
(***************************************************************************)
(* self_update::run, the `update` subcommand, on the two Unix systems      *)
(* binaries are published for: look up the latest release, download it,    *)
(* rename the running binary to .old, write the new one in its place,      *)
(* chmod, remove .old.  Several runs may go on at once, and a run may be   *)
(* killed between any two steps.                                           *)
(* The binary is installed as itself: no symbolic or hard links to it.     *)
(* A download whose end the server does not announce could be short        *)
(* without an error; GitHub announces it.                                  *)
(***************************************************************************)
CONSTANTS
  Runs,                  \* runs of `cy-tls update`, each made at most once
  Versions,              \* of builds, published or not; nothing orders them, for
                         \* the code only asks whether two are the same
  Installed,             \* the version of the binary that was installed
  None                   \* no file, no inode

(* The two names in the directory: exe_path and its .old.                  *)
Names == {"exe", "old"}

(* An inode is known by the run that created it, or is the one installed.  *)
Shipped == "shipped"
Inodes == Runs \union {Shipped}

ASSUME SelfUpdateAssumption ==
  /\ Installed \in Versions
  /\ Shipped \notin Runs
  /\ None \notin Inodes

Hosts == {"linux", "macos"}

VARIABLES
  host,                  \* what current_exe and open do differs
  dir,                   \* name -> inode
  file,                  \* inode -> what it holds
  pc,                    \* run -> the next step
  image,                 \* run -> the inode it executes
  current,               \* run -> the version built into it
  target,                \* run -> the version it downloads
  path,                  \* run -> the name it was started by, then current_exe's
  fd,                    \* run -> the inode it has open for writing
  raced                  \* a run renamed a binary while another was at it too,
                         \* or, on macOS, another than the one it was started from

vars == <<host, dir, file, pc, image, current, target, path, fd, raced>>

(* The mode of a file: "refused" is one whose chmod failed.                *)
Files == [version: Versions, whole: BOOLEAN, by: Inodes,   \* by: who truncated it last
          mode: {"plain", "x", "refused"}]

Live == {"check", "download", "resolve", "rename", "open", "write", "restore",
         "chmod", "remove"}
Ended == {"current", "upgraded", "failed", "killed"}

(* From current_exe() to the end: the run holds a path it will act on.     *)
Swapping == {"rename", "open", "write", "restore", "chmod", "remove"}

Whole(n) == dir[n] # None /\ file[dir[n]].whole
Executable(n) == Whole(n) /\ file[dir[n]].mode = "x"
VersionAt(n) == file[dir[n]].version

(* External: on Linux execve refuses a file open for writing, and open     *)
(* refuses to write a file that is being executed (ETXTBSY).               *)
OpenForWriting(i) == \E r \in Runs : fd[r] = i
Executing(i) == \E r \in Runs : pc[r] \in Live /\ image[r] = i

-----------------------------------------------------------------------------
TypeOK ==
  /\ host \in Hosts
  /\ dir \in [Names -> Inodes \union {None}]
  /\ file \in [Inodes -> Files]
  /\ pc \in [Runs -> Live \union Ended \union {"idle"}]
  /\ image \in [Runs -> Inodes]
  /\ current \in [Runs -> Versions]
  /\ target \in [Runs -> Versions]
  /\ path \in [Runs -> Names \union {"deleted"}]
  /\ fd \in [Runs -> Inodes \union {None}]
  /\ raced \in BOOLEAN

(* What is installed need not be what is published: it may be a build of   *)
(* one's own, or a release that has been withdrawn.                        *)
Init ==
  /\ host \in Hosts
  /\ dir = [n \in Names |-> IF n = "exe" THEN Shipped ELSE None]
  /\ file = [i \in Inodes |-> [version |-> Installed, whole |-> i = Shipped, by |-> i,
                              mode |-> IF i = Shipped THEN "x" ELSE "plain"]]
  /\ pc = [r \in Runs |-> "idle"]
  /\ image = [r \in Runs |-> Shipped]
  /\ current = [r \in Runs |-> Installed]
  /\ target = [r \in Runs |-> Installed]
  /\ path = [r \in Runs |-> "exe"]
  /\ fd = [r \in Runs |-> None]
  /\ raced = FALSE

GoTo(r, label) == pc' = [pc EXCEPT ![r] = label]

(* External: a user starts the binary, under either name.                  *)
Launch(r) ==
  /\ pc[r] = "idle"
  /\ \E n \in Names :
       /\ Executable(n)
       /\ host = "linux" => ~OpenForWriting(dir[n])
       /\ image' = [image EXCEPT ![r] = dir[n]]
       /\ current' = [current EXCEPT ![r] = VersionAt(n)]
       /\ path' = [path EXCEPT ![r] = n]
  /\ GoTo(r, "check")
  /\ UNCHANGED <<host, dir, file, target, fd, raced>>

(* Ask for the latest release and compare it with the version built in.    *)
(* Releases appear and are withdrawn, so GitHub may name any; another than *)
(* the run's own is an upgrade, be it older.  Anything that fails, an asset*)
(* missing for this host too, ends the run.                                *)
Check(r) ==
  /\ pc[r] = "check"
  /\ \/ GoTo(r, "failed") /\ UNCHANGED target
     \/ \E latest \in Versions :
          \/ /\ latest = current[r]
             /\ GoTo(r, "current")
             /\ UNCHANGED target
          \/ /\ latest # current[r]
             /\ target' = [target EXCEPT ![r] = latest]
             /\ GoTo(r, "download")
  /\ UNCHANGED <<host, dir, file, image, current, path, fd, raced>>

Download(r) ==
  /\ pc[r] = "download"
  /\ \/ GoTo(r, "resolve")
     \/ GoTo(r, "failed")
  /\ UNCHANGED <<host, dir, file, image, current, target, path, fd, raced>>

(* External: on Linux current_exe() names the inode, wherever it has been  *)
(* moved; on macOS it is the path the run was started by, as it is in a    *)
(* mutated form everywhere.                                                *)
LaunchPath(r) == path[r]
PathOf(r) ==
  LET names == {n \in Names : dir[n] = image[r]} IN
  IF host = "macos" THEN path[r]
  ELSE IF names # {} THEN CHOOSE n \in names : TRUE
  ELSE "deleted"

Resolve(r) ==
  /\ pc[r] = "resolve"
  /\ \/ /\ path' = [path EXCEPT ![r] = PathOf(r)]
        /\ GoTo(r, "rename")
     \/ GoTo(r, "failed") /\ UNCHANGED path
  /\ UNCHANGED <<host, dir, file, image, current, target, fd, raced>>

(* Renaming a name to itself changes nothing, which is what with_extension *)
(* makes of a path that ends in .old already.                              *)
Moved(from, to) ==
  IF from = to THEN dir ELSE [dir EXCEPT ![to] = dir[from], ![from] = None]

OthersSwapping(r) == \E q \in Runs \ {r} : pc[q] \in Swapping

(* What is under the name is not the binary the run was started from.      *)
Strays(r) == path[r] # "exe" \/ dir["exe"] # image[r]

Races(r) == OthersSwapping(r) \/ (host = "macos" /\ Strays(r))

(* The binary is unlinked to make room for the new one, a mutated form.    *)
RenameUnlinks(r) ==
  /\ pc[r] = "rename"
  /\ \/ /\ path[r] # "deleted"
        /\ dir[path[r]] # None
        /\ dir' = [dir EXCEPT ![path[r]] = None]
        /\ raced' = (raced \/ Races(r))
        /\ GoTo(r, "open")
     \/ GoTo(r, "failed") /\ UNCHANGED <<dir, raced>>
  /\ UNCHANGED <<host, file, image, current, target, path, fd>>

Rename(r) ==
  /\ pc[r] = "rename"
  /\ \/ /\ path[r] # "deleted"
        /\ dir[path[r]] # None
        /\ dir' = Moved(path[r], "old")
        /\ raced' = (raced \/ Races(r))
        /\ GoTo(r, "open")
     \/ GoTo(r, "failed") /\ UNCHANGED <<dir, raced>>
  /\ UNCHANGED <<host, file, image, current, target, path, fd>>

(* fs::write opens the name: a file that is there is truncated and keeps   *)
(* its mode, else one is created that nobody may execute.                  *)
Open(r) ==
  /\ pc[r] = "open"
  /\ LET there == dir[path[r]] IN
     \/ /\ there = None
        /\ dir' = [dir EXCEPT ![path[r]] = r]
        /\ fd' = [fd EXCEPT ![r] = r]
        /\ file' = [file EXCEPT ![r] = [version |-> target[r], whole |-> FALSE,
                                              by |-> r, mode |-> "plain"]]
        /\ GoTo(r, "write")
     \/ /\ there # None
        /\ host = "linux" => ~Executing(there)
        /\ fd' = [fd EXCEPT ![r] = there]
        /\ file' = [file EXCEPT ![there].version = target[r], ![there].whole = FALSE,
                                ![there].by = r]
        /\ GoTo(r, "write")
        /\ UNCHANGED dir
     \/ GoTo(r, "restore") /\ UNCHANGED <<dir, fd, file>>
  /\ UNCHANGED <<host, image, current, target, path, raced>>

(* The rest of the bytes go to the inode opened, whatever its name is by   *)
(* now.  If another run has truncated it since, or writes it too, the two  *)
(* may or may not make a whole file.                                       *)
Alone(r) == file[fd[r]].by = r /\ \A q \in Runs \ {r} : fd[q] # fd[r]

Closed(r) == fd' = [fd EXCEPT ![r] = None]

(* A failed write is taken for a complete one, a mutated form.             *)
WriteUnchecked(r) ==
  /\ pc[r] = "write"
  /\ \E whole \in BOOLEAN : file' = [file EXCEPT ![fd[r]].whole = whole]
  /\ GoTo(r, "chmod")
  /\ Closed(r)
  /\ UNCHANGED <<host, dir, image, current, target, path, raced>>

Write(r) ==
  /\ pc[r] = "write"
  /\ \/ /\ \E whole \in IF Alone(r) THEN {TRUE} ELSE BOOLEAN :
             file' = [file EXCEPT ![fd[r]].whole = whole]
        /\ GoTo(r, "chmod")
     \/ GoTo(r, "restore") /\ UNCHANGED file
  /\ Closed(r)
  /\ UNCHANGED <<host, dir, image, current, target, path, raced>>

(* The renaming back, whose own failure is ignored.                        *)
Restore(r) ==
  /\ pc[r] = "restore"
  /\ \/ dir["old"] # None /\ dir' = Moved("old", path[r])
     \/ UNCHANGED dir
  /\ GoTo(r, "failed")
  /\ UNCHANGED <<host, file, image, current, target, path, fd, raced>>

(* The mode of what the name stands for now; a failure is ignored.         *)
Chmod(r) ==
  /\ pc[r] = "chmod"
  /\ LET there == dir[path[r]] IN
     IF there = None THEN UNCHANGED file
     ELSE \/ file' = [file EXCEPT ![there].mode = "x"]
          \/ file' = [file EXCEPT ![there].mode = IF @ = "x" THEN @ ELSE "refused"]
  /\ GoTo(r, "remove")
  /\ UNCHANGED <<host, dir, image, current, target, path, fd, raced>>

(* .old goes, whatever it is by now; a failure is ignored.                 *)
Remove(r) ==
  /\ pc[r] = "remove"
  /\ \/ dir' = [dir EXCEPT !["old"] = None]
     \/ UNCHANGED dir
  /\ GoTo(r, "upgraded")
  /\ UNCHANGED <<host, file, image, current, target, path, fd, raced>>

(* External: the process is killed, or the host goes down.                 *)
Kill(r) ==
  /\ pc[r] \in Live
  /\ GoTo(r, "killed")
  /\ Closed(r)
  /\ UNCHANGED <<host, dir, file, image, current, target, path, raced>>

(* External: with no update under way, an operator who cannot execute the  *)
(* binary moves .old back by hand.                                         *)
MoveBack ==
  /\ \A r \in Runs : pc[r] \notin Swapping
  /\ ~Executable("exe")
  /\ Executable("old")
  /\ dir' = Moved("old", "exe")
  /\ UNCHANGED <<host, file, pc, image, current, target, path, fd, raced>>

Step(r) ==
  \/ Check(r) \/ Download(r) \/ Resolve(r) \/ Rename(r) \/ Open(r)
  \/ Write(r) \/ Restore(r) \/ Chmod(r) \/ Remove(r)

Next ==
  \/ \E r \in Runs : Launch(r) \/ Step(r) \/ Kill(r)
  \/ MoveBack

(* A run goes on as long as it is not killed; the operator does notice.    *)
Fairness ==
  /\ \A r \in Runs : WF_vars(Step(r))
  /\ WF_vars(MoveBack)

Spec == Init /\ [][Next]_vars /\ Fairness

-----------------------------------------------------------------------------
(* A copy that can be relied on: whole, and executable unless it was the   *)
(* chmod that failed.                                                      *)
Usable(n) == Whole(n) /\ file[dir[n]].mode # "plain"

(* Unless two runs swap at once, the directory always holds a usable copy, *)
(* whatever fails and wherever a run is killed: the binary renamed away is *)
(* not given up before the new one is in place (lines 92 to 111).          *)
CopyKept == raced \/ \E n \in Names : Usable(n)

Kept(i) == \E n \in Names : dir[n] = i /\ Usable(n)

(* A run gives up no usable binary but the one it was started from, and    *)
(* that only with the release it asked for in its place, or a backup that  *)
(* an earlier run has left, for a copy of its own binary.  So the answer to*)
(* an old question replaces nothing that has been installed since.         *)
ReplacesItsOwn ==
  [][raced' \/ \A r \in Runs : pc'[r] # pc[r] =>
       \A i \in Inodes : Kept(i) /\ ~Kept(i)' =>
         \/ i = image[r] /\ Usable("exe")' /\ VersionAt("exe")' = target[r]
         \/ i = dir["old"] /\ Kept(image[r])']_vars

(* A run that says "Upgraded" has the version it downloaded under the name *)
(* it was started by, whole, even though chmod's and remove's results are  *)
(* ignored.                                                                *)
UpgradedIsInstalled ==
  [][\A r \in Runs : pc[r] = "remove" /\ pc'[r] = "upgraded" /\ ~raced =>
       Usable("exe") /\ VersionAt("exe") = target[r]]_vars

(* A run whose writing fails leaves the binary it was started from where   *)
(* it found it, or as .old should even the renaming back fail.             *)
FailureKeepsImage ==
  [][\A r \in Runs : pc[r] = "restore" /\ pc'[r] = "failed" /\ ~raced =>
       dir'[path[r]] = image[r] \/ dir'["old"] = image[r]]_vars

(* Killed runs leave the host with a binary that cannot be started only    *)
(* for a while: moving .old back always brings one back.                   *)
ExecutableAgain ==
  (~Usable("exe")) ~> (raced \/ Usable("exe"))

=============================================================================
