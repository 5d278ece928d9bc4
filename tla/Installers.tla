----------------------------- MODULE Installers -----------------------------
(***************************************************************************)
(* The three ways in which a release gets onto a machine: the PyPI wrapper *)
(* (installer.py), the npm install script with its launcher (install.js,   *)
(* bin/snagify.js), and the GitHub action (entry.sh).  All three fetch an  *)
(* archive and its checksums, compare, and unpack; the first two also take *)
(* an archive from a local directory, and that one they do not compare.    *)
(*                                                                         *)
(* Processes of one kind share a directory.  A file is an inode with the   *)
(* parts that have been written to it; a path names an inode.  A process   *)
(* can be killed, and a write can fail, between any two of its steps.      *)
(***************************************************************************)
EXTENDS Integers

CONSTANTS
  Procs,
  Launchers,    (* those that, with npm, only launch what was installed *)
  NoFile,
  MaxFaults     (* bound of kills and failed writes *)

ASSUME InstallAssumption ==
  /\ Launchers \subseteq Procs
  /\ NoFile \notin Procs
  /\ MaxFaults \in Nat

Kinds  == {"pypi", "npm", "action"}
Parts  == {1, 2}

VARIABLES
  kind,     (* how the processes install *)
  pc,
  archive,  (* what p has for an archive *)
  sums,     (* and for checksums *)
  path,     (* the inode a path names: where it is unpacked, where it is run *)
  inode,    (* [parts, exec]; p's own is the one it creates *)
  fd,       (* the inode p writes to, or runs *)
  code,     (* exit code of p *)
  faults

fetched == <<archive, sums>>
disk    == <<path, inode>>
vars    == <<kind, pc, fetched, disk, fd, code, faults>>

Places == {"stage", "final"}
Inode  == [parts : SUBSET Parts, exec : BOOLEAN]
Blank  == [parts |-> {}, exec |-> FALSE]

Init ==
  /\ kind \in Kinds
  /\ pc = [p \in Procs |-> "start"]
  /\ archive = [p \in Procs |-> "none"] /\ sums = [p \in Procs |-> "none"]
  /\ path = [w \in Places |-> NoFile]
  /\ inode = [p \in Procs |-> Blank]
  /\ fd = [p \in Procs |-> NoFile]
  /\ code = [p \in Procs |-> -1]
  /\ faults = 0
-----------------------------------------------------------------------------
(* Mutant: the action unpacks where it runs.                               *)
PlaceInPlace(k) == "final"

(* The action unpacks beside the bin directory and moves into it.          *)
Place(k) == IF k = "action" THEN "stage" ELSE "final"

Whole(i) == i # NoFile /\ inode[i].parts = Parts

Goto(p, s) == pc' = [pc EXCEPT ![p] = s]

Exit(p, c) ==
  /\ Goto(p, "ended")
  /\ code' = [code EXCEPT ![p] = c]

Unpacking(p) == pc[p] \in {"open", "part_1", "part_2", "finish"}
Writing(i)   == \E q \in Procs : pc[q] \in {"part_1", "part_2"} /\ fd[q] = i
Executing(i) == \E q \in Procs : pc[q] = "running" /\ fd[q] = i

(* An archive in SNAGIFY_LOCAL_DIST is unpacked as it is, whole or not:    *)
(* there are no checksums for it.  One that is missing there is an error,  *)
(* as is a platform without a release.                                     *)
Install(p) ==
  \/ Goto(p, "archive") /\ UNCHANGED <<archive, code>>
  \/ /\ \E a \in {"whole", "unchecked"} : archive' = [archive EXCEPT ![p] = a]
     /\ Goto(p, "open") /\ UNCHANGED code
  \/ Exit(p, 1) /\ UNCHANGED archive

(* The wrapper runs whatever it finds in its cache.                        *)
EnsureBinary(p) ==
  /\ kind = "pypi" /\ pc[p] = "start"
  /\ IF path["final"] # NoFile THEN Goto(p, "run") /\ UNCHANGED <<archive, code>>
     ELSE Install(p)
  /\ UNCHANGED <<kind, sums, disk, fd, faults>>

PostInstall(p) ==
  /\ kind = "npm" /\ p \notin Launchers /\ pc[p] = "start"
  /\ Install(p)
  /\ UNCHANGED <<kind, sums, disk, fd, faults>>

Launch(p) ==
  /\ kind = "npm" /\ p \in Launchers /\ pc[p] = "start"
  /\ Goto(p, "run")
  /\ UNCHANGED <<kind, fetched, disk, fd, code, faults>>

(* The steps of a job run one after the other.  The tag of the latest      *)
(* release is resolved once, for the archive and for its checksums.        *)
ResolveVersion(p) ==
  /\ kind = "action" /\ pc[p] = "start"
  /\ \A q \in Procs : pc[q] \in {"start", "ended"}
  /\ \/ Goto(p, "archive") /\ UNCHANGED code
     \/ Exit(p, 1)
  /\ UNCHANGED <<kind, fetched, disk, fd, faults>>

(* Mutant: urlopen without a timeout.                                      *)
SilenceForEver(p) == Goto(p, "hung") /\ UNCHANGED code

(* The server stops answering: only urlopen has a timeout.                 *)
Silence(p) ==
  IF kind = "pypi" THEN Exit(p, 1) ELSE Goto(p, "hung") /\ UNCHANGED code

(* The response ends too early: copyfileobj takes it for complete, the     *)
(* promise of install.js neither resolves nor rejects, so that node has    *)
(* nothing left to wait for and exits, and curl fails.                     *)
EndsEarly(p, next) ==
  CASE kind = "pypi"   -> Goto(p, next) /\ UNCHANGED code
    [] kind = "npm"    -> Exit(p, 0)
    [] kind = "action" -> Exit(p, 1)

(* download, curl: f is the file p has afterwards, as released or not.     *)
Download(p, f, next) ==
  \/ f = "whole" /\ Goto(p, next) /\ UNCHANGED code
  \/ f = "bad"   /\ ((Goto(p, next) /\ UNCHANGED code) \/ EndsEarly(p, next))
  \/ f = "none"  /\ (Exit(p, 1) \/ Silence(p))

Downloads == {"none", "whole", "bad"}
Archives  == Downloads \union {"unchecked"}

FetchArchive(p) ==
  /\ pc[p] = "archive"
  /\ \E f \in Downloads : /\ archive' = [archive EXCEPT ![p] = f]
                          /\ Download(p, f, "checksums")
  /\ UNCHANGED <<kind, sums, disk, fd, faults>>

FetchChecksums(p) ==
  /\ pc[p] = "checksums"
  /\ \E f \in Downloads : /\ sums' = [sums EXCEPT ![p] = f]
                          /\ Download(p, f, "verify")
  /\ UNCHANGED <<kind, archive, disk, fd, faults>>

(* Mutant: the checksums are fetched but not compared.                     *)
VerifyNothing(p) ==
  /\ pc[p] = "verify"
  /\ IF sums[p] = "whole" THEN Goto(p, "open") /\ UNCHANGED code
     ELSE Exit(p, 1)
  /\ UNCHANGED <<kind, fetched, disk, fd, faults>>

(* No entry for the archive, or a digest that is not that of the archive,  *)
(* is an error.                                                            *)
Verify(p) ==
  /\ pc[p] = "verify"
  /\ IF archive[p] = "whole" /\ sums[p] = "whole" THEN Goto(p, "open") /\ UNCHANGED code
     ELSE Exit(p, 1)
  /\ UNCHANGED <<kind, fetched, disk, fd, faults>>

(* extractall opens the file there is and truncates it, unless it is being *)
(* executed; tar and unzip replace it by a new one, which is executable.   *)
(* An archive that is not whole may be unreadable from the start.          *)
Open(p) ==
  /\ pc[p] = "open"
  /\ LET w   == Place(kind)
         new == kind # "pypi" \/ path[w] = NoFile
         i   == IF new THEN p ELSE path[w]
     IN  \/ /\ archive[p] # "whole" \/ (~new /\ Executing(i))
            /\ Exit(p, 1) /\ UNCHANGED <<disk, fd>>
         \/ /\ new \/ ~Executing(i)
            /\ path' = [path EXCEPT ![w] = i]
            /\ inode' = [inode EXCEPT ![i] =
                           [parts |-> {}, exec |-> kind # "pypi" \/ (~new /\ inode[i].exec)]]
            /\ fd' = [fd EXCEPT ![p] = i]
            /\ Goto(p, "part_1") /\ UNCHANGED code
  /\ UNCHANGED <<kind, fetched, faults>>

(* An archive that is not whole cannot be unpacked to its end: it is cut   *)
(* off in the binary or behind it.                                         *)
Write(p) ==
  LET part    == IF pc[p] = "part_1" THEN 1 ELSE 2
      written == [inode EXCEPT ![fd[p]].parts = @ \union {part}]
  IN
  /\ pc[p] \in {"part_1", "part_2"}
  /\ \/ /\ archive[p] = "whole" \/ part = 1
        /\ inode' = written
        /\ Goto(p, IF part = 1 THEN "part_2" ELSE "finish") /\ UNCHANGED code
     \/ /\ archive[p] # "whole"
        /\ inode' \in {inode, written}
        /\ Exit(p, 1)
  /\ UNCHANGED <<kind, fetched, path, fd, faults>>

(* chmod, by name.                                                         *)
MakeExecutable(p) ==
  /\ kind # "action" /\ pc[p] = "finish"
  /\ inode' = [inode EXCEPT ![path["final"]] = [parts |-> @.parts, exec |-> TRUE]]
  /\ IF kind = "npm" THEN Exit(p, 0) ELSE Goto(p, "run") /\ UNCHANGED code
  /\ UNCHANGED <<kind, fetched, path, fd, faults>>

MoveIntoBin(p) ==
  /\ kind = "action" /\ pc[p] = "finish"
  /\ path' = [path EXCEPT ![Place(kind)] = NoFile, !["final"] = path[Place(kind)]]
  /\ Goto(p, "run")
  /\ UNCHANGED <<kind, fetched, inode, fd, code, faults>>

(* A missing file, one that is not executable and one that is open for     *)
(* writing cannot be run.                                                  *)
Run(p) ==
  /\ pc[p] = "run"
  /\ LET i == path["final"] IN
     IF i = NoFile \/ ~inode[i].exec \/ Writing(i)
     THEN Exit(p, 1) /\ UNCHANGED fd
     ELSE fd' = [fd EXCEPT ![p] = i] /\ Goto(p, "running") /\ UNCHANGED code
  /\ UNCHANGED <<kind, fetched, disk, faults>>

(* Mutant: the exit code of the binary is not looked at.                   *)
ReturnsZero(p) ==
  /\ pc[p] = "running"
  /\ Exit(p, 0)
  /\ UNCHANGED <<kind, fetched, disk, fd, faults>>

(* The exit code of the binary, or what its crash leaves, is passed on.    *)
Returns(p) ==
  /\ pc[p] = "running"
  /\ Exit(p, IF Whole(fd[p]) THEN 0 ELSE 139)
  /\ UNCHANGED <<kind, fetched, disk, fd, faults>>

Killed(p) ==
  /\ pc[p] \notin {"start", "ended"}
  /\ faults < MaxFaults
  /\ faults' = faults + 1
  /\ Exit(p, 137)
  /\ UNCHANGED <<kind, fetched, disk, fd>>

(* The disk is full: what has been written stays.                          *)
WriteFails(p) ==
  /\ pc[p] \in {"part_1", "part_2"}
  /\ faults < MaxFaults
  /\ faults' = faults + 1
  /\ Exit(p, 1)
  /\ UNCHANGED <<kind, fetched, disk, fd>>

Step(p) == FetchArchive(p) \/ FetchChecksums(p) \/ Verify(p) \/ Open(p) \/ Write(p)
             \/ MakeExecutable(p) \/ MoveIntoBin(p) \/ Run(p) \/ Returns(p)

Begin(p) == EnsureBinary(p) \/ PostInstall(p) \/ Launch(p) \/ ResolveVersion(p)

Next == \E p \in Procs : Begin(p) \/ Step(p) \/ Killed(p) \/ WriteFails(p)

Spec == Init /\ [][Next]_vars

(* A process that was started goes on, and the binary it runs ends.        *)
FairSpec == Spec /\ \A p \in Procs : WF_vars(Step(p))
-----------------------------------------------------------------------------
(* Properties.                                                             *)

(* Every variable has its type; who writes or runs has a file, and who has *)
(* ended an exit code.                                                     *)
TypeOK ==
  /\ kind \in Kinds
  /\ pc \in [Procs -> {"start", "archive", "checksums", "verify", "open", "part_1", "part_2",
                       "finish", "run", "running", "hung", "ended"}]
  /\ archive \in [Procs -> Archives] /\ sums \in [Procs -> Downloads]
  /\ path \in [Places -> Procs \union {NoFile}]
  /\ inode \in [Procs -> Inode]
  /\ fd \in [Procs -> Procs \union {NoFile}]
  /\ code \in [Procs -> Int] /\ faults \in 0..MaxFaults
  /\ \A p \in Procs : /\ pc[p] \in {"part_1", "part_2", "running"} => fd[p] # NoFile
                      /\ pc[p] = "ended" <=> code[p] # -1

(* The archives of SNAGIFY_LOCAL_DIST, which nothing checks, were whole.   *)
LocalIsWhole == \A p \in Procs : archive[p] # "unchecked"

(* Nothing has happened that the wrappers do not clean up after.           *)
Calm == faults = 0 /\ LocalIsWhole

(* Unless a process was killed, a write failed or a local archive was      *)
(* spoilt, what is executed is complete, however the first runs of several *)
(* processes overlap (ensure_binary, extract and run of installer.py;      *)
(* install.js; entry.sh).                                                  *)
RunsWhole ==
  Calm => \A p \in Procs : pc[p] = "running" => Whole(fd[p])

(* An installation is settled: always with the action, with the wrappers   *)
(* whenever nobody is unpacking, nothing was killed or failed and no local *)
(* archive was spoilt.                                                     *)
Settled ==
  \/ kind = "action"
  \/ Calm /\ \A p \in Procs : ~Unpacking(p)

(* What is installed is complete and executable: with the action at any    *)
(* time and whatever was killed before, with the wrappers once they are    *)
(* settled.  A download that was cut off or that is not the released       *)
(* archive never gets that far (fetch_asset, fetchRemote; tar, checksum    *)
(* and mv of entry.sh).                                                    *)
CacheIsWhole ==
  Settled /\ path["final"] # NoFile => Whole(path["final"]) /\ inode[path["final"]].exec

Installed == Whole(path["final"]) /\ inode[path["final"]].exec

(* "This npm package installs the prebuilt Snagify binary": exit code 0    *)
(* says that it is there, and main().catch of install.js makes a failure   *)
(* exit code 1; so do the wrapper and the action.                          *)
SuccessMeansInstalled ==
  [][\A p \in Procs : code[p] = -1 /\ code'[p] = 0 => Installed']_vars

(* The wrapper and the action keep this promise, whatever was killed       *)
(* before and whoever else unpacks at the same time: exit code 0 is that   *)
(* of a binary that is complete and still the one that is installed (run   *)
(* of installer.py, entry.sh).                                             *)
SuccessOfTheOthersIsReal ==
  [][kind # "npm" => \A p \in Procs : code[p] = -1 /\ code'[p] = 0 => Installed']_vars

(* A run of the PyPI wrapper ends although a server falls silent for ever: *)
(* it has the only download with a timeout.  The timeout is that of one    *)
(* read, so that a server which goes on sending is not bounded by it.      *)
WrapperEnds ==
  \A p \in Procs : kind = "pypi" /\ pc[p] # "start" ~> pc[p] = "ended"
-----------------------------------------------------------------------------
(* The invariant behind RunsWhole and CacheIsWhole.                        *)

Early == {"start", "archive", "checksums", "verify", "open"}
Late  == {"part_1", "part_2", "finish"}

(* Only the released archive is unpacked, or a local one by a wrapper.     *)
ArchiveIsWhole ==
  /\ \A p \in Procs : pc[p] \in Late \union {"open"} => archive[p] \in {"whole", "unchecked"}
  /\ \A p \in Procs : pc[p] \in Early \ {"open"} => archive[p] # "unchecked"
  /\ kind = "action" => LocalIsWhole

(* Files in use were created by processes that are past it, so that the    *)
(* next one to be created is none of them.                                 *)
InUse ==
  /\ \A w \in Places : path[w] # NoFile => pc[path[w]] \notin Early
  /\ \A p \in Procs : fd[p] # NoFile => pc[fd[p]] \notin Early
  /\ \A p \in Procs : pc[p] \in Late =>
       /\ path[Place(kind)] # NoFile
       /\ fd[p] = IF kind = "pypi" THEN path["final"] ELSE p

(* A file is whole, or whoever truncated it last is still writing it.      *)
Growing(i) ==
  \/ inode[i].parts = Parts
  \/ \E p \in Procs : /\ fd[p] = i
                       /\ (pc[p] = "part_1" \/ (pc[p] = "part_2" /\ 1 \in inode[i].parts))

WrappersGrow ==
  Calm /\ kind # "action" /\ path["final"] # NoFile => Growing(path["final"])

(* The jobs of the action do not overlap.                                  *)
OneJob ==
  kind = "action" =>
    \A p, q \in Procs : pc[p] \notin {"start", "ended"} /\ pc[q] \notin {"start", "ended"} => p = q

ActionMoves ==
  kind = "action" =>
    /\ \A p \in Procs : pc[p] \in Late =>
         /\ path["stage"] = p
         /\ (pc[p] = "part_2" => 1 \in inode[p].parts)
         /\ pc[p] = "finish" => inode[p].parts = Parts
    /\ path["final"] # NoFile => inode[path["final"]].parts = Parts

RunningIsWhole ==
  \A p \in Procs : pc[p] = "running" =>
    /\ inode[fd[p]].exec
    /\ (Calm \/ kind = "action") => inode[fd[p]].parts = Parts

IsExecutable ==
  \A w \in Places : path[w] # NoFile =>
    \/ inode[path[w]].exec
    \/ kind = "pypi" /\ w = "final" /\ (~Calm \/ \E p \in Procs : pc[p] \in Late)

InstallIInv ==
  /\ TypeOK /\ ArchiveIsWhole /\ InUse /\ WrappersGrow
  /\ OneJob /\ ActionMoves /\ RunningIsWhole /\ IsExecutable
=============================================================================
