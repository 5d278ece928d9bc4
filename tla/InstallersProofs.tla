-------------------------- MODULE InstallersProofs --------------------------
(***************************************************************************)
(* For any number of processes that install and launch at once: what is    *)
(* run, and what is left installed, is complete.                           *)
(***************************************************************************)
EXTENDS Installers, TLAPS

LEMMA InitInvariant == Init => InstallIInv
<1> SUFFICES ASSUME Init PROVE InstallIInv
  OBVIOUS
<1> USE InstallAssumption DEF Init
<1>1. TypeOK
  BY DEF TypeOK, Kinds, Archives, Downloads, Inode, Blank, Parts
<1>2. ArchiveIsWhole /\ OneJob
  BY DEF ArchiveIsWhole, LocalIsWhole, OneJob, Late
<1>3. InUse
  BY DEF InUse, Late
<1>4. WrappersGrow /\ ActionMoves /\ RunningIsWhole /\ IsExecutable
  BY DEF WrappersGrow, ActionMoves, RunningIsWhole, IsExecutable, Late, Places
<1> QED
  BY <1>1, <1>2, <1>3, <1>4 DEF InstallIInv

(* What p may have for an archive when it gets to s.                       *)
Fetches(p, s) ==
  /\ archive' \in [Procs -> Archives] /\ sums' \in [Procs -> Downloads]
  /\ \A q \in Procs \ {p} : archive'[q] = archive[q]
  /\ archive[p] = "unchecked" => archive'[p] = "unchecked"
  /\ archive'[p] = "unchecked" => (archive[p] = "unchecked" \/ kind # "action")
  /\ s \in Early \ {"open"} => archive'[p] # "unchecked"
  /\ s = "open" => archive'[p] \in {"whole", "unchecked"}

(* Once a local archive has been taken, that is so for good.               *)
LEMMA StaysCalm ==
  ASSUME InstallIInv, NEW p \in Procs, NEW s, Fetches(p, s), faults \in Nat, faults' \in Nat,
         faults' >= faults
  PROVE  Calm' => Calm
BY DEF Fetches, Calm, LocalIsWhole

LEMMA SameCalm ==
  ASSUME archive' = archive, faults' = faults
  PROVE  Calm' = Calm
BY DEF Calm, LocalIsWhole

LEMMA SameFetched ==
  ASSUME InstallIInv, NEW p \in Procs, NEW s, UNCHANGED <<archive, sums>>, s # "open",
         s \in Early => pc[p] \in Early \ {"open"}
  PROVE  Fetches(p, s)
BY DEF Fetches, InstallIInv, TypeOK, ArchiveIsWhole

(* A step of p that leaves the disk alone and does not begin to write or   *)
(* to run.                                                                 *)
LEMMA QuietStep ==
  ASSUME InstallIInv, NEW p \in Procs, NEW s \in {"archive", "checksums", "verify", "open", "run",
                                                 "hung", "ended"},
         pc' = [pc EXCEPT ![p] = s],
         UNCHANGED <<kind, disk, fd>>, faults' \in 0..MaxFaults, faults' >= faults,
         Fetches(p, s), code' \in [Procs -> Int],
         \A q \in Procs \ {p} : code'[q] = code[q],
         (s = "ended") <=> code'[p] # -1,
         s \in Early => pc[p] \in Early,
         pc[p] \in Late => ~Calm',
         pc[p] = "start" => (kind = "action" => \A q \in Procs : pc[q] \in {"start", "ended"}),
         pc[p] # "ended"
  PROVE  InstallIInv'
<1>1. /\ pc'[p] = s
      /\ \A q \in Procs : q # p => pc'[q] = pc[q]
      /\ path' = path /\ inode' = inode /\ fd' = fd /\ kind' = kind
  BY DEF InstallIInv, TypeOK, disk
<1>2. /\ path \in [Places -> Procs \union {NoFile}] /\ inode \in [Procs -> Inode]
      /\ fd \in [Procs -> Procs \union {NoFile}] /\ faults \in Nat /\ faults' \in Nat
      /\ "final" \in Places /\ \A k \in Kinds : Place(k) \in Places
      /\ kind \in Kinds
  <2>1. faults \in 0..MaxFaults /\ MaxFaults \in Nat
    BY InstallAssumption DEF InstallIInv, TypeOK
  <2>2. faults \in Nat /\ faults' \in Nat
    BY <2>1
  <2>3. "final" \in Places /\ \A k \in Kinds : Place(k) \in Places
    BY DEF Places, Place
  <2>4. TypeOK
    BY DEF InstallIInv
  <2> QED
    BY <2>2, <2>3, <2>4 DEF TypeOK
<1>3. TypeOK'
  <2>1. pc' \in [Procs -> {"start", "archive", "checksums", "verify", "open", "part_1", "part_2",
                       "finish", "run", "running", "hung", "ended"}]
    BY DEF InstallIInv, TypeOK
  <2>2. ASSUME NEW q \in Procs
        PROVE  /\ pc'[q] \in {"part_1", "part_2", "running"} => fd'[q] # NoFile
               /\ pc'[q] = "ended" <=> code'[q] # -1
    <3>1. CASE q = p
      BY <1>1, <3>1
    <3>2. CASE q # p
      BY <1>1, <3>2 DEF InstallIInv, TypeOK
    <3> QED
      BY <3>1, <3>2
  <2> QED
    BY <1>1, <1>2, <2>1, <2>2 DEF TypeOK, Fetches
<1>4. ArchiveIsWhole'
  <2>1. ASSUME NEW q \in Procs, q # p
        PROVE  /\ pc'[q] \in Late \union {"open"} => archive'[q] \in {"whole", "unchecked"}
               /\ pc'[q] \in Early \ {"open"} => archive'[q] # "unchecked"
    BY <1>1, <2>1 DEF InstallIInv, ArchiveIsWhole, Fetches
  <2>2. /\ pc'[p] \in Late \union {"open"} => archive'[p] \in {"whole", "unchecked"}
        /\ pc'[p] \in Early \ {"open"} => archive'[p] # "unchecked"
    BY <1>1 DEF Fetches, Late
  <2>3. kind' = "action" => LocalIsWhole'
    BY <1>1 DEF InstallIInv, ArchiveIsWhole, LocalIsWhole, Fetches
  <2> QED
    BY <2>1, <2>2, <2>3 DEF ArchiveIsWhole
<1>5. InUse'
  <2>1. \A q \in Procs : pc[q] \notin Early => pc'[q] \notin Early
    BY <1>1
  <2>2. \A q \in Procs : pc'[q] \in Late => pc[q] \in Late
    BY <1>1 DEF Late
  <2>3. /\ \A w \in Places : path[w] # NoFile => path[w] \in Procs
        /\ \A q \in Procs : fd[q] # NoFile => fd[q] \in Procs
    BY <1>2
  <2> QED
    BY <1>1, <2>1, <2>2, <2>3 DEF InstallIInv, InUse
<1>6. WrappersGrow'
  <2>1. ASSUME Calm', kind # "action", path["final"] # NoFile
        PROVE  Growing(path["final"])'
    <3>1. Calm /\ pc[p] \notin Late
      BY <1>2, <2>1, StaysCalm
    <3>2. Growing(path["final"])
      BY <2>1, <3>1 DEF InstallIInv, WrappersGrow
    <3> QED
      BY <1>1, <3>1, <3>2 DEF Growing, Late
  <2> QED
    BY <1>1, <2>1 DEF WrappersGrow
<1>7. OneJob'
  BY <1>1 DEF InstallIInv, OneJob
<1>8. ActionMoves'
  <2>1. \A q \in Procs : pc'[q] \in Late => pc[q] = pc'[q]
    BY <1>1 DEF Late
  <2>2. ActionMoves
    BY DEF InstallIInv
  <2>3. inode' = inode /\ path' = path /\ kind' = kind
    BY DEF disk
  <2> HIDE DEF Late
  <2>4. ASSUME kind = "action", NEW q \in Procs, pc'[q] \in Late
        PROVE  /\ path["stage"] = q
               /\ (pc'[q] = "part_2" => 1 \in inode[q].parts)
               /\ pc'[q] = "finish" => inode[q].parts = Parts
    BY <2>1, <2>2, <2>4 DEF ActionMoves
  <2>5. kind = "action" /\ path["final"] # NoFile => inode[path["final"]].parts = Parts
    BY <2>2 DEF ActionMoves
  <2> QED
    BY <2>3, <2>4, <2>5 DEF ActionMoves
<1>9. RunningIsWhole'
  <2>1. ASSUME NEW q \in Procs, pc'[q] = "running"
        PROVE  /\ inode[fd[q]].exec
               /\ (Calm' \/ kind = "action") => inode[fd[q]].parts = Parts
    <3>1. q # p /\ pc[q] = "running"
      BY <1>1, <2>1
    <3> QED
      BY <1>2, <3>1, StaysCalm DEF InstallIInv, RunningIsWhole
  <2> QED
    BY <1>1, <2>1 DEF RunningIsWhole
<1>10. IsExecutable'
  <2>1. ASSUME NEW w \in Places, path[w] # NoFile, ~inode[path[w]].exec
        PROVE  kind = "pypi" /\ w = "final" /\ (~Calm' \/ \E q \in Procs : pc'[q] \in Late)
    <3>1. kind = "pypi" /\ w = "final" /\ (~Calm \/ \E q \in Procs : pc[q] \in Late)
      BY <2>1 DEF InstallIInv, IsExecutable
    <3>2. Calm' => Calm
      BY <1>2, StaysCalm
    <3> QED
      BY <1>1, <1>2, <3>1, <3>2
  <2> QED
    BY <1>1, <2>1 DEF IsExecutable
<1> QED
  BY <1>3, <1>4, <1>5, <1>6, <1>7, <1>8, <1>9, <1>10 DEF InstallIInv

(* What the steps below are told of the state they start from.             *)
LEMMA Typed ==
  ASSUME InstallIInv
  PROVE  /\ faults \in 0..MaxFaults /\ faults \in Nat /\ faults >= faults
         /\ archive \in [Procs -> Archives] /\ sums \in [Procs -> Downloads]
         /\ code \in [Procs -> Int] /\ kind \in Kinds
         /\ \A q \in Procs : pc[q] = "ended" <=> code[q] # -1
<1>1. faults \in 0..MaxFaults /\ MaxFaults \in Nat
  BY InstallAssumption DEF InstallIInv, TypeOK
<1>2. faults \in Nat /\ faults >= faults
  BY <1>1
<1> QED
  BY <1>1, <1>2 DEF InstallIInv, TypeOK

(* p goes on to s, or exits with c, and nothing else changes but what it   *)
(* has fetched.                                                            *)
LEMMA GoesOn ==
  ASSUME InstallIInv, NEW p \in Procs,
         NEW s \in {"archive", "checksums", "verify", "open", "run", "hung"},
         Goto(p, s), UNCHANGED <<kind, disk, fd, code, faults>>, Fetches(p, s),
         s \in Early => pc[p] \in Early,
         pc[p] \in {"start"} \union (Early \union {"running"}),
         pc[p] = "start" => (kind = "action" => \A q \in Procs : pc[q] \in {"start", "ended"})
  PROVE  InstallIInv'
<1>1. pc[p] # "ended" /\ pc[p] \notin Late /\ s # "ended"
  BY DEF Early, Late
<1>2. code'[p] = -1 /\ faults' \in 0..MaxFaults /\ faults' >= faults /\ code' \in [Procs -> Int]
      /\ \A q \in Procs \ {p} : code'[q] = code[q]
  BY <1>1, Typed
<1> QED
  BY <1>1, <1>2, QuietStep DEF Goto

LEMMA Exits ==
  ASSUME InstallIInv, NEW p \in Procs, NEW c \in Int, c # -1, Exit(p, c),
         UNCHANGED <<kind, disk, fd>>, faults' \in 0..MaxFaults, faults' >= faults,
         Fetches(p, "ended"), pc[p] # "ended",
         pc[p] \in Late => ~Calm',
         pc[p] = "start" => (kind = "action" => \A q \in Procs : pc[q] \in {"start", "ended"})
  PROVE  InstallIInv'
<1>1. code' \in [Procs -> Int] /\ code'[p] = c /\ \A q \in Procs \ {p} : code'[q] = code[q]
  BY Typed DEF Exit
<1>2. pc' = [pc EXCEPT ![p] = "ended"] /\ "ended" \notin Early /\ "ended" # "open"
  BY DEF Exit, Goto, Early
<1> QED
  BY <1>1, <1>2, QuietStep

LEMMA Installing ==
  ASSUME InstallIInv, NEW p \in Procs, Install(p), pc[p] = "start", kind # "action",
         UNCHANGED <<kind, sums, disk, fd, faults>>
  PROVE  InstallIInv'
<1>1. pc[p] \in Early \ {"open"} /\ pc[p] \notin Late /\ "ended" \notin Early
  BY DEF Early, Late
<1>2. CASE Goto(p, "archive") /\ UNCHANGED <<archive, code>>
  BY <1>1, <1>2, GoesOn, SameFetched
<1>3. ASSUME NEW a \in {"whole", "unchecked"}, archive' = [archive EXCEPT ![p] = a],
             Goto(p, "open"), UNCHANGED code
      PROVE  InstallIInv'
  <2>1. archive' \in [Procs -> Archives] /\ archive'[p] = a
        /\ \A q \in Procs \ {p} : archive'[q] = archive[q]
    BY <1>3, Typed DEF Archives, Downloads
  <2>2. archive[p] # "unchecked"
    BY <1>1 DEF InstallIInv, ArchiveIsWhole
  <2>3. Fetches(p, "open")
    BY <2>1, <2>2, Typed DEF Fetches
  <2> QED
    BY <1>1, <1>3, <2>3, GoesOn
<1>4. CASE Exit(p, 1) /\ UNCHANGED archive
  BY <1>1, <1>4, Exits, SameFetched, Typed
<1> QED
  BY <1>2, <1>3, <1>4 DEF Install

LEMMA Beginning ==
  ASSUME InstallIInv, NEW p \in Procs, Begin(p)
  PROVE  InstallIInv'
<1>1. CASE EnsureBinary(p)
  <2>1. pc[p] = "start" /\ kind = "pypi" /\ UNCHANGED <<kind, sums, disk, fd, faults>>
    BY <1>1 DEF EnsureBinary
  <2>2. CASE Goto(p, "run") /\ UNCHANGED <<archive, code>>
    BY <2>1, <2>2, GoesOn, SameFetched, "run" \notin Early DEF Early
  <2>3. CASE Install(p)
    BY <2>1, <2>3, Installing
  <2> QED
    BY <1>1, <2>2, <2>3 DEF EnsureBinary
<1>2. CASE PostInstall(p)
  BY <1>2, Installing DEF PostInstall
<1>3. CASE Launch(p)
  BY <1>3, GoesOn, SameFetched DEF Launch, Early, fetched
<1>4. CASE ResolveVersion(p)
  <2>1. /\ pc[p] = "start" /\ UNCHANGED <<kind, archive, sums, disk, fd, faults>>
        /\ \A q \in Procs : pc[q] \in {"start", "ended"}
    BY <1>4 DEF ResolveVersion, fetched
  <2>2. CASE Goto(p, "archive") /\ UNCHANGED code
    BY <2>1, <2>2, GoesOn, SameFetched DEF Early
  <2>3. CASE Exit(p, 1)
    <3>1. pc[p] \notin Late /\ pc[p] # "ended" /\ 1 \in Int /\ 1 # -1 /\ "ended" \notin Early
      BY <2>1 DEF Late, Early
    <3>2. Fetches(p, "ended") /\ faults' \in 0..MaxFaults /\ faults' >= faults
      BY <2>1, <3>1, SameFetched, Typed
    <3> QED
      BY <2>1, <2>3, <3>1, <3>2, Exits
  <2> QED
    BY <1>4, <2>2, <2>3 DEF ResolveVersion
<1> QED
  BY <1>1, <1>2, <1>3, <1>4 DEF Begin

LEMMA Downloading ==
  ASSUME InstallIInv, NEW p \in Procs, NEW f \in Downloads, NEW next \in {"checksums", "verify"},
         Download(p, f, next), pc[p] \in {"archive", "checksums"},
         UNCHANGED <<kind, disk, fd, faults>>,
         Fetches(p, next), Fetches(p, "hung"), Fetches(p, "ended")
  PROVE  InstallIInv'
<1>1. pc[p] \in Early /\ pc[p] \notin Late /\ pc[p] # "start" /\ pc[p] # "ended" /\ next \in Early
  BY DEF Early, Late
<1>2. CASE Goto(p, next) /\ UNCHANGED code
  BY <1>1, <1>2, GoesOn, Typed
<1>3. CASE Goto(p, "hung") /\ UNCHANGED code
  BY <1>1, <1>3, GoesOn, Typed, "hung" \notin Early DEF Early
<1>4. CASE Exit(p, 0)
  BY <1>1, <1>4, Exits, Typed
<1>5. CASE Exit(p, 1)
  BY <1>1, <1>5, Exits, Typed
<1>6. kind \in {"pypi", "npm", "action"}
  BY Typed DEF Kinds
<1> QED
  BY <1>2, <1>3, <1>4, <1>5, <1>6 DEF Download, EndsEarly, Silence

LEMMA Fetching ==
  ASSUME InstallIInv, NEW p \in Procs, FetchArchive(p) \/ FetchChecksums(p)
  PROVE  InstallIInv'
<1>1. CASE FetchArchive(p)
  <2>1. PICK f \in Downloads : archive' = [archive EXCEPT ![p] = f] /\ Download(p, f, "checksums")
    BY <1>1 DEF FetchArchive
  <2>2. /\ archive' \in [Procs -> Archives] /\ sums' \in [Procs -> Downloads]
        /\ \A q \in Procs \ {p} : archive'[q] = archive[q]
    BY <1>1, <2>1, Typed DEF FetchArchive, Archives
  <2>3. archive'[p] # "unchecked" /\ archive[p] # "unchecked"
    BY <1>1, <2>1, Typed DEF FetchArchive, Downloads, InstallIInv, ArchiveIsWhole, Early
  <2>4. \A s \in {"checksums", "hung", "ended"} : Fetches(p, s)
    BY <2>2, <2>3 DEF Fetches
  <2> QED
    BY <1>1, <2>1, <2>4, Downloading DEF FetchArchive
<1>2. CASE FetchChecksums(p)
  <2>1. PICK f \in Downloads : sums' = [sums EXCEPT ![p] = f] /\ Download(p, f, "verify")
    BY <1>2 DEF FetchChecksums
  <2>2. /\ archive' \in [Procs -> Archives] /\ sums' \in [Procs -> Downloads]
        /\ archive' = archive
    BY <1>2, <2>1, Typed DEF FetchChecksums
  <2>3. archive[p] # "unchecked"
    BY <1>2 DEF FetchChecksums, InstallIInv, ArchiveIsWhole, Early
  <2>4. \A s \in {"verify", "hung", "ended"} : Fetches(p, s)
    BY <2>2, <2>3 DEF Fetches
  <2> QED
    BY <1>2, <2>1, <2>4, Downloading DEF FetchChecksums
<1> QED
  BY <1>1, <1>2

LEMMA Verifying ==
  ASSUME InstallIInv, NEW p \in Procs, Verify(p)
  PROVE  InstallIInv'
<1>1. pc[p] = "verify" /\ UNCHANGED <<kind, archive, sums, disk, fd, faults>>
  BY DEF Verify, fetched
<1>2. CASE archive[p] = "whole" /\ Goto(p, "open") /\ UNCHANGED code
  <2>1. Fetches(p, "open")
    BY <1>1, <1>2, Typed DEF Fetches
  <2> QED
    BY <1>1, <1>2, <2>1, GoesOn DEF Early
<1>3. CASE Exit(p, 1)
  <2>1. pc[p] \notin Late /\ pc[p] \notin {"start", "ended"} /\ 1 \in Int /\ 1 # -1
        /\ "ended" \notin Early
    BY <1>1 DEF Late, Early
  <2>2. Fetches(p, "ended") /\ faults' \in 0..MaxFaults /\ faults' >= faults
    BY <1>1, <2>1, SameFetched, Typed
  <2> QED
    BY <1>1, <1>3, <2>1, <2>2, Exits
<1> QED
  BY <1>2, <1>3 DEF Verify

LEMMA Stopping ==
  ASSUME InstallIInv, NEW p \in Procs, Returns(p) \/ Killed(p) \/ WriteFails(p)
  PROVE  InstallIInv'
<1>1. CASE Returns(p)
  <2>1. PICK c \in {0, 139} : Exit(p, c)
    BY <1>1 DEF Returns
  <2>2. pc[p] \notin Late /\ pc[p] \notin {"start", "ended"} /\ c \in Int /\ c # -1
        /\ "ended" \notin Early
    BY <1>1 DEF Returns, Late, Early
  <2>3. /\ UNCHANGED <<kind, disk, fd>> /\ Fetches(p, "ended")
        /\ faults' \in 0..MaxFaults /\ faults' >= faults
    BY <1>1, <2>2, SameFetched, Typed DEF Returns, fetched
  <2> QED
    BY <2>1, <2>2, <2>3, Exits
<1>2. ASSUME NEW c \in {1, 137}, Exit(p, c), pc[p] \notin {"start", "ended"},
             faults < MaxFaults, faults' = faults + 1, UNCHANGED <<kind, fetched, disk, fd>>
      PROVE  InstallIInv'
  <2>1. faults' \in 0..MaxFaults /\ faults' >= faults /\ faults' > 0
    BY <1>2, Typed, InstallAssumption
  <2>2. ~Calm'
    BY <2>1 DEF Calm
  <2>3. Fetches(p, "ended")
    BY <1>2, SameFetched DEF fetched, Early
  <2> QED
    BY <1>2, <2>1, <2>2, <2>3, Exits
<1>3. CASE Killed(p)
  BY <1>2, <1>3 DEF Killed
<1>4. CASE WriteFails(p)
  BY <1>2, <1>4 DEF WriteFails
<1> QED
  BY <1>1, <1>3, <1>4

(* The types of what the steps on the disk change.                         *)
LEMMA TypedDisk ==
  ASSUME InstallIInv
  PROVE  /\ pc \in [Procs -> {"start", "archive", "checksums", "verify", "open", "part_1", "part_2",
                             "finish", "run", "running", "hung", "ended"}]
         /\ path \in [Places -> Procs \union {NoFile}] /\ inode \in [Procs -> Inode]
         /\ fd \in [Procs -> Procs \union {NoFile}] /\ NoFile \notin Procs
         /\ "final" \in Places /\ "stage" \in Places /\ Place(kind) \in Places
         /\ \A q \in Procs : pc[q] \in {"part_1", "part_2", "running"} => fd[q] # NoFile
         /\ \A i \in Procs : inode[i].parts \subseteq Parts /\ inode[i].exec \in BOOLEAN
         /\ \A v \in Places : path[v] # NoFile => path[v] \in Procs
         /\ \A q \in Procs : fd[q] # NoFile => fd[q] \in Procs
<1>1. \A i \in Procs : inode[i] \in Inode
  BY DEF InstallIInv, TypeOK
<1>2. /\ path \in [Places -> Procs \union {NoFile}] /\ fd \in [Procs -> Procs \union {NoFile}]
      /\ pc \in [Procs -> {"start", "archive", "checksums", "verify", "open", "part_1", "part_2",
                          "finish", "run", "running", "hung", "ended"}]
      /\ inode \in [Procs -> Inode] /\ NoFile \notin Procs
      /\ \A q \in Procs : pc[q] \in {"part_1", "part_2", "running"} => fd[q] # NoFile
  BY InstallAssumption DEF InstallIInv, TypeOK
<1>3. /\ \A v \in Places : path[v] # NoFile => path[v] \in Procs
      /\ \A q \in Procs : fd[q] # NoFile => fd[q] \in Procs
  BY <1>2
<1>4. "final" \in Places /\ "stage" \in Places /\ Place(kind) \in Places
  BY DEF Places, Place
<1>5. \A i \in Procs : inode[i].parts \subseteq Parts /\ inode[i].exec \in BOOLEAN
  BY <1>1 DEF Inode
<1> QED
  BY <1>2, <1>3, <1>4, <1>5

(* TypeOK after a step on the disk, from what it changes.                  *)
LEMMA TypeAfter ==
  ASSUME InstallIInv, UNCHANGED <<kind, archive, sums, faults>>,
         path' \in [Places -> Procs \union {NoFile}], inode' \in [Procs -> Inode],
         fd' \in [Procs -> Procs \union {NoFile}], code' \in [Procs -> Int],
         NEW p \in Procs, NEW s \in {"part_1", "part_2", "finish", "run", "running", "ended"},
         Goto(p, s), \A q \in Procs \ {p} : code'[q] = code[q] /\ fd'[q] = fd[q],
         s \in {"part_1", "part_2", "running"} => fd'[p] # NoFile,
         (s = "ended") <=> code'[p] # -1
  PROVE  TypeOK'
<1>1. /\ pc' \in [Procs -> {"start", "archive", "checksums", "verify", "open", "part_1", "part_2",
                           "finish", "run", "running", "hung", "ended"}]
      /\ pc'[p] = s /\ \A q \in Procs : q # p => pc'[q] = pc[q]
  BY TypedDisk DEF Goto
<1>2. ASSUME NEW q \in Procs
      PROVE  /\ pc'[q] \in {"part_1", "part_2", "running"} => fd'[q] # NoFile
             /\ pc'[q] = "ended" <=> code'[q] # -1
  <2>1. CASE q = p
    BY <1>1, <2>1
  <2>2. CASE q # p
    BY <1>1, <2>2, Typed, TypedDisk
  <2> QED
    BY <2>1, <2>2
<1>3. kind' \in Kinds /\ archive' \in [Procs -> Archives] /\ sums' \in [Procs -> Downloads]
      /\ faults' \in 0..MaxFaults
  BY Typed
<1> QED
  BY <1>1, <1>2, <1>3 DEF TypeOK

LEMMA ArchiveAfter ==
  ASSUME InstallIInv, UNCHANGED <<kind, archive>>, NEW p \in Procs, NEW s, pc'[p] = s,
         \A q \in Procs : q # p => pc'[q] = pc[q],
         s \notin Early, s \in Late => pc[p] \in Late \union {"open"}
  PROVE  ArchiveIsWhole'
<1>1. "open" \in Early
  BY DEF Early
<1>2. ASSUME NEW q \in Procs
      PROVE  /\ pc'[q] \in Late \union {"open"} => archive[q] \in {"whole", "unchecked"}
             /\ pc'[q] \in Early \ {"open"} => archive[q] # "unchecked"
  BY <1>1 DEF InstallIInv, ArchiveIsWhole
<1>3. kind = "action" => LocalIsWhole
  BY DEF InstallIInv, ArchiveIsWhole
<1> QED
  BY <1>2, <1>3 DEF ArchiveIsWhole, LocalIsWhole

(* A file that does not exist yet is nobody's.                             *)
LEMMA Unused ==
  ASSUME InstallIInv, NEW p \in Procs, pc[p] \in Early
  PROVE  (\A w \in Places : path[w] # p) /\ (\A q \in Procs : fd[q] # p)
BY InstallAssumption DEF InstallIInv, InUse

LEMMA Used ==
  ASSUME InstallIInv
  PROVE  /\ \A v \in Places : path[v] # NoFile => path[v] \in Procs /\ pc[path[v]] \notin Early
         /\ \A q \in Procs : fd[q] # NoFile => fd[q] \in Procs /\ pc[fd[q]] \notin Early
BY TypedDisk DEF InstallIInv, InUse

LEMMA WhatRuns ==
  ASSUME InstallIInv, NEW q \in Procs, pc[q] = "running"
  PROVE  /\ inode[fd[q]].exec
         /\ (Calm \/ kind = "action") => inode[fd[q]].parts = Parts
BY DEF InstallIInv, RunningIsWhole

(* Who is running after a step was before it, and its file is as it was.   *)
LEMMA RunsOn ==
  ASSUME InstallIInv, UNCHANGED <<kind, archive, faults>>,
         \A q \in Procs : pc'[q] = "running" =>
           pc[q] = "running" /\ fd'[q] = fd[q] /\ inode'[fd[q]] = inode[fd[q]]
  PROVE  RunningIsWhole'
<1>1. ASSUME NEW q \in Procs, pc'[q] = "running"
      PROVE  /\ inode'[fd'[q]].exec
             /\ (Calm' \/ kind' = "action") => inode'[fd'[q]].parts = Parts
  <2>1. pc[q] = "running" /\ fd'[q] = fd[q] /\ inode'[fd[q]] = inode[fd[q]]
    BY <1>1
  <2> QED
    BY <2>1, WhatRuns, SameCalm
<1> QED
  BY <1>1 DEF RunningIsWhole

LEMMA InUseAfter ==
  ASSUME kind' = kind,
         \A v \in Places : path'[v] # NoFile => pc'[path'[v]] \notin Early,
         \A q \in Procs : fd'[q] # NoFile => pc'[fd'[q]] \notin Early,
         \A q \in Procs : pc'[q] \in Late =>
           path'[Place(kind)] # NoFile /\ fd'[q] = IF kind = "pypi" THEN path'["final"] ELSE q
  PROVE  InUse'
BY DEF InUse

LEMMA OpeningNew ==
  ASSUME InstallIInv, NEW p \in Procs, pc[p] = "open", NEW w \in Places, w = Place(kind),
         kind # "pypi" \/ path[w] = NoFile,
         path' = [path EXCEPT ![w] = p],
         inode' = [inode EXCEPT ![p] = [parts |-> {}, exec |-> kind # "pypi"]],
         fd' = [fd EXCEPT ![p] = p], Goto(p, "part_1"),
         UNCHANGED <<kind, archive, sums, code, faults>>
  PROVE  InstallIInv'
<1>1. /\ pc'[p] = "part_1" /\ \A q \in Procs : q # p => pc'[q] = pc[q]
      /\ path'[w] = p /\ \A v \in Places : v # w => path'[v] = path[v]
      /\ fd'[p] = p /\ \A q \in Procs : q # p => fd'[q] = fd[q]
      /\ inode'[p].parts = {} /\ inode'[p].exec = (kind # "pypi")
      /\ \A i \in Procs : i # p => inode'[i] = inode[i]
  BY TypedDisk DEF Goto
<1>2. (\A v \in Places : path[v] # p) /\ (\A q \in Procs : fd[q] # p)
  BY Unused DEF Early
<1>3. TypeOK'
  <2>1. [parts |-> {}, exec |-> kind # "pypi"] \in Inode
    BY DEF Inode
  <2>2. inode' \in [Procs -> Inode] /\ path' \in [Places -> Procs \union {NoFile}]
        /\ fd' \in [Procs -> Procs \union {NoFile}]
    BY <2>1, TypedDisk
  <2>3. /\ code' \in [Procs -> Int] /\ p # NoFile /\ code'[p] = -1
        /\ \A q \in Procs \ {p} : code'[q] = code[q] /\ fd'[q] = fd[q]
    BY <1>1, Typed, InstallAssumption
  <2> QED
    BY <1>1, <2>2, <2>3, TypeAfter
<1>4. ArchiveIsWhole'
  BY <1>1, ArchiveAfter DEF Early
<1>5. InUse'
  <2>1. \A q \in Procs : pc[q] \notin Early => pc'[q] \notin Early
    BY <1>1 DEF Early
  <2>2. ASSUME NEW v \in Places, path'[v] # NoFile
        PROVE  pc'[path'[v]] \notin Early
    <3>1. CASE v = w
      BY <1>1, <3>1 DEF Early
    <3>2. CASE v # w
      BY <1>1, <2>1, <2>2, <3>2, Used
    <3> QED
      BY <3>1, <3>2
  <2>3. ASSUME NEW q \in Procs, fd'[q] # NoFile
        PROVE  pc'[fd'[q]] \notin Early
    <3>1. CASE q = p
      BY <1>1, <3>1 DEF Early
    <3>2. CASE q # p
      BY <1>1, <2>1, <2>3, <3>2, Used
    <3> QED
      BY <3>1, <3>2
  <2>4. ASSUME NEW q \in Procs, pc'[q] \in Late
        PROVE  path'[w] # NoFile /\ fd'[q] = IF kind = "pypi" THEN path'["final"] ELSE q
    <3>1. path'[w] # NoFile
      BY <1>1, InstallAssumption
    <3>2. CASE q = p
      BY <1>1, <3>1, <3>2 DEF Place
    <3>3. CASE q # p
      <4>1. path[w] # NoFile /\ fd[q] = IF kind = "pypi" THEN path["final"] ELSE q
        BY <1>1, <2>4, <3>3 DEF InstallIInv, InUse
      <4> QED
        BY <1>1, <3>1, <3>3, <4>1
    <3> QED
      BY <3>2, <3>3
  <2> QED
    BY <2>2, <2>3, <2>4, InUseAfter
<1>6. WrappersGrow'
  BY <1>1 DEF WrappersGrow, Growing, Place
<1>7. OneJob'
  BY <1>1 DEF InstallIInv, OneJob
<1>8. ActionMoves'
  <2>1. ASSUME kind = "action", NEW q \in Procs, pc'[q] \in Late
        PROVE  q = p
    BY <1>1, <2>1 DEF InstallIInv, OneJob, Late
  <2>2. ASSUME kind = "action", path'["final"] # NoFile
        PROVE  inode'[path'["final"]].parts = Parts
    <3>1. "final" # w /\ path'["final"] = path["final"] /\ path["final"] # p
      BY <1>1, <1>2, <2>2, TypedDisk DEF Place
    <3>2. path["final"] \in Procs /\ inode[path["final"]].parts = Parts
      BY <2>2, <3>1, TypedDisk DEF InstallIInv, ActionMoves
    <3> QED
      BY <1>1, <3>1, <3>2
  <2>3. kind = "action" => path'["stage"] = p
    BY <1>1 DEF Place
  <2> QED
    BY <1>1, <2>1, <2>2, <2>3 DEF ActionMoves
<1>9. RunningIsWhole'
  <2>1. ASSUME NEW q \in Procs, pc'[q] = "running"
        PROVE  q # p /\ pc[q] = "running" /\ fd'[q] = fd[q] /\ inode'[fd[q]] = inode[fd[q]]
    <3>1. q # p /\ pc[q] = "running" /\ fd'[q] = fd[q]
      BY <1>1, <2>1
    <3>2. fd[q] \in Procs /\ fd[q] # p
      BY <1>2, <3>1, TypedDisk
    <3> QED
      BY <1>1, <3>1, <3>2
  <2> QED
    BY <2>1, RunsOn
<1>10. IsExecutable'
  <2>1. ASSUME NEW v \in Places, path'[v] # NoFile, v # w
        PROVE  path'[v] = path[v] /\ inode'[path[v]] = inode[path[v]]
    <3>1. path'[v] = path[v] /\ path[v] # p
      BY <1>1, <1>2, <2>1
    <3>2. path[v] \in Procs
      BY <2>1, <3>1, TypedDisk
    <3> QED
      BY <1>1, <3>1, <3>2
  <2>2. \A v \in Places : path'[v] # NoFile /\ v # w /\ kind = "pypi" => v # "final"
    BY DEF Place
  <2>3. \A v \in Places : path'[v] # NoFile /\ v # w => inode'[path'[v]].exec
    BY <2>1, <2>2 DEF InstallIInv, IsExecutable
  <2>4. \/ inode'[path'[w]].exec
        \/ kind = "pypi" /\ w = "final" /\ \E q \in Procs : pc'[q] \in Late
    BY <1>1 DEF Late, Place
  <2> QED
    BY <2>3, <2>4 DEF IsExecutable
<1> QED
  BY <1>3, <1>4, <1>5, <1>6, <1>7, <1>8, <1>9, <1>10 DEF InstallIInv

LEMMA OpeningOld ==
  ASSUME InstallIInv, NEW p \in Procs, pc[p] = "open", kind = "pypi",
         NEW i \in Procs, i = path["final"], ~Executing(i),
         inode' = [inode EXCEPT ![i] = [parts |-> {}, exec |-> inode[i].exec]],
         fd' = [fd EXCEPT ![p] = i], Goto(p, "part_1"),
         UNCHANGED <<kind, archive, sums, path, code, faults>>
  PROVE  InstallIInv'
<1>1. /\ pc'[p] = "part_1" /\ \A q \in Procs : q # p => pc'[q] = pc[q]
      /\ fd'[p] = i /\ \A q \in Procs : q # p => fd'[q] = fd[q]
      /\ \A j \in Procs : inode'[j].exec = inode[j].exec
      /\ \A j \in Procs : j # i => inode'[j] = inode[j]
  BY TypedDisk DEF Goto
<1>2. i # NoFile /\ path["final"] # NoFile
  BY InstallAssumption
<1>3. TypeOK'
  <2>1. [parts |-> {}, exec |-> inode[i].exec] \in Inode
    BY TypedDisk DEF Inode
  <2>2. inode' \in [Procs -> Inode] /\ fd' \in [Procs -> Procs \union {NoFile}]
    BY <2>1, TypedDisk
  <2>3. /\ code' \in [Procs -> Int] /\ code'[p] = -1
        /\ \A q \in Procs \ {p} : code'[q] = code[q] /\ fd'[q] = fd[q]
    BY <1>1, Typed
  <2> QED
    BY <1>1, <1>2, <2>2, <2>3, TypedDisk, TypeAfter
<1>4. ArchiveIsWhole'
  BY <1>1, ArchiveAfter DEF Early
<1>5. InUse'
  <2>1. \A q \in Procs : pc[q] \notin Early => pc'[q] \notin Early
    BY <1>1 DEF Early
  <2>2. \A v \in Places : path'[v] # NoFile => pc'[path'[v]] \notin Early
    BY <2>1, TypedDisk DEF InstallIInv, InUse
  <2>3. ASSUME NEW q \in Procs, fd'[q] # NoFile
        PROVE  pc'[fd'[q]] \notin Early
    <3>1. CASE q = p
      <4>1. fd'[q] = i /\ i = path["final"] /\ "final" \in Places
        BY <1>1, <3>1, TypedDisk
      <4>2. pc[i] \notin Early
        BY <1>2, <4>1, Used
      <4> QED
        BY <2>1, <4>1, <4>2
    <3>2. CASE q # p
      BY <1>1, <2>1, <2>3, <3>2, Used
    <3> QED
      BY <3>1, <3>2
  <2>4. ASSUME NEW q \in Procs, pc'[q] \in Late
        PROVE  path'[Place(kind)] # NoFile /\ fd'[q] = path'["final"]
    BY <1>1, <1>2, <2>4 DEF InstallIInv, InUse, Place
  <2> QED
    BY <2>2, <2>3, <2>4 DEF InUse
<1>6. WrappersGrow'
  BY <1>1 DEF WrappersGrow, Growing
<1>7. OneJob' /\ ActionMoves'
  BY DEF OneJob, ActionMoves
<1>8. RunningIsWhole'
  <2>1. ASSUME NEW q \in Procs, pc'[q] = "running"
        PROVE  pc[q] = "running" /\ fd'[q] = fd[q] /\ inode'[fd[q]] = inode[fd[q]]
    <3>1. q # p /\ pc[q] = "running" /\ fd'[q] = fd[q]
      BY <1>1, <2>1
    <3>2. fd[q] \in Procs /\ fd[q] # i
      BY <3>1, TypedDisk DEF Executing
    <3> QED
      BY <1>1, <3>1, <3>2
  <2> QED
    BY <2>1, RunsOn
<1>9. IsExecutable'
  <2>1. \E q \in Procs : pc'[q] \in Late
    BY <1>1 DEF Late
  <2>2. \A v \in Places : v # "final" /\ path[v] # NoFile => inode[path[v]].exec
    BY DEF InstallIInv, IsExecutable
  <2>3. \A v \in Places : path[v] # NoFile => inode'[path[v]].exec = inode[path[v]].exec
    BY <1>1, TypedDisk
  <2> QED
    BY <2>1, <2>2, <2>3 DEF IsExecutable
<1> QED
  BY <1>3, <1>4, <1>5, <1>6, <1>7, <1>8, <1>9 DEF InstallIInv

LEMMA Opening ==
  ASSUME InstallIInv, NEW p \in Procs, Open(p)
  PROVE  InstallIInv'
<1> DEFINE w == Place(kind)
           new == kind # "pypi" \/ path[w] = NoFile
           i == IF new THEN p ELSE path[w]
<1>1. pc[p] = "open" /\ UNCHANGED <<kind, archive, sums, faults>> /\ w \in Places
  BY TypedDisk DEF Open, fetched
<1>2. CASE Exit(p, 1) /\ UNCHANGED <<disk, fd>>
  <2>1. pc[p] \notin Late /\ pc[p] \notin {"start", "ended"} /\ 1 \in Int /\ 1 # -1
        /\ "ended" \notin Early
    BY <1>1 DEF Late, Early
  <2>2. Fetches(p, "ended") /\ faults' \in 0..MaxFaults /\ faults' >= faults
    BY <1>1, <2>1, SameFetched, Typed
  <2> QED
    BY <1>1, <1>2, <2>1, <2>2, Exits
<1>3. ASSUME new \/ ~Executing(i),
             path' = [path EXCEPT ![w] = i],
             inode' = [inode EXCEPT ![i] =
                         [parts |-> {}, exec |-> kind # "pypi" \/ (~new /\ inode[i].exec)]],
             fd' = [fd EXCEPT ![p] = i], Goto(p, "part_1"), UNCHANGED code
      PROVE  InstallIInv'
  <2>1. CASE new
    <3>1. /\ path' = [path EXCEPT ![w] = p] /\ fd' = [fd EXCEPT ![p] = p]
          /\ inode' = [inode EXCEPT ![p] = [parts |-> {}, exec |-> kind # "pypi"]]
      BY <1>3, <2>1
    <3> QED
      BY <1>1, <1>3, <2>1, <3>1, OpeningNew
  <2>2. CASE ~new
    <3>1. kind = "pypi" /\ w = "final" /\ i = path["final"] /\ i \in Procs
      BY <2>2, TypedDisk DEF Place
    <3>2. path' = path
      BY <1>3, <3>1, TypedDisk
    <3>3. (kind # "pypi" \/ (~new /\ inode[i].exec)) = inode[i].exec
      BY <2>2, <3>1, TypedDisk
    <3>4. inode' = [inode EXCEPT ![i] = [parts |-> {}, exec |-> inode[i].exec]]
      BY <1>3, <3>3
    <3>5. ~Executing(i)
      BY <1>3, <2>2
    <3> HIDE DEF i, new, w
    <3> QED
      BY <1>1, <1>3, <3>1, <3>2, <3>4, <3>5, OpeningOld
  <2> QED
    BY <2>1, <2>2
<1> HIDE DEF i, new, w
<1> QED
  BY <1>2, <1>3 DEF Open, i, new, w

(* The unpacking of an archive that is not whole breaks off: the file      *)
(* stays as it is.                                                         *)
LEMMA BreakingOff ==
  ASSUME InstallIInv, NEW p \in Procs, pc[p] \in {"part_1", "part_2"}, archive[p] # "whole",
         Exit(p, 1), UNCHANGED <<kind, archive, sums, path, fd, faults>>,
         inode' \in [Procs -> Inode], \A j \in Procs : inode'[j].exec = inode[j].exec
  PROVE  InstallIInv'
<1>1. /\ pc'[p] = "ended" /\ \A q \in Procs : q # p => pc'[q] = pc[q]
      /\ Goto(p, "ended") /\ "ended" \notin Early /\ "ended" \notin Late
  BY TypedDisk DEF Exit, Goto, Early, Late
<1>2. ~Calm /\ ~Calm' /\ kind # "action" /\ kind' = kind
  <2>1. archive[p] = "unchecked"
    BY DEF InstallIInv, ArchiveIsWhole, Late
  <2> QED
    BY <2>1 DEF InstallIInv, ArchiveIsWhole, LocalIsWhole, Calm
<1>3. TypeOK'
  <2>1. /\ code' \in [Procs -> Int] /\ code'[p] # -1
        /\ \A q \in Procs \ {p} : code'[q] = code[q] /\ fd'[q] = fd[q]
        /\ path' \in [Places -> Procs \union {NoFile}] /\ fd' \in [Procs -> Procs \union {NoFile}]
    <3>1. code' = [code EXCEPT ![p] = 1] /\ code \in [Procs -> Int] /\ fd' = fd /\ path' = path
      BY Typed DEF Exit
    <3>2. code' \in [Procs -> Int] /\ code'[p] # -1 /\ \A q \in Procs \ {p} : code'[q] = code[q]
      BY <3>1
    <3> QED
      BY <3>1, <3>2, TypedDisk
  <2> QED
    BY <1>1, <2>1, TypeAfter
<1>4. ArchiveIsWhole'
  BY <1>1, ArchiveAfter
<1>5. InUse'
  <2>1. \A q \in Procs : pc[q] \notin Early => pc'[q] \notin Early
    BY <1>1
  <2>2. /\ \A v \in Places : path'[v] # NoFile => pc'[path'[v]] \notin Early
        /\ \A q \in Procs : fd'[q] # NoFile => pc'[fd'[q]] \notin Early
    BY <2>1, Used
  <2>3. \A q \in Procs : pc'[q] \in Late => pc[q] \in Late
    BY <1>1
  <2> QED
    BY <2>2, <2>3 DEF InUse, InstallIInv
<1>6. WrappersGrow' /\ OneJob' /\ ActionMoves'
  BY <1>2 DEF WrappersGrow, OneJob, ActionMoves
<1>7. RunningIsWhole'
  <2>1. ASSUME NEW q \in Procs, pc'[q] = "running"
        PROVE  inode'[fd'[q]].exec
    <3>1. pc[q] = "running" /\ fd[q] \in Procs
      BY <1>1, <2>1, TypedDisk
    <3>2. inode[fd[q]].exec
      BY <3>1, WhatRuns
    <3> QED
      BY <3>1, <3>2
  <2> QED
    BY <1>2, <2>1 DEF RunningIsWhole
<1>8. IsExecutable'
  <2>1. ASSUME NEW v \in Places, path[v] # NoFile
        PROVE  inode'[path[v]].exec \/ (kind = "pypi" /\ v = "final")
    <3>1. inode'[path[v]].exec = inode[path[v]].exec
      BY <2>1, TypedDisk
    <3>2. inode[path[v]].exec \/ (kind = "pypi" /\ v = "final")
      BY <2>1 DEF InstallIInv, IsExecutable
    <3> QED
      BY <3>1, <3>2
  <2> QED
    BY <1>2, <2>1 DEF IsExecutable
<1> QED
  BY <1>3, <1>4, <1>5, <1>6, <1>7, <1>8 DEF InstallIInv

(* A part more of the file i.                                              *)
Added(i, n) == [inode EXCEPT ![i].parts = @ \union {n}]

LEMMA Adding ==
  ASSUME InstallIInv, NEW i \in Procs, NEW n \in Parts
  PROVE  /\ Added(i, n) \in [Procs -> Inode]
         /\ Added(i, n)[i].parts = inode[i].parts \union {n}
         /\ \A j \in Procs : /\ Added(i, n)[j].exec = inode[j].exec
                             /\ inode[j].parts \subseteq Added(i, n)[j].parts
                             /\ Added(i, n)[j].parts \subseteq Parts
<1>1. inode[i] \in Inode
  BY TypedDisk
<1>2. Added(i, n) = [inode EXCEPT ![i] = [parts |-> inode[i].parts \union {n}, exec |-> inode[i].exec]]
  <2>1. [inode[i] EXCEPT !.parts = inode[i].parts \union {n}]
          = [parts |-> inode[i].parts \union {n}, exec |-> inode[i].exec]
    BY <1>1 DEF Inode
  <2>2. Added(i, n) = [inode EXCEPT ![i] = [inode[i] EXCEPT !.parts = inode[i].parts \union {n}]]
    BY DEF Added
  <2> QED
    BY <2>1, <2>2
<1>3. [parts |-> inode[i].parts \union {n}, exec |-> inode[i].exec] \in Inode
  BY <1>1 DEF Inode
<1>4. Added(i, n) \in [Procs -> Inode]
  BY <1>2, <1>3, TypedDisk
<1>5. /\ Added(i, n)[i] = [parts |-> inode[i].parts \union {n}, exec |-> inode[i].exec]
      /\ \A j \in Procs : j # i => Added(i, n)[j] = inode[j]
  BY <1>2, TypedDisk
<1>6. ASSUME NEW j \in Procs
      PROVE  /\ Added(i, n)[j].exec = inode[j].exec /\ inode[j].parts \subseteq Added(i, n)[j].parts
             /\ Added(i, n)[j].parts \subseteq Parts
  <2>1. inode[j].parts \subseteq Parts
    BY TypedDisk
  <2>2. CASE j = i
    BY <1>5, <2>1, <2>2
  <2>3. CASE j # i
    BY <1>5, <2>1, <2>3
  <2> QED
    BY <2>2, <2>3
<1> QED
  BY <1>4, <1>5, <1>6

LEMMA WritingOn ==
  ASSUME InstallIInv, NEW p \in Procs, pc[p] \in {"part_1", "part_2"},
         NEW n, n = IF pc[p] = "part_1" THEN 1 ELSE 2,
         NEW s, s = IF pc[p] = "part_1" THEN "part_2" ELSE "finish",
         inode' = Added(fd[p], n), Goto(p, s),
         UNCHANGED <<kind, archive, sums, path, fd, code, faults>>
  PROVE  InstallIInv'
<1> DEFINE i == fd[p]
<1>1. pc[p] \in {"part_1", "part_2"} /\ i \in Procs /\ i # NoFile
  BY TypedDisk
<1>2. /\ inode' = Added(i, n)
      /\ Goto(p, s) /\ UNCHANGED <<kind, archive, sums, path, fd, code, faults>>
  OBVIOUS
<1>3. /\ n \in Parts /\ s \in {"part_2", "finish"} /\ (s = "part_2" => n = 1)
      /\ (s = "finish" => pc[p] = "part_2" /\ n = 2)
  BY <1>1 DEF Parts
<1> HIDE DEF i
<1>4. /\ pc'[p] = s /\ \A q \in Procs : q # p => pc'[q] = pc[q]
      /\ kind' = kind /\ path' = path /\ fd' = fd /\ Calm' = Calm
  BY <1>2, TypedDisk, SameCalm DEF Goto
<1>5. /\ inode' \in [Procs -> Inode]
      /\ inode'[i].parts = inode[i].parts \union {n}
      /\ \A j \in Procs : /\ inode'[j].exec = inode[j].exec
                          /\ inode[j].parts \subseteq inode'[j].parts
                          /\ inode'[j].parts \subseteq Parts
  BY <1>1, <1>2, <1>3, Adding
<1>6. TypeOK'
  <2>1. /\ code' \in [Procs -> Int] /\ code'[p] = -1
        /\ \A q \in Procs \ {p} : code'[q] = code[q] /\ fd'[q] = fd[q]
        /\ path' \in [Places -> Procs \union {NoFile}] /\ fd' \in [Procs -> Procs \union {NoFile}]
    BY <1>1, <1>2, Typed, TypedDisk
  <2>2. fd'[p] # NoFile /\ s # "ended"
    BY <1>1, <1>3, <1>4 DEF i
  <2> QED
    BY <1>2, <1>3, <1>5, <2>1, <2>2, TypeAfter
<1>7. \A q \in Procs : pc'[q] \in Late <=> pc[q] \in Late
  BY <1>1, <1>3, <1>4 DEF Late
<1>8. ArchiveIsWhole'
  BY <1>1, <1>2, <1>3, <1>4, ArchiveAfter DEF Early, Late
<1>9. InUse'
  <2>1. \A q \in Procs : pc[q] \notin Early => pc'[q] \notin Early
    BY <1>3, <1>4 DEF Early
  <2>2. /\ \A v \in Places : path'[v] # NoFile => pc'[path'[v]] \notin Early
        /\ \A q \in Procs : fd'[q] # NoFile => pc'[fd'[q]] \notin Early
    BY <1>4, <2>1, Used
  <2>3. InUse
    BY DEF InstallIInv
  <2> QED
    BY <1>4, <1>7, <2>2, <2>3 DEF InUse
<1>10. WrappersGrow'
  <2>1. ASSUME Calm, kind # "action", path["final"] # NoFile
        PROVE  Growing(path["final"])'
    <3>1. path["final"] \in Procs /\ Growing(path["final"])
      BY <2>1, TypedDisk DEF InstallIInv, WrappersGrow
    <3>2. CASE inode[path["final"]].parts = Parts
      <4>1. /\ inode[path["final"]].parts \subseteq inode'[path["final"]].parts
            /\ inode'[path["final"]].parts \subseteq Parts
            /\ path'["final"] = path["final"]
        BY <1>4, <1>5, <3>1
      <4>2. inode'[path'["final"]].parts = Parts
        BY <3>2, <4>1
      <4> QED
        BY <4>1, <4>2 DEF Growing
    <3>3. ASSUME NEW q \in Procs, fd[q] = path["final"],
                 pc[q] = "part_1" \/ (pc[q] = "part_2" /\ 1 \in inode[path["final"]].parts)
          PROVE  Growing(path["final"])'
      <4>1. CASE q # p
        BY <1>4, <1>5, <3>1, <3>3, <4>1 DEF Growing
      <4>2. CASE q = p /\ pc[p] = "part_1"
        <5>1. s = "part_2" /\ 1 \in inode'[path["final"]].parts
          BY <1>1, <1>3, <1>5, <3>3, <4>2 DEF i
        <5> QED
          BY <1>4, <3>3, <4>2, <5>1 DEF Growing
      <4>3. CASE q = p /\ pc[p] = "part_2"
        <5>1. n = 2 /\ i = path["final"] /\ 1 \in inode[i].parts
          BY <3>3, <4>3 DEF i
        <5>2. inode'[path["final"]].parts = Parts
          BY <1>1, <1>5, <5>1 DEF Parts
        <5> QED
          BY <1>4, <5>2 DEF Growing
      <4> QED
        BY <3>3, <4>1, <4>2, <4>3
    <3> QED
      BY <3>1, <3>2, <3>3 DEF Growing
  <2> QED
    BY <1>4, <2>1 DEF WrappersGrow
<1>11. OneJob'
  BY <1>1, <1>4 DEF InstallIInv, OneJob
<1>12. ActionMoves'
  <2>1. ASSUME kind = "action"
        PROVE  /\ i = p /\ path["stage"] = p /\ (s = "finish" => 1 \in inode[p].parts)
               /\ \A q \in Procs : pc'[q] \in Late => q = p
    <3>1. i = p
      BY <1>1, <2>1 DEF InstallIInv, InUse, Late, i
    <3>2. path["stage"] = p /\ (pc[p] = "part_2" => 1 \in inode[p].parts)
      BY <1>1, <2>1 DEF InstallIInv, ActionMoves, Late
    <3>3. ASSUME NEW q \in Procs, pc'[q] \in Late
          PROVE  q = p
      <4>1. pc[q] \notin {"start", "ended"} /\ pc[p] \notin {"start", "ended"}
        BY <1>1, <1>7, <3>3 DEF Late
      <4> QED
        BY <2>1, <4>1 DEF InstallIInv, OneJob
    <3> QED
      BY <1>3, <3>1, <3>2, <3>3
  <2>2. ASSUME kind = "action"
        PROVE  (s = "part_2" => 1 \in inode'[p].parts) /\ (s = "finish" => inode'[p].parts = Parts)
    BY <1>3, <1>5, <2>1, <2>2 DEF Parts
  <2>3. ASSUME kind = "action", path["final"] # NoFile
        PROVE  inode'[path["final"]].parts = Parts
    <3>1. path["final"] \in Procs /\ inode[path["final"]].parts = Parts
      BY <2>3, TypedDisk DEF InstallIInv, ActionMoves
    <3>2. /\ inode[path["final"]].parts \subseteq inode'[path["final"]].parts
          /\ inode'[path["final"]].parts \subseteq Parts
      BY <1>5, <3>1
    <3> QED
      BY <3>1, <3>2
  <2>4. ASSUME kind = "action", NEW q \in Procs, pc'[q] \in Late
        PROVE  /\ path["stage"] = q
               /\ (pc'[q] = "part_2" => 1 \in inode'[q].parts)
               /\ pc'[q] = "finish" => inode'[q].parts = Parts
    BY <1>4, <2>1, <2>2, <2>4
  <2> QED
    BY <1>4, <2>3, <2>4 DEF ActionMoves
<1>13. RunningIsWhole'
  <2>1. ASSUME NEW q \in Procs, pc'[q] = "running"
        PROVE  /\ inode'[fd'[q]].exec
               /\ (Calm' \/ kind' = "action") => inode'[fd'[q]].parts = Parts
    <3>1. pc[q] = "running" /\ fd[q] \in Procs
      BY <1>3, <1>4, <2>1, TypedDisk
    <3>2. inode[fd[q]].exec /\ ((Calm \/ kind = "action") => inode[fd[q]].parts = Parts)
      BY <3>1, WhatRuns
    <3>3. /\ inode'[fd[q]].exec = inode[fd[q]].exec
          /\ inode[fd[q]].parts \subseteq inode'[fd[q]].parts /\ inode'[fd[q]].parts \subseteq Parts
      BY <1>5, <3>1
    <3>4. inode[fd[q]].parts = Parts => inode'[fd[q]].parts = Parts
      BY <3>3
    <3> QED
      BY <1>4, <3>2, <3>3, <3>4
  <2> QED
    BY <2>1 DEF RunningIsWhole
<1>14. IsExecutable'
  <2>1. \A v \in Places : path[v] # NoFile => inode'[path[v]].exec = inode[path[v]].exec
    BY <1>5, TypedDisk
  <2>2. IsExecutable
    BY DEF InstallIInv
  <2> QED
    BY <1>4, <1>7, <2>1, <2>2 DEF IsExecutable
<1> QED
  BY <1>6, <1>8, <1>9, <1>10, <1>11, <1>12, <1>13, <1>14 DEF InstallIInv

LEMMA WritingAPart ==
  ASSUME InstallIInv, NEW p \in Procs, Write(p)
  PROVE  InstallIInv'
<1> DEFINE n       == IF pc[p] = "part_1" THEN 1 ELSE 2
           s       == IF pc[p] = "part_1" THEN "part_2" ELSE "finish"
           written == Added(fd[p], n)
<1>1. /\ pc[p] \in {"part_1", "part_2"} /\ UNCHANGED <<kind, archive, sums, path, fd, faults>>
      /\ fd[p] \in Procs /\ n \in Parts
  BY TypedDisk DEF Write, fetched, Parts
<1>2. CASE inode' = written /\ Goto(p, s) /\ UNCHANGED code
  BY <1>1, <1>2, WritingOn
<1>3. CASE archive[p] # "whole" /\ inode' \in {inode, written} /\ Exit(p, 1)
  <2> HIDE DEF n
  <2>1. inode' \in [Procs -> Inode] /\ \A j \in Procs : inode'[j].exec = inode[j].exec
    <3>1. CASE inode' = inode
      BY <3>1, TypedDisk
    <3>2. CASE inode' = written
      <4>1. /\ written \in [Procs -> Inode]
            /\ \A j \in Procs : written[j].exec = inode[j].exec
        BY <1>1, Adding
      <4> QED
        BY <3>2, <4>1
    <3> QED
      BY <1>3, <3>1, <3>2
  <2> QED
    BY <1>1, <1>3, <2>1, BreakingOff
<1>4. \/ inode' = written /\ Goto(p, s) /\ UNCHANGED code
      \/ archive[p] # "whole" /\ inode' \in {inode, written} /\ Exit(p, 1)
  BY <1>1 DEF Write, Added
<1> QED
  BY <1>2, <1>3, <1>4

(* chmod, by name.                                                         *)
LEMMA MakingExecutable ==
  ASSUME InstallIInv, NEW p \in Procs, MakeExecutable(p)
  PROVE  InstallIInv'
<1> DEFINE i == path["final"]
           s == IF kind = "npm" THEN "ended" ELSE "run"
<1>1. pc[p] = "finish" /\ kind \in {"pypi", "npm"} /\ i \in Procs /\ i # NoFile
  <2>1. pc[p] \in Late /\ kind # "action"
    BY DEF MakeExecutable, Late
  <2>2. i # NoFile
    BY <2>1 DEF InstallIInv, InUse, Place
  <2> QED
    BY <2>1, <2>2, Typed, TypedDisk DEF MakeExecutable, Kinds
<1>2. /\ inode' = [inode EXCEPT ![i] = [parts |-> inode[i].parts, exec |-> TRUE]] /\ Goto(p, s)
      /\ UNCHANGED <<kind, archive, sums, path, fd, faults>>
      /\ code' \in [Procs -> Int] /\ ((s = "ended") <=> code'[p] # -1)
      /\ \A q \in Procs : q # p => code'[q] = code[q]
  <2>1. /\ UNCHANGED <<kind, archive, sums, path, fd, faults>>
        /\ inode' = [inode EXCEPT ![i] = [parts |-> inode[i].parts, exec |-> TRUE]]
    BY DEF MakeExecutable, fetched
  <2>2. CASE kind = "npm"
    <3>1. Exit(p, 0)
      BY <2>2 DEF MakeExecutable
    <3> QED
      BY <2>1, <2>2, <3>1, Typed DEF Exit
  <2>3. CASE kind # "npm"
    <3>1. Goto(p, "run") /\ code' = code
      BY <2>3 DEF MakeExecutable
    <3> QED
      BY <1>1, <2>1, <2>3, <3>1, Typed
  <2> QED
    BY <2>2, <2>3
<1>3. s \in {"run", "ended"}
  OBVIOUS
<1> HIDE DEF s, i
<1>4. /\ pc'[p] = s /\ \A q \in Procs : q # p => pc'[q] = pc[q]
      /\ kind' = kind /\ path' = path /\ fd' = fd /\ Calm' = Calm
  BY <1>2, TypedDisk, SameCalm DEF Goto
<1>5. /\ inode' \in [Procs -> Inode]
      /\ inode'[i].exec
      /\ \A j \in Procs : /\ inode'[j].parts = inode[j].parts
                          /\ inode[j].exec => inode'[j].exec
  <2>1. inode[i] \in Inode
    BY <1>1, TypedDisk
  <2>2. inode' = [inode EXCEPT ![i] = [parts |-> inode[i].parts, exec |-> TRUE]]
    BY <1>2
  <2>3. [parts |-> inode[i].parts, exec |-> TRUE] \in Inode
    BY <2>1 DEF Inode
  <2>4. inode' \in [Procs -> Inode]
    BY <2>2, <2>3, TypedDisk
  <2>5. /\ inode'[i].parts = inode[i].parts /\ inode'[i].exec
        /\ \A j \in Procs : j # i => inode'[j] = inode[j]
    BY <1>1, <2>2, TypedDisk
  <2>6. ASSUME NEW j \in Procs
        PROVE  inode'[j].parts = inode[j].parts /\ (inode[j].exec => inode'[j].exec)
    BY <2>5
  <2> QED
    BY <2>4, <2>5, <2>6
<1>6. TypeOK'
  <2>1. path' \in [Places -> Procs \union {NoFile}] /\ fd' \in [Procs -> Procs \union {NoFile}]
        /\ \A q \in Procs \ {p} : code'[q] = code[q] /\ fd'[q] = fd[q]
    BY <1>2, TypedDisk
  <2> QED
    BY <1>2, <1>3, <1>5, <2>1, TypeAfter
<1>7. \A q \in Procs : pc'[q] \in Late => pc[q] \in Late
  BY <1>3, <1>4 DEF Late
<1>8. ArchiveIsWhole'
  BY <1>2, <1>3, <1>4, ArchiveAfter DEF Early, Late
<1>9. InUse'
  <2>1. \A q \in Procs : pc[q] \notin Early => pc'[q] \notin Early
    BY <1>3, <1>4 DEF Early
  <2>2. /\ \A v \in Places : path'[v] # NoFile => pc'[path'[v]] \notin Early
        /\ \A q \in Procs : fd'[q] # NoFile => pc'[fd'[q]] \notin Early
    BY <1>4, <2>1, Used
  <2>3. InUse
    BY DEF InstallIInv
  <2> QED
    BY <1>4, <1>7, <2>2, <2>3 DEF InUse
<1>10. WrappersGrow'
  <2>1. ASSUME Calm, kind # "action", path["final"] # NoFile
        PROVE  Growing(path["final"])'
    <3>1. path["final"] \in Procs /\ Growing(path["final"])
      BY <2>1, TypedDisk DEF InstallIInv, WrappersGrow
    <3>2. \A q \in Procs : pc[q] \in {"part_1", "part_2"} => pc'[q] = pc[q]
      BY <1>1, <1>4
    <3>3. inode'[path["final"]].parts = inode[path["final"]].parts
      BY <1>5, <3>1
    <3> QED
      BY <1>4, <3>1, <3>2, <3>3 DEF Growing
  <2> QED
    BY <1>4, <2>1 DEF WrappersGrow
<1>11. OneJob' /\ ActionMoves'
  BY <1>1, <1>4 DEF OneJob, ActionMoves
<1>12. RunningIsWhole'
  <2>1. ASSUME NEW q \in Procs, pc'[q] = "running"
        PROVE  /\ inode'[fd'[q]].exec
               /\ (Calm' \/ kind' = "action") => inode'[fd'[q]].parts = Parts
    <3>1. pc[q] = "running" /\ fd[q] \in Procs
      BY <1>3, <1>4, <2>1, TypedDisk
    <3>2. inode[fd[q]].exec /\ ((Calm \/ kind = "action") => inode[fd[q]].parts = Parts)
      BY <3>1, WhatRuns
    <3>3. ASSUME NEW j \in Procs, inode[j].exec
          PROVE  inode'[j].exec /\ inode'[j].parts = inode[j].parts
      BY <1>5, <3>3
    <3>4. inode'[fd[q]].exec /\ inode'[fd[q]].parts = inode[fd[q]].parts
      BY <3>1, <3>2, <3>3
    <3> QED
      BY <1>4, <3>2, <3>4
  <2> QED
    BY <2>1 DEF RunningIsWhole
<1>13. IsExecutable'
  <2>1. ASSUME NEW v \in Places, path[v] # NoFile
        PROVE  inode'[path[v]].exec
    <3>1. CASE v = "final"
      BY <1>5, <3>1 DEF i
    <3>2. CASE v # "final"
      <4>1. path[v] \in Procs /\ inode[path[v]].exec
        BY <2>1, <3>2, TypedDisk DEF InstallIInv, IsExecutable
      <4>2. ASSUME NEW j \in Procs, inode[j].exec
            PROVE  inode'[j].exec
        BY <1>5, <4>2
      <4> QED
        BY <4>1, <4>2
    <3> QED
      BY <3>1, <3>2
  <2> QED
    BY <1>4, <2>1 DEF IsExecutable
<1> QED
  BY <1>6, <1>8, <1>9, <1>10, <1>11, <1>12, <1>13 DEF InstallIInv

(* mv of the unpacked binary into bin.                                     *)
LEMMA Moving ==
  ASSUME InstallIInv, NEW p \in Procs, MoveIntoBin(p)
  PROVE  InstallIInv'
<1>1. /\ pc[p] = "finish" /\ kind = "action" /\ Goto(p, "run")
      /\ UNCHANGED <<kind, archive, sums, inode, fd, code, faults>>
      /\ path' = [path EXCEPT !["stage"] = NoFile, !["final"] = path["stage"]]
  BY DEF MoveIntoBin, Place, fetched
<1>2. path["stage"] = p /\ inode[p].parts = Parts /\ inode[p].exec
  <2>1. path["stage"] = p /\ inode[p].parts = Parts
    BY <1>1 DEF InstallIInv, ActionMoves, Late
  <2>2. "stage" \in Places /\ p # NoFile
    BY TypedDisk
  <2> QED
    BY <1>1, <2>1, <2>2 DEF InstallIInv, IsExecutable
<1>3. /\ pc'[p] = "run" /\ \A q \in Procs : q # p => pc'[q] = pc[q]
      /\ path'["stage"] = NoFile /\ path'["final"] = p
      /\ \A v \in Places : v = "stage" \/ v = "final"
  BY <1>1, <1>2, TypedDisk DEF Goto, Places
<1>4. \A q \in Procs : pc'[q] \notin Late
  <2>1. ASSUME NEW q \in Procs, q # p
        PROVE  pc[q] \in {"start", "ended"}
    BY <1>1, <2>1 DEF InstallIInv, OneJob
  <2> QED
    BY <1>3, <2>1 DEF Late
<1>5. TypeOK'
  <2>1. path' \in [Places -> Procs \union {NoFile}] /\ inode' \in [Procs -> Inode]
        /\ fd' \in [Procs -> Procs \union {NoFile}] /\ code' \in [Procs -> Int] /\ code'[p] = -1
        /\ \A q \in Procs \ {p} : code'[q] = code[q] /\ fd'[q] = fd[q]
    BY <1>1, <1>2, Typed, TypedDisk
  <2> QED
    BY <1>1, <2>1, TypeAfter
<1>6. ArchiveIsWhole'
  BY <1>1, <1>3, ArchiveAfter DEF Early, Late
<1>7. InUse'
  <2>1. \A q \in Procs : pc[q] \notin Early => pc'[q] \notin Early
    BY <1>3 DEF Early
  <2>2. \A v \in Places : path'[v] # NoFile => pc'[path'[v]] \notin Early
    BY <1>3 DEF Early
  <2>3. \A q \in Procs : fd'[q] # NoFile => pc'[fd'[q]] \notin Early
    BY <1>1, <2>1, Used
  <2> QED
    BY <1>1, <1>4, <2>2, <2>3, InUseAfter
<1>8. WrappersGrow'
  BY <1>1 DEF WrappersGrow
<1>9. OneJob'
  BY <1>1, <1>3 DEF InstallIInv, OneJob
<1>10. ActionMoves'
  BY <1>1, <1>2, <1>3, <1>4 DEF ActionMoves
<1>11. RunningIsWhole'
  BY <1>1, <1>3, RunsOn
<1>12. IsExecutable'
  BY <1>1, <1>2, <1>3 DEF IsExecutable
<1> QED
  BY <1>5, <1>6, <1>7, <1>8, <1>9, <1>10, <1>11, <1>12 DEF InstallIInv

(* What passes for a binary and is not open for writing is complete.       *)
LEMMA Running ==
  ASSUME InstallIInv, NEW p \in Procs, Run(p)
  PROVE  InstallIInv'
<1> DEFINE i == path["final"]
<1>1. pc[p] = "run" /\ UNCHANGED <<kind, archive, sums, path, inode, faults>>
  BY DEF Run, fetched, disk
<1>2. CASE i = NoFile \/ ~inode[i].exec \/ Writing(i)
  <2>1. Exit(p, 1) /\ UNCHANGED <<disk, fd>>
    BY <1>2 DEF Run
  <2>2. pc[p] \notin Late /\ pc[p] \notin {"start", "ended"} /\ 1 \in Int /\ 1 # -1
        /\ "ended" \notin Early
    BY <1>1 DEF Late, Early
  <2>3. Fetches(p, "ended") /\ faults' \in 0..MaxFaults /\ faults' >= faults
    BY <1>1, <2>2, SameFetched, Typed
  <2> QED
    BY <1>1, <2>1, <2>2, <2>3, Exits
<1>3. ASSUME i # NoFile, inode[i].exec, ~Writing(i)
      PROVE  InstallIInv'
  <2>1. fd' = [fd EXCEPT ![p] = i] /\ Goto(p, "running") /\ UNCHANGED code /\ i \in Procs
    BY <1>3, TypedDisk DEF Run
  <2>2. (Calm \/ kind = "action") => inode[i].parts = Parts
    <3>1. CASE kind = "action"
      BY <1>3, <3>1 DEF InstallIInv, ActionMoves
    <3>2. CASE kind # "action" /\ Calm
      <4>1. Growing(i)
        BY <1>3, <3>2 DEF InstallIInv, WrappersGrow
      <4> QED
        BY <1>3, <4>1 DEF Growing, Writing
    <3> QED
      BY <3>1, <3>2
  <2> HIDE DEF i
  <2>3. /\ pc'[p] = "running" /\ \A q \in Procs : q # p => pc'[q] = pc[q]
        /\ fd'[p] = i /\ \A q \in Procs : q # p => fd'[q] = fd[q]
        /\ kind' = kind /\ path' = path /\ inode' = inode /\ Calm' = Calm
    BY <1>1, <2>1, TypedDisk, SameCalm DEF Goto
  <2>4. TypeOK'
    <3>1. path' \in [Places -> Procs \union {NoFile}] /\ inode' \in [Procs -> Inode]
          /\ fd' \in [Procs -> Procs \union {NoFile}] /\ code' \in [Procs -> Int] /\ code'[p] = -1
          /\ \A q \in Procs \ {p} : code'[q] = code[q] /\ fd'[q] = fd[q]
      BY <1>1, <2>1, <2>3, Typed, TypedDisk
    <3> QED
      BY <1>1, <1>3, <2>1, <2>3, <3>1, TypeAfter
  <2>5. ArchiveIsWhole'
    BY <1>1, <2>3, ArchiveAfter DEF Early, Late
  <2>6. InUse'
    <3>1. \A q \in Procs : pc[q] \notin Early => pc'[q] \notin Early
      BY <2>3 DEF Early
    <3>2. \A v \in Places : path'[v] # NoFile => pc'[path'[v]] \notin Early
      BY <2>3, <3>1, Used
    <3>3. pc[i] \notin Early
      BY <1>3, Used, TypedDisk DEF i
    <3>4. \A q \in Procs : fd'[q] # NoFile => pc'[fd'[q]] \notin Early
      <4>1. ASSUME NEW q \in Procs, fd'[q] # NoFile
            PROVE  pc'[fd'[q]] \notin Early
        <5>1. CASE q = p
          BY <2>1, <2>3, <3>1, <3>3, <5>1
        <5>2. CASE q # p
          BY <2>3, <3>1, <4>1, <5>2, Used
        <5> QED
          BY <5>1, <5>2
      <4> QED
        BY <4>1
    <3>5. ASSUME NEW q \in Procs, pc'[q] \in Late
          PROVE  path'[Place(kind)] # NoFile /\ fd'[q] = IF kind = "pypi" THEN path'["final"] ELSE q
      <4>1. q # p /\ pc[q] \in Late
        BY <2>3, <3>5 DEF Late
      <4>2. path[Place(kind)] # NoFile /\ fd[q] = IF kind = "pypi" THEN path["final"] ELSE q
        BY <4>1 DEF InstallIInv, InUse
      <4> QED
        BY <2>3, <4>1, <4>2
    <3> QED
      BY <2>3, <3>2, <3>4, <3>5, InUseAfter
  <2>7. WrappersGrow'
    <3>1. ASSUME Calm, kind # "action", path["final"] # NoFile
          PROVE  Growing(path["final"])'
      <4>1. Growing(path["final"])
        BY <3>1 DEF InstallIInv, WrappersGrow
      <4> QED
        BY <1>1, <2>3, <4>1 DEF Growing
    <3> QED
      BY <2>3, <3>1 DEF WrappersGrow
  <2>8. OneJob'
    BY <1>1, <2>3 DEF InstallIInv, OneJob
  <2>9. ActionMoves'
    <3>1. \A q \in Procs : pc'[q] \in Late => pc[q] = pc'[q]
      BY <2>3 DEF Late
    <3>2. ActionMoves
      BY DEF InstallIInv
    <3> QED
      BY <2>3, <3>1, <3>2 DEF ActionMoves
  <2>10. RunningIsWhole'
    <3>1. ASSUME NEW q \in Procs, pc'[q] = "running"
          PROVE  /\ inode'[fd'[q]].exec
                 /\ (Calm' \/ kind' = "action") => inode'[fd'[q]].parts = Parts
      <4>1. CASE q = p
        BY <1>3, <2>2, <2>3, <4>1
      <4>2. CASE q # p
        BY <2>3, <3>1, <4>2, WhatRuns
      <4> QED
        BY <4>1, <4>2
    <3> QED
      BY <3>1 DEF RunningIsWhole
  <2>11. IsExecutable'
    <3>1. \A q \in Procs : pc[q] \in Late => pc'[q] \in Late
      BY <1>1, <2>3 DEF Late
    <3>2. IsExecutable
      BY DEF InstallIInv
    <3> QED
      BY <2>3, <3>1, <3>2 DEF IsExecutable
  <2> QED
    BY <2>4, <2>5, <2>6, <2>7, <2>8, <2>9, <2>10, <2>11 DEF InstallIInv
<1> QED
  BY <1>2, <1>3
-----------------------------------------------------------------------------
(* The invariant holds in every reachable state: what is unpacked is the   *)
(* released archive or one of a local directory, which only the wrappers   *)
(* take (ensure_binary, main of install.js, entry.sh), and files grow as   *)
(* the unpacking goes on.                                                  *)
THEOREM InstallInvariant == Spec => []InstallIInv
<1>1. Init => InstallIInv
  BY InitInvariant
<1>2. ASSUME InstallIInv, [Next]_vars
      PROVE  InstallIInv'
  <2>1. CASE UNCHANGED vars
    BY <1>2, <2>1 DEF vars, fetched, disk, InstallIInv, TypeOK, ArchiveIsWhole, LocalIsWhole, Calm, InUse,
                      WrappersGrow, Growing, OneJob, ActionMoves, RunningIsWhole, IsExecutable
  <2>2. CASE Next
    <3>1. PICK p \in Procs : Begin(p) \/ Step(p) \/ Killed(p) \/ WriteFails(p)
      BY <2>2 DEF Next
    <3>2. CASE Begin(p)
      BY <1>2, <3>2, Beginning
    <3>3. CASE Step(p)
      BY <1>2, <3>3, Fetching, Verifying, Opening, WritingAPart, MakingExecutable, Moving, Running,
         Stopping DEF Step
    <3>4. CASE Killed(p) \/ WriteFails(p)
      BY <1>2, <3>4, Stopping
    <3> QED
      BY <3>1, <3>2, <3>3, <3>4
  <2> QED
    BY <1>2, <2>1, <2>2
<1> QED
  BY <1>1, <1>2, PTL DEF Spec

(* Every variable keeps its type, and who writes or runs has a file        *)
(* (installer.py, install.js and entry.sh).                                *)
THEOREM InstallTypes == Spec => []TypeOK
<1>1. InstallIInv => TypeOK
  BY DEF InstallIInv
<1> QED
  BY <1>1, InstallInvariant, PTL

(* Unless a process was killed, a write failed or a local archive was      *)
(* spoilt, only a complete binary is ever executed, however many first     *)
(* runs overlap (ensure_binary, extract and run of installer.py).          *)
THEOREM RunsComplete == Spec => []RunsWhole
<1>1. InstallIInv => RunsWhole
  <2> SUFFICES ASSUME InstallIInv, Calm, NEW p \in Procs, pc[p] = "running"
               PROVE  Whole(fd[p])
    BY DEF RunsWhole
  <2> QED
    BY WhatRuns, TypedDisk DEF Whole
<1> QED
  BY <1>1, InstallInvariant, PTL

(* What is installed is complete and executable: with the action always,   *)
(* with the wrappers once nobody unpacks, if nobody was killed, no write   *)
(* failed and no local archive was spoilt (installer.py, install.js; mv of *)
(* entry.sh).                                                              *)
THEOREM InstallsComplete == Spec => []CacheIsWhole
<1>1. InstallIInv => CacheIsWhole
  <2> SUFFICES ASSUME InstallIInv, Settled, path["final"] # NoFile
               PROVE  Whole(path["final"]) /\ inode[path["final"]].exec
    BY DEF CacheIsWhole
  <2>1. inode[path["final"]].parts = Parts
    <3>1. CASE kind = "action"
      BY <3>1 DEF InstallIInv, ActionMoves
    <3>2. CASE kind # "action"
      <4>1. Calm /\ \A p \in Procs : pc[p] \notin {"part_1", "part_2"}
        BY <3>2 DEF Settled, Unpacking
      <4>2. Growing(path["final"])
        BY <3>2, <4>1 DEF InstallIInv, WrappersGrow
      <4> QED
        BY <4>1, <4>2 DEF Growing
    <3> QED
      BY <3>1, <3>2
  <2>2. inode[path["final"]].exec
    <3>1. kind = "pypi" => Calm /\ \A p \in Procs : pc[p] \notin Late
      BY DEF Settled, Unpacking, Late
    <3>2. "final" \in Places
      BY TypedDisk
    <3> QED
      BY <3>1, <3>2 DEF InstallIInv, IsExecutable
  <2> QED
    BY <2>1, <2>2 DEF Whole
<1> QED
  BY <1>1, InstallInvariant, PTL
-----------------------------------------------------------------------------
(* Exit codes.                                                             *)

(* The wrapper and the action run the file that is installed.              *)
RunsInstalled ==
  kind # "npm" => \A p \in Procs : pc[p] = "running" => fd[p] = path["final"]

(* A download ends the process, or leads to the next step or nowhere.      *)
LEMMA Downloaded ==
  ASSUME NEW p, NEW f, NEW next, Download(p, f, next), kind \in Kinds
  PROVE  \/ (Goto(p, next) \/ Goto(p, "hung")) /\ UNCHANGED code
         \/ Exit(p, 1)
         \/ kind = "npm" /\ Exit(p, 0)
<1>1. CASE kind = "pypi"
  BY <1>1 DEF Download, EndsEarly, Silence
<1>2. CASE kind = "npm"
  BY <1>2 DEF Download, EndsEarly, Silence
<1>3. CASE kind = "action"
  BY <1>3 DEF Download, EndsEarly, Silence
<1> QED BY <1>1, <1>2, <1>3 DEF Kinds

LEMMA RunsInstalledStep ==
  ASSUME InstallIInv, RunsInstalled, [Next]_vars
  PROVE  RunsInstalled'
<1>1. /\ kind \in Kinds /\ kind' = kind /\ "final" \in Places
      /\ DOMAIN pc = Procs /\ DOMAIN fd = Procs /\ DOMAIN path = Places
      /\ \A q \in Procs : pc[q] = "running" => fd[q] # NoFile
  <2>1. kind' = kind
    BY DEF Next, Begin, Step, EnsureBinary, PostInstall, Launch, ResolveVersion, FetchArchive,
           FetchChecksums, Verify, Open, Write, MakeExecutable, MoveIntoBin, Run, Returns, Killed,
           WriteFails, vars
  <2> QED BY <2>1 DEF InstallIInv, TypeOK, Places
<1>2. ASSUME UNCHANGED <<path, fd>>, \A q \in Procs : pc'[q] = "running" => pc[q] = "running"
      PROVE  RunsInstalled'
  BY <1>1, <1>2 DEF RunsInstalled
<1>3. CASE UNCHANGED vars
  BY <1>2, <1>3 DEF vars, disk
<1>4. ASSUME NEW p \in Procs, Begin(p) \/ FetchArchive(p) \/ FetchChecksums(p) \/ Verify(p)
      PROVE  RunsInstalled'
  <2>1. UNCHANGED <<path, fd>>
    BY <1>4 DEF Begin, EnsureBinary, PostInstall, Launch, ResolveVersion, FetchArchive,
                FetchChecksums, Verify, disk
  <2>2. \E s : s # "running" /\ pc' = [pc EXCEPT ![p] = s]
    <3>1. CASE Begin(p)
      BY <3>1 DEF Begin, EnsureBinary, PostInstall, Launch, ResolveVersion, Install, Exit, Goto
    <3>2. ASSUME NEW f, NEW next \in {"checksums", "verify"}, Download(p, f, next)
          PROVE  \E s : s # "running" /\ pc' = [pc EXCEPT ![p] = s]
      <4>1. \/ Goto(p, next) \/ Goto(p, "hung") \/ Exit(p, 1) \/ Exit(p, 0)
        BY <1>1, <3>2, Downloaded
      <4> QED BY <4>1 DEF Exit, Goto
    <3>3. CASE FetchArchive(p) \/ FetchChecksums(p)
      BY <3>2, <3>3 DEF FetchArchive, FetchChecksums
    <3>4. CASE Verify(p)
      BY <3>4 DEF Verify, Exit, Goto
    <3> QED BY <1>4, <3>1, <3>3, <3>4
  <2> QED BY <1>1, <1>2, <2>1, <2>2
<1>5. ASSUME NEW p \in Procs, Write(p) \/ MakeExecutable(p) \/ Returns(p) \/ Killed(p) \/ WriteFails(p)
      PROVE  RunsInstalled'
  <2>1. UNCHANGED <<path, fd>>
    BY <1>5 DEF Write, MakeExecutable, Returns, Killed, WriteFails, disk
  <2>2. \E s : s # "running" /\ pc' = [pc EXCEPT ![p] = s]
    BY <1>5 DEF Write, MakeExecutable, Returns, Killed, WriteFails, Exit, Goto
  <2> QED BY <1>1, <1>2, <2>1, <2>2
<1>6. ASSUME NEW p \in Procs, Open(p)
      PROVE  RunsInstalled'
  <2> DEFINE w == Place(kind)
             new == kind # "pypi" \/ path[w] = NoFile
             i == IF new THEN p ELSE path[w]
  <2>1. pc[p] = "open" /\ \E s : s # "running" /\ pc' = [pc EXCEPT ![p] = s]
    BY <1>6 DEF Open, Exit, Goto
  <2>2. \/ UNCHANGED <<path, fd>>
        \/ path' = [path EXCEPT ![w] = i] /\ fd' = [fd EXCEPT ![p] = i]
    BY <1>6 DEF Open, disk
  <2>3. ASSUME path' = [path EXCEPT ![w] = i], fd' = [fd EXCEPT ![p] = i], kind # "npm",
               NEW q \in Procs, pc'[q] = "running"
        PROVE  fd'[q] = path'["final"]
    <3>1. q # p /\ pc[q] = "running" /\ fd'[q] = fd[q]
      BY <1>1, <2>1, <2>3
    <3>2. fd[q] = path["final"] /\ path["final"] # NoFile
      BY <1>1, <2>3, <3>1 DEF RunsInstalled
    <3>3. CASE kind = "action"
      <4>1. w # "final"
        BY <3>3 DEF Place
      <4> QED BY <2>3, <3>1, <3>2, <4>1
    <3>4. CASE kind = "pypi"
      <4>1. w = "final" /\ i = path["final"]
        BY <3>2, <3>4 DEF Place
      <4> QED BY <1>1, <2>3, <3>1, <3>2, <4>1
    <3> QED BY <1>1, <2>3, <3>3, <3>4 DEF Kinds
  <2> HIDE DEF w, i
  <2>4. CASE UNCHANGED <<path, fd>>
    BY <1>1, <1>2, <2>1, <2>4
  <2> QED BY <1>1, <2>2, <2>3, <2>4 DEF RunsInstalled
<1>7. ASSUME NEW p \in Procs, MoveIntoBin(p)
      PROVE  RunsInstalled'
  <2>1. kind = "action" /\ pc[p] = "finish" /\ pc' = [pc EXCEPT ![p] = "run"]
    BY <1>7 DEF MoveIntoBin, Goto
  <2>2. \A q \in Procs : pc[q] # "running"
    BY <2>1 DEF InstallIInv, OneJob
  <2> QED BY <1>1, <2>1, <2>2 DEF RunsInstalled
<1>8. ASSUME NEW p \in Procs, Run(p)
      PROVE  RunsInstalled'
  <2>1. path' = path /\ \A q \in Procs : q # p => pc'[q] = pc[q] /\ fd'[q] = fd[q]
    BY <1>1, <1>8 DEF Run, disk, Exit, Goto
  <2>2. pc'[p] = "running" => fd'[p] = path["final"]
    BY <1>1, <1>8 DEF Run, Exit, Goto
  <2> QED BY <1>1, <2>1, <2>2 DEF RunsInstalled
<1> QED BY <1>3, <1>4, <1>5, <1>6, <1>7, <1>8 DEF Next, Step

(* Only what was run, and npm's own script, ends with exit code 0.         *)
LEMMA WhoExitsWithZero ==
  ASSUME InstallIInv, [Next]_vars, kind # "npm", NEW q \in Procs, code[q] = -1, code'[q] = 0
  PROVE  /\ pc[q] = "running" /\ Whole(fd[q])
         /\ UNCHANGED disk
<1>1. DOMAIN code = Procs /\ code' # code /\ kind \in Kinds
  <2>1. DOMAIN code = Procs /\ kind \in Kinds
    BY DEF InstallIInv, TypeOK
  <2>2. code'[q] # code[q]
    OBVIOUS
  <2> QED BY <2>1, <2>2
<1>2. PICK p \in Procs : Begin(p) \/ Step(p) \/ Killed(p) \/ WriteFails(p)
  BY <1>1 DEF Next, vars
<1>3. ASSUME NEW c \in Int, Exit(p, c), c # 0
      PROVE  FALSE
  BY <1>1, <1>3 DEF Exit
<1>4. code' # code /\ ~Exit(p, 1) /\ ~Exit(p, 137)
  BY <1>1, <1>3
<1>5. ~Begin(p)
  BY <1>4 DEF Begin, EnsureBinary, PostInstall, Launch, ResolveVersion, Install
<1>6. ~FetchArchive(p) /\ ~FetchChecksums(p)
  <2>1. ASSUME NEW f, NEW next, Download(p, f, next)
        PROVE  FALSE
    <3>1. UNCHANGED code \/ Exit(p, 1)
      BY <1>1, <2>1, Downloaded
    <3> QED BY <1>4, <3>1
  <2> QED BY <2>1 DEF FetchArchive, FetchChecksums
<1>7. ~Verify(p) /\ ~Open(p) /\ ~Write(p)
  <2>1. Verify(p) \/ Open(p) \/ Write(p) => Exit(p, 1) \/ UNCHANGED code
    BY DEF Verify, Open, Write
  <2> QED BY <1>4, <2>1
<1>8. ~MakeExecutable(p) /\ ~MoveIntoBin(p) /\ ~Run(p)
  <2>1. ~MakeExecutable(p) /\ ~MoveIntoBin(p)
    BY <1>4 DEF MakeExecutable, MoveIntoBin
  <2>2. Run(p) => Exit(p, 1) \/ UNCHANGED code
    BY DEF Run
  <2> QED BY <1>4, <2>1, <2>2
<1>9. ~Killed(p) /\ ~WriteFails(p)
  BY <1>4 DEF Killed, WriteFails
<1>10. Returns(p)
  BY <1>2, <1>5, <1>6, <1>7, <1>8, <1>9 DEF Step
<1>11. p = q /\ Whole(fd[p])
  BY <1>1, <1>3, <1>10 DEF Returns, Exit
<1> QED BY <1>10, <1>11 DEF Returns

(* Exit code 0 of the wrapper, and of a job of the action, is that of a    *)
(* complete binary which is the one installed, for any number of processes *)
(* and whatever was killed before (run of installer.py, entry.sh).         *)
THEOREM SuccessIsReal == Spec => SuccessOfTheOthersIsReal
<1>1. Init => RunsInstalled
  BY DEF Init, RunsInstalled
<1>2. InstallIInv /\ RunsInstalled /\ [Next]_vars => RunsInstalled'
  BY RunsInstalledStep
<1>3. InstallIInv /\ RunsInstalled /\ [Next]_vars =>
        [kind # "npm" => \A p \in Procs : code[p] = -1 /\ code'[p] = 0 => Installed']_vars
  <2> SUFFICES ASSUME InstallIInv, RunsInstalled, [Next]_vars, kind # "npm",
                      NEW p \in Procs, code[p] = -1, code'[p] = 0
               PROVE  Installed'
    OBVIOUS
  <2>1. pc[p] = "running" /\ Whole(fd[p]) /\ path' = path /\ inode' = inode
    BY WhoExitsWithZero DEF disk
  <2>2. fd[p] = path["final"] /\ inode[fd[p]].exec
    BY <2>1, WhatRuns DEF RunsInstalled
  <2> QED BY <2>1, <2>2 DEF Installed, Whole
<1> QED BY <1>1, <1>2, <1>3, InstallInvariant, PTL DEF Spec, SuccessOfTheOthersIsReal
=============================================================================
