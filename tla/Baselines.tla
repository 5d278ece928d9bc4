----------------------------- MODULE Baselines -----------------------------
(***************************************************************************)
(* Teammates who create baselines, save snapshots and compare them, in the *)
(* same directory: `snagify baseline create`, `snapshot`, `diff`,          *)
(* `diff-many` and `check --against`.  Their machines change, their        *)
(* commands overlap, and a write can fail or be killed half way.           *)
(*                                                                         *)
(* store.Save truncates the file and then writes it; store.Load reads it   *)
(* whole and fails unless it is one JSON document.                         *)
(***************************************************************************)
EXTENDS Drift

CONSTANTS
  Members,
  Machines,     (* what `capture` may find, see Snapshot *)
  Ports, Keys,
  Baseline,     (* the file of the baseline; that of a member's snapshot has the member's name *)
  MaxCommands, MaxEdits, MaxFaults

Files == Members \union {Baseline}

(* What a file may be, but for a snapshot.                                 *)
Absent == "absent"
Empty  == "empty"
Torn   == "torn"
NoFile == {Absent, Empty, Torn}

ASSUME BaselinesAssumption ==
  /\ Baseline \notin Members /\ IsFiniteSet(Members)
  /\ \A m \in Machines : /\ m \in Snapshot(Ports, Keys)
                         /\ \A n \in RuntimeNames :
                              /\ ~m.runtimes[n].present => m.runtimes[n].version = <<>>
                              /\ m.runtimes[n].clean => m.runtimes[n].version # <<>>
  /\ MaxCommands \in Nat /\ MaxEdits \in Nat /\ MaxFaults \in Nat

VARIABLES
  machine,    (* what each member's machine is *)
  file,       (* [status, content], the content a set of at most one snapshot *)
  source,     (* the machine whose snapshot a file has, before it was sanitized *)
  pc,         (* the command of each member, and where it is *)
  snap,       (* what it captured *)
  args,       (* the files it reads, in this order *)
  read,       (* the snapshots it has read *)
  listed,     (* of diff-many: the snapshots that were there, whole, when the
                 directory was listed, and that nobody wrote since *)
  verdict,    (* what the last comparison said *)
  commands, edits, faults

commandVars == <<pc, snap, args, read, listed, verdict>>
bounds == <<commands, edits, faults>>
vars == <<machine, file, source, commandVars, bounds>>

Nothing == [cmd |-> "none"]

Whole(f)   == file[f].status = "whole"
Content(f) == CHOOSE s \in file[f].content : TRUE

FileOf(s)   == [status |-> "whole", content |-> {s}]
Broken(how) == [status |-> how, content |-> {}]

(* Some of the files are there already.                                    *)
Init ==
  /\ machine \in [Members -> Machines]
  /\ source \in [Files -> {{}} \union {{machine[m]} : m \in Members}]
  /\ \A m \in Members : source[m] \subseteq {machine[m]}
  /\ file = [f \in Files |-> IF source[f] = {} THEN Broken(Absent)
                             ELSE LET s == CHOOSE s \in source[f] : TRUE
                                  IN  FileOf(IF f = Baseline THEN Sanitize(s) ELSE s)]
  /\ pc = [m \in Members |-> "idle"]
  /\ snap = [m \in Members |-> {}] /\ args = [m \in Members |-> <<>>]
  /\ read = [m \in Members |-> <<>>] /\ listed = [m \in Members |-> {}]
  /\ verdict = Nothing
  /\ commands = 0 /\ edits = 0 /\ faults = 0
-----------------------------------------------------------------------------
Start(m) ==
  /\ pc[m] = "idle"
  /\ commands < MaxCommands /\ commands' = commands + 1
  /\ UNCHANGED <<machine, file, source, edits, faults>>

Set(m, at, captured, files, whole) ==
  /\ pc' = [pc EXCEPT ![m] = at]
  /\ snap' = [snap EXCEPT ![m] = captured]
  /\ args' = [args EXCEPT ![m] = files]
  /\ read' = [read EXCEPT ![m] = <<>>]
  /\ listed' = [listed EXCEPT ![m] = whole]

(* A command is over; what it says is the verdict.                         *)
End(m, says) == Set(m, "idle", {}, <<>>, {}) /\ verdict' = says

Error(m) == End(m, [cmd |-> "error", by |-> m, code |-> 2])

(* baseline create and snapshot capture the machine and then save it.      *)
Create(m) ==
  /\ Start(m) /\ Set(m, "open baseline", {machine[m]}, <<Baseline>>, {})
  /\ verdict' = Nothing

TakeSnapshot(m) ==
  /\ Start(m) /\ Set(m, "open snapshot", {machine[m]}, <<m>>, {})
  /\ verdict' = Nothing

(* check --against captures the machine before it loads the baseline.      *)
CheckAgainst(m) ==
  /\ Start(m) /\ Set(m, "against", {machine[m]}, <<Baseline>>, {})
  /\ verdict' = Nothing

DiffTwo(m) ==
  /\ Start(m)
  /\ \E f \in Files, g \in Files \ {Baseline} : Set(m, "diff", {}, <<f, g>>, {})
  /\ verdict' = Nothing

DiffMany(m) == Start(m) /\ Set(m, "many", {}, <<Baseline>>, {}) /\ verdict' = Nothing
-----------------------------------------------------------------------------
(* store.Save.                                                             *)

Touch(f) == listed' = [m \in Members |-> listed[m] \ {f}]

Open(m) ==
  /\ pc[m] \in {"open baseline", "open snapshot"}
  /\ LET f == args[m][1] IN
     /\ file' = [file EXCEPT ![f] = Broken(Empty)]
     /\ source' = [source EXCEPT ![f] = {}]
     /\ Touch(f)
  /\ pc' = [pc EXCEPT ![m] = IF @ = "open baseline" THEN "write baseline" ELSE "write snapshot"]
  /\ UNCHANGED <<machine, snap, args, read, verdict, bounds>>

(* Who writes into a file that another one has filled meanwhile leaves the *)
(* rest of it behind if that was longer.                                   *)
Write(m) ==
  /\ pc[m] \in {"write baseline", "write snapshot"}
  /\ LET f == args[m][1]
         s == CHOOSE s \in snap[m] : TRUE
         saved == IF pc[m] = "write baseline" THEN Sanitize(s) ELSE s
     IN  \/ file' = [file EXCEPT ![f] = FileOf(saved)] /\ source' = [source EXCEPT ![f] = {s}]
         \/ /\ file[f].status # Empty
            /\ file' = [file EXCEPT ![f] = Broken(Torn)] /\ source' = [source EXCEPT ![f] = {}]
  /\ pc' = [pc EXCEPT ![m] = "idle"] /\ snap' = [snap EXCEPT ![m] = {}]
  /\ args' = [args EXCEPT ![m] = <<>>] /\ Touch(args[m][1])
  /\ verdict' = [cmd |-> "saved", by |-> m, code |-> 0]
  /\ UNCHANGED <<machine, read, bounds>>

(* The disk is full: some of it is there.                                  *)
WriteFails(m) ==
  /\ pc[m] \in {"write baseline", "write snapshot"}
  /\ faults < MaxFaults /\ faults' = faults + 1
  /\ file' = [file EXCEPT ![args[m][1]] = Broken(Torn)]
  /\ source' = [source EXCEPT ![args[m][1]] = {}]
  /\ pc' = [pc EXCEPT ![m] = "idle"] /\ snap' = [snap EXCEPT ![m] = {}]
  /\ args' = [args EXCEPT ![m] = <<>>] /\ Touch(args[m][1])
  /\ verdict' = [cmd |-> "error", by |-> m, code |-> 2]
  /\ UNCHANGED <<machine, read, commands, edits>>

Killed(m) ==
  /\ pc[m] # "idle"
  /\ faults < MaxFaults /\ faults' = faults + 1
  /\ End(m, [cmd |-> "killed", by |-> m, code |-> 137])
  /\ UNCHANGED <<machine, file, source, commands, edits>>
-----------------------------------------------------------------------------
(* store.Load, and what follows.                                           *)

Against(m) ==
  /\ pc[m] = "against"
  /\ IF ~Whole(Baseline) THEN Error(m)
     ELSE LET mine == CHOOSE s \in snap[m] : TRUE
              rep  == BaselineReport(Content(Baseline), mine)
          IN  End(m, [cmd |-> "against", by |-> m, mine |-> mine, with |-> source[Baseline],
                      code |-> IF Failed(rep) THEN 1 ELSE 0])
  /\ UNCHANGED <<machine, file, source, bounds>>

(* The first file, then the second; exit code 1 is a difference.           *)
LoadForDiff(m) ==
  /\ pc[m] = "diff"
  /\ LET f == Head(args[m]) IN
     IF ~Whole(f) THEN Error(m)
     ELSE IF Len(args[m]) = 2
     THEN /\ args' = [args EXCEPT ![m] = Tail(@)]
          /\ read' = [read EXCEPT ![m] = <<Content(f)>>]
          /\ UNCHANGED <<pc, snap, listed, verdict>>
     ELSE LET a == read[m][1]
              b == Content(f)
          IN  End(m, [cmd |-> "diff", by |-> m, a |-> a, b |-> b,
                      code |-> IF HasDifferences(Diff(a, b, "a", "b")) THEN 1 ELSE 0])
  /\ UNCHANGED <<machine, file, source, bounds>>

(* Nothing is compared without a baseline; then the directory is listed.   *)
LoadBaseline(m) ==
  /\ pc[m] = "many"
  /\ IF ~Whole(Baseline) THEN Error(m)
     ELSE /\ pc' = [pc EXCEPT ![m] = "list"]
          /\ read' = [read EXCEPT ![m] = <<Content(Baseline)>>]
          /\ UNCHANGED <<snap, args, listed, verdict>>
  /\ UNCHANGED <<machine, file, source, bounds>>

(* In the order of their names, without the baseline.                      *)
ReadDir(m) ==
  /\ pc[m] = "list"
  /\ LET there == {f \in Members : file[f].status # Absent} IN
     \E order \in [1..Cardinality(there) -> there] :
       /\ \A f \in there : \E i \in DOMAIN order : order[i] = f
       /\ args' = [args EXCEPT ![m] = order]
       /\ listed' = [listed EXCEPT ![m] = {f \in there : Whole(f)}]
       /\ pc' = [pc EXCEPT ![m] = "load"]
  /\ UNCHANGED <<machine, file, source, snap, read, verdict, bounds>>

(* Mutant: the first snapshot that cannot be loaded ends the list.         *)
LoadNextOrStop(m) ==
  /\ pc[m] = "load" /\ args[m] # <<>>
  /\ LET f == Head(args[m]) IN
     /\ read' = [read EXCEPT ![m] = IF Whole(f) THEN Append(@, <<f, Content(f)>>) ELSE @]
     /\ args' = [args EXCEPT ![m] = IF Whole(f) THEN Tail(@) ELSE <<>>]
  /\ UNCHANGED <<machine, file, source, pc, snap, listed, verdict, bounds>>

(* A snapshot that cannot be loaded is skipped.                            *)
LoadNext(m) ==
  /\ pc[m] = "load" /\ args[m] # <<>>
  /\ LET f == Head(args[m]) IN
     /\ read' = [read EXCEPT ![m] = IF Whole(f) THEN Append(@, <<f, Content(f)>>) ELSE @]
     /\ args' = [args EXCEPT ![m] = Tail(@)]
  /\ UNCHANGED <<machine, file, source, pc, snap, listed, verdict, bounds>>

Summarize(m) ==
  /\ pc[m] = "load" /\ args[m] = <<>>
  /\ IF Len(read[m]) = 1 THEN Error(m)
     ELSE LET inputs == [n \in {read[m][i][1] : i \in 2..Len(read[m])} |->
                           LET i == CHOOSE i \in 2..Len(read[m]) : read[m][i][1] = n
                           IN  read[m][i][2]]
              rows   == Build(read[m][1], inputs)
          IN  End(m, [cmd |-> "many", by |-> m, code |-> 0, base |-> read[m][1],
                      inputs |-> inputs, rows |-> rows, tally |-> Tally(rows)])
  /\ UNCHANGED <<machine, file, source, bounds>>
-----------------------------------------------------------------------------
MachineChanges(m) ==
  /\ edits < MaxEdits /\ edits' = edits + 1
  /\ machine' \in {[machine EXCEPT ![m] = x] : x \in Machines}
  /\ UNCHANGED <<file, source, commandVars, commands, faults>>

Next == \E m \in Members :
  \/ Create(m) \/ TakeSnapshot(m) \/ CheckAgainst(m) \/ DiffTwo(m) \/ DiffMany(m)
  \/ Open(m) \/ Write(m) \/ WriteFails(m) \/ Killed(m)
  \/ Against(m) \/ LoadForDiff(m) \/ LoadBaseline(m) \/ ReadDir(m) \/ LoadNext(m) \/ Summarize(m)
  \/ MachineChanges(m)

Spec == Init /\ [][Next]_vars
-----------------------------------------------------------------------------
(* Properties.                                                             *)

(* Every variable has its type; a baseline has neither the name of a host  *)
(* nor the root of a project, and is the sanitized snapshot of a machine.  *)
TypeOK ==
  /\ machine \in [Members -> Machines]
  /\ \A f \in Files :
       /\ file[f].status \in NoFile \union {"whole"}
       /\ file[f].content \subseteq Snapshot(Ports, Keys)
       /\ Whole(f) <=> file[f].content # {}
       /\ source[f] \subseteq Machines
  /\ Whole(Baseline) => Content(Baseline).host = "" /\ "root" \notin Content(Baseline).absolute
  /\ \A m \in Members : snap[m] \subseteq Machines /\ listed[m] \subseteq Members
  /\ commands \in 0..MaxCommands /\ edits \in 0..MaxEdits /\ faults \in 0..MaxFaults

(* check --against says exactly whether the machine it captured could not  *)
(* stand in for the one the baseline was made on, whatever Sanitize        *)
(* removed and however the commands of the two overlapped; it says nothing *)
(* of a baseline that was not written to its end (check.go, baseline.go).  *)
VerdictIsOnTheMaker ==
  verdict.cmd = "against" =>
    \E maker \in verdict.with :
      verdict.code = 1 <=> Incompatible(maker, verdict.mine)

(* diff reports the same, seen from the other side, if the snapshots are   *)
(* swapped, and its exit code is 0 exactly if they agree in all that is    *)
(* compared (compareRuntime, ApplyProjectContext, diffEnvFiles).           *)
DiffIsFair ==
  verdict.cmd = "diff" =>
    /\ Diff(verdict.b, verdict.a, "b", "a") = {Mirror(e) : e \in Diff(verdict.a, verdict.b, "a", "b")}
    /\ verdict.code = 0 <=> Agree(verdict.a, verdict.b)

(* Whoever's snapshot was there, whole, when the directory was listed, and *)
(* was not being replaced, is in the summary, although others could not be *)
(* loaded (diffmany.go, the loop over the entries).                        *)
NobodyIsLeftOut ==
  [][ \A m \in Members :
        pc[m] = "load" /\ pc'[m] = "idle" /\ verdict'.cmd # "killed" =>
          /\ verdict'.cmd = "error" => listed[m] = {}
          /\ verdict'.cmd = "many"  => listed[m] \subseteq DOMAIN verdict'.inputs ]_vars

(* A machine is fine in the summary exactly if diff would find nothing     *)
(* between it and the baseline; then it has no blocker and every cell is   *)
(* ok; and no blocker is lost by the count (team.Build).                   *)
SummaryIsFair ==
  verdict.cmd = "many" =>
    /\ \A n \in DOMAIN verdict.rows :
         LET row == verdict.rows[n] IN
         /\ row.ok <=> Agree(verdict.base, verdict.inputs[n])
         /\ row.ok => row.blockers = {} /\ row.cells = {}
         /\ row.blockers = {} <=> ~Incompatible(verdict.base, verdict.inputs[n])
    /\ \A t \in DOMAIN verdict.tally :
         verdict.tally[t] >= Cardinality({n \in DOMAIN verdict.rows :
                               t \in {NormalizeBlocker(b) : b \in verdict.rows[n].blockers}})

(* "Hostname and absolute paths were removed. Safe to commit or share.":   *)
(* what `baseline create` has saved names no path of the machine           *)
(* (baseline.Sanitize).                                                    *)
BaselinesHaveNoPaths ==
  [][ \A m \in Members :
        pc[m] = "write baseline" /\ verdict' = [cmd |-> "saved", by |-> m, code |-> 0]
          /\ file'[Baseline].status = "whole" =>
            \A s \in file'[Baseline].content : s.absolute = {} ]_vars

(* "BlockerCount tallies how many machines share a blocker": no count is   *)
(* greater than the number of machines (normalizeBlocker).                 *)
CountsMachines ==
  verdict.cmd = "many" =>
    \A t \in DOMAIN verdict.tally : verdict.tally[t] <= Cardinality(DOMAIN verdict.rows)
=============================================================================
