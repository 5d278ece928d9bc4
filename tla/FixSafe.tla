------------------------------ MODULE FixSafe ------------------------------
(***************************************************************************)
(* `snagify fix safe`: check the project, turn the report into a plan, and *)
(* apply the safe part of the plan to .env and to the local Docker images. *)
(*                                                                         *)
(* Check, plan and every write are separate steps: the check reads .env    *)
(* once, the plan asks again whether it exists (twice, when required and   *)
(* recommended keys are both missing), the writes happen after custom      *)
(* checks and plugins have run.  Each write can fail, with part of it in   *)
(* the file, the process can be killed anywhere, and somebody may be       *)
(* editing .env.                                                           *)
(*                                                                         *)
(* A dotenv file is the value of every key (that of its last assignment,   *)
(* the one loaders use), its last line and whether that line is ended.     *)
(* Values: "blank"; "default", as in .env.example; "user", typed by a      *)
(* person; "spoiled", a line with something else glued to it.              *)
(***************************************************************************)
EXTENDS Integers, Sequences, FiniteSets

CONSTANTS
  Keys,
  Sensitive,    (* keys whose name has one of safeDefault's terms *)
  Required,     (* env.required of .snagify.yaml *)
  Recommended,  (* env.recommended *)
  Examples,     (* what .env.example may be: files, see File *)
  Files,        (* what .env may be to begin with *)
  Named,        (* env.actual_file is given: a set of Booleans *)
  Image,        (* a required image *)
  Container,    (* a required container *)
  MaxRuns,      (* bound of runs of the command *)
  MaxEdits,     (* bound of edits by a person *)
  EditsDuring,  (* a person may edit while the command runs *)
  Ended,        (* whether editors end the last line: a set of Booleans *)
  Failures,     (* writes may fail *)
  None

Values == {"absent", "blank", "default", "user", "spoiled"}

File == [exists : BOOLEAN, vals : [Keys -> Values], last : Keys \union {None}, nl : BOOLEAN]

NoFile == [exists |-> FALSE, vals |-> [k \in Keys |-> "absent"], last |-> None, nl |-> TRUE]

Empty == [NoFile EXCEPT !.exists = TRUE]

ASSUME FixAssumption ==
  /\ None \notin Keys \union {-1, 0, 2}
  /\ Sensitive \subseteq Keys /\ Required \subseteq Keys /\ Recommended \subseteq Keys
  /\ Examples \subseteq File /\ Files \subseteq File
  /\ \A f \in Files \union Examples : ~f.exists => f = NoFile
  /\ \A f \in Examples : \A k \in Keys : f.vals[k] \in {"absent", "blank", "default"}
  /\ Named \subseteq BOOLEAN /\ Ended \subseteq BOOLEAN
  /\ Image # Container
  /\ MaxRuns \in Nat /\ MaxEdits \in Nat
  /\ EditsDuring \in BOOLEAN /\ Failures \in BOOLEAN

VARIABLES
  env,      (* the file .env *)
  example,  (* the file .env.example *)
  named,    (* env.actual_file is ".env" rather than left out *)
  local,    (* names of Image and Container that are images on this machine *)
  pc,       (* where the command is *)
  flags,    (* --dry-run, --yes, and whether stdin is a terminal *)
  items,    (* the report's critical and warning items not yet planned *)
  plan,     (* FixPlan.Safe, what is left of it *)
  todo,     (* keys the current append has still to write *)
  errors,   (* ApplyResult.Errors is not empty *)
  exit,     (* exit code of the last run; None while running, -1 if killed *)
  runs,
  edits,
  settled,  (* history: a run that was not --dry-run has exited 0, nothing glued *)
  glued     (* history: this run has appended to a line that is not ended *)

disk    == <<env, local>>
history == <<settled, glued>>
project == <<example, named, history>>
vars    == <<disk, project, pc, flags, items, plan, todo, errors, exit, runs, edits>>

Flags == [dry : BOOLEAN, yes : BOOLEAN, tty : BOOLEAN]

EnvItem(keys)   == [cat |-> "Env", keys |-> keys, name |-> None]
DockerItem(n)   == [cat |-> "Docker", keys |-> {}, name |-> n]
CreateAction    == [id |-> "create", keys |-> {}, name |-> None]
AppendAction(s) == [id |-> "append", keys |-> s, name |-> None]
PullAction(n)   == [id |-> "pull", keys |-> {}, name |-> n]

Init ==
  /\ env \in Files
  /\ example \in Examples
  /\ named \in Named
  /\ local \in SUBSET {Image}
  /\ pc = "idle"
  /\ flags = [dry |-> FALSE, yes |-> FALSE, tty |-> TRUE]
  /\ items = <<>> /\ plan = <<>> /\ todo = {}
  /\ errors = FALSE
  /\ exit = None
  /\ runs = 0 /\ edits = 0
  /\ settled = FALSE /\ glued = FALSE
-----------------------------------------------------------------------------
(* The command up to its plan.                                             *)

Stop(code) ==
  /\ pc' = "idle"
  /\ exit' = code

(* Without a terminal the command wants --yes or --dry-run.                *)
Start(f) ==
  /\ pc = "idle"
  /\ runs < MaxRuns
  /\ runs' = runs + 1
  /\ flags' = f
  /\ items' = <<>> /\ plan' = <<>> /\ todo' = {} /\ errors' = FALSE /\ glued' = FALSE
  /\ IF ~f.tty /\ ~f.yes /\ ~f.dry THEN Stop(2) ELSE pc' = "check" /\ exit' = None
  /\ UNCHANGED <<disk, example, named, settled, edits>>

(* No project, no .snagify.yaml, or one that does not parse.               *)
CheckFails ==
  /\ pc = "check"
  /\ Stop(2)
  /\ UNCHANGED <<disk, project, flags, items, plan, todo, errors, runs, edits>>

(* checkEnv: keys of the file count as present whatever their value; a     *)
(* file that cannot be read counts as absent.                              *)
MissingIn(f, keys) == {k \in keys : f.vals[k] = "absent"}

EnvItems(keys) == IF keys = {} THEN <<>> ELSE <<EnvItem(keys)>>

(* checkDocker, when docker answers: images, then containers, by name.     *)
DockerItems(imageHere, running) ==
  (IF imageHere THEN <<>> ELSE <<DockerItem(Image)>>)
    \o (IF running THEN <<>> ELSE <<DockerItem(Container)>>)

(* Mutant: a key without a value counts as missing.                        *)
CheckWantsValues ==
  /\ pc = "check"
  /\ items' = EnvItems({k \in Required \union Recommended : env.vals[k] \in {"absent", "blank"}})
  /\ pc' = "plan"
  /\ UNCHANGED <<disk, project, flags, plan, todo, errors, exit, runs, edits>>

(* check.Run.  An omitted env.actual_file means .env to the check.         *)
Check ==
  /\ pc = "check"
  /\ \E docker, running \in BOOLEAN :
       items' = EnvItems(MissingIn(env, Required)) \o EnvItems(MissingIn(env, Recommended))
                  \o (IF docker THEN DockerItems(Image \in local, running) ELSE <<>>)
  /\ pc' = "plan"
  /\ UNCHANGED <<disk, project, flags, plan, todo, errors, exit, runs, edits>>

(* fileExists(actualPath) in addEnvFixes; the path is "" if not named.     *)
StatEnv == named /\ env.exists

(* Mutant: the plan does not look whether .env exists.                     *)
EnvFixesBlindly(keys) ==
  (IF example.exists THEN <<CreateAction>> ELSE <<>>) \o <<AppendAction(keys)>>

EnvFixes(keys) ==
  (IF ~StatEnv /\ example.exists THEN <<CreateAction>> ELSE <<>>) \o <<AppendAction(keys)>>

(* A container that is not running looks like an image to addDockerFixes.  *)
DockerFixes(n) == <<PullAction(n)>>

(* Build, for one item of the report.                                      *)
PlanItem ==
  /\ pc = "plan"
  /\ items # <<>>
  /\ plan' = plan \o (IF Head(items).cat = "Env" THEN EnvFixes(Head(items).keys)
                                                 ELSE DockerFixes(Head(items).name))
  /\ items' = Tail(items)
  /\ UNCHANGED <<disk, project, pc, flags, todo, errors, exit, runs, edits>>

PlanDone ==
  /\ pc = "plan"
  /\ items = <<>>
  /\ pc' = "apply"
  /\ UNCHANGED <<disk, project, flags, items, plan, todo, errors, exit, runs, edits>>
-----------------------------------------------------------------------------
(* ApplySafe.                                                              *)

Doing(id) == pc = "apply" /\ plan # <<>> /\ Head(plan).id = id

(* --dry-run reports every action as applied; a pull without --yes is      *)
(* skipped.                                                                *)
SkipAction ==
  /\ pc = "apply" /\ plan # <<>>
  /\ flags.dry \/ (Head(plan).id = "pull" /\ ~flags.yes)
  /\ plan' = Tail(plan)
  /\ UNCHANGED <<disk, project, pc, flags, items, todo, errors, exit, runs, edits>>

(* The action fails before it has changed anything: .env.example is        *)
(* unreadable, the path is "", the file cannot be opened, the pull fails.  *)
ActionFails ==
  /\ pc = "apply" /\ plan # <<>> /\ ~flags.dry
  /\ \/ Failures
     \/ ~named /\ Head(plan).id \in {"create", "append"}
     \/ Head(plan) = PullAction(Container)
  /\ Head(plan).id = "pull" => flags.yes
  /\ plan' = Tail(plan)
  /\ errors' = TRUE
  /\ UNCHANGED <<disk, project, pc, flags, items, todo, exit, runs, edits>>

(* os.WriteFile truncates the file first ...                               *)
CreateTruncates ==
  /\ Doing("create") /\ ~flags.dry /\ named
  /\ env' = Empty
  /\ pc' = "creating"
  /\ UNCHANGED <<local, project, flags, items, plan, todo, errors, exit, runs, edits>>

(* Mutant: safeDefault copies every default.                               *)
EnvFromExampleVerbatim(f) == [f EXCEPT !.nl = TRUE]

(* envFromExample: sensitive keys lose their default, and every line that  *)
(* is written is ended.                                                    *)
EnvFromExample(f) ==
  [f EXCEPT !.nl = TRUE,
            !.vals = [k \in Keys |-> IF k \in Sensitive /\ f.vals[k] # "absent"
                                     THEN "blank" ELSE f.vals[k]]]

(* ... and then writes.                                                    *)
CreateWrites ==
  /\ pc = "creating"
  /\ env' = EnvFromExample(example)
  /\ pc' = "apply"
  /\ plan' = Tail(plan)
  /\ UNCHANGED <<local, project, flags, items, todo, errors, exit, runs, edits>>

(* A first part of a file: some of its lines and perhaps part of one more, *)
(* which may break off before its "=" and assign nothing.                  *)
FirstParts(f) ==
  UNION {{[exists |-> TRUE,
           vals |-> [k \in Keys |-> IF k \in given THEN f.vals[k] ELSE "absent"],
           last |-> l, nl |-> ended] : l \in given \union {None}, ended \in BOOLEAN} :
         given \in SUBSET {k \in Keys : f.vals[k] # "absent"}}

(* A failed write may have written a first part.                           *)
CreateWriteFails ==
  /\ pc = "creating"
  /\ Failures
  /\ UNCHANGED env \/ env' \in FirstParts(EnvFromExample(example))
  /\ pc' = "apply"
  /\ plan' = Tail(plan)
  /\ errors' = TRUE
  /\ UNCHANGED <<local, project, flags, items, todo, exit, runs, edits>>

(* O_APPEND|O_CREATE.                                                      *)
AppendOpens ==
  /\ Doing("append") /\ ~flags.dry /\ named
  /\ env' = [env EXCEPT !.exists = TRUE]
  /\ todo' = Head(plan).keys
  /\ pc' = "appending"
  /\ UNCHANGED <<local, project, flags, items, plan, errors, exit, runs, edits>>

(* "k=\n" at the end of the file: a line of its own, unless the last line  *)
(* is not ended, when it becomes part of that line.                        *)
WithLine(f, k) ==
  IF f.nl THEN [f EXCEPT !.vals[k] = "blank", !.last = k]
  ELSE IF f.last = None THEN [f EXCEPT !.nl = TRUE]
  ELSE [f EXCEPT !.vals[f.last] = "spoiled", !.nl = TRUE]

(* The keys in the order of the configuration, which may be any order.     *)
AppendKey ==
  /\ pc = "appending"
  /\ \E k \in todo : env' = WithLine(env, k) /\ todo' = todo \ {k}
  /\ glued' = (glued \/ ~env.nl)
  /\ UNCHANGED <<local, example, named, settled, pc, flags, items, plan, errors, exit, runs, edits>>

(* What a failed write of that line leaves: nothing of it, or part of it,  *)
(* with its "=" or without.                                                *)
PartLines(f, k) ==
  {f, [WithLine(f, k) EXCEPT !.nl = FALSE]}
    \union (IF f.nl THEN {[f EXCEPT !.last = None, !.nl = FALSE]} ELSE {})

(* Mutant: the error of a failed write is dropped.                         *)
AppendKeySwallows ==
  /\ pc = "appending"
  /\ Failures
  /\ \E k \in todo : env' \in PartLines(env, k) /\ todo' = todo \ {k}
  /\ UNCHANGED <<local, project, pc, flags, items, plan, errors, exit, runs, edits>>

(* The error is recorded and the loop goes on.                             *)
AppendKeyFails ==
  /\ pc = "appending"
  /\ Failures
  /\ \E k \in todo : env' \in PartLines(env, k) /\ todo' = todo \ {k}
  /\ errors' = TRUE
  /\ UNCHANGED <<local, project, pc, flags, items, plan, exit, runs, edits>>

AppendDone ==
  /\ pc = "appending"
  /\ todo = {}
  /\ pc' = "apply"
  /\ plan' = Tail(plan)
  /\ UNCHANGED <<disk, project, flags, items, todo, errors, exit, runs, edits>>

Pull ==
  /\ Doing("pull") /\ ~flags.dry /\ flags.yes
  /\ local' = local \union {Head(plan).name}
  /\ plan' = Tail(plan)
  /\ UNCHANGED <<env, project, pc, flags, items, todo, errors, exit, runs, edits>>

(* Exit code 2 if anything failed.  .snagify.yaml exists, so the init      *)
(* fallback at the end of ApplySafe never runs.                            *)
Finish ==
  /\ pc = "apply"
  /\ plan = <<>>
  /\ Stop(IF errors THEN 2 ELSE 0)
  /\ settled' = (settled \/ ~(errors \/ flags.dry \/ glued))
  /\ UNCHANGED <<disk, example, named, glued, flags, items, plan, todo, errors, runs, edits>>

(* Ctrl-C: no signal is handled.                                           *)
Kill ==
  /\ pc # "idle"
  /\ Stop(-1)
  /\ UNCHANGED <<disk, project, flags, items, plan, todo, errors, runs, edits>>
-----------------------------------------------------------------------------
(* A person sets a key of .env, creating the file if need be; their editor *)
(* may or may not end the last line.                                       *)
Edit(k, ended) ==
  /\ edits < MaxEdits
  /\ pc = "idle" \/ EditsDuring
  /\ edits' = edits + 1
  /\ env' = [exists |-> TRUE, vals |-> [env.vals EXCEPT ![k] = "user"],
             last |-> k, nl |-> ended]
  /\ UNCHANGED <<local, project, pc, flags, items, plan, todo, errors, exit, runs>>

Planning  == CheckFails \/ Check \/ PlanItem \/ PlanDone
Creating  == CreateTruncates \/ CreateWrites \/ CreateWriteFails
Appending == AppendOpens \/ AppendKey \/ AppendKeyFails \/ AppendDone
Applying  == SkipAction \/ ActionFails \/ Creating \/ Appending \/ Pull \/ Finish

Command == (\E f \in Flags : Start(f)) \/ Planning \/ Applying \/ Kill

Next == Command \/ \E k \in Keys, ended \in Ended : Edit(k, ended)

Spec == Init /\ [][Next]_vars
-----------------------------------------------------------------------------
Items   == [cat : {"Env", "Docker"}, keys : SUBSET Keys, name : {Image, Container, None}]
Actions == [id : {"create", "append", "pull"}, keys : SUBSET Keys,
            name : {Image, Container, None}]

TypeOK ==
  /\ env \in File /\ example \in File /\ named \in BOOLEAN
  /\ local \subseteq {Image, Container}
  /\ pc \in {"idle", "check", "plan", "apply", "creating", "appending"}
  /\ flags \in Flags
  /\ items \in Seq(Items) /\ plan \in Seq(Actions)
  /\ todo \subseteq Keys
  /\ errors \in BOOLEAN
  /\ exit \in {None, -1, 0, 2}
  /\ runs \in 0..MaxRuns /\ edits \in 0..MaxEdits
  /\ settled \in BOOLEAN /\ glued \in BOOLEAN
  /\ pc = "creating" => plan # <<>>
  /\ pc = "appending" => plan # <<>>

(* A run that exits 0 has left every declared key in .env, after any       *)
(* number of earlier runs that failed or were killed half way, unless it   *)
(* has appended to a line that an editor or a failed write had left        *)
(* unended.                                                                *)
SuccessMeansPresent ==
  exit = 0 /\ ~flags.dry /\ ~glued => MissingIn(env, Required \union Recommended) = {}

(* Fixing is idempotent: once a run has exited 0 (and glued nothing), no   *)
(* later run touches .env again, not even to truncate and rewrite it,      *)
(* whatever people put into it since (checkEnv, addEnvFixes, ApplySafe).   *)
FixedStaysFixed ==
  [][settled /\ edits' = edits => UNCHANGED env]_vars

(* The command never takes a value from a person who typed it into .env:   *)
(* it does not overwrite, blank or spoil it, whichever of its writes       *)
(* breaks off.                                                             *)
UserValuesKept ==
  [][edits' = edits => \A k \in Keys : env.vals[k] = "user" => env'.vals[k] = "user"]_vars

(* --dry-run changes neither .env nor the images, not even the existence   *)
(* of the file; nothing is pulled without --yes; and no value that         *)
(* .env.example gives a sensitive key is ever put into .env, by any of the *)
(* writes, whichever failed before (ApplySafe, safeDefault).               *)
OnlyWhatWasAllowed ==
  [][edits' = edits =>
       /\ flags.dry => UNCHANGED disk
       /\ local' # local => flags.yes
       /\ \A k \in Sensitive : env'.vals[k] = "default" => env.vals[k] = "default"]_vars

(* The invariant behind UserValuesKept, for a .env that only the command   *)
(* touches while it runs: what is planned concerns no user's value.        *)
NoUser(keys) == \A k \in keys : env.vals[k] # "user"

PlannedAgainst(a) ==
  /\ a.id = "append" => NoUser(a.keys)
  /\ a.id = "create" => example.exists /\ (named => NoUser(Keys))

(* Nothing can be glued to a person's value.                               *)
NothingToSpoil(f) == f.nl \/ f.last = None \/ f.vals[f.last] # "user"

FixIInv ==
  /\ env \in File /\ example \in Examples
  /\ NothingToSpoil(env)
  /\ ~env.exists => env = NoFile
  /\ items \in Seq(Items) /\ plan \in Seq(Actions)
  /\ todo \subseteq Keys
  /\ pc # "idle" =>
       /\ \A i \in 1..Len(items) : NoUser(items[i].keys)
       /\ \A i \in 1..Len(plan) : PlannedAgainst(plan[i])
       /\ NoUser(todo)
  /\ pc = "creating" => plan # <<>> /\ example.exists /\ NoUser(Keys)
  /\ pc = "appending" => plan # <<>> /\ env.exists
=============================================================================
