------------------------------ MODULE CheckRun ------------------------------
(***************************************************************************)
(* One invocation of `snagify check`: capture, configuration, the built-in *)
(* sections, then the custom checks and the plugins one after the other,   *)
(* the rendering and the exit code (internal/cli/check.go,                 *)
(* internal/check, internal/customcheck, internal/plugin).                 *)
(*                                                                         *)
(* A custom check and a plugin are child processes under a deadline.  The  *)
(* actors are the goroutine that waits for the child, the goroutine that   *)
(* kills it at the deadline, the child, and the descendants of the child,  *)
(* which are not killed and may hold the output pipes for as long as they  *)
(* like.                                                                   *)
(***************************************************************************)
EXTENDS Integers, Sequences

CONSTANTS
  Configs,        (* the configurations that may be found, see ConfigSpace *)
  Answers         (* what a plugin may have written, see AnswerSpace *)

Sections   == {"runtimes", "env", "ports", "git", "path", "docker", "system",
               "probes", "envsafety"}
Severities == {"critical", "warning"}
Statuses   == {"ok", "warning", "critical", "other"}

CustomSpace == [named : BOOLEAN, run : BOOLEAN, severity : {"critical", "warning", "other"}]
PluginSpace == [named : BOOLEAN, program : {"command", "blank", "binary", "path", "none"}]
ConfigSpace == [sections : SUBSET Sections, custom : Seq(CustomSpace),
                plugins : Seq(PluginSpace)]
AnswerSpace == [kind : {"results", "badjson", "mismatch", "bailed"},
                results : SUBSET Statuses]

ASSUME CheckAssumption ==
  /\ Configs \subseteq ConfigSpace
  /\ Answers \subseteq AnswerSpace

VARIABLES
  main,     (* where the command is *)
  code,     (* its exit code, -1 before it exits *)
  flags,    (* --no-docker; whether --format names a renderer *)
  cfg,      (* the content of .snagify.yaml *)
  report,   (* the items of the report *)
  cur,      (* the custom check or plugin in progress *)
  child,    (* its process: none, running, a zombie, reaped *)
  late,     (* its deadline has passed *)
  orphan,   (* a descendant still holds its output pipe *)
  fate,     (* how each child ended *)
  struck,   (* the kill at the deadline reached the child *)
  said,     (* what each plugin wrote *)
  verdict   (* what the command made of each child *)

jobVars == <<cur, child, late, orphan, fate, struck, said, verdict>>
vars    == <<main, code, flags, cfg, report, jobVars>>

(* The custom checks come first, then the plugins, each in file order.     *)
Last        == Len(cfg.custom) + Len(cfg.plugins)
Jobs        == 1..Last
IsCustom(i) == i <= Len(cfg.custom)
Custom(i)   == cfg.custom[i]
Plugin(i)   == cfg.plugins[i - Len(cfg.custom)]

Item(section, job, severity) ==
  [section |-> section, job |-> job, severity |-> severity]
Failed == \E it \in report : it.severity = "critical"

NoAnswer == [kind |-> "badjson", results |-> {}]
Working  == main \notin {"exited", "killed"}
-----------------------------------------------------------------------------
(* The pure part.                                                          *)

(* What a section may add; which of it, depends on the machine.            *)
CanAdd(section) ==
  IF section = "system" THEN {"warning"}
  ELSE IF section \in {"ports", "path"} THEN {"critical"} ELSE Severities

(* A custom check without a name or a command is not run.                  *)
Malformed(i) == ~Custom(i).named \/ ~Custom(i).run

(* Whether a plugin's program can be found; a bare name depends on PATH,   *)
(* and a path is left for the start of the process to judge.               *)
Unresolved(i) ==
  \/ ~Plugin(i).named
  \/ Plugin(i).program \in {"blank", "none", "binary"}
Resolved(i) ==
  /\ Plugin(i).named
  /\ Plugin(i).program \notin {"blank", "none"}

(* Mutant: only an ExitError is looked at.                                 *)
OutcomeByStatus(i) ==
  IF fate[i] # "zero" THEN (IF late THEN "timedout" ELSE "exit") ELSE "ok"

(* cmd.Run's error and what is made of it: an exit status other than zero  *)
(* is an ExitError, which counts as a timeout once the context has         *)
(* expired; a child that ended well and was killed as a zombie yields the  *)
(* context's error.                                                        *)
RunOutcome(i) ==
  IF fate[i] # "zero" THEN (IF late THEN "timedout" ELSE "exit")
  ELSE IF struck[i] THEN "timedout" ELSE "ok"

(* A plugin that ended well must also have answered in the protocol.       *)
Judge(i) ==
  IF IsCustom(i) \/ RunOutcome(i) # "ok" THEN RunOutcome(i)
  ELSE IF said[i].kind = "results" THEN "results" ELSE "badanswer"

(* Mutant: only a declared warning is a warning.                           *)
CustomSeverityStrict(i, v) ==
  IF v = "rejected" \/ Custom(i).severity # "warning" THEN "critical" ELSE "warning"

(* A missing or unknown severity is a warning, and a malformed check is    *)
(* critical whatever it declares.                                          *)
CustomSeverity(i, v) ==
  IF v = "rejected" \/ Custom(i).severity = "critical" THEN "critical" ELSE "warning"

(* The items a plugin's results become; a broken plugin is one warning.    *)
PluginSeverities(i, v) ==
  IF v = "results"
  THEN {IF s = "critical" THEN "critical" ELSE "warning" : s \in said[i].results \ {"ok"}}
  ELSE {"warning"}

ItemsFor(i, v) ==
  IF ~IsCustom(i) THEN {Item("plugins", i, s) : s \in PluginSeverities(i, v)}
  ELSE IF v = "ok" THEN {} ELSE {Item("custom", i, CustomSeverity(i, v))}
-----------------------------------------------------------------------------
(* The command.                                                            *)

ExitWith(c) ==
  /\ main' = "exited"
  /\ code' = c

Capture ==
  /\ main = "capture"
  /\ \/ main' = "config" /\ UNCHANGED code
     \/ ExitWith(2)
  /\ UNCHANGED <<flags, cfg, report, jobVars>>

(* No configuration, or one that does not parse, ends the command with 2.  *)
(* --no-docker blanks the docker section.                                  *)
LoadConfig ==
  /\ main = "config"
  /\ \/ /\ main' = "sections"
        /\ cfg' = [cfg EXCEPT !.sections = IF flags.noDocker THEN @ \ {"docker"} ELSE @]
        /\ UNCHANGED code
     \/ ExitWith(2) /\ UNCHANGED cfg
  /\ UNCHANGED <<flags, report, jobVars>>

(* The probes and the built-in sections, none of which starts a process    *)
(* of the user.                                                            *)
BuiltIn ==
  /\ main = "sections"
  /\ \E found \in SUBSET UNION {{Item(s, 0, v) : v \in CanAdd(s)} : s \in cfg.sections} :
       report' = found
  /\ main' = "jobs"
  /\ UNCHANGED <<code, flags, cfg, jobVars>>

Render ==
  /\ main = "jobs"
  /\ cur = Last + 1
  /\ ExitWith(IF ~flags.format THEN 2 ELSE IF Failed THEN 1 ELSE 0)
  /\ UNCHANGED <<flags, cfg, report, jobVars>>

(* Nothing handles a signal: the command dies where it is, the child lives.*)
Killed ==
  /\ Working
  /\ main' = "killed"
  /\ UNCHANGED <<code, flags, cfg, report, jobVars>>
-----------------------------------------------------------------------------
(* One custom check or plugin.                                             *)

Idle == main = "jobs" /\ cur \in Jobs /\ child = "none"

(* Mutant: a job that was timed out is tried again.                        *)
ConcludeOrRetry(v) ==
  /\ verdict' = [verdict EXCEPT ![cur] = v]
  /\ report' = report \union ItemsFor(cur, v)
  /\ cur' = IF v = "timedout" THEN cur ELSE cur + 1
  /\ child' = "none"
  /\ late' = FALSE

(* The verdict v on the current job enters the report, and the next job    *)
(* is due.                                                                 *)
Conclude(v) ==
  /\ verdict' = [verdict EXCEPT ![cur] = v]
  /\ report' = report \union ItemsFor(cur, v)
  /\ cur' = cur + 1
  /\ child' = "none"
  /\ late' = FALSE

Reject ==
  /\ Idle
  /\ IF IsCustom(cur) THEN Malformed(cur) ELSE Unresolved(cur)
  /\ Conclude("rejected")
  /\ UNCHANGED <<main, code, flags, cfg, orphan, fate, struck, said>>

Runnable == IF IsCustom(cur) THEN ~Malformed(cur) ELSE Resolved(cur)

(* No such program, no such directory, no more processes.                  *)
StartFails ==
  /\ Idle
  /\ Runnable
  /\ Conclude("nostart")
  /\ UNCHANGED <<main, code, flags, cfg, orphan, fate, struck, said>>

Start ==
  /\ Idle
  /\ Runnable
  /\ child' = "running"
  /\ late' = FALSE
  /\ UNCHANGED <<main, code, flags, cfg, report, cur, orphan, fate, struck, said, verdict>>

(* The context's timer fires while Run has not returned.                   *)
DeadlinePasses ==
  /\ Working
  /\ child # "none"
  /\ ~late
  /\ late' = TRUE
  /\ UNCHANGED <<main, code, flags, cfg, report, cur, child, orphan, fate, struck, said, verdict>>

(* What the child has written when it ends; of a custom check it is shown  *)
(* at most, never interpreted.                                             *)
Writes ==
  IF IsCustom(cur) THEN UNCHANGED said
  ELSE \E a \in Answers : said' = [said EXCEPT ![cur] = a]

(* Mutant: nobody kills a child that is still running.                     *)
StrikeZombies ==
  /\ Working
  /\ late
  /\ child = "zombie"
  /\ ~struck[cur]
  /\ struck' = [struck EXCEPT ![cur] = TRUE]
  /\ UNCHANGED <<main, code, flags, cfg, report, cur, child, late, orphan, fate, said, verdict>>

(* The goroutine of the context kills the child.  A zombie can be killed   *)
(* too, a reaped child cannot.  Descendants are not killed, and what the   *)
(* child wrote so far stays in the pipe.                                   *)
Strike ==
  /\ Working
  /\ late
  /\ child \in {"running", "zombie"}
  /\ ~struck[cur]
  /\ struck' = [struck EXCEPT ![cur] = TRUE]
  /\ IF child = "zombie" THEN UNCHANGED <<child, orphan, fate, said>>
     ELSE /\ child' = "zombie"
          /\ fate' = [fate EXCEPT ![cur] = "killed"]
          /\ orphan' \in BOOLEAN
          /\ Writes
  /\ UNCHANGED <<main, code, flags, cfg, report, cur, late, verdict>>

(* The child ends by itself, perhaps leaving a descendant with the pipe.   *)
ChildEnds ==
  /\ child = "running"
  /\ child' = "zombie"
  /\ \E f \in {"zero", "nonzero"} : fate' = [fate EXCEPT ![cur] = f]
  /\ orphan' \in BOOLEAN
  /\ Writes
  /\ UNCHANGED <<main, code, flags, cfg, report, cur, late, struck, verdict>>

OrphanLetsGo ==
  /\ orphan
  /\ orphan' = FALSE
  /\ UNCHANGED <<main, code, flags, cfg, report, cur, child, late, fate, struck, said, verdict>>

(* Wait reaps the child, after which the kill finds no process.            *)
Reap ==
  /\ Working
  /\ child = "zombie"
  /\ child' = "reaped"
  /\ UNCHANGED <<main, code, flags, cfg, report, cur, late, orphan, fate, struck, said, verdict>>

(* Run returns when the output pipe has been read to its end.  There is no *)
(* WaitDelay, so only the descendants decide when that is.                 *)
Return ==
  /\ main = "jobs"
  /\ child = "reaped"
  /\ ~orphan
  /\ Conclude(Judge(cur))
  /\ UNCHANGED <<main, code, flags, cfg, orphan, fate, struck, said>>
-----------------------------------------------------------------------------
Init ==
  /\ main = "capture"
  /\ code = -1
  /\ flags \in [noDocker : BOOLEAN, format : BOOLEAN]
  /\ cfg \in Configs
  /\ report = {}
  /\ cur = 1
  /\ child = "none"
  /\ late = FALSE
  /\ orphan = FALSE
  /\ fate = [i \in Jobs |-> "none"]
  /\ struck = [i \in Jobs |-> FALSE]
  /\ said = [i \in Jobs |-> NoAnswer]
  /\ verdict = [i \in Jobs |-> "none"]

Command == Capture \/ LoadConfig \/ BuiltIn \/ Reject \/ StartFails \/ Start
           \/ Reap \/ Return \/ Render
Timer   == DeadlinePasses \/ Strike
Outside == ChildEnds \/ OrphanLetsGo \/ Killed

Next == Command \/ Timer \/ Outside
Spec == Init /\ [][Next]_vars

(* The command's own goroutines run and timers fire; children owe nothing. *)
FairSpec == Spec /\ WF_vars(Command) /\ WF_vars(DeadlinePasses) /\ WF_vars(Strike)
-----------------------------------------------------------------------------
Fates    == {"none", "zero", "nonzero", "killed"}
Verdicts == {"none", "rejected", "nostart", "exit", "timedout", "badanswer", "results", "ok"}

TypeOK ==
  /\ main \in {"capture", "config", "sections", "jobs", "exited", "killed"}
  /\ code \in {-1, 0, 1, 2}
  /\ flags \in [noDocker : BOOLEAN, format : BOOLEAN]
  /\ cfg \in ConfigSpace
  /\ report \subseteq [section : Sections \union {"custom", "plugins"}, job : Nat,
                       severity : Severities]
  /\ cur \in 1..(Last + 1)
  /\ child \in {"none", "running", "zombie", "reaped"}
  /\ late \in BOOLEAN
  /\ orphan \in BOOLEAN
  /\ fate \in [Jobs -> Fates]
  /\ struck \in [Jobs -> BOOLEAN]
  /\ said \in [Jobs -> AnswerSpace]
  /\ verdict \in [Jobs -> Verdicts]

(* A child passed if it ended by itself with status zero before the kill.  *)
Passed(i) == fate[i] = "zero" /\ ~struck[i]

(* A plugin must besides have answered in the protocol.                    *)
Succeeded(i) == Passed(i) /\ (IsCustom(i) \/ said[i].kind = "results")

(* What the configuration's author is told blocks: a malformed check, a    *)
(* critical check whose child did not pass, a critical result of a plugin  *)
(* that passed.                                                            *)
Blocks(i) ==
  IF IsCustom(i) THEN Malformed(i) \/ (Custom(i).severity = "critical" /\ ~Passed(i))
  ELSE Passed(i) /\ said[i].kind = "results" /\ "critical" \in said[i].results

BuiltInBlocks == \E it \in report : it.section \in Sections /\ it.severity = "critical"

(* The exit code tells how the children really ended: 1 if something       *)
(* blocks, 0 if nothing does, whatever the order of exit, deadline, kill   *)
(* and closing pipes was (check.go Run, customcheck.Run, plugin.Run).      *)
ExitCodeIsExact ==
  main = "exited" /\ code # 2 =>
    (code = 1 <=> BuiltInBlocks \/ \E i \in Jobs : Blocks(i))

(* A plugin that cannot be started, fails, is killed or does not speak the *)
(* protocol never adds a critical item ("never a Critical", check.go:329). *)
BrokenPluginNeverBlocks ==
  \A it \in report : it.section = "plugins" /\ it.severity = "critical" =>
    /\ Succeeded(it.job)
    /\ "critical" \in said[it.job].results

(* Every check that did not pass, and every plugin that did not answer in  *)
(* the protocol, is in the report by the time the command moves on, once   *)
(* and under its own name (checkCustom, checkPlugins).                     *)
NoFailureIsSilent ==
  \A i \in Jobs : i < cur /\ ~Succeeded(i) =>
    \E it \in report : it.job = i /\ \A other \in report : other.job = i => other = it

(* What is left of the command and of its children: a number that each of  *)
(* their steps must lower.  A job has at most nine: it is started, its     *)
(* child ends, is killed and reaped, its deadline passes, its pipe is      *)
(* closed, and it is concluded.                                            *)
StageRank == CASE main = "capture"  -> 4
               [] main = "config"   -> 3
               [] main = "sections" -> 2
               [] main = "jobs"     -> 1
               [] OTHER             -> 0

ChildRank == CASE child = "none"    -> 6
               [] child = "running" -> 4
               [] child = "zombie"  -> 2
               [] OTHER             -> 1

One(b) == IF b THEN 1 ELSE 0

StepsLeft ==
  StageRank + 9 * (Last + 1 - cur) + ChildRank
    + One(~late) + One(orphan) + One(cur \in Jobs /\ ~struck[cur])

(* Nothing is done twice or undone, in whatever order exit, deadline,      *)
(* kill, reaping and closing pipes come: every check or plugin is started, *)
(* killed and judged at most once, and a check of n of them is over after  *)
(* at most 9 * n + 12 steps of all actors together (checkCustom,           *)
(* checkPlugins, the context's goroutine, Wait).                           *)
NothingIsDoneTwice == [][StepsLeft' < StepsLeft]_vars

(* The check ends if every descendant lets go of the pipe: no child can    *)
(* hold it up past its deadline (the timeouts of customcheck and plugin).  *)
PipesClose == orphan ~> ~orphan
CheckEnds  == PipesClose => <>~Working

(* It is meant to end in any case: "so a typo'd plugin can't wedge the     *)
(* host" (plugin/loader.go:21).                                            *)
NothingWedgesTheHost == <>~Working
=============================================================================
