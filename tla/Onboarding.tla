----------------------------- MODULE Onboarding -----------------------------
(***************************************************************************)
(* `snagify init` writes a configuration from what it finds, `snagify      *)
(* check` judges the machine by it, and in between, and while they run,    *)
(* the machine, the project and the configuration are changed by others.   *)
(*                                                                         *)
(* A command first captures the machine (internal/capture) and then reads  *)
(* some of it again: init the example file and the Docker markers, check   *)
(* .env, the ports and the compose files.                                  *)
(***************************************************************************)
EXTENDS CheckRules, EnvExample

CONSTANTS
  Machines,     (* what a machine and the project on it may be, see MachineSpace *)
  Handwritten,  (* the configurations people write *)
  Slow,         (* commands that may take longer than cmdTimeout: those that tell the
                   version of a runtime, and RepositoryCommands *)
  NoConfig, Unreadable,
  MaxEdits,     (* bound of what others do *)
  Base          (* more than any number in a version, to say what versions mean *)

(* The tables of capture and init.                                         *)
Tracked == {"node", "npm", "pnpm", "yarn", "python", "python3", "pip", "uv", "java", "mvn",
            "gradle", "go", "rustc", "cargo", "docker", "git"}
Markers == {"docker-compose.yml", "docker-compose.yaml", "compose.yml", "compose.yaml",
            "Dockerfile"}
Implies == [m \in {"package.json", "go.mod", "pom.xml", "build.gradle", "build.gradle.kts",
                   "requirements.txt", "pyproject.toml", "Cargo.toml"} |->
  CASE m = "package.json" -> {"node", "npm"}
    [] m = "go.mod"       -> {"go"}
    [] m = "pom.xml"      -> {"java", "maven"}
    [] m \in {"build.gradle", "build.gradle.kts"}    -> {"java", "gradle"}
    [] m \in {"requirements.txt", "pyproject.toml"}  -> {"python"}
    [] m = "Cargo.toml"   -> {"rust", "cargo"}]

Binaries == [n \in RuntimeNames |->
  CASE n = "python" -> {"python3", "python"} [] n = "pip" -> {"pip3"} [] n = "maven" -> {"mvn"}
    [] n = "rust" -> {"rustc"} [] OTHER -> {n}]

RepositoryCommands == {"git rev-parse", "git branch", "git status", "git ls-files",
                       "docker images", "docker ps"}

Git    == [present : BOOLEAN, branch : STRING, dirty : BOOLEAN, untracked : BOOLEAN]
Docker == [images : SUBSET [repository : Seq(STRING), tag : STRING], containers : SUBSET SUBSET STRING]

(* version is what a tool on the path says of itself, env the keys of      *)
(* .env, example the lines of .env.example; leaks: a value of .env looks   *)
(* like a secret.                                                          *)
MachineSpace ==
  [version : [RuntimeNames -> [version : Version, clean : BOOLEAN]], path : SUBSET STRING, listening : SUBSET STRING,
   git : Git, docker : Docker, arch : STRING, timezone : STRING, locale : STRING, fs : STRING,
   manifests : SUBSET STRING, files : SUBSET STRING, example : Seq(Line),
   envExists : BOOLEAN, env : SUBSET Keys, envTracked : BOOLEAN, ignored : BOOLEAN,
   weakMode : BOOLEAN, leaks : BOOLEAN]

EmptyConfig ==
  [runtimes |-> <<>>, ignored |-> {}, required |-> {}, recommended |-> {},
   listening |-> {}, free |-> {}, branch |-> "", requireClean |-> FALSE, warnDirty |-> FALSE,
   commands |-> {}, docker |-> [required |-> FALSE, files |-> {}, images |-> {}, containers |-> {}],
   arch |-> {}, timezone |-> "", locale |-> "", fs |-> "unset"]

(* What YAML can say; a requirement in it may be one that cannot be parsed. *)
Named(c) ==
  DOMAIN c.runtimes \union c.listening \union c.free \union c.commands \union c.docker.files
    \union c.docker.containers \union {image[1] : image \in c.docker.images}

WellTyped(c) ==
  /\ DOMAIN c = DOMAIN EmptyConfig
  /\ Named(c) \subseteq STRING \union RuntimeNames
  /\ \A n \in DOMAIN c.runtimes : c.runtimes[n] \in Requirement
  /\ {c.requireClean, c.warnDirty, c.docker.required} \subseteq BOOLEAN

ConfigOK(c) ==
  WellTyped(c) /\ \A n \in DOMAIN c.runtimes :
    \A i \in 1..Len(c.runtimes[n]) : c.runtimes[n][i].want # <<>>

ASSUME OnboardingAssumption ==
  /\ \A m \in Machines : /\ m \in MachineSpace
                         /\ \A n \in RuntimeNames : m.version[n].clean => m.version[n].version # <<>>
                         /\ m.env # {} => m.envExists
                         /\ m.envTracked => m.git.present
  /\ \A c \in Handwritten : WellTyped(c)
  /\ NoConfig \notin Handwritten /\ Unreadable \notin Handwritten \union {NoConfig}
  /\ Slow \subseteq RuntimeNames \union RepositoryCommands /\ MaxEdits \in Nat

ASSUME BaseAssumption ==
  /\ Base \in Nat \ {0}
  /\ \A m \in Machines : \A n \in RuntimeNames : Below(m.version[n].version, Base)
  /\ \A c \in Handwritten : \A n \in DOMAIN c.runtimes :
       \A i \in 1..Len(c.runtimes[n]) : Below(c.runtimes[n][i].want, Base)

VARIABLES
  machine,
  config,   (* .snagify.yaml *)
  main,     (* the command that is running *)
  flags,    (* --force, --no-docker, --scan-secrets *)
  snap,     (* what it captured *)
  seen,     (* the machine it captured that of, and the tools that were slow *)
  report, code,
  origin,   (* the machine the configuration was generated on, if it stood still, or none *)
  edits

vars == <<machine, config, main, flags, snap, seen, report, code, origin, edits>>

FlagSpace == [force : BOOLEAN, noDocker : BOOLEAN, scanSecrets : BOOLEAN]
NoFlags   == [force |-> FALSE, noDocker |-> FALSE, scanSecrets |-> FALSE]
FlagsOf(command) ==
  {f \in FlagSpace : (command = "init" => ~f.noDocker) /\ (command = "check" => ~f.force)}

NothingSeen(m) == [machine |-> m, slow |-> {}]

Init ==
  /\ machine \in Machines
  /\ config \in Handwritten \union {NoConfig}
  /\ main = "idle"
  /\ flags = NoFlags /\ snap = <<>> /\ seen = NothingSeen(machine)
  /\ report = {} /\ code = -1
  /\ origin = {} /\ edits = 0
-----------------------------------------------------------------------------
(* capture.Capture.                                                        *)

OnPath(m, n) == Binaries[n] \cap m.path # {}

(* A tool that does not answer in time is there, without a version.        *)
Probed(m, slow) ==
  [n \in RuntimeNames |->
     IF OnPath(m, n) /\ n \notin slow
     THEN [present |-> TRUE, version |-> m.version[n].version, clean |-> m.version[n].clean]
     ELSE [present |-> OnPath(m, n), version |-> <<>>, clean |-> FALSE]]

(* Outside of a repository git says nothing more; what it does not say in  *)
(* time is taken for nothing.                                              *)
CapturedGit(m, slow) ==
  LET present == m.git.present /\ "git" \in m.path /\ "git rev-parse" \notin slow
      told    == present /\ "git status" \notin slow
  IN  [present   |-> present,
       branch    |-> IF present /\ "git branch" \notin slow THEN m.git.branch ELSE "",
       dirty     |-> told /\ m.git.dirty,
       untracked |-> told /\ m.git.untracked]

Listed(m, slow, command, things) ==
  IF OnPath(m, "docker") /\ command \notin slow THEN things ELSE {}

CapturedDocker(m, slow) ==
  [present    |-> OnPath(m, "docker"),
   images     |-> Listed(m, slow, "docker images", m.docker.images),
   containers |-> Listed(m, slow, "docker ps", m.docker.containers)]

EnvTracked(m, slow) == m.envTracked /\ "git" \in m.path /\ "git ls-files" \notin slow

EnvRisks(m, scanSecrets) ==
  IF ~m.envExists THEN {}
  ELSE When(~m.ignored, "gitignore") \union When(m.weakMode, "mode")
         \union When(scanSecrets /\ m.leaks, "weak secrets")

Capture(m, slow, scanSecrets) ==
  [tools |-> Probed(m, slow), commands |-> m.path \cap Tracked,
   git |-> CapturedGit(m, slow), docker |-> CapturedDocker(m, slow), manifests |-> m.manifests,
   arch |-> m.arch, timezone |-> m.timezone, locale |-> m.locale, fs |-> m.fs,
   envTracked |-> EnvTracked(m, slow), envRisks |-> EnvRisks(m, scanSecrets)]
-----------------------------------------------------------------------------
(* initcfg.Generate.                                                       *)

(* Mutant: the requirement is later than the major version.                *)
RequirementForNewer(tool) ==
  IF tool.present /\ tool.clean
  THEN << [op |-> ">", want |-> SubSeq(tool.version, 1, 1)] >> ELSE <<>>

(* At least the major version there is, else just its presence.            *)
RequirementFor(tool) ==
  IF tool.present /\ tool.clean
  THEN << [op |-> ">=", want |-> SubSeq(tool.version, 1, 1)] >> ELSE <<>>

DetectRuntimes(s, now) ==
  LET implied == UNION {Implies[m] : m \in s.manifests \cap DOMAIN Implies}
      docker  == IF now.files \cap Markers = {} THEN {} ELSE {"docker"}
  IN  [n \in implied \union docker |->
         IF n = "docker" THEN <<>> ELSE RequirementFor(s.tools[n])]

Generate(s, now) ==
  [EmptyConfig EXCEPT !.runtimes    = DetectRuntimes(s, now),
                      !.required    = KeysOfClass(now.example, "required"),
                      !.recommended = KeysOfClass(now.example, "recommended")]
-----------------------------------------------------------------------------
(* The commands.                                                           *)

Begin(command) ==
  /\ main = "idle"
  /\ main' = command
  /\ flags' \in FlagsOf(command)
  /\ \E slow \in SUBSET Slow :
       /\ snap' = Capture(machine, slow, flags'.scanSecrets)
       /\ seen' = [machine |-> machine, slow |-> slow]
  /\ code' = -1 /\ report' = {}
  /\ UNCHANGED <<machine, config, origin, edits>>

Exit(c) ==
  /\ main' = "idle" /\ code' = c
  /\ flags' = NoFlags /\ snap' = <<>> /\ seen' = NothingSeen(machine)

(* os.WriteFile truncates the file and writes: one that cannot be opened   *)
(* stays as it was, and a write that fails leaves it empty or cut.         *)
WriteConfig ==
  /\ main = "init"
  /\ IF config # NoConfig /\ ~flags.force THEN Exit(2) /\ UNCHANGED <<config, origin>>
     ELSE \/ /\ config' = Generate(snap, machine)
             /\ origin' = {machine} \cap {seen.machine}
             /\ Exit(0)
          \/ UNCHANGED <<config, origin>> /\ Exit(2)
          \/ config' \in {EmptyConfig, Unreadable} /\ origin' = {} /\ Exit(2)
  /\ UNCHANGED <<machine, report, edits>>

(* No configuration, or one that cannot be read, is exit code 2.           *)
CheckConfig ==
  /\ main = "check"
  /\ IF config \in {NoConfig, Unreadable} THEN Exit(2) /\ UNCHANGED report
     ELSE LET c == IF flags.noDocker THEN [config EXCEPT !.docker = EmptyConfig.docker] ELSE config
          IN  /\ report' = CheckReport(c, snap, machine)
              /\ Exit(IF Failed(report') THEN 1 ELSE 0)
  /\ UNCHANGED <<machine, config, origin, edits>>

MachineChanges ==
  /\ edits < MaxEdits
  /\ edits' = edits + 1
  /\ machine' \in Machines
  /\ UNCHANGED <<config, main, flags, snap, seen, report, code, origin>>

ConfigIsEdited ==
  /\ edits < MaxEdits
  /\ edits' = edits + 1
  /\ config' \in Handwritten \union {Unreadable} /\ origin' = {}
  /\ UNCHANGED <<machine, main, flags, snap, seen, report, code>>

Next == Begin("init") \/ Begin("check") \/ WriteConfig \/ CheckConfig
          \/ MachineChanges \/ ConfigIsEdited

Spec == Init /\ [][Next]_vars
-----------------------------------------------------------------------------
(* Properties.                                                             *)

(* Every variable has its type; a configuration that init wrote has        *)
(* requirements that can be parsed.                                        *)
TypeOK ==
  /\ machine \in Machines
  /\ main \in {"idle", "init", "check"} /\ flags \in FlagSpace
  /\ report \subseteq Items /\ code \in -1..2
  /\ origin \subseteq Machines /\ edits \in 0..MaxEdits
  /\ config \notin Handwritten \union {NoConfig, Unreadable} => ConfigOK(config)

(* A key of .env.example is required if the last hint right above it says  *)
(* so, or else if it looks like a secret, has no value, and no feature     *)
(* switch turns it off (ClassifyEnvExample).                               *)
ClassesAreMeant ==
  LET lines == machine.example IN
  \A i \in {j \in 1..Len(lines) : IsKey(lines[j])} :
    Classify(lines, i) = "required" <=>
      \/ "required" \in HintedClass(lines, i)
      \/ /\ HintedClass(lines, i) = {}
         /\ lines[i].value = "" /\ lines[i].key \in Sensitive
         /\ \A j \in 1..Len(lines) :
              IsKey(lines[j]) /\ lines[j].value = "false" => lines[i].key \notin Disables[lines[j].key]

(* What the configuration says, of a machine, with the versions compared   *)
(* as numbers.                                                             *)
MeetsVersion(version, requirement) ==
  \/ version = <<>>
  \/ \A i \in 1..Len(requirement) :
       \/ \E j \in 1..i : requirement[j].want = <<>>
       \/ Satisfies(version, requirement[i], Base)

Ready(c, m) ==
  LET git == CapturedGit(m, {})
      docker == IF flags.noDocker THEN EmptyConfig.docker ELSE c.docker
  IN
  /\ \A n \in (DOMAIN c.runtimes \ c.ignored) \cap RuntimeNames :
       OnPath(m, n) /\ MeetsVersion(m.version[n].version, c.runtimes[n])
  /\ c.required \subseteq m.env /\ ~EnvTracked(m, {})
  /\ c.listening \subseteq m.listening /\ c.free \cap m.listening = {}
  /\ c.branch # "" => git.present /\ git.branch = c.branch
  /\ c.requireClean => git.present /\ ~git.dirty /\ ~git.untracked
  /\ c.commands \subseteq m.path
  /\ docker.required => OnPath(m, "docker")
  /\ docker.files \subseteq m.files
  /\ \A x \in docker.containers : OnPath(m, "docker") => HasContainer(m.docker.containers, x)

Judged == main = "check" /\ main' = "idle" /\ code' # 2

(* "Your setup is ready" exactly if it is, unless something changed while  *)
(* it was looked at or a command did not answer in time.  A setup that is  *)
(* not ready was not ready before the change or is not after it, and the   *)
(* version that a tool does not tell in time never makes it so             *)
(* (check.Run, verreq, capture).                                           *)
ReadyMeansReady ==
  [][ Judged =>
        /\ seen.machine = machine /\ seen.slow = {} => (code' = 0 <=> Ready(config, machine))
        /\ code' = 1 /\ seen.slow \subseteq RuntimeNames =>
             ~Ready(config, seen.machine) \/ ~Ready(config, machine) ]_vars

(* On the machine it was generated on, a configuration finds nothing but   *)
(* what is missing: tools the manifests imply, keys of .env, and the       *)
(* safety of .env.  It never rejects the versions it was made from         *)
(* (requirementFor, majorOf, verreq.Check).                                *)
AcceptsItsOrigin ==
  [][ Judged /\ origin = {machine} /\ seen.machine = machine =>
        \A item \in report' :
          \/ item.section \in {"Env", "EnvSafety"}
          \/ item.section = "Runtime" /\ ~OnPath(machine, item.name)
          \/ item.section = "Runtime" /\ item.name \in seen.slow /\ item.severity = "warning" ]_vars

(* Without --force, init never replaces a configuration, even one that was *)
(* written while it looked at the machine.                                 *)
KeepsTheConfiguration ==
  [][ main = "init" /\ main' = "idle" /\ ~flags.force /\ config # NoConfig => config' = config ]_vars

(* "checkPath validates required commands exist on PATH": a command that   *)
(* is reported missing is not there.                                       *)
MissingCommandsAreMissing ==
  [][ Judged /\ seen.machine = machine =>
        \A item \in report' : item.section = "Path" => item.name \notin machine.path ]_vars
=============================================================================
