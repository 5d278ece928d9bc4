----------------------------- MODULE CheckRules -----------------------------
(***************************************************************************)
(* What `snagify check` makes of the declarative sections of a             *)
(* configuration (internal/check: runtimes, env, env safety, ports, git,   *)
(* path, docker, system).  Each section is the set of the items it adds to *)
(* the report.                                                             *)
(*                                                                         *)
(* s is what was captured of the machine, now what is read while the       *)
(* report is made: .env, the ports, the compose files.                     *)
(***************************************************************************)
EXTENDS VersionReq

RuntimeNames == {"node", "npm", "pnpm", "yarn", "python", "pip", "uv", "java", "maven",
                 "gradle", "go", "rust", "cargo", "docker"}

(* What is known of a tool; clean says that its version begins with a      *)
(* number and a dot.                                                       *)
Tool == [present : BOOLEAN, version : Version, clean : BOOLEAN]

(* <<>> stands for "required" and its synonyms.                            *)
Requirement == Seq(Comparator)

(* The names of items that are not from a configuration.                   *)
Words == {"required", "recommended", "tracked", "gitignore", "mode", "weak secrets", "repository",
          "branch", "working tree", "runtime", "arch", "timezone", "locale", "case_sensitive_fs"}

Items == [section : {"Runtime", "Env", "EnvSafety", "Port", "Git", "Path", "Docker", "System"},
          name : STRING \union RuntimeNames \union Words, severity : {"critical", "warning"}]

Item(section, name, severity) == [section |-> section, name |-> name, severity |-> severity]

Level(critical) == IF critical THEN "critical" ELSE "warning"

When(condition, item) == IF condition THEN {item} ELSE {}
-----------------------------------------------------------------------------
(* An unknown runtime and a version that cannot be compared are warnings.  *)
RuntimeItems(c, s) ==
  LET wanted == DOMAIN c.runtimes \ c.ignored
      known  == wanted \cap RuntimeNames
      absent == {n \in known : ~s.tools[n].present}
      Result(n) == IF c.runtimes[n] = <<>> THEN "ok"
                   ELSE CheckVersion(s.tools[n].version, c.runtimes[n])
  IN  {Item("Runtime", n, "warning") : n \in wanted \ RuntimeNames}
        \union {Item("Runtime", n, "critical") : n \in absent}
        \union {Item("Runtime", n, Level(Result(n) = "no")) :
                  n \in {m \in known \ absent : Result(m) # "ok"}}

(* One item for the required keys and one for the recommended ones.        *)
EnvItems(c, now) ==
  When(c.required \ now.env # {}, Item("Env", "required", "critical"))
    \union When(c.recommended \ now.env # {}, Item("Env", "recommended", "warning"))

EnvSafetyItems(s) ==
  When(s.envTracked, Item("EnvSafety", "tracked", "critical"))
    \union {Item("EnvSafety", risk, "warning") : risk \in s.envRisks}

PortItems(c, now) ==
  {Item("Port", p, "critical") :
     p \in (c.listening \ now.listening) \union (c.free \cap now.listening)}

GitItems(c, s) ==
  LET unclean == s.git.dirty \/ s.git.untracked IN
  IF ~s.git.present
  THEN When(c.branch # "" \/ c.requireClean, Item("Git", "repository", "critical"))
  ELSE When(c.branch # "" /\ s.git.branch # c.branch, Item("Git", "branch", "critical"))
         \union When(unclean /\ (c.requireClean \/ c.warnDirty),
                     Item("Git", "working tree", Level(c.requireClean)))

PathItems(c, s) == {Item("Path", cmd, "critical") : cmd \in c.commands \ s.commands}

(* Names are sequences of the pieces between colons: the last colon is     *)
(* taken for that of a tag.                                                *)
SplitImage(name) ==
  IF Len(name) = 1 THEN [repository |-> name, tag |-> ""]
  ELSE [repository |-> SubSeq(name, 1, Len(name) - 1), tag |-> name[Len(name)]]

HasImage(images, name) ==
  \E image \in images : /\ image.repository = SplitImage(name).repository
                        /\ SplitImage(name).tag \in {"", image.tag}

(* A container is the set of the words it answers to: those that its name  *)
(* contains or its image begins with.                                      *)
HasContainer(containers, word) == \E x \in containers : word \in x

(* Compose files are looked for while the report is made.  Images and      *)
(* containers are judged only where there is Docker.                       *)
DockerItems(c, s, now) ==
  When(c.docker.required /\ ~s.docker.present, Item("Docker", "runtime", "critical"))
    \union {Item("Docker", f, "critical") : f \in c.docker.files \ now.files}
    \union (IF ~s.docker.present THEN {}
            ELSE {Item("Docker", name[1], "warning") :
                    name \in {i \in c.docker.images : ~HasImage(s.docker.images, i)}}
                   \union {Item("Docker", x, "critical") :
                            x \in {w \in c.docker.containers : ~HasContainer(s.docker.containers, w)}})

SystemItems(c, s) ==
  When(c.arch # {} /\ s.arch \notin c.arch, Item("System", "arch", "warning"))
    \union When(c.timezone \notin {"", s.timezone}, Item("System", "timezone", "warning"))
    \union When(c.locale \notin {"", s.locale}, Item("System", "locale", "warning"))
    \union When("unset" \notin {c.fs, s.fs} /\ c.fs # s.fs,
                Item("System", "case_sensitive_fs", "warning"))

(* check.Run, but for the probes, the custom checks and the plugins.       *)
CheckReport(c, s, now) ==
  RuntimeItems(c, s) \union EnvItems(c, now) \union PortItems(c, now) \union GitItems(c, s)
    \union PathItems(c, s) \union DockerItems(c, s, now) \union SystemItems(c, s)
    \union EnvSafetyItems(s)

Failed(report) == \E item \in report : item.severity = "critical"
=============================================================================
