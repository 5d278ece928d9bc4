------------------------------- MODULE Drift -------------------------------
(***************************************************************************)
(* The comparison of two snapshots (internal/diff), as a report against a  *)
(* baseline (internal/baseline) and as the summary of a team               *)
(* (internal/team).  An entry of a comparison shows what the two sides     *)
(* have, and its blocker, <<>> if it is none, is the sentence that         *)
(* explains it, as the tuple of the words that vary.                       *)
(***************************************************************************)
EXTENDS CheckRules, FiniteSets

Places == {"root", "runtime paths", ".env path"}   (* where a snapshot has absolute paths *)

(* host is "" once it is removed; ports says which of the ports that were  *)
(* dialled are listening, missing are the keys of .env.example that .env   *)
(* lacks.                                                                  *)
Snapshot(Ports, Keys) ==
  [host : STRING \union {""}, absolute : SUBSET Places, manifests : SUBSET STRING,
   environment : [os : STRING, arch : STRING, git : STRING],
   runtimes : [RuntimeNames -> Tool], ports : UNION {[P -> BOOLEAN] : P \in SUBSET Ports},
   missing : SUBSET Keys]

Entry(category, name, a, b, severity, blocker) ==
  [category |-> category, name |-> name, a |-> a, b |-> b, severity |-> severity,
   blocker |-> blocker]
-----------------------------------------------------------------------------
EnvironmentEntries(a, b) ==
  {Entry("Environment", field, <<field, a[field]>>, <<field, b[field]>>,
         IF field = "git" THEN "difference" ELSE "info", <<>>) :
     field \in {f \in {"os", "arch", "git"} : a[f] # b[f]}}

(* Unless both versions begin with a number they do not differ in it.      *)
MajorDiffers(x, y) == x.clean /\ y.clean /\ x.version[1] # y.version[1]

(* Mutant: what only the second machine has is not looked for.             *)
CompareRuntimeOneWay(name, x, y) ==
  LET major == x.present /\ y.present /\ MajorDiffers(x, y) IN
  When(x.present /\ x # y,
       Entry("Runtime", name, <<"tool", x>>, <<"tool", y>>,
             IF major THEN "critical" ELSE "difference",
             IF major THEN <<"major", name, x.version, y.version>> ELSE <<>>))

(* At most one entry, for a tool that one side lacks or that differs.      *)
CompareRuntime(name, x, y) ==
  LET major == x.present /\ y.present /\ MajorDiffers(x, y) IN
  When(x # y,
       Entry("Runtime", name, <<"tool", x>>, <<"tool", y>>,
             IF major THEN "critical" ELSE "difference",
             IF major THEN <<"major", name, x.version, y.version>> ELSE <<>>))

RuntimeEntries(a, b) == UNION {CompareRuntime(n, a[n], b[n]) : n \in RuntimeNames}

(* Only ports that both sides dialled.                                     *)
PortEntries(a, b) ==
  {Entry("Port", p, <<"port", a[p]>>, <<"port", b[p]>>, "difference", <<>>) :
     p \in {q \in DOMAIN a \cap DOMAIN b : a[q] # b[q]}}

EnvEntries(a, b) ==
  LET Lacks(side, keys) ==
        When(keys # {},
             Entry("Env", ".env keys",
                   <<"missing", IF side = "A" THEN keys ELSE {}>>,
                   <<"missing", IF side = "B" THEN keys ELSE {}>>,
                   "critical", <<"absent", side, keys>>))
  IN  Lacks("B", b \ a) \union Lacks("A", a \ b)

(* diff.Compare.                                                           *)
Compare(a, b) ==
  EnvironmentEntries(a.environment, b.environment) \union RuntimeEntries(a.runtimes, b.runtimes)
    \union PortEntries(a.ports, b.ports) \union EnvEntries(a.missing, b.missing)

ProjectRuntimes(manifest) ==
  CASE manifest = "package.json" -> {"node"}
    [] manifest = "go.mod"       -> {"go"}
    [] manifest = "pom.xml"      -> {"java", "maven"}
    [] manifest \in {"build.gradle", "build.gradle.kts"}   -> {"java", "gradle"}
    [] manifest \in {"requirements.txt", "pyproject.toml"} -> {"python"}
    [] manifest = "Cargo.toml"   -> {"rust", "cargo"}
    [] OTHER -> {}

RequiredRuntimes(manifests) == UNION {ProjectRuntimes(m) : m \in manifests}

(* A runtime that a manifest of either side implies, and one side lacks,   *)
(* is a blocker.                                                           *)
ApplyProjectContext(entries, a, b, nameA, nameB) ==
  LET required == RequiredRuntimes(a.manifests \union b.manifests)
      Lacks(side) == side[1] = "tool" /\ ~side[2].present
      Concerned(e) == e.category = "Runtime" /\ e.name \in required /\ (Lacks(e.a) \/ Lacks(e.b))
  IN  {IF Concerned(e)
       THEN [e EXCEPT !.severity = "critical",
                      !.blocker = <<"missing", e.name, IF Lacks(e.a) THEN nameA ELSE nameB>>]
       ELSE e : e \in entries}

Diff(a, b, nameA, nameB) == ApplyProjectContext(Compare(a, b), a, b, nameA, nameB)

HasDifferences(entries) == \E e \in entries : e.severity # "info"
Blockers(entries) == {e.blocker : e \in entries} \ {<<>>}

(* baseline.Compare: "difference" becomes a warning.                       *)
BaselineReport(baseline, current) ==
  {[section |-> e.category, name |-> e.name,
    severity |-> IF e.severity = "difference" THEN "warning" ELSE e.severity] :
     e \in Diff(baseline, current, "baseline", "yours")}

(* Mutant: the project is left out altogether.                             *)
SanitizeProject(s) ==
  [s EXCEPT !.host = "", !.absolute = @ \ {"root"}, !.manifests = {}]

(* Mutant: the name of the host is kept.                                   *)
SanitizeRoot(s) == [s EXCEPT !.absolute = @ \ {"root"}]

(* The name of the host and the root of the project are removed.           *)
Sanitize(s) == [s EXCEPT !.host = "", !.absolute = @ \ {"root"}]
-----------------------------------------------------------------------------
(* team.Build, for the snapshots in a function from names.                 *)

(* What comes after " on " is cut off.                                     *)
NormalizeBlocker(blocker) ==
  CASE blocker[1] = "missing" -> <<"missing", blocker[2]>>
    [] blocker[1] = "absent"  -> <<"absent">>
    [] OTHER -> blocker

(* Mutant: a machine without blockers is fine.                             *)
BuildOfBlockers(baseline, inputs) ==
  LET entries == [n \in DOMAIN inputs |-> Diff(baseline, inputs[n], "baseline", n)]
      Column(e) == CASE e.category = "Env" -> "Env" [] e.category = "Port" -> "Ports" [] OTHER -> e.name
  IN  [n \in DOMAIN inputs |->
         [ok       |-> Blockers(entries[n]) = {},
          blockers |-> Blockers(entries[n]),
          cells    |-> {Column(e) : e \in {x \in entries[n] : x.category # "Environment"}}]]

(* A row for each machine: whether it is fine, its blockers, and the       *)
(* columns in which it is not.                                             *)
Build(baseline, inputs) ==
  LET entries == [n \in DOMAIN inputs |-> Diff(baseline, inputs[n], "baseline", n)]
      Column(e) == CASE e.category = "Env" -> "Env" [] e.category = "Port" -> "Ports" [] OTHER -> e.name
  IN  [n \in DOMAIN inputs |->
         [ok       |-> ~HasDifferences(entries[n]),
          blockers |-> Blockers(entries[n]),
          cells    |-> {Column(e) : e \in {x \in entries[n] : x.category # "Environment"}}]]

(* How often each blocker is counted.                                      *)
Tally(rows) ==
  LET counted == UNION {{<<n, b>> : b \in rows[n].blockers} : n \in DOMAIN rows}
  IN  [t \in {NormalizeBlocker(x[2]) : x \in counted} |->
         Cardinality({x \in counted : NormalizeBlocker(x[2]) = t})]
-----------------------------------------------------------------------------
(* What it means.                                                          *)

(* The other side's view of an entry.                                      *)
Mirror(e) ==
  LET Other(side) == IF side = "A" THEN "B" ELSE "A" IN
  [e EXCEPT !.a = e.b, !.b = e.a,
            !.blocker = IF @ = <<>> THEN @
                        ELSE CASE @[1] = "absent" -> <<"absent", Other(@[2]), @[3]>>
                               [] @[1] = "major"  -> <<"major", @[2], @[4], @[3]>>
                               [] OTHER -> @]

Required(s, n) == \E m \in s.manifests : n \in ProjectRuntimes(m)

(* One of the two lacks what the other has and the project needs.          *)
Incompatible(s, t) ==
  \/ \E n \in RuntimeNames :
       \/ s.runtimes[n].present # t.runtimes[n].present /\ (Required(s, n) \/ Required(t, n))
       \/ /\ s.runtimes[n].present /\ t.runtimes[n].present
          /\ s.runtimes[n].clean /\ t.runtimes[n].clean
          /\ Head(s.runtimes[n].version) # Head(t.runtimes[n].version)
  \/ s.missing # t.missing

(* They agree in all that is compared.                                     *)
Agree(s, t) ==
  /\ s.runtimes = t.runtimes /\ s.missing = t.missing
  /\ s.environment.git = t.environment.git
  /\ \A p \in DOMAIN s.ports \cap DOMAIN t.ports : s.ports[p] = t.ports[p]
=============================================================================
