-------------------------- MODULE OnboardingProofs --------------------------
(***************************************************************************)
(* A configuration that init wrote does not reject the machine it was      *)
(* written on, for any machine, any keys and any tools that are slow to    *)
(* tell their versions when init or check asks for them; init classifies   *)
(* keys as their hints ask for, and check says READY exactly if the        *)
(* machine is ready.                                                       *)
(***************************************************************************)
EXTENDS Onboarding, SequenceTheorems, WellFoundedInduction, TLAPS

(* The configurations that init writes, of what it captured on one machine *)
(* and read on another, and on a machine that stands still.                *)
MadeOf(c, m, now) == \E slow, scan : c = Generate(Capture(m, slow, scan), now)

MadeOn(c, m) == MadeOf(c, m, m)

OriginIInv ==
  /\ machine \in Machines
  /\ \A m \in origin : MadeOn(config, m)
  /\ main \in {"init", "check"} => \E scan : snap = Capture(seen.machine, seen.slow, scan)
-----------------------------------------------------------------------------
(* The version a requirement was made from satisfies it.                   *)
LEMMA MajorIsSatisfied ==
  ASSUME NEW v \in Version, v # <<>>
  PROVE  CheckVersion(v, << [op |-> ">=", want |-> SubSeq(v, 1, 1)] >>) = "ok"
<1> DEFINE want == SubSeq(v, 1, 1)
           c == [op |-> ">=", want |-> want]
<1>1. Len(v) \in Nat /\ Len(v) >= 1 /\ v[1] \in Nat
  BY DEF Version
<1>2. Len(want) = 1 /\ want[1] = v[1] /\ want # <<>>
  BY <1>1 DEF Version
<1> HIDE DEF want
<1>3. CompareN(v, want) = 0
  <2>1. \A i \in 1..Len(want) : Part(v, i) = want[i]
    BY <1>1, <1>2 DEF Part
  <2> QED BY <2>1 DEF CompareN
<1>4. c.op = ">=" /\ c.want = want
  OBVIOUS
<1> HIDE DEF c
<1>5. EvalComparator(v, c)
  BY <1>3, <1>4 DEF EvalComparator
<1> DEFINE r == <<c>>
<1>6. Len(r) = 1 /\ r[1] = c
  OBVIOUS
<1> HIDE DEF r
<1>7. CheckVersion(v, r) = "ok"
  <2>1. {i \in 1..Len(r) : r[i].want = <<>> \/ ~EvalComparator(v, r[i])} = {}
    BY <1>2, <1>4, <1>5, <1>6
  <2> QED BY <2>1 DEF CheckVersion
<1> QED BY <1>7 DEF r, c, want

(* A tool that does not tell its version cannot be judged.                 *)
LEMMA SilenceIsUnparsed == \A r : CheckVersion(<<>>, r) = "unparsed"
BY DEF CheckVersion

LEMMA WhatIsCaptured ==
  ASSUME NEW m, NEW slow, NEW scan, NEW n \in RuntimeNames
  PROVE  LET tool == Capture(m, slow, scan).tools[n] IN
         /\ tool.present <=> OnPath(m, n)
         /\ OnPath(m, n) /\ n \notin slow =>
              tool.version = m.version[n].version /\ tool.clean = m.version[n].clean
         /\ n \in slow => tool.version = <<>> /\ ~tool.clean
<1>1. Capture(m, slow, scan).tools = Probed(m, slow)
  BY DEF Capture
<1>2. Probed(m, slow)[n] =
        IF OnPath(m, n) /\ n \notin slow
        THEN [present |-> TRUE, version |-> m.version[n].version, clean |-> m.version[n].clean]
        ELSE [present |-> OnPath(m, n), version |-> <<>>, clean |-> FALSE]
  BY DEF Probed
<1> DEFINE tool == Capture(m, slow, scan).tools[n]
           p == OnPath(m, n)
<1>3. p \in BOOLEAN
  BY DEF OnPath
<1>4. CASE p /\ n \notin slow
  BY <1>1, <1>2, <1>4
<1>5. CASE ~(p /\ n \notin slow)
  <2>1. tool = [present |-> p, version |-> <<>>, clean |-> FALSE]
    BY <1>1, <1>2, <1>5
  <2> HIDE DEF tool, p
  <2>2. tool.present = p /\ tool.version = <<>> /\ tool.clean = FALSE
    BY <2>1
  <2> QED BY <1>3, <1>5, <2>2 DEF tool, p
<1> QED BY <1>4, <1>5

(* What init asks of the tools: those it knows, and of each its presence   *)
(* or the major version it found.                                          *)
LEMMA WhatIsRequired ==
  ASSUME NEW m \in Machines, NEW now, NEW c, MadeOf(c, m, now), NEW n \in DOMAIN c.runtimes
  PROVE  /\ n \in RuntimeNames
         /\ \/ c.runtimes[n] = <<>>
            \/ /\ m.version[n].clean
               /\ c.runtimes[n] = << [op |-> ">=", want |-> SubSeq(m.version[n].version, 1, 1)] >>
<1>1. PICK slow, scan : c = Generate(Capture(m, slow, scan), now)
  BY DEF MadeOf
<1> DEFINE s == Capture(m, slow, scan)
           asked == DetectRuntimes(s, now)
<1>2. c.runtimes = asked
  BY <1>1 DEF Generate, EmptyConfig
<1>3. \A x \in DOMAIN Implies : Implies[x] \subseteq RuntimeNames
  BY DEF Implies, RuntimeNames
<1>4. n \in RuntimeNames /\ asked[n] = IF n = "docker" THEN <<>> ELSE RequirementFor(s.tools[n])
  <2> DEFINE implied == UNION {Implies[x] : x \in s.manifests \cap DOMAIN Implies}
             docker  == IF now.files \cap Markers = {} THEN {} ELSE {"docker"}
  <2>1. /\ DOMAIN asked = implied \union docker
        /\ \A k \in implied \union docker :
             asked[k] = IF k = "docker" THEN <<>> ELSE RequirementFor(s.tools[k])
    BY DEF DetectRuntimes
  <2>2. implied \subseteq RuntimeNames
    BY <1>3
  <2>3. docker \subseteq RuntimeNames
    BY DEF RuntimeNames
  <2> HIDE DEF asked, implied, docker, s
  <2> QED BY <1>2, <2>1, <2>2, <2>3
<1> DEFINE tool == s.tools[n]
<1>5. /\ tool.present <=> OnPath(m, n)
      /\ OnPath(m, n) /\ n \notin slow =>
           tool.version = m.version[n].version /\ tool.clean = m.version[n].clean
      /\ n \in slow => ~tool.clean
  BY <1>4, WhatIsCaptured
<1> HIDE DEF asked, tool
<1>6. CASE n = "docker" \/ ~(tool.present /\ tool.clean)
  BY <1>2, <1>4, <1>6 DEF RequirementFor, tool
<1>7. CASE n # "docker" /\ tool.present /\ tool.clean
  <2>1. asked[n] = << [op |-> ">=", want |-> SubSeq(tool.version, 1, 1)] >>
    BY <1>4, <1>7 DEF RequirementFor, tool
  <2> QED BY <1>2, <1>4, <1>5, <1>7, <2>1
<1> QED BY <1>6, <1>7

(* The items about tools that a machine gets for what was asked of it.     *)
LEMMA OwnTools ==
  ASSUME NEW m \in Machines, NEW c, MadeOn(c, m), c.ignored = {}, NEW slow, NEW scan,
         NEW item \in RuntimeItems(c, Capture(m, slow, scan))
  PROVE  /\ item.section = "Runtime"
         /\ ~OnPath(m, item.name) \/ (item.name \in slow /\ item.severity = "warning")
<1> DEFINE s == Capture(m, slow, scan)
           known == DOMAIN c.runtimes
           absent == {n \in known : ~s.tools[n].present}
           Result(n) == IF c.runtimes[n] = <<>> THEN "ok"
                        ELSE CheckVersion(s.tools[n].version, c.runtimes[n])
<1>1. known \subseteq RuntimeNames
  BY WhatIsRequired DEF MadeOn
<1>2. \/ \E n \in absent : item = Item("Runtime", n, "critical")
      \/ \E n \in known \ absent : Result(n) # "ok" /\ item = Item("Runtime", n, Level(Result(n) = "no"))
  <2>1. known \ c.ignored = known /\ known \cap RuntimeNames = known /\ known \ RuntimeNames = {}
    BY <1>1
  <2> QED BY <2>1 DEF RuntimeItems
<1>3. CASE \E n \in absent : item = Item("Runtime", n, "critical")
  <2>1. PICK n \in absent : item = Item("Runtime", n, "critical")
    BY <1>3
  <2>2. ~OnPath(m, n)
    BY <1>1, WhatIsCaptured
  <2> HIDE DEF absent
  <2> QED BY <2>1, <2>2 DEF Item
<1>4. CASE \E n \in known \ absent : Result(n) # "ok" /\ item = Item("Runtime", n, Level(Result(n) = "no"))
  <2>1. PICK n \in known \ absent :
          Result(n) # "ok" /\ item = Item("Runtime", n, Level(Result(n) = "no"))
    BY <1>4
  <2>2. n \in RuntimeNames /\ s.tools[n].present
    BY <1>1
  <2>3. c.runtimes[n] # <<>>
    BY <2>1
  <2>4. /\ m.version[n].clean
        /\ c.runtimes[n] = << [op |-> ">=", want |-> SubSeq(m.version[n].version, 1, 1)] >>
    BY <2>1, <2>3, WhatIsRequired DEF MadeOn
  <2>5. m.version[n].version \in Version /\ m.version[n].version # <<>>
    BY <2>2, <2>4, OnboardingAssumption DEF MachineSpace
  <2>6. n \in slow
    <3>1. SUFFICES ASSUME n \notin slow PROVE FALSE
      OBVIOUS
    <3>2. s.tools[n].version = m.version[n].version
      BY <2>2, <3>1, WhatIsCaptured
    <3>3. CheckVersion(s.tools[n].version, c.runtimes[n]) = "ok"
      BY <2>4, <2>5, <3>2, MajorIsSatisfied
    <3> QED BY <2>1, <3>3
  <2>7. Result(n) = "unparsed"
    <3>1. s.tools[n].version = <<>>
      BY <2>2, <2>6, WhatIsCaptured
    <3> QED BY <2>3, <3>1, SilenceIsUnparsed
  <2> QED BY <2>1, <2>6, <2>7 DEF Item, Level
<1> QED BY <1>2, <1>3, <1>4

(* The rest of what init writes asks for nothing but keys of .env.         *)
LEMMA OnlyToolsAndEnv ==
  ASSUME NEW m \in Machines, NEW c, MadeOn(c, m), NEW s, NEW now,
         NEW item \in CheckReport(c, s, now)
  PROVE  item \in RuntimeItems(c, s) \/ item.section \in {"Env", "EnvSafety"}
<1>1. PICK slow, scan : c = Generate(Capture(m, slow, scan), m)
  BY DEF MadeOn, MadeOf
<1>2. /\ c.listening = {} /\ c.free = {} /\ c.branch = "" /\ c.requireClean = FALSE
      /\ c.warnDirty = FALSE /\ c.commands = {} /\ c.docker = EmptyConfig.docker
      /\ c.arch = {} /\ c.timezone = "" /\ c.locale = "" /\ c.fs = "unset"
  BY <1>1 DEF Generate, EmptyConfig
<1>3. PortItems(c, now) = {}
  BY <1>2 DEF PortItems
<1>4. GitItems(c, s) = {}
  BY <1>2 DEF GitItems, When
<1>5. PathItems(c, s) = {}
  BY <1>2 DEF PathItems
<1>6. DockerItems(c, s, now) = {}
  <2>1. c.docker = [required |-> FALSE, files |-> {}, images |-> {}, containers |-> {}]
    BY <1>2 DEF EmptyConfig
  <2> QED BY <2>1 DEF DockerItems, When
<1>7. SystemItems(c, s) = {}
  BY <1>2 DEF SystemItems, When
<1>8. \A x \in EnvItems(c, now) : x.section = "Env"
  BY DEF EnvItems, When, Item
<1>9. \A x \in EnvSafetyItems(s) : x.section = "EnvSafety"
  BY DEF EnvSafetyItems, When, Item
<1> QED BY <1>3, <1>4, <1>5, <1>6, <1>7, <1>8, <1>9 DEF CheckReport
-----------------------------------------------------------------------------
LEMMA OriginInit == Init => OriginIInv
BY DEF Init, OriginIInv

LEMMA OriginStep ==
  ASSUME OriginIInv, [Next]_vars
  PROVE  OriginIInv'
<1>1. CASE UNCHANGED vars
  BY <1>1 DEF OriginIInv, vars, MadeOn, MadeOf
<1>2. ASSUME NEW command \in {"init", "check"}, Begin(command)
      PROVE  OriginIInv'
  <2>1. PICK slow \in SUBSET Slow :
          /\ snap' = Capture(machine, slow, flags'.scanSecrets)
          /\ seen' = [machine |-> machine, slow |-> slow]
    BY <1>2 DEF Begin
  <2>2. seen'.machine = machine /\ seen'.slow = slow
    BY <2>1
  <2>3. UNCHANGED <<machine, config, origin>>
    BY <1>2 DEF Begin
  <2> QED BY <2>1, <2>2, <2>3 DEF OriginIInv, MadeOn, MadeOf
<1>3. CASE WriteConfig
  <2>1. main' = "idle" /\ UNCHANGED machine /\ main = "init"
    BY <1>3 DEF WriteConfig, Exit
  <2>2. \/ UNCHANGED <<config, origin>>
        \/ config' = Generate(snap, machine) /\ origin' = {machine} \cap {seen.machine}
        \/ origin' = {}
    BY <1>3 DEF WriteConfig
  <2>3. \A m \in origin' : MadeOn(config, m)'
    <3>1. PICK scan : snap = Capture(seen.machine, seen.slow, scan)
      BY <2>1 DEF OriginIInv
    <3> QED BY <2>2, <3>1 DEF OriginIInv, MadeOn, MadeOf
  <2> QED BY <2>1, <2>3 DEF OriginIInv
<1>4. CASE CheckConfig
  <2>1. main' = "idle" /\ UNCHANGED <<machine, config, origin>>
    BY <1>4 DEF CheckConfig, Exit
  <2> QED BY <2>1 DEF OriginIInv, MadeOn, MadeOf
<1>5. CASE MachineChanges
  BY <1>5 DEF MachineChanges, OriginIInv, MadeOn, MadeOf
<1>6. CASE ConfigIsEdited
  BY <1>6 DEF ConfigIsEdited, OriginIInv
<1> QED BY <1>1, <1>2, <1>3, <1>4, <1>5, <1>6 DEF Next

(* The configuration that init leaves is one for the machine it was made   *)
(* on, and a command judges what it captured (initcfg.Generate, capture).  *)
THEOREM OriginInvariant == Spec => []OriginIInv
BY OriginInit, OriginStep, PTL DEF Spec
-----------------------------------------------------------------------------
LEMMA OwnReport ==
  ASSUME OriginIInv, Next, Judged, origin = {machine}, seen.machine = machine, NEW item \in report'
  PROVE  \/ item.section \in {"Env", "EnvSafety"}
         \/ item.section = "Runtime" /\ ~OnPath(machine, item.name)
         \/ item.section = "Runtime" /\ item.name \in seen.slow /\ item.severity = "warning"
<1>1. CheckConfig
  BY DEF Judged, Next, Begin, WriteConfig, MachineChanges, ConfigIsEdited
<1> DEFINE c == IF flags.noDocker THEN [config EXCEPT !.docker = EmptyConfig.docker] ELSE config
<1>2. report' = CheckReport(c, snap, machine)
  BY <1>1 DEF CheckConfig, Exit, Judged
<1>3. MadeOn(config, machine) /\ machine \in Machines
  BY DEF OriginIInv
<1>4. PICK scan : snap = Capture(machine, seen.slow, scan)
  BY DEF OriginIInv, Judged
<1>5. c = config /\ config.ignored = {}
  <2>1. PICK slow, scan2 : config = Generate(Capture(machine, slow, scan2), machine)
    BY <1>3 DEF MadeOn, MadeOf
  <2>2. /\ config.docker = EmptyConfig.docker /\ config.ignored = {}
        /\ config = [k \in DOMAIN config |-> config[k]]
    BY <2>1 DEF Generate, EmptyConfig
  <2> QED BY <2>2
<1>6. item \in RuntimeItems(config, snap) \/ item.section \in {"Env", "EnvSafety"}
  BY <1>2, <1>3, <1>5, OnlyToolsAndEnv
<1> QED BY <1>3, <1>4, <1>5, <1>6, OwnTools

(* On the machine it was generated on, a configuration finds nothing but   *)
(* what is missing, for all machines and whatever tools are slow when      *)
(* init or check asks them (requirementFor, majorOf, verreq.Check).        *)
THEOREM AcceptsItsMaker == Spec => AcceptsItsOrigin
<1>1. OriginIInv /\ [Next]_vars =>
        [Judged /\ origin = {machine} /\ seen.machine = machine =>
           \A item \in report' :
             \/ item.section \in {"Env", "EnvSafety"}
             \/ item.section = "Runtime" /\ ~OnPath(machine, item.name)
             \/ item.section = "Runtime" /\ item.name \in seen.slow /\ item.severity = "warning"]_vars
  BY OwnReport
<1> QED BY <1>1, OriginInvariant, PTL DEF Spec, AcceptsItsOrigin
-----------------------------------------------------------------------------
(* The numbers that are least: what a definition by recursion says is      *)
(* proved by looking at the first argument at which it would not.          *)
LEMMA LeastNumber ==
  ASSUME NEW T \in SUBSET Nat, T # {}
  PROVE  \E i \in T : \A j \in T : i <= j
<1>1. PICK i \in T : \A j \in T : <<j, i>> \notin OpToRel(<, Nat)
  BY NatLessThanWellFounded, WFMin
<1>2. \A j \in T : ~(j < i)
  BY <1>1 DEF OpToRel
<1> QED BY <1>2
-----------------------------------------------------------------------------
(* The class that is pending after each line.                              *)
HintsOf(lines) == [i \in 0..Len(lines) |-> HintedClass(lines, i + 1)]

(* It is found by looking at one line.                                     *)
HintAfter(lines, h, i) ==
  IF i = 0 \/ lines[i].kind # "comment" THEN {}
  ELSE IF lines[i].words = {} THEN h[i - 1] ELSE lines[i].words

Latest(hints) == CHOOSE j \in hints : \A m \in hints : m <= j

LEMMA HintsAreHeard ==
  ASSUME NEW lines, Len(lines) \in Nat, NEW i \in 0..Len(lines)
  PROVE  HintsOf(lines)[i] = HintAfter(lines, HintsOf(lines), i)
<1> DEFINE hints(k) == {j \in 1..Len(lines) : Above(lines, k, j)}
<1>1. HintsOf(lines)[i] = HintedClass(lines, i + 1)
  BY DEF HintsOf
<1>2. CASE i = 0
  <2>1. hints(1) = {}
    BY DEF Above
  <2> QED BY <1>1, <1>2, <2>1 DEF HintedClass, HintAfter
<1>3. CASE i # 0 /\ lines[i].kind # "comment"
  <2>1. hints(i + 1) = {}
    BY <1>3 DEF Above
  <2> QED BY <1>1, <1>3, <2>1 DEF HintedClass, HintAfter
<1>4. CASE i # 0 /\ lines[i].kind = "comment" /\ lines[i].words # {}
  <2>1. i \in hints(i + 1) /\ \A j \in hints(i + 1) : j <= i /\ j \in Int
    BY <1>4 DEF Above
  <2>2. (CHOOSE j \in hints(i + 1) : \A m \in hints(i + 1) : m <= j) = i
    <3> HIDE DEF hints
    <3> QED BY <2>1
  <2> QED BY <1>1, <1>4, <2>1, <2>2 DEF HintedClass, HintAfter
<1>5. CASE i # 0 /\ lines[i].kind = "comment" /\ lines[i].words = {}
  <2>1. \A j \in 1..Len(lines) : Above(lines, i + 1, j) <=> Above(lines, i, j)
    <3> TAKE j \in 1..Len(lines)
    <3>1. ASSUME Above(lines, i + 1, j) PROVE Above(lines, i, j)
      <4>1. j # i
        BY <1>5, <3>1 DEF Above
      <4> QED BY <3>1, <4>1 DEF Above
    <3>2. ASSUME Above(lines, i, j) PROVE Above(lines, i + 1, j)
      BY <1>5, <3>2 DEF Above
    <3> QED BY <3>1, <3>2
  <2>2. hints(i + 1) = hints(i)
    BY <2>1
  <2>3. HintedClass(lines, i + 1) = HintedClass(lines, i)
    <3>1. \A k : HintedClass(lines, k) = IF hints(k) = {} THEN {} ELSE lines[Latest(hints(k))].words
      BY DEF HintedClass, Latest
    <3> HIDE DEF hints
    <3> QED BY <2>2, <3>1
  <2>4. HintsOf(lines)[i - 1] = HintedClass(lines, i)
    BY <1>5 DEF HintsOf
  <2> QED BY <1>1, <1>5, <2>3, <2>4 DEF HintAfter
<1> QED BY <1>2, <1>3, <1>4, <1>5

(* What ClassifyEnvExample has pending after line i is the class of the    *)
(* last comment that mentions one among those right above line i + 1.      *)
LEMMA HintsAreMeant ==
  ASSUME NEW lines, Len(lines) \in Nat
  PROVE  PendingHint(lines) = HintsOf(lines)
<1> DEFINE dom == 0..Len(lines)
           Pending(h) == h = [i \in dom |-> HintAfter(lines, h, i)]
<1>1. PendingHint(lines) = CHOOSE h : Pending(h)
  BY DEF PendingHint, HintAfter
<1>2. Pending(HintsOf(lines))
  BY HintsAreHeard DEF HintsOf
<1>3. ASSUME NEW h, Pending(h)
      PROVE  h = HintsOf(lines)
  <2> DEFINE g == HintsOf(lines)
             differ == {i \in dom : h[i] # g[i]}
  <2>1. h = [i \in dom |-> h[i]] /\ g = [i \in dom |-> g[i]]
    BY <1>3 DEF HintsOf
  <2>2. \A i \in dom : h[i] = HintAfter(lines, h, i) /\ g[i] = HintAfter(lines, g, i)
    BY <1>3, HintsAreHeard
  <2>3. ASSUME differ # {} PROVE FALSE
    <3>0. differ \in SUBSET Nat
      OBVIOUS
    <3>1. PICK i \in differ : \A j \in differ : i <= j
      <4> HIDE DEF differ
      <4> QED BY <2>3, <3>0, LeastNumber
    <3>2. i # 0
      BY <2>2, <3>1 DEF HintAfter
    <3>3. h[i - 1] = g[i - 1]
      BY <3>1, <3>2
    <3>4. HintAfter(lines, h, i) = HintAfter(lines, g, i)
      BY <3>3 DEF HintAfter
    <3> QED BY <2>2, <3>1, <3>4
  <2>4. \A i \in dom : h[i] = g[i]
    BY <2>3
  <2> HIDE DEF g
  <2> QED BY <2>1, <2>4 DEF g
<1> QED BY <1>1, <1>2, <1>3

(* A key is classified by the hints above it, its value and the feature    *)
(* switches.                                                               *)
LEMMA ClassesOf ==
  ASSUME NEW lines, Len(lines) \in Nat, NEW i \in 1..Len(lines)
  PROVE  Classify(lines, i) = "required" <=>
           \/ "required" \in HintedClass(lines, i)
           \/ /\ HintedClass(lines, i) = {}
              /\ lines[i].value = "" /\ lines[i].key \in Sensitive
              /\ \A j \in 1..Len(lines) :
                   IsKey(lines[j]) /\ lines[j].value = "false" => lines[i].key \notin Disables[lines[j].key]
<1>1. PendingHint(lines)[i - 1] = HintedClass(lines, i)
  BY HintsAreMeant DEF HintsOf
<1>2. lines[i].key \in Disabled(lines) <=>
        \E j \in 1..Len(lines) :
          IsKey(lines[j]) /\ lines[j].value = "false" /\ lines[i].key \in Disables[lines[j].key]
  BY DEF Disabled
<1> DEFINE hint == HintedClass(lines, i)
<1>3. Classify(lines, i) =
        IF hint # {} THEN FirstOf(hint)
        ELSE IF lines[i].key \in Disabled(lines) THEN "optional"
        ELSE IF lines[i].value = "" /\ lines[i].key \in Sensitive THEN "required"
        ELSE "recommended"
  BY <1>1 DEF Classify
<1>4. FirstOf(hint) = "required" <=> "required" \in hint
  BY DEF FirstOf
<1> HIDE DEF hint
<1> QED BY <1>2, <1>3, <1>4 DEF hint

(* A key of .env.example is required exactly as ClassesAreMeant has it,    *)
(* for every file of lines (ClassifyEnvExample).                           *)
THEOREM KeysHaveTheirClasses == Spec => []ClassesAreMeant
<1>1. OriginIInv => ClassesAreMeant
  <2> SUFFICES ASSUME OriginIInv PROVE ClassesAreMeant
    OBVIOUS
  <2>1. machine.example \in Seq(Line)
    BY OnboardingAssumption DEF OriginIInv, MachineSpace
  <2>2. Len(machine.example) \in Nat
    BY <2>1
  <2> QED BY <2>2, ClassesOf DEF ClassesAreMeant
<1> QED BY <1>1, OriginInvariant, PTL
-----------------------------------------------------------------------------
(* What versions mean.  f has the numbers of the first parts of v.         *)
NumberAfter(f, v, i) == IF i = 0 THEN 0 ELSE f[i - 1] * Base + Part(v, i)

Numbers(f, v, n) == f = [i \in 0..n |-> NumberAfter(f, v, i)]

LEMMA BaseIsPositive == Base \in Nat /\ Base > 0
BY BaseAssumption

LEMMA NumbersExist ==
  ASSUME NEW v, NEW n \in Nat
  PROVE  \E f : Numbers(f, v, n)
<1> DEFINE without == {k \in Nat : ~\E f : Numbers(f, v, k)}
<1>1. ASSUME without # {} PROVE FALSE
  <2>1. without \in SUBSET Nat
    OBVIOUS
  <2>2. PICK k \in without : \A j \in without : k <= j
    <3> HIDE DEF without
    <3> QED BY <1>1, <2>1, LeastNumber
  <2>3. k # 0
    <3>1. SUFFICES ASSUME k = 0 PROVE FALSE
      OBVIOUS
    <3> DEFINE f == [i \in 0..0 |-> 0]
    <3>2. Numbers(f, v, 0)
      BY DEF Numbers, NumberAfter
    <3> QED BY <2>2, <3>1, <3>2
  <2>4. k - 1 \in Nat /\ k - 1 \notin without
    BY <2>2, <2>3
  <2>5. PICK f : Numbers(f, v, k - 1)
    BY <2>4
  <2> DEFINE g == [i \in 0..k |-> IF i = k THEN f[k - 1] * Base + Part(v, k) ELSE f[i]]
  <2>6. \A i \in 0..k : g[i] = NumberAfter(g, v, i)
    <3> SUFFICES ASSUME NEW i \in 0..k PROVE g[i] = NumberAfter(g, v, i)
      OBVIOUS
    <3>1. CASE i = k
      <4>1. g[i - 1] = f[i - 1]
        BY <2>2, <2>3, <3>1
      <4> QED BY <2>3, <3>1, <4>1 DEF NumberAfter
    <3>2. CASE i # k
      <4>1. i \in 0..(k - 1) /\ g[i] = f[i] /\ (i # 0 => g[i - 1] = f[i - 1])
        BY <2>2, <3>2
      <4>2. f[i] = NumberAfter(f, v, i)
        BY <2>5, <4>1 DEF Numbers
      <4> QED BY <4>1, <4>2 DEF NumberAfter
    <3> QED BY <3>1, <3>2
  <2>7. Numbers(g, v, k)
    BY <2>6 DEF Numbers
  <2> QED BY <2>2, <2>7
<1> QED BY <1>1

LEMMA NumberIs ==
  ASSUME NEW v, NEW n \in Nat
  PROVE  \E f : Numbers(f, v, n) /\ Number(v, n, Base) = f[n]
<1>1. Number(v, n, Base) = (CHOOSE f : Numbers(f, v, n))[n]
  BY DEF Number, Numbers, NumberAfter
<1> QED BY <1>1, NumbersExist

LEMMA PartsAreDigits ==
  ASSUME NEW v \in Version, Below(v, Base), NEW i \in Nat \ {0}
  PROVE  Part(v, i) \in Nat /\ Part(v, i) < Base
BY BaseIsPositive DEF Version, Below, Part

LEMMA NumbersAreNumbers ==
  ASSUME NEW v \in Version, Below(v, Base), NEW n \in Nat, NEW f, Numbers(f, v, n)
  PROVE  \A i \in 0..n : f[i] \in Nat
<1> DEFINE wrong == {i \in 0..n : f[i] \notin Nat}
<1>1. ASSUME wrong # {} PROVE FALSE
  <2>1. wrong \in SUBSET Nat
    OBVIOUS
  <2>2. PICK k \in wrong : \A j \in wrong : k <= j
    <3> HIDE DEF wrong
    <3> QED BY <1>1, <2>1, LeastNumber
  <2>3. f[k] = NumberAfter(f, v, k)
    BY <2>2 DEF Numbers
  <2>4. k # 0
    BY <2>2, <2>3 DEF NumberAfter
  <2>5. f[k - 1] \in Nat
    BY <2>2, <2>4
  <2>6. Part(v, k) \in Nat
    BY <2>2, <2>4, PartsAreDigits
  <2>7. f[k] = f[k - 1] * Base + Part(v, k)
    BY <2>3, <2>4 DEF NumberAfter
  <2> QED BY <2>2, <2>5, <2>6, <2>7, BaseIsPositive
<1> QED BY <1>1

(* A smaller number is smaller whatever digit follows.                     *)
LEMMA DigitsFollow ==
  ASSUME NEW x \in Nat, NEW y \in Nat, x < y, NEW p \in Nat, NEW q \in Nat, p < Base
  PROVE  x * Base + p < y * Base + q
<1>0. Base \in Nat
  BY BaseIsPositive
<1>1. y = (x + 1) + (y - (x + 1)) /\ y - (x + 1) \in Nat
  OBVIOUS
<1>2. y * Base = (x + 1) * Base + (y - (x + 1)) * Base
  BY <1>0, <1>1
<1>3. (y - (x + 1)) * Base \in Nat
  BY <1>0, <1>1
<1>4. (x + 1) * Base = x * Base + Base
  BY <1>0
<1>5. x * Base \in Nat /\ y * Base \in Nat
  BY <1>0
<1> QED BY <1>0, <1>2, <1>3, <1>4, <1>5

(* Two versions that agree up to a part have the same number up to it.     *)
LEMMA SameParts ==
  ASSUME NEW a, NEW b, NEW n \in Nat, NEW f, Numbers(f, a, n), NEW g, Numbers(g, b, n),
         NEW k \in 0..n, \A i \in 1..k : Part(a, i) = Part(b, i)
  PROVE  f[k] = g[k]
<1> DEFINE differ == {i \in 0..k : f[i] # g[i]}
<1>1. ASSUME differ # {} PROVE FALSE
  <2>1. differ \in SUBSET Nat
    OBVIOUS
  <2>2. PICK i \in differ : \A j \in differ : i <= j
    <3> HIDE DEF differ
    <3> QED BY <1>1, <2>1, LeastNumber
  <2>3. f[i] = NumberAfter(f, a, i) /\ g[i] = NumberAfter(g, b, i)
    <3>1. i \in 0..n
      BY <2>2
    <3> QED BY <3>1 DEF Numbers
  <2>4. i # 0
    BY <2>2, <2>3 DEF NumberAfter
  <2>5. f[i - 1] = g[i - 1] /\ Part(a, i) = Part(b, i)
    BY <2>2, <2>4
  <2> QED BY <2>2, <2>3, <2>5 DEF NumberAfter
<1> QED BY <1>1

(* The first part that differs decides.                                    *)
LEMMA FirstPartDecides ==
  ASSUME NEW a \in Version, Below(a, Base), NEW b \in Version, Below(b, Base),
         NEW n \in Nat, NEW f, Numbers(f, a, n), NEW g, Numbers(g, b, n),
         NEW k \in 1..n, \A i \in 1..(k - 1) : Part(a, i) = Part(b, i), Part(a, k) < Part(b, k)
  PROVE  f[n] < g[n]
<1>1. \A i \in 0..n : f[i] \in Nat /\ g[i] \in Nat
  BY NumbersAreNumbers
<1>2. \A i \in 1..n : /\ f[i] = f[i - 1] * Base + Part(a, i)
                     /\ g[i] = g[i - 1] * Base + Part(b, i)
  BY DEF Numbers, NumberAfter
<1>3. \A i \in 1..n : /\ Part(a, i) \in Nat /\ Part(a, i) < Base
                     /\ Part(b, i) \in Nat /\ Part(b, i) < Base
  BY PartsAreDigits
<1> DEFINE wrong == {i \in k..n : ~(f[i] < g[i])}
<1>4. ASSUME wrong # {} PROVE FALSE
  <2>1. wrong \in SUBSET Nat
    OBVIOUS
  <2>2. PICK i \in wrong : \A j \in wrong : i <= j
    <3> HIDE DEF wrong
    <3> QED BY <1>4, <2>1, LeastNumber
  <2>3. CASE i = k
    <3>1. f[k - 1] = g[k - 1]
      BY SameParts
    <3>2. f[k - 1] * Base \in Nat
      BY <1>1, BaseIsPositive
    <3> QED BY <1>2, <1>3, <2>2, <2>3, <3>1, <3>2
  <2>4. CASE i # k
    <3>1. i \in 1..n /\ i - 1 \in k..n /\ i - 1 \in 0..n
      BY <2>2, <2>4
    <3>2. f[i - 1] < g[i - 1]
      BY <2>2, <3>1
    <3>3. f[i - 1] * Base + Part(a, i) < g[i - 1] * Base + Part(b, i)
      BY <1>1, <1>3, <3>1, <3>2, DigitsFollow
    <3> QED BY <1>2, <2>2, <3>1, <3>3
  <2> QED BY <2>3, <2>4
<1>5. n \in k..n
  OBVIOUS
<1> QED BY <1>4, <1>5

(* Comparing part by part is comparing the numbers, of as many parts as    *)
(* the second version has (verreq.compareN).                               *)
LEMMA OrderIsOfNumbers ==
  ASSUME NEW a \in Version, Below(a, Base), NEW b \in Version, Below(b, Base)
  PROVE  LET x == Number(a, Len(b), Base)
             y == Number(b, Len(b), Base)
         IN  /\ x \in Nat /\ y \in Nat
             /\ \/ CompareN(a, b) = 0 /\ x = y
                \/ CompareN(a, b) = -1 /\ x < y
                \/ CompareN(a, b) = 1 /\ x > y
<1> DEFINE n == Len(b)
           differ == {i \in 1..n : Part(a, i) # b[i]}
           first  == CHOOSE i \in differ : \A j \in differ : i <= j
<1>1. n \in Nat
  BY DEF Version
<1>2. PICK f : Numbers(f, a, n) /\ Number(a, n, Base) = f[n]
  BY <1>1, NumberIs
<1>3. PICK g : Numbers(g, b, n) /\ Number(b, n, Base) = g[n]
  BY <1>1, NumberIs
<1>4. f[n] \in Nat /\ g[n] \in Nat
  BY <1>1, <1>2, <1>3, NumbersAreNumbers
<1>5. \A i \in 1..n : Part(b, i) = b[i]
  BY <1>1 DEF Part
<1>6. CompareN(a, b) = IF differ = {} THEN 0 ELSE IF Part(a, first) < b[first] THEN -1 ELSE 1
  BY DEF CompareN
<1>7. CASE differ = {}
  <2>1. \A i \in 1..n : Part(a, i) = Part(b, i)
    BY <1>5, <1>7
  <2>2. f[n] = g[n]
    <3> HIDE DEF n
    <3>1. n \in 0..n
      BY <1>1
    <3> QED BY <1>1, <1>2, <1>3, <2>1, <3>1, SameParts
  <2> QED BY <1>2, <1>3, <1>4, <1>6, <1>7, <2>2
<1>8. CASE differ # {}
  <2>1. first \in differ /\ \A j \in differ : first <= j
    <3>1. differ \in SUBSET Nat
      BY <1>1
    <3> HIDE DEF differ
    <3>2. \E i \in differ : \A j \in differ : i <= j
      BY <1>8, <3>1, LeastNumber
    <3> QED BY <3>2
  <2> HIDE DEF first
  <2>2. first \in 1..n /\ Part(a, first) # Part(b, first)
    BY <1>5, <2>1
  <2>3. \A i \in 1..(first - 1) : Part(a, i) = Part(b, i)
    <3> SUFFICES ASSUME NEW i \in 1..(first - 1) PROVE Part(a, i) = Part(b, i)
      OBVIOUS
    <3>1. i \in 1..n /\ ~(first <= i)
      BY <1>1, <2>2
    <3>2. i \notin differ
      BY <2>1, <3>1
    <3> QED BY <1>5, <3>1, <3>2
  <2>4. Part(a, first) \in Nat /\ Part(b, first) \in Nat
    BY <1>1, <2>2, PartsAreDigits
  <2>5. CASE Part(a, first) < Part(b, first)
    <3>1. f[n] < g[n]
      BY <1>1, <1>2, <1>3, <2>2, <2>3, <2>5, FirstPartDecides
    <3>2. CompareN(a, b) = -1
      BY <1>5, <1>6, <1>8, <2>2, <2>5
    <3> QED BY <1>2, <1>3, <1>4, <3>1, <3>2
  <2>6. CASE Part(b, first) < Part(a, first)
    <3>1. g[n] < f[n]
      BY <1>1, <1>2, <1>3, <2>2, <2>3, <2>6, FirstPartDecides
    <3>2. CompareN(a, b) = 1
      BY <1>5, <1>6, <1>8, <2>2, <2>4, <2>6
    <3> QED BY <1>2, <1>3, <1>4, <3>1, <3>2
  <2> QED BY <2>2, <2>4, <2>5, <2>6
<1> QED BY <1>7, <1>8

(* A comparator holds of a version if it does of the numbers.              *)
LEMMA ComparatorsAreMeant ==
  ASSUME NEW v \in Version, Below(v, Base), NEW c \in Comparator, Below(c.want, Base)
  PROVE  EvalComparator(v, c) <=> Satisfies(v, c, Base)
<1> DEFINE x == Number(v, Len(c.want), Base)
           y == Number(c.want, Len(c.want), Base)
           order == CompareN(v, c.want)
<1>1. c.want \in Version /\ c.op \in Ops
  BY DEF Comparator
<1>2. /\ x \in Nat /\ y \in Nat
      /\ \/ order = 0 /\ x = y
         \/ order = -1 /\ x < y
         \/ order = 1 /\ x > y
  BY <1>1, OrderIsOfNumbers
<1>3. /\ order = 0 <=> x = y
      /\ order > 0 <=> x > y
      /\ order >= 0 <=> x >= y
      /\ order < 0 <=> x < y
      /\ order <= 0 <=> x <= y
  <2> HIDE DEF x, y, order
  <2> QED BY <1>2
<1>4. EvalComparator(v, c) <=>
        CASE c.op \in {"=", "==", ""} -> order = 0
          [] c.op = ">"  -> order > 0
          [] c.op = ">=" -> order >= 0
          [] c.op = "<"  -> order < 0
          [] c.op = "<=" -> order <= 0
  BY DEF EvalComparator
<1>5. Satisfies(v, c, Base) <=>
        CASE c.op \in {"=", "==", ""} -> x = y
          [] c.op = ">"  -> x > y
          [] c.op = ">=" -> x >= y
          [] c.op = "<"  -> x < y
          [] c.op = "<=" -> x <= y
  BY DEF Satisfies
<1> HIDE DEF x, y, order
<1> QED BY <1>1, <1>3, <1>4, <1>5 DEF Ops

(* A version is too old or too new for check if it is as a number.  A      *)
(* comparator that cannot be parsed ends the comparison.                   *)
LEMMA VersionsAreMeant ==
  ASSUME NEW v \in Version, Below(v, Base), NEW r \in Requirement,
         \A i \in 1..Len(r) : Below(r[i].want, Base)
  PROVE  CheckVersion(v, r) = "no" <=> ~MeetsVersion(v, r)
<1> DEFINE Fails(i) == r[i].want = <<>> \/ ~EvalComparator(v, r[i])
           failing  == {i \in 1..Len(r) : Fails(i)}
           first    == CHOOSE i \in failing : \A j \in failing : i <= j
<1>1. CheckVersion(v, r) =
        IF v = <<>> THEN "unparsed"
        ELSE IF failing = {} THEN "ok"
        ELSE IF r[first].want = <<>> THEN "unparsed" ELSE "no"
  BY DEF CheckVersion
<1>2. Len(r) \in Nat /\ \A i \in 1..Len(r) : r[i] \in Comparator
  BY DEF Requirement
<1>3. \A i \in 1..Len(r) : EvalComparator(v, r[i]) <=> Satisfies(v, r[i], Base)
  BY <1>2, ComparatorsAreMeant
<1>4. MeetsVersion(v, r) <=>
        \/ v = <<>>
        \/ \A i \in 1..Len(r) : \/ \E j \in 1..i : r[j].want = <<>>
                               \/ EvalComparator(v, r[i])
  BY <1>3 DEF MeetsVersion
<1>5. CASE v = <<>>
  BY <1>1, <1>4, <1>5
<1>6. CASE v # <<>> /\ failing = {}
  BY <1>1, <1>4, <1>6
<1>7. CASE v # <<>> /\ failing # {}
  <2>1. first \in failing /\ \A j \in failing : first <= j
    <3>1. failing \in SUBSET Nat
      BY <1>2
    <3> HIDE DEF failing
    <3>2. \E i \in failing : \A j \in failing : i <= j
      BY <1>7, <3>1, LeastNumber
    <3> QED BY <3>2
  <2> HIDE DEF first
  <2>2. first \in 1..Len(r)
    BY <2>1
  <2>3. \A j \in 1..Len(r) : j < first => ~Fails(j)
    BY <1>2, <2>1, <2>2
  <2>4. CASE r[first].want = <<>>
    <3>1. ASSUME NEW i \in 1..Len(r), ~EvalComparator(v, r[i])
          PROVE  \E j \in 1..i : r[j].want = <<>>
      <4>1. first <= i
        BY <2>1, <3>1
      <4> QED BY <1>2, <2>2, <2>4, <4>1
    <3>2. MeetsVersion(v, r)
      BY <1>4, <3>1
    <3> QED BY <1>1, <1>7, <2>4, <3>2
  <2>5. CASE r[first].want # <<>>
    <3>1. ~EvalComparator(v, r[first])
      BY <2>1, <2>5
    <3>2. ~\E j \in 1..first : r[j].want = <<>>
      BY <1>2, <2>2, <2>3, <2>5
    <3>3. ~MeetsVersion(v, r)
      BY <1>4, <1>7, <2>2, <3>1, <3>2
    <3> QED BY <1>1, <1>7, <2>5, <3>3
  <2> QED BY <2>4, <2>5
<1> QED BY <1>5, <1>6, <1>7
-----------------------------------------------------------------------------
(* What makes the report of each section critical.                         *)
LEMMA ToolsFail ==
  ASSUME NEW c, NEW s
  PROVE  Failed(RuntimeItems(c, s)) <=>
           \E n \in (DOMAIN c.runtimes \ c.ignored) \cap RuntimeNames :
             \/ ~s.tools[n].present
             \/ c.runtimes[n] # <<>> /\ CheckVersion(s.tools[n].version, c.runtimes[n]) = "no"
<1> DEFINE wanted == DOMAIN c.runtimes \ c.ignored
           known  == wanted \cap RuntimeNames
           absent == {n \in known : ~s.tools[n].present}
           Result(n) == IF c.runtimes[n] = <<>> THEN "ok"
                        ELSE CheckVersion(s.tools[n].version, c.runtimes[n])
<1>1. RuntimeItems(c, s) =
        {Item("Runtime", n, "warning") : n \in wanted \ RuntimeNames}
          \union {Item("Runtime", n, "critical") : n \in absent}
          \union {Item("Runtime", n, Level(Result(n) = "no")) :
                    n \in {m \in known \ absent : Result(m) # "ok"}}
  BY DEF RuntimeItems
<1>2. \A n, l : Item("Runtime", n, l).severity = l
  BY DEF Item
<1>3. \A n : Level(Result(n) = "no") = "critical" <=> Result(n) = "no"
  BY DEF Level
<1>4. Failed(RuntimeItems(c, s)) <=> \E n \in known : ~s.tools[n].present \/ Result(n) = "no"
  <2> HIDE DEF Result, wanted
  <2> QED BY <1>1, <1>2, <1>3 DEF Failed
<1>5. \A n : Result(n) = "no" <=>
               c.runtimes[n] # <<>> /\ CheckVersion(s.tools[n].version, c.runtimes[n]) = "no"
  OBVIOUS
<1> HIDE DEF Result
<1> QED BY <1>4, <1>5

LEMMA FailedUnion ==
  ASSUME NEW A, NEW B
  PROVE  Failed(A \union B) <=> Failed(A) \/ Failed(B)
BY DEF Failed

LEMMA FailedEach ==
  ASSUME NEW section, NEW level, NEW S
  PROVE  Failed({Item(section, x, level) : x \in S}) <=> level = "critical" /\ S # {}
<1>1. \A x : Item(section, x, level).severity = level
  BY DEF Item
<1> QED BY <1>1 DEF Failed

LEMMA FailedWhen ==
  ASSUME NEW condition \in BOOLEAN, NEW section, NEW name, NEW level
  PROVE  Failed(When(condition, Item(section, name, level))) <=> level = "critical" /\ condition
<1>1. Item(section, name, level).severity = level
  BY DEF Item
<1>2. CASE condition
  BY <1>1, <1>2 DEF Failed, When
<1>3. CASE ~condition
  BY <1>3 DEF Failed, When
<1> QED BY <1>2, <1>3

LEMMA WarningsDoNotFail ==
  ASSUME NEW condition, NEW section, NEW name
  PROVE  ~Failed(When(condition, Item(section, name, "warning")))
<1>1. Item(section, name, "warning").severity = "warning"
  BY DEF Item
<1>2. \A item \in When(condition, Item(section, name, "warning")) : item.severity = "warning"
  BY <1>1 DEF When
<1> QED BY <1>2 DEF Failed

LEMMA EnvFails ==
  ASSUME NEW c, NEW now
  PROVE  Failed(EnvItems(c, now)) <=> ~(c.required \subseteq now.env)
<1>1. Failed(When(c.required \ now.env # {}, Item("Env", "required", "critical")))
        <=> c.required \ now.env # {}
  BY FailedWhen
<1>2. ~Failed(When(c.recommended \ now.env # {}, Item("Env", "recommended", "warning")))
  BY WarningsDoNotFail
<1> QED BY <1>1, <1>2, FailedUnion DEF EnvItems

LEMMA EnvSafetyFails ==
  ASSUME NEW s, s.envTracked \in BOOLEAN
  PROVE  Failed(EnvSafetyItems(s)) <=> s.envTracked
<1>1. Failed(When(s.envTracked, Item("EnvSafety", "tracked", "critical"))) <=> s.envTracked
  BY FailedWhen
<1>2. ~Failed({Item("EnvSafety", risk, "warning") : risk \in s.envRisks})
  BY FailedEach
<1> QED BY <1>1, <1>2, FailedUnion DEF EnvSafetyItems

LEMMA PortsFail ==
  ASSUME NEW c, NEW now
  PROVE  Failed(PortItems(c, now)) <=>
           ~(c.listening \subseteq now.listening /\ c.free \cap now.listening = {})
<1> DEFINE ports == (c.listening \ now.listening) \union (c.free \cap now.listening)
<1>1. PortItems(c, now) = {Item("Port", p, "critical") : p \in ports}
  BY DEF PortItems
<1>2. Failed({Item("Port", p, "critical") : p \in ports}) <=> ports # {}
  <2> HIDE DEF ports
  <2> QED BY FailedEach
<1> QED BY <1>1, <1>2

GitReady(c, git) ==
  /\ c.branch # "" => git.present /\ git.branch = c.branch
  /\ c.requireClean => git.present /\ ~git.dirty /\ ~git.untracked

LEMMA GitFails ==
  ASSUME NEW c, NEW s, c.requireClean \in BOOLEAN, c.warnDirty \in BOOLEAN,
         s.git.dirty \in BOOLEAN, s.git.untracked \in BOOLEAN
  PROVE  Failed(GitItems(c, s)) <=> ~GitReady(c, s.git)
<1> DEFINE unclean == s.git.dirty \/ s.git.untracked
           none    == When(c.branch # "" \/ c.requireClean, Item("Git", "repository", "critical"))
           other   == When(c.branch # "" /\ s.git.branch # c.branch, Item("Git", "branch", "critical"))
           changed == When(unclean /\ (c.requireClean \/ c.warnDirty),
                           Item("Git", "working tree", Level(c.requireClean)))
<1>1. GitItems(c, s) = IF ~s.git.present THEN none ELSE other \union changed
  BY DEF GitItems
<1>2. Failed(none) <=> c.branch # "" \/ c.requireClean
  BY FailedWhen
<1>3. Failed(other) <=> c.branch # "" /\ s.git.branch # c.branch
  BY FailedWhen
<1>4. Failed(changed) <=> unclean /\ c.requireClean
  <2>1. Failed(changed) <=> Level(c.requireClean) = "critical" /\ unclean /\ (c.requireClean \/ c.warnDirty)
    BY FailedWhen
  <2>2. Level(c.requireClean) = "critical" <=> c.requireClean
    BY DEF Level
  <2> QED BY <2>1, <2>2
<1>5. Failed(other \union changed) <=> Failed(other) \/ Failed(changed)
  BY FailedUnion
<1> HIDE DEF none, other, changed
<1>6. CASE s.git.present
  BY <1>1, <1>3, <1>4, <1>5, <1>6 DEF GitReady
<1>7. CASE ~s.git.present
  BY <1>1, <1>2, <1>7 DEF GitReady
<1> QED BY <1>6, <1>7

LEMMA PathFails ==
  ASSUME NEW c, NEW s
  PROVE  Failed(PathItems(c, s)) <=> ~(c.commands \subseteq s.commands)
<1> DEFINE missing == c.commands \ s.commands
<1>1. PathItems(c, s) = {Item("Path", cmd, "critical") : cmd \in missing}
  BY DEF PathItems
<1>2. Failed({Item("Path", cmd, "critical") : cmd \in missing}) <=> missing # {}
  <2> HIDE DEF missing
  <2> QED BY FailedEach
<1> QED BY <1>1, <1>2

LEMMA DockerFails ==
  ASSUME NEW c, NEW s, NEW now, c.docker.required \in BOOLEAN, s.docker.present \in BOOLEAN
  PROVE  Failed(DockerItems(c, s, now)) <=>
           ~ /\ c.docker.required => s.docker.present
             /\ c.docker.files \subseteq now.files
             /\ \A x \in c.docker.containers :
                  s.docker.present => HasContainer(s.docker.containers, x)
<1> DEFINE none   == When(c.docker.required /\ ~s.docker.present, Item("Docker", "runtime", "critical"))
           gone   == c.docker.files \ now.files
           files  == {Item("Docker", f, "critical") : f \in gone}
           lost   == {i \in c.docker.images : ~HasImage(s.docker.images, i)}
           images == {Item("Docker", name[1], "warning") : name \in lost}
           down   == {w \in c.docker.containers : ~HasContainer(s.docker.containers, w)}
           containers == {Item("Docker", x, "critical") : x \in down}
           running == IF ~s.docker.present THEN {} ELSE images \union containers
<1>1. DockerItems(c, s, now) = none \union files \union running
  BY DEF DockerItems
<1>2. Failed(none) <=> c.docker.required /\ ~s.docker.present
  BY FailedWhen
<1>3. Failed(files) <=> gone # {}
  <2> HIDE DEF gone
  <2> QED BY FailedEach
<1>4. ~Failed(images)
  BY DEF Failed, Item
<1>5. Failed(containers) <=> down # {}
  <2> HIDE DEF down
  <2> QED BY FailedEach
<1>6. Failed(running) <=> s.docker.present /\ down # {}
  <2>1. Failed(images \union containers) <=> Failed(images) \/ Failed(containers)
    BY FailedUnion
  <2>2. ~Failed({})
    BY DEF Failed
  <2> HIDE DEF images, containers, down
  <2> QED BY <1>4, <1>5, <2>1, <2>2
<1> HIDE DEF none, files, running
<1>7. Failed(none \union files \union running) <=> Failed(none) \/ Failed(files) \/ Failed(running)
  BY FailedUnion
<1> QED BY <1>1, <1>2, <1>3, <1>6, <1>7

LEMMA SystemFails ==
  ASSUME NEW c, NEW s
  PROVE  ~Failed(SystemItems(c, s))
<1> DEFINE arch == When(c.arch # {} /\ s.arch \notin c.arch, Item("System", "arch", "warning"))
           zone == When(c.timezone \notin {"", s.timezone}, Item("System", "timezone", "warning"))
           tongue == When(c.locale \notin {"", s.locale}, Item("System", "locale", "warning"))
           letters == When("unset" \notin {c.fs, s.fs} /\ c.fs # s.fs,
                           Item("System", "case_sensitive_fs", "warning"))
<1>1. SystemItems(c, s) = arch \union zone \union tongue \union letters
  BY DEF SystemItems
<1>2. ~Failed(arch) /\ ~Failed(zone) /\ ~Failed(tongue) /\ ~Failed(letters)
  BY WarningsDoNotFail
<1> HIDE DEF arch, zone, tongue, letters
<1> QED BY <1>1, <1>2 DEF Failed

(* The parts of Ready that are looked at in what was captured and those    *)
(* that are looked at when the report is made.                             *)
CapturedReady(c, m) ==
  /\ \A n \in (DOMAIN c.runtimes \ c.ignored) \cap RuntimeNames :
       OnPath(m, n) /\ MeetsVersion(m.version[n].version, c.runtimes[n])
  /\ ~EnvTracked(m, {})
  /\ GitReady(c, CapturedGit(m, {}))
  /\ c.commands \subseteq m.path
  /\ c.docker.required => OnPath(m, "docker")
  /\ \A x \in c.docker.containers : OnPath(m, "docker") => HasContainer(m.docker.containers, x)

PresentReady(c, m) ==
  /\ c.required \subseteq m.env
  /\ c.listening \subseteq m.listening /\ c.free \cap m.listening = {}
  /\ c.docker.files \subseteq m.files

LEMMA ReportFails ==
  ASSUME NEW c, NEW s, NEW now
  PROVE  Failed(CheckReport(c, s, now)) <=>
           \/ Failed(RuntimeItems(c, s)) \/ Failed(EnvItems(c, now)) \/ Failed(PortItems(c, now))
           \/ Failed(GitItems(c, s)) \/ Failed(PathItems(c, s)) \/ Failed(DockerItems(c, s, now))
           \/ Failed(SystemItems(c, s)) \/ Failed(EnvSafetyItems(s))
BY DEF Failed, CheckReport

(* A configuration whose commands are among those that capture looks for   *)
(* (any other is reported missing, check_v3.go:54) and whose numbers are   *)
(* below Base.                                                             *)
Judgeable(c) ==
  /\ WellTyped(c)
  /\ c.commands \subseteq Tracked
  /\ \A n \in DOMAIN c.runtimes : \A i \in 1..Len(c.runtimes[n]) : Below(c.runtimes[n][i].want, Base)

LEMMA CaptureOfGit ==
  ASSUME NEW m, NEW slow, slow \cap RepositoryCommands = {}, NEW scan
  PROVE  /\ Capture(m, slow, scan).git = CapturedGit(m, {})
         /\ Capture(m, slow, scan).envTracked = EnvTracked(m, {})
<1>1. /\ "git rev-parse" \notin slow /\ "git branch" \notin slow
      /\ "git status" \notin slow /\ "git ls-files" \notin slow
  BY DEF RepositoryCommands
<1>2. Capture(m, slow, scan).git = CapturedGit(m, slow) /\ Capture(m, slow, scan).envTracked = EnvTracked(m, slow)
  BY DEF Capture
<1> QED BY <1>1, <1>2 DEF CapturedGit, EnvTracked

LEMMA CaptureOfDocker ==
  ASSUME NEW m, NEW slow, slow \cap RepositoryCommands = {}, NEW scan
  PROVE  /\ Capture(m, slow, scan).docker.present = OnPath(m, "docker")
         /\ OnPath(m, "docker") => Capture(m, slow, scan).docker.containers = m.docker.containers
<1>1. "docker ps" \notin slow
  BY DEF RepositoryCommands
<1>2. Capture(m, slow, scan).docker = CapturedDocker(m, slow)
  BY DEF Capture
<1>3. /\ CapturedDocker(m, slow).present = OnPath(m, "docker")
      /\ CapturedDocker(m, slow).containers = Listed(m, slow, "docker ps", m.docker.containers)
  BY DEF CapturedDocker
<1> QED BY <1>1, <1>2, <1>3 DEF Listed

(* The tools that a report finds at fault are at fault; if none was slow,  *)
(* it finds all of them.                                                   *)
LEMMA ToolsAreMeant ==
  ASSUME NEW c, Judgeable(c), NEW m \in Machines, NEW slow, NEW scan,
         NEW n \in DOMAIN c.runtimes \cap RuntimeNames
  PROVE  LET tool  == Capture(m, slow, scan).tools[n]
             fault == \/ ~tool.present
                      \/ c.runtimes[n] # <<>> /\ CheckVersion(tool.version, c.runtimes[n]) = "no"
             meets == OnPath(m, n) /\ MeetsVersion(m.version[n].version, c.runtimes[n])
         IN  (fault => ~meets) /\ (n \notin slow => (~meets => fault))
<1> DEFINE v == m.version[n].version
           r == c.runtimes[n]
           tool == Capture(m, slow, scan).tools[n]
<1>1. v \in Version /\ Below(v, Base)
  BY OnboardingAssumption, BaseAssumption DEF MachineSpace
<1>2. r \in Requirement /\ \A i \in 1..Len(r) : Below(r[i].want, Base)
  BY DEF Judgeable, WellTyped
<1>3. CheckVersion(v, r) = "no" <=> ~MeetsVersion(v, r)
  BY <1>1, <1>2, VersionsAreMeant
<1>4. r = <<>> => MeetsVersion(v, r)
  BY DEF MeetsVersion
<1>5. /\ tool.present <=> OnPath(m, n)
      /\ OnPath(m, n) /\ n \notin slow => tool.version = v
      /\ n \in slow => tool.version = <<>>
  BY WhatIsCaptured
<1>6. CheckVersion(<<>>, r) # "no"
  BY SilenceIsUnparsed
<1> HIDE DEF v, r, tool
<1>7. CASE n \in slow
  BY <1>5, <1>6, <1>7 DEF v, r, tool
<1>8. CASE n \notin slow
  BY <1>3, <1>4, <1>5, <1>8 DEF v, r, tool
<1> QED BY <1>7, <1>8

(* The verdict of a report against what the configuration says: of what is *)
(* captured on the machine it was captured on, of the rest on the machine  *)
(* there is when the report is made.                                       *)
LEMMA VerdictIsMeant ==
  ASSUME NEW c, Judgeable(c), NEW m \in Machines, NEW now, NEW slow, NEW scan,
         slow \cap RepositoryCommands = {}
  PROVE  LET failed == Failed(CheckReport(c, Capture(m, slow, scan), now))
             ready  == CapturedReady(c, m) /\ PresentReady(c, now)
         IN  (failed => ~ready) /\ (slow = {} => (~ready => failed))
<1> DEFINE s == Capture(m, slow, scan)
           git == CapturedGit(m, {})
           asked == (DOMAIN c.runtimes \ c.ignored) \cap RuntimeNames
           Meets(n) == OnPath(m, n) /\ MeetsVersion(m.version[n].version, c.runtimes[n])
           tools == \A n \in asked : Meets(n)
           gitReady == GitReady(c, git)
           dockerReady == /\ c.docker.required => OnPath(m, "docker")
                          /\ c.docker.files \subseteq now.files
                          /\ \A x \in c.docker.containers :
                               OnPath(m, "docker") => HasContainer(m.docker.containers, x)
<1>1. m \in MachineSpace
  BY OnboardingAssumption
<1>2. Failed(RuntimeItems(c, s)) => ~tools
  BY ToolsFail, ToolsAreMeant
<1>3. slow = {} /\ ~tools => Failed(RuntimeItems(c, s))
  BY ToolsFail, ToolsAreMeant
<1>4. Failed(EnvItems(c, now)) <=> ~(c.required \subseteq now.env)
  BY EnvFails
<1>5. Failed(PortItems(c, now)) <=>
        ~(c.listening \subseteq now.listening /\ c.free \cap now.listening = {})
  BY PortsFail
<1>6. Failed(GitItems(c, s)) <=> ~gitReady
  <2>1. c.requireClean \in BOOLEAN /\ c.warnDirty \in BOOLEAN
    BY DEF Judgeable, WellTyped
  <2>2. s.git = git
    BY CaptureOfGit
  <2>3. git.dirty \in BOOLEAN /\ git.untracked \in BOOLEAN
    BY DEF CapturedGit
  <2> HIDE DEF s, git
  <2>4. s.git.dirty \in BOOLEAN /\ s.git.untracked \in BOOLEAN
    BY <2>2, <2>3
  <2>5. Failed(GitItems(c, s)) <=> ~GitReady(c, s.git)
    BY <2>1, <2>4, GitFails
  <2> QED BY <2>2, <2>5
<1>7. Failed(PathItems(c, s)) <=> ~(c.commands \subseteq m.path)
  <2>1. s.commands = m.path \cap Tracked
    BY DEF Capture
  <2> HIDE DEF s
  <2> QED BY <2>1, PathFails DEF Judgeable
<1>8. Failed(DockerItems(c, s, now)) <=> ~dockerReady
  <2>1. c.docker.required \in BOOLEAN
    BY DEF Judgeable, WellTyped
  <2>2. /\ s.docker.present = OnPath(m, "docker")
        /\ OnPath(m, "docker") => s.docker.containers = m.docker.containers
    BY CaptureOfDocker
  <2>3. OnPath(m, "docker") \in BOOLEAN
    BY DEF OnPath
  <2> HIDE DEF s
  <2> QED BY <2>1, <2>2, <2>3, DockerFails
<1>9. Failed(EnvSafetyItems(s)) <=> EnvTracked(m, {})
  <2>1. s.envTracked = EnvTracked(m, {})
    BY CaptureOfGit
  <2>2. EnvTracked(m, {}) \in BOOLEAN
    BY DEF EnvTracked
  <2> HIDE DEF s
  <2> QED BY <2>1, <2>2, EnvSafetyFails
<1>10. ~Failed(SystemItems(c, s))
  BY SystemFails
<1>11. CapturedReady(c, m) /\ PresentReady(c, now) <=>
         /\ tools /\ ~EnvTracked(m, {}) /\ gitReady /\ c.commands \subseteq m.path
         /\ c.required \subseteq now.env
         /\ c.listening \subseteq now.listening /\ c.free \cap now.listening = {}
         /\ dockerReady
  BY DEF CapturedReady, PresentReady, GitReady
<1>12. Failed(CheckReport(c, s, now)) <=>
         \/ Failed(RuntimeItems(c, s)) \/ Failed(EnvItems(c, now)) \/ Failed(PortItems(c, now))
         \/ Failed(GitItems(c, s)) \/ Failed(PathItems(c, s)) \/ Failed(DockerItems(c, s, now))
         \/ Failed(EnvSafetyItems(s))
  BY <1>10, ReportFails
<1> HIDE DEF tools, gitReady, dockerReady, s
<1> QED BY <1>2, <1>3, <1>4, <1>5, <1>6, <1>7, <1>8, <1>9, <1>11, <1>12 DEF s
-----------------------------------------------------------------------------
(* A configuration that init wrote can be judged by.                       *)
LEMMA MajorIsRequirement ==
  ASSUME NEW v \in Version, v # <<>>, Below(v, Base),
         NEW r, r = << [op |-> ">=", want |-> SubSeq(v, 1, 1)] >>
  PROVE  r \in Requirement /\ \A i \in 1..Len(r) : Below(r[i].want, Base)
<1> DEFINE want == SubSeq(v, 1, 1)
           c == [op |-> ">=", want |-> want]
<1>1. Len(v) \in Nat /\ Len(v) >= 1 /\ v[1] \in Nat
  BY DEF Version
<1>2. want \in Version /\ Len(want) = 1 /\ want[1] = v[1]
  BY <1>1 DEF Version
<1>3. Below(want, Base)
  <2> HIDE DEF want
  <2> QED BY <1>1, <1>2 DEF Below
<1> HIDE DEF want
<1>4. c \in Comparator /\ c.want = want
  BY <1>2 DEF Comparator, Ops
<1> HIDE DEF c
<1>5. r = <<c>>
  BY DEF c, want
<1> QED BY <1>3, <1>4, <1>5 DEF Requirement

LEMMA GeneratedIsJudgeable ==
  ASSUME NEW m \in Machines, NEW now, NEW c, MadeOf(c, m, now)
  PROVE  Judgeable(c)
<1>1. PICK slow, scan : c = Generate(Capture(m, slow, scan), now)
  BY DEF MadeOf
<1>2. /\ DOMAIN c = DOMAIN EmptyConfig
      /\ c.commands = {} /\ c.requireClean = FALSE /\ c.warnDirty = FALSE
      /\ c.docker.required = FALSE
  BY <1>1 DEF Generate, EmptyConfig
<1>4. Named(c) \subseteq RuntimeNames
  <2>1. /\ c.listening = {} /\ c.free = {} /\ c.commands = {}
        /\ c.docker = [required |-> FALSE, files |-> {}, images |-> {}, containers |-> {}]
    BY <1>1 DEF Generate, EmptyConfig
  <2>2. c.docker.files = {} /\ c.docker.images = {} /\ c.docker.containers = {}
    BY <2>1
  <2>3. DOMAIN c.runtimes \subseteq RuntimeNames
    BY WhatIsRequired
  <2> QED BY <2>1, <2>2, <2>3 DEF Named
<1>3. ASSUME NEW n \in DOMAIN c.runtimes
      PROVE  c.runtimes[n] \in Requirement /\ \A i \in 1..Len(c.runtimes[n]) : Below(c.runtimes[n][i].want, Base)
  <2>1. /\ n \in RuntimeNames
        /\ \/ c.runtimes[n] = <<>>
           \/ /\ m.version[n].clean
              /\ c.runtimes[n] = << [op |-> ">=", want |-> SubSeq(m.version[n].version, 1, 1)] >>
    BY WhatIsRequired
  <2> DEFINE v == m.version[n].version
             r == c.runtimes[n]
  <2>2. v \in Version /\ Below(v, Base) /\ (m.version[n].clean => v # <<>>)
    BY <2>1, OnboardingAssumption, BaseAssumption DEF MachineSpace
  <2> HIDE DEF r, v
  <2>3. CASE r = <<>>
    BY <2>3 DEF Requirement, r
  <2>4. CASE r # <<>>
    BY <2>1, <2>2, <2>4, MajorIsRequirement DEF r, v
  <2> QED BY <2>3, <2>4
<1> QED BY <1>2, <1>3, <1>4 DEF Judgeable, WellTyped

LEMMA EmptyIsJudgeable == Judgeable(EmptyConfig)
<1>1. /\ EmptyConfig.runtimes = <<>> /\ EmptyConfig.commands = {}
      /\ EmptyConfig.requireClean = FALSE /\ EmptyConfig.warnDirty = FALSE
      /\ EmptyConfig.docker.required = FALSE
  BY DEF EmptyConfig
<1>2. DOMAIN <<>> = {}
  OBVIOUS
<1>3. Named(EmptyConfig) = {}
  <2>1. /\ EmptyConfig.runtimes = <<>> /\ EmptyConfig.listening = {} /\ EmptyConfig.free = {}
        /\ EmptyConfig.commands = {} /\ EmptyConfig.docker.files = {}
        /\ EmptyConfig.docker.images = {} /\ EmptyConfig.docker.containers = {}
    BY DEF EmptyConfig
  <2> QED BY <1>2, <2>1 DEF Named
<1> QED BY <1>1, <1>2, <1>3 DEF Judgeable, WellTyped

LEMMA WithoutDocker ==
  ASSUME NEW c, WellTyped(c), NEW d, d = [c EXCEPT !.docker = EmptyConfig.docker]
  PROVE  /\ WellTyped(d)
         /\ Judgeable(c) => Judgeable(d)
         /\ d.docker = EmptyConfig.docker
         /\ d.runtimes = c.runtimes /\ d.ignored = c.ignored /\ d.required = c.required
         /\ d.listening = c.listening /\ d.free = c.free /\ d.branch = c.branch
         /\ d.requireClean = c.requireClean /\ d.commands = c.commands
<1>1. DOMAIN c = DOMAIN EmptyConfig /\ DOMAIN d = DOMAIN c
  BY DEF WellTyped
<1>2. DOMAIN EmptyConfig =
        {"runtimes", "ignored", "required", "recommended", "listening", "free", "branch",
         "requireClean", "warnDirty", "commands", "docker", "arch", "timezone", "locale", "fs"}
  BY DEF EmptyConfig
<1>3. /\ d.docker = EmptyConfig.docker
      /\ d.runtimes = c.runtimes /\ d.ignored = c.ignored /\ d.required = c.required
      /\ d.listening = c.listening /\ d.free = c.free /\ d.branch = c.branch
      /\ d.requireClean = c.requireClean /\ d.warnDirty = c.warnDirty /\ d.commands = c.commands
  BY <1>1, <1>2
<1>4. /\ EmptyConfig.docker.required = FALSE /\ EmptyConfig.docker.files = {}
      /\ EmptyConfig.docker.images = {} /\ EmptyConfig.docker.containers = {}
  BY DEF EmptyConfig
<1>5. Named(d) \subseteq Named(c)
  BY <1>3, <1>4 DEF Named
<1>6. WellTyped(c) => WellTyped(d)
  BY <1>1, <1>3, <1>4, <1>5 DEF WellTyped
<1> QED BY <1>3, <1>6 DEF Judgeable

(* Everyone asks only for commands that capture looks for.                 *)
TrackedCommands == \A c \in Handwritten : c.commands \subseteq Tracked

(* A configuration that can be read can be judged by, and what a command   *)
(* looked at was a machine.                                                *)
JudgeIInv ==
  /\ seen.machine \in Machines
  /\ config \in {NoConfig, Unreadable} \/ Judgeable(config)

LEMMA HandwrittenIsJudgeable ==
  ASSUME TrackedCommands, NEW c \in Handwritten
  PROVE  Judgeable(c)
BY OnboardingAssumption, BaseAssumption DEF TrackedCommands, Judgeable

LEMMA JudgeInit == ASSUME TrackedCommands, Init PROVE JudgeIInv
BY HandwrittenIsJudgeable DEF Init, JudgeIInv, NothingSeen

LEMMA JudgeStep ==
  ASSUME TrackedCommands, OriginIInv, JudgeIInv, [Next]_vars
  PROVE  JudgeIInv'
<1>1. CASE UNCHANGED vars
  BY <1>1 DEF JudgeIInv, vars
<1>2. ASSUME NEW command \in {"init", "check"}, Begin(command)
      PROVE  JudgeIInv'
  <2>1. seen'.machine = machine /\ config' = config
    BY <1>2 DEF Begin
  <2> QED BY <2>1 DEF JudgeIInv, OriginIInv
<1>3. CASE WriteConfig
  <2>1. seen'.machine \in Machines
    <3>1. seen' = NothingSeen(machine) \/ UNCHANGED seen
      BY <1>3 DEF WriteConfig, Exit
    <3> QED BY <3>1 DEF JudgeIInv, OriginIInv, NothingSeen
  <2>2. config' \in {config, EmptyConfig, Unreadable, Generate(snap, machine)}
    BY <1>3 DEF WriteConfig
  <2>3. Judgeable(Generate(snap, machine))
    <3>1. PICK scan : snap = Capture(seen.machine, seen.slow, scan)
      BY <1>3 DEF OriginIInv, WriteConfig
    <3>2. MadeOf(Generate(snap, machine), seen.machine, machine)
      BY <3>1 DEF MadeOf
    <3> QED BY <3>2, GeneratedIsJudgeable DEF JudgeIInv
  <2> QED BY <2>1, <2>2, <2>3, EmptyIsJudgeable DEF JudgeIInv
<1>4. CASE CheckConfig
  <2>1. seen' = NothingSeen(machine) /\ config' = config
    BY <1>4 DEF CheckConfig, Exit
  <2> QED BY <2>1 DEF JudgeIInv, OriginIInv, NothingSeen
<1>5. CASE MachineChanges
  BY <1>5 DEF MachineChanges, JudgeIInv
<1>6. CASE ConfigIsEdited
  BY <1>6, HandwrittenIsJudgeable DEF ConfigIsEdited, JudgeIInv
<1> QED BY <1>1, <1>2, <1>3, <1>4, <1>5, <1>6 DEF Next

LEMMA ReadyIsBoth ==
  ASSUME NEW d, Judgeable(config),
         d = IF flags.noDocker THEN [config EXCEPT !.docker = EmptyConfig.docker] ELSE config,
         NEW m
  PROVE  Ready(config, m) <=> CapturedReady(d, m) /\ PresentReady(d, m)
<1>1. /\ d.docker = IF flags.noDocker THEN EmptyConfig.docker ELSE config.docker
      /\ d.runtimes = config.runtimes /\ d.ignored = config.ignored /\ d.required = config.required
      /\ d.listening = config.listening /\ d.free = config.free /\ d.branch = config.branch
      /\ d.requireClean = config.requireClean /\ d.commands = config.commands
  BY WithoutDocker DEF Judgeable
<1> QED BY <1>1 DEF Ready, CapturedReady, PresentReady, GitReady

(* One verdict of check.                                                   *)
LEMMA OneVerdict ==
  ASSUME OriginIInv, JudgeIInv, Next, Judged
  PROVE  /\ seen.machine = machine /\ seen.slow = {} => (code' = 0 <=> Ready(config, machine))
         /\ code' = 1 /\ seen.slow \subseteq RuntimeNames =>
              ~Ready(config, seen.machine) \/ ~Ready(config, machine)
<1> DEFINE d == IF flags.noDocker THEN [config EXCEPT !.docker = EmptyConfig.docker] ELSE config
           failed == Failed(CheckReport(d, snap, machine))
<1>1. CheckConfig
  BY DEF Judged, Next, Begin, WriteConfig, MachineChanges, ConfigIsEdited
<1>2. config \notin {NoConfig, Unreadable} /\ code' = IF failed THEN 1 ELSE 0
  BY <1>1 DEF CheckConfig, Exit, Judged
<1>3. Judgeable(config) /\ Judgeable(d)
  BY <1>2, WithoutDocker DEF JudgeIInv, Judgeable
<1>4. PICK scan : snap = Capture(seen.machine, seen.slow, scan)
  BY DEF OriginIInv, Judged
<1>5. \A m : Ready(config, m) <=> CapturedReady(d, m) /\ PresentReady(d, m)
  BY <1>3, ReadyIsBoth
<1>6. seen.slow = {} \/ seen.slow \subseteq RuntimeNames => seen.slow \cap RepositoryCommands = {}
  BY DEF RuntimeNames, RepositoryCommands
<1> HIDE DEF d
<1>7. seen.slow \cap RepositoryCommands = {} =>
        /\ failed => ~(CapturedReady(d, seen.machine) /\ PresentReady(d, machine))
        /\ seen.slow = {} =>
             (~(CapturedReady(d, seen.machine) /\ PresentReady(d, machine)) => failed)
  BY <1>3, <1>4, VerdictIsMeant DEF JudgeIInv
<1> HIDE DEF failed
<1> QED BY <1>2, <1>5, <1>6, <1>7

(* check finds a setup ready exactly if it is, on every machine and for    *)
(* every configuration that init or a person writes, whatever the numbers  *)
(* in the versions, as long as nobody asks for a command that capture does *)
(* not look for (check.Run, verreq, capture).                              *)
THEOREM VerdictsAreTrue ==
  ASSUME TrackedCommands
  PROVE  Spec => ReadyMeansReady
<1>1. Init => JudgeIInv
  BY JudgeInit
<1>2. OriginIInv /\ JudgeIInv /\ [Next]_vars => JudgeIInv'
  BY JudgeStep
<1>3. OriginIInv /\ JudgeIInv /\ [Next]_vars =>
        [Judged =>
           /\ seen.machine = machine /\ seen.slow = {} => (code' = 0 <=> Ready(config, machine))
           /\ code' = 1 /\ seen.slow \subseteq RuntimeNames =>
                ~Ready(config, seen.machine) \/ ~Ready(config, machine)]_vars
  BY OneVerdict
<1> QED BY <1>1, <1>2, <1>3, OriginInvariant, PTL DEF Spec, ReadyMeansReady
-----------------------------------------------------------------------------
(* The types.                                                              *)
Sections == {"Runtime", "Env", "EnvSafety", "Port", "Git", "Path", "Docker", "System"}
Names    == STRING \union RuntimeNames \union Words

LEMMA ItemTyped ==
  ASSUME NEW section \in Sections, NEW name \in Names, NEW severity \in {"critical", "warning"}
  PROVE  Item(section, name, severity) \in Items
BY DEF Item, Items, Sections, Names

LEMMA WhenTyped ==
  ASSUME NEW condition, NEW section \in Sections, NEW word \in Words,
         NEW severity \in {"critical", "warning"}
  PROVE  When(condition, Item(section, word, severity)) \subseteq Items
<1>1. Item(section, word, severity) \in Items
  BY ItemTyped DEF Names
<1> QED BY <1>1 DEF When

LEMMA EachTyped ==
  ASSUME NEW section \in Sections, NEW severity \in {"critical", "warning"}, NEW S \in SUBSET Names
  PROVE  {Item(section, x, severity) : x \in S} \subseteq Items
BY ItemTyped

LEMMA LevelTyped == \A x : Level(x) \in {"critical", "warning"}
BY DEF Level

LEMMA ReportTyped ==
  ASSUME NEW c, WellTyped(c), NEW s, s.envRisks \subseteq Words, NEW now
  PROVE  CheckReport(c, s, now) \subseteq Items
<1>1. /\ {"Runtime", "Env", "EnvSafety", "Port", "Git", "Path", "Docker", "System"} \subseteq Sections
      /\ {"required", "recommended", "tracked", "repository", "branch", "working tree", "runtime",
          "arch", "timezone", "locale", "case_sensitive_fs"} \subseteq Words
      /\ \A word \in Words : word \in Names
  BY DEF Sections, Words, Names
<1>2. /\ DOMAIN c.runtimes \subseteq Names /\ c.listening \subseteq Names /\ c.free \subseteq Names
      /\ c.commands \subseteq Names /\ c.docker.files \subseteq Names
      /\ c.docker.containers \subseteq Names /\ \A image \in c.docker.images : image[1] \in Names
  <2>1. Named(c) \subseteq Names
    BY DEF WellTyped, Names
  <2>2. {image[1] : image \in c.docker.images} \subseteq Names
    BY <2>1 DEF Named
  <2> HIDE DEF Names
  <2> QED BY <2>1, <2>2 DEF Named
<1>3. RuntimeItems(c, s) \subseteq Items
  <2> DEFINE wanted == DOMAIN c.runtimes \ c.ignored
             known  == wanted \cap RuntimeNames
             absent == {n \in known : ~s.tools[n].present}
             Result(n) == IF c.runtimes[n] = <<>> THEN "ok"
                          ELSE CheckVersion(s.tools[n].version, c.runtimes[n])
  <2>1. RuntimeItems(c, s) =
          {Item("Runtime", n, "warning") : n \in wanted \ RuntimeNames}
            \union {Item("Runtime", n, "critical") : n \in absent}
            \union {Item("Runtime", n, Level(Result(n) = "no")) :
                      n \in {m \in known \ absent : Result(m) # "ok"}}
    BY DEF RuntimeItems
  <2>2. \A n \in wanted : \A severity \in {"critical", "warning"} : Item("Runtime", n, severity) \in Items
    BY <1>1, <1>2, ItemTyped
  <2> HIDE DEF wanted, Result
  <2> QED BY <2>1, <2>2, LevelTyped
<1>4. EnvItems(c, now) \subseteq Items
  BY <1>1, WhenTyped DEF EnvItems
<1>5. EnvSafetyItems(s) \subseteq Items
  <2>1. When(s.envTracked, Item("EnvSafety", "tracked", "critical")) \subseteq Items
    BY <1>1, WhenTyped
  <2>2. {Item("EnvSafety", risk, "warning") : risk \in s.envRisks} \subseteq Items
    BY <1>1, ItemTyped
  <2> QED BY <2>1, <2>2 DEF EnvSafetyItems
<1>6. PortItems(c, now) \subseteq Items
  <2>1. \A p \in (c.listening \ now.listening) \union (c.free \cap now.listening) :
          Item("Port", p, "critical") \in Items
    BY <1>1, <1>2, ItemTyped
  <2> QED BY <2>1 DEF PortItems
<1>7. GitItems(c, s) \subseteq Items
  <2>1. \A condition : When(condition, Item("Git", "repository", "critical")) \subseteq Items
    BY <1>1, WhenTyped
  <2>2. \A condition : When(condition, Item("Git", "branch", "critical")) \subseteq Items
    BY <1>1, WhenTyped
  <2>3. \A condition : When(condition, Item("Git", "working tree", Level(c.requireClean))) \subseteq Items
    BY <1>1, WhenTyped, LevelTyped
  <2> QED BY <2>1, <2>2, <2>3 DEF GitItems
<1>8. PathItems(c, s) \subseteq Items
  <2>1. \A cmd \in c.commands : Item("Path", cmd, "critical") \in Items
    BY <1>1, <1>2, ItemTyped
  <2> QED BY <2>1 DEF PathItems
<1>9. DockerItems(c, s, now) \subseteq Items
  <2>1. \A condition : When(condition, Item("Docker", "runtime", "critical")) \subseteq Items
    BY <1>1, WhenTyped
  <2>2. \A f \in c.docker.files : Item("Docker", f, "critical") \in Items
    BY <1>1, <1>2, ItemTyped
  <2>3. \A i \in c.docker.images : Item("Docker", i[1], "warning") \in Items
    BY <1>1, <1>2, ItemTyped
  <2>4. \A x \in c.docker.containers : Item("Docker", x, "critical") \in Items
    BY <1>1, <1>2, ItemTyped
  <2> QED BY <2>1, <2>2, <2>3, <2>4 DEF DockerItems
<1>10. SystemItems(c, s) \subseteq Items
  <2>1. \A condition : /\ When(condition, Item("System", "arch", "warning")) \subseteq Items
                       /\ When(condition, Item("System", "timezone", "warning")) \subseteq Items
                       /\ When(condition, Item("System", "locale", "warning")) \subseteq Items
                       /\ When(condition, Item("System", "case_sensitive_fs", "warning")) \subseteq Items
    BY <1>1, WhenTyped
  <2> QED BY <2>1 DEF SystemItems
<1> QED BY <1>3, <1>4, <1>5, <1>6, <1>7, <1>8, <1>9, <1>10 DEF CheckReport

LEMMA RisksAreWords ==
  ASSUME NEW m, NEW slow, NEW scan
  PROVE  Capture(m, slow, scan).envRisks \subseteq Words
BY DEF Capture, EnvRisks, When, Words

(* What init wrote has requirements that can be parsed.                    *)
LEMMA GeneratedIsOK ==
  ASSUME NEW m \in Machines, NEW now, NEW c, MadeOf(c, m, now)
  PROVE  ConfigOK(c)
<1>1. WellTyped(c)
  BY GeneratedIsJudgeable DEF Judgeable
<1>2. ASSUME NEW n \in DOMAIN c.runtimes, NEW i \in 1..Len(c.runtimes[n])
      PROVE  c.runtimes[n][i].want # <<>>
  <2>1. /\ n \in RuntimeNames
        /\ \/ c.runtimes[n] = <<>>
           \/ /\ m.version[n].clean
              /\ c.runtimes[n] = << [op |-> ">=", want |-> SubSeq(m.version[n].version, 1, 1)] >>
    BY WhatIsRequired
  <2> DEFINE v == m.version[n].version
             want == SubSeq(v, 1, 1)
  <2>2. c.runtimes[n] # <<>>
    BY <1>2
  <2>3. v \in Version /\ v # <<>>
    BY <2>1, <2>2, OnboardingAssumption DEF MachineSpace
  <2>4. c.runtimes[n] = << [op |-> ">=", want |-> want] >>
    BY <2>1, <2>2
  <2>5. Len(v) >= 1
    BY <2>3 DEF Version
  <2>6. want # <<>>
    <3>1. Len(want) = 1
      BY <2>3, <2>5 DEF Version
    <3> HIDE DEF want
    <3> QED BY <3>1
  <2> HIDE DEF want
  <2>7. i = 1 /\ c.runtimes[n][1].want = want
    BY <2>4
  <2> QED BY <2>6, <2>7
<1> QED BY <1>1, <1>2 DEF ConfigOK

LEMMA EmptyIsOK == ConfigOK(EmptyConfig)
<1>1. EmptyConfig.runtimes = <<>> /\ DOMAIN <<>> = {}
  BY DEF EmptyConfig
<1> QED BY <1>1, EmptyIsJudgeable DEF ConfigOK, Judgeable

TypeIInv ==
  /\ TypeOK
  /\ seen.machine \in Machines
  /\ config \in {NoConfig, Unreadable} \/ WellTyped(config)

LEMMA TypeInit == Init => TypeIInv
<1> SUFFICES ASSUME Init PROVE TypeIInv
  OBVIOUS
<1>1. flags \in FlagSpace
  BY DEF Init, NoFlags, FlagSpace
<1>2. MaxEdits \in Nat
  BY OnboardingAssumption
<1>3. TypeOK
  BY <1>1, <1>2 DEF Init, TypeOK
<1>4. config \in {NoConfig, Unreadable} \/ WellTyped(config)
  BY OnboardingAssumption DEF Init
<1> QED BY <1>3, <1>4 DEF Init, TypeIInv, NothingSeen

LEMMA TypeStep ==
  ASSUME OriginIInv, TypeIInv, [Next]_vars
  PROVE  TypeIInv'
<1>1. NoFlags \in FlagSpace
  BY DEF NoFlags, FlagSpace
<1>2. CASE UNCHANGED vars
  BY <1>2 DEF TypeIInv, TypeOK, vars
<1>3. ASSUME NEW command \in {"init", "check"}, Begin(command)
      PROVE  TypeIInv'
  <2>1. /\ main' = command /\ flags' \in FlagSpace /\ seen'.machine = machine
        /\ code' = -1 /\ report' = {} /\ UNCHANGED <<machine, config, origin, edits>>
    BY <1>3 DEF Begin, FlagsOf
  <2> QED BY <2>1 DEF TypeIInv, TypeOK
<1>4. CASE WriteConfig
  <2>1. /\ main' = "idle" /\ flags' = NoFlags /\ code' \in {0, 2}
        /\ UNCHANGED <<machine, report, edits>> /\ seen' = NothingSeen(machine)
    BY <1>4 DEF WriteConfig, Exit
  <2>2. seen'.machine \in Machines
    BY <2>1 DEF TypeIInv, TypeOK, NothingSeen
  <2>3. origin' \subseteq Machines
    BY <1>4 DEF WriteConfig, TypeIInv, TypeOK
  <2>4. config' \in {config, Unreadable} \/ ConfigOK(config')
    <3>1. config' \in {config, EmptyConfig, Unreadable, Generate(snap, machine)}
      BY <1>4 DEF WriteConfig
    <3>2. ConfigOK(Generate(snap, machine))
      <4>1. PICK scan : snap = Capture(seen.machine, seen.slow, scan)
        BY <1>4 DEF OriginIInv, WriteConfig
      <4>2. MadeOf(Generate(snap, machine), seen.machine, machine)
        BY <4>1 DEF MadeOf
      <4> QED BY <4>2, GeneratedIsOK DEF TypeIInv
    <3> QED BY <3>1, <3>2, EmptyIsOK
  <2>5. config' \notin Handwritten \union {NoConfig, Unreadable} => ConfigOK(config')
    BY <2>4 DEF TypeIInv, TypeOK
  <2>6. config' \in {NoConfig, Unreadable} \/ WellTyped(config')
    BY <2>4 DEF TypeIInv, ConfigOK
  <2>7. TypeOK'
    BY <1>1, <2>1, <2>3, <2>5 DEF TypeIInv, TypeOK
  <2> QED BY <2>2, <2>6, <2>7 DEF TypeIInv
<1>5. CASE CheckConfig
  <2>1. /\ main' = "idle" /\ flags' = NoFlags /\ code' \in {0, 1, 2}
        /\ UNCHANGED <<machine, config, origin, edits>> /\ seen' = NothingSeen(machine)
    BY <1>5 DEF CheckConfig, Exit
  <2>2. report' \subseteq Items
    <3>1. CASE report' = report
      BY <3>1 DEF TypeIInv, TypeOK
    <3>2. CASE report' # report
      <4> DEFINE d == IF flags.noDocker THEN [config EXCEPT !.docker = EmptyConfig.docker] ELSE config
      <4>1. config \notin {NoConfig, Unreadable} /\ report' = CheckReport(d, snap, machine)
        BY <1>5, <3>2 DEF CheckConfig
      <4>2. WellTyped(d)
        BY <4>1, WithoutDocker DEF TypeIInv
      <4>3. PICK scan : snap = Capture(seen.machine, seen.slow, scan)
        BY <1>5 DEF OriginIInv, CheckConfig
      <4>4. snap.envRisks \subseteq Words
        BY <4>3, RisksAreWords
      <4> HIDE DEF d
      <4> QED BY <4>1, <4>2, <4>4, ReportTyped
    <3> QED BY <3>1, <3>2
  <2>3. seen'.machine \in Machines
    BY <2>1 DEF TypeIInv, TypeOK, NothingSeen
  <2>4. TypeOK'
    BY <1>1, <2>1, <2>2 DEF TypeIInv, TypeOK
  <2> QED BY <2>1, <2>3, <2>4 DEF TypeIInv
<1>6. CASE MachineChanges
  <2>1. edits' \in 0..MaxEdits
    BY <1>6, OnboardingAssumption DEF MachineChanges, TypeIInv, TypeOK
  <2>2. machine' \in Machines /\ UNCHANGED <<config, main, flags, seen, report, code, origin>>
    BY <1>6 DEF MachineChanges
  <2> QED BY <2>1, <2>2 DEF TypeIInv, TypeOK
<1>7. CASE ConfigIsEdited
  <2>1. edits' \in 0..MaxEdits
    BY <1>7, OnboardingAssumption DEF ConfigIsEdited, TypeIInv, TypeOK
  <2>2. /\ config' \in Handwritten \union {Unreadable} /\ origin' = {}
        /\ UNCHANGED <<machine, main, flags, seen, report, code>>
    BY <1>7 DEF ConfigIsEdited
  <2>3. config' \in {NoConfig, Unreadable} \/ WellTyped(config')
    BY <2>2, OnboardingAssumption
  <2>4. TypeOK'
    BY <2>1, <2>2 DEF TypeIInv, TypeOK
  <2> QED BY <2>2, <2>3, <2>4 DEF TypeIInv
<1> QED BY <1>2, <1>3, <1>4, <1>5, <1>6, <1>7 DEF Next

(* Every variable keeps its type, and a configuration that init wrote has  *)
(* requirements that check can parse (requirementFor, majorOf).            *)
THEOREM OnboardingTypes == Spec => []TypeOK
<1>1. OriginIInv /\ TypeIInv /\ [Next]_vars => TypeIInv'
  BY TypeStep
<1>2. TypeIInv => TypeOK
  BY DEF TypeIInv
<1> QED BY <1>1, <1>2, TypeInit, OriginInvariant, PTL DEF Spec
=============================================================================
