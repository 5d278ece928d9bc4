--------------------------- MODULE BaselinesProofs ---------------------------
(* Proofs about the comparison of machines: a comparison is the same from   *)
(* both sides, a baseline stands in for the machine it was made on, nobody  *)
(* whose snapshot was there is left out of a summary, and a summary says    *)
(* of each machine what a diff would.                                       *)
EXTENDS Baselines, TLAPS, FiniteSetTheorems, SequenceTheorems

(* A snapshot, sanitized or not, in what is compared: only a tool that is  *)
(* there has a version.                                                    *)
Sound(s) == \A n \in RuntimeNames : /\ ~s.runtimes[n].present => s.runtimes[n].version = <<>>
                                    /\ s.runtimes[n].clean => s.runtimes[n].version # <<>>

Comparable(s) == s.runtimes \in [RuntimeNames -> Tool] /\ Sound(s)

(* Two tools that are not there do not differ.                             *)
LEMMA AbsentToolsAgree ==
  ASSUME NEW s, NEW t, Comparable(s), Comparable(t),
         NEW n \in RuntimeNames, ~s.runtimes[n].present, ~t.runtimes[n].present
  PROVE  s.runtimes[n] = t.runtimes[n]
<1>1. s.runtimes[n] \in Tool /\ t.runtimes[n] \in Tool
  BY DEF Comparable
<1>2. s.runtimes[n].version = <<>> /\ t.runtimes[n].version = <<>>
  BY DEF Comparable, Sound
<1>3. ~s.runtimes[n].clean /\ ~t.runtimes[n].clean
  BY <1>2 DEF Comparable, Sound
<1> QED BY <1>1, <1>2, <1>3 DEF Tool
-----------------------------------------------------------------------------
(* The entry of a runtime that differs, once the project is known.         *)
Lacking(required, n, x, y) == n \in required /\ (~x.present \/ ~y.present)
Clash(x, y) == x.present /\ y.present /\ MajorDiffers(x, y)

RuntimeEntry(required, n, x, y, nameA, nameB) ==
  Entry("Runtime", n, <<"tool", x>>, <<"tool", y>>,
        IF Lacking(required, n, x, y) \/ Clash(x, y) THEN "critical" ELSE "difference",
        IF Lacking(required, n, x, y) THEN <<"missing", n, IF ~x.present THEN nameA ELSE nameB>>
        ELSE IF Clash(x, y) THEN <<"major", n, x.version, y.version>> ELSE <<>>)

Differing(s, t) == {n \in RuntimeNames : s.runtimes[n] # t.runtimes[n]}

(* The entry of a side that lacks keys, of which there are at most two.    *)
EnvEntry(side, keys) ==
  Entry("Env", ".env keys",
        <<"missing", IF side = "A" THEN keys ELSE {}>>,
        <<"missing", IF side = "B" THEN keys ELSE {}>>,
        "critical", <<"absent", side, keys>>)

SideEntries(side, keys) == {EnvEntry(side, k) : k \in {keys} \ {{}}}

LEMMA SideEntry ==
  ASSUME NEW side, NEW keys
  PROVE  /\ SideEntries(side, keys) = IF keys = {} THEN {} ELSE {EnvEntry(side, keys)}
         /\ EnvEntry(side, keys).category = "Env" /\ EnvEntry(side, keys).severity = "critical"
<1>1. EnvEntry(side, keys).category = "Env" /\ EnvEntry(side, keys).severity = "critical"
  BY DEF EnvEntry, Entry
<1>2. SideEntries(side, keys) = IF keys = {} THEN {} ELSE {EnvEntry(side, keys)}
  <2> HIDE DEF EnvEntry
  <2> QED BY DEF SideEntries
<1> QED BY <1>1, <1>2

LEMMA EnvBySide ==
  ASSUME NEW x, NEW y
  PROVE  EnvEntries(x, y) = SideEntries("B", y \ x) \union SideEntries("A", x \ y)
<1>1. \A side, keys : SideEntries(side, keys) = When(keys # {}, EnvEntry(side, keys))
  BY DEF SideEntries, When
<1> QED BY <1>1 DEF EnvEntries, EnvEntry

(* A comparison, section by section.                                       *)
LEMMA DiffBySection ==
  ASSUME NEW s, NEW t, NEW A, NEW B
  PROVE  Diff(s, t, A, B) =
           EnvironmentEntries(s.environment, t.environment) \union PortEntries(s.ports, t.ports)
             \union EnvEntries(s.missing, t.missing)
             \union {RuntimeEntry(RequiredRuntimes(s.manifests \union t.manifests), n,
                                  s.runtimes[n], t.runtimes[n], A, B) : n \in Differing(s, t)}
<1> DEFINE required == RequiredRuntimes(s.manifests \union t.manifests)
           Lacks(side) == side[1] = "tool" /\ ~side[2].present
           Concerned(e) == e.category = "Runtime" /\ e.name \in required /\ (Lacks(e.a) \/ Lacks(e.b))
           Raised(e) == IF Concerned(e)
                        THEN [e EXCEPT !.severity = "critical",
                                       !.blocker = <<"missing", e.name, IF Lacks(e.a) THEN A ELSE B>>]
                        ELSE e
           Others == EnvironmentEntries(s.environment, t.environment) \union PortEntries(s.ports, t.ports)
                       \union EnvEntries(s.missing, t.missing)
           R(n) == CompareRuntime(n, s.runtimes[n], t.runtimes[n])
           F(n) == RuntimeEntry(required, n, s.runtimes[n], t.runtimes[n], A, B)
<1>1. Diff(s, t, A, B) = {Raised(e) : e \in Others \union RuntimeEntries(s.runtimes, t.runtimes)}
  BY DEF Diff, ApplyProjectContext, Compare
<1>2. \A e \in Others : e.category # "Runtime"
  <2>1. \A e \in EnvironmentEntries(s.environment, t.environment) : e.category # "Runtime"
    BY DEF EnvironmentEntries, Entry
  <2>2. \A e \in PortEntries(s.ports, t.ports) : e.category # "Runtime"
    BY DEF PortEntries, Entry
  <2>3. \A e \in EnvEntries(s.missing, t.missing) : e.category # "Runtime"
    <3>1. \A side, keys : \A e \in SideEntries(side, keys) : e.category = "Env"
      BY SideEntry
    <3> QED BY <3>1, EnvBySide
  <2> QED BY <2>1, <2>2, <2>3
<1>3. \A e \in Others : Raised(e) = e
  BY <1>2
<1>4. ASSUME NEW n \in Differing(s, t)
      PROVE  {Raised(e) : e \in R(n)} = {F(n)}
  <2> DEFINE x == s.runtimes[n]
             y == t.runtimes[n]
             major == x.present /\ y.present /\ MajorDiffers(x, y)
             e0 == Entry("Runtime", n, <<"tool", x>>, <<"tool", y>>,
                         IF major THEN "critical" ELSE "difference",
                         IF major THEN <<"major", n, x.version, y.version>> ELSE <<>>)
  <2>1. R(n) = {e0}
    BY DEF Differing, CompareRuntime, When
  <2>2. e0.category = "Runtime" /\ e0.name = n /\ e0.a[1] = "tool" /\ e0.b[1] = "tool"
        /\ e0.a[2] = x /\ e0.b[2] = y
    BY DEF Entry
  <2>3. Concerned(e0) <=> Lacking(required, n, x, y)
    BY <2>2 DEF Lacking
  <2>4. Raised(e0) = F(n)
    <3>1. CASE Lacking(required, n, x, y)
      <4>1. Raised(e0) = [e0 EXCEPT !.severity = "critical",
                                    !.blocker = <<"missing", n, IF ~x.present THEN A ELSE B>>]
        BY <2>2, <2>3, <3>1
      <4> QED BY <4>1, <3>1 DEF RuntimeEntry, Entry
    <3>2. CASE ~Lacking(required, n, x, y)
      <4>1. Raised(e0) = e0
        BY <2>3, <3>2
      <4> QED BY <4>1, <3>2 DEF RuntimeEntry, Clash
    <3> QED BY <3>1, <3>2
  <2> HIDE DEF R, F, Raised, e0
  <2> QED BY <2>1, <2>4
<1>5. \A n \in RuntimeNames \ Differing(s, t) : R(n) = {}
  BY DEF Differing, CompareRuntime, When
<1>6. {Raised(e) : e \in RuntimeEntries(s.runtimes, t.runtimes)} = {F(n) : n \in Differing(s, t)}
  <2>1. RuntimeEntries(s.runtimes, t.runtimes) = UNION {R(n) : n \in Differing(s, t)}
    BY <1>5 DEF RuntimeEntries, Differing
  <2> HIDE DEF Raised, R, F
  <2>2. ASSUME NEW e \in RuntimeEntries(s.runtimes, t.runtimes)
        PROVE  Raised(e) \in {F(n) : n \in Differing(s, t)}
    <3>1. PICK n \in Differing(s, t) : e \in R(n)
      BY <2>1
    <3> QED BY <1>4, <3>1
  <2>3. ASSUME NEW n \in Differing(s, t)
        PROVE  F(n) \in {Raised(e) : e \in RuntimeEntries(s.runtimes, t.runtimes)}
    <3>1. PICK e \in R(n) : Raised(e) = F(n)
      BY <1>4
    <3>2. e \in RuntimeEntries(s.runtimes, t.runtimes)
      BY <2>1
    <3> QED BY <3>1, <3>2
  <2> QED BY <2>2, <2>3
<1> QED
  <2>1. {Raised(e) : e \in Others} = Others
    <3> HIDE DEF Raised, Others
    <3> QED BY <1>3
  <2> HIDE DEF Raised, Others, F
  <2> QED BY <1>1, <1>6, <2>1 DEF Others, F
-----------------------------------------------------------------------------
(* What a baseline must not differ in from a machine.                      *)

(* A comparison has a critical entry exactly if one of the two machines    *)
(* could not stand in for the other one.                                   *)
LEMMA CriticalMeansIncompatible ==
  ASSUME NEW s, NEW t, Comparable(s), Comparable(t), NEW A, NEW B
  PROVE  (\E e \in Diff(s, t, A, B) : e.severity = "critical") <=> Incompatible(s, t)
<1> DEFINE required == RequiredRuntimes(s.manifests \union t.manifests)
           F(n) == RuntimeEntry(required, n, s.runtimes[n], t.runtimes[n], A, B)
<1>1. \A e \in EnvironmentEntries(s.environment, t.environment) : e.severity # "critical"
  BY DEF EnvironmentEntries, Entry
<1>2. \A e \in PortEntries(s.ports, t.ports) : e.severity # "critical"
  BY DEF PortEntries, Entry
<1>3. (\E e \in EnvEntries(s.missing, t.missing) : e.severity = "critical") <=> s.missing # t.missing
  <2>1. s.missing # t.missing <=> t.missing \ s.missing # {} \/ s.missing \ t.missing # {}
    OBVIOUS
  <2>2. \A side, keys : (\E e \in SideEntries(side, keys) : e.severity = "critical") <=> keys # {}
    BY SideEntry
  <2> QED BY <2>1, <2>2, EnvBySide
<1>4. \A n \in RuntimeNames : n \in required <=> Required(s, n) \/ Required(t, n)
  BY DEF RequiredRuntimes, Required
<1>5. ASSUME NEW n \in RuntimeNames
      PROVE  (n \in Differing(s, t) /\ F(n).severity = "critical") <=>
               \/ s.runtimes[n].present # t.runtimes[n].present /\ (Required(s, n) \/ Required(t, n))
               \/ /\ s.runtimes[n].present /\ t.runtimes[n].present
                  /\ s.runtimes[n].clean /\ t.runtimes[n].clean
                  /\ Head(s.runtimes[n].version) # Head(t.runtimes[n].version)
  <2> DEFINE x == s.runtimes[n]
             y == t.runtimes[n]
  <2>1. x \in Tool /\ y \in Tool
    BY DEF Comparable
  <2>2. F(n).severity = "critical" <=> Lacking(required, n, x, y) \/ Clash(x, y)
    BY DEF RuntimeEntry, Entry
  <2>3. Clash(x, y) <=> x.present /\ y.present /\ x.clean /\ y.clean /\ Head(x.version) # Head(y.version)
    <3>1. x.clean => x.version \in Seq(Nat) /\ x.version # <<>>
      BY <2>1 DEF Tool, Version, Comparable, Sound
    <3>2. y.clean => y.version \in Seq(Nat) /\ y.version # <<>>
      BY <2>1 DEF Tool, Version, Comparable, Sound
    <3> QED BY <3>1, <3>2, HeadTailProperties DEF Clash, MajorDiffers
  <2>4. ~x.present /\ ~y.present => x = y
    BY AbsentToolsAgree
  <2>5. x.present \in BOOLEAN /\ y.present \in BOOLEAN
    BY <2>1 DEF Tool
  <2>6. n \in Differing(s, t) <=> x # y
    BY DEF Differing
  <2> HIDE DEF x, y, required, F
  <2>7. Clash(x, y) => x # y
    BY <2>3
  <2> QED BY <1>4, <2>2, <2>3, <2>4, <2>5, <2>6, <2>7 DEF Lacking, x, y
<1>6. (\E n \in Differing(s, t) : F(n).severity = "critical") \/ s.missing # t.missing <=> Incompatible(s, t)
  <2>1. Differing(s, t) \subseteq RuntimeNames
    BY DEF Differing
  <2> HIDE DEF F
  <2> QED BY <1>5, <2>1 DEF Incompatible
<1> HIDE DEF F, required
<1>7. Diff(s, t, A, B) = EnvironmentEntries(s.environment, t.environment) \union PortEntries(s.ports, t.ports)
                          \union EnvEntries(s.missing, t.missing) \union {F(n) : n \in Differing(s, t)}
  BY DiffBySection DEF F, required
<1> QED BY <1>1, <1>2, <1>3, <1>6, <1>7

(* What Sanitize removes is not compared.                                  *)
LEMMA SanitizeIsHarmless ==
  ASSUME NEW s \in Machines
  PROVE  /\ Sanitize(s).runtimes = s.runtimes /\ Sanitize(s).manifests = s.manifests
         /\ Sanitize(s).missing = s.missing
         /\ Comparable(s) /\ Comparable(Sanitize(s))
<1>1. s \in Snapshot(Ports, Keys)
  BY BaselinesAssumption
<1>2. DOMAIN s = {"host", "absolute", "manifests", "environment", "runtimes", "ports", "missing"}
  BY <1>1 DEF Snapshot
<1>3. /\ Sanitize(s).runtimes = s.runtimes /\ Sanitize(s).manifests = s.manifests
      /\ Sanitize(s).missing = s.missing
  BY <1>2 DEF Sanitize
<1>4. Comparable(s)
  BY <1>1, BaselinesAssumption DEF Snapshot, Comparable, Sound
<1> QED BY <1>3, <1>4 DEF Comparable, Sound

LEMMA BaselineVerdict ==
  ASSUME NEW s \in Machines, NEW t, Comparable(t)
  PROVE  Failed(BaselineReport(Sanitize(s), t)) <=> Incompatible(s, t)
<1> DEFINE entries == Diff(Sanitize(s), t, "baseline", "yours")
<1>1. Failed(BaselineReport(Sanitize(s), t)) <=> \E e \in entries : e.severity = "critical"
  <2> HIDE DEF entries
  <2>1. BaselineReport(Sanitize(s), t) =
          {[section |-> e.category, name |-> e.name,
            severity |-> IF e.severity = "difference" THEN "warning" ELSE e.severity] : e \in entries}
    BY DEF BaselineReport, entries
  <2> DEFINE item(e) == [section |-> e.category, name |-> e.name,
                         severity |-> IF e.severity = "difference" THEN "warning" ELSE e.severity]
  <2>2. \A e : item(e).severity = "critical" <=> e.severity = "critical"
    OBVIOUS
  <2>3. BaselineReport(Sanitize(s), t) = {item(e) : e \in entries}
    BY <2>1
  <2> HIDE DEF item
  <2> QED BY <2>2, <2>3 DEF Failed
<1>2. (\E e \in entries : e.severity = "critical") <=> Incompatible(Sanitize(s), t)
  BY SanitizeIsHarmless, CriticalMeansIncompatible
<1>3. Incompatible(Sanitize(s), t) <=> Incompatible(s, t)
  <2>1. \A u : u.runtimes = s.runtimes /\ u.manifests = s.manifests /\ u.missing = s.missing
                 => (Incompatible(u, t) <=> Incompatible(s, t))
    BY DEF Incompatible, Required
  <2> QED BY <2>1, SanitizeIsHarmless
<1> QED BY <1>1, <1>2, <1>3
-----------------------------------------------------------------------------
(* A comparison finds a difference exactly if the machines do not agree.   *)
LEMMA DifferenceMeansDisagree ==
  ASSUME NEW s, NEW t, Comparable(s), Comparable(t), NEW A, NEW B
  PROVE  HasDifferences(Diff(s, t, A, B)) <=> ~Agree(s, t)
<1> DEFINE F(n) == RuntimeEntry(RequiredRuntimes(s.manifests \union t.manifests), n,
                                s.runtimes[n], t.runtimes[n], A, B)
<1>1. (\E e \in EnvironmentEntries(s.environment, t.environment) : e.severity # "info")
        <=> s.environment.git # t.environment.git
  <2>2. s.environment["git"] = s.environment.git /\ t.environment["git"] = t.environment.git
    OBVIOUS
  <2> DEFINE E(f) == Entry("Environment", f, <<f, s.environment[f]>>, <<f, t.environment[f]>>,
                           IF f = "git" THEN "difference" ELSE "info", <<>>)
             unlike == {f \in {"os", "arch", "git"} : s.environment[f] # t.environment[f]}
  <2>3. \A f \in unlike : E(f).severity # "info" <=> f = "git"
    BY DEF Entry
  <2>4. EnvironmentEntries(s.environment, t.environment) = {E(f) : f \in unlike}
    BY DEF EnvironmentEntries
  <2>5. "git" \in unlike <=> s.environment.git # t.environment.git
    BY <2>2
  <2> HIDE DEF E, unlike
  <2> QED BY <2>3, <2>4, <2>5
<1>2. (\E e \in PortEntries(s.ports, t.ports) : e.severity # "info")
        <=> \E p \in DOMAIN s.ports \cap DOMAIN t.ports : s.ports[p] # t.ports[p]
  <2> DEFINE E(p) == Entry("Port", p, <<"port", s.ports[p]>>, <<"port", t.ports[p]>>, "difference", <<>>)
             unlike == {p \in DOMAIN s.ports \cap DOMAIN t.ports : s.ports[p] # t.ports[p]}
  <2>1. \A p : E(p).severity # "info"
    BY DEF Entry
  <2>2. PortEntries(s.ports, t.ports) = {E(p) : p \in unlike}
    BY DEF PortEntries
  <2> HIDE DEF E
  <2> QED BY <2>1, <2>2
<1>3. (\E e \in EnvEntries(s.missing, t.missing) : e.severity # "info") <=> s.missing # t.missing
  <2>1. s.missing # t.missing <=> t.missing \ s.missing # {} \/ s.missing \ t.missing # {}
    OBVIOUS
  <2>2. \A side, keys : (\E e \in SideEntries(side, keys) : e.severity # "info") <=> keys # {}
    BY SideEntry
  <2> QED BY <2>1, <2>2, EnvBySide
<1>4. \A n : F(n).severity # "info"
  BY DEF RuntimeEntry, Entry
<1>5. Differing(s, t) = {} <=> s.runtimes = t.runtimes
  BY DEF Comparable, Differing
<1> HIDE DEF F
<1>6. Diff(s, t, A, B) = EnvironmentEntries(s.environment, t.environment) \union PortEntries(s.ports, t.ports)
                          \union EnvEntries(s.missing, t.missing) \union {F(n) : n \in Differing(s, t)}
  BY DiffBySection DEF F
<1> QED BY <1>1, <1>2, <1>3, <1>4, <1>5, <1>6 DEF HasDifferences, Agree
-----------------------------------------------------------------------------
(* A comparison is the same from both sides.                               *)

Turned(k) ==
  LET Other(side) == IF side = "A" THEN "B" ELSE "A" IN
  IF k = <<>> THEN k
  ELSE CASE k[1] = "absent" -> <<"absent", Other(k[2]), k[3]>>
         [] k[1] = "major"  -> <<"major", k[2], k[4], k[3]>>
         [] OTHER -> k

LEMMA MirrorOfEntry ==
  ASSUME NEW c, NEW n, NEW x, NEW y, NEW sev, NEW k
  PROVE  Mirror(Entry(c, n, x, y, sev, k)) = Entry(c, n, y, x, sev, Turned(k))
<1> DEFINE e0 == Entry(c, n, x, y, sev, k)
           u  == [e0 EXCEPT !.a = y, !.b = x, !.blocker = Turned(k)]
           w  == Entry(c, n, y, x, sev, Turned(k))
           fields == {"category", "name", "a", "b", "severity", "blocker"}
<1>1. /\ e0.category = c /\ e0.name = n /\ e0.a = x /\ e0.b = y /\ e0.severity = sev /\ e0.blocker = k
      /\ DOMAIN e0 = fields
  BY DEF Entry
<1>2. Mirror(e0) = u
  <2> HIDE DEF e0
  <2> QED BY <1>1 DEF Mirror, Turned
<1>3. u = [f \in fields |-> u[f]] /\ w = [f \in fields |-> w[f]]
  BY <1>1 DEF Entry
<1>4. /\ u["category"] = c /\ u["name"] = n /\ u["severity"] = sev
      /\ u["a"] = y /\ u["b"] = x /\ u["blocker"] = Turned(k)
  BY <1>1
<1>5. /\ w["category"] = c /\ w["name"] = n /\ w["severity"] = sev
      /\ w["a"] = y /\ w["b"] = x /\ w["blocker"] = Turned(k)
  BY DEF Entry
<1>6. u = w
  <2> HIDE DEF u, w
  <2>1. \A f \in fields : u[f] = w[f]
    BY <1>4, <1>5
  <2> QED BY <1>3, <2>1
<1> QED BY <1>2, <1>6

LEMMA TurnedBlockers ==
  /\ Turned(<<>>) = <<>>
  /\ \A n, i, j : Turned(<<"major", n, i, j>>) = <<"major", n, j, i>>
  /\ \A n, i : Turned(<<"missing", n, i>>) = <<"missing", n, i>>
  /\ \A i : Turned(<<"absent", "A", i>>) = <<"absent", "B", i>> /\ Turned(<<"absent", "B", i>>) = <<"absent", "A", i>>
BY DEF Turned

LEMMA DiffFromBothSides ==
  ASSUME NEW s, NEW t, Comparable(s), Comparable(t), NEW A, NEW B
  PROVE  Diff(t, s, B, A) = {Mirror(e) : e \in Diff(s, t, A, B)}
<1> DEFINE required == RequiredRuntimes(s.manifests \union t.manifests)
           F(n) == RuntimeEntry(required, n, s.runtimes[n], t.runtimes[n], A, B)
           G(n) == RuntimeEntry(required, n, t.runtimes[n], s.runtimes[n], B, A)
<1>1. {Mirror(e) : e \in EnvironmentEntries(s.environment, t.environment)}
        = EnvironmentEntries(t.environment, s.environment)
  <2> DEFINE E(x, y, f) == Entry("Environment", f, <<f, x[f]>>, <<f, y[f]>>,
                                 IF f = "git" THEN "difference" ELSE "info", <<>>)
             unlike(x, y) == {f \in {"os", "arch", "git"} : x[f] # y[f]}
             x0 == s.environment
             y0 == t.environment
  <2>1. \A f : Mirror(E(x0, y0, f)) = E(y0, x0, f)
    BY MirrorOfEntry, TurnedBlockers
  <2>2. /\ EnvironmentEntries(x0, y0) = {E(x0, y0, f) : f \in unlike(x0, y0)}
        /\ EnvironmentEntries(y0, x0) = {E(y0, x0, f) : f \in unlike(y0, x0)}
    BY DEF EnvironmentEntries
  <2>3. unlike(x0, y0) = unlike(y0, x0)
    OBVIOUS
  <2> HIDE DEF E, unlike, x0, y0
  <2> QED BY <2>1, <2>2, <2>3 DEF x0, y0
<1>2. {Mirror(e) : e \in PortEntries(s.ports, t.ports)} = PortEntries(t.ports, s.ports)
  <2> DEFINE E(x, y, p) == Entry("Port", p, <<"port", x[p]>>, <<"port", y[p]>>, "difference", <<>>)
             unlike(x, y) == {p \in DOMAIN x \cap DOMAIN y : x[p] # y[p]}
             x0 == s.ports
             y0 == t.ports
  <2>1. \A p : Mirror(E(x0, y0, p)) = E(y0, x0, p)
    BY MirrorOfEntry, TurnedBlockers
  <2>2. /\ PortEntries(x0, y0) = {E(x0, y0, p) : p \in unlike(x0, y0)}
        /\ PortEntries(y0, x0) = {E(y0, x0, p) : p \in unlike(y0, x0)}
    BY DEF PortEntries
  <2>3. unlike(x0, y0) = unlike(y0, x0)
    OBVIOUS
  <2> HIDE DEF E, unlike, x0, y0
  <2> QED BY <2>1, <2>2, <2>3 DEF x0, y0
<1>3. {Mirror(e) : e \in EnvEntries(s.missing, t.missing)} = EnvEntries(t.missing, s.missing)
  <2>1. \A keys : Mirror(EnvEntry("A", keys)) = EnvEntry("B", keys)
                  /\ Mirror(EnvEntry("B", keys)) = EnvEntry("A", keys)
    <3> SUFFICES ASSUME NEW keys
                 PROVE  Mirror(EnvEntry("A", keys)) = EnvEntry("B", keys)
                        /\ Mirror(EnvEntry("B", keys)) = EnvEntry("A", keys)
      OBVIOUS
    <3>1. /\ EnvEntry("A", keys) = Entry("Env", ".env keys", <<"missing", keys>>, <<"missing", {}>>,
                                         "critical", <<"absent", "A", keys>>)
          /\ EnvEntry("B", keys) = Entry("Env", ".env keys", <<"missing", {}>>, <<"missing", keys>>,
                                         "critical", <<"absent", "B", keys>>)
      BY DEF EnvEntry
    <3> DEFINE name == ".env keys"
               Full(k) == <<"missing", k>>
    <3>2. /\ EnvEntry("A", keys) = Entry("Env", name, Full(keys), Full({}), "critical", <<"absent", "A", keys>>)
          /\ EnvEntry("B", keys) = Entry("Env", name, Full({}), Full(keys), "critical", <<"absent", "B", keys>>)
      BY <3>1
    <3> HIDE DEF name, Full
    <3>3. Mirror(EnvEntry("A", keys)) = Entry("Env", name, Full({}), Full(keys), "critical", Turned(<<"absent", "A", keys>>))
      BY <3>2, MirrorOfEntry
    <3>4. Mirror(EnvEntry("B", keys)) = Entry("Env", name, Full(keys), Full({}), "critical", Turned(<<"absent", "B", keys>>))
      BY <3>2, MirrorOfEntry
    <3> QED BY <3>2, <3>3, <3>4, TurnedBlockers
  <2>2. \A keys : {Mirror(e) : e \in SideEntries("A", keys)} = SideEntries("B", keys)
                  /\ {Mirror(e) : e \in SideEntries("B", keys)} = SideEntries("A", keys)
    <3> HIDE DEF EnvEntry
    <3> QED BY <2>1, SideEntry
  <2> DEFINE x0 == t.missing \ s.missing
             y0 == s.missing \ t.missing
  <2>3. /\ EnvEntries(s.missing, t.missing) = SideEntries("B", x0) \union SideEntries("A", y0)
        /\ EnvEntries(t.missing, s.missing) = SideEntries("B", y0) \union SideEntries("A", x0)
    BY EnvBySide
  <2> HIDE DEF x0, y0
  <2>4. \A X, Y : {Mirror(e) : e \in X \union Y} = {Mirror(e) : e \in X} \union {Mirror(e) : e \in Y}
    OBVIOUS
  <2>5. {Mirror(e) : e \in EnvEntries(s.missing, t.missing)}
          = {Mirror(e) : e \in SideEntries("B", x0)} \union {Mirror(e) : e \in SideEntries("A", y0)}
    BY <2>3, <2>4
  <2> QED BY <2>2, <2>3, <2>5
<1>4. ASSUME NEW n \in Differing(s, t)
      PROVE  Mirror(F(n)) = G(n)
  <2> DEFINE x == s.runtimes[n]
             y == t.runtimes[n]
             sev == IF Lacking(required, n, x, y) \/ Clash(x, y) THEN "critical" ELSE "difference"
  <2>1. n \in RuntimeNames /\ x # y
    BY DEF Differing
  <2>2. x.present \/ y.present
    BY <2>1, AbsentToolsAgree
  <2>3. (Lacking(required, n, x, y) <=> Lacking(required, n, y, x)) /\ (Clash(x, y) <=> Clash(y, x))
    BY DEF Lacking, Clash, MajorDiffers
  <2> HIDE DEF required
  <2>4. CASE Lacking(required, n, x, y)
    <3> DEFINE who == IF ~x.present THEN A ELSE B
    <3>1. (IF ~y.present THEN B ELSE A) = who
      BY <2>2, <2>4 DEF Lacking
    <3>2. F(n) = Entry("Runtime", n, <<"tool", x>>, <<"tool", y>>, "critical", <<"missing", n, who>>)
      BY <2>4 DEF RuntimeEntry
    <3>3. G(n) = Entry("Runtime", n, <<"tool", y>>, <<"tool", x>>, "critical", <<"missing", n, who>>)
      BY <2>3, <2>4, <3>1 DEF RuntimeEntry
    <3> HIDE DEF who, F, G
    <3> QED BY <3>2, <3>3, MirrorOfEntry, TurnedBlockers
  <2>5. CASE ~Lacking(required, n, x, y) /\ Clash(x, y)
    <3>1. F(n) = Entry("Runtime", n, <<"tool", x>>, <<"tool", y>>, "critical",
                       <<"major", n, x.version, y.version>>)
      BY <2>5 DEF RuntimeEntry
    <3>2. G(n) = Entry("Runtime", n, <<"tool", y>>, <<"tool", x>>, "critical",
                       <<"major", n, y.version, x.version>>)
      BY <2>3, <2>5 DEF RuntimeEntry
    <3> HIDE DEF F, G
    <3> QED BY <3>1, <3>2, MirrorOfEntry, TurnedBlockers
  <2>6. CASE ~Lacking(required, n, x, y) /\ ~Clash(x, y)
    <3>1. F(n) = Entry("Runtime", n, <<"tool", x>>, <<"tool", y>>, "difference", <<>>)
      BY <2>6 DEF RuntimeEntry
    <3>2. G(n) = Entry("Runtime", n, <<"tool", y>>, <<"tool", x>>, "difference", <<>>)
      BY <2>3, <2>6 DEF RuntimeEntry
    <3> HIDE DEF F, G
    <3> QED BY <3>1, <3>2, MirrorOfEntry, TurnedBlockers
  <2> QED BY <2>4, <2>5, <2>6
<1>5. Differing(s, t) = Differing(t, s)
  BY DEF Differing
<1>6. RequiredRuntimes(t.manifests \union s.manifests) = required
  <2>1. t.manifests \union s.manifests = s.manifests \union t.manifests
    OBVIOUS
  <2> QED BY <2>1
<1>7. /\ Diff(s, t, A, B) = EnvironmentEntries(s.environment, t.environment) \union PortEntries(s.ports, t.ports)
                              \union EnvEntries(s.missing, t.missing) \union {F(n) : n \in Differing(s, t)}
      /\ Diff(t, s, B, A) = EnvironmentEntries(t.environment, s.environment) \union PortEntries(t.ports, s.ports)
                              \union EnvEntries(t.missing, s.missing) \union {G(n) : n \in Differing(s, t)}
  BY <1>5, <1>6, DiffBySection
<1> HIDE DEF F, G, required
<1>8. {Mirror(e) : e \in {F(n) : n \in Differing(s, t)}} = {G(n) : n \in Differing(s, t)}
  BY <1>4
<1>9. \A W, X, Y, Z : {Mirror(e) : e \in W \union X \union Y \union Z} =
         {Mirror(e) : e \in W} \union {Mirror(e) : e \in X} \union {Mirror(e) : e \in Y} \union {Mirror(e) : e \in Z}
  OBVIOUS
<1> QED BY <1>1, <1>2, <1>3, <1>7, <1>8, <1>9
-----------------------------------------------------------------------------
(* The invariant.  A file that is whole has the snapshot of the machine it *)
(* came from; a command knows what it has captured or read; and whoever    *)
(* was there when a directory was listed is still to be read or has been.  *)

Contents == Machines \union {Sanitize(s) : s \in Machines}

Places8 == {"idle", "open baseline", "write baseline", "open snapshot", "write snapshot",
            "against", "diff", "many", "list", "load"}

Typed ==
  /\ machine \in [Members -> Machines]
  /\ file \in [Files -> [status : NoFile \union {"whole"}, content : SUBSET Contents]]
  /\ source \in [Files -> SUBSET Machines]
  /\ pc \in [Members -> Places8]
  /\ snap \in [Members -> SUBSET Machines]
  /\ args \in [Members -> Seq(Files)]
  /\ read \in [Members -> Seq(Contents \union (Members \X Contents))]
  /\ listed \in [Members -> SUBSET Members]

HasSource(f) ==
  Whole(f) => \E s \in Machines : /\ source[f] = {s}
                                  /\ file[f].content = {IF f = Baseline THEN Sanitize(s) ELSE s}

Captured(m) == \E s \in Machines : snap[m] = {s}

StillListed(m) ==
  \A f \in listed[m] :
    /\ Whole(f)
    /\ \/ \E i \in 1..Len(args[m]) : args[m][i] = f
       \/ \E i \in 2..Len(read[m]) : read[m][i][1] = f

Reads(m) ==
  /\ Len(read[m]) >= 1 /\ read[m][1] \in Contents
  /\ \A i \in 2..Len(read[m]) : read[m][i] \in Members \X Contents

Knows(m) ==
  /\ pc[m] \in {"open baseline", "write baseline"} => args[m] = <<Baseline>> /\ Captured(m)
  /\ pc[m] \in {"open snapshot", "write snapshot"} => args[m] = <<m>> /\ Captured(m)
  /\ pc[m] = "against" => Captured(m)
  /\ pc[m] = "diff" => \/ Len(args[m]) = 2
                       \/ Len(args[m]) = 1 /\ \E x \in Contents : read[m] = <<x>>
  /\ pc[m] = "list" => \E x \in Contents : read[m] = <<x>>
  /\ pc[m] = "load" => args[m] \in Seq(Members) /\ Reads(m) /\ StillListed(m)

SaysRight == VerdictIsOnTheMaker /\ DiffIsFair

BaselinesIInv ==
  /\ Typed
  /\ \A f \in Files : HasSource(f)
  /\ \A m \in Members : Knows(m)
  /\ SaysRight
-----------------------------------------------------------------------------
LEMMA ContentsCompare == \A s \in Contents : Comparable(s)
BY SanitizeIsHarmless DEF Contents

LEMMA ContentOf ==
  ASSUME NEW f, NEW x, file[f].content = {x}
  PROVE  Content(f) = x
BY DEF Content

LEMMA WholeContent ==
  ASSUME Typed, NEW f \in Files, HasSource(f), Whole(f)
  PROVE  Content(f) \in Contents
<1>1. PICK s \in Machines : file[f].content = {IF f = Baseline THEN Sanitize(s) ELSE s}
  BY DEF HasSource
<1>2. Content(f) = IF f = Baseline THEN Sanitize(s) ELSE s
  BY <1>1, ContentOf
<1> QED BY <1>1, <1>2 DEF Contents

(* What other commands do leaves a command what it knows.                  *)
LEMMA KnowsKept ==
  ASSUME NEW q \in Members, Knows(q),
         pc'[q] = pc[q], snap'[q] = snap[q], args'[q] = args[q], read'[q] = read[q],
         listed'[q] \subseteq listed[q],
         \A f \in listed'[q] : Whole(f) => Whole(f)'
  PROVE  Knows(q)'
<1>1. Captured(q) => Captured(q)'
  BY DEF Captured
<1>2. Reads(q) => Reads(q)'
  BY DEF Reads
<1>3. StillListed(q) => StillListed(q)'
  BY DEF StillListed
<1> QED BY <1>1, <1>2, <1>3 DEF Knows

LEMMA SaysNothing ==
  ASSUME SaysRight,
         verdict' = verdict \/ verdict'.cmd \in {"none", "error", "killed", "saved", "many"}
  PROVE  SaysRight'
BY DEF SaysRight, VerdictIsOnTheMaker, DiffIsFair

LEMMA BaselinesInit == Init => BaselinesIInv
<1> SUFFICES ASSUME Init PROVE BaselinesIInv
  OBVIOUS
<1>1. source \in [Files -> SUBSET Machines] /\ \A f \in Files : source[f] = {} \/ \E s \in Machines : source[f] = {s}
  <2>1. machine \in [Members -> Machines] /\ source \in [Files -> {{}} \union {{machine[m]} : m \in Members}]
    BY DEF Init
  <2>2. \A f \in Files : source[f] = {} \/ \E s \in Machines : source[f] = {s}
    BY <2>1
  <2> QED BY <2>1, <2>2
<1>2. \A f \in Files : source[f] = {} => file[f] = Broken(Absent)
  BY DEF Init
<1>3. ASSUME NEW f \in Files, NEW s \in Machines, source[f] = {s}
      PROVE  file[f] = FileOf(IF f = Baseline THEN Sanitize(s) ELSE s)
  <2> DEFINE s0 == CHOOSE x \in source[f] : TRUE
  <2>1. s0 = s
    BY <1>3
  <2>2. file[f] = IF source[f] = {} THEN Broken(Absent)
                  ELSE FileOf(IF f = Baseline THEN Sanitize(s0) ELSE s0)
    BY DEF Init
  <2> HIDE DEF s0
  <2> QED BY <1>3, <2>1, <2>2
<1>4. \A f \in Files : HasSource(f) /\ file[f] \in [status : NoFile \union {"whole"}, content : SUBSET Contents]
  <2> TAKE f \in Files
  <2>1. CASE source[f] = {}
    BY <1>2, <2>1 DEF HasSource, Whole, Broken, NoFile, Absent
  <2>2. CASE \E s \in Machines : source[f] = {s}
    <3>1. PICK s \in Machines : source[f] = {s}
      BY <2>2
    <3>2. file[f] = FileOf(IF f = Baseline THEN Sanitize(s) ELSE s)
      BY <1>3, <3>1
    <3>3. (IF f = Baseline THEN Sanitize(s) ELSE s) \in Contents
      BY DEF Contents
    <3> QED BY <3>1, <3>2, <3>3 DEF HasSource, FileOf
  <2> QED BY <1>1, <2>1, <2>2
<1>5. Typed
  <2>1. file \in [Files -> [status : NoFile \union {"whole"}, content : SUBSET Contents]]
    BY <1>4 DEF Init
  <2> QED BY <1>1, <2>1 DEF Init, Typed, Places8
<1>6. \A m \in Members : Knows(m)
  BY DEF Init, Knows
<1>7. SaysRight
  BY DEF Init, SaysRight, VerdictIsOnTheMaker, DiffIsFair, Nothing
<1> QED BY <1>4, <1>5, <1>6, <1>7 DEF BaselinesIInv
-----------------------------------------------------------------------------
(* Steps that set a command to where it starts, or ends.                   *)
LEMMA SetStep ==
  ASSUME BaselinesIInv, NEW m \in Members, NEW at \in Places8, NEW captured \in SUBSET Machines,
         NEW files \in Seq(Files), Set(m, at, captured, files, {}), UNCHANGED <<machine, file, source>>,
         Knows(m)', SaysRight'
  PROVE  BaselinesIInv'
<1>1. Typed'
  BY DEF BaselinesIInv, Typed, Set
<1>2. \A f \in Files : HasSource(f)'
  BY DEF BaselinesIInv, HasSource, Whole
<1>3. ASSUME NEW q \in Members, q # m
      PROVE  Knows(q)'
  <2>1. /\ pc'[q] = pc[q] /\ snap'[q] = snap[q] /\ args'[q] = args[q]
        /\ read'[q] = read[q] /\ listed'[q] = listed[q]
    BY <1>3 DEF BaselinesIInv, Typed, Set
  <2>2. \A f : Whole(f) => Whole(f)'
    BY DEF Whole
  <2> QED BY <2>1, <2>2, KnowsKept DEF BaselinesIInv
<1> QED BY <1>1, <1>2, <1>3 DEF BaselinesIInv

LEMMA SetKnows ==
  ASSUME Typed, NEW m \in Members, NEW at \in Places8, NEW captured, NEW files,
         Set(m, at, captured, files, {}),
         at \in {"idle", "many", "against", "diff", "open baseline", "open snapshot"},
         at \in {"against", "open baseline", "open snapshot"} => captured = {machine[m]},
         at = "open baseline" => files = <<Baseline>>,
         at = "open snapshot" => files = <<m>>,
         at = "diff" => Len(files) = 2
  PROVE  Knows(m)'
<1>1. /\ pc'[m] = at /\ snap'[m] = captured /\ args'[m] = files
  BY DEF Typed, Set
<1>2. machine[m] \in Machines
  BY DEF Typed
<1> QED BY <1>1, <1>2 DEF Knows, Captured

LEMMA StartStep ==
  ASSUME BaselinesIInv, NEW m \in Members,
         Create(m) \/ TakeSnapshot(m) \/ CheckAgainst(m) \/ DiffTwo(m) \/ DiffMany(m)
  PROVE  BaselinesIInv'
<1>1. UNCHANGED <<machine, file, source>>
  BY DEF Create, TakeSnapshot, CheckAgainst, DiffTwo, DiffMany, Start
<1>2. SaysRight'
  <2>1. verdict' = Nothing
    BY DEF Create, TakeSnapshot, CheckAgainst, DiffTwo, DiffMany
  <2>2. verdict'.cmd = "none"
    BY <2>1 DEF Nothing
  <2> QED BY <2>2, SaysNothing DEF BaselinesIInv
<1>3. /\ Typed /\ {machine[m]} \in SUBSET Machines /\ {} \in SUBSET Machines
      /\ <<Baseline>> \in Seq(Files) /\ <<m>> \in Seq(Files)
      /\ \A f, g \in Files : <<f, g>> \in Seq(Files) /\ Len(<<f, g>>) = 2
  BY DEF BaselinesIInv, Typed, Files
<1>4. CASE Create(m)
  <2>1. Set(m, "open baseline", {machine[m]}, <<Baseline>>, {})
    BY <1>4 DEF Create
  <2>2. Knows(m)'
    BY <1>3, <2>1, SetKnows DEF Places8
  <2> QED BY <1>1, <1>2, <1>3, <2>1, <2>2, SetStep DEF Places8
<1>5. CASE TakeSnapshot(m)
  <2>1. Set(m, "open snapshot", {machine[m]}, <<m>>, {})
    BY <1>5 DEF TakeSnapshot
  <2>2. Knows(m)'
    BY <1>3, <2>1, SetKnows DEF Places8
  <2> QED BY <1>1, <1>2, <1>3, <2>1, <2>2, SetStep DEF Places8
<1>6. CASE CheckAgainst(m)
  <2>1. Set(m, "against", {machine[m]}, <<Baseline>>, {})
    BY <1>6 DEF CheckAgainst
  <2>2. Knows(m)'
    BY <1>3, <2>1, SetKnows DEF Places8
  <2> QED BY <1>1, <1>2, <1>3, <2>1, <2>2, SetStep DEF Places8
<1>7. CASE DiffTwo(m)
  <2>1. PICK f \in Files, g \in Files : Set(m, "diff", {}, <<f, g>>, {})
    BY <1>7 DEF DiffTwo
  <2>2. Knows(m)'
    BY <1>3, <2>1, SetKnows DEF Places8
  <2> QED BY <1>1, <1>2, <1>3, <2>1, <2>2, SetStep DEF Places8
<1>8. CASE DiffMany(m)
  <2>1. Set(m, "many", {}, <<Baseline>>, {})
    BY <1>8 DEF DiffMany
  <2>2. Knows(m)'
    BY <1>3, <2>1, SetKnows DEF Places8
  <2> QED BY <1>1, <1>2, <1>3, <2>1, <2>2, SetStep DEF Places8
<1> QED BY <1>4, <1>5, <1>6, <1>7, <1>8

LEMMA EndStep ==
  ASSUME BaselinesIInv, NEW m \in Members, NEW says, End(m, says), UNCHANGED <<machine, file, source>>,
         SaysRight'
  PROVE  BaselinesIInv'
<1>1. Set(m, "idle", {}, <<>>, {}) /\ <<>> \in Seq(Files)
  BY DEF End
<1>2. Knows(m)'
  BY <1>1, SetKnows DEF BaselinesIInv, Places8
<1> QED BY <1>1, <1>2, SetStep DEF Places8

LEMMA ErrorStep ==
  ASSUME BaselinesIInv, NEW m \in Members, Error(m), UNCHANGED <<machine, file, source>>
  PROVE  BaselinesIInv'
<1>1. End(m, [cmd |-> "error", by |-> m, code |-> 2])
  BY DEF Error
<1>2. SaysRight'
  BY <1>1, SaysNothing DEF End, BaselinesIInv
<1> QED BY <1>1, <1>2, EndStep

LEMMA KilledStep ==
  ASSUME BaselinesIInv, NEW m \in Members, Killed(m)
  PROVE  BaselinesIInv'
<1>1. End(m, [cmd |-> "killed", by |-> m, code |-> 137]) /\ UNCHANGED <<machine, file, source>>
  BY DEF Killed
<1>2. SaysRight'
  BY <1>1, SaysNothing DEF End, BaselinesIInv
<1> QED BY <1>1, <1>2, EndStep
-----------------------------------------------------------------------------
(* Steps that write a file.                                                *)
LEMMA FileStep ==
  ASSUME BaselinesIInv, NEW m \in Members, NEW f \in Files, NEW new, NEW from \in SUBSET Machines,
         new \in [status : NoFile \union {"whole"}, content : SUBSET Contents],
         file' = [file EXCEPT ![f] = new], source' = [source EXCEPT ![f] = from],
         new.status = "whole" =>
           \E s \in Machines : from = {s} /\ new.content = {IF f = Baseline THEN Sanitize(s) ELSE s},
         Touch(f), UNCHANGED <<machine, read>>, verdict' = verdict \/ verdict'.cmd \in {"saved", "error"},
         \/ UNCHANGED <<snap, args>>
         \/ snap' = [snap EXCEPT ![m] = {}] /\ args' = [args EXCEPT ![m] = <<>>],
         NEW at \in Places8, pc' = [pc EXCEPT ![m] = at],
         Knows(m)'
  PROVE  BaselinesIInv'
<1>1. Typed'
  <2>1. listed' \in [Members -> SUBSET Members]
    BY DEF Touch, BaselinesIInv, Typed
  <2>2. snap' \in [Members -> SUBSET Machines] /\ args' \in [Members -> Seq(Files)]
    <3>1. snap \in [Members -> SUBSET Machines] /\ args \in [Members -> Seq(Files)]
      BY DEF BaselinesIInv, Typed
    <3>2. <<>> \in Seq(Files) /\ {} \in SUBSET Machines
      OBVIOUS
    <3> QED BY <3>1, <3>2
  <2>3. file' \in [Files -> [status : NoFile \union {"whole"}, content : SUBSET Contents]]
    BY DEF BaselinesIInv, Typed
  <2>4. source' \in [Files -> SUBSET Machines] /\ pc' \in [Members -> Places8]
    BY DEF BaselinesIInv, Typed
  <2> QED BY <2>1, <2>2, <2>3, <2>4 DEF BaselinesIInv, Typed
<1>2. /\ file'[f] = new /\ source'[f] = from
      /\ \A g \in Files : g # f => file'[g] = file[g] /\ source'[g] = source[g]
  BY DEF BaselinesIInv, Typed
<1>3. \A g \in Files : HasSource(g)'
  BY <1>2 DEF BaselinesIInv, HasSource, Whole
<1>4. ASSUME NEW q \in Members, q # m
      PROVE  Knows(q)'
  <2>1. /\ pc'[q] = pc[q] /\ snap'[q] = snap[q] /\ args'[q] = args[q] /\ read'[q] = read[q]
    BY <1>4 DEF BaselinesIInv, Typed
  <2>2. listed'[q] = listed[q] \ {f} /\ listed[q] \subseteq Members
    BY DEF Touch, BaselinesIInv, Typed
  <2>3. \A g \in listed'[q] : Whole(g) => Whole(g)'
    BY <1>2, <2>2 DEF Whole, Files
  <2> QED BY <2>1, <2>2, <2>3, KnowsKept DEF BaselinesIInv
<1>5. SaysRight'
  BY SaysNothing DEF BaselinesIInv
<1> QED BY <1>1, <1>3, <1>4, <1>5 DEF BaselinesIInv

LEMMA OpenStep ==
  ASSUME BaselinesIInv, NEW m \in Members, Open(m)
  PROVE  BaselinesIInv'
<1> DEFINE f == args[m][1]
           at == IF pc[m] = "open baseline" THEN "write baseline" ELSE "write snapshot"
<1>1. /\ pc[m] \in {"open baseline", "open snapshot"}
      /\ file' = [file EXCEPT ![f] = Broken(Empty)] /\ source' = [source EXCEPT ![f] = {}] /\ Touch(f)
      /\ pc' = [pc EXCEPT ![m] = at] /\ UNCHANGED <<machine, snap, args, read, verdict>>
  BY DEF Open
<1>2. /\ pc[m] = "open baseline" => args[m] = <<Baseline>> /\ Captured(m)
      /\ pc[m] = "open snapshot" => args[m] = <<m>> /\ Captured(m)
  BY DEF BaselinesIInv, Knows
<1>3. f \in Files
  <2>1. args[m] = <<Baseline>> \/ args[m] = <<m>>
    BY <1>1, <1>2
  <2>2. f = Baseline \/ f = m
    BY <2>1
  <2> QED BY <2>2 DEF Files
<1>4. /\ Broken(Empty) \in [status : NoFile \union {"whole"}, content : SUBSET Contents]
      /\ Broken(Empty).status # "whole"
  BY DEF Broken, NoFile, Empty
<1>5. at \in Places8 /\ pc'[m] = at
  BY <1>1 DEF Places8, BaselinesIInv, Typed
<1>6. Knows(m)'
  <2>1. /\ pc'[m] = "write baseline" => args'[m] = <<Baseline>> /\ Captured(m)'
        /\ pc'[m] = "write snapshot" => args'[m] = <<m>> /\ Captured(m)'
    <3>1. pc'[m] = "write baseline" => pc[m] = "open baseline"
      BY <1>5
    <3>2. pc'[m] = "write snapshot" => pc[m] = "open snapshot"
      <4>1. pc[m] = "open baseline" \/ pc[m] = "open snapshot"
        BY <1>1
      <4>2. pc'[m] = IF pc[m] = "open baseline" THEN "write baseline" ELSE "write snapshot"
        BY <1>5
      <4> QED BY <4>1, <4>2
    <3>3. Captured(m) => Captured(m)'
      BY <1>1 DEF Captured
    <3>4. args'[m] = args[m]
      BY <1>1
    <3> QED BY <1>2, <3>1, <3>2, <3>3, <3>4
  <2>2. pc'[m] \in {"write baseline", "write snapshot"}
    BY <1>5
  <2> QED BY <2>1, <2>2 DEF Knows
<1>7. {} \in SUBSET Machines
  OBVIOUS
<1> HIDE DEF f, at
<1> QED BY <1>1, <1>3, <1>4, <1>5, <1>6, <1>7, FileStep

LEMMA WriteStep ==
  ASSUME BaselinesIInv, NEW m \in Members, Write(m) \/ WriteFails(m)
  PROVE  BaselinesIInv'
<1> DEFINE f == args[m][1]
           captured == CHOOSE x \in snap[m] : TRUE
           saved == IF pc[m] = "write baseline" THEN Sanitize(captured) ELSE captured
<1>1. /\ pc[m] \in {"write baseline", "write snapshot"} /\ Touch(f)
      /\ pc' = [pc EXCEPT ![m] = "idle"] /\ snap' = [snap EXCEPT ![m] = {}]
      /\ args' = [args EXCEPT ![m] = <<>>] /\ UNCHANGED <<machine, read>>
  BY DEF Write, WriteFails
<1>2. \/ file' = [file EXCEPT ![f] = FileOf(saved)] /\ source' = [source EXCEPT ![f] = {captured}]
      \/ file' = [file EXCEPT ![f] = Broken(Torn)] /\ source' = [source EXCEPT ![f] = {}]
  BY DEF Write, WriteFails
<1>3. verdict'.cmd \in {"saved", "error"}
  <2>1. verdict' = [cmd |-> "saved", by |-> m, code |-> 0] \/ verdict' = [cmd |-> "error", by |-> m, code |-> 2]
    BY DEF Write, WriteFails
  <2> QED BY <2>1
<1>4. /\ pc[m] = "write baseline" => args[m] = <<Baseline>> /\ Captured(m)
      /\ pc[m] = "write snapshot" => args[m] = <<m>> /\ Captured(m)
  BY DEF BaselinesIInv, Knows
<1>5. captured \in Machines
  <2>1. Captured(m)
    BY <1>1, <1>4
  <2> QED BY <2>1 DEF Captured
<1>6. f \in Files /\ saved = IF f = Baseline THEN Sanitize(captured) ELSE captured
  <2>1. CASE pc[m] = "write baseline"
    <3>1. f = Baseline
      <4>1. args[m] = <<Baseline>>
        BY <1>4, <2>1
      <4> QED BY <4>1
    <3> HIDE DEF f, captured
    <3> QED BY <2>1, <3>1 DEF Files
  <2>2. CASE pc[m] = "write snapshot"
    <3>1. f = m
      <4>1. args[m] = <<m>>
        BY <1>4, <2>2
      <4> QED BY <4>1
    <3>2. m # Baseline
      BY BaselinesAssumption
    <3> HIDE DEF f, captured
    <3> QED BY <2>2, <3>1, <3>2 DEF Files
  <2> QED BY <1>1, <2>1, <2>2
<1>7. saved \in Contents
  <2> HIDE DEF captured, f
  <2> QED BY <1>5 DEF Contents
<1>8. Knows(m)'
  <2>1. pc'[m] = "idle"
    BY <1>1 DEF BaselinesIInv, Typed
  <2> QED BY <2>1 DEF Knows
<1>9. "idle" \in Places8 /\ {} \in SUBSET Machines /\ {captured} \in SUBSET Machines
  <2> HIDE DEF captured
  <2> QED BY <1>5 DEF Places8
<1> HIDE DEF f, captured, saved
<1>10. CASE file' = [file EXCEPT ![f] = FileOf(saved)] /\ source' = [source EXCEPT ![f] = {captured}]
  <2>1. FileOf(saved) \in [status : NoFile \union {"whole"}, content : SUBSET Contents]
        /\ FileOf(saved).content = {saved}
    BY <1>7 DEF FileOf
  <2> QED BY <1>1, <1>3, <1>5, <1>6, <1>8, <1>9, <1>10, <2>1, FileStep
<1>11. CASE file' = [file EXCEPT ![f] = Broken(Torn)] /\ source' = [source EXCEPT ![f] = {}]
  <2>1. Broken(Torn) \in [status : NoFile \union {"whole"}, content : SUBSET Contents]
        /\ Broken(Torn).status # "whole"
    BY DEF Broken, NoFile, Torn
  <2> QED BY <1>1, <1>3, <1>6, <1>8, <1>9, <1>11, <2>1, FileStep
<1> QED BY <1>2, <1>10, <1>11
-----------------------------------------------------------------------------
(* Steps that read files and compare them.                                 *)
LEMMA AgainstStep ==
  ASSUME BaselinesIInv, NEW m \in Members, Against(m)
  PROVE  BaselinesIInv'
<1> DEFINE mine == CHOOSE x \in snap[m] : TRUE
           rep  == BaselineReport(Content(Baseline), mine)
<1>1. pc[m] = "against" /\ UNCHANGED <<machine, file, source>>
  BY DEF Against
<1>2. CASE ~Whole(Baseline)
  <2>1. Error(m)
    BY <1>2 DEF Against
  <2> QED BY <1>1, <2>1, ErrorStep
<1>3. CASE Whole(Baseline)
  <2> DEFINE says == [cmd |-> "against", by |-> m, mine |-> mine, with |-> source[Baseline],
                      code |-> IF Failed(rep) THEN 1 ELSE 0]
  <2>1. End(m, says)
    BY <1>3 DEF Against
  <2>2. PICK s \in Machines : source[Baseline] = {s} /\ file[Baseline].content = {Sanitize(s)}
    BY <1>3 DEF BaselinesIInv, HasSource, Files
  <2>3. Content(Baseline) = Sanitize(s)
    BY <2>2, ContentOf
  <2>4. mine \in Machines
    <3>1. Captured(m)
      BY <1>1 DEF BaselinesIInv, Knows
    <3> QED BY <3>1 DEF Captured
  <2>5. Failed(rep) <=> Incompatible(s, mine)
    <3> HIDE DEF mine
    <3> QED BY <2>3, <2>4, BaselineVerdict, SanitizeIsHarmless
  <2>6. verdict' = says
    BY <2>1 DEF End
  <2>7. SaysRight'
    <3> HIDE DEF mine, rep
    <3>1. /\ verdict'.cmd = "against" /\ verdict'.mine = mine /\ verdict'.with = {s}
          /\ verdict'.code = IF Failed(rep) THEN 1 ELSE 0
      BY <2>2, <2>6
    <3> QED BY <2>5, <3>1 DEF SaysRight, VerdictIsOnTheMaker, DiffIsFair
  <2> QED BY <1>1, <2>1, <2>7, EndStep
<1> QED BY <1>2, <1>3

(* A command that only reads changes what it itself knows.                 *)
LEMMA ReadStep ==
  ASSUME BaselinesIInv, NEW m \in Members, UNCHANGED <<machine, file, source, snap>>, SaysRight',
         NEW at \in Places8, pc' = [pc EXCEPT ![m] = at],
         NEW more \in Seq(Files), args' = [args EXCEPT ![m] = more],
         NEW seen \in Seq(Contents \union (Members \X Contents)), read' = [read EXCEPT ![m] = seen],
         NEW there \in SUBSET Members, listed' = [listed EXCEPT ![m] = there],
         Knows(m)'
  PROVE  BaselinesIInv'
<1>1. Typed'
  BY DEF BaselinesIInv, Typed
<1>2. \A f \in Files : HasSource(f)'
  BY DEF BaselinesIInv, HasSource, Whole
<1>3. ASSUME NEW q \in Members, q # m
      PROVE  Knows(q)'
  <2>1. /\ pc'[q] = pc[q] /\ snap'[q] = snap[q] /\ args'[q] = args[q]
        /\ read'[q] = read[q] /\ listed'[q] = listed[q]
    BY <1>3 DEF BaselinesIInv, Typed
  <2>2. \A f : Whole(f) => Whole(f)'
    BY DEF Whole
  <2> QED BY <2>1, <2>2, KnowsKept DEF BaselinesIInv
<1> QED BY <1>1, <1>2, <1>3 DEF BaselinesIInv

LEMMA DiffStep ==
  ASSUME BaselinesIInv, NEW m \in Members, LoadForDiff(m)
  PROVE  BaselinesIInv'
<1> DEFINE f == Head(args[m])
<1>1. pc[m] = "diff" /\ UNCHANGED <<machine, file, source>>
  BY DEF LoadForDiff
<1>2. \/ Len(args[m]) = 2
      \/ Len(args[m]) = 1 /\ \E x \in Contents : read[m] = <<x>>
  BY <1>1 DEF BaselinesIInv, Knows
<1>3. args[m] \in Seq(Files) /\ args[m] # <<>>
  <2>1. args[m] \in Seq(Files)
    BY DEF BaselinesIInv, Typed
  <2>2. Len(args[m]) # 0
    BY <1>2
  <2> QED BY <2>1, <2>2
<1>4. f \in Files
  BY <1>3
<1>5. CASE ~Whole(f)
  <2>1. Error(m)
    BY <1>5 DEF LoadForDiff
  <2> QED BY <1>1, <2>1, ErrorStep
<1>6. CASE Whole(f) /\ Len(args[m]) = 2
  <2>1. /\ args' = [args EXCEPT ![m] = Tail(args[m])]
        /\ read' = [read EXCEPT ![m] = <<Content(f)>>]
        /\ UNCHANGED <<pc, snap, listed, verdict>>
    BY <1>6 DEF LoadForDiff, BaselinesIInv, Typed
  <2>2. Tail(args[m]) \in Seq(Files) /\ Len(Tail(args[m])) = 1
    BY <1>3, <1>6
  <2>3. Content(f) \in Contents
    BY <1>4, <1>6, WholeContent DEF BaselinesIInv
  <2>4. <<Content(f)>> \in Seq(Contents \union (Members \X Contents))
    BY <2>3
  <2>5. /\ pc' = [pc EXCEPT ![m] = pc[m]] /\ pc[m] \in Places8
        /\ listed' = [listed EXCEPT ![m] = listed[m]] /\ listed[m] \in SUBSET Members
    BY <2>1 DEF BaselinesIInv, Typed
  <2>6. Knows(m)'
    <3>1. pc'[m] = "diff" /\ args'[m] = Tail(args[m]) /\ read'[m] = <<Content(f)>>
      BY <1>1, <2>1 DEF BaselinesIInv, Typed
    <3> QED BY <2>2, <2>3, <3>1 DEF Knows
  <2>7. SaysRight'
    BY <2>1, SaysNothing DEF BaselinesIInv
  <2> HIDE DEF f
  <2> QED BY <1>1, <2>1, <2>2, <2>4, <2>5, <2>6, <2>7, ReadStep
<1>7. CASE Whole(f) /\ Len(args[m]) # 2
  <2> DEFINE a == read[m][1]
             b == Content(f)
             says == [cmd |-> "diff", by |-> m, a |-> a, b |-> b,
                      code |-> IF HasDifferences(Diff(a, b, "a", "b")) THEN 1 ELSE 0]
  <2>1. End(m, says)
    BY <1>7 DEF LoadForDiff
  <2>2. a \in Contents /\ b \in Contents
    <3>1. PICK x \in Contents : read[m] = <<x>>
      BY <1>2, <1>7
    <3>2. a = x
      BY <3>1
    <3>3. b \in Contents
      BY <1>4, <1>7, WholeContent DEF BaselinesIInv
    <3> QED BY <3>1, <3>2, <3>3
  <2>3. verdict' = says
    BY <2>1 DEF End
  <2>4. Comparable(a) /\ Comparable(b)
    BY <2>2, ContentsCompare
  <2>5. SaysRight'
    <3> HIDE DEF a, b
    <3>1. /\ verdict'.cmd = "diff" /\ verdict'.a = a /\ verdict'.b = b
          /\ verdict'.code = IF HasDifferences(Diff(a, b, "a", "b")) THEN 1 ELSE 0
      BY <2>3
    <3>2. Diff(b, a, "b", "a") = {Mirror(e) : e \in Diff(a, b, "a", "b")}
      BY <2>4, DiffFromBothSides
    <3>3. verdict'.code = 0 <=> Agree(a, b)
      BY <2>4, <3>1, DifferenceMeansDisagree
    <3> QED BY <3>1, <3>2, <3>3 DEF SaysRight, VerdictIsOnTheMaker, DiffIsFair
  <2> QED BY <1>1, <2>1, <2>5, EndStep
<1> QED BY <1>5, <1>6, <1>7

LEMMA LoadBaselineStep ==
  ASSUME BaselinesIInv, NEW m \in Members, LoadBaseline(m)
  PROVE  BaselinesIInv'
<1>1. pc[m] = "many" /\ UNCHANGED <<machine, file, source>>
  BY DEF LoadBaseline
<1>2. CASE ~Whole(Baseline)
  <2>1. Error(m)
    BY <1>2 DEF LoadBaseline
  <2> QED BY <1>1, <2>1, ErrorStep
<1>3. CASE Whole(Baseline)
  <2>1. /\ pc' = [pc EXCEPT ![m] = "list"]
        /\ read' = [read EXCEPT ![m] = <<Content(Baseline)>>]
        /\ UNCHANGED <<snap, args, listed, verdict>>
    BY <1>3 DEF LoadBaseline
  <2>2. Content(Baseline) \in Contents
    BY <1>3, WholeContent DEF BaselinesIInv, Files
  <2>3. <<Content(Baseline)>> \in Seq(Contents \union (Members \X Contents)) /\ "list" \in Places8
    BY <2>2 DEF Places8
  <2>4. /\ args' = [args EXCEPT ![m] = args[m]] /\ args[m] \in Seq(Files)
        /\ listed' = [listed EXCEPT ![m] = listed[m]] /\ listed[m] \in SUBSET Members
    BY <2>1 DEF BaselinesIInv, Typed
  <2>5. Knows(m)'
    <3>1. pc'[m] = "list" /\ read'[m] = <<Content(Baseline)>>
      BY <2>1 DEF BaselinesIInv, Typed
    <3> QED BY <2>2, <3>1 DEF Knows
  <2>6. SaysRight'
    BY <2>1, SaysNothing DEF BaselinesIInv
  <2> QED BY <1>1, <2>1, <2>3, <2>4, <2>5, <2>6, ReadStep
<1> QED BY <1>2, <1>3

(* The directory is listed in some order.                                  *)
LEMMA ReadDirStep ==
  ASSUME BaselinesIInv, NEW m \in Members, ReadDir(m)
  PROVE  BaselinesIInv'
<1> DEFINE there == {f \in Members : file[f].status # Absent}
           n == Cardinality(there)
           whole == {f \in there : Whole(f)}
<1>1. PICK order \in [1..n -> there] :
        /\ \A f \in there : \E i \in DOMAIN order : order[i] = f
        /\ args' = [args EXCEPT ![m] = order]
        /\ listed' = [listed EXCEPT ![m] = whole]
        /\ pc' = [pc EXCEPT ![m] = "load"]
  BY DEF ReadDir
<1>2. pc[m] = "list" /\ UNCHANGED <<machine, file, source, snap, read, verdict>>
  BY DEF ReadDir
<1>3. n \in Nat
  <2>1. there \subseteq Members /\ IsFiniteSet(Members)
    BY BaselinesAssumption
  <2> HIDE DEF there
  <2> QED BY <2>1, FS_Subset, FS_CardinalityType
<1>4. order \in Seq(there) /\ Len(order) = n
  <2> HIDE DEF there, n
  <2> QED BY <1>3
<1>5. order \in Seq(Members) /\ order \in Seq(Files)
  <2>1. there \subseteq Members /\ there \subseteq Files
    BY DEF Files
  <2> HIDE DEF there, n
  <2> QED BY <1>4, <2>1, SeqMonotonic
<1>6. \A f \in whole : Whole(f) /\ \E i \in 1..Len(order) : order[i] = f
  BY <1>1, <1>4
<1>7. PICK x \in Contents : read[m] = <<x>>
  BY <1>2 DEF BaselinesIInv, Knows
<1>8. /\ read' = [read EXCEPT ![m] = read[m]]
      /\ read[m] \in Seq(Contents \union (Members \X Contents))
      /\ "load" \in Places8 /\ whole \in SUBSET Members
  BY <1>2 DEF BaselinesIInv, Typed, Places8
<1> HIDE DEF whole, there, n
<1>9. Knows(m)'
  <2>1. /\ pc'[m] = "load" /\ args'[m] = order /\ listed'[m] = whole /\ read'[m] = <<x>>
    BY <1>1, <1>2, <1>7 DEF BaselinesIInv, Typed
  <2>2. Reads(m)'
    BY <2>1 DEF Reads
  <2>3. StillListed(m)'
    <3>1. \A f : Whole(f)' <=> Whole(f)
      BY <1>2 DEF Whole
    <3> QED BY <1>6, <2>1, <3>1 DEF StillListed
  <2> QED BY <1>5, <2>1, <2>2, <2>3 DEF Knows
<1>10. SaysRight'
  BY <1>2, SaysNothing DEF BaselinesIInv
<1> QED BY <1>1, <1>2, <1>5, <1>8, <1>9, <1>10, ReadStep

(* One more snapshot after those that were read.                           *)
LEMMA OneMoreRead ==
  ASSUME NEW S, NEW T, NEW s \in Seq(S \union T), Len(s) >= 1, s[1] \in S,
         \A i \in 2..Len(s) : s[i] \in T, NEW e \in T, NEW new, new = Append(s, e)
  PROVE  /\ new \in Seq(S \union T) /\ Len(new) >= 1 /\ new[1] \in S
         /\ \A i \in 2..Len(new) : new[i] \in T
         /\ \A i \in 2..Len(s) : i \in 2..Len(new) /\ new[i] = s[i]
         /\ \E i \in 2..Len(new) : new[i] = e
<1>1. Len(s) \in Nat
  BY LenProperties
<1>2. /\ new \in Seq(S \union T) /\ Len(new) = Len(s) + 1 /\ new[Len(s) + 1] = e
      /\ \A i \in 1..Len(s) : new[i] = s[i]
  BY AppendProperties
<1>3. new[1] \in S
  BY <1>1, <1>2
<1>4. ASSUME NEW i \in 2..Len(s)
      PROVE  i \in 2..Len(new) /\ new[i] = s[i]
  BY <1>1, <1>2
<1>5. ASSUME NEW i \in 2..Len(new)
      PROVE  new[i] \in T
  <2>1. i \in 2..Len(s) \/ i = Len(s) + 1
    BY <1>1, <1>2
  <2> QED BY <1>2, <1>4, <2>1
<1>6. Len(s) + 1 \in 2..Len(new)
  BY <1>1, <1>2
<1>7. Len(new) >= 1
  BY <1>1, <1>2
<1> QED BY <1>2, <1>3, <1>4, <1>5, <1>6, <1>7

LEMMA LoadNextStep ==
  ASSUME BaselinesIInv, NEW m \in Members, LoadNext(m)
  PROVE  BaselinesIInv'
<1> DEFINE f == Head(args[m])
           rest == Tail(args[m])
           Pairs == Members \X Contents
           seen == IF Whole(f) THEN Append(read[m], <<f, Content(f)>>) ELSE read[m]
<1>1. /\ pc[m] = "load" /\ args[m] # <<>> /\ UNCHANGED <<machine, file, source, pc, snap, listed, verdict>>
      /\ read' = [read EXCEPT ![m] = seen] /\ args' = [args EXCEPT ![m] = rest]
  BY DEF LoadNext, BaselinesIInv, Typed
<1>2. args[m] \in Seq(Members) /\ Reads(m) /\ StillListed(m)
  BY <1>1 DEF BaselinesIInv, Knows
<1>3. /\ f \in Members /\ f = args[m][1] /\ Len(args[m]) \in Nat \ {0}
      /\ rest \in Seq(Members) /\ Len(rest) = Len(args[m]) - 1
      /\ \A i \in 1..Len(rest) : rest[i] = args[m][i + 1]
  BY <1>1, <1>2, HeadTailProperties
<1> HIDE DEF f, rest
<1>4. Whole(f) => Content(f) \in Contents
  BY <1>3, WholeContent DEF BaselinesIInv, Files
<1>5. /\ read[m] \in Seq(Contents \union Pairs) /\ Len(read[m]) >= 1 /\ read[m][1] \in Contents
      /\ \A i \in 2..Len(read[m]) : read[m][i] \in Pairs
  BY <1>2 DEF BaselinesIInv, Typed, Reads
<1> DEFINE Good == /\ seen \in Seq(Contents \union Pairs) /\ Len(seen) >= 1 /\ seen[1] \in Contents
                   /\ \A i \in 2..Len(seen) : seen[i] \in Pairs
                   /\ \A i \in 2..Len(read[m]) : i \in 2..Len(seen) /\ seen[i] = read[m][i]
                   /\ Whole(f) => \E i \in 2..Len(seen) : seen[i] = <<f, Content(f)>>
<1>6. Good
  <2>1. CASE Whole(f)
    <3> DEFINE e == <<f, Content(f)>>
    <3>1. e \in Pairs /\ seen = Append(read[m], e)
      BY <1>3, <1>4, <2>1
    <3> HIDE DEF Pairs, seen, e
    <3>2. /\ seen \in Seq(Contents \union Pairs) /\ Len(seen) >= 1 /\ seen[1] \in Contents
          /\ \A i \in 2..Len(seen) : seen[i] \in Pairs
          /\ \A i \in 2..Len(read[m]) : i \in 2..Len(seen) /\ seen[i] = read[m][i]
          /\ \E i \in 2..Len(seen) : seen[i] = e
      BY <1>5, <3>1, OneMoreRead
    <3> QED BY <3>2 DEF e
  <2>2. CASE ~Whole(f)
    <3>1. seen = read[m]
      BY <2>2
    <3> HIDE DEF Pairs, seen
    <3> QED BY <1>5, <2>2, <3>1
  <2> QED BY <2>1, <2>2
<1> HIDE DEF seen
<1>7. rest \in Seq(Files)
  BY <1>3, SeqMonotonic DEF Files
<1>8. /\ pc' = [pc EXCEPT ![m] = pc[m]] /\ pc[m] \in Places8
      /\ listed' = [listed EXCEPT ![m] = listed[m]] /\ listed[m] \in SUBSET Members
  BY <1>1 DEF BaselinesIInv, Typed
<1>9. Knows(m)'
  <2>1. pc'[m] = "load" /\ args'[m] = rest /\ read'[m] = seen /\ listed'[m] = listed[m]
    BY <1>1 DEF BaselinesIInv, Typed
  <2>2. Reads(m)'
    BY <1>6, <2>1 DEF Reads
  <2>3. \A g : Whole(g)' <=> Whole(g)
    BY <1>1 DEF Whole
  <2>4. ASSUME NEW g \in listed[m]
        PROVE  \/ \E i \in 1..Len(rest) : rest[i] = g
               \/ \E i \in 2..Len(seen) : seen[i][1] = g
    <3>1. /\ Whole(g)
          /\ \/ \E i \in 1..Len(args[m]) : args[m][i] = g
             \/ \E i \in 2..Len(read[m]) : read[m][i][1] = g
      BY <1>2 DEF StillListed
    <3>2. CASE \E i \in 2..Len(read[m]) : read[m][i][1] = g
      BY <1>6, <3>2
    <3>3. CASE f = g
      <4>1. \E i \in 2..Len(seen) : seen[i] = <<f, Content(f)>>
        BY <1>6, <3>1, <3>3
      <4> QED BY <3>3, <4>1
    <3>4. CASE f # g /\ \E i \in 1..Len(args[m]) : args[m][i] = g
      <4>1. PICK i \in 1..Len(args[m]) : args[m][i] = g
        BY <3>4
      <4>2. i # 1
        BY <1>3, <3>4, <4>1
      <4>3. i - 1 \in 1..Len(rest) /\ (i - 1) + 1 = i
        BY <1>3, <4>2
      <4>4. rest[i - 1] = args[m][(i - 1) + 1]
        BY <1>3, <4>3
      <4> QED BY <4>1, <4>3, <4>4
    <3> QED BY <3>1, <3>2, <3>3, <3>4
  <2>5. StillListed(m)'
    <3>1. \A g \in listed[m] : Whole(g)
      BY <1>2 DEF StillListed
    <3> QED BY <2>1, <2>3, <2>4, <3>1 DEF StillListed
  <2> QED BY <1>3, <2>1, <2>2, <2>5 DEF Knows
<1>10. SaysRight'
  BY <1>1, SaysNothing DEF BaselinesIInv
<1> QED BY <1>1, <1>6, <1>7, <1>8, <1>9, <1>10, ReadStep

LEMMA SummarizeStep ==
  ASSUME BaselinesIInv, NEW m \in Members, Summarize(m)
  PROVE  BaselinesIInv'
<1>1. UNCHANGED <<machine, file, source>>
  BY DEF Summarize
<1>2. CASE Len(read[m]) = 1
  <2>1. Error(m)
    BY <1>2 DEF Summarize
  <2> QED BY <1>1, <2>1, ErrorStep
<1>3. CASE Len(read[m]) # 1
  <2> DEFINE inputs == [n \in {read[m][i][1] : i \in 2..Len(read[m])} |->
                          LET i == CHOOSE i \in 2..Len(read[m]) : read[m][i][1] = n
                          IN  read[m][i][2]]
             rows == Build(read[m][1], inputs)
             tally == Tally(rows)
             base == read[m][1]
             says == [cmd |-> "many", by |-> m, code |-> 0, base |-> base,
                      inputs |-> inputs, rows |-> rows, tally |-> tally]
  <2>1. End(m, says)
    BY <1>3 DEF Summarize
  <2>2. verdict' = says
    BY <2>1 DEF End
  <2> HIDE DEF inputs, rows, tally, base
  <2>3. verdict'.cmd = "many"
    BY <2>2
  <2>4. SaysRight'
    BY <2>3, SaysNothing DEF BaselinesIInv
  <2> QED BY <1>1, <2>1, <2>4, EndStep
<1> QED BY <1>2, <1>3

(* A machine changes: nobody who has captured it notices.                  *)
LEMMA MachineChangesStep ==
  ASSUME BaselinesIInv, NEW m \in Members, MachineChanges(m)
  PROVE  BaselinesIInv'
<1>1. PICK x \in Machines : machine' = [machine EXCEPT ![m] = x]
  BY DEF MachineChanges
<1>2. UNCHANGED <<file, source, pc, snap, args, read, listed, verdict>>
  BY DEF MachineChanges, commandVars
<1>3. Typed'
  BY <1>1, <1>2 DEF BaselinesIInv, Typed
<1>4. \A g \in Files : HasSource(g)'
  BY <1>2 DEF BaselinesIInv, HasSource, Whole
<1>5. \A q \in Members : Knows(q)'
  <2>1. \A g : Whole(g) => Whole(g)'
    BY <1>2 DEF Whole
  <2> QED BY <1>2, <2>1, KnowsKept DEF BaselinesIInv
<1>6. SaysRight'
  BY <1>2, SaysNothing DEF BaselinesIInv
<1> QED BY <1>3, <1>4, <1>5, <1>6 DEF BaselinesIInv

LEMMA BaselinesStep ==
  ASSUME BaselinesIInv, [Next]_vars
  PROVE  BaselinesIInv'
<1>1. CASE UNCHANGED vars
  <2>1. UNCHANGED <<machine, file, source, pc, snap, args, read, listed, verdict>>
    BY <1>1 DEF vars, commandVars
  <2>2. \A g : Whole(g) => Whole(g)'
    BY <2>1 DEF Whole
  <2>3. \A q \in Members : Knows(q)'
    BY <2>1, <2>2, KnowsKept DEF BaselinesIInv
  <2>4. Typed' /\ \A g \in Files : HasSource(g)'
    BY <2>1 DEF BaselinesIInv, Typed, HasSource, Whole
  <2>5. SaysRight'
    BY <2>1, SaysNothing DEF BaselinesIInv
  <2> QED BY <2>3, <2>4, <2>5 DEF BaselinesIInv
<1>2. CASE Next
  <2>1. PICK m \in Members :
          \/ Create(m) \/ TakeSnapshot(m) \/ CheckAgainst(m) \/ DiffTwo(m) \/ DiffMany(m)
          \/ Open(m) \/ Write(m) \/ WriteFails(m) \/ Killed(m)
          \/ Against(m) \/ LoadForDiff(m) \/ LoadBaseline(m) \/ ReadDir(m) \/ LoadNext(m) \/ Summarize(m)
          \/ MachineChanges(m)
    BY <1>2 DEF Next
  <2>2. CASE Create(m) \/ TakeSnapshot(m) \/ CheckAgainst(m) \/ DiffTwo(m) \/ DiffMany(m)
    BY <2>2, StartStep
  <2>3. CASE Open(m)
    BY <2>3, OpenStep
  <2>4. CASE Write(m) \/ WriteFails(m)
    BY <2>4, WriteStep
  <2>5. CASE Killed(m)
    BY <2>5, KilledStep
  <2>6. CASE Against(m)
    BY <2>6, AgainstStep
  <2>7. CASE LoadForDiff(m)
    BY <2>7, DiffStep
  <2>8. CASE LoadBaseline(m)
    BY <2>8, LoadBaselineStep
  <2>9. CASE ReadDir(m)
    BY <2>9, ReadDirStep
  <2>10. CASE LoadNext(m)
    BY <2>10, LoadNextStep
  <2>11. CASE Summarize(m)
    BY <2>11, SummarizeStep
  <2>12. CASE MachineChanges(m)
    BY <2>12, MachineChangesStep
  <2> QED BY <2>1, <2>2, <2>3, <2>4, <2>5, <2>6, <2>7, <2>8, <2>9, <2>10, <2>11, <2>12
<1> QED BY <1>1, <1>2 DEF Next

(* The invariant holds of every run of the commands of any number of       *)
(* members, whatever their machines are, become and overlap (store.Save,   *)
(* store.Load and the commands that use them).                             *)
THEOREM BaselinesInvariant == Spec => []BaselinesIInv
<1>1. Init => BaselinesIInv
  BY BaselinesInit
<1>2. BaselinesIInv /\ [Next]_vars => BaselinesIInv'
  BY BaselinesStep
<1> QED BY <1>1, <1>2, PTL DEF Spec
-----------------------------------------------------------------------------
(* check --against fails exactly if the machine it captured could not      *)
(* stand in for the one the baseline was made on, for all machines, ports, *)
(* keys and members (check.go, baseline.Sanitize, compare).                *)
THEOREM VerdictTellsTheMaker == Spec => []VerdictIsOnTheMaker
<1>1. BaselinesIInv => VerdictIsOnTheMaker
  BY DEF BaselinesIInv, SaysRight
<1> QED BY <1>1, BaselinesInvariant, PTL

(* diff is symmetric, and its exit code is 0 exactly if the two snapshots  *)
(* agree in all that is compared, for all machines (internal/diff).        *)
THEOREM DiffsAreFair == Spec => []DiffIsFair
<1>1. BaselinesIInv => DiffIsFair
  BY DEF BaselinesIInv, SaysRight
<1> QED BY <1>1, BaselinesInvariant, PTL

(* What an end of a member's list says of the others.                      *)
LEMMA SummaryHasThem ==
  ASSUME BaselinesIInv, NEW m \in Members, Summarize(m)
  PROVE  /\ verdict'.cmd = "error" => listed[m] = {}
         /\ verdict'.cmd = "many"  => listed[m] \subseteq DOMAIN verdict'.inputs
<1>1. pc[m] = "load" /\ args[m] = <<>> /\ StillListed(m)
  BY DEF Summarize, BaselinesIInv, Knows
<1>2. \A g \in listed[m] : \E i \in 2..Len(read[m]) : read[m][i][1] = g
  <2>1. Len(args[m]) = 0
    BY <1>1
  <2>2. ~\E i \in 1..Len(args[m]) : args[m][i] \in listed[m]
    BY <2>1
  <2> QED BY <1>1, <2>2 DEF StillListed
<1>3. CASE Len(read[m]) = 1
  <2>1. verdict'.cmd = "error"
    BY <1>3 DEF Summarize, Error, End
  <2>2. listed[m] = {}
    BY <1>2, <1>3
  <2> QED BY <2>1, <2>2
<1>4. CASE Len(read[m]) # 1
  <2> DEFINE names == {read[m][i][1] : i \in 2..Len(read[m])}
             inputs == [n \in names |->
                          LET i == CHOOSE i \in 2..Len(read[m]) : read[m][i][1] = n
                          IN  read[m][i][2]]
             base == read[m][1]
             rows == Build(base, inputs)
             tally == Tally(rows)
             says == [cmd |-> "many", by |-> m, code |-> 0, base |-> base,
                      inputs |-> inputs, rows |-> rows, tally |-> tally]
  <2>1. verdict' = says
    BY <1>4 DEF Summarize, End
  <2>2. DOMAIN inputs = names
    OBVIOUS
  <2>3. listed[m] \subseteq names
    BY <1>2
  <2> HIDE DEF inputs, rows, tally, base, names
  <2>4. verdict'.cmd = "many" /\ verdict'.inputs = inputs
    BY <2>1
  <2> QED BY <2>2, <2>3, <2>4
<1> QED BY <1>3, <1>4

(* Steps that do not end the list of a member.                             *)
LEMMA ListGoesOn ==
  ASSUME BaselinesIInv, [Next]_vars, NEW m \in Members, pc[m] = "load", pc'[m] = "idle"
  PROVE  Summarize(m) \/ Killed(m)
<1>1. pc \in [Members -> Places8] /\ pc' # pc
  BY DEF BaselinesIInv, Typed
<1>2. PICK q \in Members :
        \/ Create(q) \/ TakeSnapshot(q) \/ CheckAgainst(q) \/ DiffTwo(q) \/ DiffMany(q)
        \/ Open(q) \/ Write(q) \/ WriteFails(q) \/ Killed(q)
        \/ Against(q) \/ LoadForDiff(q) \/ LoadBaseline(q) \/ ReadDir(q) \/ LoadNext(q) \/ Summarize(q)
        \/ MachineChanges(q)
  BY <1>1 DEF Next, vars, commandVars
<1>3. q = m
  <2>1. ASSUME q # m
        PROVE  pc'[m] = pc[m]
    <3>1. \/ UNCHANGED pc
          \/ \E at : pc' = [pc EXCEPT ![q] = at]
      BY <1>2 DEF Create, TakeSnapshot, CheckAgainst, DiffTwo, DiffMany, Open, Write, WriteFails,
                  Killed, Against, LoadForDiff, LoadBaseline, ReadDir, LoadNext, Summarize,
                  MachineChanges, Set, End, Error, commandVars
    <3> QED BY <1>1, <2>1, <3>1
  <2> QED BY <2>1
<1>4. ~LoadNext(m) /\ ~MachineChanges(m)
  BY DEF LoadNext, MachineChanges, commandVars
<1>5. \/ Create(m) \/ TakeSnapshot(m) \/ CheckAgainst(m) \/ DiffTwo(m) \/ DiffMany(m) => pc[m] = "idle"
  BY DEF Create, TakeSnapshot, CheckAgainst, DiffTwo, DiffMany, Start
<1>6. Open(m) \/ Write(m) \/ WriteFails(m) => pc[m] # "load"
  BY DEF Open, Write, WriteFails
<1>7. Against(m) \/ LoadForDiff(m) \/ LoadBaseline(m) \/ ReadDir(m) => pc[m] # "load"
  BY DEF Against, LoadForDiff, LoadBaseline, ReadDir
<1> QED BY <1>2, <1>3, <1>4, <1>5, <1>6, <1>7

(* Whoever's snapshot was there, whole, when the directory was listed is   *)
(* in the summary, for any number of members (diffmany.go).                *)
THEOREM NobodyIsSkipped == Spec => NobodyIsLeftOut
<1>1. BaselinesIInv /\ [Next]_vars =>
        [\A m \in Members :
           pc[m] = "load" /\ pc'[m] = "idle" /\ verdict'.cmd # "killed" =>
             /\ verdict'.cmd = "error" => listed[m] = {}
             /\ verdict'.cmd = "many"  => listed[m] \subseteq DOMAIN verdict'.inputs]_vars
  <2> SUFFICES ASSUME BaselinesIInv, [Next]_vars, NEW m \in Members,
                      pc[m] = "load", pc'[m] = "idle", verdict'.cmd # "killed"
               PROVE  /\ verdict'.cmd = "error" => listed[m] = {}
                      /\ verdict'.cmd = "many"  => listed[m] \subseteq DOMAIN verdict'.inputs
    OBVIOUS
  <2>1. ~Killed(m)
    BY DEF Killed, End
  <2> QED BY <2>1, ListGoesOn, SummaryHasThem
<1> QED BY <1>1, BaselinesInvariant, PTL DEF Spec, NobodyIsLeftOut
-----------------------------------------------------------------------------
(* The types.                                                              *)
LEMMA ContentsAreSnapshots ==
  ASSUME NEW s \in Machines
  PROVE  /\ s \in Snapshot(Ports, Keys) /\ Sanitize(s) \in Snapshot(Ports, Keys)
         /\ Sanitize(s).host = "" /\ "root" \notin Sanitize(s).absolute
<1> DEFINE fields == {"host", "absolute", "manifests", "environment", "runtimes", "ports", "missing"}
<1>1. s \in Snapshot(Ports, Keys)
  BY BaselinesAssumption
<1>2. DOMAIN s = fields /\ s = [k \in fields |-> s[k]]
  BY <1>1 DEF Snapshot
<1>3. /\ Sanitize(s).host = "" /\ Sanitize(s).absolute = s.absolute \ {"root"}
      /\ Sanitize(s).manifests = s.manifests /\ Sanitize(s).environment = s.environment
      /\ Sanitize(s).runtimes = s.runtimes /\ Sanitize(s).ports = s.ports
      /\ Sanitize(s).missing = s.missing
      /\ DOMAIN Sanitize(s) = fields /\ Sanitize(s) = [k \in fields |-> Sanitize(s)[k]]
  BY <1>2 DEF Sanitize
<1>4. Sanitize(s) \in Snapshot(Ports, Keys)
  <2> DEFINE u == Sanitize(s)
  <2>1. /\ s.absolute \subseteq Places /\ s.manifests \subseteq STRING
        /\ s.environment \in [os : STRING, arch : STRING, git : STRING]
        /\ s.runtimes \in [RuntimeNames -> Tool]
        /\ s.ports \in UNION {[P -> BOOLEAN] : P \in SUBSET Ports}
        /\ s.missing \subseteq Keys
    BY <1>1 DEF Snapshot
  <2> HIDE DEF u
  <2> QED BY <1>3, <2>1 DEF Snapshot, u
<1> QED BY <1>1, <1>3, <1>4

Counted == commands \in 0..MaxCommands /\ edits \in 0..MaxEdits /\ faults \in 0..MaxFaults

(* Only a file that is whole has something in it that can be loaded.       *)
BrokenIsEmpty == \A f \in Files : ~Whole(f) => file[f].content = {}

LEMMA CountedInit == Init => Counted /\ BrokenIsEmpty
<1> SUFFICES ASSUME Init PROVE Counted /\ BrokenIsEmpty
  OBVIOUS
<1>1. Counted
  BY BaselinesAssumption DEF Init, Counted
<1>2. \A s : FileOf(s).status = "whole" /\ Broken(Absent).content = {}
  BY DEF FileOf, Broken
<1>3. \A f \in Files : file[f] = Broken(Absent) \/ \E s : file[f] = FileOf(s)
  BY DEF Init
<1> QED BY <1>1, <1>2, <1>3 DEF BrokenIsEmpty, Whole

LEMMA CountedStep ==
  ASSUME Counted, [Next]_vars
  PROVE  Counted'
<1>1. CASE UNCHANGED vars
  BY <1>1 DEF Counted, vars, bounds
<1>2. CASE Next
  <2>1. PICK m \in Members :
          \/ Create(m) \/ TakeSnapshot(m) \/ CheckAgainst(m) \/ DiffTwo(m) \/ DiffMany(m)
          \/ Open(m) \/ Write(m) \/ WriteFails(m) \/ Killed(m)
          \/ Against(m) \/ LoadForDiff(m) \/ LoadBaseline(m) \/ ReadDir(m) \/ LoadNext(m) \/ Summarize(m)
          \/ MachineChanges(m)
    BY <1>2 DEF Next
  <2>2. \/ UNCHANGED bounds
        \/ commands < MaxCommands /\ commands' = commands + 1 /\ UNCHANGED <<edits, faults>>
        \/ faults < MaxFaults /\ faults' = faults + 1 /\ UNCHANGED <<commands, edits>>
        \/ edits < MaxEdits /\ edits' = edits + 1 /\ UNCHANGED <<commands, faults>>
    <3>1. CASE Create(m) \/ TakeSnapshot(m) \/ CheckAgainst(m) \/ DiffTwo(m) \/ DiffMany(m)
      BY <3>1 DEF Create, TakeSnapshot, CheckAgainst, DiffTwo, DiffMany, Start
    <3>2. CASE Open(m) \/ Write(m) \/ WriteFails(m) \/ Killed(m)
      BY <3>2 DEF Open, Write, WriteFails, Killed
    <3>3. CASE Against(m) \/ LoadForDiff(m) \/ LoadBaseline(m) \/ ReadDir(m) \/ LoadNext(m) \/ Summarize(m)
      BY <3>3 DEF Against, LoadForDiff, LoadBaseline, ReadDir, LoadNext, Summarize
    <3>4. CASE MachineChanges(m)
      BY <3>4 DEF MachineChanges
    <3> QED BY <2>1, <3>1, <3>2, <3>3, <3>4
  <2> QED BY <2>2, BaselinesAssumption DEF Counted, bounds
<1> QED BY <1>1, <1>2

LEMMA BrokenStep ==
  ASSUME Typed, BrokenIsEmpty, [Next]_vars
  PROVE  BrokenIsEmpty'
<1>1. ASSUME NEW new, new.status # "whole" => new.content = {},
             NEW f, file' = [file EXCEPT ![f] = new]
      PROVE  BrokenIsEmpty'
  BY <1>1 DEF Typed, BrokenIsEmpty, Whole
<1>2. \A s, how : FileOf(s).status = "whole" /\ Broken(how).content = {}
  BY DEF FileOf, Broken
<1>3. \/ UNCHANGED file
      \/ \E f, s : file' = [file EXCEPT ![f] = FileOf(s)]
      \/ \E f, how : file' = [file EXCEPT ![f] = Broken(how)]
  <2>1. CASE UNCHANGED vars
    BY <2>1 DEF vars
  <2>2. CASE Next
    <3>1. PICK m \in Members :
            \/ Create(m) \/ TakeSnapshot(m) \/ CheckAgainst(m) \/ DiffTwo(m) \/ DiffMany(m)
            \/ Open(m) \/ Write(m) \/ WriteFails(m) \/ Killed(m)
            \/ Against(m) \/ LoadForDiff(m) \/ LoadBaseline(m) \/ ReadDir(m) \/ LoadNext(m) \/ Summarize(m)
            \/ MachineChanges(m)
      BY <2>2 DEF Next
    <3>2. CASE Create(m) \/ TakeSnapshot(m) \/ CheckAgainst(m) \/ DiffTwo(m) \/ DiffMany(m)
      BY <3>2 DEF Create, TakeSnapshot, CheckAgainst, DiffTwo, DiffMany, Start
    <3>3. CASE Open(m)
      BY <3>3 DEF Open
    <3>4. CASE Write(m)
      BY <3>4 DEF Write
    <3>5. CASE WriteFails(m)
      BY <3>5 DEF WriteFails
    <3>6. CASE Killed(m) \/ MachineChanges(m)
      BY <3>6 DEF Killed, MachineChanges
    <3>7. CASE Against(m) \/ LoadForDiff(m) \/ LoadBaseline(m) \/ ReadDir(m) \/ LoadNext(m) \/ Summarize(m)
      BY <3>7 DEF Against, LoadForDiff, LoadBaseline, ReadDir, LoadNext, Summarize
    <3> QED BY <3>1, <3>2, <3>3, <3>4, <3>5, <3>6, <3>7
  <2> QED BY <2>1, <2>2
<1>4. CASE UNCHANGED file
  BY <1>4 DEF BrokenIsEmpty, Whole
<1> QED BY <1>1, <1>2, <1>3, <1>4

(* Every variable keeps its type; a baseline that can be loaded is the     *)
(* sanitized snapshot of a machine, whoever else writes it (store.Save,    *)
(* baseline.Sanitize).                                                     *)
THEOREM BaselinesTypes == Spec => []TypeOK
<1>1. BaselinesIInv /\ Counted /\ BrokenIsEmpty => TypeOK
  <2> SUFFICES ASSUME BaselinesIInv, Counted, BrokenIsEmpty PROVE TypeOK
    OBVIOUS
  <2>1. ASSUME NEW f \in Files
        PROVE  /\ file[f].status \in NoFile \union {"whole"}
               /\ file[f].content \subseteq Snapshot(Ports, Keys)
               /\ Whole(f) <=> file[f].content # {}
               /\ source[f] \subseteq Machines
    <3>1. /\ file[f] \in [status : NoFile \union {"whole"}, content : SUBSET Contents]
          /\ source[f] \subseteq Machines
      BY DEF BaselinesIInv, Typed
    <3>2. Contents \subseteq Snapshot(Ports, Keys)
      BY ContentsAreSnapshots DEF Contents
    <3>3. Whole(f) => file[f].content # {}
      BY DEF BaselinesIInv, HasSource
    <3>4. ~Whole(f) => file[f].content = {}
      BY DEF BrokenIsEmpty
    <3> QED BY <3>1, <3>2, <3>3, <3>4
  <2>2. Whole(Baseline) => Content(Baseline).host = "" /\ "root" \notin Content(Baseline).absolute
    <3> SUFFICES ASSUME Whole(Baseline)
                 PROVE  Content(Baseline).host = "" /\ "root" \notin Content(Baseline).absolute
      OBVIOUS
    <3>1. PICK s \in Machines : file[Baseline].content = {Sanitize(s)}
      BY DEF BaselinesIInv, HasSource, Files
    <3>2. Content(Baseline) = Sanitize(s)
      BY <3>1, ContentOf
    <3> QED BY <3>2, ContentsAreSnapshots
  <2>3. \A m \in Members : snap[m] \subseteq Machines /\ listed[m] \subseteq Members
    BY DEF BaselinesIInv, Typed
  <2>4. machine \in [Members -> Machines]
    BY DEF BaselinesIInv, Typed
  <2> QED BY <2>1, <2>2, <2>3, <2>4 DEF TypeOK, Counted
<1>2. BaselinesIInv /\ Counted /\ BrokenIsEmpty /\ [Next]_vars => (Counted /\ BrokenIsEmpty)'
  BY CountedStep, BrokenStep DEF BaselinesIInv
<1> QED BY <1>1, <1>2, CountedInit, BaselinesInvariant, PTL DEF Spec
-----------------------------------------------------------------------------
(* What a summary says.                                                    *)

(* An entry has a blocker exactly if it is critical, and every entry is a  *)
(* difference unless it is about the environment.                          *)
LEMMA BlockersAreCritical ==
  ASSUME NEW s, NEW t, NEW A, NEW B, NEW e \in Diff(s, t, A, B)
  PROVE  /\ e.blocker # <<>> <=> e.severity = "critical"
         /\ e.category # "Environment" => e.severity # "info"
<1> DEFINE required == RequiredRuntimes(s.manifests \union t.manifests)
           F(n) == RuntimeEntry(required, n, s.runtimes[n], t.runtimes[n], A, B)
           Fine(x) == /\ x.blocker # <<>> <=> x.severity = "critical"
                      /\ x.category # "Environment" => x.severity # "info"
<1>1. \A x \in EnvironmentEntries(s.environment, t.environment) : Fine(x)
  <2>1. \A f, x, y : Fine(Entry("Environment", f, x, y, IF f = "git" THEN "difference" ELSE "info", <<>>))
    BY DEF Entry
  <2> HIDE DEF Fine
  <2> QED BY <2>1 DEF EnvironmentEntries
<1>2. \A x \in PortEntries(s.ports, t.ports) : Fine(x)
  <2>1. \A p, x, y : Fine(Entry("Port", p, x, y, "difference", <<>>))
    BY DEF Entry
  <2> HIDE DEF Fine
  <2> QED BY <2>1 DEF PortEntries
<1>3. \A x \in EnvEntries(s.missing, t.missing) : Fine(x)
  <2>1. \A side, keys : Fine(EnvEntry(side, keys))
    <3> TAKE side, keys
    <3>1. <<"absent", side, keys>> # <<>>
      OBVIOUS
    <3>2. EnvEntry(side, keys).blocker = <<"absent", side, keys>>
      BY DEF EnvEntry, Entry
    <3> QED BY <3>1, <3>2, SideEntry
  <2>2. \A side, keys : \A x \in SideEntries(side, keys) : x = EnvEntry(side, keys)
    BY SideEntry
  <2> HIDE DEF Fine
  <2>3. \A side, keys : \A x \in SideEntries(side, keys) : Fine(x)
    BY <2>1, <2>2
  <2> QED BY <2>3, EnvBySide
<1>4. \A n : Fine(F(n))
  <2> TAKE n
  <2> DEFINE x == s.runtimes[n]
             y == t.runtimes[n]
             who == IF ~x.present THEN A ELSE B
  <2>1. /\ F(n).category = "Runtime"
        /\ F(n).severity = IF Lacking(required, n, x, y) \/ Clash(x, y) THEN "critical" ELSE "difference"
        /\ F(n).blocker = IF Lacking(required, n, x, y) THEN <<"missing", n, who>>
                          ELSE IF Clash(x, y) THEN <<"major", n, x.version, y.version>> ELSE <<>>
    BY DEF RuntimeEntry, Entry
  <2>2. <<"missing", n, who>> # <<>> /\ <<"major", n, x.version, y.version>> # <<>>
    OBVIOUS
  <2> HIDE DEF F, x, y, who
  <2> QED BY <2>1, <2>2
<1> HIDE DEF F, Fine
<1>5. Diff(s, t, A, B) = EnvironmentEntries(s.environment, t.environment) \union PortEntries(s.ports, t.ports)
                          \union EnvEntries(s.missing, t.missing) \union {F(n) : n \in Differing(s, t)}
  BY DiffBySection DEF F, required
<1>6. Fine(e)
  BY <1>1, <1>2, <1>3, <1>4, <1>5
<1> QED BY <1>6 DEF Fine

LEMMA NoBlockersIfCompatible ==
  ASSUME NEW s, NEW t, Comparable(s), Comparable(t), NEW A, NEW B
  PROVE  /\ Blockers(Diff(s, t, A, B)) = {} <=> ~Incompatible(s, t)
         /\ ~HasDifferences(Diff(s, t, A, B)) =>
              /\ Blockers(Diff(s, t, A, B)) = {}
              /\ \A e \in Diff(s, t, A, B) : e.category = "Environment"
<1> DEFINE entries == Diff(s, t, A, B)
<1>1. \A e \in entries : /\ e.blocker # <<>> <=> e.severity = "critical"
                         /\ e.category # "Environment" => e.severity # "info"
  BY BlockersAreCritical
<1>2. (\E e \in entries : e.severity = "critical") <=> Incompatible(s, t)
  BY CriticalMeansIncompatible
<1> HIDE DEF entries
<1>3. Blockers(entries) = {} <=> \A e \in entries : e.blocker = <<>>
  <2> DEFINE none == <<>>
  <2>1. Blockers(entries) = {e.blocker : e \in entries} \ {none}
    BY DEF Blockers
  <2> HIDE DEF none
  <2>2. Blockers(entries) = {} <=> \A e \in entries : e.blocker = none
    BY <2>1
  <2> QED BY <2>2 DEF none
<1>4. Blockers(entries) = {} <=> \A e \in entries : e.severity # "critical"
  BY <1>1, <1>3
<1>5. ~HasDifferences(entries) <=> \A e \in entries : e.severity = "info"
  BY DEF HasDifferences
<1>6. ~HasDifferences(entries) => \A e \in entries : e.severity # "critical" /\ e.category = "Environment"
  <2>1. "info" # "critical"
    OBVIOUS
  <2>2. \A e \in entries : e.category # "Environment" => e.severity # "info"
    BY <1>1
  <2> QED BY <1>5, <2>1, <2>2
<1> QED BY <1>2, <1>4, <1>6 DEF entries

LEMMA FiniteImage ==
  ASSUME NEW S, IsFiniteSet(S), NEW f
  PROVE  IsFiniteSet({f[x] : x \in S})
<1> DEFINE T == {f[x] : x \in S}
           g == [x \in S |-> f[x]]
<1>1. g \in Surjection(S, T)
  BY DEF Surjection
<1> QED BY <1>1, FS_Surjection

LEMMA FewRuntimes == IsFiniteSet(RuntimeNames)
<1> DEFINE names == <<"node", "npm", "pnpm", "yarn", "python", "pip", "uv", "java", "maven",
                      "gradle", "go", "rust", "cargo", "docker">>
<1>1. RuntimeNames = {names[i] : i \in 1..14}
  BY DEF RuntimeNames
<1> HIDE DEF names
<1>2. IsFiniteSet(1..14)
  <2>1. 1 \in Int /\ 14 \in Int
    OBVIOUS
  <2> QED BY ONLY <2>1, FS_Interval
<1> QED BY <1>1, <1>2, FiniteImage

(* However many ports there are, a comparison has few blockers.            *)
LEMMA FewBlockers ==
  ASSUME NEW s, NEW t, NEW A, NEW B
  PROVE  IsFiniteSet(Blockers(Diff(s, t, A, B)))
<1> DEFINE required == RequiredRuntimes(s.manifests \union t.manifests)
           F(n) == RuntimeEntry(required, n, s.runtimes[n], t.runtimes[n], A, B)
           g == [n \in RuntimeNames |-> F(n).blocker]
           ofTools == {g[n] : n \in RuntimeNames}
           ofKeys  == {EnvEntry("B", t.missing \ s.missing).blocker} \union {EnvEntry("A", s.missing \ t.missing).blocker}
<1>1. IsFiniteSet(ofTools)
  <2> HIDE DEF g
  <2> QED BY FewRuntimes, FiniteImage
<1>2. IsFiniteSet(ofKeys)
  BY FS_Singleton, FS_Union
<1>3. \A e \in EnvironmentEntries(s.environment, t.environment) \union PortEntries(s.ports, t.ports) : e.blocker = <<>>
  BY DEF EnvironmentEntries, PortEntries, Entry
<1>4. \A e \in EnvEntries(s.missing, t.missing) : e.blocker \in ofKeys
  <2>1. \A side, keys : \A e \in SideEntries(side, keys) : e = EnvEntry(side, keys)
    BY SideEntry
  <2> HIDE DEF ofKeys
  <2> QED BY <2>1, EnvBySide DEF ofKeys
<1>5. \A n \in Differing(s, t) : F(n).blocker \in ofTools
  <2>1. \A n \in Differing(s, t) : n \in RuntimeNames /\ F(n).blocker = g[n]
    BY DEF Differing
  <2> HIDE DEF F, g
  <2> QED BY <2>1
<1>6. Diff(s, t, A, B) = EnvironmentEntries(s.environment, t.environment) \union PortEntries(s.ports, t.ports)
                          \union EnvEntries(s.missing, t.missing) \union {F(n) : n \in Differing(s, t)}
  BY DiffBySection
<1> HIDE DEF F, ofTools, ofKeys
<1>7. Blockers(Diff(s, t, A, B)) \subseteq ofTools \union ofKeys
  BY <1>3, <1>4, <1>5, <1>6 DEF Blockers
<1>8. IsFiniteSet(ofTools \union ofKeys)
  BY <1>1, <1>2, FS_Union
<1> QED BY <1>7, <1>8, FS_Subset

(* A blocker is counted at least once for each machine that has it.        *)
LEMMA TallyCounts ==
  ASSUME NEW rows, IsFiniteSet(DOMAIN rows), \A n \in DOMAIN rows : IsFiniteSet(rows[n].blockers),
         NEW k \in DOMAIN Tally(rows)
  PROVE  Tally(rows)[k] >= Cardinality({n \in DOMAIN rows : k \in {NormalizeBlocker(b) : b \in rows[n].blockers}})
<1> DEFINE Of(n) == {<<n, b>> : b \in rows[n].blockers}
           counted == UNION {Of(n) : n \in DOMAIN rows}
           same == {x \in counted : NormalizeBlocker(x[2]) = k}
           machines == {n \in DOMAIN rows : k \in {NormalizeBlocker(b) : b \in rows[n].blockers}}
<1>1. Tally(rows)[k] = Cardinality(same)
  BY DEF Tally
<1>2. IsFiniteSet(counted)
  <2>1. \A n \in DOMAIN rows : IsFiniteSet(Of(n))
    <3> TAKE n \in DOMAIN rows
    <3> DEFINE S == rows[n].blockers
               f == [b \in S |-> <<n, b>>]
               image == {f[b] : b \in S}
    <3>1. Of(n) = image
      OBVIOUS
    <3>2. IsFiniteSet(S)
      OBVIOUS
    <3>3. IsFiniteSet(image)
      <4> HIDE DEF S, f
      <4> QED BY <3>2, FiniteImage
    <3> HIDE DEF image, Of
    <3> QED BY <3>1, <3>3
  <2> DEFINE g == [n \in DOMAIN rows |-> Of(n)]
             all == {g[n] : n \in DOMAIN rows}
  <2>2. IsFiniteSet(all) /\ \A n \in DOMAIN rows : g[n] = Of(n)
    <3>1. \A n \in DOMAIN rows : g[n] = Of(n)
      OBVIOUS
    <3> HIDE DEF g
    <3> QED BY <3>1, FiniteImage
  <2>3. all = {Of(n) : n \in DOMAIN rows}
    OBVIOUS
  <2> HIDE DEF Of, all
  <2>4. \A T \in all : IsFiniteSet(T)
    BY <2>1, <2>3
  <2> QED BY <2>2, <2>3, <2>4, FS_UNION
<1>3. IsFiniteSet(same)
  <2>1. same \in SUBSET counted
    OBVIOUS
  <2> HIDE DEF counted, same
  <2> QED BY <1>2, <2>1, FS_Subset
<1> DEFINE Why(n) == CHOOSE b \in rows[n].blockers : NormalizeBlocker(b) = k
           f == [n \in machines |-> <<n, Why(n)>>]
<1>4. \A n \in machines : f[n] = <<n, Why(n)>> /\ f[n] \in same
  <2> TAKE n \in machines
  <2>1. f[n] = <<n, Why(n)>>
    OBVIOUS
  <2>2. \E b \in rows[n].blockers : NormalizeBlocker(b) = k
    OBVIOUS
  <2>3. Why(n) \in rows[n].blockers /\ NormalizeBlocker(Why(n)) = k
    BY <2>2
  <2> HIDE DEF f, Why
  <2>4. <<n, Why(n)>> \in counted /\ <<n, Why(n)>>[2] = Why(n)
    BY <2>3
  <2> HIDE DEF counted
  <2> QED BY <2>1, <2>3, <2>4
<1>5. f \in [machines -> same]
  <2> HIDE DEF same
  <2> QED BY <1>4
<1>6. \A n, q \in machines : f[n] = f[q] => n = q
  <2> HIDE DEF f, Why, machines
  <2> QED BY <1>4
<1>7. f \in Injection(machines, same)
  <2> HIDE DEF f, machines, same
  <2> QED BY <1>5, <1>6 DEF Injection, IsInjective
<1>8. Cardinality(machines) <= Cardinality(same) /\ IsFiniteSet(machines)
  BY <1>3, <1>7, FS_Injection
<1>9. Cardinality(machines) \in Nat /\ Cardinality(same) \in Nat
  BY <1>3, <1>8, FS_CardinalityType
<1> HIDE DEF machines, same
<1> QED BY <1>1, <1>8, <1>9 DEF machines

(* A row of a summary, and a summary, that say what SummaryIsFair asks.    *)
RowIsFair(base, input, row) ==
  /\ row.ok <=> Agree(base, input)
  /\ row.ok => row.blockers = {} /\ row.cells = {}
  /\ row.blockers = {} <=> ~Incompatible(base, input)

TallyIsFair(rows, tally) ==
  \A t \in DOMAIN tally :
    tally[t] >= Cardinality({n \in DOMAIN rows : t \in {NormalizeBlocker(b) : b \in rows[n].blockers}})

LEMMA RowsAreFair ==
  ASSUME NEW base \in Contents, NEW inputs, \A n \in DOMAIN inputs : inputs[n] \in Contents
  PROVE  /\ DOMAIN Build(base, inputs) = DOMAIN inputs
         /\ \A n \in DOMAIN inputs : /\ RowIsFair(base, inputs[n], Build(base, inputs)[n])
                                     /\ IsFiniteSet(Build(base, inputs)[n].blockers)
<1> DEFINE Entries(n) == Diff(base, inputs[n], "baseline", n)
           entries == [n \in DOMAIN inputs |-> Entries(n)]
           Column(e) == CASE e.category = "Env" -> "Env" [] e.category = "Port" -> "Ports" [] OTHER -> e.name
           Row(n) == [ok       |-> ~HasDifferences(entries[n]),
                      blockers |-> Blockers(entries[n]),
                      cells    |-> {Column(e) : e \in {x \in entries[n] : x.category # "Environment"}}]
           rows == Build(base, inputs)
<1>1. rows = [n \in DOMAIN inputs |-> Row(n)]
  BY DEF Build
<1>2. DOMAIN rows = DOMAIN inputs /\ \A n \in DOMAIN inputs : rows[n] = Row(n)
  <2> HIDE DEF Row, rows
  <2> QED BY <1>1
<1>3. ASSUME NEW n \in DOMAIN inputs
      PROVE  /\ RowIsFair(base, inputs[n], Row(n))
             /\ IsFiniteSet(Row(n).blockers)
  <2>1. entries[n] = Entries(n)
    OBVIOUS
  <2>2. Comparable(base) /\ Comparable(inputs[n])
    BY ContentsCompare
  <2>3. HasDifferences(Entries(n)) <=> ~Agree(base, inputs[n])
    BY <2>2, DifferenceMeansDisagree
  <2>4. /\ Blockers(Entries(n)) = {} <=> ~Incompatible(base, inputs[n])
        /\ ~HasDifferences(Entries(n)) =>
             /\ Blockers(Entries(n)) = {}
             /\ \A e \in Entries(n) : e.category = "Environment"
    BY <2>2, NoBlockersIfCompatible
  <2>5. IsFiniteSet(Blockers(Entries(n)))
    BY FewBlockers
  <2> HIDE DEF Entries, entries, Column
  <2>6. /\ Row(n).ok <=> ~HasDifferences(Entries(n))
        /\ Row(n).blockers = Blockers(Entries(n))
        /\ Row(n).cells = {Column(e) : e \in {x \in Entries(n) : x.category # "Environment"}}
    BY <2>1
  <2> HIDE DEF Row
  <2>7. ~HasDifferences(Entries(n)) => Row(n).cells = {}
    BY <2>4, <2>6
  <2> QED BY <2>3, <2>4, <2>5, <2>6, <2>7 DEF RowIsFair
<1> HIDE DEF Row, rows
<1>4. \A n \in DOMAIN inputs : /\ RowIsFair(base, inputs[n], rows[n])
                               /\ IsFiniteSet(rows[n].blockers)
  BY <1>2, <1>3
<1> QED BY <1>2, <1>4 DEF rows

LEMMA SummaryStep ==
  ASSUME BaselinesIInv, NEW m \in Members, Summarize(m)
  PROVE  SummaryIsFair'
<1>1. pc[m] = "load" /\ Reads(m)
  BY DEF Summarize, BaselinesIInv, Knows
<1>2. CASE Len(read[m]) = 1
  <2>1. verdict'.cmd = "error"
    BY <1>2 DEF Summarize, Error, End
  <2> QED BY <2>1 DEF SummaryIsFair
<1>3. CASE Len(read[m]) # 1
  <2> DEFINE names == {read[m][i][1] : i \in 2..Len(read[m])}
             Which(n) == CHOOSE i \in 2..Len(read[m]) : read[m][i][1] = n
             inputs == [n \in names |-> read[m][Which(n)][2]]
             base == read[m][1]
             rows == Build(base, inputs)
             tally == Tally(rows)
             says == [cmd |-> "many", by |-> m, code |-> 0, base |-> base,
                      inputs |-> inputs, rows |-> rows, tally |-> tally]
  <2>1. verdict' = says
    BY <1>3 DEF Summarize, End
  <2>2. \A i \in 2..Len(read[m]) : read[m][i][1] \in Members /\ read[m][i][2] \in Contents
    BY <1>1 DEF Reads
  <2>3. DOMAIN inputs = names
    OBVIOUS
  <2>4. names \subseteq Members
    BY <2>2
  <2>5. \A n \in names : inputs[n] \in Contents
    <3> TAKE n \in names
    <3>1. \E i \in 2..Len(read[m]) : read[m][i][1] = n
      OBVIOUS
    <3>2. Which(n) \in 2..Len(read[m])
      BY <3>1
    <3>3. inputs[n] = read[m][Which(n)][2]
      OBVIOUS
    <3> HIDE DEF Which, inputs, names
    <3> QED BY <2>2, <3>2, <3>3
  <2>6. base \in Contents
    BY <1>1 DEF Reads
  <2> HIDE DEF names, inputs, base
  <2>7. /\ DOMAIN rows = names
        /\ \A n \in names : RowIsFair(base, inputs[n], rows[n]) /\ IsFiniteSet(rows[n].blockers)
    BY <2>3, <2>5, <2>6, RowsAreFair
  <2>8. IsFiniteSet(names)
    BY <2>4, BaselinesAssumption, FS_Subset
  <2> HIDE DEF rows
  <2>9. TallyIsFair(rows, tally)
    BY <2>7, <2>8, TallyCounts DEF TallyIsFair
  <2> HIDE DEF tally
  <2>10. /\ verdict'.rows = rows /\ verdict'.base = base /\ verdict'.inputs = inputs
         /\ verdict'.tally = tally
    BY <2>1
  <2>11. /\ \A n \in DOMAIN verdict'.rows : RowIsFair(verdict'.base, verdict'.inputs[n], verdict'.rows[n])
         /\ TallyIsFair(verdict'.rows, verdict'.tally)
    BY <2>7, <2>9, <2>10
  <2> QED BY <2>11 DEF SummaryIsFair, RowIsFair, TallyIsFair
<1> QED BY <1>2, <1>3

(* Only diff-many says anything about many.                                *)
LEMMA OthersSayLittle ==
  ASSUME [Next]_vars
  PROVE  \/ UNCHANGED verdict
         \/ verdict'.cmd # "many"
         \/ \E m \in Members : Summarize(m)
<1>1. CASE UNCHANGED vars
  BY <1>1 DEF vars, commandVars
<1>2. CASE Next
  <2>1. PICK m \in Members :
          \/ Create(m) \/ TakeSnapshot(m) \/ CheckAgainst(m) \/ DiffTwo(m) \/ DiffMany(m)
          \/ Open(m) \/ Write(m) \/ WriteFails(m) \/ Killed(m)
          \/ Against(m) \/ LoadForDiff(m) \/ LoadBaseline(m) \/ ReadDir(m) \/ LoadNext(m) \/ Summarize(m)
          \/ MachineChanges(m)
    BY <1>2 DEF Next
  <2>2. CASE Create(m) \/ TakeSnapshot(m) \/ CheckAgainst(m) \/ DiffTwo(m) \/ DiffMany(m)
    <3>1. verdict' = Nothing
      BY <2>2 DEF Create, TakeSnapshot, CheckAgainst, DiffTwo, DiffMany
    <3> QED BY <3>1 DEF Nothing
  <2>3. CASE Open(m) \/ ReadDir(m) \/ LoadNext(m) \/ MachineChanges(m)
    BY <2>3 DEF Open, ReadDir, LoadNext, MachineChanges, commandVars
  <2>4. CASE Write(m) \/ WriteFails(m) \/ Killed(m)
    <3>1. \/ verdict' = [cmd |-> "saved", by |-> m, code |-> 0]
          \/ verdict' = [cmd |-> "error", by |-> m, code |-> 2]
          \/ verdict' = [cmd |-> "killed", by |-> m, code |-> 137]
      BY <2>4 DEF Write, WriteFails, Killed, End
    <3> QED BY <3>1
  <2>5. CASE Against(m)
    <3>1. \/ verdict' = [cmd |-> "error", by |-> m, code |-> 2]
          \/ \E mine, with, code :
               verdict' = [cmd |-> "against", by |-> m, mine |-> mine, with |-> with, code |-> code]
      BY <2>5 DEF Against, Error, End
    <3> QED BY <3>1
  <2>6. CASE LoadForDiff(m)
    <3>1. \/ UNCHANGED verdict
          \/ verdict' = [cmd |-> "error", by |-> m, code |-> 2]
          \/ \E a, b, code :
               verdict' = [cmd |-> "diff", by |-> m, a |-> a, b |-> b, code |-> code]
      BY <2>6 DEF LoadForDiff, Error, End
    <3> QED BY <3>1
  <2>7. CASE LoadBaseline(m)
    <3>1. UNCHANGED verdict \/ verdict' = [cmd |-> "error", by |-> m, code |-> 2]
      BY <2>7 DEF LoadBaseline, Error, End
    <3> QED BY <3>1
  <2> QED BY <2>1, <2>2, <2>3, <2>4, <2>5, <2>6, <2>7
<1> QED BY <1>1, <1>2

(* In a summary a machine is fine exactly if diff finds nothing between it *)
(* and the baseline, has a blocker exactly if it could not stand in for    *)
(* the maker of the baseline, and no blocker is lost by the count, for any *)
(* number of members and whatever their machines are (team.Build).         *)
THEOREM SummariesAreFair == Spec => []SummaryIsFair
<1>1. Init => SummaryIsFair
  BY DEF Init, Nothing, SummaryIsFair
<1>2. BaselinesIInv /\ SummaryIsFair /\ [Next]_vars => SummaryIsFair'
  <2> SUFFICES ASSUME BaselinesIInv, SummaryIsFair, [Next]_vars
               PROVE  SummaryIsFair'
    OBVIOUS
  <2>1. CASE UNCHANGED verdict
    BY <2>1 DEF SummaryIsFair
  <2>2. CASE verdict'.cmd # "many"
    BY <2>2 DEF SummaryIsFair
  <2>3. CASE \E m \in Members : Summarize(m)
    BY <2>3, SummaryStep
  <2> QED BY <2>1, <2>2, <2>3, OthersSayLittle
<1> QED BY <1>1, <1>2, BaselinesInvariant, PTL DEF Spec
=============================================================================
