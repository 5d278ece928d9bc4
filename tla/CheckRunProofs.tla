--------------------------- MODULE CheckRunProofs ---------------------------
(* Proofs about `snagify check`: for every list of custom checks and       *)
(* plugins the exit code and the report tell how the children ended.       *)
EXTENDS CheckRun, TLAPS

(* The verdict v on job i agrees with how its child ended.                 *)
Fits(i, v) ==
  IF IsCustom(i) THEN (v = "ok" <=> Passed(i)) /\ (v = "rejected" <=> Malformed(i))
  ELSE v = "results" <=> Passed(i) /\ said[i].kind = "results"

NothingBeforeTheJobs ==
  main \in {"capture", "config", "sections"} => cur = 1 /\ child = "none" /\ report = {}

ChildIsCurrent == child # "none" => cur \in Jobs /\ (IsCustom(cur) => ~Malformed(cur))

(* Nothing is known yet of a child that has not ended.                     *)
FateIsOpen ==
  \A i \in Jobs : i > cur \/ (i = cur /\ child \in {"none", "running"}) =>
    fate[i] = "none" /\ ~struck[i]

PastJobsAreReported ==
  \A i \in Jobs : i < cur => Fits(i, verdict[i]) /\ ItemsFor(i, verdict[i]) \subseteq report

NothingElseIsReported ==
  \A it \in report :
    \/ it.section \in Sections /\ it.job = 0
    \/ it.job \in Jobs /\ it.job < cur /\ it \in ItemsFor(it.job, verdict[it.job])

ExitsWithTheReport ==
  main = "exited" /\ code # 2 => cur = Last + 1 /\ code \in {0, 1} /\ (code = 1 <=> Failed)

CheckIInv ==
  /\ TypeOK
  /\ NothingBeforeTheJobs
  /\ ChildIsCurrent
  /\ FateIsOpen
  /\ PastJobsAreReported
  /\ NothingElseIsReported
  /\ ExitsWithTheReport
-----------------------------------------------------------------------------
(* The jobs of a well-formed configuration.                                *)
LEMMA JobsAreNumbers ==
  ASSUME cfg \in ConfigSpace
  PROVE  /\ Len(cfg.custom) \in Nat /\ Last \in Nat
         /\ Jobs \subseteq Nat
         /\ \A i \in Jobs : i > 0
         /\ \A i \in Jobs : IsCustom(i) => Custom(i) \in CustomSpace
<1>1. cfg.custom \in Seq(CustomSpace) /\ cfg.plugins \in Seq(PluginSpace)
  BY DEF ConfigSpace
<1>2. /\ Len(cfg.custom) \in Nat /\ Len(cfg.plugins) \in Nat
      /\ \A i \in 1..Len(cfg.custom) : cfg.custom[i] \in CustomSpace
  BY <1>1
<1>3. Last \in Nat
  <2>1. Len(cfg.custom) \in Nat /\ Len(cfg.plugins) \in Nat
    BY <1>2
  <2>2. \A m, n \in Nat : m + n \in Nat
    OBVIOUS
  <2> QED BY <2>1, <2>2, Zenon DEF Last
<1>4. \A i \in Jobs : i \in Nat /\ i > 0
  BY <1>3 DEF Jobs
<1>5. ASSUME NEW i \in Jobs, IsCustom(i) PROVE Custom(i) \in CustomSpace
  BY <1>2, <1>4, <1>5 DEF IsCustom, Custom
<1> QED BY <1>2, <1>3, <1>4, <1>5

(* A conclusion is a set of items of its own job.                          *)
LEMMA ItemsAreItems ==
  ASSUME NEW i, NEW v
  PROVE  ItemsFor(i, v) \subseteq [section : {"custom", "plugins"}, job : {i},
                                   severity : Severities]
<1>1. PluginSeverities(i, v) \subseteq Severities
  BY DEF PluginSeverities, Severities
<1>2. CustomSeverity(i, v) \in Severities
  BY DEF CustomSeverity, Severities
<1>3. CASE IsCustom(i)
  BY <1>2, <1>3 DEF ItemsFor, Item
<1>4. CASE ~IsCustom(i)
  BY <1>1, <1>4 DEF ItemsFor, Item
<1> QED BY <1>3, <1>4

(* A step that concludes the current job with a fitting verdict.           *)
LEMMA ConcludeStep ==
  ASSUME CheckIInv, main = "jobs", cur \in Jobs,
         NEW v \in Verdicts, Fits(cur, v), Conclude(v),
         UNCHANGED <<main, code, flags, cfg, orphan, fate, struck, said>>
  PROVE  CheckIInv'
<1>1. /\ cfg \in ConfigSpace /\ cfg' = cfg /\ Last' = Last /\ Jobs' = Jobs
      /\ verdict \in [Jobs -> Verdicts]
  BY DEF CheckIInv, TypeOK, Last, Jobs
<1>2. cur \in Nat /\ cur > 0 /\ cur' = cur + 1 /\ Last \in Nat /\ Jobs \subseteq Nat
  BY <1>1, JobsAreNumbers DEF Conclude
<1>3. /\ verdict' = [verdict EXCEPT ![cur] = v]
      /\ report' = report \union ItemsFor(cur, v)
      /\ child' = "none" /\ late' = FALSE
  BY DEF Conclude
<1>a. verdict'[cur] = v /\ \A i \in Jobs : i # cur => verdict'[i] = verdict[i]
  BY <1>1, <1>3
<1>b. \A i \in Jobs : i \in Nat /\ (i < cur' <=> i < cur \/ i = cur)
  BY <1>2
<1>4. \A i, w : /\ ItemsFor(i, w)' = ItemsFor(i, w)
                /\ Fits(i, w)' = Fits(i, w)
  BY DEF ItemsFor, PluginSeverities, CustomSeverity, Custom, IsCustom, Fits,
         Passed, Malformed
<1>5. TypeOK'
  <2>1. report' \subseteq [section : Sections \union {"custom", "plugins"}, job : Nat,
                           severity : Severities]
    BY <1>2, <1>3, ItemsAreItems DEF CheckIInv, TypeOK
  <2>2. cur' \in 1..(Last + 1)
    BY <1>2 DEF Jobs
  <2>3. verdict' \in [Jobs -> Verdicts]
    BY <1>1, <1>3
  <2> QED BY <1>1, <1>3, <2>1, <2>2, <2>3 DEF CheckIInv, TypeOK
<1>6. NothingBeforeTheJobs' /\ ChildIsCurrent' /\ ExitsWithTheReport'
  BY <1>3 DEF NothingBeforeTheJobs, ChildIsCurrent, ExitsWithTheReport
<1>7. FateIsOpen'
  <2> SUFFICES ASSUME NEW i \in Jobs, i > cur' \/ i = cur'
               PROVE  fate'[i] = "none" /\ ~struck'[i]
    BY <1>1 DEF FateIsOpen
  <2>1. i > cur
    BY <1>2, <1>b
  <2> QED BY <2>1 DEF CheckIInv, FateIsOpen
<1>8. PastJobsAreReported'
  <2> SUFFICES ASSUME NEW i \in Jobs, i < cur'
               PROVE  /\ Fits(i, verdict'[i])
                      /\ ItemsFor(i, verdict'[i]) \subseteq report'
    BY <1>1, <1>4 DEF PastJobsAreReported
  <2>1. CASE i = cur
    <3>1. verdict'[i] = v
      BY <1>a, <2>1
    <3>2. Fits(i, v) /\ ItemsFor(i, v) \subseteq report'
      BY <1>3, <2>1
    <3> QED BY <3>1, <3>2, Zenon
  <2>2. CASE i < cur
    <3>1. i # cur /\ verdict'[i] = verdict[i]
      BY <1>2, <1>a, <1>b, <2>2
    <3>2. Fits(i, verdict[i]) /\ ItemsFor(i, verdict[i]) \subseteq report
      BY <2>2 DEF CheckIInv, PastJobsAreReported
    <3>3. ItemsFor(i, verdict[i]) \subseteq report'
      BY <1>3, <3>2
    <3> QED BY <3>1, <3>2, <3>3, Zenon
  <2>3. i < cur \/ i = cur
    BY <1>b
  <2> QED BY <2>1, <2>2, <2>3
<1>9. NothingElseIsReported'
  <2>1. \A it \in ItemsFor(cur, v) : it.job = cur
    BY ItemsAreItems
  <2> SUFFICES ASSUME NEW it \in report \union ItemsFor(cur, v),
                      ~(it.section \in Sections /\ it.job = 0)
               PROVE  /\ it.job \in Jobs /\ it.job < cur'
                      /\ it \in ItemsFor(it.job, verdict'[it.job])
    BY <1>1, <1>3, <1>4 DEF NothingElseIsReported
  <2>2. CASE it \in ItemsFor(cur, v)
    <3>1. it.job = cur /\ verdict'[cur] = v
      BY <1>a, <2>1, <2>2
    <3>2. it.job \in Jobs /\ it.job < cur'
      BY <1>b, <3>1
    <3> QED BY <2>2, <3>1, <3>2, Zenon
  <2>3. CASE it \in report
    <3>1. it.job \in Jobs /\ it.job < cur /\ it \in ItemsFor(it.job, verdict[it.job])
      BY <2>3 DEF CheckIInv, NothingElseIsReported
    <3>2. it.job # cur /\ verdict'[it.job] = verdict[it.job]
      BY <1>2, <1>a, <3>1
    <3>3. it.job < cur'
      BY <1>b, <3>1
    <3> QED BY <3>1, <3>2, <3>3, Zenon
  <2> QED BY <2>2, <2>3
<1> QED BY <1>5, <1>6, <1>7, <1>8, <1>9 DEF CheckIInv

LEMMA RejectStep == ASSUME CheckIInv, Reject PROVE CheckIInv'
<1>1. main = "jobs" /\ cur \in Jobs /\ child = "none"
  BY DEF Reject, Idle
<1>2. fate[cur] = "none"
  BY <1>1 DEF CheckIInv, FateIsOpen
<1>3. Fits(cur, "rejected")
  BY <1>2 DEF Reject, Fits, Passed
<1> QED BY <1>1, <1>3, ConcludeStep DEF Reject, Verdicts

LEMMA StartFailsStep == ASSUME CheckIInv, StartFails PROVE CheckIInv'
<1>1. main = "jobs" /\ cur \in Jobs /\ child = "none"
  BY DEF StartFails, Idle
<1>2. fate[cur] = "none"
  BY <1>1 DEF CheckIInv, FateIsOpen
<1>3. Fits(cur, "nostart")
  BY <1>2 DEF StartFails, Runnable, Fits, Passed
<1> QED BY <1>1, <1>3, ConcludeStep DEF StartFails, Verdicts

(* The verdict of a child that was waited for fits: a failure is never     *)
(* judged by what the child wrote, and no success by the deadline.         *)
LEMMA ReturnStep == ASSUME CheckIInv, Return PROVE CheckIInv'
<1>1. main = "jobs" /\ cur \in Jobs /\ (IsCustom(cur) => ~Malformed(cur))
  BY DEF Return, CheckIInv, ChildIsCurrent
<1>2. RunOutcome(cur) \in {"ok", "exit", "timedout"} /\ (RunOutcome(cur) = "ok" <=> Passed(cur))
  <2>1. struck[cur] \in BOOLEAN
    BY <1>1 DEF CheckIInv, TypeOK
  <2> QED BY <2>1 DEF RunOutcome, Passed
<1>3. Fits(cur, Judge(cur)) /\ Judge(cur) \in Verdicts
  BY <1>1, <1>2 DEF Judge, Fits, Verdicts
<1> QED BY <1>1, <1>3, ConcludeStep DEF Return
-----------------------------------------------------------------------------
(* A step of the current child, its descendants, its timer or its killer   *)
(* changes only what is known of this child.                               *)
LEMMA ChildStep ==
  ASSUME CheckIInv, UNCHANGED <<main, code, flags, cfg, report, cur, verdict>>,
         child # "none", child' \in {"running", "zombie", "reaped"},
         child' = "running" => child = "running" /\ UNCHANGED <<fate, struck>>,
         late' \in BOOLEAN, orphan' \in BOOLEAN,
         fate' \in [Jobs -> Fates], struck' \in [Jobs -> BOOLEAN],
         said' \in [Jobs -> AnswerSpace],
         \A i \in Jobs : i # cur =>
           fate'[i] = fate[i] /\ struck'[i] = struck[i] /\ said'[i] = said[i]
  PROVE  CheckIInv'
<1>1. cfg \in ConfigSpace /\ Last' = Last /\ Jobs' = Jobs
  BY DEF CheckIInv, TypeOK, Last, Jobs
<1>2. cur \in Jobs /\ Jobs \subseteq Nat
  BY <1>1, JobsAreNumbers DEF CheckIInv, ChildIsCurrent
<1>3. TypeOK'
  BY <1>1 DEF CheckIInv, TypeOK
<1>4. NothingBeforeTheJobs' /\ ChildIsCurrent'
  BY DEF CheckIInv, NothingBeforeTheJobs, ChildIsCurrent, Jobs, Last, IsCustom,
         Malformed, Custom
<1>5. FateIsOpen'
  <2> SUFFICES ASSUME NEW i \in Jobs, i > cur \/ (i = cur /\ child' = "running")
               PROVE  fate'[i] = "none" /\ ~struck'[i]
    BY <1>1 DEF FateIsOpen
  <2>1. i > cur => i # cur
    BY <1>2
  <2> QED BY <2>1 DEF CheckIInv, FateIsOpen
<1>6. ASSUME NEW i \in Jobs, i < cur, NEW w
      PROVE  ItemsFor(i, w)' = ItemsFor(i, w) /\ Fits(i, w)' = Fits(i, w)
  <2>1. i # cur
    BY <1>2, <1>6
  <2>2. fate'[i] = fate[i] /\ struck'[i] = struck[i] /\ said'[i] = said[i]
    BY <2>1
  <2>3. PluginSeverities(i, w)' = PluginSeverities(i, w)
    BY <2>2 DEF PluginSeverities
  <2>4. CustomSeverity(i, w)' = CustomSeverity(i, w)
    BY DEF CustomSeverity, Custom
  <2>5. ItemsFor(i, w)' = ItemsFor(i, w)
    BY <2>3, <2>4 DEF ItemsFor, IsCustom
  <2>6. Fits(i, w)' = Fits(i, w)
    BY <2>2 DEF Fits, Passed, Malformed, Custom, IsCustom
  <2> QED BY <2>5, <2>6
<1>7. PastJobsAreReported'
  BY <1>1, <1>6 DEF CheckIInv, PastJobsAreReported
<1>8. NothingElseIsReported'
  BY <1>1, <1>6 DEF CheckIInv, NothingElseIsReported
<1>9. ExitsWithTheReport'
  BY <1>1 DEF CheckIInv, ExitsWithTheReport, Failed
<1> QED BY <1>3, <1>4, <1>5, <1>7, <1>8, <1>9 DEF CheckIInv

LEMMA ChildEndsStep == ASSUME CheckIInv, ChildEnds PROVE CheckIInv'
<1>1. cur \in Jobs /\ Answers \subseteq AnswerSpace
  BY CheckAssumption DEF ChildEnds, CheckIInv, ChildIsCurrent
<1>2. /\ fate' \in [Jobs -> Fates]
      /\ \A i \in Jobs : i # cur => fate'[i] = fate[i]
  BY <1>1 DEF ChildEnds, CheckIInv, TypeOK, Fates
<1>3. /\ said' \in [Jobs -> AnswerSpace]
      /\ \A i \in Jobs : i # cur => said'[i] = said[i]
  BY <1>1 DEF ChildEnds, Writes, CheckIInv, TypeOK
<1>4. child = "running" /\ child' = "zombie" /\ orphan' \in BOOLEAN
      /\ UNCHANGED <<main, code, flags, cfg, report, cur, late, struck, verdict>>
  BY DEF ChildEnds
<1>5. late \in BOOLEAN /\ struck \in [Jobs -> BOOLEAN]
  BY DEF CheckIInv, TypeOK
<1> QED BY <1>2, <1>3, <1>4, <1>5, ChildStep

LEMMA StrikeStep == ASSUME CheckIInv, Strike PROVE CheckIInv'
<1>1. /\ child \in {"running", "zombie"}
      /\ struck' = [struck EXCEPT ![cur] = TRUE]
      /\ UNCHANGED <<main, code, flags, cfg, report, cur, late, verdict>>
      /\ child' = "zombie"
  BY DEF Strike
<1>2. cur \in Jobs /\ Answers \subseteq AnswerSpace
  BY <1>1, CheckAssumption DEF CheckIInv, ChildIsCurrent
<1>3. /\ struck' \in [Jobs -> BOOLEAN]
      /\ \A i \in Jobs : i # cur => struck'[i] = struck[i]
  BY <1>1, <1>2 DEF CheckIInv, TypeOK
<1>4. CASE child = "zombie"
  <2>1. UNCHANGED <<orphan, fate, said>>
    BY <1>4 DEF Strike
  <2> QED BY <1>1, <1>3, <1>4, <2>1, ChildStep DEF CheckIInv, TypeOK
<1>5. CASE child = "running"
  <2>1. fate' = [fate EXCEPT ![cur] = "killed"] /\ orphan' \in BOOLEAN /\ Writes
    BY <1>5 DEF Strike
  <2>2. /\ fate' \in [Jobs -> Fates]
        /\ \A i \in Jobs : i # cur => fate'[i] = fate[i]
    BY <1>2, <2>1 DEF CheckIInv, TypeOK, Fates
  <2>3. /\ said' \in [Jobs -> AnswerSpace]
        /\ \A i \in Jobs : i # cur => said'[i] = said[i]
    BY <1>2, <2>1 DEF Writes, CheckIInv, TypeOK
  <2>4. late \in BOOLEAN
    BY DEF CheckIInv, TypeOK
  <2> QED BY <1>1, <1>3, <1>5, <2>1, <2>2, <2>3, <2>4, ChildStep
<1> QED BY <1>1, <1>4, <1>5

LEMMA TimerAndReapStep ==
  ASSUME CheckIInv, DeadlinePasses \/ Reap
  PROVE  CheckIInv'
<1>1. /\ child # "none" /\ late' \in BOOLEAN
      /\ child' \in {child, "reaped"}
      /\ UNCHANGED <<main, code, flags, cfg, report, cur, orphan, fate, struck, said, verdict>>
  BY DEF DeadlinePasses, Reap, CheckIInv, TypeOK
<1>2. child' \in {"running", "zombie", "reaped"} /\ (child' = "running" => child = "running")
  BY <1>1 DEF CheckIInv, TypeOK
<1> QED BY <1>1, <1>2, ChildStep DEF CheckIInv, TypeOK

-----------------------------------------------------------------------------
(* Steps that leave the jobs alone.                                        *)
LEMMA JobsFrame ==
  ASSUME UNCHANGED <<cfg, report, cur, child, fate, struck, said, verdict>>
  PROVE  /\ FateIsOpen' = FateIsOpen /\ ChildIsCurrent' = ChildIsCurrent
         /\ PastJobsAreReported' = PastJobsAreReported
         /\ NothingElseIsReported' = NothingElseIsReported
         /\ Failed' = Failed /\ Last' = Last /\ Jobs' = Jobs
<1>1. Last' = Last /\ Jobs' = Jobs /\ Failed' = Failed
  BY DEF Last, Jobs, Failed
<1>2. \A i, w : ItemsFor(i, w)' = ItemsFor(i, w)
  BY DEF ItemsFor, PluginSeverities, CustomSeverity, Custom, IsCustom
<1>3. \A i, w : Fits(i, w)' = Fits(i, w)
  BY DEF Fits, Passed, Malformed, Custom, IsCustom
<1>4. FateIsOpen' = FateIsOpen
  BY <1>1 DEF FateIsOpen
<1>5. ChildIsCurrent' = ChildIsCurrent
  BY <1>1 DEF ChildIsCurrent, IsCustom, Malformed, Custom
<1>6. PastJobsAreReported' = PastJobsAreReported
  BY <1>1, <1>2, <1>3 DEF PastJobsAreReported
<1>7. NothingElseIsReported' = NothingElseIsReported
  BY <1>1, <1>2 DEF NothingElseIsReported
<1> QED BY <1>1, <1>4, <1>5, <1>6, <1>7

LEMMA OrphanStep == ASSUME CheckIInv, OrphanLetsGo \/ Killed PROVE CheckIInv'
<1>1. /\ UNCHANGED <<code, flags, cfg, report, cur, child, late, fate, struck, said, verdict>>
      /\ orphan' \in BOOLEAN /\ main' \in {main, "killed"}
  BY DEF OrphanLetsGo, Killed, jobVars, CheckIInv, TypeOK
<1>2. TypeOK'
  BY <1>1, JobsFrame DEF CheckIInv, TypeOK
<1>3. NothingBeforeTheJobs' /\ ExitsWithTheReport'
  BY <1>1, JobsFrame DEF CheckIInv, NothingBeforeTheJobs, ExitsWithTheReport
<1> QED BY <1>1, <1>2, <1>3, JobsFrame DEF CheckIInv

LEMMA CaptureStep == ASSUME CheckIInv, Capture PROVE CheckIInv'
<1>1. /\ UNCHANGED <<flags, cfg, report, jobVars>> /\ main = "capture"
      /\ \/ main' = "config" /\ code' = code
         \/ main' = "exited" /\ code' = 2
  BY DEF Capture, ExitWith
<1>2. TypeOK'
  BY <1>1, JobsFrame DEF CheckIInv, TypeOK, jobVars
<1>3. NothingBeforeTheJobs' /\ ExitsWithTheReport'
  BY <1>1 DEF CheckIInv, NothingBeforeTheJobs, ExitsWithTheReport, jobVars
<1> QED BY <1>1, <1>2, <1>3, JobsFrame DEF CheckIInv, jobVars

(* The report is written and its verdict becomes the exit code.            *)
LEMMA RenderStep == ASSUME CheckIInv, Render PROVE CheckIInv'
<1>1. /\ UNCHANGED <<flags, cfg, report, jobVars>> /\ cur = Last + 1
      /\ main' = "exited" /\ code' \in {0, 1, 2}
      /\ code' # 2 => (code' = 1 <=> Failed)
  BY DEF Render, ExitWith
<1>2. TypeOK'
  BY <1>1, JobsFrame DEF CheckIInv, TypeOK, jobVars
<1>3. NothingBeforeTheJobs' /\ ExitsWithTheReport'
  BY <1>1, JobsFrame DEF NothingBeforeTheJobs, ExitsWithTheReport, jobVars
<1> QED BY <1>1, <1>2, <1>3, JobsFrame DEF CheckIInv, jobVars

LEMMA StartStep == ASSUME CheckIInv, Start PROVE CheckIInv'
<1>1. /\ main = "jobs" /\ cur \in Jobs /\ child = "none" /\ child' = "running" /\ Runnable
      /\ late' = FALSE
      /\ UNCHANGED <<main, code, flags, cfg, report, cur, orphan, fate, struck, said, verdict>>
  BY DEF Start, Idle
<1>2. Last' = Last /\ Jobs' = Jobs
  BY <1>1 DEF Last, Jobs
<1>3. TypeOK'
  BY <1>1, <1>2 DEF CheckIInv, TypeOK
<1>4. NothingBeforeTheJobs' /\ ExitsWithTheReport'
  BY <1>1 DEF NothingBeforeTheJobs, ExitsWithTheReport
<1>5. ChildIsCurrent'
  BY <1>1, <1>2 DEF ChildIsCurrent, Runnable, IsCustom, Malformed, Custom
<1>6. FateIsOpen'
  BY <1>1, <1>2 DEF CheckIInv, FateIsOpen
<1>7. \A i, w : ItemsFor(i, w)' = ItemsFor(i, w) /\ Fits(i, w)' = Fits(i, w)
  <2>1. \A i, w : ItemsFor(i, w)' = ItemsFor(i, w)
    BY <1>1 DEF ItemsFor, PluginSeverities, CustomSeverity, Custom, IsCustom
  <2>2. \A i, w : Fits(i, w)' = Fits(i, w)
    BY <1>1 DEF Fits, Passed, Malformed, Custom, IsCustom
  <2> QED BY <2>1, <2>2
<1>8. PastJobsAreReported'
  BY <1>1, <1>2, <1>7 DEF CheckIInv, PastJobsAreReported
<1>9. NothingElseIsReported'
  BY <1>1, <1>2, <1>7 DEF CheckIInv, NothingElseIsReported
<1> QED BY <1>3, <1>4, <1>5, <1>6, <1>8, <1>9 DEF CheckIInv

(* Before the first job the report holds nothing of any job.               *)
LEMMA FirstJob ==
  ASSUME cfg' \in ConfigSpace, cur' = 1,
         \A it \in report' : it.section \in Sections /\ it.job = 0
  PROVE  PastJobsAreReported' /\ NothingElseIsReported'
<1>1. \A i \in Jobs' : i \in Nat /\ i > 0
  <2>1. Last' \in Nat
    <3>1. cfg'.custom \in Seq(CustomSpace) /\ cfg'.plugins \in Seq(PluginSpace)
      BY DEF ConfigSpace
    <3>2. Len(cfg'.custom) \in Nat /\ Len(cfg'.plugins) \in Nat
      BY <3>1
    <3>3. \A m, n \in Nat : m + n \in Nat
      OBVIOUS
    <3> QED BY <3>2, <3>3, Zenon DEF Last
  <2> QED BY <2>1 DEF Jobs
<1>2. PastJobsAreReported'
  BY <1>1 DEF PastJobsAreReported
<1>3. NothingElseIsReported'
  BY DEF NothingElseIsReported
<1> QED BY <1>2, <1>3

LEMMA LoadConfigStep == ASSUME CheckIInv, LoadConfig PROVE CheckIInv'
<1>1. /\ UNCHANGED <<flags, report, jobVars>>
      /\ \/ main' = "sections" /\ code' = code
         \/ main' = "exited" /\ code' = 2
      /\ cur = 1 /\ child = "none" /\ report = {}
  BY DEF LoadConfig, ExitWith, CheckIInv, NothingBeforeTheJobs
<1>2. cfg' \in ConfigSpace /\ cfg'.custom = cfg.custom /\ cfg'.plugins = cfg.plugins
  <2>1. cfg \in ConfigSpace /\ flags.noDocker \in BOOLEAN
    BY DEF CheckIInv, TypeOK
  <2>2. cfg.sections \ {"docker"} \in SUBSET Sections /\ cfg.sections \in SUBSET Sections
    BY <2>1 DEF ConfigSpace
  <2>3. PICK x \in SUBSET Sections : cfg' = [cfg EXCEPT !.sections = x] \/ cfg' = cfg
    BY <2>2 DEF LoadConfig
  <2> QED BY <2>1, <2>3 DEF ConfigSpace
<1>3. Last' = Last /\ Jobs' = Jobs
  BY <1>2 DEF Last, Jobs
<1>4. TypeOK'
  BY <1>1, <1>2, <1>3 DEF CheckIInv, TypeOK, jobVars
<1>5. NothingBeforeTheJobs' /\ ExitsWithTheReport' /\ ChildIsCurrent'
  BY <1>1 DEF NothingBeforeTheJobs, ExitsWithTheReport, ChildIsCurrent, jobVars
<1>6. FateIsOpen'
  BY <1>1, <1>3 DEF CheckIInv, FateIsOpen, jobVars
<1>7. PastJobsAreReported' /\ NothingElseIsReported'
  BY <1>1, <1>2, FirstJob DEF jobVars
<1> QED BY <1>4, <1>5, <1>6, <1>7 DEF CheckIInv

LEMMA BuiltInStep == ASSUME CheckIInv, BuiltIn PROVE CheckIInv'
<1>1. /\ UNCHANGED <<code, flags, cfg, jobVars>> /\ main' = "jobs"
      /\ cur = 1 /\ child = "none"
  BY DEF BuiltIn, CheckIInv, NothingBeforeTheJobs
<1>2. Last' = Last /\ Jobs' = Jobs
  BY <1>1 DEF Last, Jobs
<1>3. report' \subseteq [section : Sections, job : {0}, severity : Severities]
  <2>1. cfg.sections \subseteq Sections
    BY DEF CheckIInv, TypeOK, ConfigSpace
  <2>2. \A s : CanAdd(s) \subseteq Severities
    BY DEF CanAdd, Severities
  <2>3. report' \subseteq UNION {{Item(s, 0, v) : v \in CanAdd(s)} : s \in cfg.sections}
    BY DEF BuiltIn
  <2> QED BY <2>1, <2>2, <2>3 DEF Item
<1>4. TypeOK'
  BY <1>1, <1>2, <1>3 DEF CheckIInv, TypeOK, jobVars
<1>5. NothingBeforeTheJobs' /\ ExitsWithTheReport' /\ ChildIsCurrent'
  BY <1>1 DEF NothingBeforeTheJobs, ExitsWithTheReport, ChildIsCurrent, jobVars
<1>6. FateIsOpen'
  BY <1>1, <1>2 DEF CheckIInv, FateIsOpen, jobVars
<1>7. PastJobsAreReported' /\ NothingElseIsReported'
  BY <1>1, <1>3, <1>4, FirstJob DEF TypeOK, jobVars
<1> QED BY <1>4, <1>5, <1>6, <1>7 DEF CheckIInv

LEMMA InitHolds == ASSUME Init PROVE CheckIInv
<1>1. cfg \in ConfigSpace
  BY CheckAssumption DEF Init
<1>2. Last \in Nat /\ Jobs \subseteq Nat /\ \A i \in Jobs : i > 0
  BY <1>1, JobsAreNumbers
<1>3. NoAnswer \in AnswerSpace
  BY DEF NoAnswer, AnswerSpace
<1>4. TypeOK
  <2>1. cur \in 1..(Last + 1)
    BY <1>2 DEF Init
  <2>2. /\ fate \in [Jobs -> Fates] /\ struck \in [Jobs -> BOOLEAN]
        /\ said \in [Jobs -> AnswerSpace] /\ verdict \in [Jobs -> Verdicts]
    BY <1>3 DEF Init, Fates, Verdicts
  <2>3. /\ main = "capture" /\ code = -1 /\ flags \in [noDocker : BOOLEAN, format : BOOLEAN]
        /\ report = {} /\ child = "none" /\ late = FALSE /\ orphan = FALSE
    BY DEF Init
  <2> QED BY <1>1, <2>1, <2>2, <2>3 DEF TypeOK
<1>5. NothingBeforeTheJobs /\ ExitsWithTheReport /\ ChildIsCurrent /\ FateIsOpen
      /\ NothingElseIsReported
  BY DEF Init, NothingBeforeTheJobs, ExitsWithTheReport, ChildIsCurrent, FateIsOpen,
         NothingElseIsReported
<1>6. PastJobsAreReported
  BY <1>2 DEF Init, PastJobsAreReported
<1> QED BY <1>4, <1>5, <1>6 DEF CheckIInv

LEMMA Stutter == ASSUME CheckIInv, UNCHANGED vars PROVE CheckIInv'
<1>1. UNCHANGED <<main, code, flags, late, orphan>>
      /\ UNCHANGED <<cfg, report, cur, child, fate, struck, said, verdict>>
  BY DEF vars, jobVars
<1>2. TypeOK' /\ NothingBeforeTheJobs' /\ ExitsWithTheReport'
  BY <1>1, JobsFrame DEF CheckIInv, TypeOK, NothingBeforeTheJobs, ExitsWithTheReport
<1> QED BY <1>1, <1>2, JobsFrame DEF CheckIInv
-----------------------------------------------------------------------------
(* Of the check: the invariant, one step for each action of Next.          *)
THEOREM CheckInvariant == Spec => []CheckIInv
<1>1. CheckIInv /\ [Next]_vars => CheckIInv'
  <2> SUFFICES ASSUME CheckIInv, [Next]_vars PROVE CheckIInv'
    OBVIOUS
  <2>1. CASE Capture
    BY <2>1, CaptureStep
  <2>2. CASE LoadConfig
    BY <2>2, LoadConfigStep
  <2>3. CASE BuiltIn
    BY <2>3, BuiltInStep
  <2>4. CASE Reject
    BY <2>4, RejectStep
  <2>5. CASE StartFails
    BY <2>5, StartFailsStep
  <2>6. CASE Start
    BY <2>6, StartStep
  <2>7. CASE DeadlinePasses \/ Reap
    BY <2>7, TimerAndReapStep
  <2>8. CASE Return
    BY <2>8, ReturnStep
  <2>9. CASE Render
    BY <2>9, RenderStep
  <2>10. CASE Strike
    BY <2>10, StrikeStep
  <2>11. CASE ChildEnds
    BY <2>11, ChildEndsStep
  <2>12. CASE OrphanLetsGo \/ Killed
    BY <2>12, OrphanStep
  <2>13. CASE UNCHANGED vars
    BY <2>13, Stutter
  <2> QED BY <2>1, <2>2, <2>3, <2>4, <2>5, <2>6, <2>7, <2>8, <2>9, <2>10, <2>11, <2>12,
             <2>13 DEF Next, Command, Timer, Outside
<1>2. Init => CheckIInv
  BY InitHolds
<1> QED BY <1>1, <1>2, PTL DEF Spec

(* The items of a job block exactly when the job does.                     *)
LEMMA ItemsTellWhatBlocks ==
  ASSUME NEW i, NEW v, Fits(i, v)
  PROVE  (\E it \in ItemsFor(i, v) : it.severity = "critical") <=> Blocks(i)
<1>1. CASE IsCustom(i)
  <2>1. ItemsFor(i, v) = IF v = "ok" THEN {} ELSE {Item("custom", i, CustomSeverity(i, v))}
    BY <1>1 DEF ItemsFor
  <2>2. Item("custom", i, CustomSeverity(i, v)).severity = CustomSeverity(i, v)
    BY DEF Item
  <2>3. (\E it \in ItemsFor(i, v) : it.severity = "critical")
          <=> v # "ok" /\ (v = "rejected" \/ Custom(i).severity = "critical")
    BY <2>1, <2>2 DEF CustomSeverity
  <2> QED BY <1>1, <2>3 DEF Fits, Blocks
<1>2. CASE ~IsCustom(i)
  <2>1. (\E it \in ItemsFor(i, v) : it.severity = "critical")
          <=> "critical" \in PluginSeverities(i, v)
    <3>1. ItemsFor(i, v) = {Item("plugins", i, s) : s \in PluginSeverities(i, v)}
      BY <1>2 DEF ItemsFor
    <3>2. \A s : Item("plugins", i, s).severity = s
      BY DEF Item
    <3> QED BY <3>1, <3>2
  <2>2. "critical" \in PluginSeverities(i, v)
          <=> v = "results" /\ "critical" \in said[i].results
    BY DEF PluginSeverities
  <2> QED BY <1>2, <2>1, <2>2 DEF Fits, Blocks
<1> QED BY <1>1, <1>2

(* The exit code is 1 exactly if something blocks: no order of exit,       *)
(* deadline, kill and closing pipes changes what a check amounts to.       *)
THEOREM ExitCodeTells == Spec => []ExitCodeIsExact
<1>1. CheckIInv => ExitCodeIsExact
  <2> SUFFICES ASSUME CheckIInv, main = "exited", code # 2
               PROVE  code = 1 <=> BuiltInBlocks \/ \E i \in Jobs : Blocks(i)
    BY DEF ExitCodeIsExact
  <2>1. cur = Last + 1 /\ (code = 1 <=> Failed)
    BY DEF CheckIInv, ExitsWithTheReport
  <2>2. \A i \in Jobs : i < cur
    <3>1. Last \in Nat
      BY JobsAreNumbers DEF CheckIInv, TypeOK
    <3> QED BY <2>1, <3>1 DEF Jobs
  <2>3. \A i \in Jobs : Fits(i, verdict[i]) /\ ItemsFor(i, verdict[i]) \subseteq report
    BY <2>2 DEF CheckIInv, PastJobsAreReported
  <2>4. Failed => BuiltInBlocks \/ \E i \in Jobs : Blocks(i)
    <3> SUFFICES ASSUME NEW it \in report, it.severity = "critical"
                 PROVE  BuiltInBlocks \/ \E i \in Jobs : Blocks(i)
      BY DEF Failed
    <3>1. \/ it.section \in Sections
          \/ it.job \in Jobs /\ it \in ItemsFor(it.job, verdict[it.job])
      BY DEF CheckIInv, NothingElseIsReported
    <3>2. CASE it.section \in Sections
      BY <3>2 DEF BuiltInBlocks
    <3>3. CASE it.job \in Jobs /\ it \in ItemsFor(it.job, verdict[it.job])
      <4>1. Blocks(it.job)
        BY <2>3, <3>3, ItemsTellWhatBlocks
      <4> QED BY <3>3, <4>1
    <3> QED BY <3>1, <3>2, <3>3
  <2>5. BuiltInBlocks => Failed
    BY DEF BuiltInBlocks, Failed
  <2>6. ASSUME NEW i \in Jobs, Blocks(i) PROVE Failed
    <3>1. \E it \in ItemsFor(i, verdict[i]) : it.severity = "critical"
      BY <2>3, <2>6, ItemsTellWhatBlocks
    <3> QED BY <2>3, <3>1 DEF Failed
  <2> QED BY <2>1, <2>4, <2>5, <2>6
<1> QED BY <1>1, CheckInvariant, PTL

(* A broken plugin is never a reason to fail, for every list of plugins.   *)
THEOREM BrokenPluginsWarn == Spec => []BrokenPluginNeverBlocks
<1>1. CheckIInv => BrokenPluginNeverBlocks
  <2> SUFFICES ASSUME CheckIInv, NEW it \in report,
                      it.section = "plugins", it.severity = "critical"
               PROVE  Succeeded(it.job) /\ "critical" \in said[it.job].results
    BY DEF BrokenPluginNeverBlocks
  <2>1. /\ it.job \in Jobs /\ it.job < cur
        /\ it \in ItemsFor(it.job, verdict[it.job])
    BY DEF CheckIInv, NothingElseIsReported, Sections
  <2>2. Fits(it.job, verdict[it.job])
    BY <2>1 DEF CheckIInv, PastJobsAreReported
  <2>3. Blocks(it.job)
    BY <2>1, <2>2, ItemsTellWhatBlocks
  <2>4. ~IsCustom(it.job)
    BY <2>1 DEF ItemsFor, Item
  <2> QED BY <2>3, <2>4 DEF Blocks, Succeeded
<1> QED BY <1>1, CheckInvariant, PTL

(* A check that did not pass, or a plugin that did not keep to the         *)
(* protocol, has one item in the report, its own.                          *)
THEOREM FailuresAreReported == Spec => []NoFailureIsSilent
<1>1. CheckIInv => NoFailureIsSilent
  <2> SUFFICES ASSUME CheckIInv, NEW i \in Jobs, i < cur, ~Succeeded(i)
               PROVE  \E it \in report :
                        it.job = i /\ \A other \in report : other.job = i => other = it
    BY DEF NoFailureIsSilent
  <2>1. Fits(i, verdict[i]) /\ ItemsFor(i, verdict[i]) \subseteq report
    BY DEF CheckIInv, PastJobsAreReported
  <2>2. PICK it : ItemsFor(i, verdict[i]) = {it} /\ it.job = i
    <3>1. CASE IsCustom(i)
      <4>1. ItemsFor(i, verdict[i]) = {Item("custom", i, CustomSeverity(i, verdict[i]))}
        BY <2>1, <3>1 DEF Fits, ItemsFor, Succeeded
      <4>2. Item("custom", i, CustomSeverity(i, verdict[i])).job = i
        BY DEF Item
      <4> QED BY <4>1, <4>2
    <3>2. CASE ~IsCustom(i)
      <4>1. PluginSeverities(i, verdict[i]) = {"warning"}
        BY <2>1, <3>2 DEF Fits, PluginSeverities, Succeeded
      <4>2. ItemsFor(i, verdict[i]) = {Item("plugins", i, "warning")}
        BY <3>2, <4>1 DEF ItemsFor
      <4>3. Item("plugins", i, "warning").job = i
        BY DEF Item
      <4> QED BY <4>2, <4>3
    <3> QED BY <3>1, <3>2
  <2>3. ASSUME NEW other \in report, other.job = i PROVE other = it
    <3>1. i \in Nat /\ i > 0
      BY JobsAreNumbers DEF CheckIInv, TypeOK
    <3>2. other \in ItemsFor(i, verdict[i])
      BY <2>3, <3>1 DEF CheckIInv, NothingElseIsReported
    <3> QED BY <2>2, <3>2
  <2> QED BY <2>1, <2>2, <2>3
<1> QED BY <1>1, CheckInvariant, PTL

(* Every variable of the check keeps its type.                             *)
THEOREM CheckTypes == Spec => []TypeOK
BY CheckInvariant, PTL DEF CheckIInv
-----------------------------------------------------------------------------
(* Every step lowers what is left.                                         *)

LEMMA OneIsSmall == \A b \in BOOLEAN : One(b) \in {0, 1} /\ One(TRUE) = 1 /\ One(FALSE) = 0
BY DEF One

LEMMA RanksAreNumbers ==
  /\ StageRank \in 0..4 /\ StageRank' \in 0..4
  /\ ChildRank \in 1..6 /\ ChildRank' \in 1..6
BY DEF StageRank, ChildRank

(* What is left, taken apart.                                              *)
Unstruck == One(cur \in Jobs /\ ~struck[cur])

LEMMA TakenApart ==
  /\ One(~late) \in {0, 1} /\ One(orphan) \in {0, 1} /\ Unstruck \in {0, 1}
  /\ StepsLeft = StageRank + 9 * (Last + 1 - cur) + ChildRank
                   + One(~late) + One(orphan) + Unstruck
BY DEF One, Unstruck, StepsLeft

LEMMA TakenApartAfter ==
  /\ One(~late)' \in {0, 1} /\ One(orphan)' \in {0, 1} /\ Unstruck' \in {0, 1}
  /\ StepsLeft' = StageRank' + 9 * (Last' + 1 - cur') + ChildRank'
                    + One(~late)' + One(orphan)' + Unstruck'
BY DEF One, Unstruck, StepsLeft

LEMMA CurIsANumber ==
  ASSUME CheckIInv, CheckIInv', Last' = Last
  PROVE  Last \in Nat /\ cur \in Int /\ cur' \in Int /\ 1 <= cur /\ cur <= Last + 1
<1>1. Last \in Nat
  BY JobsAreNumbers DEF CheckIInv, TypeOK
<1>2. cur \in 1..(Last + 1) /\ cur' \in 1..(Last' + 1)
  BY DEF CheckIInv, TypeOK
<1> QED BY <1>1, <1>2

(* The steps of the command itself, none of which touches a job.           *)
LEMMA StageLowers ==
  ASSUME CheckIInv, CheckIInv', Capture \/ LoadConfig \/ BuiltIn \/ Render \/ Killed
  PROVE  StepsLeft' < StepsLeft
<1>1. UNCHANGED jobVars
  BY DEF Capture, LoadConfig, BuiltIn, Render, Killed
<1>2. Last' = Last
  BY DEF Capture, LoadConfig, BuiltIn, Render, Killed, Last, CheckIInv, TypeOK, ConfigSpace
<1>3. StageRank' < StageRank
  BY DEF Capture, LoadConfig, BuiltIn, Render, Killed, ExitWith, StageRank, Working, CheckIInv,
         TypeOK
<1>4. /\ cur' = cur /\ ChildRank' = ChildRank /\ One(~late)' = One(~late)
      /\ One(orphan)' = One(orphan) /\ Unstruck' = Unstruck
  BY <1>1, <1>2 DEF jobVars, ChildRank, Unstruck, Jobs
<1> QED BY <1>2, <1>3, <1>4, TakenApart, TakenApartAfter, RanksAreNumbers, CurIsANumber

(* The end of a job, which costs nine and gives the next one at most nine. *)
LEMMA ConcludeLowers ==
  ASSUME CheckIInv, CheckIInv', Reject \/ StartFails \/ Return
  PROVE  StepsLeft' < StepsLeft
<1>1. /\ UNCHANGED <<main, cfg, orphan>> /\ cur' = cur + 1
  BY DEF Reject, StartFails, Return, Conclude
<1>2. Last' = Last /\ StageRank' = StageRank /\ One(orphan)' = One(orphan)
  BY <1>1 DEF Last, StageRank
<1>3. CASE Return
  <2>1. One(orphan)' = 0
    BY <1>1, <1>3 DEF Return, One
  <2> QED BY <1>1, <1>2, <2>1, TakenApart, TakenApartAfter, RanksAreNumbers, CurIsANumber
<1>4. CASE Reject \/ StartFails
  <2>1. ChildRank = 6
    BY <1>4 DEF Reject, StartFails, Idle, ChildRank
  <2> QED BY <1>1, <1>2, <2>1, TakenApart, TakenApartAfter, RanksAreNumbers, CurIsANumber
<1> QED BY <1>3, <1>4

(* The steps of a child, its deadline and its pipe.                        *)
LEMMA ChildLowers ==
  ASSUME CheckIInv, CheckIInv',
         Start \/ DeadlinePasses \/ Strike \/ ChildEnds \/ OrphanLetsGo \/ Reap
  PROVE  StepsLeft' < StepsLeft
<1>1. UNCHANGED <<main, cfg, cur>>
  BY DEF Start, DeadlinePasses, Strike, ChildEnds, OrphanLetsGo, Reap
<1>2. Last' = Last /\ StageRank' = StageRank /\ Jobs' = Jobs
  BY <1>1 DEF Last, StageRank, Jobs
<1>3. child # "none" => cur \in Jobs
  BY DEF CheckIInv, ChildIsCurrent
<1>4. CASE Start
  <2>1. ChildRank = 6 /\ ChildRank' = 4 /\ One(orphan)' = One(orphan) /\ Unstruck' = Unstruck
    BY <1>1, <1>2, <1>4 DEF Start, Idle, ChildRank, Unstruck
  <2> QED BY <1>1, <1>2, <2>1, TakenApart, TakenApartAfter, RanksAreNumbers, CurIsANumber
<1>5. CASE DeadlinePasses
  <2>1. /\ ChildRank' = ChildRank /\ One(orphan)' = One(orphan) /\ Unstruck' = Unstruck
        /\ One(~late) = 1 /\ One(~late)' = 0
    BY <1>1, <1>2, <1>5 DEF DeadlinePasses, ChildRank, Unstruck, One
  <2> QED BY <1>1, <1>2, <2>1, TakenApart, TakenApartAfter, RanksAreNumbers, CurIsANumber
<1>6. CASE Strike
  <2>1. cur \in Jobs /\ One(~late)' = One(~late)
    BY <1>3, <1>6 DEF Strike
  <2>2. Unstruck = 1 /\ Unstruck' = 0
    <3>1. ~struck[cur] /\ struck' = [struck EXCEPT ![cur] = TRUE]
      BY <1>6 DEF Strike
    <3>2. struck'[cur] = TRUE
      BY <2>1, <3>1 DEF CheckIInv, TypeOK
    <3> QED BY <1>1, <1>2, <2>1, <3>1, <3>2 DEF Unstruck, One
  <2>3. CASE child = "zombie"
    <3>1. ChildRank' = ChildRank /\ One(orphan)' = One(orphan)
      BY <1>6, <2>3 DEF Strike, ChildRank
    <3> QED BY <1>1, <1>2, <2>1, <2>2, <3>1, TakenApart, TakenApartAfter, RanksAreNumbers,
               CurIsANumber
  <2>4. CASE child = "running"
    <3>1. ChildRank = 4 /\ ChildRank' = 2
      BY <1>6, <2>4 DEF Strike, ChildRank
    <3> QED BY <1>1, <1>2, <2>1, <2>2, <3>1, TakenApart, TakenApartAfter, RanksAreNumbers,
               CurIsANumber
  <2> QED BY <1>6, <2>3, <2>4 DEF Strike
<1>7. CASE ChildEnds
  <2>1. ChildRank = 4 /\ ChildRank' = 2 /\ One(~late)' = One(~late) /\ Unstruck' = Unstruck
    BY <1>1, <1>2, <1>7 DEF ChildEnds, ChildRank, Unstruck
  <2> QED BY <1>1, <1>2, <2>1, TakenApart, TakenApartAfter, RanksAreNumbers, CurIsANumber
<1>8. CASE OrphanLetsGo
  <2>1. /\ ChildRank' = ChildRank /\ One(~late)' = One(~late) /\ Unstruck' = Unstruck
        /\ One(orphan) = 1 /\ One(orphan)' = 0
    BY <1>1, <1>2, <1>8 DEF OrphanLetsGo, ChildRank, Unstruck, One
  <2> QED BY <1>1, <1>2, <2>1, TakenApart, TakenApartAfter, RanksAreNumbers, CurIsANumber
<1>9. CASE Reap
  <2>1. /\ ChildRank = 2 /\ ChildRank' = 1 /\ One(orphan)' = One(orphan)
        /\ One(~late)' = One(~late) /\ Unstruck' = Unstruck
    BY <1>1, <1>2, <1>9 DEF Reap, ChildRank, Unstruck
  <2> QED BY <1>1, <1>2, <2>1, TakenApart, TakenApartAfter, RanksAreNumbers, CurIsANumber
<1> QED BY <1>4, <1>5, <1>6, <1>7, <1>8, <1>9

(* Every step of the check, of a timer, of a child or of a descendant      *)
(* lowers what is left to do, for every configuration: no job is run a     *)
(* second time, no child killed twice.                                     *)
THEOREM NothingIsRepeated == Spec => NothingIsDoneTwice
<1>1. CheckIInv /\ CheckIInv' /\ [Next]_vars => [StepsLeft' < StepsLeft]_vars
  BY StageLowers, ConcludeLowers, ChildLowers DEF Next, Command, Timer, Outside
<1> QED BY <1>1, CheckInvariant, PTL DEF Spec, NothingIsDoneTwice

(* What is left is at most 9 * n + 13 for n custom checks and plugins, and *)
(* never falls to 0: a check makes at most 9 * n + 12 steps, so that it    *)
(* can fail to end only by waiting for ever.                               *)
THEOREM StepsAreBounded == Spec => [](StepsLeft \in 1..(9 * Last + 13))
<1>1. CheckIInv => StepsLeft \in 1..(9 * Last + 13)
  <2> SUFFICES ASSUME CheckIInv PROVE StepsLeft \in 1..(9 * Last + 13)
    OBVIOUS
  <2>1. Last \in Nat
    BY JobsAreNumbers DEF CheckIInv, TypeOK
  <2>2. cur \in 1..(Last + 1)
    BY DEF CheckIInv, TypeOK
  <2> QED BY <2>1, <2>2, TakenApart, RanksAreNumbers
<1> QED BY <1>1, CheckInvariant, PTL

(* The guards of the steps that the check takes by itself: its own, and    *)
(* those of its timers.                                                    *)
CanGoOn ==
  \/ main \in {"capture", "config", "sections"}
  \/ main = "jobs" /\ cur = Last + 1
  \/ Idle /\ (IF IsCustom(cur) THEN Malformed(cur) ELSE Unresolved(cur))
  \/ Idle /\ Runnable
  \/ child = "running" /\ (~late \/ ~struck[cur])
  \/ child = "zombie"
  \/ main = "jobs" /\ child = "reaped" /\ ~orphan

(* A check that works can always go on by itself, unless a descendant of   *)
(* a child that was reaped keeps the output pipe: a running child has not  *)
(* used up the one kill it gets.                                           *)
THEOREM OnlyPipesHoldItUp == Spec => [](Working => CanGoOn \/ (child = "reaped" /\ orphan))
<1>1. CheckIInv => (Working => CanGoOn \/ (child = "reaped" /\ orphan))
  <2> SUFFICES ASSUME CheckIInv, main = "jobs", cur # Last + 1
               PROVE  CanGoOn \/ (child = "reaped" /\ orphan)
    BY DEF Working, CanGoOn, CheckIInv, TypeOK
  <2>1. cur \in Jobs
    <3>1. Last \in Nat
      BY JobsAreNumbers DEF CheckIInv, TypeOK
    <3>2. cur \in 1..(Last + 1)
      BY DEF CheckIInv, TypeOK
    <3> QED BY <3>1, <3>2 DEF Jobs
  <2>2. CASE child = "none"
    <3>1. Idle
      BY <2>1, <2>2 DEF Idle
    <3>2. IF IsCustom(cur) THEN Malformed(cur) \/ ~Malformed(cur)
                           ELSE Unresolved(cur) \/ Resolved(cur)
      BY DEF Unresolved, Resolved
    <3> QED BY <3>1, <3>2 DEF CanGoOn, Runnable
  <2>3. CASE child = "running"
    <3>1. ~struck[cur]
      BY <2>1, <2>3 DEF CheckIInv, FateIsOpen
    <3> QED BY <2>3, <3>1 DEF CanGoOn
  <2>4. CASE child \in {"zombie", "reaped"}
    BY <2>4 DEF CanGoOn, CheckIInv, TypeOK
  <2> QED BY <2>2, <2>3, <2>4 DEF CheckIInv, TypeOK
<1> QED BY <1>1, CheckInvariant, PTL
=============================================================================
