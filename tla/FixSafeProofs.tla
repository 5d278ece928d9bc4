--------------------------- MODULE FixSafeProofs ---------------------------
(* Proofs about `fix safe`: a person's values survive it, as long as nobody *)
(* edits .env while it runs and every line of .env is ended.                *)
EXTENDS FixSafe, TLAPS

(* A key that is written gets no person's value, and the file keeps those  *)
(* that it has, if nothing can be glued to one.                            *)
SameUsers(f, g) == \A j \in Keys : g.vals[j] = "user" <=> f.vals[j] = "user"

LEMMA WithLineKeeps ==
  ASSUME NEW f \in File, NothingToSpoil(f), NEW k \in Keys, f.vals[k] # "user"
  PROVE  /\ WithLine(f, k) \in File
         /\ WithLine(f, k).nl
         /\ WithLine(f, k).exists = f.exists
         /\ WithLine(f, k).last = None \/ WithLine(f, k).vals[WithLine(f, k).last] # "user"
         /\ SameUsers(f, WithLine(f, k))
<1>0. f.vals \in [Keys -> Values] /\ f.last \in Keys \union {None} /\ None \notin Keys
  BY FixAssumption DEF File
<1>1. CASE f.nl
  BY <1>0, <1>1 DEF WithLine, File, Values, SameUsers
<1>2. CASE ~f.nl /\ f.last = None
  BY <1>0, <1>2 DEF WithLine, File, Values, SameUsers
<1>3. CASE ~f.nl /\ f.last # None
  BY <1>0, <1>3 DEF WithLine, File, Values, SameUsers, NothingToSpoil
<1> QED BY <1>1, <1>2, <1>3

(* ... and the same when the write breaks off.                             *)
LEMMA PartLinesKeep ==
  ASSUME NEW f \in File, NothingToSpoil(f), NEW k \in Keys, f.vals[k] # "user",
         NEW g \in PartLines(f, k)
  PROVE  /\ g \in File /\ NothingToSpoil(g)
         /\ g.exists = f.exists
         /\ SameUsers(f, g)
<1>1. CASE g = f
  BY <1>1 DEF SameUsers
<1>2. CASE g = [WithLine(f, k) EXCEPT !.nl = FALSE]
  <2> DEFINE h == WithLine(f, k)
  <2>1. /\ h \in File /\ h.exists = f.exists /\ SameUsers(f, h)
        /\ h.last = None \/ h.vals[h.last] # "user"
    BY WithLineKeeps
  <2> HIDE DEF h
  <2>2. g = [h EXCEPT !.nl = FALSE]
    BY <1>2 DEF h
  <2> QED BY <2>1, <2>2 DEF File, SameUsers, NothingToSpoil
<1>3. CASE g = [f EXCEPT !.last = None, !.nl = FALSE]
  BY <1>3 DEF File, SameUsers, NothingToSpoil
<1> QED BY <1>1, <1>2, <1>3 DEF PartLines

(* What is copied from .env.example never is a person's value.             *)
LEMMA ExampleKeeps ==
  ASSUME NEW f \in Examples, f.exists
  PROVE  /\ EnvFromExample(f) \in File
         /\ EnvFromExample(f).nl /\ EnvFromExample(f).exists
         /\ \A k \in Keys : EnvFromExample(f).vals[k] # "user"
<1>1. f \in File /\ \A k \in Keys : f.vals[k] \in {"absent", "blank", "default"}
  BY FixAssumption
<1> QED BY <1>1 DEF EnvFromExample, File, Values

(* Nor is a first part of that copy.                                       *)
LEMMA FirstPartsKeep ==
  ASSUME NEW f \in File, NEW g \in FirstParts(f)
  PROVE  /\ g \in File /\ g.exists
         /\ \A k \in Keys : g.vals[k] \in {"absent", f.vals[k]}
         /\ g.last = None \/ g.last \in Keys
<1>0. PICK given \in SUBSET {k \in Keys : f.vals[k] # "absent"} :
        g \in {[exists |-> TRUE, vals |-> [k \in Keys |-> IF k \in given THEN f.vals[k] ELSE "absent"],
               last |-> l, nl |-> ended] : l \in given \union {None}, ended \in BOOLEAN}
  BY DEF FirstParts
<1>1. PICK l \in given \union {None}, ended \in BOOLEAN :
        g = [exists |-> TRUE, vals |-> [k \in Keys |-> IF k \in given THEN f.vals[k] ELSE "absent"],
             last |-> l, nl |-> ended]
  BY <1>0
<1>2. f.vals \in [Keys -> Values] /\ "absent" \in Values
  BY DEF File, Values
<1>3. g.vals \in [Keys -> Values]
  BY <1>1, <1>2
<1> QED BY <1>1, <1>2, <1>3 DEF File

LEMMA NoFileIsFile == NoFile \in File /\ Empty \in File /\ Empty.nl /\ Empty.exists
                        /\ \A k \in Keys : NoFile.vals[k] = "absent" /\ Empty.vals[k] = "absent"
BY DEF NoFile, Empty, File, Values
-----------------------------------------------------------------------------
(* What the theorems assume beyond FixAssumption: nobody edits .env while  *)
(* the command runs, and people end its lines.                             *)
EndedLines ==
  /\ Ended \subseteq {TRUE}
  /\ \A f \in Files : f.nl

Undisturbed ==
  /\ ~EditsDuring
  /\ EndedLines

(* A step of the command gives no key a person's value.                    *)
NoUserAdded == \A k \in Keys : env'.vals[k] = "user" => env.vals[k] = "user"

(* The elements of a tail are elements of the sequence.                    *)
LEMMA TailPart ==
  ASSUME NEW S, NEW q \in Seq(S), q # <<>>
  PROVE  /\ Tail(q) \in Seq(S)
         /\ \A i \in 1..Len(Tail(q)) : \E j \in 1..Len(q) : Tail(q)[i] = q[j]
<1>1. Tail(q) \in Seq(S) /\ Len(Tail(q)) = Len(q) - 1 /\ Len(q) \in Nat
  OBVIOUS
<1>2. \A i \in 1..Len(Tail(q)) : i + 1 \in 1..Len(q) /\ Tail(q)[i] = q[i + 1]
  BY <1>1
<1> QED BY <1>1, <1>2

(* ... and so are those of what a step leaves of it.                       *)
LEMMA TailsPart ==
  ASSUME NEW S, NEW q \in Seq(S), NEW r, r = q \/ r = <<>> \/ (q # <<>> /\ r = Tail(q))
  PROVE  \A i \in 1..Len(r) : \E j \in 1..Len(q) : r[i] = q[j]
<1>1. CASE r = q
  BY <1>1
<1>2. CASE r = <<>>
  BY <1>2
<1>3. CASE q # <<>> /\ r = Tail(q)
  BY <1>3, TailPart
<1> QED BY <1>1, <1>2, <1>3

LEMMA FixInit == ASSUME Undisturbed, Init PROVE FixIInv
<1>1. env \in File /\ example \in Examples /\ NothingToSpoil(env)
        /\ (~env.exists => env = NoFile)
  BY FixAssumption DEF Init, Undisturbed, EndedLines, File, NothingToSpoil
<1>2. items \in Seq(Items) /\ plan \in Seq(Actions) /\ todo \subseteq Keys /\ pc = "idle"
  BY DEF Init
<1> QED BY <1>1, <1>2 DEF FixIInv

(* The steps that leave .env alone and take items or actions away.         *)
LEMMA QuietSteps ==
  ASSUME FixIInv, UNCHANGED <<env, example, named>>,
         \/ items' = items \/ items' = <<>> \/ (items # <<>> /\ items' = Tail(items)),
         \/ plan' = plan \/ plan' = <<>> \/ (plan # <<>> /\ plan' = Tail(plan)),
         todo' \subseteq todo,
         pc' \notin {"creating", "appending"} \/ (pc' = pc /\ plan' = plan),
         pc # "idle" \/ pc' = "idle" \/ (items' = <<>> /\ plan' = <<>> /\ todo' = {})
  PROVE  FixIInv'
<1>1. NoUserAdded
  BY DEF NoUserAdded
<1>2. items' \in Seq(Items) /\ plan' \in Seq(Actions) /\ todo' \subseteq Keys
  <2>1. items' \in Seq(Items)
    <3>1. items \in Seq(Items)
      BY DEF FixIInv
    <3>2. CASE items # <<>> /\ items' = Tail(items)
      BY <3>1, <3>2, TailPart
    <3>3. CASE items' = <<>>
      BY <3>3
    <3> QED BY <3>1, <3>2, <3>3
  <2>2. plan' \in Seq(Actions)
    <3>1. plan \in Seq(Actions)
      BY DEF FixIInv
    <3>2. CASE plan # <<>> /\ plan' = Tail(plan)
      BY <3>1, <3>2, TailPart
    <3>3. CASE plan' = <<>>
      BY <3>3
    <3> QED BY <3>1, <3>2, <3>3
  <2> QED BY <2>1, <2>2 DEF FixIInv
<1>3. ASSUME pc' # "idle"
      PROVE  /\ (\A i \in 1..Len(items) : NoUser(items[i].keys))'
             /\ (\A i \in 1..Len(plan) : PlannedAgainst(plan[i]))'
             /\ NoUser(todo)'
  <2>1. CASE pc = "idle"
    BY <1>3, <2>1 DEF NoUser
  <2>2. CASE pc # "idle"
    <3>0. items \in Seq(Items) /\ plan \in Seq(Actions)
      BY DEF FixIInv
    <3>1. \A i \in 1..Len(items') : \E j \in 1..Len(items) : items'[i] = items[j]
      BY <3>0, TailsPart
    <3>2. \A i \in 1..Len(plan') : \E j \in 1..Len(plan) : plan'[i] = plan[j]
      <4> DEFINE q == plan'
      <4>1. q = plan \/ q = <<>> \/ (plan # <<>> /\ q = Tail(plan))
        OBVIOUS
      <4> HIDE DEF q
      <4>2. \A i \in 1..Len(q) : \E j \in 1..Len(plan) : q[i] = plan[j]
        BY <3>0, <4>1, TailsPart
      <4> QED BY <4>2 DEF q
    <3>3. (\A i \in 1..Len(items) : NoUser(items[i].keys))'
      <4>1. \A i \in 1..Len(items) : NoUser(items[i].keys)
        BY <2>2 DEF FixIInv
      <4>2. ASSUME NEW keys, NoUser(keys)
            PROVE  NoUser(keys)'
        BY <4>2 DEF NoUser
      <4> QED BY <3>1, <4>1, <4>2
    <3>4. \A i \in 1..Len(plan) : PlannedAgainst(plan[i])
      BY <2>2 DEF FixIInv
    <3>5. (\A i \in 1..Len(plan) : PlannedAgainst(plan[i]))'
      <4>1. ASSUME NEW a, PlannedAgainst(a)
            PROVE  PlannedAgainst(a)'
        BY <4>1 DEF NoUser, PlannedAgainst
      <4> QED BY <3>2, <3>4, <4>1
    <3>6. NoUser(todo)'
      BY <2>2 DEF FixIInv, NoUser
    <3> QED BY <3>3, <3>5, <3>6
  <2> QED BY <2>1, <2>2
<1>4. pc' = "creating" => plan' # <<>> /\ example'.exists /\ NoUser(Keys)'
  BY DEF FixIInv, NoUser
<1>5. pc' = "appending" => plan' # <<>>
  BY DEF FixIInv
<1>6. env' \in File /\ example' \in Examples /\ NothingToSpoil(env')
        /\ (~env'.exists => env' = NoFile)
  BY DEF FixIInv
<1> QED BY <1>2, <1>3, <1>4, <1>5, <1>6 DEF FixIInv

(* The check: items name keys that are absent.                             *)
LEMMA CheckStep == ASSUME FixIInv, Check PROVE FixIInv'
<1>1. PICK docker, running \in BOOLEAN :
        items' = EnvItems(MissingIn(env, Required)) \o EnvItems(MissingIn(env, Recommended))
                   \o (IF docker THEN DockerItems(Image \in local, running) ELSE <<>>)
  BY DEF Check
<1> DEFINE Good == {it \in Items : NoUser(it.keys)}
<1>2. ASSUME NEW s \in SUBSET Keys
      PROVE  EnvItems(MissingIn(env, s)) \in Seq(Good)
  <2>1. EnvItem(MissingIn(env, s)) \in Good
    BY DEF EnvItem, MissingIn, Items, NoUser
  <2> HIDE DEF Good
  <2> QED BY <2>1 DEF EnvItems
<1>3. DockerItems(Image \in local, running) \in Seq(Good)
  <2>1. DockerItem(Image) \in Good /\ DockerItem(Container) \in Good
    BY DEF DockerItem, Items, NoUser
  <2> HIDE DEF Good
  <2>2. CASE Image \in local
    BY <2>1, <2>2 DEF DockerItems
  <2>3. CASE Image \notin local
    BY <2>1, <2>3 DEF DockerItems
  <2> QED BY <2>2, <2>3
<1>4. items' \in Seq(Good)
  <2> HIDE DEF Good
  <2>1. (IF docker THEN DockerItems(Image \in local, running) ELSE <<>>) \in Seq(Good)
    BY <1>3
  <2>2. EnvItems(MissingIn(env, Required)) \in Seq(Good)
        /\ EnvItems(MissingIn(env, Recommended)) \in Seq(Good)
    BY <1>2, FixAssumption
  <2> QED BY <1>1, <2>1, <2>2
<1>5. \A i \in 1..Len(items') : items'[i] \in Good
  <2> HIDE DEF Good
  <2> QED BY <1>4
<1>6. items' \in Seq(Items)
  BY <1>4
<1>7. env' = env /\ example' = example /\ named' = named /\ plan' = plan /\ todo' = todo
        /\ pc = "check" /\ pc' = "plan"
  BY DEF Check, disk, project
<1>8. (\A i \in 1..Len(items) : NoUser(items[i].keys))'
  BY <1>5, <1>7 DEF NoUser
<1>9. \A i \in 1..Len(plan) : PlannedAgainst(plan[i])
  BY <1>7 DEF FixIInv
<1>10. (\A i \in 1..Len(plan) : PlannedAgainst(plan[i]))'
  BY <1>7, <1>9 DEF PlannedAgainst, NoUser
<1>11. NoUser(todo)'
  BY <1>7 DEF FixIInv, NoUser
<1> QED BY <1>6, <1>7, <1>8, <1>10, <1>11 DEF FixIInv

(* The plan of an item: an append of its keys, and a create only if there  *)
(* is no .env where the command would write it.                            *)
LEMMA PlanStep == ASSUME FixIInv, PlanItem PROVE FixIInv'
<1>1. pc = "plan" /\ items # <<>> /\ items \in Seq(Items) /\ plan \in Seq(Actions)
  BY DEF FixIInv, PlanItem
<1>2. env' = env /\ example' = example /\ named' = named /\ todo' = todo /\ pc' = pc
        /\ items' = Tail(items)
  BY DEF PlanItem, disk, project
<1> DEFINE Good == {a \in Actions : PlannedAgainst(a)}
           new  == IF Head(items).cat = "Env" THEN EnvFixes(Head(items).keys)
                                              ELSE DockerFixes(Head(items).name)
<1>3. Head(items) \in Items /\ NoUser(Head(items).keys)
  BY <1>1 DEF FixIInv
<1>4. new \in Seq(Good)
  <2>1. ~StatEnv /\ example.exists => CreateAction \in Good
    BY NoFileIsFile DEF CreateAction, Actions, PlannedAgainst, StatEnv, FixIInv, NoUser
  <2>2. AppendAction(Head(items).keys) \in Good
    BY <1>3 DEF AppendAction, Actions, Items, PlannedAgainst
  <2>3. PullAction(Head(items).name) \in Good
    BY <1>3 DEF PullAction, Actions, Items, PlannedAgainst
  <2> HIDE DEF Good
  <2>4. EnvFixes(Head(items).keys) \in Seq(Good)
    BY <2>1, <2>2 DEF EnvFixes
  <2>5. DockerFixes(Head(items).name) \in Seq(Good)
    BY <2>3 DEF DockerFixes
  <2> QED BY <2>4, <2>5
<1>5. plan \in Seq(Good)
  <2>1. \A i \in 1..Len(plan) : plan[i] \in Good
    BY <1>1 DEF FixIInv
  <2> HIDE DEF Good
  <2> QED BY <1>1, <2>1
<1>6. plan' = plan \o new
  BY DEF PlanItem
<1>7. plan' \in Seq(Good)
  <2> HIDE DEF Good, new
  <2> QED BY <1>4, <1>5, <1>6
<1>8. plan' \in Seq(Actions) /\ \A i \in 1..Len(plan') : PlannedAgainst(plan'[i])
  <2>1. \A i \in 1..Len(plan') : plan'[i] \in Good
    <3> HIDE DEF Good, new
    <3> QED BY <1>7
  <2> QED BY <1>7, <2>1
<1>9. (\A i \in 1..Len(plan) : PlannedAgainst(plan[i]))'
  BY <1>2, <1>8 DEF PlannedAgainst, NoUser
<1>10. items' \in Seq(Items) /\ (\A i \in 1..Len(items) : NoUser(items[i].keys))'
  <2>1. Tail(items) \in Seq(Items)
        /\ \A i \in 1..Len(Tail(items)) : \E j \in 1..Len(items) : Tail(items)[i] = items[j]
    BY <1>1, TailPart
  <2> QED BY <1>1, <1>2, <2>1 DEF FixIInv, NoUser
<1> QED BY <1>1, <1>2, <1>8, <1>9, <1>10 DEF FixIInv, NoUser

(* A write that gives no key a person's value, with the rest of the plan   *)
(* unchanged or shortened.                                                 *)
LEMMA WriteStep ==
  ASSUME FixIInv, UNCHANGED <<example, named, items>>,
         pc \in {"apply", "creating", "appending"}, plan # <<>>,
         plan' = plan \/ plan' = Tail(plan),
         NoUserAdded, env' \in File, NothingToSpoil(env'), env'.exists,
         NoUser(todo'),  todo' \subseteq Keys,
         pc' \in {"apply", "creating", "appending"},
         pc' # "apply" => plan' = plan,
         pc' = "creating" => example.exists /\ NoUser(Keys)
  PROVE  FixIInv'
<1>1. items \in Seq(Items) /\ plan \in Seq(Actions)
        /\ (\A i \in 1..Len(items) : NoUser(items[i].keys))
        /\ (\A i \in 1..Len(plan) : PlannedAgainst(plan[i]))
  BY DEF FixIInv
<1>2. \A i \in 1..Len(items) : items[i] \in Items
  BY <1>1
<1>3. (\A i \in 1..Len(items) : NoUser(items[i].keys))'
  BY <1>1, <1>2 DEF NoUser, NoUserAdded, Items
<1>4. plan' \in Seq(Actions)
        /\ \A i \in 1..Len(plan') : \E j \in 1..Len(plan) : plan'[i] = plan[j]
  <2>1. CASE plan' = plan
    BY <1>1, <2>1
  <2>2. CASE plan' = Tail(plan)
    BY <1>1, <2>2, TailPart
  <2> QED BY <2>1, <2>2
<1>5. \A i \in 1..Len(plan) : plan[i] \in Actions /\ PlannedAgainst(plan[i])
  BY <1>1
<1>6. (\A i \in 1..Len(plan) : PlannedAgainst(plan[i]))'
  <2>1. ASSUME NEW a \in Actions, PlannedAgainst(a)
        PROVE  /\ a.id = "append" => \A k \in a.keys : env'.vals[k] # "user"
               /\ a.id = "create" =>
                    example'.exists /\ (named' => \A k \in Keys : env'.vals[k] # "user")
    BY <2>1 DEF PlannedAgainst, NoUser, NoUserAdded, Actions
  <2> QED BY <1>4, <1>5, <2>1 DEF PlannedAgainst, NoUser
<1>7. NoUser(todo)' /\ (pc' = "creating" => example'.exists /\ NoUser(Keys)')
  BY DEF NoUser, NoUserAdded
<1>8. example' \in Examples
  BY DEF FixIInv
<1> QED BY <1>1, <1>3, <1>4, <1>6, <1>7, <1>8 DEF FixIInv

LEMMA CreateTruncatesStep == ASSUME FixIInv, CreateTruncates PROVE FixIInv' /\ NoUserAdded
<1>1. plan # <<>> /\ plan \in Seq(Actions) /\ pc = "apply" /\ Head(plan).id = "create"
  BY DEF CreateTruncates, Doing, FixIInv
<1>2. PlannedAgainst(Head(plan)) /\ NoUser(todo) /\ todo \subseteq Keys
  BY <1>1 DEF FixIInv
<1>3. example.exists /\ NoUser(Keys)
  BY <1>1, <1>2 DEF PlannedAgainst, CreateTruncates
<1>4. NoUserAdded /\ env' \in File /\ NothingToSpoil(env') /\ env'.exists
  BY NoFileIsFile DEF CreateTruncates, NoUserAdded, NothingToSpoil
<1>5. UNCHANGED <<example, named, items>> /\ plan' = plan /\ todo' = todo /\ pc' = "creating"
  BY DEF CreateTruncates, project
<1> QED BY <1>1, <1>2, <1>3, <1>4, <1>5, WriteStep

LEMMA CreateWritesStep ==
  ASSUME FixIInv, CreateWrites \/ CreateWriteFails
  PROVE  FixIInv' /\ NoUserAdded
<1>1. pc = "creating" /\ plan # <<>> /\ example \in Examples /\ example.exists
        /\ NoUser(Keys) /\ NoUser(todo) /\ todo \subseteq Keys
  BY DEF CreateWrites, CreateWriteFails, FixIInv
<1> DEFINE copy == EnvFromExample(example)
<1>2. copy \in File /\ copy.nl /\ copy.exists /\ \A k \in Keys : copy.vals[k] # "user"
  BY <1>1, ExampleKeeps
<1> HIDE DEF copy
<1>3. env' \in {env, copy} \/ env' \in FirstParts(copy)
  BY DEF CreateWrites, CreateWriteFails, copy
<1>4. env' \in File /\ (env' # env => env'.exists)
        /\ (\A k \in Keys : env'.vals[k] # "user")
        /\ (env'.last = None \/ env'.last \in Keys)
  <2>1. CASE env' = env
    BY <1>1, <2>1 DEF FixIInv, NoUser, File
  <2>2. CASE env' = copy
    BY <1>2, <2>2 DEF File
  <2>3. CASE env' \in FirstParts(copy)
    BY <1>2, <2>3, FirstPartsKeep
  <2> QED BY <1>3, <2>1, <2>2, <2>3
<1>5. NoUserAdded /\ NothingToSpoil(env')
  BY <1>4 DEF NoUserAdded, NothingToSpoil
<1>6. UNCHANGED <<example, named, items>> /\ plan' = Tail(plan) /\ todo' = todo /\ pc' = "apply"
  BY DEF CreateWrites, CreateWriteFails, project
<1>7. CASE env' = env
  BY <1>1, <1>6, <1>7, QuietSteps, <1>5
<1>8. CASE env' # env
  BY <1>1, <1>4, <1>5, <1>6, <1>8, WriteStep
<1> QED BY <1>7, <1>8

LEMMA AppendOpensStep == ASSUME FixIInv, AppendOpens PROVE FixIInv' /\ NoUserAdded
<1>1. plan # <<>> /\ plan \in Seq(Actions) /\ pc = "apply" /\ Head(plan).id = "append"
  BY DEF AppendOpens, Doing, FixIInv
<1>2. PlannedAgainst(Head(plan)) /\ Head(plan) \in Actions
  BY <1>1 DEF FixIInv
<1>3. NoUser(Head(plan).keys) /\ Head(plan).keys \subseteq Keys
  BY <1>1, <1>2 DEF PlannedAgainst, Actions
<1>4. env \in File /\ NothingToSpoil(env)
  BY DEF FixIInv
<1>5. env' \in File /\ NothingToSpoil(env') /\ env'.exists /\ NoUserAdded
  BY <1>4 DEF AppendOpens, NoUserAdded, File, NothingToSpoil
<1>6. UNCHANGED <<example, named, items>> /\ plan' = plan /\ todo' = Head(plan).keys
        /\ pc' = "appending"
  BY DEF AppendOpens, project
<1> QED BY <1>1, <1>3, <1>5, <1>6, WriteStep

LEMMA AppendKeyStep ==
  ASSUME FixIInv, AppendKey \/ AppendKeyFails
  PROVE  FixIInv' /\ SameUsers(env, env')
<1>1. PICK k \in todo : /\ env' = WithLine(env, k) \/ env' \in PartLines(env, k)
                       /\ todo' = todo \ {k}
  BY DEF AppendKey, AppendKeyFails
<1>2. pc = "appending" /\ plan # <<>> /\ env \in File /\ NothingToSpoil(env)
        /\ todo \subseteq Keys /\ NoUser(todo) /\ env.exists
  BY DEF AppendKey, AppendKeyFails, FixIInv
<1>3. k \in Keys /\ env.vals[k] # "user"
  BY <1>2 DEF NoUser
<1>4. env' \in File /\ NothingToSpoil(env') /\ env'.exists = env.exists /\ SameUsers(env, env')
  <2>1. CASE env' = WithLine(env, k)
    BY <1>2, <1>3, <2>1, WithLineKeeps DEF NothingToSpoil
  <2>2. CASE env' \in PartLines(env, k)
    BY <1>2, <1>3, <2>2, PartLinesKeep
  <2> QED BY <1>1, <2>1, <2>2
<1>5. NoUserAdded
  BY <1>4 DEF NoUserAdded, SameUsers
<1>6. UNCHANGED <<example, named, items>> /\ plan' = plan /\ pc' = "appending"
  BY <1>2 DEF AppendKey, AppendKeyFails, project
<1>7. NoUser(todo') /\ todo' \subseteq Keys
  BY <1>1, <1>2 DEF NoUser
<1> QED BY <1>2, <1>4, <1>5, <1>6, <1>7, WriteStep

(* An edit, which happens between runs only.                               *)
LEMMA EditStep ==
  ASSUME FixIInv, Undisturbed, NEW k \in Keys, NEW ended \in Ended, Edit(k, ended)
  PROVE  FixIInv'
<1>1. pc = "idle" /\ pc' = "idle" /\ ended = TRUE
  BY DEF Edit, Undisturbed, EndedLines
<1>2. env' \in File /\ NothingToSpoil(env') /\ env'.exists
  BY <1>1 DEF Edit, FixIInv, File, Values, NothingToSpoil
<1>3. UNCHANGED <<project, items, plan, todo>>
  BY DEF Edit
<1> QED BY <1>1, <1>2, <1>3 DEF FixIInv, project

(* Every other step of the command leaves .env alone.                      *)
LEMMA StartStep == ASSUME FixIInv, NEW f \in Flags, Start(f) PROVE FixIInv' /\ env' = env
<1>1. UNCHANGED <<env, example, named>> /\ items' = <<>> /\ plan' = <<>> /\ todo' = {}
        /\ pc' \in {"idle", "check"}
  BY DEF Start, Stop, disk
<1> QED BY <1>1, QuietSteps

LEMMA PlanningStep == ASSUME FixIInv, Planning PROVE FixIInv' /\ env' = env
<1>1. CASE CheckFails \/ PlanDone
  <2>1. UNCHANGED <<env, example, named, items, plan, todo>> /\ pc # "idle"
          /\ pc' \notin {"creating", "appending"}
    BY <1>1 DEF CheckFails, PlanDone, Stop, disk, project
  <2> QED BY <2>1, QuietSteps
<1>2. CASE Check
  BY <1>2, CheckStep DEF Check, disk
<1>3. CASE PlanItem
  BY <1>3, PlanStep DEF PlanItem, disk
<1> QED BY <1>1, <1>2, <1>3 DEF Planning

LEMMA QuietApplying ==
  ASSUME FixIInv,
         SkipAction \/ ActionFails \/ AppendDone \/ Pull \/ Finish \/ Kill
  PROVE  FixIInv' /\ env' = env
<1>1. CASE SkipAction \/ ActionFails \/ Pull
  <2>1. UNCHANGED <<env, example, named, items, todo, pc>> /\ pc = "apply" /\ plan # <<>>
          /\ plan' = Tail(plan)
    BY <1>1 DEF SkipAction, ActionFails, Pull, Doing, disk, project
  <2> QED BY <2>1, QuietSteps
<1>2. CASE AppendDone
  <2>1. UNCHANGED <<env, example, named, items, todo>> /\ pc # "idle" /\ pc' = "apply" /\ plan # <<>>
          /\ plan' = Tail(plan)
    BY <1>2 DEF AppendDone, disk, project, FixIInv
  <2> QED BY <2>1, QuietSteps
<1>3. CASE Finish \/ Kill
  <2>1. UNCHANGED <<env, example, named, items, plan, todo>> /\ pc # "idle" /\ pc' = "idle"
    BY <1>3 DEF Finish, Kill, Stop, disk, project
  <2> QED BY <2>1, QuietSteps
<1> QED BY <1>1, <1>2, <1>3

LEMMA CommandStep == ASSUME FixIInv, Command PROVE FixIInv' /\ NoUserAdded
<1>1. CASE \E f \in Flags : Start(f)
  BY <1>1, StartStep DEF NoUserAdded
<1>2. CASE Planning
  BY <1>2, PlanningStep DEF NoUserAdded
<1>3. CASE CreateTruncates \/ CreateWrites \/ CreateWriteFails \/ AppendOpens
  BY <1>3, CreateTruncatesStep, CreateWritesStep, AppendOpensStep
<1>4. CASE AppendKey \/ AppendKeyFails
  BY <1>4, AppendKeyStep DEF NoUserAdded, SameUsers
<1>5. CASE SkipAction \/ ActionFails \/ AppendDone \/ Pull \/ Finish \/ Kill
  BY <1>5, QuietApplying DEF NoUserAdded
<1> QED BY <1>1, <1>2, <1>3, <1>4, <1>5 DEF Command, Applying, Creating, Appending

(* What `fix safe` has planned never concerns a value that a person typed, *)
(* in every reachable state: the inductive invariant of the command.       *)
THEOREM FixInvariant == ASSUME Undisturbed PROVE Spec => []FixIInv
<1>1. Init => FixIInv
  BY FixInit
<1>2. FixIInv /\ [Next]_vars => FixIInv'
  <2> SUFFICES ASSUME FixIInv, [Next]_vars PROVE FixIInv'
    OBVIOUS
  <2>1. CASE Command
    BY <2>1, CommandStep
  <2>2. CASE \E k \in Keys, ended \in Ended : Edit(k, ended)
    BY <2>2, EditStep
  <2>3. CASE UNCHANGED vars
    <3>1. UNCHANGED <<env, example, named, items, plan, todo, pc>>
      BY <2>3 DEF vars, disk, project
    <3> QED BY <3>1, QuietSteps
  <2> QED BY <2>1, <2>2, <2>3 DEF Next
<1> QED BY <1>1, <1>2, PTL DEF Spec

(* Only the writes of a step can touch a value, and none touches a value   *)
(* that a person typed: it is neither overwritten by the copy of           *)
(* .env.example nor blanked by an append.                                  *)
LEMMA WritesKeepValues ==
  ASSUME FixIInv, Command, NEW k \in Keys, env.vals[k] = "user"
  PROVE  env'.vals[k] = "user"
<1>1. CASE \E f \in Flags : Start(f)
  BY <1>1, StartStep
<1>2. CASE Planning
  BY <1>2, PlanningStep
<1>3. CASE CreateTruncates
  <2>1. plan # <<>> /\ plan \in Seq(Actions) /\ pc = "apply" /\ Head(plan).id = "create" /\ named
    BY <1>3 DEF CreateTruncates, Doing, FixIInv
  <2>2. PlannedAgainst(Head(plan))
    BY <2>1 DEF FixIInv
  <2> QED BY <2>1, <2>2 DEF PlannedAgainst, NoUser
<1>4. CASE CreateWrites \/ CreateWriteFails
  BY <1>4 DEF CreateWrites, CreateWriteFails, FixIInv, NoUser
<1>5. CASE AppendOpens
  BY <1>5 DEF AppendOpens, FixIInv, File
<1>6. CASE AppendKey \/ AppendKeyFails
  BY <1>6, AppendKeyStep DEF SameUsers
<1>7. CASE SkipAction \/ ActionFails \/ AppendDone \/ Pull \/ Finish \/ Kill
  BY <1>7, QuietApplying
<1> QED BY <1>1, <1>2, <1>3, <1>4, <1>5, <1>6, <1>7 DEF Command, Applying, Creating, Appending

(* `fix safe` never takes a person's value from .env, through any number   *)
(* of runs, failures in the middle of a write and kills, for every set of  *)
(* keys and every pair of files, if people end their lines and .env is not *)
(* edited while it runs.                                                   *)
THEOREM FixKeepsUserValues == ASSUME Undisturbed PROVE Spec => UserValuesKept
<1>1. FixIInv /\ [Next]_vars =>
        [edits' = edits => \A k \in Keys : env.vals[k] = "user" => env'.vals[k] = "user"]_vars
  <2> SUFFICES ASSUME FixIInv, Next, edits' = edits, NEW k \in Keys, env.vals[k] = "user"
               PROVE  env'.vals[k] = "user"
    OBVIOUS
  <2>1. CASE Command
    BY <2>1, WritesKeepValues
  <2>2. ASSUME NEW j \in Keys, NEW ended \in Ended, Edit(j, ended)
        PROVE  env'.vals[k] = "user"
    BY <2>2 DEF Edit, FixIInv, File
  <2> QED BY <2>1, <2>2 DEF Next
<1>2. Spec => []FixIInv
  BY FixInvariant
<1> QED BY <1>1, <1>2, PTL DEF Spec, UserValuesKept
-----------------------------------------------------------------------------
(* What is allowed, with people editing at any time and any files.         *)

(* An image or a container is named where one is meant.                    *)
GoodItems   == {it \in Items : it.cat = "Docker" => it.name \in {Image, Container}}
GoodActions == {a \in Actions : a.id = "pull" => a.name \in {Image, Container}}

AllowIInv ==
  /\ TypeOK
  /\ items \in Seq(GoodItems) /\ plan \in Seq(GoodActions)
  /\ pc \in {"creating", "appending"} => ~flags.dry

(* Sequences of good items are sequences of items.                         *)
LEMMA GoodIsTyped ==
  /\ \A q \in Seq(GoodItems) : q \in Seq(Items)
  /\ \A q \in Seq(GoodActions) : q \in Seq(Actions)
<1>1. GoodItems \subseteq Items /\ GoodActions \subseteq Actions
  BY DEF GoodItems, GoodActions
<1> QED BY <1>1

LEMMA AllowInit == ASSUME Init PROVE AllowIInv
<1>1. env \in File /\ example \in File /\ named \in BOOLEAN
  BY FixAssumption DEF Init
<1>2. runs \in 0..MaxRuns /\ edits \in 0..MaxEdits
  BY FixAssumption DEF Init
<1>3. /\ items \in Seq(Items) /\ plan \in Seq(Actions)
      /\ items \in Seq(GoodItems) /\ plan \in Seq(GoodActions)
  BY DEF Init
<1>4. flags \in Flags /\ local \subseteq {Image, Container} /\ todo \subseteq Keys
  BY DEF Init, Flags
<1>5. pc = "idle" /\ errors = FALSE /\ exit = None /\ settled = FALSE /\ glued = FALSE
  BY DEF Init
<1> QED BY <1>1, <1>2, <1>3, <1>4, <1>5 DEF AllowIInv, TypeOK

(* Lines that are written, as a whole or in part, keep .env a file and     *)
(* give no key a default.                                                  *)
LEMMA LineIsNoDefault ==
  ASSUME NEW f \in File, NEW k \in Keys
  PROVE  /\ WithLine(f, k) \in File
         /\ \A j \in Keys : WithLine(f, k).vals[j] = "default" => f.vals[j] = "default"
<1>1. f.vals \in [Keys -> Values] /\ f.last \in Keys \union {None} /\ f.exists \in BOOLEAN
  BY DEF File
<1>2. CASE f.nl
  BY <1>1, <1>2 DEF WithLine, File, Values
<1>3. CASE ~f.nl /\ f.last = None
  BY <1>1, <1>3 DEF WithLine, File, Values
<1>4. CASE ~f.nl /\ f.last # None
  BY <1>1, <1>4 DEF WithLine, File, Values
<1> QED BY <1>2, <1>3, <1>4

LEMMA PartIsNoDefault ==
  ASSUME NEW f \in File, NEW k \in Keys, NEW g \in PartLines(f, k)
  PROVE  /\ g \in File
         /\ \A j \in Keys : g.vals[j] = "default" => f.vals[j] = "default"
<1> DEFINE h == WithLine(f, k)
<1>1. h \in File /\ \A j \in Keys : h.vals[j] = "default" => f.vals[j] = "default"
  BY LineIsNoDefault
<1> HIDE DEF h
<1>2. g = f \/ g = [h EXCEPT !.nl = FALSE] \/ g = [f EXCEPT !.last = None, !.nl = FALSE]
  BY DEF PartLines, h
<1>3. CASE g = [h EXCEPT !.nl = FALSE]
  BY <1>1, <1>3 DEF File
<1>4. CASE g = [f EXCEPT !.last = None, !.nl = FALSE]
  BY <1>4 DEF File
<1> QED BY <1>2, <1>3, <1>4

LEMMA CopyIsSafe ==
  ASSUME NEW f \in File
  PROVE  /\ EnvFromExample(f) \in File
         /\ \A k \in Sensitive : EnvFromExample(f).vals[k] # "default"
BY FixAssumption DEF EnvFromExample, File, Values

LEMMA AllowCheck == ASSUME AllowIInv, Check PROVE items' \in Seq(GoodItems)
<1>1. PICK docker, running \in BOOLEAN :
        items' = EnvItems(MissingIn(env, Required)) \o EnvItems(MissingIn(env, Recommended))
                   \o (IF docker THEN DockerItems(Image \in local, running) ELSE <<>>)
  BY DEF Check
<1>2. ASSUME NEW keys \in SUBSET Keys
      PROVE  EnvItems(keys) \in Seq(GoodItems)
  <2>1. EnvItem(keys) \in GoodItems
    BY DEF EnvItem, Items, GoodItems
  <2> HIDE DEF GoodItems
  <2> QED BY <2>1 DEF EnvItems
<1>3. DockerItems(Image \in local, running) \in Seq(GoodItems)
  <2>1. DockerItem(Image) \in GoodItems /\ DockerItem(Container) \in GoodItems
    BY DEF DockerItem, Items, GoodItems
  <2>2. CASE Image \in local
    BY <2>1, <2>2 DEF DockerItems
  <2>3. CASE Image \notin local
    BY <2>1, <2>3 DEF DockerItems
  <2> QED BY <2>2, <2>3
<1>4. MissingIn(env, Required) \in SUBSET Keys /\ MissingIn(env, Recommended) \in SUBSET Keys
  BY FixAssumption DEF MissingIn
<1>5. /\ EnvItems(MissingIn(env, Required)) \in Seq(GoodItems)
      /\ EnvItems(MissingIn(env, Recommended)) \in Seq(GoodItems)
  BY <1>2, <1>4
<1>6. (IF docker THEN DockerItems(Image \in local, running) ELSE <<>>) \in Seq(GoodItems)
  BY <1>3
<1> QED BY <1>1, <1>5, <1>6

LEMMA AllowPlan == ASSUME AllowIInv, PlanItem PROVE items' \in Seq(GoodItems) /\ plan' \in Seq(GoodActions)
<1>1. items # <<>> /\ items \in Seq(GoodItems) /\ plan \in Seq(GoodActions) /\ items' = Tail(items)
  BY DEF PlanItem, AllowIInv
<1> DEFINE new == IF Head(items).cat = "Env" THEN EnvFixes(Head(items).keys)
                                             ELSE DockerFixes(Head(items).name)
<1>2. Head(items) \in GoodItems
  BY <1>1
<1>3. /\ CreateAction \in GoodActions
      /\ AppendAction(Head(items).keys) \in GoodActions
      /\ Head(items).cat # "Env" => PullAction(Head(items).name) \in GoodActions
  BY <1>2 DEF CreateAction, AppendAction, PullAction, Actions, Items, GoodItems, GoodActions
<1>4. new \in Seq(GoodActions)
  <2>1. CASE Head(items).cat = "Env"
    BY <1>3, <2>1 DEF EnvFixes
  <2>2. CASE Head(items).cat # "Env"
    BY <1>3, <2>2 DEF DockerFixes
  <2> QED BY <2>1, <2>2
<1>5. plan' = plan \o new
  BY DEF PlanItem
<1> HIDE DEF new
<1> QED BY <1>1, <1>4, <1>5, TailPart

(* The steps that leave both disk and types of the rest alone.             *)
LEMMA AllowQuiet ==
  ASSUME AllowIInv, CheckFails \/ PlanDone \/ SkipAction \/ ActionFails \/ AppendDone
           \/ Finish \/ Kill
  PROVE  AllowIInv' /\ UNCHANGED disk
<1>0. /\ AllowIInv /\ plan \in Seq(GoodActions)
      /\ plan # <<>> => Tail(plan) \in Seq(GoodActions) /\ Tail(plan) \in Seq(Actions)
  BY TailPart, GoodIsTyped DEF AllowIInv
<1>1. CASE CheckFails \/ PlanDone
  BY <1>0, <1>1 DEF CheckFails, PlanDone, Stop, AllowIInv, TypeOK, disk, project, history
<1>2. CASE SkipAction \/ ActionFails
  BY <1>0, <1>2 DEF SkipAction, ActionFails, AllowIInv, TypeOK, disk, project, history
<1>3. CASE AppendDone
  BY <1>0, <1>3 DEF AppendDone, AllowIInv, TypeOK, disk, project, history
<1>4. CASE Finish \/ Kill
  BY <1>0, <1>4 DEF Finish, Kill, Stop, AllowIInv, TypeOK, disk, project, history
<1> QED BY <1>1, <1>2, <1>3, <1>4

LEMMA AllowStart ==
  ASSUME AllowIInv, NEW f \in Flags, Start(f)
  PROVE  AllowIInv' /\ UNCHANGED disk
<1>1. runs' \in 0..MaxRuns
  BY FixAssumption DEF Start, AllowIInv, TypeOK
<1>2. pc' \in {"idle", "check"} /\ exit' \in {None, -1, 0, 2}
  BY DEF Start, Stop
<1>3. /\ items' \in Seq(Items) /\ plan' \in Seq(Actions)
      /\ items' \in Seq(GoodItems) /\ plan' \in Seq(GoodActions)
      /\ todo' \subseteq Keys /\ errors' = FALSE /\ flags' \in Flags
  BY DEF Start
<1>4. UNCHANGED <<env, local, example, named, settled, edits>> /\ glued' = FALSE
  BY DEF Start, disk, project, history
<1> QED BY <1>1, <1>2, <1>3, <1>4 DEF AllowIInv, TypeOK, disk

LEMMA AllowReading ==
  ASSUME AllowIInv, Check \/ PlanItem
  PROVE  AllowIInv' /\ UNCHANGED disk
<1>1. CASE Check
  BY <1>1, AllowCheck, GoodIsTyped DEF Check, AllowIInv, TypeOK, disk, project, history
<1>2. CASE PlanItem
  BY <1>2, AllowPlan, GoodIsTyped DEF PlanItem, AllowIInv, TypeOK, disk, project, history
<1> QED BY <1>1, <1>2

NoSecretAdded == \A k \in Sensitive : env'.vals[k] = "default" => env.vals[k] = "default"

LEMMA AllowWrites ==
  ASSUME AllowIInv, Pull \/ Creating \/ AppendOpens \/ AppendKey \/ AppendKeyFails
  PROVE  AllowIInv' /\ NoSecretAdded /\ ~flags.dry /\ (local' # local => flags.yes)
<1>0. /\ env \in File /\ example \in File /\ plan \in Seq(GoodActions) /\ todo \subseteq Keys
      /\ Sensitive \subseteq Keys /\ env.vals \in [Keys -> Values]
      /\ plan # <<>> =>
           /\ Tail(plan) \in Seq(GoodActions) /\ Tail(plan) \in Seq(Actions)
           /\ Head(plan) \in GoodActions
  BY TailPart, GoodIsTyped, FixAssumption DEF AllowIInv, TypeOK, File
<1>1. CASE Pull
  <2>1. plan # <<>> /\ Head(plan).name \in {Image, Container} /\ pc = "apply"
    BY <1>0, <1>1 DEF Pull, Doing, GoodActions
  <2> QED BY <1>0, <1>1, <2>1 DEF Pull, AllowIInv, TypeOK, project, history, NoSecretAdded
<1>2. CASE CreateTruncates
  BY <1>0, <1>2, NoFileIsFile DEF CreateTruncates, Doing, AllowIInv, TypeOK, project, history, NoSecretAdded
<1>3. CASE CreateWrites \/ CreateWriteFails
  <2> DEFINE copy == EnvFromExample(example)
  <2>1. copy \in File /\ \A k \in Sensitive : copy.vals[k] # "default"
    BY <1>0, CopyIsSafe
  <2> HIDE DEF copy
  <2>2. env' \in {env, copy} \/ env' \in FirstParts(copy)
    BY <1>3 DEF CreateWrites, CreateWriteFails, copy
  <2>3. env' \in File /\ NoSecretAdded
    <3>1. CASE env' \in {env, copy}
      BY <1>0, <2>1, <3>1 DEF NoSecretAdded
    <3>2. CASE env' \in FirstParts(copy)
      BY <1>0, <2>1, <3>2, FirstPartsKeep DEF NoSecretAdded
    <3> QED BY <2>2, <3>1, <3>2
  <2>4. ~flags.dry /\ plan # <<>>
    BY <1>3 DEF CreateWrites, CreateWriteFails, AllowIInv, TypeOK
  <2>5. CASE CreateWrites
    BY <1>0, <2>3, <2>4, <2>5 DEF CreateWrites, AllowIInv, TypeOK, project, history
  <2>6. CASE CreateWriteFails
    BY <1>0, <2>3, <2>4, <2>6 DEF CreateWriteFails, AllowIInv, TypeOK, project, history
  <2> QED BY <1>3, <2>3, <2>4, <2>5, <2>6 DEF CreateWrites, CreateWriteFails
<1>4. CASE AppendOpens
  <2>1. plan # <<>> /\ Head(plan).keys \subseteq Keys
    BY <1>0, <1>4 DEF AppendOpens, Doing, Actions, GoodActions
  <2>2. env' \in File /\ env'.vals = env.vals
    BY <1>0, <1>4 DEF AppendOpens, File
  <2> QED BY <1>0, <1>4, <2>1, <2>2 DEF AppendOpens, Doing, AllowIInv, TypeOK, project, history, NoSecretAdded
<1>5. CASE AppendKey
  <2>1. PICK k \in todo : env' = WithLine(env, k) /\ todo' = todo \ {k}
    BY <1>5 DEF AppendKey
  <2>2. env' \in File /\ NoSecretAdded
    BY <1>0, <2>1, LineIsNoDefault DEF NoSecretAdded
  <2>3. glued' \in BOOLEAN
    BY <1>5 DEF AppendKey
  <2> QED BY <1>0, <1>5, <2>1, <2>2, <2>3 DEF AppendKey, AllowIInv, TypeOK
<1>6. CASE AppendKeyFails
  <2>1. PICK k \in todo : env' \in PartLines(env, k) /\ todo' = todo \ {k}
    BY <1>6 DEF AppendKeyFails
  <2>2. env' \in File /\ NoSecretAdded
    BY <1>0, <2>1, PartIsNoDefault DEF NoSecretAdded
  <2> QED BY <1>0, <1>6, <2>1, <2>2 DEF AppendKeyFails, AllowIInv, TypeOK, project, history
<1> QED BY <1>1, <1>2, <1>3, <1>4, <1>5, <1>6 DEF Creating

LEMMA AllowEdit ==
  ASSUME AllowIInv, NEW k \in Keys, NEW ended \in Ended, Edit(k, ended)
  PROVE  AllowIInv' /\ edits' # edits
<1>1. edits \in 0..MaxEdits /\ env.vals \in [Keys -> Values] /\ ended \in BOOLEAN
  BY FixAssumption DEF AllowIInv, TypeOK, File
<1>2. edits' \in 0..MaxEdits /\ edits' # edits
  BY <1>1, FixAssumption DEF Edit
<1>3. env' \in File
  BY <1>1 DEF Edit, File, Values
<1> QED BY <1>2, <1>3 DEF Edit, AllowIInv, TypeOK, project, history

(* The step relation of OnlyWhatWasAllowed.                                *)
Allowed ==
  /\ flags.dry => UNCHANGED disk
  /\ local' # local => flags.yes
  /\ NoSecretAdded

LEMMA AllowStep ==
  ASSUME AllowIInv, [Next]_vars
  PROVE  AllowIInv' /\ (edits' = edits => Allowed)
<1>0. ASSUME UNCHANGED disk
      PROVE  Allowed
  BY <1>0 DEF Allowed, NoSecretAdded, disk
<1>1. CASE \E f \in Flags : Start(f)
  BY <1>0, <1>1, AllowStart
<1>2. CASE Planning
  BY <1>0, <1>2, AllowQuiet, AllowReading DEF Planning
<1>3. CASE Applying \/ Kill
  <2>1. CASE Pull \/ Creating \/ AppendOpens \/ AppendKey \/ AppendKeyFails
    BY <2>1, AllowWrites DEF Allowed
  <2>2. CASE SkipAction \/ ActionFails \/ AppendDone \/ Finish \/ Kill
    BY <1>0, <2>2, AllowQuiet
  <2> QED BY <1>3, <2>1, <2>2 DEF Applying, Appending
<1>4. CASE \E k \in Keys, ended \in Ended : Edit(k, ended)
  BY <1>4, AllowEdit
<1>5. CASE UNCHANGED vars
  BY <1>0, <1>5 DEF vars, AllowIInv, TypeOK, disk, project, history
<1> QED BY <1>1, <1>2, <1>3, <1>4, <1>5 DEF Next, Command

(* Every variable of `fix safe` keeps its type.                            *)
THEOREM FixTypes == Spec => []TypeOK
<1>1. Init => AllowIInv
  BY AllowInit
<1>2. AllowIInv /\ [Next]_vars => AllowIInv'
  BY AllowStep
<1>3. AllowIInv => TypeOK
  BY DEF AllowIInv
<1> QED BY <1>1, <1>2, <1>3, PTL DEF Spec

(* A dry run changes nothing, nothing is pulled without --yes, and no      *)
(* secret default reaches .env: with any files, failures and kills, and    *)
(* people who edit .env at any time.                                       *)
THEOREM FixOnlyWhatWasAllowed == Spec => OnlyWhatWasAllowed
<1>1. Init => AllowIInv
  BY AllowInit
<1>2. AllowIInv /\ [Next]_vars => AllowIInv'
  BY AllowStep
<1>3. AllowIInv /\ [Next]_vars =>
        [edits' = edits =>
           /\ flags.dry => UNCHANGED disk
           /\ local' # local => flags.yes
           /\ \A k \in Sensitive : env'.vals[k] = "default" => env.vals[k] = "default"]_vars
  BY AllowStep DEF Allowed, NoSecretAdded
<1> QED BY <1>1, <1>2, <1>3, PTL DEF Spec, OnlyWhatWasAllowed
-----------------------------------------------------------------------------
(* A run that exits 0, with people editing at any time.                    *)

(* .env.example gives every declared key, as `snagify init` leaves it.     *)
CompleteExamples ==
  \A f \in Examples : f.exists => MissingIn(f, Required \union Recommended) = {}

Declared == Required \union Recommended

Present(k)    == env.vals[k] # "absent"
Asked(k, q)   == \E i \in 1..Len(q) : q[i].cat = "Env" /\ k \in q[i].keys
Appends(k, q) == \E i \in 1..Len(q) : q[i].id = "append" /\ k \in q[i].keys

(* Where a declared key is while the command runs: in the file, in the     *)
(* report, in the plan or on its way into the file.                        *)
Coming(k) ==
  /\ pc = "plan"      => Present(k) \/ Asked(k, items) \/ Appends(k, plan)
  /\ pc = "apply"     => Present(k) \/ Appends(k, plan)
  /\ pc = "appending" => Present(k) \/ k \in todo \/ Appends(k, Tail(plan))

(* A creation is planned only if there is an example.                     *)
ExampleThere(q) == \A i \in 1..Len(q) : q[i].id = "create" => example.exists

PresentIInv ==
  /\ example \in Examples
  /\ ExampleThere(plan)
  /\ pc = "creating" => example.exists
  /\ pc # "idle" => exit = None
  /\ pc # "idle" /\ ~flags.dry /\ ~errors /\ ~glued => \A k \in Declared : Coming(k)
  /\ SuccessMeansPresent

(* The keys that a plan still appends, after its head or two of them.      *)
LEMMA AppendsTail ==
  ASSUME NEW S, NEW q \in Seq(S), q # <<>>, NEW k
  PROVE  Appends(k, q) => (Head(q).id = "append" /\ k \in Head(q).keys) \/ Appends(k, Tail(q))
<1> SUFFICES ASSUME NEW i \in 1..Len(q), q[i].id = "append", k \in q[i].keys, i # 1
             PROVE  Appends(k, Tail(q))
  BY DEF Appends
<1>1. i - 1 \in 1..Len(Tail(q)) /\ Tail(q)[i - 1] = q[i]
  OBVIOUS
<1> QED BY <1>1 DEF Appends

LEMMA AskedTail ==
  ASSUME NEW S, NEW q \in Seq(S), q # <<>>, NEW k
  PROVE  Asked(k, q) => (Head(q).cat = "Env" /\ k \in Head(q).keys) \/ Asked(k, Tail(q))
<1> SUFFICES ASSUME NEW i \in 1..Len(q), q[i].cat = "Env", k \in q[i].keys, i # 1
             PROVE  Asked(k, Tail(q))
  BY DEF Asked
<1>1. i - 1 \in 1..Len(Tail(q)) /\ Tail(q)[i - 1] = q[i]
  OBVIOUS
<1> QED BY <1>1 DEF Asked

LEMMA AppendsEither ==
  ASSUME NEW S, NEW q \in Seq(S), NEW r \in Seq(S), NEW k, Appends(k, q) \/ Appends(k, r)
  PROVE  Appends(k, q \o r)
<1>1. \A i \in 1..Len(q) : i \in 1..Len(q \o r) /\ (q \o r)[i] = q[i]
  OBVIOUS
<1>2. \A i \in 1..Len(r) : Len(q) + i \in 1..Len(q \o r) /\ (q \o r)[Len(q) + i] = r[i]
  OBVIOUS
<1> QED BY <1>1, <1>2 DEF Appends

LEMMA AskedEither ==
  ASSUME NEW S, NEW q \in Seq(S), NEW r \in Seq(S), NEW k, Asked(k, q) \/ Asked(k, r)
  PROVE  Asked(k, q \o r)
<1>1. \A i \in 1..Len(q) : i \in 1..Len(q \o r) /\ (q \o r)[i] = q[i]
  OBVIOUS
<1>2. \A i \in 1..Len(r) : Len(q) + i \in 1..Len(q \o r) /\ (q \o r)[Len(q) + i] = r[i]
  OBVIOUS
<1> QED BY <1>1, <1>2 DEF Asked

(* Lines are added to a file that ends its last one: nothing is lost.      *)
LEMMA LineAdds ==
  ASSUME NEW f \in File, f.nl, NEW k \in Keys, NEW j \in Keys
  PROVE  /\ f.vals[j] # "absent" => WithLine(f, k).vals[j] # "absent"
         /\ WithLine(f, k).vals[k] # "absent"
BY DEF WithLine, File, Values

(* The report asks for every declared key that .env does not give.         *)
LEMMA CheckAsks ==
  ASSUME AllowIInv, Check, NEW k \in Declared, ~Present(k)
  PROVE  Asked(k, items')
<1>1. PICK docker, running \in BOOLEAN :
        items' = EnvItems(MissingIn(env, Required)) \o EnvItems(MissingIn(env, Recommended))
                   \o (IF docker THEN DockerItems(Image \in local, running) ELSE <<>>)
  BY DEF Check
<1> DEFINE q == EnvItems(MissingIn(env, Required))
           r == EnvItems(MissingIn(env, Recommended))
           t == IF docker THEN DockerItems(Image \in local, running) ELSE <<>>
<1>2. q \in Seq(Items) /\ r \in Seq(Items)
  <2>1. ASSUME NEW keys \in SUBSET Keys PROVE EnvItems(keys) \in Seq(Items)
    <3>1. EnvItem(keys) \in Items
      BY DEF EnvItem, Items
    <3> QED BY <3>1 DEF EnvItems
  <2> QED BY <2>1, FixAssumption DEF MissingIn
<1>3. t \in Seq(Items)
  <2>1. DockerItem(Image) \in Items /\ DockerItem(Container) \in Items
    BY DEF DockerItem, Items
  <2>2. DockerItems(Image \in local, running) \in Seq(Items)
    <3>1. CASE Image \in local
      BY <2>1, <3>1 DEF DockerItems
    <3>2. CASE Image \notin local
      BY <2>1, <3>2 DEF DockerItems
    <3> QED BY <3>1, <3>2
  <2> QED BY <2>2
<1>4. ASSUME NEW keys, k \in MissingIn(env, keys)
      PROVE  Asked(k, EnvItems(MissingIn(env, keys)))
  <2>1. EnvItems(MissingIn(env, keys)) = <<EnvItem(MissingIn(env, keys))>>
    BY <1>4 DEF EnvItems
  <2>2. EnvItem(MissingIn(env, keys)).cat = "Env" /\ k \in EnvItem(MissingIn(env, keys)).keys
    BY <1>4 DEF EnvItem
  <2> HIDE DEF q, r, t
  <2> QED BY <2>1, <2>2 DEF Asked
<1>5. Asked(k, q) \/ Asked(k, r)
  BY <1>4 DEF Declared, MissingIn, Present
<1> HIDE DEF q, r, t
<1>6. q \o r \in Seq(Items) /\ Asked(k, q \o r)
  BY <1>2, <1>5, AskedEither
<1>7. Asked(k, (q \o r) \o t)
  BY <1>3, <1>6, AskedEither
<1>8. items' = (q \o r) \o t
  BY <1>1 DEF q, r, t
<1> QED BY <1>7, <1>8

(* What an item asks for is planned.                                       *)
LEMMA PlanAppends ==
  ASSUME AllowIInv, PlanItem, NEW k, Asked(k, items) \/ Appends(k, plan)
  PROVE  Asked(k, items') \/ Appends(k, plan')
<1> DEFINE new == IF Head(items).cat = "Env" THEN EnvFixes(Head(items).keys)
                                             ELSE DockerFixes(Head(items).name)
<1>1. items # <<>> /\ items \in Seq(Items) /\ plan \in Seq(Actions) /\ items' = Tail(items)
        /\ plan' = plan \o new /\ Head(items) \in Items
  BY DEF PlanItem, AllowIInv, TypeOK
<1>2. new \in Seq(Actions)
  <2>1. /\ CreateAction \in Actions /\ AppendAction(Head(items).keys) \in Actions
        /\ PullAction(Head(items).name) \in Actions
    BY <1>1 DEF CreateAction, AppendAction, PullAction, Actions, Items
  <2> QED BY <2>1 DEF EnvFixes, DockerFixes
<1>3. ASSUME Head(items).cat = "Env", k \in Head(items).keys PROVE Appends(k, new)
  <2> DEFINE a == AppendAction(Head(items).keys)
  <2>1. a.id = "append" /\ k \in a.keys
    BY <1>3 DEF AppendAction
  <2>2. new = <<CreateAction>> \o <<a>> \/ new = <<>> \o <<a>>
    BY <1>3 DEF EnvFixes
  <2>3. new = <<CreateAction, a>> \/ new = <<a>>
    <3> HIDE DEF a, new
    <3> QED BY <2>2
  <2> HIDE DEF a, new
  <2> QED BY <2>1, <2>3 DEF Appends
<1> HIDE DEF new
<1> QED BY <1>1, <1>2, <1>3, AskedTail, AppendsEither

(* A creation is planned only if there is an example.                     *)
LEMMA PlanCreates ==
  ASSUME AllowIInv, PlanItem, ExampleThere(plan)
  PROVE  ExampleThere(plan)'
<1> DEFINE new == IF Head(items).cat = "Env" THEN EnvFixes(Head(items).keys)
                                             ELSE DockerFixes(Head(items).name)
           Good == {a \in Actions : a.id = "create" => example.exists}
<1>1. items # <<>> /\ items \in Seq(Items) /\ plan \in Seq(Actions) /\ example' = example
        /\ plan' = plan \o new /\ Head(items) \in Items
  BY DEF PlanItem, AllowIInv, TypeOK, project, history
<1>2. new \in Seq(Good)
  <2>1. /\ example.exists => CreateAction \in Good
        /\ AppendAction(Head(items).keys) \in Good
        /\ PullAction(Head(items).name) \in Good
    BY <1>1 DEF CreateAction, AppendAction, PullAction, Actions, Items
  <2> HIDE DEF Good
  <2> QED BY <2>1 DEF EnvFixes, DockerFixes
<1>3. plan \in Seq(Good)
  <2>1. \A i \in 1..Len(plan) : plan[i] \in Good
    BY <1>1 DEF ExampleThere
  <2> HIDE DEF Good
  <2> QED BY <1>1, <2>1
<1>4. plan' \in Seq(Good)
  <2> HIDE DEF Good, new
  <2> QED BY <1>1, <1>2, <1>3
<1>5. \A i \in 1..Len(plan') : plan'[i] \in Good
  <2> HIDE DEF Good, new
  <2> QED BY <1>4
<1> QED BY <1>1, <1>5 DEF ExampleThere

LEMMA PresentInit == ASSUME Init PROVE PresentIInv
<1>1. example \in Examples /\ plan = <<>> /\ pc = "idle" /\ exit = None
  BY DEF Init
<1>2. exit # 0
  BY <1>1, FixAssumption
<1> QED BY <1>1, <1>2 DEF PresentIInv, ExampleThere, SuccessMeansPresent

(* A step while the command runs keeps the invariant if it keeps every     *)
(* declared key coming.                                                    *)
LEMMA RunningStep ==
  ASSUME PresentIInv, pc # "idle", pc' # "idle",
         UNCHANGED <<example, flags, exit>>,
         ExampleThere(plan'), pc' = "creating" => example.exists,
         ~flags.dry /\ ~errors' /\ ~glued' => \A k \in Declared : Coming(k)'
  PROVE  PresentIInv'
<1>1. exit' = None /\ exit' # 0
  BY FixAssumption DEF PresentIInv
<1>2. SuccessMeansPresent'
  BY <1>1 DEF SuccessMeansPresent
<1>3. ExampleThere(plan)'
  BY DEF ExampleThere
<1> QED BY <1>1, <1>2, <1>3 DEF PresentIInv

LEMMA StartComes == ASSUME PresentIInv, NEW f \in Flags, Start(f) PROVE PresentIInv'
<1>1. /\ env' = env /\ example' = example /\ plan' = <<>>
      /\ (pc' = "idle" /\ exit' = 2) \/ (pc' = "check" /\ exit' = None)
  BY DEF Start, Stop, disk, project, history
<1>2. exit' # 0
  BY <1>1, FixAssumption
<1> QED BY <1>1, <1>2 DEF PresentIInv, ExampleThere, SuccessMeansPresent, Coming

LEMMA StopComes ==
  ASSUME PresentIInv, AllowIInv, CheckFails \/ Kill \/ Finish
  PROVE  PresentIInv'
<1>1. /\ UNCHANGED <<env, example, plan, flags, errors, glued>> /\ pc' = "idle"
      /\ exit' \in {2, -1} \/ Finish
  BY DEF CheckFails, Kill, Finish, Stop, disk, project, history
<1>2. SuccessMeansPresent'
  <2> SUFFICES ASSUME exit' = 0, ~flags.dry, ~glued PROVE (MissingIn(env, Declared) = {})'
    BY <1>1 DEF SuccessMeansPresent, Declared
  <2>1. pc = "apply" /\ plan = <<>> /\ ~errors
    BY <1>1 DEF Finish, Stop
  <2>2. \A k \in Declared : Present(k)
    BY <2>1 DEF PresentIInv, Coming, Appends
  <2> QED BY <1>1, <2>2 DEF MissingIn, Present
<1>3. ExampleThere(plan)'
  BY <1>1 DEF ExampleThere, PresentIInv
<1> QED BY <1>1, <1>2, <1>3 DEF PresentIInv

LEMMA CheckComes == ASSUME PresentIInv, AllowIInv, Check PROVE PresentIInv'
<1>1. /\ UNCHANGED <<env, example, flags, exit, plan, errors, glued>>
      /\ pc = "check" /\ pc' = "plan"
  BY DEF Check, disk, project, history
<1>2. \A k \in Declared : Coming(k)'
  BY <1>1, CheckAsks DEF Coming, Present
<1>3. ExampleThere(plan')
  BY <1>1 DEF PresentIInv, ExampleThere
<1> QED BY <1>1, <1>2, <1>3, RunningStep

LEMMA PlanComes == ASSUME PresentIInv, AllowIInv, PlanItem \/ PlanDone PROVE PresentIInv'
<1>1. /\ UNCHANGED <<env, example, flags, exit, errors, glued>>
      /\ pc = "plan"
  BY DEF PlanItem, PlanDone, disk, project, history
<1>2. CASE PlanItem
  <2>1. pc' = "plan"
    BY <1>1, <1>2 DEF PlanItem
  <2>2. ~flags.dry /\ ~errors' /\ ~glued' => \A k \in Declared : Coming(k)'
    BY <1>1, <1>2, <2>1, PlanAppends DEF Coming, Present, PresentIInv
  <2>3. ExampleThere(plan)
    BY DEF PresentIInv
  <2>4. ExampleThere(plan)'
    BY <1>2, <2>3, PlanCreates
  <2> QED BY <1>1, <2>1, <2>2, <2>4, RunningStep DEF PresentIInv, ExampleThere
<1>3. CASE PlanDone
  <2>1. pc' = "apply" /\ items = <<>> /\ plan' = plan
    BY <1>3 DEF PlanDone
  <2>2. ~flags.dry /\ ~errors' /\ ~glued' => \A k \in Declared : Coming(k)'
    BY <1>1, <2>1 DEF Coming, Present, PresentIInv, Asked, Appends
  <2>3. ExampleThere(plan')
    BY <1>1, <2>1 DEF PresentIInv
  <2> QED BY <1>1, <2>1, <2>2, <2>3, RunningStep
<1> QED BY <1>2, <1>3

(* The steps that take an action off the plan, having done it.             *)
LEMMA TailComes ==
  ASSUME PresentIInv, AllowIInv, pc # "idle", pc' = "apply", plan # <<>>, plan' = Tail(plan),
         UNCHANGED <<example, flags, exit>>,
         ~flags.dry /\ ~errors' /\ ~glued' =>
            \A k \in Declared : env'.vals[k] # "absent" \/ Appends(k, Tail(plan))
  PROVE  PresentIInv'
<1>1. ExampleThere(plan')
  <2>1. ExampleThere(plan) /\ plan \in Seq(Actions)
    BY DEF PresentIInv, AllowIInv, TypeOK
  <2>2. \A i \in 1..Len(Tail(plan)) : \E j \in 1..Len(plan) : Tail(plan)[i] = plan[j]
    BY <2>1, TailPart
  <2> QED BY <2>1, <2>2 DEF ExampleThere
<1>2. ~flags.dry /\ ~errors' /\ ~glued' => \A k \in Declared : Coming(k)'
  BY DEF Coming, Present, Appends
<1> QED BY <1>1, <1>2, RunningStep

LEMMA HeadComes ==
  ASSUME PresentIInv, AllowIInv, pc = "apply", plan # <<>>, ~flags.dry, ~errors, ~glued,
         NEW k \in Declared
  PROVE  Present(k) \/ (Head(plan).id = "append" /\ k \in Head(plan).keys)
           \/ Appends(k, Tail(plan))
<1>1. plan \in Seq(Actions)
  BY DEF AllowIInv, TypeOK
<1>2. Present(k) \/ Appends(k, plan)
  BY DEF PresentIInv, Coming
<1> QED BY <1>1, <1>2, AppendsTail

LEMMA ApplyComes ==
  ASSUME PresentIInv, AllowIInv, CompleteExamples,
         SkipAction \/ ActionFails \/ Pull \/ CreateWrites \/ CreateWriteFails \/ AppendDone
  PROVE  PresentIInv'
<1>1. /\ plan # <<>> /\ plan' = Tail(plan) /\ pc # "idle" /\ pc' = "apply"
      /\ UNCHANGED <<example, flags, exit, glued>>
  BY DEF SkipAction, ActionFails, Pull, CreateWrites, CreateWriteFails, AppendDone, Doing,
         disk, project, history, AllowIInv, TypeOK
<1>2. CASE SkipAction \/ Pull
  <2>1. /\ pc = "apply" /\ env' = env /\ errors' = errors
        /\ ~flags.dry => Head(plan).id = "pull"
    BY <1>2 DEF SkipAction, Pull, Doing, disk
  <2>2. ~flags.dry /\ ~errors' /\ ~glued' =>
          \A k \in Declared : env'.vals[k] # "absent" \/ Appends(k, Tail(plan))
    BY <1>1, <2>1, HeadComes DEF Present
  <2> QED BY <1>1, <2>1, <2>2, TailComes DEF PresentIInv
<1>3. CASE ActionFails \/ CreateWriteFails
  <2>1. errors' = TRUE
    BY <1>3 DEF ActionFails, CreateWriteFails
  <2> QED BY <1>1, <2>1, TailComes DEF PresentIInv
<1>4. CASE CreateWrites
  <2>1. example \in Examples /\ example.exists /\ env' = EnvFromExample(example)
    BY <1>4 DEF CreateWrites, PresentIInv
  <2>2. \A k \in Declared : k \in Keys /\ example.vals[k] # "absent"
    BY <2>1, FixAssumption DEF CompleteExamples, MissingIn, Declared
  <2>3. example \in File
    BY <2>1, FixAssumption
  <2>4. \A k \in Declared : env'.vals[k] # "absent"
    BY <2>1, <2>2, <2>3 DEF EnvFromExample, File
  <2> QED BY <1>1, <2>4, TailComes
<1>5. CASE AppendDone
  <2>1. pc = "appending" /\ todo = {} /\ env' = env /\ errors' = errors
    BY <1>5 DEF AppendDone, disk
  <2>2. ~flags.dry /\ ~errors' /\ ~glued' =>
          \A k \in Declared : env'.vals[k] # "absent" \/ Appends(k, Tail(plan))
    BY <1>1, <2>1 DEF PresentIInv, Coming, Present
  <2> QED BY <1>1, <2>1, <2>2, TailComes DEF PresentIInv
<1> QED BY <1>2, <1>3, <1>4, <1>5

LEMMA WriteComes ==
  ASSUME PresentIInv, AllowIInv, CreateTruncates \/ AppendOpens \/ AppendKey \/ AppendKeyFails
  PROVE  PresentIInv'
<1>1. /\ UNCHANGED <<example, flags, exit, plan>>
      /\ pc # "idle" /\ pc' # "idle"
  BY DEF CreateTruncates, AppendOpens, AppendKey, AppendKeyFails, Doing, project, history
<1>2. ExampleThere(plan')
  BY <1>1 DEF PresentIInv
<1>3. env \in File /\ todo \subseteq Keys /\ Declared \subseteq Keys
  BY FixAssumption DEF AllowIInv, TypeOK, Declared
<1>4. CASE CreateTruncates
  <2>1. Head(plan) = plan[1] /\ 1 \in 1..Len(plan) /\ Head(plan).id = "create"
          /\ pc' = "creating" /\ env' = Empty
    BY <1>4 DEF CreateTruncates, Doing, AllowIInv, TypeOK
  <2>2. example.exists
    BY <2>1 DEF PresentIInv, ExampleThere
  <2> QED BY <1>1, <1>2, <2>1, <2>2, NoFileIsFile, RunningStep DEF Coming
<1>5. CASE AppendOpens
  <2>1. /\ pc = "apply" /\ plan # <<>> /\ pc' = "appending" /\ todo' = Head(plan).keys
        /\ errors' = errors /\ glued' = glued
        /\ env' = [env EXCEPT !.exists = TRUE]
    BY <1>5 DEF AppendOpens, Doing, project, history
  <2>2. env'.vals = env.vals
    BY <1>3, <2>1 DEF File
  <2>3. ~flags.dry /\ ~errors' /\ ~glued' => \A k \in Declared : Coming(k)'
    BY <1>1, <2>1, <2>2, HeadComes DEF Coming, Present, Appends
  <2> QED BY <1>1, <1>2, <2>1, <2>2, <2>3, RunningStep DEF PresentIInv
<1>6. CASE AppendKey
  <2>1. PICK k \in todo : env' = WithLine(env, k) /\ todo' = todo \ {k}
    BY <1>6 DEF AppendKey
  <2>2. pc = "appending" /\ pc' = "appending" /\ errors' = errors
    BY <1>6 DEF AppendKey
  <2>3. glued' = (glued \/ ~env.nl)
    BY <1>6 DEF AppendKey
  <2>4. ASSUME ~glued'
        PROVE  /\ env'.vals[k] # "absent"
               /\ \A j \in Keys : env.vals[j] # "absent" => env'.vals[j] # "absent"
    BY <1>3, <2>1, <2>3, <2>4, LineAdds
  <2>5. ~flags.dry /\ ~errors' /\ ~glued' => \A j \in Declared : Coming(j)'
    BY <1>1, <1>3, <2>1, <2>2, <2>3, <2>4 DEF Coming, Present, PresentIInv, Appends
  <2> QED BY <1>1, <1>2, <2>2, <2>5, RunningStep
<1>7. CASE AppendKeyFails
  <2>1. errors' = TRUE /\ pc' = "appending"
    BY <1>7 DEF AppendKeyFails
  <2> QED BY <1>1, <1>2, <2>1, RunningStep DEF PresentIInv
<1> QED BY <1>4, <1>5, <1>6, <1>7

(* A person adds a value, at any time.                                     *)
LEMMA EditComes ==
  ASSUME PresentIInv, AllowIInv, NEW k \in Keys, NEW ended \in Ended,
         Edit(k, ended)
  PROVE  PresentIInv'
<1>1. env.vals \in [Keys -> Values] /\ Declared \subseteq Keys
  BY FixAssumption DEF AllowIInv, TypeOK, File, Declared
<1>2. /\ UNCHANGED <<example, pc, flags, items, plan, todo, errors, glued, exit>>
      /\ \A j \in Keys : env.vals[j] # "absent" => env'.vals[j] # "absent"
  BY <1>1 DEF Edit, project, history
<1>3. SuccessMeansPresent'
  BY <1>1, <1>2 DEF SuccessMeansPresent, PresentIInv, MissingIn, Declared
<1>4. ASSUME NEW j \in Declared, Coming(j) PROVE Coming(j)'
  BY <1>1, <1>2, <1>4 DEF Coming, Present, Asked, Appends
<1>5. pc' # "idle" /\ ~flags'.dry /\ ~errors' /\ ~glued' => \A j \in Declared : Coming(j)'
  BY <1>2, <1>4 DEF PresentIInv
<1>6. ExampleThere(plan)'
  BY <1>2 DEF PresentIInv, ExampleThere
<1> QED BY <1>2, <1>3, <1>5, <1>6 DEF PresentIInv

LEMMA PresentStep ==
  ASSUME PresentIInv, AllowIInv, CompleteExamples, [Next]_vars
  PROVE  PresentIInv'
<1>1. CASE \E f \in Flags : Start(f)
  BY <1>1, StartComes
<1>2. CASE Planning
  BY <1>2, StopComes, CheckComes, PlanComes DEF Planning
<1>3. CASE Applying \/ Kill
  BY <1>3, ApplyComes, WriteComes, StopComes DEF Applying, Creating, Appending
<1>4. CASE \E k \in Keys, ended \in Ended : Edit(k, ended)
  BY <1>4, EditComes
<1>5. CASE UNCHANGED vars
  BY <1>5 DEF vars, disk, project, history, PresentIInv, SuccessMeansPresent, ExampleThere, Coming,
              Present, Asked, Appends, MissingIn
<1> QED BY <1>1, <1>2, <1>3, <1>4, <1>5 DEF Next, Command

(* A run of `fix safe` that exits 0 and glued nothing has left every       *)
(* declared key in .env, whatever earlier runs, writes that broke off and  *)
(* kills left behind and whoever edits .env meanwhile: for every set of    *)
(* keys and every .env, provided that .env.example gives every declared    *)
(* key.                                                                    *)
THEOREM FixSuccessMeansPresent ==
  ASSUME CompleteExamples
  PROVE  Spec => []SuccessMeansPresent
<1>1. Init => AllowIInv /\ PresentIInv
  BY AllowInit, PresentInit
<1>2. AllowIInv /\ PresentIInv /\ [Next]_vars => AllowIInv' /\ PresentIInv'
  BY AllowStep, PresentStep
<1>3. PresentIInv => SuccessMeansPresent
  BY DEF PresentIInv
<1> QED BY <1>1, <1>2, <1>3, PTL DEF Spec
-----------------------------------------------------------------------------
(* Fixing is idempotent.                                                   *)

(* After a run that exited 0 there is nothing left to ask for, to plan or  *)
(* to write.                                                               *)
SettledIInv ==
  settled =>
    /\ MissingIn(env, Declared) = {}
    /\ pc \notin {"creating", "appending"}
    /\ pc # "idle" =>
         /\ \A i \in 1..Len(items) : items[i].cat = "Docker"
         /\ \A i \in 1..Len(plan) : plan[i].id = "pull"

LEMMA SettledStart ==
  ASSUME SettledIInv, NEW f \in Flags, Start(f)
  PROVE  SettledIInv' /\ UNCHANGED env
<1>1. /\ UNCHANGED <<env, settled>> /\ items' = <<>> /\ plan' = <<>>
      /\ pc' \in {"idle", "check"}
  BY DEF Start, Stop, disk, project, history
<1> QED BY <1>1 DEF SettledIInv, MissingIn, Declared

(* Nothing is missing, so that the report speaks of Docker alone.          *)
LEMMA SettledCheck ==
  ASSUME SettledIInv, Check
  PROVE  SettledIInv' /\ UNCHANGED env
<1>1. UNCHANGED <<env, settled, plan>> /\ pc = "check" /\ pc' = "plan"
  BY DEF Check, disk, project, history
<1>2. ASSUME settled
      PROVE  \A i \in 1..Len(items') : items'[i].cat = "Docker"
  <2>1. PICK docker, running \in BOOLEAN :
          items' = EnvItems(MissingIn(env, Required)) \o EnvItems(MissingIn(env, Recommended))
                     \o (IF docker THEN DockerItems(Image \in local, running) ELSE <<>>)
    BY DEF Check
  <2> DEFINE OfDocker == {m \in Items : m.cat = "Docker"}
             t == IF docker THEN DockerItems(Image \in local, running) ELSE <<>>
  <2>2. MissingIn(env, Required) = {} /\ MissingIn(env, Recommended) = {}
    BY <1>2 DEF SettledIInv, MissingIn, Declared
  <2>3. EnvItems(MissingIn(env, Required)) = <<>> /\ EnvItems(MissingIn(env, Recommended)) = <<>>
    BY <2>2 DEF EnvItems
  <2>4. t \in Seq(OfDocker)
    <3>1. DockerItem(Image) \in OfDocker /\ DockerItem(Container) \in OfDocker
      BY DEF DockerItem, Items
    <3> HIDE DEF OfDocker
    <3>2. CASE Image \in local
      BY <3>1, <3>2 DEF DockerItems
    <3>3. CASE Image \notin local
      BY <3>1, <3>3 DEF DockerItems
    <3> QED BY <3>2, <3>3
  <2>5. items' = <<>> \o <<>> \o t
    BY <2>1, <2>3
  <2>6. items' = t
    <3> HIDE DEF OfDocker, t
    <3> QED BY <2>4, <2>5
  <2>7. \A i \in 1..Len(items') : items'[i] \in OfDocker
    <3> HIDE DEF OfDocker, t
    <3> QED BY <2>4, <2>6
  <2> QED BY <2>7
<1> QED BY <1>1, <1>2 DEF SettledIInv, MissingIn, Declared

(* What Docker is asked for is pulled.                                     *)
LEMMA SettledPlan ==
  ASSUME AllowIInv, SettledIInv, PlanItem
  PROVE  SettledIInv' /\ UNCHANGED env
<1>1. /\ UNCHANGED <<env, settled, pc>> /\ pc = "plan"
      /\ items # <<>> /\ items \in Seq(Items) /\ plan \in Seq(Actions)
      /\ items' = Tail(items)
  BY DEF PlanItem, disk, project, history, AllowIInv, TypeOK
<1>2. ASSUME settled
      PROVE  \A i \in 1..Len(items') : items'[i].cat = "Docker"
  BY <1>1, <1>2, TailPart DEF SettledIInv
<1>3. ASSUME settled
      PROVE  \A i \in 1..Len(plan') : plan'[i].id = "pull"
  <2>1. Head(items) = items[1] /\ 1 \in 1..Len(items)
    BY <1>1
  <2>2. Head(items).cat = "Docker"
    BY <1>1, <1>3, <2>1 DEF SettledIInv
  <2> DEFINE a == PullAction(Head(items).name)
  <2>3. plan' = plan \o <<a>>
    BY <2>2 DEF PlanItem, DockerFixes
  <2>4. a.id = "pull" /\ \A i \in 1..Len(plan) : plan[i].id = "pull"
    BY <1>1, <1>3 DEF PullAction, SettledIInv
  <2> HIDE DEF a
  <2>5. /\ Len(plan') = Len(plan) + 1 /\ Len(plan) \in Nat
        /\ plan'[Len(plan) + 1] = a
        /\ \A i \in 1..Len(plan) : plan'[i] = plan[i]
    BY <1>1, <2>3
  <2> QED BY <2>4, <2>5
<1> QED BY <1>1, <1>2, <1>3 DEF SettledIInv, MissingIn, Declared

(* The plan has pulls alone, so that no write to .env is begun.            *)
LEMMA SettledWrites ==
  ASSUME AllowIInv, SettledIInv, settled
  PROVE  ~(Creating \/ Appending)
<1>1. ASSUME NEW id \in {"create", "append"} PROVE ~Doing(id)
  <2> SUFFICES ASSUME Doing(id) PROVE FALSE
    OBVIOUS
  <2>1. pc = "apply" /\ Head(plan) = plan[1] /\ 1 \in 1..Len(plan) /\ Head(plan).id = id
    BY DEF Doing, AllowIInv, TypeOK
  <2> QED BY <2>1 DEF SettledIInv
<1>2. ~CreateTruncates /\ ~AppendOpens
  BY <1>1 DEF CreateTruncates, AppendOpens
<1>3. pc \notin {"creating", "appending"}
  BY DEF SettledIInv
<1> QED BY <1>2, <1>3 DEF Creating, Appending, CreateWrites, CreateWriteFails, AppendKey,
          AppendKeyFails, AppendDone

(* The steps that leave .env alone.                                        *)
LEMMA SettledQuiet ==
  ASSUME AllowIInv, SettledIInv,
         CheckFails \/ PlanDone \/ SkipAction \/ ActionFails \/ Pull \/ Kill
  PROVE  SettledIInv' /\ UNCHANGED env
<1>1. /\ UNCHANGED <<env, settled, items>> /\ pc # "idle"
      /\ plan' = plan \/ (plan # <<>> /\ plan' = Tail(plan))
      /\ pc' \in {"idle", "apply"}
  BY DEF CheckFails, PlanDone, SkipAction, ActionFails, Pull, Kill, Stop, Doing, disk, project, history
<1>2. ASSUME settled
      PROVE  \A i \in 1..Len(plan') : plan'[i].id = "pull"
  <2>1. plan \in Seq(Actions) /\ \A i \in 1..Len(plan) : plan[i].id = "pull"
    BY <1>1, <1>2 DEF AllowIInv, TypeOK, SettledIInv
  <2> QED BY <1>1, <2>1, TailPart
<1> QED BY <1>1, <1>2 DEF SettledIInv, MissingIn, Declared

(* A run that exits 0 leaves nothing missing.                              *)
LEMMA SettledFinish ==
  ASSUME SettledIInv, SuccessMeansPresent', Finish
  PROVE  SettledIInv' /\ UNCHANGED env
<1>1. env' = env /\ pc' = "idle" /\ flags' = flags /\ glued' = glued
  BY DEF Finish, Stop, disk
<1>2. settled' => settled \/ (exit' = 0 /\ ~flags'.dry /\ ~glued')
  <2>1. settled' = (settled \/ ~(errors \/ flags.dry \/ glued))
        /\ exit' = (IF errors THEN 2 ELSE 0)
    BY DEF Finish, Stop
  <2> QED BY <1>1, <2>1
<1>3. settled' => (MissingIn(env, Declared) = {})'
  BY <1>1, <1>2 DEF SuccessMeansPresent, SettledIInv, MissingIn, Declared
<1> QED BY <1>1, <1>3 DEF SettledIInv

(* A person only adds to the keys that .env has.                           *)
LEMMA SettledEdit ==
  ASSUME AllowIInv, SettledIInv, NEW k \in Keys, NEW ended \in Ended, Edit(k, ended)
  PROVE  SettledIInv' /\ edits' # edits
<1>1. env.vals \in [Keys -> Values] /\ Declared \subseteq Keys /\ edits \in Int
  BY FixAssumption DEF AllowIInv, TypeOK, File, Declared
<1>2. /\ UNCHANGED <<settled, pc, items, plan>>
      /\ \A j \in Keys : env.vals[j] # "absent" => env'.vals[j] # "absent"
  BY <1>1 DEF Edit, project, history
<1>3. edits' # edits
  BY <1>1 DEF Edit
<1> QED BY <1>1, <1>2, <1>3 DEF SettledIInv, MissingIn, Declared

LEMMA SettledStep ==
  ASSUME AllowIInv, SettledIInv, SuccessMeansPresent', [Next]_vars
  PROVE  SettledIInv' /\ (settled /\ edits' = edits => UNCHANGED env)
<1>1. CASE \E f \in Flags : Start(f)
  BY <1>1, SettledStart
<1>2. CASE Planning
  BY <1>2, SettledCheck, SettledPlan, SettledQuiet DEF Planning
<1>3. CASE Creating \/ Appending
  <2>1. ~settled
    BY <1>3, SettledWrites
  <2>2. settled' = settled
    BY <1>3 DEF Creating, Appending, CreateTruncates, CreateWrites, CreateWriteFails,
                AppendOpens, AppendKey, AppendKeyFails, AppendDone, project, history
  <2> QED BY <2>1, <2>2 DEF SettledIInv
<1>4. CASE SkipAction \/ ActionFails \/ Pull \/ Kill
  BY <1>4, SettledQuiet
<1>5. CASE Finish
  BY <1>5, SettledFinish
<1>6. CASE \E k \in Keys, ended \in Ended : Edit(k, ended)
  BY <1>6, SettledEdit
<1>7. CASE UNCHANGED vars
  BY <1>7 DEF vars, disk, project, history, SettledIInv, MissingIn, Declared
<1> QED BY <1>1, <1>2, <1>3, <1>4, <1>5, <1>6, <1>7 DEF Next, Command, Applying

(* Once a run of `fix safe` has exited 0 and glued nothing, no later run   *)
(* touches .env, with whatever flags and however it ends: under the        *)
(* assumption of FixSuccessMeansPresent, with people editing at any time.  *)
THEOREM FixFixedStaysFixed ==
  ASSUME CompleteExamples
  PROVE  Spec => FixedStaysFixed
<1>1. Init => AllowIInv /\ PresentIInv /\ SettledIInv
  BY AllowInit, PresentInit DEF Init, SettledIInv
<1>2. AllowIInv /\ PresentIInv /\ SettledIInv /\ [Next]_vars =>
        /\ AllowIInv' /\ PresentIInv' /\ SettledIInv'
        /\ [settled /\ edits' = edits => UNCHANGED env]_vars
  <2> SUFFICES ASSUME AllowIInv, PresentIInv, SettledIInv, [Next]_vars
               PROVE  /\ AllowIInv' /\ PresentIInv' /\ SettledIInv'
                      /\ (settled /\ edits' = edits => UNCHANGED env)
    OBVIOUS
  <2>1. AllowIInv' /\ PresentIInv'
    BY AllowStep, PresentStep
  <2>2. SuccessMeansPresent'
    BY <2>1 DEF PresentIInv
  <2> QED BY <2>1, <2>2, SettledStep
<1> QED BY <1>1, <1>2, PTL DEF Spec, FixedStaysFixed
=============================================================================
