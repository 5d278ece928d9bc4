--------------------------- MODULE ProbeRunProofs ---------------------------
(***************************************************************************)
(* The exit code and the warnings of a probe run tell what the services    *)
(* said, and no probe outlasts its budget, for any configuration, any      *)
(* number of probes, any answers in any pieces, and servers that come and  *)
(* go.                                                                     *)
(***************************************************************************)
EXTENDS ProbeRun, SequenceTheorems, TLAPS

Stages == {"idle", "dial", "lookup", "request", "verify", "inspect", "read", "header", "body"}

(* Where the probe of p can be, and after what was said.                   *)
StageFits(p, where, s) ==
  CASE where = "dial"    -> s = <<>> /\ p.kind \in {"tcp"} \union Databases
    [] where = "lookup"  -> s = <<>> /\ p.kind = "dns"
    [] where = "request" -> s = <<>> /\ p.kind = "http"
    [] where = "verify"  -> s = <<>> /\ p.kind = "tls"
    [] where = "inspect" -> s \in {<<>>, <<"untrusted">>} /\ p.kind = "tls"
    [] where = "read"    -> p.kind \in {"postgres", "redis"}
    [] where = "header"  -> p.kind = "mysql"
    [] where = "body"    -> p.kind = "mysql" /\ Len(s) >= HeaderLen /\ Plausible(s[1])

(* The items that are critical, whatever the thresholds.                   *)
Critical(p, r) ==
  CASE p.kind = "tls"  -> IF r.handshake /\ r.hostname THEN r.expired ELSE p.required
    [] p.kind = "dns"  -> ~r.reachable
    [] p.kind = "http" -> ~r.handshake /\ p.required
    [] OTHER           -> ~r.reachable /\ p.required

Missed(p, s) == (p.required \/ p.kind = "dns") /\ ~Served(p, s)

(* The results that say that a service does what is asked.                 *)
Well(p, r) ==
  CASE p.kind = "tls"  -> r.handshake /\ r.hostname /\ ~r.expired
    [] p.kind = "http" -> r.handshake
    [] OTHER           -> r.reachable

(* What else a good result says is what was heard, too.                    *)
Exact(p, r, s) ==
  CASE p.kind = "tls"   -> r.handshake /\ r.hostname =>
                             ~r.expired /\ r.days = Certificate[p.host].days
    [] p.kind = "redis" -> r.reachable => (r.handshake <=> SaysPong(s))
    [] p.kind \in {"postgres", "mysql"} -> r.reachable => r.handshake
    [] OTHER            -> TRUE

(* What a result makes of the service is what was heard of it.             *)
Fits(p, r, s) == (Well(p, r) <=> Served(p, s)) /\ Exact(p, r, s)

(* The waits that have been entered, the current one included.             *)
RoundOf(where) ==
  CASE where \in {"dial", "lookup", "request", "verify"} -> 1
    [] where \in {"inspect", "read", "header"} -> 2
    [] where = "body" -> 3

ProbeTypes ==
  /\ main \in {"config", "probing", "exited"}
  /\ flags \in CommandLines /\ cfg \in Configs
  /\ stage \in Stages
  /\ left \in Nat /\ spent \in Nat
  /\ said \in Seq(Sayings) /\ script \in Seq(Tokens)
  /\ results \in Seq(Result) /\ heard \in Seq(Seq(Sayings))
  /\ Len(heard) = Len(results) /\ Len(results) <= Len(Plan)

InProgress ==
  /\ main # "probing" => stage = "idle"
  /\ stage = "idle" => said = <<>> /\ spent = 0
  /\ stage # "idle" =>
       /\ Len(results) < Len(Plan)
       /\ StageFits(Probe, stage, said)
       /\ spent + left <= RoundOf(stage) * Timeout(Probe)

ResultsFit == \A i \in 1..Len(results) : Fits(Plan[i], results[i], heard[i])

ProbeIInv ==
  /\ ProbeTypes /\ InProgress /\ ResultsFit
  /\ main # "exited" => verdicts = <<>>
  /\ ExitCodeTells
-----------------------------------------------------------------------------
(* The probes and their timeouts.                                          *)

LEMMA PlanIsPlan ==
  ASSUME flags \in CommandLines, cfg \in Configs
  PROVE  /\ Plan \in Seq(ProbeSpace) /\ Len(Plan) \in Nat
         /\ \A i \in 1..Len(Plan) : Plan[i] \in ProbeSpace /\ Plan[i].kind \in Kinds
<1>1. \A k \in Kinds : cfg[k] \in Seq(ProbeSpace)
  BY ProbeAssumption DEF ConfigSpace
<1>2. {"tcp", "dns", "http", "tls", "postgres", "mysql", "redis"} \subseteq Kinds
  BY DEF Kinds
<1> DEFINE net1 == IF flags.noNetwork THEN <<>> ELSE cfg["dns"] \o cfg["http"]
           tls1 == IF flags.noTLS THEN <<>> ELSE cfg["tls"]
<1>3. net1 \in Seq(ProbeSpace) /\ tls1 \in Seq(ProbeSpace)
  BY <1>1, <1>2
<1>4. Plan = cfg["tcp"] \o net1 \o tls1 \o cfg["postgres"] \o cfg["mysql"] \o cfg["redis"]
  BY DEF Plan
<1> HIDE DEF net1, tls1
<1>5. Plan \in Seq(ProbeSpace)
  BY <1>1, <1>2, <1>3, <1>4
<1>6. \A i \in 1..Len(Plan) : Plan[i] \in ProbeSpace
  BY <1>5
<1>7. \A q \in ProbeSpace : q.kind \in Kinds
  BY DEF ProbeSpace
<1> QED
  BY <1>5, <1>6, <1>7

LEMMA TimeoutIsNat ==
  ASSUME flags \in CommandLines, NEW q \in ProbeSpace
  PROVE  Timeout(q) \in Nat
<1>1. flags.timeout \in Int /\ q.timeout \in Nat /\ TwoSeconds \in Nat
  BY ProbeAssumption DEF FlagSpace, ProbeSpace
<1> QED
  BY <1>1 DEF Timeout, DefaultTimeout

LEMMA SamePlan ==
  ASSUME UNCHANGED <<flags, cfg>>
  PROVE  Plan' = Plan /\ \A q : Timeout(q)' = Timeout(q)
BY DEF Plan, Timeout, DefaultTimeout

(* Before the report there is nothing to be told.                          *)
LEMMA NothingReported ==
  ASSUME Plan' \in Seq(ProbeSpace), verdicts' = <<>>
  PROVE  ExitCodeTells'
BY DEF ExitCodeTells, Reported

LEMMA CriticalIsCritical ==
  ASSUME NEW q \in ProbeSpace, NEW r \in Result
  PROVE  CheckProbe(q, r) = "critical" <=> Critical(q, r)
<1>1. q.kind \in Kinds /\ q.required \in BOOLEAN
  BY DEF ProbeSpace
<1> QED
  BY <1>1 DEF CheckProbe, Critical, CheckTLSResult, CheckDBResult, Severity, Kinds, Databases

LEMMA FitsCritical ==
  ASSUME NEW q \in ProbeSpace, NEW r \in Result, NEW s, Fits(q, r, s)
  PROVE  Critical(q, r) <=> Missed(q, s)
<1>1. q.kind \in Kinds /\ q.required \in BOOLEAN
  BY DEF ProbeSpace
<1>2. /\ r.reachable \in BOOLEAN /\ r.handshake \in BOOLEAN
      /\ r.hostname \in BOOLEAN /\ r.expired \in BOOLEAN
  BY DEF Result
<1>3. (Well(q, r) <=> Served(q, s)) /\ Exact(q, r, s)
  BY DEF Fits
<1>4. CASE q.kind = "tls"
  BY <1>1, <1>2, <1>3, <1>4 DEF Critical, Missed, Well, Exact
<1>5. CASE q.kind = "dns"
  BY <1>1, <1>2, <1>3, <1>5 DEF Critical, Missed, Well
<1>6. CASE q.kind = "http"
  BY <1>1, <1>2, <1>3, <1>6 DEF Critical, Missed, Well
<1>7. CASE q.kind \in {"tcp", "postgres", "mysql", "redis"}
  BY <1>1, <1>2, <1>3, <1>7 DEF Critical, Missed, Well
<1> QED
  BY <1>1, <1>4, <1>5, <1>6, <1>7 DEF Kinds
-----------------------------------------------------------------------------
(* The steps.                                                              *)

(* What is known while a probe is under way.                               *)
LEMMA Current ==
  ASSUME ProbeIInv, stage # "idle"
  PROVE  /\ Plan \in Seq(ProbeSpace) /\ Probe \in ProbeSpace /\ Probe.kind \in Kinds
         /\ Timeout(Probe) \in Nat /\ Len(results) \in Nat /\ Len(results) < Len(Plan)
         /\ StageFits(Probe, stage, said) /\ main = "probing" /\ verdicts = <<>>
         /\ said \in Seq(Sayings)
<1>1. /\ Len(results) < Len(Plan) /\ Len(results) \in Nat /\ StageFits(Probe, stage, said)
      /\ main = "probing" /\ verdicts = <<>>
      /\ said \in Seq(Sayings) /\ flags \in CommandLines /\ cfg \in Configs
  BY DEF ProbeIInv, InProgress, ProbeTypes
<1>2. Plan \in Seq(ProbeSpace) /\ Len(Plan) \in Nat
      /\ \A i \in 1..Len(Plan) : Plan[i] \in ProbeSpace /\ Plan[i].kind \in Kinds
  BY <1>1, PlanIsPlan
<1>3. Len(results) + 1 \in 1..Len(Plan)
  BY <1>1, <1>2
<1>4. Probe \in ProbeSpace /\ Probe.kind \in Kinds
  BY <1>2, <1>3 DEF Probe
<1> QED
  BY <1>1, <1>2, <1>4, TimeoutIsNat

(* A probe ends with a result that fits what was said.                     *)
LEMMA Concluding ==
  ASSUME ProbeIInv, stage # "idle", NEW r \in Result, NEW s \in Seq(Sayings), Conclude(r, s),
         Fits(Probe, r, s)
  PROVE  ProbeIInv'
<1>1. /\ results' = Append(results, r) /\ heard' = Append(heard, s)
      /\ stage' = "idle" /\ left' = 0 /\ spent' = 0 /\ said' = <<>> /\ script' = <<>>
      /\ UNCHANGED <<main, code, flags, cfg, verdicts>>
  BY DEF Conclude, Probing
<1>2. Plan' = Plan
  BY <1>1, SamePlan
<1>3. results \in Seq(Result) /\ heard \in Seq(Seq(Sayings)) /\ Len(heard) = Len(results)
  BY DEF ProbeIInv, ProbeTypes
<1>4. /\ results' \in Seq(Result) /\ heard' \in Seq(Seq(Sayings))
      /\ Len(results') = Len(results) + 1 /\ Len(heard') = Len(results) + 1
      /\ \A i \in 1..Len(results) : results'[i] = results[i] /\ heard'[i] = heard[i]
      /\ results'[Len(results) + 1] = r /\ heard'[Len(results) + 1] = s
  BY <1>1, <1>3
<1>5. ProbeTypes'
  <2>1. Len(results') <= Len(Plan)
    BY <1>4, Current
  <2>2. 0 \in Nat /\ <<>> \in Seq(Sayings) /\ <<>> \in Seq(Tokens) /\ "idle" \in Stages
    BY DEF Stages
  <2> QED
    BY <1>1, <1>2, <1>4, <2>1, <2>2 DEF ProbeIInv, ProbeTypes
<1>6. InProgress'
  BY <1>1 DEF InProgress
<1>7. ResultsFit'
  <2>1. ASSUME NEW i \in 1..Len(results')
        PROVE  Fits(Plan[i], results'[i], heard'[i])
    <3>1. CASE i = Len(results) + 1
      BY <1>4, <3>1 DEF Probe
    <3>2. CASE i # Len(results) + 1
      <4>1. i \in 1..Len(results)
        BY <1>3, <1>4, <3>2
      <4> QED
        BY <1>4, <4>1 DEF ProbeIInv, ResultsFit
    <3> QED
      BY <3>1, <3>2
  <2> QED
    BY <1>2, <2>1 DEF ResultsFit
<1>8. (main # "exited" => verdicts = <<>>)' /\ ExitCodeTells'
  <2>1. verdicts' = <<>> /\ Plan' \in Seq(ProbeSpace)
    BY <1>1, <1>2, Current
  <2> QED
    BY <2>1, NothingReported
<1> QED
  BY <1>5, <1>6, <1>7, <1>8 DEF ProbeIInv

(* A probe goes on, to another wait or within this one.                    *)
LEMMA GoingOn ==
  ASSUME ProbeIInv, stage # "idle", stage' \in Stages, stage' # "idle",
         UNCHANGED <<main, code, flags, cfg, verdicts, results, heard>>,
         left' \in Nat, spent' \in Nat, said' \in Seq(Sayings), script' \in Seq(Tokens),
         StageFits(Probe, stage', said'),
         spent' + left' <= RoundOf(stage') * Timeout(Probe)
  PROVE  ProbeIInv'
<1>1. Plan' = Plan /\ Probe' = Probe /\ Timeout(Probe)' = Timeout(Probe)
  BY SamePlan DEF Probe
<1>2. ProbeTypes'
  BY <1>1 DEF ProbeIInv, ProbeTypes
<1>3. InProgress'
  <2>1. main' = "probing" /\ Len(results') < Len(Plan')
    BY <1>1, Current
  <2> QED
    BY <1>1, <2>1 DEF InProgress
<1>4. ResultsFit'
  BY <1>1 DEF ProbeIInv, ResultsFit
<1>5. (main # "exited" => verdicts = <<>>)' /\ ExitCodeTells'
  <2>1. verdicts' = <<>> /\ Plan' \in Seq(ProbeSpace)
    BY <1>1, Current
  <2> QED
    BY <2>1, NothingReported
<1> QED
  BY <1>2, <1>3, <1>4, <1>5 DEF ProbeIInv

(* The next round begins with a full timeout.                              *)
LEMMA NextRound ==
  ASSUME ProbeIInv, stage # "idle", NEW where \in Stages, where # "idle", Enter(where),
         RoundOf(where) = RoundOf(stage) + 1, UNCHANGED spent
  PROVE  left' \in Nat /\ spent' \in Nat /\ spent' + left' <= RoundOf(where) * Timeout(Probe)
<1>1. spent \in Nat /\ left \in Nat /\ spent + left <= RoundOf(stage) * Timeout(Probe)
  BY DEF ProbeIInv, ProbeTypes, InProgress
<1>2. left' = Timeout(Probe) /\ Timeout(Probe) \in Nat
  BY Current DEF Enter
<1>3. RoundOf(stage) \in {1, 2, 3}
  BY DEF RoundOf, Stages, ProbeIInv, ProbeTypes
<1>4. CASE RoundOf(stage) = 1
  BY <1>1, <1>2, <1>4
<1>5. CASE RoundOf(stage) = 2
  BY <1>1, <1>2, <1>5
<1>6. CASE RoundOf(stage) = 3
  BY <1>1, <1>2, <1>6
<1> QED
  BY <1>3, <1>4, <1>5, <1>6

(* What results say.                                                       *)
LEMMA ResultsAreResults ==
  /\ Down \in Result /\ Down.reachable = FALSE /\ Down.handshake = FALSE
  /\ Up \in Result /\ Up.reachable = TRUE /\ Up.handshake = TRUE
  /\ Gated \in Result /\ Gated.reachable = TRUE /\ Gated.handshake = FALSE
BY DEF Down, Up, Gated, Outcome, Result

LEMMA StatusResult ==
  ASSUME NEW b \in BOOLEAN
  PROVE  Outcome(TRUE, b) \in Result /\ Outcome(TRUE, b).handshake = b
BY DEF Outcome, Result

LEMMA TLSResult ==
  ASSUME NEW h \in Hosts, NEW b \in BOOLEAN
  PROVE  /\ Shown(Certificate[h], b) \in Result
         /\ Shown(Certificate[h], b).handshake = TRUE
         /\ Shown(Certificate[h], b).hostname = b
         /\ Shown(Certificate[h], b).expired = Certificate[h].expired
         /\ Shown(Certificate[h], b).days = Certificate[h].days
<1>1. Certificate[h].expired \in BOOLEAN /\ Certificate[h].days \in Int
  BY ProbeAssumption DEF CertSpace
<1> QED
  BY <1>1 DEF Shown, Result

(* When a result fits, for each kind of probe.                             *)
LEMMA FitsMeans ==
  ASSUME NEW q \in ProbeSpace, NEW r \in Result, NEW s
  PROVE  /\ q.kind = "tcp" /\ (r.reachable <=> s # <<>>) => Fits(q, r, s)
         /\ q.kind = "dns" /\ (r.reachable <=> s # <<>>) => Fits(q, r, s)
         /\ q.kind = "http" /\ (r.handshake <=> s = <<ExpectedStatus(q)>>) => Fits(q, r, s)
         /\ q.kind = "tls" /\ s = <<"trusted">> /\ r.handshake /\ r.hostname /\ ~r.expired
                /\ r.days = Certificate[q.host].days => Fits(q, r, s)
         /\ q.kind = "tls" /\ s # <<"trusted">> /\ ~(r.handshake /\ r.hostname) => Fits(q, r, s)
         /\ q.kind = "redis" /\ (r.reachable <=> s # <<>>)
                /\ (r.reachable => (r.handshake <=> SaysPong(s))) => Fits(q, r, s)
         /\ q.kind = "postgres" /\ (r.reachable <=> (s # <<>> /\ s[1] \in {"S", "N"}))
                /\ (r.reachable => r.handshake) => Fits(q, r, s)
         /\ q.kind = "mysql" /\ (r.reachable <=> (Len(s) >= 3 /\ s[3] = "v10" /\ Plausible(s[1])))
                /\ (r.reachable => r.handshake) => Fits(q, r, s)
<1>1. q.required \in BOOLEAN
  BY DEF ProbeSpace
<1>2. CASE q.kind = "tcp"
  BY <1>1, <1>2 DEF Fits, Well, Exact, Served
<1>3. CASE q.kind = "dns"
  BY <1>1, <1>3 DEF Fits, Well, Exact, Served
<1>4. CASE q.kind = "http"
  BY <1>1, <1>4 DEF Fits, Well, Exact, Served
<1>5. CASE q.kind = "tls"
  BY <1>1, <1>5 DEF Fits, Well, Exact, Served
<1>6. CASE q.kind = "redis"
  BY <1>1, <1>6 DEF Fits, Well, Exact, Served
<1>7. CASE q.kind = "postgres"
  BY <1>1, <1>7 DEF Fits, Well, Exact, Served
<1>8. CASE q.kind = "mysql"
  BY <1>1, <1>8 DEF Fits, Well, Exact, Served
<1> QED
  BY <1>2, <1>3, <1>4, <1>5, <1>6, <1>7, <1>8

LEMMA OneSaid ==
  ASSUME NEW S, NEW t \in S
  PROVE  <<t>> \in Seq(S) /\ <<t>> # <<>>
<1>1. <<t>> \in Seq(S)
  OBVIOUS
<1>2. Len(<<t>>) = 1 /\ Len(<<>>) = 0
  OBVIOUS
<1> QED
  BY <1>1, <1>2

LEMMA LiteralsSaid ==
  /\ <<"accepted">> \in Seq(Sayings) /\ <<"accepted">> # <<>>
  /\ <<"address">> \in Seq(Sayings) /\ <<"address">> # <<>>
  /\ <<"trusted">> \in Seq(Sayings) /\ <<"untrusted">> \in Seq(Sayings)
<1>1. {"accepted", "address", "trusted", "untrusted"} \subseteq Sayings
  BY DEF Sayings
<1> QED
  BY <1>1, OneSaid

(* A single wait: dial of a TCP probe, lookup, request, verification.      *)
LEMMA ConnectingEnds ==
  ASSUME ProbeIInv, stage # "idle",
         \/ stage = "dial" /\ Probe.kind = "tcp" /\ Conclude(Up, <<"accepted">>)
         \/ WriteFails \/ LookedUp \/ Responds \/ VerifiedHandshake \/ Inspected
         \/ /\ stage \in {"dial", "lookup", "request", "inspect"}
            /\ Conclude(Down, said)
  PROVE  ProbeIInv'
<1>0. Probe \in ProbeSpace /\ Probe.host \in Hosts /\ StageFits(Probe, stage, said)
      /\ said \in Seq(Sayings)
  BY Current DEF ProbeSpace
<1>1. CASE stage = "dial" /\ Probe.kind = "tcp" /\ Conclude(Up, <<"accepted">>)
  <2> DEFINE s == <<"accepted">>
  <2>1. s \in Seq(Sayings) /\ s # <<>> /\ Conclude(Up, s)
    BY <1>1, LiteralsSaid
  <2> HIDE DEF s
  <2>2. Fits(Probe, Up, s)
    BY <1>0, <1>1, <2>1, FitsMeans, ResultsAreResults
  <2> QED
    BY <2>1, <2>2, Concluding, ResultsAreResults
<1>2. CASE WriteFails
  <2>1. Fits(Probe, Down, <<>>) /\ <<>> \in Seq(Sayings)
    BY <1>0, <1>2, FitsMeans, ResultsAreResults DEF WriteFails
  <2> QED
    BY <1>2, <2>1, Concluding, ResultsAreResults DEF WriteFails
<1>3. CASE LookedUp
  <2>1. Probe.kind = "dns"
    BY <1>0, <1>3 DEF LookedUp, StageFits
  <2> DEFINE s == <<"address">>
  <2>2. s \in Seq(Sayings) /\ s # <<>> /\ Conclude(Up, s)
    BY <1>3, LiteralsSaid DEF LookedUp
  <2> HIDE DEF s
  <2>3. Fits(Probe, Up, s)
    BY <1>0, <2>1, <2>2, FitsMeans, ResultsAreResults
  <2> QED
    BY <2>2, <2>3, Concluding, ResultsAreResults
<1>4. CASE Responds
  <2>1. Probe.kind = "http"
    BY <1>0, <1>4 DEF Responds, StageFits
  <2>2. PICK status \in Statuses[Probe.host] :
          Conclude(Outcome(TRUE, status = ExpectedStatus(Probe)), <<status>>)
    BY <1>4 DEF Responds
  <2>3. <<status>> \in Seq(Sayings)
    BY <1>0, OneSaid DEF Sayings
  <2> DEFINE b == status = ExpectedStatus(Probe)
             q == Outcome(TRUE, b)
  <2>4. q \in Result /\ (q.handshake <=> b)
    BY StatusResult
  <2>5. <<status>> = <<ExpectedStatus(Probe)>> <=> b
    OBVIOUS
  <2>6. Conclude(q, <<status>>)
    BY <2>2
  <2> HIDE DEF q, b
  <2>7. Fits(Probe, q, <<status>>)
    BY <1>0, <2>1, <2>4, <2>5, FitsMeans
  <2> QED
    BY <2>3, <2>4, <2>6, <2>7, Concluding
<1>5. CASE VerifiedHandshake
  <2>1. Probe.kind = "tls" /\ Certificate[Probe.host].expired = FALSE
    <3>1. Certificate[Probe.host].expired \in BOOLEAN
      BY <1>0, ProbeAssumption DEF CertSpace
    <3> QED
      BY <1>0, <1>5, <3>1 DEF VerifiedHandshake, Trusted, StageFits
  <2> DEFINE q == Shown(Certificate[Probe.host], TRUE)
  <2>2. q \in Result /\ q.handshake /\ q.hostname /\ ~q.expired
        /\ q.days = Certificate[Probe.host].days
    BY <1>0, <2>1, TLSResult
  <2> DEFINE s == <<"trusted">>
  <2>3. s \in Seq(Sayings)
    BY LiteralsSaid
  <2>4. Conclude(q, s) /\ s = <<"trusted">>
    BY <1>5 DEF VerifiedHandshake
  <2> HIDE DEF q, s
  <2>5. Fits(Probe, q, s)
    BY <1>0, <2>1, <2>2, <2>4, FitsMeans
  <2> QED
    BY <2>2, <2>3, <2>4, <2>5, Concluding
<1>6. CASE Inspected
  <2>1. Probe.kind = "tls" /\ said \in {<<>>, <<"untrusted">>}
    BY <1>0, <1>6 DEF Inspected, StageFits
  <2>2. said # <<"trusted">>
    BY <2>1
  <2> DEFINE q == Shown(Certificate[Probe.host], FALSE)
  <2>3. q \in Result /\ ~q.hostname
    BY <1>0, TLSResult
  <2>4. Conclude(q, said)
    BY <1>6 DEF Inspected
  <2> HIDE DEF q
  <2>5. Fits(Probe, q, said)
    BY <1>0, <2>1, <2>2, <2>3, FitsMeans
  <2> QED
    BY <1>0, <2>3, <2>4, <2>5, Concluding
<1>7. CASE stage \in {"dial", "lookup", "request", "inspect"} /\ Conclude(Down, said)
  <2>1. Fits(Probe, Down, said)
    <3>1. CASE stage = "inspect"
      <4>1. Probe.kind = "tls" /\ said \in {<<>>, <<"untrusted">>}
        BY <1>0, <3>1 DEF StageFits
      <4>2. said # <<"trusted">>
        BY <4>1
      <4> QED
        BY <1>0, <4>1, <4>2, FitsMeans, ResultsAreResults
    <3>2. CASE stage # "inspect"
      <4>1. said = <<>> /\ Probe.kind \in {"tcp", "dns", "http", "postgres", "mysql", "redis"}
        BY <1>0, <1>7, <3>2 DEF StageFits, Databases
      <4>2. said # <<ExpectedStatus(Probe)>> /\ ~(Len(said) >= 3)
        BY <4>1
      <4> QED
        BY <1>0, <4>1, <4>2, FitsMeans, ResultsAreResults
    <3> QED
      BY <3>1, <3>2
  <2> QED
    BY <1>0, <1>7, <2>1, Concluding, ResultsAreResults
<1> QED
  BY <1>1, <1>2, <1>3, <1>4, <1>5, <1>6, <1>7

(* The second wait begins: of a database, or the second handshake.         *)
LEMMA WaitingAgain ==
  ASSUME ProbeIInv, stage # "idle", NEW where \in {"inspect", "read", "header", "body"},
         Enter(where), RoundOf(where) = RoundOf(stage) + 1,
         UNCHANGED <<main, code, flags, cfg, verdicts, results, heard, spent>>,
         said' \in Seq(Sayings), script' \in Seq(Tokens), StageFits(Probe, where, said')
  PROVE  ProbeIInv'
<1>1. where \in Stages /\ where # "idle"
  BY DEF Stages
<1>2. left' \in Nat /\ spent' \in Nat /\ spent' + left' <= RoundOf(where) * Timeout(Probe)
  BY <1>1, NextRound
<1>3. stage' = where
  BY DEF Enter
<1> QED
  BY <1>1, <1>2, <1>3, GoingOn

LEMMA DatabaseAnswers ==
  ASSUME ProbeIInv, stage # "idle", Accepted
  PROVE  ProbeIInv'
<1>0. Probe \in ProbeSpace /\ Probe.host \in Hosts /\ StageFits(Probe, stage, said)
      /\ said \in Seq(Sayings)
  BY Current DEF ProbeSpace
<1>1. CASE Probe.kind = "tcp"
  BY <1>1, ConnectingEnds DEF Accepted
<1>2. CASE Probe.kind # "tcp"
  <2>1. /\ stage = "dial" /\ script' \in Answers[Probe.host]
        /\ Enter(IF Probe.kind = "mysql" THEN "header" ELSE "read")
        /\ UNCHANGED <<main, code, flags, cfg, verdicts, results, heard, spent, said>>
    BY <1>2 DEF Accepted, Probing, found
  <2>2. script' \in Seq(Tokens) /\ said' \in Seq(Sayings) /\ said' = <<>>
    BY <1>0, <2>1, ProbeAssumption DEF StageFits
  <2>3. Probe.kind \in Databases
    BY <1>0, <1>2, <2>1 DEF StageFits
  <2>4. CASE Probe.kind = "mysql"
    <3>1. Enter("header") /\ RoundOf("header") = RoundOf(stage) + 1
      BY <2>1, <2>4 DEF RoundOf
    <3>2. StageFits(Probe, "header", said')
      BY <2>4 DEF StageFits
    <3> QED
      BY <2>1, <2>2, <3>1, <3>2, WaitingAgain
  <2>5. CASE Probe.kind # "mysql"
    <3>1. Enter("read") /\ RoundOf("read") = RoundOf(stage) + 1
      BY <2>1, <2>5 DEF RoundOf
    <3>2. StageFits(Probe, "read", said')
      BY <2>3, <2>5 DEF StageFits, Databases
    <3> QED
      BY <2>1, <2>2, <3>1, <3>2, WaitingAgain
  <2> QED
    BY <2>4, <2>5
<1> QED
  BY <1>1, <1>2

LEMMA LooksAgain ==
  ASSUME ProbeIInv, stage = "verify", Enter("inspect"), said' \in {<<>>, <<"untrusted">>},
         UNCHANGED <<main, code, flags, cfg, verdicts, results, heard, spent, script>>
  PROVE  ProbeIInv'
<1>1. Probe.kind = "tls" /\ script' \in Seq(Tokens)
  BY Current DEF StageFits, ProbeIInv, ProbeTypes
<1>2. said' \in Seq(Sayings)
  <2>1. <<>> \in Seq(Sayings)
    OBVIOUS
  <2> QED
    BY <2>1, LiteralsSaid
<1>3. RoundOf("inspect") = RoundOf(stage) + 1
  BY DEF RoundOf
<1>4. StageFits(Probe, "inspect", said')
  BY <1>1 DEF StageFits
<1> QED
  BY <1>1, <1>2, <1>3, <1>4, WaitingAgain

LEMMA ConnectingKeeps ==
  ASSUME ProbeIInv, stage # "idle", Connecting
  PROVE  ProbeIInv'
<1>1. CASE Accepted
  BY <1>1, DatabaseAnswers
<1>2. CASE WriteFails \/ LookedUp \/ Responds \/ VerifiedHandshake \/ Inspected
  BY <1>2, ConnectingEnds
<1>3. CASE VerificationFails
  BY <1>3, LooksAgain DEF VerificationFails, Probing, found
<1>4. CASE NoConnection
  <2>1. CASE stage = "verify"
    <3>1. said = <<>>
      BY <2>1, Current DEF StageFits
    <3>2. Enter("inspect") /\ said' = said
          /\ UNCHANGED <<main, code, flags, cfg, verdicts, results, heard, spent, script>>
      BY <1>4, <2>1 DEF NoConnection, Probing, found
    <3> QED
      BY <2>1, <3>1, <3>2, LooksAgain
  <2>2. CASE stage # "verify"
    <3>1. stage \in {"dial", "lookup", "request", "inspect"} /\ Conclude(Down, said)
      BY <1>4, <2>2 DEF NoConnection
    <3> QED
      BY <3>1, ConnectingEnds
  <2> QED
    BY <2>1, <2>2
<1> QED
  BY <1>1, <1>2, <1>3, <1>4 DEF Connecting
-----------------------------------------------------------------------------
(* Reading.                                                                *)

LEMMA SaysKeeps ==
  ASSUME ProbeIInv, stage # "idle", Says
  PROVE  ProbeIInv'
<1>1. /\ stage \in {"read", "header", "body"} /\ script # <<>>
      /\ said' = Append(said, Head(script)) /\ script' = Tail(script)
      /\ UNCHANGED <<main, code, flags, cfg, verdicts, results, heard, stage, left, spent>>
  BY DEF Says, Reading, Probing, found
<1>2. script \in Seq(Tokens) /\ said \in Seq(Sayings) /\ stage \in Stages
      /\ left \in Nat /\ spent \in Nat /\ spent + left <= RoundOf(stage) * Timeout(Probe)
  BY DEF ProbeIInv, ProbeTypes, InProgress
<1>3. Head(script) \in Sayings /\ script' \in Seq(Tokens)
  BY <1>1, <1>2 DEF Sayings
<1>4. said' \in Seq(Sayings) /\ Len(said') = Len(said) + 1
      /\ \A i \in 1..Len(said) : said'[i] = said[i]
  BY <1>1, <1>2, <1>3
<1>5. StageFits(Probe, stage, said')
  <2>1. StageFits(Probe, stage, said)
    BY Current
  <2>2. CASE stage # "body"
    BY <1>1, <2>1, <2>2 DEF StageFits
  <2>3. CASE stage = "body"
    <3>1. Probe.kind = "mysql" /\ Len(said) >= 2 /\ Plausible(said[1]) /\ Len(said) \in Nat
      BY <1>2, <2>1, <2>3 DEF StageFits, HeaderLen
    <3>2. said'[1] = said[1] /\ Len(said') >= 2
      BY <1>4, <3>1
    <3> QED
      BY <2>3, <3>1, <3>2 DEF StageFits, HeaderLen
  <2> QED
    BY <2>2, <2>3
<1> QED
  BY <1>1, <1>2, <1>3, <1>4, <1>5, GoingOn

ReadResult(cut) ==
  CASE stage = "header" -> Down
    [] stage = "body"   -> MySQLResult(Body)
    [] Probe.kind = "postgres" -> PostgresResult(said, cut)
    [] OTHER -> RedisResult(said, cut)

LEMMA TakeIsReadResult ==
  ASSUME NEW cut \in BOOLEAN, Take(cut), ~(stage = "header" /\ ~cut /\ Plausible(said[1]))
  PROVE  Conclude(ReadResult(cut), said)
BY Zenon DEF Take, ReadResult

(* What follows the header.                                                *)
LEMMA AfterHeader ==
  ASSUME NEW S, NEW s \in Seq(S), Len(s) >= 2
  PROVE  /\ SubSeq(s, 3, Len(s)) \in Seq(S)
         /\ Len(SubSeq(s, 3, Len(s))) = Len(s) - 2
         /\ Len(s) >= 3 => SubSeq(s, 3, Len(s))[1] = s[3]
<1> DEFINE n == Len(s)
<1>1. n \in Nat /\ n >= 2 /\ 3 \in Int /\ n \in Int
  OBVIOUS
<1>2. \A i \in 3..n : s[i] \in S
  OBVIOUS
<1> HIDE DEF n
<1>3. SubSeq(s, 3, n) \in Seq(S)
  BY <1>1, <1>2, SubSeqProperties
<1>4. Len(SubSeq(s, 3, n)) = IF 3 <= n THEN n-3+1 ELSE 0
  BY <1>1, <1>2, SubSeqProperties
<1>5. \A i \in 1..n-3+1 : SubSeq(s, 3, n)[i] = s[3+i-1]
  BY <1>1, <1>2, SubSeqProperties
<1>6. Len(SubSeq(s, 3, n)) = n - 2
  BY <1>1, <1>4
<1>7. n >= 3 => SubSeq(s, 3, n)[1] = s[3]
  BY <1>1, <1>5
<1> QED
  BY <1>3, <1>6, <1>7 DEF n

LEMMA WantIsNat ==
  ASSUME ProbeIInv, Reading
  PROVE  Want \in Nat /\ Len(said) \in Nat
<1>1. stage # "idle"
  BY DEF Reading
<1>2. StageFits(Probe, stage, said) /\ said \in Seq(Sayings) /\ MaxDBRead \in Nat
  BY <1>1, Current, ProbeAssumption
<1>3. stage = "body" => PayloadLen[said[1]] \in Nat
  BY <1>2 DEF StageFits, Plausible
<1> QED
  BY <1>2, <1>3 DEF Want, HeaderLen

(* What a complete or a cut read comes to.                                 *)
LEMMA TakeKeeps ==
  ASSUME ProbeIInv, stage # "idle", NEW cut \in BOOLEAN, Reading, Take(cut),
         cut <=> Len(said) < Want
  PROVE  ProbeIInv'
<1>0. Probe \in ProbeSpace /\ StageFits(Probe, stage, said) /\ said \in Seq(Sayings)
      /\ Len(said) \in Nat
  BY Current
<1>1. MaxDBRead \in Nat \ {0} /\ script \in Seq(Tokens)
  BY ProbeAssumption DEF ProbeIInv, ProbeTypes
<1>2. CASE stage = "header"
  <2>0. Probe.kind = "mysql" /\ (cut <=> Len(said) < 2)
    BY <1>0, <1>2 DEF StageFits, Want, HeaderLen
  <2>1. CASE ~cut /\ Plausible(said[1])
    <3>1. Enter("body") /\ UNCHANGED <<main, code, flags, cfg, verdicts, results, heard,
                                       spent, said, script>>
      BY <1>2, <2>1 DEF Take, Probing, found
    <3>2. StageFits(Probe, "body", said')
      BY <1>0, <2>0, <2>1, <3>1 DEF StageFits, HeaderLen
    <3>3. RoundOf("body") = RoundOf(stage) + 1
      BY <1>2 DEF RoundOf
    <3> QED
      BY <1>0, <1>1, <3>1, <3>2, <3>3, WaitingAgain
  <2>2. CASE cut \/ ~Plausible(said[1])
    <3>0. Conclude(ReadResult(cut), said)
      BY <2>2, TakeIsReadResult
    <3>1. Conclude(Down, said)
      <4>1. ReadResult(cut) = Down
        BY <1>2, <2>0 DEF ReadResult
      <4> QED
        BY <3>0, <4>1
    <3>2. ~(Len(said) >= 3 /\ Plausible(said[1]))
      BY <1>0, <2>0, <2>2
    <3>3. Fits(Probe, Down, said)
      BY <1>0, <2>0, <3>2, FitsMeans, ResultsAreResults
    <3> QED
      BY <1>0, <3>1, <3>3, Concluding, ResultsAreResults
  <2> QED
    BY <2>1, <2>2
<1>3. CASE stage = "body"
  <2>0. Probe.kind = "mysql" /\ Len(said) >= 2 /\ Plausible(said[1])
    BY <1>0, <1>3 DEF StageFits, HeaderLen
  <2>1. Conclude(MySQLResult(Body), said)
    <3>1. Conclude(ReadResult(cut), said)
      BY <1>3, TakeIsReadResult
    <3>2. ReadResult(cut) = MySQLResult(Body)
      BY <1>3, <2>0 DEF ReadResult
    <3> QED
      BY <3>1, <3>2
  <2>2. Body \in Seq(Sayings) /\ Len(Body) = Len(said) - 2
        /\ (Len(said) >= 3 => Body[1] = said[3])
    <3>1. Body = SubSeq(said, 3, Len(said)) /\ \A i \in 3..Len(said) : said[i] \in Sayings
      BY <1>0 DEF Body, HeaderLen
    <3> QED
      BY <1>0, <2>0, <3>1, AfterHeader
  <2>3. Body # <<>> <=> Len(said) >= 3
    BY <1>0, <2>0, <2>2
  <2>4. MySQLResult(Body) = IF Len(said) >= 3 /\ said[3] = "v10" THEN Up ELSE Down
    BY <2>2, <2>3 DEF MySQLResult
  <2>5. CASE Len(said) >= 3 /\ said[3] = "v10"
    <3>1. Fits(Probe, Up, said)
      BY <1>0, <2>0, <2>5, FitsMeans, ResultsAreResults
    <3> QED
      BY <1>0, <2>1, <2>4, <2>5, <3>1, Concluding, ResultsAreResults
  <2>6. CASE ~(Len(said) >= 3 /\ said[3] = "v10")
    <3>1. Fits(Probe, Down, said)
      BY <1>0, <2>0, <2>6, FitsMeans, ResultsAreResults
    <3> QED
      BY <1>0, <2>1, <2>4, <2>6, <3>1, Concluding, ResultsAreResults
  <2> QED
    BY <2>5, <2>6
<1>4. CASE stage = "read" /\ Probe.kind = "postgres"
  <2>1. Conclude(PostgresResult(said, cut), said) /\ (cut <=> Len(said) < 1)
    BY <1>4 DEF Take, Want
  <2>2. cut <=> said = <<>>
    BY <1>0, <2>1
  <2>3. CASE said # <<>> /\ said[1] \in {"S", "N"}
    <3>1. Fits(Probe, Up, said)
      BY <1>0, <1>4, <2>3, FitsMeans, ResultsAreResults
    <3>2. PostgresResult(said, cut) = Up
      BY <2>2, <2>3 DEF PostgresResult
    <3> QED
      BY <1>0, <2>1, <3>1, <3>2, Concluding, ResultsAreResults
  <2>4. CASE ~(said # <<>> /\ said[1] \in {"S", "N"})
    <3>1. Fits(Probe, Down, said)
      BY <1>0, <1>4, <2>4, FitsMeans, ResultsAreResults
    <3>2. PostgresResult(said, cut) = Down
      BY <2>2, <2>4 DEF PostgresResult
    <3> QED
      BY <1>0, <2>1, <3>1, <3>2, Concluding, ResultsAreResults
  <2> QED
    BY <2>3, <2>4
<1>5. CASE stage = "read" /\ Probe.kind = "redis"
  <2>1. Conclude(RedisResult(said, cut), said) /\ (cut <=> Len(said) < MaxDBRead)
    BY <1>5 DEF Take, Want
  <2>2. said = <<>> => cut
    BY <1>0, <1>1, <2>1
  <2>3. CASE said = <<>>
    <3>1. Fits(Probe, Down, said)
      BY <1>0, <1>5, <2>3, FitsMeans, ResultsAreResults
    <3>2. RedisResult(said, cut) = Down
      BY <2>2, <2>3 DEF RedisResult
    <3> QED
      BY <1>0, <2>1, <3>1, <3>2, Concluding, ResultsAreResults
  <2>4. CASE said # <<>>
    <3> DEFINE q == IF SaysPong(said) THEN Up ELSE Gated
    <3>1. RedisResult(said, cut) = q
      BY <2>4 DEF RedisResult
    <3>2. q \in Result /\ q.reachable /\ (q.handshake <=> SaysPong(said))
      BY ResultsAreResults
    <3> HIDE DEF q
    <3>3. Fits(Probe, q, said)
      BY <1>0, <1>5, <2>4, <3>2, FitsMeans
    <3> QED
      BY <1>0, <2>1, <3>1, <3>2, <3>3, Concluding
  <2> QED
    BY <2>3, <2>4
<1> QED
  BY <1>0, <1>2, <1>3, <1>4, <1>5 DEF Reading, StageFits

LEMMA TickKeeps ==
  ASSUME ProbeIInv, Tick
  PROVE  ProbeIInv'
<1>1. /\ stage # "idle" /\ left > 0 /\ left' = left - 1 /\ spent' = spent + 1
      /\ UNCHANGED <<main, code, flags, cfg, verdicts, results, heard, stage, said, script>>
  BY DEF Tick, Probing, found
<1>2. left \in Nat /\ spent \in Nat /\ stage \in Stages /\ script \in Seq(Tokens)
      /\ spent + left <= RoundOf(stage) * Timeout(Probe)
  BY <1>1 DEF ProbeIInv, ProbeTypes, InProgress
<1>3. left' \in Nat /\ spent' \in Nat /\ spent' + left' = spent + left
  BY <1>1, <1>2
<1>4. StageFits(Probe, stage', said') /\ said' \in Seq(Sayings)
  BY <1>1, Current
<1> QED
  BY <1>1, <1>2, <1>3, <1>4, GoingOn
-----------------------------------------------------------------------------
(* The command.                                                            *)

LEMMA InitKeeps ==
  ASSUME Init
  PROVE  ProbeIInv
<1>1. /\ main = "config" /\ stage = "idle" /\ left = 0 /\ spent = 0 /\ said = <<>>
      /\ script = <<>> /\ results = <<>> /\ heard = <<>> /\ verdicts = <<>>
      /\ flags \in CommandLines /\ cfg \in Configs
  BY DEF Init
<1>2. Plan \in Seq(ProbeSpace) /\ Len(Plan) \in Nat
  BY <1>1, PlanIsPlan
<1>3. ProbeTypes
  BY <1>1, <1>2 DEF ProbeTypes, Stages
<1>4. InProgress /\ ResultsFit
  BY <1>1 DEF InProgress, ResultsFit
<1>5. ExitCodeTells
  BY <1>1, <1>2 DEF ExitCodeTells, Reported
<1> QED
  BY <1>1, <1>3, <1>4, <1>5 DEF ProbeIInv

LEMMA LoadConfigKeeps ==
  ASSUME ProbeIInv, LoadConfig
  PROVE  ProbeIInv'
<1>1. /\ main = "config" /\ main' \in {"exited", "probing"} /\ stage = "idle" /\ verdicts = <<>>
      /\ UNCHANGED <<flags, cfg, stage, left, spent, said, script, results, heard, verdicts>>
  BY DEF LoadConfig, ExitWith, probing, found, ProbeIInv, InProgress
<1>2. Plan' = Plan
  BY <1>1, SamePlan
<1>3. ProbeTypes' /\ InProgress' /\ ResultsFit'
  BY <1>1, <1>2 DEF ProbeIInv, ProbeTypes, InProgress, ResultsFit
<1>4. Plan \in Seq(ProbeSpace)
  BY PlanIsPlan DEF ProbeIInv, ProbeTypes
<1>5. verdicts' = <<>> /\ ExitCodeTells'
  BY <1>1, <1>2, <1>4, NothingReported
<1> QED
  BY <1>3, <1>5 DEF ProbeIInv

LEMMA BeginKeeps ==
  ASSUME ProbeIInv, Begin
  PROVE  ProbeIInv'
<1>1. /\ main = "probing" /\ Len(results) < Len(Plan) /\ Enter(FirstStage(Probe.kind))
      /\ spent' = 0 /\ said' = <<>> /\ script' = <<>>
      /\ UNCHANGED <<main, code, flags, cfg, results, heard, verdicts>>
  BY DEF Begin, found
<1>2. Plan \in Seq(ProbeSpace) /\ Len(Plan) \in Nat
      /\ \A i \in 1..Len(Plan) : Plan[i] \in ProbeSpace /\ Plan[i].kind \in Kinds
  BY PlanIsPlan DEF ProbeIInv, ProbeTypes
<1>3. Plan' = Plan /\ Probe' = Probe /\ Timeout(Probe)' = Timeout(Probe)
  BY <1>1, SamePlan DEF Probe
<1>4. Probe \in ProbeSpace /\ Probe.kind \in Kinds /\ Timeout(Probe) \in Nat
  <2>1. Len(results) \in Nat /\ flags \in CommandLines
    BY DEF ProbeIInv, ProbeTypes
  <2>2. Probe \in ProbeSpace /\ Probe.kind \in Kinds
    BY <1>1, <1>2, <2>1 DEF Probe
  <2> QED
    BY <2>1, <2>2, TimeoutIsNat
<1>5. left' = Timeout(Probe) /\ stage' = FirstStage(Probe.kind)
  BY <1>1 DEF Enter
<1>6. FirstStage(Probe.kind) \in {"dial", "lookup", "request", "verify"}
      /\ StageFits(Probe, FirstStage(Probe.kind), <<>>)
  BY <1>4 DEF FirstStage, StageFits, Kinds, Databases
<1>7. stage' \in Stages /\ stage' # "idle" /\ RoundOf(stage') = 1
  BY <1>5, <1>6 DEF Stages, RoundOf
<1>8. ProbeTypes'
  <2>1. left' \in Nat /\ spent' \in Nat /\ said' \in Seq(Sayings) /\ script' \in Seq(Tokens)
    BY <1>1, <1>4, <1>5
  <2> QED
    BY <1>1, <1>3, <1>7, <2>1 DEF ProbeIInv, ProbeTypes
<1>9. InProgress'
  <2>1. StageFits(Probe', stage', said')
    BY <1>1, <1>3, <1>5, <1>6
  <2>2. spent' + left' <= RoundOf(stage') * Timeout(Probe)
    BY <1>1, <1>4, <1>5, <1>7
  <2> QED
    BY <1>1, <1>3, <1>7, <2>1, <2>2 DEF InProgress
<1>10. ResultsFit'
  BY <1>1, <1>3 DEF ProbeIInv, ResultsFit
<1>11. (main # "exited" => verdicts = <<>>)' /\ ExitCodeTells'
  BY <1>1, <1>2, <1>3, NothingReported DEF ProbeIInv
<1> QED
  BY <1>8, <1>9, <1>10, <1>11 DEF ProbeIInv

LEMMA ReportKeeps ==
  ASSUME ProbeIInv, Report
  PROVE  ProbeIInv'
<1> DEFINE v == [i \in 1..Len(Plan) |-> CheckProbe(Plan[i], results[i])]
<1>1. /\ stage = "idle" /\ Len(results) = Len(Plan) /\ main' = "exited" /\ verdicts' = v
      /\ code' = IF ~flags.format THEN 2
                 ELSE IF \E i \in 1..Len(Plan) : v[i] = "critical" THEN 1 ELSE 0
      /\ UNCHANGED <<flags, cfg, stage, left, spent, said, script, results, heard>>
  BY DEF Report, ExitWith, probing, found
<1>2. Plan' = Plan
  BY <1>1, SamePlan
<1>3. ProbeTypes' /\ InProgress' /\ ResultsFit'
  BY <1>1, <1>2 DEF ProbeIInv, ProbeTypes, InProgress, ResultsFit
<1>4. \A i \in 1..Len(Plan) : v[i] = "critical" <=> Missed(Plan[i], heard[i])
  <2>1. ASSUME NEW i \in 1..Len(Plan)
        PROVE  v[i] = "critical" <=> Missed(Plan[i], heard[i])
    <3>1. v[i] = CheckProbe(Plan[i], results[i])
      BY <2>1
    <3>2. Plan[i] \in ProbeSpace
      BY <2>1, PlanIsPlan DEF ProbeIInv, ProbeTypes
    <3>3. results[i] \in Result /\ Fits(Plan[i], results[i], heard[i])
      BY <1>1, <2>1 DEF ProbeIInv, ProbeTypes, ResultsFit
    <3> QED
      BY <3>1, <3>2, <3>3, CriticalIsCritical, FitsCritical
  <2> QED
    BY <2>1
<1> HIDE DEF v
<1>5. ExitCodeTells'
  BY <1>1, <1>2, <1>4 DEF ExitCodeTells, Reported, Missed
<1> QED
  BY <1>1, <1>3, <1>5 DEF ProbeIInv

LEMMA IdleKeeps ==
  ASSUME ProbeIInv, UNCHANGED <<main, code, flags, cfg, probing, found, verdicts>>
  PROVE  ProbeIInv'
<1>1. UNCHANGED <<main, code, flags, cfg, stage, left, spent, said, script, results, heard, verdicts>>
  BY DEF probing, found
<1>2. Plan' = Plan /\ Probe' = Probe /\ \A q : Timeout(q)' = Timeout(q)
  BY <1>1, SamePlan DEF Probe
<1>3. ProbeTypes' /\ InProgress' /\ ResultsFit'
  BY <1>1, <1>2 DEF ProbeIInv, ProbeTypes, InProgress, ResultsFit
<1>4. ExitCodeTells'
  BY <1>1, <1>2 DEF ProbeIInv, ExitCodeTells, Reported
<1> QED
  BY <1>1, <1>3, <1>4 DEF ProbeIInv

(* A probe is under way whenever a server, the network or the clock acts.  *)
LEMMA NextKeeps ==
  ASSUME ProbeIInv, [Next]_vars
  PROVE  ProbeIInv'
<1>1. CASE LoadConfig
  BY <1>1, LoadConfigKeeps
<1>2. CASE Begin
  BY <1>2, BeginKeeps
<1>3. CASE Report
  BY <1>3, ReportKeeps
<1>4. CASE Connecting
  <2>1. stage # "idle"
    BY <1>4 DEF Connecting, Accepted, WriteFails, LookedUp, Responds, VerifiedHandshake,
                VerificationFails, Inspected, NoConnection
  <2> QED
    BY <1>4, <2>1, ConnectingKeeps
<1>5. CASE Says
  BY <1>5, SaysKeeps DEF Says, Reading
<1>6. CASE ReadComplete \/ ReadCut
  <2>1. stage # "idle" /\ Reading
    BY <1>6 DEF ReadComplete, ReadCut, Reading
  <2>2. CASE ReadComplete
    <3>1. Take(FALSE) /\ Len(said) >= Want /\ Want \in Nat /\ Len(said) \in Nat
      BY <2>1, <2>2, WantIsNat DEF ReadComplete
    <3>2. FALSE <=> Len(said) < Want
      BY <3>1
    <3> QED
      BY <2>1, <3>1, <3>2, TakeKeeps
  <2>3. CASE ReadCut
    BY <2>1, <2>3, TakeKeeps DEF ReadCut
  <2> QED
    BY <1>6, <2>2, <2>3
<1>7. CASE Tick
  BY <1>7, TickKeeps
<1>8. CASE (\E h \in Hosts : NetChanges(h)) \/ UNCHANGED vars
  BY <1>8, IdleKeeps DEF NetChanges, vars
<1> QED
  BY <1>1, <1>2, <1>3, <1>4, <1>5, <1>6, <1>7, <1>8 DEF Next
-----------------------------------------------------------------------------
(* The invariant: the wait of a probe fits its kind, and every result fits *)
(* what was heard of its service.                                          *)
THEOREM ProbeInvariant == Spec => []ProbeIInv
<1>1. Init => ProbeIInv
  BY InitKeeps
<1>2. ProbeIInv /\ [Next]_vars => ProbeIInv'
  BY NextKeeps
<1> QED
  BY <1>1, <1>2, PTL DEF Spec

(* Exit code 1 means that a service that must be there did not do what the *)
(* configuration asks, 0 that all did: for any probes, timeouts, answers,  *)
(* pieces, and moments at which a server goes away (report.Failed).        *)
THEOREM ProbeExitCode == Spec => []ExitCodeTells
<1>1. ProbeIInv => ExitCodeTells
  BY DEF ProbeIInv
<1> QED
  BY <1>1, ProbeInvariant, PTL
-----------------------------------------------------------------------------
(* The verdicts.                                                           *)

SeveritySpace == {"none", "warning", "critical"}

(* The items are those of the results, once they have been made.           *)
VerdictsFollow ==
  \/ verdicts = <<>>
  \/ /\ Len(results) = Len(Plan)
     /\ verdicts = [i \in 1..Len(Plan) |-> CheckProbe(Plan[i], results[i])]

OtherTypes ==
  /\ code \in -1..2
  /\ net \in [Hosts -> {"up", "refuses", "silent"}]
  /\ changes \in Nat

VerdictsIInv == OtherTypes /\ VerdictsFollow

LEMMA VerdictsAreVerdicts ==
  ASSUME ProbeIInv, VerdictsFollow
  PROVE  verdicts \in Seq(SeveritySpace)
<1>1. /\ Len(Plan) \in Nat /\ \A i \in 1..Len(Plan) : Plan[i] \in ProbeSpace
                                /\ Plan[i].kind \in Kinds
  BY PlanIsPlan DEF ProbeIInv, ProbeTypes
<1>2. ASSUME NEW q \in ProbeSpace, q.kind \in Kinds, NEW r
      PROVE  CheckProbe(q, r) \in SeveritySpace
  <2>1. CASE q.kind = "tls"
    BY <2>1 DEF CheckProbe, CheckTLSResult, Severity, SeveritySpace, Databases
  <2>2. CASE q.kind \in Databases
    BY <2>2 DEF CheckProbe, CheckDBResult, Severity, SeveritySpace, Databases
  <2>3. CASE q.kind = "dns"
    BY <2>3 DEF CheckProbe, SeveritySpace, Databases
  <2>4. CASE q.kind = "tcp"
    BY <2>4 DEF CheckProbe, Severity, SeveritySpace, Databases
  <2>5. CASE q.kind = "http"
    BY <2>5 DEF CheckProbe, Severity, SeveritySpace, Databases
  <2> QED
    BY <1>2, <2>1, <2>2, <2>3, <2>4, <2>5 DEF Kinds, Databases
<1>3. \A i \in 1..Len(Plan) : CheckProbe(Plan[i], results[i]) \in SeveritySpace
  BY <1>1, <1>2
<1>4. [i \in 1..Len(Plan) |-> CheckProbe(Plan[i], results[i])] \in Seq(SeveritySpace)
  BY <1>1, <1>3
<1>5. <<>> \in Seq(SeveritySpace)
  OBVIOUS
<1> QED
  BY <1>4, <1>5 DEF VerdictsFollow

(* Nothing happens once the command has exited.                            *)
LEMMA ExitedStays ==
  ASSUME ProbeIInv, main = "exited", [Next]_vars
  PROVE  UNCHANGED vars
<1>1. stage = "idle"
  BY DEF ProbeIInv, InProgress
<1> QED
  BY <1>1 DEF Next, LoadConfig, Begin, Report, Connecting, Accepted, WriteFails, LookedUp, Responds,
    VerifiedHandshake, VerificationFails, Inspected, NoConnection, Says, ReadComplete, ReadCut,
    Reading, Tick, NetChanges

LEMMA OtherTypesKept ==
  ASSUME OtherTypes, [Next]_vars
  PROVE  OtherTypes'
<1> DEFINE Same == UNCHANGED <<code, net, changes>>
<1>1. Same => OtherTypes'
  BY DEF OtherTypes
<1>2. ASSUME Probing
      PROVE  Same
  BY <1>2 DEF Probing, world
<1>3. CASE LoadConfig \/ Report
  BY <1>3 DEF LoadConfig, Report, ExitWith, world, OtherTypes
<1>4. CASE Begin \/ UNCHANGED vars
  BY <1>1, <1>4 DEF Begin, vars, world
<1>5. CASE Connecting
  BY <1>1, <1>2, <1>5 DEF Connecting, Accepted, WriteFails, LookedUp, Responds,
    VerifiedHandshake, VerificationFails, Inspected, NoConnection, Conclude
<1>6. CASE Says \/ Tick
  BY <1>1, <1>2, <1>6 DEF Says, Tick
<1>7. CASE ReadComplete \/ ReadCut
  BY <1>1, <1>2, <1>7 DEF ReadComplete, ReadCut, Take, Conclude
<1>8. CASE \E h \in Hosts : NetChanges(h)
  <2>1. PICK h \in Hosts : NetChanges(h)
    BY <1>8
  <2>2. PICK t \in {"up", "refuses", "silent"} : net' = [net EXCEPT ![h] = t]
    BY <2>1 DEF NetChanges
  <2>3. changes' = changes + 1 /\ code' = code
    BY <2>1 DEF NetChanges
  <2> QED
    BY <2>2, <2>3 DEF OtherTypes
<1> QED
  BY <1>3, <1>4, <1>5, <1>6, <1>7, <1>8 DEF Next

(* What an item becomes depends on the configuration and the result.       *)
LEMMA SameRules ==
  ASSUME UNCHANGED cfg
  PROVE  \A q, r : CheckProbe(q, r)' = CheckProbe(q, r)
<1>1. \A name : TLSThreshold(name)' = TLSThreshold(name)
  BY DEF TLSThreshold
<1>2. \A q, r : CheckTLSResult(q, r)' = CheckTLSResult(q, r)
  BY <1>1 DEF CheckTLSResult, Severity
<1> QED
  BY <1>2 DEF CheckProbe, CheckDBResult, Severity

LEMMA VerdictsKept ==
  ASSUME ProbeIInv, ProbeIInv', VerdictsIInv, [Next]_vars
  PROVE  VerdictsFollow'
<1>1. CASE main = "exited"
  <2>1. UNCHANGED <<flags, cfg, results, verdicts>>
    BY <1>1, ExitedStays DEF vars, found
  <2>2. Plan' = Plan
    BY <2>1, SamePlan
  <2>3. \A q, r : CheckProbe(q, r)' = CheckProbe(q, r)
    BY <2>1, SameRules
  <2> QED
    BY <2>1, <2>2, <2>3 DEF VerdictsIInv, VerdictsFollow
<1>2. CASE Report
  <2>1. UNCHANGED <<flags, cfg, results>> /\ Len(results) = Len(Plan)
        /\ verdicts' = [i \in 1..Len(Plan) |-> CheckProbe(Plan[i], results[i])]
    BY <1>2 DEF Report, found
  <2>2. Plan' = Plan
    BY <2>1, SamePlan
  <2>3. \A q, r : CheckProbe(q, r)' = CheckProbe(q, r)
    BY <2>1, SameRules
  <2> QED
    BY <2>1, <2>2, <2>3 DEF VerdictsFollow
<1>3. CASE main # "exited" /\ ~Report
  <2>1. verdicts = <<>>
    BY <1>3 DEF ProbeIInv
  <2>2. verdicts' = verdicts
    <3>1. CASE LoadConfig \/ Begin \/ UNCHANGED vars \/ (\E h \in Hosts : NetChanges(h))
      BY <3>1 DEF LoadConfig, Begin, vars, NetChanges
    <3>2. CASE Connecting
      BY <3>2 DEF Connecting, Accepted, WriteFails, LookedUp, Responds,
        VerifiedHandshake, VerificationFails, Inspected, NoConnection, Conclude, Probing
    <3>3. CASE Says \/ Tick \/ ReadComplete \/ ReadCut
      BY <3>3 DEF Says, Tick, ReadComplete, ReadCut, Take, Conclude, Probing
    <3> QED
      BY <1>3, <3>1, <3>2, <3>3 DEF Next
  <2> QED
    BY <2>1, <2>2 DEF VerdictsFollow
<1> QED
  BY <1>1, <1>2, <1>3

(* The verdicts are those of the results that were found, once they have   *)
(* been made, and never change again (checkProbes).                        *)
THEOREM ProbeVerdicts == Spec => []VerdictsIInv
<1>1. Init => VerdictsIInv
  BY DEF Init, VerdictsIInv, OtherTypes, VerdictsFollow
<1>2. ProbeIInv /\ ProbeIInv' /\ VerdictsIInv /\ [Next]_vars => VerdictsIInv'
  BY OtherTypesKept, VerdictsKept DEF VerdictsIInv
<1> QED
  BY <1>1, <1>2, ProbeInvariant, PTL DEF Spec

(* Every variable has its type, and results, what was heard and verdicts   *)
(* stay one for one, whatever the configuration and the servers.           *)
THEOREM ProbeTypeCorrect == Spec => []TypeOK
<1>1. ProbeIInv /\ VerdictsIInv => TypeOK
  BY VerdictsAreVerdicts DEF ProbeIInv, ProbeTypes, VerdictsIInv, OtherTypes, TypeOK, Stages, SeveritySpace
<1> QED
  BY <1>1, ProbeInvariant, ProbeVerdicts, PTL

(* Where the probes of the plan come from.                                 *)
LEMMA ConcatFrom ==
  ASSUME NEW S, NEW s \in Seq(S), NEW t \in Seq(S), NEW i \in 1..Len(s \o t)
  PROVE  (\E j \in 1..Len(s) : (s \o t)[i] = s[j]) \/ (\E j \in 1..Len(t) : (s \o t)[i] = t[j])
<1>1. /\ Len(s) \in Nat /\ Len(t) \in Nat /\ Len(s \o t) = Len(s) + Len(t)
      /\ i \in 1..(Len(s) + Len(t))
  OBVIOUS
<1>2. CASE i <= Len(s)
  BY <1>1, <1>2
<1>3. CASE i > Len(s)
  <2>1. i - Len(s) \in 1..Len(t) /\ (s \o t)[i] = t[i - Len(s)]
    BY <1>1, <1>3
  <2> QED
    BY <2>1
<1> QED
  BY <1>1, <1>2, <1>3

NoTLS(s) == \A j \in 1..Len(s) : s[j].kind # "tls"

LEMMA ConcatNoTLS ==
  ASSUME NEW S, NEW s \in Seq(S), NEW t \in Seq(S), NoTLS(s), NoTLS(t)
  PROVE  NoTLS(s \o t)
<1>1. ASSUME NEW i \in 1..Len(s \o t)
      PROVE  (s \o t)[i].kind # "tls"
  <2>1. \/ \E j \in 1..Len(s) : (s \o t)[i] = s[j]
        \/ \E j \in 1..Len(t) : (s \o t)[i] = t[j]
    BY <1>1, ConcatFrom
  <2> QED
    BY <2>1 DEF NoTLS
<1> QED
  BY <1>1 DEF NoTLS

Has(s, v) == \E j \in 1..Len(s) : s[j] = v

LEMMA ConcatTLS ==
  ASSUME NEW S, NEW s \in Seq(S), NEW t \in Seq(S), NEW v, Has(s \o t, v), v.kind = "tls"
  PROVE  (NoTLS(t) => Has(s, v)) /\ (NoTLS(s) => Has(t, v))
<1>1. PICK i \in 1..Len(s \o t) : (s \o t)[i] = v
  BY DEF Has
<1>2. (\E j \in 1..Len(s) : (s \o t)[i] = s[j]) \/ (\E j \in 1..Len(t) : (s \o t)[i] = t[j])
  BY <1>1, ConcatFrom
<1> QED
  BY <1>1, <1>2 DEF NoTLS, Has

LEMMA EndpointOfPlan ==
  ASSUME flags \in CommandLines, cfg \in Configs, NEW i \in 1..Len(Plan), Plan[i].kind = "tls"
  PROVE  \E j \in 1..Len(cfg["tls"]) : Plan[i] = cfg["tls"][j]
<1>1. \A k \in Kinds : /\ cfg[k] \in Seq(ProbeSpace)
                       /\ \A j \in 1..Len(cfg[k]) : cfg[k][j].kind = k
  BY ProbeAssumption DEF ConfigSpace
<1>2. {"tcp", "dns", "http", "tls", "postgres", "mysql", "redis"} \subseteq Kinds
  BY DEF Kinds
<1> DEFINE a == cfg["tcp"]
           b == IF flags.noNetwork THEN <<>> ELSE cfg["dns"] \o cfg["http"]
           c == IF flags.noTLS THEN <<>> ELSE cfg["tls"]
           d == cfg["postgres"]
           e == cfg["mysql"]
           f == cfg["redis"]
<1>3. /\ a \in Seq(ProbeSpace) /\ b \in Seq(ProbeSpace) /\ c \in Seq(ProbeSpace)
      /\ d \in Seq(ProbeSpace) /\ e \in Seq(ProbeSpace) /\ f \in Seq(ProbeSpace)
  BY <1>1, <1>2
<1>4. NoTLS(a) /\ NoTLS(d) /\ NoTLS(e) /\ NoTLS(f)
  BY <1>1, <1>2 DEF NoTLS
<1>5. NoTLS(b)
  <2>1. CASE flags.noNetwork
    BY <2>1 DEF NoTLS
  <2>2. CASE ~flags.noNetwork
    <3>1. cfg["dns"] \in Seq(ProbeSpace) /\ cfg["http"] \in Seq(ProbeSpace)
          /\ NoTLS(cfg["dns"]) /\ NoTLS(cfg["http"])
      BY <1>1, <1>2 DEF NoTLS
    <3>2. b = cfg["dns"] \o cfg["http"]
      BY <2>2
    <3> HIDE DEF a, b, c, d, e, f
    <3> QED
      BY <3>1, <3>2, ConcatNoTLS
  <2> QED
    BY <2>1, <2>2
<1>6. \A j \in 1..Len(c) : \E k \in 1..Len(cfg["tls"]) : c[j] = cfg["tls"][k]
  <2>1. CASE flags.noTLS
    BY <2>1
  <2>2. CASE ~flags.noTLS
    BY <2>2
  <2> QED
    BY <2>1, <2>2
<1>7. Plan = a \o b \o c \o d \o e \o f
  BY DEF Plan
<1> HIDE DEF a, b, c, d, e, f
<1> DEFINE p == Plan
           s2 == a \o b
           s3 == s2 \o c
           s4 == s3 \o d
           s5 == s4 \o e
<1>8. p = s5 \o f /\ s5 = s4 \o e /\ s4 = s3 \o d /\ s3 = s2 \o c /\ s2 = a \o b
  BY <1>7
<1>9. s2 \in Seq(ProbeSpace) /\ s3 \in Seq(ProbeSpace) /\ s4 \in Seq(ProbeSpace)
      /\ s5 \in Seq(ProbeSpace)
  BY <1>3
<1> DEFINE v == p[i]
<1>10. Has(p, v) /\ v.kind = "tls"
  BY DEF Has
<1> HIDE DEF p, s2, s3, s4, s5, v
<1>11. Has(s5, v)
  <2>1. Has(s5 \o f, v)
    BY <1>8, <1>10
  <2> QED
    BY <1>3, <1>4, <1>9, <1>10, <2>1, ConcatTLS
<1>12. Has(s4, v)
  <2>1. Has(s4 \o e, v)
    BY <1>8, <1>11
  <2> QED
    BY <1>3, <1>4, <1>9, <1>10, <2>1, ConcatTLS
<1>13. Has(s3, v)
  <2>1. Has(s3 \o d, v)
    BY <1>8, <1>12
  <2> QED
    BY <1>3, <1>4, <1>9, <1>10, <2>1, ConcatTLS
<1>14. NoTLS(s2)
  BY <1>3, <1>4, <1>5, <1>8, ConcatNoTLS
<1>15. Has(c, v)
  <2>1. Has(s2 \o c, v)
    BY <1>8, <1>13
  <2> QED
    BY <1>3, <1>9, <1>10, <1>14, <2>1, ConcatTLS
<1>16. PICK j \in 1..Len(c) : c[j] = v
  BY <1>15 DEF Has
<1> QED
  BY <1>6, <1>16 DEF p, v

(* The threshold that is looked up by name is that of the endpoint, if     *)
(* there is one endpoint of that name.                                     *)
LEMMA OwnThreshold ==
  ASSUME \A i, j \in 1..Len(cfg["tls"]) : cfg["tls"][i].name = cfg["tls"][j].name => i = j,
         NEW k \in 1..Len(cfg["tls"])
  PROVE  TLSThreshold(cfg["tls"][k].name) = cfg["tls"][k].within
<1> DEFINE eps == cfg["tls"]
           named == {i \in 1..Len(eps) : eps[i].name = eps[k].name}
<1>1. named = {k}
  OBVIOUS
<1>2. (CHOOSE i \in named : \A j \in named : i <= j) \in named
  <2>1. \E i \in named : \A j \in named : i <= j
    BY <1>1
  <2> QED
    BY <2>1
<1>3. (CHOOSE i \in named : \A j \in named : i <= j) = k
  BY <1>1, <1>2
<1> QED
  BY <1>3 DEF TLSThreshold

(* If endpoints have different names, a service that did what was asked    *)
(* has no item exactly if nothing is wrong with it: for any thresholds,    *)
(* certificates, answers and pieces (tlsThreshold, readWith, probeRedis).  *)
THEOREM ProbeWarnings == Spec => []WarningsTell
<1>1. ASSUME ProbeIInv, VerdictsIInv
      PROVE  WarningsTell
  <2> SUFFICES ASSUME Reported,
                      \A i, j \in 1..Len(cfg["tls"]) :
                         cfg["tls"][i].name = cfg["tls"][j].name => i = j,
                      NEW i \in 1..Len(Plan), Served(Plan[i], heard[i])
               PROVE  verdicts[i] = "none" <=> Clean(Plan[i], heard[i])
    BY DEF WarningsTell
  <2>1. /\ flags \in CommandLines /\ cfg \in Configs /\ results \in Seq(Result)
        /\ Len(results) <= Len(Plan)
    BY <1>1 DEF ProbeIInv, ProbeTypes
  <2>2. Plan[i] \in ProbeSpace /\ Plan[i].kind \in Kinds /\ Len(Plan) \in Nat
    BY <2>1, PlanIsPlan
  <2>3. verdicts # <<>>
    <3>1. Len(verdicts) = Len(Plan) /\ Len(Plan) # 0
      BY <2>2 DEF Reported
    <3> QED
      BY <3>1
  <2>4. verdicts[i] = CheckProbe(Plan[i], results[i])
    BY <1>1, <2>3 DEF VerdictsIInv, VerdictsFollow
  <2>5. Len(results) = Len(Plan)
    BY <1>1, <2>3 DEF VerdictsIInv, VerdictsFollow
  <2>6. results[i] \in Result /\ Fits(Plan[i], results[i], heard[i])
    BY <1>1, <2>1, <2>2, <2>5 DEF ProbeIInv, ResultsFit
  <2> DEFINE q == Plan[i]
             r == results[i]
             h == heard[i]
  <2>7. q.kind \in Kinds /\ Well(q, r) /\ Exact(q, r, h)
    BY <2>2, <2>6 DEF Fits
  <2>8. CASE q.kind = "tls"
    <3>1. PICK k \in 1..Len(cfg["tls"]) : q = cfg["tls"][k]
      BY <2>1, <2>8, EndpointOfPlan
    <3>2. TLSThreshold(q.name) = q.within
      BY <3>1, OwnThreshold
    <3> HIDE DEF q, r, h
    <3>3. r.handshake /\ r.hostname /\ ~r.expired /\ r.days = Certificate[q.host].days
      BY <2>7, <2>8 DEF Well, Exact
    <3>4. CheckProbe(q, r) = "none" <=> ~(q.within > 0 /\ Certificate[q.host].days <= q.within)
      BY <2>8, <3>2, <3>3 DEF CheckProbe, CheckTLSResult, Databases
    <3>5. Clean(q, h) <=> ~(q.within > 0 /\ Certificate[q.host].days <= q.within)
      BY <2>8 DEF Clean
    <3> QED
      BY <2>4, <3>4, <3>5 DEF q, r, h
  <2>9. CASE q.kind = "redis"
    <3> HIDE DEF q, r, h
    <3>1. r.reachable /\ (r.handshake <=> SaysPong(h))
      BY <2>7, <2>9 DEF Well, Exact
    <3> QED
      BY <2>4, <2>9, <3>1 DEF CheckProbe, CheckDBResult, Databases, Clean, q, r, h
  <2>10. CASE q.kind \in {"postgres", "mysql"}
    <3> HIDE DEF q, r, h
    <3>1. r.reachable /\ r.handshake
      BY <2>7, <2>10 DEF Well, Exact
    <3> QED
      BY <2>4, <2>10, <3>1 DEF CheckProbe, CheckDBResult, Databases, Clean, q, r, h
  <2>11. CASE q.kind \in {"tcp", "dns", "http"}
    <3> HIDE DEF q, r, h
    <3> QED
      BY <2>4, <2>7, <2>11 DEF CheckProbe, Databases, Clean, Well, q, r, h
  <2> QED
    BY <2>7, <2>8, <2>9, <2>10, <2>11 DEF Kinds
<1>2. ProbeIInv /\ VerdictsIInv => WarningsTell
  BY <1>1
<1> QED
  BY <1>2, ProbeInvariant, ProbeVerdicts, PTL
-----------------------------------------------------------------------------
(* The budgets.                                                            *)

LEMMA RoundsFit ==
  ASSUME NEW q \in ProbeSpace, NEW where \in Stages, NEW s, where # "idle",
         StageFits(q, where, s)
  PROVE  /\ RoundOf(where) \in {1, 2, 3} /\ Rounds(q.kind) \in {1, 2, 3}
         /\ RoundOf(where) <= Rounds(q.kind)
<1>1. q.kind \in Kinds
  BY DEF ProbeSpace
<1>2. Rounds(q.kind) \in {1, 2, 3}
  BY <1>1 DEF Rounds, Kinds
<1>3. CASE where \in {"dial", "lookup", "request", "verify"}
  BY <1>2, <1>3 DEF RoundOf
<1>4. CASE where \in {"inspect", "read", "header"}
  <2>1. q.kind \in {"mysql", "postgres", "redis", "tls"}
    BY <1>4 DEF StageFits
  <2>2. Rounds(q.kind) \in {2, 3} /\ RoundOf(where) = 2
    BY <1>4, <2>1 DEF Rounds, RoundOf
  <2> QED
    BY <2>2
<1>5. CASE where = "body"
  <2>1. q.kind = "mysql"
    BY <1>5 DEF StageFits
  <2> QED
    BY <1>5, <2>1 DEF Rounds, RoundOf
<1> QED
  BY <1>3, <1>4, <1>5 DEF Stages

LEMMA BudgetIsNat ==
  ASSUME flags \in CommandLines, NEW q \in ProbeSpace
  PROVE  Budget(q) \in Nat
<1>1. Timeout(q) \in Nat /\ q.kind \in Kinds
  BY TimeoutIsNat DEF ProbeSpace
<1>2. Rounds(q.kind) \in {1, 2, 3}
  BY <1>1 DEF Rounds, Kinds
<1> QED
  BY <1>1, <1>2 DEF Budget

LEMMA BudgetsAre ==
  ASSUME ProbeTypes
  PROVE  /\ Budgets \in Seq(Nat) /\ Len(Budgets) = Len(Plan) - Len(results)
         /\ \A i \in 1..Len(Budgets) : Budgets[i] = Budget(Plan[Len(results) + i])
<1>1. Len(results) \in Nat /\ Len(results) <= Len(Plan) /\ Len(Plan) \in Nat
      /\ \A i \in 1..Len(Plan) : Plan[i] \in ProbeSpace
  BY PlanIsPlan DEF ProbeTypes
<1> DEFINE n == Len(Plan) - Len(results)
<1>2. n \in Nat
  BY <1>1
<1>3. \A i \in 1..n : Budget(Plan[Len(results) + i]) \in Nat
  <2>1. ASSUME NEW i \in 1..n
        PROVE  Budget(Plan[Len(results) + i]) \in Nat
    <3>1. Len(results) + i \in 1..Len(Plan)
      BY <1>1, <2>1
    <3>2. flags \in CommandLines
      BY DEF ProbeTypes
    <3> QED
      BY <1>1, <3>1, <3>2, BudgetIsNat
  <2> QED
    BY <2>1
<1>4. Budgets = [i \in 1..n |-> Budget(Plan[Len(results) + i])]
  BY DEF Budgets
<1> HIDE DEF n
<1>5. Budgets \in Seq(Nat) /\ Len(Budgets) = n
  BY <1>2, <1>3, <1>4
<1> QED
  BY <1>4, <1>5 DEF n

LEMMA SameBudgets ==
  ASSUME UNCHANGED <<flags, cfg, results>>
  PROVE  Budgets' = Budgets
<1>1. Plan' = Plan
  BY SamePlan
<1>2. \A q : Budget(q)' = Budget(q)
  BY SamePlan DEF Budget, Rounds
<1> QED
  BY <1>1, <1>2 DEF Budgets

(* The first budget is that of the probe that is under way.                *)
LEMMA FirstBudget ==
  ASSUME ProbeIInv, stage # "idle"
  PROVE  Budgets # <<>> /\ Head(Budgets) = Rounds(Probe.kind) * Timeout(Probe)
<1>1. Len(results) \in Nat /\ Len(results) < Len(Plan) /\ Plan \in Seq(ProbeSpace)
      /\ Len(Plan) \in Nat
  BY Current
<1>2. Budgets \in Seq(Nat) /\ Len(Budgets) = Len(Plan) - Len(results)
      /\ \A i \in 1..Len(Budgets) : Budgets[i] = Budget(Plan[Len(results) + i])
  BY BudgetsAre DEF ProbeIInv
<1>3. Len(Budgets) \in Nat /\ Len(Budgets) >= 1
  BY <1>1, <1>2
<1>4. Budgets # <<>> /\ Head(Budgets) = Budgets[1]
  BY <1>2, <1>3
<1> QED
  BY <1>2, <1>3, <1>4 DEF Budget, Probe

LEMMA TailIs ==
  ASSUME NEW S, NEW s \in Seq(S), s # <<>>
  PROVE  Tail(s) = [i \in 1..(Len(s) - 1) |-> s[i + 1]]
<1>1. /\ Tail(s) \in Seq(S) /\ Len(Tail(s)) = Len(s) - 1
      /\ \A i \in 1..Len(Tail(s)) : Tail(s)[i] = s[i + 1]
  BY HeadTailProperties
<1> DEFINE t == [i \in 1..(Len(s) - 1) |-> s[i + 1]]
<1>2. Len(s) - 1 \in Nat /\ \A i \in 1..(Len(s) - 1) : s[i + 1] \in S
  OBVIOUS
<1>3. t \in Seq(S) /\ Len(t) = Len(s) - 1
  BY <1>2
<1>4. \A i \in 1..Len(t) : t[i] = s[i + 1]
  BY <1>3
<1> HIDE DEF t
<1>5. \A i \in 1..Len(t) : Tail(s)[i] = t[i]
  BY <1>1, <1>3, <1>4
<1>6. Tail(s) = t
  BY <1>1, <1>3, <1>5, SeqEqual
<1> QED
  BY <1>6 DEF t

LEMMA Answering ==
  ASSUME ProbeIInv, ProbeTypes', stage # "idle", NEW r \in Result, NEW s, Conclude(r, s)
  PROVE  Contract!Answer
<1>1. results' = Append(results, r) /\ spent' = 0 /\ UNCHANGED <<flags, cfg>>
  BY DEF Conclude, Probing
<1>2. Plan' = Plan /\ \A q : Budget(q)' = Budget(q)
  BY <1>1, SamePlan DEF Budget, Rounds
<1>3. Len(results) \in Nat /\ Len(results') = Len(results) + 1 /\ Len(Plan) \in Nat
      /\ Len(results) < Len(Plan)
  BY <1>1, Current DEF ProbeIInv, ProbeTypes
<1>4. Budgets \in Seq(Nat) /\ Len(Budgets) = Len(Plan) - Len(results)
      /\ \A i \in 1..Len(Budgets) : Budgets[i] = Budget(Plan[Len(results) + i])
  BY BudgetsAre DEF ProbeIInv
<1>5. Budgets # <<>>
  BY FirstBudget
<1>6. Budgets' = [i \in 1..(Len(Plan) - (Len(results) + 1)) |-> Budget(Plan[Len(results) + 1 + i])]
  BY <1>2, <1>3 DEF Budgets
<1>7. Tail(Budgets) = [i \in 1..(Len(Budgets) - 1) |-> Budgets[i + 1]]
  BY <1>4, <1>5, TailIs
<1>8. Len(Budgets) - 1 = Len(Plan) - (Len(results) + 1)
  BY <1>3, <1>4
<1>9. \A i \in 1..(Len(Budgets) - 1) : Budgets[i + 1] = Budget(Plan[Len(results) + 1 + i])
  <2>1. ASSUME NEW i \in 1..(Len(Budgets) - 1)
        PROVE  Budgets[i + 1] = Budget(Plan[Len(results) + 1 + i])
    <3>1. i + 1 \in 1..Len(Budgets) /\ Len(results) + (i + 1) = Len(results) + 1 + i
      BY <1>3, <1>4, <2>1
    <3> QED
      BY <1>4, <3>1
  <2> QED
    BY <2>1
<1>10. Budgets' = Tail(Budgets)
  BY <1>6, <1>7, <1>8, <1>9
<1> QED
  BY <1>1, <1>5, <1>10 DEF Contract!Answer

LEMMA Waiting ==
  ASSUME ProbeIInv, Tick
  PROVE  Contract!Wait
<1>1. stage # "idle" /\ left > 0 /\ spent' = spent + 1 /\ Budgets' = Budgets
  BY SameBudgets DEF Tick, Probing, found
<1>2. left \in Nat /\ spent \in Nat /\ stage \in Stages
      /\ spent + left <= RoundOf(stage) * Timeout(Probe)
  BY <1>1 DEF ProbeIInv, ProbeTypes, InProgress
<1>3. Probe \in ProbeSpace /\ Timeout(Probe) \in Nat /\ StageFits(Probe, stage, said)
  BY <1>1, Current
<1>4. RoundOf(stage) \in {1, 2, 3} /\ Rounds(Probe.kind) \in {1, 2, 3}
      /\ RoundOf(stage) <= Rounds(Probe.kind)
  BY <1>1, <1>2, <1>3, RoundsFit
<1>5. RoundOf(stage) * Timeout(Probe) <= Rounds(Probe.kind) * Timeout(Probe)
  <2> DEFINE a == RoundOf(stage)
             b == Rounds(Probe.kind)
             t == Timeout(Probe)
  <2>1. a \in {1, 2, 3} /\ b \in {1, 2, 3} /\ a <= b /\ t \in Nat
    BY <1>3, <1>4
  <2> HIDE DEF a, b, t
  <2>2. a * t <= b * t
    <3>1. CASE a = 1
      BY <2>1, <3>1
    <3>2. CASE a = 2
      BY <2>1, <3>2
    <3>3. CASE a = 3
      BY <2>1, <3>3
    <3> QED
      BY <2>1, <3>1, <3>2, <3>3
  <2> QED
    BY <2>2 DEF a, b, t
<1>6. RoundOf(stage) * Timeout(Probe) \in Nat /\ Rounds(Probe.kind) * Timeout(Probe) \in Nat
  BY <1>3, <1>4
<1>7. spent < Rounds(Probe.kind) * Timeout(Probe)
  BY <1>1, <1>2, <1>5, <1>6
<1> QED
  BY <1>1, <1>7, FirstBudget DEF Contract!Wait

(* Every step of a run is a wait, an answer, or neither.                   *)
LEMMA KeepsContract ==
  ASSUME ProbeIInv, ProbeIInv', [Next]_vars
  PROVE  [Contract!Next]_<<Budgets, spent>>
<1> DEFINE Same == UNCHANGED <<flags, cfg, results, spent>>
<1>1. ASSUME Same
      PROVE  UNCHANGED <<Budgets, spent>>
  BY <1>1, SameBudgets
<1>2. ASSUME stage # "idle", NEW r \in Result, NEW s, Conclude(r, s)
      PROVE  Contract!Next
  BY <1>2, Answering DEF ProbeIInv, Contract!Next
<1>3. CASE LoadConfig \/ Report \/ (\E h \in Hosts : NetChanges(h)) \/ UNCHANGED vars
  BY <1>1, <1>3 DEF LoadConfig, Report, NetChanges, vars, probing, found
<1>4. CASE Begin
  BY <1>1, <1>4 DEF Begin, found, ProbeIInv, InProgress
<1>5. CASE Says
  BY <1>1, <1>5 DEF Says, found, Probing
<1>6. CASE Tick
  BY <1>6, Waiting DEF Contract!Next
<1>7. CASE Connecting
  <2>0. stage # "idle"
    BY <1>7 DEF Connecting, Accepted, WriteFails, LookedUp, Responds, VerifiedHandshake,
                VerificationFails, Inspected, NoConnection
  <2>1. Probe.host \in Hosts
    BY <2>0, Current DEF ProbeSpace
  <2>2. CASE Accepted
    BY <1>1, <1>2, <2>0, <2>2, ResultsAreResults DEF Accepted, Probing, found
  <2>3. CASE WriteFails \/ LookedUp
    BY <1>2, <2>0, <2>3, ResultsAreResults DEF WriteFails, LookedUp
  <2>4. CASE Responds
    <3>1. PICK status \in Statuses[Probe.host] :
            Conclude(Outcome(TRUE, status = ExpectedStatus(Probe)), <<status>>)
      BY <2>4 DEF Responds
    <3> DEFINE b == status = ExpectedStatus(Probe)
    <3>2. Outcome(TRUE, b) \in Result
      BY StatusResult
    <3> QED
      BY <1>2, <2>0, <3>1, <3>2
  <2>5. CASE VerifiedHandshake
    <3>1. Shown(Certificate[Probe.host], TRUE) \in Result
      BY <2>1, TLSResult
    <3> QED
      BY <1>2, <2>0, <2>5, <3>1 DEF VerifiedHandshake
  <2>6. CASE Inspected
    <3>1. Shown(Certificate[Probe.host], FALSE) \in Result
      BY <2>1, TLSResult
    <3> QED
      BY <1>2, <2>0, <2>6, <3>1 DEF Inspected
  <2>7. CASE VerificationFails
    BY <1>1, <2>7 DEF VerificationFails, Probing, found
  <2>8. CASE NoConnection
    BY <1>1, <1>2, <2>0, <2>8, ResultsAreResults DEF NoConnection, Probing, found
  <2> QED
    BY <1>7, <2>2, <2>3, <2>4, <2>5, <2>6, <2>7, <2>8 DEF Connecting
<1>8. CASE ReadComplete \/ ReadCut
  <2>1. stage # "idle"
    BY <1>8 DEF ReadComplete, ReadCut, Reading
  <2>2. PICK cut \in BOOLEAN : Take(cut)
    BY <1>8 DEF ReadComplete, ReadCut
  <2>3. CASE stage = "header" /\ ~cut /\ Plausible(said[1])
    BY <1>1, <2>2, <2>3 DEF Take, Probing, found
  <2>4. CASE ~(stage = "header" /\ ~cut /\ Plausible(said[1]))
    <3>1. Conclude(ReadResult(cut), said)
      BY <2>2, <2>4, TakeIsReadResult
    <3>2. ReadResult(cut) \in Result
      <4>1. MySQLResult(Body) \in Result
        BY ResultsAreResults DEF MySQLResult
      <4>2. PostgresResult(said, cut) \in Result
        BY ResultsAreResults DEF PostgresResult
      <4>3. RedisResult(said, cut) \in Result
        BY ResultsAreResults DEF RedisResult
      <4> QED
        BY <4>1, <4>2, <4>3, ResultsAreResults DEF ReadResult
    <3> QED
      BY <1>2, <2>1, <3>1, <3>2
  <2> QED
    BY <2>3, <2>4
<1> QED
  BY <1>3, <1>4, <1>5, <1>6, <1>7, <1>8 DEF Next

(* Every probe is answered exactly once, in the order of the plan, and     *)
(* within its deadlines, whatever the servers say or do not say.           *)
THEOREM ProbeBudgets == Spec => KeepsItsBudgets
<1>1. Init => Contract!Init
  BY InitKeeps, BudgetsAre DEF Init, Contract!Init, ProbeIInv
<1>2. ProbeIInv /\ ProbeIInv' /\ [Next]_vars => [Contract!Next]_<<Budgets, spent>>
  BY KeepsContract
<1> QED
  BY <1>1, <1>2, ProbeInvariant, PTL DEF Spec, KeepsItsBudgets, Contract!Spec
-----------------------------------------------------------------------------
(* Nothing is tried twice.                                                 *)

LEMMA AheadIsNatural ==
  ASSUME ProbeIInv
  PROVE  /\ StagesLeft \in Nat /\ Len(Plan) - Len(results) \in Nat /\ WaitsLeft \in Nat
         /\ left \in Nat /\ Len(script) \in Nat
<1>1. StagesLeft \in Nat /\ WaitsLeft \in Nat
  BY DEF StagesLeft, WaitsLeft
<1>2. Len(Plan) \in Nat /\ Len(results) \in Nat /\ Len(results) <= Len(Plan)
  BY PlanIsPlan DEF ProbeIInv, ProbeTypes
<1> QED
  BY <1>1, <1>2 DEF ProbeIInv, ProbeTypes

(* The order is lexicographic.                                             *)
LEMMA Leads ==
  ASSUME ProbeIInv, UNCHANGED <<flags, cfg>>,
         \/ StagesLeft' < StagesLeft
         \/ /\ StagesLeft' = StagesLeft
            /\ Len(results') = Len(results) + 1
         \/ /\ StagesLeft' = StagesLeft /\ results' = results
            /\ \/ WaitsLeft' < WaitsLeft
               \/ WaitsLeft' = WaitsLeft /\ left' < left
               \/ WaitsLeft' = WaitsLeft /\ left' = left /\ Len(script') < Len(script)
  PROVE  Precedes(Ahead', Ahead)
<1>1. Len(Plan)' = Len(Plan) /\ Len(Plan) \in Nat /\ Len(results) \in Nat
  BY SamePlan, PlanIsPlan DEF ProbeIInv, ProbeTypes
<1>2. /\ Ahead[1] = StagesLeft /\ Ahead[2] = Len(Plan) - Len(results) /\ Ahead[3] = WaitsLeft
      /\ Ahead[4] = left /\ Ahead[5] = Len(script)
  BY DEF Ahead
<1>3. /\ Ahead'[1] = StagesLeft' /\ Ahead'[2] = Len(Plan)' - Len(results')
      /\ Ahead'[3] = WaitsLeft' /\ Ahead'[4] = left' /\ Ahead'[5] = Len(script')
  BY DEF Ahead
<1> DEFINE a == Ahead'
           b == Ahead
<1>4. \/ a[1] < b[1]
      \/ a[1] = b[1] /\ a[2] < b[2]
      \/ a[1] = b[1] /\ a[2] = b[2] /\ a[3] < b[3]
      \/ a[1] = b[1] /\ a[2] = b[2] /\ a[3] = b[3] /\ a[4] < b[4]
      \/ a[1] = b[1] /\ a[2] = b[2] /\ a[3] = b[3] /\ a[4] = b[4] /\ a[5] < b[5]
  BY <1>1, <1>2, <1>3
<1> HIDE DEF a, b
<1>5. \E i \in 1..5 : a[i] < b[i] /\ \A j \in 1..(i - 1) : a[j] = b[j]
  BY <1>4
<1> QED
  BY <1>5 DEF Precedes, a, b

LEMMA AnsweredLeads ==
  ASSUME ProbeIInv, NEW r, NEW s, Conclude(r, s)
  PROVE  Precedes(Ahead', Ahead)
<1>1. StagesLeft' = StagesLeft /\ UNCHANGED <<flags, cfg>>
  BY DEF Conclude, Probing, StagesLeft
<1>2. Len(results') = Len(results) + 1
  BY DEF Conclude, ProbeIInv, ProbeTypes
<1> QED
  BY <1>1, <1>2, Leads

(* A new wait, of which there are fewer and fewer.                         *)
LEMMA WaitLeads ==
  ASSUME ProbeIInv, Probing, UNCHANGED results, WaitsLeft' < WaitsLeft
  PROVE  Precedes(Ahead', Ahead)
<1>1. StagesLeft' = StagesLeft /\ UNCHANGED <<flags, cfg>>
  BY DEF Probing, StagesLeft
<1> QED
  BY <1>1, Leads

LEMMA ConnectingLeads ==
  ASSUME ProbeIInv, Connecting
  PROVE  Precedes(Ahead', Ahead)
<1>1. CASE Accepted
  <2>1. CASE Probe.kind = "tcp"
    BY <1>1, <2>1, AnsweredLeads DEF Accepted
  <2>2. CASE Probe.kind # "tcp"
    <3>1. stage = "dial" /\ stage' \in {"header", "read"} /\ Probing /\ UNCHANGED results
      BY <1>1, <2>2 DEF Accepted, Enter, found
    <3>2. WaitsLeft' < WaitsLeft
      BY <3>1 DEF WaitsLeft
    <3> QED
      BY <3>1, <3>2, WaitLeads
  <2> QED
    BY <2>1, <2>2
<1>2. CASE WriteFails \/ LookedUp \/ VerifiedHandshake \/ Inspected
  BY <1>2, AnsweredLeads DEF WriteFails, LookedUp, VerifiedHandshake, Inspected
<1>3. CASE Responds
  BY <1>3, AnsweredLeads DEF Responds
<1>4. CASE VerificationFails \/ (NoConnection /\ stage = "verify")
  <2>1. stage = "verify" /\ stage' = "inspect" /\ Probing /\ UNCHANGED results
    BY <1>4 DEF VerificationFails, NoConnection, Enter, found
  <2>2. WaitsLeft' < WaitsLeft
    BY <2>1 DEF WaitsLeft
  <2> QED
    BY <2>1, <2>2, WaitLeads
<1>5. CASE NoConnection /\ stage # "verify"
  BY <1>5, AnsweredLeads DEF NoConnection
<1> QED
  BY <1>1, <1>2, <1>3, <1>4, <1>5 DEF Connecting

LEMMA TakeLeads ==
  ASSUME ProbeIInv, NEW cut \in BOOLEAN, Take(cut)
  PROVE  Precedes(Ahead', Ahead)
<1>1. CASE stage = "header" /\ ~cut /\ Plausible(said[1])
  <2>1. stage' = "body" /\ Probing /\ UNCHANGED results
    BY <1>1 DEF Take, Enter, found
  <2>2. WaitsLeft' < WaitsLeft
    BY <1>1, <2>1 DEF WaitsLeft
  <2> QED
    BY <2>1, <2>2, WaitLeads
<1>2. CASE ~(stage = "header" /\ ~cut /\ Plausible(said[1]))
  BY <1>2, TakeIsReadResult, AnsweredLeads
<1> QED
  BY <1>1, <1>2

LEMMA SaysLeads ==
  ASSUME ProbeIInv, Says
  PROVE  Precedes(Ahead', Ahead)
<1>1. script \in Seq(Tokens) /\ script # <<>> /\ script' = Tail(script)
  BY DEF Says, ProbeIInv, ProbeTypes
<1>2. Len(script') < Len(script)
  BY <1>1
<1>3. /\ StagesLeft' = StagesLeft /\ WaitsLeft' = WaitsLeft
      /\ UNCHANGED <<flags, cfg, results, left>>
  BY DEF Says, Probing, found, StagesLeft, WaitsLeft
<1> QED
  BY <1>2, <1>3, Leads

LEMMA TickLeads ==
  ASSUME ProbeIInv, Tick
  PROVE  Precedes(Ahead', Ahead)
<1>1. left' < left
  BY DEF Tick, ProbeIInv, ProbeTypes
<1>2. /\ StagesLeft' = StagesLeft /\ WaitsLeft' = WaitsLeft
      /\ UNCHANGED <<flags, cfg, results>>
  BY DEF Tick, Probing, found, StagesLeft, WaitsLeft
<1> QED
  BY <1>1, <1>2, Leads

LEMMA CommandLeads ==
  ASSUME ProbeIInv, LoadConfig \/ Begin \/ Report
  PROVE  Precedes(Ahead', Ahead)
<1>1. CASE LoadConfig \/ Report
  <2>1. \/ main = "config" /\ main' \in {"probing", "exited"}
        \/ main = "probing" /\ main' = "exited"
    BY <1>1 DEF LoadConfig, Report, ExitWith
  <2>2. StagesLeft' < StagesLeft
    BY <2>1 DEF StagesLeft
  <2>3. UNCHANGED <<flags, cfg>>
    BY <1>1 DEF LoadConfig, Report
  <2> QED
    BY <2>2, <2>3, Leads
<1>2. CASE Begin
  <2>1. stage = "idle" /\ stage' = FirstStage(Probe.kind) /\ Probing /\ UNCHANGED results
    BY <1>2 DEF Begin, Enter, Probing, found
  <2>2. WaitsLeft' < WaitsLeft
    BY <2>1 DEF WaitsLeft, FirstStage
  <2> QED
    BY <2>1, <2>2, WaitLeads
<1> QED
  BY <1>1, <1>2

(* No probe is repeated, no wait begun again and no deadline extended:     *)
(* whatever the servers do, each step brings the command nearer to its     *)
(* end (tls.go, db.go).                                                    *)
THEOREM NothingIsRetried == Spec => NothingIsTriedTwice
<1>1. ProbeIInv /\ VerdictsIInv /\ [Next]_vars => [changes' = changes => Precedes(Ahead', Ahead)]_vars
  <2> SUFFICES ASSUME ProbeIInv, VerdictsIInv, Next, changes' = changes
               PROVE  Precedes(Ahead', Ahead)
    OBVIOUS
  <2>1. CASE LoadConfig \/ Begin \/ Report
    BY <2>1, CommandLeads
  <2>2. CASE Connecting
    BY <2>2, ConnectingLeads
  <2>3. CASE Says
    BY <2>3, SaysLeads
  <2>4. CASE ReadComplete \/ ReadCut
    <3>1. PICK cut \in BOOLEAN : Take(cut)
      BY <2>4 DEF ReadComplete, ReadCut
    <3> QED
      BY <3>1, TakeLeads
  <2>5. CASE Tick
    BY <2>5, TickLeads
  <2>6. ~\E h \in Hosts : NetChanges(h)
    BY DEF NetChanges, VerdictsIInv, OtherTypes
  <2> QED
    BY <2>1, <2>2, <2>3, <2>4, <2>5, <2>6 DEF Next
<1> QED
  BY <1>1, ProbeInvariant, ProbeVerdicts, PTL DEF Spec, NothingIsTriedTwice

(* What the order of NothingIsTriedTwice compares is a tuple of natural    *)
(* numbers, so that nothing descends in it for ever: after the last change *)
(* of the net a command can only fail to end by not moving.                *)
THEOREM WhatIsAheadIsFinite == Spec => [](\A i \in 1..5 : Ahead[i] \in Nat)
<1>1. ProbeIInv => \A i \in 1..5 : Ahead[i] \in Nat
  <2> SUFFICES ASSUME ProbeIInv
               PROVE  \A i \in 1..5 : Ahead[i] \in Nat
    OBVIOUS
  <2>1. Ahead[1] \in Nat /\ Ahead[2] \in Nat /\ Ahead[3] \in Nat /\ Ahead[4] \in Nat /\ Ahead[5] \in Nat
    BY AheadIsNatural DEF Ahead
  <2> QED
    BY <2>1
<1> QED
  BY <1>1, ProbeInvariant, PTL
=============================================================================
