------------------------------ MODULE ProbeRun ------------------------------
(***************************************************************************)
(* The active probes of `snagify probe` and `snagify check`: every service *)
(* of the configuration is probed once, one after the other, and what was  *)
(* found is folded into the report and the exit code (internal/probe,      *)
(* internal/check/probes.go, internal/cli/probe.go).                       *)
(*                                                                         *)
(* The actors are the command, the clock, and the servers, which come and  *)
(* go, answer in pieces, hang up, or say nothing.  Time is counted in      *)
(* ticks.  A database answer is a sequence of tokens; a MySQL header is    *)
(* two of them, the first of which tells the length of what follows.       *)
(***************************************************************************)
EXTENDS Integers, Sequences

CONSTANTS
  Hosts,
  Configs,      (* the configurations that may be found, see ConfigSpace *)
  Answers,      (* what the database server on a host may say *)
  Certificate,  (* the certificate of a host *)
  Statuses,     (* the final HTTP statuses of a host *)
  CommandLines, (* the command lines, see FlagSpace *)
  TwoSeconds,   (* the timeout that replaces one that is not positive *)
  MaxDBRead,    (* the most that is read of a database server *)
  MaxChanges    (* bound of servers that start or stop during a run *)

Kinds     == {"tcp", "dns", "http", "tls", "postgres", "mysql", "redis"}
Databases == {"postgres", "mysql", "redis"}

(* timeout_ms, expected_status and warn_if_expires_within_days are 0, ""    *)
(* and 0 where they are not given or the kind of probe has none.           *)
ProbeSpace  == [kind : Kinds, name : STRING, host : Hosts, required : BOOLEAN,
                timeout : Nat, expected : STRING, within : Int]
ConfigSpace == [Kinds -> Seq(ProbeSpace)]
CertSpace   == [valid : BOOLEAN, expired : BOOLEAN, days : Int]
Tokens      == {"S", "N", "E", "len0", "len2", "len9", "seq", "v9", "v10", "5.7",
                "+PO", "NG", "-NOAUTH", "junk"}

(* What a probe may hear.                                                  *)
Sayings     == Tokens \union {"accepted", "address", "trusted", "untrusted"}
                 \union UNION {Statuses[h] : h \in Hosts}

(* One shape for all results: resolved is reachable, HTTP's ok handshake.  *)
Result      == [reachable : BOOLEAN, handshake : BOOLEAN, hostname : BOOLEAN,
                expired : BOOLEAN, days : Int]

FlagSpace   == [cmd : {"probe", "check"}, noNetwork : BOOLEAN, noTLS : BOOLEAN,
                timeout : Int, format : BOOLEAN]

ASSUME ProbeAssumption ==
  /\ Configs \subseteq ConfigSpace
  /\ \A c \in Configs : \A k \in Kinds : \A i \in 1..Len(c[k]) : c[k][i].kind = k
  /\ Answers \in [Hosts -> SUBSET Seq(Tokens)]
  /\ Certificate \in [Hosts -> CertSpace]
  /\ Statuses \in [Hosts -> SUBSET STRING]
  /\ CommandLines \subseteq FlagSpace
  /\ TwoSeconds \in Nat \ {0} /\ MaxDBRead \in Nat \ {0} /\ MaxChanges \in Nat

VARIABLES
  main,      (* where the command is *)
  code,      (* its exit code, -1 before it exits *)
  flags,     (* the command, --no-network, --no-tls, --timeout, --format *)
  cfg,       (* the content of .snagify.yaml *)
  stage,     (* what the current probe waits for *)
  left,      (* ticks left of that wait *)
  spent,     (* ticks since the current probe began *)
  said,      (* what the server has said to the current probe *)
  script,    (* what it would still say if nothing cuts it off *)
  results,   (* model.ProbeResults, in the order of the probes *)
  heard,     (* what was said to each finished probe *)
  verdicts,  (* the severity of the item each result became *)
  net,       (* how a host answers: up, refuses, silent *)
  changes

probing == <<stage, left, spent, said, script>>
found   == <<results, heard>>
world   == <<net, changes>>
vars    == <<main, code, flags, cfg, probing, found, verdicts, world>>

Init ==
  /\ main = "config" /\ code = -1
  /\ flags \in CommandLines
  /\ cfg \in Configs
  /\ stage = "idle" /\ left = 0 /\ spent = 0 /\ said = <<>> /\ script = <<>>
  /\ results = <<>> /\ heard = <<>> /\ verdicts = <<>>
  /\ net \in [Hosts -> {"up", "refuses", "silent"}]
  /\ changes = 0
-----------------------------------------------------------------------------
(* What is to be done.                                                     *)

HasActiveProbes == \E k \in Kinds : cfg[k] # <<>>

(* --no-network leaves out DNS and HTTP, --no-tls TLS, nothing the rest.   *)
Plan ==
  cfg["tcp"]
    \o (IF flags.noNetwork THEN <<>> ELSE cfg["dns"] \o cfg["http"])
    \o (IF flags.noTLS THEN <<>> ELSE cfg["tls"])
    \o cfg["postgres"] \o cfg["mysql"] \o cfg["redis"]

Probe == Plan[Len(results) + 1]

DefaultTimeout == IF flags.timeout <= 0 THEN TwoSeconds ELSE flags.timeout

(* TCP and database probes may have a timeout of their own.                *)
Timeout(p) ==
  IF p.kind \in Databases \union {"tcp"} /\ p.timeout > 0 THEN p.timeout ELSE DefaultTimeout

FirstStage(kind) ==
  CASE kind = "dns"  -> "lookup"
    [] kind = "http" -> "request"
    [] kind = "tls"  -> "verify"
    [] OTHER         -> "dial"

HeaderLen   == 2
PayloadLen  == [t \in Tokens |-> IF t = "len2" THEN 2 ELSE IF t = "len9" THEN 9 ELSE 0]
Plausible(t) == PayloadLen[t] \in 1..MaxDBRead
Body         == SubSeq(said, HeaderLen + 1, Len(said))

(* How much the current read asks for.                                     *)
Want ==
  CASE stage = "header" -> HeaderLen
    [] stage = "body"   -> HeaderLen + PayloadLen[said[1]]
    [] OTHER            -> IF Probe.kind = "postgres" THEN 1 ELSE MaxDBRead

Outcome(reachable, handshake) ==
  [reachable |-> reachable, handshake |-> handshake, hostname |-> FALSE,
   expired |-> FALSE, days |-> 0]

Down  == Outcome(FALSE, FALSE)
Up    == Outcome(TRUE, TRUE)
Gated == Outcome(TRUE, FALSE)

Shown(cert, hostname) ==
  [reachable |-> FALSE, handshake |-> TRUE, hostname |-> hostname,
   expired |-> cert.expired, days |-> cert.days]

SaysPong(s) == Len(s) >= 2 /\ s[1] = "+PO" /\ s[2] = "NG"

(* Whatever was said before the read was cut counts.                       *)
RedisResult(s, cut) ==
  IF cut /\ s = <<>> THEN Down
  ELSE IF SaysPong(s) THEN Up ELSE Gated

PostgresResult(s, cut) == IF cut \/ s[1] \notin {"S", "N"} THEN Down ELSE Up

(* The version byte is enough, whatever became of the rest.                *)
MySQLResult(body) == IF body # <<>> /\ body[1] = "v10" THEN Up ELSE Down
-----------------------------------------------------------------------------
(* The command up to its probes.                                           *)

ExitWith(c) ==
  /\ main' = "exited"
  /\ code' = c

(* No configuration, or one that does not parse, is exit code 2, and so is *)
(* for `probe` one that has nothing to probe.                              *)
LoadConfig ==
  /\ main = "config"
  /\ \/ ExitWith(2)
     \/ /\ flags.cmd = "probe" => HasActiveProbes
        /\ main' = "probing" /\ UNCHANGED code
  /\ UNCHANGED <<flags, cfg, probing, found, verdicts, world>>

Enter(s) ==
  /\ stage' = s
  /\ left' = Timeout(Probe)

Begin ==
  /\ main = "probing" /\ stage = "idle"
  /\ Len(results) < Len(Plan)
  /\ Enter(FirstStage(Probe.kind))
  /\ spent' = 0 /\ said' = <<>> /\ script' = <<>>
  /\ UNCHANGED <<main, code, flags, cfg, found, verdicts, world>>

Probing == UNCHANGED <<main, code, flags, cfg, verdicts, world>>

(* The probe ends with result r after the server said s.                   *)
Conclude(r, s) ==
  /\ results' = Append(results, r)
  /\ heard' = Append(heard, s)
  /\ stage' = "idle" /\ left' = 0 /\ spent' = 0 /\ said' = <<>> /\ script' = <<>>
  /\ Probing

Server == net[Probe.host]
-----------------------------------------------------------------------------
(* One probe.                                                              *)

(* The dial succeeds: that is all a TCP probe wants.  A database is asked, *)
(* or, MySQL, listened to.                                                 *)
Accepted ==
  /\ stage = "dial" /\ Server = "up"
  /\ IF Probe.kind = "tcp" THEN Conclude(Up, <<"accepted">>)
     ELSE /\ script' \in Answers[Probe.host]
          /\ Enter(IF Probe.kind = "mysql" THEN "header" ELSE "read")
          /\ UNCHANGED <<spent, said, found>> /\ Probing

(* The peer resets the connection before the ping is written.              *)
WriteFails ==
  /\ stage = "dial" /\ Server = "up"
  /\ Probe.kind \in {"postgres", "redis"}
  /\ Conclude(Down, <<>>)

LookedUp ==
  /\ stage = "lookup" /\ Server = "up"
  /\ Conclude(Up, <<"address">>)

ExpectedStatus(p) == IF p.expected = "" THEN "200" ELSE p.expected

(* Redirects have been followed; an unexpected status is not ok.           *)
Responds ==
  /\ stage = "request" /\ Server = "up"
  /\ \E status \in Statuses[Probe.host] :
       Conclude(Outcome(TRUE, status = ExpectedStatus(Probe)), <<status>>)

Trusted(cert) == cert.valid /\ ~cert.expired

VerifiedHandshake ==
  /\ stage = "verify" /\ Server = "up"
  /\ Trusted(Certificate[Probe.host])
  /\ Conclude(Shown(Certificate[Probe.host], TRUE), <<"trusted">>)

VerificationFails ==
  /\ stage = "verify" /\ Server = "up"
  /\ ~Trusted(Certificate[Probe.host])
  /\ said' = <<"untrusted">>
  /\ Enter("inspect")
  /\ UNCHANGED <<spent, script, found>> /\ Probing

(* The second handshake, without verification, tells a bad certificate     *)
(* from no TLS at all.                                                     *)
Inspected ==
  /\ stage = "inspect" /\ Server = "up"
  /\ Conclude(Shown(Certificate[Probe.host], FALSE), said)

(* Mutant: a handshake that fails for a reason of the moment is tried      *)
(* again.                                                                  *)
NoConnectionRetried ==
  /\ stage \in {"dial", "lookup", "request", "verify", "inspect"}
  /\ Server = "refuses" \/ left = 0
  /\ IF stage = "verify"
     THEN /\ Enter("verify")
          /\ UNCHANGED <<spent, said, script, found>> /\ Probing
     ELSE Conclude(Down, said)

(* The connection is refused, or its deadline passes.                      *)
NoConnection ==
  /\ stage \in {"dial", "lookup", "request", "verify", "inspect"}
  /\ Server = "refuses" \/ left = 0
  /\ IF stage = "verify"
     THEN /\ Enter("inspect")
          /\ UNCHANGED <<spent, said, script, found>> /\ Probing
     ELSE Conclude(Down, said)

Reading == stage \in {"read", "header", "body"}

(* Mutant: the deadline is set again before every read.                    *)
SaysRefreshing ==
  /\ Reading /\ script # <<>>
  /\ said' = Append(said, Head(script))
  /\ script' = Tail(script)
  /\ left' = Timeout(Probe)
  /\ UNCHANGED <<stage, spent, found>> /\ Probing

Says ==
  /\ Reading /\ script # <<>>
  /\ said' = Append(said, Head(script))
  /\ script' = Tail(script)
  /\ UNCHANGED <<stage, left, spent, found>> /\ Probing

(* readWith returns: the header leads to the body, if it is plausible, and *)
(* everything else to a result.                                            *)
Take(cut) ==
  IF stage = "header" /\ ~cut /\ Plausible(said[1])
  THEN /\ Enter("body")
       /\ UNCHANGED <<spent, said, script, found>> /\ Probing
  ELSE Conclude(CASE stage = "header" -> Down
                  [] stage = "body"   -> MySQLResult(Body)
                  [] Probe.kind = "postgres" -> PostgresResult(said, cut)
                  [] OTHER -> RedisResult(said, cut), said)

ReadComplete ==
  /\ Reading /\ Len(said) >= Want
  /\ Take(FALSE)

(* Mutant: no read deadline, only the peer ends a read.                    *)
ReadCutByPeer ==
  /\ Reading /\ Len(said) < Want /\ left > 0
  /\ Take(TRUE)

(* The peer closes, or the deadline passes, before all has been read.      *)
ReadCut ==
  /\ Reading /\ Len(said) < Want
  /\ Take(TRUE)

Tick ==
  /\ stage # "idle" /\ left > 0
  /\ left' = left - 1
  /\ spent' = spent + 1
  /\ UNCHANGED <<stage, said, script, found>> /\ Probing
-----------------------------------------------------------------------------
(* The report.                                                             *)

Severity(required) == IF required THEN "critical" ELSE "warning"

(* Mutant: the threshold of the first endpoint.                            *)
TLSThresholdFirst(name) == cfg["tls"][1].within

(* The threshold of the first endpoint of that name.                       *)
TLSThreshold(name) ==
  LET eps   == cfg["tls"]
      named == {i \in 1..Len(eps) : eps[i].name = name}
  IN  eps[CHOOSE i \in named : \A j \in named : i <= j].within

CheckTLSResult(p, r) ==
  IF ~r.handshake \/ ~r.hostname THEN Severity(p.required)
  ELSE IF r.expired THEN "critical"
  ELSE IF TLSThreshold(p.name) > 0 /\ r.days <= TLSThreshold(p.name) THEN "warning"
  ELSE "none"

(* Mutant: a database that answers but will not talk is unreachable.       *)
CheckDBResultStrict(p, r) ==
  IF r.reachable /\ r.handshake THEN "none" ELSE Severity(p.required)

(* A database that answers but will not talk is a warning.                 *)
CheckDBResult(p, r) ==
  IF r.reachable THEN (IF r.handshake THEN "none" ELSE "warning") ELSE Severity(p.required)

CheckProbe(p, r) ==
  CASE p.kind = "tls"          -> CheckTLSResult(p, r)
    [] p.kind \in Databases    -> CheckDBResult(p, r)
    [] p.kind = "dns"          -> IF r.reachable THEN "none" ELSE "critical"
    [] p.kind = "tcp"          -> IF r.reachable THEN "none" ELSE Severity(p.required)
    [] p.kind = "http"         -> IF r.handshake THEN "none" ELSE Severity(p.required)

(* checkProbes, Render and the exit code.                                  *)
Report ==
  /\ main = "probing" /\ stage = "idle"
  /\ Len(results) = Len(Plan)
  /\ verdicts' = [i \in 1..Len(Plan) |-> CheckProbe(Plan[i], results[i])]
  /\ ExitWith(IF ~flags.format THEN 2
              ELSE IF \E i \in 1..Len(Plan) : verdicts'[i] = "critical" THEN 1 ELSE 0)
  /\ UNCHANGED <<flags, cfg, probing, found, world>>

(* A server starts, stops, or falls silent.                                *)
NetChanges(h) ==
  /\ changes < MaxChanges
  /\ main = "probing"
  /\ changes' = changes + 1
  /\ \E s \in {"up", "refuses", "silent"} : net' = [net EXCEPT ![h] = s]
  /\ UNCHANGED <<main, code, flags, cfg, probing, found, verdicts>>

Connecting == Accepted \/ WriteFails \/ LookedUp \/ Responds \/ VerifiedHandshake
                \/ VerificationFails \/ Inspected \/ NoConnection

Next ==
  \/ LoadConfig \/ Begin \/ Report
  \/ Connecting
  \/ Says \/ ReadComplete \/ ReadCut
  \/ Tick
  \/ \E h \in Hosts : NetChanges(h)

Spec == Init /\ [][Next]_vars

(* The command runs and the clock ticks; nothing is asked of the servers.  *)
Fairness ==
  /\ WF_vars(LoadConfig \/ Begin \/ Report)
  /\ WF_vars(Tick)
  /\ WF_vars(left = 0 /\ (NoConnection \/ ReadCut))
  /\ WF_vars(ReadComplete)

FairSpec == Spec /\ Fairness
-----------------------------------------------------------------------------
(* Properties.                                                             *)

(* Every variable has its type, and results, what was heard and verdicts   *)
(* stay one for one.                                                       *)
TypeOK ==
  /\ main \in {"config", "probing", "exited"} /\ code \in -1..2
  /\ flags \in CommandLines
  /\ cfg \in Configs
  /\ stage \in {"idle", "dial", "lookup", "request", "verify", "inspect", "read", "header", "body"}
  /\ left \in Nat /\ spent \in Nat
  /\ said \in Seq(Sayings) /\ script \in Seq(Tokens)
  /\ results \in Seq(Result) /\ heard \in Seq(Seq(Sayings))
  /\ Len(heard) = Len(results) /\ Len(results) <= Len(Plan)
  /\ verdicts \in Seq({"none", "warning", "critical"})
  /\ net \in [Hosts -> {"up", "refuses", "silent"}]
  /\ changes \in Nat

(* What the configuration asks of a service, judged only from what the     *)
(* service said.                                                           *)
Served(p, s) ==
  CASE p.kind \in {"tcp", "dns"} -> s # <<>>
    [] p.kind = "http"     -> s = <<ExpectedStatus(p)>>
    [] p.kind = "tls"      -> s = <<"trusted">>
    [] p.kind = "postgres" -> s # <<>> /\ s[1] \in {"S", "N"}
    [] p.kind = "mysql"    -> /\ Len(s) >= 3 /\ s[3] = "v10" /\ Plausible(s[1])
    [] p.kind = "redis"    -> s # <<>>

Reported == Plan # <<>> /\ Len(verdicts) = Len(Plan) /\ flags.format

(* Exit code 1 means that a service that must be there did not do what the *)
(* configuration asks, 0 that all of them did (report.Failed and the exit  *)
(* codes of probe): whatever the pieces in which the answers came, and     *)
(* whatever cut them off.                                                  *)
ExitCodeTells ==
  Reported =>
    (code = IF \E i \in 1..Len(Plan) : /\ (Plan[i].required \/ Plan[i].kind = "dns")
                                        /\ ~Served(Plan[i], heard[i])
            THEN 1 ELSE 0)

(* What a service that does all it should may be warned of: an expiry      *)
(* within the days that its own endpoint asks for.                         *)
Clean(p, s) ==
  CASE p.kind = "redis" -> SaysPong(s)
    [] p.kind = "tls"   -> ~(p.within > 0 /\ Certificate[p.host].days <= p.within)
    [] OTHER            -> TRUE

(* If endpoints have different names, a service that did what was asked    *)
(* has no item exactly if nothing is wrong with it: the threshold of an    *)
(* expiry is that of its own endpoint, though it is looked up by the name, *)
(* and a Redis server that said PONG is clean, although the read that      *)
(* hears it asks for more and always ends with an error (tlsThreshold,     *)
(* readWith, probeRedis).                                                  *)
WarningsTell ==
  LET eps == cfg["tls"] IN
  Reported /\ (\A i, j \in 1..Len(eps) : eps[i].name = eps[j].name => i = j) =>
    \A i \in 1..Len(Plan) :
      Served(Plan[i], heard[i]) => (verdicts[i] = "none" <=> Clean(Plan[i], heard[i]))

(* "Handshake works but verification failed" (tls.go): said of an endpoint *)
(* only if its certificate was looked at and rejected.                     *)
TLSFailureIsReal ==
  \A i \in 1..Len(results) :
    Plan[i].kind = "tls" /\ results[i].handshake /\ ~results[i].hostname =>
      heard[i] = <<"untrusted">>

(* The waits of a probe, each with a deadline of its own: dial and read,   *)
(* or header and body; two handshakes.                                     *)
Rounds(kind) ==
  CASE kind = "mysql" -> 3
    [] kind \in {"postgres", "redis", "tls"} -> 2
    [] OTHER -> 1

(* What the calls still to be answered may take.                           *)
Budget(p) == Rounds(p.kind) * Timeout(p)
Budgets   == [i \in 1..(Len(Plan) - Len(results)) |-> Budget(Plan[Len(results) + i])]

Contract == INSTANCE ProbeContract WITH todo <- Budgets, waited <- spent

(* Every probe is answered once, in order, and within its deadlines: one   *)
(* for most, two for a dial with a read or for two handshakes, three for   *)
(* MySQL (DialTimeout, SetReadDeadline, Dialer.Timeout).                   *)
KeepsItsBudgets == Contract!Spec

(* How much is still ahead of the command, from the coarsest to the finest:*)
(* its stages, probes without a result, waits of the current probe (a dial *)
(* or a first handshake comes before the others), ticks, pieces.           *)
StagesLeft == CASE main = "config" -> 2 [] main = "probing" -> 1 [] OTHER -> 0

WaitsLeft ==
  CASE stage = "idle" -> 4
    [] stage \in {"dial", "verify"} -> 3
    [] stage = "header" -> 2
    [] OTHER -> 1

Ahead == <<StagesLeft, Len(Plan) - Len(results), WaitsLeft, left, Len(script)>>

Precedes(a, b) == \E i \in 1..5 : a[i] < b[i] /\ \A j \in 1..(i - 1) : a[j] = b[j]

(* Nothing is tried twice: every step but those of the net brings the      *)
(* command nearer to its end, in the order in which nothing can descend    *)
(* for ever.  No probe is repeated, no wait begun again, no deadline       *)
(* extended (tls.go's second handshake is a wait of its own; the reads of  *)
(* db.go share one deadline, but for MySQL's header and body).             *)
NothingIsTriedTwice == [][changes' = changes => Precedes(Ahead', Ahead)]_vars

(* The command ends whatever the servers do: no read waits for ever.       *)
ProbeEnds == <>(main = "exited")
=============================================================================
