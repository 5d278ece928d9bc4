----------------------------- MODULE LanClients -----------------------------
(***************************************************************************)
(* Teammates fetching a shared baseline: `snagify compare --lan`, which    *)
(* discovers the share by mDNS, and `snagify check --from`, which is given *)
(* its URL.  Shares start, run out of time or downloads, are stopped, and  *)
(* may be followed by another share on the same host and port; clients act *)
(* on what they learned some time ago.                                     *)
(*                                                                         *)
(* A share is reduced to what clients can see of it: whether it listens,   *)
(* its remaining downloads and its advertisement.  ShareServer has the     *)
(* server's own concurrency.  Every share has its own certificate, token   *)
(* and pairing code, so the share itself stands for each of them.          *)
(***************************************************************************)
EXTENDS Integers, Sequences, FiniteSets

CONSTANTS
  Shares,      (* runs of the share command, on one host *)
  Clients,     (* runs of compare or check --from *)
  Offers,      (* how a share may be started: a set of records, OfferSpace *)
  Commands,    (* what clients may type: a set of records, CommandSpace *)
  Limit,       (* downloads allowed *)
  DefaultTTL,  (* what StartServer uses for a TTL that is not positive *)
  MaxTime,     (* bound of the clock *)
  None

Repos  == {"app", "lib"}
NoRepo == ""

(* The flags of a share: --repo, --open or a pairing code, --lan,          *)
(* --unsafe-http, --ttl and --port.                                        *)
OfferSpace == [repo : Repos, open : BOOLEAN, lan : BOOLEAN, unsafe : BOOLEAN,
               ttl : Int, port : Nat]

(* The arguments of a client: compare's repository, if any, and            *)
(* --code, or check's --from, --pin and --unsafe-http.                     *)
CommandSpace == [prog : {"compare", "check"}, repo : Repos \union {NoRepo},
                 code : Shares \union {None}, from : Shares \union {None},
                 pin : Shares \union {None}, unsafe : BOOLEAN]

ASSUME LanAssumption ==
  /\ None \notin Shares
  /\ Offers \subseteq OfferSpace
  /\ Commands \subseteq CommandSpace
  /\ Limit \in Nat \ {0}
  /\ DefaultTTL \in Nat \ {0}
  /\ MaxTime \in Nat \ {0}

(* None is none of the errors that a client may end with.                  *)
ASSUME NoneAssumption == None \notin {"no_pin", "code", "lost"}

VARIABLES
  now,       (* seconds; Unix time, so never 0 *)
  offer,     (* the flags each share was started with *)
  life,      (* "off", "up" or "ended" *)
  deadline,  (* when its TTL goroutine closes it *)
  left,      (* downloads it still allows *)
  ad,        (* its mDNS responder: "none", "on", "stopped" *)
  expires,   (* expires_at of its TXT record *)
  pc,        (* how far each client has got *)
  cmd,       (* what it was asked to do *)
  heard,     (* entries zeroconf delivered to Discover's goroutine *)
  list,      (* the slice that goroutine appends to *)
  shares,    (* what Discover returned *)
  chosen,    (* the share compare settled on *)
  url,       (* the share whose token URL the client holds *)
  data,      (* the share whose baseline the client downloaded *)
  exit,      (* exit code; None while running *)
  why        (* the error behind exit code 2 *)

shareVars  == <<offer, life, deadline, left, ad, expires>>
clientVars == <<pc, cmd, heard, list, shares, chosen, url, data, exit, why>>
vars       == <<now, shareVars, clientVars>>

AnOffer   == [repo |-> "app", open |-> FALSE, lan |-> FALSE, unsafe |-> FALSE,
              ttl |-> 1, port |-> 0]
ACommand  == [prog |-> "compare", repo |-> NoRepo, code |-> None, from |-> None,
              pin |-> None, unsafe |-> FALSE]

Init ==
  /\ now = 1
  /\ offer = [s \in Shares |-> AnOffer]
  /\ life = [s \in Shares |-> "off"]
  /\ deadline = [s \in Shares |-> 0]
  /\ left = [s \in Shares |-> Limit]
  /\ ad = [s \in Shares |-> "none"]
  /\ expires = [s \in Shares |-> 0]
  /\ pc = [c \in Clients |-> "idle"]
  /\ cmd = [c \in Clients |-> ACommand]
  /\ heard = [c \in Clients |-> <<>>]
  /\ list = [c \in Clients |-> <<>>]
  /\ shares = [c \in Clients |-> <<>>]
  /\ chosen = [c \in Clients |-> None]
  /\ url = [c \in Clients |-> None]
  /\ data = [c \in Clients |-> None]
  /\ exit = [c \in Clients |-> None]
  /\ why = [c \in Clients |-> None]

Tick ==
  /\ now < MaxTime
  /\ now' = now + 1
  /\ UNCHANGED <<shareVars, clientVars>>
-----------------------------------------------------------------------------
(* Shares.                                                                 *)

(* Mutant: a share that was closed goes on answering.                      *)
ListeningOn(p) == {s \in Shares : life[s] # "off" /\ offer[s].port = p}

Listening(p) == {s \in Shares : life[s] = "up" /\ offer[s].port = p}

EffectiveTTL(ttl) == IF ttl <= 0 THEN DefaultTTL ELSE ttl

(* The share command starts; two listeners cannot have one port.           *)
StartShare(s, o) ==
  /\ life[s] = "off"
  /\ Listening(o.port) = {}
  /\ life' = [life EXCEPT ![s] = "up"]
  /\ offer' = [offer EXCEPT ![s] = o]
  /\ deadline' = [deadline EXCEPT ![s] = now + EffectiveTTL(o.ttl)]
  /\ UNCHANGED <<now, left, ad, expires, clientVars>>

(* Mutant: seconds are cut twice, the record expires one second early.     *)
AdvertiseRounded(s) ==
  /\ life[s] = "up" /\ ad[s] = "none" /\ offer[s].lan
  /\ ad' = [ad EXCEPT ![s] = "on"]
  /\ expires' = [expires EXCEPT ![s] = now + offer[s].ttl - 1]
  /\ UNCHANGED <<now, offer, life, deadline, left, clientVars>>

(* advertiseLAN, some time later: the expiry is computed from the flag.    *)
Advertise(s) ==
  /\ life[s] = "up" /\ ad[s] = "none" /\ offer[s].lan
  /\ ad' = [ad EXCEPT ![s] = "on"]
  /\ expires' = [expires EXCEPT ![s] = now + offer[s].ttl]
  /\ UNCHANGED <<now, offer, life, deadline, left, clientVars>>

(* The share closes: its TTL, its limit, or Ctrl-C at any time.            *)
EndShare(s) ==
  /\ life[s] = "up"
  /\ life' = [life EXCEPT ![s] = "ended"]
  /\ UNCHANGED <<now, offer, deadline, left, ad, expires, clientVars>>

(* The command has returned from Wait and stops the advertisement.         *)
StopAd(s) ==
  /\ life[s] = "ended" /\ ad[s] = "on"
  /\ ad' = [ad EXCEPT ![s] = "stopped"]
  /\ UNCHANGED <<now, offer, life, deadline, left, expires, clientVars>>
-----------------------------------------------------------------------------
(* Clients: discovery.                                                     *)

End(c, code, reason) ==
  /\ pc' = [pc EXCEPT ![c] = "end"]
  /\ exit' = [exit EXCEPT ![c] = code]
  /\ why' = [why EXCEPT ![c] = reason]

(* The error paths: exit code 2 and nothing else.                          *)
Fail(c, reason) ==
  /\ End(c, 2, reason)
  /\ UNCHANGED <<now, shareVars, cmd, heard, list, shares, chosen, url, data>>

(* compare starts browsing; check captures the machine and has its URL.    *)
Run(c, m) ==
  /\ pc[c] = "idle"
  /\ m.prog = "check" => m.from # None /\ life[m.from] # "off"
  /\ cmd' = [cmd EXCEPT ![c] = m]
  /\ pc' = [pc EXCEPT ![c] = IF m.prog = "compare" THEN "browsing" ELSE "fetch"]
  /\ url' = [url EXCEPT ![c] = m.from]
  /\ UNCHANGED <<now, shareVars, heard, list, shares, chosen, data, exit, why>>

RunFails(c) == pc[c] = "idle" /\ Fail(c, "start")

(* Mutant: a channel with a buffer, which takes entries ahead of the       *)
(* goroutine.                                                              *)
HearAhead(c, s) ==
  /\ pc[c] = "browsing"
  /\ ad[s] = "on"
  /\ \A i \in 1..Len(heard[c]) : heard[c][i] # s
  /\ cmd[c].repo \in {NoRepo, offer[s].repo}
  /\ heard' = [heard EXCEPT ![c] = Append(@, s)]
  /\ UNCHANGED <<now, shareVars, pc, cmd, list, shares, chosen, url, data, exit, why>>

(* zeroconf hands over the entry of a responder that answered; the channel *)
(* has no buffer, so the goroutine has appended the one before.            *)
Hear(c, s) ==
  /\ pc[c] = "browsing"
  /\ ad[s] = "on"
  /\ \A i \in 1..Len(heard[c]) : heard[c][i] # s
  /\ heard[c] = list[c]
  /\ cmd[c].repo \in {NoRepo, offer[s].repo}
  /\ heard' = [heard EXCEPT ![c] = Append(@, s)]
  /\ UNCHANGED <<now, shareVars, pc, cmd, list, shares, chosen, url, data, exit, why>>

(* The goroutine appends the entry it received to the shared slice.        *)
AppendEntry(c) ==
  /\ pc[c] = "browsing"
  /\ heard[c] # list[c]
  /\ list' = [list EXCEPT ![c] = heard[c]]
  /\ UNCHANGED <<now, shareVars, pc, cmd, heard, shares, chosen, url, data, exit, why>>

(* Mutant: no browse timeout, Discover waits for a first entry.            *)
BrowseWaits(c) ==
  /\ pc[c] = "browsing"
  /\ list[c] # <<>>
  /\ shares' \in {[shares EXCEPT ![c] = l] : l \in {list[c], heard[c]}}
  /\ pc' = [pc EXCEPT ![c] = "choose"]
  /\ UNCHANGED <<now, shareVars, cmd, heard, list, chosen, url, data, exit, why>>

(* The browse times out and Discover returns the slice.  Nothing orders    *)
(* this read after the goroutine's last append: the entry in hand is in    *)
(* the result, is missing from it, or the slice header is read half        *)
(* written, which panics (exit code 2) when it is used.                    *)
BrowseEnds(c) ==
  /\ pc[c] = "browsing"
  /\ shares' \in {[shares EXCEPT ![c] = l] : l \in {list[c], heard[c]}}
  /\ pc' = [pc EXCEPT ![c] = "choose"]
  /\ UNCHANGED <<now, shareVars, cmd, heard, list, chosen, url, data, exit, why>>

BrowseTears(c) ==
  /\ pc[c] = "browsing"
  /\ heard[c] # list[c]
  /\ Fail(c, "panic")
-----------------------------------------------------------------------------
(* Clients: choosing a share.                                              *)

IsExpired(s) == expires[s] > 0 /\ now > expires[s]

(* The places in the result of Discover that have not expired ...          *)
Active(c) == {i \in 1..Len(shares[c]) : ~IsExpired(shares[c][i])}

(* ... and the share in the first of them.                                 *)
FirstActive(c) ==
  shares[c][CHOOSE i \in Active(c) : \A j \in Active(c) : i <= j]

NothingFound(c) ==
  /\ pc[c] = "choose"
  /\ Active(c) = {}
  /\ Fail(c, "nothing")

Ambiguous(c) ==
  /\ pc[c] = "choose"
  /\ Cardinality(Active(c)) > 1 /\ cmd[c].repo = NoRepo
  /\ Fail(c, "ambiguous")

Unambiguous(c) ==
  /\ pc[c] = "choose"
  /\ Active(c) # {}
  /\ Cardinality(Active(c)) = 1 \/ cmd[c].repo # NoRepo

(* The share has a pairing code and --code was not given.                  *)
NeedsCode(c) ==
  /\ Unambiguous(c)
  /\ ~offer[FirstActive(c)].open /\ cmd[c].code = None
  /\ Fail(c, "code")

Choose(c) ==
  /\ Unambiguous(c)
  /\ offer[FirstActive(c)].open \/ cmd[c].code # None
  /\ chosen' = [chosen EXCEPT ![c] = FirstActive(c)]
  /\ pc' = [pc EXCEPT ![c] = "resolve"]
  /\ UNCHANGED <<now, shareVars, cmd, heard, list, shares, url, data, exit, why>>
-----------------------------------------------------------------------------
(* Clients: the two requests.  share.Fetch refuses some of them before     *)
(* dialling; a TLS client talks only to the certificate it pinned, and a   *)
(* plain client only to a plain server.                                    *)

(* What becomes of a request sent to the port of share `to`, over TLS with *)
(* a pin, or in the clear.                                                 *)
Reached(to, tls, pin) ==
  {s \in Listening(offer[to].port) : IF tls THEN ~offer[s].unsafe /\ pin = s
                                            ELSE offer[s].unsafe}

WrongPin(to, tls, pin) ==
  tls /\ \E s \in Listening(offer[to].port) : ~offer[s].unsafe /\ pin # s

(* Mutant: any code passes.                                                *)
AnyCodeAccepted(s, code) == offer[s].open \/ code # None

(* The handlers' pairing-code gate.                                        *)
CodeAccepted(s, code) == offer[s].open \/ code = s

(* The pin compare takes from the TXT record; an --unsafe-http share       *)
(* advertises none.                                                        *)
AdvertisedPin(s) == IF offer[s].unsafe THEN None ELSE s

(* Mutant: handing out the token URL counts as a download.                 *)
ResolveCounts(c) ==
  LET pin == AdvertisedPin(chosen[c])
      at  == Reached(chosen[c], TRUE, pin)
  IN
  /\ pc[c] = "resolve"
  /\ pin # None
  /\ \E s \in at :
       /\ CodeAccepted(s, cmd[c].code)
       /\ url' = [url EXCEPT ![c] = s]
       /\ left' = [left EXCEPT ![s] = IF @ > 0 THEN @ - 1 ELSE 0]
  /\ pc' = [pc EXCEPT ![c] = "fetch"]
  /\ UNCHANGED <<now, offer, life, deadline, ad, expires, cmd, heard, list,
                 shares, chosen, data, exit, why>>

(* /resolve: always over https, with the advertised fingerprint.           *)
Resolve(c) ==
  LET pin == AdvertisedPin(chosen[c])
      at  == Reached(chosen[c], TRUE, pin)
  IN
  /\ pc[c] = "resolve"
  /\ pin # None
  /\ \E s \in at :
       /\ CodeAccepted(s, cmd[c].code)
       /\ url' = [url EXCEPT ![c] = s]
  /\ pc' = [pc EXCEPT ![c] = "fetch"]
  /\ UNCHANGED <<now, shareVars, cmd, heard, list, shares, chosen, data, exit, why>>

ResolveFails(c) ==
  LET pin == AdvertisedPin(chosen[c])
      at  == Reached(chosen[c], TRUE, pin)
  IN
  /\ pc[c] = "resolve"
  /\ \/ pin = None /\ Fail(c, "no_pin")
     \/ pin # None /\ WrongPin(chosen[c], TRUE, pin) /\ Fail(c, "pin")
     \/ pin # None /\ (\E s \in at : ~CodeAccepted(s, cmd[c].code)) /\ Fail(c, "code")
     \/ pin # None /\ Fail(c, "unreachable")

(* Mutant: compare does not hand the advertised pin to the download.       *)
PinLost(c) == IF cmd[c].prog = "compare" THEN None ELSE cmd[c].pin

Pin(c) == IF cmd[c].prog = "compare" THEN AdvertisedPin(chosen[c]) ELSE cmd[c].pin
Tls(c) == ~offer[url[c]].unsafe

(* check --from never sends a pairing code.                                *)
Code(c) == IF cmd[c].prog = "compare" THEN cmd[c].code ELSE None

(* Fetch refuses to dial: https without a pin, http without --unsafe-http. *)
Undialled(c) == IF Tls(c) THEN Pin(c) = None ELSE ~cmd[c].unsafe

(* Mutant: the server does not look at the token in the path.              *)
AdmittingAnyPath(c) == {s \in Reached(url[c], Tls(c), Pin(c)) : CodeAccepted(s, Code(c))}

(* The servers a download request of c gets through to, past the token     *)
(* path and the code.                                                      *)
Admitting(c) == {s \in Reached(url[c], Tls(c), Pin(c)) :
                   s = url[c] /\ CodeAccepted(s, Code(c))}

Fetch(c) ==
  /\ pc[c] = "fetch"
  /\ ~Undialled(c)
  /\ \E s \in Admitting(c) :
       /\ left[s] > 0
       /\ left' = [left EXCEPT ![s] = @ - 1]
       /\ data' = [data EXCEPT ![c] = s]
  /\ pc' = [pc EXCEPT ![c] = "compare"]
  /\ UNCHANGED <<now, offer, life, deadline, ad, expires,
                 cmd, heard, list, shares, chosen, url, exit, why>>

(* The response is lost after the server has counted it.                   *)
ResponseLost(c) ==
  /\ pc[c] = "fetch"
  /\ ~Undialled(c)
  /\ \E s \in Admitting(c) :
       /\ left[s] > 0
       /\ left' = [left EXCEPT ![s] = @ - 1]
  /\ End(c, 2, "lost")
  /\ UNCHANGED <<now, offer, life, deadline, ad, expires,
                 cmd, heard, list, shares, chosen, url, data>>

FetchFails(c) ==
  LET at == Reached(url[c], Tls(c), Pin(c)) IN
  /\ pc[c] = "fetch"
  /\ \/ Undialled(c) /\ Fail(c, "no_pin")
     \/ ~Undialled(c) /\ WrongPin(url[c], Tls(c), Pin(c)) /\ Fail(c, "pin")
     \/ ~Undialled(c) /\ (\E s \in at : s # url[c]) /\ Fail(c, "not_found")
     \/ ~Undialled(c) /\ (\E s \in at : s = url[c] /\ ~CodeAccepted(s, Code(c)))
          /\ Fail(c, "code")
     \/ ~Undialled(c) /\ (\E s \in Admitting(c) : left[s] = 0) /\ Fail(c, "limit")
     \/ ~Undialled(c) /\ Fail(c, "unreachable")

(* Parse the baseline, capture this machine (compare does so only now),    *)
(* compare and render: 0, 1 when there are critical items, 2 on an error.  *)
Compare(c) ==
  /\ pc[c] = "compare"
  /\ \E code \in 0..2 : End(c, code, IF code = 2 THEN "local" ELSE None)
  /\ UNCHANGED <<now, shareVars, cmd, heard, list, shares, chosen, url, data>>
-----------------------------------------------------------------------------
ShareStep(s) == (\E o \in Offers : StartShare(s, o)) \/ Advertise(s) \/ EndShare(s)

Discovery(c) == BrowseEnds(c) \/ BrowseTears(c)

Choosing(c) == NothingFound(c) \/ Ambiguous(c) \/ NeedsCode(c) \/ Choose(c)

Requesting(c) == Resolve(c) \/ ResolveFails(c) \/ Fetch(c) \/ ResponseLost(c)
                   \/ FetchFails(c) \/ Compare(c)

ClientStep(c) == Discovery(c) \/ Choosing(c) \/ Requesting(c)

Next ==
  \/ Tick
  \/ \E s \in Shares : ShareStep(s) \/ StopAd(s)
  \/ \E c \in Clients :
       \/ \E m \in Commands : Run(c, m)
       \/ RunFails(c)
       \/ \E s \in Shares : Hear(c, s)
       \/ AppendEntry(c)
       \/ ClientStep(c)

Spec == Init /\ [][Next]_vars

(* The browse has a timeout and so has every request; a share that has     *)
(* ended runs on to the end of its command.                                *)
FairSpec ==
  /\ Spec
  /\ \A c \in Clients : WF_vars(ClientStep(c))
  /\ \A s \in Shares : WF_vars(StopAd(s))
-----------------------------------------------------------------------------
TypeOK ==
  /\ now \in 1..MaxTime
  /\ offer \in [Shares -> OfferSpace]
  /\ life \in [Shares -> {"off", "up", "ended"}]
  /\ deadline \in [Shares -> Int]
  /\ left \in [Shares -> 0..Limit]
  /\ ad \in [Shares -> {"none", "on", "stopped"}]
  /\ expires \in [Shares -> Int]
  /\ pc \in [Clients -> {"idle", "browsing", "choose", "resolve", "fetch", "compare", "end"}]
  /\ cmd \in [Clients -> CommandSpace]
  /\ heard \in [Clients -> Seq(Shares)]
  /\ list \in [Clients -> Seq(Shares)]
  /\ shares \in [Clients -> Seq(Shares)]
  /\ chosen \in [Clients -> Shares \union {None}]
  /\ url \in [Clients -> Shares \union {None}]
  /\ data \in [Clients -> Shares \union {None}]
  /\ exit \in [Clients -> 0..2 \union {None}]

(* The share a client means: the one compare chose from its own discovery, *)
(* or the one whose URL check was given.                                   *)
Meant(c) == IF cmd[c].prog = "compare" THEN chosen[c] ELSE cmd[c].from

(* A client never compares with a baseline other than the one it meant,    *)
(* even when that share is over and another one, of another machine state, *)
(* has taken its host and port between discovery, resolve and download:    *)
(* the pin and the token path of the earlier share stand in the way.       *)
NeverTheWrongBaseline ==
  \A c \in Clients : data[c] # None => data[c] = Meant(c)

(* The same in unsafe mode relies on the token alone; in both, a client    *)
(* that lacks the code of a share that has one ends without its baseline.  *)
NoBaselineWithoutCode ==
  \A c \in Clients : data[c] # None /\ ~offer[data[c]].open =>
    cmd[c].prog = "compare" /\ cmd[c].code = data[c]

(* Asking /resolve for the URL costs the share nothing: a download is used *)
(* up only by a client that went on to the download itself.                *)
ResolveIsFree ==
  \A s \in Shares :
    Limit - left[s] <= Cardinality({c \in Clients : url[c] = s /\ pc[c] \in {"compare", "end"}})

(* Seen from its clients every share keeps the contract that the server's  *)
(* own concurrency was shown to keep (ShareServer): a ticket for each      *)
(* client that has its baseline or was counted and lost the answer, none   *)
(* for any other, and nothing once it is over, whichever shares went       *)
(* before it or come after it on its port.                                 *)
Quota(s) == INSTANCE ShareQuota
  WITH Requests  <- Clients,
       left      <- left[s],
       granted   <- {c \in Clients : data[c] = s \/ (why[c] = "lost" /\ url[c] = s)},
       delivered <- {c \in Clients : data[c] = s},
       over      <- life[s] = "ended"

(* \A s \in Shares : Quota(s)!QuotaSpec, in the form that TLC evaluates.   *)
EveryShareKeepsItsQuota ==
  /\ \A s \in Shares : Quota(s)!QuotaInit
  /\ [][\A s \in Shares : [Quota(s)!QuotaNext]_(Quota(s)!quotaVars)]_vars

(* A share that is up and within its time is never taken for expired, for  *)
(* all that its expiry is stamped later than its TTL timer was started.    *)
RunningShareIsNotExpired ==
  \A s \in Shares :
    life[s] = "up" /\ ad[s] = "on" /\ now <= deadline[s] => ~IsExpired(s)

(* Of what Discover was handed before its timeout, its unsynchronised      *)
(* result lacks at most the last entry, because no entry is handed over    *)
(* before the one ahead of it was appended (Discover, advertise.go).       *)
DiscoverMissesAtMostOne ==
  \A c \in Clients : pc[c] = "choose" =>
    shares[c] = heard[c] \/ \E s \in Shares : heard[c] = Append(shares[c], s)

(* Discover returns what mDNS delivered to it before its timeout ("It      *)
(* waits up to timeout for responses").                                    *)
DiscoverReturnsAllHeard ==
  \A c \in Clients : pc[c] = "choose" => shares[c] = heard[c]

(* The command a share prints for its teammates.                           *)
Printed(s) ==
  IF offer[s].lan
  THEN [prog |-> "compare", repo |-> offer[s].repo,
        code |-> IF offer[s].open THEN None ELSE s,
        from |-> None, pin |-> None, unsafe |-> FALSE]
  ELSE [prog |-> "check", repo |-> NoRepo, code |-> None, from |-> s,
        pin |-> IF offer[s].unsafe THEN None ELSE s, unsafe |-> offer[s].unsafe]

(* The flags with which the printed command can be carried out: compare    *)
(* resolves over TLS only, and check sends no code.                        *)
WellFlagged(o) == IF o.lan THEN ~o.unsafe ELSE o.open

TurnedAway(c) == pc[c] = "end" /\ why[c] \in {"no_pin", "code"}

(* Discover returned another share of the same repository, and what came   *)
(* before it had expired: compare took that one.                           *)
AnotherWasFirst(c, s) ==
  \E i \in DOMAIN shares[c] :
    /\ shares[c][i] # s /\ offer[shares[c][i]].repo = offer[s].repo
    /\ \A j \in 1..(i - 1) : IsExpired(shares[c][j])

(* A teammate who runs the command that a share printed is turned away for *)
(* want of a pin or of the right code in two cases only: the share has     *)
(* flags under which the command cannot work, or the command met another   *)
(* share of the repository first (cli/share.go, what compare and Fetch     *)
(* check before they dial, and the handlers' gate).                        *)
PrintedCommandIsEnough ==
  \A c \in Clients, s \in Shares :
    TurnedAway(c) /\ cmd[c] = Printed(s) =>
      ~WellFlagged(offer[s]) \/ AnotherWasFirst(c, s)

(* "Teammates can run:", followed by the command: whoever runs it is not   *)
(* turned away for want of a pin or a code.  In the two cases of           *)
(* PrintedCommandIsEnough the code does turn them away.                    *)
PrintedCommandWorks ==
  \A c \in Clients, s \in Shares : cmd[c] = Printed(s) => ~TurnedAway(c)

(* Every client command ends.                                              *)
ClientsEnd == \A c \in Clients : pc[c] \in {"browsing", "fetch"} ~> pc[c] = "end"

=============================================================================
