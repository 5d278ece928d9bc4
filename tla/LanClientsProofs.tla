-------------------------- MODULE LanClientsProofs --------------------------
(* Proofs about the clients: stale knowledge of a share never leads to the  *)
(* baseline of another one.                                                 *)
EXTENDS LanClients, FiniteSetTheorems, WellFoundedInduction, TLAPS

(* The downloads of a client so far, in terms of what it asked for.        *)
ClientIInv ==
  /\ DOMAIN pc = Clients /\ DOMAIN cmd = Clients /\ DOMAIN chosen = Clients
  /\ DOMAIN url = Clients /\ DOMAIN data = Clients
  /\ \A c \in Clients :
       /\ pc[c] \in {"idle", "browsing", "choose", "resolve", "fetch"} => data[c] = None
       /\ pc[c] \in {"browsing", "choose", "resolve"} => cmd[c].prog = "compare"
       /\ pc[c] = "fetch" => url[c] = Meant(c)
       /\ data[c] # None => data[c] = Meant(c)

(* A step of one client leaves the others as they are.                     *)
LEMMA OneClient ==
  ASSUME ClientIInv, NEW c \in Clients,
         DOMAIN pc' = Clients, DOMAIN cmd' = Clients, DOMAIN chosen' = Clients,
         DOMAIN url' = Clients, DOMAIN data' = Clients,
         \A d \in Clients \ {c} :
           /\ pc'[d] = pc[d] /\ cmd'[d] = cmd[d] /\ chosen'[d] = chosen[d]
           /\ url'[d] = url[d] /\ data'[d] = data[d],
         pc'[c] \in {"idle", "browsing", "choose", "resolve", "fetch"} => data'[c] = None,
         pc'[c] \in {"browsing", "choose", "resolve"} => cmd'[c].prog = "compare",
         pc'[c] = "fetch" => url'[c] = Meant(c)',
         data'[c] # None => data'[c] = Meant(c)'
  PROVE  ClientIInv'
BY DEF ClientIInv, Meant

LEMMA FailStep == ASSUME ClientIInv, NEW c \in Clients, NEW r, Fail(c, r) PROVE ClientIInv'
<1>1. /\ pc' = [pc EXCEPT ![c] = "end"]
      /\ UNCHANGED <<cmd, chosen, url, data>>
  BY DEF Fail, End
<1> QED BY <1>1, OneClient DEF ClientIInv, Meant

LEMMA RunStep ==
  ASSUME ClientIInv, NEW c \in Clients, NEW m \in Commands, Run(c, m) PROVE ClientIInv'
<1>1. m.prog \in {"compare", "check"}
  BY LanAssumption DEF CommandSpace
<1>2. /\ pc[c] = "idle" /\ data[c] = None
      /\ cmd' = [cmd EXCEPT ![c] = m]
      /\ pc' = [pc EXCEPT ![c] = IF m.prog = "compare" THEN "browsing" ELSE "fetch"]
      /\ url' = [url EXCEPT ![c] = m.from]
      /\ UNCHANGED <<chosen, data>>
  BY DEF Run, ClientIInv
<1>3. CASE m.prog = "compare"
  BY <1>2, <1>3, OneClient DEF ClientIInv, Meant
<1>4. CASE m.prog = "check"
  BY <1>2, <1>4, OneClient DEF ClientIInv, Meant
<1> QED BY <1>1, <1>3, <1>4

LEMMA DiscoveryStep ==
  ASSUME ClientIInv, NEW c \in Clients, BrowseEnds(c) \/ Choose(c) PROVE ClientIInv'
<1>1. CASE BrowseEnds(c)
  <2>1. pc[c] = "browsing" /\ pc' = [pc EXCEPT ![c] = "choose"]
          /\ UNCHANGED <<cmd, chosen, url, data>>
    BY <1>1 DEF BrowseEnds
  <2> QED BY <2>1, OneClient DEF ClientIInv, Meant
<1>2. CASE Choose(c)
  <2>1. /\ pc[c] = "choose" /\ pc' = [pc EXCEPT ![c] = "resolve"]
        /\ chosen' = [chosen EXCEPT ![c] = FirstActive(c)]
        /\ UNCHANGED <<cmd, url, data>>
    BY <1>2 DEF Choose, Unambiguous
  <2>2. data[c] = None /\ cmd[c].prog = "compare"
    BY <2>1 DEF ClientIInv
  <2> QED BY <2>1, <2>2, OneClient DEF ClientIInv, Meant
<1> QED BY <1>1, <1>2

(* The answer of /resolve comes from the share whose pin compare holds:    *)
(* whichever share has the port by now, its URL is that of the chosen one. *)
LEMMA ResolveStep == ASSUME ClientIInv, NEW c \in Clients, Resolve(c) PROVE ClientIInv'
<1>1. PICK s \in Reached(chosen[c], TRUE, AdvertisedPin(chosen[c])) :
        url' = [url EXCEPT ![c] = s] /\ AdvertisedPin(chosen[c]) # None
  BY DEF Resolve
<1>2. s = chosen[c]
  BY <1>1 DEF Reached, AdvertisedPin
<1>3. /\ pc[c] = "resolve" /\ pc' = [pc EXCEPT ![c] = "fetch"]
      /\ UNCHANGED <<cmd, chosen, data>>
  BY DEF Resolve
<1>4. data[c] = None /\ cmd[c].prog = "compare"
  BY <1>3 DEF ClientIInv
<1> QED BY <1>1, <1>2, <1>3, <1>4, OneClient DEF ClientIInv, Meant

(* A download is answered only by the share of the token URL.              *)
LEMMA FetchStep == ASSUME ClientIInv, NEW c \in Clients, Fetch(c) PROVE ClientIInv'
<1>1. PICK s \in Admitting(c) : data' = [data EXCEPT ![c] = s]
  BY DEF Fetch
<1>2. s = url[c]
  BY <1>1 DEF Admitting
<1>3. /\ pc[c] = "fetch" /\ pc' = [pc EXCEPT ![c] = "compare"]
      /\ UNCHANGED <<cmd, chosen, url>>
  BY DEF Fetch
<1>4. url[c] = Meant(c)
  BY <1>3 DEF ClientIInv
<1> QED BY <1>1, <1>2, <1>3, <1>4, OneClient DEF ClientIInv, Meant

LEMMA EndingStep ==
  ASSUME ClientIInv, NEW c \in Clients, ResponseLost(c) \/ Compare(c) PROVE ClientIInv'
<1>1. pc' = [pc EXCEPT ![c] = "end"] /\ UNCHANGED <<cmd, chosen, url, data>>
  BY DEF ResponseLost, Compare, End
<1> QED BY <1>1, OneClient DEF ClientIInv, Meant

LEMMA FailingStep ==
  ASSUME ClientIInv, NEW c \in Clients,
         RunFails(c) \/ BrowseTears(c) \/ NothingFound(c) \/ Ambiguous(c) \/ NeedsCode(c)
           \/ ResolveFails(c) \/ FetchFails(c)
  PROVE  ClientIInv'
<1>1. \E r : Fail(c, r)
  <2>1. CASE RunFails(c)
    BY <2>1 DEF RunFails
  <2>2. CASE BrowseTears(c)
    BY <2>2 DEF BrowseTears
  <2>3. CASE NothingFound(c)
    BY <2>3 DEF NothingFound
  <2>4. CASE Ambiguous(c)
    BY <2>4 DEF Ambiguous
  <2>5. CASE NeedsCode(c)
    BY <2>5 DEF NeedsCode
  <2>6. CASE ResolveFails(c)
    BY <2>6 DEF ResolveFails
  <2>7. CASE FetchFails(c)
    BY <2>7 DEF FetchFails
  <2> QED BY <2>1, <2>2, <2>3, <2>4, <2>5, <2>6, <2>7
<1> QED BY <1>1, FailStep

(* Everything else leaves what the client asked, chose and holds alone.    *)
LEMMA OtherStep == ASSUME ClientIInv, UNCHANGED <<pc, cmd, chosen, url, data>> PROVE ClientIInv'
BY DEF ClientIInv, Meant

(* The invariant of the clients.                                           *)
THEOREM ClientInvariant == Spec => []ClientIInv
<1>1. Init => ClientIInv
  BY DEF Init, ClientIInv, ACommand
<1>2. ClientIInv /\ [Next]_vars => ClientIInv'
  <2> SUFFICES ASSUME ClientIInv, [Next]_vars PROVE ClientIInv'
    OBVIOUS
  <2>1. CASE Tick \/ (\E s \in Shares : ShareStep(s) \/ StopAd(s)) \/ UNCHANGED vars
    <3>1. UNCHANGED <<pc, cmd, chosen, url, data>>
      BY <2>1 DEF Tick, ShareStep, StopAd, StartShare, Advertise, EndShare, vars, clientVars
    <3> QED BY <3>1, OtherStep
  <2>2. ASSUME NEW c \in Clients,
               (\E s \in Shares : Hear(c, s)) \/ AppendEntry(c)
        PROVE  ClientIInv'
    <3>1. UNCHANGED <<pc, cmd, chosen, url, data>>
      BY <2>2 DEF Hear, AppendEntry
    <3> QED BY <3>1, OtherStep
  <2>3. ASSUME NEW c \in Clients, (\E m \in Commands : Run(c, m)) \/ RunFails(c)
        PROVE  ClientIInv'
    BY <2>3, RunStep, FailingStep
  <2>4. ASSUME NEW c \in Clients, ClientStep(c)
        PROVE  ClientIInv'
    BY <2>4, DiscoveryStep, ResolveStep, FetchStep, EndingStep, FailingStep
       DEF ClientStep, Discovery, Choosing, Requesting
  <2> QED BY <2>1, <2>2, <2>3, <2>4 DEF Next
<1> QED BY <1>1, <1>2, PTL DEF Spec

(* No client compares with a baseline it did not mean, for any number of   *)
(* shares that follow one another on a host and port and any timing of the *)
(* discovery, the resolve request and the download.                        *)
THEOREM RightBaseline == Spec => []NeverTheWrongBaseline
<1>1. ClientIInv => NeverTheWrongBaseline
  BY DEF ClientIInv, NeverTheWrongBaseline
<1> QED BY <1>1, ClientInvariant, PTL
-----------------------------------------------------------------------------
(* Behind a pairing code.                                                  *)

CodeIInv ==
  /\ DOMAIN offer = Shares /\ DOMAIN life = Shares
  /\ \A c \in Clients : data[c] # None =>
       /\ data[c] \in Shares /\ life[data[c]] # "off"
       /\ ~offer[data[c]].open => cmd[c].prog = "compare" /\ cmd[c].code = data[c]

(* The flags of a share that was started do not change.                    *)
LEMMA ShareKeepsFlags ==
  ASSUME CodeIInv, NEW s \in Shares, ShareStep(s) \/ StopAd(s)
  PROVE  /\ DOMAIN offer' = Shares /\ DOMAIN life' = Shares /\ UNCHANGED <<data, cmd>>
         /\ \A t \in Shares : life[t] # "off" => life'[t] # "off" /\ offer'[t] = offer[t]
<1>1. CASE \E o \in Offers : StartShare(s, o)
  BY <1>1 DEF StartShare, CodeIInv, clientVars
<1>2. CASE EndShare(s)
  BY <1>2 DEF EndShare, CodeIInv, clientVars
<1>3. CASE Advertise(s) \/ StopAd(s)
  BY <1>3 DEF Advertise, StopAd, CodeIInv, clientVars
<1> QED
  BY <1>1, <1>2, <1>3 DEF ShareStep

(* The server a download comes from has checked the code it was sent.      *)
LEMMA FetchNeedsCode ==
  ASSUME ClientIInv, CodeIInv, NEW c \in Clients, Fetch(c)
  PROVE  CodeIInv'
<1>1. PICK s \in Admitting(c) : data' = [data EXCEPT ![c] = s]
  BY DEF Fetch
<1>2. s \in Shares /\ life[s] = "up" /\ (offer[s].open \/ Code(c) = s)
  BY <1>1 DEF Admitting, Reached, Listening, CodeAccepted
<1>3. ~offer[s].open => cmd[c].prog = "compare" /\ cmd[c].code = s
  BY <1>2, LanAssumption DEF Code
<1>4. UNCHANGED <<offer, life, cmd>>
  BY DEF Fetch
<1>5. data'[c] = s /\ \A d \in Clients : d # c => data'[d] = data[d]
  BY <1>1 DEF ClientIInv
<1> QED
  BY <1>2, <1>3, <1>4, <1>5 DEF CodeIInv

(* A command is typed before there is any data.                            *)
LEMMA RunHasNoData ==
  ASSUME ClientIInv, CodeIInv, NEW c \in Clients, NEW m \in Commands, Run(c, m)
  PROVE  CodeIInv'
<1>1. data[c] = None /\ UNCHANGED <<offer, life, data>> /\ cmd' = [cmd EXCEPT ![c] = m]
  BY DEF Run, ClientIInv, shareVars
<1>2. \A d \in Clients : d # c => cmd'[d] = cmd[d]
  BY <1>1 DEF ClientIInv
<1> QED
  BY <1>1, <1>2 DEF CodeIInv

LEMMA SameFlags == ASSUME CodeIInv, UNCHANGED <<offer, life, data, cmd>> PROVE CodeIInv'
BY DEF CodeIInv

(* Whatever is shared behind a pairing code is had only by compare with    *)
(* that share's code (the gate in the handlers of internal/share, the      *)
(* --code of compare; check --from sends none).                            *)
THEOREM CodeIsNeeded == Spec => []NoBaselineWithoutCode
<1>1. Init => CodeIInv
  BY DEF Init, CodeIInv
<1>2. ClientIInv /\ CodeIInv /\ [Next]_vars => CodeIInv'
  <2> SUFFICES ASSUME ClientIInv, CodeIInv, [Next]_vars PROVE CodeIInv'
    OBVIOUS
  <2>1. CASE Tick \/ UNCHANGED vars
    BY <2>1, SameFlags DEF Tick, vars, shareVars, clientVars
  <2>2. ASSUME NEW s \in Shares, ShareStep(s) \/ StopAd(s)
        PROVE  CodeIInv'
    BY <2>2, ShareKeepsFlags DEF CodeIInv
  <2>3. ASSUME NEW c \in Clients, \E m \in Commands : Run(c, m)
        PROVE  CodeIInv'
    BY <2>3, RunHasNoData
  <2>4. ASSUME NEW c \in Clients, RunFails(c) \/ (\E s \in Shares : Hear(c, s)) \/ AppendEntry(c)
        PROVE  CodeIInv'
    BY <2>4, SameFlags DEF RunFails, Hear, AppendEntry, Fail, shareVars
  <2>5. ASSUME NEW c \in Clients, Discovery(c) \/ Choosing(c)
        PROVE  CodeIInv'
    BY <2>5, SameFlags DEF Discovery, BrowseEnds, BrowseTears, Choosing, NothingFound, Ambiguous,
                           NeedsCode, Choose, Fail, shareVars
  <2>6. ASSUME NEW c \in Clients, Requesting(c)
        PROVE  CodeIInv'
    BY <2>6, FetchNeedsCode, SameFlags DEF Requesting, Resolve, ResolveFails, ResponseLost,
                                           FetchFails, Compare, Fail, shareVars
  <2> QED
    BY <2>1, <2>2, <2>3, <2>4, <2>5, <2>6 DEF Next, ClientStep
<1>3. CodeIInv => NoBaselineWithoutCode
  BY DEF CodeIInv, NoBaselineWithoutCode
<1> QED
  BY <1>1, <1>2, <1>3, ClientInvariant, PTL DEF Spec
-----------------------------------------------------------------------------
(* Expiry.                                                                 *)

(* The record of a share expires no earlier than its timer.                *)
ExpiryIInv ==
  /\ now \in Int
  /\ offer \in [Shares -> OfferSpace] /\ life \in [Shares -> {"off", "up", "ended"}]
  /\ deadline \in [Shares -> Int] /\ ad \in [Shares -> {"none", "on", "stopped"}]
  /\ expires \in [Shares -> Int]
  /\ \A s \in Shares :
       /\ life[s] = "off" => ad[s] = "none"
       /\ life[s] # "off" => deadline[s] <= now + offer[s].ttl
       /\ ad[s] = "on" => deadline[s] <= expires[s]

LEMMA StartExpiry ==
  ASSUME \A o \in Offers : o.ttl > 0, ExpiryIInv, NEW s \in Shares, NEW o \in Offers, StartShare(s, o)
  PROVE  ExpiryIInv'
<1>1. o \in OfferSpace /\ o.ttl \in Int /\ o.ttl > 0
  BY LanAssumption DEF OfferSpace
<1>2. EffectiveTTL(o.ttl) = o.ttl
  BY <1>1 DEF EffectiveTTL
<1>3. /\ life[s] = "off" /\ UNCHANGED <<now, ad, expires>>
      /\ life' = [life EXCEPT ![s] = "up"] /\ offer' = [offer EXCEPT ![s] = o]
      /\ deadline' = [deadline EXCEPT ![s] = now + o.ttl]
  BY <1>2 DEF StartShare
<1>4. /\ life' \in [Shares -> {"off", "up", "ended"}] /\ offer' \in [Shares -> OfferSpace]
      /\ deadline' \in [Shares -> Int]
  BY <1>1, <1>3 DEF ExpiryIInv
<1>5. /\ life'[s] = "up" /\ offer'[s] = o /\ deadline'[s] = now + o.ttl
      /\ \A t \in Shares : t # s => life'[t] = life[t] /\ offer'[t] = offer[t] /\ deadline'[t] = deadline[t]
  BY <1>3 DEF ExpiryIInv
<1>6. ASSUME NEW t \in Shares
      PROVE  /\ life'[t] = "off" => ad'[t] = "none"
             /\ life'[t] # "off" => deadline'[t] <= now' + offer'[t].ttl
             /\ ad'[t] = "on" => deadline'[t] <= expires'[t]
  <2>1. CASE t = s
    BY <1>1, <1>3, <1>5, <2>1 DEF ExpiryIInv
  <2>2. CASE t # s
    BY <1>3, <1>5, <2>2 DEF ExpiryIInv
  <2> QED
    BY <2>1, <2>2
<1> QED
  BY <1>3, <1>4, <1>6 DEF ExpiryIInv

LEMMA OtherExpiry ==
  ASSUME ExpiryIInv, NEW s \in Shares, Advertise(s) \/ EndShare(s) \/ StopAd(s)
  PROVE  ExpiryIInv'
<1>1. \A t \in Shares : offer[t].ttl \in Int
  BY DEF ExpiryIInv, OfferSpace
<1>2. CASE Advertise(s)
  <2>1. /\ life[s] = "up" /\ UNCHANGED <<now, offer, life, deadline>>
        /\ ad' = [ad EXCEPT ![s] = "on"] /\ expires' = [expires EXCEPT ![s] = now + offer[s].ttl]
    BY <1>2 DEF Advertise
  <2>2. /\ ad' \in [Shares -> {"none", "on", "stopped"}] /\ expires' \in [Shares -> Int]
        /\ expires'[s] = now + offer[s].ttl
        /\ \A t \in Shares : t # s => ad'[t] = ad[t] /\ expires'[t] = expires[t]
    BY <1>1, <2>1 DEF ExpiryIInv
  <2> QED
    BY <1>1, <2>1, <2>2 DEF ExpiryIInv
<1>3. CASE EndShare(s)
  BY <1>3 DEF EndShare, ExpiryIInv
<1>4. CASE StopAd(s)
  BY <1>4 DEF StopAd, ExpiryIInv
<1> QED
  BY <1>2, <1>3, <1>4

LEMMA TickExpiry == ASSUME ExpiryIInv, Tick PROVE ExpiryIInv'
<1>1. \A t \in Shares : offer[t].ttl \in Int /\ deadline[t] \in Int
  BY DEF ExpiryIInv, OfferSpace
<1>2. now' = now + 1 /\ UNCHANGED <<offer, life, deadline, ad, expires>>
  BY DEF Tick, shareVars
<1> QED
  BY <1>1, <1>2 DEF ExpiryIInv

LEMMA SameExpiry == ASSUME ExpiryIInv, UNCHANGED <<now, offer, life, deadline, ad, expires>> PROVE ExpiryIInv'
BY DEF ExpiryIInv

(* A client's step is none of the shares'.                                 *)
LEMMA ClientsDoNotAdvertise ==
  ASSUME NEW c \in Clients,
         \/ (\E m \in Commands : Run(c, m)) \/ RunFails(c)
         \/ (\E s \in Shares : Hear(c, s)) \/ AppendEntry(c) \/ ClientStep(c)
  PROVE  UNCHANGED <<now, offer, life, deadline, ad, expires>>
<1>1. CASE (\E m \in Commands : Run(c, m)) \/ RunFails(c) \/ (\E s \in Shares : Hear(c, s)) \/ AppendEntry(c)
  BY <1>1 DEF Run, RunFails, Hear, AppendEntry, Fail, shareVars
<1>2. CASE Discovery(c) \/ Choosing(c)
  BY <1>2 DEF Discovery, BrowseEnds, BrowseTears, Choosing, NothingFound, Ambiguous, NeedsCode, Choose,
              Fail, shareVars
<1>3. CASE Requesting(c)
  BY <1>3 DEF Requesting, Resolve, ResolveFails, Fetch, ResponseLost, FetchFails, Compare, Fail, shareVars
<1> QED
  BY <1>1, <1>2, <1>3 DEF ClientStep

(* Shares of a positive --ttl are never taken for expired while they run,  *)
(* however late the advertisement is made (advertiseLAN in cli/share.go;   *)
(* IsExpired of internal/lan).                                             *)
THEOREM RunningSharesAreCurrent ==
  ASSUME \A o \in Offers : o.ttl > 0
  PROVE  Spec => []RunningShareIsNotExpired
<1>1. Init => ExpiryIInv
  BY DEF Init, ExpiryIInv, AnOffer, OfferSpace, Repos
<1>2. ExpiryIInv /\ [Next]_vars => ExpiryIInv'
  <2> SUFFICES ASSUME ExpiryIInv, [Next]_vars PROVE ExpiryIInv'
    OBVIOUS
  <2>1. CASE Tick
    BY <2>1, TickExpiry
  <2>2. CASE UNCHANGED vars
    BY <2>2, SameExpiry DEF vars, shareVars
  <2>3. ASSUME NEW s \in Shares, ShareStep(s) \/ StopAd(s)
        PROVE  ExpiryIInv'
    BY <2>3, StartExpiry, OtherExpiry DEF ShareStep
  <2>4. ASSUME NEW c \in Clients,
               \/ (\E m \in Commands : Run(c, m)) \/ RunFails(c)
               \/ (\E s \in Shares : Hear(c, s)) \/ AppendEntry(c) \/ ClientStep(c)
        PROVE  ExpiryIInv'
    BY <2>4, ClientsDoNotAdvertise, SameExpiry
  <2> QED
    BY <2>1, <2>2, <2>3, <2>4 DEF Next
<1>3. ExpiryIInv => RunningShareIsNotExpired
  BY DEF ExpiryIInv, RunningShareIsNotExpired, IsExpired
<1> QED
  BY <1>1, <1>2, <1>3, PTL DEF Spec
-----------------------------------------------------------------------------
(* What a download costs.                                                  *)

(* Those who have gone on to the download of s, successfully or not.       *)
Past(s) == {c \in Clients : url[c] = s /\ pc[c] \in {"compare", "end"}}

CostIInv ==
  /\ left \in [Shares -> Int] /\ DOMAIN pc = Clients /\ DOMAIN url = Clients
  /\ \A s \in Shares : Limit - left[s] <= Cardinality(Past(s))

LEMMA PastIsFinite ==
  ASSUME IsFiniteSet(Clients), NEW s \in Shares
  PROVE  IsFiniteSet(Past(s)) /\ IsFiniteSet(Past(s))'
<1>1. Past(s) \subseteq Clients /\ Past(s)' \subseteq Clients
  BY DEF Past
<1> QED
  BY <1>1, FS_Subset

(* A step that costs nothing and takes nobody back.                        *)
LEMMA FreeStep ==
  ASSUME IsFiniteSet(Clients), CostIInv, UNCHANGED left, DOMAIN pc' = Clients, DOMAIN url' = Clients,
         \A c \in Clients : pc[c] \in {"compare", "end"} => pc'[c] \in {"compare", "end"} /\ url'[c] = url[c]
  PROVE  CostIInv'
<1>1. ASSUME NEW s \in Shares
      PROVE  Limit - left[s] <= Cardinality(Past(s)')
  <2>1. Past(s) \subseteq Past(s)'
    BY DEF Past
  <2>2. /\ Cardinality(Past(s)) <= Cardinality(Past(s)')
        /\ Cardinality(Past(s)) \in Nat /\ Cardinality(Past(s)') \in Nat
    BY <2>1, PastIsFinite, FS_Subset, FS_CardinalityType
  <2>3. Limit - left[s] <= Cardinality(Past(s)) /\ Limit \in Int /\ left[s] \in Int
    BY LanAssumption DEF CostIInv
  <2> QED
    BY <2>2, <2>3
<1> QED
  BY <1>1 DEF CostIInv

(* A download is paid for by a client that is past it from then on.        *)
LEMMA PaidStep ==
  ASSUME IsFiniteSet(Clients), CostIInv, NEW c \in Clients, Fetch(c) \/ ResponseLost(c)
  PROVE  CostIInv'
<1>1. PICK s \in Admitting(c) : left' = [left EXCEPT ![s] = left[s] - 1]
  BY DEF Fetch, ResponseLost
<1>2. s = url[c] /\ s \in Shares
  BY <1>1 DEF Admitting, Reached, Listening
<1>3. /\ pc[c] = "fetch" /\ url' = url
      /\ \/ pc' = [pc EXCEPT ![c] = "compare"]
         \/ pc' = [pc EXCEPT ![c] = "end"]
  BY DEF Fetch, ResponseLost, End
<1>4. /\ DOMAIN pc' = Clients /\ pc'[c] \in {"compare", "end"}
      /\ \A d \in Clients : d # c => pc'[d] = pc[d]
  BY <1>3 DEF CostIInv
<1>5. /\ left' \in [Shares -> Int] /\ left'[s] = left[s] - 1 /\ left[s] \in Int
      /\ \A t \in Shares : t # s => left'[t] = left[t]
  BY <1>1, <1>2 DEF CostIInv
<1>6. ASSUME NEW t \in Shares
      PROVE  Limit - left'[t] <= Cardinality(Past(t)')
  <2>1. /\ IsFiniteSet(Past(t)) /\ IsFiniteSet(Past(t)')
        /\ Cardinality(Past(t)) \in Nat /\ Cardinality(Past(t)') \in Nat
    BY PastIsFinite, FS_CardinalityType
  <2>2. Limit - left[t] <= Cardinality(Past(t)) /\ Limit \in Int /\ left[t] \in Int
    BY LanAssumption DEF CostIInv
  <2>3. CASE t = s
    <3>1. c \notin Past(t) /\ Past(t) \union {c} \subseteq Past(t)'
      BY <1>2, <1>3, <1>4, <2>3 DEF Past
    <3>2. Cardinality(Past(t) \union {c}) = Cardinality(Past(t)) + 1
      BY <2>1, <3>1, FS_AddElement
    <3>3. Cardinality(Past(t) \union {c}) <= Cardinality(Past(t)')
      BY <2>1, <3>1, FS_Subset
    <3> QED
      BY <1>5, <2>1, <2>2, <2>3, <3>2, <3>3
  <2>4. CASE t # s
    <3>1. Past(t) \subseteq Past(t)'
      BY <1>3, <1>4 DEF Past
    <3>2. Cardinality(Past(t)) <= Cardinality(Past(t)')
      BY <2>1, <3>1, FS_Subset
    <3> QED
      BY <1>5, <2>1, <2>2, <2>4, <3>2
  <2> QED
    BY <2>3, <2>4
<1> QED
  BY <1>3, <1>4, <1>5, <1>6 DEF CostIInv

LEMMA FailIsFree ==
  ASSUME IsFiniteSet(Clients), CostIInv, NEW c \in Clients, NEW r, Fail(c, r) PROVE CostIInv'
<1>1. pc' = [pc EXCEPT ![c] = "end"] /\ UNCHANGED <<left, url>>
  BY DEF Fail, End, shareVars
<1>2. DOMAIN pc' = Clients /\ pc'[c] = "end" /\ \A d \in Clients : d # c => pc'[d] = pc[d]
  BY <1>1 DEF CostIInv
<1> QED
  BY <1>1, <1>2, FreeStep DEF CostIInv

LEMMA MovesAreFree ==
  ASSUME IsFiniteSet(Clients), CostIInv, NEW c \in Clients,
         \/ (\E m \in Commands : Run(c, m))
         \/ BrowseEnds(c) \/ Choose(c) \/ Resolve(c)
  PROVE  CostIInv'
<1>1. /\ pc[c] \notin {"compare", "end"} /\ UNCHANGED left
      /\ \E s : pc' = [pc EXCEPT ![c] = s]
      /\ url' = url \/ \E s : url' = [url EXCEPT ![c] = s]
  BY DEF Run, BrowseEnds, Choose, Unambiguous, Resolve, shareVars
<1>2. DOMAIN pc' = Clients /\ DOMAIN url' = Clients
      /\ \A d \in Clients : d # c => pc'[d] = pc[d] /\ url'[d] = url[d]
  BY <1>1 DEF CostIInv
<1> QED
  BY <1>1, <1>2, FreeStep

(* Of a share's downloads no more are gone than clients have gone on to    *)
(* download it: /resolve and a failed attempt cost nothing (the handlers   *)
(* of internal/share/server.go, Fetch and ResolveLAN of the clients).      *)
THEOREM ResolvingIsFree == ASSUME IsFiniteSet(Clients) PROVE Spec => []ResolveIsFree
<1>1. Init => CostIInv
  <2> SUFFICES ASSUME Init PROVE CostIInv
    OBVIOUS
  <2>1. \A s \in Shares : Cardinality(Past(s)) \in Nat
    BY PastIsFinite, FS_CardinalityType
  <2> QED
    BY <2>1, LanAssumption DEF Init, CostIInv
<1>2. CostIInv /\ [Next]_vars => CostIInv'
  <2> SUFFICES ASSUME CostIInv, [Next]_vars PROVE CostIInv'
    OBVIOUS
  <2>1. CASE Tick \/ (\E s \in Shares : ShareStep(s) \/ StopAd(s)) \/ UNCHANGED vars
    <3>1. UNCHANGED <<left, pc, url>>
      BY <2>1 DEF Tick, ShareStep, StopAd, StartShare, Advertise, EndShare, vars, shareVars, clientVars
    <3> QED
      BY <3>1, FreeStep DEF CostIInv
  <2>2. ASSUME NEW c \in Clients, (\E s \in Shares : Hear(c, s)) \/ AppendEntry(c)
        PROVE  CostIInv'
    <3>1. UNCHANGED <<left, pc, url>>
      BY <2>2 DEF Hear, AppendEntry, shareVars
    <3> QED
      BY <3>1, FreeStep DEF CostIInv
  <2>3. ASSUME NEW c \in Clients, (\E m \in Commands : Run(c, m)) \/ RunFails(c)
        PROVE  CostIInv'
    BY <2>3, MovesAreFree, FailIsFree DEF RunFails
  <2>4. ASSUME NEW c \in Clients, Discovery(c) \/ Choosing(c)
        PROVE  CostIInv'
    BY <2>4, MovesAreFree, FailIsFree DEF Discovery, BrowseTears, Choosing, NothingFound, Ambiguous, NeedsCode
  <2>5. ASSUME NEW c \in Clients, Requesting(c)
        PROVE  CostIInv'
    <3>1. CASE Compare(c)
      <4>1. pc' = [pc EXCEPT ![c] = "end"] /\ UNCHANGED <<left, url>>
        BY <3>1 DEF Compare, End, shareVars
      <4>2. DOMAIN pc' = Clients /\ pc'[c] = "end" /\ \A d \in Clients : d # c => pc'[d] = pc[d]
        BY <4>1 DEF CostIInv
      <4> QED
        BY <4>1, <4>2, FreeStep DEF CostIInv
    <3>2. CASE ResolveFails(c) \/ FetchFails(c)
      <4>1. \E r : Fail(c, r)
        BY <3>2 DEF ResolveFails, FetchFails
      <4> QED
        BY <4>1, FailIsFree
    <3> QED
      BY <2>5, <3>1, <3>2, MovesAreFree, PaidStep DEF Requesting
  <2> QED
    BY <2>1, <2>2, <2>3, <2>4, <2>5 DEF Next, ClientStep
<1>3. CostIInv => ResolveIsFree
  BY DEF CostIInv, Past, ResolveIsFree
<1> QED
  BY <1>1, <1>2, <1>3, PTL DEF Spec
-----------------------------------------------------------------------------
(* Types.                                                                  *)

(* A set of naturals that is not empty has a least element.                *)
LEMMA LeastIndex ==
  ASSUME NEW T \in SUBSET Nat, T # {}
  PROVE  \E i \in T : \A j \in T : i <= j
<1>1. PICK i \in T : \A j \in T : <<j, i>> \notin OpToRel(<, Nat)
  BY NatLessThanWellFounded, WFMin
<1>2. \A j \in T : ~(j < i)
  BY <1>1 DEF OpToRel
<1> QED BY <1>2

(* compare settles on a share that Discover returned.                      *)
LEMMA FirstIsReturned ==
  ASSUME NEW c \in Clients, NEW S, shares[c] \in Seq(S), Active(c) # {}
  PROVE  FirstActive(c) \in S
<1>1. Active(c) \in SUBSET Nat
  BY DEF Active
<1>2. \E i \in Active(c) : \A j \in Active(c) : i <= j
  BY <1>1, LeastIndex
<1>3. (CHOOSE i \in Active(c) : \A j \in Active(c) : i <= j) \in 1..Len(shares[c])
  BY <1>2 DEF Active
<1> QED BY <1>3 DEF FirstActive

ShareTypes ==
  /\ now \in 1..MaxTime
  /\ offer \in [Shares -> OfferSpace]
  /\ life \in [Shares -> {"off", "up", "ended"}]
  /\ deadline \in [Shares -> Int]
  /\ left \in [Shares -> 0..Limit]
  /\ ad \in [Shares -> {"none", "on", "stopped"}]
  /\ expires \in [Shares -> Int]

Stages == {"idle", "browsing", "choose", "resolve", "fetch", "compare", "end"}

ClientTypes ==
  /\ pc \in [Clients -> Stages]
  /\ cmd \in [Clients -> CommandSpace]
  /\ heard \in [Clients -> Seq(Shares)]
  /\ list \in [Clients -> Seq(Shares)]
  /\ shares \in [Clients -> Seq(Shares)]
  /\ chosen \in [Clients -> Shares \union {None}]
  /\ url \in [Clients -> Shares \union {None}]
  /\ data \in [Clients -> Shares \union {None}]
  /\ exit \in [Clients -> 0..2 \union {None}]

LEMMA TypesInTwo ==
  /\ TypeOK <=> ShareTypes /\ ClientTypes
  /\ TypeOK' <=> ShareTypes' /\ ClientTypes'
BY DEF TypeOK, ShareTypes, ClientTypes, Stages

LEMMA TypesInit == ASSUME Init PROVE TypeOK
<1>1. AnOffer \in OfferSpace
  BY DEF AnOffer, OfferSpace, Repos
<1>2. ACommand \in CommandSpace
  BY DEF ACommand, CommandSpace
<1>3. ShareTypes
  BY <1>1, LanAssumption DEF Init, ShareTypes
<1>4. ClientTypes
  BY <1>2 DEF Init, ClientTypes, Stages
<1> QED BY <1>3, <1>4, TypesInTwo

LEMMA SharesKeepTypes ==
  ASSUME TypeOK, NEW s \in Shares, ShareStep(s) \/ StopAd(s) PROVE TypeOK'
<1>1. ShareTypes /\ ClientTypes /\ clientVars' = clientVars
  BY TypesInTwo DEF ShareStep, StopAd, StartShare, Advertise, EndShare
<1>2. ClientTypes'
  BY <1>1 DEF clientVars, ClientTypes
<1>3. now \in Int /\ offer[s].ttl \in Int
  BY <1>1 DEF ShareTypes, OfferSpace
<1>4. ASSUME NEW o \in Offers, StartShare(s, o)
      PROVE  ShareTypes'
  <2>1. o \in OfferSpace /\ EffectiveTTL(o.ttl) \in Int
    BY LanAssumption DEF EffectiveTTL, OfferSpace
  <2>2. now + EffectiveTTL(o.ttl) \in Int
    BY <1>3, <2>1
  <2> QED BY <1>1, <1>4, <2>1, <2>2 DEF StartShare, ShareTypes
<1>5. CASE Advertise(s)
  <2>1. now + offer[s].ttl \in Int
    BY <1>3
  <2>2. expires' \in [Shares -> Int] /\ ad' \in [Shares -> {"none", "on", "stopped"}]
    BY <1>1, <1>5, <2>1 DEF Advertise, ShareTypes
  <2>3. UNCHANGED <<now, offer, life, deadline, left>>
    BY <1>5 DEF Advertise
  <2> QED BY <1>2, <1>1, <2>2, <2>3, TypesInTwo DEF ShareTypes
<1>6. CASE EndShare(s)
  <2>1. life' \in [Shares -> {"off", "up", "ended"}]
    BY <1>1, <1>6 DEF EndShare, ShareTypes
  <2>2. UNCHANGED <<now, offer, deadline, left, ad, expires>>
    BY <1>6 DEF EndShare
  <2> QED BY <1>2, <1>1, <2>1, <2>2, TypesInTwo DEF ShareTypes
<1>7. CASE StopAd(s)
  <2>1. ad' \in [Shares -> {"none", "on", "stopped"}]
    BY <1>1, <1>7 DEF StopAd, ShareTypes
  <2>2. UNCHANGED <<now, offer, life, deadline, left, expires>>
    BY <1>7 DEF StopAd
  <2> QED BY <1>2, <1>1, <2>1, <2>2, TypesInTwo DEF ShareTypes
<1> QED BY <1>2, <1>4, <1>5, <1>6, <1>7, TypesInTwo DEF ShareStep

LEMMA FailKeepsTypes ==
  ASSUME TypeOK, NEW c \in Clients, NEW r, Fail(c, r) PROVE TypeOK'
<1>1. ShareTypes /\ ClientTypes
  BY TypesInTwo
<1>2. ShareTypes'
  BY <1>1 DEF Fail, shareVars, ShareTypes
<1>3. ClientTypes'
  BY <1>1 DEF Fail, End, ClientTypes, Stages
<1> QED BY <1>2, <1>3, TypesInTwo

LEMMA SearchKeepsTypes ==
  ASSUME TypeOK, NEW c \in Clients,
         \/ (\E m \in Commands : Run(c, m)) \/ (\E s \in Shares : Hear(c, s))
         \/ AppendEntry(c) \/ BrowseEnds(c) \/ Choose(c)
  PROVE  TypeOK'
<1>1. ShareTypes /\ ClientTypes
  BY TypesInTwo
<1>2. ShareTypes'
  BY <1>1 DEF Run, Hear, AppendEntry, BrowseEnds, Choose, shareVars, ShareTypes
<1>3. ASSUME NEW m \in Commands, Run(c, m) PROVE ClientTypes'
  <2>1. m \in CommandSpace /\ m.from \in Shares \union {None}
    BY LanAssumption DEF CommandSpace
  <2> QED BY <1>1, <1>3, <2>1 DEF Run, ClientTypes, Stages
<1>4. ASSUME NEW s \in Shares, Hear(c, s) PROVE ClientTypes'
  <2>1. Append(heard[c], s) \in Seq(Shares)
    BY <1>1 DEF ClientTypes
  <2> QED BY <1>1, <1>4, <2>1 DEF Hear, ClientTypes
<1>5. CASE AppendEntry(c)
  <2>1. list' \in [Clients -> Seq(Shares)]
    BY <1>1, <1>5 DEF AppendEntry, ClientTypes
  <2>2. UNCHANGED <<pc, cmd, heard, shares, chosen, url, data, exit>>
    BY <1>5 DEF AppendEntry
  <2> QED BY <1>2, <1>1, <2>1, <2>2, TypesInTwo DEF ClientTypes
<1>6. CASE BrowseEnds(c)
  <2>1. PICK l \in {list[c], heard[c]} : shares' = [shares EXCEPT ![c] = l]
    BY <1>6 DEF BrowseEnds
  <2>2. l \in Seq(Shares)
    BY <1>1, <2>1 DEF ClientTypes
  <2>3. shares' \in [Clients -> Seq(Shares)] /\ pc' \in [Clients -> Stages]
    BY <1>1, <1>6, <2>1, <2>2 DEF BrowseEnds, ClientTypes, Stages
  <2>4. UNCHANGED <<cmd, heard, list, chosen, url, data, exit>>
    BY <1>6 DEF BrowseEnds
  <2> QED BY <1>2, <1>1, <2>3, <2>4, TypesInTwo DEF ClientTypes
<1>7. CASE Choose(c)
  <2>1. FirstActive(c) \in Shares
    BY <1>1, <1>7, FirstIsReturned DEF Choose, Unambiguous, ClientTypes
  <2>2. chosen' \in [Clients -> Shares \union {None}] /\ pc' \in [Clients -> Stages]
    BY <1>1, <1>7, <2>1 DEF Choose, ClientTypes, Stages
  <2>3. UNCHANGED <<cmd, heard, list, shares, url, data, exit>>
    BY <1>7 DEF Choose
  <2> QED BY <1>2, <1>1, <2>2, <2>3, TypesInTwo DEF ClientTypes
<1> QED BY <1>2, <1>3, <1>4, <1>5, <1>6, <1>7, TypesInTwo

LEMMA RequestsKeepTypes ==
  ASSUME TypeOK, NEW c \in Clients, Resolve(c) \/ Fetch(c) \/ ResponseLost(c) \/ Compare(c)
  PROVE  TypeOK'
<1>1. ShareTypes /\ ClientTypes
  BY TypesInTwo
<1>2. CASE Resolve(c)
  <2>1. PICK s \in Reached(chosen[c], TRUE, AdvertisedPin(chosen[c])) :
          url' = [url EXCEPT ![c] = s]
    BY <1>2 DEF Resolve
  <2>2. s \in Shares
    BY <2>1 DEF Reached, Listening
  <2>3. ShareTypes'
    BY <1>1, <1>2 DEF Resolve, shareVars, ShareTypes
  <2>4. ClientTypes'
    BY <1>1, <1>2, <2>1, <2>2 DEF Resolve, ClientTypes, Stages
  <2> QED BY <2>3, <2>4, TypesInTwo
<1>3. CASE Fetch(c) \/ ResponseLost(c)
  <2>1. PICK s \in Admitting(c) :
          /\ left[s] > 0 /\ left' = [left EXCEPT ![s] = left[s] - 1]
          /\ Fetch(c) => data' = [data EXCEPT ![c] = s]
    BY <1>3 DEF Fetch, ResponseLost
  <2>2. s \in Shares
    BY <2>1 DEF Admitting, Reached, Listening
  <2>3. left[s] - 1 \in 0..Limit
    BY <1>1, <2>1, <2>2, LanAssumption DEF ShareTypes
  <2>4. ShareTypes'
    <3>1. left' \in [Shares -> 0..Limit]
      BY <1>1, <2>1, <2>3 DEF ShareTypes
    <3> QED BY <1>1, <1>3, <3>1 DEF Fetch, ResponseLost, ShareTypes
  <2>5. ClientTypes'
    <3>1. CASE Fetch(c)
      <4>1. /\ data' = [data EXCEPT ![c] = s] /\ pc' = [pc EXCEPT ![c] = "compare"]
            /\ UNCHANGED <<cmd, heard, list, shares, chosen, url, exit>>
        BY <2>1, <3>1 DEF Fetch
      <4>2. data' \in [Clients -> Shares \union {None}] /\ pc' \in [Clients -> Stages]
        BY <1>1, <2>2, <4>1 DEF ClientTypes, Stages
      <4> QED BY <1>1, <4>1, <4>2 DEF ClientTypes
    <3>2. CASE ResponseLost(c)
      BY <1>1, <3>2 DEF ResponseLost, End, ClientTypes, Stages
    <3> QED BY <1>3, <3>1, <3>2
  <2> QED BY <2>4, <2>5, TypesInTwo
<1>4. CASE Compare(c)
  <2>1. ShareTypes'
    BY <1>1, <1>4 DEF Compare, shareVars, ShareTypes
  <2>2. ClientTypes'
    BY <1>1, <1>4 DEF Compare, End, ClientTypes, Stages
  <2> QED BY <2>1, <2>2, TypesInTwo
<1> QED BY <1>2, <1>3, <1>4

LEMMA FailuresFail ==
  ASSUME NEW c \in Clients,
         RunFails(c) \/ BrowseTears(c) \/ NothingFound(c) \/ Ambiguous(c) \/ NeedsCode(c)
           \/ ResolveFails(c) \/ FetchFails(c)
  PROVE  \E r : Fail(c, r)
<1>1. CASE RunFails(c) \/ BrowseTears(c)
  BY <1>1 DEF RunFails, BrowseTears
<1>2. CASE NothingFound(c) \/ Ambiguous(c) \/ NeedsCode(c)
  BY <1>2 DEF NothingFound, Ambiguous, NeedsCode
<1>3. CASE ResolveFails(c)
  BY <1>3 DEF ResolveFails
<1>4. CASE FetchFails(c)
  BY <1>4 DEF FetchFails
<1> QED BY <1>1, <1>2, <1>3, <1>4

LEMMA TypesStep == ASSUME TypeOK, [Next]_vars PROVE TypeOK'
<1>1. CASE Tick
  <2>1. ShareTypes /\ ClientTypes
    BY TypesInTwo
  <2>2. ShareTypes'
    BY <1>1, <2>1, LanAssumption DEF Tick, shareVars, ShareTypes
  <2>3. ClientTypes'
    BY <1>1, <2>1 DEF Tick, clientVars, ClientTypes
  <2> QED BY <2>2, <2>3, TypesInTwo
<1>2. CASE UNCHANGED vars
  BY <1>2 DEF vars, shareVars, clientVars, TypeOK
<1>3. ASSUME NEW s \in Shares, ShareStep(s) \/ StopAd(s)
      PROVE  TypeOK'
  BY <1>3, SharesKeepTypes
<1>4. ASSUME NEW c \in Clients,
             \/ (\E m \in Commands : Run(c, m)) \/ RunFails(c)
             \/ (\E s \in Shares : Hear(c, s)) \/ AppendEntry(c) \/ ClientStep(c)
      PROVE  TypeOK'
  BY <1>4, SearchKeepsTypes, RequestsKeepTypes, FailuresFail, FailKeepsTypes
     DEF ClientStep, Discovery, Choosing, Requesting
<1> QED BY <1>1, <1>2, <1>3, <1>4 DEF Next

(* Every variable of the shares and their clients keeps its type.          *)
THEOREM LanTypes == Spec => []TypeOK
<1>1. Init => TypeOK
  BY TypesInit
<1>2. TypeOK /\ [Next]_vars => TypeOK'
  BY TypesStep
<1> QED BY <1>1, <1>2, PTL DEF Spec
-----------------------------------------------------------------------------
(* The printed command.                                                    *)

Started   == {s \in Shares : life[s] # "off"}
Announced == {s \in Shares : ad[s] # "none"}

(* What a client was handed: shares that have been announced, of the       *)
(* repository it asked for.                                                *)
Handed(c, q) ==
  /\ q \in Seq(Announced)
  /\ \A i \in DOMAIN q : cmd[c].repo \in {NoRepo, offer[q[i]].repo}

(* The share that compare settles on.                                      *)
Took(c, t) ==
  \E i \in DOMAIN shares[c] :
    shares[c][i] = t /\ \A j \in 1..(i - 1) : IsExpired(shares[c][j])

(* The flags of the share t do not go with the command.                    *)
Unfit(c, t) ==
  IF cmd[c].prog = "compare"
  THEN offer[t].unsafe \/ (~offer[t].open /\ cmd[c].code # t)
  ELSE \/ ~offer[t].open
       \/ IF offer[t].unsafe THEN ~cmd[c].unsafe ELSE cmd[c].pin = None

(* A client that was turned away knows the share that did so, and why.     *)
Blames(c) ==
  TurnedAway(c) =>
    IF cmd[c].prog = "compare" THEN \E t \in Announced : Took(c, t) /\ Unfit(c, t)
                               ELSE Unfit(c, cmd[c].from)

Knows(c) ==
  /\ pc[c] = "idle" => /\ cmd[c].prog = "compare"
                       /\ heard[c] = <<>> /\ list[c] = <<>> /\ shares[c] = <<>>
  /\ cmd[c].prog # "compare" => cmd[c].from \in Started
  /\ Handed(c, heard[c]) /\ Handed(c, list[c]) /\ Handed(c, shares[c])
  /\ pc[c] \in {"resolve", "fetch"} /\ cmd[c].prog = "compare" =>
       chosen[c] \in Announced /\ Took(c, chosen[c])
  /\ Blames(c)

PrintIInv ==
  /\ Announced \subseteq Started
  /\ DOMAIN why = Clients
  /\ \A c \in Clients : Knows(c)

(* Time and new shares take nothing from what clients know: the flags and  *)
(* the expiry of a share that was announced are settled.                   *)
Steady ==
  /\ Started \subseteq Started' /\ Announced \subseteq Announced'
  /\ Announced' \subseteq Started'
  /\ \A s \in Started : offer'[s] = offer[s]
  /\ \A s \in Announced : IsExpired(s) => IsExpired(s)'

LEMMA PrintInit == ASSUME Init PROVE PrintIInv
<1>1. /\ Announced = {} /\ DOMAIN why = Clients
      /\ \A c \in Clients : /\ pc[c] = "idle" /\ cmd[c].prog = "compare"
                            /\ heard[c] = <<>> /\ list[c] = <<>> /\ shares[c] = <<>>
  BY DEF Init, Announced, ACommand
<1>2. \A c \in Clients : Handed(c, <<>>)
  BY DEF Handed
<1>3. \A c \in Clients : Knows(c)
  BY <1>1, <1>2 DEF Knows, Blames, TurnedAway
<1> QED BY <1>1, <1>3 DEF PrintIInv

LEMMA SharesAreSteady ==
  ASSUME PrintIInv, TypeOK,
         Tick \/ (\E s \in Shares : ShareStep(s) \/ StopAd(s)) \/ UNCHANGED vars
  PROVE  Steady /\ UNCHANGED clientVars
<1>1. /\ DOMAIN offer = Shares /\ DOMAIN life = Shares /\ DOMAIN ad = Shares
      /\ DOMAIN expires = Shares /\ now \in Int /\ expires \in [Shares -> Int]
      /\ Announced \subseteq Started
  BY DEF TypeOK, PrintIInv
<1>2. CASE Tick \/ UNCHANGED vars
  <2>1. /\ UNCHANGED <<offer, life, ad, expires, clientVars>> /\ (now' = now \/ now' = now + 1)
    BY <1>2 DEF Tick, vars, shareVars
  <2> QED BY <1>1, <2>1 DEF Steady, Started, Announced, IsExpired
<1>3. ASSUME NEW s \in Shares, NEW o \in Offers, StartShare(s, o) PROVE Steady /\ UNCHANGED clientVars
  <2>1. /\ life[s] = "off" /\ life' = [life EXCEPT ![s] = "up"] /\ offer' = [offer EXCEPT ![s] = o]
        /\ UNCHANGED <<now, ad, expires, clientVars>>
    BY <1>3 DEF StartShare
  <2> QED BY <1>1, <2>1 DEF Steady, Started, Announced, IsExpired
<1>4. ASSUME NEW s \in Shares, Advertise(s) PROVE Steady /\ UNCHANGED clientVars
  <2>1. /\ life[s] = "up" /\ ad[s] = "none" /\ ad' = [ad EXCEPT ![s] = "on"]
        /\ expires' = [expires EXCEPT ![s] = now + offer[s].ttl]
        /\ UNCHANGED <<now, offer, life, clientVars>>
    BY <1>4 DEF Advertise
  <2> QED BY <1>1, <2>1 DEF Steady, Started, Announced, IsExpired
<1>5. ASSUME NEW s \in Shares, EndShare(s) PROVE Steady /\ UNCHANGED clientVars
  <2>1. /\ life' = [life EXCEPT ![s] = "ended"]
        /\ UNCHANGED <<now, offer, ad, expires, clientVars>>
    BY <1>5 DEF EndShare
  <2> QED BY <1>1, <2>1 DEF Steady, Started, Announced, IsExpired
<1>6. ASSUME NEW s \in Shares, StopAd(s) PROVE Steady /\ UNCHANGED clientVars
  <2>1. /\ ad[s] = "on" /\ ad' = [ad EXCEPT ![s] = "stopped"]
        /\ UNCHANGED <<now, offer, life, expires, clientVars>>
    BY <1>6 DEF StopAd
  <2> QED BY <1>1, <2>1 DEF Steady, Started, Announced, IsExpired
<1> QED BY <1>2, <1>3, <1>4, <1>5, <1>6 DEF ShareStep

LEMMA ClientsAreSteady ==
  ASSUME PrintIInv, UNCHANGED <<now, offer, life, ad, expires>>
  PROVE  Steady
BY DEF PrintIInv, Steady, Started, Announced, IsExpired

(* What a client knows outlasts the steps of others.                       *)
LEMMA KnowledgeLasts ==
  ASSUME PrintIInv, Steady, NEW c \in Clients,
         /\ pc'[c] = pc[c] /\ cmd'[c] = cmd[c] /\ heard'[c] = heard[c] /\ list'[c] = list[c]
         /\ shares'[c] = shares[c] /\ chosen'[c] = chosen[c] /\ why'[c] = why[c]
  PROVE  Knows(c)'
<1>1. Knows(c) /\ Announced \subseteq Started
  BY DEF PrintIInv
<1>2. ASSUME NEW q, Handed(c, q) PROVE Handed(c, q)'
  <2>1. q \in Seq(Announced) /\ q \in Seq(Announced')
    BY <1>2 DEF Handed, Steady
  <2>2. \A i \in DOMAIN q : offer'[q[i]] = offer[q[i]]
    BY <1>1, <2>1 DEF Steady
  <2> QED BY <1>2, <2>1, <2>2 DEF Handed
<1>3. ASSUME NEW t, Took(c, t) PROVE Took(c, t)'
  <2>1. shares[c] \in Seq(Announced)
    BY <1>1 DEF Knows, Handed
  <2>2. PICK i \in DOMAIN shares[c] : shares[c][i] = t /\ \A j \in 1..(i - 1) : IsExpired(shares[c][j])
    BY <1>3 DEF Took
  <2>3. \A j \in 1..(i - 1) : shares[c][j] \in Announced
    BY <2>1, <2>2
  <2>4. \A j \in 1..(i - 1) : IsExpired(shares[c][j])'
    BY <2>2, <2>3 DEF Steady, IsExpired
  <2> QED BY <2>2, <2>4 DEF Took
<1>4. ASSUME NEW t \in Started, Unfit(c, t) PROVE Unfit(c, t)'
  BY <1>4 DEF Unfit, Steady
<1>5. Blames(c)'
  BY <1>1, <1>3, <1>4 DEF Knows, Blames, TurnedAway, Steady
<1>6. Handed(c, heard[c])' /\ Handed(c, list[c])' /\ Handed(c, shares[c])'
  BY <1>1, <1>2 DEF Knows, Handed
<1> QED BY <1>1, <1>3, <1>5, <1>6 DEF Knows, Steady

(* A step of a client leaves what others know alone.                       *)
LEMMA OneKnows ==
  ASSUME PrintIInv, NEW c \in Clients, UNCHANGED <<now, offer, life, ad, expires>>,
         DOMAIN why' = Clients,
         \A d \in Clients \ {c} :
           /\ pc'[d] = pc[d] /\ cmd'[d] = cmd[d] /\ heard'[d] = heard[d] /\ list'[d] = list[d]
           /\ shares'[d] = shares[d] /\ chosen'[d] = chosen[d] /\ why'[d] = why[d],
         Knows(c)'
  PROVE  PrintIInv'
<1>1. Steady
  BY ClientsAreSteady
<1>2. ASSUME NEW d \in Clients PROVE Knows(d)'
  BY <1>1, <1>2, KnowledgeLasts
<1> QED BY <1>1, <1>2 DEF PrintIInv, Steady

(* The share that compare settles on is the first that has not expired.    *)
LEMMA FirstIsTaken ==
  ASSUME TypeOK, NEW c \in Clients, Active(c) # {}
  PROVE  Took(c, FirstActive(c))
<1>1. Active(c) \in SUBSET Nat /\ shares[c] \in Seq(Shares)
  BY DEF Active, TypeOK
<1> DEFINE first == CHOOSE i \in Active(c) : \A j \in Active(c) : i <= j
<1>2. first \in Active(c) /\ \A j \in Active(c) : first <= j
  BY <1>1, LeastIndex
<1>3. first \in 1..Len(shares[c])
  BY <1>2 DEF Active
<1>4. ASSUME NEW j \in 1..(first - 1) PROVE IsExpired(shares[c][j])
  <2>1. j \in 1..Len(shares[c]) /\ ~(first <= j)
    BY <1>3
  <2>2. j \notin Active(c)
    BY <1>2, <2>1
  <2> QED BY <2>1, <2>2 DEF Active
<1>5. FirstActive(c) = shares[c][first] /\ first \in DOMAIN shares[c]
  BY <1>1, <1>3 DEF FirstActive
<1> HIDE DEF first
<1> QED BY <1>4, <1>5 DEF Took

(* A client that ends knows whom to blame, if there is somebody to blame.  *)
LEMMA EndKnows ==
  ASSUME PrintIInv, TypeOK, NEW c \in Clients, NEW code, NEW r, End(c, code, r),
         UNCHANGED <<now, offer, life, ad, expires, cmd, heard, list, shares, chosen>>,
         r \in {"no_pin", "code"} =>
           IF cmd[c].prog = "compare" THEN \E t \in Announced : Took(c, t) /\ Unfit(c, t)
                                      ELSE Unfit(c, cmd[c].from)
  PROVE  PrintIInv'
<1>1. pc' = [pc EXCEPT ![c] = "end"] /\ why' = [why EXCEPT ![c] = r]
  BY DEF End
<1>2. /\ DOMAIN why' = Clients /\ why'[c] = r /\ pc'[c] = "end"
      /\ \A d \in Clients \ {c} : pc'[d] = pc[d] /\ why'[d] = why[d]
  BY <1>1 DEF PrintIInv, TypeOK
<1>3. Knows(c)
  BY DEF PrintIInv
<1>4. Blames(c)'
  BY <1>2 DEF Blames, TurnedAway, Took, Unfit, Announced, IsExpired
<1>5. /\ cmd[c].prog # "compare" => cmd[c].from \in Started'
      /\ Handed(c, heard[c])' /\ Handed(c, list[c])' /\ Handed(c, shares[c])'
  BY <1>3 DEF Knows, Handed, Started, Announced
<1>6. Knows(c)'
  BY <1>2, <1>4, <1>5 DEF Knows
<1> QED BY <1>2, <1>6, OneKnows

LEMMA FailKnows ==
  ASSUME PrintIInv, TypeOK, NEW c \in Clients, NEW r, Fail(c, r),
         r \in {"no_pin", "code"} =>
           IF cmd[c].prog = "compare" THEN \E t \in Announced : Took(c, t) /\ Unfit(c, t)
                                      ELSE Unfit(c, cmd[c].from)
  PROVE  PrintIInv'
<1>1. /\ End(c, 2, r)
      /\ UNCHANGED <<now, offer, life, ad, expires, cmd, heard, list, shares, chosen>>
  BY DEF Fail, shareVars
<1> QED BY <1>1, EndKnows

(* The last steps of a client that got its baseline.                       *)
LEMMA LastKnows ==
  ASSUME PrintIInv, TypeOK, NEW c \in Clients, ResponseLost(c) \/ Compare(c)
  PROVE  PrintIInv'
<1>1. UNCHANGED <<now, offer, life, ad, expires, cmd, heard, list, shares, chosen>>
  BY DEF ResponseLost, Compare, shareVars
<1>2. CASE ResponseLost(c)
  <2>1. End(c, 2, "lost")
    BY <1>2 DEF ResponseLost
  <2> QED BY <1>1, <2>1, EndKnows
<1>3. CASE Compare(c)
  <2>1. PICK code \in 0..2 : End(c, code, IF code = 2 THEN "local" ELSE None)
    BY <1>3 DEF Compare
  <2>2. (IF code = 2 THEN "local" ELSE None) \notin {"no_pin", "code"}
    BY NoneAssumption
  <2> QED BY <1>1, <2>1, <2>2, EndKnows
<1> QED BY <1>2, <1>3

(* Discovery.                                                              *)
LEMMA SearchKnows ==
  ASSUME PrintIInv, TypeOK, NEW c \in Clients,
         \/ (\E m \in Commands : Run(c, m)) \/ (\E s \in Shares : Hear(c, s))
         \/ AppendEntry(c) \/ BrowseEnds(c)
  PROVE  PrintIInv'
<1>0. /\ UNCHANGED <<now, offer, life, ad, expires, why, chosen>>
      /\ Started' = Started /\ Announced' = Announced
      /\ Knows(c) /\ DOMAIN why = Clients /\ Announced \subseteq Started
      /\ pc \in [Clients -> Stages] /\ DOMAIN cmd = Clients
      /\ DOMAIN heard = Clients /\ DOMAIN list = Clients /\ DOMAIN shares = Clients
  <2>1. UNCHANGED <<now, offer, life, ad, expires, why, chosen>>
    BY DEF Run, Hear, AppendEntry, BrowseEnds, shareVars
  <2> QED BY <2>1, TypesInTwo DEF ClientTypes, PrintIInv, Started, Announced
<1>1. ASSUME NEW q, cmd'[c] = cmd[c], Handed(c, q) PROVE Handed(c, q)'
  BY <1>0, <1>1 DEF Handed
<1>2. ASSUME NEW m \in Commands, Run(c, m) PROVE PrintIInv'
  <2>1. /\ pc[c] = "idle" /\ cmd' = [cmd EXCEPT ![c] = m]
        /\ pc' = [pc EXCEPT ![c] = IF m.prog = "compare" THEN "browsing" ELSE "fetch"]
        /\ UNCHANGED <<heard, list, shares>>
        /\ m.prog = "check" => m.from # None /\ life[m.from] # "off"
    BY <1>2 DEF Run
  <2>2. m.prog \in {"compare", "check"} /\ m.from \in Shares \union {None}
    BY LanAssumption DEF CommandSpace
  <2>3. /\ cmd'[c] = m /\ pc'[c] = IF m.prog = "compare" THEN "browsing" ELSE "fetch"
        /\ \A d \in Clients \ {c} : pc'[d] = pc[d] /\ cmd'[d] = cmd[d]
    BY <1>0, <2>1
  <2>4. heard'[c] = <<>> /\ list'[c] = <<>> /\ shares'[c] = <<>>
    BY <1>0, <2>1 DEF Knows
  <2>5. Handed(c, heard[c])' /\ Handed(c, list[c])' /\ Handed(c, shares[c])'
    BY <2>4 DEF Handed
  <2>6. m.prog # "compare" => m.from \in Started
    BY <2>1, <2>2 DEF Started
  <2>7. Knows(c)'
    BY <1>0, <2>3, <2>4, <2>5, <2>6 DEF Knows, Blames, TurnedAway
  <2> QED BY <1>0, <2>1, <2>3, <2>7, OneKnows
<1>3. ASSUME NEW s \in Shares, Hear(c, s) PROVE PrintIInv'
  <2>1. /\ pc[c] = "browsing" /\ s \in Announced /\ cmd[c].repo \in {NoRepo, offer[s].repo}
        /\ heard' = [heard EXCEPT ![c] = Append(heard[c], s)]
        /\ UNCHANGED <<pc, cmd, list, shares>>
    BY <1>3 DEF Hear, Announced
  <2>2. Handed(c, heard[c])
    BY <1>0 DEF Knows
  <2>3. Handed(c, Append(heard[c], s))
    <3>1. heard[c] \in Seq(Announced)
      BY <2>2 DEF Handed
    <3>2. ASSUME NEW i \in DOMAIN Append(heard[c], s)
          PROVE  cmd[c].repo \in {NoRepo, offer[Append(heard[c], s)[i]].repo}
      <4>1. CASE i \in DOMAIN heard[c]
        <5>1. Append(heard[c], s)[i] = heard[c][i]
          BY <3>1, <4>1
        <5> QED BY <2>2, <4>1, <5>1 DEF Handed
      <4>2. CASE i = Len(heard[c]) + 1
        <5>1. Append(heard[c], s)[i] = s
          BY <3>1, <4>2
        <5> QED BY <2>1, <5>1
      <4> QED BY <3>1, <3>2, <4>1, <4>2
    <3> QED BY <2>1, <3>1, <3>2 DEF Handed
  <2>4. heard'[c] = Append(heard[c], s) /\ \A d \in Clients \ {c} : heard'[d] = heard[d]
    BY <1>0, <2>1
  <2>5. Handed(c, heard[c])' /\ Handed(c, list[c])' /\ Handed(c, shares[c])'
    BY <1>0, <1>1, <2>1, <2>3, <2>4 DEF Knows, Handed
  <2>6. Knows(c)'
    BY <1>0, <2>1, <2>5 DEF Knows, Blames, TurnedAway
  <2> QED BY <1>0, <2>1, <2>4, <2>6, OneKnows
<1>4. ASSUME AppendEntry(c) PROVE PrintIInv'
  <2>1. /\ pc[c] = "browsing" /\ list' = [list EXCEPT ![c] = heard[c]]
        /\ UNCHANGED <<pc, cmd, heard, shares>>
    BY <1>4 DEF AppendEntry
  <2>2. list'[c] = heard[c] /\ \A d \in Clients \ {c} : list'[d] = list[d]
    BY <1>0, <2>1
  <2>3. Handed(c, heard[c])' /\ Handed(c, list[c])' /\ Handed(c, shares[c])'
    BY <1>0, <1>1, <2>1, <2>2 DEF Knows, Handed
  <2>4. Knows(c)'
    BY <1>0, <2>1, <2>3 DEF Knows, Blames, TurnedAway
  <2> QED BY <1>0, <2>1, <2>2, <2>4, OneKnows
<1>5. ASSUME BrowseEnds(c) PROVE PrintIInv'
  <2>1. PICK l \in {list[c], heard[c]} : shares' = [shares EXCEPT ![c] = l]
    BY <1>5 DEF BrowseEnds
  <2>2. pc[c] = "browsing" /\ pc' = [pc EXCEPT ![c] = "choose"] /\ UNCHANGED <<cmd, heard, list>>
    BY <1>5 DEF BrowseEnds
  <2>3. /\ shares'[c] = l /\ pc'[c] = "choose"
        /\ \A d \in Clients \ {c} : pc'[d] = pc[d] /\ shares'[d] = shares[d]
    BY <1>0, <2>1, <2>2
  <2>4. Handed(c, heard[c])' /\ Handed(c, list[c])' /\ Handed(c, shares[c])'
    BY <1>0, <1>1, <2>1, <2>2, <2>3 DEF Knows, Handed
  <2>5. Knows(c)'
    BY <1>0, <2>2, <2>3, <2>4 DEF Knows, Blames, TurnedAway
  <2> QED BY <1>0, <2>2, <2>3, <2>5, OneKnows
<1> QED BY <1>2, <1>3, <1>4, <1>5

(* The choice, and the requests that succeed.                              *)
LEMMA RequestKnows ==
  ASSUME PrintIInv, ClientIInv, TypeOK, NEW c \in Clients,
         Choose(c) \/ Resolve(c) \/ Fetch(c)
  PROVE  PrintIInv'
<1>0. /\ UNCHANGED <<now, offer, life, ad, expires, why, cmd, heard, list, shares>>
      /\ Started' = Started /\ Announced' = Announced
      /\ Knows(c) /\ DOMAIN why = Clients
      /\ DOMAIN pc = Clients /\ DOMAIN chosen = Clients
  <2>1. UNCHANGED <<now, offer, life, ad, expires, why, cmd, heard, list, shares>>
    BY DEF Choose, Resolve, Fetch, shareVars
  <2> QED BY <2>1, TypesInTwo DEF ClientTypes, PrintIInv, Started, Announced
<1>1. /\ Handed(c, heard[c])' /\ Handed(c, list[c])' /\ Handed(c, shares[c])'
      /\ \A t : Took(c, t)' <=> Took(c, t)
  BY <1>0 DEF Knows, Handed, Took, IsExpired
<1>2. CASE Choose(c)
  <2>1. /\ Active(c) # {} /\ pc' = [pc EXCEPT ![c] = "resolve"]
        /\ chosen' = [chosen EXCEPT ![c] = FirstActive(c)]
    BY <1>2 DEF Choose, Unambiguous
  <2>2. FirstActive(c) \in Announced
    BY <1>0, <2>1, FirstIsReturned DEF Knows, Handed
  <2>3. Took(c, FirstActive(c))
    BY <2>1, FirstIsTaken
  <2>4. /\ pc'[c] = "resolve" /\ chosen'[c] = FirstActive(c)
        /\ \A d \in Clients \ {c} : pc'[d] = pc[d] /\ chosen'[d] = chosen[d]
    BY <1>0, <2>1
  <2>5. Knows(c)'
    BY <1>0, <1>1, <2>2, <2>3, <2>4 DEF Knows, Blames, TurnedAway
  <2> QED BY <1>0, <2>4, <2>5, OneKnows
<1>3. CASE Resolve(c) \/ Fetch(c)
  <2>1. /\ pc[c] \in {"resolve", "fetch"} /\ chosen' = chosen
        /\ \E stage \in {"fetch", "compare"} : pc' = [pc EXCEPT ![c] = stage]
    BY <1>3 DEF Resolve, Fetch
  <2>2. pc'[c] \in {"fetch", "compare"} /\ \A d \in Clients \ {c} : pc'[d] = pc[d]
    BY <1>0, <2>1
  <2>3. Knows(c)'
    BY <1>0, <1>1, <2>1, <2>2 DEF Knows, Blames, TurnedAway
  <2> QED BY <1>0, <2>1, <2>2, <2>3, OneKnows
<1> QED BY <1>2, <1>3

LEMMA FailuresKnow ==
  ASSUME PrintIInv, ClientIInv, TypeOK, NEW c \in Clients,
         RunFails(c) \/ BrowseTears(c) \/ NothingFound(c) \/ Ambiguous(c) \/ NeedsCode(c)
           \/ ResolveFails(c) \/ FetchFails(c)
  PROVE  PrintIInv'
<1>0. Knows(c) /\ Announced \subseteq Shares /\ None \notin Shares
  BY LanAssumption DEF PrintIInv, Announced
<1>1. CASE RunFails(c) \/ BrowseTears(c)
  BY <1>1, FailKnows DEF RunFails, BrowseTears
<1>2. CASE NothingFound(c) \/ Ambiguous(c)
  BY <1>2, FailKnows DEF NothingFound, Ambiguous
<1>3. CASE NeedsCode(c)
  <2>1. /\ Fail(c, "code") /\ pc[c] = "choose" /\ Active(c) # {}
        /\ ~offer[FirstActive(c)].open /\ cmd[c].code = None
    BY <1>3 DEF NeedsCode, Unambiguous
  <2>2. cmd[c].prog = "compare"
    BY <2>1 DEF ClientIInv
  <2>3. FirstActive(c) \in Announced /\ Took(c, FirstActive(c))
    BY <1>0, <2>1, FirstIsReturned, FirstIsTaken DEF Knows, Handed
  <2>4. Unfit(c, FirstActive(c))
    BY <1>0, <2>1, <2>2, <2>3 DEF Unfit
  <2> QED BY <2>1, <2>2, <2>3, <2>4, FailKnows
<1>4. CASE ResolveFails(c)
  <2>1. pc[c] = "resolve" /\ cmd[c].prog = "compare"
    BY <1>4 DEF ResolveFails, ClientIInv
  <2>2. chosen[c] \in Announced /\ Took(c, chosen[c])
    BY <1>0, <2>1 DEF Knows
  <2>3. CASE Fail(c, "pin") \/ Fail(c, "unreachable")
    BY <2>3, FailKnows
  <2>4. CASE AdvertisedPin(chosen[c]) = None /\ Fail(c, "no_pin")
    <3>1. Unfit(c, chosen[c])
      BY <1>0, <2>1, <2>2, <2>4 DEF AdvertisedPin, Unfit
    <3> QED BY <2>1, <2>2, <2>4, <3>1, FailKnows
  <2>5. CASE /\ Fail(c, "code")
             /\ \E s \in Reached(chosen[c], TRUE, AdvertisedPin(chosen[c])) :
                  ~CodeAccepted(s, cmd[c].code)
    <3>1. PICK s \in Reached(chosen[c], TRUE, AdvertisedPin(chosen[c])) :
                  ~CodeAccepted(s, cmd[c].code)
      BY <2>5
    <3>2. s \in Shares /\ AdvertisedPin(chosen[c]) = s
      BY DEF Reached, Listening
    <3>3. s = chosen[c]
      BY <1>0, <3>2 DEF AdvertisedPin
    <3>4. Unfit(c, chosen[c])
      BY <2>1, <3>1, <3>3 DEF CodeAccepted, Unfit
    <3> QED BY <2>1, <2>2, <2>5, <3>4, FailKnows
  <2> QED BY <1>4, <2>3, <2>4, <2>5 DEF ResolveFails
<1>5. CASE FetchFails(c)
  <2>1. pc[c] = "fetch" /\ url[c] = Meant(c) /\ cmd[c].prog \in {"compare", "check"}
    BY <1>5 DEF FetchFails, ClientIInv, TypeOK, CommandSpace
  <2>2. /\ cmd[c].prog = "compare" => url[c] \in Announced /\ Took(c, url[c])
        /\ cmd[c].prog # "compare" => url[c] = cmd[c].from /\ url[c] \in Started
    BY <1>0, <2>1 DEF Knows, Meant
  <2>3. url[c] \in Shares
    BY <1>0, <2>2 DEF Started
  <2>4. CASE Fail(c, "pin") \/ Fail(c, "not_found") \/ Fail(c, "limit")
               \/ Fail(c, "unreachable")
    BY <2>4, FailKnows
  <2>5. CASE Undialled(c) /\ Fail(c, "no_pin")
    <3>1. Unfit(c, url[c])
      <4>1. CASE cmd[c].prog = "compare"
        BY <1>0, <2>1, <2>3, <2>5, <4>1 DEF Undialled, Tls, Pin, AdvertisedPin, Unfit, Meant
      <4>2. CASE cmd[c].prog # "compare"
        BY <2>5, <4>2 DEF Undialled, Tls, Pin, Unfit
      <4> QED BY <4>1, <4>2
    <3> QED BY <2>2, <2>5, <3>1, FailKnows
  <2>6. CASE ~CodeAccepted(url[c], Code(c)) /\ Fail(c, "code")
    <3>1. Unfit(c, url[c])
      BY <2>6 DEF CodeAccepted, Code, Unfit
    <3> QED BY <2>2, <2>6, <3>1, FailKnows
  <2> QED BY <1>5, <2>4, <2>5, <2>6 DEF FetchFails
<1> QED BY <1>1, <1>2, <1>3, <1>4, <1>5

LEMMA PrintStep ==
  ASSUME PrintIInv, ClientIInv, TypeOK, [Next]_vars
  PROVE  PrintIInv'
<1>1. CASE Tick \/ (\E s \in Shares : ShareStep(s) \/ StopAd(s)) \/ UNCHANGED vars
  <2>1. Steady /\ UNCHANGED clientVars
    BY <1>1, SharesAreSteady
  <2>2. UNCHANGED <<pc, cmd, heard, list, shares, chosen, why>>
    BY <2>1 DEF clientVars
  <2>3. \A c \in Clients : Knows(c)'
    BY <2>1, <2>2, KnowledgeLasts
  <2> QED BY <2>1, <2>2, <2>3 DEF PrintIInv, Steady
<1>2. ASSUME NEW c \in Clients,
             \/ (\E m \in Commands : Run(c, m)) \/ RunFails(c)
             \/ (\E s \in Shares : Hear(c, s)) \/ AppendEntry(c) \/ ClientStep(c)
      PROVE  PrintIInv'
  BY <1>2, SearchKnows, RequestKnows, LastKnows, FailuresKnow
     DEF ClientStep, Discovery, Choosing, Requesting
<1> QED BY <1>1, <1>2 DEF Next

(* The fields of a printed command.                                        *)
LEMMA PrintedFields ==
  ASSUME NEW c \in Clients, NEW s \in Shares, TypeOK, cmd[c] = Printed(s)
  PROVE  /\ offer[s].lan =>
              /\ cmd[c].prog = "compare" /\ cmd[c].repo = offer[s].repo
              /\ cmd[c].code = IF offer[s].open THEN None ELSE s
         /\ ~offer[s].lan =>
              /\ cmd[c].prog = "check" /\ cmd[c].from = s
              /\ cmd[c].unsafe = offer[s].unsafe
              /\ cmd[c].pin = IF offer[s].unsafe THEN None ELSE s
<1>1. offer[s].lan \in BOOLEAN
  BY DEF TypeOK, OfferSpace
<1>2. CASE offer[s].lan
  <2>1. cmd[c] = [prog |-> "compare", repo |-> offer[s].repo,
                  code |-> IF offer[s].open THEN None ELSE s,
                  from |-> None, pin |-> None, unsafe |-> FALSE]
    BY <1>2 DEF Printed
  <2> QED BY <1>2, <2>1
<1>3. CASE ~offer[s].lan
  <2>1. cmd[c] = [prog |-> "check", repo |-> NoRepo, code |-> None, from |-> s,
                  pin |-> IF offer[s].unsafe THEN None ELSE s, unsafe |-> offer[s].unsafe]
    BY <1>3 DEF Printed
  <2> QED BY <1>3, <2>1
<1> QED BY <1>1, <1>2, <1>3

(* Whoever is turned away with the command that a share printed can name   *)
(* the reason.                                                             *)
LEMMA BlameIsRight ==
  ASSUME PrintIInv, TypeOK, NEW c \in Clients, NEW s \in Shares,
         TurnedAway(c), cmd[c] = Printed(s)
  PROVE  ~WellFlagged(offer[s]) \/ AnotherWasFirst(c, s)
<1>0. /\ Knows(c) /\ Announced \subseteq Shares /\ None \notin Shares
      /\ offer[s].open \in BOOLEAN /\ offer[s].unsafe \in BOOLEAN /\ offer[s].lan \in BOOLEAN
      /\ offer[s].repo \in Repos
  BY LanAssumption DEF PrintIInv, Announced, TypeOK, OfferSpace
<1>1. CASE offer[s].lan
  <2>1. /\ cmd[c].prog = "compare" /\ cmd[c].repo = offer[s].repo
        /\ cmd[c].code = IF offer[s].open THEN None ELSE s
    BY <1>1, PrintedFields
  <2>2. PICK t \in Announced : Took(c, t) /\ Unfit(c, t)
    BY <1>0, <2>1 DEF Knows, Blames
  <2>3. CASE t = s
    BY <1>1, <2>1, <2>2, <2>3 DEF Unfit, WellFlagged
  <2>4. CASE t # s
    <3>1. PICK i \in DOMAIN shares[c] :
            shares[c][i] = t /\ \A j \in 1..(i - 1) : IsExpired(shares[c][j])
      BY <2>2 DEF Took
    <3>2. cmd[c].repo \in {NoRepo, offer[t].repo}
      BY <1>0, <3>1 DEF Knows, Handed
    <3>3. offer[s].repo # NoRepo
      BY <1>0 DEF Repos, NoRepo
    <3>4. offer[t].repo = offer[s].repo
      BY <2>1, <3>2, <3>3
    <3> QED BY <2>4, <3>1, <3>4 DEF AnotherWasFirst
  <2> QED BY <2>3, <2>4
<1>2. CASE ~offer[s].lan
  <2>1. /\ cmd[c].prog = "check" /\ cmd[c].from = s
        /\ cmd[c].unsafe = offer[s].unsafe
        /\ cmd[c].pin = IF offer[s].unsafe THEN None ELSE s
    BY <1>2, PrintedFields
  <2>2. Unfit(c, s)
    BY <1>0, <2>1 DEF Knows, Blames
  <2> QED BY <1>0, <1>2, <2>1, <2>2 DEF Unfit, WellFlagged
<1> QED BY <1>0, <1>1, <1>2

(* Whoever runs the command that a share printed is turned away for want   *)
(* of a pin or of the right code only if the flags of the share make the   *)
(* command unusable, or another share of the repository was the first that *)
(* discovery returned and that had not expired: for any shares, flags,     *)
(* clients and commands, in any order of their steps.                      *)
THEOREM PrintedCommandsSuffice == Spec => []PrintedCommandIsEnough
<1>1. Init => PrintIInv
  BY PrintInit
<1>2. PrintIInv /\ ClientIInv /\ TypeOK /\ [Next]_vars => PrintIInv'
  BY PrintStep
<1>3. PrintIInv /\ TypeOK => PrintedCommandIsEnough
  BY BlameIsRight DEF PrintedCommandIsEnough
<1> QED BY <1>1, <1>2, <1>3, ClientInvariant, LanTypes, PTL DEF Spec
-----------------------------------------------------------------------------
(* What Discover returns.                                                  *)

(* A slice has the entries that were handed over, but for the last at most.*)
Behind(slice, handed) == slice = handed \/ \E s \in Shares : handed = Append(slice, s)

BehindIInv ==
  /\ \A c \in Clients : Behind(list[c], heard[c])
  /\ \A c \in Clients : pc[c] = "choose" => Behind(shares[c], heard[c])

(* A client that does not browse keeps what it was handed.                 *)
LEMMA OtherStepsReturnNothing ==
  ASSUME TypeOK, NEW c \in Clients,
         \/ (\E m \in Commands : Run(c, m)) \/ RunFails(c)
         \/ BrowseTears(c) \/ Choosing(c) \/ Requesting(c)
  PROVE  /\ UNCHANGED <<heard, list, shares>>
         /\ \A d \in Clients : pc'[d] = "choose" => pc[d] = "choose"
<1>1. DOMAIN pc = Clients
  BY DEF TypeOK
<1>2. ASSUME NEW r, Fail(c, r)
      PROVE  /\ UNCHANGED <<heard, list, shares>>
             /\ \A d \in Clients : pc'[d] = "choose" => pc[d] = "choose"
  BY <1>1, <1>2 DEF Fail, End
<1>3. CASE RunFails(c) \/ BrowseTears(c) \/ NothingFound(c) \/ Ambiguous(c) \/ NeedsCode(c)
             \/ ResolveFails(c) \/ FetchFails(c)
  BY <1>2, <1>3, FailuresFail
<1>4. CASE (\E m \in Commands : Run(c, m)) \/ Choose(c)
  BY <1>1, <1>4 DEF Run, Choose
<1>5. CASE Resolve(c) \/ Fetch(c)
  BY <1>1, <1>5 DEF Resolve, Fetch
<1>6. CASE ResponseLost(c) \/ Compare(c)
  BY <1>1, <1>6 DEF ResponseLost, Compare, End
<1> QED BY <1>3, <1>4, <1>5, <1>6 DEF Choosing, Requesting

LEMMA BehindStep ==
  ASSUME TypeOK, BehindIInv, [Next]_vars
  PROVE  BehindIInv'
<1>1. /\ DOMAIN pc = Clients /\ DOMAIN heard = Clients /\ DOMAIN list = Clients /\ DOMAIN shares = Clients
  BY DEF TypeOK
<1>2. ASSUME UNCHANGED <<heard, list, shares>>, \A d \in Clients : pc'[d] = "choose" => pc[d] = "choose"
      PROVE  BehindIInv'
  BY <1>2 DEF BehindIInv
<1>3. CASE Tick \/ UNCHANGED vars
  <2>1. UNCHANGED <<heard, list, shares, pc>>
    BY <1>3 DEF Tick, vars, clientVars
  <2> QED BY <1>2, <2>1
<1>4. ASSUME NEW s \in Shares, ShareStep(s) \/ StopAd(s)
      PROVE  BehindIInv'
  <2>1. UNCHANGED clientVars
    BY <1>4 DEF ShareStep, StopAd, StartShare, Advertise, EndShare
  <2> QED BY <1>2, <2>1 DEF clientVars
<1>5. ASSUME NEW c \in Clients, NEW s \in Shares, Hear(c, s)
      PROVE  BehindIInv'
  <2>1. heard'[c] = Append(list[c], s) /\ pc[c] = "browsing"
    BY <1>1, <1>5 DEF Hear
  <2>2. /\ UNCHANGED <<list, shares, pc>>
        /\ \A d \in Clients : d # c => heard'[d] = heard[d]
    BY <1>1, <1>5 DEF Hear
  <2>3. \A d \in Clients : Behind(list'[d], heard'[d])
    BY <2>1, <2>2 DEF BehindIInv, Behind
  <2>4. \A d \in Clients : pc'[d] = "choose" => Behind(shares'[d], heard'[d])
    BY <2>1, <2>2 DEF BehindIInv
  <2> QED BY <2>3, <2>4 DEF BehindIInv, Behind
<1>6. ASSUME NEW c \in Clients, AppendEntry(c)
      PROVE  BehindIInv'
  <2>1. /\ list'[c] = heard[c] /\ UNCHANGED <<heard, shares, pc>>
        /\ \A d \in Clients : d # c => list'[d] = list[d]
    BY <1>1, <1>6 DEF AppendEntry
  <2> QED BY <2>1 DEF BehindIInv, Behind
<1>7. ASSUME NEW c \in Clients, BrowseEnds(c)
      PROVE  BehindIInv'
  <2>1. /\ shares'[c] \in {list[c], heard[c]} /\ UNCHANGED <<heard, list>>
        /\ \A d \in Clients : d # c => shares'[d] = shares[d] /\ pc'[d] = pc[d]
    BY <1>1, <1>7 DEF BrowseEnds
  <2>2. Behind(shares'[c], heard'[c])
    BY <2>1 DEF BehindIInv, Behind
  <2>3. \A d \in Clients : pc'[d] = "choose" => Behind(shares'[d], heard'[d])
    BY <2>1, <2>2 DEF BehindIInv
  <2> QED BY <2>1, <2>3 DEF BehindIInv, Behind
<1>8. ASSUME NEW c \in Clients,
             \/ (\E m \in Commands : Run(c, m)) \/ RunFails(c)
             \/ BrowseTears(c) \/ Choosing(c) \/ Requesting(c)
      PROVE  BehindIInv'
  BY <1>2, <1>8, OtherStepsReturnNothing
<1> QED BY <1>3, <1>4, <1>5, <1>6, <1>7, <1>8 DEF Next, ClientStep, Discovery

(* Discover loses at most the last entry, for any number of responders and *)
(* however its goroutine and its timeout interleave (advertise.go).        *)
THEOREM DiscoverIsOneBehind == Spec => []DiscoverMissesAtMostOne
<1>1. Init => BehindIInv
  BY DEF Init, BehindIInv, Behind
<1>2. TypeOK /\ BehindIInv /\ [Next]_vars => BehindIInv'
  BY BehindStep
<1>3. BehindIInv => DiscoverMissesAtMostOne
  BY DEF BehindIInv, Behind, DiscoverMissesAtMostOne
<1> QED BY <1>1, <1>2, <1>3, LanTypes, PTL DEF Spec
-----------------------------------------------------------------------------
(* Every share keeps the contract of ShareQuota.                           *)

Granted(s)   == {c \in Clients : data[c] = s \/ (why[c] = "lost" /\ url[c] = s)}
Delivered(s) == {c \in Clients : data[c] = s}

(* A client that has not ended has no error, above all no lost answer.     *)
LossIInv ==
  /\ DOMAIN why = Clients
  /\ \A c \in Clients : pc[c] # "end" => why[c] = None

QuotaStep(s) == [Quota(s)!QuotaNext]_(Quota(s)!quotaVars)

LEMMA LossInit == ASSUME Init PROVE LossIInv
BY DEF Init, LossIInv

(* None of the failures is a loss: the share has counted nothing.          *)
LEMMA FailuresLoseNothing ==
  ASSUME NEW c \in Clients,
         RunFails(c) \/ BrowseTears(c) \/ NothingFound(c) \/ Ambiguous(c) \/ NeedsCode(c)
           \/ ResolveFails(c) \/ FetchFails(c)
  PROVE  pc[c] # "end" /\ \E r : r # "lost" /\ Fail(c, r)
<1>1. CASE RunFails(c) \/ BrowseTears(c)
  BY <1>1 DEF RunFails, BrowseTears
<1>2. CASE NothingFound(c) \/ Ambiguous(c) \/ NeedsCode(c)
  BY <1>2 DEF NothingFound, Ambiguous, NeedsCode, Unambiguous
<1>3. CASE ResolveFails(c)
  BY <1>3 DEF ResolveFails
<1>4. CASE FetchFails(c)
  BY <1>4 DEF FetchFails
<1> QED BY <1>1, <1>2, <1>3, <1>4

(* A step that touches none of the variables in question is none for any   *)
(* share.                                                                  *)
LEMMA SameIsNoStep ==
  ASSUME UNCHANGED <<left, life, data, why, url>>
  PROVE  \A s \in Shares : UNCHANGED Quota(s)!quotaVars
<1> SUFFICES ASSUME NEW s \in Shares PROVE UNCHANGED Quota(s)!quotaVars
  OBVIOUS
<1>1. Granted(s)' = Granted(s) /\ Delivered(s)' = Delivered(s)
  BY DEF Granted, Delivered
<1> QED BY <1>1 DEF Quota!quotaVars, Granted, Delivered

(* A step of one client that changes neither what it holds nor what it has *)
(* lost is none for any share.                                             *)
LEMMA OneClientIsNoStep ==
  ASSUME NEW c \in Clients, UNCHANGED <<left, life, data>>,
         why[c] # "lost", why'[c] # "lost",
         \A d \in Clients \ {c} : why'[d] = why[d] /\ url'[d] = url[d]
  PROVE  \A s \in Shares : UNCHANGED Quota(s)!quotaVars
<1> SUFFICES ASSUME NEW s \in Shares PROVE UNCHANGED Quota(s)!quotaVars
  OBVIOUS
<1>1. Granted(s)' = Granted(s) /\ Delivered(s)' = Delivered(s)
  BY DEF Granted, Delivered
<1> QED BY <1>1 DEF Quota!quotaVars, Granted, Delivered

(* The steps of a client that ask nothing of a share, or in vain.          *)
LEMMA AskingIsNoStep ==
  ASSUME TypeOK, LossIInv, NEW c \in Clients,
         \/ (\E m \in Commands : Run(c, m)) \/ RunFails(c)
         \/ (\E t \in Shares : Hear(c, t)) \/ AppendEntry(c)
         \/ Discovery(c) \/ Choosing(c) \/ Resolve(c) \/ ResolveFails(c) \/ FetchFails(c)
         \/ Compare(c)
  PROVE  LossIInv' /\ \A s \in Shares : UNCHANGED Quota(s)!quotaVars
<1>1. DOMAIN why = Clients /\ DOMAIN url = Clients /\ DOMAIN pc = Clients
  BY DEF LossIInv, TypeOK
<1>2. pc[c] # "end" => why[c] # "lost"
  BY NoneAssumption DEF LossIInv
<1>3. CASE (\E t \in Shares : Hear(c, t)) \/ AppendEntry(c)
  <2>1. UNCHANGED <<left, life, data, why, url, pc>>
    BY <1>3 DEF Hear, AppendEntry, shareVars
  <2>2. LossIInv'
    BY <2>1 DEF LossIInv
  <2> QED BY <2>1, <2>2, SameIsNoStep
<1>4. CASE (\E m \in Commands : Run(c, m)) \/ BrowseEnds(c) \/ Choose(c) \/ Resolve(c)
  <2>1. /\ UNCHANGED <<left, life, data, why>> /\ pc[c] # "end"
        /\ \E v : pc' = [pc EXCEPT ![c] = v]
        /\ url' = url \/ \E v : url' = [url EXCEPT ![c] = v]
    BY <1>4 DEF Run, BrowseEnds, Choose, Unambiguous, Resolve, shareVars
  <2>2. \A d \in Clients \ {c} : why'[d] = why[d] /\ url'[d] = url[d] /\ pc'[d] = pc[d]
    BY <1>1, <2>1
  <2>3. LossIInv'
    BY <2>1, <2>2 DEF LossIInv
  <2> QED BY <1>2, <2>1, <2>2, <2>3, OneClientIsNoStep
<1>5. ASSUME NEW code, NEW r, r # "lost", End(c, code, r), pc[c] # "end",
             UNCHANGED <<left, life, data, url>>
      PROVE  LossIInv' /\ \A s \in Shares : UNCHANGED Quota(s)!quotaVars
  <2>1. /\ pc' = [pc EXCEPT ![c] = "end"] /\ why' = [why EXCEPT ![c] = r]
    BY <1>5 DEF End
  <2>2. /\ DOMAIN why' = Clients /\ pc'[c] = "end" /\ why'[c] = r
        /\ \A d \in Clients \ {c} : why'[d] = why[d] /\ pc'[d] = pc[d]
    BY <1>1, <2>1
  <2>3. LossIInv'
    BY <2>2 DEF LossIInv
  <2> QED BY <1>2, <1>5, <2>2, <2>3, OneClientIsNoStep
<1>6. ASSUME NEW r, r # "lost", Fail(c, r), pc[c] # "end"
      PROVE  LossIInv' /\ \A s \in Shares : UNCHANGED Quota(s)!quotaVars
  BY <1>5, <1>6 DEF Fail, shareVars
<1>7. CASE Compare(c)
  <2>1. PICK code \in 0..2 : End(c, code, IF code = 2 THEN "local" ELSE None)
    BY <1>7 DEF Compare
  <2>2. (IF code = 2 THEN "local" ELSE None) # "lost"
    BY NoneAssumption
  <2> QED BY <1>5, <1>7, <2>1, <2>2 DEF Compare, shareVars
<1> QED BY <1>3, <1>4, <1>6, <1>7, FailuresLoseNothing DEF Discovery, Choosing

(* A download request takes a ticket of the share whose URL it has, with   *)
(* the baseline or without, and of no other.                               *)
LEMMA FetchIsServe ==
  ASSUME TypeOK, LossIInv, ClientIInv, NEW c \in Clients, Fetch(c)
  PROVE  LossIInv' /\ \A s \in Shares : QuotaStep(s)
<1>1. PICK t \in Admitting(c) :
        /\ left[t] > 0
        /\ left' = [left EXCEPT ![t] = @ - 1]
        /\ data' = [data EXCEPT ![c] = t]
  BY DEF Fetch
<1>2. t \in Shares /\ life[t] = "up" /\ t = url[c] /\ t # None
  BY <1>1, LanAssumption DEF Admitting, Reached, Listening
<1>3. /\ pc[c] = "fetch" /\ data[c] = None /\ why[c] # "lost"
      /\ UNCHANGED <<life, url, why>>
  BY NoneAssumption DEF Fetch, LossIInv, ClientIInv
<1>4. /\ data'[c] = t /\ (\A d \in Clients \ {c} : data'[d] = data[d])
      /\ left'[t] = left[t] - 1 /\ (\A u \in Shares \ {t} : left'[u] = left[u])
  BY <1>1, <1>2 DEF TypeOK
<1>5. LossIInv'
  <2>1. pc' = [pc EXCEPT ![c] = "compare"]
    BY DEF Fetch
  <2>2. pc'[c] # "end" /\ \A d \in Clients \ {c} : pc'[d] = pc[d]
    BY <2>1 DEF TypeOK
  <2> QED BY <1>3, <2>2 DEF LossIInv
<1>6. ASSUME NEW s \in Shares, s = t PROVE QuotaStep(s)
  <2>1. Granted(s)' = Granted(s) \union {c} /\ Delivered(s)' = Delivered(s) \union {c}
    BY <1>3, <1>4, <1>6 DEF Granted, Delivered
  <2>2. c \notin Granted(s)
    BY <1>2, <1>3, <1>6 DEF Granted
  <2>3. Quota(s)!Serve(c)
    BY <1>1, <1>2, <1>3, <1>4, <1>6, <2>1, <2>2 DEF Quota!Serve, Granted, Delivered
  <2> QED BY <2>3 DEF QuotaStep, Quota!QuotaNext
<1>7. ASSUME NEW s \in Shares, s # t PROVE QuotaStep(s)
  <2>1. Granted(s)' = Granted(s) /\ Delivered(s)' = Delivered(s) /\ s # None
    BY <1>3, <1>4, <1>7, LanAssumption DEF Granted, Delivered
  <2>2. UNCHANGED Quota(s)!quotaVars
    BY <1>3, <1>4, <1>7, <2>1 DEF Quota!quotaVars, Granted, Delivered
  <2> QED BY <2>2 DEF QuotaStep
<1> QED BY <1>5, <1>6, <1>7

LEMMA LossIsGrant ==
  ASSUME TypeOK, LossIInv, ClientIInv, NEW c \in Clients, ResponseLost(c)
  PROVE  LossIInv' /\ \A s \in Shares : QuotaStep(s)
<1>1. PICK t \in Admitting(c) : left[t] > 0 /\ left' = [left EXCEPT ![t] = @ - 1]
  BY DEF ResponseLost
<1>2. t \in Shares /\ life[t] = "up" /\ t = url[c] /\ t # None
  BY <1>1, LanAssumption DEF Admitting, Reached, Listening
<1>3. /\ pc[c] = "fetch" /\ data[c] = None /\ why[c] # "lost"
      /\ UNCHANGED <<life, url, data>>
      /\ pc' = [pc EXCEPT ![c] = "end"] /\ why' = [why EXCEPT ![c] = "lost"]
  BY NoneAssumption DEF ResponseLost, End, LossIInv, ClientIInv
<1>4. /\ DOMAIN why' = Clients /\ why'[c] = "lost" /\ pc'[c] = "end"
      /\ (\A d \in Clients \ {c} : why'[d] = why[d] /\ pc'[d] = pc[d])
      /\ left'[t] = left[t] - 1 /\ (\A u \in Shares \ {t} : left'[u] = left[u])
  BY <1>1, <1>2, <1>3 DEF TypeOK, LossIInv
<1>5. LossIInv'
  BY <1>4 DEF LossIInv
<1>6. ASSUME NEW s \in Shares, s = t PROVE QuotaStep(s)
  <2>1. Granted(s)' = Granted(s) \union {c} /\ Delivered(s)' = Delivered(s)
    BY <1>2, <1>3, <1>4, <1>6 DEF Granted, Delivered
  <2>2. c \notin Granted(s)
    BY <1>2, <1>3, <1>6 DEF Granted
  <2>3. Quota(s)!Grant(c)
    BY <1>1, <1>2, <1>3, <1>4, <1>6, <2>1, <2>2 DEF Quota!Grant, Granted, Delivered
  <2> QED BY <2>3 DEF QuotaStep, Quota!QuotaNext
<1>7. ASSUME NEW s \in Shares, s # t PROVE QuotaStep(s)
  <2>1. Granted(s)' = Granted(s) /\ Delivered(s)' = Delivered(s)
    BY <1>2, <1>3, <1>4, <1>7 DEF Granted, Delivered
  <2>2. UNCHANGED Quota(s)!quotaVars
    BY <1>3, <1>4, <1>7, <2>1 DEF Quota!quotaVars, Granted, Delivered
  <2> QED BY <2>2 DEF QuotaStep
<1> QED BY <1>5, <1>6, <1>7

(* A share that closes is over; nothing else it does is a step.            *)
LEMMA ShareStepIsEnd ==
  ASSUME TypeOK, LossIInv, NEW t \in Shares, ShareStep(t) \/ StopAd(t)
  PROVE  LossIInv' /\ \A s \in Shares : QuotaStep(s)
<1>1. UNCHANGED <<left, data, why, url, pc>>
  BY DEF ShareStep, StartShare, Advertise, EndShare, StopAd, clientVars
<1>0. LossIInv'
  BY <1>1 DEF LossIInv
<1>2. \A s \in Shares : Granted(s)' = Granted(s) /\ Delivered(s)' = Delivered(s)
  BY <1>1 DEF Granted, Delivered
<1>3. ASSUME NEW s \in Shares, EndShare(t), s = t PROVE QuotaStep(s)
  <2>1. life[s] = "up" /\ life'[s] = "ended"
    BY <1>3 DEF EndShare, TypeOK
  <2>2. Quota(s)!End
    BY <1>1, <1>2, <2>1 DEF Quota!End, Granted, Delivered
  <2> QED BY <2>2 DEF QuotaStep, Quota!QuotaNext
<1>4. ASSUME NEW s \in Shares, ~(EndShare(t) /\ s = t) PROVE QuotaStep(s)
  <2>1. (life'[s] = "ended") = (life[s] = "ended")
    BY <1>4 DEF ShareStep, StartShare, Advertise, EndShare, StopAd, TypeOK
  <2>2. UNCHANGED Quota(s)!quotaVars
    BY <1>1, <1>2, <2>1 DEF Quota!quotaVars, Granted, Delivered
  <2> QED BY <2>2 DEF QuotaStep
<1> QED BY <1>0, <1>3, <1>4

LEMMA EveryStepIsAQuotaStep ==
  ASSUME TypeOK, LossIInv, ClientIInv, [Next]_vars
  PROVE  LossIInv' /\ \A s \in Shares : QuotaStep(s)
<1>1. CASE Tick \/ UNCHANGED vars
  <2>1. UNCHANGED <<left, life, data, why, url, pc>>
    BY <1>1 DEF Tick, vars, shareVars, clientVars
  <2>2. LossIInv'
    BY <2>1 DEF LossIInv
  <2> QED BY <2>1, <2>2, SameIsNoStep DEF QuotaStep
<1>2. ASSUME NEW t \in Shares, ShareStep(t) \/ StopAd(t)
      PROVE  LossIInv' /\ \A s \in Shares : QuotaStep(s)
  BY <1>2, ShareStepIsEnd
<1>3. ASSUME NEW c \in Clients,
             \/ (\E m \in Commands : Run(c, m)) \/ RunFails(c)
             \/ (\E t \in Shares : Hear(c, t)) \/ AppendEntry(c) \/ ClientStep(c)
      PROVE  LossIInv' /\ \A s \in Shares : QuotaStep(s)
  <2>1. CASE Fetch(c) \/ ResponseLost(c)
    BY <2>1, FetchIsServe, LossIsGrant
  <2>2. CASE ~(Fetch(c) \/ ResponseLost(c))
    BY <1>3, <2>2, AskingIsNoStep DEF ClientStep, Requesting, QuotaStep
  <2> QED BY <2>1, <2>2
<1> QED BY <1>1, <1>2, <1>3 DEF Next

(* Each share, as its clients see it, implements the contract that the     *)
(* share server implements (ServerImplementsQuota): for any number of      *)
(* shares that follow one another and of clients that compete for them.    *)
THEOREM SharesKeepTheirQuotas == Spec => EveryShareKeepsItsQuota
<1>1. Init => \A s \in Shares : Quota(s)!QuotaInit
  <2> SUFFICES ASSUME Init, NEW s \in Shares PROVE Quota(s)!QuotaInit
    OBVIOUS
  <2>1. \A c \in Clients : data[c] # s /\ why[c] # "lost"
    BY LanAssumption, NoneAssumption DEF Init
  <2>2. Granted(s) = {} /\ Delivered(s) = {}
    BY <2>1 DEF Granted, Delivered
  <2>3. left[s] = Limit /\ life[s] = "off"
    BY DEF Init
  <2> QED BY <2>2, <2>3 DEF Quota!QuotaInit, Granted, Delivered
<1>2. Init => LossIInv
  BY LossInit
<1>3. TypeOK /\ LossIInv /\ ClientIInv /\ [Next]_vars =>
        LossIInv' /\ [\A s \in Shares : [Quota(s)!QuotaNext]_(Quota(s)!quotaVars)]_vars
  <2> SUFFICES ASSUME TypeOK, LossIInv, ClientIInv, [Next]_vars
               PROVE  LossIInv' /\ \A s \in Shares : QuotaStep(s)
    BY DEF QuotaStep
  <2> QED BY EveryStepIsAQuotaStep
<1> QED BY <1>1, <1>2, <1>3, ClientInvariant, LanTypes, PTL DEF Spec, EveryShareKeepsItsQuota
=============================================================================
