------------------------- MODULE ShareServerProofs -------------------------
(***************************************************************************)
(* Theorems about the share for every set of requests and every limit.     *)
(***************************************************************************)
EXTENDS ShareServer, FiniteSetTheorems, TLAPS

(* The limit is positive whatever --max-downloads says: StartServer's      *)
(* default for a value that is not positive.                               *)
LEMMA LimitPositive == Limit \in Nat \ {0}
  BY ShareAssumption DEF Limit

(* Each variable keeps to its type.                                        *)
THEOREM TypeCorrect == Spec => []TypeOK
<1>1. Init => TypeOK
  <2>1. NoAsk \in AskSpace
    BY Zenon DEF NoAsk, AskSpace
  <2>2. Init => ask \in [Requests -> AskSpace]
    BY <2>1 DEF Init
  <2>3. Init => /\ stage \in [Requests -> Stages]
                /\ slot \in [Requests -> Nat]
                /\ reply \in [Requests -> Replies]
    BY DEF Init, Stages, Replies
  <2>4. Init => /\ gone \subseteq Requests
                /\ closers \subseteq {"limit", "ttl", "signal"}
                /\ forced \in BOOLEAN
    BY Zenon DEF Init
  <2>5. Init => /\ downloads \in Nat
                /\ printed \in Nat
    <3>1. Init => downloads = 0 /\ printed = 0
      BY Zenon DEF Init
    <3>2. QED
      BY <3>1
  <2>6. Init => /\ main = "init"
                /\ ad = "none"
                /\ closer = "open"
                /\ ttl = "unset"
                /\ sig = "none"
    BY DEF Init
  <2>7. QED
    BY <2>2, <2>3, <2>4, <2>5, <2>6 DEF TypeOK
<1>2. TypeOK /\ [Next]_vars => TypeOK'
  <2> SUFFICES ASSUME TypeOK, [Next]_vars
               PROVE  TypeOK'
    OBVIOUS
  <2>0. Severed \in [Requests -> Stages]
    BY DEF Severed, InFlight, TypeOK, Stages
  <2> USE DEF TypeOK, Stages, reqVars, closeVars, cliVars
  <2>1. CASE Main
    <3>1. CASE StartFails
      BY <3>1 DEF StartFails
    <3>2. CASE StartServer
      BY <3>2 DEF StartServer
    <3>3. CASE Advertise
      BY <3>3 DEF Advertise
    <3>4. CASE InstallSignals
      BY <3>4 DEF InstallSignals
    <3>5. CASE PrintCount
      BY <3>5 DEF PrintCount
    <3>6. CASE Exit
      BY <2>0, <3>6 DEF Exit
    <3> QED
      BY <2>1, <3>1, <3>2, <3>3, <3>4, <3>5, <3>6 DEF Main
  <2>2. CASE Signals
    <3>1. CASE Killed
      BY <2>0, <3>1 DEF Killed
    <3>2. CASE Interrupt
      BY <3>2 DEF Interrupt
    <3>3. CASE SignalGoroutine
      BY <3>3 DEF SignalGoroutine
    <3> QED
      BY <2>2, <3>1, <3>2, <3>3 DEF Signals
  <2>3. CASE Timer
    <3>1. CASE TTLExpires
      BY <3>1 DEF TTLExpires
    <3>2. CASE TTLCancelled
      BY <3>2 DEF TTLCancelled
    <3> QED
      BY <2>3, <3>1, <3>2 DEF Timer
  <2>4. CASE Close
    <3>1. CASE BeginClose
      BY <3>1 DEF BeginClose
    <3>2. CASE ShutdownDrains
      BY <3>2 DEF ShutdownDrains
    <3>3. CASE ShutdownTimesOut
      BY <3>3 DEF ShutdownTimesOut
    <3> QED
      BY <2>4, <3>1, <3>2, <3>3 DEF Close
  <2>5. ASSUME NEW r \in Requests, Handler(r)
        PROVE  TypeOK'
    <3>1. CASE Answer(r)
      <4>1. Gate(ask[r]) \in Replies \/ Gate(ask[r]) = "count"
        BY DEF Gate, Replies
      <4>2. QED
        BY <3>1, <4>1 DEF Answer
    <3>2. CASE Admit(r)
      BY <3>2 DEF Admit
    <3>3. CASE Refuse(r)
      BY <3>3 DEF Refuse, Replies
    <3>4. CASE WriteBaseline(r)
      BY <3>4 DEF WriteBaseline, Replies
    <3>5. CASE HandlerReturns(r)
      BY <3>5 DEF HandlerReturns
    <3>6. CASE Flush(r)
      BY <3>6 DEF Flush
    <3>7. CASE HeaderTimeout(r)
      BY <3>7 DEF HeaderTimeout
    <3>8. QED
      BY <2>5, <3>1, <3>2, <3>3, <3>4, <3>5, <3>6, <3>7 DEF Handler
  <2>6. ASSUME NEW r \in Requests, Client(r)
        PROVE  TypeOK'
    <3>1. ASSUME NEW a \in Asks, Connect(r, a)
          PROVE  TypeOK'
      <4>1. a \in AskSpace
        BY ShareAssumption
      <4>2. QED
        BY <3>1, <4>1 DEF Connect
    <3>2. CASE ConnectRefused(r)
      BY <3>2 DEF ConnectRefused
    <3>3. CASE ClientGone(r)
      BY <3>3 DEF ClientGone
    <3>4. QED
      BY <2>6, <3>1, <3>2, <3>3 DEF Client
  <2>7. CASE UNCHANGED vars
    BY <2>7 DEF vars
  <2>8. QED
    BY <2>1, <2>2, <2>3, <2>4, <2>5, <2>6, <2>7 DEF Next
<1>3. QED
  BY <1>1, <1>2, PTL DEF Spec

-----------------------------------------------------------------------------
(* Steps of Main, Signals, Timer and Close leave the handlers' state alone, *)
(* except that the end of the process severs what is in flight.            *)
LEMMA ControlSteps ==
  ASSUME TypeOK, Main \/ Signals \/ Timer \/ Close
  PROVE  /\ UNCHANGED <<downloads, ask, slot, reply, gone>>
         /\ stage' = stage \/ stage' = Severed
  BY DEF Main, StartFails, StartServer, Advertise, InstallSignals, PrintCount,
         Exit, Signals, Killed, Interrupt, SignalGoroutine, Timer, TTLExpires,
         TTLCancelled, Close, BeginClose, ShutdownDrains, ShutdownTimesOut,
         reqVars

(* A severed request keeps its slot and reply, and is in no earlier stage. *)
LEMMA SeveredStages ==
  ASSUME TypeOK, NEW r \in Requests
  PROVE  /\ Severed[r] \in {stage[r], "cut"}
         /\ Severed[r] = "cut" => InFlight(r) \/ stage[r] = "cut"
  BY DEF Severed, TypeOK

(* The handlers keep the numbering of slots intact: induction step of      *)
(* SlotsByStage, which is what makes concurrent downloads countable.       *)
LEMMA SlotsStep ==
  ASSUME TypeOK, SlotsByStage, Next
  PROVE  SlotsByStage'
<1> USE LimitPositive DEF TypeOK
<1>1. CASE Main \/ Signals \/ Timer \/ Close
  <2>1. UNCHANGED <<downloads, slot, reply>>
    BY <1>1, ControlSteps
  <2>2. \A r \in Requests : stage'[r] = stage[r] \/ stage'[r] = "cut"
    BY <1>1, ControlSteps, SeveredStages
  <2>3. QED
    BY <2>1, <2>2 DEF SlotsByStage
<1>2. ASSUME NEW r \in Requests, Handler(r)
      PROVE  SlotsByStage'
  <2>1. CASE Answer(r)
    <3>1. Gate(ask[r]) # "200"
      BY DEF Gate
    <3>2. QED
      BY <2>1, <3>1 DEF Answer, SlotsByStage
  <2>2. CASE Admit(r)
    <3> DEFINE n == downloads + 1
    <3>1. slot[r] = 0 /\ reply[r] # "200"
      BY <2>2 DEF Admit, SlotsByStage
    <3>2. /\ downloads' = n
          /\ slot' = [slot EXCEPT ![r] = n]
          /\ stage' = [stage EXCEPT ![r] = "counted"]
          /\ reply' = reply
      BY <2>2 DEF Admit
    <3>3. \A q \in Requests : slot'[q] \in 0..n
      BY <3>2 DEF SlotsByStage
    <3>4. \A m \in 1..n : \E q \in Requests : slot'[q] = m
      <4> SUFFICES ASSUME NEW m \in 1..n
                   PROVE  \E q \in Requests : slot'[q] = m
        OBVIOUS
      <4>1. CASE m = n
        BY <3>2, <4>1
      <4>2. CASE m # n
        <5>1. PICK q \in Requests : slot[q] = m
          BY <4>2 DEF SlotsByStage
        <5>2. q # r
          BY <3>1, <5>1
        <5>3. QED
          BY <3>2, <5>1, <5>2
      <4>3. QED
        BY <4>1, <4>2
    <3>5. \A p, q \in Requests : slot'[p] = slot'[q] /\ slot'[p] > 0 => p = q
      BY <3>2 DEF SlotsByStage
    <3>6. \A q \in Requests :
            /\ stage'[q] \in {"unsent", "refused", "accepted"} => slot'[q] = 0
            /\ stage'[q] \in {"counted", "written"} => slot'[q] > 0
            /\ reply'[q] = "200" => slot'[q] \in 1..Limit
      BY <3>1, <3>2 DEF SlotsByStage
    <3>7. QED
      BY <3>2, <3>3, <3>4, <3>5, <3>6 DEF SlotsByStage
  <2>3. CASE Refuse(r)
    BY <2>3 DEF Refuse, SlotsByStage
  <2>4. CASE WriteBaseline(r)
    BY <2>4 DEF WriteBaseline, SlotsByStage
  <2>5. CASE HandlerReturns(r)
    BY <2>5 DEF HandlerReturns, SlotsByStage
  <2>6. CASE Flush(r)
    BY <2>6 DEF Flush, SlotsByStage
  <2>7. CASE HeaderTimeout(r)
    BY <2>7 DEF HeaderTimeout, SlotsByStage
  <2>8. QED
    BY <1>2, <2>1, <2>2, <2>3, <2>4, <2>5, <2>6, <2>7 DEF Handler
<1>3. ASSUME NEW r \in Requests, Client(r)
      PROVE  SlotsByStage'
  <2>1. CASE \E a \in Asks : Connect(r, a)
    BY <2>1 DEF Connect, SlotsByStage
  <2>2. CASE ConnectRefused(r)
    BY <2>2 DEF ConnectRefused, SlotsByStage
  <2>3. CASE ClientGone(r)
    BY <2>3 DEF ClientGone, SlotsByStage
  <2>4. QED
    BY <1>3, <2>1, <2>2, <2>3 DEF Client
<1>4. QED
  BY <1>1, <1>2, <1>3 DEF Next
-----------------------------------------------------------------------------
(* The other parts of the inductive invariant, one lemma each.             *)

LEMMA GateStep ==
  ASSUME TypeOK, SlotsByStage, SlotsNeedTheGate, Next
  PROVE  SlotsNeedTheGate'
<1> USE DEF TypeOK
<1>1. CASE Main \/ Signals \/ Timer \/ Close
  BY <1>1, ControlSteps DEF SlotsNeedTheGate
<1>2. ASSUME NEW r \in Requests, Handler(r)
      PROVE  SlotsNeedTheGate'
  <2>1. CASE Admit(r)
    <3>1. /\ ask[r].get /\ ask[r].path = "baseline" /\ ask[r].body # "sized"
          /\ CodeSet => ask[r].code
      <4>1. Gate(ask[r]) = "count" /\ ask[r] \in AskSpace
        BY <2>1 DEF Admit
      <4>2. QED
        BY <4>1 DEF Gate, AskSpace
    <3>2. QED
      BY <2>1, <3>1 DEF Admit, SlotsNeedTheGate
  <2>2. CASE ~Admit(r)
    <3>1. UNCHANGED <<ask, slot>>
      BY <1>2, <2>2 DEF Handler, Answer, Refuse, WriteBaseline, HandlerReturns,
                        Flush, HeaderTimeout
    <3>2. QED
      BY <3>1 DEF SlotsNeedTheGate
  <2>3. QED
    BY <2>1, <2>2
<1>3. ASSUME NEW r \in Requests, Client(r)
      PROVE  SlotsNeedTheGate'
  <2>1. CASE \E a \in Asks : Connect(r, a)
    <3>1. slot[r] = 0 /\ UNCHANGED slot
      BY <2>1 DEF Connect, SlotsByStage
    <3>2. \A q \in Requests : q # r => ask'[q] = ask[q]
      BY <2>1 DEF Connect
    <3>3. QED
      BY <3>1, <3>2 DEF SlotsNeedTheGate
  <2>2. CASE ConnectRefused(r) \/ ClientGone(r)
    <3>1. UNCHANGED <<ask, slot>>
      BY <2>2 DEF ConnectRefused, ClientGone
    <3>2. QED
      BY <3>1 DEF SlotsNeedTheGate
  <2>3. QED
    BY <1>3, <2>1, <2>2 DEF Client
<1>4. QED
  BY <1>1, <1>2, <1>3 DEF Next

LEMMA CauseStep ==
  ASSUME TypeOK, SlotsByStage, ClosersHaveACause, Next
  PROVE  ClosersHaveACause'
<1> USE LimitPositive DEF TypeOK, ClosersHaveACause
<1>1. CASE Main
  <2>1. UNCHANGED <<slot, closers, closer, sig>> /\ main' # "init"
    BY <1>1 DEF Main, StartFails, StartServer, Advertise, InstallSignals,
                PrintCount, Exit, reqVars, closeVars
  <2>2. ttl' = ttl \/ closers = {}
    BY <1>1 DEF Main, StartFails, StartServer, Advertise, InstallSignals,
                PrintCount, Exit, closeVars
  <2>3. QED
    BY <2>1, <2>2
<1>2. CASE Signals
  BY <1>2 DEF Signals, Killed, Interrupt, SignalGoroutine, reqVars, closeVars, Up
<1>3. CASE Timer
  BY <1>3 DEF Timer, TTLExpires, TTLCancelled, reqVars, cliVars, Up
<1>4. CASE Close
  BY <1>4 DEF Close, BeginClose, ShutdownDrains, ShutdownTimesOut, reqVars, cliVars, Up
<1>5. ASSUME NEW r \in Requests, Handler(r)
      PROVE  ClosersHaveACause'
  <2>1. CASE Admit(r)
    <3>1. \A q \in Requests : slot'[q] >= slot[q]
      BY <2>1 DEF Admit, SlotsByStage
    <3>2. slot' \in [Requests -> Nat]
      BY <2>1 DEF Admit
    <3>3. QED
      BY <2>1, <3>1, <3>2 DEF Admit, closeVars, cliVars, Up
  <2>2. CASE Refuse(r)
    BY <2>2 DEF Refuse, cliVars, Up
  <2>3. CASE HandlerReturns(r)
    BY <2>3 DEF HandlerReturns, cliVars, Up
  <2>4. CASE Answer(r) \/ WriteBaseline(r) \/ Flush(r) \/ HeaderTimeout(r)
    BY <2>4 DEF Answer, WriteBaseline, Flush, HeaderTimeout, closeVars, cliVars, Up
  <2>5. QED
    BY <1>5, <2>1, <2>2, <2>3, <2>4 DEF Handler
<1>6. ASSUME NEW r \in Requests, Client(r)
      PROVE  ClosersHaveACause'
  <2>1. UNCHANGED <<slot, closers, closer, ttl, sig, main>>
    BY <1>6 DEF Client, Connect, ConnectRefused, ClientGone, closeVars, cliVars
  <2>2. QED
    BY <2>1
<1>7. QED
  BY <1>1, <1>2, <1>3, <1>4, <1>5, <1>6 DEF Next

(* A graceful stop: nothing is open when Close is over, nothing opens      *)
(* afterwards, and so nothing is there for the exit to sever.              *)
LEMMA GracefulStep ==
  ASSUME TypeOK, LeavingMeansDone, DoneMeansDrained,
         NothingCutInAGracefulStop, Next
  PROVE  LeavingMeansDone' /\ DoneMeansDrained' /\ NothingCutInAGracefulStop'
<1> USE DEF TypeOK, LeavingMeansDone, DoneMeansDrained,
            NothingCutInAGracefulStop, Drained, InFlight
<1>1. CASE Exit \/ Killed
  <2>1. \A r \in Requests : Severed[r] = "cut" => InFlight(r) \/ stage[r] = "cut"
    BY SeveredStages
  <2>2. /\ stage' = Severed
        /\ closer' = closer /\ forced' = forced
        /\ main' \in {"exited", "killed"}
    BY <1>1 DEF Exit, Killed, closeVars
  <2>3. DoneMeansDrained'
    <3>1. \A r \in Requests : stage'[r] \in {stage[r], "cut"}
      BY <2>2, SeveredStages
    <3>2. QED
      BY <2>2, <3>1
  <2>4. NothingCutInAGracefulStop'
    <3>1. CASE Exit
      BY <2>1, <2>2, <3>1 DEF Exit
    <3>2. CASE Killed
      BY <3>2 DEF Killed
    <3>3. QED
      BY <1>1, <3>1, <3>2
  <2>5. QED
    BY <2>2, <2>3, <2>4
<1>2. CASE (Main /\ ~Exit) \/ (Signals /\ ~Killed) \/ Timer
  BY <1>2 DEF Main, StartFails, StartServer, Advertise, InstallSignals,
              PrintCount, Signals, Interrupt, SignalGoroutine, Timer,
              TTLExpires, TTLCancelled, reqVars, closeVars, cliVars, Up
<1>3. CASE Close
  BY <1>3 DEF Close, BeginClose, ShutdownDrains, ShutdownTimesOut, reqVars, cliVars
<1>4. ASSUME NEW r \in Requests, Handler(r)
      PROVE  LeavingMeansDone' /\ DoneMeansDrained' /\ NothingCutInAGracefulStop'
  <2>1. /\ InFlight(r)
        /\ UNCHANGED <<closer, forced, main>>
        /\ stage'[r] # "cut"
        /\ \A q \in Requests : q # r => stage'[q] = stage[q]
    BY <1>4 DEF Handler, Answer, Admit, Refuse, WriteBaseline, HandlerReturns,
                Flush, HeaderTimeout, closeVars, cliVars
  <2>2. QED
    BY <2>1
<1>5. ASSUME NEW r \in Requests, Client(r)
      PROVE  LeavingMeansDone' /\ DoneMeansDrained' /\ NothingCutInAGracefulStop'
  BY <1>5 DEF Client, Connect, ConnectRefused, ClientGone, closeVars, cliVars
<1>6. QED
  BY <1>1, <1>2, <1>3, <1>4, <1>5 DEF Next, Main, Signals

(* The inductive invariant holds in every reachable state.                 *)
THEOREM ShareInvariant == Spec => []ShareIInv
<1>1. Init => SlotsByStage /\ SlotsNeedTheGate /\ LeavingMeansDone /\ DoneMeansDrained
  BY DEF Init, SlotsByStage, SlotsNeedTheGate, LeavingMeansDone, DoneMeansDrained
<1>2. Init => ClosersHaveACause /\ NothingCutInAGracefulStop
  BY DEF Init, ClosersHaveACause, NothingCutInAGracefulStop
<1>3. /\ TypeOK /\ TypeOK' /\ [Next]_vars
      /\ SlotsByStage /\ SlotsNeedTheGate /\ ClosersHaveACause
      /\ LeavingMeansDone /\ DoneMeansDrained /\ NothingCutInAGracefulStop
      => (SlotsByStage /\ SlotsNeedTheGate /\ ClosersHaveACause
          /\ LeavingMeansDone /\ DoneMeansDrained /\ NothingCutInAGracefulStop)'
  <2>1. CASE Next
    BY <2>1, SlotsStep, GateStep, CauseStep, GracefulStep
  <2>2. CASE UNCHANGED vars
    BY <2>2 DEF vars, reqVars, closeVars, cliVars, SlotsByStage, SlotsNeedTheGate,
                ClosersHaveACause, LeavingMeansDone, DoneMeansDrained,
                NothingCutInAGracefulStop, Drained, InFlight
  <2>3. QED
    BY <2>1, <2>2
<1>4. QED
  BY <1>1, <1>2, <1>3, TypeCorrect, PTL DEF Spec, ShareIInv

(* Slots are handed out without gaps or duplicates under any interleaving. *)
THEOREM SlotsAreExact == Spec => []SlotsExact
<1>1. ShareIInv => SlotsExact
  <2> SUFFICES ASSUME ShareIInv
               PROVE  SlotsExact
    OBVIOUS
  <2>1. {slot[r] : r \in Requests} \ {0} = 1..downloads
    BY DEF ShareIInv, SlotsByStage, TypeOK
  <2>2. QED
    BY <2>1 DEF ShareIInv, SlotsByStage, SlotsExact
<1>2. QED
  BY <1>1, ShareInvariant, PTL

(* The limit holds for any number of concurrent requests: slots inject the *)
(* served requests into 1..Limit.                                          *)
THEOREM LimitIsRespected == Spec => []AtMostLimitServed
<1>1. ShareIInv => AtMostLimitServed
  <2> SUFFICES ASSUME ShareIInv
               PROVE  AtMostLimitServed
    OBVIOUS
  <2> DEFINE served == {r \in Requests : reply[r] = "200"}
             f == [r \in served |-> slot[r]]
  <2>1. f \in Injection(served, 1..Limit)
    <3>1. f \in [served -> 1..Limit]
      BY DEF ShareIInv, SlotsByStage
    <3>2. \A q, r \in served : f[q] = f[r] => q = r
      BY <3>1 DEF ShareIInv, SlotsByStage
    <3>3. QED
      BY <3>1, <3>2 DEF Injection, IsInjective
  <2>2. IsFiniteSet(1..Limit) /\ Cardinality(1..Limit) = Limit
    BY LimitPositive, FS_Interval
  <2>3. Cardinality(served) <= Limit
    BY <2>1, <2>2, FS_Injection
  <2>4. QED
    BY <2>3 DEF AtMostLimitServed
<1>2. QED
  BY <1>1, ShareInvariant, PTL

(* Only requests that pass the gate consume slots.                         *)
THEOREM GateBeforeSlots == Spec => []SlotsNeedTheGate
  BY ShareInvariant, PTL DEF ShareIInv

(* A graceful stop cuts nobody off.                                        *)
THEOREM GracefulStopCutsNobody == Spec => []NothingCutInAGracefulStop
  BY ShareInvariant, PTL DEF ShareIInv

(* The server closes only on TTL, signal or limit.                         *)
THEOREM ClosesForAReason == Spec => []CloseHasACause
<1>1. ShareIInv => CloseHasACause
  <2> SUFFICES ASSUME ShareIInv, closer # "open"
               PROVE  ttl = "fired" \/ sig = "taken"
                        \/ \E r \in Requests : slot[r] >= Limit
    BY DEF CloseHasACause
  <2>1. closers # {} /\ closers \subseteq {"limit", "ttl", "signal"}
    BY DEF ShareIInv, TypeOK, ClosersHaveACause
  <2>2. QED
    BY <2>1 DEF ShareIInv, ClosersHaveACause
<1>2. QED
  BY <1>1, ShareInvariant, PTL
-----------------------------------------------------------------------------
(* The server implements the abstract share.  Steps of the control         *)
(* goroutines are stuttering steps of the quota, or its End.               *)
LEMMA ControlIsStutterOrEnd ==
  ASSUME TypeOK, Main \/ Signals \/ Timer \/ Close
  PROVE  Quota!End \/ UNCHANGED Quota!quotaVars
<1>1. UNCHANGED <<downloads, slot, reply, gone>>
  BY ControlSteps
<1>2. Granted' = Granted
  BY <1>1 DEF Granted
<1>3. Received' = Received
  <2>1. CASE stage' = stage
    BY <1>1, <2>1 DEF Received
  <2>2. CASE stage' = Severed
    <3>1. \A r \in Requests : stage'[r] = "done" <=> stage[r] = "done"
      BY <2>2 DEF Severed, InFlight, TypeOK
    <3>2. QED
      BY <1>1, <3>1 DEF Received
  <2>3. QED
    BY <2>1, <2>2, ControlSteps
<1>4. CASE main' = main
  BY <1>1, <1>2, <1>3, <1>4 DEF Quota!quotaVars
<1>5. CASE main' # main
  <2>1. main \notin {"failed", "exited", "killed"}
    BY <1>5 DEF Main, StartFails, StartServer, Advertise, InstallSignals,
                PrintCount, Exit, Signals, Killed, Interrupt, SignalGoroutine,
                Timer, TTLExpires, TTLCancelled, Close, BeginClose,
                ShutdownDrains, ShutdownTimesOut, cliVars
  <2>2. CASE main' \in {"failed", "exited", "killed"}
    BY <1>1, <1>2, <1>3, <2>1, <2>2 DEF Quota!End
  <2>3. CASE main' \notin {"failed", "exited", "killed"}
    BY <1>1, <1>2, <1>3, <2>1, <2>3 DEF Quota!quotaVars
  <2>4. QED
    BY <2>2, <2>3
<1>6. QED
  BY <1>4, <1>5

(* An increment within the limit takes a ticket, one past it does nothing. *)
LEMMA AdmitIsGrant ==
  ASSUME TypeOK, SlotsByStage, NEW r \in Requests, Admit(r)
  PROVE  Quota!Grant(r) \/ UNCHANGED Quota!quotaVars
<1> USE LimitPositive DEF TypeOK
<1> DEFINE n == downloads + 1
<1>1. /\ main' = main /\ main \notin {"failed", "exited", "killed"}
      /\ downloads' = n
      /\ slot' = [slot EXCEPT ![r] = n]
      /\ stage' = [stage EXCEPT ![r] = "counted"]
      /\ stage[r] = "accepted"
      /\ reply' = reply /\ gone' = gone
  BY DEF Admit, Up, cliVars
<1>2. slot[r] = 0
  BY <1>1 DEF SlotsByStage
<1>3. Received' = Received
  BY <1>1 DEF Received
<1>4. CASE downloads < Limit
  <2>1. r \notin Granted /\ Granted' = Granted \union {r}
    BY <1>1, <1>2, <1>4 DEF Granted
  <2>2. QED
    BY <1>1, <1>3, <1>4, <2>1 DEF Quota!Grant
<1>5. CASE downloads >= Limit
  <2>1. Granted' = Granted
    BY <1>1, <1>2, <1>5 DEF Granted
  <2>2. QED
    BY <1>1, <1>3, <1>5, <2>1 DEF Quota!quotaVars
<1>6. QED
  BY <1>4, <1>5

(* The flush of a 200 to a client that is still there is the delivery.     *)
LEMMA FlushIsDeliver ==
  ASSUME TypeOK, SlotsByStage, NEW r \in Requests, Flush(r)
  PROVE  Quota!Deliver(r) \/ UNCHANGED Quota!quotaVars
<1> USE DEF TypeOK
<1>1. /\ main \notin {"failed", "exited", "killed"}
      /\ UNCHANGED <<main, downloads, slot, reply, gone>>
      /\ stage' = [stage EXCEPT ![r] = "done"]
      /\ stage[r] = "replying"
  BY DEF Flush, Up, cliVars
<1>2. Granted' = Granted
  BY <1>1 DEF Granted
<1>3. CASE reply[r] = "200" /\ r \notin gone
  <2>1. r \in Granted \ Received /\ Received' = Received \union {r}
    BY <1>1, <1>3 DEF Granted, Received, SlotsByStage
  <2>2. QED
    BY <1>1, <1>2, <2>1 DEF Quota!Deliver
<1>4. CASE ~(reply[r] = "200" /\ r \notin gone)
  <2>1. Received' = Received
    BY <1>1, <1>4 DEF Received
  <2>2. QED
    BY <1>1, <1>2, <2>1 DEF Quota!quotaVars
<1>5. QED
  BY <1>3, <1>4

(* Every other step of a request is invisible to the quota.                *)
LEMMA OthersStutter ==
  ASSUME TypeOK, SlotsByStage, NEW r \in Requests,
         (Handler(r) /\ ~Admit(r) /\ ~Flush(r)) \/ Client(r)
  PROVE  UNCHANGED Quota!quotaVars
<1> USE DEF TypeOK
<1>1. UNCHANGED <<main, downloads, slot>>
  BY DEF Handler, Answer, Refuse, WriteBaseline, HandlerReturns, HeaderTimeout,
         Client, Connect, ConnectRefused, ClientGone, cliVars
<1>2. Granted' = Granted
  BY <1>1 DEF Granted
<1>3. Received' = Received
  <2>1. CASE HeaderTimeout(r)
    <3>1. reply[r] # "200" /\ UNCHANGED <<reply, gone>>
            /\ stage' = [stage EXCEPT ![r] = "done"]
      BY <2>1, LimitPositive DEF HeaderTimeout, SlotsByStage
    <3>2. QED
      BY <3>1 DEF Received
  <2>2. CASE ~HeaderTimeout(r)
    <3>1. /\ stage[r] # "done" /\ stage'[r] # "done"
          /\ \A q \in Requests : q # r =>
               /\ stage'[q] = stage[q] /\ reply'[q] = reply[q]
               /\ q \in gone' <=> q \in gone
      <4>1. CASE Handler(r) /\ ~Admit(r) /\ ~Flush(r)
        BY <2>2, <4>1 DEF Handler, Answer, Refuse, WriteBaseline, HandlerReturns
      <4>2. CASE Client(r)
        BY <4>2 DEF Client, Connect, ConnectRefused, ClientGone
      <4>3. QED
        BY <4>1, <4>2
    <3>2. QED
      BY <3>1 DEF Received
  <2>3. QED
    BY <2>1, <2>2
<1>4. QED
  BY <1>1, <1>2, <1>3 DEF Quota!quotaVars

(* The server, with all its goroutines, implements the quota: at most      *)
(* Limit requests are ever granted the baseline, deliveries go only to     *)
(* those, and nothing is granted or delivered after the end.               *)
THEOREM ServerImplementsQuota == Spec => ImplementsQuota
<1>1. Init => Quota!QuotaInit
  BY LimitPositive DEF Init, Quota!QuotaInit, Granted, Received
<1>2. TypeOK /\ SlotsByStage /\ [Next]_vars => [Quota!QuotaNext]_(Quota!quotaVars)
  <2> SUFFICES ASSUME TypeOK, SlotsByStage, [Next]_vars
               PROVE  [Quota!QuotaNext]_(Quota!quotaVars)
    OBVIOUS
  <2>1. CASE Main \/ Signals \/ Timer \/ Close
    BY <2>1, ControlIsStutterOrEnd DEF Quota!QuotaNext
  <2>2. ASSUME NEW r \in Requests, Handler(r) \/ Client(r)
        PROVE  [Quota!QuotaNext]_(Quota!quotaVars)
    BY <2>2, AdmitIsGrant, FlushIsDeliver, OthersStutter DEF Quota!QuotaNext
  <2>3. CASE UNCHANGED vars
    BY <2>3 DEF vars, reqVars, cliVars, closeVars, Quota!quotaVars, Granted, Received
  <2>4. QED
    BY <2>1, <2>2, <2>3 DEF Next
<1>3. QED
  BY <1>1, <1>2, ShareInvariant, PTL DEF Spec, ImplementsQuota, Quota!QuotaSpec, ShareIInv-----------------------------------------------------------------------------
(* The printed count.  What was answered from the counter is what has a    *)
(* slot, once every handler is through, and nobody takes a slot after the  *)
(* count is read in a graceful stop.                                       *)
Answered(r) == reply[r] \in {"200", "410"}

CountIInv ==
  /\ \A r \in Requests :
       /\ Answered(r) => slot[r] > 0
       /\ slot[r] > 0 => Answered(r) \/ stage[r] \in {"counted", "cut"}
  /\ main \in {"leaving", "exited"} => closer = "done" /\ (~forced => printed = downloads)

LEMMA CountControl ==
  ASSUME ShareIInv, CountIInv, Main \/ Signals \/ Timer \/ Close
  PROVE  CountIInv'
<1>0. TypeOK
  BY DEF ShareIInv
<1>1. UNCHANGED <<downloads, slot, reply>> /\ (stage' = stage \/ stage' = Severed)
  BY <1>0, ControlSteps
<1>2. \A r \in Requests : stage'[r] \in {stage[r], "cut"}
  BY <1>0, <1>1, SeveredStages
<1>3. (main \in {"leaving", "exited"} => closer = "done" /\ (~forced => printed = downloads))'
  <2>1. CASE Main
    BY <1>1, <2>1 DEF Main, StartFails, StartServer, Advertise, InstallSignals, PrintCount, Exit,
                      reqVars, closeVars, cliVars, CountIInv
  <2>2. CASE Signals
    BY <1>1, <2>2 DEF Signals, Killed, Interrupt, SignalGoroutine, reqVars, closeVars, cliVars,
                      CountIInv
  <2>3. CASE Timer
    BY <1>1, <2>3 DEF Timer, TTLExpires, TTLCancelled, reqVars, closeVars, cliVars, CountIInv
  <2>4. CASE Close
    BY <1>1, <2>4 DEF Close, BeginClose, ShutdownDrains, ShutdownTimesOut, reqVars, closeVars,
                      cliVars, CountIInv
  <2>5. QED
    BY <2>1, <2>2, <2>3, <2>4
<1>4. QED
  BY <1>1, <1>2, <1>3 DEF CountIInv, Answered

LEMMA CountRequest ==
  ASSUME ShareIInv, CountIInv, NEW r \in Requests, Handler(r) \/ Client(r)
  PROVE  CountIInv'
<1>0. TypeOK /\ SlotsByStage /\ LeavingMeansDone /\ DoneMeansDrained
  BY DEF ShareIInv
<1>1. /\ UNCHANGED <<main, closer, forced, printed>>
      /\ \A q \in Requests \ {r} : /\ stage'[q] = stage[q] /\ slot'[q] = slot[q]
                                   /\ reply'[q] = reply[q]
  BY <1>0 DEF TypeOK, Handler, Answer, Admit, Refuse, WriteBaseline, HandlerReturns, Flush,
              HeaderTimeout, Client, Connect, ConnectRefused, ClientGone, closeVars, cliVars
<1>2. /\ Answered(r)' => slot'[r] > 0
      /\ slot'[r] > 0 => Answered(r)' \/ stage'[r] \in {"counted", "cut"}
  <2>0. /\ stage \in [Requests -> Stages] /\ slot \in [Requests -> Nat]
        /\ reply \in [Requests -> Replies] /\ downloads \in Nat
    BY <1>0 DEF TypeOK
  <2>1. CASE Answer(r)
    <3>1. slot'[r] = 0 /\ ~Answered(r)'
      BY <1>0, <2>0, <2>1 DEF Answer, SlotsByStage, Gate, Answered
    <3>2. QED
      BY <3>1
  <2>2. CASE Admit(r)
    BY <2>0, <2>2 DEF Admit
  <2>3. CASE Refuse(r) \/ WriteBaseline(r)
    <3>1. slot'[r] > 0 /\ Answered(r)'
      BY <1>0, <2>0, <2>3 DEF Refuse, WriteBaseline, SlotsByStage, Answered
    <3>2. QED
      BY <3>1
  <2>4. CASE HandlerReturns(r) \/ Flush(r) \/ HeaderTimeout(r)
    <3>1. slot'[r] = slot[r] /\ reply'[r] = reply[r] /\ stage[r] # "cut"
          /\ (stage[r] = "counted" => FALSE)
      BY <2>4 DEF HandlerReturns, Flush, HeaderTimeout
    <3>2. QED
      BY <3>1 DEF CountIInv, Answered
  <2>5. CASE Client(r)
    <3>1. slot'[r] = slot[r] /\ reply'[r] = reply[r]
          /\ (stage'[r] = stage[r] \/ slot[r] = 0)
      BY <1>0, <2>0, <2>5 DEF Client, Connect, ConnectRefused, ClientGone, SlotsByStage
    <3>2. QED
      BY <3>1 DEF CountIInv, Answered
  <2>6. QED
    BY <2>1, <2>2, <2>3, <2>4, <2>5 DEF Handler
<1>3. main \in {"leaving", "exited"} /\ ~forced => downloads' = downloads
  <2>1. CASE Admit(r)
    BY <1>0, <2>1 DEF Admit, Up, LeavingMeansDone, DoneMeansDrained, Drained, InFlight
  <2>2. CASE ~Admit(r)
    BY <2>2 DEF Handler, Answer, Refuse, WriteBaseline, HandlerReturns, Flush, HeaderTimeout,
                Client, Connect, ConnectRefused, ClientGone
  <2>3. QED
    BY <2>1, <2>2
<1>4. QED
  BY <1>1, <1>2, <1>3 DEF CountIInv, Answered

LEMMA CountStep ==
  ASSUME ShareIInv, CountIInv, [Next]_vars
  PROVE  CountIInv'
<1>1. CASE UNCHANGED vars
  BY <1>1 DEF vars, reqVars, closeVars, cliVars, CountIInv, Answered
<1>2. QED
  BY <1>1, CountControl, CountRequest DEF Next

(* The slots number the requests that have one.                            *)
LEMMA SlotsCount ==
  ASSUME TypeOK, SlotsByStage
  PROVE  Cardinality({r \in Requests : slot[r] > 0}) = downloads
<1> DEFINE held == {r \in Requests : slot[r] > 0}
           f == [r \in held |-> slot[r]]
<1>1. downloads \in Nat /\ slot \in [Requests -> Nat]
  BY DEF TypeOK
<1>2. f \in [held -> 1..downloads]
  BY <1>1 DEF SlotsByStage
<1>3. \A q, r \in held : f[q] = f[r] => q = r
  BY DEF SlotsByStage
<1>4. \A n \in 1..downloads : \E r \in held : f[r] = n
  <2> SUFFICES ASSUME NEW n \in 1..downloads
               PROVE  \E r \in held : f[r] = n
    OBVIOUS
  <2>1. PICK r \in Requests : slot[r] = n
    BY DEF SlotsByStage
  <2>2. r \in held
    BY <1>1, <2>1
  <2>3. QED
    BY <2>1, <2>2
<1> HIDE DEF f
<1>5. f \in Bijection(held, 1..downloads)
  BY <1>2, <1>3, <1>4 DEF Bijection, Injection, Surjection, IsInjective
<1>6. IsFiniteSet(1..downloads) /\ Cardinality(1..downloads) = downloads
  BY <1>1, FS_Interval
<1> HIDE DEF held
<1>7. Cardinality(held) = downloads
  <2>1. f \in Injection(held, 1..downloads)
    BY <1>5 DEF Bijection
  <2>2. IsFiniteSet(held)
    BY <1>6, <2>1, FS_Injection
  <2>3. ExistsBijection(held, 1..downloads)
    BY <1>5 DEF ExistsBijection
  <2>4. QED
    BY <1>6, <2>2, <2>3, FS_Bijection
<1>8. QED
  BY <1>7 DEF held

(* After a graceful stop the number in "Sharing ended (%d download(s)      *)
(* served)." is that of the requests answered from the counter: no handler *)
(* slips in between the count and the exit, for any number of requests.    *)
THEOREM CountIsFinal == Spec => []FinalCountExact
<1>1. Init => CountIInv
  BY DEF Init, CountIInv, Answered
<1>2. ShareIInv /\ CountIInv /\ [Next]_vars => CountIInv'
  BY CountStep
<1>3. ShareIInv /\ CountIInv => FinalCountExact
  <2> SUFFICES ASSUME ShareIInv, CountIInv, main = "exited", ~forced
               PROVE  printed = Cardinality({r \in Requests : reply[r] \in {"200", "410"}})
    BY DEF FinalCountExact
  <2>1. \A r \in Requests : stage[r] \notin {"counted", "cut"}
    BY DEF ShareIInv, CountIInv, DoneMeansDrained, Drained, InFlight, NothingCutInAGracefulStop
  <2>2. {r \in Requests : reply[r] \in {"200", "410"}} = {r \in Requests : slot[r] > 0}
    BY <2>1 DEF CountIInv, Answered
  <2>3. QED
    BY <2>2, SlotsCount DEF ShareIInv, CountIInv
<1>4. QED
  BY <1>1, <1>2, <1>3, ShareInvariant, PTL DEF Spec
=============================================================================
