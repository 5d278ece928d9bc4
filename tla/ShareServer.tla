---------------------------- MODULE ShareServer ----------------------------
(***************************************************************************)
(* `snagify share baseline` and `snagify share current`: one process that  *)
(* serves a baseline to a bounded number of teammates for a bounded time.  *)
(*                                                                         *)
(* The actors are the handler goroutine of each request, the goroutine     *)
(* that waits for the TTL, the goroutine that waits for Ctrl-C, the        *)
(* goroutines that run Close, the command's main goroutine, and the        *)
(* clients, which may go away at any moment.  Close runs once (sync.Once): *)
(* it closes the listener, waits for open connections at most two seconds  *)
(* and then releases the main goroutine, which prints a count and exits;   *)
(* exit kills whatever is still running.                                   *)
(***************************************************************************)
EXTENDS Integers, FiniteSets

CONSTANTS
  Requests,       (* requests that clients may send, one connection each *)
  Asks,           (* what a request may ask: a set of records, see AskSpace *)
  MaxOption,      (* --max-downloads as given; any integer *)
  DefaultLimit,   (* 20 in the code *)
  CodeSet         (* the share has a pairing code *)

(* A request has no body, one of an announced length, or a chunked one,    *)
(* whose length the http server gives as -1.                               *)
AskSpace == [get : BOOLEAN, path : {"baseline", "resolve", "other"},
             body : {"none", "sized", "chunked"}, code : BOOLEAN]

ASSUME ShareAssumption ==
  /\ IsFiniteSet(Requests)
  /\ Asks \subseteq AskSpace
  /\ MaxOption \in Int
  /\ DefaultLimit \in Nat \ {0}
  /\ CodeSet \in BOOLEAN

VARIABLES
  main,       (* the command's main goroutine *)
  ad,         (* its mDNS advertisement: "none", "on", "stopped" *)
  downloads,  (* Server.downloads, the atomic counter *)
  stage,      (* how far each request has got *)
  ask,        (* what each request asks *)
  slot,       (* the counter value its handler obtained; 0 before *)
  reply,      (* the response its handler chose *)
  gone,       (* requests whose client went away while being served *)
  closers,    (* goroutines that have called Close, by their reason *)
  closer,     (* the one execution of Close's body *)
  forced,     (* Shutdown gave up on open connections after 2 s *)
  ttl,        (* the TTL goroutine *)
  sig,        (* Ctrl-C: the signal channel and its goroutine *)
  printed     (* the count in "Sharing ended (%d download(s) served)." *)

reqVars   == <<downloads, stage, ask, slot, reply, gone>>
closeVars == <<closers, closer, forced, ttl>>
cliVars   == <<main, ad, sig, printed>>
vars      == <<reqVars, closeVars, cliVars>>

Limit == IF MaxOption <= 0 THEN DefaultLimit ELSE MaxOption

NoAsk == [get |-> FALSE, path |-> "other", body |-> "none", code |-> FALSE]
Up    == main \notin {"init", "failed", "exited", "killed"}

(* A connection the http server still has open. *)
InFlight(r) == stage[r] \in {"accepted", "counted", "written", "replying"}
Drained     == \A r \in Requests : ~InFlight(r)

(* The end of the process resets every open connection. *)
Severed == [r \in Requests |-> IF InFlight(r) THEN "cut" ELSE stage[r]]

Init ==
  /\ main = "init" /\ ad = "none" /\ sig = "none" /\ printed = 0
  /\ downloads = 0
  /\ stage = [r \in Requests |-> "unsent"]
  /\ ask   = [r \in Requests |-> NoAsk]
  /\ slot  = [r \in Requests |-> 0]
  /\ reply = [r \in Requests |-> "none"]
  /\ gone = {} /\ closers = {} /\ closer = "open" /\ forced = FALSE
  /\ ttl = "unset"
-----------------------------------------------------------------------------
(* The main goroutine.                                                     *)

(* StartServer fails: empty or oversized baseline, no randomness, no port, *)
(* no certificate.  The command exits with code 2.                         *)
StartFails ==
  /\ main = "init"
  /\ main' = "failed"
  /\ UNCHANGED <<reqVars, closeVars, ad, sig, printed>>

(* StartServer returns: the server accepts and the TTL runs.               *)
StartServer ==
  /\ main = "init"
  /\ main' = "starting"
  /\ ttl' = "armed"
  /\ UNCHANGED <<reqVars, closers, closer, forced, ad, sig, printed>>

(* share current --lan registers the share; without --lan, or when mDNS    *)
(* registration fails (a warning only), the step is not taken.             *)
Advertise ==
  /\ main = "starting"
  /\ ad = "none"
  /\ ad' = "on"
  /\ UNCHANGED <<reqVars, closeVars, main, sig, printed>>

(* signal.Notify, and the goroutine that waits for one signal.             *)
InstallSignals ==
  /\ main = "starting"
  /\ main' = "waiting"
  /\ UNCHANGED <<reqVars, closeVars, ad, sig, printed>>

(* Mutant: the count is printed as soon as Close has begun.                *)
PrintEarly ==
  /\ main = "waiting"
  /\ closer # "open"
  /\ main' = "leaving"
  /\ ad' = IF ad = "on" THEN "stopped" ELSE ad
  /\ printed' = downloads
  /\ UNCHANGED <<reqVars, closeVars, sig>>

(* srv.Wait returns, the advertisement is withdrawn, the count is printed. *)
PrintCount ==
  /\ main = "waiting"
  /\ closer = "done"
  /\ main' = "leaving"
  /\ ad' = IF ad = "on" THEN "stopped" ELSE ad
  /\ printed' = downloads
  /\ UNCHANGED <<reqVars, closeVars, sig>>

(* The command returns and the process ends with every other goroutine.    *)
Exit ==
  /\ main = "leaving"
  /\ main' = "exited"
  /\ stage' = Severed
  /\ UNCHANGED <<downloads, ask, slot, reply, gone, closeVars, ad, sig, printed>>
-----------------------------------------------------------------------------
(* Ctrl-C.  Before signal.Notify it ends the process at once; afterwards   *)
(* the channel holds one signal and every later one is swallowed.          *)

Killed ==
  /\ main = "starting"
  /\ main' = "killed"
  /\ stage' = Severed
  /\ UNCHANGED <<downloads, ask, slot, reply, gone, closeVars, ad, sig, printed>>

Interrupt ==
  /\ main = "waiting"
  /\ sig = "none"
  /\ sig' = "pending"
  /\ UNCHANGED <<reqVars, closeVars, main, ad, printed>>

SignalGoroutine ==
  /\ Up
  /\ sig = "pending"
  /\ sig' = "taken"
  /\ closers' = closers \union {"signal"}
  /\ UNCHANGED <<reqVars, closer, forced, ttl, main, ad, printed>>
-----------------------------------------------------------------------------
(* The TTL goroutine: select on the timer and on done.                     *)

TTLExpires ==
  /\ Up
  /\ ttl = "armed"
  /\ ttl' = "fired"
  /\ closers' = closers \union {"ttl"}
  /\ UNCHANGED <<reqVars, closer, forced, cliVars>>

TTLCancelled ==
  /\ Up
  /\ ttl = "armed"
  /\ closer = "done"
  /\ ttl' = "cancelled"
  /\ UNCHANGED <<reqVars, closers, closer, forced, cliVars>>
-----------------------------------------------------------------------------
(* Close: the first caller runs the body, the others wait for it.          *)

(* httpSrv.Shutdown closes the listener first.                             *)
BeginClose ==
  /\ Up
  /\ closers # {}
  /\ closer = "open"
  /\ closer' = "shutdown"
  /\ UNCHANGED <<reqVars, closers, forced, ttl, cliVars>>

(* Mutant: httpSrv.Close in place of Shutdown, no waiting.                 *)
CloseWithoutDraining ==
  /\ Up
  /\ closer = "shutdown"
  /\ closer' = "done"
  /\ UNCHANGED <<reqVars, closers, forced, ttl, cliVars>>

(* No connection is open: Shutdown returns and done is closed.             *)
ShutdownDrains ==
  /\ Up
  /\ closer = "shutdown"
  /\ Drained
  /\ closer' = "done"
  /\ UNCHANGED <<reqVars, closers, forced, ttl, cliVars>>

(* The two-second context expires first; its error is dropped.             *)
ShutdownTimesOut ==
  /\ Up
  /\ closer = "shutdown"
  /\ ~Drained
  /\ closer' = "done"
  /\ forced' = TRUE
  /\ UNCHANGED <<reqVars, closers, ttl, cliVars>>
-----------------------------------------------------------------------------
(* Requests.                                                               *)

(* A client connects while the listener is open and sends one request.     *)
Connect(r, a) ==
  /\ Up
  /\ closer = "open"
  /\ stage[r] = "unsent"
  /\ stage' = [stage EXCEPT ![r] = "accepted"]
  /\ ask' = [ask EXCEPT ![r] = a]
  /\ UNCHANGED <<downloads, slot, reply, gone, closeVars, cliVars>>

(* Once the listener is closed, or the process is gone, connecting fails.  *)
ConnectRefused(r) ==
  /\ main # "init"
  /\ ~Up \/ closer # "open"
  /\ stage[r] = "unsent"
  /\ stage' = [stage EXCEPT ![r] = "refused"]
  /\ UNCHANGED <<downloads, ask, slot, reply, gone, closeVars, cliVars>>

(* Mutant: the code is asked for on /resolve only.                         *)
GateCodeOnResolveOnly(a) ==
  CASE ~a.get \/ a.path = "other"                     -> "404"
    [] a.body = "sized"                               -> "405"
    [] CodeSet /\ ~a.code /\ a.path = "resolve"       -> "403"
    [] a.path = "resolve"                             -> "url"
    [] OTHER                                          -> "count"

(* The handlers' checks, in their order; "count" when all of them pass on  *)
(* the download route.  The test for uploads is r.ContentLength > 0, which *)
(* a chunked body passes.                                                  *)
Gate(a) ==
  CASE ~a.get \/ a.path = "other"  -> "404"
    [] a.body = "sized"            -> "405"
    [] CodeSet /\ ~a.code          -> "403"
    [] a.path = "resolve"          -> "url"
    [] OTHER                       -> "count"

(* A handler that answers without touching the counter: an error, or the   *)
(* token URL of /resolve.                                                  *)
Answer(r) ==
  /\ Up
  /\ stage[r] = "accepted"
  /\ Gate(ask[r]) # "count"
  /\ reply' = [reply EXCEPT ![r] = Gate(ask[r])]
  /\ stage' = [stage EXCEPT ![r] = "replying"]
  /\ UNCHANGED <<downloads, ask, slot, gone, closeVars, cliVars>>

(* The download handler's atomic increment.                                *)
Admit(r) ==
  /\ Up
  /\ stage[r] = "accepted"
  /\ Gate(ask[r]) = "count"
  /\ downloads' = downloads + 1
  /\ slot' = [slot EXCEPT ![r] = downloads + 1]
  /\ stage' = [stage EXCEPT ![r] = "counted"]
  /\ UNCHANGED <<ask, reply, gone, closeVars, cliVars>>

(* Past the limit: 410 Gone, and one more goroutine calls Close.           *)
Refuse(r) ==
  /\ Up
  /\ stage[r] = "counted"
  /\ slot[r] > Limit
  /\ reply' = [reply EXCEPT ![r] = "410"]
  /\ stage' = [stage EXCEPT ![r] = "replying"]
  /\ closers' = closers \union {"limit"}
  /\ UNCHANGED <<downloads, ask, slot, gone, closer, forced, ttl, cliVars>>

(* Mutant: off by one, the limit is refused only after one more.           *)
WriteOneMore(r) ==
  /\ Up
  /\ stage[r] = "counted"
  /\ slot[r] <= Limit + 1
  /\ reply' = [reply EXCEPT ![r] = "200"]
  /\ stage' = [stage EXCEPT ![r] = "written"]
  /\ UNCHANGED <<downloads, ask, slot, gone, closeVars, cliVars>>

(* w.Write of the baseline; its error is dropped, so a client that has     *)
(* gone away makes no difference here.                                     *)
WriteBaseline(r) ==
  /\ Up
  /\ stage[r] = "counted"
  /\ slot[r] <= Limit
  /\ reply' = [reply EXCEPT ![r] = "200"]
  /\ stage' = [stage EXCEPT ![r] = "written"]
  /\ UNCHANGED <<downloads, ask, slot, gone, closeVars, cliVars>>

(* Mutant: the last slot does not close.                                   *)
ReturnsAndForgetsClose(r) ==
  /\ Up
  /\ stage[r] = "written"
  /\ stage' = [stage EXCEPT ![r] = "replying"]
  /\ UNCHANGED <<downloads, ask, slot, reply, gone, closeVars, cliVars>>

(* The handler returns; the one that took the last slot starts Close.  The *)
(* response is flushed to the client after this.                           *)
HandlerReturns(r) ==
  /\ Up
  /\ stage[r] = "written"
  /\ stage' = [stage EXCEPT ![r] = "replying"]
  /\ closers' = IF slot[r] = Limit THEN closers \union {"limit"} ELSE closers
  /\ UNCHANGED <<downloads, ask, slot, reply, gone, closer, forced, ttl, cliVars>>

(* The http server flushes the response and closes the connection.         *)
Flush(r) ==
  /\ Up
  /\ stage[r] = "replying"
  /\ stage' = [stage EXCEPT ![r] = "done"]
  /\ UNCHANGED <<downloads, ask, slot, reply, gone, closeVars, cliVars>>

(* The client never completes its request header, or leaves before the     *)
(* handler runs: ReadHeaderTimeout or the read error ends the connection.  *)
HeaderTimeout(r) ==
  /\ Up
  /\ stage[r] = "accepted"
  /\ stage' = [stage EXCEPT ![r] = "done"]
  /\ UNCHANGED <<downloads, ask, slot, reply, gone, closeVars, cliVars>>

(* Mutant: a client that goes away gives its slot back.                    *)
ClientGoneRefunds(r) ==
  /\ Up
  /\ stage[r] \in {"counted", "written", "replying"}
  /\ gone' = gone \union {r}
  /\ downloads' = downloads - 1
  /\ UNCHANGED <<stage, ask, slot, reply, closeVars, cliVars>>

(* The client disconnects, times out (15 s) or stalls past WriteTimeout    *)
(* while its request is being handled.                                     *)
ClientGone(r) ==
  /\ Up
  /\ stage[r] \in {"counted", "written", "replying"}
  /\ gone' = gone \union {r}
  /\ UNCHANGED <<downloads, stage, ask, slot, reply, closeVars, cliVars>>
-----------------------------------------------------------------------------
Main    == StartFails \/ StartServer \/ Advertise \/ InstallSignals \/ PrintCount \/ Exit
Signals == Killed \/ Interrupt \/ SignalGoroutine
Timer   == TTLExpires \/ TTLCancelled
Close   == BeginClose \/ ShutdownDrains \/ ShutdownTimesOut
Handler(r) == Answer(r) \/ Admit(r) \/ Refuse(r) \/ WriteBaseline(r)
                \/ HandlerReturns(r) \/ Flush(r) \/ HeaderTimeout(r)
Client(r)  == (\E a \in Asks : Connect(r, a)) \/ ConnectRefused(r) \/ ClientGone(r)

Next ==
  \/ Main \/ Signals \/ Timer \/ Close
  \/ \E r \in Requests : Handler(r) \/ Client(r)

Spec == Init /\ [][Next]_vars

(* The Go scheduler runs every goroutine that can run, every read and write *)
(* is bounded by the server's timeouts, and Shutdown by its context.  No    *)
(* client ever has to send anything, nobody has to press Ctrl-C, and the    *)
(* TTL may be too long to matter (--ttl 1000h).                             *)
FairSpec ==
  /\ Spec
  /\ WF_vars(InstallSignals) /\ WF_vars(PrintCount) /\ WF_vars(Exit)
  /\ WF_vars(SignalGoroutine)
  /\ WF_vars(Close)
  /\ \A r \in Requests : WF_vars(Handler(r))
-----------------------------------------------------------------------------
Stages  == {"unsent", "refused", "accepted", "counted", "written", "replying",
            "done", "cut"}
Replies == {"none", "404", "405", "403", "url", "200", "410"}

TypeOK ==
  /\ main \in {"init", "failed", "starting", "waiting", "leaving", "exited", "killed"}
  /\ ad \in {"none", "on", "stopped"}
  /\ downloads \in Nat
  /\ stage \in [Requests -> Stages]
  /\ ask \in [Requests -> AskSpace]
  /\ slot \in [Requests -> Nat]
  /\ reply \in [Requests -> Replies]
  /\ gone \subseteq Requests
  /\ closers \subseteq {"limit", "ttl", "signal"}
  /\ closer \in {"open", "shutdown", "done"}
  /\ forced \in BOOLEAN
  /\ ttl \in {"unset", "armed", "fired", "cancelled"}
  /\ sig \in {"none", "pending", "taken"}
  /\ printed \in Nat

(* Requests the handler decided to give the baseline to, and those whose   *)
(* client holds all of it.                                                 *)
Granted  == {r \in Requests : slot[r] \in 1..Limit}
Received == {r \in Requests : stage[r] = "done" /\ reply[r] = "200" /\ r \notin gone}

(* Concurrent handlers never share a slot and no slot is skipped: the      *)
(* requests that passed the gate hold exactly the numbers 1..downloads.    *)
SlotsExact ==
  /\ {slot[r] : r \in Requests} \ {0} = 1..downloads
  /\ \A q, r \in Requests : slot[q] = slot[r] /\ slot[q] > 0 => q = r

(* At most --max-downloads responses carry the baseline, even counting     *)
(* those still being written, or written to clients that have gone: the    *)
(* handler decides from the value its own increment returned, not from a   *)
(* second read of the counter.                                             *)
AtMostLimitServed == Cardinality({r \in Requests : reply[r] = "200"}) <= Limit

(* A slot is consumed only by a GET of the token path, with no body of an  *)
(* announced length and with the pairing code when the share has one: a    *)
(* probe of the share without the path and the code never uses up a        *)
(* teammate's download.  A chunked body is no obstacle, see NoUploadServed. *)
SlotsNeedTheGate ==
  \A r \in Requests : slot[r] > 0 =>
    /\ ask[r].get /\ ask[r].path = "baseline" /\ ask[r].body # "sized"
    /\ CodeSet => ask[r].code

(* A response is cut short by the server only when Shutdown ran out of its *)
(* two seconds, or Ctrl-C arrived before its handler was installed: the    *)
(* goroutine that takes the last slot closes the server while its own and  *)
(* other responses are still unflushed, and all of them must get through.  *)
NothingCutInAGracefulStop ==
  (\E r \in Requests : stage[r] = "cut") => forced \/ main = "killed"

(* The server stops accepting only for one of its three reasons.           *)
CloseHasACause ==
  closer # "open" =>
    ttl = "fired" \/ sig = "taken" \/ (\E r \in Requests : slot[r] >= Limit)

(* After a graceful stop the printed number is the number of requests that *)
(* were answered from the counter (with the baseline or with 410): no      *)
(* handler slips in between the count and the exit.                        *)
FinalCountExact ==
  main = "exited" /\ ~forced =>
    printed = Cardinality({r \in Requests : reply[r] \in {"200", "410"}})

(* "Enforce single-purpose: reject bodies/uploads.": a request that brings  *)
(* a body is not given the baseline.  The code gives it to one whose body  *)
(* is chunked.                                                             *)
NoUploadServed == \A r \in Requests : reply[r] = "200" => ask[r].body = "none"

(* The command reports "Sharing ended (%d download(s) served).": no more    *)
(* than the responses that carried the baseline, when none was cut off.    *)
(* The code also counts the requests it turned away with 410.              *)
ReportsOnlyServed ==
  main = "exited" /\ ~forced => printed <= Cardinality({r \in Requests : reply[r] = "200"})

(* The invariant by which the properties above are inductive: which slot   *)
(* and reply a request has at each stage, who may be waiting in Close, and *)
(* that a graceful Close leaves no connection behind.                      *)
SlotsByStage ==
  /\ \A r \in Requests : slot[r] \in 0..downloads
  /\ \A n \in 1..downloads : \E r \in Requests : slot[r] = n
  /\ \A q, r \in Requests : slot[q] = slot[r] /\ slot[q] > 0 => q = r
  /\ \A r \in Requests :
       /\ stage[r] \in {"unsent", "refused", "accepted"} => slot[r] = 0
       /\ stage[r] \in {"counted", "written"} => slot[r] > 0
       /\ reply[r] = "200" => slot[r] \in 1..Limit

ClosersHaveACause ==
  /\ "ttl" \in closers => ttl = "fired"
  /\ "signal" \in closers => sig = "taken"
  /\ "limit" \in closers => \E r \in Requests : slot[r] >= Limit
  /\ closer # "open" => closers # {}
  /\ main = "init" => closers = {}

LeavingMeansDone == main = "leaving" => closer = "done"

DoneMeansDrained == closer = "done" /\ ~forced => Drained

ShareIInv ==
  /\ TypeOK
  /\ SlotsByStage
  /\ SlotsNeedTheGate
  /\ ClosersHaveACause
  /\ LeavingMeansDone
  /\ DoneMeansDrained
  /\ NothingCutInAGracefulStop

(* Each of the three reasons to stop is enough by itself to end the share, *)
(* whatever clients do: the TTL, a Ctrl-C, or the last download, without   *)
(* any further request.                                                    *)
ShareEnds ==
  (ttl = "fired" \/ sig # "none" \/ \E r \in Requests : slot[r] >= Limit)
    ~> main \in {"exited", "killed"}

(* The server implements the abstract share.                               *)
Quota == INSTANCE ShareQuota WITH
  left      <- IF downloads >= Limit THEN 0 ELSE Limit - downloads,
  granted   <- Granted,
  delivered <- Received,
  over      <- main \in {"failed", "exited", "killed"}

ImplementsQuota == Quota!QuotaSpec
=============================================================================
