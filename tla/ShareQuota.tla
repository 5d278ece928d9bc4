----------------------------- MODULE ShareQuota -----------------------------
(***************************************************************************)
(* What a share promises, without sockets, goroutines or shutdown: a fixed *)
(* number of tickets, each admitting one request to the baseline; a        *)
(* baseline reaches only a request that took a ticket; and once the share  *)
(* is over nothing more is admitted or delivered.                          *)
(***************************************************************************)
EXTENDS Integers

CONSTANTS
  Requests,   (* download requests that may reach the share *)
  Limit       (* tickets, a positive number: MaxDownloads once defaulted *)

VARIABLES
  left,       (* tickets not yet taken *)
  granted,    (* requests that took a ticket *)
  delivered,  (* requests whose client holds the whole baseline *)
  over        (* the share has ended *)

quotaVars == <<left, granted, delivered, over>>

QuotaInit ==
  /\ left = Limit
  /\ granted = {}
  /\ delivered = {}
  /\ over = FALSE

(* A request takes one of the remaining tickets. *)
Grant(r) ==
  /\ ~over
  /\ left > 0
  /\ r \notin granted
  /\ left' = left - 1
  /\ granted' = granted \union {r}
  /\ UNCHANGED <<delivered, over>>

(* The baseline reaches the client of an admitted request. *)
Deliver(r) ==
  /\ ~over
  /\ r \in granted \ delivered
  /\ delivered' = delivered \union {r}
  /\ UNCHANGED <<left, granted, over>>

(* Both at once, for a share that is only seen from outside. *)
Serve(r) ==
  /\ ~over
  /\ left > 0
  /\ r \notin granted
  /\ left' = left - 1
  /\ granted' = granted \union {r}
  /\ delivered' = delivered \union {r}
  /\ UNCHANGED over

(* The share ends, for whatever reason. *)
End ==
  /\ ~over
  /\ over' = TRUE
  /\ UNCHANGED <<left, granted, delivered>>

QuotaNext ==
  \/ \E r \in Requests : Grant(r) \/ Deliver(r) \/ Serve(r)
  \/ End

QuotaSpec == QuotaInit /\ [][QuotaNext]_quotaVars
=============================================================================
