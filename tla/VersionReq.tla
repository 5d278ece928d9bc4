----------------------------- MODULE VersionReq -----------------------------
(***************************************************************************)
(* Version requirements (internal/verreq).  A version is the sequence of   *)
(* the numbers of its first dotted token, up to one that is too large; it  *)
(* is empty if there is none.  A requirement is a sequence of comparators, *)
(* all of which must hold; "required" is no comparator.                    *)
(***************************************************************************)
EXTENDS Integers, Sequences

Ops        == {"=", "==", ">", ">=", "<", "<=", ""}
Version    == Seq(Nat)
Comparator == [op : Ops, want : Version]

Part(v, i) == IF i <= Len(v) THEN v[i] ELSE 0

(* Mutant: only parts that both have are compared.                         *)
CompareNCommon(a, b) ==
  LET differ == {i \in 1..Len(b) : i <= Len(a) /\ a[i] # b[i]}
      first  == CHOOSE i \in differ : \A j \in differ : i <= j
  IN  IF differ = {} THEN 0 ELSE IF a[first] < b[first] THEN -1 ELSE 1

(* The parts of b are compared, one that a does not have is zero.          *)
CompareN(a, b) ==
  LET differ == {i \in 1..Len(b) : Part(a, i) # b[i]}
      first  == CHOOSE i \in differ : \A j \in differ : i <= j
  IN  IF differ = {} THEN 0 ELSE IF Part(a, first) < b[first] THEN -1 ELSE 1

EvalComparator(found, c) ==
  LET order == CompareN(found, c.want) IN
  CASE c.op \in {"=", "==", ""} -> order = 0
    [] c.op = ">"  -> order > 0
    [] c.op = ">=" -> order >= 0
    [] c.op = "<"  -> order < 0
    [] c.op = "<=" -> order <= 0

(* The first comparator that does not hold, or is none, decides.           *)
CheckVersion(found, requirement) ==
  LET Fails(i) == \/ requirement[i].want = <<>>
                  \/ ~EvalComparator(found, requirement[i])
      failing  == {i \in 1..Len(requirement) : Fails(i)}
      first    == CHOOSE i \in failing : \A j \in failing : i <= j
  IN  IF found = <<>> THEN "unparsed"
      ELSE IF failing = {} THEN "ok"
      ELSE IF requirement[first].want = <<>> THEN "unparsed" ELSE "no"
-----------------------------------------------------------------------------
(* What it means.                                                          *)

Below(v, base) == \A i \in 1..Len(v) : v[i] < base

(* The first n parts of a version, all below base, as a number.            *)
Number(v, n, base) ==
  LET f[i \in 0..n] == IF i = 0 THEN 0 ELSE f[i - 1] * base + Part(v, i) IN f[n]

(* The comparator in arithmetic: both versions are cut, or filled up with  *)
(* zeros, to as many parts as the requirement has.                         *)
Satisfies(found, c, base) ==
  LET n == Len(c.want)
      f == Number(found, n, base)
      w == Number(c.want, n, base)
  IN  CASE c.op \in {"=", "==", ""} -> f = w
        [] c.op = ">"  -> f > w
        [] c.op = ">=" -> f >= w
        [] c.op = "<"  -> f < w
        [] c.op = "<=" -> f <= w
=============================================================================
