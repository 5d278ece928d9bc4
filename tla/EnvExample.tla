----------------------------- MODULE EnvExample -----------------------------
(***************************************************************************)
(* The classification of the keys of .env.example by `snagify init`        *)
(* (internal/initcfg/envclassify.go).  A line is blank, junk, a comment    *)
(* with the classes it mentions, or a key with its value.                  *)
(***************************************************************************)
EXTENDS Integers, Sequences

CONSTANTS
  Keys,
  Sensitive,   (* the keys whose names look like those of secrets *)
  Disables     (* [Keys -> SUBSET Keys]: X_ENABLED and the keys that begin with X_ *)

ASSUME KeyAssumption ==
  /\ Sensitive \subseteq Keys
  /\ Disables \in [Keys -> SUBSET Keys]

Classes == {"required", "recommended", "optional"}
Values  == {"", "false", "x"}
Line    == [kind : {"blank", "junk"}] \union [kind : {"comment"}, words : SUBSET Classes]
             \union [kind : {"key"}, key : Keys, value : Values]

(* Mutant: a comment that mentions no class forgets the one before it.     *)
PendingHintLast(lines) ==
  LET h[i \in 0..Len(lines)] ==
        IF i = 0 \/ lines[i].kind # "comment" THEN {} ELSE lines[i].words
  IN  h

(* The class that is pending after each line; blank lines, malformed lines *)
(* and keys reset it.                                                      *)
PendingHint(lines) ==
  LET h[i \in 0..Len(lines)] ==
        IF i = 0 \/ lines[i].kind # "comment" THEN {}
        ELSE IF lines[i].words = {} THEN h[i - 1] ELSE lines[i].words
  IN  h

IsKey(l) == l.kind = "key"

Disabled(lines) ==
  UNION {Disables[l.key] : l \in {m \in {lines[i] : i \in 1..Len(lines)} :
                                    IsKey(m) /\ m.value = "false"}}

(* The first class of "required", "recommended", "optional" a comment has. *)
FirstOf(words) ==
  IF "required" \in words THEN "required"
  ELSE IF "recommended" \in words THEN "recommended" ELSE "optional"

Classify(lines, i) ==
  LET hint == PendingHint(lines)[i - 1]
      key  == lines[i].key
  IN  IF hint # {} THEN FirstOf(hint)
      ELSE IF key \in Disabled(lines) THEN "optional"
      ELSE IF lines[i].value = "" /\ key \in Sensitive THEN "required"
      ELSE "recommended"

KeysOf(lines) == {lines[i].key : i \in {j \in 1..Len(lines) : IsKey(lines[j])}}

KeysOfClass(lines, class) ==
  {lines[i].key : i \in {j \in 1..Len(lines) : IsKey(lines[j]) /\ Classify(lines, j) = class}}
-----------------------------------------------------------------------------
(* What it means: a key has the class of the last comment that mentions    *)
(* one among the comments right above it, without a gap.                   *)
Above(lines, i, j) ==
  j < i /\ (\A m \in j..(i - 1) : lines[m].kind = "comment") /\ lines[j].words # {}

HintedClass(lines, i) ==
  LET hints == {j \in 1..Len(lines) : Above(lines, i, j)} IN
  IF hints = {} THEN {}
  ELSE lines[CHOOSE j \in hints : \A m \in hints : m <= j].words
=============================================================================
