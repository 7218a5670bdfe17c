---------------------------- MODULE EditText ----------------------------
(***************************************************************************)
(* The substitution of internal/server/edit.go on a content given as a     *)
(* sequence of tokens, old_string and new_string being one token each.     *)
(***************************************************************************)
EXTENDS Integers, Sequences, FiniteSets

Count(c, t) == Cardinality({i \in DOMAIN c : c[i] = t})

(* Exactly one match, or with replace_all at least one.                    *)
Accepts(o, c) ==
    /\ Count(c, o.old) # 0
    /\ o.all \/ Count(c, o.old) = 1

(* Variant: the match is blanked, not replaced.                            *)
SubstituteBlank(o, c) == [i \in DOMAIN c |-> IF c[i] = o.old THEN "" ELSE c[i]]

Substitute(o, c) == [i \in DOMAIN c |-> IF c[i] = o.old THEN o.new ELSE c[i]]
=========================================================================
