-------------------------- MODULE EditRegister --------------------------
(***************************************************************************)
(* What an edit promises (docs/commands.md, "edit"; the comment of         *)
(* internal/server/edit.go): the file is a register that holds one whole   *)
(* content, or none.  An editor takes a snapshot and either leaves the     *)
(* register alone or replaces the whole content in one step by its         *)
(* substitution in the snapshot, if its old_string fits the snapshot.      *)
(* Editors are not serialised: a swap may overwrite another that came      *)
(* after its snapshot.  Downloads only take snapshots.                     *)
(***************************************************************************)
EXTENDS EditText

CONSTANTS
    Editors,
    Contents    \* what the register may hold at first: sets of at most one

VARIABLES
    op,          \* what each editor asks for
    content,     \* {the content}, or {} when there is no file
    snapshot,    \* the content each editor has taken, likewise
    finished     \* the editors that are done

registerVars == <<op, content, snapshot, finished>>

RegisterInit ==
    /\ content \in Contents
    /\ snapshot = [e \in Editors |-> {}]
    /\ finished = {}

Snap(e) ==
    /\ e \notin finished
    /\ snapshot[e] = {}
    /\ snapshot' = [snapshot EXCEPT ![e] = content]
    /\ UNCHANGED <<op, content, finished>>

Swap(e) ==
    /\ e \notin finished
    /\ op[e].kind = "edit"
    /\ \E c \in snapshot[e] :
          /\ Accepts(op[e], c)
          /\ content' = {Substitute(op[e], c)}
    /\ finished' = finished \cup {e}
    /\ UNCHANGED <<op, snapshot>>

(* Answered, refused, failed, or dead with the worker: no effect.          *)
Leave(E) ==
    /\ finished' = finished \cup E
    /\ UNCHANGED <<op, content, snapshot>>

RegisterNext ==
    \/ \E e \in Editors : Snap(e) \/ Swap(e)
    \/ \E E \in SUBSET (Editors \ finished) : Leave(E)

RegisterSpec == RegisterInit /\ [][RegisterNext]_registerVars
===========================================================================
