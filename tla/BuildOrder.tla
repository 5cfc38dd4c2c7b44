----------------------------- MODULE BuildOrder -----------------------------
(***************************************************************************)
(* What the package pipeline promises: items are completed one after the   *)
(* other, each once and only after everything it needs; an item that fails *)
(* is never completed, a failure is reported, and what a completed item    *)
(* needs no longer changes.  Packages implements this (see Packages!BO).   *)
(***************************************************************************)
EXTENDS Naturals, Sequences

CONSTANT Items

VARIABLES
  needs,    \* what each item needs, as far as it is known
  done,     \* the items completed, in order
  failed,   \* the items given up
  reported  \* some error has been reported

vars == <<needs, done, failed, reported>>

Completed == {done[k] : k \in DOMAIN done}

Init ==
  /\ needs = [i \in Items |-> {}]
  /\ done = <<>> /\ failed = {}
  /\ reported = FALSE

Complete(i) ==
  /\ i \notin Completed \cup failed
  /\ needs[i] \subseteq Completed
  /\ done' = Append(done, i)
  /\ reported' \in {reported, TRUE}
  /\ UNCHANGED <<needs, failed>>

(* Something is learned of items that are not completed: what they need,   *)
(* or that they cannot be done.                                            *)
Discover ==
  /\ needs' \in [Items -> SUBSET Items]
  /\ \A i \in Completed : needs'[i] = needs[i]
  /\ failed \subseteq failed' /\ failed' \subseteq Items
  /\ failed' # failed => reported' = TRUE
  /\ failed' \cap Completed = {}
  /\ reported' \in {reported, TRUE}
  /\ UNCHANGED done

Next == Discover \/ \E i \in Items : Complete(i)

Spec == Init /\ [][Next]_vars
=============================================================================
