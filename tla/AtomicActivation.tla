------------------------------ MODULE AtomicActivation ------------------------------
(***************************************************************************)
(* What an activation promises (docs/architecture/                         *)
(* 09_Setup_Discovery_and_Import.md: "atomic from the user's configuration *)
(* perspective"): it ends with its candidate as the module's reference or  *)
(* with the reference as it was, and nothing else moves a reference.       *)
(***************************************************************************)
EXTENDS Integers, Sequences

CONSTANT Nowhere         \* the reference of a module without a configuration

VARIABLES
    reference,   \* the selected revision and its generation, of each module
    fates        \* of each activation: its module, its candidate, and how it ended

vars == <<reference, fates>>

(* At most one activation of a module is open. *)
Open(m, candidate) ==
    /\ \A i \in DOMAIN fates : ~(fates[i].module = m /\ fates[i].fate = "open")
    /\ fates' = Append(fates, [module |-> m, candidate |-> candidate, fate |-> "open"])
    /\ UNCHANGED reference

Commit(i) ==
    /\ fates[i].fate = "open"
    /\ fates' = [fates EXCEPT ![i].fate = "committed"]
    /\ reference' = [reference EXCEPT
                        ![fates[i].module] = [rev |-> fates[i].candidate, gen |-> @.gen + 1]]

Abort(i) ==
    /\ fates[i].fate = "open"
    /\ fates' = [fates EXCEPT ![i].fate = "aborted"]
    /\ UNCHANGED reference

Init == fates = << >> /\ \A m \in DOMAIN reference : reference[m] = Nowhere \/ reference[m].gen = 1

Next ==
    \/ \E i \in DOMAIN fates' \ DOMAIN fates : Open(fates'[i].module, fates'[i].candidate)
    \/ \E i \in DOMAIN fates : Commit(i) \/ Abort(i)

Spec == Init /\ [][Next]_vars
==============================================================================
