----------------------------------- MODULE Values -----------------------------------
(***************************************************************************)
(* The values the modules share: Python's None, optional values, the two   *)
(* commands of a heat source, and the earliest of some times.              *)
(***************************************************************************)
EXTENDS Integers

CONSTANT None      \* Python's None

ASSUME NoneIsNoTime == None \notin Int

Maybe(S) == S \cup {None}

(* HeatingAction.ENABLE_HEATING and DISABLE_HEATING *)
Actions == {"enable", "disable"}
ASSUME NoneIsNoAction == None \notin Actions

(* min(times), or None when there is none. *)
Earliest(times) ==
    IF times = {} THEN None ELSE CHOOSE t \in times : \A u \in times : t <= u
==============================================================================
