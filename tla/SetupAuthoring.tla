--------------------------------- MODULE SetupAuthoring ---------------------------------
(***************************************************************************)
(* Several sessions author one configuration over one setup document:      *)
(* dialogs and websocket clients side by side, Home Assistant's registries *)
(* changing under them, and a restart that ends every session and keeps    *)
(* the document.                                                           *)
(***************************************************************************)
EXTENDS HeatingAuthoring, WaterAuthoring

CONSTANTS InitialHeating, InitialWater   \* bound: the contents in force at first

EmptyStore == [drafts |-> << >>, reports |-> {}, revisions |-> << >>, active |-> None, legacy |-> None]

(* A revision in force, authored before, and the one that it replaced. *)
Earlier(schema, number, content) ==
    [schema |-> schema, conf |-> 0, number |-> number, parent |-> number - 1, origin |-> "greenfield",
     content |-> content, draft |-> None, draftRev |-> 0, report |-> None]
InForce(schema, content) ==
    [EmptyStore EXCEPT !.active = [rev |-> 2, gen |-> 2],
                       !.revisions = <<Earlier(schema, 1, content), Earlier(schema, 2, content)>>]

AuthoringInit ==
    /\ \/ /\ module = "heating"
          /\ \/ store = EmptyStore
             \/ \E c \in InitialHeating :
                  store \in {[EmptyStore EXCEPT !.legacy = c], InForce(2, c), InForce(3, c)}
       \/ /\ module = "water"
          /\ \/ store = EmptyStore
             \/ \E c \in InitialWater : store = InForce(2, c)
    /\ known = Registry
    /\ sessions = [s \in Sessions |-> Closed]
    /\ requests = 0
    /\ started = 0

(* The user closes a dialog; what it holds is in memory only. *)
Close(f) ==
    /\ f \in Flows /\ IsIdle(f) /\ sessions[f] # Closed
    /\ sessions' = [sessions EXCEPT ![f] = Closed]
    /\ UNCHANGED <<module, requests, store, known, started>>

(* External: Home Assistant's registries gain or lose an entry. *)
RegistryChanges ==
    /\ \E e \in Volatile : known' = IF e \in known THEN known \ {e} ELSE known \cup {e}
    /\ UNCHANGED <<module, requests, store, sessions, started>>

(* Every session ends, also in the middle of an operation. *)
Restart ==
    /\ \E s \in Sessions : ~IsIdle(s)
    /\ sessions' = [s \in Sessions |-> Closed]
    /\ UNCHANGED <<module, requests, store, known, started>>

AuthoringNext ==
    \/ \E s \in Sessions : HeatingNext(s) \/ WaterNext(s) \/ Close(s)
    \/ RegistryChanges \/ Restart

AuthoringSpec == AuthoringInit /\ [][AuthoringNext]_authoringVars

-----------------------------------------------------------------------------
(* PROPERTIES *)

(* Every revision that can be put in force is exactly what some report     *)
(* found ready: the same draft, the same revision of it, the same content, *)
(* although other sessions edit, abandon and validate between the          *)
(* validation, the checks and the write.                                   *)
CanonicalIsValidated ==
    \A i \in DOMAIN store.revisions :
        LET r == store.revisions[i]
        IN  r.report # None =>
              /\ r.report.ready
              /\ r.report.draft = r.draft /\ r.report.rev = r.draftRev /\ r.report.content = r.content

(* No session loses the work of another: a draft is replaced or deleted    *)
(* only by a session that has read exactly what is replaced or deleted -   *)
(* its latest revision at that time - and a replacement is its successor.  *)
Read(s) == IF Step(s) \in {"save", "delete"} THEN sessions[s].work.basis ELSE sessions[s].draft
NoUpdateIsLost ==
    [][ \A d \in ToSet(store.drafts) :
          d \in ToSet(store'.drafts)
          \/ /\ \E s \in Sessions : Read(s) = d /\ sessions'[s] # sessions[s]
             /\ \A n \in ToSet(store'.drafts) : n.id = d.id => n.rev = d.rev + 1 ]_authoringVars
==============================================================================
