------------------------------ MODULE SourceProtection ------------------------------
(***************************************************************************)
(* What the source protection promises, without saying how: a shared heat  *)
(* source is switched on only when it has rested for MinOff since it was   *)
(* switched off, and is switched off only when it has run for MinOn since  *)
(* it was switched on.  A safety command may cut the run short; nothing    *)
(* may cut the rest short.  When control ends the source may be switched   *)
(* off once more, whatever the protections say, and never hears again.     *)
(*                                                                         *)
(* It is the contract README.md:97-104 and                                 *)
(* docs/architecture/02_Architecture.md:133-139 give; SourceControl and    *)
(* ControlRuntime are shown to implement it.                               *)
(***************************************************************************)
EXTENDS Integers

CONSTANTS
    None,    \* no command yet
    Time,    \* the times a clock may show
    MinOn,
    MinOff

VARIABLES
    source,      \* the last command the source executed, or None
    controlled   \* is a controller still in charge?

vars == <<source, controlled>>

Command == [action : {"enable", "disable"}, at : Time, safety : BOOLEAN]

Init == source = None /\ controlled = TRUE

(* A command may repeat the previous one or reverse it; a reversal waits.  *)
RespectsRest(c) ==
    (source # None /\ source.action = "disable" /\ c.action = "enable")
        => c.at >= source.at + MinOff

RespectsRun(c) ==
    (source # None /\ source.action = "enable" /\ c.action = "disable" /\ ~c.safety)
        => c.at >= source.at + MinOn

Execute ==
    /\ controlled
    /\ \E c \in Command :
         /\ source # None => c.at >= source.at
         /\ RespectsRest(c)
         /\ RespectsRun(c)
         /\ source' = c
    /\ UNCHANGED controlled

(* Control ends, with or without a last safety disable.                    *)
Release ==
    /\ controlled' = FALSE
    /\ \/ UNCHANGED source
       \/ \E t \in Time : source' = [action |-> "disable", at |-> t, safety |-> TRUE]

Next == Execute \/ Release

Spec == Init /\ [][Next]_vars
==============================================================================
