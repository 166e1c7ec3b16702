-------------------------- MODULE DescriptorCalls --------------------------
(***************************************************************************)
(* What the calls of Descriptors promise to the Lua code above them: a     *)
(* call gives one descriptor that nobody else has, or takes one back, or   *)
(* changes nothing.  Only connect may leave a descriptor behind that Lua   *)
(* never hears of.  Pipeline is written against this.                      *)
(***************************************************************************)
CONSTANT Fds

VARIABLES
    held,    \* what Lua was given and has not given back
    mislaid, \* what is open and nobody knows of
    op       \* the call under way

vars == <<held, mislaid, op>>

Init == held = {} /\ mislaid = {} /\ op = "lua"

Gives ==
    /\ op \in {"listen", "connect", "accept", "popen"} /\ op' = "lua"
    /\ \E f \in Fds \ (held \union mislaid) : held' = held \union {f}
    /\ UNCHANGED mislaid

TakesBack ==
    /\ op = "lua" /\ op' \in {"lua", "pclose"}
    /\ \E f \in held : held' = held \ {f}
    /\ UNCHANGED mislaid

Mislays ==
    /\ op = "connect" /\ op' = "lua"
    /\ \E f \in Fds \ (held \union mislaid) : mislaid' = mislaid \union {f}
    /\ UNCHANGED held

ChangesNothing == UNCHANGED <<held, mislaid>>

Next == Gives \/ TakesBack \/ Mislays \/ ChangesNothing

Spec == Init /\ [][Next]_vars
=============================================================================
