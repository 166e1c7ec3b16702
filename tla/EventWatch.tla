----------------------------- MODULE EventWatch -----------------------------
(***************************************************************************)
(* What the event back end promises to the code above it, whatever array,  *)
(* bit sets and loop it uses: a watcher is called only while it is          *)
(* registered, for a descriptor and an event type that the last poll        *)
(* reported, one callback at a time, and once per poll for a registration.  *)
(***************************************************************************)
CONSTANTS Watchers, Pairs, None \* None is not a watcher

VARIABLES
    watch,   \* the pair <<descriptor, event type>> of each registered watcher
    ready,   \* the pairs reported by the last poll
    running, \* whose callback runs
    served   \* who was called since the last poll

vars == <<watch, ready, running, served>>

Init ==
    /\ watch = [w \in {} |-> <<>>]
    /\ ready = {}
    /\ running = None
    /\ served = {}

Register(w, p) ==
    /\ w \notin DOMAIN watch
    /\ watch' = [x \in DOMAIN watch \union {w} |-> IF x = w THEN p ELSE watch[x]]
    /\ UNCHANGED <<ready, running, served>>

Unregister(w) ==
    /\ w \in DOMAIN watch
    /\ watch' = [x \in DOMAIN watch \ {w} |-> watch[x]]
    /\ served' = served \ {w}
    /\ UNCHANGED <<ready, running>>

\* Only pairs somebody waits for are reported.
Poll ==
    /\ running = None
    /\ \A p \in ready' : \E w \in DOMAIN watch : watch[w] = p
    /\ served' = {}
    /\ UNCHANGED <<watch, running>>

Run(w) ==
    /\ running = None
    /\ w \in DOMAIN watch \ served
    /\ watch[w] \in ready
    /\ running' = w
    /\ served' = served \union {w}
    /\ UNCHANGED <<watch, ready>>

Finish ==
    /\ running # None
    /\ running' = None
    /\ UNCHANGED <<watch, ready, served>>

Next ==
    \/ \E w \in Watchers, p \in Pairs : Register(w, p)
    \/ \E w \in Watchers : Unregister(w) \/ Run(w)
    \/ Poll \/ Finish

Spec == Init /\ [][Next]_vars
=============================================================================
