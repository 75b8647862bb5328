------------------------------ MODULE Commands ------------------------------
(* What a command needs besides its bolts, in two scenes that share no state:*)
(* the memory of what was sent before, and the session with the cloud.       *)
EXTENDS CommandMemory, MerossSession

VARIABLE scene

vars == <<memoryVars, sessionVars, scene>>

Init ==
    /\ MemoryInit /\ SessionInit
    /\ scene \in {"memory", "session"}
    /\ scene = "session" =>
          /\ leader = (CHOOSE i \in Instance : TRUE)
          /\ path = "switch" /\ ~armed /\ wanted = "off" /\ device = "off"
    /\ scene = "memory" => ~cloud.fine /\ ~cloud.configured /\ ~cloud.switching

Next ==
    /\ UNCHANGED scene
    /\ \/ scene = "memory" /\ MemoryNext /\ UNCHANGED sessionVars
       \/ scene = "session" /\ SessionNext /\ UNCHANGED memoryVars

Here == scene = "session" /\ UNCHANGED <<memoryVars, scene>>

\* Both callers go on, the clock does, and a command that failed is tried again
\* (publishing.py: every outcome but EXECUTED is).
SessionFairness ==
    /\ WF_vars(Here /\ SessionPass)
    /\ WF_vars(Here /\ SessionTask)
    /\ WF_vars(Here /\ Tick)
    /\ SF_vars(Here /\ SwitchSocket(TRUE))

Spec == Init /\ [][Next]_vars /\ MemoryFairness /\ SessionFairness
=============================================================================
