--------------------------- MODULE MCProcessMonitor ---------------------------
(* Small instances of ProcessMonitor. *)
EXTENDS ProcessMonitor

OnCrash == [crash |-> TRUE, exit |-> FALSE, max |-> 1, delay |-> 1]
Always  == [crash |-> TRUE, exit |-> TRUE, max |-> 2, delay |-> 0]

OnePolicy   == {OnCrash}
EveryExit   == {Always}
=============================================================================
