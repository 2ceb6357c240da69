------------------------------ MODULE DurableStore ------------------------------
(***************************************************************************)
(* What the database promises whoever uses it: one content, which changes  *)
(* by a commit or when a copy taken of it earlier is put back, and by      *)
(* nothing else: neither by a failed call nor by the end of the process.   *)
(***************************************************************************)
EXTENDS Naturals

CONSTANT Contents       \* what the database may hold

VARIABLES
    content,            \* what a reader finds
    copies              \* contents that were copied while they were current

durableVars == <<content, copies>>

DurableInit == content \in Contents /\ copies \subseteq Contents

Commit == content' \in Contents /\ UNCHANGED copies
Copy == copies' = copies \cup {content} /\ UNCHANGED content
PutBack == content' \in copies /\ UNCHANGED copies

\* Commits make something new, so what was there before returns only out of a copy.
DurableNext ==
    \/ Commit /\ content' \notin copies /\ content' > content
    \/ Copy
    \/ PutBack
=============================================================================
