---------------------------- MODULE SingletonLock ----------------------------
(***************************************************************************)
(* What multi-instance support promises: Astro takes the singleton mutex   *)
(* of Roblox only when nobody has it, keeps it for as long as it is asked  *)
(* to, and has given it back when the call that turns it off returns.      *)
(***************************************************************************)
VARIABLES intent, owner

lockVars == <<intent, owner>>

Init == intent = "off" /\ owner \in {"nobody", "client"}

TurnOn == intent = "off" /\ intent' = "on" /\ UNCHANGED owner
TurnOff == intent = "on" /\ intent' = "closing" /\ UNCHANGED owner
Closed == intent = "closing" /\ owner # "astro" /\ intent' = "off" /\ UNCHANGED owner

Take == intent # "off" /\ owner = "nobody" /\ owner' = "astro" /\ UNCHANGED intent
GiveBack == intent = "closing" /\ owner = "astro" /\ owner' = "nobody" /\ UNCHANGED intent

ClientTakes == owner = "nobody" /\ owner' = "client" /\ UNCHANGED intent
ClientLeaves == owner = "client" /\ owner' = "nobody" /\ UNCHANGED intent

Next == TurnOn \/ TurnOff \/ Closed \/ Take \/ GiveBack \/ ClientTakes \/ ClientLeaves
=============================================================================
