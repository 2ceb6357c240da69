--------------------------- MODULE MCLaunchDecisions ---------------------------
(***************************************************************************)
(* Launches and what decides them, for TLC: the launch itself, where an    *)
(* account is taken back to, the smart launcher and the resource policy,   *)
(* changes of the settings, the registry of servers, and coordination.     *)
(* They share no variable, so one run checks them side by side: a          *)
(* behaviour takes the steps of one part only.                             *)
(***************************************************************************)
EXTENDS MCLaunchService, Relaunch, SmartLaunch, SettingsChange, ServerRegistry, Coordination

CONSTANTS a1, a2, a3, a4     \* the accounts that plans are made for

VARIABLE part

\* The parts whose steps are not taken begin in one state.  Launches begin with labels that are
\* right: what becomes of those that an earlier session left is a question of another run.
DecisionInit ==
    /\ part \in {"launch", "relaunch", "smart", "settings", "servers", "plans"}
    /\ Init /\ \A a \in Accounts : row[a].status = "ready"
    /\ RelaunchInit /\ (part # "relaunch" => rule = NoRule /\ ~ knobs.sound /\ knobs.threshold = 0)
    /\ SmartInit /\ (part # "smart" => ~ config.skip /\ ~ config.adaptive /\ config.size = 1)
    /\ ChangeInit /\ (part # "settings" => stored = Defaults)
    /\ RegistryInit
    /\ CoordinationInit /\ (part # "plans" => profiles = <<>> /\ listed = <<>>)

DecisionNext ==
    /\ UNCHANGED part
    /\ \/ /\ part = "launch" /\ Next
          /\ UNCHANGED <<relaunchVars, smartVars, changeVars, registryVars, coordinationVars>>
       \/ /\ part = "relaunch" /\ RelaunchNext
          /\ UNCHANGED <<vars, smartVars, changeVars, registryVars, coordinationVars>>
       \/ /\ part = "smart" /\ SmartNext
          /\ UNCHANGED <<vars, relaunchVars, changeVars, registryVars, coordinationVars>>
       \/ /\ part = "settings" /\ ChangeNext
          /\ UNCHANGED <<vars, relaunchVars, smartVars, registryVars, coordinationVars>>
       \/ /\ part = "servers" /\ RegistryNext
          /\ UNCHANGED <<vars, relaunchVars, smartVars, changeVars, coordinationVars>>
       \/ /\ part = "plans" /\ CoordinationNext
          /\ UNCHANGED <<vars, relaunchVars, smartVars, changeVars, registryVars>>

decisionVars ==
    <<vars, relaunchVars, smartVars, changeVars, registryVars, coordinationVars, part>>

DecisionSpec == DecisionInit /\ [][DecisionNext]_decisionVars

(***************************************************************************)
(* The instance.                                                           *)
(***************************************************************************)

\* What a screen may ask a plan for: three accounts, one of them twice, and more than a plan holds.
SelectionsAsked == {<<a3, a2, a1, a3>>, <<a1, a2, a3, a4>>}

\* What may be asked of the smart launcher: with and without somebody twice.
RequestsAsked == {<<"a", "b", "a">>, <<"a", "b", "c">>, <<"c", "a", "b", "c">>}

\* Several settings at once: what the file follows with a threshold, the other threshold
\* alone, what the monitor follows with the recent games, and the file alone.
UpdatesAsked == {("fps" :> 2) @@ ("warn" :> 2), "critical" :> 1, ("watch" :> 2) @@ ("recent" :> 2), "fps" :> 2}

\* Two threads with the accounts they launch, and two visitors, can be exchanged.
SameOwners(p) == \A t \in Users : p[t] \in Users /\ Targets[p[t]] = {p[a] : a \in Targets[t]}
Exchanges == {p \in Permutations(Users \union Accounts) : SameOwners(p)} \union Permutations(Visitors)

(***************************************************************************)
(* Properties.                                                             *)
(***************************************************************************)

\* Every variable has its shape, and no launch that failed has left an intent behind.
DecisionsTypeOK ==
    /\ IntentsFit
    /\ RelaunchTypeOK /\ SmartTypeOK /\ ChangeTypeOK /\ RegistryTypeOK /\ CoordinationTypeOK

\* What the user set is obeyed, whatever was refused or came in between: what hangs on the
\* settings agrees with them, a server is given up in time, and what comes due was armed.
UserIsObeyed == SettingsAgree /\ ServersAreGivenUp /\ OnlyWhatWasArmed

\* What is remembered and planned is right: the registry of servers, coordinated plans, those
\* of the smart launcher, and the capacity, which leaves the reserve.
PlansAreRight == RegistryIsSound /\ PlansFit /\ PlanIsRight /\ CapacityFits

\* What no step may do: go back to a server that failed, start a batch without memory,
\* throttle an open window, or send a distribution to a server that was not eligible.
DecisionsHold == FailedServerIsLeft /\ VetoHolds /\ NobodyIsThrottled /\ DistributionKeepsToEligible
=============================================================================
