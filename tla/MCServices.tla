------------------------------- MODULE MCServices -------------------------------
(***************************************************************************)
(* Threads that serve the user for long, for TLC: the fleet automation,    *)
(* the holder of Roblox's singleton mutex, the OAuth login and the sign-in *)
(* through a browser.  They share no variable, so one run checks them side *)
(* by side: a behaviour takes the steps of one part only.  The fleet is    *)
(* there twice: once with emergency stops, once with groups that change.   *)
(***************************************************************************)
EXTENDS FleetAutomation, MultiInstance, OAuthLogin, BrowserLogin

VARIABLE part

serviceVars == <<watching, vars, multiVars, oauthVars, signInVars, part>>

Fleet == {"stop", "groups"}

ServiceInit ==
    /\ part \in Fleet \cup {"lock", "oauth", "sign-in"}
    /\ Init /\ MultiInit /\ OAuthInit /\ SignInInit
    /\ part \in Fleet <=> watching
    /\ part \notin Fleet => armed
    /\ covered = Accounts
    /\ part # "lock" => calm /\ mutex = NoOwner

ServiceNext ==
    /\ UNCHANGED <<part, watching>>
    /\ \/ /\ part \in Fleet /\ Next
          /\ IF part = "stop" THEN UNCHANGED covered ELSE UNCHANGED stops
          /\ UNCHANGED <<multiVars, oauthVars, signInVars>>
       \/ part = "lock" /\ MultiNext /\ UNCHANGED <<vars, oauthVars, signInVars>>
       \/ part = "oauth" /\ OAuthNext /\ UNCHANGED <<vars, multiVars, signInVars>>
       \/ part = "sign-in" /\ SignInNext /\ UNCHANGED <<vars, multiVars, oauthVars>>

\* What has not started is not enabled, so the fairness of one part asks nothing of another.
ServiceSpec ==
    /\ ServiceInit /\ [][ServiceNext]_serviceVars
    /\ FleetFairness /\ MultiFairness /\ OAuthFairness /\ SignInFairness

\* One OAuth login, with its receiver, and one browser at a time.
OneSignIn == OneReceiver /\ OneBrowser

\* Again and again nobody waits for a login, so that the next one can be started.
EverySignInEnds == []<>(NoLoginWaits /\ NoSignInWaits)

\* Macros are neither stranded by a rule nor deaf to a stop.
MacrosEnd == RulePausesEnd /\ StoppedRunsEnd

\* The type invariants of the parts.
ServiceTypeOK == TypeOK /\ MultiTypeOK /\ OAuthTypeOK /\ SignInTypeOK
=============================================================================
