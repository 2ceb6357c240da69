---------------------------- MODULE MCLaunchService ----------------------------
(* Small instances of LaunchService. *)
EXTENDS LaunchService, TLC

\* Every thread may launch every account.
AnyAccount == [t \in Users |-> Accounts]

\* Every thread launches an account of its own.
OwnAccounts == CHOOSE f \in [Users -> {{a} : a \in Accounts}] : \A t, u \in Users : f[t] = f[u] => t = u

\* Every variable has its shape, and no launch that failed has left an intent behind.
IntentsFit == TypeOK /\ NoIntentOfFailedLaunch
=============================================================================
