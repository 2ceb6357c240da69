------------------------------ MODULE BrowserLogin ------------------------------
(***************************************************************************)
(* Sign-in through a browser that Astro starts: the results that the       *)
(* service keeps (_start_browser_login), and the thread that waits for the *)
(* session cookie, in Edge or Chrome over DevTools or else in a window of  *)
(* pywebview (roblox/browser_login.py).                                    *)
(***************************************************************************)
EXTENDS Integers, FiniteSets

CONSTANT MaxSignIns     \* bound on the sign-ins that are started

SignIns == 1..MaxSignIns

VARIABLES
    result,         \* _browser_login_results: [SignIns -> status]
    prefilled,      \* sign-ins with an imported password and an expected user name
    browser,        \* [SignIns -> place of the thread that waits for the cookie]
    caught,         \* sign-ins whose cookie was captured
    viewPolls,      \* BrowserLoginService._is_polling
    added,          \* sign-ins whose account is saved
    silent          \* history: sign-ins whose thread ended without a word

signInVars == <<result, prefilled, browser, caught, viewPolls, added, silent>>

SignInTypeOK ==
    /\ result \in [SignIns -> {"none", "waiting", "completed", "failed"}]
    /\ browser \in [SignIns -> {"none", "starting", "connects", "edge", "view", "reports", "finishes", "ended"}]
    /\ {prefilled, caught, added, silent} \subseteq SUBSET SignIns
    /\ viewPolls \in BOOLEAN

SignInInit ==
    /\ result = [s \in SignIns |-> "none"]
    /\ browser = [s \in SignIns |-> "none"]
    /\ prefilled = {} /\ caught = {} /\ added = {} /\ silent = {}
    /\ viewPolls = FALSE

BrowserTo(s, pc) == browser' = [browser EXCEPT ![s] = pc]
Says(s, r) == result' = [result EXCEPT ![s] = r]

-----------------------------------------------------------------------------
(* _start_browser_login *)

\* Under the lock: refused while any sign-in is waiting.
Unchecked == TRUE
NoneWaits == \A s \in SignIns : result[s] # "waiting"

BeginSignIn(s) ==
    /\ result[s] = "none" /\ NoneWaits
    /\ Says(s, "waiting") /\ BrowserTo(s, "starting")
    /\ prefilled' \in {prefilled, prefilled \cup {s}}
    /\ UNCHANGED <<caught, viewPolls, added, silent>>

\* Edge or Chrome is found and started, and its thread waits for the DevTools port.
StartEdge(s) ==
    /\ browser[s] = "starting"
    /\ BrowserTo(s, "connects")
    /\ UNCHANGED <<result, prefilled, caught, viewPolls, added, silent>>

\* Otherwise a window of pywebview, which cannot fill in a password.
StartView(s) ==
    /\ browser[s] = "starting"
    /\ IF s \in prefilled \/ viewPolls
       THEN Says(s, "failed") /\ BrowserTo(s, "ended") /\ UNCHANGED viewPolls
       ELSE \/ BrowserTo(s, "view") /\ viewPolls' = TRUE /\ UNCHANGED result
            \/ Says(s, "failed") /\ BrowserTo(s, "ended") /\ UNCHANGED viewPolls
    /\ UNCHANGED <<prefilled, caught, added, silent>>

-----------------------------------------------------------------------------
(* The thread *)

\* Twenty seconds for the WebSocket address of DevTools.  Without it the browser is terminated
\* and the thread returns, before anything that would report to the service.
ReachesDevTools(s) ==
    /\ browser[s] = "connects"
    /\ BrowserTo(s, "edge")
    /\ UNCHANGED <<result, prefilled, caught, viewPolls, added, silent>>

NoDevTools(s) ==
    /\ browser[s] = "connects"
    /\ BrowserTo(s, "ended") /\ silent' = silent \cup {s}
    /\ UNCHANGED <<result, prefilled, caught, viewPolls, added>>

\* The cookie appears, the window is closed, polling fails or ten minutes are over: the browser
\* goes and the thread reports.
Reports(s) ==
    /\ BrowserTo(s, "reports")
    /\ caught' \in {caught, caught \cup {s}}
    /\ UNCHANGED <<result, prefilled, added, silent>>

EdgeCloses(s) ==
    /\ browser[s] = "edge"
    /\ Reports(s) /\ UNCHANGED viewPolls

ViewCloses(s) ==
    /\ browser[s] = "view"
    /\ Reports(s) /\ viewPolls' = FALSE

\* _on_captured: the expected user name, then add_account_from_cookie; each may refuse.
OnCaptured(s) ==
    /\ browser[s] = "reports"
    /\ \/ s \notin caught /\ UNCHANGED <<result, added>>
       \/ s \in caught /\ Says(s, "completed") /\ added' = added \cup {s}
       \/ s \in caught /\ Says(s, "failed") /\ UNCHANGED added
    /\ BrowserTo(s, "finishes")
    /\ UNCHANGED <<prefilled, caught, viewPolls, silent>>

\* _on_finished: a browser that captured nothing is reported, unless the sign-in is over already.
TellsService(s) == s \notin caught

OnFinished(s) ==
    /\ browser[s] = "finishes"
    /\ IF TellsService(s) /\ result[s] = "waiting" THEN Says(s, "failed") ELSE UNCHANGED result
    /\ BrowserTo(s, "ended")
    /\ UNCHANGED <<prefilled, caught, viewPolls, added, silent>>

BrowserStep(s) ==
    \/ StartEdge(s) \/ StartView(s) \/ ReachesDevTools(s) \/ NoDevTools(s)
    \/ EdgeCloses(s) \/ ViewCloses(s) \/ OnCaptured(s) \/ OnFinished(s)

SignInNext == \E s \in SignIns : BeginSignIn(s) \/ BrowserStep(s)

\* Threads run, and their waits are bounded.
SignInFairness == \A s \in SignIns : WF_signInVars(BrowserStep(s))

SignInSpec == SignInInit /\ [][SignInNext]_signInVars /\ SignInFairness

-----------------------------------------------------------------------------
(* Properties *)

\* One browser at a time, although only the status of the results keeps a second one away: it
\* changes no earlier than the browser has gone.
OneBrowser ==
    /\ Cardinality({s \in SignIns : browser[s] \in {"starting", "connects", "edge", "view"}}) <= 1
    /\ viewPolls <=> \E s \in SignIns : browser[s] = "view"

\* No sign-in is waiting, so that the next can start; except one whose browser never opened
\* DevTools, which waits for ever and refuses all later ones.
NoSignInWaits == \A s \in SignIns : result[s] = "waiting" => s \in silent
=============================================================================
