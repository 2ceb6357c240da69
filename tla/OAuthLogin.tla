------------------------------- MODULE OAuthLogin -------------------------------
(***************************************************************************)
(* The OAuth login: the dialog of the user interface (app.js), the two     *)
(* bridge calls that may be under way for it, the coordinator with its     *)
(* loopback receiver (roblox/oauth.py) and the saving of the grant         *)
(* (application_service.py).                                               *)
(*                                                                         *)
(* The coordinator works under one lock, the exchange of the code          *)
(* included, so a call into it is one step; the grant is saved outside.    *)
(***************************************************************************)
EXTENDS Integers

CONSTANT MaxLogins      \* bound on the logins that are started

Logins == 1..MaxLogins
NoLogin == 0

VARIABLES
    login,          \* [Logins -> status in the coordinator: pending in _active or in _terminal]
    receiver,       \* [Logins -> the callback receiver: "closed", "listening" or what it has got]
    late,           \* logins whose time is over
    shut,           \* the coordinator was closed
    linked,         \* logins whose grant is saved
    remembered,     \* _oauth_results: completed logins whose answer is kept
    dialog,         \* the dialog: [login, shown, cancelling]
    timer,          \* the login that the interval timer polls
    pollCall, cancelCall,   \* the calls of the bridge: [pc, login, reply]
    told            \* history: [Logins -> what the user was told at the end]

coordinatorVars == <<login, receiver, late, shut>>
dialogVars == <<dialog, timer, told>>
oauthVars == <<coordinatorVars, linked, remembered, dialogVars, pollCall, cancelCall>>

Status == {"none", "waiting", "completed", "expired", "failed", "cancelled", "dropped"}
NoDialog == [login |-> NoLogin, shown |-> "none", cancelling |-> FALSE]
NoCall == [pc |-> "idle", login |-> NoLogin, reply |-> "none"]

OAuthTypeOK ==
    /\ login \in [Logins -> Status]
    /\ receiver \in [Logins -> {"closed", "listening", "code", "error"}]
    /\ {late, linked, remembered} \subseteq SUBSET Logins
    /\ shut \in BOOLEAN
    /\ dialog \in [login : Logins \cup {NoLogin}, shown : Status, cancelling : BOOLEAN]
    /\ timer \in Logins \cup {NoLogin}
    /\ {pollCall, cancelCall} \subseteq [pc : {"idle", "asked", "saves", "answered"},
                                         login : Logins \cup {NoLogin}, reply : Status \cup {"raised"}]
    /\ told \in [Logins -> {"nothing", "connected", "not added"}]

OAuthInit ==
    /\ login = [l \in Logins |-> "none"]
    /\ receiver = [l \in Logins |-> "closed"]
    /\ late = {} /\ linked = {} /\ remembered = {} /\ shut = FALSE
    /\ dialog = NoDialog /\ timer = NoLogin
    /\ pollCall = NoCall /\ cancelCall = NoCall
    /\ told = [l \in Logins |-> "nothing"]

Active == {l \in Logins : login[l] = "waiting"}
Waits(d) == d.login # NoLogin /\ d.shown = "waiting" /\ ~ d.cancelling

-----------------------------------------------------------------------------
(* The user, the browser and the clock *)

\* beginOAuthPolling: the first poll is asked for at once, unless an older one is still under way.
BeginPolling(l) ==
    /\ timer' = l
    /\ pollCall' = IF pollCall.pc = "idle" THEN [pc |-> "asked", login |-> l, reply |-> "none"] ELSE pollCall

\* startOAuthLogin and start: refused while a login is pending or after close.
MayStartLogin == Active = {} /\ ~ shut

StartOAuthLogin ==
    /\ dialog.login = NoLogin \/ (dialog.shown # "waiting" /\ ~ dialog.cancelling)
    /\ MayStartLogin
    /\ \E l \in Logins :
         /\ login[l] = "none" /\ \A k \in 1..(l - 1) : login[k] # "none"
         /\ login' = [login EXCEPT ![l] = "waiting"]
         /\ receiver' = [receiver EXCEPT ![l] = "listening"]
         /\ dialog' = [login |-> l, shown |-> "waiting", cancelling |-> FALSE]
         /\ BeginPolling(l)
    /\ UNCHANGED <<late, shut, linked, remembered, cancelCall, told>>

\* The browser calls back, once for each login that counts; later callbacks are refused.
Callback(l) ==
    /\ receiver[l] = "listening"
    /\ \E got \in {"code", "error"} : receiver' = [receiver EXCEPT ![l] = got]
    /\ UNCHANGED <<login, late, shut, linked, remembered, dialogVars, pollCall, cancelCall>>

TimeIsOver(l) ==
    /\ login[l] = "waiting" /\ l \notin late
    /\ late' = late \cup {l}
    /\ UNCHANGED <<login, receiver, shut, linked, remembered, dialogVars, pollCall, cancelCall>>

\* Another flow of the user interface closes or replaces the dialog, for example a browser
\* login that succeeds (closeModal) or the palette: nothing is cancelled.
DropDialog ==
    /\ dialog.login # NoLogin
    /\ dialog' = NoDialog /\ timer' = NoLogin
    /\ UNCHANGED <<coordinatorVars, linked, remembered, pollCall, cancelCall, told>>

\* close() of the service: pending logins are dropped with their receivers.
ShutCoordinator ==
    /\ ~ shut /\ shut' = TRUE
    /\ login' = [l \in Logins |-> IF login[l] = "waiting" THEN "dropped" ELSE login[l]]
    /\ receiver' = [l \in Logins |-> "closed"]
    /\ UNCHANGED <<late, linked, remembered, dialogVars, pollCall, cancelCall>>

-----------------------------------------------------------------------------
(* pollOAuthLogin of the dialog and poll_oauth_login of the service *)

TimerFires ==
    /\ timer # NoLogin /\ dialog.login = timer /\ Waits(dialog)
    /\ pollCall.pc = "idle"
    /\ pollCall' = [pc |-> "asked", login |-> timer, reply |-> "none"]
    /\ UNCHANGED <<coordinatorVars, linked, remembered, dialogVars, cancelCall>>

PollReplies(pc, r) == pollCall' = [pollCall EXCEPT !.pc = pc, !.reply = r]

\* _finish_terminal, and the normal end of poll.
Finish(l, status) ==
    /\ login' = [login EXCEPT ![l] = status]
    /\ receiver' = [receiver EXCEPT ![l] = "closed"]

\* What is said of a login that is over; nothing is known of one that was dropped.
Terminal(l) == IF login[l] = "dropped" THEN "raised" ELSE login[l]

ExpiredWhenCalled(l) == l \in late /\ receiver[l] # "listening"
Expired(l) == l \in late

\* The code is exchanged for a grant and the profile is read, under the lock; either may fail.
ExchangeCode(l) ==
    \/ Finish(l, "completed") /\ PollReplies("saves", "completed")
    \/ Finish(l, "failed") /\ PollReplies("answered", "failed")

PollLogin ==
    LET l == pollCall.login IN
    /\ pollCall.pc = "asked"
    /\ \/ /\ l \in remembered \/ login[l] # "waiting"
          /\ PollReplies("answered", Terminal(l)) /\ UNCHANGED <<login, receiver>>
       \/ /\ login[l] = "waiting" /\ Expired(l)
          /\ Finish(l, "expired") /\ PollReplies("answered", "expired")
       \/ /\ login[l] = "waiting" /\ ~ Expired(l) /\ receiver[l] = "listening"
          /\ PollReplies("answered", "waiting") /\ UNCHANGED <<login, receiver>>
       \/ /\ login[l] = "waiting" /\ ~ Expired(l) /\ receiver[l] = "error"
          /\ Finish(l, "cancelled") /\ PollReplies("answered", "cancelled")
       \/ /\ login[l] = "waiting" /\ ~ Expired(l) /\ receiver[l] = "code"
          /\ ExchangeCode(l)
    /\ UNCHANGED <<late, shut, linked, remembered, dialogVars, cancelCall>>

\* _persist_oauth_connection, then the answer is kept; or it fails, and nothing was linked.
SaveGrant ==
    /\ pollCall.pc = "saves"
    /\ \/ /\ PollReplies("answered", "completed")
          /\ linked' = linked \cup {pollCall.login}
          /\ remembered' = remembered \cup {pollCall.login}
       \/ PollReplies("answered", "raised") /\ UNCHANGED <<linked, remembered>>
    /\ UNCHANGED <<coordinatorVars, dialogVars, cancelCall>>

\* The answer reaches the dialog, if it still shows this login and no cancellation is asked for.
Concerns(d, l) == d.login = l /\ ~ d.cancelling

Tells(l, what) == told' = [told EXCEPT ![l] = what]

PollAnswered ==
    LET l == pollCall.login
        r == pollCall.reply IN
    /\ pollCall.pc = "answered"
    /\ pollCall' = NoCall
    /\ CASE ~ Concerns(dialog, l) \/ r = "waiting" -> UNCHANGED dialogVars
         [] Concerns(dialog, l) /\ r = "completed" ->
              dialog' = NoDialog /\ timer' = NoLogin /\ Tells(l, "connected")
         [] OTHER -> /\ dialog' = [dialog EXCEPT !.shown = IF r = "raised" THEN "failed" ELSE r]
                     /\ timer' = NoLogin /\ Tells(l, "not added")
    /\ UNCHANGED <<coordinatorVars, linked, remembered, cancelCall>>

-----------------------------------------------------------------------------
(* cancelOAuthLogin of the dialog and cancel_oauth_login of the service *)

CancelClicked ==
    /\ Waits(dialog) /\ cancelCall.pc = "idle"
    /\ dialog' = [dialog EXCEPT !.cancelling = TRUE] /\ timer' = NoLogin
    /\ cancelCall' = [pc |-> "asked", login |-> dialog.login, reply |-> "none"]
    /\ UNCHANGED <<coordinatorVars, linked, remembered, pollCall, told>>

\* The kept answer goes first.  What is over already is answered as it is; the bridge may fail.
AlwaysCancelled(l) == "cancelled"
CancelAnswer(l) == IF login[l] = "waiting" THEN "cancelled" ELSE Terminal(l)

CancelLogin ==
    LET l == cancelCall.login IN
    /\ cancelCall.pc = "asked"
    /\ remembered' = remembered \ {l}
    /\ \/ /\ IF login[l] = "waiting" THEN Finish(l, "cancelled") ELSE UNCHANGED <<login, receiver>>
          /\ cancelCall' = [cancelCall EXCEPT !.pc = "answered", !.reply = CancelAnswer(l)]
       \/ /\ UNCHANGED <<login, receiver>>
          /\ cancelCall' = [cancelCall EXCEPT !.pc = "answered", !.reply = "raised"]
    /\ UNCHANGED <<late, shut, linked, dialogVars, pollCall>>

CancelAnswered ==
    LET l == cancelCall.login
        r == cancelCall.reply IN
    /\ cancelCall.pc = "answered"
    /\ cancelCall' = NoCall
    /\ IF r = "raised"
       THEN /\ IF dialog.login = l
               THEN dialog' = [dialog EXCEPT !.cancelling = FALSE] /\ BeginPolling(l)
               ELSE UNCHANGED <<dialog, timer, pollCall>>
            /\ UNCHANGED told
       ELSE /\ dialog' = NoDialog /\ timer' = NoLogin
            /\ Tells(l, IF r = "completed" THEN "connected" ELSE "not added")
            /\ UNCHANGED pollCall
    /\ UNCHANGED <<coordinatorVars, linked, remembered>>

OAuthNext ==
    \/ StartOAuthLogin \/ DropDialog \/ ShutCoordinator \/ CancelClicked
    \/ \E l \in Logins : Callback(l) \/ TimeIsOver(l)
    \/ TimerFires \/ PollLogin \/ SaveGrant \/ PollAnswered
    \/ CancelLogin \/ CancelAnswered

\* The interval timer fires, calls return, time passes.  Nobody has to answer in the browser.
OAuthFairness ==
    /\ WF_oauthVars(TimerFires)
    /\ WF_oauthVars(PollLogin \/ SaveGrant \/ PollAnswered)
    /\ WF_oauthVars(CancelLogin \/ CancelAnswered)
    /\ \A l \in Logins : WF_oauthVars(TimeIsOver(l))

OAuthSpec == OAuthInit /\ [][OAuthNext]_oauthVars /\ OAuthFairness

-----------------------------------------------------------------------------
(* Properties *)

\* The dialog tells the user that no grant was added only when none is, or ever will be by this
\* login, although a poll that completes it and a cancellation may be under way together.
NothingAddedIsTrue ==
    \A l \in Logins : told[l] = "not added" =>
        l \notin linked /\ ~ (pollCall.pc = "saves" /\ pollCall.login = l)

\* One login is pending at a time and only its receiver listens, so no other callback is taken.
OneReceiver ==
    /\ \A k, l \in Active : k = l
    /\ \A l \in Logins : receiver[l] # "closed" <=> l \in Active

\* No login whose dialog stays open is waiting, so that the next one can be started.  (One whose dialog is dropped is polled by nobody, and it blocks every later
\* login.)
NoLoginWaits == \A l \in Logins : login[l] = "waiting" => dialog.login # l
=============================================================================
