------------------------------ MODULE Logout ------------------------------
(***************************************************************************)
(* Leaving the world (ui_logout.rs): the session verbs, the handlers of the *)
(* server's replies, the leave a posted world load runs, the arrival, and  *)
(* the system that exits the process.  The countdown dialogs are the       *)
(* player's FrameXML files (CAMP and QUIT are one dialog here): a timed    *)
(* response shows one, LOGOUT_CANCEL hides it, hiding it early cancels,    *)
(* and at zero it closes without a word.                                   *)
(***************************************************************************)
EXTENDS WorldWire

VARIABLES
  quitting, logoutPending, worldHandle,  \* LogoutState
  selfGuid,    \* SelfGuid is set
  exitPosted,  \* SessionPosts.exit
  loggedOut,   \* a LoggedOutMessage not read yet
  exiting,     \* AppExit written
  dialog       \* the countdown dialog: "none", "up", "expired"

logoutState == <<quitting, logoutPending, worldHandle>>
exitVars == <<exitPosted, loggedOut, exiting>>
logoutVars == <<logoutState, selfGuid, exitVars, dialog>>

LogoutInit ==
  /\ quitting = FALSE /\ logoutPending = FALSE /\ worldHandle = FALSE /\ selfGuid = FALSE
  /\ exitPosted = FALSE /\ loggedOut = FALSE /\ exiting = FALSE
  /\ dialog = "none"

Send(kind) == cmds' = Append(cmds, Plain(kind))

InWorld == selfGuid /\ worldHandle

-----------------------------------------------------------------------------
\* Logout() and Quit(): silent while a request is pending; out of the world a quit
\* exits and a logout does nothing.
LogoutVerb(quit) ==
  /\ ~logoutPending
  /\ \/ /\ InWorld
        /\ quitting' = quit /\ logoutPending' = TRUE
        /\ Send("logout")
        /\ UNCHANGED exitPosted
     \/ /\ ~InWorld /\ quit
        /\ exitPosted' = TRUE
        /\ UNCHANGED <<quitting, logoutPending, cmds>>
  /\ UNCHANGED <<worldHandle, selfGuid, loggedOut, exiting, dialog>>

CancelLogout ==
  /\ logoutPending' = FALSE
  /\ Send("logoutCancel")
  /\ UNCHANGED <<quitting, worldHandle, selfGuid, exitVars, dialog>>

ForceQuit ==
  /\ exitPosted' = TRUE
  /\ UNCHANGED <<logoutState, selfGuid, loggedOut, exiting, dialog, cmds>>

ForceLogout ==
  /\ InWorld
  /\ quitting' = FALSE
  /\ Send("forceLogout")
  /\ UNCHANGED <<logoutPending, worldHandle, selfGuid, exitVars, dialog>>

\* The player closes the dialog before its time, which cancels; or its time is up.
CloseDialog ==
  /\ dialog = "up"
  /\ dialog' = "none" /\ logoutPending' = FALSE
  /\ Send("logoutCancel")
  /\ UNCHANGED <<quitting, worldHandle, selfGuid, exitVars>>

DialogExpires ==
  /\ dialog = "up"
  /\ dialog' = "expired"
  /\ UNCHANGED <<logoutState, selfGuid, exitVars, cmds>>

-----------------------------------------------------------------------------
\* LOGOUT_CANCEL only while a request is pending: the byte clears, and the event
\* hides the dialog, whose hiding sends a cancel of its own.
CallOff ==
  /\ logoutPending' = FALSE
  /\ IF logoutPending /\ dialog = "up"
     THEN dialog' = "none" /\ Send("logoutCancel")
     ELSE UNCHANGED <<dialog, cmds>>

\* A refusal that leaves the byte set.
ApplyResponseKept(reading) ==
  /\ dialog' = IF reading = Timed THEN "up" ELSE dialog
  /\ UNCHANGED <<logoutState, selfGuid, exitVars, cmds>>

\* A timed answer that is shown only while the request stands.
ApplyResponseIfPending(reading) ==
  /\ logoutPending' = (logoutPending /\ reading # Refused)
  /\ dialog' = IF reading = Timed /\ logoutPending THEN "up" ELSE dialog
  /\ UNCHANGED <<quitting, worldHandle, selfGuid, exitVars, cmds>>

ApplyResponse(reading) ==
  /\ logoutPending' = (logoutPending /\ reading # Refused)
  /\ dialog' = IF reading = Timed THEN "up" ELSE dialog
  /\ UNCHANGED <<quitting, worldHandle, selfGuid, exitVars, cmds>>

ApplyCancelled ==
  /\ CallOff
  /\ UNCHANGED <<quitting, worldHandle, selfGuid, exitVars>>

ApplyLeftWorld == CallOff /\ worldHandle' = FALSE

\* An arrival that leaves an unanswered request standing.
SetInWorldKept ==
  /\ worldHandle' = TRUE
  /\ UNCHANGED <<quitting, logoutPending, selfGuid, exitVars, dialog, cmds>>

SetInWorld ==
  /\ CallOff /\ worldHandle' = TRUE
  /\ UNCHANGED <<quitting, selfGuid, exitVars>>

\* exit_on_logout_complete, at the end of the frame's interface work.
ExitOnLogoutComplete ==
  /\ exitPosted' = FALSE /\ loggedOut' = FALSE
  /\ exiting' = (exitPosted \/ (loggedOut /\ quitting))
  /\ logoutPending' = (logoutPending /\ ~loggedOut)
  /\ UNCHANGED <<quitting, worldHandle, selfGuid, dialog>>

-----------------------------------------------------------------------------
LogoutTypeOK ==
  /\ \A b \in {quitting, logoutPending, worldHandle, selfGuid, exitPosted, loggedOut, exiting} :
       b \in BOOLEAN
  /\ dialog \in {"none", "up", "expired"}
=============================================================================
