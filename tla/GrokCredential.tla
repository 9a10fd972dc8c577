--------------------------- MODULE GrokCredential ---------------------------
(***************************************************************************)
(* The access token of guard grok (ensure_grok_credential_with and         *)
(* refresh_host_grok_auth in crates/sandbox-guard-cli/src/grok.rs): the    *)
(* host's auth file is read, refreshed by the host's own Grok without or   *)
(* with a login, and read again, while time passes and other programs of   *)
(* the user rewrite the file.                                              *)
(*                                                                         *)
(* A token is the time at which it expires; 0 stands for no auth file, -1  *)
(* for one that is unsafe or holds no usable token.                        *)
(***************************************************************************)
EXTENDS Integers

CONSTANTS
    Times,      \* 1..n
    Validity    \* minimum_validity_minutes

VARIABLES
    asking,     \* none, load, refresh, silent, login, reload, ok or failed
    force,      \* --reauthenticate
    terminal,   \* stdin and stdout are a terminal
    auth,       \* the host's auth file
    time,
    began,      \* the time at which guard grok began
    logins,     \* a login has succeeded
    token       \* the token for the run, 0 for none

vars == <<asking, force, terminal, auth, time, began, logins, token>>
given == <<force, terminal, began>>

File == Times \cup {0, -1}

Init ==
    /\ asking = "none" /\ force = FALSE /\ terminal = FALSE
    /\ auth = 0 /\ time = 1 /\ began = 1 /\ logins = FALSE /\ token = 0

Begin ==
    /\ asking = "none" /\ asking' = "load"
    /\ force' \in BOOLEAN /\ terminal' \in BOOLEAN /\ auth' \in File
    /\ began' = time
    /\ UNCHANGED <<time, logins, token>>

Goto(step) == asking' = step /\ UNCHANGED <<given, time, logins, token>>

Accept == asking' = "ok" /\ token' = auth /\ UNCHANGED <<given, time, logins>>

\* The file is read the first time.
Load ==
    /\ asking = "load"
    /\ \/ auth = -1 /\ Goto("failed")
       \/ auth > began + Validity /\ ~force /\ Accept
       \/ /\ auth # -1 /\ (force \/ auth <= began + Validity)
          /\ Goto("refresh")
    /\ UNCHANGED auth

\* A silent refresh needs an auth file and no wish for a login.
Refresh ==
    /\ asking = "refresh"
    /\ IF force \/ auth = 0 THEN Goto("login") ELSE Goto("silent")
    /\ UNCHANGED auth

\* grok models has run and may have renewed the token, which is compared with
\* the time by then.
Silent ==
    /\ asking = "silent"
    /\ auth' \in {auth} \cup Times
    /\ \/ Goto("login")                                  \* it failed
       \/ auth' = -1 /\ Goto("failed")
       \/ auth' # -1 /\ auth' > time + Validity /\ Goto("reload")
       \/ auth' # -1 /\ auth' <= time + Validity /\ Goto("login")

\* grok login: only the user at a terminal can answer it.
Login ==
    /\ asking = "login"
    /\ IF terminal
           THEN /\ auth' \in {auth} \cup Times
                /\ \/ asking' = "reload" /\ logins' = TRUE
                   \/ asking' = "failed" /\ UNCHANGED logins
                /\ UNCHANGED <<given, time, token>>
           ELSE Goto("failed") /\ UNCHANGED auth

\* Mutant: the renewed token is not looked at.
ReloadTrusting ==
    /\ asking = "reload"
    /\ IF auth > 0 THEN Accept ELSE Goto("failed")
    /\ UNCHANGED auth

\* The renewed token must outlast the time of the beginning.
Reload ==
    /\ asking = "reload"
    /\ IF auth > 0 /\ auth > began + Validity THEN Accept ELSE Goto("failed")
    /\ UNCHANGED auth

Pass ==
    /\ asking \notin {"none", "ok", "failed"}
    /\ time + 1 \in Times /\ time' = time + 1
    /\ UNCHANGED <<asking, given, auth, logins, token>>

\* Another Grok of the user renews the token, or the user changes the file.
HostWrites ==
    /\ asking \notin {"none", "ok", "failed"}
    /\ auth' \in File \ {auth}
    /\ UNCHANGED <<asking, given, time, logins, token>>

Next ==
    \/ Begin \/ Load \/ Refresh \/ Silent \/ Login \/ Reload
    \/ Pass \/ HostWrites

Spec == Init /\ [][Next]_vars

-----------------------------------------------------------------------------
(* Properties.                                                             *)

\* Type correctness.
TypeOK ==
    /\ asking \in {"none", "load", "refresh", "silent", "login", "reload", "ok",
                   "failed"}
    /\ auth \in File /\ token \in Times \cup {0} /\ time \in Times

\* A run gets a token only if that outlasts the beginning by the profile's
\* minimum, whoever rewrote the file meanwhile, and when a new login was asked
\* for, only after one.  Without a terminal nobody is asked to log in.
CredentialFresh ==
    /\ TypeOK
    /\ asking = "ok" => token > began + Validity /\ (force => logins)
    /\ logins => terminal

=============================================================================
