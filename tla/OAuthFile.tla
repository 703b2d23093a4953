------------------------------ MODULE OAuthFile ------------------------------
(***************************************************************************)
(* The ChatGPT login kept in a file that tasks and processes share         *)
(* (src/src/providers/chatgpt/auth.rs, storage.rs, tokens.rs): reading it, *)
(* refreshing it under the file lock, logging in and out, and a crash at   *)
(* any point.  The file is replaced atomically and the operating system    *)
(* frees the lock of a process that dies.                                  *)
(*                                                                         *)
(* A refresh token is spent by its first use unless the server leaves it   *)
(* in force; presenting a spent one again costs the user the session.      *)
(***************************************************************************)
EXTENDS Naturals, FiniteSets

CONSTANTS
    Process,
    MaxGrants       \* bound: token grants of the server

VARIABLES
    file,       \* the tokens in the file, or Nothing
    lock,       \* holder of the .lock file
    task,       \* what each process is doing
    tokens,     \* the tokens it has in hand
    grants,     \* the server: grants so far; a grant's number names its refresh token
    presented,  \* history: refresh tokens the server was given
    excused,    \* history: those it left in force, or whose answer never arrived
    again       \* history: a spent token was presented

vars == <<file, lock, task, tokens, grants, presented, excused, again>>

Nothing == [refresh |-> 0, usable |-> FALSE]
Nobody == "nobody"

Init ==
    /\ file = Nothing /\ lock = Nobody
    /\ task = [p \in Process |-> "idle"] /\ tokens = [p \in Process |-> Nothing]
    /\ grants = 0 /\ presented = {} /\ excused = {} /\ again = FALSE

Goes(p, at) == task' = [task EXCEPT ![p] = at]
Holds(p, t) == tokens' = [tokens EXCEPT ![p] = t]
Ends(p) == Goes(p, "idle") /\ Holds(p, Nothing) /\ lock' = IF lock = p THEN Nobody ELSE lock
server == <<grants, presented, excused, again>>

\* credentials(): the first look is without the lock.
Credentials(p) ==
    /\ task[p] = "idle"
    /\ IF file.usable
       THEN Goes(p, "idle") /\ UNCHANGED tokens
       ELSE Goes(p, "refresh") /\ Holds(p, file)
    /\ UNCHANGED <<file, lock, server>>

\* start_login and poll_login: the grant of a login comes before its lock.
LoginGranted(p) ==
    /\ task[p] = "idle" /\ grants < MaxGrants
    /\ grants' = grants + 1
    /\ Holds(p, [refresh |-> grants + 1, usable |-> TRUE])
    /\ Goes(p, "login")
    /\ UNCHANGED <<file, lock, presented, excused, again>>

Logout(p) ==
    /\ task[p] = "idle"
    /\ Goes(p, "logout")
    /\ UNCHANGED <<file, lock, tokens, server>>

\* lock(): polled for 35 seconds.
Locks(p) ==
    /\ task[p] \in {"refresh", "login", "logout"} /\ lock = Nobody
    /\ lock' = p
    /\ Goes(p, CASE task[p] = "refresh" -> "reread"
                 [] task[p] = "login" -> "store"
                 [] task[p] = "logout" -> "remove")
    /\ UNCHANGED <<file, tokens, server>>

LockTimesOut(p) ==
    /\ task[p] \in {"refresh", "login", "logout"}
    /\ Ends(p)
    /\ UNCHANGED <<file, server>>

\* Wrong variant: what was read before the lock is refreshed.
RereadNothing(p) ==
    /\ task[p] = "reread"
    /\ IF tokens[p].refresh = 0
       THEN Ends(p) /\ UNCHANGED <<presented, again>>
       ELSE /\ Goes(p, "exchange") /\ UNCHANGED <<tokens, lock>>
            /\ presented' = presented \cup {tokens[p].refresh}
            /\ again' = (again \/ tokens[p].refresh \in presented \ excused)
    /\ UNCHANGED <<file, grants, excused>>

\* Under the lock the file is read again: gone, refreshed by another, or to be
\* refreshed, and then its refresh token is sent.
Reread(p) ==
    /\ task[p] = "reread"
    /\ IF file.usable \/ file.refresh = 0
       THEN Ends(p) /\ UNCHANGED <<presented, again>>
       ELSE /\ Goes(p, "exchange") /\ Holds(p, file) /\ UNCHANGED lock
            /\ presented' = presented \cup {file.refresh}
            /\ again' = (again \/ file.refresh \in presented \ excused)
    /\ UNCHANGED <<file, grants, excused>>

\* The server answers.  Tokens::from_response keeps the old refresh token if
\* there is no new one.
Exchanged(p) ==
    /\ task[p] = "exchange" /\ grants < MaxGrants
    /\ \/ /\ grants' = grants + 1 /\ UNCHANGED excused
          /\ Holds(p, [refresh |-> grants + 1, usable |-> TRUE])
       \/ /\ excused' = excused \cup {tokens[p].refresh} /\ UNCHANGED grants
          /\ Holds(p, [tokens[p] EXCEPT !.usable = TRUE])
    /\ Goes(p, "save")
    /\ UNCHANGED <<file, lock, presented, again>>

\* The exchange fails, times out, or its answer cannot be used.
ExchangeFails(p) ==
    /\ task[p] = "exchange"
    /\ excused' = excused \cup {tokens[p].refresh}
    /\ Ends(p)
    /\ UNCHANGED <<file, grants, presented, again>>

\* save(): fsync and rename, then the lock is dropped.
Save(p) ==
    /\ task[p] \in {"save", "store"}
    /\ file' = tokens[p]
    /\ Ends(p)
    /\ UNCHANGED server

Remove(p) ==
    /\ task[p] = "remove"
    /\ file' = Nothing
    /\ Ends(p)
    /\ UNCHANGED server

\* The process dies, its future is dropped, or a write fails.
Crash(p) ==
    /\ task[p] # "idle"
    /\ excused' = excused \cup (IF task[p] \in {"exchange", "save"}
                                THEN {file.refresh} ELSE {})
    /\ Ends(p)
    /\ UNCHANGED <<file, grants, presented, again>>

\* The access token comes within a minute of its end.
Lapses ==
    /\ file.usable
    /\ file' = [file EXCEPT !.usable = FALSE]
    /\ UNCHANGED <<lock, task, tokens, server>>

Uses(p) ==
    \/ Credentials(p) \/ LoginGranted(p) \/ Logout(p) \/ Locks(p) \/ LockTimesOut(p)
    \/ Reread(p) \/ Exchanged(p) \/ ExchangeFails(p) \/ Save(p) \/ Remove(p) \/ Crash(p)

Next == (\E p \in Process : Uses(p)) \/ Lapses

Spec == Init /\ [][Next]_vars

-----------------------------------------------------------------------------
(* Properties.                                                             *)

\* However refreshes, logins and logouts of several processes overlap, a spent
\* refresh token is not presented again (unless an answer was lost on its way),
\* and the file a refresh is about to replace is still the one it read, so that
\* it cannot undo a login or a logout.
RefreshExclusive ==
    /\ ~again
    /\ \A p \in Process : /\ task[p] = "exchange" => file.refresh = tokens[p].refresh
                          /\ task[p] = "save" => file.refresh \in presented
=============================================================================
