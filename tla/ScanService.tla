----------------------------- MODULE ScanService -----------------------------
(***************************************************************************)
(* What av_netlink_scan_request() promises its caller (netlink_chan.h):    *)
(* a call either fails or returns one verdict, and that verdict was given  *)
(* to this very call by one message, heard from the daemon while it was    *)
(* registered; a message decides at most one call.  Once a verdict is      *)
(* accepted the call can no longer fail, and once it failed no verdict can *)
(* be accepted.                                                            *)
(***************************************************************************)
CONSTANTS Workers, Ports, NoPort   \* NoPort is not one of the Ports

VARIABLES
    daemon,    \* the registered port, or NoPort
    sender,    \* the port whose message is being handled, or NoPort
    call,      \* per worker: "idle", "open" (no answer yet), "decided"
    outcome,   \* per worker: the verdict accepted for the open call
    result     \* per worker: what the last finished call returned

svars == <<daemon, sender, call, outcome, result>>

Answers == {"clean", "malicious"}

Init ==
    /\ daemon = NoPort
    /\ sender = NoPort
    /\ call = [w \in Workers |-> "idle"]
    /\ outcome = [w \in Workers |-> "none"]
    /\ result = [w \in Workers |-> "none"]

\* A message that is being handled is answered before another daemon joins.
Join(p) ==
    /\ sender = NoPort
    /\ daemon' = p
    /\ UNCHANGED <<sender, call, outcome, result>>

\* The daemon may be gone before its message is handled.
Leave ==
    /\ daemon' = NoPort
    /\ UNCHANGED <<sender, call, outcome, result>>

Hear ==
    /\ daemon # NoPort
    /\ sender = NoPort
    /\ sender' = daemon
    /\ UNCHANGED <<daemon, call, outcome, result>>

\* A verdict for a call that has failed or been decided is dropped.
Dismiss ==
    /\ sender # NoPort
    /\ sender' = NoPort
    /\ UNCHANGED <<daemon, call, outcome, result>>

\* Without a daemon the call fails at once.
Refuse(w) ==
    /\ call[w] = "idle"
    /\ daemon = NoPort
    /\ result' = [result EXCEPT ![w] = "failed"]
    /\ UNCHANGED <<daemon, sender, call, outcome>>

Open(w) ==
    /\ call[w] = "idle"
    /\ daemon # NoPort
    /\ call' = [call EXCEPT ![w] = "open"]
    /\ result' = [result EXCEPT ![w] = "none"]
    /\ UNCHANGED <<daemon, sender, outcome>>

Accept(w) ==
    /\ call[w] = "open"
    /\ sender # NoPort
    /\ sender' = NoPort
    /\ call' = [call EXCEPT ![w] = "decided"]
    /\ \E a \in Answers : outcome' = [outcome EXCEPT ![w] = a]
    /\ UNCHANGED <<daemon, result>>

Fail(w) ==
    /\ call[w] = "open"
    /\ call' = [call EXCEPT ![w] = "idle"]
    /\ result' = [result EXCEPT ![w] = "failed"]
    /\ UNCHANGED <<daemon, sender, outcome>>

Return(w) ==
    /\ call[w] = "decided"
    /\ call' = [call EXCEPT ![w] = "idle"]
    /\ result' = [result EXCEPT ![w] = outcome[w]]
    /\ outcome' = [outcome EXCEPT ![w] = "none"]
    /\ UNCHANGED <<daemon, sender>>

Finish(w) == Accept(w) \/ Fail(w) \/ Return(w)

Next ==
    \/ \E p \in Ports : Join(p)
    \/ Leave \/ Hear \/ Dismiss
    \/ \E w \in Workers : Refuse(w) \/ Open(w) \/ Finish(w)

Spec == Init /\ [][Next]_svars
=============================================================================
