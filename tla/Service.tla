-------------------------------- MODULE Service --------------------------------
(***************************************************************************)
(* What docker-dns-rs promises to whoever supervises the process: once it  *)
(* serves, a termination signal or the loss of any of its parts stops it,  *)
(* and its exit code says which of the two happened.                       *)
(*                                                                         *)
(* The abstract specification of Lifecycle, which implements it.           *)
(***************************************************************************)
EXTENDS Naturals

Signals == {"sigterm", "sigint"}
Causes == Signals \cup {"failure", "error"}
NoCause == "none"

\* shutdown.rs: signal + 128 (SIGTERM is 15, SIGINT is 2), ExitCode::FAILURE,
\* and the code of an Err.
ExitCode == [sigterm |-> 15 + 128, sigint |-> 2 + 128, failure |-> 1, error |-> 1]

VARIABLES
    status,     \* "starting", "serving", "stopping" or "down"
    degraded,   \* has a part of the service ended?
    received,   \* the signals that were caught
    cause,      \* why the service stops
    code        \* the exit code, 0 until there is one

vars == <<status, degraded, received, cause, code>>

Init ==
    /\ status = "starting"
    /\ degraded = FALSE
    /\ received = {}
    /\ cause = NoCause
    /\ code = 0

Serve ==
    /\ status = "starting"
    /\ status' = "serving"
    /\ UNCHANGED <<degraded, received, cause, code>>

Degrade ==
    /\ status # "down"
    /\ degraded' = TRUE
    /\ UNCHANGED <<status, received, cause, code>>

\* A signal is caught from the moment the service serves.
Receive(s) ==
    /\ status \in {"serving", "stopping"}
    /\ received' = received \cup {s}
    /\ UNCHANGED <<status, degraded, cause, code>>

\* A signal that nobody catches ends the process at once: not while it
\* serves, and not once it stops because of a signal.
Kill ==
    /\ status \in {"starting", "stopping"}
    /\ cause \notin Signals
    /\ status' = "down"
    /\ UNCHANGED <<degraded, received, cause, code>>

\* No cause is invented: a failure needs a part that ended, a signal stop a
\* signal, and only a service that is not up yet reports an error.
Justified(c) ==
    CASE c \in Signals   -> status = "serving" /\ c \in received
      [] c = "failure"   -> status \in {"starting", "serving"} /\ degraded
      [] c = "error"     -> status = "starting"

Stop(c) ==
    /\ Justified(c)
    /\ status' = "stopping"
    /\ cause' = c
    /\ UNCHANGED <<degraded, received, code>>

Exit ==
    /\ status = "stopping"
    /\ status' = "down"
    /\ code' = ExitCode[cause]
    /\ UNCHANGED <<degraded, received, cause>>

Next ==
    \/ Serve
    \/ Degrade
    \/ \E s \in Signals : Receive(s)
    \/ Kill
    \/ \E c \in Causes : Stop(c)
    \/ Exit

Safety == Init /\ [][Next]_vars

\* Whatever makes the service stop, it does stop.
Ends ==
    /\ (degraded \/ received # {}) ~> (status = "down")
    /\ (status = "stopping") ~> (status = "down")

Spec == Safety /\ Ends
=============================================================================
