------------------------------- MODULE Lifecycle -------------------------------
(***************************************************************************)
(* The tasks of docker-dns-rs, from the first line of start_tasks to the   *)
(* exit of the process (crates/docker-dns-rs/src/main.rs, shutdown.rs,     *)
(* signal_handlers.rs; the loops of docker/monitor.rs and dns_listener.rs  *)
(* as far as they wait and stop).                                          *)
(*                                                                         *)
(* start_tasks ("main") spawns three tasks, each of which holds a drop     *)
(* guard that cancels the shared token when the task ends.  listener sends *)
(* events over a bounded channel to monitor.  A step leads from one await  *)
(* of a task to the next one.                                              *)
(***************************************************************************)
EXTENDS Naturals

CONSTANTS
    Capacity,        \* of the channel: 50 in main.rs
    MaxEvents,       \* bound: the events the daemon reports in one behaviour
    ListenerWatches  \* the awaits of produce_events that watch the token

ASSUME LifecycleAssumption ==
    /\ Capacity \in Nat \ {0}
    /\ MaxEvents \in Nat
    /\ ListenerWatches \subseteq {"connect", "wait", "send"}

VARIABLES
    main,        \* where start_tasks is
    reason,      \* its shutdown_reason
    task,        \* where each spawned task is
    token,       \* the CancellationToken: "live" or "cancelled"
    queue,       \* number of events in the channel
    open,        \* which ends of the channel are not dropped
    produced,    \* events the daemon has reported
    handled,     \* events whose handler has returned
    lost,        \* events dropped with the channel
    registered,  \* signals with a handler
    pending,     \* signals caught
    exit,        \* "running", "exited" or "killed"
    code         \* exit code

channelVars == <<queue, open, produced, handled, lost>>
mainVars == <<main, reason, registered>>
processVars == <<pending, exit, code>>
vars == <<mainVars, task, token, channelVars, processVars>>

Task == {"monitor", "listener", "dns"}
Signals == {"sigterm", "sigint"}

Running == exit = "running"

Cancelled == token = "cancelled"

\* What a supervisor sees of the process.
Status ==
    IF ~Running THEN "down"
    ELSE IF reason # "none" THEN "stopping"
    ELSE IF registered = Signals THEN "serving" ELSE "starting"

\* The guard of a task that has ended, or unwinds, has told the others.
SomeTaskEnded == \E t \in Task : task[t] \in {"unwind", "ended"}

Service == INSTANCE Service WITH
    status <- Status, degraded <- SomeTaskEnded, received <- pending, cause <- reason

\* What a task waits for, or does, while it runs.
Phase == {"start", "recv", "take", "handle",    \* monitor
          "connect", "wait", "send",            \* listener
          "serve", "drain"}                     \* dns

MainTypeOK ==
    /\ main \in {"setup", "spawn", "bind", "select", "signals",
                 "cancel", "grace", "returned", "expired"}
    /\ reason \in Service!Causes \cup {"none"}
    /\ registered \subseteq Signals

TasksTypeOK ==
    /\ task \in [Task -> Phase \cup {"absent", "return", "unwind", "ended", "dropped"}]
    /\ token \in {"live", "cancelled"}

ChannelTypeOK ==
    /\ queue \in 0 .. Capacity
    /\ open \subseteq {"sender", "receiver"}
    /\ produced \in 0 .. MaxEvents
    /\ handled \in Nat
    /\ lost \in Nat

ProcessTypeOK ==
    /\ pending \subseteq registered
    /\ exit \in {"running", "exited", "killed"}
    /\ code \in 0 .. 255

TypeOK == MainTypeOK /\ TasksTypeOK /\ ChannelTypeOK /\ ProcessTypeOK

Init ==
    /\ main = "setup"
    /\ reason = "none"
    /\ task = [t \in Task |-> "absent"]
    /\ token = "live"
    /\ queue = 0 /\ open = {"sender", "receiver"}
    /\ produced = 0 /\ handled = 0 /\ lost = 0
    /\ registered = {} /\ pending = {}
    /\ exit = "running" /\ code = 0

Unfinished == {t \in Task : task[t] \notin {"absent", "ended", "dropped"}}

Goto(t, from, to) ==
    /\ Running
    /\ task[t] \in from
    /\ task' = [task EXCEPT ![t] = to]
-----------------------------------------------------------------------------
(***************************************************************************)
(* start_tasks                                                             *)
(***************************************************************************)
\* Configuration, zone handler or client cannot be built: nothing runs yet.
SetupFails ==
    /\ Running /\ main = "setup"
    /\ main' = "returned" /\ reason' = "error"
    /\ UNCHANGED <<registered, task, token, channelVars, processVars>>

SpawnMonitor ==
    /\ main = "setup" /\ main' = "spawn"
    /\ Goto("monitor", {"absent"}, "start")
    /\ UNCHANGED <<reason, registered, token, channelVars, processVars>>

SpawnListener ==
    /\ main = "spawn" /\ main' = "bind"
    /\ Goto("listener", {"absent"}, "connect")
    /\ UNCHANGED <<reason, registered, token, channelVars, processVars>>

\* Mutant: the guard is bound to _ and dropped at once.
SpawnDnsUnboundGuard ==
    /\ main = "bind" /\ main' = "select"
    /\ Goto("dns", {"absent"}, "serve")
    /\ token' = "cancelled"
    /\ UNCHANGED <<reason, registered, channelVars, processVars>>

\* Both sockets are bound and the DNS handler is spawned.
SpawnDns ==
    /\ main = "bind" /\ main' = "select"
    /\ Goto("dns", {"absent"}, "serve")
    /\ UNCHANGED <<reason, registered, token, channelVars, processVars>>

\* An early return that leaves two tasks behind and does not cancel them.
BindFails ==
    /\ Running /\ main = "bind"
    /\ main' = "returned" /\ reason' = "error"
    /\ UNCHANGED <<registered, task, token, channelVars, processVars>>

\* The biased select! looks at the token first.  The signal handlers are
\* registered by its first poll that gets past the token.
PollToken ==
    /\ Running /\ main = "select"
    /\ \/ Cancelled /\ main' = "cancel" /\ reason' = "failure"
       \/ ~Cancelled /\ (registered # Signals \/ pending # {})
          /\ main' = "signals" /\ UNCHANGED reason
    /\ UNCHANGED <<registered, task, token, channelVars, processVars>>

\* Mutant: a handler that cannot be registered is only logged.
RegisterSignalsLogged ==
    /\ Running /\ main = "signals" /\ registered # Signals
    /\ main' = "select" /\ registered' \in {Signals, {"sigterm"}} /\ UNCHANGED reason
    /\ UNCHANGED <<task, token, channelVars, processVars>>

RegisterSignals ==
    /\ Running /\ main = "signals" /\ registered # Signals
    /\ \/ main' = "select" /\ registered' = Signals /\ UNCHANGED reason
       \/ main' = "cancel" /\ registered' \in {{}, {"sigterm"}} /\ reason' = "error"
    /\ UNCHANGED <<task, token, channelVars, processVars>>

\* Mutant: the two signals are swapped.
PollSignalsSwapped ==
    /\ Running /\ main = "signals" /\ pending # {}
    /\ main' = "cancel"
    /\ reason' = IF "sigterm" \in pending THEN "sigint" ELSE "sigterm"
    /\ UNCHANGED <<registered, task, token, channelVars, processVars>>

PollSignals ==
    /\ Running /\ main = "signals" /\ pending # {}
    /\ main' = "cancel"
    /\ reason' = IF "sigterm" \in pending THEN "sigterm" ELSE "sigint"
    /\ UNCHANGED <<registered, task, token, channelVars, processVars>>

\* cancellation_token.cancel() and tasks.close()
CancelToken ==
    /\ Running /\ main = "cancel"
    /\ main' = "grace" /\ token' = "cancelled"
    /\ UNCHANGED <<reason, registered, task, channelVars, processVars>>

\* Mutant: the tasks are not awaited.
TasksDoneNotAwaited ==
    /\ Running /\ main = "grace"
    /\ main' = "returned"
    /\ UNCHANGED <<reason, registered, task, token, channelVars, processVars>>

TasksDone ==
    /\ Running /\ main = "grace" /\ Unfinished = {}
    /\ main' = "returned"
    /\ UNCHANGED <<reason, registered, task, token, channelVars, processVars>>

\* The tasks that wait for someone outside, or for room in the channel.
\* list_networks and the inspects do not watch the token.
Waiting ==
    {t \in Unfinished :
        \/ task[t] \in {"start", "handle", "drain"}
        \/ task[t] \in {"connect", "wait", "send"} \ ListenerWatches
           /\ (task[t] = "send" => queue = Capacity /\ "receiver" \in open)}

\* Ten seconds are long for the runtime: the timer fires only when nothing
\* but the outside can let a task go on.
GraceExpires ==
    /\ Running /\ main = "grace" /\ Unfinished # {} /\ Unfinished = Waiting
    /\ main' = "expired"
    /\ UNCHANGED <<reason, registered, task, token, channelVars, processVars>>

\* What is left of each task when the runtime goes.  One that unwinds is past
\* its last await and is not cut off.
DropTasks ==
    task' = [t \in Task |->
        IF task[t] = "unwind" THEN "ended"
        ELSE IF t \in Unfinished THEN "dropped" ELSE task[t]]

\* main drops the runtime, and with it every task that is left and its guard.
Exit ==
    /\ Running /\ main \in {"returned", "expired"}
    /\ exit' = "exited"
    /\ code' = Service!ExitCode[reason]
    /\ DropTasks
    /\ token' = IF Unfinished # {} THEN "cancelled" ELSE token
    /\ UNCHANGED <<mainVars, channelVars, pending>>

\* Without a handler the default action of the signal ends the process.
Signal(s) ==
    /\ Running /\ s \notin pending
    /\ \/ /\ s \in registered
          /\ pending' = pending \cup {s}
          /\ UNCHANGED <<task, exit, code>>
       \/ /\ s \notin registered
          /\ exit' = "killed" /\ DropTasks
          /\ UNCHANGED <<pending, code>>
    /\ UNCHANGED <<mainVars, token, channelVars>>
-----------------------------------------------------------------------------
(***************************************************************************)
(* docker_event_monitor: start(), then consume_events                      *)
(***************************************************************************)
\* Mutant: the receiver outlives the task.
CloseReceiverLeaks == UNCHANGED channelVars

CloseReceiver ==
    /\ open' = open \ {"receiver"}
    /\ queue' = 0
    /\ lost' = lost + queue
    /\ UNCHANGED <<produced, handled>>

MonitorStarted ==
    /\ Goto("monitor", {"start"}, "recv")
    /\ UNCHANGED <<mainVars, token, channelVars, processVars>>

\* The receiver is still an argument of docker_event_monitor.
StartFails ==
    /\ Goto("monitor", {"start"}, "return")
    /\ UNCHANGED <<mainVars, token, channelVars, processVars>>

RecvToken ==
    /\ \/ Cancelled /\ Goto("monitor", {"recv"}, "return") /\ CloseReceiver
       \/ ~Cancelled /\ (queue > 0 \/ "sender" \notin open)
          /\ Goto("monitor", {"recv"}, "take") /\ UNCHANGED channelVars
    /\ UNCHANGED <<mainVars, token, processVars>>

\* Mutant: an event is taken and not handled.
TakeDiscards ==
    /\ \/ queue > 0 /\ Goto("monitor", {"take"}, "recv")
          /\ queue' = queue - 1 /\ UNCHANGED <<open, produced, handled, lost>>
       \/ queue = 0 /\ Goto("monitor", {"take"}, "return") /\ CloseReceiver
    /\ UNCHANGED <<mainVars, token, processVars>>

Take ==
    /\ \/ queue > 0 /\ Goto("monitor", {"take"}, "handle")
          /\ queue' = queue - 1 /\ UNCHANGED <<open, produced, handled, lost>>
       \/ queue = 0 /\ Goto("monitor", {"take"}, "return") /\ CloseReceiver
    /\ UNCHANGED <<mainVars, token, processVars>>

Handled ==
    /\ Goto("monitor", {"handle"}, "recv")
    /\ handled' = handled + 1
    /\ UNCHANGED <<mainVars, token, queue, open, produced, lost, processVars>>

\* A panic unwinds through consume_events, then through the guard.
HandlerPanics ==
    /\ Goto("monitor", {"handle"}, "return")
    /\ CloseReceiver
    /\ UNCHANGED <<mainVars, token, processVars>>
-----------------------------------------------------------------------------
(***************************************************************************)
(* docker_listener: produce_events of twistlock, as main.rs uses it        *)
(***************************************************************************)
CloseSender == open' = open \ {"sender"} /\ UNCHANGED <<queue, produced, handled, lost>>

Connected ==
    /\ Goto("listener", {"connect"}, "wait")
    /\ UNCHANGED <<mainVars, token, channelVars, processVars>>

EventArrives ==
    /\ produced < MaxEvents
    /\ Goto("listener", {"wait"}, "send")
    /\ produced' = produced + 1
    /\ UNCHANGED <<mainVars, token, queue, open, handled, lost, processVars>>

\* Mutant: the channel has no bound.
SendUnbounded ==
    /\ \/ /\ "receiver" \in open
          /\ Goto("listener", {"send"}, "wait")
          /\ queue' = queue + 1 /\ UNCHANGED <<open, produced, handled, lost>>
       \/ /\ "receiver" \notin open
          /\ Goto("listener", {"send"}, "return")
          /\ CloseSender
    /\ UNCHANGED <<mainVars, token, processVars>>

\* The send waits while the channel is full and fails once nobody receives.
Send ==
    /\ \/ /\ "receiver" \in open /\ queue < Capacity
          /\ Goto("listener", {"send"}, "wait")
          /\ queue' = queue + 1 /\ UNCHANGED <<open, produced, handled, lost>>
       \/ /\ "receiver" \notin open
          /\ Goto("listener", {"send"}, "return")
          /\ CloseSender
    /\ UNCHANGED <<mainVars, token, processVars>>

ListenerCancelled ==
    /\ Cancelled
    /\ Goto("listener", ListenerWatches, "return")
    /\ CloseSender
    /\ UNCHANGED <<mainVars, token, processVars>>

\* The daemon refuses the request or closes the stream.
StreamEnds ==
    /\ Goto("listener", {"connect", "wait"}, "return")
    /\ CloseSender
    /\ UNCHANGED <<mainVars, token, processVars>>
-----------------------------------------------------------------------------
(***************************************************************************)
(* dns_handler: set_up_dns_server                                          *)
(***************************************************************************)
DnsCancelled ==
    /\ Cancelled
    /\ Goto("dns", {"serve"}, "drain")
    /\ UNCHANGED <<mainVars, token, channelVars, processVars>>

ServerStops ==
    /\ Goto("dns", {"serve"}, "return")
    /\ UNCHANGED <<mainVars, token, channelVars, processVars>>

\* shutdown_gracefully waits for what is being answered.
Drained ==
    /\ Goto("dns", {"drain"}, "return")
    /\ UNCHANGED <<mainVars, token, channelVars, processVars>>
-----------------------------------------------------------------------------
\* Mutant: a task that ends tells nobody.
GuardDropsSilently(t) ==
    /\ Goto(t, {"return"},
            IF t = "monitor" /\ "receiver" \in open THEN "unwind" ELSE "ended")
    /\ UNCHANGED <<mainVars, token, channelVars, processVars>>

\* The drop guard at the end of a task cancels the token for all of them.  A
\* receiver that was never handed to consume_events is still there.
GuardDrops(t) ==
    /\ Goto(t, {"return"},
            IF t = "monitor" /\ "receiver" \in open THEN "unwind" ELSE "ended")
    /\ token' = "cancelled"
    /\ UNCHANGED <<mainVars, channelVars, processVars>>

\* The arguments are dropped after the locals, and so after the guard.
ReceiverDrops ==
    /\ Goto("monitor", {"unwind"}, "ended")
    /\ CloseReceiver
    /\ UNCHANGED <<mainVars, token, processVars>>

\* The process is gone.
Terminated == ~Running /\ UNCHANGED vars

MainStep ==
    \/ SpawnMonitor \/ SpawnListener \/ SpawnDns \/ PollToken \/ RegisterSignals
    \/ PollSignals \/ CancelToken \/ TasksDone \/ GraceExpires \/ Exit

MonitorStep == RecvToken \/ Take \/ GuardDrops("monitor") \/ ReceiverDrops

ListenerStep == Send \/ ListenerCancelled \/ GuardDrops("listener")

DnsStep == DnsCancelled \/ GuardDrops("dns")

\* The daemon answers.
Answer == MonitorStarted \/ Handled \/ Connected

Failure == SetupFails \/ BindFails \/ StartFails \/ HandlerPanics \/ StreamEnds \/ ServerStops

Environment == Answer \/ EventArrives \/ Drained \/ \E s \in Signals : Signal(s)

Next ==
    MainStep \/ MonitorStep \/ ListenerStep \/ DnsStep \/ Environment \/ Failure \/ Terminated

Spec == Init /\ [][Next]_vars
-----------------------------------------------------------------------------
(***************************************************************************)
(* Safety                                                                  *)
(***************************************************************************)
\* The token has a cause (main.rs:230): it is cancelled by the end of a task
\* or by main once the reason is settled, and so "some task unexpectedly
\* failed" is never reported for a service whose tasks all run.
TokenHasCause ==
    /\ Cancelled => reason # "none" \/ SomeTaskEnded
    /\ reason = "failure" => SomeTaskEnded

\* Events that have entered the channel are lost only in a shutdown: at the
\* moment the receiver is dropped, the token is cancelled or about to be.
LostOnlyInShutdown ==
    lost > 0 => Cancelled \/ task["monitor"] = "return" \/ ~Running

\* The tasks never wait for each other only: a shutdown that is stuck waits
\* for the daemon or for a client.  In particular a producer blocked on the
\* full channel is released by the end of the monitor.
Outside == {"start", "handle", "connect", "drain"}

NoInternalDeadlock ==
    main = "grace" /\ Unfinished # {} /\ Unfinished = Waiting =>
        \E t \in Unfinished : task[t] \in Outside

\* A task is cut off by the exit only after the ten seconds, with two
\* exceptions: the early return after a failed bind leaves monitor and
\* listener behind, and a signal without a handler kills.
OrderlyExit ==
    (\E t \in Task : task[t] = "dropped") =>
        \/ main = "expired" /\ Cancelled
        \/ reason = "error" /\ task["dns"] = "absent"
        \/ exit = "killed" /\ reason \notin Signals

\* Where main is, what it has decided, and what it leaves behind agree.  (The
\* inductive invariant behind TokenHasCause, OrderlyExit and ServiceSafety.)
MainInv ==
    /\ reason = "none" <=> main \in {"setup", "spawn", "bind", "select", "signals"}
    /\ reason = "none" => registered \in {{}, Signals}
    /\ main \in {"setup", "spawn", "bind"} => registered = {} /\ task["dns"] = "absent"
    /\ main \in {"grace", "expired"} \/ task["monitor"] = "unwind" => Cancelled
    /\ main = "returned" =>
          Unfinished = {} \/ (reason = "error" /\ task["dns"] = "absent")
    /\ reason \in Signals => registered = Signals /\ reason \in pending
    /\ Running => \A t \in Task : task[t] # "dropped"
    /\ exit = "exited" => main \in {"returned", "expired"}
    /\ exit = "killed" => reason \notin Signals

\* What the supervisor sees is a Service.
ServiceSafety == Service!Safety
-----------------------------------------------------------------------------
(***************************************************************************)
(* Liveness.  tokio polls each task that can go on, and the timer fires.   *)
(* Nothing is assumed of the daemon, of clients or of signals.             *)
(***************************************************************************)
FairSpec ==
    /\ Spec
    /\ WF_vars(MainStep) /\ WF_vars(MonitorStep)
    /\ WF_vars(ListenerStep) /\ WF_vars(DnsStep)

\* A task that ends or a signal that is caught ends the process, even if the
\* daemon never answers again.
ServiceEnds == Service!Ends

\* The daemon answers: start() and every handler come to their end.
DaemonAnswers == WF_vars(MonitorStarted) /\ WF_vars(Handled)

\* Every event in the channel is handled, however long start() took and
\* however full the channel was, unless a shutdown begins or the daemon falls
\* silent.
BacklogHandled ==
    DaemonAnswers =>
        \A k \in 0 .. MaxEvents :
            (queue > 0 /\ handled = k) ~> (handled > k \/ Cancelled \/ ~Running)
=============================================================================
