---------------------------- MODULE LifecycleProofs ----------------------------
(***************************************************************************)
(* Theorems about Lifecycle: types, the invariant that ties main to its    *)
(* tasks, what is left at the exit, and that every step of the process is  *)
(* one that Service allows.                                                *)
(***************************************************************************)
EXTENDS Lifecycle, TLAPS

(***************************************************************************)
(* What the pieces that the actions share do to the types.                 *)
(***************************************************************************)
LEMMA MainUnchanged == ASSUME MainTypeOK, UNCHANGED mainVars PROVE MainTypeOK'
BY DEF MainTypeOK, mainVars

LEMMA ChannelUnchanged == ASSUME ChannelTypeOK, UNCHANGED channelVars PROVE ChannelTypeOK'
BY DEF ChannelTypeOK, channelVars

LEMMA ProcessUnchanged ==
    ASSUME ProcessTypeOK, UNCHANGED processVars, registered \subseteq registered'
    PROVE  ProcessTypeOK'
BY DEF ProcessTypeOK, processVars

LEMMA GotoType ==
    ASSUME TasksTypeOK, NEW t \in Task, NEW from,
           NEW to \in Phase \cup {"return", "unwind", "ended"},
           Goto(t, from, to), token' \in {token, "cancelled"}
    PROVE  TasksTypeOK'
BY DEF TasksTypeOK, Goto

LEMMA DropType ==
    ASSUME TasksTypeOK, DropTasks, token' \in {token, "cancelled"} PROVE TasksTypeOK'
BY DEF TasksTypeOK, DropTasks

LEMMA CloseType == ASSUME ChannelTypeOK, CloseReceiver \/ CloseSender PROVE ChannelTypeOK'
<1> USE LifecycleAssumption DEF LifecycleAssumption
<1>1. CASE CloseReceiver
  BY <1>1 DEF ChannelTypeOK, CloseReceiver
<1>2. CASE CloseSender
  BY <1>2 DEF ChannelTypeOK, CloseSender
<1> QED
  BY <1>1, <1>2

\* The one step that takes from the channel and the one that fills it.
LEMMA ChannelSteps == ASSUME ChannelTypeOK, Take \/ Send PROVE ChannelTypeOK'
<1> USE LifecycleAssumption DEF LifecycleAssumption, ChannelTypeOK
<1>1. CASE queue > 0 /\ queue' = queue - 1 /\ UNCHANGED <<open, produced, handled, lost>>
  BY <1>1
<1>2. CASE queue < Capacity /\ queue' = queue + 1 /\ UNCHANGED <<open, produced, handled, lost>>
  BY <1>2
<1>3. CASE CloseReceiver \/ CloseSender
  BY <1>3, CloseType
<1> QED
  BY <1>1, <1>2, <1>3 DEF Take, Send

LEMMA TypeInit == Init => TypeOK
BY LifecycleAssumption
   DEF Init, TypeOK, MainTypeOK, TasksTypeOK, ChannelTypeOK, ProcessTypeOK,
       LifecycleAssumption, Task, Running

\* A step of main, of the environment or at the end of the process.  The exit
\* code is a code because main returns with a reason only (MainInv).
LEMMA TypeMain ==
    ASSUME TypeOK, MainInv,
           MainStep \/ SetupFails \/ BindFails \/ \E s \in Signals : Signal(s)
    PROVE  TypeOK'
<1> USE MainUnchanged, ChannelUnchanged, ProcessUnchanged DEF TypeOK
<1>1. CASE SpawnMonitor
  <2>1. TasksTypeOK'
    BY <1>1, GotoType DEF SpawnMonitor, Phase, Task
  <2> QED
    BY <1>1, <2>1 DEF SpawnMonitor, MainTypeOK
<1>2. CASE SpawnListener
  <2>1. TasksTypeOK'
    BY <1>2, GotoType DEF SpawnListener, Phase, Task
  <2> QED
    BY <1>2, <2>1 DEF SpawnListener, MainTypeOK
<1>3. CASE SpawnDns
  <2>1. TasksTypeOK'
    BY <1>3, GotoType DEF SpawnDns, Phase, Task
  <2> QED
    BY <1>3, <2>1 DEF SpawnDns, MainTypeOK
<1>4. CASE PollToken
  BY <1>4 DEF PollToken, MainTypeOK, TasksTypeOK, Service!Causes, Service!Signals
<1>5. CASE RegisterSignals
  BY <1>5
     DEF MainInv, RegisterSignals, MainTypeOK, TasksTypeOK, ProcessTypeOK,
         processVars, Service!Causes, Service!Signals, Signals
<1>6. CASE PollSignals
  BY <1>6 DEF PollSignals, MainTypeOK, TasksTypeOK, Service!Causes, Service!Signals
<1>7. CASE CancelToken
  BY <1>7 DEF CancelToken, MainTypeOK, TasksTypeOK
<1>8. CASE TasksDone
  BY <1>8 DEF TasksDone, MainTypeOK, TasksTypeOK
<1>9. CASE GraceExpires
  BY <1>9 DEF GraceExpires, MainTypeOK, TasksTypeOK
<1>10. CASE SetupFails
  BY <1>10 DEF SetupFails, MainTypeOK, TasksTypeOK, Service!Causes, Service!Signals
<1>11. CASE BindFails
  BY <1>11 DEF BindFails, MainTypeOK, TasksTypeOK, Service!Causes, Service!Signals
<1>12. CASE Exit
  <2>1. code' \in 0 .. 255
    BY <1>12 DEF MainInv, MainTypeOK, Exit, Service!Causes, Service!Signals,
                 Service!ExitCode
  <2>2. TasksTypeOK'
    BY <1>12, DropType DEF Exit
  <2> QED
    BY <1>12, <2>1, <2>2 DEF Exit, ProcessTypeOK, mainVars
<1>13. ASSUME NEW s \in Signals, Signal(s) PROVE TypeOK'
  <2>1. TasksTypeOK'
    <3>1. CASE s \in registered
      BY <1>13, <3>1 DEF Signal, TasksTypeOK
    <3>2. CASE s \notin registered
      BY <1>13, <3>2, DropType DEF Signal
    <3> QED
      BY <3>1, <3>2
  <2> QED
    BY <1>13, <2>1 DEF Signal, ProcessTypeOK, mainVars
<1> QED
  BY <1>1, <1>2, <1>3, <1>4, <1>5, <1>6, <1>7, <1>8, <1>9, <1>10, <1>11, <1>12, <1>13
     DEF MainStep

\* A step of one of the three tasks.
LEMMA TypeTasks ==
    ASSUME TypeOK,
           MonitorStep \/ ListenerStep \/ DnsStep \/ Answer \/ EventArrives \/ Drained
             \/ StartFails \/ HandlerPanics \/ StreamEnds \/ ServerStops
    PROVE  TypeOK'
<1> USE MainUnchanged, ChannelUnchanged, ProcessUnchanged, CloseType, ChannelSteps
   DEF TypeOK
<1>1. CASE RecvToken
  <2>1. TasksTypeOK'
    BY <1>1, GotoType DEF RecvToken, Phase, Task
  <2>2. ChannelTypeOK'
    BY <1>1 DEF RecvToken
  <2> QED
    BY <1>1, <2>1, <2>2 DEF RecvToken, mainVars
<1>2. CASE Take
  <2>1. TasksTypeOK'
    BY <1>2, GotoType DEF Take, Phase, Task
  <2>2. ChannelTypeOK'
    BY <1>2 DEF Take
  <2> QED
    BY <1>2, <2>1, <2>2 DEF Take, mainVars
<1>3. CASE Send
  <2>1. TasksTypeOK'
    BY <1>3, GotoType DEF Send, Phase, Task
  <2>2. ChannelTypeOK'
    BY <1>3 DEF Send
  <2> QED
    BY <1>3, <2>1, <2>2 DEF Send, mainVars
<1>4. CASE ListenerCancelled
  <2>1. TasksTypeOK'
    BY <1>4, GotoType DEF ListenerCancelled, Phase, Task
  <2>2. ChannelTypeOK'
    BY <1>4 DEF ListenerCancelled
  <2> QED
    BY <1>4, <2>1, <2>2 DEF ListenerCancelled, mainVars
<1>5. CASE DnsCancelled
  <2>1. TasksTypeOK'
    BY <1>5, GotoType DEF DnsCancelled, Phase, Task
  <2>2. ChannelTypeOK'
    BY <1>5 DEF DnsCancelled
  <2> QED
    BY <1>5, <2>1, <2>2 DEF DnsCancelled, mainVars
<1>6. CASE MonitorStarted
  <2>1. TasksTypeOK'
    BY <1>6, GotoType DEF MonitorStarted, Phase, Task
  <2>2. ChannelTypeOK'
    BY <1>6 DEF MonitorStarted
  <2> QED
    BY <1>6, <2>1, <2>2 DEF MonitorStarted, mainVars
<1>7. CASE Handled
  <2>1. TasksTypeOK'
    BY <1>7, GotoType DEF Handled, Phase, Task
  <2>2. ChannelTypeOK'
    BY <1>7, LifecycleAssumption DEF Handled, ChannelTypeOK, LifecycleAssumption
  <2> QED
    BY <1>7, <2>1, <2>2 DEF Handled, mainVars
<1>8. CASE Connected
  <2>1. TasksTypeOK'
    BY <1>8, GotoType DEF Connected, Phase, Task
  <2>2. ChannelTypeOK'
    BY <1>8 DEF Connected
  <2> QED
    BY <1>8, <2>1, <2>2 DEF Connected, mainVars
<1>9. CASE EventArrives
  <2>1. TasksTypeOK'
    BY <1>9, GotoType DEF EventArrives, Phase, Task
  <2>2. ChannelTypeOK'
    BY <1>9, LifecycleAssumption DEF EventArrives, ChannelTypeOK, LifecycleAssumption
  <2> QED
    BY <1>9, <2>1, <2>2 DEF EventArrives, mainVars
<1>10. CASE Drained
  <2>1. TasksTypeOK'
    BY <1>10, GotoType DEF Drained, Phase, Task
  <2>2. ChannelTypeOK'
    BY <1>10 DEF Drained
  <2> QED
    BY <1>10, <2>1, <2>2 DEF Drained, mainVars
<1>11. CASE StartFails
  <2>1. TasksTypeOK'
    BY <1>11, GotoType DEF StartFails, Phase, Task
  <2>2. ChannelTypeOK'
    BY <1>11 DEF StartFails
  <2> QED
    BY <1>11, <2>1, <2>2 DEF StartFails, mainVars
<1>12. CASE HandlerPanics
  <2>1. TasksTypeOK'
    BY <1>12, GotoType DEF HandlerPanics, Phase, Task
  <2>2. ChannelTypeOK'
    BY <1>12 DEF HandlerPanics
  <2> QED
    BY <1>12, <2>1, <2>2 DEF HandlerPanics, mainVars
<1>13. CASE StreamEnds
  <2>1. TasksTypeOK'
    BY <1>13, GotoType DEF StreamEnds, Phase, Task
  <2>2. ChannelTypeOK'
    BY <1>13 DEF StreamEnds
  <2> QED
    BY <1>13, <2>1, <2>2 DEF StreamEnds, mainVars
<1>14. CASE ServerStops
  <2>1. TasksTypeOK'
    BY <1>14, GotoType DEF ServerStops, Phase, Task
  <2>2. ChannelTypeOK'
    BY <1>14 DEF ServerStops
  <2> QED
    BY <1>14, <2>1, <2>2 DEF ServerStops, mainVars
<1>15. ASSUME NEW t \in Task, GuardDrops(t) PROVE TypeOK'
  <2>1. TasksTypeOK'
    BY <1>15, GotoType DEF GuardDrops
  <2>2. ChannelTypeOK'
    BY <1>15 DEF GuardDrops
  <2> QED
    BY <1>15, <2>1, <2>2 DEF GuardDrops, mainVars
<1>16. CASE ReceiverDrops
  <2>1. TasksTypeOK'
    BY <1>16, GotoType DEF ReceiverDrops, Task
  <2>2. ChannelTypeOK'
    BY <1>16 DEF ReceiverDrops
  <2> QED
    BY <1>16, <2>1, <2>2 DEF ReceiverDrops, mainVars
<1> QED
  BY <1>1, <1>2, <1>3, <1>4, <1>5, <1>6, <1>7, <1>8, <1>9, <1>10, <1>11, <1>12,
         <1>13, <1>14, <1>15, <1>16
     DEF MonitorStep, ListenerStep, DnsStep, Answer, Task

LEMMA TypeNext == ASSUME TypeOK, MainInv, [Next]_vars PROVE TypeOK'
<1>1. CASE UNCHANGED vars
  BY <1>1, MainUnchanged, ChannelUnchanged, ProcessUnchanged
     DEF TypeOK, TasksTypeOK, vars, mainVars
<1> QED
  BY <1>1, TypeMain, TypeTasks DEF Next, Terminated, Failure, Environment
-----------------------------------------------------------------------------
(***************************************************************************)
(* main and its tasks.  A step of a task changes no variable of main, and  *)
(* no finished or absent task comes back.                                  *)
(***************************************************************************)
Advance(t, to) ==
    /\ Running
    /\ t \in Unfinished
    /\ task' = [task EXCEPT ![t] = to]
    /\ task[t] = "unwind" => to = "ended"
    /\ to = "unwind" => t = "monitor"
    /\ token' = IF to \in {"unwind", "ended"} /\ task[t] # "unwind"
                THEN "cancelled" ELSE token
    /\ UNCHANGED <<mainVars, processVars>>

TaskStep ==
    \E t \in Task : \E to \in Phase \cup {"return", "unwind", "ended"} : Advance(t, to)

LEMMA GotoAdvances ==
    ASSUME NEW t \in Task, NEW from \in SUBSET (Phase \cup {"return"}),
           NEW to \in Phase \cup {"return"},
           Goto(t, from, to), UNCHANGED <<mainVars, token, processVars>>
    PROVE  TaskStep
<1>1. t \in Unfinished /\ to \notin {"unwind", "ended"} /\ task[t] # "unwind"
  BY DEF Goto, Phase, Unfinished
<1> QED
  BY <1>1 DEF TaskStep, Advance, Goto

LEMMA TaskSteps ==
    ASSUME MonitorStep \/ ListenerStep \/ DnsStep \/ Answer \/ EventArrives \/ Drained
             \/ StartFails \/ HandlerPanics \/ StreamEnds \/ ServerStops
    PROVE  TaskStep
<1>1. CASE RecvToken
  BY <1>1, GotoAdvances DEF RecvToken, Phase, Task
<1>2. CASE Take
  BY <1>2, GotoAdvances DEF Take, Phase, Task
<1>3. CASE MonitorStarted
  BY <1>3, GotoAdvances DEF MonitorStarted, Phase, Task
<1>4. CASE Handled
  BY <1>4, GotoAdvances DEF Handled, Phase, Task
<1>5. CASE StartFails
  BY <1>5, GotoAdvances DEF StartFails, Phase, Task
<1>6. CASE HandlerPanics
  BY <1>6, GotoAdvances DEF HandlerPanics, Phase, Task
<1>7. CASE Send
  BY <1>7, GotoAdvances DEF Send, Phase, Task
<1>8. CASE ListenerCancelled
  BY <1>8, GotoAdvances, LifecycleAssumption
     DEF ListenerCancelled, Phase, Task, LifecycleAssumption
<1>9. CASE Connected
  BY <1>9, GotoAdvances DEF Connected, Phase, Task
<1>10. CASE EventArrives
  BY <1>10, GotoAdvances DEF EventArrives, Phase, Task
<1>11. CASE StreamEnds
  BY <1>11, GotoAdvances DEF StreamEnds, Phase, Task
<1>12. CASE DnsCancelled
  BY <1>12, GotoAdvances DEF DnsCancelled, Phase, Task
<1>13. CASE ServerStops
  BY <1>13, GotoAdvances DEF ServerStops, Phase, Task
<1>14. CASE Drained
  BY <1>14, GotoAdvances DEF Drained, Phase, Task
<1>15. ASSUME NEW t \in Task, GuardDrops(t) PROVE TaskStep
  <2>1. \E to \in {"unwind", "ended"} :
            Goto(t, {"return"}, to) /\ (to = "unwind" => t = "monitor")
    BY <1>15 DEF GuardDrops
  <2>2. PICK to \in {"unwind", "ended"} :
            Goto(t, {"return"}, to) /\ (to = "unwind" => t = "monitor")
    BY <2>1
  <2>3. Advance(t, to)
    BY <1>15, <2>2 DEF GuardDrops, Goto, Advance, Unfinished
  <2> QED
    BY <2>3 DEF TaskStep
<1>16. CASE ReceiverDrops
  BY <1>16 DEF ReceiverDrops, Goto, TaskStep, Advance, Unfinished, Task
<1> QED
  BY <1>1, <1>2, <1>3, <1>4, <1>5, <1>6, <1>7, <1>8, <1>9, <1>10, <1>11, <1>12,
         <1>13, <1>14, <1>15, <1>16
     DEF MonitorStep, ListenerStep, DnsStep, Answer, Task
-----------------------------------------------------------------------------
LEMMA MainInit == Init => MainInv /\ TokenHasCause
BY DEF Init, MainInv, TokenHasCause, SomeTaskEnded, Running, Cancelled, Task, Signals

LEMMA MainNext ==
    ASSUME TypeOK, MainInv, TokenHasCause, [Next]_vars PROVE MainInv' /\ TokenHasCause'
<1> USE DEF TypeOK, MainTypeOK, TasksTypeOK, ProcessTypeOK, MainInv, TokenHasCause,
            SomeTaskEnded, Running, Cancelled, Unfinished, Signals
<1>1. CASE SpawnMonitor
  BY <1>1 DEF SpawnMonitor, Goto, Task, processVars
<1>2. CASE SpawnListener
  BY <1>2 DEF SpawnListener, Goto, Task, processVars
<1>3. CASE SpawnDns
  BY <1>3 DEF SpawnDns, Goto, Task, processVars
<1>4. CASE SetupFails
  BY <1>4 DEF SetupFails, processVars
<1>5. CASE BindFails
  BY <1>5 DEF BindFails, processVars
<1>6. CASE PollToken
  BY <1>6 DEF PollToken, processVars
<1>7. CASE RegisterSignals
  BY <1>7 DEF RegisterSignals, processVars
<1>8. CASE PollSignals
  BY <1>8 DEF PollSignals, processVars
<1>9. CASE CancelToken
  BY <1>9 DEF CancelToken, processVars
<1>10. CASE TasksDone
  BY <1>10 DEF TasksDone, processVars
<1>11. CASE GraceExpires
  BY <1>11 DEF GraceExpires, processVars
<1>12. CASE Exit
  BY <1>12 DEF Exit, DropTasks, mainVars
<1>13. ASSUME NEW s \in Signals, Signal(s) PROVE MainInv' /\ TokenHasCause'
  <2>1. CASE s \in registered
    BY <1>13, <2>1 DEF Signal, mainVars
  <2>2. CASE s \notin registered
    <3>1. reason \notin Signals /\ exit' = "killed"
      BY <1>13, <2>2 DEF Signal
    <3>2. \A t \in Task : /\ task'[t] \in {"absent", "ended", "dropped"}
                          /\ task[t] \in {"absent", "ended"} => task'[t] = task[t]
                          /\ task[t] = "unwind" => task'[t] = "ended"
      BY <1>13, <2>2 DEF Signal, DropTasks
    <3>3. Unfinished' = {} /\ UNCHANGED <<main, reason, registered, pending, token>>
      BY <1>13, <2>2, <3>2 DEF Signal, mainVars
    <3> QED
      BY <3>1, <3>2, <3>3 DEF Task
  <2> QED
    BY <2>1, <2>2
<1>14. CASE TaskStep
  BY <1>14 DEF TaskStep, Advance, Phase, mainVars, processVars
<1>15. CASE UNCHANGED vars
  BY <1>15 DEF vars, mainVars, channelVars, processVars
<1> QED
  BY <1>1, <1>2, <1>3, <1>4, <1>5, <1>6, <1>7, <1>8, <1>9, <1>10, <1>11, <1>12, <1>13,
     <1>14, <1>15, TaskSteps
     DEF Next, Terminated, MainStep, Failure, Environment
-----------------------------------------------------------------------------
LEMMA Inductive ==
    TypeOK /\ MainInv /\ TokenHasCause /\ [Next]_vars => (TypeOK /\ MainInv /\ TokenHasCause)'
BY TypeNext, MainNext

\* Every variable of Lifecycle keeps its type; the channel never holds more
\* than its capacity (main.rs:184), whatever that is.
THEOREM TypeCorrect == Spec => []TypeOK
BY TypeInit, MainInit, Inductive, PTL DEF Spec

\* Where main is, what it has decided and what it leaves behind agree.
THEOREM MainInvariant == Spec => []MainInv
BY TypeInit, MainInit, Inductive, PTL DEF Spec

\* The token is never cancelled without a cause, and a failure is reported
\* only when a task has ended (main.rs:230).
THEOREM TokenHasCauseHolds == Spec => []TokenHasCause
BY TypeInit, MainInit, Inductive, PTL DEF Spec

(***************************************************************************)
(* What is left at the exit                                                *)
(***************************************************************************)
LEMMA ProcessGoesOn ==
    ASSUME Next PROVE \/ Exit \/ (\E s \in Signals : Signal(s)) \/ UNCHANGED vars
                      \/ Running /\ Running'
<1>1. CASE MainStep
  BY <1>1
     DEF MainStep, SpawnMonitor, SpawnListener, SpawnDns, PollToken, RegisterSignals,
              PollSignals, CancelToken, TasksDone, GraceExpires, Goto, Running, processVars
<1>2. CASE SetupFails \/ BindFails
  BY <1>2 DEF SetupFails, BindFails, Running, processVars
<1>3. CASE TaskStep
  BY <1>3 DEF TaskStep, Advance, Running, processVars
<1> QED
  BY <1>1, <1>2, <1>3, TaskSteps DEF Next, Failure, Environment, Terminated

LEMMA OrderlyNext ==
    ASSUME TypeOK, MainInv, MainInv', OrderlyExit, [Next]_vars PROVE OrderlyExit'
<1> USE DEF OrderlyExit, MainInv, Running, Cancelled, Unfinished
<1>1. CASE Exit
  <2>1. CASE main = "returned" /\ Unfinished = {}
    BY <1>1, <2>1 DEF Exit, DropTasks
  <2>2. CASE main = "returned" /\ reason = "error" /\ task["dns"] = "absent"
    BY <1>1, <2>2 DEF Exit, DropTasks, mainVars, Task
  <2>3. CASE main = "expired"
    BY <1>1, <2>3 DEF Exit, TypeOK, TasksTypeOK, mainVars
  <2> QED
    BY <1>1, <2>1, <2>2, <2>3 DEF Exit
<1>2. ASSUME NEW s \in Signals, Signal(s) PROVE OrderlyExit'
  BY <1>2 DEF Signal, DropTasks, mainVars
<1>3. CASE Running'
  BY <1>3
<1>4. CASE UNCHANGED vars
  BY <1>4 DEF vars, mainVars, channelVars, processVars
<1> QED
  BY <1>1, <1>2, <1>3, <1>4, ProcessGoesOn

\* A task is cut off by the exit only after the ten seconds, when a bind
\* failed, or by a signal that has no handler (main.rs:255-266).
THEOREM OrderlyExitHolds == Spec => []OrderlyExit
<1>1. Init => OrderlyExit
  BY DEF Init, OrderlyExit, Task
<1> QED
  BY <1>1, TypeInit, MainInit, Inductive, OrderlyNext, PTL DEF Spec
-----------------------------------------------------------------------------
(***************************************************************************)
(* What the channel loses                                                  *)
(***************************************************************************)
\* The steps that change what is lost: each closes the receiver, and the
\* monitor is past its loop, or the channel was empty.
LEMMA LostSteps ==
    ASSUME TypeOK, MainInv, [Next]_vars
    PROVE  \/ UNCHANGED lost
           \/ CloseReceiver /\ task'["monitor"] = "return"
           \/ CloseReceiver /\ token' = "cancelled"
<1> USE DEF TypeOK, TasksTypeOK
<1>1. CASE MainStep
  BY <1>1
     DEF MainStep, SpawnMonitor, SpawnListener, SpawnDns, PollToken, RegisterSignals,
         PollSignals, CancelToken, TasksDone, GraceExpires, Exit, channelVars
<1>2. CASE SetupFails \/ BindFails \/ \E s \in Signals : Signal(s)
  BY <1>2 DEF SetupFails, BindFails, Signal, channelVars
<1>3. CASE RecvToken
  BY <1>3 DEF RecvToken, Goto, Task, channelVars
<1>4. CASE Take
  BY <1>4 DEF Take, Goto, Task
<1>5. CASE HandlerPanics
  BY <1>5 DEF HandlerPanics, Goto, Task
<1>6. CASE ReceiverDrops
  BY <1>6 DEF ReceiverDrops, Goto, MainInv, Cancelled
<1>7. CASE Send \/ ListenerCancelled \/ StreamEnds
  BY <1>7 DEF Send, ListenerCancelled, StreamEnds, CloseSender
<1>8. CASE \/ MonitorStarted \/ Handled \/ Connected \/ EventArrives \/ Drained
           \/ StartFails \/ ServerStops \/ DnsCancelled \/ \E t \in Task : GuardDrops(t)
  BY <1>8
     DEF MonitorStarted, Handled, Connected, EventArrives, Drained, StartFails,
         ServerStops, DnsCancelled, GuardDrops, channelVars
<1>9. CASE UNCHANGED vars
  BY <1>9 DEF vars, channelVars
<1> QED
  BY <1>1, <1>2, <1>3, <1>4, <1>5, <1>6, <1>7, <1>8, <1>9
     DEF Next, Terminated, MonitorStep, ListenerStep, DnsStep, Environment, Answer,
         Failure, Task

\* Neither is taken back: the token stays cancelled, and a monitor that
\* returns goes on to its guard, which cancels the token.
LEMMA ShutdownGoesOn ==
    ASSUME TypeOK, [Next]_vars, Cancelled \/ task["monitor"] = "return" \/ ~Running
    PROVE  (Cancelled \/ task["monitor"] = "return" \/ ~Running)'
<1> USE DEF TypeOK, TasksTypeOK, Cancelled, Running
<1>1. CASE MainStep
  BY <1>1
     DEF MainStep, SpawnMonitor, SpawnListener, SpawnDns, PollToken, RegisterSignals,
         PollSignals, CancelToken, TasksDone, GraceExpires, Exit, Goto, Task
<1>2. CASE SetupFails \/ BindFails
  BY <1>2 DEF SetupFails, BindFails
<1>3. ASSUME NEW s \in Signals, Signal(s)
      PROVE  (Cancelled \/ task["monitor"] = "return" \/ ~Running)'
  BY <1>3 DEF Signal
<1>4. CASE RecvToken \/ Take \/ ReceiverDrops \/ MonitorStarted \/ Handled
           \/ StartFails \/ HandlerPanics
  BY <1>4
     DEF RecvToken, Take, ReceiverDrops, MonitorStarted, Handled, StartFails, HandlerPanics,
         Goto, Task
<1>5. CASE Send \/ ListenerCancelled \/ Connected \/ EventArrives \/ StreamEnds
  BY <1>5 DEF Send, ListenerCancelled, Connected, EventArrives, StreamEnds, Goto, Task
<1>6. CASE DnsCancelled \/ Drained \/ ServerStops
  BY <1>6 DEF DnsCancelled, Drained, ServerStops, Goto, Task
<1>7. ASSUME NEW t \in Task, GuardDrops(t)
      PROVE  (Cancelled \/ task["monitor"] = "return" \/ ~Running)'
  BY <1>7 DEF GuardDrops
<1>8. CASE UNCHANGED vars
  BY <1>8 DEF vars, processVars
<1> QED
  BY <1>1, <1>2, <1>3, <1>4, <1>5, <1>6, <1>7, <1>8
     DEF Next, Terminated, MonitorStep, ListenerStep, DnsStep, Environment, Answer,
         Failure, Task

\* Events are lost only once the service is on its way out: when the receiver
\* is dropped with events in the channel, the token is cancelled, or the task
\* that dropped it is about to cancel it (monitor.rs:111-135, main.rs:184).
THEOREM LostOnlyInShutdownHolds == Spec => []LostOnlyInShutdown
<1>1. Init => LostOnlyInShutdown
  BY DEF Init, LostOnlyInShutdown
<1>2. ASSUME TypeOK, MainInv, LostOnlyInShutdown, [Next]_vars PROVE LostOnlyInShutdown'
  <2>1. CASE UNCHANGED lost
    BY <1>2, <2>1, ShutdownGoesOn DEF LostOnlyInShutdown
  <2> QED
    BY <1>2, <2>1, LostSteps DEF LostOnlyInShutdown, Cancelled
<1> QED
  BY <1>1, <1>2, TypeInit, MainInit, Inductive, PTL DEF Spec
-----------------------------------------------------------------------------
(***************************************************************************)
(* Who can wait for whom                                                   *)
(***************************************************************************)
\* Each task is in a phase of its own loop; the receiver is gone once the
\* monitor has ended, as long as the process runs; the listener is spawned
\* after the monitor; and nothing is left of the tasks once the process is gone.
PhasesInv ==
    /\ task["monitor"] \in {"absent", "start", "recv", "take", "handle",
                            "return", "unwind", "ended", "dropped"}
    /\ task["listener"] \in {"absent", "connect", "wait", "send",
                             "return", "ended", "dropped"}
    /\ task["dns"] \in {"absent", "serve", "drain", "return", "ended", "dropped"}

WaitInv ==
    /\ PhasesInv
    /\ Running /\ "receiver" \in open => task["monitor"] # "ended"
    /\ task["monitor"] = "absent" =>
          main \in {"setup", "returned"} /\ task["listener"] = "absent"
    /\ ~Running => Unfinished = {}

LEMMA PhasesNext == ASSUME TypeOK, PhasesInv, [Next]_vars PROVE PhasesInv'
<1> USE DEF TypeOK, TasksTypeOK, PhasesInv, Task
<1>1. CASE MainStep
  BY <1>1
     DEF MainStep, SpawnMonitor, SpawnListener, SpawnDns, PollToken, RegisterSignals,
         PollSignals, CancelToken, TasksDone, GraceExpires, Exit, Goto, DropTasks
<1>2. CASE SetupFails \/ BindFails
  BY <1>2 DEF SetupFails, BindFails
<1>3. ASSUME NEW s \in Signals, Signal(s) PROVE PhasesInv'
  BY <1>3 DEF Signal, DropTasks
<1>4. CASE RecvToken \/ Take \/ ReceiverDrops \/ MonitorStarted \/ Handled
           \/ StartFails \/ HandlerPanics
  BY <1>4
     DEF RecvToken, Take, ReceiverDrops, MonitorStarted, Handled, StartFails, HandlerPanics,
         Goto
<1>5. CASE Send \/ ListenerCancelled \/ Connected \/ EventArrives \/ StreamEnds
  BY <1>5 DEF Send, ListenerCancelled, Connected, EventArrives, StreamEnds, Goto
<1>6. CASE DnsCancelled \/ Drained \/ ServerStops
  BY <1>6 DEF DnsCancelled, Drained, ServerStops, Goto
<1>7. ASSUME NEW t \in Task, GuardDrops(t) PROVE PhasesInv'
  BY <1>7 DEF GuardDrops, Goto
<1>8. CASE UNCHANGED vars
  BY <1>8 DEF vars
<1> QED
  BY <1>1, <1>2, <1>3, <1>4, <1>5, <1>6, <1>7, <1>8
     DEF Next, Terminated, MonitorStep, ListenerStep, DnsStep, Environment, Answer, Failure

\* The channel loses its receiver in steps of the monitor only, and its last
\* step is one of them.
LEMMA ReceiverNext ==
    ASSUME TypeOK, PhasesInv, Running /\ "receiver" \in open => task["monitor"] # "ended", [Next]_vars
    PROVE  Running' /\ "receiver" \in open' => task'["monitor"] # "ended"
<1> USE DEF TypeOK, TasksTypeOK, PhasesInv, Task, channelVars, processVars, Running
<1>1. CASE MainStep
  BY <1>1
     DEF MainStep, SpawnMonitor, SpawnListener, SpawnDns, PollToken, RegisterSignals,
         PollSignals, CancelToken, TasksDone, GraceExpires, Exit, Goto, DropTasks
<1>2. CASE SetupFails \/ BindFails
  BY <1>2 DEF SetupFails, BindFails
<1>3. ASSUME NEW s \in Signals, Signal(s)
      PROVE  Running' /\ "receiver" \in open' => task'["monitor"] # "ended"
  BY <1>3 DEF Signal, DropTasks
<1>4. CASE RecvToken \/ Take \/ ReceiverDrops \/ MonitorStarted \/ Handled
           \/ StartFails \/ HandlerPanics
  BY <1>4
     DEF RecvToken, Take, ReceiverDrops, MonitorStarted, Handled, StartFails, HandlerPanics,
         Goto, CloseReceiver
<1>5. CASE Send \/ ListenerCancelled \/ Connected \/ EventArrives \/ StreamEnds
  BY <1>5
     DEF Send, ListenerCancelled, Connected, EventArrives, StreamEnds, Goto, CloseSender
<1>6. CASE DnsCancelled \/ Drained \/ ServerStops
  BY <1>6 DEF DnsCancelled, Drained, ServerStops, Goto
<1>7. ASSUME NEW t \in Task, GuardDrops(t)
      PROVE  Running' /\ "receiver" \in open' => task'["monitor"] # "ended"
  BY <1>7 DEF GuardDrops, Goto
<1>8. CASE UNCHANGED vars
  BY <1>8 DEF vars
<1> QED
  BY <1>1, <1>2, <1>3, <1>4, <1>5, <1>6, <1>7, <1>8
     DEF Next, Terminated, MonitorStep, ListenerStep, DnsStep, Environment, Answer, Failure

LEMMA WaitNext == ASSUME TypeOK, WaitInv, [Next]_vars PROVE WaitInv'
<1>1. PhasesInv' /\ (Running' /\ "receiver" \in open' => task'["monitor"] # "ended")
  BY PhasesNext, ReceiverNext DEF WaitInv
<1>2. task'["monitor"] = "absent" =>
          main' \in {"setup", "returned"} /\ task'["listener"] = "absent"
  <2> USE DEF TypeOK, TasksTypeOK, WaitInv, Task, Unfinished
  <2>1. CASE MainStep
    BY <2>1
       DEF MainStep, SpawnMonitor, SpawnListener, SpawnDns, PollToken, RegisterSignals,
           PollSignals, CancelToken, TasksDone, GraceExpires, Exit, Goto, DropTasks,
           mainVars
  <2>2. CASE SetupFails \/ BindFails
    BY <2>2 DEF SetupFails, BindFails
  <2>3. ASSUME NEW s \in Signals, Signal(s)
        PROVE  task'["monitor"] = "absent" =>
                   main' \in {"setup", "returned"} /\ task'["listener"] = "absent"
    BY <2>3 DEF Signal, DropTasks, mainVars
  <2>4. CASE TaskStep
    BY <2>4 DEF TaskStep, Advance, Phase, mainVars
  <2>5. CASE UNCHANGED vars
    BY <2>5 DEF vars, mainVars
  <2> QED
    BY <2>1, <2>2, <2>3, <2>4, <2>5, TaskSteps DEF Next, Terminated, Failure, Environment
<1>3. ~Running' => Unfinished' = {}
  <2>1. CASE Exit \/ \E s \in Signals : Signal(s)
    BY <2>1 DEF Exit, Signal, DropTasks, Unfinished, Running
  <2>2. CASE Running' \/ UNCHANGED vars
    BY <2>2 DEF WaitInv, Running, Unfinished, vars, processVars
  <2> QED
    BY <2>1, <2>2, ProcessGoesOn
<1> QED
  BY <1>1, <1>2, <1>3 DEF WaitInv

\* The listener that is blocked on a full channel waits for a monitor that
\* itself waits for the daemon.
LEMMA WaitersWaitOutside ==
    ASSUME "wait" \in ListenerWatches, TypeOK, MainInv, WaitInv PROVE NoInternalDeadlock
<1> SUFFICES ASSUME Unfinished # {}, Unfinished = Waiting
             PROVE  \E t \in Unfinished : task[t] \in Outside
  BY DEF NoInternalDeadlock
<1> USE DEF WaitInv, PhasesInv, Waiting, Outside
<1>1. PICK t \in Waiting : TRUE
  OBVIOUS
<1>2. CASE task[t] \in {"start", "handle", "drain", "connect"}
  BY <1>1, <1>2
<1>3. CASE task[t] = "send"
  <2>1. t = "listener" /\ "receiver" \in open
    BY <1>1, <1>3 DEF Task, Unfinished
  <2>2. task["monitor"] \notin {"absent", "ended", "dropped"}
    BY <1>3, <2>1 DEF MainInv, Task
  <2>3. "monitor" \in Waiting
    BY <2>2 DEF Unfinished, Task
  <2>4. task["monitor"] \in {"start", "handle"}
    BY <2>3, LifecycleAssumption DEF LifecycleAssumption
  <2> QED
    BY <2>3, <2>4
<1> QED
  BY <1>1, <1>2, <1>3

\* A shutdown that is stuck is stuck on the daemon or on a client, never on a
\* circle of tasks: the listener blocked in send is released by the end of
\* the monitor, whatever the capacity of the channel (main.rs:184, 255-266).
\* produce_events is taken to watch the token where it waits for an event;
\* nothing is assumed of its other awaits.
THEOREM NoInternalDeadlockHolds ==
    ASSUME "wait" \in ListenerWatches PROVE Spec => []NoInternalDeadlock
<1>1. Init => WaitInv
  BY DEF Init, WaitInv, PhasesInv, Running, Task
<1>2. TypeOK /\ WaitInv /\ [Next]_vars => WaitInv'
  BY WaitNext
<1>3. TypeOK /\ MainInv /\ WaitInv => NoInternalDeadlock
  BY WaitersWaitOutside
<1> QED
  BY <1>1, <1>2, <1>3, TypeInit, MainInit, Inductive, PTL DEF Spec
-----------------------------------------------------------------------------
(***************************************************************************)
(* Refinement.  Only main decides: the steps of tasks are stutters of      *)
(* Service, or degrade it.                                                 *)
(***************************************************************************)
LEMMA ServiceInit == Init => Service!Init
BY
   DEF Init, Service!Init, Service!NoCause, Status, SomeTaskEnded, Running, Task,
       Signals

LEMMA ServiceTaskStep ==
    ASSUME TypeOK, TaskStep PROVE Service!Degrade \/ UNCHANGED Service!vars
<1> USE DEF TypeOK, TasksTypeOK, Running, Service!vars, Service!Degrade
<1>1. PICK t \in Task, to \in Phase \cup {"return", "unwind", "ended"} : Advance(t, to)
  BY DEF TaskStep
<1>2. UNCHANGED <<Status, pending, reason, code>> /\ Status # "down"
  BY <1>1 DEF Advance, Status, mainVars, processVars
<1>3. CASE to \in {"unwind", "ended"}
  <2>1. SomeTaskEnded' = TRUE
    BY <1>1, <1>3 DEF Advance, SomeTaskEnded
  <2> QED
    BY <1>2, <2>1
<1>4. CASE to \notin {"unwind", "ended"}
  <2>1. SomeTaskEnded' = SomeTaskEnded
    BY <1>1, <1>4 DEF Advance, SomeTaskEnded, Unfinished
  <2> QED
    BY <1>2, <2>1
<1> QED
  BY <1>3, <1>4

LEMMA ServiceMain ==
    ASSUME TypeOK, MainInv, TokenHasCause, MainStep \/ SetupFails \/ BindFails
    PROVE  [Service!Next]_Service!vars
<1> USE DEF TypeOK, MainTypeOK, TasksTypeOK, ProcessTypeOK, MainInv, TokenHasCause,
       Status, Running, Cancelled, Signals,
            Service!vars, Service!Next
<1>1. CASE SpawnMonitor \/ SpawnListener \/ SpawnDns
  <2>1. SomeTaskEnded' = SomeTaskEnded
    BY <1>1 DEF SomeTaskEnded, SpawnMonitor, SpawnListener, SpawnDns, Goto, Task
  <2> QED
    BY <1>1, <2>1 DEF SpawnMonitor, SpawnListener, SpawnDns, processVars
<1>2. CASE PollToken /\ Cancelled
  <2>1. Service!Stop("failure")
    BY <1>2
       DEF PollToken, processVars, SomeTaskEnded, Service!Stop, Service!Justified,
           Service!Signals
  <2> QED
    BY <2>1 DEF Service!Causes
<1>3. CASE PollToken /\ ~Cancelled
  BY <1>3 DEF PollToken, processVars, SomeTaskEnded
<1>4. CASE RegisterSignals /\ reason' = "error"
  <2>1. Service!Stop("error")
    BY <1>4
       DEF RegisterSignals, processVars, SomeTaskEnded, Service!Stop,
           Service!Justified, Service!Signals
  <2> QED
    BY <2>1 DEF Service!Causes
<1>5. CASE RegisterSignals /\ reason' # "error"
  <2>1. Service!Serve
    BY <1>5 DEF RegisterSignals, processVars, SomeTaskEnded, Service!Serve
  <2> QED
    BY <2>1
<1>6. CASE PollSignals
  <2>1. Service!Stop(reason') /\ reason' \in Signals
    BY <1>6
       DEF PollSignals, processVars, SomeTaskEnded, Service!Stop, Service!Justified,
           Service!Signals
  <2> QED
    BY <2>1 DEF Service!Causes, Service!Signals
<1>7. CASE CancelToken \/ TasksDone \/ GraceExpires
  BY <1>7 DEF CancelToken, TasksDone, GraceExpires, processVars, SomeTaskEnded
<1>8. CASE Exit
  <2>1. SomeTaskEnded' = SomeTaskEnded
    BY <1>8 DEF SomeTaskEnded, Exit, DropTasks, Unfinished
  <2>2. Service!Exit
    BY <1>8, <2>1 DEF Exit, mainVars, Service!Exit
  <2> QED
    BY <2>2
<1>9. CASE SetupFails \/ BindFails
  <2>1. Service!Stop("error")
    BY <1>9
       DEF SetupFails, BindFails, processVars, SomeTaskEnded, Service!Stop,
           Service!Justified, Service!Signals
  <2> QED
    BY <2>1 DEF Service!Causes
<1> QED
  BY <1>1, <1>2, <1>3, <1>4, <1>5, <1>6, <1>7, <1>8, <1>9 DEF MainStep

LEMMA ServiceSignal ==
    ASSUME TypeOK, MainInv, NEW s \in Signals, Signal(s)
    PROVE  Service!Receive(s) \/ Service!Kill
<1> USE DEF TypeOK, MainTypeOK, ProcessTypeOK, MainInv, Status, Running, Signals
<1>1. CASE s \in registered
  BY <1>1 DEF Signal, mainVars, SomeTaskEnded, Service!Receive
<1>2. CASE s \notin registered
  <2>1. SomeTaskEnded' = SomeTaskEnded
    BY <1>2 DEF SomeTaskEnded, Signal, DropTasks, Unfinished
  <2> QED
    BY <1>2, <2>1 DEF Signal, mainVars, Service!Kill, Service!Signals
<1> QED
  BY <1>1, <1>2

\* The process is a Service: once it serves it is never killed by a signal,
\* it stops for a reason that exists, and its exit code tells that reason
\* (shutdown.rs:39-65), whatever the tasks do in between.
THEOREM ImplementsService == Spec => ServiceSafety
<1>1. ASSUME TypeOK, MainInv, TokenHasCause, [Next]_vars PROVE [Service!Next]_(Service!vars)
  <2>1. CASE UNCHANGED vars
    BY <2>1
       DEF vars, mainVars, channelVars, processVars, Service!vars, Status, Running,
           SomeTaskEnded
  <2>2. CASE TaskStep
    BY <1>1, <2>2, ServiceTaskStep DEF Service!Next
  <2>3. ASSUME NEW s \in Signals, Signal(s) PROVE Service!Next
    BY <1>1, <2>3, ServiceSignal DEF Service!Next, Service!Signals, Signals
  <2> QED
    BY <2>1, <2>2, <2>3, ServiceMain, TaskSteps, <1>1
       DEF Next, Failure, Environment, Terminated
<1> QED
  BY <1>1, ServiceInit, TypeInit, MainInit, Inductive, PTL
     DEF Spec, ServiceSafety, Service!Safety
=============================================================================
