------------------------ MODULE ServerLifecycleProofs ------------------------
(***************************************************************************)
(* Proofs about ServerLifecycle for any number of starts and any set of    *)
(* clients, overlapping runs included.                                     *)
(***************************************************************************)
EXTENDS ServerLifecycle, TLAPS

\* The inductive invariant: Running and starting exclude each other, which is what
\* keeps an exit of one run from clearing the reservation of the next.
OneClaim == ~(server.Running /\ server.starting)

Inv == /\ Typed
       /\ OneClaim
       /\ StartupReservation
       /\ StoppingNeedsRun
       /\ StoppedWhileReplaced

\* The struct keeps its type under each assignment to a flag, to Cmd and to Rcon ...
LEMMA AssignmentsKeepType ==
    ASSUME NEW s \in ServerStruct, NEW b \in BOOLEAN, NEW n \in 0..MaxRuns
    PROVE  /\ [s EXCEPT !.Running = b] \in ServerStruct
           /\ [s EXCEPT !.Stopping = b] \in ServerStruct
           /\ [s EXCEPT !.starting = b] \in ServerStruct
           /\ [s EXCEPT !.startupReady = b] \in ServerStruct
           /\ [s EXCEPT !.stopSignaled = b] \in ServerStruct
           /\ [s EXCEPT !.Cmd = n] \in ServerStruct
           /\ [s EXCEPT !.Rcon = n] \in ServerStruct
BY DEF ServerStruct

\* ... and so under the helpers made of them.
LEMMA HelpersKeepType ==
    ASSUME NEW s \in ServerStruct
    PROVE  /\ ResetFlags(s) \in ServerStruct
           /\ SetStopped(s) \in ServerStruct
           /\ SetNotStopping(s) \in ServerStruct
BY DEF ServerStruct, ResetFlags, SetStopped, SetNotStopping

\* Every step keeps the type of the struct ...
LEMMA ServerStep == ASSUME Typed, [Next]_vars PROVE server' \in ServerStruct
<1> USE LifecycleConstants, AssignmentsKeepType, HelpersKeepType
<1>0. /\ server \in ServerStruct
      /\ server.Running \in BOOLEAN /\ server.Stopping \in BOOLEAN
      /\ server.startupReady \in BOOLEAN /\ server.stopSignaled \in BOOLEAN
      /\ server.Cmd \in 0..MaxRuns /\ Nobody \in 0..MaxRuns /\ Runs \subseteq 0..MaxRuns
  BY DEF Typed, ServerStruct, Nobody, Runs
<1>1. ASSUME NEW r \in Runs, ClaimStart(r) \/ Starter(r) \/ ExitChild(r)
      PROVE  server' \in ServerStruct
  <2>1. CASE ClaimStart(r)
    BY <1>0, <2>1 DEF ClaimStart
  <2>2. CASE FailStart(r)
    BY <1>0, <2>2 DEF FailStart
  <2>3. CASE PublishRunning(r)
    <3> DEFINE s == [[server EXCEPT !.Cmd = r] EXCEPT !.Running = TRUE]
    <3>1. s \in ServerStruct
      BY <1>0
    <3>2. server' = [s EXCEPT !.starting = FALSE]
      BY <2>3 DEF PublishRunning
    <3> HIDE DEF s
    <3> QED
      BY <1>0, <3>1, <3>2
  <2>4. CASE ExitCloseRcon(r) \/ ExitSetStopped(r)
    BY <1>0, <2>4 DEF ExitCloseRcon, ExitSetStopped
  <2>5. CASE \/ SpawnChild(r) \/ ReleaseStartupGuards(r) \/ ReapChild(r)
             \/ ExitCancelMonitor(r) \/ ExitChild(r)
    BY <1>0, <2>5 DEF SpawnChild, ReleaseStartupGuards, ReapChild, ExitCancelMonitor,
                      ExitChild
  <2> QED
    BY <1>1, <2>1, <2>2, <2>3, <2>4, <2>5 DEF Starter
<1>2. ASSUME NEW r \in Runs, Reader(r) PROVE server' \in ServerStruct
  <2>1. CASE InstallRcon(r)
    <3>1. handle[r] \in 0..MaxRuns
      BY DEF Typed, Actors
    <3> QED
      BY <1>0, <2>1, <3>1 DEF InstallRcon
  <2>2. CASE MarkStartupReady(r)
    <3> DEFINE s == [server EXCEPT !.startupReady = TRUE]
               b == server.stopSignaled \/ StopPending
    <3>1. b \in BOOLEAN
      BY <1>0 DEF StopPending
    <3>2. s \in ServerStruct
      BY <1>0
    <3>3. server' = [s EXCEPT !.stopSignaled = b]
      BY <2>2 DEF MarkStartupReady
    <3> HIDE DEF s, b
    <3> QED
      BY <1>0, <3>1, <3>2, <3>3
  <2>3. CASE ReadRconLine(r) \/ ReadEOF(r) \/ Dial(r) \/ DialFails(r) \/ StartMonitor(r)
    BY <1>0, <2>3 DEF ReadRconLine, ReadEOF, Dial, DialFails, StartMonitor
  <2> QED
    BY <1>2, <2>1, <2>2, <2>3 DEF Reader, Connect
<1>3. ASSUME NEW a \in Actors, Stopper(a) PROVE server' \in ServerStruct
  BY <1>0, <1>3 DEF Stopper, CaptureProcess, SignalProcess, UndoRunning,
                    UndoCancelMonitor, CloseRcon
<1>4. ASSUME NEW c \in Clients, RequestStop(c) \/ RequestKill(c) \/ Caller(c)
      PROVE  server' \in ServerStruct
  <2>1. CASE ClaimStopSignal(c)
    <3> DEFINE b == server.stopSignaled \/ (StopPending /\ server.startupReady)
    <3>1. b \in BOOLEAN
      BY <1>0 DEF StopPending
    <3>2. server' = [server EXCEPT !.stopSignaled = b]
      BY <2>1 DEF ClaimStopSignal
    <3> QED
      BY <1>0, <3>1, <3>2
  <2>2. CASE \/ RequestStop(c) \/ RequestKill(c) \/ StopCancelMonitor(c)
             \/ CaptureForKill(c) \/ KillCancelMonitor(c) \/ KillProcess(c)
    BY <1>0, <2>2 DEF RequestStop, RequestKill, StopCancelMonitor, CaptureForKill,
                      KillCancelMonitor, KillProcess
  <2> QED
    BY <1>4, <2>1, <2>2 DEF Caller
<1>5. CASE Environment \/ UNCHANGED vars
  BY <1>0, <1>5 DEF Environment, BeginCommand, EndCommand, BeginGeneration,
     EndGeneration, BeginSwitch, BeginInstall, EndInstall, ReloadServer, EndSwitch, vars
<1> QED
  BY <1>1, <1>2, <1>3, <1>4, <1>5 DEF Next

\* ... the labels of the actors, which only Goto changes ...
LEMMA GotoKeepsLabels ==
    ASSUME Typed, NEW a \in Actors, NEW label \in PcValues, Goto(a, label)
    PROVE  pc' \in [Actors -> PcValues]
BY DEF Typed, Goto

LEMMA LabelStep == ASSUME Typed, [Next]_vars PROVE pc' \in [Actors -> PcValues]
<1> USE GotoKeepsLabels
<1>0. /\ {"idle", "claim", "cancel", "checkpoint", "kill", "reading", "dial", "install",
          "mark", "watch", "done", "signal", "undo", "uncancel", "close", "killcancel",
          "killing"} \subseteq PcValues
      /\ \A a \in Actors : Return(a) \in PcValues
      /\ Runs \subseteq Actors /\ Clients \subseteq Actors
      /\ pc \in [Actors -> PcValues]
  BY DEF PcValues, HoldsLock, Return, Actors, Typed
<1>1. ASSUME NEW r \in Runs, ClaimStart(r) \/ Starter(r) \/ ExitChild(r)
      PROVE  pc' \in [Actors -> PcValues]
  BY <1>0, <1>1 DEF ClaimStart, Starter, FailStart, SpawnChild, PublishRunning,
     ReleaseStartupGuards, ReapChild, ExitCloseRcon, ExitSetStopped, ExitCancelMonitor,
     ExitChild
<1>2. ASSUME NEW r \in Runs, Reader(r) PROVE pc' \in [Actors -> PcValues]
  BY <1>0, <1>2 DEF Reader, Connect, ReadRconLine, ReadEOF, Dial, DialFails, InstallRcon,
     MarkStartupReady, StartMonitor
<1>3. ASSUME NEW a \in Actors, Stopper(a) PROVE pc' \in [Actors -> PcValues]
  BY <1>0, <1>3 DEF Stopper, CaptureProcess, SignalProcess, UndoRunning,
     UndoCancelMonitor, CloseRcon
<1>4. ASSUME NEW c \in Clients, RequestStop(c) \/ RequestKill(c) \/ Caller(c)
      PROVE  pc' \in [Actors -> PcValues]
  BY <1>0, <1>4 DEF Caller, RequestStop, RequestKill, ClaimStopSignal, StopCancelMonitor,
     CaptureForKill, KillCancelMonitor, KillProcess
<1>5. CASE Environment \/ UNCHANGED vars
  BY <1>0, <1>5 DEF Environment, BeginCommand, EndCommand, BeginGeneration,
     EndGeneration, BeginSwitch, BeginInstall, EndInstall, ReloadServer, EndSwitch, vars
<1> QED
  BY <1>1, <1>2, <1>3, <1>4, <1>5 DEF Next

\* ... and the other variables.
LEMMA RestStep ==
    ASSUME Typed, [Next]_vars
    PROVE  /\ start' \in [Runs -> StartSteps] /\ child' \in [Runs -> ChildStates]
           /\ handle' \in [Actors -> 0..MaxRuns] /\ guards' \subseteq Runs
           /\ generating' \in BOOLEAN /\ installing' \in BOOLEAN
           /\ switch' \in {"none", "switching"}
           /\ command' \in 0..MaxRuns /\ monitor' \in 0..MaxRuns
<1> DEFINE Rest ==
           /\ start \in [Runs -> StartSteps] /\ child \in [Runs -> ChildStates]
           /\ handle \in [Actors -> 0..MaxRuns] /\ guards \subseteq Runs
           /\ generating \in BOOLEAN /\ installing \in BOOLEAN
           /\ switch \in {"none", "switching"}
           /\ command \in 0..MaxRuns /\ monitor \in 0..MaxRuns
<1>0. /\ Rest /\ Runs \subseteq 0..MaxRuns /\ Nobody \in 0..MaxRuns
      /\ server.Cmd \in 0..MaxRuns /\ server.Rcon \in 0..MaxRuns
  BY LifecycleConstants DEF Typed, ServerStruct, Nobody, Runs
<1>1. ASSUME NEW r \in Runs, ClaimStart(r) \/ Starter(r) \/ ExitChild(r) PROVE Rest'
  <2> USE <1>0 DEF StartSteps, ChildStates
  <2>1. CASE ClaimStart(r) \/ FailStart(r) \/ SpawnChild(r) \/ PublishRunning(r)
    BY <2>1 DEF ClaimStart, FailStart, SpawnChild, PublishRunning
  <2>2. CASE ReleaseStartupGuards(r) \/ ReapChild(r) \/ ExitCloseRcon(r)
    BY <2>2 DEF ReleaseStartupGuards, ReapChild, ExitCloseRcon
  <2>3. CASE ExitSetStopped(r) \/ ExitCancelMonitor(r) \/ ExitChild(r)
    BY <2>3 DEF ExitSetStopped, ExitCancelMonitor, ExitChild
  <2> QED
    BY <1>1, <2>1, <2>2, <2>3 DEF Starter
<1>2. ASSUME NEW r \in Runs, Reader(r) PROVE Rest'
  BY <1>0, <1>2 DEF Reader, Connect, ReadRconLine, ReadEOF, Dial, DialFails, InstallRcon,
     MarkStartupReady, StartMonitor, Actors
<1>3. ASSUME NEW a \in Actors, Stopper(a) PROVE Rest'
  BY <1>0, <1>3 DEF Stopper, CaptureProcess, SignalProcess, UndoRunning,
     UndoCancelMonitor, CloseRcon, ChildStates
<1>4. ASSUME NEW c \in Clients, RequestStop(c) \/ RequestKill(c) \/ Caller(c)
      PROVE  Rest'
  BY <1>0, <1>4 DEF Caller, RequestStop, RequestKill, ClaimStopSignal, StopCancelMonitor,
     CaptureForKill, KillCancelMonitor, KillProcess, ChildStates
<1>5. CASE Environment \/ UNCHANGED vars
  BY <1>0, <1>5 DEF Environment, BeginCommand, EndCommand, BeginGeneration,
     EndGeneration, BeginSwitch, BeginInstall, EndInstall, ReloadServer, EndSwitch, vars
<1> QED
  BY <1>1, <1>2, <1>3, <1>4, <1>5 DEF Next

\* The initial state has the type ...
LEMMA InitTyped == Init => Typed
<1> SUFFICES ASSUME Init PROVE Typed
  OBVIOUS
<1>1. Nobody \in 0..MaxRuns
  BY LifecycleConstants DEF Nobody
<1>2. server \in ServerStruct
  BY <1>1 DEF Init, ServerStruct
<1>3. /\ start \in [Runs -> StartSteps] /\ child \in [Runs -> ChildStates]
      /\ pc \in [Actors -> PcValues] /\ handle \in [Actors -> 0..MaxRuns]
  BY <1>1 DEF Init, StartSteps, ChildStates, PcValues
<1> QED
  BY <1>1, <1>2, <1>3 DEF Init, Typed

\* ... and every step keeps it.
LEMMA TypeStep == Typed /\ [Next]_vars => Typed'
BY ServerStep, LabelStep, RestStep DEF Typed

\* Who is about to signal, kill or install holds a process or a console, as only a server
\* with a process is published, made ready or killed.
Handles ==
    /\ server.Running => server.Cmd \in Runs
    /\ \A a \in Actors : pc[a] \in {"cancel", "checkpoint"} => server.Cmd \in Runs
    /\ \A a \in Actors : handle[a] \in Runs <=> pc[a] \in Holding
    /\ \A r \in Runs : start[r] \in {"unused", "claimed", "spawned"} => pc[r] = "idle"

\* A step of one actor keeps the handles of the others.
LEMMA HandlesAside ==
    ASSUME Typed, Handles, NEW a \in Actors,
           \A b \in Actors \ {a} : pc'[b] = pc[b] /\ handle'[b] = handle[b],
           server.Cmd \in Runs => server'.Cmd \in Runs,
           server'.Running => server.Running, start' = start,
           a \in Clients \/ pc[a] # "idle",
           pc'[a] \in {"cancel", "checkpoint"} => server'.Cmd \in Runs,
           handle'[a] \in Runs <=> pc'[a] \in Holding
    PROVE  Handles'
<1>1. \A r \in Runs : r \in Actors /\ r \notin Clients
  BY LifecycleConstants DEF Actors, Runs
<1> QED
  BY <1>1 DEF Handles, Holding

LEMMA HandlesStep == ASSUME Typed, Handles, [Next]_vars PROVE Handles'
<1>0. /\ server \in ServerStruct /\ pc \in [Actors -> PcValues]
      /\ handle \in [Actors -> 0..MaxRuns] /\ Nobody \notin Runs
      /\ Runs \subseteq Actors /\ Clients \subseteq Actors
      /\ \A n \in 0..MaxRuns : n \in Runs \/ n = Nobody
      /\ server.Cmd \in 0..MaxRuns
      /\ \A a \in Actors : Return(a) \in {"idle", "done"}
      /\ start \in [Runs -> StartSteps]
  BY LifecycleConstants DEF Typed, Runs, Nobody, Actors, Return, ServerStruct
<1>1. ASSUME NEW r \in Runs, ClaimStart(r) \/ Starter(r) \/ ExitChild(r) PROVE Handles'
  <2>1. CASE PublishRunning(r)
    <3>1. /\ server'.Cmd = r /\ UNCHANGED handle /\ pc'[r] = "reading"
          /\ \A b \in Actors \ {r} : pc'[b] = pc[b]
          /\ start[r] = "spawned" /\ start' = [start EXCEPT ![r] = "published"]
      BY <1>0, <2>1 DEF PublishRunning, Goto, ServerStruct
    <3> QED
      BY <1>0, <3>1 DEF Handles, Holding
  <2>2. CASE \/ ClaimStart(r) \/ ExitChild(r) \/ FailStart(r) \/ SpawnChild(r)
             \/ ReleaseStartupGuards(r) \/ ReapChild(r) \/ ExitCloseRcon(r)
             \/ ExitSetStopped(r) \/ ExitCancelMonitor(r)
    <3>1. /\ UNCHANGED <<pc, handle>> /\ server'.Cmd = server.Cmd
          /\ server'.Running => server.Running
          /\ \A q \in Runs : start'[q] \in {"unused", "claimed", "spawned"}
                              => start[q] \in {"unused", "claimed", "spawned"}
      BY <1>0, <2>2 DEF ClaimStart, ExitChild, FailStart, SpawnChild, ReapChild,
         ReleaseStartupGuards, ExitCloseRcon, ExitSetStopped, ExitCancelMonitor,
         ResetFlags, SetStopped, ServerStruct
    <3> QED
      BY <3>1 DEF Handles
  <2> QED
    BY <1>1, <2>1, <2>2 DEF Starter
<1>2. ASSUME NEW r \in Runs, Reader(r) PROVE Handles'
  <2>1. CASE Dial(r)
    BY <1>0, <2>1, HandlesAside DEF Dial, Goto, Holding, Handles
  <2>2. CASE InstallRcon(r)
    BY <1>0, <2>2, HandlesAside DEF InstallRcon, Goto, Holding, ServerStruct
  <2>3. CASE MarkStartupReady(r)
    <3>1. /\ server'.Cmd = server.Cmd /\ server'.Running = server.Running
          /\ pc[r] = "mark" /\ UNCHANGED <<handle, start>>
          /\ pc'[r] = "watch" \/ (pc'[r] = "checkpoint" /\ server.Running)
          /\ \A b \in Actors \ {r} : pc'[b] = pc[b]
      BY <1>0, <2>3 DEF MarkStartupReady, StopPending, Goto, ServerStruct
    <3> QED
      BY <1>0, <3>1, HandlesAside DEF Handles, Holding
  <2>4. CASE ReadRconLine(r) \/ ReadEOF(r) \/ DialFails(r) \/ StartMonitor(r)
    <3>1. /\ pc[r] \notin Holding /\ pc[r] # "idle"
          /\ pc'[r] \in {"dial", "done"}
          /\ UNCHANGED <<server, handle, start>> /\ \A b \in Actors \ {r} : pc'[b] = pc[b]
      BY <1>0, <2>4 DEF ReadRconLine, ReadEOF, DialFails, StartMonitor, Goto, Holding
    <3> QED
      BY <1>0, <3>1, HandlesAside DEF Handles, Holding
  <2> QED
    BY <1>2, <2>1, <2>2, <2>3, <2>4 DEF Reader, Connect
<1>3. ASSUME NEW a \in Actors, Stopper(a) PROVE Handles'
  <2>1. CASE CaptureProcess(a)
    <3>1. /\ pc[a] = "checkpoint" /\ pc'[a] = "signal" /\ UNCHANGED <<server, start>>
          /\ handle'[a] = server.Cmd
          /\ \A b \in Actors \ {a} : pc'[b] = pc[b] /\ handle'[b] = handle[b]
      BY <1>0, <2>1 DEF CaptureProcess, Goto
    <3> QED
      BY <3>1, HandlesAside DEF Handles, Holding
  <2>2. CASE SignalProcess(a)
    <3>1. /\ pc[a] = "signal" /\ pc'[a] \in {"undo", "close"} /\ handle'[a] = Nobody
          /\ UNCHANGED start
          /\ \A b \in Actors \ {a} : pc'[b] = pc[b] /\ handle'[b] = handle[b]
          /\ server'.Cmd = server.Cmd /\ server'.Running = server.Running
      BY <1>0, <2>2 DEF SignalProcess, Goto, SetNotStopping, ServerStruct
    <3> QED
      BY <1>0, <3>1, HandlesAside DEF Holding
  <2>3. CASE UndoRunning(a) \/ UndoCancelMonitor(a) \/ CloseRcon(a)
    <3>1. /\ pc[a] \notin Holding /\ pc[a] # "idle" /\ UNCHANGED <<handle, start>>
          /\ pc'[a] \in {"idle", "done", "uncancel"}
          /\ \A b \in Actors \ {a} : pc'[b] = pc[b]
          /\ server'.Cmd = server.Cmd
          /\ server'.Running => server.Running
      BY <1>0, <2>3 DEF UndoRunning, UndoCancelMonitor, CloseRcon, Goto, SetStopped,
         ResetFlags, ServerStruct, Holding
    <3> QED
      BY <1>0, <3>1, HandlesAside DEF Handles, Holding
  <2> QED
    BY <1>3, <2>1, <2>2, <2>3 DEF Stopper
<1>4. ASSUME NEW c \in Clients, RequestStop(c) \/ RequestKill(c) \/ Caller(c)
      PROVE  Handles'
  <2>1. CASE CaptureForKill(c)
    <3>1. /\ server'.Cmd = server.Cmd /\ server'.Running = server.Running
          /\ UNCHANGED start
          /\ \A b \in Actors \ {c} : pc'[b] = pc[b] /\ handle'[b] = handle[b]
          /\ \/ pc[c] = "kill" /\ handle'[c] = handle[c] /\ pc'[c] = "idle"
             \/ server.Cmd \in Runs /\ handle'[c] = server.Cmd /\ pc'[c] = "killcancel"
      BY <1>0, <2>1 DEF CaptureForKill, Goto, ServerStruct
    <3> QED
      BY <1>0, <3>1, HandlesAside DEF Handles, Holding
  <2>2. CASE KillProcess(c)
    <3>1. /\ pc'[c] \in {"undo", "close"} /\ handle'[c] = Nobody /\ UNCHANGED start
          /\ \A b \in Actors \ {c} : pc'[b] = pc[b] /\ handle'[b] = handle[b]
          /\ server'.Cmd = server.Cmd /\ server'.Running = server.Running
      BY <1>0, <2>2 DEF KillProcess, Goto, SetNotStopping, ServerStruct
    <3> QED
      BY <1>0, <3>1, HandlesAside DEF Holding
  <2>3. CASE ClaimStopSignal(c)
    <3>1. /\ pc[c] = "claim" /\ UNCHANGED <<handle, start>>
          /\ \A b \in Actors \ {c} : pc'[b] = pc[b]
          /\ server'.Cmd = server.Cmd /\ server'.Running = server.Running
          /\ pc'[c] = "idle" \/ (pc'[c] = "cancel" /\ server.Running)
      BY <1>0, <2>3 DEF ClaimStopSignal, StopPending, Goto, ServerStruct
    <3> QED
      BY <1>0, <3>1, HandlesAside DEF Handles, Holding
  <2>4. CASE RequestStop(c) \/ RequestKill(c) \/ StopCancelMonitor(c) \/ KillCancelMonitor(c)
    <3>1. /\ pc[c] \in Holding <=> pc'[c] \in Holding
          /\ UNCHANGED <<handle, start>> /\ \A b \in Actors \ {c} : pc'[b] = pc[b]
          /\ server'.Cmd = server.Cmd /\ server'.Running = server.Running
          /\ pc'[c] \in {"cancel", "checkpoint"} => pc[c] = "cancel"
      BY <1>0, <2>4 DEF RequestStop, RequestKill, StopCancelMonitor, KillCancelMonitor,
         Goto, ServerStruct, Holding
    <3> QED
      BY <1>0, <3>1, HandlesAside DEF Handles
  <2> QED
    BY <1>4, <2>1, <2>2, <2>3, <2>4 DEF Caller
<1>5. CASE Environment \/ UNCHANGED vars
  <2>1. UNCHANGED <<pc, handle, start>> /\ server'.Cmd = server.Cmd
        /\ server'.Running = server.Running
    BY <1>0, <1>5 DEF Environment, BeginCommand, EndCommand, BeginGeneration,
       EndGeneration, BeginSwitch, BeginInstall, EndInstall, ReloadServer, EndSwitch,
       ResetFlags, ServerStruct, vars
  <2> QED
    BY <2>1 DEF Handles
<1> QED
  BY <1>1, <1>2, <1>3, <1>4, <1>5 DEF Next

LEMMA InitHandles == Init => Handles
BY DEF Init, Handles, Holding, Nobody, Runs, Actors

\* Every reachable state is well typed, and a claimed stop, a force stop and a dialled
\* console always have their process: the nil tests of signalStop and Kill turn none away.
THEOREM TypeCorrect == Spec => []TypeOK
<1>1. Typed /\ Handles => TypeOK
  BY DEF TypeOK, Handles
<1>2. Typed /\ Handles /\ [Next]_vars => Typed' /\ Handles'
  BY TypeStep, HandlesStep
<1> QED
  BY <1>1, <1>2, InitTyped, InitHandles, PTL DEF Spec

-----------------------------------------------------------------------------
\* The helpers, as far as the claims are concerned.
LEMMA HelperFlags ==
    ASSUME NEW s \in ServerStruct
    PROVE  /\ ResetFlags(s).Running <=> s.Running
           /\ ResetFlags(s).starting <=> s.starting
           /\ ~ResetFlags(s).Stopping
           /\ ~SetStopped(s).Running
           /\ SetStopped(s).starting <=> s.starting /\ ~s.Running
           /\ SetStopped(s).Stopping <=> s.Stopping /\ ~s.Running
           /\ SetNotStopping(s).Running <=> s.Running
           /\ SetNotStopping(s).starting <=> s.starting
           /\ ~SetNotStopping(s).Stopping
BY DEF ServerStruct, ResetFlags, SetStopped, SetNotStopping

\* Requests, readers and children never touch the reservation, and Stopping is never
\* set on a server that is neither running nor starting.
LEMMA RequestsKeepClaims ==
    ASSUME Typed, StoppingNeedsRun,
           \/ \E r \in Runs : ExitChild(r) \/ Reader(r)
           \/ \E a \in Actors : Stopper(a)
           \/ \E c \in Clients : RequestStop(c) \/ RequestKill(c) \/ Caller(c)
    PROVE  /\ guards' = guards /\ start' = start
           /\ UNCHANGED <<generating, installing, switch>>
           /\ server'.Running => server.Running
           /\ server'.starting => server.starting
           /\ server.starting => server'.starting \/ server.Running
           /\ server'.Stopping => server'.Running \/ server'.starting
<1> DEFINE Keeps ==
           /\ guards' = guards /\ start' = start
           /\ UNCHANGED <<generating, installing, switch>>
           /\ server'.Running => server.Running
           /\ server'.starting => server.starting
           /\ server.starting => server'.starting \/ server.Running
           /\ server'.Stopping => server'.Running \/ server'.starting
<1>0. server \in ServerStruct
  BY DEF Typed
<1> USE <1>0, HelperFlags DEF StoppingNeedsRun
<1>1. ASSUME NEW r \in Runs, ExitChild(r) \/ Reader(r) PROVE Keeps
  <2>1. CASE \/ ExitChild(r) \/ ReadRconLine(r) \/ ReadEOF(r) \/ Dial(r) \/ DialFails(r)
             \/ StartMonitor(r)
    BY <2>1 DEF ExitChild, ReadRconLine, ReadEOF, Dial, DialFails, StartMonitor
  <2>2. CASE InstallRcon(r)
    BY <2>2 DEF InstallRcon, ServerStruct
  <2>3. CASE MarkStartupReady(r)
    BY <2>3 DEF MarkStartupReady, ServerStruct
  <2> QED
    BY <1>1, <2>1, <2>2, <2>3 DEF Reader, Connect
<1>2. ASSUME NEW a \in Actors, Stopper(a) PROVE Keeps
  <2>1. CASE CaptureProcess(a) \/ UndoCancelMonitor(a)
    BY <2>1 DEF CaptureProcess, UndoCancelMonitor
  <2>2. CASE SignalProcess(a)
    BY <2>2 DEF SignalProcess
  <2>3. CASE UndoRunning(a)
    BY <2>3 DEF UndoRunning
  <2>4. CASE CloseRcon(a)
    BY <2>4 DEF CloseRcon, ServerStruct
  <2> QED
    BY <1>2, <2>1, <2>2, <2>3, <2>4 DEF Stopper
<1>3. ASSUME NEW c \in Clients, RequestStop(c) \/ RequestKill(c) \/ Caller(c)
      PROVE  Keeps
  <2>1. CASE RequestStop(c) \/ RequestKill(c) \/ ClaimStopSignal(c)
    BY <2>1 DEF RequestStop, RequestKill, ClaimStopSignal, ServerStruct
  <2>2. CASE StopCancelMonitor(c) \/ KillCancelMonitor(c)
    BY <2>2 DEF StopCancelMonitor, KillCancelMonitor
  <2>3. CASE CaptureForKill(c)
    BY <2>3 DEF CaptureForKill, ServerStruct
  <2>4. CASE KillProcess(c)
    BY <2>4 DEF KillProcess
  <2> QED
    BY <1>3, <2>1, <2>2, <2>3, <2>4 DEF Caller
<1> QED
  BY <1>1, <1>2, <1>3

\* The goroutine of a start moves its own reservation only: from "claimed" to the
\* release of the guards no other start, generation or switch can be under way.
LEMMA StarterKeepsClaims ==
    ASSUME Inv, NEW r \in Runs, ClaimStart(r) \/ Starter(r)
    PROVE  OneClaim' /\ StartupReservation' /\ StoppingNeedsRun' /\ StoppedWhileReplaced'
<1> DEFINE Goal == OneClaim' /\ StartupReservation' /\ StoppingNeedsRun'
                   /\ StoppedWhileReplaced'
<1>0. server \in ServerStruct /\ start \in [Runs -> StartSteps] /\ guards \subseteq Runs
  BY DEF Inv, Typed
<1> USE <1>0, HelperFlags
        DEF Inv, OneClaim, StartupReservation, StoppingNeedsRun, StoppedWhileReplaced
<1>1. CASE ClaimStart(r)
  <2>1. /\ server'.starting /\ ~server'.Running /\ ~server'.Stopping
        /\ switch' = "none" /\ ~generating' /\ ~installing'
    BY <1>1 DEF ClaimStart, Busy, WorldGenFree, ResetFlags, ServerStruct
  <2>2. guards = {} /\ guards' = {r} /\ start' = [start EXCEPT ![r] = "claimed"]
    BY <1>1 DEF ClaimStart, WorldGenFree
  <2> QED
    BY <2>1, <2>2
<1>2. CASE FailStart(r)
  <2>1. /\ ~server'.starting /\ (server'.Running <=> server.Running) /\ ~server'.Stopping
        /\ start[r] = "claimed" /\ start' = [start EXCEPT ![r] = "failed"]
        /\ UNCHANGED <<guards, generating, installing, switch>>
    BY <1>2 DEF FailStart, ResetFlags, ServerStruct
  <2> QED
    BY <2>1
<1>3. CASE SpawnChild(r)
  BY <1>3 DEF SpawnChild
<1>4. CASE PublishRunning(r)
  <2>1. /\ ~server'.starting /\ server'.Running
        /\ start[r] = "spawned" /\ start' = [start EXCEPT ![r] = "published"]
        /\ UNCHANGED <<guards, generating, installing, switch>>
    BY <1>4 DEF PublishRunning, ServerStruct
  <2> QED
    BY <2>1
<1>5. CASE ReleaseStartupGuards(r)
  BY <1>5 DEF ReleaseStartupGuards
<1>6. CASE ReapChild(r) \/ ExitCancelMonitor(r)
  BY <1>6 DEF ReapChild, ExitCancelMonitor
<1>7. CASE ExitCloseRcon(r)
  <2>1. /\ server'.starting <=> server.starting
        /\ server'.Running <=> server.Running
        /\ server'.Stopping <=> server.Stopping
    BY <1>7 DEF ExitCloseRcon, ServerStruct
  <2>2. start[r] = "exited" /\ start' = [start EXCEPT ![r] = "closed"]
        /\ UNCHANGED <<guards, generating, installing, switch>>
    BY <1>7 DEF ExitCloseRcon
  <2> QED
    BY <2>1, <2>2
<1>8. CASE ExitSetStopped(r)
  <2>1. /\ server'.starting <=> server.starting
        /\ ~server'.Running
        /\ server'.Stopping => server'.starting
    BY <1>8 DEF ExitSetStopped
  <2>2. /\ start[r] = "closed" /\ start'[r] \in {"cancelling", "over"}
        /\ \A q \in Runs : q # r => start'[q] = start[q]
        /\ UNCHANGED <<guards, generating, installing, switch>>
    BY <1>8 DEF ExitSetStopped
  <2> QED
    BY <2>1, <2>2
<1> QED
  BY <1>1, <1>2, <1>3, <1>4, <1>5, <1>6, <1>7, <1>8 DEF Starter

\* Init establishes and every step keeps the inductive invariant.
LEMMA Inductive == (Init => Inv) /\ (Inv /\ [Next]_vars => Inv')
<1>1. Init => Inv
  BY InitTyped DEF Init, Inv, OneClaim, StartupReservation, StoppingNeedsRun,
                    StoppedWhileReplaced
<1>2. ASSUME Inv, [Next]_vars PROVE Inv'
  <2> DEFINE Goal == OneClaim' /\ StartupReservation' /\ StoppingNeedsRun'
                     /\ StoppedWhileReplaced'
  <2>0. SUFFICES Goal
    BY <1>2, TypeStep DEF Inv
  <2>1. CASE \E r \in Runs : ClaimStart(r) \/ Starter(r)
    BY <1>2, <2>1, StarterKeepsClaims
  <2>2. CASE \/ \E r \in Runs : ExitChild(r) \/ Reader(r)
             \/ \E a \in Actors : Stopper(a)
             \/ \E c \in Clients : RequestStop(c) \/ RequestKill(c) \/ Caller(c)
    <3>1. /\ guards' = guards /\ start' = start
          /\ UNCHANGED <<generating, installing, switch>>
          /\ server'.Running => server.Running
          /\ server'.starting => server.starting
          /\ server.starting => server'.starting \/ server.Running
          /\ server'.Stopping => server'.Running \/ server'.starting
      BY <1>2, <2>2, RequestsKeepClaims DEF Inv
    <3> QED
      BY <1>2, <3>1 DEF Inv, OneClaim, StartupReservation, StoppingNeedsRun,
                        StoppedWhileReplaced
  <2>3. CASE Environment \/ UNCHANGED vars
    <3>0. server \in ServerStruct
      BY <1>2 DEF Inv, Typed
    <3>1. CASE ReloadServer
      BY <1>2, <3>0, <3>1, HelperFlags
      DEF ReloadServer, Inv, OneClaim, StartupReservation, StoppingNeedsRun,
          StoppedWhileReplaced
    <3>2. CASE BeginCommand \/ EndCommand \/ BeginGeneration \/ EndGeneration
      BY <1>2, <3>2 DEF BeginCommand, EndCommand, BeginGeneration, EndGeneration, Inv,
         OneClaim, StartupReservation, StoppingNeedsRun, StoppedWhileReplaced, WorldGenFree
    <3>3. CASE BeginSwitch \/ BeginInstall \/ EndInstall \/ EndSwitch \/ UNCHANGED vars
      BY <1>2, <3>3 DEF BeginSwitch, BeginInstall, EndInstall, EndSwitch, vars, Inv,
         OneClaim, StartupReservation, StoppingNeedsRun, StoppedWhileReplaced, Busy,
         WorldGenFree
    <3> QED
      BY <2>3, <3>1, <3>2, <3>3 DEF Environment
  <2> QED
    BY <1>2, <2>1, <2>2, <2>3 DEF Next
<1> QED
  BY <1>1, <1>2

\* In every reachable state the starting flag, the startup guards and the goroutine
\* that owns them agree, so that a start excludes generation, a switch and an install, the
\* one of the release handler under the shared gate included. No interleaving of starts,
\* stops, kills and exits leaves a stopped server stopping, and nothing replaces the
\* engine, the profile or the saves of a starting or running server.
THEOREM ReservationSafe == Spec => []ReservationSound
<1>1. Inv => ReservationSound
  BY DEF Inv, ReservationSound
<1> QED
  BY <1>1, Inductive, PTL DEF Spec

-----------------------------------------------------------------------------
(* A stop that was accepted is delivered: the handshake of the readiness   *)
(* of a run with the requests for its end.                                 *)

\* The reader of the published run has not yet marked it ready ...
Unready == {"reading", "dial", "install", "mark"}
\* ... or has, and then a stop that is not signalled is in the hands of somebody who
\* is about to look, or to kill this very process.
MarkedReady == server.Running /\ Alive(server.Cmd) /\ pc[server.Cmd] \notin Unready
Unsignalled == server.Stopping /\ ~server.stopSignaled
Delivers(c) == \/ pc[c] = "claim"
               \/ pc[c] \in {"killcancel", "killing"} /\ handle[c] = server.Cmd

Handshake ==
    /\ server.Running => server.Cmd \in Runs
    /\ MarkedReady => server.startupReady
    /\ MarkedReady /\ Unsignalled => \E c \in Clients : Delivers(c)

\* A step that makes nobody ready, takes no stop back from whom delivers it and asks
\* for none.
LEMMA HandshakeUndisturbed ==
    ASSUME Handshake, server'.Running => server.Running, server'.Cmd = server.Cmd,
           server.startupReady => server'.startupReady,
           server'.Stopping /\ ~server'.stopSignaled => Unsignalled,
           server.Cmd \in Runs => /\ Alive(server.Cmd)' => Alive(server.Cmd)
                                  /\ pc[server.Cmd] \in Unready => pc'[server.Cmd] \in Unready
                                                                \/ ~Alive(server.Cmd)',
           \A c \in Clients : Delivers(c) => Delivers(c)'
    PROVE  Handshake'
BY DEF Handshake, MarkedReady, Unsignalled, Alive

LEMMA HandshakeOver == ASSUME ~server'.Running PROVE Handshake'
BY DEF Handshake, MarkedReady

\* A step of an actor that delivers nothing and is no reader on its way to readiness.
LEMMA HandshakeAside ==
    ASSUME Typed, Handshake, NEW a \in Actors,
           pc[a] \notin Unready \cup {"claim", "killcancel", "killing"},
           \A b \in Actors \ {a} : pc'[b] = pc[b] /\ handle'[b] = handle[b],
           server'.Running => server.Running, server'.Cmd = server.Cmd,
           server.startupReady => server'.startupReady,
           server'.Stopping /\ ~server'.stopSignaled => Unsignalled,
           \A r \in Runs : Alive(r)' => Alive(r)
    PROVE  Handshake'
<1>1. ASSUME NEW c \in Clients, Delivers(c) PROVE Delivers(c)'
  BY <1>1 DEF Delivers, Actors
<1>2. server.Cmd \in Runs =>
         (pc[server.Cmd] \in Unready => pc'[server.Cmd] \in Unready)
  BY DEF Actors
<1> QED
  BY <1>1, <1>2, HandshakeUndisturbed

LEMMA StarterHandshake ==
    ASSUME Inv, Handshake, NEW r \in Runs, ClaimStart(r) \/ Starter(r) \/ ExitChild(r)
    PROVE  Handshake'
<1>0. /\ server \in ServerStruct /\ child \in [Runs -> ChildStates]
      /\ start \in [Runs -> StartSteps] /\ pc \in [Actors -> PcValues]
      /\ start[r] \in {"claimed", "spawned"} => ~server.Running
  BY DEF Inv, Typed, OneClaim, StartupReservation
<1>1. CASE ClaimStart(r) \/ FailStart(r) \/ SpawnChild(r)
  <2>1. ~server'.Running
    BY <1>0, <1>1 DEF ClaimStart, FailStart, SpawnChild, Busy, ResetFlags, ServerStruct
  <2> QED
    BY <2>1, HandshakeOver
<1>2. CASE PublishRunning(r)
  <2>1. server'.Cmd = r /\ pc'[r] = "reading"
    BY <1>0, <1>2 DEF PublishRunning, Goto, Actors, ServerStruct
  <2> QED
    BY <2>1 DEF Handshake, MarkedReady, Unready
<1>3. CASE ReleaseStartupGuards(r) \/ ExitCancelMonitor(r) \/ ExitCloseRcon(r)
  <2>1. /\ UNCHANGED <<child, pc, handle>>
        /\ server'.Running = server.Running /\ server'.Cmd = server.Cmd
        /\ server'.startupReady = server.startupReady
        /\ server'.Stopping = server.Stopping /\ server'.stopSignaled = server.stopSignaled
    BY <1>0, <1>3 DEF ReleaseStartupGuards, ExitCancelMonitor, ExitCloseRcon, ServerStruct
  <2> QED
    BY <2>1, HandshakeUndisturbed DEF Alive, Delivers, Unsignalled
<1>4. CASE ReapChild(r) \/ ExitChild(r)
  <2>1. UNCHANGED <<server, pc, handle>> /\ \A q \in Runs : Alive(q)' => Alive(q)
    BY <1>0, <1>4 DEF ReapChild, ExitChild, Alive
  <2> QED
    BY <2>1, HandshakeUndisturbed DEF Delivers, Unsignalled
<1>5. CASE ExitSetStopped(r)
  <2>1. ~server'.Running
    BY <1>0, <1>5, HelperFlags DEF ExitSetStopped
  <2> QED
    BY <2>1, HandshakeOver
<1> QED
  BY <1>1, <1>2, <1>3, <1>4, <1>5 DEF Starter

LEMMA ReaderHandshake ==
    ASSUME Inv, Handshake, ~RconMayFail, NEW r \in Runs, Reader(r)
    PROVE  Handshake'
<1>0. /\ server \in ServerStruct /\ pc \in [Actors -> PcValues] /\ r \in Actors
      /\ handle \in [Actors -> 0..MaxRuns] /\ \A c \in Clients : c \in Actors /\ c # r
  BY LifecycleConstants DEF Inv, Typed, Actors, Runs
<1>1. CASE ReadRconLine(r) \/ ReadEOF(r) \/ Dial(r) \/ DialFails(r)
  <2>1. /\ UNCHANGED <<server, child>>
        /\ pc'[r] \in Unready \/ ~Alive(r)
        /\ \A b \in Actors \ {r} : pc'[b] = pc[b] /\ handle'[b] = handle[b]
    BY <1>0, <1>1 DEF ReadRconLine, ReadEOF, Dial, DialFails, Goto, Unready
  <2>2. \A c \in Clients : Delivers(c) => Delivers(c)'
    BY <1>0, <2>1 DEF Delivers
  <2>3. server.Cmd \in Runs =>
           (pc[server.Cmd] \in Unready => pc'[server.Cmd] \in Unready \/ ~Alive(server.Cmd)')
    BY <2>1 DEF Actors, Alive
  <2> QED
    BY <2>1, <2>2, <2>3, HandshakeUndisturbed DEF Alive, Unsignalled
<1>2. CASE InstallRcon(r)
  <2>1. CASE server.Running
    <3>1. /\ UNCHANGED child /\ pc'[r] \in Unready
          /\ \A b \in Actors \ {r} : pc'[b] = pc[b] /\ handle'[b] = handle[b]
          /\ server'.Running = server.Running /\ server'.Cmd = server.Cmd
          /\ server'.startupReady = server.startupReady
          /\ server'.Stopping = server.Stopping /\ server'.stopSignaled = server.stopSignaled
      BY <1>0, <1>2, <2>1 DEF InstallRcon, Goto, Unready, ServerStruct
    <3>2. \A c \in Clients : Delivers(c) => Delivers(c)'
      BY <1>0, <3>1 DEF Delivers
    <3>3. server.Cmd \in Runs =>
             (pc[server.Cmd] \in Unready => pc'[server.Cmd] \in Unready)
      BY <3>1 DEF Actors
    <3> QED
      BY <3>1, <3>2, <3>3, HandshakeUndisturbed DEF Alive, Unsignalled
  <2>2. CASE ~server.Running
    BY <1>2, <2>2, HandshakeOver DEF InstallRcon
  <2> QED
    BY <2>1, <2>2
<1>3. CASE MarkStartupReady(r)
  <2>1. /\ server'.startupReady /\ server'.Running = server.Running /\ server'.Cmd = server.Cmd
        /\ server'.Running => ~(server'.Stopping /\ ~server'.stopSignaled)
    BY <1>0, <1>3 DEF MarkStartupReady, StopPending, ServerStruct
  <2> QED
    BY <2>1 DEF Handshake, MarkedReady, Unsignalled
<1>4. CASE StartMonitor(r)
  <2>1. /\ UNCHANGED <<server, child, handle>> /\ pc[r] = "watch"
        /\ \A b \in Actors \ {r} : pc'[b] = pc[b]
    BY <1>0, <1>4 DEF StartMonitor, Goto
  <2> QED
    BY <1>0, <2>1, HandshakeAside DEF Inv, Unready, Alive, Unsignalled
<1> QED
  BY <1>1, <1>2, <1>3, <1>4 DEF Reader, Connect

LEMMA StopperHandshake ==
    ASSUME Inv, Handshake, NEW a \in Actors, Stopper(a)
    PROVE  Handshake'
<1>0. /\ server \in ServerStruct /\ pc \in [Actors -> PcValues] /\ Typed
      /\ handle \in [Actors -> 0..MaxRuns] /\ child \in [Runs -> ChildStates]
  BY DEF Inv, Typed
<1>1. CASE CaptureProcess(a) \/ UndoCancelMonitor(a) \/ CloseRcon(a)
  <2>1. /\ UNCHANGED child /\ pc[a] \in {"checkpoint", "uncancel", "close"}
        /\ \A b \in Actors \ {a} : pc'[b] = pc[b] /\ handle'[b] = handle[b]
        /\ server'.Running = server.Running /\ server'.Cmd = server.Cmd
        /\ server'.startupReady = server.startupReady
        /\ server'.Stopping = server.Stopping /\ server'.stopSignaled = server.stopSignaled
    BY <1>0, <1>1 DEF CaptureProcess, UndoCancelMonitor, CloseRcon, Goto, ServerStruct
  <2> QED
    BY <1>0, <2>1, HandshakeAside DEF Unready, Alive, Unsignalled
<1>2. CASE SignalProcess(a)
  <2>1. /\ pc[a] = "signal"
        /\ \A b \in Actors \ {a} : pc'[b] = pc[b] /\ handle'[b] = handle[b]
        /\ \A r \in Runs : Alive(r)' => Alive(r)
    BY <1>0, <1>2 DEF SignalProcess, Goto, Alive
  <2>2. server' = server \/ server' = SetNotStopping(server)
    BY <1>2 DEF SignalProcess
  <2>3. /\ server'.Running = server.Running /\ server'.Cmd = server.Cmd
        /\ server'.startupReady = server.startupReady
        /\ server'.Stopping /\ ~server'.stopSignaled => Unsignalled
    BY <1>0, <2>2 DEF SetNotStopping, ServerStruct, Unsignalled
  <2> QED
    BY <1>0, <2>1, <2>3, HandshakeAside DEF Unready
<1>3. CASE UndoRunning(a)
  <2>1. ~server'.Running
    BY <1>0, <1>3, HelperFlags DEF UndoRunning
  <2> QED
    BY <2>1, HandshakeOver
<1> QED
  BY <1>1, <1>2, <1>3 DEF Stopper

LEMMA ClientHandshake ==
    ASSUME Inv, Handshake, NEW c \in Clients, RequestStop(c) \/ RequestKill(c) \/ Caller(c)
    PROVE  Handshake'
<1>0. /\ server \in ServerStruct /\ pc \in [Actors -> PcValues] /\ Typed /\ c \in Actors
      /\ handle \in [Actors -> 0..MaxRuns] /\ child \in [Runs -> ChildStates]
      /\ \A r \in Runs : r \in Actors /\ r # c
  BY LifecycleConstants DEF Inv, Typed, Actors, Runs
<1>1. CASE RequestStop(c)
  <2>1. /\ UNCHANGED child /\ pc'[c] = "claim"
        /\ \A r \in Runs : pc'[r] = pc[r]
        /\ server'.Running = server.Running /\ server'.Cmd = server.Cmd
        /\ server'.startupReady = server.startupReady
    BY <1>0, <1>1 DEF RequestStop, Goto, ServerStruct
  <2> QED
    BY <2>1 DEF Handshake, MarkedReady, Alive, Delivers
<1>2. CASE RequestKill(c) \/ StopCancelMonitor(c)
  <2>1. /\ UNCHANGED <<server, child, handle>> /\ pc[c] \in {"idle", "cancel"}
        /\ \A b \in Actors \ {c} : pc'[b] = pc[b]
    BY <1>0, <1>2 DEF RequestKill, StopCancelMonitor, Goto
  <2> QED
    BY <1>0, <2>1, HandshakeAside DEF Unready, Alive, Unsignalled
<1>3. CASE ClaimStopSignal(c)
  <2>1. /\ UNCHANGED child /\ \A r \in Runs : pc'[r] = pc[r]
        /\ server'.Running = server.Running /\ server'.Cmd = server.Cmd
        /\ server'.startupReady = server.startupReady
        /\ StopPending /\ server.startupReady => server'.stopSignaled
        /\ server.stopSignaled => server'.stopSignaled
        /\ server'.Stopping = server.Stopping
    BY <1>0, <1>3 DEF ClaimStopSignal, Goto, ServerStruct
  <2> QED
    BY <2>1 DEF Handshake, MarkedReady, Alive, Unsignalled, StopPending
<1>4. CASE CaptureForKill(c)
  <2>1. CASE UNCHANGED <<server, handle>> /\ Goto(c, "idle")
    <3>1. /\ UNCHANGED child /\ pc[c] = "kill" /\ \A b \in Actors \ {c} : pc'[b] = pc[b]
      BY <1>0, <1>4, <2>1 DEF CaptureForKill, Goto
    <3> QED
      BY <1>0, <2>1, <3>1, HandshakeAside DEF Unready, Alive, Unsignalled
  <2>2. CASE /\ server' = [server EXCEPT !.Stopping = TRUE]
             /\ handle' = [handle EXCEPT ![c] = server.Cmd] /\ Goto(c, "killcancel")
    <3>1. /\ UNCHANGED child /\ pc'[c] = "killcancel" /\ handle'[c] = server'.Cmd
          /\ \A r \in Runs : pc'[r] = pc[r]
          /\ server'.Running = server.Running /\ server'.Cmd = server.Cmd
          /\ server'.startupReady = server.startupReady
      BY <1>0, <1>4, <2>2 DEF CaptureForKill, Goto, ServerStruct
    <3> QED
      BY <3>1 DEF Handshake, MarkedReady, Alive, Delivers
  <2> QED
    BY <1>4, <2>1, <2>2 DEF CaptureForKill
<1>5. CASE KillCancelMonitor(c)
  <2>1. /\ UNCHANGED <<server, child, handle>> /\ pc[c] = "killcancel" /\ pc'[c] = "killing"
        /\ \A b \in Actors \ {c} : pc'[b] = pc[b]
    BY <1>0, <1>5 DEF KillCancelMonitor, Goto
  <2>2. \A d \in Clients : Delivers(d) => Delivers(d)'
    BY <2>1 DEF Delivers, Actors
  <2> QED
    BY <1>0, <2>1, <2>2, HandshakeUndisturbed DEF Alive, Unsignalled
<1>6. CASE KillProcess(c)
  <2>1. /\ pc[c] = "killing" /\ \A r \in Runs : Alive(r)' => Alive(r)
        /\ \A b \in Actors \ {c} : pc'[b] = pc[b] /\ handle'[b] = handle[b]
    BY <1>0, <1>6 DEF KillProcess, Goto, Alive
  <2>2. CASE child[handle[c]] = "reaped"
    <3>1. server' = SetNotStopping(server) /\ UNCHANGED child
      BY <1>6, <2>2 DEF KillProcess
    <3>2. /\ server'.Running = server.Running /\ server'.Cmd = server.Cmd
          /\ server'.startupReady = server.startupReady /\ ~server'.Stopping
      BY <1>0, <3>1 DEF SetNotStopping, ServerStruct
    <3> QED
      BY <1>0, <2>1, <3>1, <3>2 DEF Handshake, MarkedReady, Alive, Unsignalled
  <2>3. CASE child[handle[c]] # "reaped"
    <3>1. server' = server /\ child' = [child EXCEPT ![handle[c]] = "zombie"]
      BY <1>6, <2>3 DEF KillProcess
    <3>2. CASE handle[c] = server.Cmd
      <4>1. server.Cmd \in Runs => ~Alive(server.Cmd)'
        BY <1>0, <3>1, <3>2 DEF Alive
      <4> QED
        BY <3>1, <4>1 DEF Handshake, MarkedReady
    <3>3. CASE handle[c] # server.Cmd
      <4>1. \A d \in Clients : Delivers(d) => Delivers(d)'
        BY <2>1, <3>1, <3>3 DEF Delivers, Actors
      <4> QED
        BY <1>0, <2>1, <3>1, <4>1, HandshakeUndisturbed DEF Unsignalled
    <3> QED
      BY <3>2, <3>3
  <2> QED
    BY <2>2, <2>3
<1> QED
  BY <1>1, <1>2, <1>3, <1>4, <1>5, <1>6 DEF Caller

LEMMA HandshakeStep ==
    ASSUME Inv, Handshake, ~RconMayFail, [Next]_vars
    PROVE  Handshake'
<1>1. CASE Environment \/ UNCHANGED vars
  <2>1. CASE ReloadServer
    <3>1. ~server'.Running
      BY <2>1 DEF ReloadServer, Busy, ResetFlags, Inv, Typed, ServerStruct
    <3> QED
      BY <3>1, HandshakeOver
  <2>2. CASE UNCHANGED <<server, child, pc, handle>>
    BY <2>2 DEF Handshake, MarkedReady, Unsignalled, Delivers, Alive
  <2> QED
    BY <1>1, <2>1, <2>2
       DEF Environment, BeginCommand, EndCommand, BeginGeneration, EndGeneration, BeginSwitch,
           BeginInstall, EndInstall, EndSwitch, vars
<1> QED
  BY <1>1, StarterHandshake, ReaderHandshake, StopperHandshake, ClientHandshake DEF Next

\* When RCON connects to a living child, no stop that was accepted for it gets lost between
\* its request, the readiness of the run and a force stop (server.go:188).
THEOREM StopKept == ASSUME ~RconMayFail PROVE Spec => []StopNeverLost
<1>1. Init => Handshake
  BY DEF Init, Handshake, MarkedReady
<1>2. Inv /\ Handshake /\ [Next]_vars => Handshake'
  BY HandshakeStep
<1>3. Handshake => StopNeverLost
  BY DEF Handshake, MarkedReady, Unsignalled, Delivers, Unready, StopNeverLost
<1> QED
  BY <1>1, <1>2, <1>3, Inductive, PTL DEF Spec

-----------------------------------------------------------------------------
(* Runs that follow one another: what serves the current run is its own.   *)

\* The run is under way: its start, or the reader of its output.
Engaged(r) == start[r] \notin {"unused", "over"} \/ pc[r] \notin {"idle", "done"}
Alone == \A q, r \in Runs : Engaged(q) /\ Engaged(r) => q = r

\* Where the child of a run, its reader and the server are at each step of its start.
Stages ==
    \A r \in Runs :
        /\ start[r] \in {"unused", "claimed", "failed"} => child[r] = "none" /\ pc[r] = "idle"
        /\ start[r] = "spawned" => child[r] \in {"live", "zombie"} /\ pc[r] = "idle"
        /\ start[r] \in {"published", "waiting"} =>
              /\ child[r] \in {"live", "interrupted", "zombie"}
              /\ server.Running /\ server.Cmd = r
        /\ start[r] \in {"exited", "closed", "cancelling"} => child[r] = "reaped"
        /\ start[r] = "cancelling" => ~server.Running
        /\ start[r] = "over" => child[r] = "reaped" \/ (child[r] = "none" /\ pc[r] = "idle")

\* The published process.
Current ==
    /\ server.Running => /\ server.Cmd \in Runs /\ ~generating
                         /\ start[server.Cmd] \in {"published", "waiting", "exited", "closed"}
    /\ server.Cmd \in Runs => child[server.Cmd] # "none"

\* A start begins when all that served the previous run has come to its end.
Begun ==
    (\E r \in Runs : start[r] \in {"claimed", "spawned"}) =>
        ~server.startupReady /\ \A a \in Actors : pc[a] \in {"idle", "claim", "done"}

\* Who signals the process, and who stops it, holds the published one.
Signalling == {"cancel", "checkpoint", "signal"}
Ending ==
    \A a \in Actors :
        /\ pc[a] \in Signalling \cup {"undo", "uncancel", "close", "killcancel", "killing"} =>
              server.Cmd \in Runs
        /\ pc[a] \in {"signal", "killcancel", "killing"} => handle[a] = server.Cmd
        /\ pc[a] = "undo" => child[server.Cmd] = "reaped"
        /\ pc[a] = "uncancel" => ~server.Running
        /\ pc[a] = "close" => child[server.Cmd] # "live"
        /\ pc[a] = "killcancel" /\ Alive(server.Cmd) => server.Stopping
        /\ pc[a] \in Signalling /\ Alive(server.Cmd) =>
              server.Stopping /\ server.stopSignaled /\ child[server.Cmd] = "live"
OneSignal ==
    server.Cmd \in Runs /\ Alive(server.Cmd) =>
        /\ child[server.Cmd] = "interrupted" => server.stopSignaled
        /\ \A a, b \in Actors : pc[a] \in Signalling /\ pc[b] \in Signalling => a = b

\* The console is that of the published child until somebody ends the child.
Console ==
    /\ \A r \in Runs : /\ pc[r] = "install" => handle[r] = r
                       /\ pc[r] = "mark" /\ server.Running /\ child[server.Cmd] = "live" =>
                             server.Rcon = server.Cmd
    /\ server.Running /\ server.startupReady => pc[server.Cmd] \notin {"idle"} \cup Unready

SeqInv == /\ Inv /\ Alone /\ Stages /\ Current /\ Begun /\ Ending /\ OneSignal /\ Console
          /\ ReadyHasConsole /\ MonitorScheduled

\* A step of the lifecycle is a step, or no step, of what it promises.
Promised == [Promise!Next]_(Promise!vars)

\* The types of what the steps change, and who the actors are.
LEMMA Labels ==
    ASSUME SeqInv
    PROVE  /\ server \in ServerStruct /\ start \in [Runs -> StartSteps]
           /\ child \in [Runs -> ChildStates] /\ pc \in [Actors -> PcValues]
           /\ handle \in [Actors -> 0..MaxRuns] /\ Runs \subseteq Actors /\ Clients \subseteq Actors
           /\ Nobody \notin Runs /\ \A c \in Clients : c \notin Runs
           /\ \A n \in 0..MaxRuns : n \in Runs \/ n = Nobody
           /\ server.Cmd \in 0..MaxRuns /\ server.Stopping \in BOOLEAN
BY LifecycleConstants DEF SeqInv, Inv, Typed, Actors, Runs, Nobody, ServerStruct

\* A living child belongs to the startup under way or is the published process.
LEMMA AliveRuns ==
    ASSUME SeqInv, NEW r \in Runs, Alive(r)
    PROVE  server.starting \/ (server.Running /\ server.Cmd = r)
BY Labels DEF SeqInv, Inv, StartupReservation, Stages, Alive, StartSteps

(* One lemma per action: what it changes, and from that the invariant and the promise. *)
USE DEF SeqInv, Inv, OneClaim, StartupReservation, StoppingNeedsRun, Alone, Stages,
        Current, Begun, Ending, OneSignal, Console, ReadyHasConsole, MonitorScheduled,
        Engaged, Signalling, Alive, Unready, Return, StopPending, Promised, Phase,
        Promise!Next, Promise!vars, Promise!Begin, Promise!Abort, Promise!Serve,
        Promise!Ask, Promise!Interrupt, Promise!Die, Promise!Withdraw, Promise!Report

LEMMA SeqClaimStart ==
    ASSUME SeqInv, Inv', NEW r \in Runs, ClaimStart(r), ~Overlap
    PROVE  SeqInv' /\ Promised
<1> USE Labels, AliveRuns
<1>1. /\ server'.starting /\ ~server'.Running /\ server'.Stopping = FALSE
      /\ ~server'.startupReady /\ ~server'.stopSignaled /\ server'.Cmd = server.Cmd
      /\ server'.Rcon = server.Rcon /\ ~server.Running /\ start[r] = "unused"
      /\ start' = [start EXCEPT ![r] = "claimed"]
      /\ UNCHANGED <<child, pc, handle, generating, monitor>> /\ Quiet
      /\ LifecycleFree /\ guards = {}
  BY DEF ClaimStart, ResetFlags, Busy, WorldGenFree, ServerStruct
<1>2. \A q \in Runs : ~Engaged(q)
  BY <1>1 DEF StartSteps, Quiet
<1>3. \A a \in Actors : pc[a] \in {"idle", "done"}
  BY <1>1, <1>2 DEF Quiet, Actors
<1>4. Alone' /\ Stages' /\ Current' /\ Begun'
  BY <1>1, <1>2, <1>3
<1>5. Ending' /\ OneSignal'
  BY <1>1, <1>2, <1>3
<1>6. Console' /\ ReadyHasConsole' /\ MonitorScheduled'
  BY <1>1, <1>2, <1>3
<1>7. Promised
  BY <1>1
<1> QED
  BY <1>4, <1>5, <1>6, <1>7

LEMMA SeqFailStart ==
    ASSUME SeqInv, Inv', NEW r \in Runs, FailStart(r)
    PROVE  SeqInv' /\ Promised
<1> USE Labels, AliveRuns
<1>1. /\ ~server'.starting /\ server'.Stopping = FALSE /\ ~server'.startupReady
      /\ ~server'.stopSignaled /\ server'.Running = server.Running
      /\ server'.Cmd = server.Cmd /\ server'.Rcon = server.Rcon
      /\ start[r] = "claimed" /\ start' = [start EXCEPT ![r] = "failed"]
      /\ UNCHANGED <<child, pc, handle, generating, monitor>>
  BY DEF FailStart, ResetFlags, ServerStruct
<1>2. Alone' /\ Stages' /\ Current' /\ Begun'
  BY <1>1
<1>3. Ending' /\ OneSignal'
  BY <1>1
<1>4. Console' /\ ReadyHasConsole' /\ MonitorScheduled'
  BY <1>1
<1>5. Promised
  BY <1>1
<1> QED
  BY <1>2, <1>3, <1>4, <1>5

LEMMA SeqSpawnChild ==
    ASSUME SeqInv, Inv', NEW r \in Runs, SpawnChild(r)
    PROVE  SeqInv' /\ Promised
<1> USE Labels, AliveRuns
<1>1. /\ server' = server /\ start[r] = "claimed"
      /\ start' = [start EXCEPT ![r] = "spawned"]
      /\ child' = [child EXCEPT ![r] = "live"]
      /\ UNCHANGED <<pc, handle, generating, monitor>>
  BY DEF SpawnChild, ServerStruct
<1>2. Alone' /\ Stages' /\ Current' /\ Begun'
  BY <1>1
<1>3. Ending' /\ OneSignal'
  BY <1>1
<1>4. Console' /\ ReadyHasConsole' /\ MonitorScheduled'
  BY <1>1
<1>5. Promised
  BY <1>1
<1> QED
  BY <1>2, <1>3, <1>4, <1>5

LEMMA SeqPublishRunning ==
    ASSUME SeqInv, Inv', NEW r \in Runs, PublishRunning(r)
    PROVE  SeqInv' /\ Promised
<1> USE Labels, AliveRuns
<1>1. /\ server'.Cmd = r /\ server'.Running /\ ~server'.starting
      /\ server'.Stopping = server.Stopping
      /\ server'.startupReady = server.startupReady
      /\ server'.stopSignaled = server.stopSignaled /\ server'.Rcon = server.Rcon
      /\ start[r] = "spawned" /\ start' = [start EXCEPT ![r] = "published"]
      /\ pc' = [pc EXCEPT ![r] = "reading"]
      /\ UNCHANGED <<child, handle, generating, monitor>>
  BY DEF PublishRunning, Goto, ServerStruct
<1>2. Alone' /\ Stages' /\ Current' /\ Begun'
  BY <1>1
<1>3. Ending' /\ OneSignal'
  BY <1>1
<1>4. Console' /\ ReadyHasConsole' /\ MonitorScheduled'
  BY <1>1
<1>5. Promised
  BY <1>1
<1> QED
  BY <1>2, <1>3, <1>4, <1>5

LEMMA SeqReleaseStartupGuards ==
    ASSUME SeqInv, Inv', NEW r \in Runs, ReleaseStartupGuards(r)
    PROVE  SeqInv' /\ Promised
<1> USE Labels, AliveRuns
<1>1. /\ server' = server
      /\ \/ start[r] = "published" /\ start' = [start EXCEPT ![r] = "waiting"]
         \/ start[r] = "failed" /\ start' = [start EXCEPT ![r] = "over"]
      /\ UNCHANGED <<child, pc, handle, generating, monitor>>
  BY DEF ReleaseStartupGuards, ServerStruct
<1>2. Alone' /\ Stages' /\ Current' /\ Begun'
  BY <1>1
<1>3. Ending' /\ OneSignal'
  BY <1>1
<1>4. Console' /\ ReadyHasConsole' /\ MonitorScheduled'
  BY <1>1
<1>5. Promised
  BY <1>1
<1> QED
  BY <1>2, <1>3, <1>4, <1>5

LEMMA SeqReapChild ==
    ASSUME SeqInv, Inv', NEW r \in Runs, ReapChild(r)
    PROVE  SeqInv' /\ Promised
<1> USE Labels, AliveRuns
<1>1. /\ server' = server /\ start[r] = "waiting" /\ child[r] = "zombie"
      /\ child' = [child EXCEPT ![r] = "reaped"]
      /\ start' = [start EXCEPT ![r] = "exited"]
      /\ UNCHANGED <<pc, handle, generating, monitor>>
  BY DEF ReapChild, ServerStruct
<1>2. Alone' /\ Stages' /\ Current' /\ Begun'
  BY <1>1
<1>3. Ending' /\ OneSignal'
  BY <1>1
<1>4. Console' /\ ReadyHasConsole' /\ MonitorScheduled'
  BY <1>1
<1>5. Promised
  BY <1>1
<1> QED
  BY <1>2, <1>3, <1>4, <1>5

LEMMA SeqExitCloseRcon ==
    ASSUME SeqInv, Inv', NEW r \in Runs, ExitCloseRcon(r)
    PROVE  SeqInv' /\ Promised
<1> USE Labels, AliveRuns
<1>1. /\ server'.Rcon = Nobody /\ server'.Running = server.Running
      /\ server'.Stopping = server.Stopping /\ server'.starting = server.starting
      /\ server'.startupReady = server.startupReady
      /\ server'.stopSignaled = server.stopSignaled /\ server'.Cmd = server.Cmd
      /\ start[r] = "exited" /\ start' = [start EXCEPT ![r] = "closed"]
      /\ UNCHANGED <<child, pc, handle, generating, monitor>>
  BY DEF ExitCloseRcon, ServerStruct
<1>2. Alone' /\ Stages' /\ Current' /\ Begun'
  BY <1>1
<1>3. Ending' /\ OneSignal'
  BY <1>1
<1>4. Console' /\ ReadyHasConsole' /\ MonitorScheduled'
  BY <1>1
<1>5. Promised
  BY <1>1
<1> QED
  BY <1>2, <1>3, <1>4, <1>5

LEMMA SeqExitSetStopped ==
    ASSUME SeqInv, Inv', NEW r \in Runs, ExitSetStopped(r)
    PROVE  SeqInv' /\ Promised
<1> USE Labels, AliveRuns
<1>1. /\ ~server'.Running /\ server'.Cmd = server.Cmd /\ start[r] = "closed"
      /\ (server.Running => server'.Stopping = FALSE /\ server'.starting = FALSE)
      /\ (~server.Running => server' = server) /\ start'[r] \in {"cancelling", "over"}
      /\ (\A q \in Runs \ {r} : start'[q] = start[q])
      /\ UNCHANGED <<child, pc, handle, generating, monitor>>
  BY DEF ExitSetStopped, SetStopped, ResetFlags, ServerStruct
<1>2. Alone' /\ Stages' /\ Current' /\ Begun'
  BY <1>1
<1>3. Ending' /\ OneSignal'
  BY <1>1
<1>4. Console' /\ ReadyHasConsole' /\ MonitorScheduled'
  BY <1>1
<1>5. Promised
  BY <1>1
<1> QED
  BY <1>2, <1>3, <1>4, <1>5

LEMMA SeqExitCancelMonitor ==
    ASSUME SeqInv, Inv', NEW r \in Runs, ExitCancelMonitor(r)
    PROVE  SeqInv' /\ Promised
<1> USE Labels, AliveRuns
<1>1. /\ server' = server /\ start[r] = "cancelling"
      /\ start' = [start EXCEPT ![r] = "over"]
      /\ UNCHANGED <<child, pc, handle, generating>>
  BY DEF ExitCancelMonitor, ServerStruct
<1>2. Alone' /\ Stages' /\ Current' /\ Begun'
  BY <1>1
<1>3. Ending' /\ OneSignal'
  BY <1>1
<1>4. Console' /\ ReadyHasConsole' /\ MonitorScheduled'
  BY <1>1
<1>5. Promised
  BY <1>1
<1> QED
  BY <1>2, <1>3, <1>4, <1>5

LEMMA SeqExitChild ==
    ASSUME SeqInv, Inv', NEW r \in Runs, ExitChild(r)
    PROVE  SeqInv' /\ Promised
<1> USE Labels, AliveRuns
<1>1. /\ server' = server /\ Alive(r) /\ child' = [child EXCEPT ![r] = "zombie"]
      /\ UNCHANGED <<start, pc, handle, generating, monitor>>
  BY DEF ExitChild, ServerStruct
<1>2. Alone' /\ Stages' /\ Current' /\ Begun'
  BY <1>1
<1>3. Ending' /\ OneSignal'
  BY <1>1
<1>4. Console' /\ ReadyHasConsole' /\ MonitorScheduled'
  BY <1>1
<1>5. Promised
  BY <1>1
<1> QED
  BY <1>2, <1>3, <1>4, <1>5

LEMMA SeqReadRconLine ==
    ASSUME SeqInv, Inv', NEW r \in Runs, ReadRconLine(r)
    PROVE  SeqInv' /\ Promised
<1> USE Labels, AliveRuns
<1>1. /\ server' = server /\ pc[r] = "reading" /\ pc' = [pc EXCEPT ![r] = "dial"]
      /\ UNCHANGED <<start, child, handle, generating, monitor>>
  BY DEF ReadRconLine, Goto, ServerStruct
<1>2. Alone' /\ Stages' /\ Current' /\ Begun'
  BY <1>1
<1>3. Ending' /\ OneSignal'
  BY <1>1
<1>4. Console' /\ ReadyHasConsole' /\ MonitorScheduled'
  BY <1>1
<1>5. Promised
  BY <1>1
<1> QED
  BY <1>2, <1>3, <1>4, <1>5

LEMMA SeqReadEOF ==
    ASSUME SeqInv, Inv', NEW r \in Runs, ReadEOF(r)
    PROVE  SeqInv' /\ Promised
<1> USE Labels, AliveRuns
<1>1. /\ server' = server /\ pc[r] = "reading" /\ pc' = [pc EXCEPT ![r] = "done"]
      /\ UNCHANGED <<start, child, handle, generating, monitor>>
  BY DEF ReadEOF, Goto, ServerStruct
<1>2. Alone' /\ Stages' /\ Current' /\ Begun'
  BY <1>1
<1>3. Ending' /\ OneSignal'
  BY <1>1
<1>4. Console' /\ ReadyHasConsole' /\ MonitorScheduled'
  BY <1>1
<1>5. Promised
  BY <1>1
<1> QED
  BY <1>2, <1>3, <1>4, <1>5

LEMMA SeqDial ==
    ASSUME SeqInv, Inv', NEW r \in Runs, Dial(r)
    PROVE  SeqInv' /\ Promised
<1> USE Labels, AliveRuns
<1>1. /\ server' = server /\ pc[r] = "dial"
      /\ (\E q \in Runs : Alive(q) /\ handle' = [handle EXCEPT ![r] = q])
      /\ pc' = [pc EXCEPT ![r] = "install"]
      /\ UNCHANGED <<start, child, generating, monitor>>
  BY DEF Dial, Goto, ServerStruct
<1>2. Alone' /\ Stages' /\ Current' /\ Begun'
  BY <1>1
<1>3. Ending' /\ OneSignal'
  BY <1>1
<1>4. Console' /\ ReadyHasConsole' /\ MonitorScheduled'
  BY <1>1
<1>5. Promised
  BY <1>1
<1> QED
  BY <1>2, <1>3, <1>4, <1>5

LEMMA SeqDialFails ==
    ASSUME SeqInv, Inv', NEW r \in Runs, DialFails(r)
    PROVE  SeqInv' /\ Promised
<1> USE Labels, AliveRuns
<1>1. /\ server' = server /\ pc[r] = "dial" /\ pc' = [pc EXCEPT ![r] = "done"]
      /\ UNCHANGED <<start, child, handle, generating, monitor>>
  BY DEF DialFails, Goto, ServerStruct
<1>2. Alone' /\ Stages' /\ Current' /\ Begun'
  BY <1>1
<1>3. Ending' /\ OneSignal'
  BY <1>1
<1>4. Console' /\ ReadyHasConsole' /\ MonitorScheduled'
  BY <1>1
<1>5. Promised
  BY <1>1
<1> QED
  BY <1>2, <1>3, <1>4, <1>5

LEMMA SeqInstallRcon ==
    ASSUME SeqInv, Inv', NEW r \in Runs, InstallRcon(r)
    PROVE  SeqInv' /\ Promised
<1> USE Labels, AliveRuns
<1>1. /\ server'.Running = server.Running /\ server'.Stopping = server.Stopping
      /\ server'.starting = server.starting
      /\ server'.startupReady = server.startupReady
      /\ server'.stopSignaled = server.stopSignaled /\ server'.Cmd = server.Cmd
      /\ pc[r] = "install" /\ handle' = [handle EXCEPT ![r] = Nobody]
      /\ \/ server.Running /\ server'.Rcon = handle[r] /\ pc' = [pc EXCEPT ![r] = "mark"]
         \/ ~server.Running /\ pc' = [pc EXCEPT ![r] = "done"]
      /\ UNCHANGED <<start, child, generating, monitor>>
  BY DEF InstallRcon, Goto, ServerStruct
<1>2. Alone' /\ Stages' /\ Current' /\ Begun'
  BY <1>1
<1>3. Ending' /\ OneSignal'
  BY <1>1
<1>4. Console' /\ ReadyHasConsole' /\ MonitorScheduled'
  BY <1>1
<1>5. Promised
  BY <1>1
<1> QED
  BY <1>2, <1>3, <1>4, <1>5

LEMMA SeqMarkStartupReady ==
    ASSUME SeqInv, Inv', NEW r \in Runs, MarkStartupReady(r)
    PROVE  SeqInv' /\ Promised
<1> USE Labels, AliveRuns
<1>1. /\ server'.startupReady /\ server'.Running = server.Running
      /\ server'.Stopping = server.Stopping /\ server'.starting = server.starting
      /\ server'.Cmd = server.Cmd /\ server'.Rcon = server.Rcon /\ pc[r] = "mark"
      /\ \/ StopPending /\ server'.stopSignaled /\ pc' = [pc EXCEPT ![r] = "checkpoint"]
         \/ /\ server'.stopSignaled = server.stopSignaled
            /\ pc' = [pc EXCEPT ![r] = "watch"]
      /\ UNCHANGED <<start, child, handle, generating, monitor>>
  BY DEF MarkStartupReady, Goto, ServerStruct
<1>2. Alone' /\ Stages' /\ Current' /\ Begun'
  BY <1>1
<1>3. Ending' /\ OneSignal'
  BY <1>1
<1>4. Console' /\ ReadyHasConsole' /\ MonitorScheduled'
  BY <1>1
<1>5. Promised
  BY <1>1
<1> QED
  BY <1>2, <1>3, <1>4, <1>5

LEMMA SeqStartMonitor ==
    ASSUME SeqInv, Inv', NEW r \in Runs, StartMonitor(r)
    PROVE  SeqInv' /\ Promised
<1> USE Labels, AliveRuns
<1>1. /\ server' = server /\ pc[r] = "watch" /\ monitor' = r
      /\ pc' = [pc EXCEPT ![r] = "done"]
      /\ UNCHANGED <<start, child, handle, generating>>
  BY DEF StartMonitor, Goto, ServerStruct
<1>2. Alone' /\ Stages' /\ Current' /\ Begun'
  BY <1>1
<1>3. Ending' /\ OneSignal'
  BY <1>1
<1>4. Console' /\ ReadyHasConsole' /\ MonitorScheduled'
  BY <1>1
<1>5. Promised
  BY <1>1
<1> QED
  BY <1>2, <1>3, <1>4, <1>5

LEMMA SeqRequestStop ==
    ASSUME SeqInv, Inv', NEW c \in Clients, RequestStop(c)
    PROVE  SeqInv' /\ Promised
<1> USE Labels, AliveRuns
<1>1. /\ (server.Running \/ server.starting) /\ server'.Stopping
      /\ server'.Running = server.Running /\ server'.starting = server.starting
      /\ server'.startupReady = server.startupReady
      /\ server'.stopSignaled = server.stopSignaled /\ server'.Cmd = server.Cmd
      /\ server'.Rcon = server.Rcon /\ pc[c] = "idle"
      /\ pc' = [pc EXCEPT ![c] = "claim"]
      /\ UNCHANGED <<start, child, handle, generating, monitor>>
  BY DEF RequestStop, Goto, ServerStruct
<1>2. Alone' /\ Stages' /\ Current' /\ Begun'
  BY <1>1
<1>3. Ending' /\ OneSignal'
  BY <1>1
<1>4. Console' /\ ReadyHasConsole' /\ MonitorScheduled'
  BY <1>1
<1>5. Promised
  BY <1>1
<1> QED
  BY <1>2, <1>3, <1>4, <1>5

LEMMA SeqClaimStopSignal ==
    ASSUME SeqInv, Inv', NEW c \in Clients, ClaimStopSignal(c)
    PROVE  SeqInv' /\ Promised
<1> USE Labels, AliveRuns
<1>1. /\ server'.Running = server.Running /\ server'.Stopping = server.Stopping
      /\ server'.starting = server.starting
      /\ server'.startupReady = server.startupReady /\ server'.Cmd = server.Cmd
      /\ server'.Rcon = server.Rcon /\ pc[c] = "claim"
      /\ \/ /\ StopPending /\ server.startupReady /\ server'.stopSignaled
            /\ pc' = [pc EXCEPT ![c] = "cancel"]
         \/ server'.stopSignaled = server.stopSignaled /\ pc' = [pc EXCEPT ![c] = "idle"]
      /\ UNCHANGED <<start, child, handle, generating, monitor>>
  BY DEF ClaimStopSignal, Goto, ServerStruct
<1>2. Alone' /\ Stages' /\ Current' /\ Begun'
  BY <1>1
<1>3. Ending' /\ OneSignal'
  BY <1>1
<1>4. Console' /\ ReadyHasConsole' /\ MonitorScheduled'
  BY <1>1
<1>5. Promised
  BY <1>1
<1> QED
  BY <1>2, <1>3, <1>4, <1>5

LEMMA SeqStopCancelMonitor ==
    ASSUME SeqInv, Inv', NEW c \in Clients, StopCancelMonitor(c)
    PROVE  SeqInv' /\ Promised
<1> USE Labels, AliveRuns
<1>1. /\ server' = server /\ pc[c] = "cancel" /\ pc' = [pc EXCEPT ![c] = "checkpoint"]
      /\ UNCHANGED <<start, child, handle, generating>>
  BY DEF StopCancelMonitor, Goto, ServerStruct
<1>2. Alone' /\ Stages' /\ Current' /\ Begun'
  BY <1>1
<1>3. Ending' /\ OneSignal'
  BY <1>1
<1>4. Console' /\ ReadyHasConsole' /\ MonitorScheduled'
  BY <1>1
<1>5. Promised
  BY <1>1
<1> QED
  BY <1>2, <1>3, <1>4, <1>5

LEMMA SeqCaptureProcess ==
    ASSUME SeqInv, Inv', NEW a \in Actors, CaptureProcess(a)
    PROVE  SeqInv' /\ Promised
<1> USE Labels, AliveRuns
<1>1. /\ server' = server /\ pc[a] = "checkpoint"
      /\ handle' = [handle EXCEPT ![a] = server.Cmd]
      /\ pc' = [pc EXCEPT ![a] = "signal"]
      /\ UNCHANGED <<start, child, generating, monitor>>
  BY DEF CaptureProcess, Goto, ServerStruct
<1>2. Alone' /\ Stages' /\ Current' /\ Begun'
  BY <1>1
<1>3. Ending' /\ OneSignal'
  BY <1>1
<1>4. Console' /\ ReadyHasConsole' /\ MonitorScheduled'
  BY <1>1
<1>5. Promised
  BY <1>1
<1> QED
  BY <1>2, <1>3, <1>4, <1>5

LEMMA SeqSignalProcess ==
    ASSUME SeqInv, Inv', NEW a \in Actors, SignalProcess(a)
    PROVE  SeqInv' /\ Promised
<1> USE Labels, AliveRuns
<1> HIDE DEF SeqInv, Inv
<1>1. /\ server'.Running = server.Running /\ server'.starting = server.starting
      /\ server'.startupReady = server.startupReady /\ server'.Cmd = server.Cmd
      /\ server'.Rcon = server.Rcon /\ pc[a] = "signal"
      /\ handle' = [handle EXCEPT ![a] = Nobody]
      /\ \/ /\ child[handle[a]] = "reaped" /\ UNCHANGED child /\ server'.Stopping = FALSE
            /\ (~server.Stopping => server' = server) /\ pc' = [pc EXCEPT ![a] = "undo"]
         \/ /\ child[handle[a]] # "reaped" /\ server' = server
            /\ child' = [child EXCEPT ![handle[a]] = IF @ = "live" THEN "interrupted" ELSE @]
            /\ pc' = [pc EXCEPT ![a] = "close"]
      /\ UNCHANGED <<start, generating, monitor>>
  BY DEF SignalProcess, SetNotStopping, Goto, ServerStruct
<1> USE DEF SeqInv, Inv
<1>2. Alone' /\ Stages' /\ Current' /\ Begun'
  BY <1>1
<1>3. Ending' /\ OneSignal'
  BY <1>1
<1>4. Console' /\ ReadyHasConsole' /\ MonitorScheduled'
  BY <1>1
<1>5. Promised
  BY <1>1
<1> QED
  BY <1>2, <1>3, <1>4, <1>5

LEMMA SeqUndoRunning ==
    ASSUME SeqInv, Inv', NEW a \in Actors, UndoRunning(a)
    PROVE  SeqInv' /\ Promised
<1> USE Labels, AliveRuns
<1>1. /\ ~server'.Running /\ server'.Cmd = server.Cmd
      /\ (server.Running => server'.Stopping = FALSE /\ server'.starting = FALSE)
      /\ (~server.Running => server' = server) /\ pc[a] = "undo"
      /\ pc'[a] \in {"uncancel", Return(a)}
      /\ (\A b \in Actors \ {a} : pc'[b] = pc[b])
      /\ UNCHANGED <<start, child, handle, generating, monitor>>
  BY DEF UndoRunning, SetStopped, ResetFlags, Goto, ServerStruct
<1>2. Alone' /\ Stages' /\ Current' /\ Begun'
  BY <1>1
<1>3. Ending' /\ OneSignal'
  BY <1>1
<1>4. Console' /\ ReadyHasConsole' /\ MonitorScheduled'
  BY <1>1
<1>5. Promised
  BY <1>1
<1> QED
  BY <1>2, <1>3, <1>4, <1>5

LEMMA SeqUndoCancelMonitor ==
    ASSUME SeqInv, Inv', NEW a \in Actors, UndoCancelMonitor(a)
    PROVE  SeqInv' /\ Promised
<1> USE Labels, AliveRuns
<1>1. /\ server' = server /\ pc[a] = "uncancel" /\ pc' = [pc EXCEPT ![a] = Return(a)]
      /\ UNCHANGED <<start, child, handle, generating>>
  BY DEF UndoCancelMonitor, Goto, ServerStruct
<1>2. Alone' /\ Stages' /\ Current' /\ Begun'
  BY <1>1
<1>3. Ending' /\ OneSignal'
  BY <1>1
<1>4. Console' /\ ReadyHasConsole' /\ MonitorScheduled'
  BY <1>1
<1>5. Promised
  BY <1>1
<1> QED
  BY <1>2, <1>3, <1>4, <1>5

LEMMA SeqCloseRcon ==
    ASSUME SeqInv, Inv', NEW a \in Actors, CloseRcon(a)
    PROVE  SeqInv' /\ Promised
<1> USE Labels, AliveRuns
<1>1. /\ server'.Rcon = Nobody /\ server'.Running = server.Running
      /\ server'.Stopping = server.Stopping /\ server'.starting = server.starting
      /\ server'.startupReady = server.startupReady
      /\ server'.stopSignaled = server.stopSignaled /\ server'.Cmd = server.Cmd
      /\ pc[a] = "close" /\ pc' = [pc EXCEPT ![a] = Return(a)]
      /\ UNCHANGED <<start, child, handle, generating, monitor>>
  BY DEF CloseRcon, Goto, ServerStruct
<1>2. Alone' /\ Stages' /\ Current' /\ Begun'
  BY <1>1
<1>3. Ending' /\ OneSignal'
  BY <1>1
<1>4. Console' /\ ReadyHasConsole' /\ MonitorScheduled'
  BY <1>1
<1>5. Promised
  BY <1>1
<1> QED
  BY <1>2, <1>3, <1>4, <1>5

LEMMA SeqRequestKill ==
    ASSUME SeqInv, Inv', NEW c \in Clients, RequestKill(c)
    PROVE  SeqInv' /\ Promised
<1> USE Labels, AliveRuns
<1>1. /\ server' = server /\ pc[c] = "idle" /\ server.Running
      /\ pc' = [pc EXCEPT ![c] = "kill"]
      /\ UNCHANGED <<start, child, handle, generating, monitor>>
  BY DEF RequestKill, Goto, ServerStruct
<1>2. Alone' /\ Stages' /\ Current' /\ Begun'
  BY <1>1
<1>3. Ending' /\ OneSignal'
  BY <1>1
<1>4. Console' /\ ReadyHasConsole' /\ MonitorScheduled'
  BY <1>1
<1>5. Promised
  BY <1>1
<1> QED
  BY <1>2, <1>3, <1>4, <1>5

LEMMA SeqCaptureForKill ==
    ASSUME SeqInv, Inv', NEW c \in Clients, CaptureForKill(c)
    PROVE  SeqInv' /\ Promised
<1> USE Labels, AliveRuns
<1>1. /\ server'.Running = server.Running /\ server'.starting = server.starting
      /\ server'.startupReady = server.startupReady
      /\ server'.stopSignaled = server.stopSignaled /\ server'.Cmd = server.Cmd
      /\ server'.Rcon = server.Rcon /\ pc[c] = "kill"
      /\ \/ server' = server /\ handle' = handle /\ pc' = [pc EXCEPT ![c] = "idle"]
         \/ /\ server'.Stopping /\ server.Cmd # Nobody
            /\ handle' = [handle EXCEPT ![c] = server.Cmd]
            /\ pc' = [pc EXCEPT ![c] = "killcancel"]
      /\ UNCHANGED <<start, child, generating, monitor>>
  BY DEF CaptureForKill, Goto, ServerStruct
<1>2. Alone' /\ Stages' /\ Current' /\ Begun'
  BY <1>1
<1>3. Ending' /\ OneSignal'
  BY <1>1
<1>4. Console' /\ ReadyHasConsole' /\ MonitorScheduled'
  BY <1>1
<1>5. Promised
  BY <1>1
<1> QED
  BY <1>2, <1>3, <1>4, <1>5

LEMMA SeqKillCancelMonitor ==
    ASSUME SeqInv, Inv', NEW c \in Clients, KillCancelMonitor(c)
    PROVE  SeqInv' /\ Promised
<1> USE Labels, AliveRuns
<1>1. /\ server' = server /\ pc[c] = "killcancel"
      /\ pc' = [pc EXCEPT ![c] = "killing"]
      /\ UNCHANGED <<start, child, handle, generating>>
  BY DEF KillCancelMonitor, Goto, ServerStruct
<1>2. Alone' /\ Stages' /\ Current' /\ Begun'
  BY <1>1
<1>3. Ending' /\ OneSignal'
  BY <1>1
<1>4. Console' /\ ReadyHasConsole' /\ MonitorScheduled'
  BY <1>1
<1>5. Promised
  BY <1>1
<1> QED
  BY <1>2, <1>3, <1>4, <1>5

LEMMA SeqKillProcess ==
    ASSUME SeqInv, Inv', NEW c \in Clients, KillProcess(c)
    PROVE  SeqInv' /\ Promised
<1> USE Labels, AliveRuns
<1> HIDE DEF SeqInv, Inv
<1>1. /\ server'.Running = server.Running /\ server'.starting = server.starting
      /\ server'.startupReady = server.startupReady /\ server'.Cmd = server.Cmd
      /\ server'.Rcon = server.Rcon /\ pc[c] = "killing"
      /\ handle' = [handle EXCEPT ![c] = Nobody]
      /\ \/ /\ child[handle[c]] = "reaped" /\ UNCHANGED child /\ server'.Stopping = FALSE
            /\ (~server.Stopping => server' = server) /\ pc' = [pc EXCEPT ![c] = "undo"]
         \/ /\ child[handle[c]] # "reaped" /\ server' = server
            /\ child' = [child EXCEPT ![handle[c]] = "zombie"]
            /\ pc' = [pc EXCEPT ![c] = "close"]
      /\ UNCHANGED <<start, generating, monitor>>
  BY DEF KillProcess, SetNotStopping, Goto, ServerStruct
<1> USE DEF SeqInv, Inv
<1>2. Alone' /\ Stages' /\ Current' /\ Begun'
  BY <1>1
<1>3. Ending' /\ OneSignal'
  BY <1>1
<1>4. Console' /\ ReadyHasConsole' /\ MonitorScheduled'
  BY <1>1
<1>5. Promised
  BY <1>1
<1> QED
  BY <1>2, <1>3, <1>4, <1>5

LEMMA SeqReloadServer ==
    ASSUME SeqInv, Inv', ReloadServer
    PROVE  SeqInv' /\ Promised
<1> USE Labels, AliveRuns
<1>1. /\ server'.Stopping = FALSE /\ ~server'.startupReady /\ ~server'.stopSignaled
      /\ server'.Running = server.Running /\ server'.starting = server.starting
      /\ server'.Cmd = server.Cmd /\ server'.Rcon = server.Rcon /\ ~server.Running
      /\ ~server.starting
      /\ UNCHANGED <<start, child, pc, handle, generating, monitor>>
  BY DEF ReloadServer, ResetFlags, Busy, ServerStruct
<1>2. Alone' /\ Stages' /\ Current' /\ Begun'
  BY <1>1
<1>3. Ending' /\ OneSignal'
  BY <1>1
<1>4. Console' /\ ReadyHasConsole' /\ MonitorScheduled'
  BY <1>1
<1>5. Promised
  BY <1>1
<1> QED
  BY <1>2, <1>3, <1>4, <1>5

LEMMA SeqAside ==
    ASSUME SeqInv, Inv', \/ BeginCommand \/ EndCommand \/ BeginGeneration \/ EndGeneration
                         \/ BeginSwitch \/ BeginInstall \/ EndInstall \/ EndSwitch
                         \/ UNCHANGED vars
    PROVE  SeqInv' /\ Promised
<1> USE Labels
<1>1. /\ UNCHANGED <<server, start, child, pc, handle, monitor>>
      /\ server.Running => ~generating'
  BY DEF BeginCommand, EndCommand, BeginGeneration, EndGeneration, BeginSwitch,
         BeginInstall, EndInstall, EndSwitch, vars
<1>2. Alone' /\ Stages' /\ Current' /\ Begun'
  BY <1>1
<1>3. Ending' /\ OneSignal'
  BY <1>1
<1>4. Console' /\ ReadyHasConsole' /\ MonitorScheduled'
  BY <1>1
<1>5. Promised
  BY <1>1
<1> QED
  BY <1>2, <1>3, <1>4, <1>5
HIDE DEF SeqInv, Inv, OneClaim, StartupReservation, StoppingNeedsRun, Alone, Stages,
         Current, Begun, Ending, OneSignal, Console, ReadyHasConsole, MonitorScheduled,
         Engaged, Signalling, Alive, Unready, Return, StopPending, Promised, Phase,
         Promise!Next, Promise!vars, Promise!Begin, Promise!Abort, Promise!Serve,
         Promise!Ask, Promise!Interrupt, Promise!Die, Promise!Withdraw, Promise!Report

LEMMA SeqStep ==
    ASSUME ~Overlap, SeqInv, [Next]_vars
    PROVE  SeqInv' /\ Promised
<1>1. Inv'
  BY Inductive DEF SeqInv
<1>2. ASSUME NEW r \in Runs, ClaimStart(r) \/ Starter(r) \/ ExitChild(r) \/ Reader(r)
      PROVE  SeqInv' /\ Promised
  BY <1>1, <1>2, SeqClaimStart, SeqFailStart, SeqSpawnChild, SeqPublishRunning,
     SeqReleaseStartupGuards, SeqReapChild, SeqExitCloseRcon, SeqExitSetStopped,
     SeqExitCancelMonitor, SeqExitChild, SeqReadRconLine, SeqReadEOF, SeqDial,
     SeqDialFails, SeqInstallRcon, SeqMarkStartupReady, SeqStartMonitor
     DEF Starter, Reader, Connect
<1>3. ASSUME NEW a \in Actors, Stopper(a) PROVE SeqInv' /\ Promised
  BY <1>1, <1>3, SeqCaptureProcess, SeqSignalProcess, SeqUndoRunning,
     SeqUndoCancelMonitor, SeqCloseRcon
     DEF Stopper
<1>4. ASSUME NEW c \in Clients, RequestStop(c) \/ RequestKill(c) \/ Caller(c)
      PROVE  SeqInv' /\ Promised
  BY <1>1, <1>4, SeqRequestStop, SeqClaimStopSignal, SeqStopCancelMonitor,
     SeqRequestKill, SeqCaptureForKill, SeqKillCancelMonitor, SeqKillProcess
     DEF Caller
<1>5. CASE Environment \/ UNCHANGED vars
  BY <1>1, <1>5, SeqReloadServer, SeqAside DEF Environment
<1> QED
  BY <1>2, <1>3, <1>4, <1>5 DEF Next

LEMMA SeqStart == Init => SeqInv
<1> SUFFICES ASSUME Init PROVE SeqInv
  OBVIOUS
<1>1. Inv
  BY Inductive
<1>2. /\ \A r \in Runs : start[r] = "unused" /\ child[r] = "none" /\ pc[r] = "idle"
      /\ \A a \in Actors : pc[a] = "idle"
      /\ ~server.Running /\ ~server.startupReady /\ server.Cmd = 0
      /\ \A r \in Runs : r # 0
  BY LifecycleConstants DEF Init, Actors, Runs, Nobody
<1>3. Alone /\ Stages /\ Current /\ Begun
  BY <1>2 DEF Alone, Engaged, Stages, Current, Begun
<1>4. Ending /\ OneSignal
  BY <1>2 DEF Ending, OneSignal, Signalling
<1>5. Console /\ ReadyHasConsole /\ MonitorScheduled
  BY <1>2 DEF Console, ReadyHasConsole, MonitorScheduled
<1> QED
  BY <1>1, <1>3, <1>4, <1>5 DEF SeqInv

\* In runs that begin when all that served the previous one has finished there is one child,
\* nothing starts, switches, installs or generates beside it, and a ready child has its own
\* console and its monitor, however its starter, reader, stops and force stops interleave
\* (server_lifecycle.go:253, rcon.go:49, server.go:71).
THEOREM OwnChild == ASSUME ~Overlap PROVE Spec => []RunServed
<1>1. ASSUME SeqInv PROVE RunServed
  <2>1. OneChild
    <3> SUFFICES ASSUME NEW q \in Runs, NEW r \in Runs, Alive(q), Alive(r) PROVE q = r
      BY DEF OneChild
    <3>1. Engaged(q) /\ Engaged(r)
      BY <1>1 DEF SeqInv, Stages, Engaged, Alive
    <3> QED
      BY <1>1, <3>1 DEF SeqInv, Alone
  <2>2. LiveMeansBusy
    <3> SUFFICES ASSUME NEW r \in Runs, Alive(r)
                 PROVE  /\ server.Running \/ server.starting
                        /\ ~generating /\ ~installing /\ switch = "none"
      BY DEF LiveMeansBusy
    <3>1. server.Running \/ server.starting
      BY <1>1, AliveRuns
    <3>2. switch = "none" /\ ~generating /\ ~installing
      BY <1>1, <3>1 DEF SeqInv, Inv, StoppedWhileReplaced
    <3> QED
      BY <3>1, <3>2
  <2> QED
    BY <1>1, <2>1, <2>2 DEF SeqInv, RunServed
<1>2. SeqInv /\ [Next]_vars => SeqInv'
  BY SeqStep
<1> QED
  BY <1>1, <1>2, SeqStart, PTL DEF Spec

\* However many callers and readers race to stop a run, its child gets at most one SIGINT, so
\* a second one never aborts its clean shutdown (server.go:168, server_process.go:39).
THEOREM SignalledOnce == ASSUME ~Overlap PROVE Spec => OneInterrupt
<1>1. ASSUME SeqInv, NEW a \in Actors, pc[a] = "signal", child[handle[a]] = "interrupted"
      PROVE  FALSE
  <2>1. server.Cmd \in Runs /\ handle[a] = server.Cmd
    BY <1>1 DEF SeqInv, Ending, Signalling
  <2>2. Alive(server.Cmd)
    BY <1>1, <2>1 DEF Alive
  <2>3. child[server.Cmd] = "live"
    BY <1>1, <2>1, <2>2 DEF SeqInv, Ending, Signalling
  <2> QED
    BY <1>1, <2>1, <2>3
<1>2. ASSUME SeqInv, [Next]_vars
      PROVE  [\A a \in Actors : pc[a] = "signal" /\ pc'[a] = "close"
                => child[handle[a]] # "interrupted"]_vars
  BY <1>1, <1>2
<1>3. SeqInv /\ [Next]_vars => SeqInv'
  BY SeqStep
<1> QED
  BY <1>2, <1>3, SeqStart, PTL DEF Spec, OneInterrupt

\* When runs follow one another the lifecycle implements ServerPromise: the phases its users
\* see follow one another as promised, step by step (server_lifecycle.go, server.go).
THEOREM PromiseKept == ASSUME ~Overlap PROVE Spec => KeepsPromise
<1>1. Init => Promise!Init
  BY DEF Init, Promise!Init, Phase
<1>2. SeqInv /\ [Next]_vars => SeqInv' /\ [Promise!Next]_(Promise!vars)
  BY SeqStep DEF Promised
<1> QED
  BY <1>1, <1>2, SeqStart, PTL DEF Spec, KeepsPromise, Promise!Spec

\* While an RCON command is under way its console is neither closed nor replaced, by whatever
\* exit, stop or late reader of whichever run (server_console.go:22, rcon.go:58).
THEOREM ConsoleHeld == Spec => CommandKeepsConsole
<1>1. ASSUME Typed, [Next]_vars, command # Nobody, command' # Nobody
      PROVE  server'.Rcon = server.Rcon
  <2> USE <1>1
  <2>1. /\ server \in ServerStruct /\ ~RconMutexFree
        /\ \A s \in ServerStruct : /\ ResetFlags(s).Rcon = s.Rcon /\ SetStopped(s).Rcon = s.Rcon
                                  /\ SetNotStopping(s).Rcon = s.Rcon
    BY DEF Typed, RconMutexFree, ServerStruct, ResetFlags, SetStopped, SetNotStopping
  <2>2. ASSUME NEW r \in Runs, ClaimStart(r) \/ Starter(r) \/ ExitChild(r) \/ Reader(r)
        PROVE  server'.Rcon = server.Rcon
    <3>1. CASE ClaimStart(r)
      BY <2>1, <3>1 DEF ServerStruct, ClaimStart, ResetFlags
    <3>2. CASE FailStart(r)
      BY <2>1, <3>2 DEF ServerStruct, FailStart, ResetFlags
    <3>3. CASE PublishRunning(r)
      BY <2>1, <3>3 DEF ServerStruct, PublishRunning
    <3>4. CASE MarkStartupReady(r)
      BY <2>1, <3>4 DEF ServerStruct, MarkStartupReady
    <3>5. CASE \/ SpawnChild(r) \/ ReleaseStartupGuards(r) \/ ReapChild(r) \/ ExitCloseRcon(r)
               \/ ExitSetStopped(r) \/ ExitCancelMonitor(r) \/ ExitChild(r)
      BY <2>1, <3>5 DEF SpawnChild, ReleaseStartupGuards, ReapChild, ExitCloseRcon,
         ExitSetStopped, ExitCancelMonitor, ExitChild
    <3>6. CASE \/ ReadRconLine(r) \/ ReadEOF(r) \/ Dial(r) \/ DialFails(r)
               \/ InstallRcon(r) \/ StartMonitor(r)
      BY <2>1, <3>6 DEF ReadRconLine, ReadEOF, Dial, DialFails, InstallRcon, StartMonitor
    <3> QED
      BY <2>2, <3>1, <3>2, <3>3, <3>4, <3>5, <3>6 DEF Starter, Reader, Connect
  <2>3. ASSUME NEW a \in Actors, Stopper(a) PROVE server'.Rcon = server.Rcon
    BY <2>1, <2>3 DEF Stopper, CaptureProcess, SignalProcess, UndoRunning,
       UndoCancelMonitor, CloseRcon
  <2>4. ASSUME NEW c \in Clients, RequestStop(c) \/ RequestKill(c) \/ Caller(c)
        PROVE  server'.Rcon = server.Rcon
    BY <2>1, <2>4 DEF ServerStruct, RequestStop, RequestKill, Caller, ClaimStopSignal,
       StopCancelMonitor, CaptureForKill, KillCancelMonitor, KillProcess
  <2>5. CASE Environment \/ UNCHANGED vars
    BY <2>1, <2>5 DEF Environment, BeginCommand, EndCommand, BeginGeneration, EndGeneration,
       BeginSwitch, BeginInstall, EndInstall, ReloadServer, EndSwitch, vars
  <2> QED
    BY <2>2, <2>3, <2>4, <2>5 DEF Next
<1>2. Typed /\ [Next]_vars
        => [command # Nobody /\ command' # Nobody => server'.Rcon = server.Rcon]_vars
  BY <1>1
<1> QED
  BY <1>2, InitTyped, TypeStep, PTL DEF Spec, CommandKeepsConsole
=============================================================================
