--------------------------- MODULE ServerLifecycle ---------------------------
(***************************************************************************)
(* The lifecycle of the one Factorio child process the manager owns:       *)
(* start, RCON readiness, graceful stop, force stop and exit.              *)
(*                                                                         *)
(* The Server singleton (src/src/factorio/server.go) is changed by         *)
(*   - the goroutine of each start (server_lifecycle.go),                  *)
(*   - the goroutine that reads that child's output and connects RCON      *)
(*     (server_console.go, rcon.go),                                       *)
(*   - the callers of Stop and Kill (server_process.go, server_linux.go),  *)
(*   - profile activation and world generation, which exclude a startup.   *)
(* A step is one critical section of stateMutex, or one blocking call.     *)
(* serverLifecycleMutex is held across steps: the pc values in HoldsLock.  *)
(***************************************************************************)
EXTENDS Integers, FiniteSets

CONSTANTS
    MaxRuns,      \* bound: how many starts are explored
    Clients,      \* goroutines that call Stop or Kill
    Overlap,      \* may a start be claimed while goroutines of an earlier run remain?
    RconMayFail   \* may rcon.Dial fail although the child is alive?

Runs == 1..MaxRuns
Nobody == 0                 \* nil: no process, no console, no monitor
Actors == Clients \cup Runs \* run r as an actor is its output reader

ASSUME LifecycleConstants ==
    /\ MaxRuns \in Nat
    /\ Clients \cap Int = {}
    /\ Overlap \in BOOLEAN
    /\ RconMayFail \in BOOLEAN

VARIABLES
    server,      \* the Server struct: its flags, Cmd and Rcon
    start,       \* start[r]: where the goroutine of start r is
    child,       \* child[r]: the operating-system process of start r
    pc,          \* pc[a]: where reader or client a is
    handle,      \* handle[a]: the process or console a holds in a local
    guards,      \* starts that hold worldGenerationLock and the gate's read side
    generating,  \* a world preview or creation holds worldGenerationLock
    installing,  \* the install of a release holds worldGenerationLock
    switch,      \* the holder of profileDataGate's write side
    command,     \* the console an RCON command is using (serverRCONCommandMutex)
    monitor      \* the run whose checkpoint monitor is not cancelled

vars == <<server, start, child, pc, handle, guards, generating, installing, switch,
          command, monitor>>

StartSteps == {"unused", "claimed", "spawned", "published", "waiting",
               "exited", "closed", "cancelling", "failed", "over"}
ChildStates == {"none", "live", "interrupted", "zombie", "reaped"}
HoldsLock == {"signal", "undo", "uncancel", "close", "killcancel", "killing"}
PcValues == HoldsLock \cup {"idle", "claim", "cancel", "checkpoint", "kill",
                            "reading", "dial", "install", "mark", "watch", "done"}

ServerStruct == [Running : BOOLEAN, Stopping : BOOLEAN, starting : BOOLEAN,
                 startupReady : BOOLEAN, stopSignaled : BOOLEAN,
                 Cmd : 0..MaxRuns, Rcon : 0..MaxRuns]

\* Who is about to use a process or a console holds one in a local variable.
Holding == {"install", "signal", "killcancel", "killing"}

Typed ==
    /\ server \in ServerStruct
    /\ start \in [Runs -> StartSteps]
    /\ child \in [Runs -> ChildStates]
    /\ pc \in [Actors -> PcValues]
    /\ handle \in [Actors -> 0..MaxRuns]
    /\ guards \subseteq Runs
    /\ generating \in BOOLEAN /\ installing \in BOOLEAN
    /\ switch \in {"none", "switching"}
    /\ command \in 0..MaxRuns
    /\ monitor \in 0..MaxRuns

\* The types, and with them what the nil tests of signalStop and Kill leave open: a
\* claimed stop, a force stop and a dialled console always have their process, so none
\* is turned away with errProcessUnavailable (server_linux.go:21, server_process.go:20).
TypeOK == Typed /\ \A a \in Actors : handle[a] \in Runs <=> pc[a] \in Holding

Init ==
    /\ server = [Running |-> FALSE, Stopping |-> FALSE, starting |-> FALSE,
                 startupReady |-> FALSE, stopSignaled |-> FALSE,
                 Cmd |-> Nobody, Rcon |-> Nobody]
    /\ start = [r \in Runs |-> "unused"]
    /\ child = [r \in Runs |-> "none"]
    /\ pc = [a \in Actors |-> "idle"]
    /\ handle = [a \in Actors |-> Nobody]
    /\ guards = {}
    /\ generating = FALSE
    /\ installing = FALSE
    /\ switch = "none"
    /\ command = Nobody
    /\ monitor = Nobody

-----------------------------------------------------------------------------
(* The state the handlers test and the helpers that change the flags.      *)

Alive(r) == child[r] \in {"live", "interrupted"}
RconIgnoresMutex == TRUE \* mutant of RconMutexFree
RconMutexFree == command = Nobody
BusyForgetsRunning == server.Stopping \/ server.starting \* mutant of Busy
Busy == server.Running \/ server.Stopping \/ server.starting
LifecycleFree == \A a \in Actors : pc[a] \notin HoldsLock
WorldGenSharedByInstall == guards = {} /\ ~generating \* mutant of WorldGenFree
WorldGenFree == guards = {} /\ ~generating /\ ~installing

\* Nothing that served an exited child, and no request, is still under way.
Quiet == /\ \A r \in Runs : child[r] = "reaped" => start[r] = "over" /\ pc[r] = "done"
         /\ \A c \in Clients : pc[c] = "idle"

ResetFlags(s) == [s EXCEPT !.Stopping = FALSE, !.startupReady = FALSE,
                           !.stopSignaled = FALSE]

\* SetRunning(false), up to the release of stateMutex.
SetStopped(s) ==
    IF s.Running THEN [ResetFlags(s) EXCEPT !.Running = FALSE, !.starting = FALSE]
                 ELSE s

\* SetStopping(false).
SetNotStopping(s) ==
    IF s.Stopping THEN [s EXCEPT !.Stopping = FALSE, !.stopSignaled = FALSE] ELSE s

Return(a) == IF a \in Clients THEN "idle" ELSE "done"
Goto(a, label) == pc' = [pc EXCEPT ![a] = label]

-----------------------------------------------------------------------------
(* The goroutine of start r.                                               *)

\* Server.start claims the stopped server under gate, lifecycle and state lock.
ClaimStart(r) ==
    /\ start[r] = "unused" /\ \A q \in Runs : q < r => start[q] # "unused"
    /\ Overlap \/ Quiet
    /\ switch = "none" /\ LifecycleFree /\ ~Busy /\ WorldGenFree
    /\ server' = [ResetFlags(server) EXCEPT !.starting = TRUE]
    /\ start' = [start EXCEPT ![r] = "claimed"]
    /\ guards' = guards \cup {r}
    /\ UNCHANGED <<child, pc, handle, generating, installing, switch, command, monitor>>

\* Settings, saves, pipes or exec failed: the deferred cleanup of runStartSnapshot.
FailStart(r) ==
    /\ start[r] = "claimed"
    /\ server' = [ResetFlags(server) EXCEPT !.starting = FALSE]
    /\ start' = [start EXCEPT ![r] = "failed"]
    /\ UNCHANGED <<child, pc, handle, guards, generating, installing, switch, command,
                   monitor>>

SpawnChild(r) ==
    /\ start[r] = "claimed"
    /\ start' = [start EXCEPT ![r] = "spawned"]
    /\ child' = [child EXCEPT ![r] = "live"]
    /\ UNCHANGED <<server, pc, handle, guards, generating, installing, switch, command,
                   monitor>>

\* A stop queued while starting survives: Stopping is left alone.
PublishRunning(r) ==
    /\ start[r] = "spawned"
    /\ server' = [server EXCEPT !.Cmd = r, !.Running = TRUE, !.starting = FALSE]
    /\ start' = [start EXCEPT ![r] = "published"]
    /\ Goto(r, "reading")
    /\ UNCHANGED <<child, handle, guards, generating, installing, switch, command,
                   monitor>>

ReleaseStartupGuards(r) ==
    /\ start[r] \in {"published", "failed"}
    /\ guards' = guards \ {r}
    /\ start' = [start EXCEPT ![r] = IF @ = "published" THEN "waiting" ELSE "over"]
    /\ UNCHANGED <<server, child, pc, handle, generating, installing, switch, command,
                   monitor>>

\* command.Wait returns.
ReapChild(r) ==
    /\ start[r] = "waiting" /\ child[r] = "zombie"
    /\ child' = [child EXCEPT ![r] = "reaped"]
    /\ start' = [start EXCEPT ![r] = "exited"]
    /\ UNCHANGED <<server, pc, handle, guards, generating, installing, switch, command,
                   monitor>>

ExitCloseRcon(r) ==
    /\ start[r] = "exited" /\ RconMutexFree
    /\ server' = [server EXCEPT !.Rcon = Nobody]
    /\ start' = [start EXCEPT ![r] = "closed"]
    /\ UNCHANGED <<child, pc, handle, guards, generating, installing, switch, command,
                   monitor>>

ExitSetStopped(r) ==
    /\ start[r] = "closed"
    /\ server' = SetStopped(server)
    /\ start' = [start EXCEPT ![r] = IF server.Running THEN "cancelling" ELSE "over"]
    /\ UNCHANGED <<child, pc, handle, guards, generating, installing, switch, command,
                   monitor>>

ExitCancelMonitor(r) ==
    /\ start[r] = "cancelling"
    /\ monitor' = Nobody
    /\ start' = [start EXCEPT ![r] = "over"]
    /\ UNCHANGED <<server, child, pc, handle, guards, generating, installing, switch,
                   command>>

Starter(r) == \/ FailStart(r) \/ SpawnChild(r) \/ PublishRunning(r)
              \/ ReleaseStartupGuards(r) \/ ReapChild(r) \/ ExitCloseRcon(r)
              \/ ExitSetStopped(r) \/ ExitCancelMonitor(r)

\* The child exits: a crash at any time, or the answer to SIGINT.
ExitChild(r) ==
    /\ Alive(r)
    /\ child' = [child EXCEPT ![r] = "zombie"]
    /\ UNCHANGED <<server, start, pc, handle, guards, generating, installing, switch,
                   command, monitor>>

-----------------------------------------------------------------------------
(* The reader of run r's output: parseRunningCommand and connectRC.        *)

ReadRconLine(r) ==
    /\ pc[r] = "reading"
    /\ Goto(r, "dial")
    /\ UNCHANGED <<server, start, child, handle, guards, generating, installing, switch,
                   command, monitor>>

ReadEOF(r) ==
    /\ pc[r] = "reading" /\ ~Alive(r)
    /\ Goto(r, "done")
    /\ UNCHANGED <<server, start, child, handle, guards, generating, installing, switch,
                   command, monitor>>

\* Every run listens on the same RCON port: the dial reaches the child alive now.
Dial(r) ==
    /\ pc[r] = "dial"
    /\ \E q \in Runs :
        /\ Alive(q)
        /\ handle' = [handle EXCEPT ![r] = q]
        /\ Goto(r, "install")
    /\ UNCHANGED <<server, start, child, guards, generating, installing, switch,
                   command, monitor>>

DialFails(r) ==
    /\ pc[r] = "dial"
    /\ RconMayFail \/ \A q \in Runs : ~Alive(q)
    /\ Goto(r, "done")
    /\ UNCHANGED <<server, start, child, handle, guards, generating, installing, switch,
                   command, monitor>>

\* setRconIfRunning: a console that arrives too late is closed, not installed.
InstallRcon(r) ==
    /\ pc[r] = "install" /\ RconMutexFree
    /\ \/ /\ server.Running
          /\ server' = [server EXCEPT !.Rcon = handle[r]]
          /\ Goto(r, "mark")
       \/ /\ ~server.Running
          /\ Goto(r, "done")
          /\ UNCHANGED server
    /\ handle' = [handle EXCEPT ![r] = Nobody]
    /\ UNCHANGED <<start, child, guards, generating, installing, switch, command,
                   monitor>>

SignalTwice == server.Running /\ server.Stopping \* mutants of StopPending
SignalUnasked == server.Running /\ ~server.stopSignaled
StopPending == server.Running /\ server.Stopping /\ ~server.stopSignaled

\* Mutant of MarkStartupReady: readiness is noted and nothing follows from it.
MarkReadyOnly(r) ==
    /\ pc[r] = "mark"
    /\ server' = [server EXCEPT !.startupReady = TRUE]
    /\ Goto(r, "done")
    /\ UNCHANGED <<start, child, handle, guards, generating, installing, switch,
                   command, monitor>>

\* markStartupReady hands a queued stop to this reader.
MarkStartupReady(r) ==
    /\ pc[r] = "mark"
    /\ server' = [server EXCEPT !.startupReady = TRUE,
                                !.stopSignaled = @ \/ StopPending]
    /\ Goto(r, IF StopPending THEN "checkpoint" ELSE "watch")
    /\ UNCHANGED <<start, child, handle, guards, generating, installing, switch,
                   command, monitor>>

StartMonitor(r) ==
    /\ pc[r] = "watch"
    /\ monitor' = r
    /\ Goto(r, "done")
    /\ UNCHANGED <<server, start, child, handle, guards, generating, installing, switch,
                   command>>

\* What the reader does of itself; that its child prints the RCON line is up to Factorio.
Connect(r) == \/ ReadEOF(r) \/ Dial(r) \/ DialFails(r)
              \/ InstallRcon(r) \/ MarkStartupReady(r) \/ StartMonitor(r)
Reader(r) == ReadRconLine(r) \/ Connect(r)

-----------------------------------------------------------------------------
(* Server.Stop by client c, and signalStop by a client or by a reader.     *)

RequestStop(c) ==
    /\ pc[c] = "idle"
    /\ server.Running \/ server.starting
    /\ server' = [server EXCEPT !.Stopping = TRUE]
    /\ Goto(c, "claim")
    /\ UNCHANGED <<start, child, handle, guards, generating, installing, switch,
                   command, monitor>>

\* Mutant of ClaimStopSignal: a stop is signalled at once, ready or not.
ClaimAtOnce(c) ==
    /\ pc[c] = "claim"
    /\ LET claimed == server.Stopping /\ ~server.stopSignaled IN
        /\ server' = [server EXCEPT !.stopSignaled = @ \/ claimed]
        /\ Goto(c, IF claimed THEN "cancel" ELSE "idle")
    /\ UNCHANGED <<start, child, handle, guards, generating, installing, switch,
                   command, monitor>>

\* claimStopSignalIfReady: otherwise the stop stays queued for the reader.
ClaimStopSignal(c) ==
    /\ pc[c] = "claim"
    /\ LET claimed == StopPending /\ server.startupReady IN
        /\ server' = [server EXCEPT !.stopSignaled = @ \/ claimed]
        /\ Goto(c, IF claimed THEN "cancel" ELSE "idle")
    /\ UNCHANGED <<start, child, handle, guards, generating, installing, switch,
                   command, monitor>>

StopCancelMonitor(c) ==
    /\ pc[c] = "cancel"
    /\ monitor' = Nobody
    /\ Goto(c, "checkpoint")
    /\ UNCHANGED <<server, start, child, handle, guards, generating, installing, switch,
                   command>>

\* The clean-stop checkpoint ends and signalStop reads Cmd under the lifecycle lock.
CaptureProcess(a) ==
    /\ pc[a] = "checkpoint" /\ LifecycleFree
    /\ handle' = [handle EXCEPT ![a] = server.Cmd]
    /\ Goto(a, "signal")
    /\ UNCHANGED <<server, start, child, guards, generating, installing, switch,
                   command, monitor>>

\* os.Process.Signal succeeds on an unreaped child and fails on a reaped one.
SignalProcess(a) ==
    /\ pc[a] = "signal"
    /\ IF child[handle[a]] = "reaped"
       THEN /\ server' = SetNotStopping(server)
            /\ Goto(a, "undo")
            /\ UNCHANGED child
       ELSE /\ child' = [child EXCEPT ![handle[a]] = IF @ = "live" THEN "interrupted" ELSE @]
            /\ Goto(a, "close")
            /\ UNCHANGED server
    /\ handle' = [handle EXCEPT ![a] = Nobody]
    /\ UNCHANGED <<start, guards, generating, installing, switch, command, monitor>>

\* ErrProcessDone: SetRunning(false) and, if that changed it, stopCheckpointMonitor.
UndoRunning(a) ==
    /\ pc[a] = "undo"
    /\ server' = SetStopped(server)
    /\ Goto(a, IF server.Running THEN "uncancel" ELSE Return(a))
    /\ UNCHANGED <<start, child, handle, guards, generating, installing, switch,
                   command, monitor>>

UndoCancelMonitor(a) ==
    /\ pc[a] = "uncancel"
    /\ monitor' = Nobody
    /\ Goto(a, Return(a))
    /\ UNCHANGED <<server, start, child, handle, guards, generating, installing, switch,
                   command>>

CloseRcon(a) ==
    /\ pc[a] = "close" /\ RconMutexFree
    /\ server' = [server EXCEPT !.Rcon = Nobody]
    /\ Goto(a, Return(a))
    /\ UNCHANGED <<start, child, handle, guards, generating, installing, switch,
                   command, monitor>>

-----------------------------------------------------------------------------
(* Server.Kill by client c: the handler's own check, then the locked part. *)

RequestKill(c) ==
    /\ pc[c] = "idle" /\ server.Running
    /\ Goto(c, "kill")
    /\ UNCHANGED <<server, start, child, handle, guards, generating, installing, switch,
                   command, monitor>>

CaptureForKill(c) ==
    /\ pc[c] = "kill" /\ LifecycleFree
    /\ \/ /\ (~server.Running /\ ~server.starting) \/ server.Cmd = Nobody
          /\ Goto(c, "idle")
          /\ UNCHANGED <<server, handle>>
       \/ /\ server.Running \/ server.starting
          /\ server.Cmd # Nobody
          /\ server' = [server EXCEPT !.Stopping = TRUE]
          /\ handle' = [handle EXCEPT ![c] = server.Cmd]
          /\ Goto(c, "killcancel")
    /\ UNCHANGED <<start, child, guards, generating, installing, switch, command,
                   monitor>>

KillCancelMonitor(c) ==
    /\ pc[c] = "killcancel"
    /\ monitor' = Nobody
    /\ Goto(c, "killing")
    /\ UNCHANGED <<server, start, child, handle, guards, generating, installing, switch,
                   command>>

KillProcess(c) ==
    /\ pc[c] = "killing"
    /\ IF child[handle[c]] = "reaped"
       THEN /\ server' = SetNotStopping(server)
            /\ Goto(c, "undo")
            /\ UNCHANGED child
       ELSE /\ child' = [child EXCEPT ![handle[c]] = "zombie"]
            /\ Goto(c, "close")
            /\ UNCHANGED server
    /\ handle' = [handle EXCEPT ![c] = Nobody]
    /\ UNCHANGED <<start, guards, generating, installing, switch, command, monitor>>

\* What a client or reader does once its request is under way.
Stopper(a) == \/ CaptureProcess(a) \/ SignalProcess(a) \/ UndoRunning(a)
              \/ UndoCancelMonitor(a) \/ CloseRcon(a)
Caller(c) == \/ ClaimStopSignal(c) \/ StopCancelMonitor(c) \/ CaptureForKill(c)
             \/ KillCancelMonitor(c) \/ KillProcess(c)

-----------------------------------------------------------------------------
(* RCON commands, world generation and profile switching.                  *)

\* runPersistentRCONCommand holds serverRCONCommandMutex over Write and Read.
BeginCommand ==
    /\ server.Running /\ server.Rcon # Nobody /\ RconMutexFree
    /\ command' = server.Rcon
    /\ UNCHANGED <<server, start, child, pc, handle, guards, generating, installing,
                   switch, monitor>>

EndCommand ==
    /\ command # Nobody
    /\ command' = Nobody
    /\ UNCHANGED <<server, start, child, pc, handle, guards, generating, installing,
                   switch, monitor>>

\* CreateWorld and GenerateWorldPreview; their requests hold the gate's read side.
BeginGeneration ==
    /\ switch = "none"
    /\ WorldGenFree /\ ~server.Running /\ ~server.Stopping
    /\ generating' = TRUE
    /\ UNCHANGED <<server, start, child, pc, handle, guards, installing, switch,
                   command, monitor>>

EndGeneration ==
    /\ generating
    /\ generating' = FALSE
    /\ UNCHANGED <<server, start, child, pc, handle, guards, installing, switch,
                   command, monitor>>

\* ActivateProfile: gate write side, then ensureProfileServerStopped.
BeginSwitch ==
    /\ switch = "none" /\ guards = {}
    /\ ~Busy /\ ~generating /\ ~installing
    /\ switch' = "switching"
    /\ UNCHANGED <<server, start, child, pc, handle, guards, generating, installing,
                   command, monitor>>

\* installRelease: by the release handler, which shares the gate with starts, or by the
\* switch that has the gate for itself.
BeginInstall ==
    /\ LifecycleFree /\ ~Busy /\ WorldGenFree
    /\ installing' = TRUE
    /\ UNCHANGED <<server, start, child, pc, handle, guards, generating, switch,
                   command, monitor>>

EndInstall ==
    /\ installing
    /\ installing' = FALSE
    /\ UNCHANGED <<server, start, child, pc, handle, guards, generating, switch,
                   command, monitor>>

\* ReloadFactorioServerProfile (and ConfigureStart) on the stopped singleton.
ReloadServer ==
    /\ switch = "switching" /\ ~installing /\ LifecycleFree /\ ~Busy
    /\ server' = ResetFlags(server)
    /\ UNCHANGED <<start, child, pc, handle, guards, generating, installing, switch,
                   command, monitor>>

EndSwitch ==
    /\ switch = "switching" /\ ~installing
    /\ switch' = "none"
    /\ UNCHANGED <<server, start, child, pc, handle, guards, generating, installing,
                   command, monitor>>

Environment == \/ BeginCommand \/ EndCommand \/ BeginGeneration \/ EndGeneration
               \/ BeginSwitch \/ BeginInstall \/ EndInstall \/ ReloadServer \/ EndSwitch

Next == \/ \E r \in Runs : ClaimStart(r) \/ Starter(r) \/ ExitChild(r) \/ Reader(r)
        \/ \E a \in Actors : Stopper(a)
        \/ \E c \in Clients : RequestStop(c) \/ RequestKill(c) \/ Caller(c)
        \/ Environment

Spec == Init /\ [][Next]_vars

\* Every goroutine is scheduled and, as sync.Mutex does not starve a waiter, gets a lock
\* that is free again and again; a read of the RCON connection times out; the child
\* honours SIGINT. Nothing makes a user act, a child crash or a child print its RCON line.
Fairness ==
    /\ \A r \in Runs : /\ SF_vars(Starter(r)) /\ SF_vars(Connect(r) \/ Stopper(r))
                      /\ WF_vars(child[r] = "interrupted" /\ ExitChild(r))
    /\ \A c \in Clients : SF_vars(Caller(c) \/ Stopper(c))
    /\ WF_vars(EndCommand)

FairSpec == Spec /\ Fairness

\* The same with children that do print their RCON line.
PrintingSpec == FairSpec /\ \A r \in Runs : WF_vars(ReadRconLine(r))

-----------------------------------------------------------------------------
(* Properties of every interleaving, overlapping runs included.            *)

\* The starting flag, the reservation of the startup guards and the goroutine that
\* owns them agree: one startup at a time, and while it is unpublished or its guards
\* are held no world generation, release install or profile switch is under way.
StartupReservation ==
    /\ server.starting <=> \E r \in Runs : start[r] \in {"claimed", "spawned"}
    /\ guards = {r \in Runs : start[r] \in {"claimed", "spawned", "published", "failed"}}
    /\ \A q, r \in guards : q = r
    /\ guards # {} => switch = "none" /\ ~generating /\ ~installing

\* Stopping is only set on a running or starting server (requestStop, Kill), so no
\* exit or failed start can leave the stopped server busy, and unstartable, for good.
StoppingNeedsRun == server.Stopping => server.Running \/ server.starting

\* The engine, the profile and the saves of a server that runs or starts are not
\* replaced; against the release handler only worldGenerationLock sees to that.
StoppedWhileReplaced ==
    switch # "none" \/ generating \/ installing => ~server.Running /\ ~server.starting

\* The reservation of a startup, the stop flag and the exclusion of switches, installs and
\* generation stay sound together, however late the goroutines of ended runs finish
\* (server_lifecycle.go:150 and 168, release_install.go:71, profiles.go:216).
ReservationSound == StartupReservation /\ StoppingNeedsRun /\ StoppedWhileReplaced

\* An unsignalled stop of a living child has someone who will still deliver it: the
\* claim of Stop and the readiness of the reader never miss each other.
StopNeverLost ==
    /\ server.Running /\ server.Stopping /\ ~server.stopSignaled
    /\ Alive(server.Cmd)
    =>  \/ \E c \in Clients : pc[c] \in {"claim", "killcancel", "killing"}
        \/ pc[server.Cmd] \in {"reading", "dial", "install", "mark"}

\* Nobody closes or replaces the console an RCON command is reading from.
CommandKeepsConsole ==
    [][command # Nobody /\ command' # Nobody => server'.Rcon = server.Rcon]_vars

-----------------------------------------------------------------------------
(* Properties of runs that follow one another.                             *)

\* One manager owns at most one Factorio process.
OneChild == \A q, r \in Runs : Alive(q) /\ Alive(r) => q = r

\* A living child is never reported as stopped: it keeps out the next start, world
\* generation, installs and profile switches.
LiveMeansBusy ==
    (\E r \in Runs : Alive(r))
        => /\ server.Running \/ server.starting
           /\ ~generating /\ ~installing /\ switch = "none"

\* Readiness is published after the console, so a clean-stop checkpoint of a live
\* child always finds the console of that child.
ReadyHasConsole ==
    server.Running /\ server.startupReady /\ child[server.Cmd] = "live"
        => server.Rcon = server.Cmd

\* A ready child that nobody stops has its checkpoint monitor once its reader is done.
MonitorScheduled ==
    /\ server.Running /\ server.startupReady /\ ~server.Stopping
    /\ pc[server.Cmd] = "done" /\ child[server.Cmd] = "live"
    => monitor = server.Cmd

\* In a run that begins when all that served the previous one has finished, whatever
\* its own starter, reader, stops and force stops do to each other: there is one child,
\* nothing starts beside it, and a ready child has its own console and its monitor
\* (server_lifecycle.go:253, rcon.go:49, server.go:71).
RunServed == OneChild /\ LiveMeansBusy /\ ReadyHasConsole /\ MonitorScheduled

\* SIGINT reaches a child once: a second one would abort its clean shutdown.
OneInterrupt ==
    [][\A a \in Actors : pc[a] = "signal" /\ pc'[a] = "close"
          => child[handle[a]] # "interrupted"]_vars

\* The phase of the current run, as ServerPromise sees it.
Phase == IF server.starting THEN "starting"
         ELSE IF ~server.Running THEN "stopped"
         ELSE CASE child[server.Cmd] = "live" -> "up"
                [] child[server.Cmd] = "interrupted" -> "interrupted"
                [] OTHER -> "gone"

\* The lifecycle implements the promise made to the API and to profile switching.
Promise == INSTANCE ServerPromise WITH phase <- Phase, asked <- server.Stopping
KeepsPromise == Promise!Spec

\* Every requested stop ends with a server that can be started again.
StopCompletes == server.Stopping ~> ~Busy

\* The child of the current run lives and has not printed its RCON line.
Silent == server.Running /\ pc[server.Cmd] = "reading" /\ Alive(server.Cmd)

\* The reader of the current run gave up without a console.
ConsoleFailed ==
    server.Running /\ ~server.startupReady /\ pc[server.Cmd] = "done"

\* A requested stop ends with a server that can be started again, whoever asks and
\* whichever races it runs into; only a child that never prints its RCON line, or whose
\* RCON connection failed, stays (server.go:188, rcon.go:26).
StopAnswered == (server.Stopping ~> (~Busy \/ ConsoleFailed)) \/ <>[]Silent

\* Every Stop and Kill returns, and with it the lifecycle lock is released.
ClientsReturn == \A c \in Clients : pc[c] # "idle" ~> pc[c] = "idle"

\* Whoever asks for a stop gets an answer, and the server gets the stop
\* (server_process.go:39, server.go:188).
StopsEnd == StopAnswered /\ ClientsReturn
=============================================================================
