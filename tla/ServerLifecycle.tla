--------------------------- MODULE ServerLifecycle ---------------------------
(***************************************************************************)
(* The life of the server process: src/core/main.cpp (the commands run,    *)
(* start, status and stop), the desktop launcher                           *)
(* src/tools/checklist_assistant.cpp, the shutdown endpoint of             *)
(* src/core/app.cpp and the process calls of src/platform.                 *)
(*                                                                         *)
(* Everything these programs know of each other is in one file, the state  *)
(* file .chax/run/server.json, and in the answer of kill(pid, 0).  The     *)
(* file is written by truncating and rewriting it, is removed by whoever   *)
(* thinks it stale, and is removed by every `run` that ends.  A `run`      *)
(* starts helper processes (the whisper server before it listens, the      *)
(* background processes from a thread, once the health endpoint answers),  *)
(* which outlive it unless somebody kills them.                            *)
(*                                                                         *)
(* All commands use the default state file, host and port.  A `run` takes  *)
(* a process id no other `run` of the behaviour has; once it is over an    *)
(* unrelated program may be given the id (`foreign').                      *)
(***************************************************************************)
EXTENDS Naturals, FiniteSets

CONSTANTS Pids,        \* process ids `run` may get, one per server process
          Cmds,        \* command invocations, each runs one command
          Kinds,       \* the commands each of them may run
          NoState,     \* no state file
          Torn,        \* a state file opened for writing and not yet written
          NoPid,       \* nobody answers
          MaxCrashes   \* servers that die on their own or are killed from outside

ASSUME KindsAssumption ==
  Kinds \in [Cmds -> SUBSET {"run", "start", "launch", "status", "stop"}]

VARIABLES file,        \* the state file: NoState, Torn or what ReadState returns
          writers,     \* processes holding the file that the path names open
          bound,       \* processes listening on the configured port
          main,        \* where the main thread of each `run` is
          thread,      \* where its background thread is
          asked,       \* servers whose shutdown endpoint accepted a request
          signalled,   \* processes a signal has been sent to
          helpers,     \* live helper processes <<pid of the run, kind>>
          foreign,     \* ids now used by an unrelated program
          cmd,         \* each command: its step and the state it read
          crashes

vars == <<file, writers, bound, main, thread, asked, signalled, helpers,
          foreign, cmd, crashes>>

server == <<main, thread, bound, asked, helpers>>
disk == <<file, writers>>
os == <<signalled, foreign, crashes>>

Helpers == {"whisper", "background"}
RuntimeState == [pid : Pids, helpers : SUBSET Helpers]

\* What stands for the absence of a file, a record or a listener is none.
ASSUME AbsenceAssumption ==
  /\ NoState # Torn /\ {NoState, Torn} \cap RuntimeState = {}
  /\ NoPid \notin Pids
  /\ MaxCrashes \in Nat

MainSteps == {"free", "boot", "open", "write", "bind", "serve", "join", "sweep",
              "failed", "leave", "ended", "rejected", "dead"}
ThreadSteps == {"off", "poll", "launch", "open", "write", "done"}
CmdSteps == {"idle", "probe", "unstale", "ask", "read", "clear", "spawn",
             "status", "forget", "stop", "post", "wait", "term", "wait2",
             "force", "remove", "reap", "stopped", "failed", "refused", "done"}

TypeOK ==
  /\ file \in RuntimeState \cup {NoState, Torn}
  /\ writers \subseteq Pids
  /\ bound \subseteq Pids
  /\ main \in [Pids -> MainSteps]
  /\ thread \in [Pids -> ThreadSteps]
  /\ asked \subseteq Pids
  /\ signalled \subseteq Pids
  /\ helpers \subseteq Pids \X Helpers
  /\ foreign \subseteq Pids
  /\ cmd \in [Cmds -> [at : CmdSteps, saw : RuntimeState \cup {NoState}]]
  /\ crashes \in 0 .. MaxCrashes

Init ==
  /\ file = NoState /\ writers = {} /\ bound = {}
  /\ main = [p \in Pids |-> "free"] /\ thread = [p \in Pids |-> "off"]
  /\ asked = {} /\ signalled = {} /\ helpers = {} /\ foreign = {}
  /\ cmd = [c \in Cmds |-> [at |-> "idle", saw |-> NoState]]
  /\ crashes = 0

-----------------------------------------------------------------------------
(* Operating system: which ids answer kill(pid, 0), what a signal does.    *)

Seen(c) == cmd[c].saw

Up(p) == main[p] \notin {"free", "ended", "rejected", "dead"}

IsProcessRunning(p) == Up(p) \/ p \in foreign

\* ReadState: a missing file and one that does not parse are both no state.
ReadState == IF file = Torn THEN NoState ELSE file

Remove == file' = NoState /\ writers' = {}

\* ofstream(path): the file exists and is empty from here to the write.
Open(p) ==
  /\ file' = Torn
  /\ writers' = IF file = NoState THEN {p} ELSE writers \cup {p}

\* Flushing the record.  If the path was removed in between, the record goes
\* to a file nobody can name any more.
Write(p, kinds) ==
  /\ file' = IF p \in writers THEN [pid |-> p, helpers |-> kinds] ELSE file
  /\ writers' = writers \ {p}

LiveKinds(p) == {k \in Helpers : <<p, k>> \in helpers}

\* The process is gone: its threads, its listening socket and its open file
\* go with it, its helpers and the state file stay.
Gone(p) ==
  /\ main' = [main EXCEPT ![p] = "dead"]
  /\ thread' = [thread EXCEPT ![p] = "off"]
  /\ bound' = bound \ {p}
  /\ asked' = asked \ {p}
  /\ writers' = writers \ {p}

\* A signalled process dies, now or when the kernel gets to it.
Die(p) ==
  /\ p \in signalled
  /\ signalled' = signalled \ {p}
  /\ IF Up(p) THEN Gone(p) /\ UNCHANGED foreign
     ELSE /\ foreign' = foreign \ {p}
          /\ UNCHANGED <<main, thread, bound, asked, writers>>
  /\ UNCHANGED <<file, helpers, cmd, crashes>>

\* The server dies on its own, or is killed from outside.
Crash(p) ==
  /\ crashes < MaxCrashes
  /\ Up(p)
  /\ Gone(p)
  /\ crashes' = crashes + 1
  /\ signalled' = signalled \ {p}
  /\ UNCHANGED <<file, helpers, foreign, cmd>>

\* The id of a finished server is given to another program.  That matters
\* only while the state file or a command still has the id.
Named(p) ==
  \/ file \in RuntimeState /\ file.pid = p
  \/ \E c \in Cmds : Seen(c) # NoState /\ Seen(c).pid = p

ReusePid(p) ==
  /\ main[p] \in {"ended", "rejected", "dead"}
  /\ Named(p)
  /\ p \notin foreign
  /\ foreign' = foreign \cup {p}
  /\ signalled' = signalled \ {p}
  /\ UNCHANGED <<disk, server, cmd, crashes>>

-----------------------------------------------------------------------------
(* CommandRun, the main thread.                                            *)

MainTo(p, from, to) == main[p] = from /\ main' = [main EXCEPT ![p] = to]

\* LaunchDetached: fork, a session of its own, exec.  The new process does not
\* end with the one that launched it.
LaunchDetached(p, kind) == helpers' = helpers \cup {<<p, kind>>}

\* StartWhisperServer: before anything else, and only if it is configured
\* and its binary and model exist.
StartWhisperServer(p) ==
  /\ MainTo(p, "boot", "open")
  /\ \/ LaunchDetached(p, "whisper")
     \/ UNCHANGED helpers
  /\ UNCHANGED <<disk, thread, bound, asked, os, cmd>>

\* state_guard.Write(state), then the background thread if it is enabled.
OpenState(p) ==
  /\ MainTo(p, "open", "write")
  /\ Open(p)
  /\ UNCHANGED <<thread, bound, asked, helpers, os, cmd>>

WriteState(p) ==
  /\ MainTo(p, "write", "bind")
  /\ Write(p, LiveKinds(p))
  /\ \/ thread' = [thread EXCEPT ![p] = "poll"]
     \/ UNCHANGED thread
  /\ UNCHANGED <<bound, asked, helpers, os, cmd>>

\* HttpServer::Start: listen binds the port or throws.  A port another server
\* listens on is refused on Windows; elsewhere the library sets SO_REUSEPORT
\* and both servers listen on it.  It is refused everywhere while an unrelated
\* program has it.  The model allows for every platform.
Bind(p) ==
  /\ \/ MainTo(p, "bind", "serve") /\ bound' = bound \cup {p}
     \/ MainTo(p, "bind", "failed") /\ UNCHANGED bound
  /\ UNCHANGED <<disk, thread, asked, helpers, os, cmd>>

\* HttpServer::Stop makes listen return; background_stop is set.
StopServing(p) ==
  /\ p \in asked
  /\ MainTo(p, "serve", "join")
  /\ bound' = bound \ {p}
  /\ asked' = asked \ {p}
  /\ UNCHANGED <<disk, thread, helpers, os, cmd>>

\* Mutant: the thread is not waited for.
JoinNoWait(p) ==
  /\ MainTo(p, "join", "sweep")
  /\ UNCHANGED <<disk, thread, bound, asked, helpers, os, cmd>>

\* background_thread.join() on the way out of a normal stop.
Join(p) ==
  /\ thread[p] \in {"off", "done"}
  /\ MainTo(p, "join", "sweep")
  /\ UNCHANGED <<disk, thread, bound, asked, helpers, os, cmd>>

\* The whisper server and the background processes are killed.
SweepHelpers(p) ==
  /\ MainTo(p, "sweep", "leave")
  /\ helpers' = {h \in helpers : h[1] # p}
  /\ UNCHANGED <<disk, thread, bound, asked, os, cmd>>

\* The state file guard removes the file, whoever wrote it.
Leave(p) ==
  /\ MainTo(p, "leave", "ended")
  /\ Remove
  /\ UNCHANGED <<thread, bound, asked, helpers, os, cmd>>

\* The bind failed: the thread is joined, the helpers are left running, the
\* guard removes the file.
LeaveUnbound(p) ==
  /\ thread[p] \in {"off", "done"}
  /\ MainTo(p, "failed", "rejected")
  /\ Remove
  /\ UNCHANGED <<thread, bound, asked, helpers, os, cmd>>

-----------------------------------------------------------------------------
(* CommandRun, the background thread.                                      *)

ThreadTo(p, from, to) == thread[p] = from /\ thread' = [thread EXCEPT ![p] = to]

Stopping(p) == main[p] \in {"join", "sweep", "failed", "leave"}

\* WaitForServerReady: until stopped or timed out it asks the health endpoint
\* of the configured URL, and takes an answer of whoever listens there.
WaitForServerReady(p) ==
  /\ \/ ~Stopping(p) /\ bound # {} /\ ThreadTo(p, "poll", "launch")
     \/ ThreadTo(p, "poll", "done")
  /\ UNCHANGED <<disk, main, bound, asked, helpers, os, cmd>>

\* StartBackgroundProcesses: some directory has a start script, or none.
StartBackgroundProcesses(p) ==
  /\ \/ /\ ThreadTo(p, "launch", "open")
        /\ LaunchDetached(p, "background")
     \/ ThreadTo(p, "launch", "done") /\ UNCHANGED helpers
  /\ UNCHANGED <<disk, main, bound, asked, os, cmd>>

\* The state is rewritten with the new processes added to it.
OpenUpdated(p) ==
  /\ ThreadTo(p, "open", "write")
  /\ Open(p)
  /\ UNCHANGED <<main, bound, asked, helpers, os, cmd>>

\* Mutant: the record is built from the background processes only.
UpdatedAfresh(p) == LiveKinds(p) \ {"whisper"}

\* What RuntimeState updated = state; updated.background_processes = launched
\* holds: the whisper server recorded first, and the processes launched.
Updated(p) == LiveKinds(p)

WriteUpdated(p) ==
  /\ ThreadTo(p, "write", "done")
  /\ Write(p, Updated(p))
  /\ UNCHANGED <<main, bound, asked, helpers, os, cmd>>

-----------------------------------------------------------------------------
(* Commands.  Reading the state and probing its pid is one step, what is   *)
(* done with the answer are later steps.                                   *)

Is(c, at) == cmd[c].at = at
Goto(c, at) == cmd' = [cmd EXCEPT ![c].at = at]
ReadInto(c, at) == cmd' = [cmd EXCEPT ![c] = [at |-> at, saw |-> ReadState]]

\* ParseCli and the switch of main, RunLauncher for "launch".
Begin(c) ==
  /\ Is(c, "idle")
  /\ \E k \in Kinds[c] :
       Goto(c, CASE k = "run" -> "spawn" [] k = "start" -> "read"
                 [] k = "launch" -> "probe" [] k = "status" -> "status"
                 [] k = "stop" -> "stop")
  /\ UNCHANGED <<disk, server, os>>

Found == ReadState # NoState
FoundRunning == Found /\ IsProcessRunning(ReadState.pid)

RemoveState(c, from, to) ==
  /\ Is(c, from) /\ Goto(c, to)
  /\ Remove
  /\ UNCHANGED <<server, os>>

\* CleanupStaleServerState: a file that does not parse or whose process is
\* gone is removed.
CleanupStaleServerState(c) ==
  \/ /\ Is(c, "probe")
     /\ Goto(c, IF file # NoState /\ ~FoundRunning THEN "unstale" ELSE "ask")
     /\ UNCHANGED <<disk, server, os>>
  \/ RemoveState(c, "unstale", "ask")

\* RunLauncher: a running server is only shown in the browser, otherwise the
\* launcher starts `start'.
RunLauncher(c) ==
  /\ Is(c, "ask")
  /\ Goto(c, IF FoundRunning THEN "done" ELSE "read")
  /\ UNCHANGED <<disk, server, os>>

\* CommandStart: refused while the recorded process runs, a stale file is
\* removed, then `run' is launched detached.
StartRead(c) ==
  /\ Is(c, "read")
  /\ ReadInto(c, IF FoundRunning THEN "refused" ELSE IF Found THEN "clear" ELSE "spawn")
  /\ UNCHANGED <<disk, server, os>>

StartClear(c) == RemoveState(c, "clear", "spawn")

\* Fresh ids are all alike: one of them stands for them.
FreshPid == CHOOSE p \in Pids : main[p] = "free"

\* LaunchDetached of `run', or `run' itself.
Spawn(c) ==
  /\ Is(c, "spawn") /\ Goto(c, "done")
  /\ \E p \in Pids : main[p] = "free"
  /\ MainTo(FreshPid, "free", "boot")
  /\ UNCHANGED <<disk, thread, bound, asked, helpers, os>>

\* The launch fails (fork or CreateProcess).
SpawnFails(c) ==
  /\ Is(c, "spawn") /\ Goto(c, "failed")
  /\ UNCHANGED <<disk, server, os>>

CommandStatus(c) ==
  \/ /\ Is(c, "status")
     /\ ReadInto(c, IF Found /\ ~FoundRunning THEN "forget" ELSE "done")
     /\ UNCHANGED <<disk, server, os>>
  \/ RemoveState(c, "forget", "done")

\* CommandStop, step by step.
StopRead(c) ==
  /\ Is(c, "stop")
  /\ ReadInto(c, IF FoundRunning THEN "post" ELSE IF Found THEN "forget" ELSE "done")
  /\ UNCHANGED <<disk, server, os>>

\* Mutant: the token is not compared.
AcceptedAnyway(c, to) == {to}

\* handle_shutdown: the request is accepted only with the token of the server
\* it reaches, which is the one in the record.
Accepted(c, to) == {to} \cap {Seen(c).pid}

\* POST /api/v1/admin/shutdown: the request reaches one of those who listen,
\* which need not be the server of the record, or is not answered.
PostShutdown(c) ==
  /\ Is(c, "post") /\ Goto(c, "wait")
  /\ \E to \in bound \cup {NoPid} : asked' = asked \cup Accepted(c, to)
  /\ UNCHANGED <<disk, main, thread, bound, helpers, os>>

\* Ten seconds for a graceful end, then SIGTERM.
AwaitStop(c) ==
  /\ Is(c, "wait")
  /\ \/ ~IsProcessRunning(Seen(c).pid) /\ Goto(c, "remove")
     \/ IsProcessRunning(Seen(c).pid) /\ Goto(c, "term")
  /\ UNCHANGED <<disk, server, os>>

\* Mutant: when the wait is over the process is taken to be gone.
TerminateNobody(c) ==
  /\ Is(c, "term") /\ Goto(c, "remove")
  /\ UNCHANGED <<disk, server, os>>

Terminate(c) ==
  /\ Is(c, "term") /\ Goto(c, "wait2")
  /\ signalled' = IF IsProcessRunning(Seen(c).pid)
                  THEN signalled \cup {Seen(c).pid} ELSE signalled
  /\ UNCHANGED <<disk, server, foreign, crashes>>

\* Two seconds more, then SIGKILL.
AwaitTerm(c) ==
  /\ Is(c, "wait2")
  /\ Goto(c, IF IsProcessRunning(Seen(c).pid) THEN "force" ELSE "remove")
  /\ UNCHANGED <<disk, server, os>>

\* SIGKILL fails if the process went away after the last look at it: the
\* command reports a failure and leaves the file and the helpers alone.
Kill(c) ==
  /\ Is(c, "force")
  /\ IF IsProcessRunning(Seen(c).pid)
     THEN signalled' = signalled \cup {Seen(c).pid} /\ Goto(c, "remove")
     ELSE UNCHANGED signalled /\ Goto(c, "failed")
  /\ UNCHANGED <<disk, server, foreign, crashes>>

StopRemove(c) == RemoveState(c, "remove", "reap")

\* The helpers of the record read at the start are killed.
Reap(c) ==
  /\ Is(c, "reap") /\ Goto(c, "stopped")
  /\ helpers' = helpers \ ({Seen(c).pid} \X Seen(c).helpers)
  /\ UNCHANGED <<disk, main, thread, bound, asked, os>>

-----------------------------------------------------------------------------
Command(c) ==
  \/ CleanupStaleServerState(c) \/ RunLauncher(c)
  \/ StartRead(c) \/ StartClear(c) \/ Spawn(c) \/ SpawnFails(c)
  \/ CommandStatus(c)
  \/ StopRead(c) \/ PostShutdown(c) \/ AwaitStop(c) \/ Terminate(c)
  \/ AwaitTerm(c) \/ Kill(c) \/ StopRemove(c) \/ Reap(c)

MainThread(p) ==
  \/ StartWhisperServer(p) \/ OpenState(p) \/ WriteState(p) \/ Bind(p)
  \/ Join(p) \/ SweepHelpers(p) \/ Leave(p) \/ LeaveUnbound(p)

BackgroundThread(p) ==
  \/ WaitForServerReady(p) \/ StartBackgroundProcesses(p)
  \/ OpenUpdated(p) \/ WriteUpdated(p)

Next ==
  \/ \E c \in Cmds : Begin(c) \/ Command(c)
  \/ \E p \in Pids : \/ MainThread(p) \/ BackgroundThread(p) \/ StopServing(p)
                     \/ Die(p) \/ Crash(p) \/ ReusePid(p)

\* The programs' own steps are taken, a signalled process dies.  Nothing is
\* asked of StopServing: closing the server waits for its open connections.
Fairness ==
  /\ \A c \in Cmds : WF_vars(Command(c))
  /\ \A p \in Pids : WF_vars(MainThread(p)) /\ WF_vars(BackgroundThread(p))
                     /\ WF_vars(Die(p))

Spec == Init /\ [][Next]_vars /\ Fairness

-----------------------------------------------------------------------------
\* A `run' that was stopped leaves nothing behind: none of the processes it
\* started lives on, also not those its thread was launching when the stop
\* came, and the state file does not name it.
StoppedLeavesNothing ==
  \A p \in Pids : main[p] = "ended" =>
    /\ LiveKinds(p) = {}
    /\ file \in RuntimeState => file.pid # p

\* `stop' says that it stopped a server only when the server whose record it
\* read is over, or dying of its signal, and the helpers of that record are
\* gone (usage: "stop    Stop the running managed server").
StopMeansStopped ==
  \A c \in Cmds : Is(c, "stopped") =>
    /\ Up(Seen(c).pid) => Seen(c).pid \in signalled
    /\ \A k \in Seen(c).helpers : <<Seen(c).pid, k>> \notin helpers

\* Once the background thread is done, a state file that names a server lists
\* every helper of it that still lives: a later `stop' finds them all.
HelpersRecorded ==
  \A p \in Pids :
    thread[p] = "done" /\ file \in RuntimeState /\ file.pid = p
      => LiveKinds(p) \subseteq file.helpers

\* `stop' ends the server it found running, by the endpoint or by a signal,
\* whatever its connections do.
StopEndsServer ==
  \A p \in Pids :
    (\E c \in Cmds : Is(c, "post") /\ Seen(c).pid = p) ~> ~Up(p)
=============================================================================
