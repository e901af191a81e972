----------------------- MODULE ServerLifecycleProofs -----------------------
(***************************************************************************)
(* Theorems about ServerLifecycle, for any number of servers, commands and *)
(* crashes.                                                                *)
(*                                                                         *)
(* What the commands rely on is what a record in the state file says of    *)
(* its server at any later time, whether it was read from the file or is   *)
(* still in it: the server got past writing its first record, and a helper *)
(* that is in the record is not launched again (Recorded).                 *)
(***************************************************************************)
EXTENDS ServerLifecycle, TLAPS

\* The main thread has not written the first record yet.
Early(p) == main[p] \in {"free", "boot", "open", "write"}

\* The background thread may still launch.
Launching(p) == thread[p] \in {"poll", "launch"}

Names(p) == file \in RuntimeState /\ file.pid = p

Recorded(r) ==
  /\ ~Early(r.pid)
  /\ "background" \in r.helpers => ~Launching(r.pid)

\* The two threads of a server: the background thread begins with the first
\* record and is over before the helpers are killed.
ThreadsInStep(p) ==
  /\ Early(p) => thread[p] = "off"
  /\ main[p] \in {"sweep", "leave", "ended", "rejected", "dead"} => thread[p] \in {"off", "done"}

HelpersInStep(p) ==
  /\ main[p] \in {"leave", "ended"} => LiveKinds(p) = {}
  /\ Early(p) \/ Launching(p) => <<p, "background">> \notin helpers

FileInStep(p) ==
  Names(p) =>
    /\ main[p] # "ended"
    /\ thread[p] # "write"
    /\ Launching(p) \/ thread[p] = "done" => LiveKinds(p) \subseteq file.helpers

ServerInv == \A p \in Pids : ThreadsInStep(p) /\ HelpersInStep(p) /\ FileInStep(p)

FileInv == file \in RuntimeState => Recorded(file)

\* The steps of `stop' after it found a running server, and those after it
\* saw the process gone or signalled it with SIGKILL.
Stop == {"post", "wait", "term", "wait2", "force", "remove", "reap", "stopped"}
Over == {"remove", "reap", "stopped"}

CommandOK(at, saw) ==
  /\ at \in Stop => saw # NoState
  /\ saw # NoState => Recorded(saw)
  /\ at \in Over /\ Up(saw.pid) => saw.pid \in signalled
  /\ at = "stopped" => \A k \in saw.helpers : <<saw.pid, k>> \notin helpers

CommandInv == \A c \in Cmds : CommandOK(cmd[c].at, cmd[c].saw)

Inv == TypeOK /\ ServerInv /\ FileInv /\ CommandInv

-----------------------------------------------------------------------------
\* A record of the file is one whoever reads it.
LEMMA Reading ==
  ASSUME TypeOK
  PROVE  /\ ReadState \in RuntimeState \cup {NoState}
         /\ ReadState # NoState => file \in RuntimeState /\ ReadState = file
         /\ \A r \in RuntimeState : r # NoState /\ r # Torn
                                    /\ r.pid \in Pids /\ r.helpers \subseteq Helpers
BY AbsenceAssumption DEF TypeOK, ReadState, RuntimeState

\* The initial state satisfies the invariant.
LEMMA InitInv == ASSUME Init PROVE Inv
<1>1. TypeOK
  BY AbsenceAssumption DEF Init, TypeOK, MainSteps, ThreadSteps, CmdSteps
<1>2. ServerInv
  BY AbsenceAssumption DEF Init, ServerInv, ThreadsInStep, HelpersInStep, FileInStep,
     Names, Early, Launching, LiveKinds
<1>3. FileInv BY AbsenceAssumption DEF Init, FileInv
<1>4. CommandInv BY DEF Init, CommandInv, CommandOK, Stop, Over
<1> QED BY <1>1, <1>2, <1>3, <1>4 DEF Inv

-----------------------------------------------------------------------------
(* Steps of commands: no server moves but the one that is spawned.         *)

\* A command that goes to another step, removes the file, accuses or kills
\* helpers keeps the invariant if its own step may be taken.
LEMMA CommandKeeps ==
  ASSUME Inv, NEW c \in Cmds, NEW at \in CmdSteps, NEW saw \in RuntimeState \cup {NoState},
         cmd' = [cmd EXCEPT ![c] = [at |-> at, saw |-> saw]],
         UNCHANGED <<main, thread, bound, foreign, crashes>>,
         file' \in {file, NoState}, writers' \subseteq writers, helpers' \subseteq helpers,
         signalled \subseteq signalled', signalled' \subseteq Pids, asked' \subseteq Pids,
         CommandOK(at, saw)'
  PROVE  Inv'
<1>1. TypeOK'
  BY DEF Inv, TypeOK
<1>2. ServerInv'
  BY AbsenceAssumption DEF Inv, ServerInv, ThreadsInStep, HelpersInStep, FileInStep,
     Names, Early, Launching, LiveKinds
<1>3. FileInv'
  BY AbsenceAssumption DEF Inv, FileInv, Recorded, Early, Launching
<1>4. ASSUME NEW d \in Cmds, d # c PROVE CommandOK(cmd[d].at, cmd[d].saw)'
  <2>1. cmd'[d] = cmd[d] BY <1>4 DEF Inv, TypeOK
  <2>2. CommandOK(cmd[d].at, cmd[d].saw) BY DEF Inv, CommandInv
  <2> QED BY <2>1, <2>2 DEF CommandOK, Recorded, Early, Launching, Up
<1>5. cmd'[c] = [at |-> at, saw |-> saw] BY DEF Inv, TypeOK
<1> QED BY <1>1, <1>2, <1>3, <1>4, <1>5 DEF Inv, CommandInv

\* Going on with the record read before, to a step where nothing more than
\* before is asked of it.
LEMMA GotoKeeps ==
  ASSUME Inv, NEW c \in Cmds, NEW at \in CmdSteps, Goto(c, at),
         UNCHANGED <<main, thread, bound, foreign, crashes>>,
         file' \in {file, NoState}, writers' \subseteq writers, helpers' \subseteq helpers,
         signalled \subseteq signalled', signalled' \subseteq Pids, asked' \subseteq Pids,
         at \in Stop => cmd[c].at \in Stop,
         at \in Over /\ Up(Seen(c).pid) => Seen(c).pid \in signalled',
         at = "stopped" => \A k \in Seen(c).helpers : <<Seen(c).pid, k>> \notin helpers'
  PROVE  Inv'
<1>1. PICK saw : saw = cmd[c].saw OBVIOUS
<1>2. cmd' = [cmd EXCEPT ![c] = [at |-> at, saw |-> saw]]
  <2>1. cmd' = [cmd EXCEPT ![c] = [cmd[c] EXCEPT !.at = at]] BY DEF Goto
  <2>2. cmd[c] \in [at : CmdSteps, saw : RuntimeState \cup {NoState}] BY DEF Inv, TypeOK
  <2>3. [cmd[c] EXCEPT !.at = at] = [at |-> at, saw |-> saw] BY <1>1, <2>2
  <2> QED BY <2>1, <2>3
<1>3. saw \in RuntimeState \cup {NoState} BY <1>1 DEF Inv, TypeOK
<1>4. CommandOK(cmd[c].at, saw) BY <1>1 DEF Inv, CommandInv
<1>5. CommandOK(at, saw)'
  BY <1>1, <1>4 DEF CommandOK, Recorded, Early, Launching, Up, Seen
<1> QED BY <1>2, <1>3, <1>5, CommandKeeps
\* Reading the state file, as start, status and stop do first.
LEMMA ReadKeeps ==
  ASSUME Inv, NEW c \in Cmds, NEW at \in CmdSteps, ReadInto(c, at),
         UNCHANGED <<disk, server, os>>,
         at \in Stop => at = "post" /\ Found
  PROVE  Inv'
<1>1. PICK saw : saw = ReadState OBVIOUS
<1>2. saw \in RuntimeState \cup {NoState} BY <1>1, Reading DEF Inv
<1>3. CommandOK(at, saw)'
  BY <1>1, Reading DEF Inv, FileInv, CommandOK, Recorded, Early, Launching, Found,
     Stop, Over, server
<1>4. TypeOK BY DEF Inv
<1> QED BY <1>1, <1>2, <1>3, <1>4, CommandKeeps DEF ReadInto, disk, server, os, TypeOK

\* Spawning takes a server from free to boot; nothing in the file or read from
\* it speaks of a free one.
LEMMA SpawnKeeps == ASSUME Inv, NEW c \in Cmds, Spawn(c) PROVE Inv'
<1>1. FreshPid \in Pids /\ main[FreshPid] = "free" BY DEF Spawn, FreshPid
<1>2. main' = [main EXCEPT ![FreshPid] = "boot"] /\ Goto(c, "done")
      /\ UNCHANGED <<disk, thread, bound, asked, helpers, os>>
  BY DEF Spawn, MainTo
<1>3. cmd' = [cmd EXCEPT ![c] = [cmd[c] EXCEPT !.at = "done"]] BY <1>2 DEF Goto
<1>4. TypeOK'
  <2>1. cmd' \in [Cmds -> [at : CmdSteps, saw : RuntimeState \cup {NoState}]]
    BY <1>3 DEF Inv, TypeOK, CmdSteps
  <2>2. main' \in [Pids -> MainSteps] BY <1>1, <1>2 DEF Inv, TypeOK, MainSteps
  <2> QED BY <1>2, <2>1, <2>2 DEF Inv, TypeOK, disk, os
<1>5. ServerInv'
  BY <1>1, <1>2 DEF Inv, TypeOK, ServerInv, ThreadsInStep, HelpersInStep, FileInStep,
     Names, Early, Launching, LiveKinds, disk
<1>6. \A r : r.pid \in Pids /\ Recorded(r) => Recorded(r)'
  BY <1>1, <1>2 DEF Inv, TypeOK, Recorded, Early, Launching
<1>7. FileInv'
  BY <1>2, <1>6, Reading DEF Inv, FileInv, disk
<1>8. ASSUME NEW d \in Cmds PROVE CommandOK(cmd[d].at, cmd[d].saw)'
  <2>1. PICK saw : saw = cmd[d].saw OBVIOUS
  <2>2. cmd'[d].saw = saw /\ (cmd'[d].at = cmd[d].at \/ cmd'[d].at = "done")
    BY <1>3, <2>1 DEF Inv, TypeOK
  <2>3. saw # NoState => saw.pid \in Pids BY <2>1, Reading DEF Inv, TypeOK
  <2>4. CommandOK(cmd[d].at, saw) BY <2>1 DEF Inv, CommandInv
  <2>5. saw # NoState => Recorded(saw)' BY <1>6, <2>3, <2>4 DEF CommandOK
  <2>6. saw # NoState /\ Up(saw.pid)' => Up(saw.pid)
    BY <1>1, <1>2, <2>3, <2>4 DEF Inv, TypeOK, CommandOK, Recorded, Early, Up
  <2>7. CommandOK(cmd[d].at, saw)'
    BY <1>2, <2>2, <2>4, <2>5, <2>6 DEF CommandOK, Stop, Over, os
  <2> QED BY <2>2, <2>7 DEF CommandOK
<1> QED BY <1>4, <1>5, <1>7, <1>8 DEF Inv, CommandInv

\* No step of a command breaks the invariant.
LEMMA CommandStep == ASSUME Inv, NEW c \in Cmds, Begin(c) \/ Command(c) PROVE Inv'
<1> USE DEF disk, server, os, Is, CmdSteps, Stop, Over
<1>1. TypeOK BY DEF Inv
<1>2. cmd[c].at \in Stop =>
        /\ Seen(c) \in RuntimeState /\ Seen(c).pid \in Pids /\ Seen(c).helpers \subseteq Helpers
  BY <1>1, Reading DEF Inv, CommandInv, CommandOK, Seen, TypeOK
<1>3. cmd[c].at \in Over /\ Up(Seen(c).pid) => Seen(c).pid \in signalled
  BY DEF Inv, CommandInv, CommandOK, Seen
<1>4. ASSUME NEW from, NEW to \in CmdSteps, RemoveState(c, from, to),
             to \in Stop => from \in {"remove"} /\ to = "reap"
      PROVE  Inv'
  BY <1>1, <1>3, <1>4, GotoKeeps DEF RemoveState, Remove, TypeOK
<1>5. CASE Begin(c)
  <2>1. PICK k \in Kinds[c] :
          Goto(c, CASE k = "run" -> "spawn" [] k = "start" -> "read"
                    [] k = "launch" -> "probe" [] k = "status" -> "status"
                    [] k = "stop" -> "stop")
    BY <1>5 DEF Begin
  <2>2. \E at \in {"spawn", "read", "probe", "status", "stop"} : Goto(c, at)
    BY <2>1, KindsAssumption
  <2>3. PICK at \in {"spawn", "read", "probe", "status", "stop"} : Goto(c, at) BY <2>2
  <2> QED BY <1>1, <1>5, <2>3, GotoKeeps DEF Begin, TypeOK
<1>6. CASE CleanupStaleServerState(c)
  BY <1>1, <1>4, <1>6, GotoKeeps DEF CleanupStaleServerState, TypeOK
<1>7. CASE RunLauncher(c)
  BY <1>1, <1>7, GotoKeeps DEF RunLauncher, TypeOK
<1>8. CASE StartRead(c)
  BY <1>8, ReadKeeps DEF StartRead
<1>9. CASE StartClear(c)
  BY <1>9, <1>4 DEF StartClear
<1>10. CASE Spawn(c)
  BY <1>10, SpawnKeeps
<1>11. CASE SpawnFails(c)
  BY <1>1, <1>11, GotoKeeps DEF SpawnFails, TypeOK
<1>12. CASE CommandStatus(c)
  BY <1>12, <1>4, ReadKeeps DEF CommandStatus
<1>13. CASE StopRead(c)
  BY <1>13, ReadKeeps DEF StopRead, FoundRunning
<1>14. CASE PostShutdown(c)
  <2>1. \A to : Accepted(c, to) \subseteq Pids BY <1>2, <1>14 DEF PostShutdown, Accepted
  <2> QED BY <1>1, <1>14, <2>1, GotoKeeps DEF PostShutdown, TypeOK
<1>15. CASE AwaitStop(c)
  BY <1>1, <1>15, GotoKeeps DEF AwaitStop, TypeOK, IsProcessRunning
<1>16. CASE Terminate(c)
  BY <1>1, <1>2, <1>16, GotoKeeps DEF Terminate, TypeOK
<1>17. CASE AwaitTerm(c)
  BY <1>1, <1>17, GotoKeeps DEF AwaitTerm, TypeOK, IsProcessRunning
<1>18. CASE Kill(c)
  BY <1>1, <1>2, <1>18, GotoKeeps DEF Kill, TypeOK
<1>19. CASE StopRemove(c)
  BY <1>19, <1>4 DEF StopRemove
<1>20. CASE Reap(c)
  BY <1>1, <1>3, <1>20, GotoKeeps DEF Reap, TypeOK
<1> QED BY <1>5, <1>6, <1>7, <1>8, <1>9, <1>10, <1>11, <1>12, <1>13, <1>14, <1>15,
           <1>16, <1>17, <1>18, <1>19, <1>20 DEF Command
-----------------------------------------------------------------------------
(* Steps of servers: the one that moves only goes on.                      *)

\* A server goes on: it neither comes back to its beginning nor to life, its
\* thread does not come back to launching, it launches the whisper server in
\* its beginning and the background processes from its thread.
Onward(p) ==
  /\ \A q \in Pids \ {p} : main'[q] = main[q] /\ thread'[q] = thread[q]
  /\ Early(p)' => Early(p)
  /\ Launching(p)' => Launching(p) \/ Early(p)
  /\ Up(p)' => Up(p)
  /\ \A q \in signalled \ signalled' : ~Up(q)'
  /\ \A h \in helpers' \ helpers : \/ Early(p) /\ h = <<p, "whisper">>
                                   \/ Launching(p) /\ h = <<p, "background">>

\* What the records in the file and in the commands say stays true.
LEMMA OnwardKeeps ==
  ASSUME Inv, NEW p \in Pids, TypeOK', cmd' = cmd, Onward(p), 
         file' # file /\ file' \in RuntimeState => file'.pid = p /\ Recorded(file)',
         ThreadsInStep(p)', HelpersInStep(p)', FileInStep(p)'
  PROVE  Inv'
<1>1. \A r \in RuntimeState : Recorded(r) => Recorded(r)'
  BY Reading DEF Inv, Onward, Recorded, Early, Launching
<1>2. FileInv'
  BY <1>1 DEF Inv, FileInv
<1>3. ASSUME NEW q \in Pids, q # p
      PROVE  ThreadsInStep(q)' /\ HelpersInStep(q)' /\ FileInStep(q)'
  <2>1. main'[q] = main[q] /\ thread'[q] = thread[q] BY <1>3 DEF Onward
  <2>2. \A k : <<q, k>> \in helpers' => <<q, k>> \in helpers BY <1>3 DEF Onward
  <2>3. ThreadsInStep(q) /\ HelpersInStep(q) /\ FileInStep(q) BY DEF Inv, ServerInv
  <2>4. Names(q)' => Names(q) /\ file' = file BY <1>3 DEF Names
  <2>5. ThreadsInStep(q)' BY <2>1, <2>3 DEF ThreadsInStep, Early
  <2>6. HelpersInStep(q)'
    BY <2>1, <2>2, <2>3 DEF HelpersInStep, Early, Launching, LiveKinds
  <2>7. FileInStep(q)'
    BY <2>1, <2>2, <2>3, <2>4 DEF FileInStep, Launching, LiveKinds
  <2> QED BY <2>5, <2>6, <2>7
<1>4. ServerInv' BY <1>3 DEF ServerInv
<1>5. ASSUME NEW c \in Cmds PROVE CommandOK(cmd[c].at, cmd[c].saw)'
  <2>1. PICK at, saw : at = cmd[c].at /\ saw = cmd[c].saw OBVIOUS
  <2>2. CommandOK(at, saw) /\ saw \in RuntimeState \cup {NoState}
    BY <2>1 DEF Inv, CommandInv, TypeOK
  <2>3. saw # NoState => saw.pid \in Pids /\ saw.helpers \subseteq Helpers /\ Recorded(saw)'
    BY <1>1, <2>2, Reading DEF Inv, CommandOK
  <2>4. saw # NoState /\ Up(saw.pid)' => Up(saw.pid) BY <2>3 DEF Onward, Up
  <2>5. saw # NoState => \A k \in saw.helpers : <<saw.pid, k>> \in helpers'
                                                => <<saw.pid, k>> \in helpers
    BY <2>2 DEF Onward, CommandOK, Recorded
  <2>6. saw # NoState /\ Up(saw.pid)' /\ saw.pid \in signalled => saw.pid \in signalled'
    BY DEF Onward
  <2>7. CommandOK(at, saw)' BY <2>2, <2>3, <2>4, <2>5, <2>6 DEF CommandOK, Stop, Over
  <2> QED BY <2>1, <2>7 DEF CommandOK
<1> QED BY <1>2, <1>4, <1>5 DEF Inv, CommandInv
\* No step of the main thread breaks the invariant.
LEMMA MainStep == ASSUME Inv, NEW p \in Pids, MainThread(p) \/ StopServing(p) PROVE Inv'
<1> USE DEF MainTo, disk, os
<1> DEFINE Kept == ThreadsInStep(p)' /\ HelpersInStep(p)' /\ FileInStep(p)'
<1>1. TypeOK /\ ThreadsInStep(p) /\ HelpersInStep(p) /\ FileInStep(p)
  BY DEF Inv, ServerInv
<1>2. FileInv BY DEF Inv
<1>3. CASE StartWhisperServer(p)
  <2>1. TypeOK'
    BY <1>1, <1>3 DEF StartWhisperServer, LaunchDetached, TypeOK, MainSteps, Helpers
  <2>2. Onward(p)
    BY <1>1, <1>3 DEF StartWhisperServer, LaunchDetached, TypeOK, Onward, Early, Launching, Up
  <2>3. Kept
    BY <1>1, <1>2, <1>3 DEF StartWhisperServer, LaunchDetached, TypeOK, ThreadsInStep,
       HelpersInStep, FileInStep, Names, LiveKinds, Early, Launching, FileInv, Recorded
  <2> QED BY <1>3, <2>1, <2>2, <2>3, OnwardKeeps DEF StartWhisperServer
<1>4. CASE OpenState(p)
  <2>1. TypeOK' BY <1>1, <1>4 DEF OpenState, Open, TypeOK, MainSteps
  <2>2. Onward(p) BY <1>1, <1>4 DEF OpenState, TypeOK, Onward, Early, Launching, Up
  <2>3. Kept
    BY <1>1, <1>4, AbsenceAssumption DEF OpenState, Open, TypeOK, ThreadsInStep,
       HelpersInStep, FileInStep, Names, LiveKinds, Early, Launching
  <2> QED BY <1>4, <2>1, <2>2, <2>3, OnwardKeeps, AbsenceAssumption DEF OpenState, Open
<1>5. CASE WriteState(p)
  <2>1. [pid |-> p, helpers |-> LiveKinds(p)] \in RuntimeState
    BY DEF RuntimeState, LiveKinds
  <2>2. TypeOK'
    BY <1>1, <1>5, <2>1 DEF WriteState, Write, TypeOK, MainSteps, ThreadSteps
  <2>3. Onward(p) BY <1>1, <1>5 DEF WriteState, TypeOK, Onward, Early, Launching, Up
  <2>4. "background" \notin LiveKinds(p)
    BY <1>1, <1>5 DEF WriteState, HelpersInStep, Early, LiveKinds
  <2>5. main'[p] = "bind" /\ thread'[p] \in {"off", "poll"}
    BY <1>1, <1>5 DEF WriteState, TypeOK, ThreadsInStep, Early
  <2>6. Kept
    BY <1>1, <1>2, <1>5, <2>4, <2>5 DEF WriteState, Write, ThreadsInStep, HelpersInStep,
       FileInStep, Names, LiveKinds, Early, Launching, FileInv, Recorded
  <2>7. file' # file => file'.pid = p /\ Recorded(file)'
    BY <1>5, <2>4, <2>5 DEF WriteState, Write, Recorded, Early
  <2> QED BY <1>5, <2>2, <2>3, <2>6, <2>7, OnwardKeeps DEF WriteState
<1>6. CASE Bind(p) \/ StopServing(p)
  <2>1. TypeOK' BY <1>1, <1>6 DEF Bind, StopServing, TypeOK, MainSteps
  <2>2. Onward(p) BY <1>1, <1>6 DEF Bind, StopServing, TypeOK, Onward, Early, Launching, Up
  <2>3. Kept
    BY <1>1, <1>6 DEF Bind, StopServing, TypeOK, ThreadsInStep, HelpersInStep, FileInStep,
       Names, LiveKinds, Early, Launching
  <2> QED BY <1>6, <2>1, <2>2, <2>3, OnwardKeeps DEF Bind, StopServing
<1>7. CASE Join(p) \/ SweepHelpers(p)
  <2>1. TypeOK' BY <1>1, <1>7 DEF Join, SweepHelpers, TypeOK, MainSteps
  <2>2. Onward(p) BY <1>1, <1>7 DEF Join, SweepHelpers, TypeOK, Onward, Early, Launching, Up
  <2>3. Kept
    BY <1>1, <1>7 DEF Join, SweepHelpers, TypeOK, ThreadsInStep, HelpersInStep, FileInStep,
       Names, LiveKinds, Early, Launching
  <2> QED BY <1>7, <2>1, <2>2, <2>3, OnwardKeeps DEF Join, SweepHelpers
<1>8. CASE Leave(p) \/ LeaveUnbound(p)
  <2>1. TypeOK' BY <1>1, <1>8 DEF Leave, LeaveUnbound, Remove, TypeOK, MainSteps
  <2>2. Onward(p) BY <1>1, <1>8 DEF Leave, LeaveUnbound, TypeOK, Onward, Early, Launching, Up
  <2>3. Kept
    BY <1>1, <1>8, AbsenceAssumption DEF Leave, LeaveUnbound, Remove, TypeOK,
       ThreadsInStep, HelpersInStep, FileInStep, Names, LiveKinds, Early, Launching
  <2> QED
    BY <1>8, <2>1, <2>2, <2>3, OnwardKeeps, AbsenceAssumption DEF Leave, LeaveUnbound, Remove
<1> QED BY <1>3, <1>4, <1>5, <1>6, <1>7, <1>8 DEF MainThread

\* No step of the background thread breaks the invariant.
LEMMA BackgroundStep == ASSUME Inv, NEW p \in Pids, BackgroundThread(p) PROVE Inv'
<1> USE DEF ThreadTo, disk, os
<1> DEFINE Kept == ThreadsInStep(p)' /\ HelpersInStep(p)' /\ FileInStep(p)'
<1>1. TypeOK /\ ThreadsInStep(p) /\ HelpersInStep(p) /\ FileInStep(p)
  BY DEF Inv, ServerInv
<1>2. thread[p] # "off" /\ thread[p] # "done"
  BY DEF BackgroundThread, WaitForServerReady, StartBackgroundProcesses, OpenUpdated, WriteUpdated
<1>3. ~Early(p) /\ main[p] \notin {"sweep", "leave", "ended", "rejected", "dead"}
  BY <1>1, <1>2 DEF ThreadsInStep
<1>4. CASE WaitForServerReady(p)
  <2>1. TypeOK' BY <1>1, <1>4 DEF WaitForServerReady, TypeOK, ThreadSteps
  <2>2. Onward(p) BY <1>1, <1>4 DEF WaitForServerReady, TypeOK, Onward, Early, Launching, Up
  <2>3. Kept
    BY <1>1, <1>3, <1>4 DEF WaitForServerReady, TypeOK, ThreadsInStep, HelpersInStep,
       FileInStep, Names, LiveKinds, Early, Launching
  <2> QED BY <1>4, <2>1, <2>2, <2>3, OnwardKeeps DEF WaitForServerReady
<1>5. CASE StartBackgroundProcesses(p)
  <2>1. TypeOK'
    BY <1>1, <1>5 DEF StartBackgroundProcesses, LaunchDetached, TypeOK, ThreadSteps, Helpers
  <2>2. Onward(p)
    BY <1>1, <1>5 DEF StartBackgroundProcesses, LaunchDetached, TypeOK, Onward, Early,
       Launching, Up
  <2>3. Kept
    BY <1>1, <1>3, <1>5 DEF StartBackgroundProcesses, LaunchDetached, TypeOK, ThreadsInStep,
       HelpersInStep, FileInStep, Names, LiveKinds, Early, Launching
  <2> QED BY <1>5, <2>1, <2>2, <2>3, OnwardKeeps DEF StartBackgroundProcesses
<1>6. CASE OpenUpdated(p)
  <2>1. TypeOK' BY <1>1, <1>6 DEF OpenUpdated, Open, TypeOK, ThreadSteps
  <2>2. Onward(p) BY <1>1, <1>6 DEF OpenUpdated, TypeOK, Onward, Early, Launching, Up
  <2>3. Kept
    BY <1>1, <1>3, <1>6, AbsenceAssumption DEF OpenUpdated, Open, TypeOK, ThreadsInStep,
       HelpersInStep, FileInStep, Names, LiveKinds, Early, Launching
  <2> QED BY <1>6, <2>1, <2>2, <2>3, OnwardKeeps, AbsenceAssumption DEF OpenUpdated, Open
<1>7. CASE WriteUpdated(p)
  <2>1. [pid |-> p, helpers |-> LiveKinds(p)] \in RuntimeState
    BY DEF RuntimeState, LiveKinds
  <2>2. TypeOK' BY <1>1, <1>7, <2>1 DEF WriteUpdated, Updated, Write, TypeOK, ThreadSteps
  <2>3. Onward(p) BY <1>1, <1>7 DEF WriteUpdated, TypeOK, Onward, Early, Launching, Up
  <2>4. Kept
    BY <1>1, <1>3, <1>7, <2>1 DEF WriteUpdated, Updated, Write, TypeOK, ThreadsInStep,
       HelpersInStep, FileInStep, Names, LiveKinds, Early, Launching
  <2>5. file' # file => file'.pid = p /\ Recorded(file)'
    BY <1>1, <1>3, <1>7 DEF WriteUpdated, Updated, Write, Recorded, Early, Launching, TypeOK
  <2> QED BY <1>7, <2>2, <2>3, <2>4, <2>5, OnwardKeeps DEF WriteUpdated
<1> QED BY <1>4, <1>5, <1>6, <1>7 DEF BackgroundThread

\* No death and no reuse of an id breaks the invariant.
LEMMA SystemStep == ASSUME Inv, NEW p \in Pids, Die(p) \/ Crash(p) \/ ReusePid(p) PROVE Inv'
<1> USE DEF disk, server
<1> DEFINE Kept == ThreadsInStep(p)' /\ HelpersInStep(p)' /\ FileInStep(p)'
<1>1. TypeOK /\ ThreadsInStep(p) /\ HelpersInStep(p) /\ FileInStep(p)
  BY DEF Inv, ServerInv
<1>2. cmd' = cmd /\ file' = file /\ helpers' = helpers
  BY DEF Die, Crash, ReusePid
<1>3. TypeOK'
  BY <1>1, AbsenceAssumption DEF Die, Crash, ReusePid, Gone, TypeOK, MainSteps, ThreadSteps
<1>4. Onward(p)
  BY <1>1 DEF Die, Crash, ReusePid, Gone, TypeOK, Onward, Early, Launching, Up
<1>5. Kept
  BY <1>1 DEF Die, Crash, ReusePid, Gone, TypeOK, ThreadsInStep, HelpersInStep,
     FileInStep, Names, LiveKinds, Early, Launching, Up
<1> QED BY <1>2, <1>3, <1>4, <1>5, OnwardKeeps

-----------------------------------------------------------------------------
\* Every reachable state satisfies the invariant.
LEMMA Invariance == Spec => []Inv
<1>1. Inv /\ [Next]_vars => Inv'
  <2> SUFFICES ASSUME Inv, [Next]_vars PROVE Inv' OBVIOUS
  <2>1. CASE Next
    BY <2>1, CommandStep, MainStep, BackgroundStep, SystemStep DEF Next
  <2>2. CASE UNCHANGED vars
    BY <2>2 DEF vars, Inv, TypeOK, ServerInv, ThreadsInStep, HelpersInStep, FileInStep,
       Names, LiveKinds, Early, Launching, FileInv, Recorded, CommandInv, CommandOK, Up
  <2> QED BY <2>1, <2>2
<1> QED BY <1>1, InitInv, PTL DEF Spec

\* Every reachable state is well typed (TypeOK): in particular `stop' only
\* signals and asks a server it has a record of.
THEOREM LifecycleTypeCorrect == Spec => []TypeOK
<1>1. Inv => TypeOK BY DEF Inv
<1> QED BY <1>1, Invariance, PTL

\* A `run' that was stopped leaves no helper process behind and no state file
\* that names it (CommandRun, StoppedLeavesNothing).
THEOREM StoppedRunIsClean == Spec => []StoppedLeavesNothing
<1>1. Inv => StoppedLeavesNothing
  BY DEF Inv, ServerInv, HelpersInStep, FileInStep, Names, StoppedLeavesNothing
<1> QED BY <1>1, Invariance, PTL

\* `stop' reports a stopped server only when that server is over or dying and
\* the helpers of its record are gone (CommandStop, StopMeansStopped).
THEOREM StopIsTruthful == Spec => []StopMeansStopped
<1>1. Inv => StopMeansStopped
  BY DEF Inv, CommandInv, CommandOK, Over, Seen, Is, StopMeansStopped
<1> QED BY <1>1, Invariance, PTL

\* Once the background thread of a server is done, a state file that names the
\* server lists all its live helpers (HelpersRecorded).
THEOREM RecordIsComplete == Spec => []HelpersRecorded
<1>1. Inv => HelpersRecorded
  BY DEF Inv, ServerInv, FileInStep, Names, HelpersRecorded
<1> QED BY <1>1, Invariance, PTL
=============================================================================
