------------------------------ MODULE Program ------------------------------
(***************************************************************************)
(* The program around the components (main.cpp): the window thread with    *)
(* its messages, menus and dialogs, StartP2P and StopP2P, which change the *)
(* icon in the tray, which may stop and start P2P in its turn, the timer   *)
(* that resumes after a suspend, the threads that rebuild and reindex the  *)
(* database (O2DatIO.cpp), and the end of the program in a thread of its   *)
(* own, which stops everything and deletes it while the window thread      *)
(* waits for it.  The P2P port is not 0.                                   *)
(*                                                                         *)
(* The window thread has a stack of calls.  A modal dialog or menu on top  *)
(* of it, like the loop below it, handles whatever message comes; a StopP2P*)
(* on top of it handles none.  Balloons are sent: the thread that shows    *)
(* one waits until the window thread handles messages again.               *)
(*                                                                         *)
(* Of Server, Scheduler and Client only what their Stop waits for is kept. *)
(***************************************************************************)
EXTENDS Naturals, Sequences, SequencesExt

CONSTANTS
    Parser,         \* threads of Server_P2P that answer requests
    JobThread,      \* threads of the scheduler's jobs
    MaxEvents,      \* what the user, the system and the threads begin (bound of the model)
    MaxQueue        \* posted messages (bound of the model)

ASSUME ProgramAssumption ==
    /\ Parser \cap JobThread = {}
    /\ MaxEvents \in Nat
    /\ MaxQueue \in Nat

Worker == Parser \cup JobThread

Command == {"start", "stop", "rebuild", "reindex", "option", "exit"}
Posted == Command \cup {"halt", "close"}

(* A StopP2P goes by what comes after it: a StartP2P after "restart", a    *)
(* ChangeTrayIcon ("tray") after "halt".                                   *)
Stopping == {"stop", "restart", "suspend", "halt"}
P2PCall == Stopping \cup {"start", "tray"}

(* at: what Active was when a menu was opened; what a StopP2P waits for; of*)
(* all the P2PCalls, that ChangeTrayIcon is called ("icon") or has come    *)
(* back from stopping and starting P2P ("restarted").                      *)
Frame ==
    [call : {"menu"}, at : {"active", "inactive"}]
        \cup [call : {"ask", "option", "box", "cancel", "exit"}, at : {"-"}]
        \cup [call : Stopping, at : {"server", "jobs", "icon", "restarted"}]
        \cup [call : {"start"}, at : {"begin", "icon", "restarted"}]
        \cup [call : {"tray"}, at : {"icon", "restarted"}]

VARIABLES
    stack,          \* the calls of the window thread, the innermost last
    queue,          \* the messages posted to the main window
    active,         \* Active
    server,         \* Server_P2P
    sched,          \* the scheduler
    worker,         \* what each worker does; it sends a balloon in "send"
    haltTarget,     \* hwndEmergencyHaltCallback is set
    recent,         \* LastRestartP2P is less than ten minutes ago
    crossed,        \* history: in the last StartP2P or StopP2P the icon restarted P2P
    dlg,            \* hwndProgressDlg: none, that of a task, that of FinalizeApp
    progress,       \* ProgressInfo.active
    stoppable,      \* ProgressInfo.stoppable
    rebuild,        \* the thread of RebuildDB
    loop,           \* LoopRebuildDB
    reindex,        \* the thread of Reindex
    stopBySuspend,  \* P2PStopBySuspend
    resumeTimer,    \* ResumeTimer is set
    power,          \* the system: "asking" to be suspended, "resumed" and about to say
                    \* so, "ending" the session
    fin,            \* where FinalizeAppThread is
    life,           \* "fallen": something deleted was used
    events,         \* how many of MaxEvents are left
    owed,           \* history: P2P was stopped for a suspend ("asked") that came ("slept")
    again           \* history: a task was asked for while its thread was there

p2pVars == <<active, server, sched, haltTarget, recent, crossed>>
dlgVars == <<dlg, progress, stoppable>>
taskVars == <<rebuild, loop, reindex, again>>
powerVars == <<stopBySuspend, resumeTimer, power, owed>>
vars == <<stack, queue, p2pVars, worker, dlgVars, taskVars, powerVars, fin, life, events>>

(* A call that takes no messages has nothing above it but what it calls:   *)
(* a restart by its ChangeTrayIcon.                                        *)
Covers(f) == f.call # "cancel" /\ (f.call \in P2PCall => f.at = "restarted")

TypeOK ==
    /\ stack \in Seq(Frame)
    /\ \A k \in DOMAIN stack : k # Len(stack) => Covers(stack[k])
    /\ queue \in Seq(Posted)
    /\ active \in BOOLEAN
    /\ server \in {"off", "on", "stopping"}
    /\ sched \in {"off", "on", "stopping"}
    /\ worker \in [Worker -> {"idle", "work", "send"}]
    /\ haltTarget \in BOOLEAN /\ recent \in BOOLEAN /\ crossed \in BOOLEAN
    /\ dlg \in {"none", "task", "exit"}
    /\ progress \in BOOLEAN
    /\ stoppable \in BOOLEAN
    /\ rebuild \in {"off", "begin", "scan", "swap"}
    /\ loop \in BOOLEAN
    /\ reindex \in {"off", "run", "end"}
    /\ stopBySuspend \in BOOLEAN
    /\ resumeTimer \in BOOLEAN
    /\ power \in {"awake", "asking", "resumed", "ending"}
    /\ fin \in {"off", "rebuild", "server", "jobs", "close", "last", "ended"}
    /\ life \in {"run", "over", "fallen"}
    /\ events \in 0..MaxEvents
    /\ owed \in {"no", "asked", "slept"}
    /\ again \in BOOLEAN

(* InitializeApp has returned.  It has called StartP2P, with any outcome,  *)
(* or not, as P2PAutoStart and the ports say.                              *)
Init ==
    /\ stack = <<>> /\ queue = <<>>
    /\ active \in BOOLEAN
    /\ server = (IF active THEN "on" ELSE "off") /\ sched = server
    /\ haltTarget \in BOOLEAN /\ (active => haltTarget)
    /\ recent = FALSE /\ crossed = FALSE
    /\ worker = [w \in Worker |-> "idle"]
    /\ dlg = "none" /\ progress = FALSE /\ stoppable = FALSE
    /\ rebuild = "off" /\ loop = FALSE /\ reindex = "off" /\ again = FALSE
    /\ stopBySuspend = FALSE /\ resumeTimer = FALSE /\ power = "awake" /\ owed = "no"
    /\ fin = "off" /\ life = "run" /\ events = MaxEvents

Top == IF stack = <<>> THEN "loop" ELSE Last(stack).call
Push(call, at) == stack' = Append(stack, [call |-> call, at |-> at])
Pop == stack' = Front(stack)
Become(call, at) == stack' = Append(Front(stack), [call |-> call, at |-> at])
Within(call) == \E k \in DOMAIN stack : stack[k].call = call

\* Bug: StopP2P takes messages while it waits.
Handles_Pumps == life = "run" /\ Top # "cancel"

\* Bug: FinalizeApp waits for its thread without taking messages.
Handles_Waits == life = "run" /\ Top \in {"loop", "menu", "ask", "option", "box"}

(* The window thread gets to its messages, those that are sent at least:   *)
(* FinalizeApp takes of the posted ones only those of its dialog, but all  *)
(* of them when that is gone, for NULL means any window.                   *)
Handles == life = "run" /\ Top \in {"loop", "menu", "ask", "option", "box", "exit"}
HandlesPosted == Handles /\ (Top = "exit" => dlg = "none")

Event == events > 0 /\ events' = events - 1
Post(m) == Len(queue) < MaxQueue /\ queue' = Append(queue, m)

Deleted == fin \in {"last", "ended"}

(* Something that FinalizeAppThread has deleted is used. *)
Fall ==
    /\ life' = "fallen"
    /\ UNCHANGED <<stack, p2pVars, worker, dlgVars, taskVars, powerVars, fin>>

-----------------------------------------------------------------------------
(* StartP2P and StopP2P. *)

(* StopP2P calls Stop of the server if that is active, ... *)
StopBegins(at) ==
    \/ /\ server = "on" /\ at = "server"
       /\ server' = "stopping"
       /\ UNCHANGED sched
    \/ /\ server # "on" /\ at = "jobs"
       /\ sched' = "stopping"
       /\ UNCHANGED server

(* ... which waits for the requests that are being answered; then it calls *)
(* Stop of the scheduler, ...                                              *)
ServerStopped ==
    /\ \A p \in Parser : worker[p] = "idle"
    /\ server' = "off"
    /\ sched' = "stopping"

(* ... which waits for the jobs. *)
JobsStopped ==
    /\ \A j \in JobThread : worker[j] = "idle"
    /\ sched' = "off"
    /\ UNCHANGED server

(* The window thread calls StopP2P. *)
Stop(call) ==
    /\ \E at \in {"server", "jobs"} : StopBegins(at) /\ Push(call, at)
    /\ UNCHANGED <<active, haltTarget, recent, crossed>>

(* It is in one of its calls. *)
InCall(calls, at) ==
    /\ life = "run" /\ ~Deleted
    /\ Top \in calls /\ Last(stack).at = at

InCallFrame == UNCHANGED <<queue, worker, dlgVars, taskVars, fin, life, events>>

StopServer ==
    /\ InCall(Stopping, "server")
    /\ ServerStopped
    /\ Become(Top, "jobs")
    /\ UNCHANGED <<active, haltTarget, recent, crossed, powerVars>>
    /\ InCallFrame

StopJobs ==
    /\ InCall(Stopping, "jobs")
    /\ JobsStopped
    /\ Become(Top, "icon")
    /\ UNCHANGED <<active, haltTarget, recent, crossed, powerVars>>
    /\ InCallFrame

(* ChangeTrayIcon restarts P2P unless the program ends: when nobody has    *)
(* come for five minutes (StopP2P has just forgotten who came), no job     *)
(* looks for the address (StopP2P has just stopped the one that would) and *)
(* it was not done in the last ten minutes.                                *)
MayRestart == fin = "off" /\ ~recent

ChangeTrayIcon ==
    /\ InCall(P2PCall, "icon")
    /\ MayRestart /\ recent' = TRUE
    /\ \E at \in {"server", "jobs"} :
          /\ StopBegins(at)
          /\ stack' = Append(Append(Front(stack), [Last(stack) EXCEPT !.at = "restarted"]),
                             [call |-> "restart", at |-> at])
    /\ UNCHANGED <<active, haltTarget, crossed, powerVars>>
    /\ InCallFrame

(* The rest of StopP2P, whatever ChangeTrayIcon has done, and what follows *)
(* it: StartP2P in OptionDialog or ChangeTrayIcon, another ChangeTrayIcon  *)
(* in an emergency halt, the note why P2P was stopped in a suspend.        *)
LeaveStopP2P ==
    /\ \E at \in {"icon", "restarted"} :
          InCall(Stopping, at) /\ crossed' = (at = "restarted")
    /\ active' = FALSE /\ haltTarget' = FALSE
    /\ \/ Top = "stop" /\ Pop /\ UNCHANGED powerVars
       \/ /\ Top = "suspend" /\ Pop
          /\ stopBySuspend' = TRUE
          /\ owed' = IF power = "resumed" THEN "slept" ELSE "asked"
          /\ UNCHANGED <<resumeTimer, power>>
       \/ Top = "halt" /\ Become("tray", "icon") /\ UNCHANGED powerVars
       \/ Top = "restart" /\ Become("start", "begin") /\ UNCHANGED powerVars
    /\ UNCHANGED <<server, sched, recent>>
    /\ InCallFrame

\* Bug: Active is set before it is known that the server has started.
StartP2P_Early ==
    /\ InCall({"start"}, "begin")
    /\ \/ /\ Become("box", "-")
          /\ haltTarget' \in {haltTarget, haltTarget \/ server = "off"}
          /\ active' = (haltTarget' \/ active)
          /\ UNCHANGED <<server, sched>>
       \/ /\ Become("start", "icon")
          /\ haltTarget' = TRUE /\ server' = "on" /\ sched' = "on"
          /\ UNCHANGED active
    /\ owed' = "no"
    /\ UNCHANGED <<recent, crossed, stopBySuspend, resumeTimer, power>>
    /\ InCallFrame

(* StartP2P: the check of the ports, the port mapping or the server fails, *)
(* which a message box says, or everything starts.  A server that is       *)
(* active is left as it is.                                                *)
StartP2P ==
    /\ InCall({"start"}, "begin")
    /\ \/ /\ Become("box", "-")
          /\ haltTarget' \in {haltTarget, haltTarget \/ server = "off"}
          /\ UNCHANGED <<server, sched>>
       \/ /\ Become("start", "icon")
          /\ haltTarget' = TRUE /\ server' = "on" /\ sched' = "on"
    /\ owed' = "no"
    /\ UNCHANGED <<active, recent, crossed, stopBySuspend, resumeTimer, power>>
    /\ InCallFrame

LeaveStartP2P ==
    /\ \E at \in {"icon", "restarted"} :
          InCall({"start"}, at) /\ crossed' = (at = "restarted")
    /\ active' = TRUE
    /\ Pop
    /\ UNCHANGED <<server, sched, haltTarget, recent, powerVars>>
    /\ InCallFrame

LeaveTray ==
    /\ \E at \in {"icon", "restarted"} : InCall({"tray"}, at)
    /\ Pop
    /\ UNCHANGED <<p2pVars, powerVars>>
    /\ InCallFrame

-----------------------------------------------------------------------------
(* What the window thread does for a message. *)

(* CreateProgressDialog. *)
OpenDialog(d) == dlg' = d /\ progress' = TRUE /\ stoppable' = FALSE

(* FinalizeApp starts its thread and waits for it.  A second one would     *)
(* stop and delete everything at the same time as the first.               *)
FinalizeApp ==
    \/ /\ fin = "off"
       /\ OpenDialog("exit")
       /\ fin' = "rebuild"
       /\ Push("exit", "-")
       /\ UNCHANGED <<p2pVars, worker, taskVars, life>>
    \/ /\ fin # "off"
       /\ life' = "fallen"
       /\ UNCHANGED <<stack, p2pVars, worker, dlgVars, taskVars, fin>>

OnStart ==
    /\ resumeTimer' = FALSE
    /\ Push("start", "begin")
    /\ UNCHANGED <<p2pVars, dlgVars, taskVars, stopBySuspend, power, owed, fin>>

OnStop ==
    /\ Stop("stop")
    /\ UNCHANGED <<dlgVars, taskVars, powerVars, fin>>

Ignore == UNCHANGED <<stack, p2pVars, dlgVars, taskVars, powerVars, fin>>

(* The rebuild is confirmed in a message box. *)
OnRebuild ==
    \/ /\ ~active /\ dlg = "none"
       /\ Push("ask", "-")
       /\ UNCHANGED <<p2pVars, dlgVars, taskVars, powerVars, fin>>
    \/ (active \/ dlg # "none") /\ Ignore

OnReindex ==
    \/ /\ ~active /\ dlg = "none"
       /\ OpenDialog("task")
       /\ reindex' = IF reindex = "off" THEN "run" ELSE reindex
       /\ again' = (again \/ reindex # "off")
       /\ UNCHANGED <<stack, p2pVars, rebuild, loop, powerVars, fin>>
    \/ (active \/ dlg # "none") /\ Ignore

OnOption ==
    \/ /\ ~Within("option")
       /\ Push("option", "-")
       /\ UNCHANGED <<p2pVars, dlgVars, taskVars, powerVars, fin>>
    \/ Within("option") /\ Ignore

OnHalt ==
    /\ \/ active /\ Stop("halt")
       \/ ~active /\ Push("tray", "icon") /\ UNCHANGED p2pVars
    /\ UNCHANGED <<dlgVars, taskVars, powerVars, fin>>

(* A posted message is taken from the queue.  Whatever it is, it leads to  *)
(* something deleted when there is such.                                   *)
Dispatch ==
    /\ HandlesPosted /\ queue # <<>>
    /\ UNCHANGED <<worker, events>>
    /\ \/ /\ Deleted /\ Fall
          /\ queue' = Tail(queue)
       \/ /\ ~Deleted /\ Head(queue) = "close" /\ FinalizeApp
          /\ queue' = Tail(queue)
          /\ UNCHANGED powerVars
       \/ /\ ~Deleted /\ Head(queue) = "exit" /\ Ignore
          /\ queue' = Append(Tail(queue), "close")
          /\ UNCHANGED life
       \/ /\ ~Deleted
          /\ \/ Head(queue) = "start" /\ OnStart
             \/ Head(queue) = "stop" /\ OnStop
             \/ Head(queue) = "rebuild" /\ OnRebuild
             \/ Head(queue) = "reindex" /\ OnReindex
             \/ Head(queue) = "option" /\ OnOption
             \/ Head(queue) = "halt" /\ OnHalt
          /\ queue' = Tail(queue)
          /\ UNCHANGED life

(* It comes back from a dialog or a StopP2P and goes on with what has been *)
(* deleted meanwhile.                                                      *)
UseDeleted ==
    /\ life = "run" /\ Deleted
    /\ Top \in P2PCall \cup {"ask", "option", "box", "cancel"}
    /\ Fall
    /\ UNCHANGED <<queue, events>>

(* IDT_AUTORESUME: timers come when nothing is posted. *)
ResumeTimeout ==
    /\ HandlesPosted /\ queue = <<>> /\ resumeTimer
    /\ IF Deleted THEN Fall ELSE OnStart /\ UNCHANGED <<worker, life>>
    /\ UNCHANGED <<queue, events>>

(* UM_SETICON, IDT_INICONTIMER, IDT_OUTICONTIMER: the icon is changed, by  *)
(* which P2P may be restarted.                                             *)
IconTimeout ==
    /\ HandlesPosted /\ active
    /\ MayRestart /\ recent' = TRUE
    /\ \E at \in {"server", "jobs"} : StopBegins(at) /\ Push("restart", at)
    /\ UNCHANGED <<queue, active, haltTarget, crossed, worker, dlgVars, taskVars, powerVars,
                   fin, life, events>>

TenMinutes ==
    /\ life = "run" /\ Event
    /\ recent /\ recent' = FALSE
    /\ UNCHANGED <<stack, queue, active, server, sched, haltTarget, crossed, worker, dlgVars,
                   taskVars, powerVars, fin, life>>

(* IDT_PROGRESSTIMER: the dialog of what is no longer active is closed. *)
DialogTimeout ==
    /\ Handles /\ dlg # "none" /\ ~progress
    /\ dlg' = "none"
    /\ UNCHANGED <<stack, queue, p2pVars, worker, progress, stoppable, taskVars, powerVars,
                   fin, life, events>>

-----------------------------------------------------------------------------
(* The user. *)

(* The menu of the tray icon, grayed by what Active is now. *)
OpenMenu ==
    /\ HandlesPosted /\ Event
    /\ dlg = "none" /\ ~Within("option") /\ ~Within("menu")
    /\ Push("menu", IF active THEN "active" ELSE "inactive")
    /\ UNCHANGED <<queue, p2pVars, worker, dlgVars, taskVars, powerVars, fin, life>>

Offered == IF Last(stack).at = "active"
           THEN {"stop", "option", "exit"}
           ELSE {"start", "rebuild", "reindex", "option", "exit"}

(* What is chosen is posted; nothing may be chosen. *)
CloseMenu ==
    /\ life = "run" /\ Top = "menu"
    /\ Pop
    /\ \/ \E c \in Offered : Post(c)
       \/ UNCHANGED queue
    /\ UNCHANGED <<p2pVars, worker, dlgVars, taskVars, powerVars, fin, life, events>>

(* The message box is answered: RebuildDB, which does nothing when there   *)
(* is a thread.  What was tested before the box was opened is not tested   *)
(* again.                                                                  *)
ConfirmRebuild ==
    /\ life = "run" /\ ~Deleted /\ Top = "ask"
    /\ Pop
    /\ OpenDialog("task")
    /\ IF rebuild = "off"
       THEN rebuild' = "begin" /\ loop' = TRUE /\ UNCHANGED again
       ELSE again' = TRUE /\ UNCHANGED <<rebuild, loop>>
    /\ UNCHANGED <<queue, p2pVars, worker, reindex, powerVars, fin, life, events>>

CancelRebuild ==
    /\ life = "run" /\ Top = "ask"
    /\ Pop
    /\ UNCHANGED <<queue, p2pVars, worker, dlgVars, taskVars, powerVars, fin, life, events>>

(* The options are closed, with another P2P port or without. *)
CloseOptions ==
    /\ life = "run" /\ ~Deleted /\ Top = "option"
    /\ \/ Pop /\ UNCHANGED p2pVars
       \/ /\ active
          /\ \E at \in {"server", "jobs"} :
                StopBegins(at) /\ Become("restart", at)
          /\ UNCHANGED <<active, haltTarget, recent, crossed>>
    /\ UNCHANGED <<queue, worker, dlgVars, taskVars, powerVars, fin, life, events>>

(* The message box of a failed start is closed. *)
CloseBox ==
    /\ life = "run" /\ ~Deleted /\ Top = "box"
    /\ Pop
    /\ UNCHANGED <<queue, p2pVars, worker, dlgVars, taskVars, powerVars, fin, life, events>>

(* IDC_CANCEL: the window thread waits in StopRebuildDB, ... *)
CancelTask ==
    /\ Handles /\ ~Deleted /\ Event
    /\ dlg # "none" /\ stoppable
    /\ loop' = FALSE
    /\ Push("cancel", "-")
    /\ UNCHANGED <<queue, p2pVars, worker, dlgVars, rebuild, reindex, again, powerVars,
                   fin, life>>

(* ... then closes the dialog. *)
TaskCancelled ==
    /\ life = "run" /\ Top = "cancel" /\ rebuild = "off"
    /\ Pop
    /\ dlg' = "none"
    /\ UNCHANGED <<queue, p2pVars, worker, progress, stoppable, taskVars, powerVars,
                   fin, life, events>>

(* GET_xml_shutdown of the admin server. *)
WebShutdown ==
    /\ life = "run" /\ ~Deleted /\ Event
    /\ Post("close")
    /\ UNCHANGED <<stack, p2pVars, worker, dlgVars, taskVars, powerVars, fin, life>>

-----------------------------------------------------------------------------
(* The system. *)

\* Bug: what the last query noted is overwritten by the next one.
AskSuspend_Overwrites ==
    /\ Handles /\ Event
    /\ power = "awake"
    /\ power' = "asking"
    /\ stopBySuspend' = active
    /\ \/ active /\ Stop("suspend")
       \/ ~active /\ UNCHANGED <<stack, p2pVars>>
    /\ UNCHANGED <<queue, worker, dlgVars, taskVars, resumeTimer, owed, fin, life>>

(* PBT_APMQUERYSUSPEND, with automatic resuming set. *)
AskSuspend ==
    /\ Handles /\ Event
    /\ power = "awake"
    /\ power' = "asking"
    /\ \/ /\ active /\ Stop("suspend")
       \/ /\ ~active /\ UNCHANGED <<stack, p2pVars>>
    /\ UNCHANGED <<queue, worker, dlgVars, taskVars, stopBySuspend, resumeTimer, owed,
                   fin, life>>

(* Some other program refuses. *)
RefuseSuspend ==
    /\ life = "run" /\ power = "asking"
    /\ power' = "awake"
    /\ UNCHANGED <<stack, queue, p2pVars, worker, dlgVars, taskVars, stopBySuspend,
                   resumeTimer, owed, fin, life, events>>

(* The system is suspended and resumes. *)
Sleep ==
    /\ life = "run" /\ power = "asking"
    /\ power' = "resumed"
    /\ owed' = IF owed = "asked" THEN "slept" ELSE owed
    /\ UNCHANGED <<stack, queue, p2pVars, worker, dlgVars, taskVars, stopBySuspend,
                   resumeTimer, fin, life, events>>

(* PBT_APMRESUMESUSPEND. *)
Resumed ==
    /\ Handles /\ power = "resumed"
    /\ IF stopBySuspend /\ Deleted
       THEN Fall
       ELSE /\ power' = "awake"
            /\ stopBySuspend' = FALSE
            /\ resumeTimer' = (resumeTimer \/ stopBySuspend)
            /\ UNCHANGED <<stack, p2pVars, worker, dlgVars, taskVars, owed, fin, life>>
    /\ UNCHANGED <<queue, events>>

(* WM_ENDSESSION. *)
EndSession ==
    /\ Handles /\ Event
    /\ power \in {"awake", "asking"}
    /\ power' = "ending"
    /\ FinalizeApp
    /\ UNCHANGED <<queue, stopBySuspend, resumeTimer, owed>>

-----------------------------------------------------------------------------
(* The other threads. *)

(* A request comes, or a job is due. *)
WorkBegins(w) ==
    /\ life = "run" /\ worker[w] = "idle"
    /\ IF w \in Parser THEN server = "on" ELSE sched = "on"
    /\ worker' = [worker EXCEPT ![w] = "work"]
    /\ UNCHANGED <<stack, queue, p2pVars, dlgVars, taskVars, powerVars, fin, life, events>>

WorkEnds(w) ==
    /\ life = "run" /\ worker[w] = "work"
    /\ worker' = [worker EXCEPT ![w] = "idle"]
    /\ UNCHANGED <<stack, queue, p2pVars, dlgVars, taskVars, powerVars, fin, life, events>>

(* A message has come or a dat was found: SendMessage of UM_SHOWBALOON. *)
ShowBaloon(w) ==
    /\ life = "run" /\ worker[w] = "work" /\ Event
    /\ worker' = [worker EXCEPT ![w] = "send"]
    /\ UNCHANGED <<stack, queue, p2pVars, dlgVars, taskVars, powerVars, fin, life>>

(* It returns when the window thread handles messages. *)
BaloonShown(w) ==
    /\ Handles /\ worker[w] = "send"
    /\ worker' = [worker EXCEPT ![w] = "work"]
    /\ UNCHANGED <<stack, queue, p2pVars, dlgVars, taskVars, powerVars, fin, life, events>>

(* A dat does not fit: CheckQuarterOverflow posts UM_EMERGENCYHALT. *)
CheckQuarterOverflow ==
    /\ life = "run" /\ ~Deleted /\ Event
    /\ haltTarget /\ Post("halt")
    /\ UNCHANGED <<stack, p2pVars, worker, dlgVars, taskVars, powerVars, fin, life>>

\* Bug: the dialog is not told that the rebuild has failed.
RebuildBegins_Silent ==
    /\ rebuild = "begin"
    /\ \/ progress' = TRUE /\ stoppable' = TRUE /\ rebuild' = "scan"
       \/ rebuild' = "swap" /\ UNCHANGED <<progress, stoppable>>
    /\ UNCHANGED <<dlg, loop, reindex, again>>

(* StaticRebuildDBThread: before_rebuild succeeds or fails, ... *)
RebuildBegins ==
    /\ rebuild = "begin"
    /\ \/ progress' = TRUE /\ stoppable' = TRUE /\ rebuild' = "scan"
       \/ progress' = FALSE /\ stoppable' = FALSE /\ rebuild' = "swap"
    /\ UNCHANGED <<dlg, loop, reindex, again>>

(* ... the directories have been read, or LoopRebuildDB is false, or the   *)
(* root cannot be read, which the dialog is not told, ...                  *)
RebuildScanned ==
    /\ rebuild = "scan" /\ rebuild' = "swap"
    /\ \/ progress' = FALSE /\ stoppable' = TRUE
       \/ UNCHANGED <<progress, stoppable>>
    /\ UNCHANGED <<dlg, loop, reindex, again>>

(* ... and the tables have been exchanged and analyzed. *)
RebuildEnds ==
    /\ rebuild = "swap" /\ rebuild' = "off"
    /\ UNCHANGED <<dlgVars, loop, reindex, again>>

(* StaticReindexThread, and StaticAnalyzeThread, which does the same: the  *)
(* indices have been made, ...                                             *)
Reindexed ==
    /\ reindex = "run" /\ reindex' = "end"
    /\ progress' = FALSE /\ stoppable' = FALSE
    /\ UNCHANGED <<dlg, rebuild, loop, again>>

(* ... and the handle is closed. *)
ReindexEnds ==
    /\ reindex = "end" /\ reindex' = "off"
    /\ UNCHANGED <<dlgVars, rebuild, loop, again>>

Rebuilding ==
    /\ life = "run"
    /\ \/ /\ ~Deleted
          /\ RebuildBegins \/ RebuildScanned \/ RebuildEnds
          /\ UNCHANGED <<stack, p2pVars, worker, powerVars, fin, life>>
       \/ Deleted /\ rebuild # "off" /\ Fall
    /\ UNCHANGED <<queue, events>>

Reindexing ==
    /\ life = "run"
    /\ \/ /\ ~Deleted
          /\ Reindexed \/ ReindexEnds
          /\ UNCHANGED <<stack, p2pVars, worker, powerVars, fin, life>>
       \/ Deleted /\ reindex # "off" /\ Fall
    /\ UNCHANGED <<queue, events>>

-----------------------------------------------------------------------------
(* FinalizeAppThread. *)

(* StopRebuildDB. *)
FinStopRebuild ==
    /\ life = "run" /\ fin = "rebuild"
    /\ rebuild # "off" /\ loop
    /\ loop' = FALSE
    /\ UNCHANGED <<stack, queue, p2pVars, worker, dlgVars, rebuild, reindex, again,
                   powerVars, fin, life, events>>

(* There is no rebuild any more: StopP2P begins, ... *)
FinStopP2P ==
    /\ life = "run" /\ fin = "rebuild" /\ rebuild = "off"
    /\ progress' = TRUE /\ stoppable' = FALSE
    /\ \E at \in {"server", "jobs"} : StopBegins(at) /\ fin' = at
    /\ UNCHANGED <<stack, queue, active, haltTarget, recent, crossed, worker, dlg, taskVars, powerVars, life, events>>

(* ... goes on, ... *)
FinServer ==
    /\ life = "run" /\ fin = "server"
    /\ ServerStopped
    /\ fin' = "jobs"
    /\ UNCHANGED <<stack, queue, active, haltTarget, recent, crossed, worker, dlgVars, taskVars, powerVars, life, events>>

(* ... and ends; the icon restarts nothing now. *)
FinJobs ==
    /\ life = "run" /\ fin = "jobs"
    /\ JobsStopped
    /\ active' = FALSE /\ haltTarget' = FALSE
    /\ fin' = "close"
    /\ UNCHANGED <<stack, queue, recent, crossed, worker, dlgVars, taskVars, powerVars, life, events>>

(* Client, proxy and admin server are stopped, the files are written, and  *)
(* all objects are deleted.                                                *)
FinDelete ==
    /\ life = "run" /\ fin = "close"
    /\ fin' = "last"
    /\ progress' = FALSE /\ stoppable' = FALSE
    /\ UNCHANGED <<stack, queue, p2pVars, worker, dlg, taskVars, powerVars, life, events>>

FinEnds ==
    /\ life = "run" /\ fin = "last"
    /\ fin' = "ended"
    /\ UNCHANGED <<stack, queue, p2pVars, worker, dlgVars, taskVars, powerVars, life, events>>

(* FinalizeApp finds ThreadHandle cleared and returns: the window is       *)
(* destroyed, or the session ends.                                         *)
Exit ==
    /\ life = "run" /\ Top = "exit" /\ fin = "ended"
    /\ life' = "over"
    /\ UNCHANGED <<stack, queue, p2pVars, worker, dlgVars, taskVars, powerVars, fin, events>>

-----------------------------------------------------------------------------

P2PCalls == StopServer \/ StopJobs \/ ChangeTrayIcon \/ LeaveStopP2P
            \/ StartP2P \/ LeaveStartP2P \/ LeaveTray
WindowThread == P2PCalls \/ Dispatch \/ UseDeleted \/ ResumeTimeout \/ IconTimeout
                \/ DialogTimeout \/ TaskCancelled \/ Resumed \/ Exit
User == OpenMenu \/ CloseMenu \/ ConfirmRebuild \/ CancelRebuild \/ CloseOptions
        \/ CloseBox \/ CancelTask \/ WebShutdown
System == AskSuspend \/ RefuseSuspend \/ Sleep \/ EndSession \/ TenMinutes
Workers == CheckQuarterOverflow
           \/ \E w \in Worker :
                 WorkBegins(w) \/ WorkEnds(w) \/ ShowBaloon(w) \/ BaloonShown(w)
Finalize == FinStopRebuild \/ FinStopP2P \/ FinServer \/ FinJobs \/ FinDelete \/ FinEnds

Next == WindowThread \/ User \/ System \/ Workers \/ Rebuilding \/ Reindexing \/ Finalize

Spec == Init /\ [][Next]_vars

(* The threads run, the window thread takes its messages in turn, and      *)
(* requests and jobs end (RequestService answers each request, the         *)
(* sessions of a server time out).  Nothing is asked of the user or the    *)
(* system.                                                                 *)
FairSpec ==
    /\ Spec
    /\ WF_vars(P2PCalls) /\ WF_vars(TaskCancelled)
    /\ WF_vars(Dispatch) /\ WF_vars(ResumeTimeout) /\ WF_vars(DialogTimeout)
    /\ WF_vars(Resumed) /\ WF_vars(Exit)
    /\ WF_vars(Rebuilding) /\ WF_vars(Reindexing)
    /\ WF_vars(Finalize)
    /\ \A w \in Worker : WF_vars(WorkEnds(w)) /\ WF_vars(BaloonShown(w))

-----------------------------------------------------------------------------
(* Properties. *)

(* A StopP2P on the window thread waits for a thread that shows a balloon, *)
(* which waits for the window thread: neither goes on.                     *)
Stuck ==
    /\ Top \in Stopping /\ Last(stack).at \in {"server", "jobs"}
    /\ \E w \in Worker : worker[w] = "send"

(* Whenever messages are handled before the end, the server and the        *)
(* scheduler run both or none of them, and nobody works when they do not;  *)
(* and Active, by which the menu, the messages and the timer decide, says  *)
(* which, whatever start failed and whatever menu was out of date, unless  *)
(* the icon has restarted P2P in the middle of the last StartP2P or        *)
(* StopP2P.                                                                *)
ActiveTells ==
    life = "run" /\ fin = "off" /\ Top \notin P2PCall =>
        /\ sched \in {"on", "off"} /\ server = sched
        /\ crossed \/ active = (sched = "on")
        /\ sched = "off" => \A w \in Worker : worker[w] = "idle"

(* When the window thread has come back from all its calls and Active is   *)
(* off, as StopP2P and its balloon say, P2P has stopped.                   *)
StopStops == life = "run" /\ fin = "off" /\ stack = <<>> /\ ~active => server = "off"

(* P2P that was stopped for a suspend is started again after it, though    *)
(* the suspend may be refused and asked for again, unless the program ends *)
(* or is stuck.                                                            *)
Resumes == owed = "slept" ~> owed # "slept" \/ fin # "off" \/ life # "run" \/ Stuck

(* FinalizeApp no longer keeps the window thread from its menus, because a *)
(* task that ended has closed the dialog or a suspend is answered: it is   *)
(* busy with them, or has started P2P behind FinalizeAppThread.            *)
LetOut ==
    Within("exit") /\ \/ Top # "exit"
                      \/ fin = "server" /\ server = "on"
                      \/ fin = "jobs" /\ sched = "on"

(* The program ends once it is told to, whatever the window thread was in  *)
(* the middle of and whatever balloons are shown meanwhile, unless the     *)
(* window thread is stuck in a StopP2P or let out of FinalizeApp.          *)
ExitEnds ==
    Contains(queue, "close") \/ fin # "off" ~> life # "run" \/ Stuck \/ LetOut

(* The root of the cache could not be read: RebuildDBThread has returned   *)
(* without a word to the dialog, which waits for it or for the user.       *)
LeftOpen == rebuild = "off" /\ progress /\ stoppable

(* The dialog of a rebuild or a reindex is closed in the end, and the menu *)
(* can be opened again, unless the task was asked for once more before its *)
(* thread was gone, the cache cannot be read, or the program ends.         *)
MenuReturns == dlg = "task" ~> dlg # "task" \/ again \/ LeftOpen \/ fin # "off" \/ Stuck
=============================================================================
