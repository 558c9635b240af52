--------------------------- MODULE MountLifecycle ---------------------------
(***************************************************************************)
(* The life of a wamount process: main() builds disk, container, volume    *)
(* and the WinFspAPFS object and mounts it (src/main.cpp, WinFspAPFS::     *)
(* mount); WinFsp's dispatcher threads call back into it; Ctrl+C runs      *)
(* signalHandler, on a thread of its own, which unmounts and exits.        *)
(*                                                                         *)
(* mount() and unmount() share the member file_system_ without a lock.     *)
(* Each use of it is a step here: it is read again for every WinFsp call.  *)
(* A call on a file system that is not there, or a use of a destroyed      *)
(* object, has no defined outcome; the model stops at it in "fault".       *)
(***************************************************************************)
CONSTANT
  Workers        \* WinFsp's dispatcher threads

VARIABLES
  pc,            \* pc["main"], pc["handler"]: what each thread does next
  file_system_,  \* WinFspAPFS::file_system_: "null" or "fs"
  g_mounted_fs,  \* main's global points at the WinFspAPFS object
  objs,          \* the objects main has built and not destroyed
  sigint,        \* what SIGINT does: "default" or "handler"
  fs,            \* WinFsp's file system: "none", "created", "deleted"
  context,       \* FileSystem->UserContext has been set
  mountPoint,    \* the drive letter is visible
  dispatcher,    \* "off", "running", "stopping"
  serving,       \* the workers inside a callback
  exit,          \* "running", or how the process ended
  early          \* history: signalHandler was started before main slept

code == <<file_system_, g_mounted_fs, objs, sigint>>
winfsp == <<fs, context, mountPoint, dispatcher, serving>>
process == <<exit, early>>
vars == <<pc, code, winfsp, process>>

\* Everything a callback reaches through its UserContext.
Objects == {"disk", "container", "volume", "winfsp"}

SD == INSTANCE ServedDrive WITH
        drive <- IF mountPoint THEN "visible"
                 ELSE IF fs = "deleted" THEN "gone" ELSE "absent",
        ended <- IF exit = "running" THEN "no"
                 ELSE IF exit \in {"0", "1", "abort"} THEN "exited" ELSE "killed"

-----------------------------------------------------------------------------
Goto(a, label) == pc' = [pc EXCEPT ![a] = label]

At(a, label) == exit = "running" /\ pc[a] = label

\* The process ends; nothing of it moves any more.
End(how) ==
  /\ exit' = how
  /\ UNCHANGED <<pc, code, winfsp, early>>

\* file_system_ can be handed to WinFsp: the object that holds it exists and it
\* points at a file system WinFsp has created and not deleted.
Usable == "winfsp" \in objs /\ file_system_ = "fs" /\ fs = "created"

\* What a step of mount() or unmount() that hands file_system_ to WinFsp does
\* when it cannot be used.
Misuse(a, labels) ==
  /\ exit = "running" /\ pc[a] \in labels
  /\ ~Usable
  /\ End("fault")

Init ==
  /\ pc = [a \in {"main", "handler"} |-> IF a = "main" THEN "args" ELSE "none"]
  /\ file_system_ = "null"
  /\ g_mounted_fs = FALSE
  /\ objs = {}
  /\ sigint = "default"
  /\ fs = "none"
  /\ context = FALSE
  /\ mountPoint = FALSE
  /\ dispatcher = "off"
  /\ serving = {}
  /\ exit = "running"
  /\ early = FALSE

-----------------------------------------------------------------------------
(* main(): from the command line to a constructed WinFspAPFS.              *)

\* -h prints the usage (0); a bad option or a missing argument returns 1;
\* a volume index std::stoi cannot read throws.
Arguments ==
  /\ At("main", "args")
  /\ \/ Goto("main", "signals") /\ UNCHANGED <<code, winfsp, process>>
     \/ \E how \in {"0", "1", "abort"} : End(how)

RegisterSignals ==
  /\ At("main", "signals")
  /\ sigint' = "handler"
  /\ Goto("main", "disk")
  /\ UNCHANGED <<file_system_, g_mounted_fs, objs, winfsp, process>>

\* One stage of the startup: the object is built; if its open(), init() or
\* getVolume() fails, main returns 1 and destroys what it has.
Build(object, next) ==
  /\ At("main", object)
  /\ \/ /\ objs' = objs \union {object}
        /\ Goto("main", next)
        /\ UNCHANGED <<file_system_, g_mounted_fs, sigint, winfsp, process>>
     \/ /\ Goto("main", "release")
        /\ UNCHANGED <<code, winfsp, process>>

OpenDisk      == Build("disk", "container")
InitContainer == Build("container", "volume")
GetVolume     == Build("volume", "construct")

\* The mount point's conversion to UTF-16 may throw; then the object is built
\* and published to the signal handler, before it is mounted.
Construct ==
  /\ At("main", "construct")
  /\ \/ End("abort")
     \/ /\ objs' = objs \union {"winfsp"}
        /\ g_mounted_fs' = TRUE
        /\ Goto("main", "create")
        /\ UNCHANGED <<file_system_, sigint, winfsp, process>>

-----------------------------------------------------------------------------
(* WinFspAPFS::mount, on the main thread.  main mounts a fresh object once, *)
(* so its test for "Already mounted" never fires.                          *)

\* A volume name that is not UTF-8 throws; otherwise FspFileSystemCreate.
Create ==
  /\ At("main", "create")
  /\ \/ End("abort")
     \/ /\ Goto("main", "unmount")
        /\ UNCHANGED <<code, winfsp, process>>
     \/ /\ fs' = "created"
        /\ file_system_' = "fs"
        /\ Goto("main", "context")
        /\ UNCHANGED <<g_mounted_fs, objs, sigint, context, mountPoint,
                       dispatcher, serving, process>>

SetUserContext ==
  /\ At("main", "context") /\ Usable
  /\ context' = TRUE
  /\ Goto("main", "point")
  /\ UNCHANGED <<code, fs, mountPoint, dispatcher, serving, process>>

SetMountPoint ==
  /\ At("main", "point") /\ Usable
  /\ \/ mountPoint' = TRUE /\ Goto("main", "start")
     \/ Goto("main", "undo") /\ UNCHANGED mountPoint
  /\ UNCHANGED <<code, fs, context, dispatcher, serving, process>>

StartDispatcher ==
  /\ At("main", "start") /\ Usable
  /\ \/ dispatcher' = "running" /\ Goto("main", "wait")
     \/ Goto("main", "undo") /\ UNCHANGED dispatcher
  /\ UNCHANGED <<code, fs, context, mountPoint, serving, process>>

\* Defect: mount() forgets the file system it could not finish mounting.
UndoForgets ==
  /\ At("main", "undo") /\ Usable
  /\ Goto("main", "undone")
  /\ UNCHANGED <<code, winfsp, process>>

\* FspFileSystemDelete after a failure; it takes the mount point away too.
UndoMount ==
  /\ At("main", "undo") /\ Usable
  /\ fs' = "deleted"
  /\ mountPoint' = FALSE
  /\ Goto("main", "undone")
  /\ UNCHANGED <<code, context, dispatcher, serving, process>>

\* Defect: the pointer to the deleted file system is kept.
KeepPointer ==
  /\ At("main", "undone")
  /\ Goto("main", "unmount")
  /\ UNCHANGED <<code, winfsp, process>>

\* mount() returns false, and main returns 1: ~WinFspAPFS runs unmount().
ForgetUndone ==
  /\ At("main", "undone")
  /\ file_system_' = "null"
  /\ Goto("main", "unmount")
  /\ UNCHANGED <<g_mounted_fs, objs, sigint, winfsp, process>>

-----------------------------------------------------------------------------
(* WinFspAPFS::unmount, on the handler's thread or in main's destructor.   *)

\* Defect: unmount() ends like the destructor whoever called it.
ReturnedToMain(a) == "destroy"

Returned(a) == IF a = "main" THEN "destroy" ELSE "exit"

TestMounted(a) ==
  /\ At(a, "unmount") /\ "winfsp" \in objs
  /\ Goto(a, IF file_system_ = "null" THEN Returned(a) ELSE "stop")
  /\ UNCHANGED <<code, winfsp, process>>

\* Defect: unmount() deletes the file system without stopping the dispatcher.
DeleteUnderDispatcher(a) ==
  /\ At(a, "stop") /\ Usable
  /\ Goto(a, "delete")
  /\ UNCHANGED <<code, winfsp, process>>

\* FspFileSystemStopDispatcher takes no new request from here on ...
StopDispatcher(a) ==
  /\ At(a, "stop") /\ Usable
  /\ IF dispatcher = "off"
       THEN Goto(a, "delete") /\ UNCHANGED dispatcher
       ELSE Goto(a, "join") /\ dispatcher' = "stopping"
  /\ UNCHANGED <<code, fs, context, mountPoint, serving, process>>

\* ... and returns when its threads have finished the ones they serve.
JoinDispatcher(a) ==
  /\ At(a, "join") /\ serving = {}
  /\ dispatcher' = "off"
  /\ Goto(a, "delete")
  /\ UNCHANGED <<code, fs, context, mountPoint, serving, process>>

Delete(a) ==
  /\ At(a, "delete") /\ Usable
  /\ fs' = "deleted"
  /\ mountPoint' = FALSE
  /\ Goto(a, "forget")
  /\ UNCHANGED <<code, context, dispatcher, serving, process>>

Forget(a) ==
  /\ At(a, "forget") /\ "winfsp" \in objs
  /\ file_system_' = "null"
  /\ Goto(a, Returned(a))
  /\ UNCHANGED <<g_mounted_fs, objs, sigint, winfsp, process>>

\* this, or file_system_, is no longer what the step takes it for.
Fault(a) ==
  \/ Misuse(a, {"context", "point", "start", "undo", "stop", "delete"})
  \/ /\ At(a, "unmount") \/ At(a, "forget")
     /\ "winfsp" \notin objs
     /\ End("fault")

\* ~WinFspAPFS is done; g_mounted_fs is left pointing at it.
Destroy ==
  /\ At("main", "destroy")
  /\ objs' = objs \ {"winfsp"}
  /\ Goto("main", "release")
  /\ UNCHANGED <<file_system_, g_mounted_fs, sigint, winfsp, process>>

\* main's other locals are destroyed and it returns 1.
Release ==
  /\ At("main", "release")
  /\ objs' = {}
  /\ exit' = "1"
  /\ UNCHANGED <<pc, file_system_, g_mounted_fs, sigint, winfsp, early>>

-----------------------------------------------------------------------------
(* Ctrl+C.                                                                 *)

\* The C runtime resets SIGINT to its default and runs the handler on a new
\* thread; while the default is in force, Ctrl+C kills the process.
CtrlC ==
  /\ exit = "running"
  /\ IF sigint = "handler"
       THEN /\ sigint' = "default"
            /\ Goto("handler", "handle")
            /\ early' = (early \/ pc["main"] # "wait")
            /\ UNCHANGED <<file_system_, g_mounted_fs, objs, winfsp, exit>>
       ELSE End("killed")

\* Defect: the handler exits without unmounting.
HandleExits ==
  /\ At("handler", "handle")
  /\ Goto("handler", "exit")
  /\ UNCHANGED <<code, winfsp, process>>

\* signalHandler unmounts what main has published, if anything.
Handle ==
  /\ At("handler", "handle")
  /\ Goto("handler", IF g_mounted_fs THEN "unmount" ELSE "exit")
  /\ UNCHANGED <<code, winfsp, process>>

\* Defect: the handler returns instead of calling exit(0).
HandlerReturns ==
  /\ At("handler", "exit")
  /\ Goto("handler", "none")
  /\ UNCHANGED <<code, winfsp, process>>

HandlerExit ==
  /\ At("handler", "exit")
  /\ End("0")

-----------------------------------------------------------------------------
(* WinFsp's dispatcher threads.                                            *)

\* A callback reaches the volume through FileSystem->UserContext; it needs all
\* of it until it returns.
ContextLive == fs = "created" /\ context /\ Objects \subseteq objs

BeginCallback(w) ==
  /\ exit = "running"
  /\ dispatcher = "running" /\ w \notin serving
  /\ serving' = serving \union {w}
  /\ UNCHANGED <<pc, code, fs, context, mountPoint, dispatcher, process>>

EndCallback(w) ==
  /\ exit = "running" /\ w \in serving
  /\ IF ContextLive
       THEN /\ serving' = serving \ {w}
            /\ UNCHANGED <<pc, code, fs, context, mountPoint, dispatcher, process>>
       ELSE End("fault")

-----------------------------------------------------------------------------
Unmount(a) ==
  \/ TestMounted(a) \/ StopDispatcher(a) \/ JoinDispatcher(a)
  \/ Delete(a) \/ Forget(a) \/ Fault(a)

Main ==
  \/ Arguments \/ RegisterSignals
  \/ OpenDisk \/ InitContainer \/ GetVolume \/ Construct
  \/ Create \/ SetUserContext \/ SetMountPoint \/ StartDispatcher
  \/ UndoMount \/ ForgetUndone
  \/ Unmount("main") \/ Destroy \/ Release

Handler == Handle \/ Unmount("handler") \/ HandlerExit

\* The process is over.
Ended == exit # "running" /\ UNCHANGED vars

Next ==
  \/ Main
  \/ Handler
  \/ CtrlC
  \/ \E w \in Workers : BeginCallback(w) \/ EndCallback(w)
  \/ Ended

\* Threads that can run are scheduled, and callbacks return.
Fairness ==
  /\ WF_vars(Main)
  /\ WF_vars(Handler)
  /\ \A w \in Workers : WF_vars(EndCallback(w))

Spec == Init /\ [][Next]_vars /\ Fairness

-----------------------------------------------------------------------------
MainLabels ==
  {"args", "signals", "disk", "container", "volume", "construct", "create",
   "context", "point", "start", "undo", "undone", "wait", "unmount", "stop",
   "join", "delete", "forget", "destroy", "release"}

HandlerLabels ==
  {"none", "handle", "unmount", "stop", "join", "delete", "forget", "exit"}

\* Every variable keeps its type.
TypeOK ==
  /\ pc \in [{"main", "handler"} -> MainLabels \union HandlerLabels]
  /\ pc["main"] \in MainLabels /\ pc["handler"] \in HandlerLabels
  /\ file_system_ \in {"null", "fs"}
  /\ g_mounted_fs \in BOOLEAN
  /\ objs \subseteq Objects
  /\ sigint \in {"default", "handler"}
  /\ fs \in {"none", "created", "deleted"}
  /\ context \in BOOLEAN
  /\ mountPoint \in BOOLEAN
  /\ dispatcher \in {"off", "running", "stopping"}
  /\ serving \subseteq Workers
  /\ exit \in {"running", "0", "1", "abort", "killed", "fault"}
  /\ early \in BOOLEAN

\* mount(), unmount() and the callbacks never use a file system or an object
\* that is not there: no call on a null or deleted FSP_FILE_SYSTEM, no second
\* delete, no callback on a destroyed volume.
NoFault == exit # "fault"

\* None of that happens unless the signal handler was started before main had
\* mounted the volume and gone to sleep: pressed at any moment after that, and
\* against any callbacks, Ctrl+C is safe, and so is every failing startup.
NoFaultUnlessEarly == ~early => NoFault

\* A mount that fails half way, or never starts, leaves no file system, drive
\* letter or dispatcher behind when main returns 1, wherever the handler is.
FailedMountLeavesNothing ==
  exit = "1" => fs # "created" /\ ~mountPoint /\ dispatcher = "off"

\* "Press Ctrl+C to unmount and exit": when the process exits with 0 for a
\* Ctrl+C pressed as that line asks, what had been mounted has been unmounted,
\* and no request was cut short.
ExitZeroIsUnmounted ==
  exit = "0" /\ ~early => fs # "created" /\ ~mountPoint /\ serving = {}

\* Everything a callback dereferences outlives it, through startup, unmount and
\* the destructors of main's locals, unless the handler was started early.
CallbacksSeeLiveObjects ==
  exit = "running" /\ serving # {} /\ ~early => ContextLive

\* Pressing Ctrl+C ends the process, early or not: unmount() waits for callbacks
\* that are running, and nothing waits for unmount().
CtrlCEndsProcess == pc["handler"] # "none" ~> exit # "running"

\* Until a handler is started early, the drive appears once, and vanishes only
\* when nothing is being served.
ImplementsServedDrive == SD!Init /\ [][early' \/ SD!Next]_(SD!vars)
=============================================================================
