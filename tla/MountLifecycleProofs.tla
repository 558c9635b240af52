------------------------ MODULE MountLifecycleProofs ------------------------
(***************************************************************************)
(* Proofs about MountLifecycle, for any set of dispatcher threads: what    *)
(* holds whenever Ctrl+C is pressed, and what holds unless it starts the   *)
(* handler before main has mounted the volume and gone to sleep.           *)
(***************************************************************************)
EXTENDS MountLifecycle, TLAPS

\* main's labels before WinFsp has been asked for anything.
Starting == {"args", "signals", "disk", "container", "volume", "construct", "create"}

\* Where a thread is about to hand file_system_ to WinFsp.
Mounting == {"context", "point", "start", "undo"}
Unmounting == {"none", "handle", "unmount", "stop", "join", "delete"}

\* What has been built when main is at a label.
Built ==
  /\ pc["main"] = "container" => {"disk"} \subseteq objs
  /\ pc["main"] = "volume" => {"disk", "container"} \subseteq objs
  /\ pc["main"] = "construct" => {"disk", "container", "volume"} \subseteq objs
  /\ pc["main"] \in {"create", "unmount", "undone", "wait", "destroy"} \union Mounting
       => objs = Objects /\ g_mounted_fs

\* main alone: the member and the file system agree with how far mount() is.
MainPart ==
  /\ pc["main"] \in Starting =>
       fs = "none" /\ file_system_ = "null" /\ ~mountPoint
  /\ pc["main"] \in Mounting => fs = "created" /\ file_system_ = "fs"
  /\ pc["main"] \in {"point", "start"} => context
  /\ pc["main"] = "start" => mountPoint
  /\ pc["main"] = "undone" => fs = "deleted" /\ ~mountPoint
  /\ pc["main"] \in {"unmount", "destroy"} =>
       fs # "created" /\ file_system_ = "null" /\ ~mountPoint
  /\ pc["main"] = "release" => fs # "created" /\ ~mountPoint
  /\ pc["main"] \notin {"stop", "join", "delete", "forget"}
  /\ pc["main"] # "wait" =>
       pc["handler"] = "none" /\ serving = {} /\ dispatcher = "off"

\* The handler runs once, while main sleeps; how far unmount() is says what is
\* left.
HandlerPart ==
  /\ pc["handler"] # "none" => sigint = "default"
  /\ pc["main"] = "wait" =>
       /\ context
       /\ pc["handler"] \in Unmounting =>
            fs = "created" /\ file_system_ = "fs" /\ mountPoint
       /\ pc["handler"] \in {"none", "handle", "unmount", "stop"} =>
            dispatcher = "running"
       /\ pc["handler"] = "join" => dispatcher = "stopping"
       /\ pc["handler"] \in {"delete", "forget", "exit"} =>
            serving = {} /\ dispatcher = "off"
       /\ pc["handler"] \in {"forget", "exit"} => fs = "deleted" /\ ~mountPoint

\* While the process runs, the labels tell the rest of the state.
Alive == exit = "running" => Built /\ MainPart /\ HandlerPart

IInv ==
  /\ TypeOK
  /\ Alive
  /\ NoFault
  /\ FailedMountLeavesNothing
  /\ ExitZeroIsUnmounted

-----------------------------------------------------------------------------
(* Ctrl+C at any time.                                                     *)

\* What the race between mount() and unmount() cannot break: WinFsp's file
\* system is never alive behind a null file_system_, it is created once, and
\* only a main that sleeps has a dispatcher.
AnyInv ==
  /\ TypeOK
  /\ pc["main"] \in Starting => fs = "none"
  /\ fs = "created" => file_system_ = "fs"
  /\ mountPoint => fs = "created"
  /\ \A a \in {"main", "handler"} : pc[a] = "forget" => fs = "deleted"
  /\ pc["main"] = "undone" => fs = "deleted"
  /\ pc["main"] \in {"destroy", "release"} => fs # "created"
  /\ dispatcher # "off" => pc["main"] = "wait"
  /\ FailedMountLeavesNothing

\* AnyInv holds before main has done anything.
LEMMA InitAnyInv == Init => AnyInv
BY DEF Init, AnyInv, TypeOK, FailedMountLeavesNothing, MainLabels, HandlerLabels,
       Starting

\* The process ends, and if main returns 1, nothing was mounted.
LEMMA EndAnyInv ==
  ASSUME AnyInv, NEW how \in {"0", "1", "abort", "killed", "fault"}, End(how),
         how = "1" => pc["main"] \in Starting
  PROVE  AnyInv'
BY DEF AnyInv, TypeOK, End, FailedMountLeavesNothing, code, winfsp, process, Starting

\* No step breaks AnyInv, whenever Ctrl+C is pressed.
LEMMA StepAnyInv == ASSUME AnyInv, [Next]_vars PROVE AnyInv'
<1> USE DEF AnyInv, TypeOK, MainLabels, HandlerLabels, Objects, Starting,
            FailedMountLeavesNothing, At, Goto, Usable, code, winfsp, process
<1>1. CASE Arguments
  <2>1. ASSUME NEW how \in {"0", "1", "abort"}, End(how) PROVE AnyInv'
    BY <1>1, <2>1, EndAnyInv DEF Arguments
  <2>2. CASE Goto("main", "signals") /\ UNCHANGED <<code, winfsp, process>>
    BY <1>1, <2>2 DEF Arguments
  <2>3. QED
    BY <1>1, <2>1, <2>2 DEF Arguments
<1>2. CASE RegisterSignals
  BY <1>2 DEF RegisterSignals
<1>3. CASE OpenDisk
  <2>1. CASE Goto("main", "container") /\ objs' = objs \union {"disk"}
    BY <1>3, <2>1 DEF OpenDisk, Build
  <2>2. CASE Goto("main", "release") /\ UNCHANGED objs
    BY <1>3, <2>2 DEF OpenDisk, Build
  <2>3. QED
    BY <1>3, <2>1, <2>2 DEF OpenDisk, Build
<1>4. CASE InitContainer
  <2>1. CASE Goto("main", "volume") /\ objs' = objs \union {"container"}
    BY <1>4, <2>1 DEF InitContainer, Build
  <2>2. CASE Goto("main", "release") /\ UNCHANGED objs
    BY <1>4, <2>2 DEF InitContainer, Build
  <2>3. QED
    BY <1>4, <2>1, <2>2 DEF InitContainer, Build
<1>5. CASE GetVolume
  <2>1. CASE Goto("main", "construct") /\ objs' = objs \union {"volume"}
    BY <1>5, <2>1 DEF GetVolume, Build
  <2>2. CASE Goto("main", "release") /\ UNCHANGED objs
    BY <1>5, <2>2 DEF GetVolume, Build
  <2>3. QED
    BY <1>5, <2>1, <2>2 DEF GetVolume, Build
<1>6. CASE Construct
  <2>1. CASE End("abort")
    BY <1>6, <2>1, EndAnyInv
  <2>2. CASE /\ objs' = objs \union {"winfsp"} /\ Goto("main", "create")
             /\ g_mounted_fs' = TRUE
             /\ UNCHANGED <<file_system_, sigint, winfsp, process>>
    BY <1>6, <2>2 DEF Construct
  <2>3. QED
    BY <1>6, <2>1, <2>2 DEF Construct
<1>7. CASE Create
  <2>1. CASE End("abort")
    BY <1>7, <2>1, EndAnyInv
  <2>2. CASE Goto("main", "unmount") /\ UNCHANGED <<code, winfsp, process>>
    BY <1>7, <2>2 DEF Create
  <2>3. CASE /\ fs' = "created" /\ file_system_' = "fs" /\ Goto("main", "context")
             /\ UNCHANGED <<g_mounted_fs, objs, sigint, context, mountPoint,
                            dispatcher, serving, process>>
    <3>1. pc["main"] = "create" /\ exit = "running" /\ fs = "none"
      BY <1>7 DEF Create
    <3>2. QED
      BY <2>3, <3>1
  <2>4. QED
    BY <1>7, <2>1, <2>2, <2>3 DEF Create
<1>8. CASE SetUserContext
  BY <1>8 DEF SetUserContext
<1>9. CASE SetMountPoint
  <2>1. CASE mountPoint' = TRUE /\ Goto("main", "start")
    BY <1>9, <2>1 DEF SetMountPoint
  <2>2. CASE Goto("main", "undo") /\ UNCHANGED mountPoint
    BY <1>9, <2>2 DEF SetMountPoint
  <2>3. QED
    BY <1>9, <2>1, <2>2 DEF SetMountPoint
<1>10. CASE StartDispatcher
  <2>1. CASE dispatcher' = "running" /\ Goto("main", "wait")
    BY <1>10, <2>1 DEF StartDispatcher
  <2>2. CASE Goto("main", "undo") /\ UNCHANGED dispatcher
    BY <1>10, <2>2 DEF StartDispatcher
  <2>3. QED
    BY <1>10, <2>1, <2>2 DEF StartDispatcher
<1>11. CASE UndoMount
  BY <1>11 DEF UndoMount
<1>12. CASE ForgetUndone
  BY <1>12 DEF ForgetUndone
<1>13. CASE Destroy
  BY <1>13 DEF Destroy
<1>14. CASE Release
  BY <1>14 DEF Release
<1>15. CASE Handle
  BY <1>15 DEF Handle
<1>16. CASE HandlerExit
  BY <1>16, EndAnyInv DEF HandlerExit
<1>17. ASSUME NEW a \in {"main", "handler"}, TestMounted(a) PROVE AnyInv'
  BY <1>17 DEF TestMounted, Returned
<1>18. ASSUME NEW a \in {"main", "handler"}, StopDispatcher(a) PROVE AnyInv'
  BY <1>18 DEF StopDispatcher
<1>19. ASSUME NEW a \in {"main", "handler"}, JoinDispatcher(a) PROVE AnyInv'
  BY <1>19 DEF JoinDispatcher
<1>20. ASSUME NEW a \in {"main", "handler"}, Delete(a) PROVE AnyInv'
  BY <1>20 DEF Delete
<1>21. ASSUME NEW a \in {"main", "handler"}, Forget(a) PROVE AnyInv'
  BY <1>21 DEF Forget, Returned
<1>22. ASSUME NEW a \in {"main", "handler"}, Fault(a) PROVE AnyInv'
  BY <1>22, EndAnyInv DEF Fault, Misuse
<1>23. CASE CtrlC
  <2>1. CASE /\ sigint' = "default" /\ Goto("handler", "handle")
             /\ early' = (early \/ pc["main"] # "wait")
             /\ UNCHANGED <<file_system_, g_mounted_fs, objs, winfsp, exit>>
    BY <2>1
  <2>2. CASE End("killed")
    BY <2>2, EndAnyInv
  <2>3. QED
    BY <1>23, <2>1, <2>2 DEF CtrlC
<1>24. ASSUME NEW w \in Workers, BeginCallback(w) PROVE AnyInv'
  BY <1>24 DEF BeginCallback
<1>25. ASSUME NEW w \in Workers, EndCallback(w) PROVE AnyInv'
  <2>1. CASE serving' = serving \ {w} /\ UNCHANGED <<pc, code, fs, context, mountPoint, dispatcher, process>>
    BY <2>1
  <2>2. CASE End("fault")
    BY <2>2, EndAnyInv
  <2>3. QED
    BY <1>25, <2>1, <2>2 DEF EndCallback
<1>26. CASE UNCHANGED vars
  BY <1>26 DEF vars
<1>27. QED
  BY <1>1, <1>2, <1>3, <1>4, <1>5, <1>6, <1>7, <1>8, <1>9, <1>10, <1>11, <1>12, <1>13, <1>14, <1>15, <1>16, <1>17, <1>18, <1>19, <1>20, <1>21, <1>22, <1>23, <1>24, <1>25, <1>26
     DEF Next, Main, Handler, Unmount, Ended

\* AnyInv is an invariant.
LEMMA AlwaysAnyInv == Spec => []AnyInv
<1>1. AnyInv /\ [Next]_vars => AnyInv'
  BY StepAnyInv
<1>2. QED
  BY InitAnyInv, <1>1, PTL DEF Spec

\* Every variable keeps its type, in the race too.
THEOREM TypeCorrect == Spec => []TypeOK
<1>1. AnyInv => TypeOK
  BY DEF AnyInv
<1>2. QED
  BY AlwaysAnyInv, <1>1, PTL

\* main's failure paths undo everything WinFsp was asked for, whenever Ctrl+C is
\* pressed.
THEOREM FailureUndoesMount == Spec => []FailedMountLeavesNothing
<1>1. AnyInv => FailedMountLeavesNothing
  BY DEF AnyInv
<1>2. QED
  BY AlwaysAnyInv, <1>1, PTL

-----------------------------------------------------------------------------
(* Every step of Next keeps IInv, unless it starts the handler early.      *)

\* IInv holds before main has done anything.
LEMMA InitIInv == Init => IInv
BY DEF Init, IInv, TypeOK, Alive, Built, MainPart, HandlerPart, NoFault,
       FailedMountLeavesNothing, ExitZeroIsUnmounted, MainLabels, HandlerLabels,
       Starting, Mounting, Unmounting, Objects

\* The process may end by itself or be killed while nothing of it is broken.
LEMMA EndIInv ==
  ASSUME IInv, exit = "running",
         NEW how \in {"0", "1", "abort", "killed"}, End(how),
         how \in {"0", "1"} => pc["main"] \in Starting \/ pc["handler"] = "exit"
  PROVE  IInv'
<1>1. how \in {"0", "1"} =>
        fs # "created" /\ ~mountPoint /\ dispatcher = "off" /\ serving = {}
  BY DEF IInv, TypeOK, Alive, MainPart, HandlerPart, Starting, MainLabels, Mounting
<1>2. TypeOK'
  BY DEF IInv, TypeOK, End, code, winfsp, process
<1>3. Alive' /\ NoFault'
  BY DEF End, Alive, NoFault
<1>4. FailedMountLeavesNothing' /\ ExitZeroIsUnmounted'
  BY <1>1 DEF End, FailedMountLeavesNothing, ExitZeroIsUnmounted, code, winfsp, process
<1>5. QED
  BY <1>2, <1>3, <1>4 DEF IInv

\* No step of the process, of WinFsp or of the user breaks IInv, except a Ctrl+C
\* that starts the handler early.
LEMMA StepIInv ==
  ASSUME IInv, [Next]_vars, ~early'
  PROVE  IInv'
<1> USE DEF IInv, TypeOK, MainLabels, HandlerLabels, Objects, Starting, Mounting,
            Unmounting, Alive, Built, MainPart, HandlerPart, NoFault,
            FailedMountLeavesNothing, ExitZeroIsUnmounted,
            At, Goto, End, Usable, code, winfsp, process
<1>1. CASE Arguments
  <2>1. CASE \E how \in {"0", "1", "abort"} : End(how)
    BY <1>1, <2>1, EndIInv DEF Arguments
  <2>2. CASE Goto("main", "signals") /\ UNCHANGED <<code, winfsp, process>>
    BY <1>1, <2>2 DEF Arguments
  <2>3. QED
    BY <1>1, <2>1, <2>2 DEF Arguments
<1>2. CASE RegisterSignals
  BY <1>2 DEF RegisterSignals
<1>3. CASE OpenDisk
  <2>1. CASE Goto("main", "container") /\ objs' = objs \union {"disk"}
    BY <1>3, <2>1 DEF OpenDisk, Build
  <2>2. CASE Goto("main", "release") /\ UNCHANGED objs
    BY <1>3, <2>2 DEF OpenDisk, Build
  <2>3. QED
    BY <1>3, <2>1, <2>2 DEF OpenDisk, Build
<1>4. CASE InitContainer
  <2>1. CASE Goto("main", "volume") /\ objs' = objs \union {"container"}
    BY <1>4, <2>1 DEF InitContainer, Build
  <2>2. CASE Goto("main", "release") /\ UNCHANGED objs
    BY <1>4, <2>2 DEF InitContainer, Build
  <2>3. QED
    BY <1>4, <2>1, <2>2 DEF InitContainer, Build
<1>5. CASE GetVolume
  <2>1. CASE Goto("main", "construct") /\ objs' = objs \union {"volume"}
    BY <1>5, <2>1 DEF GetVolume, Build
  <2>2. CASE Goto("main", "release") /\ UNCHANGED objs
    BY <1>5, <2>2 DEF GetVolume, Build
  <2>3. QED
    BY <1>5, <2>1, <2>2 DEF GetVolume, Build
<1>6. CASE Construct
  <2>1. CASE End("abort")
    BY <1>6, <2>1, EndIInv DEF Construct
  <2>2. CASE /\ objs' = objs \union {"winfsp"} /\ g_mounted_fs' = TRUE
             /\ Goto("main", "create")
             /\ UNCHANGED <<file_system_, sigint, winfsp, process>>
    <3>1. pc["main"] = "construct" /\ exit = "running"
      BY <1>6 DEF Construct
    <3>2. objs' = Objects
      BY <2>2, <3>1
    <3>3. pc' = [pc EXCEPT !["main"] = "create"]
      BY <2>2
    <3>4. TypeOK' /\ pc'["main"] = "create" /\ pc'["handler"] = "none"
      BY <2>2, <3>1, <3>2, <3>3
    <3>5. QED
      BY <2>2, <3>1, <3>2, <3>4
  <2>3. QED
    BY <1>6, <2>1, <2>2 DEF Construct
<1>7. CASE Create
  <2>1. CASE End("abort")
    BY <1>7, <2>1, EndIInv DEF Create
  <2>2. CASE Goto("main", "unmount") /\ UNCHANGED <<code, winfsp, process>>
    BY <1>7, <2>2 DEF Create
  <2>3. CASE Goto("main", "context")
    BY <1>7, <2>3 DEF Create
  <2>4. QED
    BY <1>7, <2>1, <2>2, <2>3 DEF Create
<1>8. CASE SetUserContext
  BY <1>8 DEF SetUserContext
<1>9. CASE SetMountPoint
  <2>1. CASE mountPoint' = TRUE /\ Goto("main", "start")
    BY <1>9, <2>1 DEF SetMountPoint
  <2>2. CASE Goto("main", "undo") /\ UNCHANGED mountPoint
    BY <1>9, <2>2 DEF SetMountPoint
  <2>3. QED
    BY <1>9, <2>1, <2>2 DEF SetMountPoint
<1>10. CASE StartDispatcher
  <2>1. CASE dispatcher' = "running" /\ Goto("main", "wait")
    BY <1>10, <2>1 DEF StartDispatcher
  <2>2. CASE Goto("main", "undo") /\ UNCHANGED dispatcher
    BY <1>10, <2>2 DEF StartDispatcher
  <2>3. QED
    BY <1>10, <2>1, <2>2 DEF StartDispatcher
<1>11. CASE UndoMount
  BY <1>11 DEF UndoMount
<1>12. CASE ForgetUndone
  BY <1>12 DEF ForgetUndone
<1>13. CASE Destroy
  BY <1>13 DEF Destroy
<1>14. CASE Release
  BY <1>14 DEF Release
<1>15. CASE Handle
  BY <1>15 DEF Handle
<1>16. CASE HandlerExit
  BY <1>16 DEF HandlerExit
<1>17. ASSUME NEW a \in {"main", "handler"}, TestMounted(a) PROVE IInv'
  BY <1>17 DEF TestMounted, Returned
<1>18. ASSUME NEW a \in {"main", "handler"}, StopDispatcher(a) PROVE IInv'
  BY <1>18 DEF StopDispatcher
<1>19. ASSUME NEW a \in {"main", "handler"}, JoinDispatcher(a) PROVE IInv'
  BY <1>19 DEF JoinDispatcher
<1>20. ASSUME NEW a \in {"main", "handler"}, Delete(a) PROVE IInv'
  BY <1>20 DEF Delete
<1>21. ASSUME NEW a \in {"main", "handler"}, Forget(a) PROVE IInv'
  BY <1>21 DEF Forget, Returned
<1>22. ASSUME NEW a \in {"main", "handler"}, Fault(a) PROVE IInv'
  BY <1>22 DEF Fault, Misuse
<1>23. CASE CtrlC
  <2>1. CASE sigint = "handler"
    <3>1. /\ sigint' = "default" /\ pc["main"] = "wait" /\ exit = "running"
          /\ pc' = [pc EXCEPT !["handler"] = "handle"]
          /\ UNCHANGED <<file_system_, g_mounted_fs, objs, fs, context, mountPoint,
                         dispatcher, serving, exit>>
      BY <1>23, <2>1 DEF CtrlC
    <3>2. pc["handler"] = "none"
      BY <2>1, <3>1
    <3>3. TypeOK'
      <4>1. early' \in BOOLEAN
        BY <1>23, <2>1 DEF CtrlC
      <4>2. QED
        BY <3>1, <4>1
    <3>4. Built' /\ MainPart' /\ HandlerPart'
      BY <3>1, <3>2
    <3>5. QED
      BY <3>1, <3>3, <3>4
  <2>2. CASE sigint # "handler"
    BY <1>23, <2>2, EndIInv DEF CtrlC
  <2>3. QED
    BY <2>1, <2>2
<1>24. ASSUME NEW w \in Workers, BeginCallback(w) PROVE IInv'
  BY <1>24 DEF BeginCallback
<1>25. ASSUME NEW w \in Workers, EndCallback(w) PROVE IInv'
  BY <1>25 DEF EndCallback, ContextLive
<1>26. CASE UNCHANGED vars
  BY <1>26 DEF vars
<1>27. QED
  BY <1>1, <1>2, <1>3, <1>4, <1>5, <1>6, <1>7, <1>8, <1>9, <1>10, <1>11, <1>12, <1>13, <1>14, <1>15, <1>16, <1>17, <1>18, <1>19, <1>20, <1>21, <1>22, <1>23, <1>24, <1>25, <1>26
     DEF Next, Main, Handler, Unmount, Ended

-----------------------------------------------------------------------------
(* Theorems.                                                               *)

\* A handler that was started early stays so.
LEMMA EarlyStays == early /\ [Next]_vars => early'
BY DEF Next, Main, Handler, Unmount, Ended, Arguments, RegisterSignals, OpenDisk,
       InitContainer, GetVolume, Build, Construct, Create, SetUserContext,
       SetMountPoint, StartDispatcher, UndoMount, ForgetUndone, Destroy, Release,
       Handle, HandlerExit, TestMounted, StopDispatcher, JoinDispatcher, Delete,
       Forget, Fault, Misuse, CtrlC, BeginCallback, EndCallback, End, process, vars

\* IInv holds until the handler is started early.
LEMMA AlwaysIInv == Spec => [](early \/ IInv)
<1>1. (early \/ IInv) /\ [Next]_vars => (early \/ IInv)'
  BY StepIInv, EarlyStays
<1>2. QED
  BY InitIInv, <1>1, PTL DEF Spec

\* Unless the handler is started before main sleeps, no step of mount(),
\* unmount(), the destructors or a callback uses a file system or an object that
\* is not there.
THEOREM NoFaultOnceMounted == Spec => []NoFaultUnlessEarly
<1>1. early \/ IInv => NoFaultUnlessEarly
  BY DEF IInv, NoFaultUnlessEarly
<1>2. QED
  BY AlwaysIInv, <1>1, PTL

\* Exit status 0 means that the volume has been unmounted and was drained,
\* unless the handler was started before main slept.
THEOREM ExitZeroUnmounts == Spec => []ExitZeroIsUnmounted
<1>1. early \/ IInv => ExitZeroIsUnmounted
  BY DEF IInv, ExitZeroIsUnmounted
<1>2. QED
  BY AlwaysIInv, <1>1, PTL

\* A callback that runs finds its file system, its context and the volume alive,
\* unless the handler was started before main slept.
THEOREM CallbacksAreSafe == Spec => []CallbacksSeeLiveObjects
<1>1. IInv => CallbacksSeeLiveObjects
  BY DEF IInv, TypeOK, Alive, Built, MainPart, HandlerPart, Starting, Mounting,
         Unmounting, CallbacksSeeLiveObjects, ContextLive, HandlerLabels
<1>2. early => CallbacksSeeLiveObjects
  BY DEF CallbacksSeeLiveObjects
<1>3. QED
  BY AlwaysIInv, <1>1, <1>2, PTL

-----------------------------------------------------------------------------
(* The refinement of ServedDrive, until the handler is started early.      *)

\* Which steps show: the drive appears, vanishes, is left by the process, or
\* serves.
LEMMA DriveStep ==
  ASSUME IInv, [Next]_vars
  PROVE  [SD!Next]_(SD!vars)
<1> USE DEF IInv, TypeOK, MainLabels, HandlerLabels, Objects, Starting, Mounting,
            Unmounting, Alive, Built, MainPart, HandlerPart, NoFault,
            At, Usable, code, winfsp, process
<1> DEFINE Quiet == UNCHANGED <<fs, mountPoint, serving, exit>>
           Exits == /\ exit = "running" /\ exit' \in {"0", "1", "abort"} /\ ~mountPoint
                    /\ UNCHANGED <<fs, mountPoint, serving>>
           Deletes == /\ exit = "running" /\ fs = "created" /\ serving = {}
                      /\ fs' = "deleted" /\ ~mountPoint' /\ UNCHANGED <<serving, exit>>
<1>1. Quiet => UNCHANGED SD!vars
  BY DEF SD!vars
<1>2. Exits => SD!Exit
  BY DEF SD!Exit
<1>3. Deletes => SD!Vanish
  BY DEF SD!Vanish
<1>4. Quiet \/ Exits \/ Deletes => [SD!Next]_(SD!vars)
  BY <1>1, <1>2, <1>3 DEF SD!Next
<1> HIDE DEF Quiet, Exits, Deletes
<1>5. CASE Arguments \/ Construct \/ Create
  <2>1. CASE \E how \in {"0", "1", "abort"} : End(how)
    BY <1>5, <2>1, <1>4 DEF Arguments, Construct, Create, End, Exits
  <2>2. CASE \/ Goto("main", "signals") /\ UNCHANGED <<code, winfsp, process>>
             \/ UNCHANGED <<file_system_, sigint, winfsp, process>>
             \/ Goto("main", "unmount") /\ UNCHANGED <<code, winfsp, process>>
    BY <2>2, <1>4 DEF Quiet
  <2>3. CASE Create /\ fs' = "created" /\ UNCHANGED <<mountPoint, serving, exit>>
    BY <2>3 DEF Create, SD!vars
  <2>4. QED
    BY <1>5, <2>1, <2>2, <2>3 DEF Arguments, Construct, Create
<1>6. CASE \/ RegisterSignals \/ OpenDisk \/ InitContainer \/ GetVolume
           \/ SetUserContext \/ StartDispatcher \/ ForgetUndone \/ Destroy \/ Handle
  BY <1>6, <1>4 DEF RegisterSignals, OpenDisk, InitContainer, GetVolume, Build,
     SetUserContext, StartDispatcher, ForgetUndone, Destroy, Handle, Quiet
<1>7. CASE SetMountPoint
  <2>1. CASE mountPoint' = TRUE
    BY <1>7, <2>1 DEF SetMountPoint, SD!Appear, SD!Next, SD!vars
  <2>2. CASE UNCHANGED mountPoint
    BY <1>7, <2>2, <1>4 DEF SetMountPoint, Quiet
  <2>3. QED
    BY <1>7, <2>1, <2>2 DEF SetMountPoint
<1>8. CASE UndoMount
  BY <1>8, <1>4 DEF UndoMount, Deletes
<1>9. CASE Release \/ HandlerExit
  BY <1>9, <1>4 DEF Release, HandlerExit, End, Exits
<1>10. ASSUME NEW a \in {"main", "handler"},
              \/ TestMounted(a) \/ StopDispatcher(a) \/ JoinDispatcher(a) \/ Forget(a)
       PROVE  [SD!Next]_(SD!vars)
  BY <1>10, <1>4 DEF TestMounted, StopDispatcher, JoinDispatcher, Forget, Quiet
<1>11. ASSUME NEW a \in {"main", "handler"}, Delete(a) PROVE [SD!Next]_(SD!vars)
  BY <1>11, <1>4 DEF Delete, Deletes
<1>12. ASSUME NEW a \in {"main", "handler"}, Fault(a) PROVE FALSE
  BY <1>12 DEF Fault, Misuse
<1>13. CASE CtrlC
  <2>1. CASE sigint = "handler"
    BY <1>13, <2>1, <1>4 DEF CtrlC, Quiet
  <2>2. CASE End("killed") /\ exit = "running"
    BY <2>2 DEF End, SD!Kill, SD!Next
  <2>3. QED
    BY <1>13, <2>1, <2>2 DEF CtrlC
<1>14. ASSUME NEW w \in Workers, BeginCallback(w) PROVE [SD!Next]_(SD!vars)
  <2>1. SD!Begin(w)
    BY <1>14 DEF BeginCallback, SD!Begin
  <2>2. QED
    BY <2>1 DEF SD!Next
<1>15. ASSUME NEW w \in Workers, EndCallback(w) PROVE [SD!Next]_(SD!vars)
  <2>1. ContextLive
    BY <1>15 DEF EndCallback, ContextLive
  <2>2. SD!Finish(w)
    BY <1>15, <2>1 DEF EndCallback, SD!Finish
  <2>3. QED
    BY <2>2 DEF SD!Next
<1>16. CASE UNCHANGED vars
  BY <1>16, <1>4 DEF vars, Quiet
<1>17. QED
  BY <1>5, <1>6, <1>7, <1>8, <1>9, <1>10, <1>11, <1>12, <1>13, <1>14, <1>15, <1>16
     DEF Next, Main, Handler, Unmount, Ended

\* Until the handler is started early, a user sees a drive that appears at most
\* once, serves while it is there and vanishes only when it serves nothing.
THEOREM DriveRefinement == Spec => ImplementsServedDrive
<1>1. Init => SD!Init
  BY DEF Init, SD!Init
<1>2. (early \/ IInv) /\ [Next]_vars => [early' \/ SD!Next]_(SD!vars)
  BY DriveStep, EarlyStays
<1>3. QED
  BY AlwaysIInv, <1>1, <1>2, PTL DEF Spec, ImplementsServedDrive
=============================================================================
