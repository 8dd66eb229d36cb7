--------------------------------- MODULE Bridge ---------------------------------
(***************************************************************************)
(* The application as the user interface sees it: ui/bridge/shizuru_bridge  *)
(* .cpp over app/assembly/app_runtime.cpp, with the device bus and the      *)
(* threads that use it.                                                     *)
(*                                                                          *)
(*   ui       the Dart isolate, which makes one call of the C interface     *)
(*            after the other (agent_provider.dart, shizuru_ffi.dart)       *)
(*   starter  state_poll_thread: AppRuntime::Start(), then the polling      *)
(*   capture  the audio library's thread, while the microphone runs         *)
(*   loop     the controller's thread                                       *)
(*   asr      the recogniser's worker                                       *)
(*                                                                          *)
(* Of the devices there are those that emit frames or run a thread, and the *)
(* synthesiser; a recording probe that only passes frames on is left out    *)
(* but for one, and the VAD with its adapter is one device.  The callbacks  *)
(* of the UI are two: "output" stands for those the bridge keeps under      *)
(* cb_mutex, "probe" for those of the two probes.                           *)
(***************************************************************************)
EXTENDS DeviceBus, FiniteSets

CONSTANTS MaxFrames, MaxMessages

ASSUME BridgeAssumption ==
  /\ Threads = {"ui", "starter", "capture", "loop", "asr"}
  /\ MaxFrames \in Nat /\ MaxMessages \in Nat

VARIABLES context,          \* the UI's handle: live or deleted
          alive,            \* the threads that run
          active,           \* the devices that have been started
          core_device,      \* core_device_ is set
          poll_stop, loop_stop, asr_stop,
          capture_running,
          frames, messages, \* counters of what was captured and typed
          inbox, tasks,     \* the loop's observations, the recogniser's utterances
          callbacks,        \* those the UI has set
          voice             \* the last choice made of voice input and output

appVars == <<context, alive, active, core_device, poll_stop, loop_stop, asr_stop,
             capture_running, frames, messages, inbox, tasks, callbacks, voice>>
vars == <<busVars, appVars>>

Devices == {"capture", "vad", "asr", "tts", "level_probe", "transcript_probe", "core"}
Workers == Threads \ {"ui"}
Ports == {"audio_out", "pass_out", "interrupt_out", "flush_out", "text_out", "tts_out", "control_out"}
To(device, port) == [device |-> device, port |-> port]

\* The routes shizuru_create adds, with the voice input disabled.
BridgeRoutes ==
  [from \in Ports |->
     CASE from = "audio_out" -> <<[to |-> To("capture", "in"), enabled |-> FALSE],
                                  [to |-> To("level_probe", "in"), enabled |-> TRUE]>>
       [] from = "pass_out" -> <<[to |-> To("vad", "in"), enabled |-> TRUE]>>
       [] from = "flush_out" -> <<[to |-> To("asr", "control"), enabled |-> TRUE]>>
       [] from = "interrupt_out" -> <<[to |-> To("core", "interrupt"), enabled |-> TRUE]>>
       [] from = "text_out" -> <<[to |-> To("core", "text"), enabled |-> TRUE],
                                 [to |-> To("transcript_probe", "in"), enabled |-> TRUE]>>
       [] OTHER -> <<>>]

Add(from, device, port) == Op("add_route", [from |-> from, to |-> To(device, port)])
SetVoice(kind, enabled) ==
  IF kind = "input"
  THEN Op("set_route", [from |-> "audio_out", to |-> To("capture", "in"), enabled |-> enabled])
  ELSE Op("set_route", [from |-> "tts_out", to |-> To("tts", "text"), enabled |-> enabled])

\* AppRuntime::Start: the core is registered and routed, the history replayed,
\* and every device started in the order of its registration.
WireRoutes == <<Add("tts_out", "tts", "text"), Add("interrupt_out", "core", "interrupt"),
                Add("flush_out", "asr", "control"), Add("control_out", "tts", "control")>>
StartApp ==
  <<Op("build", "-")>> \o <<Op("register", "core")>> \o WireRoutes \o <<Op("copy", "output")>>
    \o <<Op("start", "vad"), Op("start", "asr"), Op("start", "tts"), Op("start", "core")>>
    \o <<SetVoice("output", FALSE), Op("poll", "-")>>

\* shizuru_start is part of the initial state: before it nothing runs.
Init ==
  /\ registered = Devices \ {"core"} /\ routes = BridgeRoutes
  /\ readers = [t \in Threads |-> 0] /\ writer = "none"
  /\ stack = [t \in Threads |-> IF t = "starter" THEN StartApp ELSE <<>>]
  /\ context = "live" /\ alive = {"starter"} /\ active = {} /\ core_device = FALSE
  /\ poll_stop = FALSE /\ loop_stop = FALSE /\ asr_stop = FALSE /\ capture_running = FALSE
  /\ frames = 0 /\ messages = 0 /\ inbox = <<>> /\ tasks = 0
  /\ callbacks = {"output", "probe"}
  /\ voice = [k \in {"input", "output"} |-> FALSE]

BusOnly == UNCHANGED appVars
StackOnly == UNCHANGED <<registered, routes, readers, writer>>

-----------------------------------------------------------------------------
\* What a device does with a frame, on the thread that brings it

Passed(device) ==
  CASE device = "capture" -> {<<Op("dispatch", "pass_out")>>}
    [] device \in {"level_probe", "transcript_probe"} -> {<<Op("copy", "probe")>>}
    [] device = "vad" /\ "vad" \in active ->
         {<<>>, <<Op("dispatch", "interrupt_out")>>, <<Op("dispatch", "flush_out")>>}
    [] OTHER -> {<<>>}

DeliverPlain(t) ==
  /\ At(t, "deliver") /\ Arg(t).device \in Devices \ {"core", "asr"}
  /\ \E received \in Passed(Arg(t).device) : Deliver(t, received)
  /\ BusOnly

\* A flush makes a task for the recogniser's worker.
DeliverAsr(t) ==
  /\ At(t, "deliver") /\ Arg(t).device = "asr" /\ Deliver(t, <<>>)
  /\ tasks' = IF "asr" \in active /\ "asr" \in registered THEN tasks + 1 ELSE tasks
  /\ UNCHANGED <<context, alive, active, core_device, poll_stop, loop_stop, asr_stop,
                 capture_running, frames, messages, inbox, callbacks, voice>>

\* The core, when active, queues an observation; an interruption first makes it
\* cancel the synthesiser.
DeliverCore(t) ==
  /\ At(t, "deliver") /\ Arg(t).device = "core"
  /\ LET heard == "core" \in active /\ "core" \in registered
         interrupt == Arg(t).port = "interrupt"
     IN /\ Deliver(t, IF heard /\ interrupt THEN <<Op("dispatch", "control_out")>> ELSE <<>>)
        /\ inbox' = IF heard THEN Append(inbox, Arg(t).port) ELSE inbox
  /\ UNCHANGED <<context, alive, active, core_device, poll_stop, loop_stop, asr_stop,
                 capture_running, frames, messages, tasks, callbacks, voice>>

\* The callback is copied under its mutex and called without it.
CopyCallback(t) ==
  /\ At(t, "copy")
  /\ GoesOn(t, IF Arg(t) \in callbacks THEN <<Op("call", Arg(t))>> ELSE <<>>)
  /\ StackOnly /\ BusOnly

CallBack(t) == At(t, "call") /\ GoesOn(t, <<>>) /\ StackOnly /\ BusOnly

Step(t) ==
  \/ BusStep(t) /\ BusOnly
  \/ DeliverPlain(t) \/ DeliverAsr(t) \/ DeliverCore(t)
  \/ CopyCallback(t) \/ CallBack(t)

-----------------------------------------------------------------------------
\* The threads of the library

Idle(t) == t \in alive /\ stack[t] = <<>>
Begins(t, ops) == stack' = [stack EXCEPT ![t] = ops]

CaptureFrame ==
  /\ Idle("capture") /\ frames < MaxFrames /\ frames' = frames + 1
  /\ Begins("capture", <<Op("dispatch", "audio_out")>>) /\ StackOnly
  /\ UNCHANGED <<context, alive, active, core_device, poll_stop, loop_stop, asr_stop,
                 capture_running, messages, inbox, tasks, callbacks, voice>>

\* An observation answered: its items go to the UI, its segments to the
\* synthesiser; an interruption cancels it.
LoopTakes ==
  /\ Idle("loop") /\ ~loop_stop /\ inbox # <<>> /\ inbox' = Tail(inbox)
  /\ Begins("loop", IF Head(inbox) = "interrupt" THEN <<Op("dispatch", "control_out")>>
                    ELSE <<Op("copy", "output"), Op("dispatch", "tts_out")>>)
  /\ StackOnly
  /\ UNCHANGED <<context, alive, active, core_device, poll_stop, loop_stop, asr_stop,
                 capture_running, frames, messages, tasks, callbacks, voice>>

AsrTakes ==
  /\ Idle("asr") /\ tasks > 0 /\ tasks' = tasks - 1
  /\ Begins("asr", <<Op("dispatch", "text_out")>>) /\ StackOnly
  /\ UNCHANGED <<context, alive, active, core_device, poll_stop, loop_stop, asr_stop,
                 capture_running, frames, messages, inbox, callbacks, voice>>

Ends(t) ==
  /\ alive' = alive \ {t}
  /\ UNCHANGED <<busVars, context, active, core_device, poll_stop, loop_stop, asr_stop,
                 capture_running, frames, messages, inbox, tasks, callbacks, voice>>

ThreadEnds ==
  \/ Idle("loop") /\ loop_stop /\ Ends("loop")
  \/ Idle("asr") /\ asr_stop /\ tasks = 0 /\ Ends("asr")
  \/ Idle("starter") /\ Ends("starter")

\* Start() as far as the core: it may throw, which the UI is told while the
\* mutex of the callbacks is held, and ends the thread.
Build ==
  /\ At("starter", "build") /\ StackOnly
  /\ \/ GoesOn("starter", <<>>) /\ core_device' = TRUE
     \/ Begins("starter", <<>>) /\ UNCHANGED core_device
  /\ UNCHANGED <<context, alive, active, poll_stop, loop_stop, asr_stop,
                 capture_running, frames, messages, inbox, tasks, callbacks, voice>>

StartAll ==
  \E d \in Devices :
    /\ StartDevice("starter", d) /\ active' = active \cup {d}
    /\ alive' = alive \cup (IF d = "core" THEN {"loop"} ELSE {d} \cap {"asr"})
    /\ UNCHANGED <<context, core_device, poll_stop, loop_stop, asr_stop,
                   capture_running, frames, messages, inbox, tasks, callbacks, voice>>

\* The polling thread tells the UI of a new state, until it is to stop.
Poll ==
  /\ At("starter", "poll") /\ StackOnly /\ BusOnly
  /\ \/ poll_stop /\ GoesOn("starter", <<>>)
     \/ ~poll_stop /\ GoesOn("starter", <<Op("copy", "output"), Op("poll", "-")>>)

-----------------------------------------------------------------------------
\* The calls of the user interface

UiIdle == context = "live" /\ stack["ui"] = <<>>
Calls(ops) == UiIdle /\ Begins("ui", ops) /\ StackOnly

SetVoicePathway ==
  \E kind \in {"input", "output"}, enabled \in BOOLEAN :
    /\ enabled # voice[kind] /\ voice' = [voice EXCEPT ![kind] = enabled]
    /\ Calls(<<SetVoice(kind, enabled)>>)
    /\ UNCHANGED <<context, alive, active, core_device, poll_stop, loop_stop, asr_stop,
                   capture_running, frames, messages, inbox, tasks, callbacks>>

\* Straight to the core, past the bus; dropped before the core has started.
SendMessage ==
  /\ UiIdle /\ messages < MaxMessages /\ messages' = messages + 1
  /\ inbox' = IF core_device /\ "core" \in active THEN Append(inbox, "text") ELSE inbox
  /\ UNCHANGED <<busVars, context, alive, active, core_device, poll_stop, loop_stop, asr_stop,
                 capture_running, frames, tasks, callbacks, voice>>

\* A stream that cannot be opened is told the UI under the mutex of the callbacks.
StartCapture ==
  /\ ~capture_running
  /\ \/ /\ Calls(<<>>) /\ capture_running' = TRUE /\ alive' = alive \cup {"capture"}
     \/ /\ "output" \in callbacks /\ Calls(<<Op("call", "output")>>)
        /\ UNCHANGED <<capture_running, alive>>
  /\ UNCHANGED <<context, active, core_device, poll_stop, loop_stop, asr_stop,
                 frames, messages, inbox, tasks, callbacks, voice>>

StopCapture ==
  /\ capture_running /\ Calls(<<Op("stop_stream", "-")>>) /\ capture_running' = FALSE
  /\ UNCHANGED <<context, alive, active, core_device, poll_stop, loop_stop, asr_stop,
                 frames, messages, inbox, tasks, callbacks, voice>>

DestroyOps ==
  <<Op("join", "starter"), Op("stop_streams", "-"), Op("clear_probes", "-"), Op("clear_callbacks", "-"),
    Op("null_core", "-"), Op("empty", "-"),
    Op("stop", "core"), Op("join", "loop"), Op("stop", "tts"), Op("stop", "asr"), Op("join", "asr"),
    Op("stop", "vad"), Op("delete", "-")>>

Destroy ==
  /\ Calls(DestroyOps) /\ poll_stop' = TRUE
  /\ UNCHANGED <<context, alive, active, core_device, loop_stop, asr_stop,
                 capture_running, frames, messages, inbox, tasks, callbacks, voice>>

UiCall ==
  SetVoicePathway \/ SendMessage \/ StartCapture \/ StopCapture \/ Destroy

\* How the calls go on.
Ended(t) == t \notin alive

\* Does not wait for the thread.
NotWaited(t) == TRUE

Joined(t) == Ended(t)

UiDoes(op) == At("ui", op) /\ GoesOn("ui", <<>>) /\ StackOnly

Join ==
  /\ UiDoes("join") /\ Joined(Arg("ui")) /\ BusOnly

\* Stopping a stream waits for its callback.
StopStream ==
  /\ (UiDoes("stop_stream") \/ UiDoes("stop_streams")) /\ stack["capture"] = <<>>
  /\ alive' = alive \ {"capture"} /\ capture_running' = FALSE
  /\ UNCHANGED <<context, active, core_device, poll_stop, loop_stop, asr_stop,
                 frames, messages, inbox, tasks, callbacks, voice>>

ClearCallbacks ==
  /\ \/ UiDoes("clear_probes") /\ callbacks' = callbacks \ {"probe"}
     \/ UiDoes("clear_callbacks") /\ callbacks' = callbacks \ {"output"}
  /\ UNCHANGED <<context, alive, active, core_device, poll_stop, loop_stop, asr_stop,
                 capture_running, frames, messages, inbox, tasks, voice>>

StopDevices ==
  /\ \/ UiDoes("null_core") /\ core_device' = FALSE /\ UNCHANGED <<active, loop_stop, asr_stop>>
     \/ /\ UiDoes("stop") /\ active' = active \ {Arg("ui")}
        /\ loop_stop' = (loop_stop \/ Arg("ui") = "core")
        /\ asr_stop' = (asr_stop \/ Arg("ui") = "asr")
        /\ UNCHANGED core_device
  /\ UNCHANGED <<context, alive, poll_stop, capture_running, frames, messages, inbox, tasks,
                 callbacks, voice>>

Delete ==
  /\ UiDoes("delete") /\ context' = "deleted"
  /\ UNCHANGED <<alive, active, core_device, poll_stop, loop_stop, asr_stop,
                 capture_running, frames, messages, inbox, tasks, callbacks, voice>>

UiStep == Step("ui") \/ Join \/ StopStream \/ ClearCallbacks \/ StopDevices \/ Delete

WorkerStep(t) ==
  \/ Step(t)
  \/ t = "starter" /\ (Build \/ StartAll \/ Poll)
  \/ t = "loop" /\ LoopTakes
  \/ t = "asr" /\ AsrTakes

Next ==
  \/ \E t \in Workers : WorkerStep(t)
  \/ CaptureFrame \/ ThreadEnds
  \/ UiCall \/ UiStep

\* Threads go on with what they do, and so does the UI with a call it has made;
\* nobody need speak, or call.
Fairness ==
  /\ \A t \in Workers : WF_vars(WorkerStep(t))
  /\ WF_vars(ThreadEnds) /\ WF_vars(UiStep)

Spec == Init /\ [][Next]_vars /\ Fairness

-----------------------------------------------------------------------------
\* Once shizuru_destroy has returned, and the UI closes what it gave the library
\* to call, no thread uses the context and none is about to call back, though
\* each copies a callback some time before it calls it.
NothingAfterDestroy ==
  context = "deleted" =>
    /\ alive = {}
    /\ \A t \in Workers : stack[t] = <<>>

\* When the call that switches voice input or output off has returned, no frame
\* is on its way there any more, not even one that was dispatched before; for
\* the output this needs the start to be over, whose routes the choice precedes.
MutedStaysSilent ==
  LET underway(t, to) == \E i \in DOMAIN stack[t] : stack[t][i] = Op("deliver", to)
      heading(t, port) == \E i \in DOMAIN stack[t] : stack[t][i] = Op("dispatch", port)
      started == Ended("starter") \/ At("starter", "poll")
  IN stack["ui"] = <<>> =>
       /\ ~voice["input"] =>
            \A t \in Workers : /\ ~underway(t, To("capture", "in")) /\ ~heading(t, "pass_out")
                               /\ ~underway(t, To("vad", "in"))
       /\ ~voice["output"] /\ started =>
            \A t \in Workers : ~underway(t, To("tts", "text"))

\* Every call of the UI returns, the destruction at any moment of a start or of
\* a conversation included.
CallsReturn == stack["ui"] # <<>> ~> stack["ui"] = <<>>
=============================================================================
