----------------------------- MODULE Bridge_proofs -----------------------------
(***************************************************************************)
(* Theorems about the destruction of the application and about its          *)
(* microphone and its speaker, for any number of frames and messages and    *)
(* for either kind of shared mutex.                                         *)
(***************************************************************************)
EXTENDS Bridge, Enumerations_proofs, SequenceTheorems

(* What the UI thread ever has to do.                                       *)
JoinOps == {Op("join", "starter"), Op("join", "loop"), Op("join", "asr")}
StopOps == {Op("stop", "core"), Op("stop", "tts"), Op("stop", "asr"), Op("stop", "vad")}
ClearOps == {Op("clear_probes", "-"), Op("clear_callbacks", "-"), Op("null_core", "-"), Op("empty", "-")}
StreamOps == {Op("stop_stream", "-"), Op("stop_streams", "-"), Op("call", "output"), Op("delete", "-")}
VoiceOps == {SetVoice(kind, enabled) : kind \in {"input", "output"}, enabled \in BOOLEAN}
UiOps == JoinOps \cup StopOps \cup ClearOps \cup StreamOps \cup VoiceOps

ui == stack["ui"]
ToDo(o) == \E i \in 1 .. Len(ui) : ui[i] = o
Destroying == context = "deleted" \/ ToDo(Op("delete", "-"))

(* A destruction joins or stops every thread that still runs before it      *)
(* deletes the context, and no thread starts another once the starter has   *)
(* been joined, which comes first.                                          *)
DestroyInv ==
  /\ DOMAIN stack = Threads /\ alive \subseteq Workers
  /\ \A t \in Workers : stack[t] # <<>> => t \in alive
  /\ ui \in Seq(UiOps)
  /\ context = "deleted" => ui = <<>>
  /\ \A i \in 1 .. Len(ui) : ui[i] = Op("delete", "-") => i = Len(ui)
  /\ Destroying /\ "starter" \in alive => ui = DestroyOps
  /\ Destroying /\ "loop" \in alive => ToDo(Op("join", "loop"))
  /\ Destroying /\ "asr" \in alive => ToDo(Op("join", "asr"))
  /\ Destroying /\ "capture" \in alive => ToDo(Op("stop_streams", "-"))

LEMMA ThreadNames ==
  /\ Threads = {"ui", "starter", "capture", "loop", "asr"}
  /\ Workers = {"starter", "capture", "loop", "asr"}
BY BridgeAssumption DEF BridgeAssumption, Workers

LEMMA UiNames ==
  ASSUME NEW o \in UiOps
  PROVE  o.op \in {"join", "stop", "clear_probes", "clear_callbacks", "null_core", "empty",
                   "stop_stream", "stop_streams", "call", "delete", "set_route"}
BY DEF UiOps, JoinOps, StopOps, ClearOps, StreamOps, VoiceOps, SetVoice, Op

LEMMA DestroyFacts ==
  /\ DestroyOps \in Seq(UiOps) /\ Len(DestroyOps) = 13 /\ Head(DestroyOps) = Op("join", "starter")
  /\ DestroyOps[2] = Op("stop_streams", "-") /\ DestroyOps[8] = Op("join", "loop")
  /\ DestroyOps[11] = Op("join", "asr")
  /\ \A i \in 1 .. 12 : DestroyOps[i] # Op("delete", "-")
<1>1. /\ Op("join", "starter") \in UiOps /\ Op("stop_streams", "-") \in UiOps
      /\ Op("clear_probes", "-") \in UiOps /\ Op("clear_callbacks", "-") \in UiOps
      /\ Op("null_core", "-") \in UiOps /\ Op("empty", "-") \in UiOps
      /\ Op("stop", "core") \in UiOps /\ Op("join", "loop") \in UiOps
      /\ Op("stop", "tts") \in UiOps /\ Op("stop", "asr") \in UiOps
      /\ Op("join", "asr") \in UiOps /\ Op("stop", "vad") \in UiOps /\ Op("delete", "-") \in UiOps
  BY DEF UiOps, JoinOps, StopOps, ClearOps, StreamOps
<1>2. DestroyOps \in Seq(UiOps)
  BY <1>1 DEF DestroyOps
<1>3. Len(DestroyOps) = 13 /\ Head(DestroyOps) = Op("join", "starter")
  BY DEF DestroyOps
<1>4. /\ DestroyOps[2] = Op("stop_streams", "-") /\ DestroyOps[8] = Op("join", "loop")
      /\ DestroyOps[11] = Op("join", "asr")
  BY DEF DestroyOps
<1>5. \A i \in 1 .. 12 : DestroyOps[i] # Op("delete", "-")
  BY DEF DestroyOps, Op
<1> QED BY <1>2, <1>3, <1>4, <1>5

LEMMA DestroyInit == Init => DestroyInv
<1> SUFFICES ASSUME Init PROVE DestroyInv
  OBVIOUS
<1>1. /\ stack = [t \in Threads |-> IF t = "starter" THEN StartApp ELSE <<>>]
      /\ context = "live" /\ alive = {"starter"}
  BY DEF Init
<1>2. /\ DOMAIN stack = Threads /\ ui = <<>> /\ alive \subseteq Workers
      /\ \A t \in Workers : stack[t] # <<>> => t \in alive
  BY <1>1, ThreadNames DEF ui
<1>3. ui \in Seq(UiOps) /\ Len(ui) = 0
  BY <1>2
<1>4. \A i \in 1 .. Len(ui) : FALSE
  BY <1>3
<1>5. ~Destroying
  BY <1>1, <1>4, Zenon DEF Destroying, ToDo
<1> QED BY <1>1, <1>2, <1>3, <1>4, <1>5, Zenon DEF DestroyInv

-----------------------------------------------------------------------------
(* A step of the UI thread does the first thing it has to do, and adds none.*)
LEMMA UiPops ==
  ASSUME DestroyInv, UiStep
  PROVE  ui # <<>> /\ stack' = [stack EXCEPT !["ui"] = Tail(ui)]
<1>1. ASSUME NEW op, At("ui", op)
      PROVE  ui # <<>> /\ Head(ui) \in UiOps /\ Head(ui).op = op
  BY <1>1, HeadTailProperties DEF At, ui, DestroyInv
<1>2. ASSUME GoesOn("ui", <<>>), ui # <<>>
      PROVE  stack' = [stack EXCEPT !["ui"] = Tail(ui)]
  <2>1. Tail(ui) \in Seq(UiOps)
    BY <1>2, HeadTailProperties DEF DestroyInv
  <2>2. <<>> \o Tail(ui) = Tail(ui)
    BY <2>1
  <2> QED BY <1>2, <2>2 DEF GoesOn, ui
<1>3. ASSUME NEW op \in {"register", "add_route", "dispatch", "unlock", "deliver", "copy"}
      PROVE  ~At("ui", op)
  BY <1>1, UiNames
<1>4. CASE Step("ui")
  <2>1. \E op \in {"set_route", "empty", "call"} : At("ui", op) /\ GoesOn("ui", <<>>)
    BY <1>3, <1>4 DEF Step, BusStep, Register, AddRouteCall, SetRouteEnabled, DispatchFrame,
                      Unlock, EmptyBus, DeliverPlain, DeliverAsr, DeliverCore, CopyCallback, CallBack
  <2> QED BY <1>1, <1>2, <2>1
<1>5. CASE Join \/ StopStream \/ ClearCallbacks \/ StopDevices \/ Delete
  <2>1. \E op : At("ui", op) /\ GoesOn("ui", <<>>)
    BY <1>5 DEF Join, StopStream, ClearCallbacks, StopDevices, Delete, UiDoes
  <2> QED BY <1>1, <1>2, <2>1
<1> QED BY <1>4, <1>5 DEF UiStep

(* What it does to the threads and to the context.                          *)
LEMMA UiDoesTo ==
  ASSUME DestroyInv, UiStep
  PROVE  /\ alive' \subseteq alive
         /\ Head(ui).op = "join" => Head(ui).arg \notin alive
         /\ Head(ui).op = "stop_streams" => "capture" \notin alive'
         /\ context' # context => Head(ui) = Op("delete", "-") /\ context' = "deleted"
<1>1. Head(ui) \in UiOps
  BY UiPops, HeadTailProperties DEF DestroyInv
<1>2. CASE Step("ui")
  <2>1. \E op \in {"register", "add_route", "set_route", "dispatch", "unlock", "empty",
                   "deliver", "copy", "call"} : At("ui", op)
    BY <1>2 DEF Step, BusStep, Register, AddRouteCall, SetRouteEnabled, DispatchFrame,
                Unlock, EmptyBus, DeliverPlain, DeliverAsr, DeliverCore, CopyCallback, CallBack
  <2>2. alive' = alive /\ context' = context
    BY <1>2 DEF Step, BusOnly, appVars, DeliverPlain, DeliverAsr, DeliverCore, CopyCallback, CallBack
  <2> QED BY <2>1, <2>2 DEF At, ui
<1>3. CASE Join
  BY <1>3 DEF Join, UiDoes, At, Arg, ui, Joined, Ended, BusOnly, appVars
<1>4. CASE StopStream
  BY <1>4 DEF StopStream, UiDoes, At, ui
<1>5. CASE ClearCallbacks \/ StopDevices
  BY <1>5 DEF ClearCallbacks, StopDevices, UiDoes, At, ui
<1>6. CASE Delete
  <2>1. Head(ui).op = "delete" /\ alive' = alive /\ context' = "deleted"
    BY <1>6 DEF Delete, UiDoes, At, ui
  <2>2. Head(ui) = Op("delete", "-")
    BY <1>1, <2>1 DEF UiOps, JoinOps, StopOps, ClearOps, StreamOps, VoiceOps, SetVoice, Op
  <2> QED BY <2>1, <2>2
<1> QED BY <1>2, <1>3, <1>4, <1>5, <1>6 DEF UiStep

LEMMA UiStepKeeps ==
  ASSUME DestroyInv, UiStep
  PROVE  DestroyInv'
<1> DEFINE s == ui
<1>1. /\ s \in Seq(UiOps) /\ s # <<>> /\ Len(s) \in Nat /\ Len(s) > 0 /\ Head(s) = s[1]
      /\ Tail(s) \in Seq(UiOps) /\ Len(Tail(s)) = Len(s) - 1
      /\ \A i \in 1 .. Len(Tail(s)) : Tail(s)[i] = s[i + 1]
  BY UiPops, HeadTailProperties, LenProperties, EmptySeq DEF DestroyInv
<1>2. /\ DOMAIN stack' = Threads /\ ui' = Tail(s)
      /\ \A t \in Workers : stack'[t] = stack[t]
  BY UiPops, ThreadNames DEF DestroyInv, ui
<1>3. ASSUME NEW o, ToDo(o), s[1] # o
      PROVE  ToDo(o)'
  <2>1. PICK i \in 1 .. Len(s) : s[i] = o
    BY <1>3 DEF ToDo
  <2>2. i - 1 \in 1 .. Len(Tail(s)) /\ (i - 1) + 1 = i
    BY <1>1, <1>3, <2>1
  <2>3. Tail(s)[i - 1] = o
    BY <1>1, <2>1, <2>2
  <2> QED BY <1>2, <2>2, <2>3 DEF ToDo
<1>4. ASSUME NEW o, ToDo(o)'
      PROVE  ToDo(o)
  <2>1. PICK i \in 1 .. Len(Tail(s)) : Tail(s)[i] = o
    BY <1>2, <1>4 DEF ToDo
  <2>2. i + 1 \in 1 .. Len(s) /\ s[i + 1] = o
    BY <1>1, <2>1
  <2> QED BY <2>2 DEF ToDo
<1>5. \A i \in 1 .. Len(s) : s[i] = Op("delete", "-") => i = Len(s)
  BY DEF DestroyInv
<1>6. context # "deleted" /\ (Destroying' => Destroying)
  <2>1. context # "deleted"
    BY UiPops, Zenon DEF DestroyInv
  <2>2. ASSUME context' = "deleted" PROVE ToDo(Op("delete", "-"))
    <3>1. s[1] = Op("delete", "-")
      BY <1>1, <2>1, <2>2, UiDoesTo
    <3> QED BY <1>1, <3>1 DEF ToDo
  <2> QED BY <1>4, <2>1, <2>2 DEF Destroying
<1>7. ASSUME NEW t, t \in alive', ToDo(Op("join", t))
      PROVE  ToDo(Op("join", t))'
  <2>1. s[1] # Op("join", t)
    BY <1>1, <1>7, UiDoesTo DEF Op
  <2> QED BY <1>3, <1>7, <2>1
<1>8. ASSUME "capture" \in alive', ToDo(Op("stop_streams", "-"))
      PROVE  ToDo(Op("stop_streams", "-"))'
  <2>1. s[1] # Op("stop_streams", "-")
    BY <1>1, <1>8, UiDoesTo DEF Op
  <2> QED BY <1>3, <1>8, <2>1
<1>9. ~(Destroying' /\ "starter" \in alive')
  <2> SUFFICES ASSUME Destroying', "starter" \in alive' PROVE FALSE
    OBVIOUS
  <2>1. ui = DestroyOps /\ "starter" \in alive
    BY <1>6, UiDoesTo DEF DestroyInv
  <2>2. Head(ui) = Op("join", "starter")
    BY <2>1, DestroyFacts
  <2> QED BY <2>1, <2>2, UiDoesTo DEF Op
<1>10. /\ alive' \subseteq Workers
       /\ \A t \in Workers : stack'[t] # <<>> => t \in alive'
  <2>1. alive' = alive \/ (alive' = alive \ {"capture"} /\ stack["capture"] = <<>>)
    BY DEF UiStep, Step, BusOnly, appVars, DeliverPlain, DeliverAsr, DeliverCore, CopyCallback,
           CallBack, Join, StopStream, ClearCallbacks, StopDevices, Delete
  <2> QED BY <1>2, <2>1 DEF DestroyInv
<1>11. context' = "deleted" => ui' = <<>>
  <2> SUFFICES ASSUME context' = "deleted" PROVE Tail(s) = <<>>
    BY <1>2
  <2>1. s[1] = Op("delete", "-")
    BY <1>1, <1>6, UiDoesTo
  <2>2. 1 \in 1 .. Len(s)
    BY <1>1
  <2>3. Len(s) = 1
    BY <1>5, <2>1, <2>2
  <2> DEFINE rest == Tail(s)
  <2>4. rest \in Seq(UiOps) /\ Len(rest) = 0
    BY <1>1, <2>3
  <2> HIDE DEF rest
  <2>5. rest = <<>>
    BY <2>4
  <2> QED BY <2>5 DEF rest
<1>12. \A i \in 1 .. Len(ui') : ui'[i] = Op("delete", "-") => i = Len(ui')
  <2> SUFFICES ASSUME NEW i \in 1 .. Len(Tail(s)), Tail(s)[i] = Op("delete", "-")
               PROVE  i = Len(Tail(s))
    BY <1>2
  <2>1. i + 1 \in 1 .. Len(s) /\ s[i + 1] = Op("delete", "-")
    BY <1>1
  <2>2. i + 1 = Len(s)
    BY <1>5, <2>1
  <2>3. i \in Int /\ Len(s) \in Int /\ Len(Tail(s)) = Len(s) - 1
    BY <1>1
  <2> QED BY <2>2, <2>3
<1>13. alive' \subseteq alive
  BY UiDoesTo
<1>14. Destroying' /\ "loop" \in alive' => ToDo(Op("join", "loop"))'
  BY <1>6, <1>7, <1>13 DEF DestroyInv
<1>15. Destroying' /\ "asr" \in alive' => ToDo(Op("join", "asr"))'
  BY <1>6, <1>7, <1>13 DEF DestroyInv
<1>16. Destroying' /\ "capture" \in alive' => ToDo(Op("stop_streams", "-"))'
  BY <1>6, <1>8, <1>13 DEF DestroyInv
<1>17. ui' \in Seq(UiOps)
  BY <1>1, <1>2
<1> HIDE DEF s
<1> QED
  BY <1>2, <1>9, <1>10, <1>11, <1>12, <1>14, <1>15, <1>16, <1>17, Zenon DEF DestroyInv

-----------------------------------------------------------------------------
(* A call of the UI, which is only made when it has nothing to do.          *)
LEMMA UiCallKeeps ==
  ASSUME DestroyInv, UiCall
  PROVE  DestroyInv'
<1>1. /\ ui = <<>> /\ context = "live" /\ context' = context
  BY DEF UiCall, SetVoicePathway, SendMessage, StartCapture, StopCapture, Destroy, Calls, UiIdle, ui
<1>2. ~Destroying
  BY <1>1 DEF Destroying, ToDo
<1>3. ASSUME NEW ops \in Seq(UiOps), stack' = [stack EXCEPT !["ui"] = ops],
             alive' \in {alive, alive \cup {"capture"}}
      PROVE  /\ DOMAIN stack' = Threads /\ ui' = ops /\ alive' \subseteq Workers
             /\ \A t \in Workers : stack'[t] # <<>> => t \in alive'
  BY <1>3, ThreadNames DEF DestroyInv, ui
<1>4. ASSUME NEW ops \in Seq(UiOps), stack' = [stack EXCEPT !["ui"] = ops],
             alive' \in {alive, alive \cup {"capture"}},
             \A i \in 1 .. Len(ops) : ops[i] # Op("delete", "-")
      PROVE  DestroyInv'
  <2>1. ~Destroying'
    BY <1>1, <1>3, <1>4 DEF Destroying, ToDo
  <2> QED BY <1>1, <1>3, <1>4, <2>1 DEF DestroyInv
<1>5. CASE SetVoicePathway
  <2>1. PICK kind \in {"input", "output"}, enabled \in BOOLEAN :
          stack' = [stack EXCEPT !["ui"] = <<SetVoice(kind, enabled)>>] /\ alive' = alive
    BY <1>5 DEF SetVoicePathway, Calls, Begins
  <2> DEFINE o == SetVoice(kind, enabled)
  <2>2. o \in UiOps /\ o # Op("delete", "-")
    BY DEF UiOps, VoiceOps, SetVoice, Op
  <2> HIDE DEF o
  <2>3. <<o>> \in Seq(UiOps) /\ \A i \in 1 .. Len(<<o>>) : <<o>>[i] # Op("delete", "-")
    BY <2>2
  <2> QED BY <1>4, <2>1, <2>3 DEF o
<1>6. CASE SendMessage
  <2>1. stack' = stack /\ alive' = alive
    BY <1>6 DEF SendMessage, busVars
  <2>2. ui' = ui /\ ~Destroying'
    BY <1>1, <1>2, <2>1 DEF ui, Destroying, ToDo
  <2> QED BY <1>1, <2>1, <2>2 DEF DestroyInv
<1>7. CASE StartCapture
  <2>1. \/ stack' = [stack EXCEPT !["ui"] = <<>>] /\ alive' = alive \cup {"capture"}
        \/ stack' = [stack EXCEPT !["ui"] = <<Op("call", "output")>>] /\ alive' = alive
    BY <1>7 DEF StartCapture, Calls, Begins
  <2> DEFINE o == Op("call", "output")
  <2>2. o \in UiOps /\ o # Op("delete", "-")
    BY DEF UiOps, StreamOps, Op
  <2> HIDE DEF o
  <2>3. /\ <<o>> \in Seq(UiOps) /\ \A i \in 1 .. Len(<<o>>) : <<o>>[i] # Op("delete", "-")
        /\ <<>> \in Seq(UiOps) /\ \A i \in 1 .. Len(<<>>) : <<>>[i] # Op("delete", "-")
    BY <2>2
  <2> QED BY <1>4, <2>1, <2>3 DEF o
<1>8. CASE StopCapture
  <2>1. stack' = [stack EXCEPT !["ui"] = <<Op("stop_stream", "-")>>] /\ alive' = alive
    BY <1>8 DEF StopCapture, Calls, Begins
  <2> DEFINE o == Op("stop_stream", "-")
  <2>2. o \in UiOps /\ o # Op("delete", "-")
    BY DEF UiOps, StreamOps, Op
  <2> HIDE DEF o
  <2>3. <<o>> \in Seq(UiOps) /\ \A i \in 1 .. Len(<<o>>) : <<o>>[i] # Op("delete", "-")
    BY <2>2
  <2> QED BY <1>4, <2>1, <2>3 DEF o
<1>9. CASE Destroy
  <2>1. stack' = [stack EXCEPT !["ui"] = DestroyOps] /\ alive' = alive
    BY <1>9 DEF Destroy, Calls, Begins
  <2>2. /\ DOMAIN stack' = Threads /\ ui' = DestroyOps /\ alive' \subseteq Workers
        /\ \A t \in Workers : stack'[t] # <<>> => t \in alive'
    BY <1>3, <2>1, DestroyFacts
  <2>3. ToDo(Op("join", "loop"))' /\ ToDo(Op("join", "asr"))' /\ ToDo(Op("stop_streams", "-"))'
    <3>1. 2 \in 1 .. Len(ui') /\ 8 \in 1 .. Len(ui') /\ 11 \in 1 .. Len(ui')
      BY <2>2, DestroyFacts
    <3> QED BY <2>2, <3>1, DestroyFacts DEF ToDo
  <2>4. \A i \in 1 .. Len(ui') : ui'[i] = Op("delete", "-") => i = Len(ui')
    <3>1. \A i \in 1 .. 13 : i \in 1 .. 12 \/ i = 13
      OBVIOUS
    <3> QED BY <2>2, <3>1, DestroyFacts
  <2> QED BY <1>1, <2>2, <2>3, <2>4, DestroyFacts DEF DestroyInv
<1> QED BY <1>5, <1>6, <1>7, <1>8, <1>9 DEF UiCall

-----------------------------------------------------------------------------
(* The other threads leave the UI's stack alone, and only the starter starts*)
(* threads.                                                                 *)
LEMMA OthersKeep ==
  ASSUME DestroyInv, DOMAIN stack' = Threads, ui' = ui, context' = context,
         alive' \subseteq Workers,
         \A t \in Workers : stack'[t] # <<>> => t \in alive',
         alive' \subseteq alive \/ ("starter" \in alive /\ alive' \subseteq alive \cup {"loop", "asr"})
  PROVE  DestroyInv'
<1>1. \A o : ToDo(o)' = ToDo(o)
  BY DEF ToDo
<1>2. Destroying' = Destroying
  BY <1>1 DEF Destroying
<1>3. (ToDo(Op("join", "loop")) /\ ToDo(Op("join", "asr"))) \/ ui # DestroyOps
  <2> SUFFICES ASSUME ui = DestroyOps PROVE ToDo(Op("join", "loop")) /\ ToDo(Op("join", "asr"))
    OBVIOUS
  <2>1. 8 \in 1 .. Len(ui) /\ 11 \in 1 .. Len(ui)
    BY DestroyFacts
  <2> QED BY <2>1, DestroyFacts DEF ToDo
<1> QED BY <1>1, <1>2, <1>3 DEF DestroyInv

(* The stack of a thread goes on.                                           *)
LEMMA WorkerGoesOn ==
  ASSUME DestroyInv, NEW t \in Workers, NEW ops, stack' = [stack EXCEPT ![t] = ops],
         t \in alive, alive \subseteq alive', alive' \subseteq Workers
  PROVE  /\ DOMAIN stack' = Threads /\ ui' = ui
         /\ \A w \in Workers : stack'[w] # <<>> => w \in alive'
BY ThreadNames DEF DestroyInv, ui

LEMMA WorkerKeeps ==
  ASSUME DestroyInv, NEW t \in Workers, WorkerStep(t)
  PROVE  DestroyInv'
<1>1. /\ \E ops : stack' = [stack EXCEPT ![t] = ops]
      /\ t \in alive
      /\ context' = context
      /\ \/ alive' = alive
         \/ t = "starter" /\ \E d \in Devices :
              alive' = alive \cup (IF d = "core" THEN {"loop"} ELSE {d} \cap {"asr"})
  <2>1. ASSUME NEW op, At(t, op) PROVE t \in alive
    BY <2>1 DEF At, DestroyInv
  <2>2. CASE Step(t)
    BY <2>1, <2>2 DEF Step, BusStep, Register, AddRouteCall, SetRouteEnabled, DispatchFrame,
       Unlock, EmptyBus, DeliverPlain, DeliverAsr, DeliverCore, CopyCallback, CallBack, Deliver,
       GoesOn, BusOnly, appVars
  <2>3. CASE t = "starter" /\ Build
    BY <2>1, <2>3 DEF Build, GoesOn, Begins
  <2>4. CASE t = "starter" /\ StartAll
    BY <2>1, <2>4 DEF StartAll, StartDevice, GoesOn
  <2>5. CASE t = "starter" /\ Poll
    BY <2>1, <2>5 DEF Poll, GoesOn, BusOnly, appVars
  <2>6. CASE t = "loop" /\ LoopTakes
    BY <2>6 DEF LoopTakes, Idle, Begins
  <2>7. CASE t = "asr" /\ AsrTakes
    BY <2>7 DEF AsrTakes, Idle, Begins
  <2> QED BY <2>2, <2>3, <2>4, <2>5, <2>6, <2>7 DEF WorkerStep
<1>2. /\ alive \subseteq alive' /\ alive' \subseteq Workers
      /\ alive' \subseteq alive \/ ("starter" \in alive /\ alive' \subseteq alive \cup {"loop", "asr"})
  BY <1>1, ThreadNames DEF DestroyInv
<1>3. /\ DOMAIN stack' = Threads /\ ui' = ui
      /\ \A w \in Workers : stack'[w] # <<>> => w \in alive'
  BY <1>1, <1>2, WorkerGoesOn
<1> QED BY <1>1, <1>2, <1>3, OthersKeep

LEMMA DestroyStep == DestroyInv /\ [Next]_vars => DestroyInv'
<1> SUFFICES ASSUME DestroyInv, [Next]_vars PROVE DestroyInv'
  OBVIOUS
<1>1. CASE \E t \in Workers : WorkerStep(t)
  BY <1>1, WorkerKeeps
<1>2. CASE CaptureFrame
  <2>1. /\ stack' = [stack EXCEPT !["capture"] = <<Op("dispatch", "audio_out")>>]
        /\ "capture" \in alive /\ alive' = alive /\ context' = context
    BY <1>2 DEF CaptureFrame, Idle, Begins
  <2>2. "capture" \in Workers /\ alive' \subseteq Workers
    BY <2>1, ThreadNames DEF DestroyInv
  <2>3. /\ DOMAIN stack' = Threads /\ ui' = ui
        /\ \A w \in Workers : stack'[w] # <<>> => w \in alive'
    BY <2>1, <2>2, WorkerGoesOn
  <2> QED BY <2>1, <2>2, <2>3, OthersKeep
<1>3. CASE ThreadEnds
  <2>1. PICK t : stack[t] = <<>> /\ alive' = alive \ {t} /\ stack' = stack /\ context' = context
    BY <1>3 DEF ThreadEnds, Idle, Ends, busVars
  <2>2. ui' = ui /\ \A w \in Workers : stack'[w] # <<>> => w \in alive'
    BY <2>1 DEF DestroyInv, ui
  <2> QED BY <2>1, <2>2, OthersKeep DEF DestroyInv
<1>4. CASE UiCall
  BY <1>4, UiCallKeeps
<1>5. CASE UiStep
  BY <1>5, UiStepKeeps
<1>6. CASE UNCHANGED vars
  BY <1>6, OthersKeep DEF DestroyInv, vars, busVars, appVars, ui
<1> QED BY <1>1, <1>2, <1>3, <1>4, <1>5, <1>6 DEF Next

(* Once shizuru_destroy has returned no thread of the library runs, so that *)
(* none uses the context or calls back into the UI.                         *)
THEOREM DestroyIsFinal == Spec => []NothingAfterDestroy
<1>1. DestroyInv => NothingAfterDestroy
  <2> SUFFICES ASSUME DestroyInv, context = "deleted" PROVE alive = {} /\ \A t \in Workers : stack[t] = <<>>
    BY DEF NothingAfterDestroy
  <2>1. Destroying /\ ui = <<>> /\ \A o : ~ToDo(o)
    BY DEF Destroying, DestroyInv, ToDo
  <2>2. Len(ui) = 0
    BY <2>1
  <2>3. ui # DestroyOps
    <3> SUFFICES ASSUME ui = DestroyOps PROVE FALSE
      OBVIOUS
    <3>1. Len(ui) = 13
      BY DestroyFacts, Zenon
    <3> QED BY <2>2, <3>1
  <2>4. alive = {}
    BY <2>1, <2>3, ThreadNames DEF DestroyInv
  <2> QED BY <2>4 DEF DestroyInv
<1> QED
  BY <1>1, DestroyInit, DestroyStep, PTL DEF Spec

-----------------------------------------------------------------------------
(* The microphone and the speaker.                                          *)

(* Where the routes of a port may lead.                                     *)
Leads(from) ==
  CASE from = "audio_out" -> {To("capture", "in"), To("level_probe", "in")}
    [] from = "pass_out" -> {To("vad", "in")}
    [] from = "flush_out" -> {To("asr", "control")}
    [] from = "interrupt_out" -> {To("core", "interrupt")}
    [] from = "text_out" -> {To("core", "text"), To("transcript_probe", "in")}
    [] from = "tts_out" -> {To("tts", "text")}
    [] OTHER -> {To("tts", "control")}

RoutesTo(from) == [to : Leads(from), enabled : BOOLEAN]

On(from, to) == \E i \in 1 .. Len(routes[from]) : routes[from][i] = [to |-> to, enabled |-> TRUE]
MicrophoneOn == On("audio_out", To("capture", "in"))
SpeakerOn == On("tts_out", To("tts", "text"))

RouteInv ==
  /\ DOMAIN routes = Ports
  /\ \A from \in Ports : routes[from] \in Seq(RoutesTo(from))

(* The threads that bring frames, and what they ever have to do.            *)
Carriers == {"capture", "loop", "asr"}
Targets == UNION {Leads(from) : from \in Ports}
Unlocking == Op("unlock", "-")
CarryOps == {Op("deliver", to) : to \in Targets} \cup {Op("dispatch", from) : from \in Ports}
              \cup {Unlocking, Op("copy", "output"), Op("copy", "probe"),
                    Op("call", "output"), Op("call", "probe")}

(* A frame on its way, and one of the voice input or of the voice output.   *)
Held == {Op("deliver", to) : to \in Targets} \cup {Op("dispatch", "pass_out")}
Heard == {Op("deliver", To("capture", "in")), Op("dispatch", "pass_out"), Op("deliver", To("vad", "in"))}
Spoken == {Op("deliver", To("tts", "text"))}

Unlocks(s) == {i \in 1 .. Len(s) : s[i] = Unlocking}
Guarded(s) == \A i \in 1 .. Len(s) : s[i] \in Held => \E j \in i + 1 .. Len(s) : s[j] = Unlocking

(* What is held among the things done at o is under the lock of o, or of its *)
(* own.                                                                     *)
Covered(o, ops) ==
  \A i \in 1 .. Len(ops) : ops[i] \in Held =>
    o \in Held \/ \E j \in i + 1 .. Len(ops) : ops[j] = Unlocking

Free(s, ops) == \A i \in 1 .. Len(s) : s[i] \notin ops

CarrierInv(t) ==
  /\ stack[t] \in Seq(CarryOps) /\ Guarded(stack[t])
  /\ readers[t] = Cardinality(Unlocks(stack[t]))
  /\ MicrophoneOn \/ Free(stack[t], Heard)
  /\ SpeakerOn \/ Free(stack[t], Spoken)

CarryInv == DOMAIN readers = Threads /\ \A t \in Carriers : CarrierInv(t)

(* What the starter ever has to do: a route it adds for the voice output is *)
(* switched off by it before it comes to the polling.                       *)
starting == stack["starter"]
Muting == SetVoice("output", FALSE)
StarterOps == {Op("build", "-"), Op("register", "core"), Op("copy", "output"), Op("call", "output"),
               Op("start", "vad"), Op("start", "asr"), Op("start", "tts"), Op("start", "core"),
               Muting, Op("poll", "-"),
               Add("tts_out", "tts", "text"), Add("interrupt_out", "core", "interrupt"),
               Add("flush_out", "asr", "control"), Add("control_out", "tts", "control")}

Program(s) ==
  /\ s \in Seq(StarterOps)
  /\ \A i \in 1 .. Len(s) :
       /\ s[i] = Op("build", "-") => i = 1
       /\ s[i] = Add("tts_out", "tts", "text") => \E j \in i + 1 .. Len(s) : s[j] = Muting
       /\ s[i] = Muting => \A j \in 1 .. i : s[j] # Op("poll", "-")

MutesLater == \E i \in 1 .. Len(starting) : starting[i] = Muting

StarterInv ==
  /\ Program(starting)
  /\ starting # <<>> /\ Head(starting) = Op("build", "-") => routes["tts_out"] = <<>>

(* The choice the UI has made, or is just making, is that of the route.     *)
VoiceInv ==
  /\ voice \in [{"input", "output"} -> BOOLEAN]
  /\ \A kind \in {"input", "output"}, enabled \in BOOLEAN :
       ToDo(SetVoice(kind, enabled)) => ui = <<SetVoice(kind, enabled)>> /\ voice[kind] = enabled
  /\ MicrophoneOn => voice["input"] \/ ToDo(SetVoice("input", FALSE))
  /\ SpeakerOn => voice["output"] \/ ToDo(SetVoice("output", FALSE)) \/ MutesLater

MuteInv == RouteInv /\ CarryInv /\ StarterInv /\ VoiceInv

-----------------------------------------------------------------------------
(* Sequences by their elements.                                             *)
Concatenates(c, a, b, n, m) ==
  /\ c = a \o b /\ Len(a) = n /\ Len(b) = m /\ Len(c) = n + m
  /\ \A i \in 1 .. n + m : c[i] = IF i <= n THEN a[i] ELSE b[i - n]

LEMMA ConcatIs ==
  ASSUME NEW S, NEW a \in Seq(S), NEW b \in Seq(S)
  PROVE  \E c \in Seq(S), n \in Nat, m \in Nat : Concatenates(c, a, b, n, m)
<1>1. PICK c \in Seq(S) : c = a \o b
  BY ConcatProperties
<1>2. PICK n \in Nat, m \in Nat : n = Len(a) /\ m = Len(b)
  OBVIOUS
<1>3. Len(a \o b) = Len(a) + Len(b)
      /\ \A i \in 1 .. Len(a) + Len(b) : (a \o b)[i] = IF i <= Len(a) THEN a[i] ELSE b[i - Len(a)]
  BY ConcatProperties
<1>4. Len(c) = n + m /\ \A i \in 1 .. n + m : c[i] = IF i <= n THEN a[i] ELSE b[i - n]
  BY <1>1, <1>2, <1>3, Zenon
<1>5. Concatenates(c, a, b, n, m)
  BY <1>1, <1>2, <1>4 DEF Concatenates
<1> QED BY <1>5

Beheads(s, h, rest, m) ==
  /\ h = Head(s) /\ rest = Tail(s) /\ h = s[1] /\ Len(rest) = m /\ Len(s) = m + 1
  /\ \A i \in 1 .. m : rest[i] = s[i + 1]

LEMMA HeadTailIs ==
  ASSUME NEW S, NEW s \in Seq(S), s # <<>>
  PROVE  \E h \in S, rest \in Seq(S), m \in Nat : Beheads(s, h, rest, m)
<1>1. PICK h \in S, rest \in Seq(S) : h = Head(s) /\ rest = Tail(s)
  BY HeadTailProperties
<1>2. Len(Tail(s)) = Len(s) - 1 /\ \A i \in 1 .. Len(Tail(s)) : Tail(s)[i] = s[i + 1]
  BY HeadTailProperties
<1>3. PICK m \in Nat : m = Len(rest)
  OBVIOUS
<1>4. Len(s) \in Nat /\ Head(s) = s[1]
  OBVIOUS
<1>5. Len(rest) = Len(s) - 1 /\ \A i \in 1 .. m : rest[i] = s[i + 1]
  BY <1>1, <1>2, <1>3, Zenon
<1>6. Beheads(s, h, rest, m)
  BY <1>1, <1>3, <1>4, <1>5 DEF Beheads
<1> QED BY <1>6

LEMMA HeadTailMake ==
  ASSUME NEW S, NEW s \in Seq(S), s # <<>>
  PROVE  \E h \in S, rest \in Seq(S) : h = Head(s) /\ rest = Tail(s) /\ s = <<h>> \o rest
<1>1. PICK h \in S, rest \in Seq(S), m \in Nat : Beheads(s, h, rest, m)
  BY HeadTailIs
<1>2. <<h>> \in Seq(S) /\ Len(<<h>>) = 1 /\ <<h>>[1] = h
  OBVIOUS
<1>3. PICK c \in Seq(S), n \in Nat, k \in Nat : Concatenates(c, <<h>>, rest, n, k)
  BY <1>2, ConcatIs
<1>4. n = 1 /\ k = m /\ Len(c) = 1 + m
  BY <1>1, <1>2, <1>3 DEF Concatenates, Beheads
<1>5. ASSUME NEW i \in 1 .. 1 + m PROVE c[i] = s[i]
  <2>1. c[i] = IF i <= 1 THEN <<h>>[i] ELSE rest[i - 1]
    BY <1>3, <1>4 DEF Concatenates
  <2>2. CASE i = 1
    BY <1>1, <1>2, <2>1, <2>2 DEF Beheads
  <2>3. CASE i # 1
    <3>1. i - 1 \in 1 .. m /\ ~(i <= 1) /\ (i - 1) + 1 = i
      BY <2>3
    <3> QED BY <1>1, <2>1, <3>1 DEF Beheads
  <2> QED BY <2>2, <2>3
<1>6. c = s
  <2>1. Len(c) = Len(s) /\ \A i \in 1 .. Len(c) : c[i] = s[i]
    BY <1>1, <1>4, <1>5 DEF Beheads
  <2> QED BY <2>1, SeqEqual
<1> QED BY <1>1, <1>3, <1>6 DEF Concatenates, Beheads

(* Read locks are as many as the unlocks still to do.                       *)
LEMMA UnlocksAre ==
  ASSUME NEW S, NEW s \in Seq(S)
  PROVE  /\ IsFiniteSet(Unlocks(s)) /\ Cardinality(Unlocks(s)) \in Nat
         /\ Cardinality(Unlocks(s)) = 0 => \A i \in 1 .. Len(s) : s[i] # Unlocking
<1>1. PICK n \in Nat : n = Len(s)
  OBVIOUS
<1>2. 1 \in Int /\ n \in Int
  OBVIOUS
<1>3. IsFiniteSet(1 .. n)
  BY <1>2, FS_Interval
<1>4. Unlocks(s) \subseteq 1 .. n
  BY <1>1 DEF Unlocks
<1>5. IsFiniteSet(Unlocks(s)) /\ Cardinality(Unlocks(s)) \in Nat
  BY <1>3, <1>4, FS_Subset, FS_CardinalityType
<1>6. Cardinality(Unlocks(s)) = 0 => Unlocks(s) = {}
  BY <1>5, FS_EmptySet
<1> QED BY <1>5, <1>6 DEF Unlocks

LEMMA UnlocksTogether ==
  ASSUME NEW S, NEW a \in Seq(S), NEW b \in Seq(S)
  PROVE  Cardinality(Unlocks(a \o b)) = Cardinality(Unlocks(a)) + Cardinality(Unlocks(b))
<1>1. PICK c \in Seq(S), n \in Nat, m \in Nat : Concatenates(c, a, b, n, m)
  BY ConcatIs
<1>2. /\ c = a \o b /\ Len(a) = n /\ Len(b) = m /\ Len(c) = n + m
      /\ \A i \in 1 .. n + m : c[i] = IF i <= n THEN a[i] ELSE b[i - n]
  BY <1>1 DEF Concatenates
<1> DEFINE A == Unlocks(a)
           B == Unlocks(b)
           D == {i + n : i \in B}
           f == [i \in B |-> i + n]
<1>3. A \subseteq 1 .. n /\ B \subseteq 1 .. m
  BY <1>2 DEF Unlocks
<1>4. Unlocks(c) = A \cup D
  <2>1. ASSUME NEW i \in 1 .. n + m PROVE c[i] = Unlocking <=> i \in A \cup D
    <3>1. CASE i <= n
      <4>1. i \in 1 .. n /\ i \notin D
        BY <1>3, <3>1
      <4> QED BY <1>2, <3>1, <4>1 DEF Unlocks
    <3>2. CASE ~(i <= n)
      <4>1. i - n \in 1 .. m /\ i \notin A /\ (i - n) + n = i
        BY <1>3, <3>2
      <4>2. i \in D <=> i - n \in B
        BY <1>3, <4>1
      <4> QED BY <1>2, <3>2, <4>1, <4>2 DEF Unlocks
    <3> QED BY <3>1, <3>2
  <2>2. A \cup D \subseteq 1 .. n + m
    BY <1>3
  <2>3. Unlocks(c) \subseteq 1 .. n + m /\ \A i \in 1 .. n + m : i \in Unlocks(c) <=> c[i] = Unlocking
    BY <1>2 DEF Unlocks
  <2> HIDE DEF A, D
  <2> QED BY <2>1, <2>2, <2>3
<1>5. /\ IsFiniteSet(A) /\ IsFiniteSet(B) /\ Cardinality(A) \in Nat /\ Cardinality(B) \in Nat
  BY UnlocksAre
<1>6. IsFiniteSet(D) /\ Cardinality(D) = Cardinality(B)
  <2>1. f \in Bijection(B, D)
    BY <1>3 DEF Bijection, Injection, Surjection, IsInjective
  <2>2. ExistsBijection(B, D)
    BY <2>1 DEF ExistsBijection
  <2> HIDE DEF B, D
  <2> QED BY <1>5, <2>2, FS_Bijection
<1>7. A \cap D = {}
  BY <1>3
<1>8. Cardinality(A \cup D) = Cardinality(A) + Cardinality(B)
  <2> HIDE DEF A, B, D
  <2>1. Cardinality(A \cup D) = Cardinality(A) + Cardinality(D) - Cardinality({})
    BY <1>5, <1>6, <1>7, FS_Union
  <2>2. Cardinality({}) = 0
    BY FS_EmptySet
  <2> QED BY <1>5, <1>6, <2>1, <2>2
<1> QED BY <1>2, <1>4, <1>8

(* The first thing to do is replaced by others.                             *)
LEMMA UnlocksGoOn ==
  ASSUME NEW S, NEW s \in Seq(S), s # <<>>, NEW ops \in Seq(S)
  PROVE  /\ ops \o Tail(s) \in Seq(S)
         /\ Cardinality(Unlocks(ops \o Tail(s))) =
              (Cardinality(Unlocks(ops)) + Cardinality(Unlocks(s)))
                - IF Head(s) = Unlocking THEN 1 ELSE 0
<1>1. PICK h \in S, rest \in Seq(S) : h = Head(s) /\ rest = Tail(s) /\ s = <<h>> \o rest
  BY HeadTailMake
<1>2. <<h>> \in Seq(S)
  OBVIOUS
<1>3. Cardinality(Unlocks(s)) = Cardinality(Unlocks(<<h>>)) + Cardinality(Unlocks(rest))
  BY <1>1, <1>2, UnlocksTogether
<1>4. Cardinality(Unlocks(<<h>>)) = IF h = Unlocking THEN 1 ELSE 0
  <2>1. Unlocks(<<h>>) = IF h = Unlocking THEN {1} ELSE {}
    BY DEF Unlocks
  <2>2. Cardinality({1}) = 1 /\ Cardinality({}) = 0
    BY FS_EmptySet, FS_Singleton
  <2> QED BY <2>1, <2>2
<1>5. Cardinality(Unlocks(ops \o rest)) = Cardinality(Unlocks(ops)) + Cardinality(Unlocks(rest))
  BY UnlocksTogether
<1>6. /\ Cardinality(Unlocks(rest)) \in Nat /\ Cardinality(Unlocks(ops)) \in Nat
  BY UnlocksAre
<1>7. ops \o rest \in Seq(S)
  BY ConcatProperties
<1> QED BY <1>1, <1>3, <1>4, <1>5, <1>6, <1>7

(* What is on its way stays under a lock, and nothing comes to be on its way *)
(* but by what is done.                                                     *)
LEMMA StackGoesOn ==
  ASSUME NEW S, NEW s \in Seq(S), s # <<>>, NEW ops \in Seq(S)
  PROVE  /\ Guarded(s) /\ Covered(Head(s), ops) => Guarded(ops \o Tail(s))
         /\ \A live : Free(s, live) /\ Free(ops, live) => Free(ops \o Tail(s), live)
<1>1. PICK h \in S, rest \in Seq(S), m \in Nat : Beheads(s, h, rest, m)
  BY HeadTailIs
<1>2. /\ h = Head(s) /\ rest = Tail(s) /\ h = s[1] /\ Len(rest) = m /\ Len(s) = m + 1
      /\ \A i \in 1 .. m : rest[i] = s[i + 1]
  BY <1>1 DEF Beheads
<1>3. PICK c \in Seq(S), n \in Nat, l \in Nat : Concatenates(c, ops, rest, n, l)
  BY ConcatIs
<1>4. /\ c = ops \o rest /\ Len(ops) = n /\ Len(c) = n + m
      /\ \A i \in 1 .. n + m : c[i] = IF i <= n THEN ops[i] ELSE rest[i - n]
  BY <1>2, <1>3 DEF Concatenates
<1>5. \A i \in 1 .. n : i \in 1 .. n + m /\ c[i] = ops[i]
  BY <1>4
<1>6. ASSUME NEW i \in n + 1 .. n + m
      PROVE  i - n + 1 \in 2 .. m + 1 /\ c[i] = s[i - n + 1]
  <2>1. i - n \in 1 .. m /\ i \in 1 .. n + m /\ ~(i <= n)
    BY <1>6
  <2> QED BY <1>2, <1>4, <2>1
<1>7. ASSUME NEW j \in 2 .. m + 1
      PROVE  j + n - 1 \in n + 1 .. n + m /\ c[j + n - 1] = s[j]
  <2>1. j + n - 1 \in n + 1 .. n + m /\ (j + n - 1) - n + 1 = j
    BY <1>7
  <2> QED BY <1>6, <2>1
<1>8. \A i \in 1 .. n + m : i \in 1 .. n \/ i \in n + 1 .. n + m
  OBVIOUS
<1>9. ASSUME NEW live, Free(s, live), Free(ops, live) PROVE Free(c, live)
  <2>1. \A i \in 1 .. n : c[i] \notin live
    BY <1>4, <1>5, <1>9 DEF Free
  <2>2. \A i \in n + 1 .. n + m : c[i] \notin live
    <3>1. \A j \in 2 .. m + 1 : s[j] \notin live
      BY <1>2, <1>9 DEF Free
    <3> QED BY <1>6, <3>1
  <2> QED BY <1>4, <1>8, <2>1, <2>2 DEF Free
<1>10. ASSUME Guarded(s), Covered(h, ops)
      PROVE  Guarded(c)
  <2>1. ASSUME NEW k \in 1 .. m + 1, s[k] \in Held
        PROVE  \E j \in n + 1 .. n + m : j >= k + n /\ c[j] = Unlocking
    <3>1. PICK j \in k + 1 .. m + 1 : s[j] = Unlocking
      BY <1>2, <1>10, <2>1 DEF Guarded
    <3>2. j \in 2 .. m + 1 /\ j + n - 1 >= k + n
      BY <3>1
    <3> QED BY <1>7, <3>1, <3>2
  <2>2. ASSUME NEW i \in 1 .. n, c[i] \in Held
        PROVE  \E j \in i + 1 .. n + m : c[j] = Unlocking
    <3>1. CASE s[1] \in Held
      <4>1. PICK j \in n + 1 .. n + m : c[j] = Unlocking
        BY <2>1, <3>1
      <4> QED BY <4>1
    <3>2. CASE s[1] \notin Held
      <4>1. PICK j \in i + 1 .. n : ops[j] = Unlocking
        BY <1>2, <1>4, <1>5, <1>10, <2>2, <3>2 DEF Covered
      <4>2. c[j] = Unlocking /\ j \in i + 1 .. n + m
        BY <1>5, <4>1
      <4> QED BY <4>2
    <3> QED BY <3>1, <3>2
  <2>3. ASSUME NEW i \in n + 1 .. n + m, c[i] \in Held
        PROVE  \E j \in i + 1 .. n + m : c[j] = Unlocking
    <3>1. i - n + 1 \in 1 .. m + 1 /\ s[i - n + 1] \in Held
      BY <1>6, <2>3
    <3>2. PICK j \in n + 1 .. n + m : j >= (i - n + 1) + n /\ c[j] = Unlocking
      BY <2>1, <3>1
    <3>3. j \in i + 1 .. n + m
      BY <3>2
    <3> QED BY <3>2, <3>3
  <2> QED BY <1>4, <1>8, <2>2, <2>3 DEF Guarded
<1> QED BY <1>2, <1>4, <1>9, <1>10

-----------------------------------------------------------------------------
(* The routes of a port that are on, as a frame is dispatched along them.   *)
LEMMA TargetsAre ==
  Targets = {To("capture", "in"), To("level_probe", "in"), To("vad", "in"), To("asr", "control"),
             To("core", "interrupt"), To("core", "text"), To("transcript_probe", "in"),
             To("tts", "text"), To("tts", "control")}
BY DEF Targets, Leads, Ports

LEMMA LookupIs ==
  ASSUME RouteInv, NEW from \in Ports
  PROVE  \E found \in Seq(RoutesTo(from)) :
           /\ found = Lookup(routes, from)
           /\ \A i \in 1 .. Len(found) : found[i].to \in Leads(from) /\ On(from, found[i].to)
<1> DEFINE list == routes[from]
           on == {i \in DOMAIN list : list[i].enabled}
           found == [p \in 1 .. Cardinality(on) |-> list[Ascending(on)[p]]]
<1>1. list \in Seq(RoutesTo(from))
  BY DEF RouteInv
<1>2. PICK n \in Nat : n = Len(list) /\ DOMAIN list = 1 .. n
  BY <1>1
<1>3. on \in SUBSET (1 .. n)
  BY <1>2
<1>4. Cardinality(on) \in Nat
  <2>1. 1 \in Int /\ n \in Int
    OBVIOUS
  <2> QED BY <1>3, <2>1, FS_Interval, FS_Subset, FS_CardinalityType
<1>5. Enumerates(Ascending(on), on)
  BY <1>3, AscendingEnumerates
<1>6. ASSUME NEW p \in 1 .. Cardinality(on)
      PROVE  /\ list[Ascending(on)[p]] \in RoutesTo(from) /\ On(from, list[Ascending(on)[p]].to)
             /\ list[Ascending(on)[p]].to \in Leads(from)
  <2>1. PICK i \in on : i = Ascending(on)[p]
    BY <1>5 DEF Enumerates
  <2>2. i \in 1 .. n /\ list[i].enabled
    BY <1>2
  <2>3. list[i] \in RoutesTo(from)
    BY <1>1, <1>2, <2>2
  <2>4. list[i] = [to |-> list[i].to, enabled |-> TRUE] /\ list[i].to \in Leads(from)
    BY <2>2, <2>3 DEF RoutesTo
  <2>5. On(from, list[i].to)
    BY <1>2, <2>2, <2>4 DEF On
  <2> QED BY <2>1, <2>3, <2>4, <2>5
<1>7. Lookup(routes, from) = found
  BY DEF Lookup
<1> HIDE DEF on
<1>8. found \in Seq(RoutesTo(from)) /\ Len(found) = Cardinality(on)
  BY <1>4, <1>6
<1>9. \A i \in 1 .. Len(found) : found[i].to \in Leads(from) /\ On(from, found[i].to)
  BY <1>6, <1>8
<1> HIDE DEF found
<1> QED BY <1>7, <1>8, <1>9

(* What a dispatch makes a thread do.                                       *)
LEMMA DeliversAre ==
  ASSUME RouteInv, NEW from \in Ports
  PROVE  LET found == Lookup(routes, from)
         IN \E ops \in Seq(CarryOps) :
              /\ ops = [i \in DOMAIN found |-> Op("deliver", found[i].to)] \o <<Unlocking>>
              /\ Cardinality(Unlocks(ops)) = 1 /\ \A o : Covered(o, ops)
              /\ Free(ops, Heard) \/ (from = "audio_out" /\ MicrophoneOn) \/ from = "pass_out"
              /\ Free(ops, Spoken) \/ SpeakerOn
<1>1. PICK found \in Seq(RoutesTo(from)) :
        /\ found = Lookup(routes, from)
        /\ \A i \in 1 .. Len(found) : found[i].to \in Leads(from) /\ On(from, found[i].to)
  BY LookupIs
<1>2. PICK n \in Nat : n = Len(found) /\ DOMAIN found = 1 .. n
  OBVIOUS
<1> DEFINE made == [i \in DOMAIN found |-> Op("deliver", found[i].to)]
<1>3. \A i \in 1 .. n : /\ made[i] = Op("deliver", found[i].to) /\ made[i] \in CarryOps
                        /\ found[i].to \in Leads(from) /\ On(from, found[i].to)
  BY <1>1, <1>2 DEF CarryOps, Targets
<1>4. made \in Seq(CarryOps) /\ Len(made) = n
  BY <1>2, <1>3
<1> HIDE DEF made
<1>5. Unlocking \in CarryOps /\ <<Unlocking>> \in Seq(CarryOps) /\ Len(<<Unlocking>>) = 1
  BY DEF CarryOps
<1>6. PICK ops \in Seq(CarryOps), l \in Nat, m \in Nat :
        Concatenates(ops, made, <<Unlocking>>, l, m)
  BY <1>4, <1>5, ConcatIs
<1>7. /\ ops = made \o <<Unlocking>> /\ Len(ops) = n + 1 /\ ops[n + 1] = Unlocking
      /\ \A i \in 1 .. n : ops[i] = made[i]
  <2>1. /\ ops = made \o <<Unlocking>> /\ Len(ops) = n + 1
        /\ \A i \in 1 .. n + 1 : ops[i] = IF i <= n THEN made[i] ELSE <<Unlocking>>[i - n]
    BY <1>4, <1>5, <1>6 DEF Concatenates
  <2>2. n + 1 \in 1 .. n + 1 /\ ~(n + 1 <= n) /\ (n + 1) - n = 1
    OBVIOUS
  <2>3. \A i \in 1 .. n : i \in 1 .. n + 1 /\ i <= n
    OBVIOUS
  <2> QED BY <2>1, <2>2, <2>3
<1>8. \A i \in 1 .. n + 1 : i \in 1 .. n \/ i = n + 1
  OBVIOUS
<1>9. Cardinality(Unlocks(ops)) = 1
  <2>1. ASSUME NEW i \in 1 .. n PROVE ops[i] # Unlocking
    <3>1. ops[i] = Op("deliver", found[i].to)
      BY <1>3, <1>7
    <3>2. ops[i].op = "deliver" /\ Unlocking.op = "unlock"
      BY <3>1 DEF Op, Unlocking
    <3> QED BY <3>2
  <2>2. n + 1 \in 1 .. n + 1
    OBVIOUS
  <2>3. Unlocks(ops) = {n + 1}
    BY <1>7, <1>8, <2>1, <2>2 DEF Unlocks
  <2> QED BY <2>3, FS_Singleton
<1>10. \A o : Covered(o, ops)
  <2>1. Unlocking \notin Held
    BY DEF Held, Op, Unlocking
  <2>2. \A i \in 1 .. n + 1 : ops[i] \in Held => \E j \in i + 1 .. n + 1 : ops[j] = Unlocking
    <3>1. \A i \in 1 .. n : n + 1 \in i + 1 .. n + 1
      OBVIOUS
    <3> QED BY <1>7, <1>8, <2>1, <3>1
  <2> QED BY <1>7, <2>2 DEF Covered
<1>11. Free(ops, Heard) \/ (from = "audio_out" /\ MicrophoneOn) \/ from = "pass_out"
  <2> SUFFICES ASSUME ~(from = "audio_out" /\ MicrophoneOn), from # "pass_out",
                      NEW i \in 1 .. n + 1
               PROVE  ops[i] \notin Heard
    BY <1>7 DEF Free
  <2>1. CASE i = n + 1
    BY <1>7, <2>1 DEF Heard, Op, Unlocking
  <2>2. CASE i \in 1 .. n
    <3>1. PICK to \in Leads(from) : ops[i] = Op("deliver", to) /\ On(from, to)
      BY <1>3, <1>7, <2>2
    <3>2. to # To("capture", "in") /\ to # To("vad", "in")
      BY <3>1 DEF Leads, Ports, To, MicrophoneOn
    <3> QED BY <3>1, <3>2 DEF Heard, Op
  <2> QED BY <1>8, <2>1, <2>2
<1>12. Free(ops, Spoken) \/ SpeakerOn
  <2> SUFFICES ASSUME ~SpeakerOn, NEW i \in 1 .. n + 1
               PROVE  ops[i] \notin Spoken
    BY <1>7 DEF Free
  <2>1. CASE i = n + 1
    BY <1>7, <2>1 DEF Spoken, Op, Unlocking
  <2>2. CASE i \in 1 .. n
    <3>1. PICK to \in Leads(from) : ops[i] = Op("deliver", to) /\ On(from, to)
      BY <1>3, <1>7, <2>2
    <3>2. to # To("tts", "text")
      BY <3>1 DEF Leads, Ports, To, SpeakerOn
    <3> QED BY <3>1, <3>2 DEF Spoken, Op
  <2> QED BY <1>8, <2>1, <2>2
<1> QED BY <1>1, <1>7, <1>9, <1>10, <1>11, <1>12 DEF made

-----------------------------------------------------------------------------
(* What a carrier has to do, by the name of the operation.                  *)
LEMMA CarryNames ==
  ASSUME NEW h \in CarryOps
  PROVE  /\ h.op \in {"deliver", "dispatch", "unlock", "copy", "call"}
         /\ h.op = "deliver" => h = Op("deliver", h.arg) /\ h.arg \in Targets
         /\ h.op = "dispatch" => h = Op("dispatch", h.arg) /\ h.arg \in Ports
         /\ h.op = "unlock" <=> h = Unlocking
         /\ h.op = "copy" => h.arg \in {"output", "probe"}
<1>1. CASE h \in {Op("deliver", to) : to \in Targets}
  BY <1>1 DEF Op, Unlocking
<1>2. CASE h \in {Op("dispatch", from) : from \in Ports}
  BY <1>2 DEF Op, Unlocking
<1>3. CASE h \in {Unlocking, Op("copy", "output"), Op("copy", "probe"),
                  Op("call", "output"), Op("call", "probe")}
  BY <1>3 DEF Op, Unlocking
<1> QED BY <1>1, <1>2, <1>3 DEF CarryOps

(* Nothing or one thing to do, that takes no lock.                          *)
LEMMA FewOps ==
  /\ \A h : /\ <<>> \in Seq(CarryOps) /\ Cardinality(Unlocks(<<>>)) = 0 /\ Covered(h, <<>>)
            /\ \A live : Free(<<>>, live)
  /\ \A o \in CarryOps \ {Unlocking} :
       /\ <<o>> \in Seq(CarryOps) /\ Cardinality(Unlocks(<<o>>)) = 0
       /\ \A h : o \notin Held \/ h \in Held => Covered(h, <<o>>)
       /\ \A live : o \notin live => Free(<<o>>, live)
<1>1. <<>> \in Seq(CarryOps) /\ Len(<<>>) = 0
  OBVIOUS
<1>2. Unlocks(<<>>) = {}
  BY <1>1 DEF Unlocks
<1>3. Cardinality({}) = 0
  BY FS_EmptySet
<1>4. ASSUME NEW o \in CarryOps \ {Unlocking}
      PROVE  /\ <<o>> \in Seq(CarryOps) /\ Cardinality(Unlocks(<<o>>)) = 0
             /\ \A h : o \notin Held \/ h \in Held => Covered(h, <<o>>)
             /\ \A live : o \notin live => Free(<<o>>, live)
  <2>1. <<o>> \in Seq(CarryOps) /\ Len(<<o>>) = 1 /\ <<o>>[1] = o
    OBVIOUS
  <2> DEFINE one == <<o>>
  <2> HIDE DEF one
  <2>2. one \in Seq(CarryOps) /\ Len(one) = 1 /\ one[1] = o /\ \A i \in 1 .. Len(one) : one[i] = o
    BY <2>1 DEF one
  <2>3. Unlocks(one) = {}
    BY <2>2 DEF Unlocks
  <2>4. /\ \A h : o \notin Held \/ h \in Held => Covered(h, one)
        /\ \A live : o \notin live => Free(one, live)
    BY <2>2 DEF Covered, Free
  <2> QED BY <1>3, <2>2, <2>3, <2>4 DEF one
<1>5. \A h : Covered(h, <<>>) /\ \A live : Free(<<>>, live)
  BY <1>1 DEF Covered, Free
<1> QED BY <1>1, <1>2, <1>3, <1>4, <1>5

(* What puts no frame on its way, and what puts one on the way to the VAD.  *)
Plain(o) == o \in CarryOps \ {Unlocking} /\ o \notin Held /\ o \notin Heard /\ o \notin Spoken

LEMMA PlainOps ==
  /\ \A p \in Ports \ {"pass_out"} : Plain(Op("dispatch", p))
  /\ \A c \in {"output", "probe"} : Plain(Op("copy", c)) /\ Plain(Op("call", c))
  /\ Op("dispatch", "pass_out") \in CarryOps \ {Unlocking}
  /\ Op("dispatch", "pass_out") \notin Spoken
<1>1. ASSUME NEW o \in Held \cup Heard \cup Spoken
      PROVE  o.op = "deliver" \/ (o.op = "dispatch" /\ o.arg = "pass_out")
  BY DEF Held, Heard, Spoken, Op
<1>2. ASSUME NEW p \in Ports
      PROVE  Op("dispatch", p).op = "dispatch" /\ Op("dispatch", p).arg = p
             /\ Op("dispatch", p) \in CarryOps
  BY DEF CarryOps, Op
<1>3. ASSUME NEW c \in {"output", "probe"}
      PROVE  Op("copy", c).op = "copy" /\ Op("call", c).op = "call"
             /\ Op("copy", c) \in CarryOps /\ Op("call", c) \in CarryOps
  BY DEF CarryOps, Op
<1>4. Unlocking.op = "unlock"
  BY DEF Unlocking, Op
<1>5. \A p \in Ports \ {"pass_out"} : Plain(Op("dispatch", p))
  BY <1>1, <1>2, <1>4 DEF Plain
<1>6. \A c \in {"output", "probe"} : Plain(Op("copy", c)) /\ Plain(Op("call", c))
  BY <1>1, <1>3, <1>4 DEF Plain
<1>7. "pass_out" \in Ports /\ Op("dispatch", "pass_out") \notin Spoken
  BY DEF Spoken, Op, Ports
<1> QED BY <1>2, <1>4, <1>5, <1>6, <1>7

(* One step of the bus on the stack of a carrier: what is done next takes   *)
(* the place of what was done, and the locks held are counted.              *)
Carries(t, ops) ==
  /\ stack' = [stack EXCEPT ![t] = ops \o Tail(stack[t])] /\ routes' = routes
  /\ DOMAIN readers' = DOMAIN readers /\ \A w \in Threads \ {t} : readers'[w] = readers[w]
  /\ readers'[t] = (readers[t] + Cardinality(Unlocks(ops)))
                     - IF Head(stack[t]) = Unlocking THEN 1 ELSE 0
  /\ Covered(Head(stack[t]), ops)
  /\ Free(ops, Heard) \/ MicrophoneOn \/ Head(stack[t]) \in Heard
  /\ Free(ops, Spoken) \/ SpeakerOn

LEMMA CarrierDoes ==
  ASSUME RouteInv, CarryInv, NEW t \in Carriers, Step(t)
  PROVE  stack[t] # <<>> /\ \E ops \in Seq(CarryOps) : Carries(t, ops)
<1>1. /\ stack[t] \in Seq(CarryOps) /\ readers[t] \in Nat /\ DOMAIN readers = Threads /\ t \in Threads
  BY UnlocksAre, ThreadNames DEF CarryInv, CarrierInv, Carriers
<1>2. stack[t] # <<>>
  BY DEF Step, BusStep, Register, AddRouteCall, SetRouteEnabled, DispatchFrame, Unlock, EmptyBus,
         DeliverPlain, DeliverAsr, DeliverCore, CopyCallback, CallBack, At
<1> SUFFICES \E ops \in Seq(CarryOps) : Carries(t, ops)
  BY <1>2
<1>3. PICK h \in CarryOps : h = Head(stack[t])
  BY <1>1, <1>2, HeadTailProperties
<1>4. h.op \in {"deliver", "dispatch", "unlock", "copy", "call"}
  BY CarryNames
<1>5. ASSUME NEW ops, GoesOn(t, ops), readers' = readers, routes' = routes, h # Unlocking,
             ops \in Seq(CarryOps), Cardinality(Unlocks(ops)) = 0, Covered(h, ops),
             Free(ops, Heard) \/ h \in Heard, Free(ops, Spoken)
      PROVE  Carries(t, ops)
  BY <1>1, <1>3, <1>5 DEF Carries, GoesOn
<1>6. ASSUME NEW o \in CarryOps \ {Unlocking}, GoesOn(t, <<o>>), readers' = readers,
             routes' = routes, h # Unlocking,
             o \notin Held \/ h \in Held, o \notin Heard \/ h \in Heard, o \notin Spoken
      PROVE  \E ops \in Seq(CarryOps) : Carries(t, ops)
  <2>1. PICK ops \in Seq(CarryOps) :
          /\ ops = <<o>> /\ Cardinality(Unlocks(ops)) = 0 /\ Covered(h, ops)
          /\ Free(ops, Heard) \/ h \in Heard
          /\ Free(ops, Spoken)
    BY <1>6, FewOps
  <2> QED BY <1>5, <1>6, <2>1
<1>7. ASSUME GoesOn(t, <<>>), readers' = readers, routes' = routes, h # Unlocking
      PROVE  \E ops \in Seq(CarryOps) : Carries(t, ops)
  <2>1. PICK ops \in Seq(CarryOps) :
          /\ ops = <<>> /\ Cardinality(Unlocks(ops)) = 0 /\ Covered(h, ops)
          /\ Free(ops, Heard) /\ Free(ops, Spoken)
    BY FewOps
  <2> QED BY <1>5, <1>7, <2>1
<1>8. CASE DispatchFrame(t)
  <2>1. PICK from \in Ports : h = Op("dispatch", from) /\ Arg(t) = from /\ h # Unlocking
    BY <1>3, <1>8, CarryNames DEF DispatchFrame, At, Arg, Op, Unlocking
  <2>2. CASE Lookup(routes, from) = <<>>
    BY <1>7, <1>8, <2>1, <2>2 DEF DispatchFrame
  <2>3. CASE Lookup(routes, from) # <<>>
    <3> DEFINE found == Lookup(routes, from)
               made == [i \in DOMAIN found |-> Op("deliver", found[i].to)] \o <<Unlocking>>
    <3>1. /\ readers' = [readers EXCEPT ![t] = @ + 1] /\ routes' = routes /\ GoesOn(t, made)
      BY <1>8, <2>1, <2>3 DEF DispatchFrame, Unlocking
    <3>2. PICK ops \in Seq(CarryOps) :
            /\ ops = made /\ Cardinality(Unlocks(ops)) = 1 /\ \A o : Covered(o, ops)
            /\ Free(ops, Heard) \/ (from = "audio_out" /\ MicrophoneOn) \/ from = "pass_out"
            /\ Free(ops, Spoken) \/ SpeakerOn
      BY DeliversAre
    <3> HIDE DEF made
    <3>3. from = "pass_out" => h \in Heard
      BY <2>1 DEF Heard
    <3>4. Carries(t, ops)
      BY <1>1, <1>3, <2>1, <3>1, <3>2, <3>3 DEF Carries, GoesOn
    <3> QED BY <3>4
  <2> QED BY <2>2, <2>3
<1>9. CASE Unlock(t)
  <2>1. /\ h = Unlocking /\ GoesOn(t, <<>>) /\ routes' = routes
        /\ readers' = [readers EXCEPT ![t] = @ - 1]
    BY <1>3, <1>9, CarryNames DEF Unlock, At
  <2>2. PICK ops \in Seq(CarryOps) :
          /\ ops = <<>> /\ Cardinality(Unlocks(ops)) = 0 /\ Covered(h, ops)
          /\ Free(ops, Heard) /\ Free(ops, Spoken)
    BY FewOps
  <2>3. Carries(t, ops)
    BY <1>1, <1>3, <2>1, <2>2 DEF Carries, GoesOn
  <2> QED BY <2>3
<1>10. CASE DeliverPlain(t) \/ DeliverAsr(t) \/ DeliverCore(t)
  <2>1. PICK to \in Targets : h = Op("deliver", to) /\ Arg(t) = to /\ h # Unlocking /\ h \in Held
    BY <1>3, <1>10, CarryNames DEF DeliverPlain, DeliverAsr, DeliverCore, At, Arg, Op, Unlocking, Held
  <2>2. /\ readers' = readers /\ routes' = routes
        /\ \/ GoesOn(t, <<>>)
           \/ \E p \in {"interrupt_out", "flush_out", "control_out"} : GoesOn(t, <<Op("dispatch", p)>>)
           \/ GoesOn(t, <<Op("copy", "probe")>>)
           \/ to.device = "capture" /\ GoesOn(t, <<Op("dispatch", "pass_out")>>)
    BY <1>10, <2>1 DEF DeliverPlain, DeliverAsr, DeliverCore, Deliver, Passed
  <2>3. CASE GoesOn(t, <<>>)
    BY <1>7, <2>1, <2>2, <2>3
  <2>4. ASSUME NEW p \in {"interrupt_out", "flush_out", "control_out"}, GoesOn(t, <<Op("dispatch", p)>>)
        PROVE  \E ops \in Seq(CarryOps) : Carries(t, ops)
    <3>1. PICK o : o = Op("dispatch", p) /\ Plain(o)
      BY PlainOps DEF Ports
    <3> QED BY <1>6, <2>1, <2>2, <2>4, <3>1 DEF Plain
  <2>5. CASE GoesOn(t, <<Op("copy", "probe")>>)
    <3>1. PICK o : o = Op("copy", "probe") /\ Plain(o)
      BY PlainOps
    <3> QED BY <1>6, <2>1, <2>2, <2>5, <3>1 DEF Plain
  <2>6. CASE to.device = "capture" /\ GoesOn(t, <<Op("dispatch", "pass_out")>>)
    <3>1. PICK o : o = Op("dispatch", "pass_out") /\ o \in CarryOps \ {Unlocking} /\ o \notin Spoken
      BY PlainOps
    <3>2. h \in Heard
      BY <2>1, <2>6, TargetsAre DEF Heard, To
    <3> QED BY <1>6, <2>1, <2>2, <2>6, <3>1, <3>2
  <2> QED BY <2>2, <2>3, <2>4, <2>5, <2>6
<1>11. CASE CopyCallback(t)
  <2>1. h.op = "copy" /\ h.arg \in {"output", "probe"} /\ h # Unlocking
    BY <1>3, <1>11, CarryNames DEF CopyCallback, At
  <2>2. /\ readers' = readers /\ routes' = routes
        /\ \/ GoesOn(t, <<>>)
           \/ GoesOn(t, <<Op("call", h.arg)>>)
    BY <1>3, <1>11 DEF CopyCallback, StackOnly, Arg
  <2>3. CASE GoesOn(t, <<Op("call", h.arg)>>)
    <3>1. PICK o : o = Op("call", h.arg) /\ Plain(o)
      BY <2>1, PlainOps
    <3> QED BY <1>6, <2>1, <2>2, <2>3, <3>1 DEF Plain
  <2> QED BY <1>7, <2>1, <2>2, <2>3
<1>12. CASE CallBack(t)
  <2>1. h # Unlocking /\ GoesOn(t, <<>>) /\ readers' = readers /\ routes' = routes
    BY <1>3, <1>12, CarryNames DEF CallBack, At, StackOnly
  <2> QED BY <1>7, <2>1
<1>13. DispatchFrame(t) \/ Unlock(t) \/ DeliverPlain(t) \/ DeliverAsr(t) \/ DeliverCore(t)
       \/ CopyCallback(t) \/ CallBack(t)
  BY <1>3, <1>4 DEF Step, BusStep, Register, AddRouteCall, SetRouteEnabled, EmptyBus, At
<1> QED BY <1>2, <1>8, <1>9, <1>10, <1>11, <1>12, <1>13

-----------------------------------------------------------------------------
(* A carrier whose stack and locks stay as they are, while the routes stay, *)
(* or change when nobody reads them.                                        *)
LEMMA Quiet ==
  ASSUME CarryInv, Alone, NEW t \in Carriers
  PROVE  Free(stack[t], Heard) /\ Free(stack[t], Spoken)
<1>1. t \in Threads
  BY ThreadNames DEF Carriers
<1>2. /\ stack[t] \in Seq(CarryOps) /\ Guarded(stack[t])
      /\ Cardinality(Unlocks(stack[t])) = 0
  BY <1>1 DEF CarryInv, CarrierInv, Alone
<1>3. PICK n \in Nat : n = Len(stack[t])
  BY <1>2
<1>4. \A i \in 1 .. n : stack[t][i] # Unlocking
  BY <1>2, <1>3, UnlocksAre
<1>5. ASSUME NEW i \in 1 .. n, stack[t][i] \in Held PROVE FALSE
  <2>1. PICK j \in i + 1 .. n : stack[t][j] = Unlocking
    BY <1>2, <1>3, <1>5 DEF Guarded
  <2>2. j \in 1 .. n
    BY <2>1
  <2> QED BY <1>4, <2>1, <2>2
<1>6. Heard \subseteq Held /\ Spoken \subseteq Held
  BY TargetsAre DEF Heard, Spoken, Held
<1> QED BY <1>3, <1>5, <1>6 DEF Free

LEMMA CarrierStays ==
  ASSUME CarryInv, NEW t \in Carriers, stack'[t] = stack[t], readers'[t] = readers[t],
         routes' = routes \/ Alone
  PROVE  CarrierInv(t)'
<1>1. CASE routes' = routes
  <2>1. MicrophoneOn' = MicrophoneOn /\ SpeakerOn' = SpeakerOn
    BY <1>1 DEF MicrophoneOn, SpeakerOn, On
  <2>2. CarrierInv(t)
    BY DEF CarryInv
  <2>3. /\ Guarded(stack[t])' = Guarded(stack[t]) /\ Unlocks(stack[t])' = Unlocks(stack[t])
        /\ Free(stack[t], Heard)' = Free(stack[t], Heard)
        /\ Free(stack[t], Spoken)' = Free(stack[t], Spoken)
    BY DEF Guarded, Unlocks, Free
  <2> QED BY <2>1, <2>2, <2>3 DEF CarrierInv
<1>2. CASE Alone
  <2>1. Free(stack[t], Heard) /\ Free(stack[t], Spoken) /\ CarrierInv(t)
    BY <1>2, Quiet DEF CarryInv
  <2>2. /\ Guarded(stack[t])' = Guarded(stack[t]) /\ Unlocks(stack[t])' = Unlocks(stack[t])
        /\ Free(stack[t], Heard)' = Free(stack[t], Heard)
        /\ Free(stack[t], Spoken)' = Free(stack[t], Spoken)
    BY DEF Guarded, Unlocks, Free
  <2> QED BY <2>1, <2>2 DEF CarrierInv
<1> QED BY <1>1, <1>2

LEMMA CarriersStay ==
  ASSUME CarryInv, readers' = readers, \A t \in Carriers : stack'[t] = stack[t],
         routes' = routes \/ Alone
  PROVE  CarryInv'
<1>1. \A t \in Carriers : CarrierInv(t)'
  BY CarrierStays
<1> QED BY <1>1 DEF CarryInv

(* A carrier that takes up something new.                                   *)
LEMMA CarrierBegins ==
  ASSUME CarryInv, DOMAIN stack = Threads, NEW t \in Carriers, stack[t] = <<>>,
         NEW ops \in Seq(CarryOps), \A i \in 1 .. Len(ops) : Plain(ops[i]),
         stack' = [stack EXCEPT ![t] = ops], routes' = routes, readers' = readers
  PROVE  CarryInv'
<1>1. t \in Threads /\ DOMAIN readers = Threads /\ CarrierInv(t)
  BY ThreadNames DEF Carriers, CarryInv
<1>2. Cardinality(Unlocks(<<>>)) = 0
  BY FewOps
<1>3. Unlocks(ops) = {}
  BY DEF Unlocks, Plain
<1>4. Cardinality(Unlocks(ops)) = 0
  BY <1>3, FS_EmptySet
<1>5. Guarded(ops) /\ Free(ops, Heard) /\ Free(ops, Spoken)
  BY DEF Guarded, Free, Plain
<1>6. stack'[t] = ops /\ readers'[t] = 0
  BY <1>1, <1>2 DEF CarrierInv
<1>7. CarrierInv(t)'
  <2>1. stack'[t] \in Seq(CarryOps) /\ readers'[t] = Cardinality(Unlocks(stack'[t]))
    BY <1>4, <1>6
  <2>2. Guarded(stack'[t]) /\ Free(stack'[t], Heard) /\ Free(stack'[t], Spoken)
    BY <1>5, <1>6
  <2> QED BY <2>1, <2>2 DEF CarrierInv, Guarded, Free, Unlocks
<1>8. ASSUME NEW w \in Carriers \ {t} PROVE CarrierInv(w)'
  <2>1. stack'[w] = stack[w] /\ readers'[w] = readers[w]
    OBVIOUS
  <2> QED BY <2>1, CarrierStays
<1> QED BY <1>1, <1>7, <1>8 DEF CarryInv

(* A carrier that does one thing.                                           *)
LEMMA CarrierKeeps ==
  ASSUME RouteInv, CarryInv, DOMAIN stack = Threads, NEW t \in Carriers, Step(t)
  PROVE  CarryInv' /\ routes' = routes
<1>1. stack[t] # <<>> /\ \E ops \in Seq(CarryOps) : Carries(t, ops)
  BY CarrierDoes
<1>2. PICK ops \in Seq(CarryOps) : Carries(t, ops)
  BY <1>1
<1> DEFINE s == stack[t]
           new == ops \o Tail(s)
<1>3. t \in Threads /\ DOMAIN readers = Threads /\ CarrierInv(t)
  BY ThreadNames DEF Carriers, CarryInv
<1>4. routes' = routes /\ MicrophoneOn' = MicrophoneOn /\ SpeakerOn' = SpeakerOn
  BY <1>2 DEF Carries, MicrophoneOn, SpeakerOn, On
<1>5. stack'[t] = new /\ DOMAIN readers' = Threads
  BY <1>2, <1>3 DEF Carries
<1>6. /\ s \in Seq(CarryOps) /\ s # <<>> /\ Guarded(s) /\ readers[t] = Cardinality(Unlocks(s))
      /\ MicrophoneOn \/ Free(s, Heard)
      /\ SpeakerOn \/ Free(s, Spoken)
  BY <1>1, <1>3 DEF CarrierInv
<1>7. /\ Covered(Head(s), ops)
      /\ readers'[t] = (readers[t] + Cardinality(Unlocks(ops))) - IF Head(s) = Unlocking THEN 1 ELSE 0
      /\ Free(ops, Heard) \/ MicrophoneOn \/ Head(s) \in Heard
      /\ Free(ops, Spoken) \/ SpeakerOn
  BY <1>2 DEF Carries
<1>8. Free(s, Heard) => Head(s) \notin Heard
  <2>1. Len(s) \in Nat /\ Len(s) # 0 /\ Head(s) = s[1]
    BY <1>6
  <2>2. 1 \in 1 .. Len(s)
    BY <2>1
  <2> QED BY <2>1, <2>2 DEF Free
<1> HIDE DEF s, new
<1>9. /\ ops \o Tail(s) \in Seq(CarryOps)
      /\ Cardinality(Unlocks(ops \o Tail(s))) =
           (Cardinality(Unlocks(ops)) + Cardinality(Unlocks(s)))
             - IF Head(s) = Unlocking THEN 1 ELSE 0
  BY <1>6, UnlocksGoOn, Zenon
<1>10. new \in Seq(CarryOps) /\ readers'[t] = Cardinality(Unlocks(new))
  <2>1. Cardinality(Unlocks(ops)) \in Nat /\ Cardinality(Unlocks(s)) \in Nat
    BY <1>6, UnlocksAre
  <2> QED BY <1>6, <1>7, <1>9, <2>1 DEF new
<1>11. /\ Guarded(s) /\ Covered(Head(s), ops) => Guarded(new)
       /\ \A live : Free(s, live) /\ Free(ops, live) => Free(new, live)
  BY <1>6, StackGoesOn DEF new
<1>12. Guarded(new) /\ (MicrophoneOn \/ Free(new, Heard)) /\ (SpeakerOn \/ Free(new, Spoken))
  BY <1>6, <1>7, <1>8, <1>11
<1>13. CarrierInv(t)'
  <2>1. stack'[t] \in Seq(CarryOps) /\ readers'[t] = Cardinality(Unlocks(stack'[t]))
    BY <1>5, <1>10
  <2>2. /\ Guarded(stack'[t]) /\ (MicrophoneOn' \/ Free(stack'[t], Heard))
        /\ (SpeakerOn' \/ Free(stack'[t], Spoken))
    BY <1>4, <1>5, <1>12
  <2> QED BY <2>1, <2>2 DEF CarrierInv, Guarded, Free, Unlocks
<1>14. ASSUME NEW w \in Carriers \ {t} PROVE CarrierInv(w)'
  <2>1. stack'[w] = stack[w] /\ readers'[w] = readers[w]
    BY <1>2, ThreadNames DEF Carries, Carriers
  <2> QED BY <1>4, <2>1, CarrierStays
<1> QED BY <1>4, <1>5, <1>13, <1>14 DEF CarryInv

-----------------------------------------------------------------------------
(* Changes of the route table.                                              *)
LEMMA RoutesAdd ==
  ASSUME RouteInv, NEW from \in Ports, NEW to \in Leads(from), routes' = AddRoute(routes, from, to)
  PROVE  RouteInv' /\ \A p \in Ports \ {from} : routes'[p] = routes[p]
<1>1. CASE routes' = routes
  BY <1>1 DEF RouteInv
<1>2. CASE routes' # routes
  <2> DEFINE route == [to |-> to, enabled |-> TRUE]
  <2>1. routes' = [routes EXCEPT ![from] = Append(routes[from], route)]
    BY <1>2 DEF AddRoute
  <2>2. route \in RoutesTo(from) /\ routes[from] \in Seq(RoutesTo(from))
    BY DEF RoutesTo, RouteInv
  <2> HIDE DEF route
  <2>3. Append(routes[from], route) \in Seq(RoutesTo(from))
    BY <2>2
  <2> QED BY <2>1, <2>3 DEF RouteInv
<1> QED BY <1>1, <1>2

LEMMA RoutesSet ==
  ASSUME RouteInv, NEW from \in Ports, NEW to, NEW e \in BOOLEAN,
         routes' = SetEnabled(routes, from, to, e)
  PROVE  /\ RouteInv' /\ \A p \in Ports \ {from} : routes'[p] = routes[p]
         /\ On(from, to)' => e
         /\ routes[from] = <<>> => routes'[from] = <<>>
<1> DEFINE new == [i \in DOMAIN routes[from] |->
                     IF routes[from][i].to = to THEN [routes[from][i] EXCEPT !.enabled = e]
                     ELSE routes[from][i]]
<1>1. routes' = [routes EXCEPT ![from] = new]
  BY DEF SetEnabled
<1>2. routes[from] \in Seq(RoutesTo(from)) /\ DOMAIN routes = Ports
  BY DEF RouteInv
<1>3. PICK n \in Nat : n = Len(routes[from]) /\ DOMAIN routes[from] = 1 .. n
  BY <1>2
<1>4. ASSUME NEW i \in 1 .. n
      PROVE  /\ new[i] \in RoutesTo(from)
             /\ new[i] = [to |-> to, enabled |-> TRUE] => e
  <2>1. routes[from][i] \in RoutesTo(from)
    BY <1>2, <1>3
  <2>2. CASE routes[from][i].to = to
    <3>1. new[i] = [routes[from][i] EXCEPT !.enabled = e]
      BY <1>3, <2>2
    <3> QED BY <2>1, <3>1 DEF RoutesTo
  <2>3. CASE routes[from][i].to # to
    <3>1. new[i] = routes[from][i]
      BY <1>3, <2>3
    <3> QED BY <2>1, <2>3, <3>1 DEF RoutesTo
  <2> QED BY <2>2, <2>3
<1>5. DOMAIN new = 1 .. n
  BY <1>3
<1> HIDE DEF new
<1>6. new \in Seq(RoutesTo(from)) /\ Len(new) = n
  <2>1. \A i \in 1 .. n : new[i] \in RoutesTo(from)
    BY <1>4
  <2>2. new \in [1 .. n -> RoutesTo(from)]
    BY <1>5, <2>1 DEF new
  <2> QED BY <2>2
<1>7. routes'[from] = new /\ DOMAIN routes' = Ports /\ \A p \in Ports \ {from} : routes'[p] = routes[p]
  BY <1>1, <1>2
<1>8. RouteInv'
  BY <1>2, <1>6, <1>7 DEF RouteInv
<1>9. On(from, to)' => e
  BY <1>4, <1>6, <1>7 DEF On
<1>10. routes[from] = <<>> => new = <<>>
  <2>1. routes[from] = <<>> => n = 0
    BY <1>3
  <2> QED BY <1>6, <2>1
<1> QED BY <1>7, <1>8, <1>9, <1>10

LEMMA RoutesGo ==
  ASSUME RouteInv, routes' = NoRoutes(routes)
  PROVE  RouteInv' /\ \A p \in Ports : routes'[p] = <<>> /\ \A to : ~On(p, to)'
<1>1. DOMAIN routes' = Ports /\ \A p \in Ports : routes'[p] = <<>>
  BY DEF RouteInv, NoRoutes
<1>2. \A p \in Ports : <<>> \in Seq(RoutesTo(p))
  OBVIOUS
<1>3. Len(<<>>) = 0
  OBVIOUS
<1>4. ASSUME NEW p \in Ports, NEW to PROVE ~On(p, to)'
  <2>1. Len(routes'[p]) = 0
    BY <1>1, <1>3
  <2> QED BY <2>1 DEF On
<1> QED BY <1>1, <1>2, <1>4 DEF RouteInv

-----------------------------------------------------------------------------
(* What the starter has to do, by the name of the operation.                *)
LEMMA StarterNames ==
  ASSUME NEW h \in StarterOps
  PROVE  /\ h.op \in {"build", "register", "copy", "call", "start", "poll", "set_route", "add_route"}
         /\ h.op = "build" <=> h = Op("build", "-")
         /\ h.op = "poll" <=> h = Op("poll", "-")
         /\ h.op = "set_route" <=> h = Muting
         /\ h.op = "copy" => h.arg = "output"
         /\ h.op = "add_route" => /\ h.arg.from \in Ports \ {"audio_out"} /\ h.arg.to \in Leads(h.arg.from)
                                  /\ h.arg.from = "tts_out" => h = Add("tts_out", "tts", "text")
         /\ h = Add("tts_out", "tts", "text") => h.op = "add_route"
<1>1. CASE h \in {Op("build", "-"), Op("register", "core"), Op("copy", "output"), Op("call", "output"),
                  Op("start", "vad"), Op("start", "asr"), Op("start", "tts"), Op("start", "core"),
                  Op("poll", "-")}
  BY <1>1 DEF Op, Muting, SetVoice, Add
<1>2. CASE h = Muting
  BY <1>2 DEF Op, Muting, SetVoice, Add
<1>3. CASE h \in {Add("tts_out", "tts", "text"), Add("interrupt_out", "core", "interrupt"),
                  Add("flush_out", "asr", "control"), Add("control_out", "tts", "control")}
  <2>1. h.op = "add_route" /\ h # Muting /\ h # Op("build", "-") /\ h # Op("poll", "-")
    BY <1>3 DEF Op, Muting, SetVoice, Add
  <2>2. /\ h.arg.from \in Ports \ {"audio_out"} /\ h.arg.to \in Leads(h.arg.from)
        /\ h.arg.from = "tts_out" => h = Add("tts_out", "tts", "text")
    BY <1>3 DEF Add, Op, Ports, Leads
  <2> QED BY <2>1, <2>2
<1> QED BY <1>1, <1>2, <1>3 DEF StarterOps

(* What the starter pushes before what it has still to do.                  *)
Pushed == {Op("call", "output"), Op("copy", "output"), Op("poll", "-")}

LEMMA ProgramGoesOn ==
  ASSUME NEW s, Program(s), s # <<>>, NEW ops \in Seq(Pushed),
         (\E i \in 1 .. Len(ops) : ops[i] = Op("poll", "-")) => Head(s) = Op("poll", "-")
  PROVE  /\ Program(ops \o Tail(s))
         /\ ops \o Tail(s) # <<>> => Head(ops \o Tail(s)) # Op("build", "-")
         /\ \A o : (\E j \in 2 .. Len(s) : s[j] = o)
                     => \E i \in 1 .. Len(ops \o Tail(s)) : (ops \o Tail(s))[i] = o
<1>1. s \in Seq(StarterOps)
  BY DEF Program
<1>2. PICK h \in StarterOps, rest \in Seq(StarterOps), m \in Nat : Beheads(s, h, rest, m)
  BY <1>1, HeadTailIs
<1>3. /\ h = Head(s) /\ rest = Tail(s) /\ h = s[1] /\ Len(rest) = m /\ Len(s) = m + 1
      /\ \A i \in 1 .. m : rest[i] = s[i + 1]
  BY <1>2 DEF Beheads
<1>4. Pushed \subseteq StarterOps
  BY DEF Pushed, StarterOps
<1>5. ops \in Seq(StarterOps) /\ \A i \in 1 .. Len(ops) : ops[i] \in Pushed
  BY <1>4
<1>6. PICK c \in Seq(StarterOps), n \in Nat, l \in Nat : Concatenates(c, ops, rest, n, l)
  BY <1>5, ConcatIs
<1>7. /\ c = ops \o rest /\ Len(ops) = n /\ Len(c) = n + m
      /\ \A i \in 1 .. n + m : c[i] = IF i <= n THEN ops[i] ELSE rest[i - n]
  BY <1>3, <1>6 DEF Concatenates
<1>8. \A i \in 1 .. n : c[i] = ops[i] /\ c[i] \in Pushed
  <2>1. \A i \in 1 .. n : i \in 1 .. n + m /\ i <= n
    OBVIOUS
  <2> QED BY <1>5, <1>7, <2>1
<1>9. ASSUME NEW i \in n + 1 .. n + m
      PROVE  i - n + 1 \in 2 .. m + 1 /\ c[i] = s[i - n + 1]
  <2>1. i - n \in 1 .. m /\ i \in 1 .. n + m /\ ~(i <= n)
    BY <1>9
  <2> QED BY <1>3, <1>7, <2>1
<1>10. ASSUME NEW j \in 2 .. m + 1
      PROVE  j + n - 1 \in n + 1 .. n + m /\ c[j + n - 1] = s[j]
  <2>1. j + n - 1 \in n + 1 .. n + m /\ (j + n - 1) - n + 1 = j
    BY <1>10
  <2> QED BY <1>9, <2>1
<1>11. \A i \in 1 .. n + m : i \in 1 .. n \/ i \in n + 1 .. n + m
  OBVIOUS
<1>12. ASSUME NEW o \in Pushed
       PROVE  o # Op("build", "-") /\ o # Muting /\ o # Add("tts_out", "tts", "text")
  BY DEF Pushed, Op, Muting, SetVoice, Add
<1>13. ASSUME NEW j \in 1 .. m + 1
       PROVE  /\ s[j] = Op("build", "-") => j = 1
              /\ s[j] = Add("tts_out", "tts", "text") => \E k \in j + 1 .. m + 1 : s[k] = Muting
              /\ s[j] = Muting => \A k \in 1 .. j : s[k] # Op("poll", "-")
  BY <1>3 DEF Program
<1>14. \A i \in 1 .. n + m : c[i] # Op("build", "-")
  <2>1. ASSUME NEW i \in n + 1 .. n + m PROVE c[i] # Op("build", "-")
    <3>1. i - n + 1 \in 1 .. m + 1 /\ i - n + 1 # 1
      BY <1>9
    <3> QED BY <1>9, <1>13, <3>1
  <2> QED BY <1>8, <1>11, <1>12, <2>1
<1>15. ASSUME NEW i \in 1 .. n + m, c[i] = Add("tts_out", "tts", "text")
       PROVE  \E k \in i + 1 .. n + m : c[k] = Muting
  <2>1. i \in n + 1 .. n + m
    BY <1>8, <1>11, <1>12, <1>15
  <2>2. i - n + 1 \in 1 .. m + 1 /\ s[i - n + 1] = Add("tts_out", "tts", "text")
    BY <1>9, <1>15, <2>1
  <2>3. PICK k \in i - n + 1 + 1 .. m + 1 : s[k] = Muting
    BY <1>13, <2>2
  <2>4. k \in 2 .. m + 1 /\ k + n - 1 \in i + 1 .. n + m
    BY <2>1, <2>3
  <2> QED BY <1>10, <2>3, <2>4
<1>16. ASSUME NEW i \in 1 .. n + m, c[i] = Muting, NEW k \in 1 .. i
       PROVE  c[k] # Op("poll", "-")
  <2>1. i \in n + 1 .. n + m
    BY <1>8, <1>11, <1>12, <1>16
  <2>2. i - n + 1 \in 1 .. m + 1 /\ s[i - n + 1] = Muting
    BY <1>9, <1>16, <2>1
  <2>3. \A j \in 1 .. i - n + 1 : s[j] # Op("poll", "-")
    BY <1>13, <2>2
  <2>4. CASE k \in 1 .. n
    <3>1. Head(s) # Op("poll", "-")
      <4>1. 1 \in 1 .. i - n + 1
        BY <2>1
      <4> QED BY <1>3, <2>3, <4>1
    <3> QED BY <1>7, <1>8, <2>4, <3>1
  <2>5. CASE k \in n + 1 .. n + m
    <3>1. k - n + 1 \in 1 .. i - n + 1
      BY <2>1, <2>5
    <3> QED BY <1>9, <2>3, <2>5, <3>1
  <2>6. k \in 1 .. n + m
    OBVIOUS
  <2> QED BY <1>11, <2>4, <2>5, <2>6
<1>17. Program(c)
  BY <1>7, <1>14, <1>15, <1>16 DEF Program
<1>18. c # <<>> => Head(c) # Op("build", "-")
  <2>1. c # <<>> => Len(c) # 0 /\ Head(c) = c[1]
    OBVIOUS
  <2>2. n + m \in Nat /\ (n + m # 0 => 1 \in 1 .. n + m)
    OBVIOUS
  <2> QED BY <1>7, <1>14, <2>1, <2>2
<1>19. ASSUME NEW o, NEW j \in 2 .. m + 1, s[j] = o
       PROVE  \E i \in 1 .. n + m : c[i] = o
  <2>1. j + n - 1 \in 1 .. n + m
    OBVIOUS
  <2> QED BY <1>10, <1>19, <2>1
<1> QED BY <1>3, <1>7, <1>17, <1>18, <1>19

(* A step of the starter: what it pushes, and the routes it changes.        *)
Starts(ops) ==
  /\ stack' = [stack EXCEPT !["starter"] = ops \o Tail(starting)]
  /\ (\E i \in 1 .. Len(ops) : ops[i] = Op("poll", "-")) => Head(starting) = Op("poll", "-")
  /\ \/ /\ routes' = routes
        /\ Head(starting) # Muting /\ Head(starting) # Add("tts_out", "tts", "text")
     \/ /\ Alone /\ Head(starting).op = "add_route"
        /\ routes' = AddRoute(routes, Head(starting).arg.from, Head(starting).arg.to)
     \/ /\ Alone /\ Head(starting) = Muting
        /\ routes' = SetEnabled(routes, "tts_out", To("tts", "text"), FALSE)

Fails == /\ Head(starting) = Op("build", "-") /\ routes' = routes
         /\ stack' = [stack EXCEPT !["starter"] = <<>>]

LEMMA StarterDoes ==
  ASSUME StarterInv, Step("starter") \/ Build \/ StartAll \/ Poll
  PROVE  /\ starting # <<>> /\ readers' = readers /\ voice' = voice
         /\ Fails \/ \E ops \in Seq(Pushed) : Starts(ops)
<1>1. starting # <<>>
  BY DEF Step, BusStep, Register, AddRouteCall, SetRouteEnabled, DispatchFrame, Unlock, EmptyBus,
         DeliverPlain, DeliverAsr, DeliverCore, CopyCallback, CallBack, Build, StartAll, StartDevice,
         Poll, At, starting
<1>2. PICK h \in StarterOps : h = Head(starting)
  <2>1. starting \in Seq(StarterOps)
    BY DEF StarterInv, Program
  <2> QED BY <1>1, <2>1, HeadTailProperties
<1>3. /\ h.op \in {"build", "register", "copy", "call", "start", "poll", "set_route", "add_route"}
      /\ h.op = "build" <=> h = Op("build", "-")
      /\ h.op = "poll" <=> h = Op("poll", "-")
      /\ h.op = "set_route" <=> h = Muting
      /\ h.op = "copy" => h.arg = "output"
      /\ h = Add("tts_out", "tts", "text") => h.op = "add_route"
  BY StarterNames
<1>4. \A op : At("starter", op) <=> h.op = op
  BY <1>1, <1>2 DEF At, starting
<1>5. <<>> \in Seq(Pushed) /\ \A i \in 1 .. Len(<<>>) : FALSE
  <2>1. <<>> \in Seq(Pushed) /\ Len(<<>>) = 0
    OBVIOUS
  <2> QED BY <2>1
<1>6. /\ \A i \in 1 .. Len(<<Op("call", "output")>>) : <<Op("call", "output")>>[i] # Op("poll", "-")
      /\ <<Op("call", "output")>> \in Seq(Pushed)
  <2>1. /\ Len(<<Op("call", "output")>>) = 1 /\ <<Op("call", "output")>>[1] = Op("call", "output")
        /\ Op("call", "output") \in Pushed
    BY DEF Pushed
  <2>2. Op("call", "output") # Op("poll", "-")
    BY DEF Op
  <2> QED BY <2>1, <2>2
<1>7. ASSUME GoesOn("starter", <<>>), readers' = readers, voice' = voice, routes' = routes,
             h # Muting, h.op # "add_route"
      PROVE  /\ readers' = readers /\ voice' = voice
             /\ Fails \/ \E ops \in Seq(Pushed) : Starts(ops)
  <2>1. PICK ops \in Seq(Pushed) : ops = <<>> /\ \A i \in 1 .. Len(ops) : FALSE
    BY <1>5
  <2>2. Starts(ops)
    BY <1>2, <1>3, <1>7, <2>1 DEF Starts, GoesOn, starting
  <2> QED BY <1>7, <2>2
<1>8. CASE Step("starter")
  <2>1. CASE h.op \in {"register", "call"}
    <3>1. GoesOn("starter", <<>>) /\ readers' = readers /\ voice' = voice /\ routes' = routes
      BY <1>4, <1>8, <2>1 DEF Step, BusStep, Register, AddRouteCall, SetRouteEnabled, DispatchFrame,
         Unlock, EmptyBus, DeliverPlain, DeliverAsr, DeliverCore, CopyCallback, CallBack, BusOnly,
         appVars, StackOnly
    <3>2. h # Muting /\ h.op # "add_route"
      BY <1>3, <2>1
    <3> QED BY <1>1, <1>7, <3>1, <3>2
  <2>2. CASE h.op = "add_route"
    <3>1. AddRouteCall("starter") /\ BusOnly
      BY <1>4, <1>8, <2>2 DEF Step, BusStep, Register, AddRouteCall, SetRouteEnabled, DispatchFrame,
         Unlock, EmptyBus, DeliverPlain, DeliverAsr, DeliverCore, CopyCallback, CallBack
    <3>2. /\ GoesOn("starter", <<>>) /\ readers' = readers /\ voice' = voice /\ Alone
          /\ routes' = AddRoute(routes, h.arg.from, h.arg.to)
      BY <1>2, <3>1 DEF AddRouteCall, BusOnly, appVars, CanWrite, Arg, starting
    <3>3. PICK ops \in Seq(Pushed) : ops = <<>> /\ \A i \in 1 .. Len(ops) : FALSE
      BY <1>5
    <3>4. Starts(ops)
      BY <1>2, <2>2, <3>2, <3>3 DEF Starts, GoesOn, starting
    <3> QED BY <1>1, <3>2, <3>4
  <2>3. CASE h.op = "set_route"
    <3>1. SetRouteEnabled("starter") /\ BusOnly
      BY <1>4, <1>8, <2>3 DEF Step, BusStep, Register, AddRouteCall, SetRouteEnabled, DispatchFrame,
         Unlock, EmptyBus, DeliverPlain, DeliverAsr, DeliverCore, CopyCallback, CallBack
    <3>2. /\ GoesOn("starter", <<>>) /\ readers' = readers /\ voice' = voice /\ Alone
          /\ routes' = SetEnabled(routes, h.arg.from, h.arg.to, h.arg.enabled)
      BY <1>2, <3>1 DEF SetRouteEnabled, BusOnly, appVars, CanWrite, Arg, starting
    <3>3. h = Muting /\ h.arg.from = "tts_out" /\ h.arg.to = To("tts", "text") /\ h.arg.enabled = FALSE
      BY <1>3, <2>3 DEF Muting, SetVoice, Op
    <3>4. PICK ops \in Seq(Pushed) : ops = <<>> /\ \A i \in 1 .. Len(ops) : FALSE
      BY <1>5
    <3>5. Starts(ops)
      BY <1>2, <3>2, <3>3, <3>4 DEF Starts, GoesOn, starting
    <3> QED BY <1>1, <3>2, <3>5
  <2>4. CASE h.op = "copy"
    <3>1. CopyCallback("starter")
      BY <1>4, <1>8, <2>4 DEF Step, BusStep, Register, AddRouteCall, SetRouteEnabled, DispatchFrame,
         Unlock, EmptyBus, DeliverPlain, DeliverAsr, DeliverCore, CopyCallback, CallBack
    <3>2. /\ readers' = readers /\ voice' = voice /\ routes' = routes
          /\ GoesOn("starter", <<>>) \/ GoesOn("starter", <<Op("call", "output")>>)
      BY <1>2, <1>3, <2>4, <3>1 DEF CopyCallback, BusOnly, appVars, StackOnly, Arg, starting
    <3>3. h # Muting /\ h.op # "add_route" /\ h # Add("tts_out", "tts", "text")
      BY <1>3, <2>4
    <3>4. CASE GoesOn("starter", <<Op("call", "output")>>)
      <4>1. PICK ops \in Seq(Pushed) :
              ops = <<Op("call", "output")>> /\ \A i \in 1 .. Len(ops) : ops[i] # Op("poll", "-")
        BY <1>6
      <4>2. Starts(ops)
        BY <1>2, <3>2, <3>3, <3>4, <4>1 DEF Starts, GoesOn, starting
      <4> QED BY <1>1, <3>2, <4>2
    <3> QED BY <1>1, <1>7, <3>2, <3>3, <3>4
  <2>5. h.op \in {"register", "call", "add_route", "set_route", "copy"}
    BY <1>3, <1>4, <1>8 DEF Step, BusStep, Register, AddRouteCall, SetRouteEnabled, DispatchFrame,
         Unlock, EmptyBus, DeliverPlain, DeliverAsr, DeliverCore, CopyCallback, CallBack
  <2> QED BY <2>1, <2>2, <2>3, <2>4, <2>5
<1>9. CASE Build
  <2>1. h = Op("build", "-") /\ h # Muting /\ h.op # "add_route"
    BY <1>3, <1>4, <1>9 DEF Build
  <2>2. /\ readers' = readers /\ voice' = voice /\ routes' = routes
        /\ GoesOn("starter", <<>>) \/ Begins("starter", <<>>)
    BY <1>9 DEF Build, StackOnly
  <2>3. CASE Begins("starter", <<>>)
    BY <1>1, <1>2, <2>1, <2>2, <2>3 DEF Fails, Begins
  <2> QED BY <1>1, <1>7, <2>1, <2>2, <2>3
<1>10. CASE StartAll
  <2>1. /\ h.op = "start" /\ GoesOn("starter", <<>>) /\ readers' = readers /\ voice' = voice
        /\ routes' = routes
    BY <1>4, <1>10 DEF StartAll, StartDevice
  <2> QED BY <1>1, <1>3, <1>7, <2>1
<1>11. CASE Poll
  <2>1. /\ h = Op("poll", "-") /\ h # Muting /\ h.op # "add_route"
        /\ h # Add("tts_out", "tts", "text")
    BY <1>3, <1>4, <1>11 DEF Poll
  <2>2. /\ readers' = readers /\ voice' = voice /\ routes' = routes
        /\ \/ GoesOn("starter", <<>>)
           \/ GoesOn("starter", <<Op("copy", "output"), Op("poll", "-")>>)
    BY <1>11 DEF Poll, BusOnly, appVars, StackOnly
  <2>3. CASE GoesOn("starter", <<Op("copy", "output"), Op("poll", "-")>>)
    <3>1. <<Op("copy", "output"), Op("poll", "-")>> \in Seq(Pushed)
      BY DEF Pushed
    <3>2. PICK ops \in Seq(Pushed) : ops = <<Op("copy", "output"), Op("poll", "-")>>
      BY <3>1
    <3>3. Starts(ops)
      BY <1>2, <2>1, <2>2, <2>3, <3>2 DEF Starts, GoesOn, starting
    <3> QED BY <1>1, <2>2, <3>3
  <2> QED BY <1>1, <1>7, <2>1, <2>2, <2>3
<1> QED BY <1>8, <1>9, <1>10, <1>11

(* What the starter and the voice of the UI do not meet.                    *)
LEMMA VoiceStays ==
  ASSUME VoiceInv, voice' = voice, ui' = ui, MicrophoneOn' => MicrophoneOn,
         SpeakerOn' => MutesLater' \/ (SpeakerOn /\ (MutesLater => MutesLater'))
  PROVE  VoiceInv'
<1>1. \A o : ToDo(o)' = ToDo(o)
  BY DEF ToDo
<1> QED BY <1>1 DEF VoiceInv

LEMMA StarterStays ==
  ASSUME StarterInv, starting' = starting, routes["tts_out"] = <<>> => routes'["tts_out"] = <<>>
  PROVE  StarterInv' /\ MutesLater' = MutesLater
BY DEF StarterInv, Program, MutesLater

LEMMA StarterKeeps ==
  ASSUME MuteInv, DestroyInv, Step("starter") \/ Build \/ StartAll \/ Poll
  PROVE  MuteInv'
<1>1. /\ starting # <<>> /\ readers' = readers /\ voice' = voice
      /\ Fails \/ \E ops \in Seq(Pushed) : Starts(ops)
  BY StarterDoes DEF MuteInv
<1>2. /\ "starter" \in DOMAIN stack /\ "ui" # "starter"
      /\ \A t \in Carriers : t # "starter"
  BY ThreadNames DEF DestroyInv, Carriers
<1>3. Program(starting) /\ starting \in Seq(StarterOps)
  BY DEF MuteInv, StarterInv, Program
<1>4. PICK h \in StarterOps, rest \in Seq(StarterOps), m \in Nat : Beheads(starting, h, rest, m)
  BY <1>1, <1>3, HeadTailIs
<1>5. h = Head(starting) /\ h = starting[1] /\ Len(starting) = m + 1
  BY <1>4 DEF Beheads
<1>6. CASE Fails
  <2>1. /\ ui' = ui /\ starting' = <<>> /\ routes' = routes
        /\ \A t \in Carriers : stack'[t] = stack[t]
    BY <1>2, <1>6 DEF Fails, ui, starting
  <2>2. routes["tts_out"] = <<>>
    BY <1>1, <1>6 DEF Fails, MuteInv, StarterInv
  <2>3. ~SpeakerOn /\ ~SpeakerOn'
    <3>1. Len(<<>>) = 0
      OBVIOUS
    <3> QED BY <2>1, <2>2, <3>1 DEF SpeakerOn, On
  <2>4. CarryInv' /\ RouteInv'
    BY <1>1, <2>1, CarriersStay DEF MuteInv, RouteInv
  <2>5. StarterInv'
    <3>1. <<>> \in Seq(StarterOps) /\ Len(<<>>) = 0
      OBVIOUS
    <3>2. Program(<<>>)
      BY <3>1 DEF Program
    <3> QED BY <2>1, <3>2 DEF StarterInv, Program
  <2>6. VoiceInv'
    <3>1. MicrophoneOn' = MicrophoneOn
      BY <2>1 DEF MicrophoneOn, On
    <3> QED BY <1>1, <2>1, <2>3, <3>1, VoiceStays DEF MuteInv
  <2> QED BY <2>4, <2>5, <2>6 DEF MuteInv
<1>7. ASSUME NEW ops \in Seq(Pushed), Starts(ops) PROVE MuteInv'
  <2>1. /\ ui' = ui /\ starting' = ops \o Tail(starting)
        /\ \A t \in Carriers : stack'[t] = stack[t]
    BY <1>2, <1>7 DEF Starts, ui, starting
  <2>2. /\ Program(ops \o Tail(starting))
        /\ ops \o Tail(starting) # <<>> => Head(ops \o Tail(starting)) # Op("build", "-")
        /\ \A o : (\E j \in 2 .. Len(starting) : starting[j] = o)
              => \E i \in 1 .. Len(ops \o Tail(starting)) : (ops \o Tail(starting))[i] = o
    BY <1>1, <1>3, <1>7, ProgramGoesOn DEF Starts
  <2>3. StarterInv'
    BY <2>1, <2>2, Zenon DEF StarterInv, Program
  <2>4. routes' = routes \/ Alone
    BY <1>7 DEF Starts
  <2>5. CarryInv'
    BY <1>1, <2>1, <2>4, CarriersStay DEF MuteInv
  <2>6. (\E j \in 2 .. m + 1 : starting[j] = Muting) => MutesLater'
    BY <1>5, <2>1, <2>2, Zenon DEF MutesLater
  <2>7. MutesLater /\ h # Muting => MutesLater'
    <3> SUFFICES ASSUME MutesLater, h # Muting PROVE MutesLater'
      OBVIOUS
    <3>1. PICK i \in 1 .. m + 1 : starting[i] = Muting
      BY <1>5 DEF MutesLater
    <3>2. i \in 2 .. m + 1
      BY <1>5, <3>1
    <3> QED BY <2>6, <3>1, <3>2
  <2>8. CASE routes' = routes /\ h # Muting
    <3>1. MicrophoneOn' = MicrophoneOn /\ SpeakerOn' = SpeakerOn
      BY <2>8 DEF MicrophoneOn, SpeakerOn, On
    <3>2. VoiceInv'
      BY <1>1, <2>1, <2>7, <2>8, <3>1, VoiceStays DEF MuteInv
    <3> QED BY <2>3, <2>5, <2>8, <3>2 DEF MuteInv, RouteInv
  <2>9. CASE h.op = "add_route" /\ routes' = AddRoute(routes, h.arg.from, h.arg.to)
    <3>1. /\ h.arg.from \in Ports \ {"audio_out"} /\ h.arg.to \in Leads(h.arg.from)
          /\ h.arg.from = "tts_out" => h = Add("tts_out", "tts", "text")
          /\ h # Muting
      BY <2>9, StarterNames
    <3>2. RouteInv' /\ \A p \in Ports \ {h.arg.from} : routes'[p] = routes[p]
      BY <2>9, <3>1, RoutesAdd DEF MuteInv
    <3>3. MicrophoneOn' = MicrophoneOn
      <4>1. routes'["audio_out"] = routes["audio_out"]
        BY <3>1, <3>2 DEF Ports
      <4> QED BY <4>1 DEF MicrophoneOn, On
    <3>4. CASE h.arg.from = "tts_out"
      <4>1. starting[1] = Add("tts_out", "tts", "text") /\ 1 \in 1 .. Len(starting)
        BY <1>5, <3>1, <3>4
      <4>2. \E j \in 2 .. m + 1 : starting[j] = Muting
        BY <1>3, <1>5, <4>1 DEF Program
      <4>3. VoiceInv'
        BY <1>1, <2>1, <2>6, <3>3, <4>2, VoiceStays DEF MuteInv
      <4> QED BY <2>3, <2>5, <3>2, <4>3 DEF MuteInv
    <3>5. CASE h.arg.from # "tts_out"
      <4>1. SpeakerOn' = SpeakerOn
        <5>1. routes'["tts_out"] = routes["tts_out"]
          BY <3>2, <3>5 DEF Ports
        <5> QED BY <5>1 DEF SpeakerOn, On
      <4>2. VoiceInv'
        BY <1>1, <2>1, <2>7, <3>1, <3>3, <4>1, VoiceStays DEF MuteInv
      <4> QED BY <2>3, <2>5, <3>2, <4>2 DEF MuteInv
    <3> QED BY <3>4, <3>5
  <2>10. CASE routes' = SetEnabled(routes, "tts_out", To("tts", "text"), FALSE)
    <3>1. "tts_out" \in Ports /\ "audio_out" \in Ports \ {"tts_out"} /\ FALSE \in BOOLEAN
      BY DEF Ports
    <3>2. /\ RouteInv' /\ routes'["audio_out"] = routes["audio_out"]
          /\ ~On("tts_out", To("tts", "text"))'
      BY <2>10, <3>1, RoutesSet DEF MuteInv
    <3>3. MicrophoneOn' = MicrophoneOn /\ ~SpeakerOn'
      BY <3>2 DEF MicrophoneOn, SpeakerOn, On
    <3>4. VoiceInv'
      BY <1>1, <2>1, <3>3, VoiceStays DEF MuteInv
    <3> QED BY <2>3, <2>5, <3>2, <3>4 DEF MuteInv
  <2> QED BY <1>5, <1>7, <2>8, <2>9, <2>10 DEF Starts
<1> QED BY <1>1, <1>6, <1>7

-----------------------------------------------------------------------------
(* A call of the UI that goes on: the routes it changes.                    *)
LEMMA UiRoutes ==
  ASSUME DestroyInv, UiStep
  PROVE  /\ readers' = readers /\ voice' = voice
         /\ \/ routes' = routes /\ Head(ui).op # "set_route"
            \/ Alone /\ routes' = NoRoutes(routes) /\ Head(ui).op # "set_route"
            \/ /\ Alone /\ Head(ui).op = "set_route"
               /\ routes' = SetEnabled(routes, Head(ui).arg.from, Head(ui).arg.to, Head(ui).arg.enabled)
<1>1. ui # <<>>
  BY UiPops
<1>2. PICK h \in UiOps : h = Head(ui)
  <2>1. ui \in Seq(UiOps)
    BY DEF DestroyInv
  <2> QED BY <1>1, <2>1, HeadTailProperties
<1>3. \A op : At("ui", op) <=> h.op = op
  BY <1>1, <1>2 DEF At, ui
<1>4. h.op \in {"join", "stop", "clear_probes", "clear_callbacks", "null_core", "empty",
                "stop_stream", "stop_streams", "call", "delete", "set_route"}
  BY UiNames
<1>5. CASE Step("ui")
  <2>1. CASE SetRouteEnabled("ui") /\ BusOnly
    BY <1>2, <1>3, <2>1 DEF SetRouteEnabled, BusOnly, appVars, CanWrite, Arg, ui
  <2>2. CASE EmptyBus("ui") /\ BusOnly
    <3>1. h.op = "empty" /\ readers' = readers /\ voice' = voice /\ Alone /\ routes' = NoRoutes(routes)
      BY <1>3, <2>2 DEF EmptyBus, BusOnly, appVars, CanWrite
    <3> QED BY <1>2, <3>1
  <2>3. CASE CallBack("ui")
    <3>1. h.op = "call" /\ readers' = readers /\ voice' = voice /\ routes' = routes
      BY <1>3, <2>3 DEF CallBack, BusOnly, appVars, StackOnly
    <3> QED BY <1>2, <3>1
  <2>4. \/ (SetRouteEnabled("ui") \/ EmptyBus("ui")) /\ BusOnly
        \/ CallBack("ui")
    BY <1>3, <1>4, <1>5 DEF Step, BusStep, Register, AddRouteCall, DispatchFrame, Unlock,
       DeliverPlain, DeliverAsr, DeliverCore, CopyCallback
  <2> QED BY <2>1, <2>2, <2>3, <2>4
<1>6. CASE Join \/ StopStream \/ ClearCallbacks \/ StopDevices \/ Delete
  <2>1. /\ readers' = readers /\ voice' = voice /\ routes' = routes
        /\ \E op \in {"join", "stop_stream", "stop_streams", "clear_probes", "clear_callbacks",
                      "null_core", "stop", "delete"} : At("ui", op)
    BY <1>6 DEF Join, StopStream, ClearCallbacks, StopDevices, Delete, UiDoes, StackOnly, BusOnly, appVars
  <2>2. h.op # "set_route"
    BY <1>3, <2>1
  <2> QED BY <1>2, <2>1, <2>2
<1> QED BY <1>5, <1>6 DEF UiStep

LEMMA VoiceNames ==
  ASSUME NEW o \in UiOps, o.op = "set_route"
  PROVE  \E kind \in {"input", "output"}, e \in BOOLEAN :
           /\ o = SetVoice(kind, e) /\ o.arg.enabled = e
           /\ kind = "input" => o.arg.from = "audio_out" /\ o.arg.to = To("capture", "in")
           /\ kind = "output" => o.arg.from = "tts_out" /\ o.arg.to = To("tts", "text")
<1>1. o \in VoiceOps
  BY DEF UiOps, JoinOps, StopOps, ClearOps, StreamOps, VoiceOps, Op
<1>2. PICK kind \in {"input", "output"}, e \in BOOLEAN : o = SetVoice(kind, e)
  BY <1>1 DEF VoiceOps
<1> QED BY <1>2 DEF SetVoice, Op

LEMMA SetVoiceIs ==
  /\ \A k \in {"input", "output"}, e \in BOOLEAN : SetVoice(k, e).op = "set_route"
  /\ \A j \in {"input", "output"}, d \in BOOLEAN, k \in {"input", "output"}, e \in BOOLEAN :
       SetVoice(j, d) = SetVoice(k, e) => j = k /\ d = e
<1>1. /\ \A e \in BOOLEAN : SetVoice("input", e).op = "set_route" /\ SetVoice("output", e).op = "set_route"
      /\ \A e \in BOOLEAN : SetVoice("input", e).arg.from = "audio_out" /\ SetVoice("input", e).arg.enabled = e
      /\ \A e \in BOOLEAN : SetVoice("output", e).arg.from = "tts_out" /\ SetVoice("output", e).arg.enabled = e
  BY DEF SetVoice, Op
<1>2. ASSUME NEW j \in {"input", "output"}, NEW d \in BOOLEAN, NEW k \in {"input", "output"}, NEW e \in BOOLEAN,
             SetVoice(j, d) = SetVoice(k, e)
      PROVE  j = k /\ d = e
  <2>1. /\ SetVoice(j, d).arg.from = SetVoice(k, e).arg.from
        /\ SetVoice(j, d).arg.enabled = SetVoice(k, e).arg.enabled
    BY <1>2, Zenon
  <2>2. SetVoice(j, d).arg.enabled = d /\ SetVoice(k, e).arg.enabled = e
    BY <1>1
  <2>3. d = e
    BY <2>1, <2>2
  <2>4. /\ SetVoice(j, d).arg.from = IF j = "input" THEN "audio_out" ELSE "tts_out"
        /\ SetVoice(k, e).arg.from = IF k = "input" THEN "audio_out" ELSE "tts_out"
    BY <1>1
  <2> QED BY <2>1, <2>3, <2>4
<1> QED BY <1>1, <1>2

LEMMA UiStepMutes ==
  ASSUME MuteInv, DestroyInv, UiStep
  PROVE  MuteInv'
<1>1. /\ ui # <<>> /\ stack' = [stack EXCEPT !["ui"] = Tail(ui)]
      /\ readers' = readers /\ voice' = voice
  BY UiPops, UiRoutes
<1>2. /\ "ui" \in DOMAIN stack /\ starting' = starting /\ ui' = Tail(ui)
      /\ \A t \in Carriers : stack'[t] = stack[t]
  BY <1>1, ThreadNames DEF DestroyInv, Carriers, starting, ui
<1>3. ui \in Seq(UiOps)
  BY DEF DestroyInv
<1>4. PICK h \in UiOps, rest \in Seq(UiOps), m \in Nat : Beheads(ui, h, rest, m)
  BY <1>1, <1>3, HeadTailIs
<1>5. /\ h = Head(ui) /\ rest = Tail(ui) /\ h = ui[1] /\ Len(rest) = m /\ Len(ui) = m + 1
      /\ \A i \in 1 .. m : rest[i] = ui[i + 1]
  BY <1>4 DEF Beheads
<1>6. \/ routes' = routes /\ h.op # "set_route"
      \/ Alone /\ routes' = NoRoutes(routes) /\ h.op # "set_route"
      \/ Alone /\ h.op = "set_route" /\ routes' = SetEnabled(routes, h.arg.from, h.arg.to, h.arg.enabled)
  BY <1>5, UiRoutes
<1>7. CarryInv'
  BY <1>1, <1>2, <1>6, CarriersStay DEF MuteInv
<1>8. \A k \in {"input", "output"}, e \in BOOLEAN : ~ToDo(SetVoice(k, e))'
  <2> SUFFICES ASSUME NEW k \in {"input", "output"}, NEW e \in BOOLEAN, ToDo(SetVoice(k, e))'
               PROVE  FALSE
    OBVIOUS
  <2>1. PICK i \in 1 .. m : rest[i] = SetVoice(k, e)
    BY <1>2, <1>5 DEF ToDo
  <2>2. i + 1 \in 1 .. m + 1 /\ ui[i + 1] = SetVoice(k, e)
    BY <1>5, <2>1
  <2>3. ui = <<SetVoice(k, e)>>
    BY <1>5, <2>2 DEF MuteInv, VoiceInv, ToDo
  <2>4. Len(ui) = 1
    BY <2>3
  <2> QED BY <1>5, <2>1, <2>4
<1>9. CASE h.op # "set_route"
  <2>1. \A k \in {"input", "output"}, e \in BOOLEAN : ~ToDo(SetVoice(k, e))
    <3> SUFFICES ASSUME NEW k \in {"input", "output"}, NEW e \in BOOLEAN, ToDo(SetVoice(k, e))
                 PROVE  FALSE
      OBVIOUS
    <3>1. ui = <<SetVoice(k, e)>>
      BY DEF MuteInv, VoiceInv
    <3>2. h = SetVoice(k, e)
      BY <1>5, <3>1
    <3> QED BY <1>9, <3>2, SetVoiceIs
  <2>2. /\ RouteInv' /\ (MicrophoneOn' => MicrophoneOn) /\ (SpeakerOn' => SpeakerOn)
        /\ routes["tts_out"] = <<>> => routes'["tts_out"] = <<>>
    <3>1. CASE routes' = routes
      BY <3>1 DEF MuteInv, RouteInv, MicrophoneOn, SpeakerOn, On
    <3>2. CASE routes' = NoRoutes(routes)
      <4>1. RouteInv' /\ \A p \in Ports : routes'[p] = <<>> /\ \A to : ~On(p, to)'
        BY <3>2, RoutesGo DEF MuteInv
      <4>2. "audio_out" \in Ports /\ "tts_out" \in Ports
        BY DEF Ports
      <4>3. ~MicrophoneOn' /\ ~SpeakerOn' /\ routes'["tts_out"] = <<>>
        BY <4>1, <4>2 DEF MicrophoneOn, SpeakerOn
      <4> QED BY <4>1, <4>3
    <3> QED BY <1>6, <1>9, <3>1, <3>2
  <2>3. StarterInv' /\ MutesLater' = MutesLater
    BY <1>2, <2>2, StarterStays DEF MuteInv
  <2>4. VoiceInv'
    BY <1>1, <1>8, <2>1, <2>2, <2>3 DEF MuteInv, VoiceInv
  <2> QED BY <1>7, <2>2, <2>3, <2>4 DEF MuteInv
<1>10. CASE h.op = "set_route"
  <2>1. PICK kind \in {"input", "output"}, e \in BOOLEAN :
          /\ h = SetVoice(kind, e) /\ h.arg.enabled = e
          /\ kind = "input" => h.arg.from = "audio_out" /\ h.arg.to = To("capture", "in")
          /\ kind = "output" => h.arg.from = "tts_out" /\ h.arg.to = To("tts", "text")
    BY <1>10, VoiceNames
  <2>2. ToDo(SetVoice(kind, e))
    <3>1. 1 \in 1 .. Len(ui)
      BY <1>5
    <3> QED BY <1>5, <2>1, <3>1 DEF ToDo
  <2>3. voice[kind] = e
    BY <2>2 DEF MuteInv, VoiceInv
  <2>4. \A j \in {"input", "output"}, d \in BOOLEAN : j # kind => ~ToDo(SetVoice(j, d))
    <3> SUFFICES ASSUME NEW j \in {"input", "output"}, NEW d \in BOOLEAN, j # kind, ToDo(SetVoice(j, d))
                 PROVE  FALSE
      OBVIOUS
    <3>1. ui = <<SetVoice(j, d)>>
      BY DEF MuteInv, VoiceInv
    <3>2. h = SetVoice(j, d)
      BY <1>5, <3>1
    <3> QED BY <2>1, <3>2, SetVoiceIs
  <2>5. routes' = SetEnabled(routes, h.arg.from, h.arg.to, e)
    BY <1>6, <1>10, <2>1
  <2>6. "audio_out" \in Ports /\ "tts_out" \in Ports /\ "audio_out" # "tts_out"
    BY DEF Ports
  <2>7. CASE kind = "input"
    <3>1. /\ RouteInv' /\ routes'["tts_out"] = routes["tts_out"]
          /\ On("audio_out", To("capture", "in"))' => e
      BY <2>1, <2>5, <2>6, <2>7, RoutesSet DEF MuteInv
    <3>2. (MicrophoneOn' => e) /\ SpeakerOn' = SpeakerOn
      BY <3>1 DEF MicrophoneOn, SpeakerOn, On
    <3>3. StarterInv' /\ MutesLater' = MutesLater
      BY <1>2, <3>1, StarterStays DEF MuteInv
    <3>4. VoiceInv'
      BY <1>1, <1>8, <2>3, <2>4, <2>7, <3>2, <3>3 DEF MuteInv, VoiceInv
    <3> QED BY <1>7, <3>1, <3>3, <3>4 DEF MuteInv
  <2>8. CASE kind = "output"
    <3>1. /\ RouteInv' /\ routes'["audio_out"] = routes["audio_out"]
          /\ On("tts_out", To("tts", "text"))' => e
          /\ routes["tts_out"] = <<>> => routes'["tts_out"] = <<>>
      BY <2>1, <2>5, <2>6, <2>8, RoutesSet DEF MuteInv
    <3>2. (SpeakerOn' => e) /\ MicrophoneOn' = MicrophoneOn
      BY <3>1 DEF MicrophoneOn, SpeakerOn, On
    <3>3. StarterInv' /\ MutesLater' = MutesLater
      BY <1>2, <3>1, StarterStays DEF MuteInv
    <3>4. VoiceInv'
      BY <1>1, <1>8, <2>3, <2>4, <2>8, <3>2, <3>3 DEF MuteInv, VoiceInv
    <3> QED BY <1>7, <3>1, <3>3, <3>4 DEF MuteInv
  <2> QED BY <2>7, <2>8
<1> QED BY <1>9, <1>10

(* A call of the UI.                                                        *)
LEMMA UiCallMutes ==
  ASSUME MuteInv, DestroyInv, UiCall
  PROVE  MuteInv'
<1>1. /\ ui = <<>> /\ routes' = routes /\ readers' = readers
      /\ \/ \E kind \in {"input", "output"}, e \in BOOLEAN :
              /\ voice' = [voice EXCEPT ![kind] = e]
              /\ stack' = [stack EXCEPT !["ui"] = <<SetVoice(kind, e)>>]
         \/ /\ voice' = voice
            /\ \/ stack' = stack
               \/ \E ops \in {<<>>, <<Op("call", "output")>>, <<Op("stop_stream", "-")>>, DestroyOps} :
                    stack' = [stack EXCEPT !["ui"] = ops]
  BY DEF UiCall, SetVoicePathway, SendMessage, StartCapture, StopCapture, Destroy, Calls, UiIdle,
         Begins, StackOnly, busVars, ui
<1>2. /\ "ui" \in DOMAIN stack /\ starting' = starting
      /\ \A t \in Carriers : stack'[t] = stack[t]
  BY <1>1, ThreadNames DEF DestroyInv, Carriers, starting
<1>3. MicrophoneOn' = MicrophoneOn /\ SpeakerOn' = SpeakerOn
  BY <1>1 DEF MicrophoneOn, SpeakerOn, On
<1>4. StarterInv' /\ MutesLater' = MutesLater
  BY <1>1, <1>2, StarterStays DEF MuteInv
<1>5. CarryInv' /\ RouteInv'
  BY <1>1, <1>2, CarriersStay DEF MuteInv, RouteInv
<1>6. \A o : ~ToDo(o)
  <2>1. Len(ui) = 0
    BY <1>1
  <2> QED BY <2>1 DEF ToDo
<1>7. ASSUME NEW kind \in {"input", "output"}, NEW e \in BOOLEAN,
             voice' = [voice EXCEPT ![kind] = e], stack' = [stack EXCEPT !["ui"] = <<SetVoice(kind, e)>>]
      PROVE  VoiceInv'
  <2>1. voice \in [{"input", "output"} -> BOOLEAN]
    BY DEF MuteInv, VoiceInv
  <2>2. ui' = <<SetVoice(kind, e)>>
    BY <1>2, <1>7 DEF ui
  <2>3. Len(ui') = 1 /\ ui'[1] = SetVoice(kind, e)
    BY <2>2
  <2>4. \A o : ToDo(o)' <=> o = SetVoice(kind, e)
    BY <2>3 DEF ToDo
  <2>5. voice' \in [{"input", "output"} -> BOOLEAN] /\ voice'[kind] = e
        /\ \A k \in {"input", "output"} : k # kind => voice'[k] = voice[k]
    BY <1>7, <2>1
  <2>6. ASSUME NEW k \in {"input", "output"}, NEW d \in BOOLEAN, ToDo(SetVoice(k, d))'
        PROVE  ui' = <<SetVoice(k, d)>> /\ voice'[k] = d
    <3>1. SetVoice(k, d) = SetVoice(kind, e)
      BY <2>4, <2>6
    <3>2. k = kind /\ d = e
      BY <3>1, SetVoiceIs
    <3> QED BY <2>2, <2>5, <3>2
  <2>7. MicrophoneOn => voice["input"]
    BY <1>6 DEF MuteInv, VoiceInv
  <2>8. MicrophoneOn' => voice'["input"] \/ ToDo(SetVoice("input", FALSE))'
    <3>1. CASE kind = "input"
      BY <2>4, <2>5, <3>1
    <3>2. CASE kind # "input"
      BY <1>3, <2>5, <2>7, <3>2
    <3> QED BY <3>1, <3>2
  <2>9. SpeakerOn => voice["output"] \/ MutesLater
    BY <1>6 DEF MuteInv, VoiceInv
  <2>10. SpeakerOn' => voice'["output"] \/ ToDo(SetVoice("output", FALSE))' \/ MutesLater'
    <3>1. CASE kind = "output"
      BY <2>4, <2>5, <3>1
    <3>2. CASE kind # "output"
      BY <1>3, <1>4, <2>5, <2>9, <3>2
    <3> QED BY <3>1, <3>2
  <2> QED BY <2>5, <2>6, <2>8, <2>10 DEF VoiceInv
<1>8. ASSUME voice' = voice,
             \/ stack' = stack
             \/ \E ops \in {<<>>, <<Op("call", "output")>>, <<Op("stop_stream", "-")>>, DestroyOps} :
                  stack' = [stack EXCEPT !["ui"] = ops]
      PROVE  VoiceInv'
  <2>1. ui' \in {<<>>, <<Op("call", "output")>>, <<Op("stop_stream", "-")>>, DestroyOps}
    BY <1>1, <1>2, <1>8 DEF ui
  <2>2. \A i \in 1 .. Len(ui') : ui'[i].op # "set_route"
    <3>1. CASE ui' = <<>>
      <4>1. Len(ui') = 0
        BY <3>1
      <4> QED BY <4>1
    <3>2. CASE ui' = <<Op("call", "output")>> \/ ui' = <<Op("stop_stream", "-")>>
      BY <3>2 DEF Op
    <3>3. CASE ui' = DestroyOps
      BY <3>3 DEF DestroyOps, Op
    <3> QED BY <2>1, <3>1, <3>2, <3>3
  <2>3. \A k \in {"input", "output"}, e \in BOOLEAN : ~ToDo(SetVoice(k, e))'
    BY <2>2, SetVoiceIs DEF ToDo
  <2>4. (MicrophoneOn => voice["input"]) /\ (SpeakerOn => voice["output"] \/ MutesLater)
    BY <1>6 DEF MuteInv, VoiceInv
  <2> QED BY <1>3, <1>4, <1>8, <2>3, <2>4 DEF MuteInv, VoiceInv
<1>9. VoiceInv'
  BY <1>1, <1>7, <1>8
<1> QED BY <1>4, <1>5, <1>9 DEF MuteInv

(* What the carriers take up.                                               *)
LEMMA CarriersMute ==
  ASSUME MuteInv, DestroyInv,
         \/ \E t \in Carriers : Step(t)
         \/ CaptureFrame \/ LoopTakes \/ AsrTakes
  PROVE  MuteInv'
<1>1. CarryInv' /\ routes' = routes /\ voice' = voice
      /\ \E t \in Carriers : \E ops : stack' = [stack EXCEPT ![t] = ops]
  <2>1. ASSUME NEW t \in Carriers, Step(t)
        PROVE  CarryInv' /\ routes' = routes /\ voice' = voice
               /\ \E ops : stack' = [stack EXCEPT ![t] = ops]
    <3>1. CarryInv' /\ routes' = routes
      BY <2>1, CarrierKeeps DEF MuteInv, DestroyInv
    <3>2. voice' = voice /\ \E ops : stack' = [stack EXCEPT ![t] = ops]
      BY <2>1 DEF Step, BusStep, Register, AddRouteCall, SetRouteEnabled, DispatchFrame, Unlock,
         EmptyBus, DeliverPlain, DeliverAsr, DeliverCore, CopyCallback, CallBack, Deliver, GoesOn,
         BusOnly, appVars
    <3> QED BY <3>1, <3>2
  <2>2. ASSUME NEW t \in Carriers, NEW ops \in Seq(CarryOps), stack[t] = <<>>,
               \A i \in 1 .. Len(ops) : Plain(ops[i]),
               stack' = [stack EXCEPT ![t] = ops], routes' = routes, readers' = readers
        PROVE  CarryInv'
    BY <2>2, CarrierBegins DEF MuteInv, DestroyInv
  <2>3. ASSUME NEW p \in Ports \ {"pass_out"}
        PROVE  /\ <<Op("dispatch", p)>> \in Seq(CarryOps)
               /\ \A i \in 1 .. Len(<<Op("dispatch", p)>>) : Plain(<<Op("dispatch", p)>>[i])
    <3>1. Plain(Op("dispatch", p)) /\ Op("dispatch", p) \in CarryOps
      BY PlainOps DEF Plain
    <3> QED BY <3>1
  <2>4. "audio_out" \in Ports \ {"pass_out"} /\ "control_out" \in Ports \ {"pass_out"}
        /\ "text_out" \in Ports \ {"pass_out"} /\ "tts_out" \in Ports \ {"pass_out"}
    BY DEF Ports
  <2>5. CASE CaptureFrame
    <3>1. /\ "capture" \in Carriers /\ stack["capture"] = <<>> /\ voice' = voice
          /\ routes' = routes /\ readers' = readers
          /\ stack' = [stack EXCEPT !["capture"] = <<Op("dispatch", "audio_out")>>]
      BY <2>5 DEF CaptureFrame, Idle, Begins, StackOnly, Carriers
    <3> QED BY <2>2, <2>3, <2>4, <3>1
  <2>6. CASE AsrTakes
    <3>1. /\ "asr" \in Carriers /\ stack["asr"] = <<>> /\ voice' = voice
          /\ routes' = routes /\ readers' = readers
          /\ stack' = [stack EXCEPT !["asr"] = <<Op("dispatch", "text_out")>>]
      BY <2>6 DEF AsrTakes, Idle, Begins, StackOnly, Carriers
    <3> QED BY <2>2, <2>3, <2>4, <3>1
  <2>7. CASE LoopTakes
    <3>1. /\ "loop" \in Carriers /\ stack["loop"] = <<>> /\ voice' = voice
          /\ routes' = routes /\ readers' = readers
          /\ \/ stack' = [stack EXCEPT !["loop"] = <<Op("dispatch", "control_out")>>]
             \/ stack' = [stack EXCEPT !["loop"] = <<Op("copy", "output"), Op("dispatch", "tts_out")>>]
      BY <2>7 DEF LoopTakes, Idle, Begins, StackOnly, Carriers
    <3>2. /\ <<Op("copy", "output"), Op("dispatch", "tts_out")>> \in Seq(CarryOps)
          /\ \A i \in 1 .. Len(<<Op("copy", "output"), Op("dispatch", "tts_out")>>) :
               Plain(<<Op("copy", "output"), Op("dispatch", "tts_out")>>[i])
      <4>1. /\ Plain(Op("copy", "output")) /\ Plain(Op("dispatch", "tts_out"))
            /\ Op("copy", "output") \in CarryOps /\ Op("dispatch", "tts_out") \in CarryOps
        BY <2>4, PlainOps DEF Plain
      <4> QED BY <4>1
    <3> QED BY <2>2, <2>3, <2>4, <3>1, <3>2
  <2> QED BY <2>1, <2>5, <2>6, <2>7
<1>2. PICK t \in Carriers : \E ops : stack' = [stack EXCEPT ![t] = ops]
  BY <1>1
<1>3. ui' = ui /\ starting' = starting
  BY <1>2 DEF Carriers, ui, starting
<1>4. MicrophoneOn' = MicrophoneOn /\ SpeakerOn' = SpeakerOn /\ RouteInv'
  BY <1>1 DEF MicrophoneOn, SpeakerOn, On, RouteInv, MuteInv
<1>5. StarterInv' /\ MutesLater' = MutesLater
  BY <1>1, <1>3, StarterStays DEF MuteInv
<1>6. VoiceInv'
  BY <1>1, <1>3, <1>4, <1>5, VoiceStays DEF MuteInv
<1> QED BY <1>1, <1>4, <1>5, <1>6 DEF MuteInv

LEMMA NothingMutes ==
  ASSUME MuteInv, stack' = stack, routes' = routes, readers' = readers, voice' = voice
  PROVE  MuteInv'
<1>1. ui' = ui /\ starting' = starting
  BY DEF ui, starting
<1>2. MicrophoneOn' = MicrophoneOn /\ SpeakerOn' = SpeakerOn /\ RouteInv'
  BY DEF MicrophoneOn, SpeakerOn, On, RouteInv, MuteInv
<1>3. StarterInv' /\ MutesLater' = MutesLater
  BY <1>1, StarterStays DEF MuteInv
<1>4. VoiceInv' /\ CarryInv'
  BY <1>1, <1>2, <1>3, VoiceStays, CarriersStay DEF MuteInv
<1> QED BY <1>2, <1>3, <1>4 DEF MuteInv

LEMMA MuteStep == DestroyInv /\ MuteInv /\ [Next]_vars => MuteInv'
<1> SUFFICES ASSUME DestroyInv, MuteInv, [Next]_vars PROVE MuteInv'
  OBVIOUS
<1>1. ASSUME NEW t \in Workers, WorkerStep(t) PROVE MuteInv'
  <2>1. t = "starter" \/ t \in Carriers
    BY ThreadNames DEF Carriers
  <2> QED BY <1>1, <2>1, StarterKeeps, CarriersMute DEF WorkerStep, Carriers
<1>2. CASE ThreadEnds
  <2>1. UNCHANGED busVars /\ voice' = voice
    BY <1>2 DEF ThreadEnds, Ends
  <2> QED BY <2>1, NothingMutes DEF busVars
<1>3. CASE UNCHANGED vars
  BY <1>3, NothingMutes DEF vars, busVars, appVars
<1> QED BY <1>1, <1>2, <1>3, CarriersMute, UiCallMutes, UiStepMutes DEF Next

(* Two sequences one after the other.                                       *)
Follows(c, a, b, n, m) ==
  /\ Len(a) = n /\ Len(b) = m /\ Len(c) = n + m
  /\ \A i \in 1 .. n : c[i] = a[i]
  /\ \A i \in 1 .. m : c[i + n] = b[i]

LEMMA TogetherIs ==
  ASSUME NEW S, NEW a \in Seq(S), NEW b \in Seq(S), NEW c \in Seq(S), NEW n \in Nat, NEW m \in Nat,
         Follows(c, a, b, n, m)
  PROVE  a \o b = c
<1>0. /\ Len(a) = n /\ Len(b) = m /\ Len(c) = n + m
      /\ \A i \in 1 .. n : c[i] = a[i]
      /\ \A i \in 1 .. m : c[i + n] = b[i]
  BY DEF Follows
<1>1. PICK d \in Seq(S) : Concatenates(d, a, b, n, m)
  <2>1. PICK d \in Seq(S), k \in Nat, l \in Nat : Concatenates(d, a, b, k, l)
    BY ConcatIs
  <2>2. k = n /\ l = m
    BY <1>0, <2>1 DEF Concatenates
  <2> QED BY <2>1, <2>2
<1>2. /\ d = a \o b /\ Len(a) = n /\ Len(b) = m /\ Len(d) = n + m
      /\ \A i \in 1 .. n + m : d[i] = IF i <= n THEN a[i] ELSE b[i - n]
  BY <1>1 DEF Concatenates
<1>3. ASSUME NEW i \in 1 .. n + m PROVE d[i] = c[i]
  <2>1. CASE i <= n
    BY <1>0, <1>2, <2>1
  <2>2. CASE ~(i <= n)
    <3>1. i - n \in 1 .. m /\ (i - n) + n = i
      BY <2>2
    <3>2. c[(i - n) + n] = b[i - n]
      BY <1>0, <3>1
    <3> QED BY <1>2, <2>2, <3>1, <3>2
  <2> QED BY <2>1, <2>2
<1>4. Len(d) = Len(c) /\ \A i \in 1 .. Len(d) : d[i] = c[i]
  BY <1>0, <1>2, <1>3
<1>5. d = c
  BY <1>4, SeqEqual
<1> QED BY <1>2, <1>5

LEMMA StartIs ==
  /\ StartApp \in Seq(StarterOps) /\ Len(StartApp) = 13
  /\ StartApp[1] = Op("build", "-") /\ StartApp[2] = Op("register", "core")
  /\ StartApp[3] = Add("tts_out", "tts", "text") /\ StartApp[4] = Add("interrupt_out", "core", "interrupt")
  /\ StartApp[5] = Add("flush_out", "asr", "control") /\ StartApp[6] = Add("control_out", "tts", "control")
  /\ StartApp[7] = Op("copy", "output") /\ StartApp[8] = Op("start", "vad")
  /\ StartApp[9] = Op("start", "asr") /\ StartApp[10] = Op("start", "tts")
  /\ StartApp[11] = Op("start", "core") /\ StartApp[12] = Muting /\ StartApp[13] = Op("poll", "-")
<1> DEFINE S == StarterOps
           a == Op("build", "-")
           b == Op("register", "core")
           c == Add("tts_out", "tts", "text")
           d == Add("interrupt_out", "core", "interrupt")
           e == Add("flush_out", "asr", "control")
           f == Add("control_out", "tts", "control")
           g == Op("copy", "output")
           h == Op("start", "vad")
           i == Op("start", "asr")
           j == Op("start", "tts")
           k == Op("start", "core")
           l == SetVoice("output", FALSE)
           m == Op("poll", "-")
<1>6. /\ a \in S /\ b \in S /\ c \in S /\ d \in S /\ e \in S /\ f \in S /\ g \in S
      /\ h \in S /\ i \in S /\ j \in S /\ k \in S /\ l \in S /\ m \in S
  BY DEF StarterOps, Muting
<1>7. StartApp = <<a>> \o <<b>> \o <<c, d, e, f>> \o <<g>> \o <<h, i, j, k>> \o <<l, m>>
  BY Zenon DEF StartApp, WireRoutes
<1>8. l = Muting
  BY DEF Muting
<1> USE <1>6
<1> HIDE DEF S, a, b, c, d, e, f, g, h, i, j, k, l, m
<1>1. <<a>> \o <<b>> = <<a, b>>
  <2>1. <<a>> \in Seq(S) /\ <<b>> \in Seq(S) /\ <<a, b>> \in Seq(S)
    OBVIOUS
  <2>2. PICK x \in Seq(S), y \in Seq(S), z \in Seq(S) :
          x = <<a>> /\ y = <<b>> /\ z = <<a, b>>
    BY <2>1, Zenon
  <2>3. Follows(z, x, y, 1, 1)
    BY <2>2 DEF Follows
  <2>4. x \o y = z
    BY <2>3, TogetherIs
  <2> QED BY <2>2, <2>4, Zenon
<1>2. <<a, b>> \o <<c, d, e, f>> = <<a, b, c, d, e, f>>
  <2>1. <<a, b>> \in Seq(S) /\ <<c, d, e, f>> \in Seq(S) /\ <<a, b, c, d, e, f>> \in Seq(S)
    OBVIOUS
  <2>2. PICK x \in Seq(S), y \in Seq(S), z \in Seq(S) :
          x = <<a, b>> /\ y = <<c, d, e, f>> /\ z = <<a, b, c, d, e, f>>
    BY <2>1, Zenon
  <2>3. Follows(z, x, y, 2, 4)
    BY <2>2 DEF Follows
  <2>4. x \o y = z
    BY <2>3, TogetherIs
  <2> QED BY <2>2, <2>4, Zenon
<1>3. <<a, b, c, d, e, f>> \o <<g>> = <<a, b, c, d, e, f, g>>
  <2>1. <<a, b, c, d, e, f>> \in Seq(S) /\ <<g>> \in Seq(S) /\ <<a, b, c, d, e, f, g>> \in Seq(S)
    OBVIOUS
  <2>2. PICK x \in Seq(S), y \in Seq(S), z \in Seq(S) :
          x = <<a, b, c, d, e, f>> /\ y = <<g>> /\ z = <<a, b, c, d, e, f, g>>
    BY <2>1, Zenon
  <2>3. Follows(z, x, y, 6, 1)
    BY <2>2 DEF Follows
  <2>4. x \o y = z
    BY <2>3, TogetherIs
  <2> QED BY <2>2, <2>4, Zenon
<1>4. <<a, b, c, d, e, f, g>> \o <<h, i, j, k>> = <<a, b, c, d, e, f, g, h, i, j, k>>
  <2>1. <<a, b, c, d, e, f, g>> \in Seq(S) /\ <<h, i, j, k>> \in Seq(S) /\ <<a, b, c, d, e, f, g, h, i, j, k>> \in Seq(S)
    OBVIOUS
  <2>2. PICK x \in Seq(S), y \in Seq(S), z \in Seq(S) :
          x = <<a, b, c, d, e, f, g>> /\ y = <<h, i, j, k>> /\ z = <<a, b, c, d, e, f, g, h, i, j, k>>
    BY <2>1, Zenon
  <2>3. Follows(z, x, y, 7, 4)
    BY <2>2 DEF Follows
  <2>4. x \o y = z
    BY <2>3, TogetherIs
  <2> QED BY <2>2, <2>4, Zenon
<1>5. <<a, b, c, d, e, f, g, h, i, j, k>> \o <<l, m>> = <<a, b, c, d, e, f, g, h, i, j, k, l, m>>
  <2>1. <<a, b, c, d, e, f, g, h, i, j, k>> \in Seq(S) /\ <<l, m>> \in Seq(S) /\ <<a, b, c, d, e, f, g, h, i, j, k, l, m>> \in Seq(S)
    OBVIOUS
  <2>2. PICK x \in Seq(S), y \in Seq(S), z \in Seq(S) :
          x = <<a, b, c, d, e, f, g, h, i, j, k>> /\ y = <<l, m>> /\ z = <<a, b, c, d, e, f, g, h, i, j, k, l, m>>
    BY <2>1, Zenon
  <2>3. Follows(z, x, y, 11, 2)
    BY <2>2 DEF Follows
  <2>4. x \o y = z
    BY <2>3, TogetherIs
  <2> QED BY <2>2, <2>4, Zenon
<1>9. StartApp = <<a, b, c, d, e, f, g, h, i, j, k, l, m>>
  BY <1>1, <1>2, <1>3, <1>4, <1>5, <1>7, Zenon
<1>10. /\ StartApp \in Seq(S) /\ Len(StartApp) = 13
       /\ StartApp[1] = a /\ StartApp[2] = b /\ StartApp[3] = c /\ StartApp[4] = d
       /\ StartApp[5] = e /\ StartApp[6] = f /\ StartApp[7] = g /\ StartApp[8] = h
       /\ StartApp[9] = i /\ StartApp[10] = j /\ StartApp[11] = k /\ StartApp[12] = l
       /\ StartApp[13] = m
  BY <1>9
<1> QED BY <1>8, <1>10, Zenon DEF S, a, b, c, d, e, f, g, h, i, j, k, m

LEMMA MuteInit == Init => MuteInv
<1> SUFFICES ASSUME Init PROVE MuteInv
  OBVIOUS
<1>1. /\ routes = BridgeRoutes /\ readers = [t \in Threads |-> 0]
      /\ stack = [t \in Threads |-> IF t = "starter" THEN StartApp ELSE <<>>]
      /\ voice = [k \in {"input", "output"} |-> FALSE]
  BY DEF Init
<1>2. /\ starting = StartApp /\ ui = <<>> /\ \A t \in Carriers : stack[t] = <<>> /\ readers[t] = 0
  BY <1>1, ThreadNames DEF starting, ui, Carriers
<1>3. RouteInv
  <2>1. DOMAIN routes = Ports
    BY <1>1 DEF BridgeRoutes
  <2>2. ASSUME NEW from \in Ports PROVE routes[from] \in Seq(RoutesTo(from))
    <3>1. CASE from = "audio_out"
      <4>1. routes[from] = <<[to |-> To("capture", "in"), enabled |-> FALSE],
                             [to |-> To("level_probe", "in"), enabled |-> TRUE]>>
        BY <1>1, <2>2, <3>1 DEF BridgeRoutes
      <4>2. /\ [to |-> To("capture", "in"), enabled |-> FALSE] \in RoutesTo(from)
            /\ [to |-> To("level_probe", "in"), enabled |-> TRUE] \in RoutesTo(from)
        BY <3>1 DEF RoutesTo, Leads
      <4> QED BY <4>1, <4>2
    <3>2. CASE from = "pass_out"
      <4>1. routes[from] = <<[to |-> To("vad", "in"), enabled |-> TRUE]>>
        BY <1>1, <2>2, <3>2 DEF BridgeRoutes
      <4>2. [to |-> To("vad", "in"), enabled |-> TRUE] \in RoutesTo(from)
        BY <3>2 DEF RoutesTo, Leads
      <4> QED BY <4>1, <4>2
    <3>3. CASE from = "flush_out"
      <4>1. routes[from] = <<[to |-> To("asr", "control"), enabled |-> TRUE]>>
        BY <1>1, <2>2, <3>3 DEF BridgeRoutes
      <4>2. [to |-> To("asr", "control"), enabled |-> TRUE] \in RoutesTo(from)
        BY <3>3 DEF RoutesTo, Leads
      <4> QED BY <4>1, <4>2
    <3>4. CASE from = "interrupt_out"
      <4>1. routes[from] = <<[to |-> To("core", "interrupt"), enabled |-> TRUE]>>
        BY <1>1, <2>2, <3>4 DEF BridgeRoutes
      <4>2. [to |-> To("core", "interrupt"), enabled |-> TRUE] \in RoutesTo(from)
        BY <3>4 DEF RoutesTo, Leads
      <4> QED BY <4>1, <4>2
    <3>5. CASE from = "text_out"
      <4>1. routes[from] = <<[to |-> To("core", "text"), enabled |-> TRUE],
                             [to |-> To("transcript_probe", "in"), enabled |-> TRUE]>>
        BY <1>1, <2>2, <3>5 DEF BridgeRoutes
      <4>2. /\ [to |-> To("core", "text"), enabled |-> TRUE] \in RoutesTo(from)
            /\ [to |-> To("transcript_probe", "in"), enabled |-> TRUE] \in RoutesTo(from)
        BY <3>5 DEF RoutesTo, Leads
      <4> QED BY <4>1, <4>2
    <3>6. CASE from \in {"tts_out", "control_out"}
      <4>1. routes[from] = <<>>
        BY <1>1, <2>2, <3>6 DEF BridgeRoutes
      <4>2. <<>> \in Seq(RoutesTo(from))
        OBVIOUS
      <4> QED BY <4>1, <4>2
    <3> QED BY <3>1, <3>2, <3>3, <3>4, <3>5, <3>6 DEF Ports
  <2> QED BY <2>1, <2>2 DEF RouteInv
<1>4. ~MicrophoneOn /\ ~SpeakerOn /\ routes["tts_out"] = <<>>
  <2>1. routes["audio_out"] = <<[to |-> To("capture", "in"), enabled |-> FALSE],
                                [to |-> To("level_probe", "in"), enabled |-> TRUE]>>
    BY <1>1 DEF BridgeRoutes, Ports
  <2>2. Len(routes["audio_out"]) = 2
    BY <2>1
  <2>3. ASSUME NEW i \in 1 .. 2
        PROVE  routes["audio_out"][i] # [to |-> To("capture", "in"), enabled |-> TRUE]
    <3>1. CASE i = 1
      <4>1. routes["audio_out"][i].enabled = FALSE
        BY <2>1, <3>1
      <4> QED BY <4>1
    <3>2. CASE i = 2
      <4>1. routes["audio_out"][i].to = To("level_probe", "in")
        BY <2>1, <3>2
      <4>2. To("level_probe", "in") # To("capture", "in")
        BY DEF To
      <4> QED BY <4>1, <4>2
    <3> QED BY <3>1, <3>2
  <2>4. routes["tts_out"] = <<>> /\ Len(<<>>) = 0
    BY <1>1 DEF BridgeRoutes, Ports
  <2> QED BY <2>2, <2>3, <2>4 DEF MicrophoneOn, SpeakerOn, On
<1>5. CarryInv
  <2>1. <<>> \in Seq(CarryOps) /\ Cardinality(Unlocks(<<>>)) = 0 /\ \A live : Free(<<>>, live)
    BY FewOps
  <2>2. Len(<<>>) = 0
    OBVIOUS
  <2>3. Guarded(<<>>)
    BY <2>2 DEF Guarded
  <2> QED BY <1>1, <1>2, <2>1, <2>3, Zenon DEF CarryInv, CarrierInv
<1>6. StarterInv
  <2> DEFINE s == StartApp
  <2>1. s \in Seq(StarterOps) /\ Len(s) = 13
    BY StartIs
  <2>2. ASSUME NEW i \in 1 .. 13
        PROVE  /\ s[i] = Op("build", "-") => i = 1
               /\ s[i] = Add("tts_out", "tts", "text") => i = 3
               /\ s[i] = Muting => i = 12
               /\ s[i] = Op("poll", "-") => i = 13
    BY StartIs DEF Op, Add, Muting, SetVoice
  <2>3. s[12] = Muting
    BY StartIs
  <2> HIDE DEF s
  <2>4. ASSUME NEW i \in 1 .. 13, s[i] = Add("tts_out", "tts", "text")
        PROVE  \E j \in i + 1 .. 13 : s[j] = Muting
    <3>1. 12 \in i + 1 .. 13
      BY <2>2, <2>4
    <3> QED BY <2>3, <3>1
  <2>5. ASSUME NEW i \in 1 .. 13, s[i] = Muting, NEW j \in 1 .. i
        PROVE  s[j] # Op("poll", "-")
    <3>1. i = 12 /\ j \in 1 .. 13 /\ j # 13
      BY <2>2, <2>5
    <3> QED BY <2>2, <3>1
  <2>6. Program(s)
    BY <2>1, <2>2, <2>4, <2>5 DEF Program
  <2> QED BY <1>2, <1>4, <2>6 DEF StarterInv, s
<1>7. VoiceInv
  <2>1. voice \in [{"input", "output"} -> BOOLEAN]
    BY <1>1
  <2>2. \A o : ~ToDo(o)
    <3>1. Len(ui) = 0
      BY <1>2
    <3> QED BY <3>1 DEF ToDo
  <2> QED BY <1>4, <2>1, <2>2 DEF VoiceInv
<1> QED BY <1>3, <1>5, <1>6, <1>7 DEF MuteInv

(* When the call that switches voice input or output off has returned, no    *)
(* frame is on its way there any more: SetRouteEnabled waits until nobody    *)
(* reads the routes, and a frame on its way is under the read lock of the    *)
(* thread that brings it.                                                    *)
THEOREM MuteIsSilent == Spec => []MutedStaysSilent
<1>1. DestroyInv /\ MuteInv => MutedStaysSilent
  <2> SUFFICES ASSUME DestroyInv, MuteInv PROVE MutedStaysSilent
    OBVIOUS
  <2>1. ASSUME ui = <<>>
        PROVE  \A o : ~ToDo(o)
    <3>1. Len(ui) = 0
      BY <2>1
    <3> QED BY <3>1 DEF ToDo
  <2>2. ASSUME NEW t \in Carriers PROVE CarrierInv(t) /\ DOMAIN stack[t] = 1 .. Len(stack[t])
    BY <2>2 DEF MuteInv, CarryInv, CarrierInv
  <2>3. DOMAIN starting = 1 .. Len(starting) /\ starting \in Seq(StarterOps)
    BY DEF MuteInv, StarterInv, Program
  <2>4. ASSUME NEW i \in DOMAIN starting
        PROVE  \A arg : starting[i] # Op("deliver", arg) /\ starting[i] # Op("dispatch", arg)
    <3>1. starting[i] \in StarterOps
      BY <2>3
    <3>2. starting[i].op # "deliver" /\ starting[i].op # "dispatch"
      BY <3>1, StarterNames
    <3> QED BY <3>2 DEF Op
  <2>5. ASSUME ui = <<>>, ~voice["input"], NEW t \in Workers, NEW i \in DOMAIN stack[t]
        PROVE  /\ stack[t][i] # Op("deliver", To("capture", "in"))
               /\ stack[t][i] # Op("dispatch", "pass_out")
               /\ stack[t][i] # Op("deliver", To("vad", "in"))
    <3>1. CASE t = "starter"
      BY <2>4, <2>5, <3>1 DEF starting
    <3>2. CASE t \in Carriers
      <4>1. ~MicrophoneOn
        BY <2>1, <2>5 DEF MuteInv, VoiceInv
      <4>2. i \in 1 .. Len(stack[t]) /\ Free(stack[t], Heard)
        BY <2>2, <2>5, <3>2, <4>1 DEF CarrierInv
      <4> QED BY <4>2 DEF Free, Heard
    <3> QED BY <3>1, <3>2, ThreadNames DEF Carriers
  <2>6. ASSUME ui = <<>>, ~voice["output"], Ended("starter") \/ At("starter", "poll"),
               NEW t \in Workers, NEW i \in DOMAIN stack[t]
        PROVE  stack[t][i] # Op("deliver", To("tts", "text"))
    <3>1. CASE t = "starter"
      BY <2>4, <2>6, <3>1 DEF starting
    <3>2. CASE t \in Carriers
      <4>1. ~MutesLater
        <5>1. CASE Ended("starter")
          <6>1. starting = <<>>
            BY <5>1, ThreadNames DEF Ended, DestroyInv, starting
          <6>2. Len(starting) = 0
            BY <6>1
          <6> QED BY <6>2 DEF MutesLater
        <5>2. CASE At("starter", "poll")
          <6> SUFFICES ASSUME NEW j \in 1 .. Len(starting), starting[j] = Muting PROVE FALSE
            BY DEF MutesLater
          <6>1. starting # <<>> /\ Head(starting) \in StarterOps /\ Head(starting).op = "poll"
            BY <2>3, <5>2, HeadTailProperties DEF At, starting
          <6>2. starting[1] = Op("poll", "-")
            <7>1. Head(starting) = starting[1]
              BY <2>3, <6>1
            <7> QED BY <6>1, <7>1, StarterNames
          <6>3. 1 \in 1 .. j
            BY <2>3
          <6> QED BY <6>2, <6>3 DEF MuteInv, StarterInv, Program
        <5> QED BY <2>6, <5>1, <5>2
      <4>2. ~SpeakerOn
        BY <2>1, <2>6, <4>1 DEF MuteInv, VoiceInv
      <4>3. i \in 1 .. Len(stack[t]) /\ Free(stack[t], Spoken)
        BY <2>2, <2>6, <3>2, <4>2 DEF CarrierInv
      <4> QED BY <4>3 DEF Free, Spoken
    <3> QED BY <3>1, <3>2, ThreadNames DEF Carriers
  <2> QED BY <2>5, <2>6 DEF MutedStaysSilent, ui
<1> QED
  BY <1>1, DestroyInit, DestroyStep, MuteInit, MuteStep, PTL DEF Spec
=============================================================================
