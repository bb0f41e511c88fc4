----------------------------- MODULE AsyncProofs ----------------------------
(***************************************************************************)
(* Theorems about module AsyncClient, for any number of calls, sessions    *)
(* and messages.                                                           *)
(***************************************************************************)
EXTENDS AsyncClient, SequenceTheorems, TLAPS

USE DEF loopVars, workerVars, vars

-----------------------------------------------------------------------------
(* Types.                                                                  *)

(* Workers belong to sessions that were opened, a worker that handles a    *)
(* command has one, and a recv() that waits does so for an open session.   *)
WorkersBegun == \A s \in Sessions : worker[s] # "none" => s <= session
HandlesCommand == \A s \in Sessions : worker[s] = "handle" => command[s] \in Calls
WaitsOpen == \A i \in Calls : call[i].state = "get" => call[i].on \in Sessions

TypeInv == AsyncTypeOK /\ WorkersBegun /\ HandlesCommand /\ WaitsOpen

CallRecords == [kind: Lifecycle \cup {"none", "command", "recv"}, state: CallStates,
                on: 0 .. MaxSessions]

LEMMA InitTypeInv == Init => TypeInv
<1> SUFFICES ASSUME Init PROVE TypeInv
  OBVIOUS
<1>1. 0 \in 0 .. MaxSessions /\ 0 \in 0 .. MaxCalls /\ 0 \in 0 .. MaxMessages
  BY AsyncAssumption
<1>2. call \in [Calls -> CallRecords]
  BY <1>1 DEF Init, CallRecords, CallStates
<1>3. AsyncTypeOK
  <2>1. /\ future \in [Futures -> {"pending", "result", "error", "cancelled"}]
        /\ session \in 0 .. MaxSessions /\ thread \in {0, session}
        /\ closed \in BOOLEAN /\ worker_error \in BOOLEAN
    BY <1>1 DEF Init
  <2>2. /\ commands \in Seq(Calls) /\ callbacks \in Seq(Callbacks) /\ executed \in Seq(Calls)
        /\ queue \in [Sessions -> Seq(0 .. MaxMessages)]
        /\ got \in [Sessions -> Seq(1 .. MaxMessages)]
    BY DEF Init
  <2>3. /\ worker \in [Sessions -> WorkerStates]
        /\ command \in [Sessions -> 0 .. MaxCalls]
        /\ polled \in [Sessions -> 0 .. MaxMessages]
    BY <1>1 DEF Init, WorkerStates
  <2> QED
    BY <1>2, <2>1, <2>2, <2>3 DEF AsyncTypeOK, CallRecords
<1> QED
  BY <1>3 DEF Init, TypeInv, WorkersBegun, HandlesCommand, WaitsOpen

LEMMA EnterTypes ==
  ASSUME AsyncTypeOK, NEW i \in Calls, NEW kind \in Lifecycle \cup {"command", "recv"},
         NEW state \in CallStates, NEW s \in 0 .. MaxSessions, Enter(i, kind, state, s)
  PROVE  /\ call' \in [Calls -> CallRecords]
         /\ call'[i].kind = kind /\ call'[i].state = state /\ call'[i].on = s
         /\ \A j \in Calls : j # i => call'[j] = call[j]
BY DEF Enter, AsyncTypeOK, CallRecords

LEMMA LeaveTypes ==
  ASSUME AsyncTypeOK, NEW i \in Calls, NEW state \in CallStates, Leave(i, state)
  PROVE  /\ call' \in [Calls -> CallRecords]
         /\ call'[i].kind = call[i].kind /\ call'[i].state = state /\ call'[i].on = call[i].on
         /\ \A j \in Calls : j # i => call'[j] = call[j]
BY DEF Leave, AsyncTypeOK, CallRecords

(* What a step of worker s does to the worker states.                      *)
LEMMA StepTypes ==
  ASSUME AsyncTypeOK, NEW s \in Sessions, NEW from, NEW to \in WorkerStates, Step(s, from, to)
  PROVE  /\ worker' \in [Sessions -> WorkerStates]
         /\ worker[s] = from /\ worker'[s] = to
         /\ \A r \in Sessions : r # s => worker'[r] = worker[r]
BY DEF Step, AsyncTypeOK

(* A worker that runs belongs to a session, and what it posts is well      *)
(* formed.                                                                 *)
LEMMA CallbackTypes ==
  ASSUME AsyncTypeOK
  PROVE  /\ \A f \in Futures : \A v \in {"result", "error"} :
              _complete(f, v) => callbacks' \in Seq(Callbacks)
         /\ session # 0 => \A item \in 0 .. MaxMessages :
              Post(item) => callbacks' \in Seq(Callbacks)
         /\ session # 0 => session \in Sessions /\ Started(session) \in Futures
         /\ \A i \in Calls : Own(i) \in Futures
<1>1. session # 0 => session \in Sessions
  BY AsyncAssumption DEF AsyncTypeOK, Sessions
<1>2. \A f \in Futures : \A v \in {"result", "error"} :
        [run |-> "complete", future |-> f, value |-> v] \in Callbacks
  BY DEF Callbacks
<1>3. session # 0 => \A item \in 0 .. MaxMessages :
        [run |-> "put", to |-> session, item |-> item] \in Callbacks
  BY <1>1 DEF Callbacks
<1>4. callbacks \in Seq(Callbacks)
  BY DEF AsyncTypeOK
<1>5. \A b \in Callbacks : CallSoon(b) => callbacks' \in Seq(Callbacks)
  BY <1>4 DEF CallSoon
<1>6. (session # 0 => Started(session) \in Futures) /\ (\A i \in Calls : Own(i) \in Futures)
  BY <1>1 DEF Futures
<1> QED
  BY <1>1, <1>2, <1>3, <1>5, <1>6 DEF _complete, Post

LEMMA LoopKeepsTypes ==
  ASSUME TypeInv, NEW i \in Calls, API(i) \/ Continue(i) \/ Cancel(i)
  PROVE  TypeInv'
<1> USE DEF TypeInv
<1>a. session \in 0 .. MaxSessions /\ thread \in 0 .. MaxSessions /\ MaxSessions \in Nat
      /\ (thread # 0 => session = thread /\ session \in Sessions)
  BY AsyncAssumption DEF AsyncTypeOK, Sessions
<1>b. /\ {"connect", "close", "command", "recv"} \subseteq Lifecycle \cup {"command", "recv"}
      /\ {"await", "get", "join", "returned", "raised", "cancelled"} \subseteq CallStates
  BY DEF Lifecycle, CallStates
(* Only calls, thread and flags, and the queue of commands change.         *)
<1>c. ASSUME call' \in [Calls -> CallRecords],
             \A j \in Calls : j # i => call'[j] = call[j],
             call'[i].state = "get" => call'[i].on \in Sessions,
             thread' \in {0, session}, closed' \in BOOLEAN, worker_error' \in BOOLEAN,
             commands' \in Seq(Calls),
             future' \in [Futures -> {"pending", "result", "error", "cancelled"}],
             queue' \in [Sessions -> Seq(0 .. MaxMessages)],
             got' \in [Sessions -> Seq(1 .. MaxMessages)],
             UNCHANGED <<session, workerVars, callbacks>>
      PROVE  TypeInv'
  <2>1. AsyncTypeOK'
    BY <1>c DEF AsyncTypeOK, CallRecords
  <2>2. WorkersBegun' /\ HandlesCommand'
    BY <1>c DEF WorkersBegun, HandlesCommand
  <2>3. WaitsOpen'
    BY <1>c DEF WaitsOpen
  <2> QED
    BY <2>1, <2>2, <2>3
<1>d. ASSUME NEW s \in Sessions, Take(i, s)
      PROVE  /\ call' \in [Calls -> CallRecords]
             /\ \A j \in Calls : j # i => call'[j] = call[j]
             /\ call'[i].state \in {"raised", "returned"}
             /\ queue' \in [Sessions -> Seq(0 .. MaxMessages)]
             /\ got' \in [Sessions -> Seq(1 .. MaxMessages)]
  <2>1. s \in 0 .. MaxSessions
    BY <1>a DEF Sessions
  <2>2. /\ queue \in [Sessions -> Seq(0 .. MaxMessages)] /\ queue[s] # <<>>
        /\ got \in [Sessions -> Seq(1 .. MaxMessages)]
    BY <1>d DEF AsyncTypeOK, Take
  <2>3. Head(queue[s]) \in 0 .. MaxMessages /\ Tail(queue[s]) \in Seq(0 .. MaxMessages)
    BY <2>2, HeadTailProperties
  <2>4. Error \in 0 .. MaxMessages
    BY AsyncAssumption DEF Error
  <2>5. CASE Head(queue[s]) = Error
    <3>1. Enter(i, "recv", "raised", s) /\ UNCHANGED got
          /\ queue' = [queue EXCEPT ![s] = Append(Tail(queue[s]), Error)]
      BY <1>d, <2>5 DEF Take, AfterError, PutNowait
    <3>2. queue' \in [Sessions -> Seq(0 .. MaxMessages)]
      BY <2>2, <2>3, <2>4, <3>1
    <3> QED
      BY <1>b, <2>1, <2>2, <3>1, <3>2, EnterTypes
  <2>6. CASE Head(queue[s]) # Error
    <3>1. Enter(i, "recv", "returned", s) /\ queue' = [queue EXCEPT ![s] = Tail(@)]
          /\ got' = [got EXCEPT ![s] = Append(@, Head(queue[s]))]
      BY <1>d, <2>6 DEF Take
    <3>2. Head(queue[s]) \in 1 .. MaxMessages
      BY <2>3, <2>6, AsyncAssumption DEF Error
    <3>3. queue' \in [Sessions -> Seq(0 .. MaxMessages)] /\ got' \in [Sessions -> Seq(1 .. MaxMessages)]
      BY <2>2, <2>3, <3>1, <3>2
    <3>4. "recv" \in Lifecycle \cup {"command", "recv"} /\ "returned" \in CallStates
      BY <1>b
    <3>5. /\ call' \in [Calls -> CallRecords] /\ call'[i].state = "returned"
          /\ \A j \in Calls : j # i => call'[j] = call[j]
      BY <2>1, <3>1, <3>4, EnterTypes
    <3> QED
      BY <3>3, <3>5
  <2> QED
    BY <2>5, <2>6
<1>1. CASE connect(i)
  <2>1. CASE thread # 0
    <3>1. Enter(i, "connect", "await", session) /\ UNCHANGED <<session, thread, closed, worker_error, worker>>
          /\ UNCHANGED <<future, queue, got, command, polled, executed, commands, callbacks>>
      BY <1>1, <2>1 DEF connect
    <3>2. call' \in [Calls -> CallRecords] /\ call'[i].state = "await"
          /\ \A j \in Calls : j # i => call'[j] = call[j]
      BY <1>a, <1>b, <3>1, EnterTypes
    <3> QED
      BY <1>c, <3>1, <3>2 DEF AsyncTypeOK
  <2>2. CASE thread = 0
    <3>1. /\ session < MaxSessions /\ session' = session + 1 /\ thread' = session + 1
          /\ closed' = FALSE /\ worker_error' = FALSE
          /\ worker' = [worker EXCEPT ![session + 1] = "connect"]
          /\ Enter(i, "connect", "await", session + 1)
          /\ UNCHANGED <<future, queue, got, command, polled, executed, commands, callbacks>>
      BY <1>1, <2>2 DEF connect
    <3>2. session + 1 \in 0 .. MaxSessions /\ session + 1 \in Sessions
      BY <1>a, <3>1 DEF Sessions
    <3>3. call' \in [Calls -> CallRecords] /\ call'[i].state = "await"
          /\ \A j \in Calls : j # i => call'[j] = call[j]
      BY <1>b, <3>1, <3>2, EnterTypes
    <3>4. worker' \in [Sessions -> WorkerStates]
      BY <3>1 DEF AsyncTypeOK, WorkerStates
    <3>5. AsyncTypeOK'
      BY <3>1, <3>2, <3>3, <3>4 DEF AsyncTypeOK, CallRecords
    <3>6. WorkersBegun' /\ HandlesCommand'
      <4>1. \A s \in Sessions : worker'[s] = IF s = session + 1 THEN "connect" ELSE worker[s]
        BY <3>1 DEF AsyncTypeOK
      <4>2. WorkersBegun'
        BY <1>a, <3>1, <4>1 DEF WorkersBegun, Sessions
      <4>3. HandlesCommand'
        BY <3>1, <4>1 DEF HandlesCommand
      <4> QED
        BY <4>2, <4>3
    <3>7. WaitsOpen'
      BY <3>3 DEF WaitsOpen
    <3> QED
      BY <3>5, <3>6, <3>7
  <2> QED
    BY <2>1, <2>2
<1>2. CASE close(i)
  <2>1. PICK state \in CallStates : Enter(i, "close", state, thread) /\ state # "get"
    BY <1>2, <1>b DEF close
  <2>2. call' \in [Calls -> CallRecords] /\ call'[i].state # "get"
        /\ \A j \in Calls : j # i => call'[j] = call[j]
    BY <1>a, <1>b, <2>1, EnterTypes
  <2>3. /\ thread' \in {0, session} /\ closed' \in BOOLEAN /\ commands' \in Seq(Calls)
        /\ UNCHANGED <<future, session, worker_error, queue, got, workerVars, callbacks>>
    <3>1. commands \in Seq(Calls) /\ thread \in {0, session} /\ closed \in BOOLEAN
      BY DEF AsyncTypeOK
    <3>2. commands' = commands \/ commands' = Append(commands, i)
      BY <1>2 DEF close
    <3>3. commands' \in Seq(Calls)
      BY <3>1, <3>2
    <3>4. /\ (thread' = thread /\ closed' = closed) \/ (thread' = 0 /\ closed' = TRUE)
          /\ UNCHANGED <<future, session, worker_error, queue, got, workerVars, callbacks>>
      BY <1>2 DEF close
    <3> QED
      BY <3>1, <3>3, <3>4
  <2> QED
    BY <1>c, <2>2, <2>3 DEF AsyncTypeOK
<1>3. CASE _call(i)
  <2>1. Enter(i, "command", "await", session) \/ Enter(i, "command", "raised", session)
    BY <1>3 DEF _call
  <2>2. call' \in [Calls -> CallRecords] /\ call'[i].state # "get"
        /\ \A j \in Calls : j # i => call'[j] = call[j]
    <3>1. /\ "command" \in Lifecycle \cup {"command", "recv"}
          /\ "await" \in CallStates /\ "raised" \in CallStates
      BY <1>b
    <3>2. CASE Enter(i, "command", "await", session)
      BY <1>a, <3>1, <3>2, EnterTypes
    <3>3. CASE Enter(i, "command", "raised", session)
      BY <1>a, <3>1, <3>3, EnterTypes
    <3> QED
      BY <2>1, <3>2, <3>3
  <2>3. /\ commands' \in Seq(Calls)
        /\ UNCHANGED <<future, session, thread, closed, worker_error, queue, got, workerVars, callbacks>>
    <3>1. commands \in Seq(Calls)
      BY DEF AsyncTypeOK
    <3>2. commands' = commands \/ commands' = Append(commands, i)
      BY <1>3 DEF _call
    <3>3. commands' \in Seq(Calls)
      BY <3>1, <3>2
    <3> QED
      BY <1>3, <3>3 DEF _call
  <2> QED
    BY <1>c, <2>2, <2>3 DEF AsyncTypeOK
<1>4. CASE recv(i)
  <2>0. UNCHANGED <<future, session, thread, closed, worker_error, workerVars, commands, callbacks>>
    BY <1>4 DEF recv
  <2>1. CASE Running /\ Take(i, session)
    <3>1. session \in Sessions
      BY <1>a, <2>1 DEF Running
    <3> QED
      BY <1>c, <1>d, <2>0, <2>1, <3>1 DEF AsyncTypeOK
  <2>2. CASE Enter(i, "recv", "raised", session) /\ UNCHANGED <<queue, got>>
    <3>1. call' \in [Calls -> CallRecords] /\ call'[i].state = "raised"
          /\ \A j \in Calls : j # i => call'[j] = call[j]
      BY <1>a, <1>b, <2>2, EnterTypes
    <3> QED
      BY <1>c, <2>0, <2>2, <3>1 DEF AsyncTypeOK
  <2>3. CASE Running /\ Enter(i, "recv", "get", session) /\ UNCHANGED <<queue, got>>
    <3>1. call' \in [Calls -> CallRecords] /\ call'[i].on = session
          /\ \A j \in Calls : j # i => call'[j] = call[j]
      BY <1>a, <1>b, <2>3, EnterTypes
    <3>2. session \in Sessions
      BY <1>a, <2>3 DEF Running
    <3> QED
      BY <1>c, <2>0, <2>3, <3>1, <3>2 DEF AsyncTypeOK
  <2> QED
    BY <1>4, <2>1, <2>2, <2>3 DEF recv
<1>5. CASE RecvResumes(i)
  <2>1. call[i].on \in Sessions /\ Take(i, call[i].on)
        /\ UNCHANGED <<future, session, thread, closed, worker_error, workerVars, commands, callbacks>>
    BY <1>5 DEF RecvResumes, WaitsOpen
  <2> QED
    BY <1>c, <1>d, <2>1 DEF AsyncTypeOK
<1>6. CASE Resume(i)
  <2>1. PICK state \in CallStates : Leave(i, state) /\ state # "get"
    BY <1>6, <1>b DEF Resume
  <2>2. call' \in [Calls -> CallRecords] /\ call'[i].state # "get"
        /\ \A j \in Calls : j # i => call'[j] = call[j]
    BY <2>1, LeaveTypes
  <2> QED
    BY <1>6, <1>c, <2>2 DEF Resume, AsyncTypeOK
<1>7. CASE CloseJoined(i)
  <2>1. call' \in [Calls -> CallRecords] /\ call'[i].state = "returned"
        /\ \A j \in Calls : j # i => call'[j] = call[j]
    BY <1>7, <1>b, LeaveTypes DEF CloseJoined
  <2> QED
    BY <1>7, <1>c, <2>1 DEF CloseJoined, AsyncTypeOK
<1>8. CASE Cancel(i)
  <2>1. call' \in [Calls -> CallRecords] /\ call'[i].state = "cancelled"
        /\ \A j \in Calls : j # i => call'[j] = call[j]
    BY <1>8, <1>b, LeaveTypes DEF Cancel
  <2>2. future' \in [Futures -> {"pending", "result", "error", "cancelled"}]
    BY <1>8 DEF Cancel, AsyncTypeOK
  <2> QED
    BY <1>8, <1>c, <2>1, <2>2 DEF Cancel, AsyncTypeOK
<1> QED
  BY <1>1, <1>2, <1>3, <1>4, <1>5, <1>6, <1>7, <1>8 DEF API, Continue

LEMMA CallbackKeepsTypes ==
  ASSUME TypeInv, RunCallback
  PROVE  TypeInv'
<1> USE DEF TypeInv
<1>1. callbacks \in Seq(Callbacks) /\ callbacks # <<>>
  BY DEF AsyncTypeOK, RunCallback, RunComplete, RunPut
<1>2. Head(callbacks) \in Callbacks /\ Tail(callbacks) \in Seq(Callbacks)
  BY <1>1, HeadTailProperties
<1>3. CASE RunComplete
  <2>1. Head(callbacks).value \in {"result", "error"}
    BY <1>2, <1>3 DEF RunComplete, Callbacks
  <2>2. future' \in [Futures -> {"pending", "result", "error", "cancelled"}]
    BY <1>3, <2>1 DEF RunComplete, AsyncTypeOK
  <2>3. AsyncTypeOK'
    BY <1>2, <1>3, <2>2 DEF RunComplete, AsyncTypeOK
  <2> QED
    BY <1>3, <2>3 DEF RunComplete, WorkersBegun, HandlesCommand, WaitsOpen
<1>4. CASE RunPut
  <2>1. Head(callbacks).item \in 0 .. MaxMessages /\ Head(callbacks).to \in Sessions
    BY <1>2, <1>4 DEF RunPut, Callbacks
  <2>2. queue' \in [Sessions -> Seq(0 .. MaxMessages)]
    BY <1>4, <2>1 DEF RunPut, PutNowait, AsyncTypeOK
  <2>3. AsyncTypeOK'
    BY <1>2, <1>4, <2>2 DEF RunPut, AsyncTypeOK
  <2> QED
    BY <1>4, <2>3 DEF RunPut, WorkersBegun, HandlesCommand, WaitsOpen
<1> QED
  BY <1>3, <1>4 DEF RunCallback

LEMMA WorkerKeepsTypes ==
  ASSUME TypeInv, NEW s \in Sessions, _run(s)
  PROVE  TypeInv'
<1> USE DEF TypeInv
<1>1. worker[s] # "none" /\ UNCHANGED loopVars
  BY DEF _run, NativeConnects, NativeRaises, _next_command, NoCommand, _handle_command,
         PollMessage, PollNothing, _fail_started, _publish_worker_error, _fail_pending,
         ThreadEnds, Step
<1>2. session # 0 /\ session \in Sessions /\ Started(session) \in Futures
  <2>1. s <= session /\ s \in Nat /\ s # 0
    BY <1>1 DEF WorkersBegun, Sessions
  <2>2. session # 0
    BY <2>1
  <2> QED
    BY <2>2, CallbackTypes
<1>3. commands \in Seq(Calls) /\ (commands # <<>> => Head(commands) \in Calls /\ Tail(commands) \in Seq(Calls))
  BY HeadTailProperties DEF AsyncTypeOK
<1>4. ASSUME worker' \in [Sessions -> WorkerStates], \A r \in Sessions : r # s => worker'[r] = worker[r],
             command' \in [Sessions -> 0 .. MaxCalls], \A r \in Sessions : r # s => command'[r] = command[r],
             worker'[s] = "handle" => command'[s] \in Calls,
             commands' \in Seq(Calls), callbacks' \in Seq(Callbacks), executed' \in Seq(Calls),
             polled' \in [Sessions -> 0 .. MaxMessages]
      PROVE  TypeInv'
  <2>1. AsyncTypeOK'
    BY <1>1, <1>4 DEF AsyncTypeOK
  <2>2. WorkersBegun'
    BY <1>1, <1>4 DEF WorkersBegun
  <2>3. HandlesCommand'
    BY <1>4 DEF HandlesCommand
  <2>4. WaitsOpen'
    BY <1>1 DEF WaitsOpen
  <2> QED
    BY <2>1, <2>2, <2>3, <2>4
<1>s. {"connect", "next", "handle", "poll", "fail_started", "publish_error", "fail_pending",
       "exit", "dead"} \subseteq WorkerStates
  BY DEF WorkerStates
<1>5. CASE NativeConnects(s)
  <2>1. callbacks' \in Seq(Callbacks)
    BY <1>2, <1>5, CallbackTypes DEF NativeConnects
  <2> QED
    BY <1>4, <1>5, <1>s, <2>1, StepTypes DEF NativeConnects, AsyncTypeOK
<1>6. CASE NativeRaises(s)
  BY <1>4, <1>6, <1>s, StepTypes DEF NativeRaises, AsyncTypeOK
<1>7. CASE _next_command(s)
  <2>1. Own(Head(commands)) \in Futures /\ Head(commands) \in Calls /\ commands' \in Seq(Calls)
    BY <1>3, <1>7, CallbackTypes DEF _next_command, AfterGet
  <2>2. CASE call[Head(commands)].kind = "close"
    <3>1. callbacks' \in Seq(Callbacks)
      BY <1>7, <2>1, <2>2, CallbackTypes DEF _next_command
    <3> QED
      BY <1>4, <1>7, <1>s, <2>1, <2>2, <3>1, StepTypes DEF _next_command, AsyncTypeOK
  <2>3. CASE call[Head(commands)].kind # "close"
    <3>1. Step(s, "next", "handle") /\ command' = [command EXCEPT ![s] = Head(commands)]
          /\ UNCHANGED <<callbacks, polled, executed>>
      BY <1>7, <2>3 DEF _next_command
    <3>2. command' \in [Sessions -> 0 .. MaxCalls] /\ command'[s] = Head(commands)
          /\ \A r \in Sessions : r # s => command'[r] = command[r]
      <4>1. Head(commands) \in 0 .. MaxCalls
        BY <2>1, AsyncAssumption DEF Calls
      <4>2. command \in [Sessions -> 0 .. MaxCalls]
        BY DEF AsyncTypeOK
      <4> QED
        BY <3>1, <4>1, <4>2
    <3> QED
      BY <1>4, <1>s, <2>1, <3>1, <3>2, StepTypes DEF AsyncTypeOK
  <2> QED
    BY <2>2, <2>3
<1>8. CASE NoCommand(s)
  BY <1>4, <1>8, <1>s, StepTypes DEF NoCommand, AsyncTypeOK
<1>9. CASE _handle_command(s)
  <2>1. command[s] \in Calls /\ Own(command[s]) \in Futures
    BY <1>9, CallbackTypes DEF _handle_command, Step, HandlesCommand
  <2>2. callbacks' \in Seq(Callbacks) /\ executed' \in Seq(Calls)
    <3>1. callbacks' \in Seq(Callbacks)
      BY <1>9, <2>1, CallbackTypes DEF _handle_command
    <3>2. executed' = Append(executed, command[s]) /\ executed \in Seq(Calls)
      BY <1>9 DEF _handle_command, AsyncTypeOK
    <3> QED
      BY <2>1, <3>1, <3>2
  <2> QED
    BY <1>4, <1>9, <1>s, <2>2, StepTypes DEF _handle_command, AsyncTypeOK
<1>10. CASE PollMessage(s)
  <2>1. polled[s] \in 0 .. MaxMessages /\ polled[s] < MaxMessages
    BY <1>10 DEF PollMessage, AsyncTypeOK
  <2>2. polled[s] + 1 \in 0 .. MaxMessages
    BY <2>1, AsyncAssumption
  <2>3. callbacks' \in Seq(Callbacks)
    BY <1>2, <1>10, <2>2, CallbackTypes DEF PollMessage
  <2>4. polled' \in [Sessions -> 0 .. MaxMessages]
    BY <1>10, <2>2 DEF PollMessage, AsyncTypeOK
  <2> QED
    BY <1>4, <1>10, <2>3, <2>4 DEF PollMessage, AsyncTypeOK
<1>11. CASE PollNothing(s)
  BY <1>4, <1>11, <1>s, StepTypes DEF PollNothing, AsyncTypeOK
<1>12. CASE _fail_started(s)
  <2>1. callbacks' \in Seq(Callbacks)
    BY <1>2, <1>12, CallbackTypes DEF _fail_started
  <2> QED
    BY <1>4, <1>12, <1>s, <2>1, StepTypes DEF _fail_started, AsyncTypeOK
<1>13. CASE _publish_worker_error(s)
  <2>1. Error \in 0 .. MaxMessages
    BY AsyncAssumption DEF Error
  <2>2. callbacks' \in Seq(Callbacks)
    BY <1>2, <1>13, <2>1, CallbackTypes DEF _publish_worker_error
  <2> QED
    BY <1>4, <1>13, <1>s, <2>2, StepTypes DEF _publish_worker_error, AsyncTypeOK
<1>14. CASE _fail_pending(s)
  <2>1. CASE commands # <<>>
    <3>1. Own(Head(commands)) \in Futures /\ commands' \in Seq(Calls)
      BY <1>3, <1>14, <2>1, CallbackTypes DEF _fail_pending
    <3>2. callbacks' \in Seq(Callbacks) /\ UNCHANGED worker
      BY <1>14, <2>1, <3>1, CallbackTypes DEF _fail_pending
    <3> QED
      BY <1>4, <1>14, <3>1, <3>2 DEF _fail_pending, AsyncTypeOK
  <2>2. CASE commands = <<>>
    BY <1>4, <1>14, <1>s, <2>2, StepTypes DEF _fail_pending, AsyncTypeOK
  <2> QED
    BY <2>1, <2>2
<1>15. CASE ThreadEnds(s)
  BY <1>4, <1>15, <1>s, StepTypes DEF ThreadEnds, AsyncTypeOK
<1> QED
  BY <1>5, <1>6, <1>7, <1>8, <1>9, <1>10, <1>11, <1>12, <1>13, <1>14, <1>15 DEF _run

LEMMA TypeInvariant == Spec => []TypeInv
<1>1. Init => TypeInv
  BY InitTypeInv
<1>2. TypeInv /\ [Next]_vars => TypeInv'
  <2> SUFFICES ASSUME TypeInv, [Next]_vars PROVE TypeInv'
    OBVIOUS
  <2>1. CASE UNCHANGED vars
    BY <2>1 DEF TypeInv, AsyncTypeOK, WorkersBegun, HandlesCommand, WaitsOpen
  <2> QED
    BY <2>1, LoopKeepsTypes, CallbackKeepsTypes, WorkerKeepsTypes DEF Next
<1> QED
  BY <1>1, <1>2, PTL DEF Spec

(* Types of the futures, calls, queues and workers: the loop and the       *)
(* worker never pass each other anything but what they expect, whatever    *)
(* overlaps and whatever is cancelled.                                     *)
THEOREM AsyncTypeCorrect == Spec => []AsyncTypeOK
<1>1. TypeInv => AsyncTypeOK
  BY DEF TypeInv
<1> QED
  BY <1>1, TypeInvariant, PTL

-----------------------------------------------------------------------------
(* One worker, if connect() and close() are kept apart.                    *)

Kinds == \A i \in Calls : /\ call[i].state = "join" => call[i].kind = "close"
                          /\ call[i].state = "get" => call[i].kind = "recv"

(* A connect() or close() in progress is the only call in progress, and a  *)
(* close() waits for the worker on record.                                 *)
Exclusive ==
  \A i, j \in Calls : InProgress(i) /\ InProgress(j) /\ call[i].kind \in Lifecycle => i = j
ClosesThread ==
  \A i \in Calls : InProgress(i) /\ call[i].kind = "close" => call[i].on = thread

Discipline == Kinds /\ Exclusive /\ ClosesThread /\ NoOrphan

LEMMA LoopKeepsDiscipline ==
  ASSUME TypeInv, Discipline, Disciplined, NEW i \in Calls, API(i) \/ Continue(i) \/ Cancel(i)
  PROVE  Discipline'
<1> USE DEF InProgress
<1>t. AsyncTypeOK /\ session \in 0 .. MaxSessions /\ thread \in 0 .. MaxSessions
  BY AsyncAssumption DEF TypeInv, AsyncTypeOK
<1>b. /\ {"connect", "close", "command", "recv"} \subseteq Lifecycle \cup {"command", "recv"}
      /\ {"await", "get", "join", "returned", "raised", "cancelled"} \subseteq CallStates
      /\ Lifecycle = {"connect", "close"}
  BY DEF Lifecycle, CallStates
(* The call ends.                                                          *)
<1>1. ASSUME call'[i].state \in {"returned", "raised", "cancelled"},
             \A j \in Calls : j # i => call'[j] = call[j], UNCHANGED <<thread, worker>>
      PROVE  Discipline'
  BY <1>1 DEF Discipline, Kinds, Exclusive, ClosesThread, NoOrphan, Alive
(* A call begins that is neither connect() nor close().                    *)
<1>2. ASSUME MayCall(i, call'[i].kind), call'[i].kind \in {"command", "recv"},
             call'[i].state = "await" \/ (call'[i].state = "get" /\ call'[i].kind = "recv"),
             \A j \in Calls : j # i => call'[j] = call[j], UNCHANGED <<thread, worker>>
      PROVE  Discipline'
  BY <1>2, <1>b DEF Discipline, Kinds, Exclusive, ClosesThread, NoOrphan, Alive, MayCall
<1>3. CASE connect(i)
  <2>1. \A j \in Calls : ~InProgress(j)
    BY <1>3, <1>b DEF connect, MayCall
  <2>2. CASE thread # 0
    <3>1. Enter(i, "connect", "await", session) /\ UNCHANGED <<thread, worker>>
      BY <1>3, <2>2 DEF connect
    <3>2. call'[i].kind = "connect" /\ call'[i].state = "await"
          /\ \A j \in Calls : j # i => call'[j] = call[j]
      BY <1>t, <1>b, <3>1, EnterTypes
    <3> QED
      BY <2>1, <3>1, <3>2 DEF Discipline, Kinds, Exclusive, ClosesThread, NoOrphan, Alive
  <2>3. CASE thread = 0
    <3>1. /\ session < MaxSessions /\ session' = session + 1 /\ thread' = session + 1
          /\ worker' = [worker EXCEPT ![session + 1] = "connect"]
          /\ Enter(i, "connect", "await", session + 1)
      BY <1>3, <2>3 DEF connect
    <3>2. session + 1 \in 0 .. MaxSessions
      BY <1>t, <3>1, AsyncAssumption
    <3>3. call'[i].kind = "connect" /\ call'[i].state = "await"
          /\ \A j \in Calls : j # i => call'[j] = call[j]
      BY <1>t, <1>b, <3>1, <3>2, EnterTypes
    <3>4. \A s \in Sessions : ~Alive(s)
      BY <2>3 DEF Discipline, NoOrphan, Sessions
    <3>5. NoOrphan'
      <4>1. \A s \in Sessions : s # session + 1 => worker'[s] = worker[s]
        BY <1>t, <3>1 DEF AsyncTypeOK
      <4> QED
        BY <3>1, <3>4, <4>1 DEF NoOrphan, Alive
    <3> QED
      BY <2>1, <3>1, <3>3, <3>5 DEF Discipline, Kinds, Exclusive, ClosesThread
  <2> QED
    BY <2>2, <2>3
<1>4. CASE close(i)
  <2>1. \A j \in Calls : ~InProgress(j)
    BY <1>4, <1>b DEF close, MayCall
  <2>2. CASE Alive(thread)
    <3>1. Enter(i, "close", "await", thread) /\ UNCHANGED <<thread, worker>>
      BY <1>4, <2>2 DEF close
    <3>2. call'[i].kind = "close" /\ call'[i].state = "await" /\ call'[i].on = thread
          /\ \A j \in Calls : j # i => call'[j] = call[j]
      BY <1>t, <1>b, <3>1, EnterTypes
    <3> QED
      BY <2>1, <3>1, <3>2 DEF Discipline, Kinds, Exclusive, ClosesThread, NoOrphan, Alive
  <2>3. CASE ~Alive(thread)
    <3>1. Enter(i, "close", "returned", thread) /\ thread' = 0 /\ UNCHANGED worker
      BY <1>4, <2>3 DEF close
    <3>2. call'[i].kind = "close" /\ call'[i].state = "returned"
          /\ \A j \in Calls : j # i => call'[j] = call[j]
      BY <1>t, <1>b, <3>1, EnterTypes
    <3>3. \A s \in Sessions : ~Alive(s)
      BY <2>3 DEF Discipline, NoOrphan
    <3> QED
      BY <2>1, <3>1, <3>2, <3>3 DEF Discipline, Kinds, Exclusive, ClosesThread, NoOrphan, Alive
  <2> QED
    BY <2>2, <2>3
<1>5. CASE _call(i)
  <2>1. Enter(i, "command", "await", session) \/ Enter(i, "command", "raised", session)
    BY <1>5 DEF _call
  <2>2. call'[i].kind = "command" /\ call'[i].state \in {"await", "raised"}
        /\ \A j \in Calls : j # i => call'[j] = call[j]
    BY <1>t, <1>b, <2>1, EnterTypes
  <2>3. MayCall(i, "command") /\ UNCHANGED <<thread, worker>>
    BY <1>5 DEF _call
  <2> QED
    BY <1>1, <1>2, <2>2, <2>3
<1>6. ASSUME NEW s \in 0 .. MaxSessions, Take(i, s)
      PROVE  /\ call'[i].state \in {"raised", "returned"}
             /\ \A j \in Calls : j # i => call'[j] = call[j]
  <2>1. Enter(i, "recv", "raised", s) \/ Enter(i, "recv", "returned", s)
    BY <1>6 DEF Take
  <2> QED
    BY <1>t, <1>b, <2>1, EnterTypes
<1>7. CASE recv(i)
  <2>1. MayCall(i, "recv") /\ UNCHANGED <<thread, worker>>
    BY <1>7 DEF recv
  <2>2. CASE Take(i, session)
    BY <1>1, <1>6, <1>t, <2>1, <2>2
  <2>3. CASE Enter(i, "recv", "raised", session) \/ Enter(i, "recv", "get", session)
    <3>1. call'[i].kind = "recv" /\ call'[i].state \in {"raised", "get"}
          /\ \A j \in Calls : j # i => call'[j] = call[j]
      BY <1>t, <1>b, <2>3, EnterTypes
    <3> QED
      BY <1>1, <1>2, <2>1, <3>1
  <2> QED
    BY <1>7, <2>2, <2>3 DEF recv
<1>8. CASE RecvResumes(i)
  <2>1. call[i].on \in 0 .. MaxSessions
    BY <1>t DEF AsyncTypeOK
  <2> QED
    BY <1>1, <1>6, <1>8, <2>1 DEF RecvResumes
<1>9. CASE Resume(i)
  <2>1. /\ call[i].state = "await" /\ UNCHANGED <<thread, worker>>
        /\ \/ Leave(i, "raised") \/ Leave(i, "returned")
           \/ Leave(i, "join") /\ call[i].kind = "close"
    BY <1>9 DEF Resume
  <2>2. CASE Leave(i, "raised") \/ Leave(i, "returned")
    BY <1>1, <1>t, <1>b, <2>1, <2>2, LeaveTypes
  <2>3. CASE Leave(i, "join") /\ call[i].kind = "close"
    <3>1. call'[i].kind = "close" /\ call'[i].state = "join" /\ call'[i].on = call[i].on
          /\ \A j \in Calls : j # i => call'[j] = call[j]
      BY <1>t, <1>b, <2>3, LeaveTypes
    <3> QED
      BY <2>1, <2>3, <3>1 DEF Discipline, Kinds, Exclusive, ClosesThread, NoOrphan, Alive
  <2> QED
    BY <2>1, <2>2, <2>3
<1>10. CASE CloseJoined(i)
  <2>1. /\ call[i].state = "join" /\ worker[call[i].on] = "dead" /\ thread' = 0
        /\ Leave(i, "returned") /\ UNCHANGED worker
    BY <1>10 DEF CloseJoined, Joined
  <2>2. call'[i].state = "returned" /\ \A j \in Calls : j # i => call'[j] = call[j]
    BY <1>t, <1>b, <2>1, LeaveTypes
  <2>3. call[i].kind = "close" /\ call[i].on = thread
    BY <2>1 DEF Discipline, Kinds, ClosesThread
  <2>4. \A s \in Sessions : ~Alive(s)
    BY <2>1, <2>3 DEF Discipline, NoOrphan, Alive
  <2>5. \A j \in Calls : j # i => ~InProgress(j)
    BY <2>1, <2>3, <1>b DEF Discipline, Exclusive
  <2> QED
    BY <2>1, <2>2, <2>4, <2>5 DEF Discipline, Kinds, Exclusive, ClosesThread, NoOrphan, Alive
<1>11. CASE Cancel(i)
  BY <1>1, <1>11, <1>t, <1>b, LeaveTypes DEF Cancel
<1> QED
  BY <1>3, <1>4, <1>5, <1>7, <1>8, <1>9, <1>10, <1>11 DEF API, Continue

(* A worker never comes to life by itself.                                 *)
LEMMA WorkerStaysOnRecord ==
  ASSUME TypeInv, NEW s \in Sessions, _run(s)
  PROVE  /\ UNCHANGED loopVars /\ Alive(s)
         /\ \A r \in Sessions : r # s => worker'[r] = worker[r]
<1>1. /\ UNCHANGED loopVars /\ worker[s] \notin {"none", "dead"}
      /\ worker' = worker \/ \E to \in WorkerStates : worker' = [worker EXCEPT ![s] = to]
  BY DEF _run, NativeConnects, NativeRaises, _next_command, NoCommand, _handle_command,
         PollMessage, PollNothing, _fail_started, _publish_worker_error, _fail_pending,
         ThreadEnds, Step, WorkerStates
<1> QED
  BY <1>1 DEF Alive, TypeInv, AsyncTypeOK

LEMMA StepKeepsDiscipline ==
  ASSUME TypeInv, Discipline, Disciplined, [Next]_vars
  PROVE  Discipline'
<1>1. ASSUME UNCHANGED <<call, thread>>,
             \A s \in Sessions : worker'[s] = worker[s] \/ Alive(s)
      PROVE  Discipline'
  BY <1>1 DEF Discipline, Kinds, Exclusive, ClosesThread, NoOrphan, Alive, InProgress
<1>2. CASE RunCallback
  BY <1>1, <1>2 DEF RunCallback, RunComplete, RunPut
<1>3. ASSUME NEW s \in Sessions, _run(s) PROVE Discipline'
  BY <1>1, <1>3, WorkerStaysOnRecord
<1>4. CASE UNCHANGED vars
  BY <1>1, <1>4
<1> QED
  BY <1>2, <1>3, <1>4, LoopKeepsDiscipline DEF Next

(* With discipline, the worker that is alive is the one on record, of the  *)
(* latest session.                                                         *)
LEMMA LatestSession ==
  ASSUME TypeInv, Discipline, NEW s \in Sessions, Alive(s)
  PROVE  s = session /\ \A r \in Sessions : Alive(r) => r = s
<1>1. thread = s /\ thread \in {0, session} /\ s # 0
  BY DEF Discipline, NoOrphan, TypeInv, AsyncTypeOK, Sessions
<1>2. \A r \in Sessions : Alive(r) => r = thread
  BY DEF Discipline, NoOrphan
<1> QED
  BY <1>1, <1>2

-----------------------------------------------------------------------------
(* Commands.                                                               *)

(* What a step of call i does to calls, commands and futures.              *)
LoopEffect(i) ==
  /\ \A j \in Calls : j # i => call'[j] = call[j]
  /\ call'[i].state # "unused"
  /\ call[i].state # "unused" => call'[i].kind = call[i].kind
  /\ call[i].state = "unused" => \A j \in 1 .. i - 1 : call[j].state # "unused"
  /\ \/ commands' = commands
     \/ /\ call[i].state = "unused" /\ call'[i].state = "await"
        /\ commands' = Append(commands, i)
  /\ \A s \in Sessions : worker'[s] = "handle" => worker[s] = "handle"
  /\ UNCHANGED <<command, executed, callbacks>>
  /\ \A j \in Calls : future'[Own(j)] = future[Own(j)]
       \/ (j = i /\ call[i].state # "unused" /\ future'[Own(j)] = "cancelled")
  /\ call'[i].kind = "command" /\ call'[i].state = "returned" => future[Own(i)] = "result"
  /\ call'[i].kind = "command" /\ call'[i].state = "raised" =>
       \/ future[Own(i)] # "pending" /\ call[i].state # "unused"
       \/ call[i].state = "unused" /\ commands' = commands

LEMMA LoopHasEffect ==
  ASSUME TypeInv, Discipline, NEW i \in Calls, API(i) \/ Continue(i) \/ Cancel(i)
  PROVE  LoopEffect(i)
<1>t. AsyncTypeOK /\ session \in 0 .. MaxSessions /\ thread \in 0 .. MaxSessions
  BY AsyncAssumption DEF TypeInv, AsyncTypeOK
<1>b. /\ {"connect", "close", "command", "recv"} \subseteq Lifecycle \cup {"command", "recv"}
      /\ {"await", "get", "join", "returned", "raised", "cancelled"} \subseteq CallStates
  BY DEF Lifecycle, CallStates
<1>1. CASE connect(i)
  <2>1. /\ MayCall(i, "connect") /\ UNCHANGED <<future, command, executed, commands, callbacks>>
    BY <1>1 DEF connect
  <2>2. PICK r \in 0 .. MaxSessions : Enter(i, "connect", "await", r)
    BY <1>1, <1>t, AsyncAssumption DEF connect
  <2>3. call'[i].kind = "connect" /\ call'[i].state = "await"
        /\ \A j \in Calls : j # i => call'[j] = call[j]
    BY <1>t, <1>b, <2>2, EnterTypes
  <2>4. \A s \in Sessions : worker'[s] = "handle" => worker[s] = "handle"
    BY <1>1, <1>t DEF connect, AsyncTypeOK
  <2> QED
    BY <2>1, <2>3, <2>4 DEF LoopEffect, MayCall
<1>2. CASE close(i)
  <2>1. MayCall(i, "close") /\ UNCHANGED <<future, worker, command, executed, callbacks>>
    BY <1>2 DEF close
  <2>2. \/ Enter(i, "close", "await", thread) /\ commands' = Append(commands, i)
        \/ Enter(i, "close", "returned", thread) /\ commands' = commands
    BY <1>2 DEF close
  <2>3. /\ call'[i].kind = "close" /\ call'[i].state \in {"await", "returned"}
        /\ call'[i].state = "returned" => commands' = commands
        /\ call'[i].state = "await" => commands' = Append(commands, i)
        /\ \A j \in Calls : j # i => call'[j] = call[j]
    BY <1>t, <1>b, <2>2, EnterTypes
  <2> QED
    BY <2>1, <2>3 DEF LoopEffect, MayCall
<1>3. CASE _call(i)
  <2>1. MayCall(i, "command") /\ UNCHANGED <<future, worker, command, executed, callbacks>>
    BY <1>3 DEF _call
  <2>2. \/ Enter(i, "command", "await", session) /\ commands' = Append(commands, i)
        \/ Enter(i, "command", "raised", session) /\ commands' = commands
    BY <1>3 DEF _call
  <2>3. /\ call'[i].kind = "command" /\ call'[i].state \in {"await", "raised"}
        /\ call'[i].state = "raised" => commands' = commands
        /\ call'[i].state = "await" => commands' = Append(commands, i)
        /\ \A j \in Calls : j # i => call'[j] = call[j]
    <3>1. /\ "command" \in Lifecycle \cup {"command", "recv"}
          /\ "await" \in CallStates /\ "raised" \in CallStates
      BY <1>b
    <3>2. CASE Enter(i, "command", "await", session) /\ commands' = Append(commands, i)
      <4>1. /\ call'[i].kind = "command" /\ call'[i].state = "await"
            /\ \A j \in Calls : j # i => call'[j] = call[j]
        BY <1>t, <3>1, <3>2, EnterTypes
      <4> QED
        BY <3>2, <4>1
    <3>3. CASE Enter(i, "command", "raised", session) /\ commands' = commands
      <4>1. /\ call'[i].kind = "command" /\ call'[i].state = "raised"
            /\ \A j \in Calls : j # i => call'[j] = call[j]
        BY <1>t, <3>1, <3>3, EnterTypes
      <4> QED
        BY <3>3, <4>1
    <3> QED
      BY <2>2, <3>2, <3>3
  <2> QED
    BY <2>1, <2>3 DEF LoopEffect, MayCall
<1>4. ASSUME NEW s \in 0 .. MaxSessions, Take(i, s)
      PROVE  /\ call'[i].kind = "recv" /\ call'[i].state \in {"raised", "returned"}
             /\ \A j \in Calls : j # i => call'[j] = call[j]
  <2>1. Enter(i, "recv", "raised", s) \/ Enter(i, "recv", "returned", s)
    BY <1>4 DEF Take
  <2> QED
    BY <1>t, <1>b, <2>1, EnterTypes
<1>5. CASE recv(i)
  <2>1. MayCall(i, "recv") /\ UNCHANGED <<future, worker, command, executed, commands, callbacks>>
    BY <1>5 DEF recv
  <2>2. /\ call'[i].kind = "recv" /\ call'[i].state \in {"raised", "returned", "get"}
        /\ \A j \in Calls : j # i => call'[j] = call[j]
    <3>1. CASE Take(i, session)
      BY <1>4, <1>t, <3>1
    <3>2. CASE Enter(i, "recv", "raised", session) \/ Enter(i, "recv", "get", session)
      BY <1>t, <1>b, <3>2, EnterTypes
    <3> QED
      BY <1>5, <3>1, <3>2 DEF recv
  <2> QED
    BY <2>1, <2>2 DEF LoopEffect, MayCall
<1>6. CASE RecvResumes(i)
  <2>1. call[i].on \in 0 .. MaxSessions /\ call[i].kind = "recv" /\ call[i].state = "get"
    BY <1>6, <1>t DEF AsyncTypeOK, RecvResumes, Discipline, Kinds
  <2>2. Take(i, call[i].on) /\ UNCHANGED <<future, worker, command, executed, commands, callbacks>>
    BY <1>6 DEF RecvResumes
  <2> QED
    BY <1>4, <2>1, <2>2 DEF LoopEffect
<1>7. CASE Resume(i)
  <2>1. /\ call[i].state = "await" /\ future[Awaited(i)] # "pending"
        /\ UNCHANGED <<future, worker, command, executed, commands, callbacks>>
        /\ \/ Leave(i, "raised") \/ Leave(i, "join")
           \/ Leave(i, "returned") /\ future[Awaited(i)] = "result"
    BY <1>7 DEF Resume
  <2>2. /\ call'[i].kind = call[i].kind /\ call'[i].state \in {"raised", "join", "returned"}
        /\ call'[i].state = "returned" => future[Awaited(i)] = "result"
        /\ \A j \in Calls : j # i => call'[j] = call[j]
    BY <1>t, <1>b, <2>1, LeaveTypes
  <2>3. call[i].kind = "command" => Awaited(i) = Own(i)
    BY DEF Awaited
  <2> QED
    BY <2>1, <2>2, <2>3 DEF LoopEffect
<1>8. CASE CloseJoined(i)
  <2>1. /\ call[i].state = "join" /\ Leave(i, "returned")
        /\ UNCHANGED <<future, worker, command, executed, commands, callbacks>>
    BY <1>8 DEF CloseJoined
  <2>2. call[i].kind = "close"
    BY <2>1 DEF Discipline, Kinds
  <2>3. /\ call'[i].kind = call[i].kind /\ call'[i].state = "returned"
        /\ \A j \in Calls : j # i => call'[j] = call[j]
    BY <1>t, <1>b, <2>1, LeaveTypes
  <2> QED
    BY <2>1, <2>2, <2>3 DEF LoopEffect
<1>9. CASE Cancel(i)
  <2>1. /\ InProgress(i) /\ Leave(i, "cancelled")
        /\ UNCHANGED <<worker, command, executed, commands, callbacks>>
    BY <1>9 DEF Cancel
  <2>2. /\ call'[i].kind = call[i].kind /\ call'[i].state = "cancelled"
        /\ \A j \in Calls : j # i => call'[j] = call[j]
    BY <1>t, <1>b, <2>1, LeaveTypes
  <2>3. \A j \in Calls : Own(j) = Awaited(i) => j = i
    BY DEF Awaited, Own, Started
  <2>4. \A j \in Calls : future'[Own(j)] = future[Own(j)] \/ (j = i /\ future'[Own(j)] = "cancelled")
    <3>1. future \in [Futures -> {"pending", "result", "error", "cancelled"}]
      BY <1>t DEF AsyncTypeOK
    <3>2. \A j \in Calls : Own(j) \in Futures
      BY DEF Futures
    <3>3. future' = [future EXCEPT ![Awaited(i)] = IF @ = "pending" THEN "cancelled" ELSE @]
      BY <1>9 DEF Cancel
    <3> QED
      BY <2>3, <3>1, <3>2, <3>3
  <2> QED
    BY <2>1, <2>2, <2>4 DEF LoopEffect, InProgress
<1> QED
  BY <1>1, <1>2, <1>3, <1>5, <1>6, <1>7, <1>8, <1>9 DEF API, Continue

(* Calls are made in order of their numbers; commands are of calls made.   *)
Used(i) == call[i].state # "unused"
Handling(s) == worker[s] = "handle"
CallsInTurn == \A i, j \in Calls : j < i /\ Used(i) => Used(j)
CommandsUsed ==
  /\ \A n \in DOMAIN commands : Used(commands[n])
  /\ \A n \in DOMAIN executed : Used(executed[n])
  /\ \A s \in Sessions : Handling(s) => Used(command[s])
(* Executed commands, the one being handled and those in the queue are in  *)
(* the order of the calls.                                                 *)
CommandsOrdered ==
  /\ \A m, n \in DOMAIN executed : m < n => executed[m] < executed[n]
  /\ \A m, n \in DOMAIN commands : m < n => commands[m] < commands[n]
  /\ \A m \in DOMAIN executed : \A n \in DOMAIN commands : executed[m] < commands[n]
  /\ \A s \in Sessions : Handling(s) =>
       /\ \A m \in DOMAIN executed : executed[m] < command[s]
       /\ \A n \in DOMAIN commands : command[s] < commands[n]

(* A future is answered only for a call made, with a result only if the    *)
(* command was executed; a command refused is nowhere.                     *)
Executed(i) == \E n \in DOMAIN executed : executed[n] = i
Answers(b, i) == b.run = "complete" /\ b.future = Own(i)
Untouched ==
  \A i \in Calls : ~Used(i) =>
    /\ future[Own(i)] = "pending"
    /\ \A n \in DOMAIN callbacks : ~Answers(callbacks[n], i)
ResultsTrue ==
  \A i \in Calls : call[i].kind = "command" =>
    /\ future[Own(i)] = "result" => Executed(i)
    /\ \A n \in DOMAIN callbacks :
         Answers(callbacks[n], i) /\ callbacks[n].value = "result" => Executed(i)
    /\ call[i].state = "returned" => Executed(i)
RefusedNever ==
  \A i \in Calls :
    call[i].kind = "command" /\ call[i].state = "raised" /\ future[Own(i)] = "pending" =>
      /\ \A n \in DOMAIN commands : commands[n] # i
      /\ \A n \in DOMAIN executed : executed[n] # i
      /\ \A s \in Sessions : Handling(s) => command[s] # i


CommandInv ==
  CallsInTurn /\ CommandsUsed /\ CommandsOrdered /\ Untouched /\ ResultsTrue /\ RefusedNever

LEMMA CommandSteps ==
  ASSUME AsyncTypeOK
  PROVE  /\ Len(commands) \in Nat /\ DOMAIN commands = 1 .. Len(commands)
         /\ \A n \in DOMAIN commands : commands[n] \in Calls
         /\ Len(executed) \in Nat /\ DOMAIN executed = 1 .. Len(executed)
         /\ \A n \in DOMAIN executed : executed[n] \in Calls
BY DEF AsyncTypeOK

LEMMA CommandTail ==
  ASSUME AsyncTypeOK, commands # <<>>, commands' = Tail(commands)
  PROVE  /\ 1 \in DOMAIN commands /\ Head(commands) = commands[1]
         /\ \A n \in DOMAIN commands' : n + 1 \in DOMAIN commands /\ commands'[n] = commands[n + 1]
BY DEF AsyncTypeOK

LEMMA LoopKeepsCommands ==
  ASSUME TypeInv, Discipline, CommandInv, NEW i \in Calls, API(i) \/ Continue(i) \/ Cancel(i)
  PROVE  CommandInv'
<1> USE DEF Used, Handling
<1>1. LoopEffect(i)
  BY LoopHasEffect
<1>2. AsyncTypeOK
  BY DEF TypeInv
<1>3. i \in Nat /\ Calls \subseteq Nat
  BY AsyncAssumption DEF Calls
<1>4. UNCHANGED <<command, executed, callbacks>>
      /\ \A s \in Sessions : worker'[s] = "handle" => worker[s] = "handle"
  BY <1>1 DEF LoopEffect
<1>5. \A j \in Calls : Used(j) => Used(j)'
  BY <1>1 DEF LoopEffect
<1>6. \A n \in DOMAIN commands' :
        \/ n \in DOMAIN commands /\ commands'[n] = commands[n]
        \/ ~Used(i) /\ call'[i].state = "await" /\ n = Len(commands) + 1 /\ commands'[n] = i
  <2>1. \/ commands' = commands
        \/ commands' = Append(commands, i) /\ ~Used(i) /\ call'[i].state = "await"
    BY <1>1 DEF LoopEffect
  <2>2. commands \in Seq(Calls)
    BY <1>2 DEF AsyncTypeOK
  <2> QED
    BY <2>1, <2>2
<1>7. \A n \in DOMAIN commands : commands[n] \in Calls /\ n <= Len(commands) /\ n \in Nat
      /\ Len(commands) \in Nat
  BY <1>2, CommandSteps
<1>8. \A n \in DOMAIN executed : executed[n] \in Calls
  BY <1>2, CommandSteps
<1>9. \A s \in Sessions : worker[s] = "handle" => command[s] \in Calls
  BY DEF TypeInv, HandlesCommand
<1>10. ~Used(i) => \A j \in Calls : Used(j) => j < i
  BY <1>3 DEF CommandInv, CallsInTurn
<1>11. CallsInTurn'
  <2> SUFFICES ASSUME NEW k \in Calls, NEW j \in Calls, j < k, Used(k)' PROVE Used(j)'
    BY DEF CallsInTurn
  <2>1. CASE Used(k)
    BY <1>5, <2>1 DEF CommandInv, CallsInTurn
  <2>2. CASE ~Used(k)
    <3>1. k = i /\ \A l \in 1 .. i - 1 : Used(l)
      BY <1>1, <2>2 DEF LoopEffect
    <3>2. j \in 1 .. i - 1
      BY <1>3, <3>1, AsyncAssumption DEF Calls
    <3> QED
      BY <1>5, <3>1, <3>2
  <2> QED
    BY <2>1, <2>2
<1>12. CommandsUsed'
  <2>1. \A n \in DOMAIN commands' : call'[commands'[n]].state # "unused"
    BY <1>1, <1>5, <1>6, <1>7 DEF LoopEffect, CommandInv, CommandsUsed
  <2>2. \A n \in DOMAIN executed' : call'[executed'[n]].state # "unused"
    BY <1>4, <1>5, <1>8 DEF CommandInv, CommandsUsed
  <2>3. \A s \in Sessions : worker'[s] = "handle" => call'[command'[s]].state # "unused"
    BY <1>4, <1>5, <1>9 DEF CommandInv, CommandsUsed
  <2> QED
    BY <2>1, <2>2, <2>3 DEF CommandsUsed
<1>13. CommandsOrdered'
  <2>1. \A m, n \in DOMAIN commands' : m < n => commands'[m] < commands'[n]
    BY <1>6, <1>7, <1>10 DEF CommandInv, CommandsUsed, CommandsOrdered
  <2>2. \A m \in DOMAIN executed' : \A n \in DOMAIN commands' : executed'[m] < commands'[n]
    BY <1>4, <1>6, <1>8, <1>10 DEF CommandInv, CommandsUsed, CommandsOrdered
  <2>3. \A s \in Sessions : worker'[s] = "handle" => \A n \in DOMAIN commands' : command'[s] < commands'[n]
    BY <1>4, <1>6, <1>9, <1>10 DEF CommandInv, CommandsUsed, CommandsOrdered
  <2> QED
    BY <1>4, <2>1, <2>2, <2>3 DEF CommandInv, CommandsOrdered
<1>14. Untouched'
  BY <1>1, <1>4 DEF LoopEffect, CommandInv, Untouched, Answers
<1>15. ResultsTrue'
  <2> SUFFICES ASSUME NEW j \in Calls, call'[j].kind = "command"
               PROVE  /\ future'[Own(j)] = "result" => Executed(j)'
                      /\ \A n \in DOMAIN callbacks' :
                           (Answers(callbacks[n], j) /\ callbacks[n].value = "result")' => Executed(j)'
                      /\ call'[j].state = "returned" => Executed(j)'
    BY DEF ResultsTrue, Answers
  <2>1. Executed(j)' <=> Executed(j)
    BY <1>4 DEF Executed
  <2>2. CASE ~Used(j)
    <3>1. future[Own(j)] = "pending" /\ \A n \in DOMAIN callbacks : ~Answers(callbacks[n], j)
      BY <2>2 DEF CommandInv, Untouched
    <3> QED
      BY <1>1, <1>4, <2>2, <3>1 DEF LoopEffect, Answers
  <2>3. CASE Used(j)
    <3>1. call[j].kind = "command"
      BY <1>1, <2>3 DEF LoopEffect
    <3> QED
      BY <1>1, <1>4, <2>1, <3>1 DEF LoopEffect, CommandInv, ResultsTrue, Answers
  <2> QED
    BY <2>2, <2>3
<1>16. RefusedNever'
  <2> SUFFICES ASSUME NEW j \in Calls, call'[j].kind = "command", call'[j].state = "raised",
                      future'[Own(j)] = "pending"
               PROVE  /\ \A n \in DOMAIN commands' : commands'[n] # j
                      /\ \A n \in DOMAIN executed' : executed'[n] # j
                      /\ \A s \in Sessions : worker'[s] = "handle" => command'[s] # j
    BY DEF RefusedNever
  <2>1. future[Own(j)] = "pending"
    BY <1>1 DEF LoopEffect
  <2>2. CASE j # i
    BY <1>1, <1>4, <1>6, <2>1, <2>2 DEF LoopEffect, CommandInv, RefusedNever
  <2>3. CASE j = i
    <3>1. ~Used(i) /\ commands' = commands
      BY <1>1, <2>1, <2>3 DEF LoopEffect
    <3> QED
      BY <1>4, <2>3, <3>1 DEF CommandInv, CommandsUsed
  <2> QED
    BY <2>2, <2>3
<1> QED
  BY <1>11, <1>12, <1>13, <1>14, <1>15, <1>16 DEF CommandInv

(* What a step of worker s does to commands and callbacks.                 *)
Posts(b) == callbacks' = Append(callbacks, b)
Completion(f, v) == [run |-> "complete", future |-> f, value |-> v]
Put(item) == [run |-> "put", to |-> session, item |-> item]

Quiet(s) ==
  /\ UNCHANGED <<commands, command, executed>> /\ worker'[s] # "handle"
  /\ \/ UNCHANGED callbacks
     \/ \E v \in {"result", "error"} : Posts(Completion(Started(session), v))
     \/ \E item \in 0 .. MaxMessages : Posts(Put(item))
Answered(s) ==
  /\ commands # <<>> /\ commands' = Tail(commands)
  /\ UNCHANGED <<command, executed>> /\ worker'[s] # "handle"
  /\ \E v \in {"result", "error"} :
       /\ v = "result" => call[Head(commands)].kind = "close"
       /\ Posts(Completion(Own(Head(commands)), v))
Taken(s) ==
  /\ commands # <<>> /\ commands' = Tail(commands)
  /\ UNCHANGED <<callbacks, executed>> /\ worker'[s] = "handle"
  /\ command' = [command EXCEPT ![s] = Head(commands)]
Done(s) ==
  /\ worker[s] = "handle" /\ worker'[s] # "handle" /\ UNCHANGED <<commands, command>>
  /\ executed' = Append(executed, command[s])
  /\ \E v \in {"result", "error"} : Posts(Completion(Own(command[s]), v))

LEMMA WorkerHasEffect ==
  ASSUME TypeInv, NEW s \in Sessions, _run(s)
  PROVE  Quiet(s) \/ Answered(s) \/ Taken(s) \/ Done(s)
<1> USE DEF _complete, Post, CallSoon, Posts, Completion, Put
<1>s. {"connect", "next", "handle", "poll", "fail_started", "publish_error", "fail_pending",
       "exit", "dead"} \subseteq WorkerStates
  BY DEF WorkerStates
<1>t. AsyncTypeOK
  BY DEF TypeInv
<1>1. ASSUME NEW from, NEW to \in WorkerStates, Step(s, from, to)
      PROVE  worker[s] = from /\ worker'[s] = to
  BY <1>1, <1>t, StepTypes
<1>2. CASE NativeConnects(s)
  BY <1>1, <1>2, <1>s DEF NativeConnects, Quiet
<1>3. CASE NativeRaises(s)
  BY <1>1, <1>3, <1>s DEF NativeRaises, Quiet
<1>4. CASE _next_command(s)
  <2>1. CASE call[Head(commands)].kind = "close"
    BY <1>1, <1>4, <1>s, <2>1 DEF _next_command, AfterGet, Answered
  <2>2. CASE call[Head(commands)].kind # "close"
    BY <1>1, <1>4, <1>s, <2>2 DEF _next_command, AfterGet, Taken
  <2> QED
    BY <2>1, <2>2
<1>5. CASE NoCommand(s)
  BY <1>1, <1>5, <1>s DEF NoCommand, Quiet
<1>6. CASE _handle_command(s)
  BY <1>1, <1>6, <1>s DEF _handle_command, Done
<1>7. CASE PollMessage(s)
  <2>1. polled[s] + 1 \in 0 .. MaxMessages
    BY <1>7, <1>t, AsyncAssumption DEF PollMessage, AsyncTypeOK
  <2> QED
    BY <1>7, <2>1 DEF PollMessage, Quiet
<1>8. CASE PollNothing(s)
  BY <1>1, <1>8, <1>s DEF PollNothing, Quiet
<1>9. CASE _fail_started(s)
  BY <1>1, <1>9, <1>s DEF _fail_started, Quiet
<1>10. CASE _publish_worker_error(s)
  <2>1. Error \in 0 .. MaxMessages
    BY AsyncAssumption DEF Error
  <2> QED
    BY <1>1, <1>10, <1>s, <2>1 DEF _publish_worker_error, Quiet
<1>11. CASE _fail_pending(s)
  <2>1. CASE commands # <<>>
    BY <1>11, <2>1 DEF _fail_pending, Answered
  <2>2. CASE commands = <<>>
    BY <1>1, <1>11, <1>s, <2>2 DEF _fail_pending, Quiet
  <2> QED
    BY <2>1, <2>2
<1>12. CASE ThreadEnds(s)
  BY <1>1, <1>12, <1>s DEF ThreadEnds, Quiet
<1> QED
  BY <1>2, <1>3, <1>4, <1>5, <1>6, <1>7, <1>8, <1>9, <1>10, <1>11, <1>12 DEF _run

(* After a post, a callback is an old one or the one posted.               *)
LEMMA PostSteps ==
  ASSUME AsyncTypeOK, NEW b, Posts(b)
  PROVE  \A n \in DOMAIN callbacks' :
           (n \in DOMAIN callbacks /\ callbacks'[n] = callbacks[n]) \/ callbacks'[n] = b
<1>1. callbacks \in Seq(Callbacks)
  BY DEF AsyncTypeOK
<1> QED
  BY <1>1 DEF Posts

LEMMA WorkerKeepsCommands ==
  ASSUME TypeInv, Discipline, CommandInv, NEW s \in Sessions, _run(s)
  PROVE  CommandInv'
<1> USE DEF Used, Handling
<1>1. /\ UNCHANGED <<call, future>> /\ Alive(s)
      /\ \A r \in Sessions : r # s => worker'[r] = worker[r]
  BY WorkerStaysOnRecord
<1>2. \A r \in Sessions : r # s => worker[r] # "handle" /\ worker'[r] # "handle"
  <2>1. \A r \in Sessions : Alive(r) => r = s
    BY <1>1, LatestSession
  <2> QED
    BY <1>1, <2>1 DEF Alive
<1>3. AsyncTypeOK
  BY DEF TypeInv
<1>4. \A n \in DOMAIN commands : commands[n] \in Calls
  BY <1>3, CommandSteps
<1>5. \A i, j \in Calls : Own(i) = Own(j) => i = j
  BY DEF Own
<1>6. CallsInTurn'
  BY <1>1 DEF CommandInv, CallsInTurn
<1>7. CASE Quiet(s)
  <2>1. UNCHANGED <<commands, command, executed>> /\ worker'[s] # "handle"
    BY <1>7 DEF Quiet
  <2>2. \A n \in DOMAIN callbacks' : \/ n \in DOMAIN callbacks /\ callbacks'[n] = callbacks[n]
                                     \/ \A j \in Calls : ~Answers(callbacks'[n], j)
    <3>1. ASSUME NEW b, Posts(b), \A j \in Calls : ~Answers(b, j)
          PROVE  \A n \in DOMAIN callbacks' : \/ n \in DOMAIN callbacks /\ callbacks'[n] = callbacks[n]
                                              \/ \A j \in Calls : ~Answers(callbacks'[n], j)
      BY <1>3, <3>1, PostSteps DEF Answers
    <3>2. \A v \in {"result", "error"} : \A j \in Calls : ~Answers(Completion(Started(session), v), j)
      BY DEF Answers, Completion, Started, Own
    <3>3. \A item \in 0 .. MaxMessages : \A j \in Calls : ~Answers(Put(item), j)
      BY DEF Answers, Put
    <3> QED
      BY <1>7, <3>1, <3>2, <3>3 DEF Quiet
  <2>3. CommandsUsed' /\ CommandsOrdered' /\ RefusedNever'
    BY <1>1, <1>2, <2>1 DEF CommandInv, CommandsUsed, CommandsOrdered, RefusedNever
  <2>4. Untouched'
    BY <1>1, <2>2 DEF CommandInv, Untouched, Answers
  <2>5. ResultsTrue'
    BY <1>1, <2>1, <2>2 DEF CommandInv, ResultsTrue, Answers, Executed
  <2> QED
    BY <1>6, <2>3, <2>4, <2>5 DEF CommandInv
<1>8. CASE Answered(s)
  <2>1. commands # <<>> /\ commands' = Tail(commands)
        /\ UNCHANGED <<command, executed>> /\ worker'[s] # "handle"
    BY <1>8 DEF Answered
  <2>2. /\ 1 \in DOMAIN commands /\ Head(commands) = commands[1]
        /\ \A n \in DOMAIN commands' : n + 1 \in DOMAIN commands /\ commands'[n] = commands[n + 1]
        /\ DOMAIN commands \subseteq Nat
    BY <1>3, <2>1, CommandTail, CommandSteps
  <2>3. PICK v \in {"result", "error"} :
          /\ v = "result" => call[commands[1]].kind = "close"
          /\ Posts(Completion(Own(commands[1]), v))
    BY <1>8, <2>2 DEF Answered
  <2>4. \A n \in DOMAIN callbacks' : \/ n \in DOMAIN callbacks /\ callbacks'[n] = callbacks[n]
                                     \/ callbacks'[n] = Completion(Own(commands[1]), v)
    BY <1>3, <2>3, PostSteps
  <2>5. CommandsUsed' /\ CommandsOrdered' /\ RefusedNever'
    <3>1. DOMAIN commands' \subseteq Nat
      <4>1. commands' \in Seq(Calls)
        BY <2>1, <1>3 DEF AsyncTypeOK
      <4> QED
        BY <4>1
    <3>2. CommandsUsed' /\ RefusedNever'
      BY <1>1, <1>2, <2>1, <2>2 DEF CommandInv, CommandsUsed, RefusedNever
    <3>3. \A m, n \in DOMAIN commands' : m < n => commands'[m] < commands'[n]
      BY <2>2, <3>1 DEF CommandInv, CommandsOrdered
    <3>4. CommandsOrdered'
      BY <1>2, <2>1, <2>2, <3>3 DEF CommandInv, CommandsOrdered
    <3> QED
      BY <3>2, <3>4
  <2>6. commands[1] \in Calls /\ Used(commands[1])
    BY <1>4, <2>2 DEF CommandInv, CommandsUsed
  <2>7. \A j \in Calls : Answers(Completion(Own(commands[1]), v), j) => j = commands[1]
    BY <1>5, <2>6 DEF Answers, Completion
  <2>8. Untouched'
    BY <1>1, <2>4, <2>6, <2>7 DEF CommandInv, Untouched, Answers
  <2>9. ResultsTrue'
    <3>1. Completion(Own(commands[1]), v).value = v
      BY DEF Completion
    <3> QED
      BY <1>1, <2>1, <2>3, <2>4, <2>7, <3>1 DEF CommandInv, ResultsTrue, Answers, Executed
  <2> QED
    BY <1>6, <2>5, <2>8, <2>9 DEF CommandInv
<1>9. CASE Taken(s)
  <2>1. commands # <<>> /\ commands' = Tail(commands)
        /\ UNCHANGED <<callbacks, executed>> /\ worker'[s] = "handle"
    BY <1>9 DEF Taken
  <2>2. /\ 1 \in DOMAIN commands /\ Head(commands) = commands[1]
        /\ \A n \in DOMAIN commands' : n + 1 \in DOMAIN commands /\ commands'[n] = commands[n + 1]
    BY <1>3, <2>1, CommandTail
  <2>3. command'[s] = commands[1]
    BY <1>3, <1>9, <2>2 DEF Taken, AsyncTypeOK
  <2>4. DOMAIN commands' \subseteq Nat \ {0}
    <3>1. commands' \in Seq(Calls)
      BY <2>1, <1>3 DEF AsyncTypeOK
    <3> QED
      BY <3>1
  <2>5. CommandsUsed' /\ RefusedNever'
    BY <1>1, <1>2, <2>1, <2>2, <2>3 DEF CommandInv, CommandsUsed, RefusedNever
  <2>6. \A m, n \in DOMAIN commands' : m < n => commands'[m] < commands'[n]
    BY <2>2, <2>4 DEF CommandInv, CommandsOrdered
  <2>7. \A n \in DOMAIN commands' : commands[1] < commands'[n]
    BY <2>2, <2>4 DEF CommandInv, CommandsOrdered
  <2>8. CommandsOrdered'
    BY <1>2, <2>1, <2>2, <2>3, <2>6, <2>7 DEF CommandInv, CommandsOrdered
  <2>9. Untouched' /\ ResultsTrue'
    BY <1>1, <2>1 DEF CommandInv, Untouched, ResultsTrue, Answers, Executed
  <2> QED
    BY <1>6, <2>5, <2>8, <2>9 DEF CommandInv
<1>10. CASE Done(s)
  <2>1. worker[s] = "handle" /\ worker'[s] # "handle" /\ UNCHANGED <<commands, command>>
        /\ executed' = Append(executed, command[s])
    BY <1>10 DEF Done
  <2>2. command[s] \in Calls /\ Used(command[s])
    BY <2>1 DEF TypeInv, HandlesCommand, CommandInv, CommandsUsed
  <2>3. /\ \A n \in DOMAIN executed' : \/ n \in DOMAIN executed /\ executed'[n] = executed[n]
                                       \/ n = Len(executed) + 1 /\ executed'[n] = command[s]
        /\ \A n \in DOMAIN executed : n \in DOMAIN executed' /\ executed'[n] = executed[n]
                                      /\ n <= Len(executed) /\ n \in Nat
        /\ Len(executed) + 1 \in DOMAIN executed' /\ executed'[Len(executed) + 1] = command[s]
        /\ Len(executed) \in Nat
    <3>1. executed \in Seq(Calls)
      BY <1>3 DEF AsyncTypeOK
    <3> QED
      BY <2>1, <2>2, <3>1
  <2>4. PICK v \in {"result", "error"} : Posts(Completion(Own(command[s]), v))
    BY <1>10 DEF Done
  <2>5. \A n \in DOMAIN callbacks' : \/ n \in DOMAIN callbacks /\ callbacks'[n] = callbacks[n]
                                     \/ callbacks'[n] = Completion(Own(command[s]), v)
    BY <1>3, <2>4, PostSteps
  <2>6. \A j \in Calls : Answers(Completion(Own(command[s]), v), j) => j = command[s]
    BY <1>5, <2>2 DEF Answers, Completion
  <2>7. CommandsUsed' /\ RefusedNever'
    BY <1>1, <1>2, <2>1, <2>2, <2>3 DEF CommandInv, CommandsUsed, RefusedNever
  <2>8. CommandsOrdered'
    <3>1. \A m, n \in DOMAIN executed' : m < n => executed'[m] < executed'[n]
      BY <2>1, <2>3 DEF CommandInv, CommandsOrdered
    <3>2. \A m \in DOMAIN executed' : \A n \in DOMAIN commands' : executed'[m] < commands'[n]
      BY <2>1, <2>3 DEF CommandInv, CommandsOrdered
    <3> QED
      BY <1>2, <2>1, <3>1, <3>2 DEF CommandInv, CommandsOrdered
  <2>9. Untouched'
    BY <1>1, <2>2, <2>5, <2>6 DEF CommandInv, Untouched, Answers
  <2>10. \A j \in Calls : (Executed(j) => Executed(j)') /\ (j = command[s] => Executed(j)')
    BY <2>3 DEF Executed
  <2>11. ResultsTrue'
    <3> SUFFICES ASSUME NEW j \in Calls, call'[j].kind = "command", ~Executed(j)'
                 PROVE  /\ future'[Own(j)] # "result" /\ call'[j].state # "returned"
                        /\ \A n \in DOMAIN callbacks' :
                             ~(Answers(callbacks'[n], j) /\ callbacks'[n].value = "result")
      BY DEF ResultsTrue, Answers, Executed
    <3>1. ~Executed(j) /\ j # command[s]
      BY <2>10
    <3> QED
      BY <1>1, <2>5, <2>6, <3>1 DEF CommandInv, ResultsTrue, Answers
  <2> QED
    BY <1>6, <2>7, <2>8, <2>9, <2>11 DEF CommandInv
<1> QED
  BY <1>7, <1>8, <1>9, <1>10, WorkerHasEffect

LEMMA CallbackTail ==
  ASSUME AsyncTypeOK, callbacks # <<>>, callbacks' = Tail(callbacks)
  PROVE  /\ 1 \in DOMAIN callbacks /\ Head(callbacks) = callbacks[1] /\ callbacks[1] \in Callbacks
         /\ \A n \in DOMAIN callbacks' :
              /\ n + 1 \in DOMAIN callbacks /\ callbacks'[n] = callbacks[n + 1]
              /\ n \in Nat /\ n # 0
         /\ \A n \in DOMAIN callbacks : n \in Nat /\ (n = 1 \/ n - 1 \in DOMAIN callbacks')
<1>1. callbacks \in Seq(Callbacks)
  BY DEF AsyncTypeOK
<1> QED
  BY <1>1

LEMMA CallbackKeepsCommands ==
  ASSUME TypeInv, CommandInv, RunCallback
  PROVE  CommandInv'
<1> USE DEF Used, Handling
<1>1. UNCHANGED <<call, commands, workerVars>> /\ callbacks # <<>> /\ callbacks' = Tail(callbacks)
  BY DEF RunCallback, RunComplete, RunPut
<1>2. /\ 1 \in DOMAIN callbacks /\ Head(callbacks) = callbacks[1] /\ callbacks[1] \in Callbacks
      /\ \A n \in DOMAIN callbacks' : n + 1 \in DOMAIN callbacks /\ callbacks'[n] = callbacks[n + 1]
  BY <1>1, CallbackTail DEF TypeInv
<1>3. \A j \in Calls : \/ future'[Own(j)] = future[Own(j)]
                       \/ /\ future[Own(j)] = "pending"
                          /\ Answers(callbacks[1], j) /\ future'[Own(j)] = callbacks[1].value
                          /\ callbacks[1].value # "pending"
  <2>1. CASE RunPut
    BY <2>1 DEF RunPut
  <2>2. CASE RunComplete
    <3>1. /\ callbacks[1].run = "complete" /\ callbacks[1].value \in {"result", "error"}
          /\ future' = [future EXCEPT ![callbacks[1].future] =
                          IF @ = "pending" THEN callbacks[1].value ELSE @]
      BY <1>2, <2>2 DEF RunComplete, Callbacks
    <3>2. \A j \in Calls : Own(j) \in Futures
      BY DEF Futures
    <3>3. future \in [Futures -> {"pending", "result", "error", "cancelled"}]
      BY DEF TypeInv, AsyncTypeOK
    <3> QED
      BY <3>1, <3>2, <3>3 DEF Answers
  <2> QED
    BY <2>1, <2>2 DEF RunCallback
<1>4. CallsInTurn' /\ CommandsUsed' /\ CommandsOrdered'
  BY <1>1 DEF CommandInv, CallsInTurn, CommandsUsed, CommandsOrdered
<1>5. Untouched'
  BY <1>1, <1>2, <1>3 DEF CommandInv, Untouched, Answers
<1>6. RefusedNever'
  BY <1>1, <1>3 DEF CommandInv, RefusedNever
<1>7. ResultsTrue'
  <2> SUFFICES ASSUME NEW j \in Calls, call'[j].kind = "command", ~Executed(j)
               PROVE  /\ future'[Own(j)] # "result" /\ call'[j].state # "returned"
                      /\ \A n \in DOMAIN callbacks' :
                           ~(Answers(callbacks'[n], j) /\ callbacks'[n].value = "result")
    BY <1>1 DEF ResultsTrue, Answers, Executed
  <2> QED
    BY <1>1, <1>2, <1>3 DEF CommandInv, ResultsTrue, Answers
<1> QED
  BY <1>4, <1>5, <1>6, <1>7 DEF CommandInv

LEMMA InitCommands == Init => Discipline /\ CommandInv
<1> SUFFICES ASSUME Init PROVE Discipline /\ CommandInv
  OBVIOUS
<1>1. /\ \A i \in Calls : call[i].state = "unused" /\ call[i].kind = "none"
      /\ \A s \in Sessions : worker[s] = "none"
      /\ DOMAIN commands = {} /\ DOMAIN executed = {} /\ DOMAIN callbacks = {}
  BY DEF Init
<1>2. \A i \in Calls : future[Own(i)] = "pending"
  BY DEF Init, Futures
<1>3. Discipline
  BY <1>1 DEF Discipline, Kinds, Exclusive, ClosesThread, NoOrphan, Alive, InProgress
<1>4. CommandInv
  BY <1>1, <1>2 DEF CommandInv, CallsInTurn, CommandsUsed, CommandsOrdered, Untouched,
       ResultsTrue, RefusedNever, Used, Handling
<1> QED
  BY <1>3, <1>4

LEMMA CommandInvariant ==
  ASSUME Disciplined
  PROVE  Spec => [](TypeInv /\ Discipline /\ CommandInv)
<1> DEFINE Inv == TypeInv /\ Discipline /\ CommandInv
<1>1. Init => Inv
  BY InitTypeInv, InitCommands
<1>2. Inv /\ [Next]_vars => Inv'
  <2> SUFFICES ASSUME Inv, [Next]_vars PROVE Inv'
    OBVIOUS
  <2>1. TypeInv'
    <3>1. CASE UNCHANGED vars
      BY <3>1 DEF TypeInv, AsyncTypeOK, WorkersBegun, HandlesCommand, WaitsOpen
    <3> QED
      BY <3>1, LoopKeepsTypes, CallbackKeepsTypes, WorkerKeepsTypes DEF Next
  <2>2. Discipline'
    BY StepKeepsDiscipline
  <2>3. CommandInv'
    <3>1. CASE UNCHANGED vars
      BY <3>1 DEF CommandInv, CallsInTurn, CommandsUsed, CommandsOrdered, Untouched,
           ResultsTrue, RefusedNever, Used, Handling, Executed, Answers
    <3> QED
      BY <3>1, LoopKeepsCommands, CallbackKeepsCommands, WorkerKeepsCommands DEF Next
  <2> QED
    BY <2>1, <2>2, <2>3
<1> QED
  BY <1>1, <1>2, PTL DEF Spec

(* If connect() and close() overlap no other call and are not cancelled,   *)
(* the worker alive is the one self._thread refers to: no worker is left   *)
(* running that close() cannot stop.                                       *)
THEOREM NoWorkerIsOrphaned ==
  ASSUME Disciplined
  PROVE  Spec => []NoOrphan
<1>1. TypeInv /\ Discipline /\ CommandInv => NoOrphan
  BY DEF Discipline
<1> QED
  BY <1>1, CommandInvariant, PTL

(* Under the same condition the native client does live on one thread: the *)
(* overlap that the run async_workers needs to refute SingleWorker is the  *)
(* only cause.                                                             *)
THEOREM OneWorkerIfDisciplined ==
  ASSUME Disciplined
  PROVE  Spec => []SingleWorker
<1>1. NoOrphan => SingleWorker
  BY DEF NoOrphan, SingleWorker
<1> QED
  BY <1>1, NoWorkerIsOrphaned, PTL

(* Commands reach the native client once each and in the order of the      *)
(* calls, a call that returned was executed, and one refused was not: for  *)
(* any number of calls, cancellations, failures and sessions.              *)
THEOREM CommandsRunInOrder ==
  ASSUME Disciplined
  PROVE  Spec => []CommandsInOrder
<1>1. TypeInv /\ Discipline /\ CommandInv => CommandsInOrder
  BY DEF CommandInv, CommandsOrdered, ResultsTrue, RefusedNever, Executed, CommandsInOrder
<1> QED
  BY <1>1, CommandInvariant, PTL

-----------------------------------------------------------------------------
(* Messages.                                                               *)

(* The states of a worker that has posted its error, or has none to post.  *)
Failed == {"fail_pending", "exit", "dead"}

(* The items of a session are in the order poll() returned them in: those  *)
(* returned by recv(), then those of the queue, then those in callbacks.   *)
ItemsOrdered ==
  \A s \in Sessions :
    /\ \A m, n \in DOMAIN got[s] : m < n => got[s][m] < got[s][n]
    /\ \A m, n \in DOMAIN queue[s] :
         m < n /\ queue[s][m] # Error /\ queue[s][n] # Error => queue[s][m] < queue[s][n]
    /\ \A m, n \in InCallback(s) :
         m < n /\ callbacks[m].item # Error /\ callbacks[n].item # Error
           => callbacks[m].item < callbacks[n].item
    /\ \A m \in DOMAIN got[s] : \A n \in DOMAIN queue[s] :
         queue[s][n] # Error => got[s][m] < queue[s][n]
    /\ \A m \in DOMAIN got[s] : \A n \in InCallback(s) :
         callbacks[n].item # Error => got[s][m] < callbacks[n].item
    /\ \A m \in DOMAIN queue[s] : \A n \in InCallback(s) :
         queue[s][m] # Error /\ callbacks[n].item # Error => queue[s][m] < callbacks[n].item
(* None is missing, and there are no others.                               *)
ItemsAll ==
  \A s \in Sessions :
    /\ \A k \in 1 .. polled[s] :
      \/ \E n \in DOMAIN got[s] : got[s][n] = k
      \/ \E n \in DOMAIN queue[s] : queue[s][n] = k
      \/ \E n \in InCallback(s) : callbacks[n].item = k
    /\ \A n \in DOMAIN got[s] : got[s][n] <= polled[s]
    /\ \A n \in DOMAIN queue[s] : queue[s][n] <= polled[s]
    /\ \A n \in InCallback(s) : callbacks[n].item <= polled[s]
(* An error is the last item, and then the worker has failed.              *)
ErrorsLast ==
  \A s \in Sessions :
    /\ \A n \in DOMAIN queue[s] : queue[s][n] = Error =>
         /\ n = Len(queue[s]) /\ InCallback(s) = {}
         /\ worker[s] \in Failed
    /\ \A n \in InCallback(s) : callbacks[n].item = Error =>
         /\ \A m \in InCallback(s) : m <= n
         /\ worker[s] \in Failed

MessageInv == ItemsOrdered /\ ItemsAll /\ ErrorsLast

LEMMA InitMessages == Init => MessageInv
<1> SUFFICES ASSUME Init PROVE MessageInv
  OBVIOUS
<1>1. \A s \in Sessions : DOMAIN got[s] = {} /\ DOMAIN queue[s] = {} /\ InCallback(s) = {} /\ polled[s] = 0
  BY DEF Init, InCallback
<1>2. ItemsOrdered /\ ErrorsLast
  BY <1>1 DEF ItemsOrdered, ErrorsLast
<1>3. ItemsAll
  BY <1>1 DEF ItemsAll
<1> QED
  BY <1>2, <1>3 DEF MessageInv

LEMMA ItemTypes ==
  ASSUME AsyncTypeOK, NEW s \in Sessions
  PROVE  /\ \A n \in DOMAIN got[s] : got[s][n] \in 1 .. MaxMessages
         /\ \A n \in DOMAIN queue[s] : queue[s][n] \in 0 .. MaxMessages
         /\ \A n \in InCallback(s) : n \in Nat /\ n # 0 /\ callbacks[n].item \in 0 .. MaxMessages
         /\ polled[s] \in Nat /\ MaxMessages \in Nat
         /\ DOMAIN queue[s] = 1 .. Len(queue[s]) /\ Len(queue[s]) \in Nat
         /\ DOMAIN got[s] = 1 .. Len(got[s]) /\ Len(got[s]) \in Nat
<1>1. callbacks \in Seq(Callbacks) /\ got[s] \in Seq(1 .. MaxMessages) /\ queue[s] \in Seq(0 .. MaxMessages)
      /\ polled[s] \in 0 .. MaxMessages
  BY DEF AsyncTypeOK
<1>2. \A n \in DOMAIN callbacks : callbacks[n] \in Callbacks /\ n \in Nat /\ n # 0
  BY <1>1
<1>3. \A n \in InCallback(s) : callbacks[n].item \in 0 .. MaxMessages
  BY <1>2 DEF InCallback, Callbacks
<1> QED
  BY <1>1, <1>2, <1>3, AsyncAssumption DEF InCallback

(* Nothing moves: the puts among the callbacks are the same ones, and a    *)
(* worker that has failed stays failed.                                    *)
LEMMA SamePuts ==
  ASSUME MessageInv, UNCHANGED <<got, queue, polled>>,
         \A s \in Sessions : /\ worker[s] \in Failed => worker'[s] \in Failed
                             /\ InCallback(s)' = InCallback(s)
                             /\ \A n \in InCallback(s) : callbacks'[n].item = callbacks[n].item
  PROVE  MessageInv'
<1>1. ItemsOrdered'
  BY DEF MessageInv, ItemsOrdered
<1>2. ItemsAll'
  BY DEF MessageInv, ItemsAll
<1>3. ErrorsLast'
  BY DEF MessageInv, ErrorsLast
<1> QED
  BY <1>1, <1>2, <1>3 DEF MessageInv

LEMMA TakeKeepsMessages ==
  ASSUME AsyncTypeOK, MessageInv, NEW i \in Calls, NEW s \in Sessions, Take(i, s),
         UNCHANGED <<worker, polled, callbacks>>
  PROVE  MessageInv'
<1>1. /\ queue \in [Sessions -> Seq(0 .. MaxMessages)] /\ queue[s] # <<>>
      /\ got \in [Sessions -> Seq(1 .. MaxMessages)]
      /\ queue[s] \in Seq(0 .. MaxMessages) /\ got[s] \in Seq(1 .. MaxMessages)
  BY DEF AsyncTypeOK, Take
<1>2. \A r \in Sessions : InCallback(r)' = InCallback(r)
  BY DEF InCallback
<1>3. 1 \in DOMAIN queue[s] /\ Head(queue[s]) = queue[s][1]
  BY <1>1
<1>4. CASE Head(queue[s]) = Error
  <2>1. Len(queue[s]) = 1
    BY <1>3, <1>4 DEF MessageInv, ErrorsLast
  <2>2. queue[s] = <<Error>>
    BY <1>1, <1>3, <1>4, <2>1
  <2>3. AfterError(queue[s]) = <<Error>>
    BY <2>2 DEF AfterError, PutNowait
  <2>4. queue' = queue /\ got' = got
    BY <1>1, <1>4, <2>2, <2>3 DEF Take
  <2> QED
    BY <1>2, <2>4, SamePuts
<1>5. CASE Head(queue[s]) # Error
  <2> DEFINE h == queue[s][1]
             q == queue'[s]
             g == got'[s]
  <2>1. /\ h # Error /\ h \in 1 .. MaxMessages
    BY <1>1, <1>3, <1>5, AsyncAssumption, ItemTypes DEF Error
  <2>2. /\ queue' = [queue EXCEPT ![s] = Tail(queue[s])]
        /\ got' = [got EXCEPT ![s] = Append(got[s], h)]
    BY <1>3, <1>5 DEF Take
  <2>3. /\ \A n \in DOMAIN q : n + 1 \in DOMAIN queue[s] /\ q[n] = queue[s][n + 1] /\ n \in Nat /\ n # 0
        /\ \A n \in DOMAIN queue[s] : n \in Nat /\ (n = 1 \/ (n - 1 \in DOMAIN q /\ q[n - 1] = queue[s][n]))
        /\ Len(q) = Len(queue[s]) - 1 /\ Len(queue[s]) \in Nat
    <3>1. q = Tail(queue[s])
      BY <1>1, <2>2
    <3> HIDE DEF q
    <3> QED
      BY <1>1, <3>1
  <2>4. /\ \A n \in DOMAIN g : \/ n \in DOMAIN got[s] /\ g[n] = got[s][n]
                               \/ n = Len(got[s]) + 1 /\ g[n] = h
        /\ \A n \in DOMAIN got[s] : n \in DOMAIN g /\ g[n] = got[s][n] /\ n \in Nat /\ n <= Len(got[s])
        /\ Len(got[s]) + 1 \in DOMAIN g /\ g[Len(got[s]) + 1] = h /\ Len(got[s]) \in Nat
    <3>1. g = Append(got[s], h)
      BY <1>1, <2>2
    <3> HIDE DEF g, h
    <3> QED
      BY <1>1, <2>1, <3>1
  <2>5. \A r \in Sessions : r # s => queue'[r] = queue[r] /\ got'[r] = got[r]
    BY <1>1, <2>2
  <2>6. \A n \in InCallback(s) : callbacks[n].item \in Nat
    BY ItemTypes
  <2>7. \A n \in DOMAIN queue[s] : queue[s][n] \in Nat
    BY ItemTypes
  <2> HIDE DEF q, g
  <2>8. ItemsOrdered'
    <3> SUFFICES ASSUME NEW r \in Sessions
                 PROVE  (/\ \A m, n \in DOMAIN got[r] : m < n => got[r][m] < got[r][n]
                         /\ \A m, n \in DOMAIN queue[r] :
                              m < n /\ queue[r][m] # Error /\ queue[r][n] # Error => queue[r][m] < queue[r][n]
                         /\ \A m, n \in InCallback(r) :
                              m < n /\ callbacks[m].item # Error /\ callbacks[n].item # Error
                                => callbacks[m].item < callbacks[n].item
                         /\ \A m \in DOMAIN got[r] : \A n \in DOMAIN queue[r] :
                              queue[r][n] # Error => got[r][m] < queue[r][n]
                         /\ \A m \in DOMAIN got[r] : \A n \in InCallback(r) :
                              callbacks[n].item # Error => got[r][m] < callbacks[n].item
                         /\ \A m \in DOMAIN queue[r] : \A n \in InCallback(r) :
                              queue[r][m] # Error /\ callbacks[n].item # Error
                                => queue[r][m] < callbacks[n].item)'
      BY DEF ItemsOrdered
    <3>1. CASE r # s
      BY <1>2, <2>5, <3>1 DEF MessageInv, ItemsOrdered
    <3>2. CASE r = s
      <4>1. \A m, n \in DOMAIN g : m < n => g[m] < g[n]
        BY <1>3, <2>1, <2>4 DEF MessageInv, ItemsOrdered
      <4>2. \A m, n \in DOMAIN q : m < n /\ q[m] # Error /\ q[n] # Error => q[m] < q[n]
        <5>1. \A m, n \in DOMAIN queue[s] :
                m < n /\ queue[s][m] # Error /\ queue[s][n] # Error => queue[s][m] < queue[s][n]
          BY DEF MessageInv, ItemsOrdered
        <5> SUFFICES ASSUME NEW m \in DOMAIN q, NEW n \in DOMAIN q, m < n, q[m] # Error, q[n] # Error
                     PROVE  q[m] < q[n]
          OBVIOUS
        <5>2. /\ m + 1 \in DOMAIN queue[s] /\ q[m] = queue[s][m + 1]
              /\ n + 1 \in DOMAIN queue[s] /\ q[n] = queue[s][n + 1] /\ m + 1 < n + 1
          BY <2>3
        <5> QED
          BY <5>1, <5>2
      <4>3. \A m \in DOMAIN g : \A n \in DOMAIN q : q[n] # Error => g[m] < q[n]
        BY <1>3, <2>1, <2>3, <2>4 DEF MessageInv, ItemsOrdered
      <4>4. \A m \in DOMAIN g : \A n \in InCallback(s) :
              callbacks[n].item # Error => g[m] < callbacks[n].item
        BY <1>3, <2>1, <2>4 DEF MessageInv, ItemsOrdered
      <4>5. \A m \in DOMAIN q : \A n \in InCallback(s) :
              q[m] # Error /\ callbacks[n].item # Error => q[m] < callbacks[n].item
        BY <2>3 DEF MessageInv, ItemsOrdered
      <4> QED
        BY <1>2, <3>2, <4>1, <4>2, <4>3, <4>4, <4>5 DEF MessageInv, ItemsOrdered, q, g
    <3> QED
      BY <3>1, <3>2
  <2>9. ItemsAll'
    <3> SUFFICES ASSUME NEW r \in Sessions
                 PROVE  (/\ \A k \in 1 .. polled[r] :
                              \/ \E n \in DOMAIN got[r] : got[r][n] = k
                              \/ \E n \in DOMAIN queue[r] : queue[r][n] = k
                              \/ \E n \in InCallback(r) : callbacks[n].item = k
                         /\ \A n \in DOMAIN got[r] : got[r][n] <= polled[r]
                         /\ \A n \in DOMAIN queue[r] : queue[r][n] <= polled[r]
                         /\ \A n \in InCallback(r) : callbacks[n].item <= polled[r])'
      BY DEF ItemsAll
    <3>1. CASE r # s
      BY <1>2, <2>5, <3>1 DEF MessageInv, ItemsAll
    <3>2. CASE r = s
      <4>1. \A k \in 1 .. polled[s] : \/ \E n \in DOMAIN g : g[n] = k
                                      \/ \E n \in DOMAIN q : q[n] = k
                                      \/ \E n \in InCallback(s) : callbacks[n].item = k
        <5> SUFFICES ASSUME NEW k \in 1 .. polled[s], NEW n \in DOMAIN queue[s], queue[s][n] = k
                     PROVE  (\E m \in DOMAIN g : g[m] = k) \/ (\E m \in DOMAIN q : q[m] = k)
          BY <2>4 DEF MessageInv, ItemsAll
        <5> QED
          BY <2>3, <2>4
      <4>2. /\ \A n \in DOMAIN g : g[n] <= polled[s]
            /\ \A n \in DOMAIN q : q[n] <= polled[s]
        BY <1>3, <2>3, <2>4 DEF MessageInv, ItemsAll
      <4> QED
        BY <1>2, <3>2, <4>1, <4>2 DEF MessageInv, ItemsAll, q, g
    <3> QED
      BY <3>1, <3>2
  <2>10. ErrorsLast'
    <3>1. \A n \in DOMAIN q : q[n] = Error => n = Len(q) /\ InCallback(s) = {} /\ worker[s] \in Failed
      BY <2>3 DEF MessageInv, ErrorsLast
    <3>2. \A r \in Sessions : \A n \in DOMAIN queue'[r] :
            queue'[r][n] = Error => n = Len(queue'[r]) /\ InCallback(r) = {} /\ worker[r] \in Failed
      BY <2>5, <3>1 DEF MessageInv, ErrorsLast, q
    <3> QED
      BY <1>2, <3>2 DEF MessageInv, ErrorsLast
  <2> QED
    BY <2>8, <2>9, <2>10 DEF MessageInv
<1> QED
  BY <1>4, <1>5

LEMMA LoopKeepsMessages ==
  ASSUME TypeInv, MessageInv, NEW i \in Calls, API(i) \/ Continue(i) \/ Cancel(i)
  PROVE  MessageInv'
<1>t. AsyncTypeOK /\ session \in 0 .. MaxSessions /\ thread \in {0, session}
  BY DEF TypeInv, AsyncTypeOK
<1>1. ASSUME UNCHANGED <<got, queue, polled, callbacks, worker>> PROVE MessageInv'
  BY <1>1, SamePuts DEF InCallback
<1>2. CASE connect(i)
  <2>1. UNCHANGED <<got, queue, polled, callbacks>>
    BY <1>2 DEF connect
  <2>2. \A s \in Sessions : worker[s] \in Failed => worker'[s] \in Failed
    <3>1. CASE UNCHANGED worker
      BY <3>1
    <3>2. CASE worker' = [worker EXCEPT ![session + 1] = "connect"]
      <4>1. \A s \in Sessions : worker[s] \in Failed => s # session + 1
        BY <1>t DEF TypeInv, WorkersBegun, Failed, Sessions
      <4> QED
        BY <1>t, <3>2, <4>1 DEF AsyncTypeOK
    <3> QED
      BY <1>2, <3>1, <3>2 DEF connect
  <2> QED
    BY <2>1, <2>2, SamePuts DEF InCallback
<1>3. CASE close(i) \/ _call(i) \/ Resume(i) \/ CloseJoined(i) \/ Cancel(i)
  BY <1>1, <1>3 DEF close, _call, Resume, CloseJoined, Cancel
<1>4. CASE recv(i)
  <2>1. UNCHANGED <<worker, polled, callbacks>>
    BY <1>4 DEF recv
  <2>2. CASE Running /\ Take(i, session)
    <3>1. session \in Sessions
      BY <1>t, <2>2, AsyncAssumption DEF Running, Sessions
    <3> QED
      BY <1>t, <2>1, <2>2, <3>1, TakeKeepsMessages
  <2>3. CASE UNCHANGED <<queue, got>>
    BY <1>1, <2>1, <2>3
  <2> QED
    BY <1>4, <2>2, <2>3 DEF recv
<1>5. CASE RecvResumes(i)
  <2>1. call[i].on \in Sessions /\ Take(i, call[i].on) /\ UNCHANGED <<worker, polled, callbacks>>
    BY <1>5 DEF RecvResumes, TypeInv, WaitsOpen
  <2> QED
    BY <1>t, <2>1, TakeKeepsMessages
<1> QED
  BY <1>2, <1>3, <1>4, <1>5 DEF API, Continue

LEMMA CallbackKeepsMessages ==
  ASSUME TypeInv, MessageInv, RunCallback
  PROVE  MessageInv'
<1>t. AsyncTypeOK
  BY DEF TypeInv
<1>1. UNCHANGED <<got, worker, polled>> /\ callbacks # <<>> /\ callbacks' = Tail(callbacks)
  BY DEF RunCallback, RunComplete, RunPut
<1>2. /\ 1 \in DOMAIN callbacks /\ Head(callbacks) = callbacks[1] /\ callbacks[1] \in Callbacks
      /\ \A n \in DOMAIN callbacks' :
           n + 1 \in DOMAIN callbacks /\ callbacks'[n] = callbacks[n + 1] /\ n \in Nat /\ n # 0
      /\ \A n \in DOMAIN callbacks : n \in Nat /\ (n = 1 \/ n - 1 \in DOMAIN callbacks')
  BY <1>1, <1>t, CallbackTail
(* The callbacks move up by one place.                                     *)
<1>3. \A s \in Sessions :
        /\ \A n \in InCallback(s)' : /\ n + 1 \in InCallback(s) /\ n \in Nat
                                     /\ callbacks'[n].item = callbacks[n + 1].item
        /\ \A n \in InCallback(s) : n \in Nat /\ (n # 1 => /\ n - 1 \in InCallback(s)'
                                                           /\ callbacks'[n - 1].item = callbacks[n].item)
  <2> SUFFICES ASSUME NEW s \in Sessions
               PROVE  /\ \A n \in InCallback(s)' : /\ n + 1 \in InCallback(s) /\ n \in Nat
                                                   /\ callbacks'[n].item = callbacks[n + 1].item
                      /\ \A n \in InCallback(s) : n \in Nat /\ (n # 1 => /\ n - 1 \in InCallback(s)'
                                                           /\ callbacks'[n - 1].item = callbacks[n].item)
    OBVIOUS
  <2>1. \A n \in InCallback(s)' : /\ n + 1 \in InCallback(s) /\ n \in Nat
                                  /\ callbacks'[n].item = callbacks[n + 1].item
    BY <1>2 DEF InCallback
  <2>2. ASSUME NEW n \in InCallback(s), n # 1
        PROVE  n - 1 \in InCallback(s)' /\ callbacks'[n - 1].item = callbacks[n].item
    <3>1. n \in Nat /\ n - 1 \in DOMAIN callbacks' /\ n - 1 + 1 = n
      BY <1>2, <2>2 DEF InCallback
    <3>2. callbacks'[n - 1] = callbacks[n]
      BY <1>2, <3>1
    <3> QED
      BY <2>2, <3>1, <3>2 DEF InCallback
  <2> QED
    BY <1>2, <2>1, <2>2 DEF InCallback
<1>o. ASSUME NEW r \in Sessions
      PROVE  /\ \A m, n \in InCallback(r)' :
                  m < n /\ callbacks'[m].item # Error /\ callbacks'[n].item # Error
                    => callbacks'[m].item < callbacks'[n].item
             /\ \A m \in DOMAIN got[r] : \A n \in InCallback(r)' :
                  callbacks'[n].item # Error => got[r][m] < callbacks'[n].item
             /\ \A m \in DOMAIN queue[r] : \A n \in InCallback(r)' :
                  queue[r][m] # Error /\ callbacks'[n].item # Error
                    => queue[r][m] < callbacks'[n].item
             /\ \A n \in InCallback(r)' : callbacks'[n].item <= polled[r]
  <2>1. ASSUME NEW m \in InCallback(r)', NEW n \in InCallback(r)', m < n,
               callbacks'[m].item # Error, callbacks'[n].item # Error
        PROVE  callbacks'[m].item < callbacks'[n].item
    <3>1. /\ m + 1 \in InCallback(r) /\ m \in Nat /\ callbacks'[m].item = callbacks[m + 1].item
          /\ n + 1 \in InCallback(r) /\ n \in Nat /\ callbacks'[n].item = callbacks[n + 1].item
      BY <1>3
    <3>2. m + 1 < n + 1
      BY <2>1, <3>1
    <3>3. callbacks[m + 1].item # Error /\ callbacks[n + 1].item # Error
      BY <2>1, <3>1
    <3>4. callbacks[m + 1].item < callbacks[n + 1].item
      BY <3>1, <3>2, <3>3 DEF MessageInv, ItemsOrdered
    <3> QED
      BY <3>1, <3>4
  <2>2. ASSUME NEW n \in InCallback(r)'
        PROVE  /\ \A m \in DOMAIN got[r] : callbacks'[n].item # Error => got[r][m] < callbacks'[n].item
               /\ \A m \in DOMAIN queue[r] : queue[r][m] # Error /\ callbacks'[n].item # Error
                    => queue[r][m] < callbacks'[n].item
               /\ callbacks'[n].item <= polled[r]
    <3>1. n + 1 \in InCallback(r) /\ callbacks'[n].item = callbacks[n + 1].item
      BY <1>3
    <3> QED
      BY <3>1 DEF MessageInv, ItemsOrdered, ItemsAll
  <2> QED
    BY <2>1, <2>2
<1>e. ASSUME NEW r \in Sessions, NEW n \in InCallback(r)', callbacks'[n].item = Error
      PROVE  (\A m \in InCallback(r)' : m <= n) /\ worker'[r] \in Failed
  <2>1. n + 1 \in InCallback(r) /\ n \in Nat /\ callbacks[n + 1].item = Error
    BY <1>3, <1>e
  <2>2. (\A m \in InCallback(r) : m <= n + 1) /\ worker[r] \in Failed
    BY <2>1 DEF MessageInv, ErrorsLast
  <2>3. ASSUME NEW m \in InCallback(r)' PROVE m <= n
    <3>1. m + 1 \in InCallback(r) /\ m \in Nat
      BY <1>3
    <3>2. m + 1 <= n + 1
      BY <2>2, <3>1
    <3> QED
      BY <2>1, <3>1, <3>2
  <2> QED
    BY <1>1, <2>2, <2>3
<1>n. ASSUME NEW r \in Sessions, \A m \in InCallback(r) : m <= 1
      PROVE  InCallback(r)' = {}
  <2> SUFFICES ASSUME NEW n \in InCallback(r)' PROVE FALSE
    OBVIOUS
  <2>1. n + 1 \in InCallback(r) /\ n \in Nat /\ n # 0
    BY <1>2, <1>3 DEF InCallback
  <2>2. n + 1 <= 1
    BY <1>n, <2>1
  <2> QED
    BY <2>1, <2>2
<1>4. CASE RunComplete
  <2>1. UNCHANGED queue /\ callbacks[1].run = "complete"
    BY <1>2, <1>4 DEF RunComplete
  <2>2. \A s \in Sessions : 1 \notin InCallback(s)
    BY <2>1 DEF InCallback
  <2>3. ItemsOrdered'
    BY <1>1, <1>o, <2>1 DEF MessageInv, ItemsOrdered
  <2>4. ItemsAll'
    <3> SUFFICES ASSUME NEW r \in Sessions
                 PROVE  (/\ \A k \in 1 .. polled[r] :
                              \/ \E n \in DOMAIN got[r] : got[r][n] = k
                              \/ \E n \in DOMAIN queue[r] : queue[r][n] = k
                              \/ \E n \in InCallback(r) : callbacks[n].item = k
                         /\ \A n \in DOMAIN got[r] : got[r][n] <= polled[r]
                         /\ \A n \in DOMAIN queue[r] : queue[r][n] <= polled[r]
                         /\ \A n \in InCallback(r) : callbacks[n].item <= polled[r])'
      BY DEF ItemsAll
    <3>1. ASSUME NEW n \in InCallback(r)
          PROVE  n - 1 \in InCallback(r)' /\ callbacks'[n - 1].item = callbacks[n].item
      BY <1>3, <2>2
    <3>2. ASSUME NEW k, \E n \in InCallback(r) : callbacks[n].item = k
          PROVE  \E n \in InCallback(r)' : callbacks'[n].item = k
      BY <3>1, <3>2
    <3>3. \A k \in 1 .. polled[r] :
             \/ \E n \in DOMAIN got[r] : got[r][n] = k
             \/ \E n \in DOMAIN queue[r] : queue[r][n] = k
             \/ \E n \in InCallback(r)' : callbacks'[n].item = k
      BY <3>2 DEF MessageInv, ItemsAll
    <3>4. /\ \A n \in DOMAIN got[r] : got[r][n] <= polled[r]
          /\ \A n \in DOMAIN queue[r] : queue[r][n] <= polled[r]
      BY DEF MessageInv, ItemsAll
    <3> QED
      BY <1>1, <2>1, <1>o, <3>3, <3>4
  <2>5. ErrorsLast'
    <3>1. ASSUME NEW r \in Sessions, InCallback(r) = {} PROVE InCallback(r)' = {}
      BY <1>3, <3>1
    <3> QED
      BY <1>1, <1>e, <2>1, <3>1 DEF MessageInv, ErrorsLast
  <2> QED
    BY <2>3, <2>4, <2>5 DEF MessageInv
<1>5. CASE RunPut
  <2>1. PICK s \in Sessions, x \in 0 .. MaxMessages :
          /\ 1 \in InCallback(s) /\ callbacks[1].item = x /\ callbacks[1].to = s
          /\ queue' = [queue EXCEPT ![s] = Append(queue[s], x)]
    <3>1. callbacks[1].run = "put" /\ callbacks[1].to \in Sessions /\ callbacks[1].item \in 0 .. MaxMessages
      BY <1>2, <1>5 DEF RunPut, Callbacks
    <3> QED
      BY <1>2, <1>5, <3>1 DEF RunPut, PutNowait, InCallback
  <2>2. \A r \in Sessions : r # s => queue'[r] = queue[r] /\ 1 \notin InCallback(r)
    BY <1>t, <2>1 DEF AsyncTypeOK, InCallback
  <2>3. /\ \A n \in DOMAIN queue'[s] : \/ n \in DOMAIN queue[s] /\ queue'[s][n] = queue[s][n]
                                       \/ n = Len(queue[s]) + 1 /\ queue'[s][n] = x
        /\ \A n \in DOMAIN queue[s] : n \in DOMAIN queue'[s] /\ queue'[s][n] = queue[s][n]
                                      /\ n \in Nat /\ n <= Len(queue[s])
        /\ Len(queue[s]) + 1 \in DOMAIN queue'[s] /\ queue'[s][Len(queue[s]) + 1] = x
        /\ Len(queue[s]) \in Nat /\ Len(queue'[s]) = Len(queue[s]) + 1
    <3>1. queue[s] \in Seq(0 .. MaxMessages) /\ queue'[s] = Append(queue[s], x)
      BY <1>t, <2>1 DEF AsyncTypeOK
    <3> QED
      BY <3>1
  <2>4. \A n \in DOMAIN queue[s] : queue[s][n] # Error
    BY <2>1 DEF MessageInv, ErrorsLast
  <2>5. x = Error => InCallback(s)' = {} /\ worker[s] \in Failed
    <3>1. x = Error => worker[s] \in Failed /\ \A m \in InCallback(s) : m <= 1
      BY <2>1 DEF MessageInv, ErrorsLast
    <3> QED
      BY <1>n, <3>1
  <2>6. ItemsOrdered'
    <3> SUFFICES ASSUME NEW r \in Sessions
                 PROVE  (/\ \A m, n \in DOMAIN got[r] : m < n => got[r][m] < got[r][n]
                         /\ \A m, n \in DOMAIN queue[r] :
                              m < n /\ queue[r][m] # Error /\ queue[r][n] # Error => queue[r][m] < queue[r][n]
                         /\ \A m, n \in InCallback(r) :
                              m < n /\ callbacks[m].item # Error /\ callbacks[n].item # Error
                                => callbacks[m].item < callbacks[n].item
                         /\ \A m \in DOMAIN got[r] : \A n \in DOMAIN queue[r] :
                              queue[r][n] # Error => got[r][m] < queue[r][n]
                         /\ \A m \in DOMAIN got[r] : \A n \in InCallback(r) :
                              callbacks[n].item # Error => got[r][m] < callbacks[n].item
                         /\ \A m \in DOMAIN queue[r] : \A n \in InCallback(r) :
                              queue[r][m] # Error /\ callbacks[n].item # Error
                                => queue[r][m] < callbacks[n].item)'
      BY DEF ItemsOrdered
    <3>1. /\ \A m, n \in DOMAIN got'[r] : m < n => got'[r][m] < got'[r][n]
          /\ \A m, n \in InCallback(r)' :
               m < n /\ callbacks'[m].item # Error /\ callbacks'[n].item # Error
                 => callbacks'[m].item < callbacks'[n].item
          /\ \A m \in DOMAIN got'[r] : \A n \in InCallback(r)' :
               callbacks'[n].item # Error => got'[r][m] < callbacks'[n].item
      BY <1>1, <1>o DEF MessageInv, ItemsOrdered
    <3>2. \A m, n \in DOMAIN queue'[r] :
            m < n /\ queue'[r][m] # Error /\ queue'[r][n] # Error => queue'[r][m] < queue'[r][n]
      BY <2>1, <2>2, <2>3 DEF MessageInv, ItemsOrdered
    <3>3. \A m \in DOMAIN got'[r] : \A n \in DOMAIN queue'[r] :
            queue'[r][n] # Error => got'[r][m] < queue'[r][n]
      BY <1>1, <2>1, <2>2, <2>3 DEF MessageInv, ItemsOrdered
    <3>4. \A m \in DOMAIN queue'[r] : \A n \in InCallback(r)' :
            queue'[r][m] # Error /\ callbacks'[n].item # Error => queue'[r][m] < callbacks'[n].item
      <4>1. CASE r # s
        BY <1>3, <2>2, <4>1 DEF MessageInv, ItemsOrdered
      <4>2. CASE r = s
        <5> SUFFICES ASSUME NEW m \in DOMAIN queue'[s], NEW n \in InCallback(s)',
                            queue'[s][m] # Error, callbacks'[n].item # Error
                     PROVE  queue'[s][m] < callbacks'[n].item
          BY <4>2
        <5>1. n + 1 \in InCallback(s) /\ n \in Nat /\ callbacks'[n].item = callbacks[n + 1].item /\ 1 < n + 1
          <6>1. n + 1 \in InCallback(s) /\ n \in Nat /\ callbacks'[n].item = callbacks[n + 1].item
            BY <1>3
          <6>2. n # 0
            BY <1>2 DEF InCallback
          <6> QED
            BY <6>1, <6>2
        <5>2. CASE m \in DOMAIN queue[s] /\ queue'[s][m] = queue[s][m]
          BY <5>1, <5>2 DEF MessageInv, ItemsOrdered
        <5>3. CASE queue'[s][m] = x
          BY <2>1, <5>1, <5>3 DEF MessageInv, ItemsOrdered
        <5> QED
          BY <2>3, <5>2, <5>3
      <4> QED
        BY <4>1, <4>2
    <3> QED
      BY <3>1, <3>2, <3>3, <3>4
  <2>7. ItemsAll'
    <3> SUFFICES ASSUME NEW r \in Sessions
                 PROVE  (/\ \A k \in 1 .. polled[r] :
                              \/ \E n \in DOMAIN got[r] : got[r][n] = k
                              \/ \E n \in DOMAIN queue[r] : queue[r][n] = k
                              \/ \E n \in InCallback(r) : callbacks[n].item = k
                         /\ \A n \in DOMAIN got[r] : got[r][n] <= polled[r]
                         /\ \A n \in DOMAIN queue[r] : queue[r][n] <= polled[r]
                         /\ \A n \in InCallback(r) : callbacks[n].item <= polled[r])'
      BY DEF ItemsAll
    <3>1. ASSUME NEW k \in 1 .. polled[r]
          PROVE  \/ \E n \in DOMAIN got'[r] : got'[r][n] = k
                 \/ \E n \in DOMAIN queue'[r] : queue'[r][n] = k
                 \/ \E n \in InCallback(r)' : callbacks'[n].item = k
      <4>1. CASE \E n \in DOMAIN got[r] : got[r][n] = k
        BY <1>1, <4>1
      <4>2. CASE \E n \in DOMAIN queue[r] : queue[r][n] = k
        BY <2>2, <2>3, <4>2
      <4>3. CASE \E n \in InCallback(r) : callbacks[n].item = k
        <5>1. PICK n \in InCallback(r) : callbacks[n].item = k
          BY <4>3
        <5>2. CASE n = 1
          BY <2>1, <2>2, <2>3, <5>1, <5>2
        <5>3. CASE n # 1
          BY <1>3, <5>1, <5>3
        <5> QED
          BY <5>2, <5>3
      <4> QED
        BY <4>1, <4>2, <4>3 DEF MessageInv, ItemsAll
    <3>2. \A n \in DOMAIN got'[r] : got'[r][n] <= polled[r]
      BY <1>1 DEF MessageInv, ItemsAll
    <3>3. \A n \in DOMAIN queue'[r] : queue'[r][n] <= polled[r]
      BY <2>1, <2>2, <2>3 DEF MessageInv, ItemsAll
    <3>4. \A n \in InCallback(r)' : callbacks'[n].item <= polled[r]
      <4>1. \A n \in InCallback(r) : callbacks[n].item <= polled[r]
        BY DEF MessageInv, ItemsAll
      <4> QED
        BY <1>3, <4>1
    <3> QED
      BY <1>1, <3>1, <3>2, <3>3, <3>4
  <2>8. ErrorsLast'
    <3>1. \A r \in Sessions : \A n \in DOMAIN queue'[r] : queue'[r][n] = Error =>
            n = Len(queue'[r]) /\ InCallback(r)' = {} /\ worker'[r] \in Failed
      <4> SUFFICES ASSUME NEW r \in Sessions, NEW n \in DOMAIN queue'[r], queue'[r][n] = Error
                   PROVE  n = Len(queue'[r]) /\ InCallback(r)' = {} /\ worker'[r] \in Failed
        OBVIOUS
      <4>1. CASE r = s
        BY <1>1, <2>3, <2>4, <2>5, <4>1
      <4>2. CASE r # s
        BY <1>1, <1>3, <2>2, <4>2 DEF MessageInv, ErrorsLast
      <4> QED
        BY <4>1, <4>2
    <3>2. \A r \in Sessions : \A n \in InCallback(r)' : callbacks'[n].item = Error =>
            (\A m \in InCallback(r)' : m <= n) /\ worker'[r] \in Failed
      BY <1>e
    <3> QED
      BY <3>1, <3>2 DEF ErrorsLast
  <2> QED
    BY <2>6, <2>7, <2>8 DEF MessageInv
<1> QED
  BY <1>4, <1>5 DEF RunCallback

(* A worker that has not failed posts the next message, or its error: the  *)
(* new item stands behind all others, among which there is no error.       *)
LEMMA PutKeepsMessages ==
  ASSUME AsyncTypeOK, MessageInv, NEW s \in Sessions, session = s,
         NEW x \in 0 .. MaxMessages, Posts(Put(x)), UNCHANGED <<got, queue>>,
         worker[s] \notin Failed, \A r \in Sessions : r # s => worker'[r] = worker[r],
         \/ x = polled[s] + 1 /\ polled' = [polled EXCEPT ![s] = @ + 1]
         \/ x = Error /\ polled' = polled /\ worker'[s] \in Failed
  PROVE  MessageInv'
<1>1. callbacks \in Seq(Callbacks) /\ polled \in [Sessions -> 0 .. MaxMessages]
  BY DEF AsyncTypeOK
<1>2. PICK N \in Nat :
        /\ N \in DOMAIN callbacks' /\ callbacks'[N] = Put(x)
        /\ \A n \in DOMAIN callbacks : n \in DOMAIN callbacks' /\ callbacks'[n] = callbacks[n] /\ n < N /\ n \in Nat
        /\ \A n \in DOMAIN callbacks' : n = N \/ n \in DOMAIN callbacks
  <2>1. callbacks' = Append(callbacks, Put(x)) /\ Len(callbacks) \in Nat
    BY <1>1 DEF Posts
  <2> QED
    BY <1>1, <2>1
<1>3. callbacks'[N].run = "put" /\ callbacks'[N].to = s /\ callbacks'[N].item = x
  BY <1>2 DEF Put
<1>4. /\ N \in InCallback(s)'
      /\ \A n \in InCallback(s)' : n = N \/ n \in InCallback(s)
      /\ \A r \in Sessions : \A n \in InCallback(r) :
           n \in InCallback(r)' /\ callbacks'[n].item = callbacks[n].item /\ n < N /\ n \in Nat
      /\ \A r \in Sessions : r # s => InCallback(r)' = InCallback(r)
  <2>1. /\ N \in InCallback(s)' /\ \A n \in InCallback(s)' : n = N \/ n \in InCallback(s)
    BY <1>2, <1>3 DEF InCallback
  <2>2. \A r \in Sessions : \A n \in InCallback(r) :
           n \in InCallback(r)' /\ callbacks'[n].item = callbacks[n].item /\ n < N /\ n \in Nat
    BY <1>2, <1>3 DEF InCallback
  <2>3. \A r \in Sessions : r # s => \A n \in InCallback(r)' : n \in InCallback(r)
    BY <1>2, <1>3 DEF InCallback
  <2> QED
    BY <2>1, <2>2, <2>3
<1>5. /\ \A n \in DOMAIN queue[s] : queue[s][n] # Error
      /\ \A n \in InCallback(s) : callbacks[n].item # Error
  BY DEF MessageInv, ErrorsLast
<1>6. /\ \A r \in Sessions : r # s => polled'[r] = polled[r]
      /\ polled[s] \in Nat /\ polled'[s] \in Nat
      /\ \/ x = polled[s] + 1 /\ polled'[s] = polled[s] + 1
         \/ x = Error /\ polled'[s] = polled[s] /\ worker'[s] \in Failed
  BY <1>1, AsyncAssumption
<1>7. /\ \A n \in DOMAIN got[s] : got[s][n] \in Nat /\ got[s][n] <= polled[s]
      /\ \A n \in DOMAIN queue[s] : queue[s][n] \in Nat /\ queue[s][n] <= polled[s]
      /\ \A n \in InCallback(s) : callbacks[n].item \in Nat /\ callbacks[n].item <= polled[s]
  BY ItemTypes DEF MessageInv, ItemsAll
<1>8. ItemsOrdered'
  <2> SUFFICES ASSUME NEW r \in Sessions
               PROVE  (/\ \A m, n \in DOMAIN got[r] : m < n => got[r][m] < got[r][n]
                       /\ \A m, n \in DOMAIN queue[r] :
                            m < n /\ queue[r][m] # Error /\ queue[r][n] # Error => queue[r][m] < queue[r][n]
                       /\ \A m, n \in InCallback(r) :
                            m < n /\ callbacks[m].item # Error /\ callbacks[n].item # Error
                              => callbacks[m].item < callbacks[n].item
                       /\ \A m \in DOMAIN got[r] : \A n \in DOMAIN queue[r] :
                            queue[r][n] # Error => got[r][m] < queue[r][n]
                       /\ \A m \in DOMAIN got[r] : \A n \in InCallback(r) :
                            callbacks[n].item # Error => got[r][m] < callbacks[n].item
                       /\ \A m \in DOMAIN queue[r] : \A n \in InCallback(r) :
                            queue[r][m] # Error /\ callbacks[n].item # Error
                              => queue[r][m] < callbacks[n].item)'
    BY DEF ItemsOrdered
  <2>1. /\ \A m, n \in DOMAIN got[r] : m < n => got[r][m] < got[r][n]
        /\ \A m, n \in DOMAIN queue[r] :
             m < n /\ queue[r][m] # Error /\ queue[r][n] # Error => queue[r][m] < queue[r][n]
        /\ \A m \in DOMAIN got[r] : \A n \in DOMAIN queue[r] :
             queue[r][n] # Error => got[r][m] < queue[r][n]
        /\ \A m, n \in InCallback(r) :
             m < n /\ callbacks[m].item # Error /\ callbacks[n].item # Error
                => callbacks[m].item < callbacks[n].item
        /\ \A m \in DOMAIN got[r] : \A n \in InCallback(r) :
             callbacks[n].item # Error => got[r][m] < callbacks[n].item
        /\ \A m \in DOMAIN queue[r] : \A n \in InCallback(r) :
             queue[r][m] # Error /\ callbacks[n].item # Error => queue[r][m] < callbacks[n].item
    BY DEF MessageInv, ItemsOrdered
  <2>2. \A m, n \in InCallback(r)' :
             m < n /\ callbacks'[m].item # Error /\ callbacks'[n].item # Error
                => callbacks'[m].item < callbacks'[n].item
    <3>1. CASE r # s
      BY <1>4, <2>1, <3>1
    <3>2. CASE r = s
      <4> SUFFICES ASSUME NEW m \in InCallback(s)', NEW n \in InCallback(s)', m < n,
                          callbacks'[m].item # Error, callbacks'[n].item # Error
                   PROVE  callbacks'[m].item < callbacks'[n].item
        BY <3>2
      <4>1. m \in InCallback(s)
        <5>1. n = N \/ n \in InCallback(s)
          BY <1>4
        <5>2. n <= N /\ n \in Nat
          BY <1>4, <5>1
        <5>3. m = N \/ m \in InCallback(s)
          BY <1>4
        <5>4. m # N
          BY <5>2
        <5> QED
          BY <5>3, <5>4
      <4>2. CASE n \in InCallback(s)
        BY <1>4, <2>1, <3>2, <4>1, <4>2
      <4>3. CASE n = N
        <5>1. callbacks'[m].item = callbacks[m].item /\ callbacks[m].item <= polled[s] /\ callbacks[m].item \in Nat
          BY <1>4, <1>7, <4>1
        <5>2. callbacks'[n].item = polled[s] + 1
          BY <1>3, <1>6, <4>3
        <5> QED
          BY <1>6, <5>1, <5>2
      <4> QED
        BY <1>4, <4>2, <4>3
    <3> QED
      BY <3>1, <3>2
  <2>3. \A n \in InCallback(r)' : callbacks'[n].item # Error =>
             /\ \A m \in DOMAIN got[r] : got[r][m] < callbacks'[n].item
             /\ \A m \in DOMAIN queue[r] : queue[r][m] # Error => queue[r][m] < callbacks'[n].item
    <3> SUFFICES ASSUME NEW n \in InCallback(r)', callbacks'[n].item # Error
                 PROVE  /\ \A m \in DOMAIN got[r] : got[r][m] < callbacks'[n].item
                        /\ \A m \in DOMAIN queue[r] : queue[r][m] # Error => queue[r][m] < callbacks'[n].item
      OBVIOUS
    <3>1. CASE n \in InCallback(r)
      BY <1>4, <2>1, <3>1
    <3>2. CASE r = s /\ n = N
      <4>1. callbacks'[n].item = polled[s] + 1
        BY <1>3, <1>6, <3>2
      <4> QED
        BY <1>6, <1>7, <3>2, <4>1
    <3> QED
      BY <1>4, <3>1, <3>2
  <2> QED
    BY <2>1, <2>2, <2>3
<1>9. ItemsAll'
  <2> SUFFICES ASSUME NEW r \in Sessions
               PROVE  (/\ \A k \in 1 .. polled[r] :
                            \/ \E n \in DOMAIN got[r] : got[r][n] = k
                            \/ \E n \in DOMAIN queue[r] : queue[r][n] = k
                            \/ \E n \in InCallback(r) : callbacks[n].item = k
                       /\ \A n \in DOMAIN got[r] : got[r][n] <= polled[r]
                       /\ \A n \in DOMAIN queue[r] : queue[r][n] <= polled[r]
                       /\ \A n \in InCallback(r) : callbacks[n].item <= polled[r])'
    BY DEF ItemsAll
  <2>1. /\ \A k \in 1 .. polled[r] :
            \/ \E n \in DOMAIN got[r] : got[r][n] = k
            \/ \E n \in DOMAIN queue[r] : queue[r][n] = k
            \/ \E n \in InCallback(r) : callbacks[n].item = k
        /\ \A n \in DOMAIN got[r] : got[r][n] <= polled[r]
        /\ \A n \in DOMAIN queue[r] : queue[r][n] <= polled[r]
        /\ \A n \in InCallback(r) : callbacks[n].item <= polled[r]
    BY DEF MessageInv, ItemsAll
  <2>2. CASE r # s
    BY <1>4, <1>6, <2>1, <2>2
  <2>3. CASE r = s
    <3>1. ASSUME NEW k \in 1 .. polled'[s]
          PROVE  \/ \E n \in DOMAIN got[s] : got[s][n] = k
                 \/ \E n \in DOMAIN queue[s] : queue[s][n] = k
                 \/ \E n \in InCallback(s)' : callbacks'[n].item = k
      <4>1. k \in 1 .. polled[s] \/ k = x
        BY <1>6
      <4>2. CASE k \in 1 .. polled[s]
        BY <1>4, <2>1, <2>3, <4>2
      <4>3. CASE k = x
        BY <1>3, <1>4, <4>3
      <4> QED
        BY <4>1, <4>2, <4>3
    <3>2. polled[s] <= polled'[s] /\ x <= polled'[s]
      BY <1>6 DEF Error
    <3>3. /\ \A n \in DOMAIN got[s] : got[s][n] <= polled'[s]
          /\ \A n \in DOMAIN queue[s] : queue[s][n] <= polled'[s]
          /\ \A n \in InCallback(s) : callbacks[n].item <= polled'[s]
      BY <1>6, <1>7, <3>2
    <3>4. \A n \in InCallback(s)' : callbacks'[n].item <= polled'[s]
      BY <1>3, <1>4, <3>2, <3>3
    <3> QED
      BY <2>3, <3>1, <3>3, <3>4
  <2> QED
    BY <2>2, <2>3
<1>10. ErrorsLast'
  <2>1. \A r \in Sessions : r # s =>
          /\ \A n \in DOMAIN queue'[r] : queue'[r][n] = Error =>
               n = Len(queue'[r]) /\ InCallback(r)' = {} /\ worker'[r] \in Failed
          /\ \A n \in InCallback(r)' : callbacks'[n].item = Error =>
               (\A m \in InCallback(r)' : m <= n) /\ worker'[r] \in Failed
    BY <1>4 DEF MessageInv, ErrorsLast
  <2>2. \A n \in DOMAIN queue'[s] : queue'[s][n] # Error
    BY <1>5
  <2>3. ASSUME NEW n \in InCallback(s)', callbacks'[n].item = Error
        PROVE  (\A m \in InCallback(s)' : m <= n) /\ worker'[s] \in Failed
    <3>1. n = N
      BY <1>4, <1>5, <2>3
    <3>2. worker'[s] \in Failed
      BY <1>3, <1>6, <2>3, <3>1 DEF Error
    <3>3. ASSUME NEW m \in InCallback(s)' PROVE m <= N
      <4>1. m = N \/ m \in InCallback(s)
        BY <1>4
      <4> QED
        BY <1>4, <4>1
    <3> QED
      BY <3>1, <3>2, <3>3
  <2> QED
    BY <2>1, <2>2, <2>3 DEF ErrorsLast
<1> QED
  BY <1>8, <1>9, <1>10 DEF MessageInv

LEMMA WorkerKeepsMessages ==
  ASSUME TypeInv, Discipline, MessageInv, NEW s \in Sessions, _run(s)
  PROVE  MessageInv'
<1>t. AsyncTypeOK
  BY DEF TypeInv
<1>s. {"connect", "next", "handle", "poll", "fail_started", "publish_error", "fail_pending",
       "exit", "dead"} \subseteq WorkerStates
  BY DEF WorkerStates
<1>1. ASSUME NEW from, NEW to \in WorkerStates, Step(s, from, to)
      PROVE  worker[s] = from /\ worker'[s] = to
  BY <1>1, <1>t, StepTypes
<1>2. /\ s = session /\ UNCHANGED <<got, queue>>
      /\ \A r \in Sessions : r # s => worker'[r] = worker[r]
  BY WorkerStaysOnRecord, LatestSession
<1>3. ASSUME UNCHANGED polled, worker[s] \in Failed => worker'[s] \in Failed,
             UNCHANGED callbacks \/ \E f, v : Posts(Completion(f, v))
      PROVE  MessageInv'
  <2>1. ASSUME NEW r \in Sessions
        PROVE  /\ InCallback(r)' = InCallback(r)
               /\ \A n \in InCallback(r) : callbacks'[n].item = callbacks[n].item
    <3>1. CASE UNCHANGED callbacks
      BY <3>1 DEF InCallback
    <3>2. CASE \E f, v : Posts(Completion(f, v))
      <4>1. PICK f, v : Posts(Completion(f, v))
        BY <3>2
      <4>2. callbacks \in Seq(Callbacks)
        BY <1>t DEF AsyncTypeOK
      <4>3. /\ \A n \in DOMAIN callbacks : n \in DOMAIN callbacks' /\ callbacks'[n] = callbacks[n]
            /\ \A n \in DOMAIN callbacks' : n \in DOMAIN callbacks \/ callbacks'[n] = Completion(f, v)
        BY <4>1, <4>2 DEF Posts
      <4>4. Completion(f, v).run # "put"
        BY DEF Completion
      <4> QED
        BY <4>3, <4>4 DEF InCallback
    <3> QED
      BY <1>3, <3>1, <3>2
  <2>2. \A r \in Sessions : worker[r] \in Failed => worker'[r] \in Failed
    BY <1>2, <1>3
  <2> QED
    BY <1>2, <1>3, <2>1, <2>2, SamePuts
<1> USE DEF _complete, Post, CallSoon, Posts
<1>4. CASE NativeConnects(s) \/ _fail_started(s)
  <2>1. worker[s] \notin Failed
    BY <1>1, <1>4, <1>s DEF NativeConnects, _fail_started, Failed
  <2> QED
    BY <1>3, <1>4, <2>1 DEF NativeConnects, _fail_started, Completion
<1>5. CASE NativeRaises(s) \/ NoCommand(s) \/ PollNothing(s)
  <2>1. worker[s] \notin Failed
    BY <1>1, <1>5, <1>s DEF NativeRaises, NoCommand, PollNothing, Failed
  <2> QED
    BY <1>3, <1>5, <2>1 DEF NativeRaises, NoCommand, PollNothing
<1>6. CASE _next_command(s)
  <2>1. worker[s] \notin Failed
    BY <1>6 DEF _next_command, Failed
  <2> QED
    BY <1>3, <1>6, <2>1 DEF _next_command, Completion
<1>7. CASE _handle_command(s)
  <2>1. worker[s] \notin Failed
    BY <1>1, <1>7, <1>s DEF _handle_command, Failed
  <2> QED
    BY <1>3, <1>7, <2>1 DEF _handle_command, Completion
<1>8. CASE _fail_pending(s)
  <2>1. CASE commands # <<>>
    BY <1>3, <1>8, <2>1 DEF _fail_pending, Completion
  <2>2. CASE commands = <<>>
    <3>1. worker'[s] \in Failed
      BY <1>1, <1>8, <1>s, <2>2 DEF _fail_pending, Failed
    <3> QED
      BY <1>3, <1>8, <2>2, <3>1 DEF _fail_pending
  <2> QED
    BY <2>1, <2>2
<1>9. CASE ThreadEnds(s)
  <2>1. worker'[s] \in Failed
    BY <1>1, <1>9, <1>s DEF ThreadEnds, Failed
  <2> QED
    BY <1>3, <1>9, <2>1 DEF ThreadEnds
<1>10. CASE PollMessage(s)
  <2>1. polled[s] + 1 \in 0 .. MaxMessages
    BY <1>10, <1>t, AsyncAssumption DEF PollMessage, AsyncTypeOK
  <2>2. /\ worker[s] \notin Failed /\ polled' = [polled EXCEPT ![s] = @ + 1]
        /\ Posts(Put(polled[s] + 1))
    BY <1>10 DEF PollMessage, Failed, Put
  <2> QED
    BY <1>2, <1>t, <2>1, <2>2, PutKeepsMessages
<1>11. CASE _publish_worker_error(s)
  <2>1. Error \in 0 .. MaxMessages
    BY AsyncAssumption DEF Error
  <2>2. /\ worker[s] \notin Failed /\ worker'[s] \in Failed /\ polled' = polled
    BY <1>1, <1>11, <1>s DEF _publish_worker_error, Failed
  <2>3. Posts(Put(Error))
    BY <1>11 DEF _publish_worker_error, Put
  <2> QED
    BY <1>2, <1>t, <2>1, <2>2, <2>3, PutKeepsMessages
<1> QED
  BY <1>4, <1>5, <1>6, <1>7, <1>8, <1>9, <1>10, <1>11 DEF _run

LEMMA MessageInvariant ==
  ASSUME Disciplined
  PROVE  Spec => [](TypeInv /\ MessageInv)
<1> DEFINE Inv == TypeInv /\ Discipline /\ CommandInv
<1>1. Init => MessageInv
  BY InitMessages
<1>2. Inv /\ MessageInv /\ [Next]_vars => MessageInv'
  <2> SUFFICES ASSUME Inv, MessageInv, [Next]_vars PROVE MessageInv'
    OBVIOUS
  <2>1. CASE UNCHANGED vars
    BY <2>1, SamePuts DEF InCallback
  <2> QED
    BY <2>1, LoopKeepsMessages, CallbackKeepsMessages, WorkerKeepsMessages DEF Next
<1>3. Spec => []Inv
  BY CommandInvariant
<1> HIDE DEF Inv
<1>4. Inv => TypeInv
  BY DEF Inv
<1> QED
  BY <1>1, <1>2, <1>3, <1>4, PTL DEF Spec

(* A place is one of three kinds, and so is the item that stands there.    *)
LEMMA PlaceKinds ==
  ASSUME NEW s \in Sessions, NEW p \in Places(s)
  PROVE  \/ \E n \in DOMAIN got[s] : p = <<1, n>> /\ ItemAt(s, p) = got[s][n]
         \/ \E n \in DOMAIN queue[s] : p = <<2, n>> /\ ItemAt(s, p) = queue[s][n]
         \/ \E n \in InCallback(s) : p = <<3, n>> /\ ItemAt(s, p) = callbacks[n].item
<1>1. CASE \E n \in DOMAIN got[s] : p = <<1, n>>
  BY <1>1 DEF ItemAt
<1>2. CASE \E n \in DOMAIN queue[s] : p = <<2, n>>
  BY <1>2 DEF ItemAt
<1>3. CASE \E n \in InCallback(s) : p = <<3, n>>
  BY <1>3 DEF ItemAt
<1> QED
  BY <1>1, <1>2, <1>3 DEF Places

LEMMA PlacesThere ==
  ASSUME NEW s \in Sessions
  PROVE  /\ \A n \in DOMAIN got[s] : <<1, n>> \in Places(s) /\ ItemAt(s, <<1, n>>) = got[s][n]
         /\ \A n \in DOMAIN queue[s] : <<2, n>> \in Places(s) /\ ItemAt(s, <<2, n>>) = queue[s][n]
         /\ \A n \in InCallback(s) : <<3, n>> \in Places(s) /\ ItemAt(s, <<3, n>>) = callbacks[n].item
BY DEF Places, ItemAt

(* Every message poll() returned is on its way to recv(), or has arrived,  *)
(* once and in order, for any number of messages, sessions, failures and   *)
(* cancelled calls.                                                        *)
THEOREM MessagesAreConserved ==
  ASSUME Disciplined
  PROVE  Spec => []MessagesConserved
<1>1. ASSUME TypeInv, MessageInv PROVE MessagesConserved
  <2> SUFFICES ASSUME NEW s \in Sessions
               PROVE  /\ {ItemAt(s, p) : p \in Places(s)} \ {Error} = 1 .. polled[s]
                      /\ \A p, q \in Places(s) :
                           Ahead(p, q) /\ Error \notin {ItemAt(s, p), ItemAt(s, q)}
                             => ItemAt(s, p) < ItemAt(s, q)
    BY DEF MessagesConserved
  <2>1. /\ \A n \in DOMAIN got[s] : got[s][n] \in Nat /\ got[s][n] # 0
        /\ \A n \in DOMAIN queue[s] : queue[s][n] \in Nat
        /\ \A n \in InCallback(s) : callbacks[n].item \in Nat
        /\ polled[s] \in Nat
    BY <1>1, ItemTypes, AsyncAssumption DEF TypeInv
  <2>2. ASSUME NEW p \in Places(s), ItemAt(s, p) # Error PROVE ItemAt(s, p) \in 1 .. polled[s]
    <3>1. CASE \E n \in DOMAIN got[s] : p = <<1, n>> /\ ItemAt(s, p) = got[s][n]
      BY <1>1, <2>1, <2>2, <3>1 DEF MessageInv, ItemsAll, Error
    <3>2. CASE \E n \in DOMAIN queue[s] : p = <<2, n>> /\ ItemAt(s, p) = queue[s][n]
      BY <1>1, <2>1, <2>2, <3>2 DEF MessageInv, ItemsAll, Error
    <3>3. CASE \E n \in InCallback(s) : p = <<3, n>> /\ ItemAt(s, p) = callbacks[n].item
      BY <1>1, <2>1, <2>2, <3>3 DEF MessageInv, ItemsAll, Error
    <3> QED
      BY <3>1, <3>2, <3>3, PlaceKinds
  <2>3. ASSUME NEW k \in 1 .. polled[s] PROVE \E p \in Places(s) : ItemAt(s, p) = k
    <3>1. \/ \E n \in DOMAIN got[s] : got[s][n] = k
          \/ \E n \in DOMAIN queue[s] : queue[s][n] = k
          \/ \E n \in InCallback(s) : callbacks[n].item = k
      BY <1>1 DEF MessageInv, ItemsAll
    <3> QED
      BY <3>1, PlacesThere
  <2>4. ASSUME NEW p \in Places(s), NEW q \in Places(s), Ahead(p, q),
               ItemAt(s, p) # Error, ItemAt(s, q) # Error
        PROVE  ItemAt(s, p) < ItemAt(s, q)
    <3>1. /\ \A m, n \in DOMAIN got[s] : m < n => got[s][m] < got[s][n]
          /\ \A m, n \in DOMAIN queue[s] :
               m < n /\ queue[s][m] # Error /\ queue[s][n] # Error => queue[s][m] < queue[s][n]
          /\ \A m, n \in InCallback(s) :
               m < n /\ callbacks[m].item # Error /\ callbacks[n].item # Error
                 => callbacks[m].item < callbacks[n].item
          /\ \A m \in DOMAIN got[s] : \A n \in DOMAIN queue[s] :
               queue[s][n] # Error => got[s][m] < queue[s][n]
          /\ \A m \in DOMAIN got[s] : \A n \in InCallback(s) :
               callbacks[n].item # Error => got[s][m] < callbacks[n].item
          /\ \A m \in DOMAIN queue[s] : \A n \in InCallback(s) :
               queue[s][m] # Error /\ callbacks[n].item # Error => queue[s][m] < callbacks[n].item
      BY <1>1 DEF MessageInv, ItemsOrdered
    <3>2. CASE \E m \in DOMAIN got[s] : p = <<1, m>> /\ ItemAt(s, p) = got[s][m]
      <4>1. PICK m \in DOMAIN got[s] : p = <<1, m>> /\ ItemAt(s, p) = got[s][m]
        BY <3>2
      <4>2. CASE \E n \in DOMAIN got[s] : q = <<1, n>> /\ ItemAt(s, q) = got[s][n]
        BY <2>4, <3>1, <4>1, <4>2 DEF Ahead
      <4>3. CASE \E n \in DOMAIN queue[s] : q = <<2, n>> /\ ItemAt(s, q) = queue[s][n]
        BY <2>4, <3>1, <4>1, <4>3
      <4>4. CASE \E n \in InCallback(s) : q = <<3, n>> /\ ItemAt(s, q) = callbacks[n].item
        BY <2>4, <3>1, <4>1, <4>4
      <4> QED
        BY <4>2, <4>3, <4>4, PlaceKinds
    <3>3. CASE \E m \in DOMAIN queue[s] : p = <<2, m>> /\ ItemAt(s, p) = queue[s][m]
      <4>1. PICK m \in DOMAIN queue[s] : p = <<2, m>> /\ ItemAt(s, p) = queue[s][m]
        BY <3>3
      <4>2. CASE \E n \in DOMAIN got[s] : q = <<1, n>> /\ ItemAt(s, q) = got[s][n]
        BY <2>4, <4>1, <4>2 DEF Ahead
      <4>3. CASE \E n \in DOMAIN queue[s] : q = <<2, n>> /\ ItemAt(s, q) = queue[s][n]
        BY <2>4, <3>1, <4>1, <4>3 DEF Ahead
      <4>4. CASE \E n \in InCallback(s) : q = <<3, n>> /\ ItemAt(s, q) = callbacks[n].item
        BY <2>4, <3>1, <4>1, <4>4
      <4> QED
        BY <4>2, <4>3, <4>4, PlaceKinds
    <3>4. CASE \E m \in InCallback(s) : p = <<3, m>> /\ ItemAt(s, p) = callbacks[m].item
      <4>1. PICK m \in InCallback(s) : p = <<3, m>> /\ ItemAt(s, p) = callbacks[m].item
        BY <3>4
      <4>2. CASE \E n \in DOMAIN got[s] : q = <<1, n>> /\ ItemAt(s, q) = got[s][n]
        BY <2>4, <4>1, <4>2 DEF Ahead
      <4>3. CASE \E n \in DOMAIN queue[s] : q = <<2, n>> /\ ItemAt(s, q) = queue[s][n]
        BY <2>4, <4>1, <4>3 DEF Ahead
      <4>4. CASE \E n \in InCallback(s) : q = <<3, n>> /\ ItemAt(s, q) = callbacks[n].item
        BY <2>4, <3>1, <4>1, <4>4 DEF Ahead
      <4> QED
        BY <4>2, <4>3, <4>4, PlaceKinds
    <3> QED
      BY <3>2, <3>3, <3>4, PlaceKinds
  <2>5. {ItemAt(s, p) : p \in Places(s)} \ {Error} = 1 .. polled[s]
    <3>1. 0 \notin 1 .. polled[s]
      BY <2>1
    <3> QED
      BY <2>2, <2>3, <3>1 DEF Error
  <2> QED
    BY <2>4, <2>5
<1> QED
  BY <1>1, MessageInvariant, PTL

(* Once the error of the latest session is in its queue, the object knows  *)
(* it, and _ensure_running refuses every new recv().                       *)
ErrorKnown == session \in Sessions /\ ErrorReached(session) => worker_error

LEMMA TakeReachesNothing ==
  ASSUME AsyncTypeOK, NEW i \in Calls, NEW r \in Sessions, Take(i, r), NEW s \in Sessions,
         ErrorReached(s)'
  PROVE  ErrorReached(s)
<1>1. queue \in [Sessions -> Seq(0 .. MaxMessages)] /\ queue[r] # <<>>
  BY DEF AsyncTypeOK, Take
<1>2. CASE s # r
  <2>1. queue'[s] = queue[s]
    BY <1>1, <1>2 DEF Take
  <2> QED
    BY <2>1 DEF ErrorReached
<1>3. CASE s = r
  <2> DEFINE q == queue[s]
  <2>1. /\ q \in Seq(0 .. MaxMessages) /\ q # <<>> /\ 1 \in DOMAIN q /\ Head(q) = q[1]
        /\ Tail(q) \in Seq(0 .. MaxMessages)
        /\ \A n \in DOMAIN Tail(q) : n + 1 \in DOMAIN q /\ Tail(q)[n] = q[n + 1]
    BY <1>1, <1>3
  <2>2. CASE Head(q) = Error
    BY <2>1, <2>2 DEF ErrorReached
  <2>3. CASE Head(q) # Error
    <3>1. queue'[s] = Tail(q)
      BY <1>1, <1>3, <2>3 DEF Take
    <3> QED
      BY <2>1, <3>1 DEF ErrorReached
  <2> QED
    BY <2>2, <2>3
<1> QED
  BY <1>2, <1>3

LEMMA StepKeepsErrorKnown ==
  ASSUME TypeInv, MessageInv, ErrorKnown, [Next]_vars
  PROVE  ErrorKnown'
<1>t. AsyncTypeOK /\ session \in 0 .. MaxSessions /\ thread \in {0, session} /\ MaxSessions \in Nat
  BY AsyncAssumption DEF TypeInv, AsyncTypeOK
<1>1. ASSUME UNCHANGED <<session, worker_error, queue>> PROVE ErrorKnown'
  BY <1>1 DEF ErrorKnown, ErrorReached
<1>2. ASSUME NEW i \in Calls, connect(i) PROVE ErrorKnown'
  <2>1. CASE thread # 0
    BY <1>1, <1>2, <2>1 DEF connect
  <2>2. CASE thread = 0
    <3>1. session' = session + 1 /\ session + 1 \in Sessions /\ queue' = queue
      BY <1>2, <1>t, <2>2 DEF connect, Sessions
    <3>2. worker[session + 1] = "none"
      BY <1>t, <3>1 DEF TypeInv, WorkersBegun
    <3>3. ~ErrorReached(session + 1)
      BY <3>1, <3>2 DEF MessageInv, ErrorsLast, ErrorReached, Failed
    <3> QED
      BY <3>1, <3>3 DEF ErrorKnown, ErrorReached
  <2> QED
    BY <2>1, <2>2
<1>3. ASSUME NEW i \in Calls, NEW r \in Sessions, Take(i, r), UNCHANGED <<session, worker_error>>
      PROVE  ErrorKnown'
  <2>1. \A s \in Sessions : ErrorReached(s)' => ErrorReached(s)
    BY <1>3, <1>t, TakeReachesNothing
  <2>2. \A s \in Sessions : s = session => (ErrorReached(session)' => ErrorReached(s)')
    BY <1>3 DEF ErrorReached
  <2> QED
    BY <1>3, <2>1, <2>2 DEF ErrorKnown
<1>4. ASSUME NEW i \in Calls, recv(i) PROVE ErrorKnown'
  <2>1. CASE Running /\ Take(i, session)
    <3>1. session \in Sessions
      BY <1>t, <2>1 DEF Running, Sessions
    <3> QED
      BY <1>3, <1>4, <2>1, <3>1 DEF recv
  <2>2. CASE UNCHANGED queue
    BY <1>1, <1>4, <2>2 DEF recv
  <2> QED
    BY <1>4, <2>1, <2>2 DEF recv
<1>5. ASSUME NEW i \in Calls, RecvResumes(i) PROVE ErrorKnown'
  BY <1>3, <1>5 DEF RecvResumes, TypeInv, WaitsOpen
<1>6. CASE RunPut
  <2> DEFINE b == Head(callbacks)
  <2>1. /\ queue' = [queue EXCEPT ![b.to] = Append(@, b.item)] /\ session' = session
        /\ worker_error' = (worker_error \/ b.item = Error)
    BY <1>6 DEF RunPut, PutNowait
  <2>2. SUFFICES ASSUME session \in Sessions, ErrorReached(session)', b.item # Error
                 PROVE  ErrorReached(session)
    BY <2>1 DEF ErrorKnown
  <2>3. queue \in [Sessions -> Seq(0 .. MaxMessages)]
    BY <1>t DEF AsyncTypeOK
  <2>4. PICK n \in DOMAIN queue'[session] : queue'[session][n] = Error
    BY <2>1, <2>2 DEF ErrorReached
  <2>5. CASE b.to # session
    BY <2>1, <2>2, <2>3, <2>4, <2>5 DEF ErrorReached
  <2>6. CASE b.to = session
    <3>1. queue'[session] = Append(queue[session], b.item) /\ queue[session] \in Seq(0 .. MaxMessages)
      BY <2>1, <2>2, <2>3, <2>6
    <3>2. n \in DOMAIN queue[session] /\ queue[session][n] = Error
      BY <2>2, <2>4, <3>1
    <3> QED
      BY <3>2 DEF ErrorReached
  <2> QED
    BY <2>5, <2>6
<1>7. ASSUME NEW i \in Calls, close(i) \/ _call(i) \/ Resume(i) \/ CloseJoined(i) \/ Cancel(i)
      PROVE  ErrorKnown'
  BY <1>1, <1>7 DEF close, _call, Resume, CloseJoined, Cancel
<1>8. CASE RunComplete
  BY <1>1, <1>8 DEF RunComplete
<1>9. ASSUME NEW s \in Sessions, _run(s) PROVE ErrorKnown'
  BY <1>1, <1>9 DEF _run, NativeConnects, NativeRaises, _next_command, NoCommand, _handle_command,
       PollMessage, PollNothing, _fail_started, _publish_worker_error, _fail_pending, ThreadEnds
<1>10. CASE UNCHANGED vars
  BY <1>1, <1>10
<1> QED
  BY <1>2, <1>4, <1>5, <1>6, <1>7, <1>8, <1>9, <1>10 DEF Next, API, Continue, RunCallback

(* An error at the head of a queue is all there is left of its session.    *)
LEMMA ErrorLeavesNothing ==
  ASSUME TypeInv, MessageInv, NEW s \in Sessions, queue[s] # <<>>, Head(queue[s]) = Error
  PROVE  AllRead(s)
<1>1. /\ queue[s] \in Seq(0 .. MaxMessages) /\ 1 \in DOMAIN queue[s] /\ queue[s][1] = Error
      /\ DOMAIN queue[s] = 1 .. Len(queue[s])
  BY DEF TypeInv, AsyncTypeOK
<1>2. 1 = Len(queue[s]) /\ InCallback(s) = {}
  BY <1>1 DEF MessageInv, ErrorsLast
<1>3. \A n \in DOMAIN queue[s] : queue[s][n] = Error
  BY <1>1, <1>2
<1>4. polled[s] \in Nat
  BY ItemTypes DEF TypeInv
<1> QED
  BY <1>2, <1>3, <1>4 DEF MessageInv, ItemsAll, AllRead, Error

(* When a worker fails, a recv() that waits is given the error only after  *)
(* every message has been read, and what nobody waits for by the time the  *)
(* error is there is never read.                                           *)
THEOREM ReadingEnds ==
  ASSUME Disciplined
  PROVE  Spec => ErrorEndsReading
<1> DEFINE Ends(s) ==
      /\ \A i \in Calls : Waits(i, s) /\ call'[i].state = "raised" => AllRead(s)
      /\ ErrorReached(s) /\ (\A i \in Calls : ~Waits(i, s)) => got'[s] = got[s]
<1>1. Init => ErrorKnown
  BY AsyncAssumption DEF Init, ErrorKnown, Sessions
<1>2. TypeInv /\ MessageInv /\ ErrorKnown /\ [Next]_vars => ErrorKnown'
  BY StepKeepsErrorKnown
<1>3. ASSUME TypeInv, MessageInv, ErrorKnown, [Next]_vars PROVE \A s \in Sessions : Ends(s)
  <2>t. AsyncTypeOK
    BY <1>3 DEF TypeInv
  <2>1. ASSUME NEW i \in Calls, got' = got,
               call[i].state # "get" \/ call'[i].state # "raised",
               \A j \in Calls : j # i => call'[j] = call[j],
               NEW s \in Sessions
        PROVE  Ends(s)
    BY <2>1 DEF Waits
  <2>2. ASSUME UNCHANGED <<call, got>>, NEW s \in Sessions PROVE Ends(s)
    BY <2>2 DEF Waits
  <2>3. ASSUME NEW i \in Calls, connect(i) \/ close(i) \/ _call(i), NEW s \in Sessions
        PROVE  Ends(s)
    <3>1. got' = got /\ call[i].state = "unused"
      BY <2>3 DEF connect, close, _call, MayCall
    <3>2. \E kind, state, on : Enter(i, kind, state, on)
      BY <2>3 DEF connect, close, _call
    <3>3. \A j \in Calls : j # i => call'[j] = call[j]
      BY <2>t, <3>2 DEF Enter, AsyncTypeOK
    <3> QED
      BY <2>1, <3>1, <3>3
  <2>4. ASSUME NEW i \in Calls, Resume(i) \/ CloseJoined(i) \/ Cancel(i), NEW s \in Sessions
        PROVE  Ends(s)
    <3>1. got' = got /\ (call[i].state # "get" \/ Leave(i, "cancelled"))
      BY <2>4 DEF Resume, CloseJoined, Cancel
    <3>2. \E state : Leave(i, state)
      BY <2>4 DEF Resume, CloseJoined, Cancel
    <3>3. \A j \in Calls : j # i => call'[j] = call[j]
      BY <2>t, <3>2 DEF Leave, AsyncTypeOK
    <3>4. Leave(i, "cancelled") => call'[i].state = "cancelled"
      BY <2>t DEF Leave, AsyncTypeOK
    <3> QED
      BY <2>1, <3>1, <3>3, <3>4
  <2>5. ASSUME NEW i \in Calls, NEW r \in Sessions, Take(i, r)
        PROVE  /\ \A j \in Calls : j # i => call'[j] = call[j]
               /\ \A s \in Sessions : s # r => got'[s] = got[s]
               /\ call'[i].state = "raised" => AllRead(r)
    <3>1. \E state : Enter(i, "recv", state, r)
      BY <2>5 DEF Take
    <3>2. \A j \in Calls : j # i => call'[j] = call[j]
      BY <2>t, <3>1 DEF Enter, AsyncTypeOK
    <3>3. \A s \in Sessions : s # r => got'[s] = got[s]
      BY <2>5, <2>t DEF Take, AsyncTypeOK
    <3>4. CASE Head(queue[r]) = Error
      BY <1>3, <2>5, <3>2, <3>3, <3>4, ErrorLeavesNothing DEF Take
    <3>5. CASE Head(queue[r]) # Error
      <4>1. call'[i].state = "returned"
        BY <2>5, <2>t, <3>5 DEF Take, Enter, AsyncTypeOK
      <4> QED
        BY <3>2, <3>3, <4>1
    <3> QED
      BY <3>4, <3>5
  <2>6. ASSUME NEW i \in Calls, recv(i), NEW s \in Sessions PROVE Ends(s)
    <3>1. call[i].state = "unused"
      BY <2>6 DEF recv, MayCall
    <3>2. CASE Running /\ Take(i, session)
      <4>1. session \in Sessions
        BY <2>t, <3>2, AsyncAssumption DEF AsyncTypeOK, Running, Sessions
      <4>2. ~ErrorReached(session)
        BY <1>3, <3>2, <4>1 DEF ErrorKnown, Running
      <4>3. /\ \A j \in Calls : j # i => call'[j] = call[j]
            /\ s # session => got'[s] = got[s]
        BY <2>5, <3>2, <4>1
      <4> QED
        BY <3>1, <4>2, <4>3 DEF Waits
    <3>3. CASE UNCHANGED got /\ \E state : Enter(i, "recv", state, session)
      <4>1. \A j \in Calls : j # i => call'[j] = call[j]
        BY <2>t, <3>3 DEF Enter, AsyncTypeOK
      <4> QED
        BY <2>1, <3>1, <3>3, <4>1
    <3> QED
      BY <2>6, <3>2, <3>3 DEF recv
  <2>7. ASSUME NEW i \in Calls, RecvResumes(i), NEW s \in Sessions PROVE Ends(s)
    <3>1. call[i].state = "get" /\ call[i].on \in Sessions /\ Take(i, call[i].on)
      BY <1>3, <2>7 DEF RecvResumes, TypeInv, WaitsOpen
    <3>2. /\ \A j \in Calls : j # i => call'[j] = call[j]
          /\ s # call[i].on => got'[s] = got[s]
          /\ call'[i].state = "raised" => AllRead(call[i].on)
      BY <2>5, <3>1
    <3> QED
      BY <3>1, <3>2 DEF Waits
  <2>8. ASSUME RunCallback, NEW s \in Sessions PROVE Ends(s)
    BY <2>2, <2>8 DEF RunCallback, RunComplete, RunPut
  <2>9. ASSUME NEW r \in Sessions, _run(r), NEW s \in Sessions PROVE Ends(s)
    <3>1. UNCHANGED <<call, got>>
      BY <2>9 DEF _run, NativeConnects, NativeRaises, _next_command, NoCommand, _handle_command,
           PollMessage, PollNothing, _fail_started, _publish_worker_error, _fail_pending, ThreadEnds
    <3> QED
      BY <2>2, <3>1
  <2> HIDE DEF Ends
  <2> QED
    BY <1>3, <2>2, <2>3, <2>4, <2>6, <2>7, <2>8, <2>9 DEF Next, API, Continue
<1>4. ASSUME TypeInv, MessageInv, ErrorKnown, [Next]_vars
      PROVE  [\A s \in Sessions : Ends(s)]_vars
  BY <1>3, <1>4
<1>5. Spec => [](TypeInv /\ MessageInv)
  BY MessageInvariant
<1> QED
  BY <1>1, <1>2, <1>4, <1>5, PTL DEF Spec, ErrorEndsReading
=============================================================================
