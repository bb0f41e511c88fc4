----------------------------- MODULE WaitProofs -----------------------------
(***************************************************************************)
(* Nobody is forgotten: every call of the asyncio wrapper that waits has   *)
(* something that will answer it, for any number of calls, sessions and    *)
(* messages.                                                               *)
(***************************************************************************)
EXTENDS AsyncProofs

USE DEF loopVars, workerVars, vars

-----------------------------------------------------------------------------
(* The invariant.                                                          *)

(* The callbacks the loop has yet to run, as a set, and the answers among  *)
(* them.                                                                   *)
Ready == {callbacks[n] : n \in DOMAIN callbacks}
Completes(f, v) == \E b \in Ready : b.run = "complete" /\ b.future = f /\ b.value = v

(* Future f is done with v, or will be when the loop comes to it.          *)
AnsweredWith(f, v) == future[f] = v \/ Completes(f, v)

(* The _started of an open session is answered, or its worker will do it.  *)
StartsServed ==
  \A s \in Sessions : s <= session /\ future[Started(s)] = "pending" =>
    OnWay(Started(s)) \/ worker[s] \in {"connect", "fail_started"}
ConnectsOpen ==
  \A i \in Calls : call[i].state = "await" /\ call[i].kind = "connect" =>
    call[i].on \in Sessions /\ call[i].on <= session

(* A command or close() that waits is answered, in hand or in the queue,   *)
(* and a queue is served unless its worker has failed.                     *)
CommandsHeld ==
  \A i \in Calls :
    call[i].state = "await" /\ call[i].kind # "connect" /\ future[Own(i)] = "pending" =>
      OnWay(Own(i)) \/ Handled(i) \/ Queued(i)
QueueServed ==
  commands # <<>> => session \in Sessions /\ (Serves(session) \/ ErrorPosted(session))

(* The close() in the queue waits, unanswered, and is the last call made;  *)
(* a worker that answers a close() leaves, one that refuses it has failed. *)
Closing(i) == call[i].kind = "close" /\ Used(i)
ClosesWait ==
  \A i \in Calls : Closing(i) =>
    /\ Queued(i) => /\ call[i].state = "await" /\ future[Own(i)] = "pending"
                    /\ ~OnWay(Own(i))
    /\ InProgress(i) => \A j \in Calls : i < j => ~Used(j)
    /\ \A s \in Sessions : Handling(s) => command[s] # i
ClosesAnswered ==
  \A i \in Calls : Closing(i) =>
    /\ AnsweredWith(Own(i), "result") => call[i].on \in Sessions /\ Leaving(call[i].on)
    /\ AnsweredWith(Own(i), "error") => call[i].on \in Sessions /\ ErrorPosted(call[i].on)
    /\ future[Own(i)] # "cancelled"
JoinsLeaving ==
  \A i \in Calls : call[i].state = "join" => call[i].on \in Sessions /\ Leaving(call[i].on)

(* A recv() waits on the thread on record, which serves unless it has      *)
(* failed or is being closed.                                              *)
GetsThread == \A i \in Calls : call[i].state = "get" => call[i].on = thread /\ thread # 0
ThreadServed ==
  thread # 0 =>
    \/ Serves(thread) \/ ErrorPosted(thread)
    \/ \E i \in Calls : InProgress(i) /\ call[i].kind = "close"
FailurePosted == \A s \in Sessions : worker[s] = "fail_pending" => ErrorPosted(s)

WaitInv ==
  /\ StartsServed /\ ConnectsOpen /\ CommandsHeld /\ QueueServed /\ ClosesWait
  /\ ClosesAnswered /\ JoinsLeaving /\ GetsThread /\ ThreadServed /\ FailurePosted

LEMMA InitWait == Init => WaitInv
<1> SUFFICES ASSUME Init PROVE WaitInv
  OBVIOUS
<1>1. /\ \A i \in Calls : call[i].state = "unused" /\ call[i].kind = "none"
      /\ \A s \in Sessions : worker[s] = "none" /\ ~(s <= session)
      /\ commands = <<>> /\ thread = 0
  BY AsyncAssumption DEF Init, Sessions
<1>2. StartsServed /\ ConnectsOpen /\ CommandsHeld /\ QueueServed
  BY <1>1 DEF StartsServed, ConnectsOpen, CommandsHeld, QueueServed
<1>3. ClosesWait /\ ClosesAnswered /\ JoinsLeaving
  BY <1>1 DEF ClosesWait, ClosesAnswered, JoinsLeaving, Closing
<1>4. GetsThread /\ ThreadServed /\ FailurePosted
  BY <1>1 DEF GetsThread, ThreadServed, FailurePosted
<1> QED
  BY <1>2, <1>3, <1>4 DEF WaitInv

-----------------------------------------------------------------------------
(* The two queues between the threads, seen as sets.                       *)

ErrorReady(s) == \E b \in Ready : b.run = "put" /\ b.to = s /\ b.item = Error

LEMMA ReadyViews ==
  ASSUME AsyncTypeOK
  PROVE  /\ Ready \subseteq Callbacks
         /\ \A f : OnWay(f) <=> \E b \in Ready : b.run = "complete" /\ b.future = f
         /\ \A f : OnWay(f) <=> Completes(f, "result") \/ Completes(f, "error")
         /\ \A s \in Sessions : ErrorPosted(s) <=> ErrorReached(s) \/ ErrorReady(s)
<1>1. callbacks \in Seq(Callbacks)
  BY DEF AsyncTypeOK
<1>2. Ready \subseteq Callbacks
  BY <1>1 DEF Ready
<1>3. \A b \in Ready : b.run = "complete" => b.value \in {"result", "error"}
  BY <1>2 DEF Callbacks
<1>4. \A f : OnWay(f) <=> \E b \in Ready : b.run = "complete" /\ b.future = f
  BY DEF OnWay, Ready
<1>5. \A f : OnWay(f) <=> Completes(f, "result") \/ Completes(f, "error")
  BY <1>3, <1>4 DEF Completes
<1>6. \A s \in Sessions : ErrorPosted(s) <=> ErrorReached(s) \/ ErrorReady(s)
  BY DEF ErrorPosted, ErrorReached, ErrorReady, InCallback, Ready
<1> QED
  BY <1>2, <1>4, <1>5, <1>6

LEMMA ReadyViewsNext ==
  ASSUME AsyncTypeOK'
  PROVE  /\ Ready' \subseteq Callbacks
         /\ \A f \in Futures : OnWay(f)' <=> \E b \in Ready' : b.run = "complete" /\ b.future = f
         /\ \A f \in Futures : OnWay(f)' <=> Completes(f, "result")' \/ Completes(f, "error")'
         /\ \A s \in Sessions : ErrorPosted(s)' <=> ErrorReached(s)' \/ ErrorReady(s)'
<1>1. callbacks' \in Seq(Callbacks)
  BY DEF AsyncTypeOK
<1>2. Ready' \subseteq Callbacks
  BY <1>1 DEF Ready
<1>3. \A b \in Ready' : b.run = "complete" => b.value \in {"result", "error"}
  BY <1>2 DEF Callbacks
<1>4. \A f \in Futures : OnWay(f)' <=> \E b \in Ready' : b.run = "complete" /\ b.future = f
  BY DEF OnWay, Ready
<1>5. \A f \in Futures : OnWay(f)' <=> Completes(f, "result")' \/ Completes(f, "error")'
  BY <1>3, <1>4 DEF Completes
<1>6. \A s \in Sessions : ErrorPosted(s)' <=> ErrorReached(s)' \/ ErrorReady(s)'
  BY DEF ErrorPosted, ErrorReached, ErrorReady, InCallback, Ready
<1> QED
  BY <1>2, <1>4, <1>5, <1>6

LEMMA ReadyAfterPost ==
  ASSUME AsyncTypeOK, NEW b, Posts(b)
  PROVE  Ready' = Ready \cup {b}
<1>1. callbacks \in Seq(Callbacks) /\ callbacks' = Append(callbacks, b)
  BY DEF AsyncTypeOK, Posts
<1>2. /\ DOMAIN callbacks' = DOMAIN callbacks \cup {Len(callbacks) + 1}
      /\ \A n \in DOMAIN callbacks : callbacks'[n] = callbacks[n]
      /\ callbacks'[Len(callbacks) + 1] = b
  BY <1>1
<1> QED
  BY <1>2 DEF Ready

LEMMA ReadyAfterRun ==
  ASSUME AsyncTypeOK, callbacks # <<>>, callbacks' = Tail(callbacks)
  PROVE  /\ Ready = Ready' \cup {Head(callbacks)}
         /\ Head(callbacks) \in Callbacks
<1>1. /\ 1 \in DOMAIN callbacks /\ Head(callbacks) = callbacks[1] /\ callbacks[1] \in Callbacks
      /\ \A n \in DOMAIN callbacks' : n + 1 \in DOMAIN callbacks /\ callbacks'[n] = callbacks[n + 1]
      /\ \A n \in DOMAIN callbacks : n \in Nat /\ (n = 1 \/ n - 1 \in DOMAIN callbacks')
  BY CallbackTail
<1>2. \A n \in DOMAIN callbacks : n # 1 => callbacks[n] = callbacks'[n - 1]
  BY <1>1
<1>3. Ready \subseteq Ready' \cup {callbacks[1]}
  BY <1>1, <1>2 DEF Ready
<1>4. Ready' \cup {callbacks[1]} \subseteq Ready
  BY <1>1 DEF Ready
<1> QED
  BY <1>1, <1>3, <1>4

(* What a step of the worker does to the queue of commands.                *)
LEMMA QueueAfterGet ==
  ASSUME AsyncTypeOK, CommandInv, commands # <<>>, commands' = Tail(commands)
  PROVE  /\ Head(commands) \in Calls /\ Queued(Head(commands)) /\ Used(Head(commands))
         /\ \A i \in Calls : Queued(i)' => Queued(i) /\ i # Head(commands)
         /\ \A i \in Calls : Queued(i) => Queued(i)' \/ i = Head(commands)
         /\ commands' # <<>> => \E j \in Calls : Used(j) /\ Head(commands) < j
<1>1. /\ 1 \in DOMAIN commands /\ Head(commands) = commands[1]
      /\ \A n \in DOMAIN commands' : n + 1 \in DOMAIN commands /\ commands'[n] = commands[n + 1]
  BY CommandTail
<1>2. commands \in Seq(Calls) /\ commands' \in Seq(Calls)
  BY HeadTailProperties DEF AsyncTypeOK
<1>3. /\ \A n \in DOMAIN commands' : n \in Nat /\ n # 0
      /\ \A n \in DOMAIN commands : n \in Nat /\ commands[n] \in Calls /\ (n = 1 \/ n - 1 \in DOMAIN commands')
  BY <1>2
<1>4. \A m, n \in DOMAIN commands : m < n => commands[m] < commands[n]
  BY DEF CommandInv, CommandsOrdered
<1>5. \A i, j \in Calls : i < j => j # i
  BY AsyncAssumption DEF Calls
<1>6. Head(commands) \in Calls /\ Queued(Head(commands)) /\ Used(Head(commands))
  BY <1>1, <1>3 DEF Queued, CommandInv, CommandsUsed
<1>7. \A n \in DOMAIN commands' : /\ commands'[n] \in Calls /\ commands[1] < commands'[n]
                                  /\ commands'[n] # commands[1] /\ Used(commands'[n])
  <2> SUFFICES ASSUME NEW n \in DOMAIN commands'
               PROVE  /\ commands'[n] \in Calls /\ commands[1] < commands'[n]
                      /\ commands'[n] # commands[1] /\ Used(commands'[n])
    OBVIOUS
  <2>1. n + 1 \in DOMAIN commands /\ commands'[n] = commands[n + 1] /\ 1 < n + 1
    BY <1>1, <1>3
  <2>2. commands[n + 1] \in Calls /\ commands[1] \in Calls /\ commands[1] < commands[n + 1]
    BY <1>1, <1>3, <1>4, <2>1
  <2>3. Used(commands[n + 1])
    BY <2>1 DEF CommandInv, CommandsUsed
  <2>4. commands[n + 1] # commands[1]
    BY <1>5, <2>2
  <2> QED
    BY <2>1, <2>2, <2>3, <2>4
<1>8. \A i \in Calls : Queued(i)' => Queued(i) /\ i # Head(commands)
  BY <1>1, <1>7 DEF Queued
<1>9. \A i \in Calls : Queued(i) => Queued(i)' \/ i = Head(commands)
  <2> SUFFICES ASSUME NEW n \in DOMAIN commands, n # 1
               PROVE  \E m \in DOMAIN commands' : commands'[m] = commands[n]
    BY <1>1 DEF Queued
  <2>1. n - 1 \in DOMAIN commands' /\ commands'[n - 1] = commands[(n - 1) + 1] /\ n \in Nat
    BY <1>1, <1>3
  <2> QED
    BY <2>1
<1>10. commands' # <<>> => \E j \in Calls : Used(j) /\ Head(commands) < j
  <2>1. commands' # <<>> => 1 \in DOMAIN commands'
    BY <1>2
  <2> QED
    BY <1>1, <1>7, <2>1
<1> QED
  BY <1>6, <1>8, <1>9, <1>10

-----------------------------------------------------------------------------
(* A worker error that has been posted stays posted: recv() puts it back.  *)

LEMMA TakeKeepsErrors ==
  ASSUME AsyncTypeOK, NEW i \in Calls, NEW r \in Sessions, Take(i, r), NEW s \in Sessions,
         ErrorReached(s)
  PROVE  ErrorReached(s)'
<1>1. /\ queue \in [Sessions -> Seq(0 .. MaxMessages)] /\ queue[r] # <<>>
      /\ queue[r] \in Seq(0 .. MaxMessages)
  BY DEF Take, AsyncTypeOK
<1>2. CASE s # r
  <2>1. queue'[s] = queue[s]
    BY <1>1, <1>2 DEF Take
  <2> QED
    BY <2>1 DEF ErrorReached
<1>3. CASE s = r /\ Head(queue[r]) = Error
  <2>1. queue'[r] = Append(Tail(queue[r]), Error)
    BY <1>1, <1>3 DEF Take, AfterError, PutNowait
  <2>2. Tail(queue[r]) \in Seq(0 .. MaxMessages)
    BY <1>1, HeadTailProperties
  <2>3. /\ Len(Tail(queue[r])) + 1 \in DOMAIN queue'[r]
        /\ queue'[r][Len(Tail(queue[r])) + 1] = Error
    BY <2>1, <2>2
  <2> QED
    BY <1>3, <2>3 DEF ErrorReached
<1>4. CASE s = r /\ Head(queue[r]) # Error
  <2>1. queue'[r] = Tail(queue[r])
    BY <1>1, <1>4 DEF Take
  <2>2. PICK n \in DOMAIN queue[r] : queue[r][n] = Error
    BY <1>4 DEF ErrorReached
  <2>3. n # 1 /\ n \in 1 .. Len(queue[r]) /\ Len(queue[r]) \in Nat
    BY <1>1, <1>4, <2>2
  <2>4. n - 1 \in DOMAIN Tail(queue[r]) /\ Tail(queue[r])[n - 1] = queue[r][n]
    BY <1>1, <2>3
  <2> QED
    BY <1>4, <2>1, <2>2, <2>4 DEF ErrorReached
<1> QED
  BY <1>2, <1>3, <1>4

LEMMA LoopKeepsErrors ==
  ASSUME TypeInv, NEW i \in Calls, API(i) \/ Continue(i) \/ Cancel(i), NEW s \in Sessions,
         ErrorPosted(s)
  PROVE  ErrorPosted(s)'
<1>1. AsyncTypeOK /\ AsyncTypeOK'
  BY LoopKeepsTypes DEF TypeInv
<1>2. UNCHANGED callbacks
  BY DEF API, Continue, Cancel, connect, close, _call, recv, Resume, CloseJoined, RecvResumes
<1>3. queue' = queue \/ \E r \in Sessions : Take(i, r)
  <2>1. CASE recv(i) /\ Running
    <3>1. session \in Sessions
      BY <1>1, <2>1, AsyncAssumption DEF Running, AsyncTypeOK, Sessions
    <3> QED
      BY <2>1, <3>1 DEF recv
  <2>2. CASE RecvResumes(i)
    BY <2>2 DEF RecvResumes, TypeInv, WaitsOpen
  <2>3. CASE recv(i) /\ ~Running
    BY <2>3 DEF recv
  <2> QED
    BY <2>1, <2>2, <2>3 DEF API, Continue, Cancel, connect, close, _call, Resume, CloseJoined
<1>4. ErrorReached(s) => ErrorReached(s)'
  <2>1. CASE queue' = queue
    BY <2>1 DEF ErrorReached
  <2> QED
    BY <1>1, <1>3, <2>1, TakeKeepsErrors
<1>5. ErrorReady(s) => ErrorReady(s)'
  BY <1>2 DEF ErrorReady, Ready
<1> QED
  BY <1>1, <1>4, <1>5, ReadyViews, ReadyViewsNext

LEMMA CallbackKeepsErrors ==
  ASSUME TypeInv, RunCallback, NEW s \in Sessions, ErrorPosted(s)
  PROVE  ErrorPosted(s)'
<1>1. AsyncTypeOK /\ AsyncTypeOK'
  BY CallbackKeepsTypes DEF TypeInv
<1>2. callbacks # <<>> /\ callbacks' = Tail(callbacks)
  BY DEF RunCallback, RunComplete, RunPut
<1>3. Ready = Ready' \cup {Head(callbacks)} /\ Head(callbacks) \in Callbacks
  BY <1>1, <1>2, ReadyAfterRun
<1>4. CASE RunComplete
  <2>1. queue' = queue /\ Head(callbacks).run = "complete"
    BY <1>4 DEF RunComplete
  <2>2. ErrorReached(s) => ErrorReached(s)'
    BY <2>1 DEF ErrorReached
  <2>3. ErrorReady(s) => ErrorReady(s)'
    BY <1>3, <2>1 DEF ErrorReady
  <2> QED
    BY <1>1, <2>2, <2>3, ReadyViews, ReadyViewsNext
<1>5. CASE RunPut
  <2> DEFINE b == Head(callbacks)
  <2>1. b.run = "put" /\ queue' = [queue EXCEPT ![b.to] = Append(@, b.item)]
    BY <1>5 DEF RunPut, PutNowait
  <2>2. queue \in [Sessions -> Seq(0 .. MaxMessages)]
    BY <1>1 DEF AsyncTypeOK
  <2> HIDE DEF b
  <2>3. \A n \in DOMAIN queue[s] : n \in DOMAIN queue'[s] /\ queue'[s][n] = queue[s][n]
    BY <2>1, <2>2
  <2>4. b.to = s => /\ Len(queue[s]) + 1 \in DOMAIN queue'[s]
                    /\ queue'[s][Len(queue[s]) + 1] = b.item
    BY <2>1, <2>2
  <2>5. ErrorReached(s) => ErrorReached(s)'
    BY <2>3 DEF ErrorReached
  <2>6. ErrorReady(s) => ErrorReady(s)' \/ ErrorReached(s)'
    <3>1. ErrorReady(s) => ErrorReady(s)' \/ (b.to = s /\ b.item = Error)
      BY <1>3 DEF ErrorReady, b
    <3> QED
      BY <2>4, <3>1 DEF ErrorReached
  <2> QED
    BY <1>1, <2>5, <2>6, ReadyViews, ReadyViewsNext
<1> QED
  BY <1>4, <1>5 DEF RunCallback

LEMMA WorkerKeepsErrors ==
  ASSUME TypeInv, NEW r \in Sessions, _run(r), NEW s \in Sessions, ErrorPosted(s)
  PROVE  ErrorPosted(s)'
<1>1. AsyncTypeOK /\ AsyncTypeOK'
  BY WorkerKeepsTypes DEF TypeInv
<1>2. queue' = queue
  BY WorkerStaysOnRecord
<1>3. UNCHANGED callbacks \/ \E b : Posts(b)
  BY WorkerHasEffect DEF Quiet, Answered, Taken, Done
<1>4. Ready \subseteq Ready'
  <2>1. CASE UNCHANGED callbacks
    BY <2>1 DEF Ready
  <2> QED
    BY <1>1, <1>3, <2>1, ReadyAfterPost
<1>5. ErrorReached(s) => ErrorReached(s)'
  BY <1>2 DEF ErrorReached
<1>6. ErrorReady(s) => ErrorReady(s)'
  BY <1>4 DEF ErrorReady
<1> QED
  BY <1>1, <1>5, <1>6, ReadyViews, ReadyViewsNext

-----------------------------------------------------------------------------
(* Steps of the event loop.                                                *)

(* connect() opens a session.                                              *)
Opened ==
  /\ thread = 0 /\ session < MaxSessions /\ session' = session + 1 /\ thread' = session + 1
  /\ worker' = [worker EXCEPT ![session + 1] = "connect"]

(* What a step of call i does, beyond LoopEffect, to what calls wait for.  *)
Begins(i) ==
  /\ \A j \in Calls : InProgress(j) => call[j].kind \notin Lifecycle /\ call'[i].kind \notin Lifecycle
  /\ UNCHANGED future
  /\ call'[i].state = "await" =>
       \/ /\ call'[i].kind = "connect" /\ UNCHANGED commands
          /\ call'[i].on = session' /\ session' # 0
       \/ /\ call'[i].kind \in {"close", "command"} /\ commands' = Append(commands, i)
          /\ thread # 0 /\ UNCHANGED <<session, thread>>
  /\ call'[i].state = "get" =>
       call'[i].kind = "recv" /\ call'[i].on = thread /\ thread # 0 /\ thread' = thread
  /\ call'[i].state # "join"
  /\ Opened \/ UNCHANGED <<session, worker, thread>>
     \/ (UNCHANGED <<session, worker>> /\ thread' = 0 /\ \A j \in Calls : ~InProgress(j))
Proceeds(i) ==
  /\ InProgress(i) /\ call'[i].on = call[i].on
  /\ \A f \in Futures : future'[f] # future[f] => f = Own(i) /\ call[i].kind \notin Lifecycle
  /\ call'[i].state \notin {"await", "get"}
  /\ call'[i].state = "join" =>
       call[i].state = "await" /\ call[i].kind = "close" /\ future[Own(i)] = "result"
  /\ UNCHANGED <<session, worker>>
  /\ thread' = thread \/ (thread' = 0 /\ call[i].state = "join")
  /\ call[i].kind = "close" =>
       /\ call[i].state = "await" => future[Own(i)] # "pending"
       /\ ~InProgress(i)' =>
            thread' = 0 \/ (call[i].state = "await" /\ future[Own(i)] \in {"error", "cancelled"})

LEMMA CallBegins ==
  ASSUME TypeInv, Discipline, Disciplined, NEW i \in Calls, API(i)
  PROVE  call[i].state = "unused" /\ Begins(i)
<1>t. /\ AsyncTypeOK /\ session \in 0 .. MaxSessions /\ thread \in 0 .. MaxSessions
      /\ thread \in {0, session} /\ MaxSessions \in Nat
  BY AsyncAssumption DEF TypeInv, AsyncTypeOK
<1>b. /\ {"connect", "close", "command", "recv"} \subseteq Lifecycle \cup {"command", "recv"}
      /\ {"await", "get", "returned", "raised"} \subseteq CallStates
      /\ "connect" \in Lifecycle /\ "close" \in Lifecycle
      /\ "command" \notin Lifecycle /\ "recv" \notin Lifecycle
  BY DEF Lifecycle, CallStates
<1>m. ASSUME NEW kind, MayCall(i, kind)
      PROVE  /\ call[i].state = "unused"
             /\ \A j \in Calls : InProgress(j) => kind \notin Lifecycle /\ call[j].kind \notin Lifecycle
  BY <1>m DEF MayCall
<1>e. ASSUME NEW kind \in Lifecycle \cup {"command", "recv"}, NEW state \in CallStates,
             NEW s \in 0 .. MaxSessions, Enter(i, kind, state, s)
      PROVE  call'[i].kind = kind /\ call'[i].state = state /\ call'[i].on = s
  BY <1>e, <1>t, EnterTypes
<1>1. CASE connect(i)
  <2>1. MayCall(i, "connect") /\ UNCHANGED <<future, commands>>
    BY <1>1 DEF connect
  <2>2. CASE thread # 0
    <3>1. Enter(i, "connect", "await", session) /\ UNCHANGED <<session, thread, worker>>
      BY <1>1, <2>2 DEF connect
    <3>2. call'[i].kind = "connect" /\ call'[i].state = "await" /\ call'[i].on = session
      BY <1>t, <1>b, <1>e, <3>1
    <3>3. session' # 0 /\ call'[i].on = session'
      BY <1>t, <2>2, <3>1, <3>2
    <3> QED
      BY <1>m, <1>b, <2>1, <3>1, <3>2, <3>3 DEF Begins
  <2>3. CASE thread = 0
    <3>1. Enter(i, "connect", "await", session + 1) /\ Opened
      BY <1>1, <2>3 DEF connect, Opened
    <3>2. session + 1 \in 0 .. MaxSessions /\ session' = session + 1 /\ session' # 0
      BY <1>t, <3>1 DEF Opened
    <3>3. call'[i].kind = "connect" /\ call'[i].state = "await" /\ call'[i].on = session + 1
      BY <1>b, <1>e, <3>1, <3>2
    <3> QED
      BY <1>m, <1>b, <2>1, <3>1, <3>2, <3>3 DEF Begins
  <2> QED
    BY <2>2, <2>3
<1>2. CASE close(i)
  <2>1. MayCall(i, "close") /\ UNCHANGED <<future, session, worker>>
    BY <1>2 DEF close
  <2>2. call[i].state = "unused" /\ \A j \in Calls : ~InProgress(j)
    BY <1>b, <1>m, <2>1
  <2>3. CASE Alive(thread)
    <3>1. Enter(i, "close", "await", thread) /\ commands' = Append(commands, i) /\ UNCHANGED thread
      BY <1>2, <2>3 DEF close
    <3>2. call'[i].kind = "close" /\ call'[i].state = "await"
      BY <1>t, <1>b, <1>e, <3>1
    <3>3. thread # 0
      BY <2>3 DEF Alive, Sessions
    <3> QED
      BY <2>1, <2>2, <3>1, <3>2, <3>3 DEF Begins
  <2>4. CASE ~Alive(thread)
    <3>1. Enter(i, "close", "returned", thread) /\ thread' = 0
      BY <1>2, <2>4 DEF close
    <3>2. call'[i].kind = "close" /\ call'[i].state = "returned"
      BY <1>t, <1>b, <1>e, <3>1
    <3> QED
      BY <2>1, <2>2, <3>1, <3>2 DEF Begins
  <2> QED
    BY <2>3, <2>4
<1>3. CASE _call(i)
  <2>1. MayCall(i, "command") /\ UNCHANGED <<future, session, worker, thread>>
    BY <1>3 DEF _call
  <2>2. CASE Running
    <3>1. Enter(i, "command", "await", session) /\ commands' = Append(commands, i) /\ thread # 0
      BY <1>3, <2>2 DEF _call, Running
    <3>2. call'[i].kind = "command" /\ call'[i].state = "await"
      BY <1>t, <1>b, <1>e, <3>1
    <3> QED
      BY <1>m, <1>b, <2>1, <3>1, <3>2 DEF Begins
  <2>3. CASE ~Running
    <3>1. Enter(i, "command", "raised", session)
      BY <1>3, <2>3 DEF _call
    <3>2. call'[i].kind = "command" /\ call'[i].state = "raised"
      BY <1>t, <1>b, <1>e, <3>1
    <3> QED
      BY <1>m, <1>b, <2>1, <3>1, <3>2 DEF Begins
  <2> QED
    BY <2>2, <2>3
<1>4. CASE recv(i)
  <2>1. MayCall(i, "recv") /\ UNCHANGED <<future, session, worker, thread>>
    BY <1>4 DEF recv
  <2>2. CASE Running /\ Enter(i, "recv", "get", session)
    <3>1. call'[i].kind = "recv" /\ call'[i].state = "get" /\ call'[i].on = session
      BY <1>t, <1>b, <1>e, <2>2
    <3>2. thread # 0 /\ session = thread
      BY <1>t, <2>2 DEF Running
    <3> QED
      BY <1>m, <1>b, <2>1, <3>1, <3>2 DEF Begins
  <2>3. CASE Enter(i, "recv", "raised", session) \/ Enter(i, "recv", "returned", session)
    <3>1. call'[i].kind = "recv" /\ call'[i].state \in {"raised", "returned"}
      BY <1>t, <1>b, <1>e, <2>3
    <3> QED
      BY <1>m, <1>b, <2>1, <3>1 DEF Begins
  <2> QED
    BY <1>4, <2>2, <2>3 DEF recv, Take
<1> QED
  BY <1>1, <1>2, <1>3, <1>4 DEF API

LEMMA CallProceeds ==
  ASSUME TypeInv, Discipline, Disciplined, NEW i \in Calls, Continue(i) \/ Cancel(i)
  PROVE  Proceeds(i)
<1>t. AsyncTypeOK
  BY DEF TypeInv
<1>b. /\ {"join", "returned", "raised", "cancelled"} \subseteq CallStates
      /\ "connect" \in Lifecycle /\ "close" \in Lifecycle /\ "recv" \in Lifecycle \cup {"command", "recv"}
      /\ "recv" \notin Lifecycle
  BY DEF Lifecycle, CallStates
<1>l. ASSUME NEW state \in CallStates, Leave(i, state)
      PROVE  call'[i].state = state /\ call'[i].on = call[i].on /\ call'[i].kind = call[i].kind
  BY <1>l, <1>t, LeaveTypes
<1>1. CASE RecvResumes(i)
  <2>1. /\ call[i].state = "get" /\ call[i].kind = "recv" /\ call[i].on \in Sessions
        /\ call[i].on \in 0 .. MaxSessions
    BY <1>1, <1>t DEF RecvResumes, Discipline, Kinds, TypeInv, WaitsOpen, Sessions
  <2>2. PICK state \in {"raised", "returned"} : Enter(i, "recv", state, call[i].on)
    BY <1>1 DEF RecvResumes, Take
  <2>3. state \in CallStates
    BY <1>b
  <2>4. call'[i].state = state /\ call'[i].on = call[i].on
    BY <1>t, <1>b, <2>1, <2>2, <2>3, EnterTypes
  <2>5. UNCHANGED <<future, session, thread, worker>>
    BY <1>1 DEF RecvResumes
  <2> QED
    BY <2>1, <2>2, <2>4, <2>5 DEF Proceeds, InProgress
<1>2. CASE Resume(i)
  <2>1. /\ call[i].state = "await" /\ future[Awaited(i)] # "pending"
        /\ UNCHANGED <<future, session, thread, worker>>
    BY <1>2 DEF Resume
  <2>2. InProgress(i)
    BY <2>1 DEF InProgress
  <2>3. call[i].kind = "close" => Awaited(i) = Own(i)
    BY DEF Awaited
  <2>4. Awaited(i) \in Futures \/ call[i].kind # "close"
    BY <2>3 DEF Futures
  <2>5. CASE future[Awaited(i)] = "result" /\ call[i].kind = "close"
    <3>1. Leave(i, "join")
      BY <1>2, <2>5 DEF Resume
    <3>2. call'[i].state = "join" /\ call'[i].on = call[i].on
      BY <1>b, <1>l, <3>1
    <3>3. InProgress(i)'
      BY <3>2 DEF InProgress
    <3> QED
      BY <2>1, <2>2, <2>3, <2>5, <3>2, <3>3 DEF Proceeds
  <2>6. CASE ~(future[Awaited(i)] = "result" /\ call[i].kind = "close")
    <3>1. Leave(i, "raised") \/ Leave(i, "returned")
      BY <1>2, <2>6 DEF Resume
    <3>2. call'[i].state \in {"raised", "returned"} /\ call'[i].on = call[i].on
      BY <1>b, <1>l, <3>1
    <3>3. call[i].kind = "close" => future[Own(i)] \in {"error", "cancelled"}
      BY <1>t, <2>1, <2>3, <2>4, <2>6 DEF AsyncTypeOK
    <3>4. call[i].kind = "close" => future[Own(i)] # "pending"
      BY <2>1, <2>3
    <3> QED
      BY <2>1, <2>2, <3>2, <3>3, <3>4 DEF Proceeds
  <2> QED
    BY <2>5, <2>6
<1>3. CASE CloseJoined(i)
  <2>1. /\ call[i].state = "join" /\ Leave(i, "returned") /\ thread' = 0
        /\ UNCHANGED <<future, session, worker>>
    BY <1>3 DEF CloseJoined
  <2>2. call'[i].state = "returned" /\ call'[i].on = call[i].on
    BY <1>b, <1>l, <2>1
  <2> QED
    BY <2>1, <2>2 DEF Proceeds, InProgress
<1>4. CASE Cancel(i)
  <2>1. /\ InProgress(i) /\ call[i].kind \notin Lifecycle /\ Leave(i, "cancelled")
        /\ UNCHANGED <<session, thread, worker>>
        /\ future' = [future EXCEPT ![Awaited(i)] = IF @ = "pending" THEN "cancelled" ELSE @]
    BY <1>4 DEF Cancel
  <2>2. call'[i].state = "cancelled" /\ call'[i].on = call[i].on
    BY <1>b, <1>l, <2>1
  <2>3. Awaited(i) = Own(i) /\ call[i].kind # "close"
    BY <1>b, <2>1 DEF Awaited
  <2>4. \A f \in Futures : future'[f] # future[f] => f = Own(i)
    BY <1>t, <2>1, <2>3 DEF AsyncTypeOK
  <2> QED
    BY <2>1, <2>2, <2>3, <2>4 DEF Proceeds
<1> QED
  BY <1>1, <1>2, <1>3, <1>4 DEF Continue

(* What a step of the loop for call i leaves as it was.                    *)
LEMMA LoopKeeps ==
  ASSUME TypeInv, Discipline, Disciplined, NEW i \in Calls, API(i) \/ Continue(i) \/ Cancel(i)
  PROVE  /\ LoopEffect(i)
         /\ (~Used(i) /\ Begins(i)) \/ (Used(i) /\ Proceeds(i))
         /\ Opened \/ UNCHANGED <<session, worker>>
         /\ \A s \in Sessions : worker[s] # "none" => worker'[s] = worker[s]
         /\ \A s \in Sessions : s <= session => worker'[s] = worker[s]
         /\ \A s \in Sessions : Leaving(s) => Leaving(s)'
         /\ \A s \in Sessions : Serves(s) => Serves(s)'
         /\ \A s \in Sessions : ErrorPosted(s) => ErrorPosted(s)'
         /\ \A f \in Futures : OnWay(f)' <=> OnWay(f)
         /\ \A f \in Futures : \A v \in {"result", "error"} : Completes(f, v)' <=> Completes(f, v)
<1>1. LoopEffect(i)
  BY LoopHasEffect
<1>2. (~Used(i) /\ Begins(i)) \/ (Used(i) /\ Proceeds(i))
  BY CallBegins, CallProceeds DEF Used, Proceeds, InProgress
<1>3. Opened \/ UNCHANGED <<session, worker>>
  BY <1>2 DEF Begins, Proceeds
<1>4. \A s \in Sessions : worker[s] # "none" => s <= session
  BY DEF TypeInv, WorkersBegun
<1>5. \A s \in Sessions : s <= session => worker'[s] = worker[s]
  <2>1. CASE Opened
    BY <2>1, AsyncAssumption DEF Opened, TypeInv, AsyncTypeOK, Sessions
  <2> QED
    BY <1>3, <2>1
<1>6. \A s \in Sessions : worker[s] # "none" => worker'[s] = worker[s]
  BY <1>4, <1>5
<1>7. /\ \A s \in Sessions : Leaving(s) => Leaving(s)'
      /\ \A s \in Sessions : Serves(s) => Serves(s)'
  BY <1>6 DEF Leaving, Serves
<1>8. \A s \in Sessions : ErrorPosted(s) => ErrorPosted(s)'
  BY LoopKeepsErrors
<1>9. callbacks' = callbacks
  BY <1>1 DEF LoopEffect
<1>10. \A f \in Futures : OnWay(f)' <=> OnWay(f)
  BY <1>9 DEF OnWay
<1>11. \A f \in Futures : \A v \in {"result", "error"} : Completes(f, v)' <=> Completes(f, v)
  BY <1>9 DEF Completes, Ready
<1> QED
  BY <1>1, <1>2, <1>3, <1>5, <1>6, <1>7, <1>8, <1>10, <1>11

LEMMA FutureNames ==
  /\ \A i \in Calls : Own(i) \in Futures
  /\ \A s \in Sessions : Started(s) \in Futures
  /\ \A i, j \in Calls : Own(i) = Own(j) => i = j
  /\ \A i \in Calls, s \in Sessions : Own(i) # Started(s)
BY DEF Own, Started, Futures

(* Connects, and the queue of commands.                                    *)
LEMMA LoopKeepsServed ==
  ASSUME TypeInv, Discipline, CommandInv, WaitInv, Disciplined,
         NEW i \in Calls, API(i) \/ Continue(i) \/ Cancel(i)
  PROVE  StartsServed' /\ ConnectsOpen' /\ QueueServed' /\ FailurePosted'
<1>1. /\ LoopEffect(i)
      /\ (~Used(i) /\ Begins(i)) \/ (Used(i) /\ Proceeds(i))
      /\ Opened \/ UNCHANGED <<session, worker>>
      /\ \A s \in Sessions : worker[s] # "none" => worker'[s] = worker[s]
      /\ \A s \in Sessions : s <= session => worker'[s] = worker[s]
      /\ \A s \in Sessions : Serves(s) => Serves(s)'
      /\ \A s \in Sessions : ErrorPosted(s) => ErrorPosted(s)'
      /\ \A f \in Futures : OnWay(f)' <=> OnWay(f)
  BY LoopKeeps
<1>t. /\ session \in 0 .. MaxSessions /\ thread \in {0, session} /\ MaxSessions \in Nat
      /\ worker \in [Sessions -> WorkerStates]
      /\ session' \in 0 .. MaxSessions
  <2>1. AsyncTypeOK /\ AsyncTypeOK'
    BY LoopKeepsTypes DEF TypeInv
  <2> QED
    BY <2>1, AsyncAssumption DEF AsyncTypeOK
<1>o. Opened => /\ session' = session + 1 /\ session' \in Sessions
                /\ worker'[session'] = "connect"
  BY <1>t DEF Opened, Sessions
<1>2. StartsServed'
  <2> SUFFICES ASSUME NEW s \in Sessions, s <= session', future'[Started(s)] = "pending"
               PROVE  OnWay(Started(s))' \/ worker'[s] \in {"connect", "fail_started"}
    BY DEF StartsServed
  <2>1. CASE s <= session
    <3>1. future'[Started(s)] = future[Started(s)]
      BY <1>1, FutureNames DEF Begins, Proceeds
    <3>2. OnWay(Started(s)) \/ worker[s] \in {"connect", "fail_started"}
      BY <2>1, <3>1 DEF WaitInv, StartsServed
    <3> QED
      BY <1>1, <2>1, <3>2, FutureNames
  <2>2. CASE ~(s <= session)
    <3>1. Opened
      BY <1>1, <2>2
    <3>2. s = session'
      BY <1>o, <1>t, <2>2, <3>1 DEF Sessions
    <3> QED
      BY <1>o, <3>1, <3>2
  <2> QED
    BY <2>1, <2>2
<1>3. ConnectsOpen'
  <2> SUFFICES ASSUME NEW j \in Calls, call'[j].state = "await", call'[j].kind = "connect"
               PROVE  call'[j].on \in Sessions /\ call'[j].on <= session'
    BY DEF ConnectsOpen
  <2>1. CASE j # i
    <3>1. call[j].on \in Sessions /\ call[j].on <= session /\ call'[j] = call[j]
      BY <1>1, <2>1 DEF LoopEffect, WaitInv, ConnectsOpen
    <3>2. session <= session'
      BY <1>1, <1>o, <1>t
    <3> QED
      BY <1>t, <3>1, <3>2 DEF Sessions
  <2>2. CASE j = i
    <3>1. call'[i].on = session' /\ session' # 0
      BY <1>1, <2>2 DEF Begins, Proceeds
    <3> QED
      BY <1>t, <2>2, <3>1 DEF Sessions
  <2> QED
    BY <2>1, <2>2
<1>4. QueueServed'
  <2> SUFFICES ASSUME commands' # <<>>
               PROVE  session' \in Sessions /\ (Serves(session)' \/ ErrorPosted(session)')
    BY DEF QueueServed
  <2>1. CASE Opened
    BY <1>o, <2>1 DEF Serves, Leaving
  <2>2. CASE ~Opened
    <3>1. session' = session
      BY <1>1, <2>2
    <3>2. session \in Sessions /\ (Serves(session) \/ ErrorPosted(session))
      <4>1. CASE commands # <<>>
        BY <4>1 DEF WaitInv, QueueServed
      <4>2. CASE commands = <<>>
        <5>1. ~Used(i) /\ call'[i].state = "await" /\ commands' # commands
          BY <1>1, <4>2 DEF LoopEffect, Used
        <5>2. Begins(i)
          BY <1>1, <5>1
        <5>4. thread # 0
          BY <5>1, <5>2 DEF Begins
        <5>5. ~\E j \in Calls : InProgress(j) /\ call[j].kind = "close"
          BY <5>2 DEF Begins, Lifecycle
        <5>6. Serves(thread) \/ ErrorPosted(thread)
          BY <5>4, <5>5 DEF WaitInv, ThreadServed
        <5> QED
          BY <1>t, <5>4, <5>6 DEF Sessions
      <4> QED
        BY <4>1, <4>2
    <3> QED
      BY <1>1, <3>1, <3>2
  <2> QED
    BY <2>1, <2>2
<1>5. FailurePosted'
  <2> SUFFICES ASSUME NEW s \in Sessions, worker'[s] = "fail_pending" PROVE ErrorPosted(s)'
    BY DEF FailurePosted
  <2>1. worker[s] = "fail_pending"
    BY <1>1, <1>t, <1>o DEF Opened
  <2> QED
    BY <1>1, <2>1 DEF WaitInv, FailurePosted
<1> QED
  BY <1>2, <1>3, <1>4, <1>5

(* A call that has just begun is nowhere yet.                              *)
LEMMA NewCall ==
  ASSUME TypeInv, CommandInv, NEW i \in Calls, ~Used(i)
  PROVE  /\ future[Own(i)] = "pending" /\ ~OnWay(Own(i)) /\ ~Queued(i)
         /\ \A v \in {"result", "error"} : ~Completes(Own(i), v)
         /\ \A s \in Sessions : Handling(s) => command[s] # i
         /\ \A j \in Calls : i < j => ~Used(j)
<1>1. future[Own(i)] = "pending" /\ \A n \in DOMAIN callbacks : ~Answers(callbacks[n], i)
  BY DEF CommandInv, Untouched
<1>2. ~OnWay(Own(i)) /\ \A v \in {"result", "error"} : ~Completes(Own(i), v)
  BY <1>1 DEF OnWay, Completes, Ready, Answers
<1>3. ~Queued(i) /\ \A s \in Sessions : Handling(s) => command[s] # i
  BY DEF CommandInv, CommandsUsed, Queued
<1>4. \A j \in Calls : i < j => ~Used(j)
  BY DEF CommandInv, CallsInTurn
<1> QED
  BY <1>1, <1>2, <1>3, <1>4

(* The queue of commands after a step of call i.                           *)
LEMMA QueueAfterCall ==
  ASSUME TypeInv, NEW i \in Calls, LoopEffect(i)
  PROVE  /\ \A j \in Calls : Queued(j) => Queued(j)'
         /\ \A j \in Calls : Queued(j)' => Queued(j) \/ (j = i /\ ~Used(i) /\ call'[i].state = "await")
         /\ commands' = Append(commands, i) => Queued(i)'
<1>1. commands \in Seq(Calls)
  BY DEF TypeInv, AsyncTypeOK
<1>2. \/ commands' = commands
      \/ ~Used(i) /\ call'[i].state = "await" /\ commands' = Append(commands, i)
  BY DEF LoopEffect, Used
<1>3. CASE commands' = Append(commands, i)
  <2>1. /\ DOMAIN commands' = DOMAIN commands \cup {Len(commands) + 1}
        /\ \A n \in DOMAIN commands : commands'[n] = commands[n]
        /\ commands'[Len(commands) + 1] = i
    BY <1>1, <1>3
  <2>2. commands' # commands
    <3>1. Len(commands') = Len(commands) + 1 /\ Len(commands) \in Nat
      BY <1>1, <1>3
    <3> QED
      BY <3>1
  <2> QED
    BY <1>2, <2>1, <2>2 DEF Queued
<1>4. CASE commands' = commands /\ commands' # Append(commands, i)
  BY <1>4 DEF Queued
<1> QED
  BY <1>2, <1>3, <1>4

(* Commands and closes that wait.                                          *)
LEMMA LoopKeepsHeld ==
  ASSUME TypeInv, Discipline, CommandInv, WaitInv, Disciplined,
         NEW i \in Calls, API(i) \/ Continue(i) \/ Cancel(i)
  PROVE  CommandsHeld' /\ ClosesWait'
<1>1. /\ LoopEffect(i)
      /\ (~Used(i) /\ Begins(i)) \/ (Used(i) /\ Proceeds(i))
      /\ \A s \in Sessions : worker[s] # "none" => worker'[s] = worker[s]
      /\ \A f \in Futures : OnWay(f)' <=> OnWay(f)
  BY LoopKeeps
<1>2. /\ \A j \in Calls : Queued(j) => Queued(j)'
      /\ \A j \in Calls : Queued(j)' => Queued(j) \/ (j = i /\ ~Used(i) /\ call'[i].state = "await")
      /\ commands' = Append(commands, i) => Queued(i)'
  BY <1>1, QueueAfterCall
<1>3. /\ \A j \in Calls : j # i => call'[j] = call[j]
      /\ Used(i)' /\ (Used(i) => call'[i].kind = call[i].kind)
      /\ command' = command
      /\ \A s \in Sessions : Handling(s)' => Handling(s)
  BY <1>1 DEF LoopEffect, Used, Handling
<1>4. \A j \in Calls : j # i \/ ~Used(i) \/ call[i].kind \in Lifecycle => future'[Own(j)] = future[Own(j)]
  BY <1>1, FutureNames DEF Begins, Proceeds
<1>5. CommandsHeld'
  <2> SUFFICES ASSUME NEW j \in Calls, call'[j].state = "await", call'[j].kind # "connect",
                      future'[Own(j)] = "pending"
               PROVE  OnWay(Own(j))' \/ Handled(j)' \/ Queued(j)'
    BY DEF CommandsHeld
  <2>1. CASE j # i
    <3>1. OnWay(Own(j)) \/ Handled(j) \/ Queued(j)
      BY <1>3, <1>4, <2>1 DEF WaitInv, CommandsHeld
    <3>2. Handled(j) => Handled(j)'
      BY <1>1, <1>3 DEF Handled
    <3> QED
      BY <1>1, <1>2, <3>1, <3>2, FutureNames
  <2>2. CASE j = i
    <3>1. commands' = Append(commands, i)
      BY <1>1, <2>2 DEF Begins, Proceeds
    <3> QED
      BY <1>2, <2>2, <3>1
  <2> QED
    BY <2>1, <2>2
<1>6. ClosesWait'
  <2> SUFFICES ASSUME NEW j \in Calls, Closing(j)'
               PROVE  /\ Queued(j)' => /\ call'[j].state = "await" /\ future'[Own(j)] = "pending"
                                       /\ ~OnWay(Own(j))'
                      /\ InProgress(j)' => \A k \in Calls : j < k => ~Used(k)'
                      /\ \A s \in Sessions : Handling(s)' => command'[s] # j
    BY DEF ClosesWait
  <2>c. call'[j].kind = "close" /\ Used(j)'
    BY DEF Closing
  <2>i. \A k \in Calls : j < k => k # j
    BY AsyncAssumption DEF Calls
  <2>u. \A k \in Calls : k # i => (Used(k)' <=> Used(k)) /\ (InProgress(k)' <=> InProgress(k))
    BY <1>3 DEF Used, InProgress
  <2>1. CASE j = i /\ ~Used(i)
    <3>1. /\ future[Own(i)] = "pending" /\ ~OnWay(Own(i)) /\ ~Queued(i)
          /\ \A s \in Sessions : Handling(s) => command[s] # i
          /\ \A k \in Calls : i < k => ~Used(k)
      BY <2>1, NewCall
    <3> QED
      BY <1>1, <1>2, <1>3, <1>4, <2>1, <2>i, <2>u, <3>1, FutureNames
  <2>2. CASE j # i \/ Used(i)
    <3>1. call[j].kind = "close" /\ Used(j) /\ Closing(j)
      BY <1>3, <2>2, <2>c, <2>u DEF Closing
    <3>2. /\ Queued(j) => /\ call[j].state = "await" /\ future[Own(j)] = "pending"
                          /\ ~OnWay(Own(j))
          /\ InProgress(j) => \A k \in Calls : j < k => ~Used(k)
          /\ \A s \in Sessions : Handling(s) => command[s] # j
      BY <3>1 DEF WaitInv, ClosesWait
    <3>3. j = i => InProgress(i) /\ Proceeds(i)
      BY <1>1, <2>2 DEF Proceeds
    <3>4. Queued(j)' => /\ call'[j].state = "await" /\ future'[Own(j)] = "pending"
                        /\ ~OnWay(Own(j))'
      <4>1. Queued(j)' => Queued(j)
        BY <1>2, <2>2
      <4>2. CASE j = i
        BY <3>1, <3>2, <3>3, <4>1, <4>2 DEF Proceeds
      <4>3. CASE j # i
        BY <1>1, <1>3, <1>4, <3>2, <4>1, <4>3, FutureNames
      <4> QED
        BY <4>2, <4>3
    <3>5. InProgress(j)' => \A k \in Calls : j < k => ~Used(k)'
      <4>1. InProgress(j)' => InProgress(j)
        BY <2>u, <3>3
      <4>2. InProgress(j) /\ j # i => Used(i)
        BY <1>1, <3>1 DEF Begins, Lifecycle
      <4> QED
        BY <2>i, <2>u, <3>1, <3>2, <4>1, <4>2
    <3> QED
      BY <1>3, <3>2, <3>4, <3>5
  <2> QED
    BY <2>1, <2>2
<1> QED
  BY <1>5, <1>6

(* The thread on record, and those who wait for it.                        *)
LEMMA LoopKeepsThread ==
  ASSUME TypeInv, Discipline, CommandInv, WaitInv, Disciplined,
         NEW i \in Calls, API(i) \/ Continue(i) \/ Cancel(i)
  PROVE  ClosesAnswered' /\ JoinsLeaving' /\ GetsThread' /\ ThreadServed'
<1>1. /\ LoopEffect(i)
      /\ (~Used(i) /\ Begins(i)) \/ (Used(i) /\ Proceeds(i))
      /\ \A s \in Sessions : Leaving(s) => Leaving(s)'
      /\ \A s \in Sessions : Serves(s) => Serves(s)'
      /\ \A s \in Sessions : ErrorPosted(s) => ErrorPosted(s)'
      /\ \A f \in Futures : \A v \in {"result", "error"} : Completes(f, v)' <=> Completes(f, v)
  BY LoopKeeps
<1>t. /\ session \in 0 .. MaxSessions /\ thread \in {0, session} /\ MaxSessions \in Nat
      /\ worker \in [Sessions -> WorkerStates]
  BY AsyncAssumption DEF TypeInv, AsyncTypeOK
<1>2. /\ \A j \in Calls : j # i => call'[j] = call[j]
      /\ Used(i)' /\ (Used(i) => call'[i].kind = call[i].kind /\ call'[i].on = call[i].on)
  BY <1>1 DEF LoopEffect, Used, Proceeds
<1>3. \A j \in Calls : j # i \/ ~Used(i) \/ call[i].kind \in Lifecycle => future'[Own(j)] = future[Own(j)]
  BY <1>1, FutureNames DEF Begins, Proceeds
<1>4. \/ Opened
      \/ thread' = thread
      \/ thread' = 0 /\ \A j \in Calls : ~InProgress(j)
      \/ Used(i) /\ call[i].state = "join"
  BY <1>1 DEF Begins, Proceeds
<1>5. ClosesAnswered'
  <2> SUFFICES ASSUME NEW j \in Calls, Closing(j)'
               PROVE  /\ AnsweredWith(Own(j), "result")' => call'[j].on \in Sessions /\ Leaving(call[j].on)'
                      /\ AnsweredWith(Own(j), "error")' => call'[j].on \in Sessions /\ ErrorPosted(call[j].on)'
                      /\ future'[Own(j)] # "cancelled"
    BY DEF ClosesAnswered
  <2>c. call'[j].kind = "close" /\ Used(j)' /\ Own(j) \in Futures
    BY FutureNames DEF Closing
  <2>1. CASE j = i /\ ~Used(i)
    <3>1. future[Own(i)] = "pending" /\ \A v \in {"result", "error"} : ~Completes(Own(i), v)
      BY <2>1, NewCall
    <3>2. future'[Own(i)] = "pending" /\ \A v \in {"result", "error"} : ~Completes(Own(i), v)'
      BY <1>1, <1>3, <2>1, <2>c, <3>1
    <3> QED
      BY <2>1, <3>2 DEF AnsweredWith
  <2>2. CASE j # i \/ Used(i)
    <3>1. Closing(j) /\ call'[j].on = call[j].on /\ future'[Own(j)] = future[Own(j)]
      BY <1>2, <1>3, <2>2, <2>c DEF Closing, Used, Lifecycle
    <3>2. \A v \in {"result", "error"} : AnsweredWith(Own(j), v)' => AnsweredWith(Own(j), v)
      BY <1>1, <2>c, <3>1 DEF AnsweredWith
    <3>3. /\ AnsweredWith(Own(j), "result") => call[j].on \in Sessions /\ Leaving(call[j].on)
          /\ AnsweredWith(Own(j), "error") => call[j].on \in Sessions /\ ErrorPosted(call[j].on)
          /\ future[Own(j)] # "cancelled"
      BY <3>1 DEF WaitInv, ClosesAnswered
    <3>4. AnsweredWith(Own(j), "result")' => call'[j].on \in Sessions /\ Leaving(call[j].on)'
      <4>1. \A s \in Sessions : s = call'[j].on /\ Leaving(s)' => Leaving(call[j].on)'
        BY DEF Leaving
      <4> QED
        BY <1>1, <3>1, <3>2, <3>3, <4>1
    <3>5. AnsweredWith(Own(j), "error")' => call'[j].on \in Sessions /\ ErrorPosted(call[j].on)'
      <4>1. \A s \in Sessions : s = call'[j].on /\ ErrorPosted(s)' => ErrorPosted(call[j].on)'
        BY DEF ErrorPosted, ErrorReached, InCallback
      <4> QED
        BY <1>1, <3>1, <3>2, <3>3, <4>1
    <3> QED
      BY <3>1, <3>3, <3>4, <3>5
  <2> QED
    BY <2>1, <2>2
<1>6. JoinsLeaving'
  <2> SUFFICES ASSUME NEW j \in Calls, call'[j].state = "join"
               PROVE  call'[j].on \in Sessions /\ Leaving(call[j].on)'
    BY DEF JoinsLeaving
  <2>1. call'[j].on = call[j].on /\ call[j].on \in Sessions /\ Leaving(call[j].on)
    <3>1. CASE j # i
      BY <1>2, <3>1 DEF WaitInv, JoinsLeaving
    <3>2. CASE j = i
      <4>1. Used(i) /\ call[i].kind = "close" /\ future[Own(i)] = "result"
        BY <1>1, <3>2 DEF Begins, Proceeds
      <4>2. Closing(i) /\ AnsweredWith(Own(i), "result")
        BY <4>1 DEF Closing, AnsweredWith
      <4> QED
        BY <1>2, <3>2, <4>1, <4>2 DEF WaitInv, ClosesAnswered
    <3> QED
      BY <3>1, <3>2
  <2>2. \A s \in Sessions : s = call'[j].on /\ Leaving(s)' => Leaving(call[j].on)'
    BY DEF Leaving
  <2> QED
    BY <1>1, <2>1, <2>2
<1>7. GetsThread'
  <2> SUFFICES ASSUME NEW j \in Calls, call'[j].state = "get"
               PROVE  call'[j].on = thread' /\ thread' # 0
    BY DEF GetsThread
  <2>1. CASE j # i
    <3>1. call'[j] = call[j] /\ call[j].on = thread /\ thread # 0 /\ InProgress(j)
      BY <1>2, <2>1 DEF WaitInv, GetsThread, InProgress
    <3>2. ~(Used(i) /\ call[i].state = "join")
      <4>1. InProgress(i) /\ call[i].kind \in Lifecycle => i = j
        BY <3>1 DEF Discipline, Exclusive
      <4>2. call[i].state = "join" => InProgress(i) /\ call[i].kind \in Lifecycle
        BY DEF Discipline, Kinds, InProgress, Lifecycle
      <4> QED
        BY <2>1, <4>1, <4>2
    <3>3. thread' = thread
      BY <1>4, <3>1, <3>2 DEF Opened
    <3> QED
      BY <3>1, <3>3
  <2>2. CASE j = i
    BY <1>1, <2>2 DEF Begins, Proceeds
  <2> QED
    BY <2>1, <2>2
<1>8. ThreadServed'
  <2> SUFFICES ASSUME thread' # 0, ~\E k \in Calls : InProgress(k)' /\ call'[k].kind = "close"
               PROVE  Serves(thread)' \/ ErrorPosted(thread)'
    BY DEF ThreadServed, InProgress
  <2>s. \A s \in Sessions : s = thread' => /\ Serves(s)' => Serves(thread)'
                                           /\ ErrorPosted(s)' => ErrorPosted(thread)'
    BY DEF Serves, Leaving, ErrorPosted, ErrorReached, InCallback
  <2>1. CASE Opened
    <3>1. thread' \in Sessions /\ worker'[thread'] = "connect"
      BY <1>t, <2>1 DEF Opened, Sessions
    <3> QED
      BY <3>1 DEF Serves, Leaving
  <2>2. CASE ~Opened
    <3>1. thread' = thread /\ thread \in Sessions
      <4>1. thread' # 0 => ~(Used(i) /\ call[i].state = "join" /\ thread' # thread)
        BY <1>1 DEF Proceeds
      <4> QED
        BY <1>4, <1>t, <2>2, <4>1 DEF Sessions
    <3>2. Serves(thread) \/ ErrorPosted(thread)
      <4> SUFFICES ASSUME NEW k \in Calls, InProgress(k), call[k].kind = "close"
                   PROVE  ErrorPosted(thread)
        BY <3>1 DEF WaitInv, ThreadServed, Sessions
      <4>1. k = i
        BY <1>2 DEF InProgress
      <4>2. Used(i) /\ Closing(i) /\ call[i].on = thread
        BY <4>1 DEF InProgress, Used, Closing, Discipline, ClosesThread
      <4>3. ~InProgress(i)'
        BY <1>2, <4>1, <4>2
      <4>4. future[Own(i)] \in {"error", "cancelled"}
        BY <1>1, <4>1, <4>2, <4>3 DEF Proceeds
      <4>5. future[Own(i)] = "error"
        BY <4>2, <4>4 DEF WaitInv, ClosesAnswered
      <4> QED
        BY <4>2, <4>5 DEF WaitInv, ClosesAnswered, AnsweredWith
    <3> QED
      BY <1>1, <2>s, <3>1, <3>2
  <2> QED
    BY <2>1, <2>2
<1> QED
  BY <1>5, <1>6, <1>7, <1>8

-----------------------------------------------------------------------------
(* Callbacks: complete() delivers an answer, put_nowait an item.           *)

LEMMA CallbackKeepsWait ==
  ASSUME TypeInv, WaitInv, RunCallback
  PROVE  WaitInv'
<1> USE DEF Used, Handling, InProgress
<1>t. AsyncTypeOK /\ AsyncTypeOK'
  BY CallbackKeepsTypes DEF TypeInv
<1>1. /\ UNCHANGED <<call, session, thread, commands, workerVars>>
      /\ callbacks # <<>> /\ callbacks' = Tail(callbacks)
  BY DEF RunCallback, RunComplete, RunPut
<1> DEFINE h == Head(callbacks)
<1>2. Ready = Ready' \cup {h} /\ h \in Callbacks
  BY <1>t, <1>1, ReadyAfterRun
<1>3. \A f \in Futures :
        \/ future'[f] = future[f] /\ ~(h.run = "complete" /\ h.future = f /\ future[f] = "pending")
        \/ /\ future[f] = "pending" /\ h.run = "complete" /\ h.future = f
           /\ future'[f] = h.value /\ h.value \in {"result", "error"}
  <2>1. CASE RunPut
    BY <2>1 DEF RunPut
  <2>2. CASE RunComplete
    <3>1. /\ h.run = "complete" /\ h.value \in {"result", "error"}
          /\ future' = [future EXCEPT ![h.future] = IF @ = "pending" THEN h.value ELSE @]
      BY <1>2, <2>2 DEF RunComplete, Callbacks
    <3>2. future \in [Futures -> {"pending", "result", "error", "cancelled"}]
      BY <1>t DEF AsyncTypeOK
    <3> QED
      BY <3>1, <3>2
  <2> QED
    BY <2>1, <2>2 DEF RunCallback
<1> HIDE DEF h
<1>4. \A f \in Futures : OnWay(f) /\ future'[f] = "pending" => OnWay(f)' /\ future[f] = "pending"
  <2>1. \A f \in Futures : /\ OnWay(f) <=> \E b \in Ready : b.run = "complete" /\ b.future = f
                           /\ OnWay(f)' <=> \E b \in Ready' : b.run = "complete" /\ b.future = f
    BY <1>t, ReadyViews, ReadyViewsNext
  <2> QED
    BY <1>2, <1>3, <2>1
<1>5. \A f \in Futures : /\ ~OnWay(f) => ~OnWay(f)' /\ future'[f] = future[f]
                         /\ future'[f] = "pending" => future[f] = "pending"
                         /\ future'[f] = "cancelled" => future[f] = "cancelled"
  <2>1. \A f \in Futures : /\ OnWay(f) <=> \E b \in Ready : b.run = "complete" /\ b.future = f
                           /\ OnWay(f)' <=> \E b \in Ready' : b.run = "complete" /\ b.future = f
    BY <1>t, ReadyViews, ReadyViewsNext
  <2> QED
    BY <1>2, <1>3, <2>1
<1>6. \A f \in Futures : \A v \in {"result", "error"} : AnsweredWith(f, v)' => AnsweredWith(f, v)
  BY <1>2, <1>3 DEF AnsweredWith, Completes
<1>7. \A s \in Sessions : ErrorPosted(s) => ErrorPosted(s)'
  BY CallbackKeepsErrors
<1>8. /\ \A i \in Calls : (Queued(i)' <=> Queued(i)) /\ (Handled(i)' <=> Handled(i))
      /\ \A s \in Sessions : (Serves(s)' <=> Serves(s)) /\ (Leaving(s)' <=> Leaving(s))
  BY <1>1 DEF Queued, Handled, Serves, Leaving
<1>9. StartsServed'
  <2> SUFFICES ASSUME NEW s \in Sessions, s <= session, future'[Started(s)] = "pending"
               PROVE  OnWay(Started(s))' \/ worker[s] \in {"connect", "fail_started"}
    BY <1>1 DEF StartsServed
  <2> QED
    BY <1>4, <1>5, FutureNames DEF WaitInv, StartsServed
<1>10. ConnectsOpen' /\ GetsThread'
  BY <1>1 DEF WaitInv, ConnectsOpen, GetsThread
<1>11. CommandsHeld'
  <2> SUFFICES ASSUME NEW i \in Calls, call[i].state = "await", call[i].kind # "connect",
                      future'[Own(i)] = "pending"
               PROVE  OnWay(Own(i))' \/ Handled(i) \/ Queued(i)
    BY <1>1, <1>8 DEF CommandsHeld
  <2> QED
    BY <1>4, <1>5, FutureNames DEF WaitInv, CommandsHeld
<1>12. QueueServed'
  <2> SUFFICES ASSUME commands # <<>> PROVE session \in Sessions /\ (Serves(session)' \/ ErrorPosted(session)')
    BY <1>1 DEF QueueServed
  <2>1. session \in Sessions /\ (Serves(session) \/ ErrorPosted(session))
    BY DEF WaitInv, QueueServed
  <2>2. \A s \in Sessions : s = session => /\ Serves(s)' => Serves(session)'
                                           /\ ErrorPosted(s)' => ErrorPosted(session)'
    BY <1>1 DEF Serves, Leaving, ErrorPosted, ErrorReached, InCallback
  <2> QED
    BY <1>7, <1>8, <2>1, <2>2
<1>13. ClosesWait'
  <2> SUFFICES ASSUME NEW i \in Calls, Closing(i)
               PROVE  /\ Queued(i) => /\ call[i].state = "await" /\ future'[Own(i)] = "pending"
                                      /\ ~OnWay(Own(i))'
                      /\ InProgress(i) => \A j \in Calls : i < j => ~Used(j)
                      /\ \A s \in Sessions : Handling(s) => command[s] # i
    BY <1>1, <1>8 DEF ClosesWait, Closing
  <2> QED
    BY <1>5, FutureNames DEF WaitInv, ClosesWait
<1>14. ClosesAnswered'
  <2> SUFFICES ASSUME NEW i \in Calls, Closing(i)
               PROVE  /\ AnsweredWith(Own(i), "result")' => call[i].on \in Sessions /\ Leaving(call[i].on)
                      /\ AnsweredWith(Own(i), "error")' => call[i].on \in Sessions /\ ErrorPosted(call[i].on)'
                      /\ future'[Own(i)] # "cancelled"
    BY <1>1 DEF ClosesAnswered, Closing, Leaving
  <2>1. \A s \in Sessions : s = call[i].on => (ErrorPosted(s)' => ErrorPosted(call[i].on)')
    BY <1>1 DEF ErrorPosted, ErrorReached, InCallback
  <2> QED
    BY <1>5, <1>6, <1>7, <2>1, FutureNames DEF WaitInv, ClosesAnswered
<1>15. JoinsLeaving'
  BY <1>1 DEF WaitInv, JoinsLeaving, Leaving
<1>16. ThreadServed'
  <2> SUFFICES ASSUME thread # 0, Serves(thread) \/ ErrorPosted(thread)
               PROVE  Serves(thread)' \/ ErrorPosted(thread)'
    BY <1>1 DEF WaitInv, ThreadServed
  <2>1. thread \in Sessions
    BY <1>t, AsyncAssumption DEF AsyncTypeOK, Sessions
  <2>2. \A s \in Sessions : s = thread => /\ Serves(s)' => Serves(thread)'
                                          /\ ErrorPosted(s)' => ErrorPosted(thread)'
    BY <1>1 DEF Serves, Leaving, ErrorPosted, ErrorReached, InCallback
  <2> QED
    BY <1>7, <1>8, <2>1, <2>2
<1>17. FailurePosted'
  BY <1>1, <1>7 DEF WaitInv, FailurePosted
<1> QED
  BY <1>9, <1>10, <1>11, <1>12, <1>13, <1>14, <1>15, <1>16, <1>17 DEF WaitInv

-----------------------------------------------------------------------------
(* Steps of the worker.                                                    *)

(* What a step of the worker of session s does: it goes round its loop, or *)
(* into or through its except clause; takes a command; has handled one;    *)
(* answers a close(); refuses a command; or leaves.                        *)
Rounds(s) ==
  /\ UNCHANGED <<commands, command>>
  /\ Ready \subseteq Ready'
  /\ \A b \in Ready' : b.run = "complete" => b \in Ready \/ b.future = Started(session)
  /\ worker[s] \notin {"handle", "exit"} /\ worker'[s] # "handle" /\ Serves(s)'
  /\ worker[s] \in {"connect", "fail_started"} =>
       worker'[s] = "fail_started" \/ \E b \in Ready' : b.run = "complete" /\ b.future = Started(session)
  /\ worker'[s] = "fail_pending" =>
       \E b \in Ready' : b.run = "put" /\ b.to = session /\ b.item = Error
Takes(s) ==
  /\ commands # <<>> /\ commands' = Tail(commands) /\ call[Head(commands)].kind # "close"
  /\ UNCHANGED callbacks
  /\ worker[s] = "next" /\ worker'[s] = "handle"
  /\ command' = [command EXCEPT ![s] = Head(commands)]
Handles(s) ==
  /\ UNCHANGED <<commands, command>>
  /\ worker[s] = "handle" /\ worker'[s] = "poll"
  /\ \E v \in {"result", "error"} : Ready' = Ready \cup {Completion(Own(command[s]), v)}
Dismisses(s) ==
  /\ commands # <<>> /\ commands' = Tail(commands) /\ call[Head(commands)].kind = "close"
  /\ UNCHANGED command
  /\ worker[s] = "next" /\ worker'[s] = "exit"
  /\ Ready' = Ready \cup {Completion(Own(Head(commands)), "result")}
Refuses(s) ==
  /\ commands # <<>> /\ commands' = Tail(commands)
  /\ UNCHANGED command
  /\ worker[s] = "fail_pending" /\ worker'[s] = "fail_pending"
  /\ Ready' = Ready \cup {Completion(Own(Head(commands)), "error")}
Departs(s) ==
  /\ UNCHANGED <<commands, command, callbacks>>
  /\ \/ worker[s] = "fail_pending" /\ commands = <<>>
     \/ worker[s] = "exit"
  /\ Leaving(s)'

LEMMA WorkerMoves ==
  ASSUME TypeInv, NEW s \in Sessions, _run(s)
  PROVE  Rounds(s) \/ Takes(s) \/ Handles(s) \/ Dismisses(s) \/ Refuses(s) \/ Departs(s)
<1> USE DEF _complete, Post, CallSoon, Completion
<1>s. {"connect", "next", "handle", "poll", "fail_started", "publish_error", "fail_pending",
       "exit", "dead"} \subseteq WorkerStates
  BY DEF WorkerStates
<1>t. AsyncTypeOK
  BY DEF TypeInv
<1>1. ASSUME NEW from, NEW to \in WorkerStates, Step(s, from, to)
      PROVE  worker[s] = from /\ worker'[s] = to
  BY <1>1, <1>t, StepTypes
<1>p. ASSUME NEW b, CallSoon(b) PROVE Ready' = Ready \cup {b}
  BY <1>p, <1>t, ReadyAfterPost DEF Posts
<1>q. UNCHANGED callbacks => Ready' = Ready
  BY DEF Ready
<1>r. ASSUME worker'[s] \in {"next", "poll", "fail_started", "publish_error", "fail_pending"}
      PROVE  worker'[s] # "handle" /\ Serves(s)'
  BY <1>r DEF Serves, Leaving
<1>2. CASE NativeConnects(s)
  <2>1. worker[s] = "connect" /\ worker'[s] = "next" /\ UNCHANGED <<command, commands>>
        /\ CallSoon([run |-> "complete", future |-> Started(session), value |-> "result"])
    BY <1>1, <1>2, <1>s DEF NativeConnects
  <2>2. Ready' = Ready \cup {[run |-> "complete", future |-> Started(session), value |-> "result"]}
    BY <1>p, <2>1
  <2> QED
    BY <1>r, <2>1, <2>2 DEF Rounds
<1>3. CASE NativeRaises(s)
  <2>1. worker[s] \in {"connect", "poll"} /\ worker'[s] = "fail_started"
        /\ UNCHANGED <<command, commands, callbacks>>
    BY <1>1, <1>3, <1>s DEF NativeRaises
  <2> QED
    BY <1>q, <1>r, <2>1 DEF Rounds
<1>4. CASE _next_command(s)
  <2>1. commands # <<>> /\ commands' = Tail(commands)
    BY <1>4 DEF _next_command, AfterGet
  <2>2. CASE call[Head(commands)].kind = "close"
    <3>1. /\ Step(s, "next", "exit") /\ UNCHANGED command
          /\ CallSoon([run |-> "complete", future |-> Own(Head(commands)), value |-> "result"])
      BY <1>4, <2>2 DEF _next_command
    <3>2. Ready' = Ready \cup {[run |-> "complete", future |-> Own(Head(commands)), value |-> "result"]}
      BY <1>p, <3>1
    <3>3. worker[s] = "next" /\ worker'[s] = "exit"
      BY <1>1, <1>s, <3>1
    <3> QED
      BY <2>1, <2>2, <3>1, <3>2, <3>3 DEF Dismisses
  <2>3. CASE call[Head(commands)].kind # "close"
    <3>1. /\ Step(s, "next", "handle") /\ UNCHANGED callbacks
          /\ command' = [command EXCEPT ![s] = Head(commands)]
      BY <1>4, <2>3 DEF _next_command
    <3>2. worker[s] = "next" /\ worker'[s] = "handle"
      BY <1>1, <1>s, <3>1
    <3> QED
      BY <2>1, <2>3, <3>1, <3>2 DEF Takes
  <2> QED
    BY <2>2, <2>3
<1>5. CASE NoCommand(s)
  <2>1. worker[s] = "next" /\ worker'[s] = "poll" /\ UNCHANGED <<command, commands, callbacks>>
    BY <1>1, <1>5, <1>s DEF NoCommand
  <2> QED
    BY <1>q, <1>r, <2>1 DEF Rounds
<1>6. CASE _handle_command(s)
  <2>1. worker[s] = "handle" /\ worker'[s] = "poll" /\ UNCHANGED <<command, commands>>
    BY <1>1, <1>6, <1>s DEF _handle_command
  <2>2. PICK v \in {"result", "error"} :
          CallSoon([run |-> "complete", future |-> Own(command[s]), value |-> v])
    BY <1>6 DEF _handle_command
  <2>3. Ready' = Ready \cup {[run |-> "complete", future |-> Own(command[s]), value |-> v]}
    BY <1>p, <2>2
  <2> QED
    BY <2>1, <2>3 DEF Handles
<1>7. CASE PollMessage(s)
  <2>1. worker[s] = "poll" /\ worker' = worker /\ UNCHANGED <<command, commands>>
        /\ CallSoon([run |-> "put", to |-> session, item |-> polled[s] + 1])
    BY <1>7 DEF PollMessage
  <2>2. Ready' = Ready \cup {[run |-> "put", to |-> session, item |-> polled[s] + 1]}
    BY <1>p, <2>1
  <2> QED
    BY <1>r, <2>1, <2>2 DEF Rounds
<1>8. CASE PollNothing(s)
  <2>1. worker[s] = "poll" /\ worker'[s] = "next" /\ UNCHANGED <<command, commands, callbacks>>
    BY <1>1, <1>8, <1>s DEF PollNothing
  <2> QED
    BY <1>q, <1>r, <2>1 DEF Rounds
<1>9. CASE _fail_started(s)
  <2>1. worker[s] = "fail_started" /\ worker'[s] = "publish_error" /\ UNCHANGED <<command, commands>>
        /\ CallSoon([run |-> "complete", future |-> Started(session), value |-> "error"])
    BY <1>1, <1>9, <1>s DEF _fail_started
  <2>2. Ready' = Ready \cup {[run |-> "complete", future |-> Started(session), value |-> "error"]}
    BY <1>p, <2>1
  <2> QED
    BY <1>r, <2>1, <2>2 DEF Rounds
<1>10. CASE _publish_worker_error(s)
  <2>1. worker[s] = "publish_error" /\ worker'[s] = "fail_pending" /\ UNCHANGED <<command, commands>>
        /\ CallSoon([run |-> "put", to |-> session, item |-> Error])
    BY <1>1, <1>10, <1>s DEF _publish_worker_error
  <2>2. Ready' = Ready \cup {[run |-> "put", to |-> session, item |-> Error]}
    BY <1>p, <2>1
  <2> QED
    BY <1>r, <2>1, <2>2 DEF Rounds
<1>11. CASE _fail_pending(s)
  <2>1. worker[s] = "fail_pending" /\ UNCHANGED command
    BY <1>11 DEF _fail_pending
  <2>2. CASE commands # <<>>
    <3>1. /\ commands' = Tail(commands) /\ worker' = worker
          /\ CallSoon([run |-> "complete", future |-> Own(Head(commands)), value |-> "error"])
      BY <1>11, <2>2 DEF _fail_pending
    <3>2. Ready' = Ready \cup {[run |-> "complete", future |-> Own(Head(commands)), value |-> "error"]}
      BY <1>p, <3>1
    <3> QED
      BY <2>1, <2>2, <3>1, <3>2 DEF Refuses
  <2>3. CASE commands = <<>>
    <3>1. Step(s, "fail_pending", "exit") /\ UNCHANGED <<commands, callbacks>>
      BY <1>11, <2>3 DEF _fail_pending
    <3>2. worker'[s] = "exit"
      BY <1>1, <1>s, <3>1
    <3> QED
      BY <2>1, <2>3, <3>1, <3>2 DEF Departs, Leaving
  <2> QED
    BY <2>2, <2>3
<1>12. CASE ThreadEnds(s)
  <2>1. worker[s] = "exit" /\ worker'[s] = "dead" /\ UNCHANGED <<command, commands, callbacks>>
    BY <1>1, <1>12, <1>s DEF ThreadEnds
  <2> QED
    BY <2>1 DEF Departs, Leaving
<1> QED
  BY <1>2, <1>3, <1>4, <1>5, <1>6, <1>7, <1>8, <1>9, <1>10, <1>11, <1>12 DEF _run

(* What a step of the worker leaves as it was.                             *)
LEMMA WorkerKeeps ==
  ASSUME TypeInv, Discipline, NEW s \in Sessions, _run(s)
  PROVE  /\ UNCHANGED loopVars /\ session = s /\ thread = s
         /\ \A r \in Sessions : r # s => worker'[r] = worker[r] /\ worker[r] \in {"none", "dead"}
         /\ Ready \subseteq Ready'
         /\ \A f \in Futures : OnWay(f) => OnWay(f)'
         /\ \A r \in Sessions : ErrorPosted(r) => ErrorPosted(r)'
         /\ \A r \in Sessions : Leaving(r) => Leaving(r)'
<1>1. /\ UNCHANGED loopVars /\ Alive(s)
      /\ \A r \in Sessions : r # s => worker'[r] = worker[r]
  BY WorkerStaysOnRecord
<1>2. session = s /\ thread = s /\ \A r \in Sessions : Alive(r) => r = s
  BY <1>1, LatestSession DEF Discipline, NoOrphan
<1>3. \A r \in Sessions : r # s => worker'[r] = worker[r] /\ worker[r] \in {"none", "dead"}
  BY <1>1, <1>2 DEF Alive
<1>4. Rounds(s) \/ Takes(s) \/ Handles(s) \/ Dismisses(s) \/ Refuses(s) \/ Departs(s)
  BY WorkerMoves
<1>5. Ready \subseteq Ready'
  <2>1. Takes(s) \/ Departs(s) => Ready' = Ready
    BY DEF Takes, Departs, Ready
  <2> QED
    BY <1>4, <2>1 DEF Rounds, Handles, Dismisses, Refuses
<1>6. \A f \in Futures : OnWay(f) => OnWay(f)'
  <2>1. AsyncTypeOK /\ AsyncTypeOK'
    BY WorkerKeepsTypes DEF TypeInv
  <2>2. \A f \in Futures : /\ OnWay(f) <=> \E b \in Ready : b.run = "complete" /\ b.future = f
                           /\ OnWay(f)' <=> \E b \in Ready' : b.run = "complete" /\ b.future = f
    BY <2>1, ReadyViews, ReadyViewsNext
  <2> QED
    BY <1>5, <2>2
<1>7. \A r \in Sessions : ErrorPosted(r) => ErrorPosted(r)'
  BY WorkerKeepsErrors
<1>8. \A r \in Sessions : Leaving(r) => Leaving(r)'
  <2>1. \A r \in Sessions : r # s => (Leaving(r) => Leaving(r)')
    BY <1>3 DEF Leaving
  <2>2. Leaving(s) => worker[s] = "exit"
    BY <1>1 DEF Leaving, Alive
  <2>3. worker[s] = "exit" => Leaving(s)'
    <3>1. worker[s] = "exit" => Departs(s)
      BY <1>4 DEF Rounds, Takes, Handles, Dismisses, Refuses
    <3> QED
      BY <3>1 DEF Departs
  <2> QED
    BY <2>1, <2>2, <2>3
<1> QED
  BY <1>1, <1>2, <1>3, <1>5, <1>6, <1>7, <1>8

LEMMA WorkerKeepsWait ==
  ASSUME TypeInv, Discipline, CommandInv, WaitInv, NEW s \in Sessions, _run(s)
  PROVE  WaitInv'
<1> USE DEF Used, Handling, InProgress
<1>t. AsyncTypeOK /\ AsyncTypeOK'
  BY WorkerKeepsTypes DEF TypeInv
<1>1. /\ UNCHANGED loopVars /\ session = s /\ thread = s
      /\ \A r \in Sessions : r # s => worker'[r] = worker[r] /\ worker[r] \in {"none", "dead"}
      /\ Ready \subseteq Ready'
      /\ \A f \in Futures : OnWay(f) => OnWay(f)'
      /\ \A r \in Sessions : ErrorPosted(r) => ErrorPosted(r)'
      /\ \A r \in Sessions : Leaving(r) => Leaving(r)'
  BY WorkerKeeps
<1>2. Rounds(s) \/ Takes(s) \/ Handles(s) \/ Dismisses(s) \/ Refuses(s) \/ Departs(s)
  BY WorkerMoves
<1>3. \A f \in Futures : OnWay(f)' <=> \E b \in Ready' : b.run = "complete" /\ b.future = f
  BY <1>t, ReadyViewsNext
<1>4. Takes(s) \/ Dismisses(s) \/ Refuses(s) =>
        /\ Head(commands) \in Calls /\ Queued(Head(commands)) /\ Used(Head(commands))
        /\ \A i \in Calls : Queued(i)' => Queued(i) /\ i # Head(commands)
        /\ \A i \in Calls : Queued(i) => Queued(i)' \/ i = Head(commands)
        /\ commands' # <<>> => \E j \in Calls : Used(j) /\ Head(commands) < j
  BY <1>t, QueueAfterGet DEF Takes, Dismisses, Refuses
<1>5. Rounds(s) \/ Handles(s) \/ Departs(s) =>
        commands' = commands /\ command' = command /\ \A i \in Calls : Queued(i)' <=> Queued(i)
  BY DEF Rounds, Handles, Departs, Queued
<1>6. Takes(s) => command'[s] = Head(commands)
  BY <1>t DEF Takes, AsyncTypeOK
<1>7. worker[s] = "handle" => command[s] \in Calls
  BY DEF TypeInv, HandlesCommand
(* The callbacks posted, by the call they answer.                          *)
<1>8. \A i \in Calls : \A v \in {"result", "error"} : Completes(Own(i), v)' =>
        \/ Completes(Own(i), v)
        \/ Handles(s) /\ i = command[s]
        \/ Dismisses(s) /\ i = Head(commands) /\ v = "result"
        \/ Refuses(s) /\ i = Head(commands) /\ v = "error"
  <2> SUFFICES ASSUME NEW i \in Calls, NEW v \in {"result", "error"}, NEW b \in Ready', b \notin Ready,
                      b.run = "complete", b.future = Own(i), b.value = v
               PROVE  \/ Handles(s) /\ i = command[s]
                      \/ Dismisses(s) /\ i = Head(commands) /\ v = "result"
                      \/ Refuses(s) /\ i = Head(commands) /\ v = "error"
    BY DEF Completes
  <2>1. CASE Rounds(s)
    BY <1>1, <2>1, FutureNames DEF Rounds
  <2>2. CASE Takes(s) \/ Departs(s)
    BY <2>2 DEF Takes, Departs, Ready
  <2>3. CASE Handles(s)
    <3>1. b.future = Own(command[s]) /\ command[s] \in Calls
      BY <1>7, <2>3 DEF Handles, Completion
    <3> QED
      BY <2>3, <3>1, FutureNames
  <2>4. CASE Dismisses(s)
    <3>1. b.future = Own(Head(commands)) /\ b.value = "result" /\ Head(commands) \in Calls
      BY <1>4, <2>4 DEF Dismisses, Completion
    <3> QED
      BY <2>4, <3>1, FutureNames
  <2>5. CASE Refuses(s)
    <3>1. b.future = Own(Head(commands)) /\ b.value = "error" /\ Head(commands) \in Calls
      BY <1>4, <2>5 DEF Refuses, Completion
    <3> QED
      BY <2>5, <3>1, FutureNames
  <2> QED
    BY <1>2, <2>1, <2>2, <2>3, <2>4, <2>5
<1>9. \A i \in Calls :
        \/ Handles(s) /\ i = command[s]
        \/ (Dismisses(s) \/ Refuses(s)) /\ i = Head(commands)
        => OnWay(Own(i))'
  <2> SUFFICES ASSUME NEW i \in Calls,
                      \/ Handles(s) /\ i = command[s]
                      \/ (Dismisses(s) \/ Refuses(s)) /\ i = Head(commands)
               PROVE  \E b \in Ready' : b.run = "complete" /\ b.future = Own(i)
    BY <1>3, FutureNames
  <2>1. CASE Handles(s) /\ i = command[s]
    <3>1. PICK v \in {"result", "error"} : Completion(Own(i), v) \in Ready'
      BY <2>1 DEF Handles
    <3> QED
      BY <3>1 DEF Completion
  <2>2. CASE (Dismisses(s) \/ Refuses(s)) /\ i = Head(commands)
    <3>1. PICK v \in {"result", "error"} : Completion(Own(i), v) \in Ready'
      BY <2>2 DEF Dismisses, Refuses
    <3> QED
      BY <3>1 DEF Completion
  <2> QED
    BY <2>1, <2>2
<1>10. StartsServed'
  <2> SUFFICES ASSUME NEW r \in Sessions, r <= session, future[Started(r)] = "pending"
               PROVE  OnWay(Started(r))' \/ worker'[r] \in {"connect", "fail_started"}
    BY <1>1 DEF StartsServed
  <2>1. OnWay(Started(r)) \/ worker[r] \in {"connect", "fail_started"}
    BY DEF WaitInv, StartsServed
  <2>2. CASE r = s /\ worker[s] \in {"connect", "fail_started"}
    <3>1. Rounds(s)
      BY <1>2, <2>2 DEF Takes, Handles, Dismisses, Refuses, Departs
    <3> QED
      BY <1>1, <1>3, <2>2, <3>1, FutureNames DEF Rounds
  <2> QED
    BY <1>1, <2>1, <2>2, FutureNames
<1>11. ConnectsOpen' /\ GetsThread'
  BY <1>1 DEF WaitInv, ConnectsOpen, GetsThread
<1>12. CommandsHeld'
  <2> SUFFICES ASSUME NEW i \in Calls, call[i].state = "await", call[i].kind # "connect",
                      future[Own(i)] = "pending"
               PROVE  OnWay(Own(i))' \/ Handled(i)' \/ Queued(i)'
    BY <1>1 DEF CommandsHeld
  <2>1. OnWay(Own(i)) \/ Handled(i) \/ Queued(i)
    BY DEF WaitInv, CommandsHeld
  <2>2. CASE Handled(i)
    <3>1. worker[s] = "handle" /\ command[s] = i
      BY <1>1, <2>2 DEF Handled
    <3>2. Handles(s)
      BY <1>2, <3>1 DEF Rounds, Takes, Dismisses, Refuses, Departs
    <3> QED
      BY <1>9, <3>1, <3>2
  <2>3. CASE Queued(i)
    <3>1. CASE Takes(s) /\ i = Head(commands)
      BY <1>6, <3>1 DEF Takes, Handled
    <3> QED
      BY <1>2, <1>4, <1>5, <1>9, <2>3, <3>1
  <2> QED
    BY <1>1, <2>1, <2>2, <2>3, FutureNames
(* A close() in the queue is in progress, on this worker.                  *)
<1>13. \A i \in Calls : Closing(i) /\ Queued(i) =>
         /\ InProgress(i) /\ call[i].on = s
         /\ \A j \in Calls : i < j => ~Used(j)
  <2> SUFFICES ASSUME NEW i \in Calls, Closing(i), Queued(i)
               PROVE  /\ InProgress(i) /\ call[i].on = s
                      /\ \A j \in Calls : i < j => ~Used(j)
    OBVIOUS
  <2>1. call[i].state = "await"
    BY DEF WaitInv, ClosesWait
  <2>2. InProgress(i) /\ call[i].kind = "close"
    BY <2>1 DEF Closing
  <2>3. call[i].on = thread
    BY <2>2 DEF Discipline, ClosesThread
  <2> QED
    BY <1>1, <2>2, <2>3 DEF WaitInv, ClosesWait
<1>14. Dismisses(s) => Closing(Head(commands)) /\ commands' = <<>>
  <2>1. Dismisses(s) => Closing(Head(commands))
    BY <1>4 DEF Dismisses, Closing
  <2> QED
    BY <1>4, <1>13, <2>1
<1>15. QueueServed'
  <2> SUFFICES ASSUME commands' # <<>> PROVE Serves(s)' \/ ErrorPosted(s)'
    <3>1. /\ Serves(s)' => Serves(session)'
          /\ ErrorPosted(s)' => ErrorPosted(session)'
      BY <1>1 DEF Serves, Leaving, ErrorPosted, ErrorReached, InCallback
    <3> QED
      BY <1>1, <3>1 DEF QueueServed
  <2>1. ~Dismisses(s)
    BY <1>14
  <2>2. CASE Departs(s)
    <3>1. worker[s] = "exit" /\ commands # <<>>
      BY <2>2 DEF Departs
    <3>2. ErrorPosted(s)
      BY <1>1, <3>1 DEF WaitInv, QueueServed, Serves, Leaving
    <3> QED
      BY <1>1, <3>2
  <2> QED
    BY <1>2, <2>1, <2>2 DEF Rounds, Takes, Handles, Refuses, Serves, Leaving
<1>16. ClosesWait'
  <2> SUFFICES ASSUME NEW i \in Calls, Closing(i)
               PROVE  /\ Queued(i)' => /\ call[i].state = "await" /\ future[Own(i)] = "pending"
                                       /\ ~OnWay(Own(i))'
                      /\ InProgress(i) => \A j \in Calls : i < j => ~Used(j)
                      /\ \A r \in Sessions : Handling(r)' => command'[r] # i
    BY <1>1 DEF ClosesWait, Closing
  <2>1. /\ Queued(i) => /\ call[i].state = "await" /\ future[Own(i)] = "pending"
                        /\ ~OnWay(Own(i))
        /\ InProgress(i) => \A j \in Calls : i < j => ~Used(j)
        /\ \A r \in Sessions : Handling(r) => command[r] # i
    BY DEF WaitInv, ClosesWait
  <2>2. Queued(i)' => Queued(i)
    BY <1>2, <1>4, <1>5
  <2>3. Queued(i)' => ~OnWay(Own(i))'
    <3> SUFFICES ASSUME Queued(i)', OnWay(Own(i))' PROVE FALSE
      OBVIOUS
    <3>1. PICK v \in {"result", "error"} : Completes(Own(i), v)'
      BY <1>t, ReadyViewsNext, FutureNames
    <3>2. ~Completes(Own(i), v)
      BY <1>t, <2>1, <2>2, ReadyViews
    <3>3. ~(Handles(s) /\ i = command[s])
      BY <2>1 DEF Handles
    <3> QED
      BY <1>4, <1>8, <3>1, <3>2, <3>3
  <2>4. \A r \in Sessions : Handling(r)' => command'[r] # i
    <3> SUFFICES ASSUME NEW r \in Sessions, worker'[r] = "handle" PROVE command'[r] # i
      OBVIOUS
    <3>1. r = s /\ Takes(s)
      BY <1>1, <1>2 DEF Rounds, Handles, Dismisses, Refuses, Departs, Leaving
    <3>2. command'[s] = Head(commands) /\ call[Head(commands)].kind # "close"
      BY <1>6, <3>1 DEF Takes
    <3> QED
      BY <3>1, <3>2 DEF Closing
  <2> QED
    BY <2>1, <2>2, <2>3, <2>4
<1>17. ClosesAnswered'
  <2> SUFFICES ASSUME NEW i \in Calls, Closing(i)
               PROVE  /\ AnsweredWith(Own(i), "result")' => call[i].on \in Sessions /\ Leaving(call[i].on)'
                      /\ AnsweredWith(Own(i), "error")' => call[i].on \in Sessions /\ ErrorPosted(call[i].on)'
                      /\ future[Own(i)] # "cancelled"
    BY <1>1 DEF ClosesAnswered, Closing
  <2>1. /\ AnsweredWith(Own(i), "result") => call[i].on \in Sessions /\ Leaving(call[i].on)
        /\ AnsweredWith(Own(i), "error") => call[i].on \in Sessions /\ ErrorPosted(call[i].on)
        /\ future[Own(i)] # "cancelled"
        /\ \A r \in Sessions : Handling(r) => command[r] # i
    BY DEF WaitInv, ClosesAnswered, ClosesWait
  <2>2. \A r \in Sessions : r = call[i].on => /\ Leaving(r)' => Leaving(call[i].on)'
                                              /\ ErrorPosted(r)' => ErrorPosted(call[i].on)'
    BY <1>1 DEF Leaving, ErrorPosted, ErrorReached, InCallback
  <2>3. \A v \in {"result", "error"} : AnsweredWith(Own(i), v)' =>
          \/ AnsweredWith(Own(i), v)
          \/ Dismisses(s) /\ i = Head(commands) /\ v = "result"
          \/ Refuses(s) /\ i = Head(commands) /\ v = "error"
    BY <1>1, <1>8, <2>1 DEF AnsweredWith, Handles
  <2>4. CASE Dismisses(s) /\ i = Head(commands)
    <3>1. call[i].on = s /\ Leaving(s)'
      BY <1>4, <1>13, <2>4 DEF Dismisses, Leaving
    <3>2. ~Refuses(s)
      BY <2>4 DEF Dismisses, Refuses
    <3> QED
      BY <1>1, <2>1, <2>2, <2>3, <3>1, <3>2
  <2>5. CASE Refuses(s) /\ i = Head(commands)
    <3>1. call[i].on = s
      BY <1>4, <1>13, <2>5
    <3>2. ErrorPosted(s)'
      BY <1>1, <2>5 DEF Refuses, WaitInv, FailurePosted
    <3>3. ~Dismisses(s)
      BY <2>5 DEF Dismisses, Refuses
    <3> QED
      BY <1>1, <2>1, <2>2, <2>3, <3>1, <3>2, <3>3
  <2> QED
    BY <1>1, <2>1, <2>2, <2>3, <2>4, <2>5
<1>18. JoinsLeaving'
  <2> SUFFICES ASSUME NEW i \in Calls, call[i].state = "join"
               PROVE  call[i].on \in Sessions /\ Leaving(call[i].on)'
    BY <1>1 DEF JoinsLeaving
  <2>1. call[i].on \in Sessions /\ Leaving(call[i].on)
    BY DEF WaitInv, JoinsLeaving
  <2>2. \A r \in Sessions : r = call[i].on => (Leaving(r)' => Leaving(call[i].on)')
    BY <1>1 DEF Leaving
  <2> QED
    BY <1>1, <2>1, <2>2
<1>19. ThreadServed'
  <2> SUFFICES ASSUME ~\E i \in Calls : InProgress(i) /\ call[i].kind = "close"
               PROVE  Serves(s)' \/ ErrorPosted(s)'
    <3>1. /\ Serves(s)' => Serves(thread)'
          /\ ErrorPosted(s)' => ErrorPosted(thread)'
      BY <1>1 DEF Serves, Leaving, ErrorPosted, ErrorReached, InCallback
    <3> QED
      BY <1>1, <3>1 DEF ThreadServed
  <2>1. ~Dismisses(s)
    BY <1>4, <1>13, <1>14 DEF Closing
  <2>2. CASE Departs(s)
    <3>1. ErrorPosted(s)
      <4>1. CASE worker[s] = "fail_pending"
        BY <4>1 DEF WaitInv, FailurePosted
      <4>2. CASE worker[s] = "exit"
        BY <1>1, <4>2 DEF WaitInv, ThreadServed, Serves, Leaving, Sessions
      <4> QED
        BY <2>2, <4>1, <4>2 DEF Departs
    <3> QED
      BY <1>1, <3>1
  <2> QED
    BY <1>2, <2>1, <2>2 DEF Rounds, Takes, Handles, Refuses, Serves, Leaving
<1>20. FailurePosted'
  <2> SUFFICES ASSUME NEW r \in Sessions, worker'[r] = "fail_pending" PROVE ErrorPosted(r)'
    BY DEF FailurePosted
  <2>1. r = s
    BY <1>1
  <2>2. CASE Rounds(s)
    <3>1. ErrorReady(s)'
      BY <1>1, <2>1, <2>2 DEF Rounds, ErrorReady
    <3> QED
      BY <1>t, <2>1, <3>1, ReadyViewsNext
  <2>3. CASE Refuses(s)
    BY <1>1, <2>1, <2>3 DEF Refuses, WaitInv, FailurePosted
  <2> QED
    BY <1>2, <2>1, <2>2, <2>3 DEF Takes, Handles, Dismisses, Departs, Leaving
<1> QED
  BY <1>10, <1>11, <1>12, <1>15, <1>16, <1>17, <1>18, <1>19, <1>20 DEF WaitInv

-----------------------------------------------------------------------------
LEMMA WaitInvariant ==
  ASSUME Disciplined
  PROVE  Spec => [](TypeInv /\ Discipline /\ WaitInv)
<1> DEFINE Inv == TypeInv /\ Discipline /\ CommandInv
<1>1. Spec => []Inv
  BY CommandInvariant
<1>2. Init => WaitInv
  BY InitWait
<1>3. Inv /\ WaitInv /\ [Next]_vars => WaitInv'
  <2> SUFFICES ASSUME Inv, WaitInv, [Next]_vars PROVE WaitInv'
    OBVIOUS
  <2>1. ASSUME NEW i \in Calls, API(i) \/ Continue(i) \/ Cancel(i) PROVE WaitInv'
    BY <2>1, LoopKeepsServed, LoopKeepsHeld, LoopKeepsThread DEF WaitInv
  <2>2. CASE UNCHANGED vars
    BY <2>2 DEF WaitInv, StartsServed, ConnectsOpen, CommandsHeld, QueueServed, ClosesWait,
         ClosesAnswered, JoinsLeaving, GetsThread, ThreadServed, FailurePosted, Closing, Used,
         Handling, AnsweredWith, Completes, Ready, OnWay, Handled, Queued, Leaving, Serves,
         ErrorPosted, ErrorReached, InCallback, InProgress
  <2> QED
    BY <2>1, <2>2, CallbackKeepsWait, WorkerKeepsWait DEF Next
<1> QED
  BY <1>1, <1>2, <1>3, PTL DEF Spec

(* If connect() and close() overlap no other call and are not cancelled,   *)
(* no coroutine is left waiting for what nobody will do: its answer is on  *)
(* its way, or a worker that can still give it has the call in hand or in  *)
(* its queue, or that worker has failed and posted its error.              *)
THEOREM NobodyIsForgotten ==
  ASSUME Disciplined
  PROVE  Spec => []NobodyForgotten
<1>1. ASSUME TypeInv, Discipline, WaitInv PROVE NobodyForgotten
  <2> SUFFICES ASSUME NEW i \in Calls
               PROVE  /\ call[i].state = "await" /\ future[Awaited(i)] = "pending" =>
                           \/ OnWay(Awaited(i))
                           \/ call[i].kind = "connect" /\ worker[call[i].on] \in {"connect", "fail_started"}
                           \/ Handled(i)
                           \/ Queued(i) /\ (Serves(session) \/ ErrorPosted(session))
                      /\ call[i].state = "join" => Leaving(call[i].on)
                      /\ call[i].state = "get" =>
                           \/ Serves(call[i].on) /\ worker[call[i].on] # "fail_pending"
                           \/ ErrorPosted(call[i].on)
    BY DEF NobodyForgotten
  <2>1. ASSUME call[i].state = "await", call[i].kind = "connect", future[Awaited(i)] = "pending"
        PROVE  OnWay(Awaited(i)) \/ worker[call[i].on] \in {"connect", "fail_started"}
    <3>1. call[i].on \in Sessions /\ call[i].on <= session
      BY <1>1, <2>1 DEF WaitInv, ConnectsOpen
    <3>2. Awaited(i) = Started(call[i].on)
      BY <2>1 DEF Awaited
    <3> QED
      BY <1>1, <2>1, <3>1, <3>2 DEF WaitInv, StartsServed
  <2>2. ASSUME call[i].state = "await", call[i].kind # "connect", future[Awaited(i)] = "pending"
        PROVE  OnWay(Awaited(i)) \/ Handled(i) \/ Queued(i)
    <3>1. Awaited(i) = Own(i)
      BY <2>2 DEF Awaited
    <3> QED
      BY <1>1, <2>2, <3>1 DEF WaitInv, CommandsHeld
  <2>3. Queued(i) => Serves(session) \/ ErrorPosted(session)
    <3>1. Queued(i) => commands # <<>>
      BY DEF Queued
    <3> QED
      BY <1>1, <3>1 DEF WaitInv, QueueServed
  <2>4. call[i].state = "join" => Leaving(call[i].on)
    BY <1>1 DEF WaitInv, JoinsLeaving
  <2>5. ASSUME call[i].state = "get"
        PROVE  \/ Serves(call[i].on) /\ worker[call[i].on] # "fail_pending"
               \/ ErrorPosted(call[i].on)
    <3>1. call[i].on = thread /\ thread # 0 /\ call[i].on \in Sessions
      BY <1>1, <2>5 DEF WaitInv, GetsThread, TypeInv, WaitsOpen
    <3>2. ~\E j \in Calls : InProgress(j) /\ call[j].kind = "close"
      <4>1. InProgress(i) /\ call[i].kind = "recv"
        BY <1>1, <2>5 DEF InProgress, Discipline, Kinds
      <4> QED
        BY <1>1, <4>1 DEF Discipline, Exclusive, Lifecycle
    <3> QED
      BY <1>1, <3>1, <3>2 DEF WaitInv, ThreadServed, FailurePosted
  <2> QED
    BY <2>1, <2>2, <2>3, <2>4, <2>5
<1> QED
  BY <1>1, WaitInvariant, PTL
=============================================================================
