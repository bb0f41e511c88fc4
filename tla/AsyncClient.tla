---------------------------- MODULE AsyncClient -----------------------------
(***************************************************************************)
(* The asyncio wrapper of python/src/spraybus/async_client.py.  Coroutines *)
(* run on the event loop; connect() starts a worker thread that owns the   *)
(* native client.  The two sides share self._commands, a thread-safe FIFO  *)
(* towards the worker, and the ready queue of the loop, to which the worker*)
(* adds callbacks with call_soon_threadsafe.  A step of a coroutine runs   *)
(* from one await to the next; a step of the worker does one access to     *)
(* what the threads share.                                                 *)
(*                                                                         *)
(* Every API call has a number, in the order of the calls, and a future of *)
(* its own.  Every connect() that starts a worker opens a session, which   *)
(* has its worker, its _started future and its _messages queue; the        *)
(* attributes of the object always refer to the latest session.            *)
(***************************************************************************)
EXTENDS Naturals, Sequences

CONSTANTS
  MaxCalls,           \* bound: API calls
  MaxSessions,        \* bound: workers started
  MaxMessages,        \* bound: messages one native client returns
  NativeFails,        \* may the native client fail to connect, or poll() raise?
  Disciplined         \* connect() and close() overlap no other call and are not cancelled

ASSUME AsyncAssumption ==
  /\ MaxCalls \in Nat /\ MaxSessions \in Nat /\ MaxMessages \in Nat
  /\ NativeFails \in BOOLEAN /\ Disciplined \in BOOLEAN

VARIABLES
  call,               \* call number -> what it is and where it waits
  future,             \* the asyncio futures
  session,            \* the latest session: _started and _messages are its
  thread,             \* self._thread: a session, or 0 for None
  closed,             \* self._closed
  worker_error,       \* self._worker_error is not None
  commands,           \* self._commands: numbers of the calls, oldest first
  callbacks,          \* the loop's ready queue, as far as the worker filled it
  queue,              \* session -> its asyncio.Queue
  worker,             \* session -> where its worker is in _run
  command,            \* session -> the command its worker is handling
  polled,             \* history: session -> messages poll() has returned
  got,                \* history: session -> messages recv() has returned
  executed            \* history: commands given to the native client

loopVars == <<call, future, session, thread, closed, worker_error, queue, got>>
workerVars == <<worker, command, polled, executed>>
vars == <<loopVars, workerVars, commands, callbacks>>

Calls == 1 .. MaxCalls
Sessions == 1 .. MaxSessions
Lifecycle == {"connect", "close"}
Own(i) == <<"call", i>>
Started(s) == <<"started", s>>
Futures == {Own(i) : i \in Calls} \cup {Started(s) : s \in Sessions}
Error == 0                              \* the _WorkerError item of a queue

Init ==
  /\ call = [i \in Calls |-> [kind |-> "none", state |-> "unused", on |-> 0]]
  /\ future = [f \in Futures |-> "pending"]
  /\ session = 0 /\ thread = 0 /\ closed = FALSE /\ worker_error = FALSE
  /\ commands = <<>> /\ callbacks = <<>>
  /\ queue = [s \in Sessions |-> <<>>]
  /\ worker = [s \in Sessions |-> "none"]
  /\ command = [s \in Sessions |-> 0]
  /\ polled = [s \in Sessions |-> 0]
  /\ got = [s \in Sessions |-> <<>>]
  /\ executed = <<>>

-----------------------------------------------------------------------------
(* Coroutines, on the event loop.                                          *)

InProgress(i) == call[i].state \in {"await", "get", "join"}

(* Call i is the next one, and the application may make it now.            *)
MayCall(i, kind) ==
  /\ call[i].state = "unused"
  /\ \A j \in 1 .. i - 1 : call[j].state # "unused"
  /\ Disciplined => \A j \in Calls : InProgress(j) =>
       kind \notin Lifecycle /\ call[j].kind \notin Lifecycle

(* Call i begins, or ends at once, and what it waits for belongs to s.     *)
Enter(i, kind, state, s) ==
  call' = [call EXCEPT ![i] = [kind |-> kind, state |-> state, on |-> s]]

Leave(i, state) == call' = [call EXCEPT ![i].state = state]

Alive(s) == s \in Sessions /\ worker[s] \notin {"none", "dead"}

(* connect(): with a thread on record it waits for the _started there is.  *)
connect(i) ==
  /\ MayCall(i, "connect")
  /\ \/ /\ thread # 0
        /\ Enter(i, "connect", "await", session)
        /\ UNCHANGED <<session, thread, closed, worker_error, worker>>
     \/ /\ thread = 0
        /\ session < MaxSessions
        /\ session' = session + 1
        /\ thread' = session + 1
        /\ closed' = FALSE
        /\ worker_error' = FALSE
        /\ worker' = [worker EXCEPT ![session + 1] = "connect"]
        /\ Enter(i, "connect", "await", session + 1)
  /\ UNCHANGED <<future, queue, got, command, polled, executed, commands, callbacks>>

(* close(): a live worker is asked to stop, a dead one is forgotten.       *)
close(i) ==
  /\ MayCall(i, "close")
  /\ \/ /\ Alive(thread)
        /\ commands' = Append(commands, i)
        /\ Enter(i, "close", "await", thread)
        /\ UNCHANGED <<thread, closed>>
     \/ /\ ~Alive(thread)
        /\ thread' = 0
        /\ closed' = TRUE
        /\ Enter(i, "close", "returned", thread)
        /\ UNCHANGED commands
  /\ UNCHANGED <<future, session, worker_error, queue, got, workerVars, callbacks>>

(* _ensure_running.                                                        *)
Running == ~closed /\ ~worker_error /\ thread # 0

(* publish, subscribe, get_topic_key: _call.                               *)
_call(i) ==
  /\ MayCall(i, "command")
  /\ \/ /\ Running
        /\ commands' = Append(commands, i)
        /\ Enter(i, "command", "await", session)
     \/ /\ ~Running
        /\ Enter(i, "command", "raised", session)
        /\ UNCHANGED commands
  /\ UNCHANGED <<future, session, thread, closed, worker_error, queue, got,
                 workerVars, callbacks>>

(* asyncio.Queue: put_nowait; and get, which puts a worker error back for  *)
(* the next recv().  Mutants: a stack; the error is not put back.          *)
PutNowait_Front(q, item) == <<item>> \o q
PutNowait(q, item) == Append(q, item)
AfterError_Forgotten(q) == Tail(q)
AfterError(q) == PutNowait(Tail(q), Error)

(* messages.get() has an item: a message, or a worker error to be raised.  *)
Take(i, s) ==
  /\ queue[s] # <<>>
  /\ IF Head(queue[s]) = Error
     THEN /\ queue' = [queue EXCEPT ![s] = AfterError(@)]
          /\ Enter(i, "recv", "raised", s)
          /\ UNCHANGED got
     ELSE /\ queue' = [queue EXCEPT ![s] = Tail(@)]
          /\ got' = [got EXCEPT ![s] = Append(@, Head(queue[s]))]
          /\ Enter(i, "recv", "returned", s)

(* recv() is refused, finds an item, or waits for one.                     *)
recv(i) ==
  /\ MayCall(i, "recv")
  /\ \/ ~Running /\ Enter(i, "recv", "raised", session) /\ UNCHANGED <<queue, got>>
     \/ Running /\ Take(i, session)
     \/ /\ Running
        /\ queue[session] = <<>>
        /\ Enter(i, "recv", "get", session)
        /\ UNCHANGED <<queue, got>>
  /\ UNCHANGED <<future, session, thread, closed, worker_error, workerVars,
                 commands, callbacks>>

RecvResumes(i) ==
  /\ call[i].state = "get"
  /\ Take(i, call[i].on)
  /\ UNCHANGED <<future, session, thread, closed, worker_error, workerVars,
                 commands, callbacks>>

Awaited(i) == IF call[i].kind = "connect" THEN Started(call[i].on) ELSE Own(i)

(* The future a call awaits is done.  close() goes on to join the thread.  *)
Resume(i) ==
  /\ call[i].state = "await"
  /\ future[Awaited(i)] # "pending"
  /\ Leave(i, IF future[Awaited(i)] # "result" THEN "raised"
              ELSE IF call[i].kind = "close" THEN "join" ELSE "returned")
  /\ UNCHANGED <<future, session, thread, closed, worker_error, queue, got,
                 workerVars, commands, callbacks>>

(* Mutant: the thread is not joined.                                       *)
Joined_NotAwaited(i) == TRUE
Joined(i) == worker[call[i].on] = "dead"

(* asyncio.to_thread(thread.join) has returned: the end of close().        *)
CloseJoined(i) ==
  /\ call[i].state = "join"
  /\ Joined(i)
  /\ thread' = 0
  /\ closed' = TRUE
  /\ Leave(i, "returned")
  /\ UNCHANGED <<future, session, worker_error, queue, got, workerVars,
                 commands, callbacks>>

(* The application cancels a call: the future it awaits is cancelled, the  *)
(* command it has queued is not.                                           *)
Cancel(i) ==
  /\ InProgress(i)
  /\ Disciplined => call[i].kind \notin Lifecycle
  /\ Leave(i, "cancelled")
  /\ future' = [future EXCEPT ![Awaited(i)] = IF @ = "pending" THEN "cancelled" ELSE @]
  /\ UNCHANGED <<session, thread, closed, worker_error, queue, got, workerVars,
                 commands, callbacks>>

(* complete(): a future that is done or cancelled keeps its value.         *)
RunComplete ==
  /\ callbacks # <<>>
  /\ Head(callbacks).run = "complete"
  /\ LET b == Head(callbacks)
     IN  future' = [future EXCEPT ![b.future] =
                      IF @ = "pending" THEN b.value ELSE @]
  /\ callbacks' = Tail(callbacks)
  /\ UNCHANGED <<call, session, thread, closed, worker_error, queue, got,
                 workerVars, commands>>

(* publish() of _publish_worker_error, or messages.put_nowait.             *)
RunPut ==
  /\ callbacks # <<>>
  /\ Head(callbacks).run = "put"
  /\ LET b == Head(callbacks)
     IN  /\ queue' = [queue EXCEPT ![b.to] = PutNowait(@, b.item)]
         /\ worker_error' = (worker_error \/ b.item = Error)
  /\ callbacks' = Tail(callbacks)
  /\ UNCHANGED <<call, future, session, thread, closed, got, workerVars, commands>>

-----------------------------------------------------------------------------
(* The worker of session s: _run.                                          *)

Step(s, from, to) == worker[s] = from /\ worker' = [worker EXCEPT ![s] = to]

CallSoon(callback) == callbacks' = Append(callbacks, callback)

(* Mutant: exceptions are not passed on.                                   *)
_complete_ResultsOnly(f, value) ==
  IF value = "result" THEN CallSoon([run |-> "complete", future |-> f, value |-> value])
  ELSE UNCHANGED callbacks

_complete(f, value) == CallSoon([run |-> "complete", future |-> f, value |-> value])
Post(item) == CallSoon([run |-> "put", to |-> session, item |-> item])

(* _native.Client(host, port), then _complete_started.                     *)
NativeConnects(s) ==
  /\ Step(s, "connect", "next")
  /\ _complete(Started(session), "result")
  /\ UNCHANGED <<loopVars, command, polled, executed, commands>>

(* The constructor or poll() raises: into the except clause.               *)
NativeRaises(s) ==
  /\ NativeFails
  /\ Step(s, "connect", "fail_started") \/ Step(s, "poll", "fail_started")
  /\ UNCHANGED <<loopVars, command, polled, executed, commands, callbacks>>

(* Mutant: the command stays in the queue.                                 *)
AfterGet_Peek == commands
AfterGet == Tail(commands)

(* _next_command finds a command; "close" is answered and ends the loop.   *)
_next_command(s) ==
  /\ worker[s] = "next"
  /\ commands # <<>>
  /\ commands' = AfterGet
  /\ \/ /\ call[Head(commands)].kind = "close"
        /\ Step(s, "next", "exit")
        /\ _complete(Own(Head(commands)), "result")
        /\ UNCHANGED command
     \/ /\ call[Head(commands)].kind # "close"
        /\ Step(s, "next", "handle")
        /\ command' = [command EXCEPT ![s] = Head(commands)]
        /\ UNCHANGED callbacks
  /\ UNCHANGED <<loopVars, polled, executed>>

(* _next_command runs into its timeout.                                    *)
NoCommand(s) ==
  /\ Step(s, "next", "poll")
  /\ commands = <<>>
  /\ UNCHANGED <<loopVars, command, polled, executed, commands, callbacks>>

(* _handle_command: the native call, and its result or its exception.      *)
_handle_command(s) ==
  /\ Step(s, "handle", "poll")
  /\ executed' = Append(executed, command[s])
  /\ \E value \in {"result", "error"} : _complete(Own(command[s]), value)
  /\ UNCHANGED <<loopVars, command, polled, commands>>

(* _poll_messages: one message, and round the loop again.                  *)
PollMessage(s) ==
  /\ worker[s] = "poll"
  /\ polled[s] < MaxMessages
  /\ polled' = [polled EXCEPT ![s] = @ + 1]
  /\ Post(polled[s] + 1)
  /\ UNCHANGED <<loopVars, worker, command, executed, commands>>

(* _poll_messages: poll() returns None.                                    *)
PollNothing(s) ==
  /\ Step(s, "poll", "next")
  /\ UNCHANGED <<loopVars, command, polled, executed, commands, callbacks>>

(* Mutant: _started is cancelled instead of failed.                        *)
_fail_started_Cancels(s) ==
  /\ Step(s, "fail_started", "publish_error")
  /\ _complete(Started(session), "cancelled")
  /\ UNCHANGED <<loopVars, command, polled, executed, commands>>

_fail_started(s) ==
  /\ Step(s, "fail_started", "publish_error")
  /\ _complete(Started(session), "error")
  /\ UNCHANGED <<loopVars, command, polled, executed, commands>>

_publish_worker_error(s) ==
  /\ Step(s, "publish_error", "fail_pending")
  /\ Post(Error)
  /\ UNCHANGED <<loopVars, command, polled, executed, commands>>

(* _fail_pending: one command, or none left.                               *)
_fail_pending(s) ==
  /\ worker[s] = "fail_pending"
  /\ \/ /\ commands # <<>>
        /\ commands' = Tail(commands)
        /\ _complete(Own(Head(commands)), "error")
        /\ UNCHANGED worker
     \/ /\ commands = <<>>
        /\ Step(s, "fail_pending", "exit")
        /\ UNCHANGED <<commands, callbacks>>
  /\ UNCHANGED <<loopVars, command, polled, executed>>

(* The native client is destroyed and the thread ends.                     *)
ThreadEnds(s) ==
  /\ Step(s, "exit", "dead")
  /\ UNCHANGED <<loopVars, command, polled, executed, commands, callbacks>>

-----------------------------------------------------------------------------
API(i) == connect(i) \/ close(i) \/ _call(i) \/ recv(i)
Continue(i) == Resume(i) \/ CloseJoined(i) \/ RecvResumes(i)
RunCallback == RunComplete \/ RunPut
_run(s) ==
  \/ NativeConnects(s) \/ NativeRaises(s) \/ _next_command(s) \/ NoCommand(s)
  \/ _handle_command(s) \/ PollMessage(s) \/ PollNothing(s)
  \/ _fail_started(s) \/ _publish_worker_error(s) \/ _fail_pending(s) \/ ThreadEnds(s)

Next ==
  \/ \E i \in Calls : API(i) \/ Continue(i) \/ Cancel(i)
  \/ RunCallback
  \/ \E s \in Sessions : _run(s)

Spec == Init /\ [][Next]_vars

(* The loop runs its callbacks and resumes its tasks, and threads run.     *)
FairSpec ==
  /\ Spec
  /\ WF_vars(RunCallback)
  /\ \A i \in Calls : WF_vars(Continue(i))
  /\ \A s \in Sessions : WF_vars(_run(s))

-----------------------------------------------------------------------------
CallStates == {"unused", "await", "get", "join", "returned", "raised", "cancelled"}
WorkerStates == {"none", "connect", "next", "handle", "poll", "fail_started",
                 "publish_error", "fail_pending", "exit", "dead"}
Callbacks == [run: {"complete"}, future: Futures, value: {"result", "error"}]
               \cup [run: {"put"}, to: Sessions, item: 0 .. MaxMessages]

AsyncTypeOK ==
  /\ call \in [Calls -> [kind: Lifecycle \cup {"none", "command", "recv"},
                         state: CallStates, on: 0 .. MaxSessions]]
  /\ future \in [Futures -> {"pending", "result", "error", "cancelled"}]
  /\ session \in 0 .. MaxSessions /\ thread \in {0, session}
  /\ closed \in BOOLEAN /\ worker_error \in BOOLEAN
  /\ commands \in Seq(Calls) /\ callbacks \in Seq(Callbacks)
  /\ queue \in [Sessions -> Seq(0 .. MaxMessages)]
  /\ worker \in [Sessions -> WorkerStates]
  /\ command \in [Sessions -> 0 .. MaxCalls]
  /\ polled \in [Sessions -> 0 .. MaxMessages]
  /\ got \in [Sessions -> Seq(1 .. MaxMessages)]
  /\ executed \in Seq(Calls)

(* "The native client lives on one background thread" (README.md): no two  *)
(* workers are alive.                                                      *)
SingleWorker == \A s, r \in Sessions : Alive(s) /\ Alive(r) => s = r

(* The worker that is alive is the one the object knows, so that close()   *)
(* can stop it.                                                            *)
NoOrphan == \A s \in Sessions : Alive(s) => thread = s

(* The native client sees each command at most once and in the order of    *)
(* the calls; a call that returned was executed, and one that was refused  *)
(* was not, although a command outlives the call, and even the session,    *)
(* that queued it.                                                         *)
CommandsInOrder ==
  /\ \A m, n \in DOMAIN executed : m < n => executed[m] < executed[n]
  /\ \A i \in Calls : call[i].kind = "command" =>
       /\ call[i].state = "returned" => \E n \in DOMAIN executed : executed[n] = i
       /\ call[i].state = "raised" /\ future[Own(i)] = "pending" =>
            \A n \in DOMAIN executed : executed[n] # i

(* The items of session s on their way to the application: returned by     *)
(* recv(), in the queue, or in a callback the loop has yet to run; and     *)
(* which of two is ahead.                                                  *)
InCallback(s) == {n \in DOMAIN callbacks : callbacks[n].run = "put" /\ callbacks[n].to = s}
Places(s) ==
  {<<1, n>> : n \in DOMAIN got[s]} \cup {<<2, n>> : n \in DOMAIN queue[s]}
    \cup {<<3, n>> : n \in InCallback(s)}
ItemAt(s, p) ==
  CASE p[1] = 1 -> got[s][p[2]] [] p[1] = 2 -> queue[s][p[2]] [] p[1] = 3 -> callbacks[p[2]].item
Ahead(p, q) == p[1] < q[1] \/ (p[1] = q[1] /\ p[2] < q[2])

(* What recv() has returned, what the queue holds and what is on its way   *)
(* are exactly the messages poll() returned, each once and in that order:  *)
(* nothing is lost, doubled or overtaken on the way between the threads.   *)
MessagesConserved ==
  \A s \in Sessions :
    /\ {ItemAt(s, p) : p \in Places(s)} \ {Error} = 1 .. polled[s]
    /\ \A p, q \in Places(s) :
         Ahead(p, q) /\ Error \notin {ItemAt(s, p), ItemAt(s, q)} => ItemAt(s, p) < ItemAt(s, q)

(* Call i is a recv() that waits for session s; the error of its worker    *)
(* has reached the queue; recv() has returned all that poll() had.         *)
Waits(i, s) == call[i].state = "get" /\ call[i].on = s
ErrorReached(s) == \E n \in DOMAIN queue[s] : queue[s][n] = Error
AllRead(s) == \A m \in 1 .. polled[s] : \E n \in DOMAIN got[s] : got[s][n] = m

(* How reading ends when a worker fails.  A recv() that waits is given the *)
(* error only after every message has been read, for the error stands      *)
(* behind them.  But a recv() that begins when the error is there is       *)
(* refused by _ensure_running before it looks at the queue: messages still *)
(* unread when nobody waits any more are never read.                       *)
ErrorEndsReading ==
  [][\A s \in Sessions :
       /\ \A i \in Calls : Waits(i, s) /\ call'[i].state = "raised" => AllRead(s)
       /\ ErrorReached(s) /\ (\A i \in Calls : ~Waits(i, s)) => got'[s] = got[s]]_vars

Queued(i) == \E n \in DOMAIN commands : commands[n] = i

(* Who is to answer a call that waits: a callback that completes its       *)
(* future is on its way, a worker has it in hand, or a worker is there to  *)
(* come to it.  A worker error that has been posted stays posted.          *)
OnWay(f) ==
  \E n \in DOMAIN callbacks : callbacks[n].run = "complete" /\ callbacks[n].future = f
Handled(i) == \E s \in Sessions : worker[s] = "handle" /\ command[s] = i
Leaving(s) == worker[s] \in {"exit", "dead"}
Serves(s) == worker[s] # "none" /\ ~Leaving(s)
ErrorPosted(s) ==
  \/ ErrorReached(s)
  \/ \E n \in InCallback(s) : callbacks[n].item = Error

(* No call waits for what nobody will do.  The future of a connect() is    *)
(* still to be completed by its worker, that of a command or close() is    *)
(* held by the worker or in the queue, and a queue nobody serves any more  *)
(* is the queue of a worker that failed; close() joins a thread that is on *)
(* its way out; and a recv() waits only while messages can come or the     *)
(* error is there for it.                                                  *)
NobodyForgotten ==
  \A i \in Calls :
    /\ call[i].state = "await" /\ future[Awaited(i)] = "pending" =>
         \/ OnWay(Awaited(i))
         \/ call[i].kind = "connect" /\ worker[call[i].on] \in {"connect", "fail_started"}
         \/ Handled(i)
         \/ Queued(i) /\ (Serves(session) \/ ErrorPosted(session))
    /\ call[i].state = "join" => Leaving(call[i].on)
    /\ call[i].state = "get" =>
         \/ Serves(call[i].on) /\ worker[call[i].on] # "fail_pending"
         \/ ErrorPosted(call[i].on)

(* A failure of the native client is reported on every path: connect()     *)
(* comes back, and so do a recv() that was waiting and a command or close()*)
(* that was queued when the worker failed.                                 *)
FailureReported ==
  \A i \in Calls :
    \/ call[i].kind = "connect"
    \/ call[i].state = "get" /\ worker[call[i].on] = "fail_started"
    \/ Queued(i) /\ \E s \in Sessions : worker[s] = "fail_started"
    ~> ~InProgress(i)

(* Call i is in the queue of a worker that has left its loop.              *)
Stranded(i) == Queued(i) /\ Leaving(session)

(* Every command, connect() and close() comes back to its caller, also     *)
(* when a worker has failed and whatever is cancelled on the way.  The one *)
(* exception is a call that is put into the queue after the worker has     *)
(* looked at it for the last time.  If connect() and close() overlap no    *)
(* other call, that is a call made between the end of _fail_pending and    *)
(* the callback that sets _worker_error, or the death of the thread.       *)
CallsCompleteUnlessStranded ==
  \A i \in Calls : call[i].state \in {"await", "join"} ~> ~InProgress(i) \/ Stranded(i)

(* The same without the exception: "Async methods enqueue commands to that *)
(* thread" (python/README.md), and there they are answered.                *)
CallsComplete ==
  \A i \in Calls : call[i].state \in {"await", "join"} ~> ~InProgress(i)
=============================================================================
