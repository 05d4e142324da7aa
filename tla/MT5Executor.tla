---------------------------- MODULE MT5Executor ----------------------------
(***************************************************************************)
(* How requests reach the MetaTrader terminal: run_mt5 of                  *)
(* app/mt5/executor.py, the handlers that call it (main.py, connection.py, *)
(* market.py) and the lifespan that opens and closes the connection.       *)
(*                                                                         *)
(* Handlers run in parallel threads.  run_mt5 submits a call to one worker *)
(* thread and waits for its answer for a limited time; giving up does not  *)
(* cancel the call, which runs when its turn comes.  The terminal is       *)
(* external: a call may fail, and may take for ever.                       *)
(***************************************************************************)
EXTENDS Naturals, Sequences, SequencesExt, FiniteSets

CONSTANTS Requests,  \* requests the API receives, each handled once
          Lifespan,  \* the caller that connects and disconnects
          None

ASSUME LifespanAssumption == Lifespan \notin Requests

VARIABLES
  server,     \* the lifespan of the application
  job,        \* what each caller handles, None before it begins
  step,       \* how far in its plan it is
  wait,       \* the operation whose future it waits for, or None
  answer,     \* the answer that future holds, or None
  outcome,    \* what the caller ended with, or None
  reported,   \* the call whose error the caller reports, or None
  queue,      \* calls submitted, not started
  running,    \* calls the worker executes
  connected,  \* the terminal is initialized
  lastError   \* mt5.last_error(): the call that failed last, or None

callers == <<job, step, wait, answer, outcome, reported>>
worker == <<queue, running>>
vars == <<server, callers, worker, connected, lastError>>

Callers == Requests \cup {Lifespan}

(***************************************************************************)
(* Operations, by what the handlers do with their failure.                 *)
(*   query:  a failure is looked up with last_error, and is a 500          *)
(*           (account_info, positions_get, copy_rates_from_pos,            *)
(*           symbol_info); initialize likewise                             *)
(*   select: a failure is a 400 (symbol_select)                            *)
(*   probe:  a failure is an answer like another (/health)                 *)
(*   tick:   nothing that goes wrong is passed on (broker offset)          *)
(***************************************************************************)
Kinds == {"account", "health", "candles", "signal"}
Series == <<"select", "query", "tick">>  \* get_candles

\* The calls of a handler, in order.  The signal reads four series; two are
\* enough for a call abandoned in one to meet the calls of the next.
Plan(k) ==
  CASE k = "account" -> <<"query">>
    [] k = "health" -> <<"probe", "probe">>
    [] k = "candles" -> Series
    [] k = "signal" -> <<"query", "probe">> \o Series \o Series \o <<"select", "query">>
    [] k = "connect" -> <<"initialize">>
    [] k = "disconnect" -> <<"shutdown">>
MaxSteps == 10

Ops == {"query", "probe", "select", "tick", "initialize", "shutdown", "last_error"}
LooksUpError == {"query", "initialize"}
Tolerates == {"probe", "tick", "shutdown"}
Outcomes == {"200", "400", "500", "503"}

-----------------------------------------------------------------------------
(* run_mt5                                                                 *)

\* _executor.submit, then future.result waits.
Submit(c, op, n) ==
  /\ queue' = Append(queue, [owner |-> c, op |-> op, step |-> n])
  /\ wait' = [wait EXCEPT ![c] = op]
  /\ answer' = [answer EXCEPT ![c] = None]
  /\ step' = [step EXCEPT ![c] = n]

Finish(c, result, error) ==
  /\ outcome' = [outcome EXCEPT ![c] = result]
  /\ reported' = [reported EXCEPT ![c] = error]
  /\ wait' = [wait EXCEPT ![c] = None]
  /\ UNCHANGED <<queue, answer, step>>

\* Mutant of MayTake: the newest call first.
MayTakeNewest(i) == running = {} /\ i = Len(queue)

\* max_workers = 1, first in first out.
MayTake(i) == running = {} /\ i = 1

Take(i) ==
  /\ MayTake(i)
  /\ running' = running \cup {queue[i]}
  /\ queue' = RemoveAt(queue, i)
  /\ UNCHANGED <<server, callers, connected, lastError>>

\* Mutant of Awaited: an answer goes to its caller, whatever that waits for.
AwaitedByAny(call) == wait[call.owner] # None

\* The future of an abandoned call resolves unseen.
Awaited(call) == wait[call.owner] = call.op /\ step[call.owner] = call.step

\* External: the native call ends, and sets what last_error will say.
Return(call, ok) ==
  /\ call \in running
  /\ call.op = "last_error" => ok
  /\ running' = running \ {call}
  /\ lastError' = IF call.op = "last_error" THEN lastError
                  ELSE IF ok THEN None ELSE <<call.owner, call.step>>
  /\ connected' = IF call.op = "initialize" THEN ok
                  ELSE IF call.op = "shutdown" THEN FALSE ELSE connected
  /\ answer' = IF Awaited(call)
               THEN [answer EXCEPT ![call.owner] = 
                      [op |-> call.op, step |-> call.step, ok |-> ok, error |-> lastError]]
               ELSE answer
  /\ UNCHANGED <<server, job, step, wait, outcome, reported, queue>>

\* Mutant of MayTimeOut: the clock runs only while the call does.
MayTimeOutRunning(c) ==
  wait[c] # None /\ answer[c] = None /\ \E call \in running : call.owner = c

\* The wait in future.result is limited from the moment it begins.
MayTimeOut(c) == wait[c] # None /\ answer[c] = None

-----------------------------------------------------------------------------
(* The handlers                                                            *)

\* The next call of the plan, or the answer to the client.  A signal request
\* ends early when a gate or a series rejects it; candles or trade terms the
\* handler cannot use (ValueError) are a 400.
Proceed(c) ==
  LET plan == Plan(job[c])
      more == step[c] < Len(plan)
      judged == wait[c] \in {"query", "tick"} /\ step[c] > 1
      rejected == job[c] = "signal" /\ (step[c] <= 2 \/ wait[c] = "tick")
  IN  \/ more /\ Submit(c, plan[step[c] + 1], step[c] + 1) /\ UNCHANGED <<outcome, reported>>
      \/ (~more \/ rejected) /\ Finish(c, "200", None)
      \/ judged /\ Finish(c, "400", None)

\* Mutant of Swallowed: a timeout of symbol_select is passed over as well.
SwallowedWithSelect(op) == op \in {"tick", "select"}

Swallowed(op) == op = "tick"

\* MT5TimeoutError is a 503, except where the broker offset is read.
Timeout(c) ==
  /\ MayTimeOut(c)
  /\ IF Swallowed(wait[c]) THEN Proceed(c) ELSE Finish(c, "503", None)
  /\ UNCHANGED <<server, job, running, connected, lastError>>

Begin(c, kind) ==
  /\ job' = [job EXCEPT ![c] = kind]
  /\ Submit(c, Plan(kind)[1], 1)
  /\ outcome' = [outcome EXCEPT ![c] = None]
  /\ UNCHANGED <<reported, running, connected, lastError>>

Arrive(c, kind) ==
  /\ server = "serving" /\ c \in Requests /\ job[c] = None
  /\ Begin(c, kind) /\ UNCHANGED server

\* The caller wakes with its answer.
Receive(c) ==
  LET op == wait[c]
      ok == answer[c].ok
  IN  /\ op # None /\ answer[c] # None
      /\ \/ op = "last_error" /\ Finish(c, "500", answer[c].error)
         \/ op # "last_error" /\ (ok \/ op \in Tolerates) /\ Proceed(c)
         \/ ~ok /\ op \in LooksUpError /\ Submit(c, "last_error", step[c])
            /\ UNCHANGED <<outcome, reported>>
         \/ ~ok /\ op = "select" /\ Finish(c, "400", None)
      /\ UNCHANGED <<server, job, running, connected, lastError>>

-----------------------------------------------------------------------------
(* The lifespan of the application                                         *)

Connect ==
  /\ server = "starting" /\ job[Lifespan] = None
  /\ Begin(Lifespan, "connect") /\ UNCHANGED server

\* connect_mt5 returned, or raised and the application does not start.
Started ==
  /\ server = "starting" /\ outcome[Lifespan] # None
  /\ server' = IF outcome[Lifespan] = "200" THEN "serving" ELSE "failed"
  /\ UNCHANGED <<callers, worker, connected, lastError>>

\* External: the server is told to stop, and accepts no further request.
Drain == /\ server = "serving" /\ server' = "draining"
         /\ UNCHANGED <<callers, worker, connected, lastError>>

Answered(c) == job[c] # None => outcome[c] # None

\* Mutant of MayDisconnect: the connection is closed under open requests.
MayDisconnectEarly == TRUE

\* External: the server lets open requests end before it stops the lifespan.
MayDisconnect == \A c \in Requests : Answered(c)

Disconnect ==
  /\ server = "draining" /\ MayDisconnect
  /\ server' = "stopping"
  /\ Begin(Lifespan, "disconnect")

Stopped == /\ server = "stopping" /\ outcome[Lifespan] # None
           /\ server' = "stopped"
           /\ UNCHANGED <<callers, worker, connected, lastError>>

-----------------------------------------------------------------------------
Init ==
  /\ server = "starting" /\ connected = FALSE /\ lastError = None
  /\ job = [c \in Callers |-> None]
  /\ step = [c \in Callers |-> 0]
  /\ wait = [c \in Callers |-> None]
  /\ answer = [c \in Callers |-> None]
  /\ outcome = [c \in Callers |-> None]
  /\ reported = [c \in Callers |-> None]
  /\ queue = <<>> /\ running = {}

Next ==
  \/ Connect \/ Started \/ Drain \/ Disconnect \/ Stopped
  \/ \E c \in Requests, kind \in Kinds : Arrive(c, kind)
  \/ \E c \in Callers : Receive(c) \/ Timeout(c)
  \/ \E i \in DOMAIN queue : Take(i)
  \/ \E call \in running, ok \in BOOLEAN : Return(call, ok)

\* The clock and the threads of the handlers run; the terminal may hang, so
\* nothing is assumed of the worker.
Fairness ==
  /\ \A c \in Callers : WF_vars(Receive(c)) /\ WF_vars(Timeout(c))
  /\ WF_vars(Connect) /\ WF_vars(Started) /\ WF_vars(Disconnect) /\ WF_vars(Stopped)

Spec == Init /\ [][Next]_vars /\ Fairness

-----------------------------------------------------------------------------
Call == [owner: Callers, op: Ops, step: 1..MaxSteps]
Error == (Callers \X (1..MaxSteps)) \cup {None}
Answer == [op: Ops, step: 1..MaxSteps, ok: BOOLEAN, error: Error]

ASSUME NoneAssumption ==
  None \notin Answer \cup Ops \cup Outcomes \cup Kinds \cup {"connect", "disconnect"}

TypeOK ==
  /\ server \in {"starting", "serving", "draining", "stopping", "stopped", "failed"}
  /\ connected \in BOOLEAN
  /\ job \in [Callers -> Kinds \cup {"connect", "disconnect", None}]
  /\ step \in [Callers -> 0..MaxSteps]
  /\ wait \in [Callers -> Ops \cup {None}]
  /\ answer \in [Callers -> Answer \cup {None}]
  /\ outcome \in [Callers -> Outcomes \cup {None}]
  /\ reported \in [Callers -> Error]
  /\ queue \in Seq(Call) /\ running \subseteq Call
  /\ lastError \in Error

\* One call at a time, and those of a caller in the order of its plan: a call it
\* has given up on is neither overtaken by its next one nor running beside it.
Serialized ==
  /\ Cardinality(running) <= 1
  /\ \A call \in running, other \in ToSet(queue) :
       call.owner = other.owner => call.step < other.step

\* The executor never holds more than two calls of a caller: the one it waits
\* for, and one it has abandoned.  However long the terminal hangs and however
\* many requests time out, the backlog stays in proportion to the requests.
BacklogBounded ==
  \A c \in Callers :
    Cardinality({call \in running \cup ToSet(queue) : call.owner = c}) <= 2

\* The answer a caller wakes up with is the answer to the call it waits for,
\* also when an earlier call it gave up on ends in the meantime; and until it
\* wakes that call has its place in the executor, so that no caller waits for a
\* future that nothing will resolve.
AnswerIsOwn ==
  \A c \in Callers : wait[c] # None =>
    IF answer[c] # None
    THEN answer[c].op = wait[c] /\ answer[c].step = step[c]
    ELSE \E call \in running \cup ToSet(queue) : Awaited(call) /\ call.owner = c

\* The terminal is only asked while the connection is open: nothing but the
\* connection's own calls runs before initialize or after shutdown, abandoned
\* calls included.
OnlyWhileConnected ==
  \A call \in running : call.op \in {"initialize", "shutdown", "last_error"} \/ connected

\* Every caller gets an answer, also when the terminal hangs for good.
EveryCallerAnswered == \A c \in Callers : wait[c] # None ~> wait[c] = None

\* docs/TROUBLESHOOTING.md: a failed /account surfaces the terminal's error,
\* the error of the call that failed.
ErrorIsOwn == \A c \in Requests : outcome[c] = "500" => reported[c] = <<c, step[c]>>

\* docs/DEPLOYMENT.md: a call that exceeds its timeout fails the request.
TimeoutIs503 ==
  [][\A c \in Requests : wait[c] # None /\ wait'[c] = None /\ answer[c] = None =>
       outcome'[c] = "503"]_vars
=============================================================================
