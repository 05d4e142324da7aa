------------------------- MODULE MT5ExecutorProofs -------------------------
(***************************************************************************)
(* The safety properties of MT5Executor for any number of requests.        *)
(***************************************************************************)
EXTENDS MT5Executor, SequenceTheorems, FunctionTheorems, FiniteSetTheorems, TLAPS

-----------------------------------------------------------------------------
(* The invariant *)

\* The calls the executor holds, waiting or running.
Held == running \cup ToSet(queue)
HeldOf(c) == {x \in Held : x.owner = c}

LifeOps == {"initialize", "shutdown", "last_error"}

\* One call runs; the calls of a caller are queued in the order of its plan.
Order ==
  /\ \A x, y \in running : x = y
  /\ \A x \in running, i \in DOMAIN queue : x.owner = queue[i].owner => x.step < queue[i].step
  /\ \A i, j \in DOMAIN queue :
       i < j /\ queue[i].owner = queue[j].owner => queue[i].step < queue[j].step

\* A caller that waits is at a step of its plan, and has not finished.
Jobs ==
  /\ \A r \in Requests : job[r] \in Kinds \cup {None}
  /\ job[Lifespan] \in {"connect", "disconnect", None}
  /\ \A c \in Callers : wait[c] # None =>
       /\ job[c] # None /\ outcome[c] = None
       /\ step[c] \in 1..Len(Plan(job[c]))
       /\ wait[c] = Plan(job[c])[step[c]] \/ wait[c] = "last_error"

\* A call that is not the awaited one is a tick its caller gave up on.
Abandoned(x) == x.op = "tick" /\ x.step = step[x.owner] - 1

Calls ==
  \A x \in Held :
    /\ job[x.owner] # None
    /\ x.step = step[x.owner] \/ Abandoned(x)
    /\ x.owner = Lifespan => x.op \in LifeOps
    /\ x.owner # Lifespan => x.op \notin {"initialize", "shutdown"}
    /\ x.op \notin LifeOps => connected
    /\ wait[x.owner] # None =>
         answer[x.owner] = None /\ (Awaited(x) \/ (Abandoned(x) /\ wait[x.owner] # "tick"))

\* Who waits has an answer of its own, or a call in the executor.
Waits ==
  \A c \in Callers : wait[c] # None =>
    IF answer[c] # None
    THEN answer[c].op = wait[c] /\ answer[c].step = step[c]
    ELSE \E x \in HeldOf(c) : Awaited(x)

\* The connection and the server agree.
Life ==
  /\ server \in {"starting", "failed"} =>
       (\A r \in Requests : job[r] = None) /\ job[Lifespan] \in {None, "connect"}
  /\ server = "starting" =>
       /\ outcome[Lifespan] = "200" => connected /\ wait[Lifespan] = None /\ HeldOf(Lifespan) = {}
       /\ wait[Lifespan] = "initialize" /\ answer[Lifespan] # None /\ answer[Lifespan].ok =>
            connected
  /\ server \in {"serving", "draining"} =>
       connected /\ wait[Lifespan] = None /\ HeldOf(Lifespan) = {}
  /\ server \in {"stopping", "stopped"} =>
       /\ \A r \in Requests : wait[r] = None
       /\ job[Lifespan] = "disconnect"
       /\ \A x \in HeldOf(Lifespan) : x.op = "shutdown"
       /\ \A i \in DOMAIN queue : queue[i].op = "shutdown" => i = Len(queue)
       /\ \A x \in running : x.op = "shutdown" => queue = <<>>
  /\ \A x \in Held : x.op = "shutdown" => server \in {"stopping", "stopped"}
  /\ \A x \in Held : x.op = "initialize" => server \in {"starting", "failed"}

IInv == TypeOK /\ Order /\ Jobs /\ Calls /\ Waits /\ Life

-----------------------------------------------------------------------------
(* Plans *)

\* Every operation of a plan, and what follows an operation whose timeout is
\* swallowed: never another such one.
LEMMA Plans ==
  ASSUME NEW k \in Kinds \cup {"connect", "disconnect"}
  PROVE  /\ Len(Plan(k)) \in 1..MaxSteps
         /\ \A n \in 1..Len(Plan(k)) : Plan(k)[n] \in Ops \ {"last_error"}
         /\ k \in Kinds => \A n \in 1..Len(Plan(k)) : Plan(k)[n] \notin {"initialize", "shutdown"}
         /\ \A n \in 1..(Len(Plan(k)) - 1) : Plan(k)[n] = "tick" => Plan(k)[n + 1] # "tick"
         /\ k = "connect" => Plan(k) = <<"initialize">>
         /\ k = "disconnect" => Plan(k) = <<"shutdown">>
<1> DEFINE one == <<"query", "probe">>
           two == one \o Series
           three == two \o Series
           last == <<"select", "query">>
           all == three \o last
<1>1. Plan("signal") = all
  BY DEF Plan
<1>2. Plan("account") = <<"query">> /\ Plan("health") = <<"probe", "probe">>
      /\ Plan("candles") = <<"select", "query", "tick">>
      /\ Plan("connect") = <<"initialize">> /\ Plan("disconnect") = <<"shutdown">>
  BY DEF Plan, Series
<1>3. /\ one \in Seq(Ops) /\ Len(one) = 2 /\ one[1] = "query" /\ one[2] = "probe"
      /\ Series \in Seq(Ops) /\ Len(Series) = 3
      /\ Series[1] = "select" /\ Series[2] = "query" /\ Series[3] = "tick"
      /\ last \in Seq(Ops) /\ Len(last) = 2 /\ last[1] = "select" /\ last[2] = "query"
  BY DEF Ops, Series
<1>4. /\ two \in Seq(Ops) /\ Len(two) = 5 /\ two[1] = "query" /\ two[2] = "probe"
      /\ two[3] = "select" /\ two[4] = "query" /\ two[5] = "tick"
  <2> HIDE DEF one
  <2>1. /\ two \in Seq(Ops) /\ Len(two) = Len(one) + Len(Series)
        /\ \A i \in 1..(Len(one) + Len(Series)) :
             two[i] = IF i <= Len(one) THEN one[i] ELSE Series[i - Len(one)]
    BY <1>3, ConcatProperties
  <2> HIDE DEF two
  <2> QED BY <1>3, <2>1
<1>5. /\ three \in Seq(Ops) /\ Len(three) = 8 /\ three[1] = "query" /\ three[2] = "probe"
      /\ three[3] = "select" /\ three[4] = "query" /\ three[5] = "tick"
      /\ three[6] = "select" /\ three[7] = "query" /\ three[8] = "tick"
  <2> HIDE DEF two
  <2>1. /\ three \in Seq(Ops) /\ Len(three) = Len(two) + Len(Series)
        /\ \A i \in 1..(Len(two) + Len(Series)) :
             three[i] = IF i <= Len(two) THEN two[i] ELSE Series[i - Len(two)]
    BY <1>3, <1>4, ConcatProperties
  <2> HIDE DEF three
  <2> QED BY <1>3, <1>4, <2>1
<1>6. /\ Len(all) = 10 /\ all[1] = "query" /\ all[2] = "probe"
      /\ all[3] = "select" /\ all[4] = "query" /\ all[5] = "tick"
      /\ all[6] = "select" /\ all[7] = "query" /\ all[8] = "tick"
      /\ all[9] = "select" /\ all[10] = "query"
  <2> HIDE DEF three, last
  <2>1. /\ Len(all) = Len(three) + Len(last)
        /\ \A i \in 1..(Len(three) + Len(last)) :
             all[i] = IF i <= Len(three) THEN three[i] ELSE last[i - Len(three)]
    BY <1>3, <1>5, ConcatProperties
  <2> HIDE DEF all
  <2> QED BY <1>3, <1>5, <2>1
<1> HIDE DEF all
<1>7. CASE k = "signal"
  <2> DEFINE plan == Plan(k)
  <2>1. /\ Len(plan) = 10 /\ plan[1] = "query" /\ plan[2] = "probe"
        /\ plan[3] = "select" /\ plan[4] = "query" /\ plan[5] = "tick"
        /\ plan[6] = "select" /\ plan[7] = "query" /\ plan[8] = "tick"
        /\ plan[9] = "select" /\ plan[10] = "query"
    BY <1>1, <1>6, <1>7
  <2> HIDE DEF plan
  <2>2. \A n \in 1..10 : n \in {1, 2, 3, 4, 5, 6, 7, 8, 9, 10}
    OBVIOUS
  <2>3. \A n \in 1..10 : plan[n] \in {"query", "probe", "select", "tick"}
    BY <2>1, <2>2
  <2>4. \A n \in 1..9 : plan[n] = "tick" => n = 5 \/ n = 8
    BY <2>1, <2>2
  <2>5. \A n \in 1..9 : plan[n] = "tick" => plan[n + 1] # "tick"
    BY <2>1, <2>4
  <2>6. Len(plan) \in 1..MaxSteps /\ 1..Len(plan) = 1..10 /\ 1..(Len(plan) - 1) = 1..9
    BY <2>1 DEF MaxSteps
  <2>7. \A n \in 1..10 : /\ plan[n] \in Ops \ {"last_error"}
                         /\ plan[n] \notin {"initialize", "shutdown"}
    BY <2>3 DEF Ops
  <2> QED BY <1>7, <2>5, <2>6, <2>7 DEF plan
<1>8. CASE k \in {"account", "health", "candles"}
  BY <1>2, <1>8 DEF Ops, Kinds, MaxSteps
<1>9. CASE k \in {"connect", "disconnect"}
  BY <1>2, <1>9 DEF Ops, Kinds, MaxSteps
<1> QED BY <1>7, <1>8, <1>9 DEF Kinds

-----------------------------------------------------------------------------
(* The queue *)

LEMMA HeldIs ==
  ASSUME TypeOK
  PROVE  /\ queue \in Seq(Call) /\ Len(queue) \in Nat /\ DOMAIN queue = 1..Len(queue)
         /\ \A i \in DOMAIN queue : queue[i] \in Call /\ queue[i] \in Held
         /\ \A x \in Held : x \in Call /\ (x \in running \/ \E i \in DOMAIN queue : x = queue[i])
         /\ \A x \in running : x \in Held
<1>1. queue \in Seq(Call) /\ running \subseteq Call
  BY DEF TypeOK
<1>2. Len(queue) \in Nat /\ DOMAIN queue = 1..Len(queue)
  BY <1>1
<1>3. \A i \in DOMAIN queue : queue[i] \in Call
  BY <1>1, <1>2
<1> QED BY <1>1, <1>2, <1>3 DEF Held, ToSet

LEMMA CallIs == ASSUME NEW x \in Call
                PROVE  /\ x.owner \in Callers /\ x.op \in Ops /\ x.step \in 1..MaxSteps
                       /\ x.step \in Nat /\ x = [owner |-> x.owner, op |-> x.op, step |-> x.step]
BY DEF Call, MaxSteps

\* Two calls of one caller are at different steps.
LEMMA OneCallPerStep ==
  ASSUME TypeOK, Order, NEW x \in Held, NEW y \in Held, x.owner = y.owner, x.step = y.step
  PROVE  x = y
<1>1. x.step \in Nat /\ y.step \in Nat
  BY HeldIs, CallIs
<1>2. CASE x \in running /\ y \in running
  BY <1>2 DEF Order
<1>3. CASE x \in running /\ y \notin running
  <2>1. PICK i \in DOMAIN queue : y = queue[i]
    BY <1>3, HeldIs
  <2> QED BY <1>1, <1>3, <2>1 DEF Order
<1>4. CASE x \notin running /\ y \in running
  <2>1. PICK i \in DOMAIN queue : x = queue[i]
    BY <1>4, HeldIs
  <2> QED BY <1>1, <1>4, <2>1 DEF Order
<1>5. CASE x \notin running /\ y \notin running
  <2>1. PICK i \in DOMAIN queue : x = queue[i]
    BY <1>5, HeldIs
  <2>2. PICK j \in DOMAIN queue : y = queue[j]
    BY <1>5, HeldIs
  <2>3. ~(i < j) /\ ~(j < i) /\ i \in Int /\ j \in Int
    BY <1>1, <2>1, <2>2, HeldIs DEF Order
  <2> QED BY <2>1, <2>2, <2>3
<1> QED BY <1>2, <1>3, <1>4, <1>5

\* What a submission does to the queue.
LEMMA Appended ==
  ASSUME TypeOK, NEW call \in Call, queue' = Append(queue, call), running' = running
  PROVE  /\ Len(queue') = Len(queue) + 1 /\ DOMAIN queue' = 1..(Len(queue) + 1)
         /\ \A i \in DOMAIN queue : i \in DOMAIN queue' /\ queue'[i] = queue[i]
         /\ queue'[Len(queue) + 1] = call
         /\ \A i \in DOMAIN queue' : i \in DOMAIN queue \/ i = Len(queue) + 1
         /\ Held' = Held \cup {call}
         /\ queue' \in Seq(Call)
<1>1. /\ queue \in Seq(Call) /\ Len(queue) \in Nat /\ DOMAIN queue = 1..Len(queue)
  BY HeldIs
<1>2. /\ queue' \in Seq(Call) /\ Len(queue') = Len(queue) + 1
      /\ \A i \in 1..Len(queue) : queue'[i] = queue[i]
      /\ queue'[Len(queue) + 1] = call
  BY <1>1, AppendProperties
<1>3. DOMAIN queue' = 1..(Len(queue) + 1)
  BY <1>1, <1>2
<1>4. \A i \in 1..(Len(queue) + 1) : i \in 1..Len(queue) \/ i = Len(queue) + 1
  BY <1>1
<1>5. \A i \in 1..Len(queue) : i \in 1..(Len(queue) + 1)
  BY <1>1
<1>6. Len(queue) + 1 \in 1..(Len(queue) + 1)
  BY <1>1
<1>7. ToSet(queue') = ToSet(queue) \cup {call}
  BY <1>1, <1>2, <1>3, <1>4, <1>5, <1>6 DEF ToSet
<1> QED BY <1>1, <1>2, <1>3, <1>4, <1>5, <1>7 DEF Held

\* What the worker does to the queue when it takes a call.
LEMMA Taken ==
  ASSUME TypeOK, NEW i \in DOMAIN queue, Take(i)
  PROVE  /\ running = {} /\ running' = {queue[1]} /\ 1 \in DOMAIN queue
         /\ Len(queue') = Len(queue) - 1 /\ DOMAIN queue' = 1..(Len(queue) - 1)
         /\ queue' \in Seq(Call)
         /\ \A j \in DOMAIN queue' : j + 1 \in DOMAIN queue /\ queue'[j] = queue[j + 1]
         /\ Held' = Held
<1> DEFINE m == Len(queue)
           front == SubSeq(queue, 1, 0)
           back == SubSeq(queue, 2, m)
<1>1. /\ queue \in Seq(Call) /\ m \in Nat /\ DOMAIN queue = 1..m /\ i = 1
      /\ running = {} /\ running' = {queue[1]} /\ queue' = RemoveAt(queue, 1)
      /\ \A j \in DOMAIN queue : queue[j] \in Call
  BY HeldIs DEF Take, MayTake
<1>2. front = <<>>
  BY <1>1, SubSeqEmpty
<1>3. queue' = front \o back
  BY <1>1 DEF RemoveAt
<1>4. /\ back \in Seq(Call) /\ Len(back) = m - 1
      /\ \A j \in 1..(m - 1) : back[j] = queue[j + 1]
  <2> HIDE DEF m
  <2>1. \A j \in 2..m : queue[j] \in Call
    <3>1. \A j \in 2..m : j \in 1..m
      BY <1>1
    <3> QED BY <1>1, <3>1
  <2>2. /\ back \in Seq(Call) /\ Len(back) = IF 2 <= m THEN m - 2 + 1 ELSE 0
        /\ \A j \in 1..(m - 2 + 1) : back[j] = queue[2 + j - 1]
    BY <1>1, <2>1, SubSeqProperties
  <2>3. m >= 1 /\ m - 2 + 1 = m - 1 /\ (~(2 <= m) => m - 1 = 0)
        /\ \A j \in 1..(m - 1) : 2 + j - 1 = j + 1
    BY <1>1
  <2> HIDE DEF back
  <2> QED BY <2>2, <2>3
<1> HIDE DEF front, back
<1>5. queue' = back
  BY <1>2, <1>3, <1>4, ConcatEmptySeq
<1> HIDE DEF m
<1>6. /\ Len(queue') = m - 1 /\ DOMAIN queue' = 1..(m - 1) /\ queue' \in Seq(Call)
      /\ \A j \in 1..(m - 1) : j + 1 \in 1..m /\ queue'[j] = queue[j + 1]
  BY <1>1, <1>4, <1>5
<1>7. \A j \in 1..m : j = 1 \/ (j - 1 \in 1..(m - 1) /\ j - 1 + 1 = j)
  BY <1>1
<1>8. 1 \in 1..m
  BY <1>1
<1>9. Held' = Held
  <2>1. ASSUME NEW x \in Held PROVE x \in Held'
    <3>1. PICK j \in 1..m : x = queue[j]
      BY <1>1, HeldIs
    <3>2. CASE j = 1
      BY <1>1, <3>1, <3>2 DEF Held
    <3>3. CASE j # 1
      <4>1. j - 1 \in DOMAIN queue' /\ queue'[j - 1] = x
        BY <1>6, <1>7, <3>1, <3>3
      <4> QED BY <4>1 DEF Held, ToSet
    <3> QED BY <3>2, <3>3
  <2>2. ASSUME NEW x \in Held' PROVE x \in Held
    <3>1. CASE x \in running'
      BY <1>1, <1>8, <3>1 DEF Held, ToSet
    <3>2. CASE x \in ToSet(queue')
      <4>1. PICK j \in DOMAIN queue' : x = queue'[j]
        BY <3>2 DEF ToSet
      <4> QED BY <1>1, <1>6, <4>1 DEF Held, ToSet
    <3> QED BY <3>1, <3>2 DEF Held
  <2> QED BY <2>1, <2>2
<1> QED BY <1>1, <1>6, <1>8, <1>9 DEF m

-----------------------------------------------------------------------------
(* What the steps of a caller come to: a submission, or the end *)

JobSet == Kinds \cup {"connect", "disconnect", None}

\* The server as it is when a caller submits a call.
ServerAllows(c, op) ==
  \/ c \in Requests /\ server \in {"serving", "draining"} /\ server' = server /\ job'[c] \in Kinds
  \/ /\ c = Lifespan /\ server \in {"starting", "failed"} /\ server' = server
     /\ job'[c] = "connect" /\ op \in {"initialize", "last_error"}
  \/ /\ c = Lifespan /\ server = "draining" /\ server' = "stopping"
     /\ job'[c] = "disconnect" /\ op = "shutdown" /\ \A r \in Requests : wait[r] = None

Submission(c, op, n) ==
  /\ c \in Callers /\ op \in Ops /\ n \in 1..MaxSteps
  /\ Submit(c, op, n) /\ UNCHANGED <<running, connected, lastError, reported>>
  /\ outcome' = [outcome EXCEPT ![c] = None]
  /\ job' \in [Callers -> JobSet] /\ \A d \in Callers : d # c => job'[d] = job[d]
  /\ n \in 1..Len(Plan(job'[c])) /\ (op = Plan(job'[c])[n] \/ op = "last_error")
  /\ \A x \in HeldOf(c) : x.op = "tick" /\ x.step = n - 1 /\ op # "tick"
  /\ ServerAllows(c, op)

Completion(c) ==
  /\ c \in Callers /\ wait[c] # None
  /\ \E result \in Outcomes, error \in Error :
       /\ Finish(c, result, error)
       /\ c = Lifespan /\ server = "starting" /\ result = "200" => connected /\ HeldOf(c) = {}
  /\ UNCHANGED <<server, job, running, connected, lastError>>

LEMMA JobOf ==
  ASSUME TypeOK, Jobs, NEW c \in Callers
  PROVE  /\ c \in Requests => job[c] \in Kinds \cup {None} /\ c # Lifespan
         /\ c \notin Requests => c = Lifespan
         /\ job[c] \in JobSet
BY LifespanAssumption DEF TypeOK, Jobs, Callers, JobSet

\* Who waits for an answer that has come has nothing left in the executor; who
\* waits for a tick has that tick there and nothing else.
LEMMA HeldOfWaiting ==
  ASSUME IInv, NEW c \in Callers, wait[c] # None
  PROVE  /\ answer[c] # None => HeldOf(c) = {}
         /\ wait[c] = "tick" => \A x \in HeldOf(c) : x.op = "tick" /\ x.step = step[c]
BY DEF IInv, Calls, HeldOf, Awaited

\* A submission that follows the plan, or looks an error up.
LEMMA NextCall ==
  ASSUME IInv, NEW c \in Callers, wait[c] # None, NEW op, NEW n, Submit(c, op, n),
         UNCHANGED <<server, job, running, connected, lastError, outcome, reported>>,
         \/ /\ step[c] < Len(Plan(job[c])) /\ n = step[c] + 1 /\ op = Plan(job[c])[n]
            /\ answer[c] # None \/ wait[c] = "tick"
         \/ /\ n = step[c] /\ op = "last_error" /\ answer[c] # None
            /\ wait[c] \in LooksUpError
  PROVE  Submission(c, op, n)
<1> USE DEF IInv
<1> DEFINE k == job[c]
           plan == Plan(k)
           m == Len(plan)
<1>1. /\ k \in Kinds \cup {"connect", "disconnect"} /\ outcome[c] = None
      /\ step[c] \in 1..m /\ (wait[c] = plan[step[c]] \/ wait[c] = "last_error")
      /\ c \in Requests => k \in Kinds /\ c # Lifespan
      /\ c \notin Requests => c = Lifespan /\ k \in {"connect", "disconnect"}
  BY JobOf DEF Jobs, JobSet
<1>2. /\ m \in 1..MaxSteps
      /\ \A i \in 1..m : plan[i] \in Ops \ {"last_error"}
      /\ \A i \in 1..(m - 1) : plan[i] = "tick" => plan[i + 1] # "tick"
      /\ k = "connect" => plan = <<"initialize">>
      /\ k = "disconnect" => plan = <<"shutdown">>
  BY <1>1, Plans
<1>3. step[c] < m => step[c] + 1 \in 1..m /\ step[c] \in 1..(m - 1) /\ step[c] + 1 - 1 = step[c]
  BY <1>1, <1>2
<1>4. k \in {"connect", "disconnect"} => m = 1 /\ ~(step[c] < m) /\ step[c] = 1
  BY <1>1, <1>2
<1> HIDE DEF m
<1>5. n \in 1..m /\ op \in Ops /\ (op = plan[n] \/ op = "last_error")
  BY <1>1, <1>2, <1>3 DEF m, Ops
<1>6. n \in 1..MaxSteps
  BY <1>2, <1>5 DEF MaxSteps
<1>7. \A x \in HeldOf(c) : x.op = "tick" /\ x.step = n - 1 /\ op # "tick"
  <2>1. CASE answer[c] # None
    BY <2>1, HeldOfWaiting
  <2>2. CASE wait[c] = "tick" /\ answer[c] = None
    <3>1. n = step[c] + 1 /\ step[c] < m /\ op = plan[n] /\ plan[step[c]] = "tick"
      BY <1>1, <2>2 DEF m
    <3>2. op # "tick" /\ n - 1 = step[c]
      BY <1>2, <1>3, <3>1
    <3> QED BY <2>2, <3>2, HeldOfWaiting
  <2> QED BY <2>1, <2>2
<1>8. ServerAllows(c, op)
  <2>1. CASE c \in Requests
    <3>1. server \in {"serving", "draining"}
      BY <1>1, <2>1 DEF Life, Jobs, TypeOK
    <3> QED BY <1>1, <2>1, <3>1 DEF ServerAllows
  <2>2. CASE c \notin Requests
    <3>1. c = Lifespan /\ n = step[c] /\ op = "last_error" /\ wait[c] \in LooksUpError
      BY <1>1, <1>4, <2>2 DEF m
    <3>2. wait[c] = "initialize" /\ k = "connect"
      BY <1>1, <1>2, <1>4, <2>2, <3>1 DEF LooksUpError
    <3>3. server \in {"starting", "failed"}
      BY <3>1, <3>2 DEF Life, TypeOK
    <3> QED BY <3>1, <3>2, <3>3 DEF ServerAllows
  <2> QED BY <2>1, <2>2
<1>9. outcome' = [outcome EXCEPT ![c] = None] /\ job' \in [Callers -> JobSet]
  BY <1>1 DEF TypeOK, JobSet
<1> QED BY <1>5, <1>6, <1>7, <1>8, <1>9 DEF Submission, m

LEMMA ProceedIs ==
  ASSUME IInv, NEW c \in Callers, wait[c] # None, Proceed(c),
         UNCHANGED <<server, job, running, connected, lastError>>,
         \/ wait[c] = "tick"
         \/ /\ answer[c] # None /\ (answer[c].ok \/ wait[c] \in Tolerates)
            /\ wait[c] # "last_error"
  PROVE  Completion(c) \/ \E op, n : Submission(c, op, n)
<1>1. ASSUME NEW op, NEW n, op = Plan(job[c])[n], n = step[c] + 1, step[c] < Len(Plan(job[c])),
             Submit(c, op, n), UNCHANGED <<outcome, reported>>
      PROVE  Submission(c, op, n)
  BY <1>1, NextCall
<1>2. ASSUME Finish(c, "200", None) PROVE Completion(c)
  <2>1. ASSUME c = Lifespan, server = "starting" PROVE connected /\ HeldOf(c) = {}
    <3>1. job[c] = "connect" /\ (wait[c] = Plan(job[c])[step[c]] \/ wait[c] = "last_error")
          /\ step[c] \in 1..Len(Plan(job[c]))
      BY <2>1 DEF IInv, Life, Jobs
    <3>2. Plan(job[c]) = <<"initialize">>
      BY <3>1, Plans
    <3>3. wait[c] \in {"initialize", "last_error"}
      BY <3>1, <3>2
    <3>4. wait[c] = "initialize" /\ answer[c] # None /\ answer[c].ok
      BY <3>3 DEF Tolerates
    <3> QED BY <2>1, <3>4, HeldOfWaiting DEF IInv, Life
  <2> QED BY <1>2, <2>1 DEF Completion, Outcomes, Error
<1>3. ASSUME Finish(c, "400", None) PROVE Completion(c)
  BY <1>3 DEF Completion, Outcomes, Error
<1> QED BY <1>1, <1>2, <1>3 DEF Proceed

LEMMA ReceiveIs ==
  ASSUME IInv, NEW c \in Callers, Receive(c)
  PROVE  Completion(c) \/ \E op, n : Submission(c, op, n)
<1> DEFINE op == wait[c]
<1>1. op # None /\ answer[c] # None /\ UNCHANGED <<server, job, running, connected, lastError>>
  BY DEF Receive
<1>2. CASE op = "last_error" /\ Finish(c, "500", answer[c].error)
  <2>1. answer[c].error \in Error
    BY <1>1 DEF IInv, TypeOK, Answer
  <2> QED BY <1>1, <1>2, <2>1 DEF Completion, Outcomes
<1>3. CASE op # "last_error" /\ (answer[c].ok \/ op \in Tolerates) /\ Proceed(c)
  BY <1>1, <1>3, ProceedIs
<1>4. CASE /\ op \in LooksUpError /\ Submit(c, "last_error", step[c])
           /\ UNCHANGED <<outcome, reported>>
  BY <1>1, <1>4, NextCall
<1>5. CASE Finish(c, "400", None)
  BY <1>1, <1>5 DEF Completion, Outcomes, Error
<1> QED BY <1>2, <1>3, <1>4, <1>5 DEF Receive

LEMMA TimeoutIs ==
  ASSUME IInv, NEW c \in Callers, Timeout(c)
  PROVE  Completion(c) \/ \E op, n : Submission(c, op, n)
<1>1. wait[c] # None /\ UNCHANGED <<server, job, running, connected, lastError>>
  BY DEF Timeout, MayTimeOut
<1>2. CASE wait[c] = "tick"
  BY <1>1, <1>2, ProceedIs DEF Timeout, Swallowed
<1>3. CASE wait[c] # "tick"
  BY <1>1, <1>3 DEF Timeout, Swallowed, Completion, Outcomes, Error
<1> QED BY <1>2, <1>3

LEMMA BeginIs ==
  ASSUME IInv, NEW c \in Callers, NEW k \in Kinds \cup {"connect", "disconnect"}, Begin(c, k),
         HeldOf(c) = {},
         \/ c \in Requests /\ server = "serving" /\ server' = server /\ k \in Kinds
         \/ c = Lifespan /\ server = "starting" /\ server' = server /\ k = "connect"
         \/ /\ c = Lifespan /\ server = "draining" /\ server' = "stopping"
            /\ k = "disconnect" /\ \A r \in Requests : wait[r] = None
  PROVE  \E op, n : Submission(c, op, n)
<1> USE DEF IInv
<1>1. /\ Len(Plan(k)) \in 1..MaxSteps
      /\ \A n \in 1..Len(Plan(k)) : Plan(k)[n] \in Ops \ {"last_error"}
      /\ k = "connect" => Plan(k) = <<"initialize">>
      /\ k = "disconnect" => Plan(k) = <<"shutdown">>
  BY Plans
<1>2. 1 \in 1..Len(Plan(k)) /\ 1 \in 1..MaxSteps
  <2> DEFINE m == Len(Plan(k))
  <2>1. m \in 1..10
    BY <1>1 DEF MaxSteps
  <2> HIDE DEF m
  <2>2. 1 \in 1..m /\ 1 \in 1..10
    BY <2>1
  <2> QED BY <2>2 DEF m, MaxSteps
<1>3. /\ job' \in [Callers -> JobSet] /\ job'[c] = k
      /\ \A d \in Callers : d # c => job'[d] = job[d]
  BY DEF Begin, TypeOK, JobSet
<1>4. ServerAllows(c, Plan(k)[1])
  BY <1>1, <1>3 DEF ServerAllows
<1> QED BY <1>1, <1>2, <1>3, <1>4 DEF Submission, Begin

LEMMA BeginsAre ==
  ASSUME IInv, NEW c \in Callers,
         \/ c = Lifespan /\ (Connect \/ Disconnect)
         \/ \E kind \in Kinds : Arrive(c, kind)
  PROVE  \E op, n : Submission(c, op, n)
<1> USE DEF IInv
<1>1. job[c] = None => HeldOf(c) = {}
  BY DEF Calls, HeldOf
<1>2. CASE c = Lifespan /\ Connect
  BY <1>1, <1>2, BeginIs DEF Connect
<1>3. CASE c = Lifespan /\ Disconnect
  <2>1. server = "draining" /\ server' = "stopping" /\ Begin(Lifespan, "disconnect")
        /\ HeldOf(Lifespan) = {}
    BY <1>3 DEF Disconnect, Life
  <2>2. \A r \in Requests : wait[r] = None
    <3>1. \A r \in Requests : job[r] # None => outcome[r] # None
      BY <1>3 DEF Disconnect, MayDisconnect, Answered
    <3> QED BY <3>1 DEF Jobs, Callers
  <2> QED BY <1>3, <2>1, <2>2, BeginIs
<1>4. ASSUME NEW kind \in Kinds, Arrive(c, kind) PROVE \E op, n : Submission(c, op, n)
  BY <1>1, <1>4, BeginIs DEF Arrive
<1> QED BY <1>2, <1>3, <1>4

-----------------------------------------------------------------------------
(* A submission keeps the invariant *)

NewCall(c, op, n) == [owner |-> c, op |-> op, step |-> n]

LEMMA Submitted ==
  ASSUME IInv, NEW c, NEW op, NEW n, Submission(c, op, n)
  PROVE  LET call == NewCall(c, op, n) IN
         /\ c \in Callers /\ call \in Call
         /\ call.owner = c /\ call.op = op /\ call.step = n /\ n \in Nat /\ op # None
         /\ Len(queue) \in Nat
         /\ Len(queue') = Len(queue) + 1 /\ DOMAIN queue' = 1..(Len(queue) + 1)
         /\ \A i \in DOMAIN queue : i \in DOMAIN queue' /\ queue'[i] = queue[i]
         /\ queue'[Len(queue) + 1] = call
         /\ \A i \in DOMAIN queue' : i \in DOMAIN queue \/ i = Len(queue) + 1
         /\ Held' = Held \cup {call}
         /\ wait'[c] = op /\ answer'[c] = None /\ step'[c] = n /\ outcome'[c] = None
         /\ job'[c] \in Kinds \cup {"connect", "disconnect"} /\ job'[c] # None
         /\ \A d \in Callers : d # c => /\ wait'[d] = wait[d] /\ answer'[d] = answer[d]
                                        /\ step'[d] = step[d] /\ outcome'[d] = outcome[d]
                                        /\ job'[d] = job[d]
         /\ TypeOK'
<1> DEFINE call == NewCall(c, op, n)
<1>1. /\ call \in Call /\ call.owner = c /\ call.op = op /\ call.step = n /\ c \in Callers
      /\ n \in Nat /\ op # None
  BY NoneAssumption DEF Submission, Call, MaxSteps, NewCall
<1>2. queue' = Append(queue, call) /\ running' = running /\ TypeOK
  BY DEF Submission, Submit, IInv, NewCall
<1>3. /\ Len(queue') = Len(queue) + 1 /\ DOMAIN queue' = 1..(Len(queue) + 1)
      /\ \A i \in DOMAIN queue : i \in DOMAIN queue' /\ queue'[i] = queue[i]
      /\ queue'[Len(queue) + 1] = call
      /\ \A i \in DOMAIN queue' : i \in DOMAIN queue \/ i = Len(queue) + 1
      /\ Held' = Held \cup {call}
      /\ queue' \in Seq(Call)
  BY <1>1, <1>2, Appended
<1> HIDE DEF call
<1>4. /\ wait'[c] = op /\ answer'[c] = None /\ step'[c] = n /\ outcome'[c] = None
      /\ \A d \in Callers : d # c => /\ wait'[d] = wait[d] /\ answer'[d] = answer[d]
                                     /\ step'[d] = step[d] /\ outcome'[d] = outcome[d]
                                     /\ job'[d] = job[d]
  BY <1>1, <1>2 DEF Submission, Submit, TypeOK
<1>5. job'[c] \in Kinds \cup {"connect", "disconnect"} /\ job'[c] # None
  BY NoneAssumption DEF Submission, ServerAllows
<1>6. TypeOK'
  <2>1. /\ step' \in [Callers -> 0..MaxSteps] /\ wait' \in [Callers -> Ops \cup {None}]
        /\ answer' \in [Callers -> Answer \cup {None}]
        /\ outcome' \in [Callers -> Outcomes \cup {None}]
    BY <1>2 DEF Submission, Submit, TypeOK, MaxSteps
  <2>2. server' \in {"starting", "serving", "draining", "stopping", "stopped", "failed"}
    BY DEF Submission, ServerAllows
  <2>3. /\ job' \in [Callers -> Kinds \cup {"connect", "disconnect", None}]
        /\ UNCHANGED <<running, connected, lastError, reported>>
    BY DEF Submission, JobSet
  <2> QED BY <1>2, <1>3, <2>1, <2>2, <2>3 DEF TypeOK
<1>7. Len(queue) \in Nat
  BY <1>2, HeldIs
<1> QED BY <1>1, <1>3, <1>4, <1>5, <1>6, <1>7 DEF call

LEMMA SubmissionOrder ==
  ASSUME IInv, NEW c, NEW op, NEW n, Submission(c, op, n) PROVE Order'
<1> DEFINE call == NewCall(c, op, n)
           m == Len(queue)
<1>1. /\ m \in Nat /\ n \in Nat /\ DOMAIN queue' = 1..(m + 1) /\ DOMAIN queue = 1..m
      /\ \A i \in DOMAIN queue : i \in DOMAIN queue' /\ queue'[i] = queue[i]
      /\ queue'[m + 1].owner = c /\ queue'[m + 1].step = n
      /\ \A i \in DOMAIN queue' : i \in DOMAIN queue \/ i = m + 1
  BY Submitted, HeldIs DEF IInv
<1>2. \A x \in Held : x.owner = c => x.step < n
  <2>1. ASSUME NEW x \in Held, x.owner = c PROVE x.step = n - 1
    BY <2>1 DEF Submission, HeldOf
  <2> QED BY <1>1, <2>1
<1>3. \A x \in running : x \in Held
  BY HeldIs DEF IInv
<1>4. \A i \in DOMAIN queue : queue[i] \in Held
  BY HeldIs DEF IInv
<1>5. running' = running
  BY DEF Submission
<1> HIDE DEF m
<1>6. \A x, y \in running' : x = y
  BY <1>5 DEF IInv, Order
<1>7. \A x \in running', i \in DOMAIN queue' :
        x.owner = queue'[i].owner => x.step < queue'[i].step
  BY <1>1, <1>2, <1>3, <1>5 DEF IInv, Order
<1>8. ASSUME NEW i \in DOMAIN queue', NEW j \in DOMAIN queue', i < j,
             queue'[i].owner = queue'[j].owner
      PROVE  queue'[i].step < queue'[j].step
  <2>1. i \in DOMAIN queue
    BY <1>1, <1>8
  <2>2. CASE j \in DOMAIN queue
    BY <1>1, <1>8, <2>1, <2>2 DEF IInv, Order
  <2>3. CASE j = m + 1
    BY <1>1, <1>2, <1>4, <1>8, <2>1, <2>3
  <2> QED BY <1>1, <2>2, <2>3
<1> QED BY <1>6, <1>7, <1>8 DEF Order

LEMMA SubmissionCalls ==
  ASSUME IInv, NEW c, NEW op, NEW n, Submission(c, op, n) PROVE Jobs' /\ Calls' /\ Waits'
<1> DEFINE call == NewCall(c, op, n)
<1>1. /\ c \in Callers /\ call.owner = c /\ call.op = op /\ call.step = n /\ n \in Nat
      /\ op # None /\ Held' = Held \cup {call}
      /\ wait'[c] = op /\ answer'[c] = None /\ step'[c] = n /\ outcome'[c] = None
      /\ job'[c] \in Kinds \cup {"connect", "disconnect"} /\ job'[c] # None
      /\ \A d \in Callers : d # c => /\ wait'[d] = wait[d] /\ answer'[d] = answer[d]
                                     /\ step'[d] = step[d] /\ outcome'[d] = outcome[d]
                                     /\ job'[d] = job[d]
  BY Submitted
<1>2. /\ n \in 1..Len(Plan(job'[c])) /\ (op = Plan(job'[c])[n] \/ op = "last_error")
      /\ \A x \in HeldOf(c) : x.op = "tick" /\ x.step = n - 1 /\ op # "tick"
      /\ connected' = connected /\ ServerAllows(c, op)
  BY DEF Submission
<1>3. \A x \in Held : x.owner \in Callers
  BY HeldIs, CallIs DEF IInv
<1> HIDE DEF call
<1>4. Jobs'
  <2>1. \A r \in Requests : job'[r] \in Kinds \cup {None}
    BY <1>1, <1>2, LifespanAssumption DEF ServerAllows, IInv, Jobs, Callers
  <2>2. job'[Lifespan] \in {"connect", "disconnect", None}
    BY <1>1, <1>2, LifespanAssumption DEF ServerAllows, IInv, Jobs, Callers
  <2> QED BY <1>1, <1>2, <2>1, <2>2 DEF IInv, Jobs
<1>5. Calls'
  <2>1. ASSUME NEW x \in Held, x.owner # c
        PROVE  /\ job'[x.owner] # None
               /\ x.step = step'[x.owner] \/ (x.op = "tick" /\ x.step = step'[x.owner] - 1)
               /\ wait'[x.owner] # None =>
                    answer'[x.owner] = None
                    /\ ((wait'[x.owner] = x.op /\ step'[x.owner] = x.step)
                        \/ (x.op = "tick" /\ x.step = step'[x.owner] - 1 /\ wait'[x.owner] # "tick"))
    BY <1>1, <1>3, <2>1 DEF IInv, Calls, Abandoned, Awaited
  <2>2. ASSUME NEW x \in Held, x.owner = c
        PROVE  x.op = "tick" /\ x.step = step'[x.owner] - 1 /\ wait'[x.owner] # "tick"
    BY <1>1, <1>2, <2>2 DEF HeldOf
  <2>3. /\ call.owner = Lifespan => call.op \in LifeOps
        /\ call.owner # Lifespan => call.op \notin {"initialize", "shutdown"}
        /\ call.op \notin LifeOps => connected'
    <3>1. CASE c \in Requests
      <4>1. op \notin {"initialize", "shutdown"}
        <5>1. job'[c] \in Kinds
          BY <1>2, <3>1, LifespanAssumption DEF ServerAllows
        <5>2. \A i \in 1..Len(Plan(job'[c])) : Plan(job'[c])[i] \notin {"initialize", "shutdown"}
          BY <5>1, Plans
        <5> QED BY <1>2, <5>2
      <4>2. connected
        BY <1>2, <3>1, LifespanAssumption DEF ServerAllows, IInv, Life
      <4> QED BY <1>1, <1>2, <3>1, <4>1, <4>2, LifespanAssumption
    <3>2. CASE c = Lifespan
      BY <1>1, <1>2, <3>2, LifespanAssumption DEF ServerAllows, LifeOps
    <3> QED BY <1>1, <3>1, <3>2 DEF Callers
  <2>4. \A x \in Held : /\ x.owner = Lifespan => x.op \in LifeOps
                        /\ x.owner # Lifespan => x.op \notin {"initialize", "shutdown"}
                        /\ x.op \notin LifeOps => connected'
    BY <1>2 DEF IInv, Calls
  <2> QED BY <1>1, <2>1, <2>2, <2>3, <2>4 DEF Calls, Abandoned, Awaited
<1>6. Waits'
  <2>1. ASSUME NEW d \in Callers, d # c, wait[d] # None
        PROVE  IF answer[d] # None
               THEN answer[d].op = wait[d] /\ answer[d].step = step[d]
               ELSE \E x \in Held' : x.owner = d /\ wait'[d] = x.op /\ step'[d] = x.step
    BY <1>1, <2>1 DEF IInv, Waits, HeldOf, Awaited
  <2>2. call \in Held' /\ call.owner = c /\ wait'[c] = call.op /\ step'[c] = call.step
    BY <1>1
  <2> QED BY <1>1, <2>1, <2>2 DEF Waits, HeldOf, Awaited
<1> QED BY <1>4, <1>5, <1>6

LEMMA SubmissionLife ==
  ASSUME IInv, NEW c, NEW op, NEW n, Submission(c, op, n) PROVE Life'
<1> DEFINE call == NewCall(c, op, n)
           m == Len(queue)
<1>1. /\ m \in Nat /\ DOMAIN queue' = 1..(m + 1) /\ Len(queue') = m + 1
      /\ \A i \in DOMAIN queue : i \in DOMAIN queue' /\ queue'[i] = queue[i]
      /\ queue'[m + 1] = call
      /\ \A i \in DOMAIN queue' : i \in DOMAIN queue \/ i = m + 1
      /\ c \in Callers /\ call.owner = c /\ call.op = op /\ call.step = n
      /\ op # None /\ Held' = Held \cup {call}
      /\ wait'[c] = op /\ answer'[c] = None /\ outcome'[c] = None /\ job'[c] # None
      /\ \A d \in Callers : d # c => /\ wait'[d] = wait[d] /\ answer'[d] = answer[d]
                                     /\ outcome'[d] = outcome[d] /\ job'[d] = job[d]
  BY Submitted
<1>2. /\ ServerAllows(c, op) /\ running' = running /\ connected' = connected
      /\ n \in 1..Len(Plan(job'[c])) /\ (op = Plan(job'[c])[n] \/ op = "last_error")
  BY DEF Submission
<1>3. /\ \A i \in DOMAIN queue : queue[i] \in Held
      /\ \A x \in running : x \in Held
  BY HeldIs DEF IInv
<1>4. None # "200"
  BY NoneAssumption DEF Outcomes
<1> HIDE DEF call, m
<1>5. CASE /\ c \in Requests /\ server \in {"serving", "draining"} /\ server' = server
           /\ job'[c] \in Kinds
  <2>1. c # Lifespan /\ Lifespan \in Callers
    BY <1>5, LifespanAssumption DEF Callers
  <2>2. op \notin {"initialize", "shutdown"}
    <3>1. \A i \in 1..Len(Plan(job'[c])) : Plan(job'[c])[i] \notin {"initialize", "shutdown"}
      BY <1>5, Plans
    <3> QED BY <1>2, <3>1
  <2>3. {x \in Held' : x.owner = Lifespan} = {}
    BY <1>1, <1>5, <2>1 DEF IInv, Life, HeldOf
  <2> QED BY <1>1, <1>2, <1>5, <2>1, <2>2, <2>3 DEF IInv, Life, HeldOf
<1>6. CASE /\ c = Lifespan /\ server \in {"starting", "failed"} /\ server' = server
           /\ job'[c] = "connect" /\ op \in {"initialize", "last_error"}
  <2>1. \A r \in Requests : r \in Callers /\ r # Lifespan
    BY LifespanAssumption DEF Callers
  <2> QED BY <1>1, <1>2, <1>4, <1>6, <2>1 DEF IInv, Life, HeldOf
<1>7. CASE /\ c = Lifespan /\ server = "draining" /\ server' = "stopping"
           /\ job'[c] = "disconnect" /\ op = "shutdown" /\ \A r \in Requests : wait[r] = None
  <2>1. \A r \in Requests : r \in Callers /\ r # Lifespan
    BY LifespanAssumption DEF Callers
  <2>2. \A x \in Held : x.owner # Lifespan /\ x.op \notin {"shutdown", "initialize"}
    BY <1>7 DEF IInv, Life, HeldOf
  <2>3. \A x \in Held' : x.owner = Lifespan => x.op = "shutdown"
    BY <1>1, <1>7, <2>2
  <2>4. \A i \in DOMAIN queue' : queue'[i].op = "shutdown" => i = Len(queue')
    BY <1>1, <1>3, <2>2
  <2>5. \A x \in running' : x.op # "shutdown"
    BY <1>2, <1>3, <2>2
  <2>6. \A x \in Held' : x.op # "initialize"
    BY <1>1, <1>7, <2>2
  <2> QED BY <1>1, <1>7, <2>1, <2>3, <2>4, <2>5, <2>6 DEF Life, HeldOf
<1> QED BY <1>2, <1>5, <1>6, <1>7 DEF ServerAllows

-----------------------------------------------------------------------------
(* The other steps keep the invariant *)

LEMMA SubmissionKeeps ==
  ASSUME IInv, NEW c, NEW op, NEW n, Submission(c, op, n) PROVE IInv'
<1>1. TypeOK'
  BY Submitted
<1> QED BY <1>1, SubmissionOrder, SubmissionCalls, SubmissionLife DEF IInv

LEMMA CompletionKeeps == ASSUME IInv, NEW c, Completion(c) PROVE IInv'
<1> USE DEF IInv
<1>1. PICK result \in Outcomes, error \in Error :
        /\ Finish(c, result, error)
        /\ c = Lifespan /\ server = "starting" /\ result = "200" => connected /\ HeldOf(c) = {}
  BY DEF Completion
<1>2. /\ c \in Callers /\ wait[c] # None
      /\ UNCHANGED <<server, job, running, connected, lastError, queue, answer, step>>
  BY <1>1 DEF Completion, Finish, TypeOK
<1>3. /\ wait' \in [Callers -> Ops \cup {None}] /\ wait'[c] = None
      /\ \A d \in Callers : d # c => wait'[d] = wait[d]
      /\ outcome' \in [Callers -> Outcomes \cup {None}] /\ outcome'[c] = result
      /\ \A d \in Callers : d # c => outcome'[d] = outcome[d]
      /\ reported' \in [Callers -> Error]
  BY <1>1, <1>2 DEF Finish, TypeOK
<1>4. /\ Held' = Held /\ \A d : HeldOf(d)' = HeldOf(d)
      /\ \A x \in Held : x.owner \in Callers
  BY <1>2, HeldIs, CallIs DEF Held, HeldOf
<1>5. TypeOK'
  BY <1>2, <1>3 DEF TypeOK
<1>6. Order'
  BY <1>2 DEF Order
<1>7. Jobs'
  BY <1>2, <1>3 DEF Jobs
<1>8. Calls'
  BY <1>2, <1>3, <1>4 DEF Calls, Abandoned, Awaited
<1>9. Waits'
  <2>1. ASSUME NEW d \in Callers, wait'[d] # None
        PROVE  IF answer'[d] # None
               THEN answer'[d].op = wait'[d] /\ answer'[d].step = step'[d]
               ELSE \E x \in Held' : x.owner = d /\ wait'[d] = x.op /\ step'[d] = x.step
    BY <1>2, <1>3, <1>4, <2>1 DEF Waits, HeldOf, Awaited
  <2> QED BY <2>1 DEF Waits, HeldOf, Awaited
<1>10. Life'
  <2>1. \A r \in Requests : r \in Callers /\ (wait[r] = None => wait'[r] = None)
    BY <1>3 DEF Callers
  <2>2. Lifespan \in Callers
    BY DEF Callers
  <2>3. wait[Lifespan] = None => wait'[Lifespan] = None
    BY <1>3, <2>2
  <2>4. wait'[Lifespan] = "initialize" => wait[Lifespan] = "initialize"
    BY <1>3, <2>2, NoneAssumption DEF Ops
  <2>5. server = "starting" /\ outcome'[Lifespan] = "200" =>
          connected /\ wait'[Lifespan] = None /\ HeldOf(Lifespan) = {}
    <3>1. CASE c = Lifespan
      BY <1>1, <1>3, <3>1
    <3>2. CASE c # Lifespan
      BY <1>3, <2>2, <3>2 DEF Life
    <3> QED BY <3>1, <3>2
  <2> QED BY <1>2, <1>4, <2>1, <2>3, <2>4, <2>5 DEF Life
<1> QED BY <1>5, <1>6, <1>7, <1>8, <1>9, <1>10

LEMMA TakeKeeps == ASSUME IInv, NEW i \in DOMAIN queue, Take(i) PROVE IInv'
<1> USE DEF IInv
<1> DEFINE m == Len(queue)
<1>1. /\ running = {} /\ running' = {queue[1]} /\ 1 \in DOMAIN queue
      /\ Len(queue') = m - 1 /\ DOMAIN queue' = 1..(m - 1)
      /\ queue' \in Seq(Call)
      /\ \A j \in DOMAIN queue' : j + 1 \in DOMAIN queue /\ queue'[j] = queue[j + 1]
      /\ Held' = Held
  BY Taken
<1>2. UNCHANGED <<server, job, step, wait, answer, outcome, reported, connected, lastError>>
  BY DEF Take, callers
<1>3. m \in Nat /\ DOMAIN queue = 1..m /\ queue[1] \in Call
  BY <1>1, HeldIs
<1>4. TypeOK'
  BY <1>1, <1>2, <1>3 DEF TypeOK
<1> HIDE DEF m
<1>5. \A j \in DOMAIN queue' : 1 < j + 1 /\ j \in Int
  BY <1>1, <1>3
<1>6. Order'
  <2>1. \A j \in DOMAIN queue' : queue[1].owner = queue'[j].owner => queue[1].step < queue'[j].step
    BY <1>1, <1>5 DEF Order
  <2>2. \A j, k \in DOMAIN queue' : j < k => j + 1 < k + 1
    BY <1>5
  <2>3. \A j, k \in DOMAIN queue' :
          j < k /\ queue'[j].owner = queue'[k].owner => queue'[j].step < queue'[k].step
    BY <1>1, <2>2 DEF Order
  <2> QED BY <1>1, <2>1, <2>3 DEF Order
<1>7. Jobs'
  BY <1>2 DEF Jobs
<1>8. Calls'
  BY <1>1, <1>2 DEF Calls, Abandoned, Awaited
<1>9. Waits'
  BY <1>1, <1>2 DEF Waits, HeldOf, Awaited
<1>10. Life'
  <2>1. ASSUME server \in {"stopping", "stopped"}
        PROVE  /\ \A j \in DOMAIN queue' : queue'[j].op = "shutdown" => j = Len(queue')
               /\ \A x \in running' : x.op = "shutdown" => queue' = <<>>
    <3>1. \A j \in DOMAIN queue : queue[j].op = "shutdown" => j = m
      BY <2>1 DEF Life, m
    <3>2. \A j \in DOMAIN queue' : j + 1 = m => j = m - 1
      BY <1>3, <1>5
    <3>3. \A j \in DOMAIN queue' : queue'[j].op = "shutdown" => j = Len(queue')
      BY <1>1, <3>1, <3>2
    <3>4. queue[1].op = "shutdown" => queue' = <<>>
      <4>1. ASSUME queue[1].op = "shutdown" PROVE Len(queue') = 0
        BY <1>1, <1>3, <3>1, <4>1
      <4> QED BY <1>1, <4>1
    <3> QED BY <1>1, <3>3, <3>4
  <2> QED BY <1>1, <1>2, <2>1 DEF Life, HeldOf
<1> QED BY <1>4, <1>6, <1>7, <1>8, <1>9, <1>10

\* The server moves while the callers and the executor stand still.
LEMMA ServerKeeps == ASSUME IInv, Started \/ Drain \/ Stopped PROVE IInv'
<1> USE DEF IInv
<1>1. UNCHANGED <<job, step, wait, answer, outcome, reported, queue, running, connected, lastError>>
  BY DEF Started, Drain, Stopped, callers, worker
<1>2. Held' = Held /\ \A d : HeldOf(d)' = HeldOf(d)
  BY <1>1 DEF Held, HeldOf
<1>3. \/ /\ server = "starting" /\ outcome[Lifespan] # None
         /\ server' = IF outcome[Lifespan] = "200" THEN "serving" ELSE "failed"
      \/ server = "serving" /\ server' = "draining"
      \/ server = "stopping" /\ server' = "stopped"
  BY DEF Started, Drain, Stopped
<1>4. TypeOK' /\ Order' /\ Jobs'
  BY <1>1, <1>3 DEF TypeOK, Order, Jobs
<1>5. Calls' /\ Waits'
  BY <1>1, <1>2 DEF Calls, Waits, Abandoned, Awaited
<1>6. Life'
  <2>1. CASE server = "starting" /\ server' = "serving"
    <3>1. connected /\ wait[Lifespan] = None /\ HeldOf(Lifespan) = {}
      BY <1>3, <2>1 DEF Life
    <3>2. \A x \in Held : x.op \notin {"initialize", "shutdown"}
      BY <3>1 DEF Calls, HeldOf
    <3> QED BY <1>1, <1>2, <2>1, <3>1, <3>2 DEF Life
  <2>2. CASE server = "starting" /\ server' = "failed"
    BY <1>1, <1>2, <2>2 DEF Life
  <2>3. CASE server = "serving" /\ server' = "draining"
    BY <1>1, <1>2, <2>3 DEF Life
  <2>4. CASE server = "stopping" /\ server' = "stopped"
    BY <1>1, <1>2, <2>4 DEF Life
  <2> QED BY <1>3, <2>1, <2>2, <2>3, <2>4
<1> QED BY <1>4, <1>5, <1>6

LEMMA NoneIsNoAnswer == \A a \in Answer : a # None
BY NoneAssumption

LEMMA ReturnKeeps ==
  ASSUME IInv, NEW call \in running, NEW ok \in BOOLEAN, Return(call, ok) PROVE IInv'
<1> USE DEF IInv
<1> DEFINE c == call.owner
           reply == [op |-> call.op, step |-> call.step, ok |-> ok, error |-> lastError]
<1>1. /\ call \in Call /\ call \in Held /\ c \in Callers /\ call.op \in Ops
      /\ call.step \in 1..MaxSteps /\ call.step \in Nat
  BY HeldIs, CallIs
<1>2. /\ running' = running \ {call}
      /\ lastError' = IF call.op = "last_error" THEN lastError
                      ELSE IF ok THEN None ELSE <<c, call.step>>
      /\ connected' = IF call.op = "initialize" THEN ok
                      ELSE IF call.op = "shutdown" THEN FALSE ELSE connected
      /\ answer' = IF Awaited(call) THEN [answer EXCEPT ![c] = reply] ELSE answer
      /\ UNCHANGED <<server, job, step, wait, outcome, reported, queue>>
  BY DEF Return
<1>3. reply \in Answer /\ lastError' \in Error
  BY <1>1, <1>2 DEF Answer, TypeOK, Error
<1>4. reply # None
  BY NoneIsNoAnswer, <1>3
<1>5. /\ answer' \in [Callers -> Answer \cup {None}]
      /\ Awaited(call) => answer'[c] = reply
      /\ ~Awaited(call) => answer' = answer
      /\ \A d \in Callers : d # c => answer'[d] = answer[d]
  BY <1>1, <1>2, <1>3 DEF TypeOK
<1>6. reply.op = call.op /\ reply.step = call.step /\ reply.ok = ok
  OBVIOUS
<1> HIDE DEF reply
<1>7. Held' = Held \ {call}
  <2>1. call \notin ToSet(queue)
    <3>1. ASSUME NEW i \in DOMAIN queue, queue[i] = call PROVE FALSE
      BY <1>1, <3>1 DEF Order
    <3> QED BY <3>1 DEF ToSet
  <2> QED BY <1>2, <2>1 DEF Held
<1>8. \A x \in Held : x.owner = c => x = call \/ call.step < x.step
  <2>1. ASSUME NEW x \in Held, x.owner = c, x # call PROVE call.step < x.step
    <3>1. x \notin running
      BY <2>1 DEF Order
    <3>2. PICK i \in DOMAIN queue : x = queue[i]
      BY <3>1, HeldIs
    <3> QED BY <2>1, <3>2 DEF Order
  <2> QED BY <2>1
<1>9. ASSUME Awaited(call) PROVE {x \in Held' : x.owner = c} = {} /\ wait[c] = call.op /\ wait[c] # None
  <2>1. wait[c] = call.op /\ step[c] = call.step /\ wait[c] # None
    BY <1>1, <1>9, NoneAssumption DEF Awaited
  <2>2. ASSUME NEW x \in Held', x.owner = c PROVE FALSE
    <3>1. x \in Held /\ x # call
      BY <1>7
    <3>2. x.step = step[c] \/ x.step = step[c] - 1
      BY <2>2, <3>1 DEF Calls, Abandoned
    <3>3. call.step < x.step
      BY <1>8, <2>2, <3>1
    <3> QED BY <1>1, <2>1, <3>2, <3>3
  <2> QED BY <2>1, <2>2
<1>10. TypeOK'
  <2>1. lastError' \in Error /\ connected' \in BOOLEAN
    BY <1>2, <1>3 DEF TypeOK
  <2> QED BY <1>2, <1>5, <2>1 DEF TypeOK
<1>11. Order' /\ Jobs'
  BY <1>2 DEF Order, Jobs
<1>12. \A x \in Held' : x.op \notin LifeOps => connected'
  <2>1. ASSUME NEW x \in Held', x.op \notin LifeOps PROVE connected'
    <3>1. x \in Held /\ connected /\ x.owner \in Callers
      BY <1>7, <2>1, HeldIs, CallIs DEF Calls
    <3>2. x.owner \in Requests /\ job[x.owner] # None
      BY <2>1, <3>1 DEF Calls, Callers
    <3>3. call.op # "initialize"
      BY <1>1, <3>2 DEF Life
    <3>4. call.op # "shutdown"
      <4>1. ASSUME call.op = "shutdown" PROVE FALSE
        <5>1. queue = <<>>
          BY <1>1, <4>1 DEF Life
        <5>2. x \in running /\ x # call
          BY <1>7, <2>1, <3>1, <5>1, HeldIs
        <5> QED BY <5>2 DEF Order
      <4> QED BY <4>1
    <3> QED BY <1>2, <3>1, <3>3, <3>4
  <2> QED BY <2>1
<1>13. Calls'
  <2>1. ASSUME NEW x \in Held'
        PROVE  /\ job'[x.owner] # None
               /\ x.step = step'[x.owner] \/ (x.op = "tick" /\ x.step = step'[x.owner] - 1)
               /\ x.owner = Lifespan => x.op \in LifeOps
               /\ x.owner # Lifespan => x.op \notin {"initialize", "shutdown"}
    BY <1>2, <1>7 DEF Calls, Abandoned
  <2>2. ASSUME NEW x \in Held', wait[x.owner] # None
        PROVE  /\ answer'[x.owner] = None
               /\ \/ wait[x.owner] = x.op /\ step[x.owner] = x.step
                  \/ x.op = "tick" /\ x.step = step[x.owner] - 1 /\ wait[x.owner] # "tick"
    <3>1. x \in Held /\ x.owner \in Callers
      BY <1>7, HeldIs, CallIs
    <3>2. answer'[x.owner] = answer[x.owner]
      BY <1>5, <1>9, <3>1
    <3> QED BY <2>2, <3>1, <3>2 DEF Calls, Abandoned, Awaited
  <2> QED BY <1>2, <1>12, <2>1, <2>2 DEF Calls, Abandoned, Awaited
<1>14. Waits'
  <2>1. ASSUME NEW d \in Callers, wait[d] # None
        PROVE  IF answer'[d] # None
               THEN answer'[d].op = wait[d] /\ answer'[d].step = step[d]
               ELSE \E x \in Held' : x.owner = d /\ wait[d] = x.op /\ step[d] = x.step
    <3>1. CASE Awaited(call) /\ d = c
      BY <1>4, <1>5, <1>6, <3>1 DEF Awaited
    <3>2. CASE ~(Awaited(call) /\ d = c)
      <4>1. answer'[d] = answer[d]
        BY <1>5, <3>2
      <4>2. CASE answer[d] # None
        BY <2>1, <4>1, <4>2 DEF Waits
      <4>3. CASE answer[d] = None
        <5>1. PICK x \in HeldOf(d) : Awaited(x)
          BY <2>1, <4>3 DEF Waits
        <5>2. x \in Held /\ x.owner = d /\ x # call
          BY <3>2, <5>1 DEF HeldOf
        <5> QED BY <1>7, <4>1, <4>3, <5>1, <5>2 DEF Awaited
      <4> QED BY <4>2, <4>3
    <3> QED BY <3>1, <3>2
  <2> QED BY <1>2, <2>1 DEF Waits, HeldOf, Awaited
<1>15. Life'
  <2>1. \A d : HeldOf(d)' \subseteq HeldOf(d)
    BY <1>7 DEF HeldOf
  <2>2. ASSUME server = "starting", outcome[Lifespan] = "200" PROVE connected' /\ HeldOf(Lifespan)' = {}
    <3>1. connected /\ HeldOf(Lifespan) = {}
      BY <2>2 DEF Life
    <3>2. call.op \notin {"initialize", "shutdown"}
      BY <1>1, <3>1 DEF Calls, HeldOf
    <3> QED BY <1>2, <2>1, <3>1, <3>2
  <2>3. ASSUME server \in {"serving", "draining"} PROVE connected' /\ HeldOf(Lifespan)' = {}
    <3>1. connected /\ HeldOf(Lifespan) = {}
      BY <2>3 DEF Life
    <3>2. call.op \notin {"initialize", "shutdown"}
      BY <1>1, <3>1 DEF Calls, HeldOf
    <3> QED BY <1>2, <2>1, <3>1, <3>2
  <2>4. ASSUME server = "starting", wait[Lifespan] = "initialize", answer'[Lifespan] # None,
               answer'[Lifespan].ok
        PROVE  connected'
    <3>1. CASE Awaited(call) /\ c = Lifespan
      <4>1. call.op = "initialize" /\ ok
        BY <1>5, <1>6, <2>4, <3>1 DEF Awaited
      <4> QED BY <1>2, <4>1
    <3>2. CASE ~(Awaited(call) /\ c = Lifespan)
      <4>1. Lifespan \in Callers /\ answer'[Lifespan] = answer[Lifespan]
        BY <1>5, <3>2 DEF Callers
      <4>2. connected /\ answer[Lifespan] # None
        BY <2>4, <4>1 DEF Life
      <4>3. HeldOf(Lifespan) = {}
        BY <2>4, <4>1, <4>2, HeldOfWaiting, NoneAssumption DEF Ops
      <4>4. call.op \notin {"initialize", "shutdown"}
        BY <1>1, <4>3 DEF Calls, HeldOf
      <4> QED BY <1>2, <4>2, <4>4
    <3> QED BY <3>1, <3>2
  <2> QED BY <1>2, <1>7, <2>1, <2>2, <2>3, <2>4 DEF Life
<1> QED BY <1>10, <1>11, <1>13, <1>14, <1>15

-----------------------------------------------------------------------------
(* Theorems *)

\* The invariant holds in every reachable state.
THEOREM Invariance == Spec => []IInv
<1>1. Init => IInv
  <2> SUFFICES ASSUME Init PROVE IInv
    OBVIOUS
  <2>1. Held = {} /\ running = {} /\ queue = <<>>
    BY DEF Init, Held, ToSet
  <2>2. TypeOK
    <3>1. queue \in Seq(Call) /\ running \in SUBSET Call
      BY <2>1
    <3>2. None \in Error /\ 0 \in 0..MaxSteps /\ None \in Answer \cup {None}
      BY DEF Error, MaxSteps
    <3> QED BY <3>1, <3>2 DEF Init, TypeOK
  <2>3. Order /\ Jobs
    BY <2>1 DEF Init, Order, Jobs, Callers
  <2>4. Calls /\ Waits
    BY <2>1 DEF Init, Calls, Waits
  <2>5. Life
    <3>1. None # "200" /\ None # "initialize" /\ Lifespan \in Callers
      BY NoneAssumption DEF Ops, Outcomes, Callers
    <3> QED BY <2>1, <3>1 DEF Init, Life, HeldOf, Callers
  <2> QED BY <2>2, <2>3, <2>4, <2>5 DEF IInv
<1>2. IInv /\ [Next]_vars => IInv'
  <2> SUFFICES ASSUME IInv, [Next]_vars PROVE IInv'
    OBVIOUS
  <2>1. CASE Connect \/ Disconnect
    BY <2>1, BeginsAre, SubmissionKeeps DEF Callers
  <2>2. CASE Started \/ Drain \/ Stopped
    BY <2>2, ServerKeeps
  <2>3. ASSUME NEW c \in Requests, NEW kind \in Kinds, Arrive(c, kind) PROVE IInv'
    BY <2>3, BeginsAre, SubmissionKeeps DEF Callers
  <2>4. ASSUME NEW c \in Callers, Receive(c) \/ Timeout(c) PROVE IInv'
    BY <2>4, ReceiveIs, TimeoutIs, SubmissionKeeps, CompletionKeeps
  <2>5. ASSUME NEW i \in DOMAIN queue, Take(i) PROVE IInv'
    BY <2>5, TakeKeeps
  <2>6. ASSUME NEW call \in running, NEW ok \in BOOLEAN, Return(call, ok) PROVE IInv'
    BY <2>6, ReturnKeeps
  <2>7. CASE UNCHANGED vars
    <3>1. UNCHANGED <<server, job, step, wait, answer, outcome, reported, queue, running,
                      connected, lastError>>
      BY <2>7 DEF vars, callers, worker
    <3>2. Held' = Held /\ \A d : HeldOf(d)' = HeldOf(d)
      BY <3>1 DEF Held, HeldOf
    <3>3. TypeOK' /\ Order' /\ Jobs'
      BY <3>1 DEF IInv, TypeOK, Order, Jobs
    <3>4. Calls' /\ Waits'
      BY <3>1, <3>2 DEF IInv, Calls, Waits, Abandoned, Awaited
    <3>5. Life'
      BY <3>1, <3>2 DEF IInv, Life
    <3> QED BY <3>3, <3>4, <3>5 DEF IInv
  <2> QED BY <2>1, <2>2, <2>3, <2>4, <2>5, <2>6, <2>7 DEF Next
<1> QED BY <1>1, <1>2, PTL DEF Spec

\* TypeOK, for any number of requests.
THEOREM TypeCorrect == Spec => []TypeOK
<1>1. IInv => TypeOK
  BY DEF IInv
<1> QED BY <1>1, Invariance, PTL

LEMMA AtMostOne == ASSUME NEW S, \A x, y \in S : x = y
                   PROVE  IsFiniteSet(S) /\ Cardinality(S) <= 1
<1>1. CASE S = {}
  BY <1>1, FS_EmptySet
<1>2. CASE S # {}
  <2>1. PICK x \in S : TRUE
    BY <1>2
  <2>2. S = {x}
    BY <2>1
  <2>3. IsFiniteSet({x}) /\ Cardinality({x}) = 1
    BY FS_Singleton
  <2> QED BY <2>2, <2>3
<1> QED BY <1>1, <1>2

\* Serialized: one call at a time, and those of a caller in the order of its plan.
THEOREM CallsAreSerialized == Spec => []Serialized
<1>1. IInv => Serialized
  <2> SUFFICES ASSUME IInv PROVE Serialized
    OBVIOUS
  <2>1. Cardinality(running) <= 1
    BY AtMostOne DEF IInv, Order
  <2>2. \A call \in running, other \in ToSet(queue) :
          call.owner = other.owner => call.step < other.step
    BY DEF IInv, Order, ToSet
  <2> QED BY <2>1, <2>2 DEF Serialized
<1> QED BY <1>1, Invariance, PTL

\* BacklogBounded: at most two calls of a caller, however long the terminal hangs.
THEOREM BacklogIsBounded == Spec => []BacklogBounded
<1>1. IInv => BacklogBounded
  <2> SUFFICES ASSUME IInv, NEW c \in Callers PROVE Cardinality(HeldOf(c)) <= 2
    BY DEF BacklogBounded, Held, HeldOf
  <2> DEFINE places == {step[c]} \cup {step[c] - 1}
             place == [x \in HeldOf(c) |-> x.step]
  <2>1. ASSUME NEW x \in HeldOf(c) PROVE x \in Held /\ x.owner = c /\ place[x] = x.step /\ place[x] \in places
    BY DEF IInv, Calls, HeldOf, Abandoned
  <2>2. place \in [HeldOf(c) -> places]
    BY <2>1
  <2>3. \A x, y \in HeldOf(c) : place[x] = place[y] => x = y
    BY <2>1, OneCallPerStep DEF IInv
  <2> HIDE DEF place
  <2>4. place \in Injection(HeldOf(c), places)
    BY <2>2, <2>3, Fun_IsInj
  <2>5. IsFiniteSet(places) /\ Cardinality(places) \in 1..2
    <3>1. IsFiniteSet({step[c]}) /\ Cardinality({step[c]}) = 1
      BY FS_Singleton
    <3> QED BY <3>1, FS_AddElement
  <2>6. IsFiniteSet(HeldOf(c)) /\ Cardinality(HeldOf(c)) <= Cardinality(places)
    BY <2>4, <2>5, FS_Injection
  <2>7. Cardinality(HeldOf(c)) \in Nat
    BY <2>6, FS_CardinalityType
  <2> HIDE DEF places
  <2> QED BY <2>5, <2>6, <2>7
<1> QED BY <1>1, Invariance, PTL

\* AnswerIsOwn: an answer is the answer to the call waited for, and every call
\* waited for has its place in the executor.
THEOREM AnswersAreOwn == Spec => []AnswerIsOwn
<1>1. IInv => AnswerIsOwn
  BY DEF IInv, Waits, AnswerIsOwn, HeldOf, Held
<1> QED BY <1>1, Invariance, PTL

\* OnlyWhileConnected: the terminal is only asked while the connection is open.
THEOREM AskedWhileConnected == Spec => []OnlyWhileConnected
<1>1. IInv => OnlyWhileConnected
  BY DEF IInv, Calls, OnlyWhileConnected, Held, LifeOps
<1> QED BY <1>1, Invariance, PTL

=============================================================================
