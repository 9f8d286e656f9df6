------------------------------ MODULE Executor ------------------------------
(***************************************************************************)
(* Who gets to run in `bulk`, and when.  All scans of a bulk run are polled*)
(* by the one task of FuturesUnordered, so on one thread at a time.  A     *)
(* probe awaits the server under a timer of its own; headers::fetch and    *)
(* server_fingerprint::fetch block the thread; and while a record is being *)
(* written no scan is polled at all.                                       *)
(***************************************************************************)
EXTENDS Integers, Sequences, FiniteSets

CONSTANTS
  Scans,                 \* the targets, in any order
  Cap,                   \* --concurrency
  Program,               \* the operations of a scan, in order
  Limit,                 \* --timeout-seconds, in ticks
  Latencies,             \* what one round trip may take, in ticks
  MaxWrite,              \* what writing a record may take
  Never                  \* a time that does not come

(* A probe makes round trips; a fetch makes blocking requests.             *)
Operations == [kind: {"probe", "fetch"}, trips: Nat \ {0}]

ASSUME ExecutorAssumption ==
  /\ IsFiniteSet(Scans) /\ "none" \notin Scans
  /\ Cap \in Nat \ {0}
  /\ Program \in Seq(Operations)
  /\ Limit \in Nat \ {0}
  /\ Latencies \subseteq (Nat \ {0}) \union {Never}
  /\ MaxWrite \in Nat
  /\ Never \in Int /\ Never < 0

VARIABLES
  now,
  op,                    \* scan -> the operation it is at, 0 before the first
  left,                  \* scan -> round trips left in its probe
  ready,                 \* scan -> when the answer it waits for is there
  began,                 \* scan -> when its operation began
  own,                   \* scan -> time the server takes for the probe, so far
  held,                  \* scan -> ticks the thread was taken during the probe
  woken,                 \* scans to be polled, first come first
  runner,                \* the scan that keeps the thread, or "none"
  busy,                  \* ticks it will keep it
  backlog                \* targets whose scan has not been started

executor == <<now, op, left, ready, began, own, held, woken, runner, busy, backlog>>

Recording == Len(Program) + 1
Finished == Len(Program) + 2

InProbe(s) == op[s] \in 1..Len(Program) /\ Program[op[s]].kind = "probe"
TimerOf(s) == began[s] + Limit
Due(s) == InProbe(s) /\ ((ready[s] # Never /\ ready[s] <= now) \/ TimerOf(s) <= now)

Queued == {woken[i] : i \in DOMAIN woken}

(* The orders in which wake-ups of the same moment may be queued.          *)
Orders(S) == {f \in [1..Cardinality(S) -> S] : \A i, j \in DOMAIN f : f[i] = f[j] => i = j}

-----------------------------------------------------------------------------
ExecutorTypeOK ==
  /\ now \in Nat
  /\ op \in [Scans -> 0..Finished]
  /\ left \in [Scans -> Nat]
  /\ ready \in [Scans -> Int]
  /\ began \in [Scans -> Nat]
  /\ own \in [Scans -> Nat]
  /\ held \in [Scans -> Nat]
  /\ woken \in Seq(Scans) /\ \A i, j \in DOMAIN woken : woken[i] = woken[j] => i = j
  /\ runner \in Scans \union {"none"}
  /\ busy \in Nat
  /\ backlog \in SUBSET Scans

(* The first scans are pushed, each to be polled a first time.             *)
ExecutorInit ==
  /\ now = 0
  /\ op = [s \in Scans |-> 0]
  /\ left = [s \in Scans |-> 0]
  /\ ready = [s \in Scans |-> Never]
  /\ began = [s \in Scans |-> 0]
  /\ own = [s \in Scans |-> 0]
  /\ held = [s \in Scans |-> 0]
  /\ \E first \in SUBSET Scans :
       /\ Cardinality(first) = IF Cap < Cardinality(Scans) THEN Cap ELSE Cardinality(Scans)
       /\ woken \in Orders(first)
       /\ backlog = Scans \ first
  /\ runner = "none"
  /\ busy = 0

(* A scan is queued once however often it is woken; a mutated form has an  *)
(* answer wake it, but no timer.                                           *)
WakeAnswered ==
  \E more \in Orders({s \in Scans \ Queued : (Due(s) /\ now < TimerOf(s))'}) : woken' = woken \o more
Wake == \E more \in Orders({s \in Scans \ Queued : Due(s)'}) : woken' = woken \o more

(* Time passes when nobody can run, or while the thread is taken.          *)
Tick ==
  /\ busy > 0 \/ (woken = <<>> /\ runner = "none" /\ \E s \in Scans : InProbe(s))
  /\ now' = now + 1
  /\ busy' = IF busy > 0 THEN busy - 1 ELSE 0
  /\ held' = [s \in Scans |-> held[s] + IF busy > 0 /\ InProbe(s) THEN 1 ELSE 0]
  /\ UNCHANGED <<op, left, ready, began, own, runner, backlog>>
  /\ Wake

(* A round trip begins: the server takes its time, or never answers.       *)
Ask(s, latency) ==
  /\ ready' = [ready EXCEPT ![s] = IF latency = Never THEN Never ELSE now + latency]
  /\ own' = [own EXCEPT ![s] = IF latency = Never THEN Limit
                               ELSE (IF op'[s] = op[s] THEN @ ELSE 0) + latency]

(* The longest an operation keeps the thread: every request of a fetch has *)
(* the limit to itself.  The mutated form retries.                         *)
KeepsRetrying(n) == IF n = Recording THEN MaxWrite ELSE (Program[n].trips + 1) * Limit
Keeps(n) == IF n = Recording THEN MaxWrite ELSE Program[n].trips * Limit

(* The scan goes on to its next operation, without giving up the thread: a *)
(* probe is awaited, a fetch keeps the thread for as long as its requests  *)
(* take, the end of the scan for as long as its record takes to be written.*)
Proceed(s) ==
  /\ op' = [op EXCEPT ![s] = @ + 1]
  /\ began' = [began EXCEPT ![s] = now]
  /\ held' = [held EXCEPT ![s] = 0]
  /\ \/ /\ op[s] < Len(Program) /\ Program[op[s] + 1].kind = "probe"
        /\ left' = [left EXCEPT ![s] = Program[op[s] + 1].trips]
        /\ \E latency \in Latencies : Ask(s, latency)
        /\ runner' = "none" /\ busy' = 0
     \/ /\ op[s] = Len(Program) \/ (op[s] < Len(Program) /\ Program[op[s] + 1].kind = "fetch")
        /\ runner' = s
        /\ busy' \in 0..Keeps(op[s] + 1)
        /\ UNCHANGED <<left, ready, own>>

Answered(s) == ready[s] # Never /\ ready[s] <= now

(* The probe's timer has gone off; a mutated form cuts it short.           *)
TimesOutEarly(s) == TimerOf(s) <= now + 1
TimesOut(s) == TimerOf(s) <= now

(* timeout() looks at the probe first and at its timer then: an answer that*)
(* is there is taken, however late, but no further one is waited for.      *)
NextTrip(s) ==
  /\ left[s] > 1 /\ Answered(s) /\ ~TimesOut(s)
  /\ left' = [left EXCEPT ![s] = @ - 1]
  /\ UNCHANGED <<op, began, held, runner, busy>>
  /\ \E latency \in Latencies : Ask(s, latency)

ProbeEnds(s) ==
  /\ (Answered(s) /\ left[s] = 1) \/ TimesOut(s)
  /\ Proceed(s)

Poll(s) ==
  /\ runner = "none"
  /\ woken # <<>> /\ s = Head(woken)
  /\ woken' = Tail(woken)
  /\ \/ op[s] = 0 /\ Proceed(s)
     \/ InProbe(s) /\ (NextTrip(s) \/ ProbeEnds(s))
  /\ UNCHANGED <<now, backlog>>

(* The fetch returns, and the scan is still running.                       *)
Return(s) ==
  /\ runner = s /\ busy = 0 /\ op[s] <= Len(Program)
  /\ Proceed(s)
  /\ UNCHANGED <<now, woken, backlog>>

(* in_flight.push of the next target, if any, and a form that forgets it.  *)
ReplaceNone == UNCHANGED <<woken, backlog>>
Replace ==
  IF backlog = {} THEN UNCHANGED <<woken, backlog>>
  ELSE \E t \in backlog : woken' = Append(woken, t) /\ backlog' = backlog \ {t}

(* The record is written; the next target, if any, takes the scan's place. *)
Written(s) ==
  /\ runner = s /\ busy = 0 /\ op[s] = Recording
  /\ op' = [op EXCEPT ![s] = Finished]
  /\ runner' = "none"
  /\ Replace
  /\ UNCHANGED <<now, left, ready, began, own, held, busy>>

Work == \E s \in Scans : Poll(s) \/ Return(s) \/ Written(s)

ExecutorNext == Tick \/ Work

ExecutorSpec == ExecutorInit /\ [][ExecutorNext]_executor /\ WF_executor(ExecutorNext)

-----------------------------------------------------------------------------
(* A probe that gives up with an answer outstanding has waited for the     *)
(* whole of its limit, counting what the server itself takes and what the  *)
(* thread was taken for, and nothing else.                                 *)
TimeoutHasCause ==
  [][\A s \in Scans : InProbe(s) /\ op'[s] # op[s] /\ ~(Answered(s) /\ left[s] = 1) =>
       own[s] + held[s] >= Limit]_executor

(* What a scan may keep the thread for after its operation n, at one poll: *)
(* fetches in a row, each request within its limit, and the record.        *)
Allowed(n) == IF n = Recording THEN MaxWrite ELSE Program[n].trips * Limit
Turn[n \in 0..Recording] ==
  IF n = Recording \/ (n < Len(Program) /\ Program[n + 1].kind = "probe")
    THEN 0
    ELSE Allowed(n + 1) + Turn[n + 1]
LongestTurn ==
  LET turns == {Turn[n] : n \in 0..Recording}
  IN  CHOOSE m \in turns : \A r \in turns : r <= m

(* However the wake-ups fall, a probe whose timer has gone off waits for   *)
(* one turn of each other scan in flight at most.                          *)
BoundedLateness ==
  \A s \in Scans : InProbe(s) => now <= TimerOf(s) + (Cap - 1) * LongestTurn

(* No wake-up is lost and no place: a scan that was started and is not over*)
(* is queued, runs, or waits for a server with its timer ahead of it; and  *)
(* while targets wait, as many scans are under way as may be.              *)
Going == {s \in Scans : s \notin backlog /\ op[s] # Finished}
NobodyForgotten ==
  /\ \A s \in Going : s \in Queued \/ runner = s \/ (InProbe(s) /\ now < TimerOf(s))
  /\ backlog # {} => Cardinality(Going) = Cap

(* And every target is scanned to the end, whatever servers answer.        *)
ScansEnd == <>(\A s \in Scans : op[s] = Finished)

=============================================================================
