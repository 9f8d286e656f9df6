-------------------------------- MODULE Bulk --------------------------------
(***************************************************************************)
(* `cy-tls bulk` (bulk.rs): a bounded fan-out of scans over the targets    *)
(* file.  One task owns the iterator over the targets, a FuturesUnordered  *)
(* of scans and stdout.  FuturesUnordered is polled only while the task    *)
(* waits in in_flight.next(): a scan that is done is returned at once, in  *)
(* whatever order scans finish, and no scan advances while a record is     *)
(* written.  A record takes three awaited calls (the line, the newline,    *)
(* the flush); the `?` after each of them ends run() and drops the scans   *)
(* still in flight.                                                        *)
(***************************************************************************)
EXTENDS Naturals, FiniteSets

CONSTANTS
  MaxTargets,            \* longest targets file considered
  MaxConcurrency         \* largest --concurrency considered

ASSUME BulkAssumption ==
  /\ MaxTargets \in Nat
  /\ MaxConcurrency \in Nat

None == 0

Phase == {"start", "polling", "write", "newline", "flush", "done", "failed"}

VARIABLES
  total,                 \* entries read_targets_file keeps
  concurrency,           \* --concurrency, a usize: 0 is accepted by the parser
  next,                  \* position of the iterator `queue`
  inFlight,              \* targets whose scan is in the FuturesUnordered
  current,               \* target of the report being written, or None
  emitted,               \* targets whose whole line is handed to stdout
  phase                  \* where run() is

args == <<total, concurrency>>
vars == <<args, next, inFlight, current, emitted, phase>>

Target == 1..total

-----------------------------------------------------------------------------
(* Without .max(1), a mutated form.                                        *)
capUnclamped == concurrency

(* let cap = args.concurrency.max(1)                                       *)
cap == IF concurrency = 0 THEN 1 ELSE concurrency

Init ==
  /\ total \in 0..MaxTargets
  /\ concurrency \in 0..MaxConcurrency
  /\ next = 1
  /\ inFlight = {}
  /\ current = None
  /\ emitted = {}
  /\ phase = "start"

(* An empty targets file is an error before any scan is started.           *)
RejectEmpty ==
  /\ phase = "start"
  /\ total = 0
  /\ phase' = "failed"
  /\ UNCHANGED <<args, next, inFlight, current, emitted>>

(* The first loop of run(): at most cap scans are pushed.                  *)
Prime ==
  /\ phase = "start"
  /\ total > 0
  /\ inFlight' = {t \in Target : t <= cap}
  /\ next' = IF cap < total THEN cap + 1 ELSE total + 1
  /\ phase' = "polling"
  /\ UNCHANGED <<args, current, emitted>>

(* in_flight.next().await yields the report of any finished scan: scan_one *)
(* always yields one, unwrap_or_else(failed_report) included.              *)
Yield(t) ==
  /\ phase = "polling"
  /\ t \in inFlight
  /\ inFlight' = inFlight \ {t}
  /\ current' = t
  /\ phase' = "write"
  /\ UNCHANGED <<args, next, emitted>>

(* write_all(line): the record is handed over without its newline.         *)
WriteLine ==
  /\ phase = "write"
  /\ phase' = "newline"
  /\ UNCHANGED <<args, next, inFlight, current, emitted>>

(* write_all(b"\n")                                                        *)
WriteNewline ==
  /\ phase = "newline"
  /\ emitted' = emitted \union {current}
  /\ phase' = "flush"
  /\ UNCHANGED <<args, next, inFlight, current>>

(* Refills the code does not do: one that forgets to advance the iterator, *)
(* one that starts two scans, one that starts none, one that skips a line. *)
RefillStuck ==
  IF next <= total
    THEN inFlight' = inFlight \union {next} /\ UNCHANGED next
    ELSE UNCHANGED <<inFlight, next>>
RefillTwice ==
  IF next < total
    THEN inFlight' = inFlight \union {next, next + 1} /\ next' = next + 2
    ELSE UNCHANGED <<inFlight, next>>
RefillNone == UNCHANGED <<inFlight, next>>
(* The refill after the record: the next target of the queue, if any.      *)
Refill ==
  IF next <= total
    THEN /\ inFlight' = inFlight \union {next}
         /\ next' = next + 1
    ELSE UNCHANGED <<inFlight, next>>

(* handle.flush(), then the tail of the loop body.                         *)
FlushAndRefill ==
  /\ phase = "flush"
  /\ Refill
  /\ current' = None
  /\ phase' = "polling"
  /\ UNCHANGED <<args, emitted>>

(* Any of the three calls fails: `?` leaves run(), dropping the futures.   *)
WriteFails ==
  /\ phase \in {"write", "newline", "flush"}
  /\ phase' = "failed"
  /\ inFlight' = {}
  /\ UNCHANGED <<args, next, current, emitted>>

(* next() yields None on an empty FuturesUnordered: Ok(()).                *)
Finish ==
  /\ phase = "polling"
  /\ inFlight = {}
  /\ phase' = "done"
  /\ UNCHANGED <<args, next, inFlight, current, emitted>>

(* The task advances.  Failing writes are the environment's.               *)
Step ==
  \/ RejectEmpty
  \/ Prime
  \/ \E t \in Target : Yield(t)
  \/ WriteLine
  \/ WriteNewline
  \/ FlushAndRefill
  \/ Finish

Terminated ==
  /\ phase \in {"done", "failed"}
  /\ UNCHANGED vars

Next == Step \/ WriteFails \/ Terminated

(* The task is scheduled again as long as it can run, and every scan ends: *)
(* each await of a scan is under a timeout.                                *)
Fairness == WF_vars(Step)

Spec == Init /\ [][Next]_vars /\ Fairness

-----------------------------------------------------------------------------
TypeOK ==
  /\ total \in 0..MaxTargets
  /\ concurrency \in 0..MaxConcurrency
  /\ next \in 1..(total + 1)
  /\ inFlight \in SUBSET Target
  /\ current \in Target \union {None}
  /\ emitted \in SUBSET Target
  /\ phase \in Phase

(* No entry of the file is lost or scanned twice: while run() has not      *)
(* failed, the entries the iterator has passed are exactly those in        *)
(* flight, being written or already on stdout, each in one of the three.   *)
Conservation ==
  phase # "failed" =>
    /\ inFlight \union emitted
         \union (IF phase \in {"write", "newline"} THEN {current} ELSE {})
       = 1..(next - 1)
    /\ inFlight \intersect emitted = {}
    /\ phase \in {"write", "newline"} => current \notin inFlight \union emitted

(* `--concurrency`: at most cap scans are in flight, and the slot of the   *)
(* report being written is not given away before the record is out.        *)
InFlightBound ==
  IF phase \in {"write", "newline", "flush"}
    THEN Cardinality(inFlight) < cap
    ELSE Cardinality(inFlight) <= cap

(* The slots are used: whenever the task waits for a scan, either cap      *)
(* scans run or every entry of the file has been started.                  *)
SlotsUsed ==
  phase = "polling" => Cardinality(inFlight) = cap \/ next = total + 1

(* bulk implements Batch.                                                  *)
status ==
  CASE phase = "done"   -> "complete"
    [] phase = "failed" -> "aborted"
    [] OTHER            -> "running"

AbstractBatch == INSTANCE Batch WITH reported <- emitted
ImplementsBatch == AbstractBatch!Spec
=============================================================================
