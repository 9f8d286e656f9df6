------------------------------ MODULE Session ------------------------------
(***************************************************************************)
(* gui.rs: the web UI's server.  Requests run at once, each in a task of   *)
(* its own, and share the history of the session behind a lock.  A client  *)
(* that goes away takes its request with it, at any await.                 *)
(***************************************************************************)
EXTENDS Naturals, Sequences, FiniteSets

CONSTANTS
  Posts,                 \* POST /api/scan requests, each made once
  Targets,               \* request -> how many targets it names
  Readers,               \* clients that poll /api/history or /api/export
  Nothing

Requests == Posts \union Readers

ASSUME SessionAssumption ==
  /\ Targets \in [Posts -> Nat]
  /\ Posts \intersect Readers = {}
  /\ Nothing \notin Seq(Posts \X Nat)

VARIABLES
  history,               \* AppState.history, behind the lock
  pc,                    \* request -> where its handler is
  done,                  \* request -> the targets scanned so far
  queue,                 \* those who wait for the lock, first come first
  holding,               \* those who have it
  reply,                 \* reader -> what it is being answered
  since                  \* request -> the scans answered before it was made

vars == <<history, pc, done, queue, holding, reply, since>>

(* The reports of a request, by the position of the target.                *)
Blocks == [p \in Posts |-> [i \in 1..Targets[p] |-> <<p, i>>]]

Reports == Posts \X Nat

(* A request is over when its client has its answer or is gone; "rejected" *)
(* is the 400 for no targets.                                              *)
Over == {"answered", "gone", "rejected"}
Underway == {"scan", "wait", "locked", "respond"}

-----------------------------------------------------------------------------
TypeOK ==
  /\ history \in Seq(Reports)
  /\ pc \in [Requests -> {"new"} \union Underway \union Over]
  /\ done \in [Posts -> Nat] /\ \A p \in Posts : done[p] <= Targets[p]
  /\ queue \in Seq(Requests)
  /\ holding \in SUBSET Requests
  /\ reply \in [Readers -> Seq(Reports) \union {Nothing}]
  /\ since \in [Requests -> SUBSET Posts]

Init ==
  /\ history = <<>>
  /\ pc = [q \in Requests |-> "new"]
  /\ done = [p \in Posts |-> 0]
  /\ queue = <<>>
  /\ holding = {}
  /\ reply = [r \in Readers |-> Nothing]
  /\ since = [q \in Requests |-> {}]

GoTo(q, label) == pc' = [pc EXCEPT ![q] = label]

Arrives(q) == since' = [since EXCEPT ![q] = {p \in Posts : pc[p] = "answered"}]

(* api_scan: no targets, no scan.                                          *)
Reject(p) ==
  /\ pc[p] = "new"
  /\ Targets[p] = 0
  /\ GoTo(p, "rejected")
  /\ UNCHANGED <<history, done, queue, holding, reply, since>>

Receive(p) ==
  /\ pc[p] = "new"
  /\ Targets[p] > 0
  /\ GoTo(p, "scan")
  /\ Arrives(p)
  /\ UNCHANGED <<history, done, queue, holding, reply>>

(* run_to_reports: one target after the other, each yields a report.       *)
Scan(p) ==
  /\ pc[p] = "scan"
  /\ done[p] < Targets[p]
  /\ done' = [done EXCEPT ![p] = @ + 1]
  /\ UNCHANGED <<history, pc, queue, holding, reply, since>>

(* No waiting: who does not get the lock does without, a mutated form.     *)
AskToWriteOrSkip(p) ==
  /\ pc[p] = "scan"
  /\ done[p] = Targets[p]
  /\ IF holding = {} THEN queue' = Append(queue, p) /\ GoTo(p, "wait")
                     ELSE UNCHANGED queue /\ GoTo(p, "respond")
  /\ UNCHANGED <<history, done, holding, reply, since>>

(* history.write().await: queues behind everyone who waits already.        *)
AskToWrite(p) ==
  /\ pc[p] = "scan"
  /\ done[p] = Targets[p]
  /\ queue' = Append(queue, p)
  /\ GoTo(p, "wait")
  /\ UNCHANGED <<history, done, holding, reply, since>>

(* api_history and api_export, which needs a format it knows: another one  *)
(* is answered without a look at the history.                              *)
AskToRead(r) ==
  /\ pc[r] = "new"
  /\ queue' = Append(queue, r)
  /\ Arrives(r)
  /\ GoTo(r, "wait")
  /\ UNCHANGED <<history, done, holding, reply>>

(* The queue, when one leaves it from anywhere.                            *)
Without(q) ==
  IF \E i \in DOMAIN queue : queue[i] = q
    THEN LET i == CHOOSE n \in DOMAIN queue : queue[n] = q
         IN  SubSeq(queue, 1, i - 1) \o SubSeq(queue, i + 1, Len(queue))
    ELSE queue

MayHold(q) == IF q \in Posts THEN holding = {} ELSE holding \subseteq Readers

(* Readers need not queue, a mutated form.                                 *)
GrantReadersFirst(q) ==
  /\ \E i \in DOMAIN queue :
       /\ queue[i] = q
       /\ q \in Readers \/ \A j \in DOMAIN queue : queue[j] \notin Readers
  /\ MayHold(q)
  /\ queue' = Without(q)
  /\ holding' = holding \union {q}
  /\ GoTo(q, "locked")
  /\ UNCHANGED <<history, done, reply, since>>

(* External: tokio's RwLock.  Only the first in the queue is let in: a     *)
(* reader with other readers, a writer alone.                              *)
Grant(q) ==
  /\ queue # <<>> /\ q = Head(queue)
  /\ MayHold(q)
  /\ queue' = Tail(queue)
  /\ holding' = holding \union {q}
  /\ GoTo(q, "locked")
  /\ UNCHANGED <<history, done, reply, since>>

(* The client is gone before all is in, a mutated form.                    *)
ExtendPartly(p) ==
  /\ pc[p] = "locked"
  /\ \E n \in 1..Targets[p] : history' = history \o SubSeq(Blocks[p], 1, n)
  /\ holding' = holding \ {p}
  /\ GoTo(p, "respond")
  /\ UNCHANGED <<done, queue, reply, since>>

(* The newest in front, a mutated form.                                    *)
ExtendInFront(p) ==
  /\ pc[p] = "locked"
  /\ history' = Blocks[p] \o history
  /\ holding' = holding \ {p}
  /\ GoTo(p, "respond")
  /\ UNCHANGED <<done, queue, reply, since>>

(* extend with all reports, build the response, drop the guard: no await   *)
(* in between.                                                             *)
Extend(p) ==
  /\ pc[p] = "locked"
  /\ history' = history \o Blocks[p]
  /\ holding' = holding \ {p}
  /\ GoTo(p, "respond")
  /\ UNCHANGED <<done, queue, reply, since>>

(* The history is rendered under the read lock.                            *)
Render(r) ==
  /\ pc[r] = "locked"
  /\ reply' = [reply EXCEPT ![r] = history]
  /\ holding' = holding \ {r}
  /\ GoTo(r, "respond")
  /\ UNCHANGED <<history, done, queue, since>>

Answer(p) ==
  /\ pc[p] = "respond"
  /\ GoTo(p, "answered")
  /\ UNCHANGED <<history, done, queue, holding, reply, since>>

(* A client that polls will ask again.                                     *)
AnswerReader(r) ==
  /\ pc[r] = "respond"
  /\ reply' = [reply EXCEPT ![r] = Nothing]
  /\ GoTo(r, "new")
  /\ UNCHANGED <<history, done, queue, holding, since>>

(* External: the client disconnects.  Its handler is dropped where it      *)
(* awaits, its place in the queue and the lock with it; a response that is *)
(* ready is not delivered.                                                 *)
Dropped(q) ==
  /\ pc[q] \in Underway
  /\ queue' = Without(q)
  /\ holding' = holding \ {q}
  /\ UNCHANGED <<history, done, since>>

Disconnect(p) ==
  /\ Dropped(p)
  /\ GoTo(p, "gone")
  /\ UNCHANGED reply

DisconnectReader(r) ==
  /\ Dropped(r)
  /\ GoTo(r, "new")
  /\ reply' = [reply EXCEPT ![r] = Nothing]

PostWork(p) == Scan(p) \/ AskToWrite(p) \/ Grant(p) \/ Extend(p) \/ Answer(p)
ReaderWork(r) == Grant(r) \/ Render(r) \/ AnswerReader(r)

Next ==
  \/ \E p \in Posts : Reject(p) \/ Receive(p) \/ PostWork(p) \/ Disconnect(p)
  \/ \E r \in Readers : AskToRead(r) \/ ReaderWork(r) \/ DisconnectReader(r)

(* A task that can run does.  Nobody has to ask, or to stay.               *)
Fairness ==
  /\ \A p \in Posts : WF_vars(PostWork(p))
  /\ \A r \in Readers : WF_vars(ReaderWork(r))

Spec == Init /\ [][Next]_vars /\ Fairness

-----------------------------------------------------------------------------
Posted == {history[i][1] : i \in DOMAIN history}

Log == INSTANCE SessionLog WITH log <- history, posted <- Posted, shown <- reply

(* The handlers, for all their awaits, the lock and the disconnections,    *)
(* amount to a log that whole scans are appended to, each once, and that   *)
(* every reader sees at one moment (gui.rs 107 to 109 and 121, 146).       *)
ImplementsLog == Log!Spec

Shows(s, p) == \E i \in DOMAIN s : s[i][1] = p

(* What a client has been answered is there for whoever asks afterwards.   *)
AnswerIsVisible ==
  \A r \in Readers : reply[r] # Nothing => \A p \in since[r] : Shows(reply[r], p)

(* A scan asked for after the answer to another comes later in the history,*)
(* although the two share nothing but the lock.                            *)
HistoryInOrder ==
  \A i, j \in DOMAIN history : history[j][1] \in since[history[i][1]] => j < i

(* Nobody starves at the lock: with readers that never stop polling, a scan*)
(* that is not abandoned gets its turn to write, and its answer, and so is *)
(* a reader let in however many scans are being written.                   *)
NobodyStarves ==
  /\ \A p \in Posts : pc[p] = "scan" ~> pc[p] \in Over
  /\ \A r \in Readers : pc[r] = "wait" ~> pc[r] # "wait"

=============================================================================
