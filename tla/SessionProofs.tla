---------------------------- MODULE SessionProofs ----------------------------
(***************************************************************************)
(* Session's invariants hold for any requests, and its safety part         *)
(* implements SessionLog.                                                  *)
(***************************************************************************)
EXTENDS Session, SequenceTheorems, TLAPS

(* A request's reports enter the history with the lock, and not before.    *)
PostedByPc ==
  \A p \in Posts :
    /\ pc[p] \in {"new", "scan", "wait", "locked", "rejected"} => p \notin Posted
    /\ pc[p] \in {"respond", "answered"} => p \in Posted

(* Only a request with targets gets past the first check.                  *)
HasTargets == \A p \in Posts : pc[p] \in Underway => Targets[p] > 0

(* An answer is for good.                                                  *)
SinceAnswered == \A q \in Requests : \A p \in since[q] : pc[p] = "answered"

(* A reader is shown nothing before it has had the lock.                   *)
Silent == \A r \in Readers : pc[r] \in {"new", "wait", "locked"} => reply[r] = Nothing

(* Those in the queue wait for the lock, each in one place of it.          *)
Queued(s) ==
  /\ \A i \in 1..Len(s) : pc[s[i]] = "wait"
  /\ \A i, j \in 1..Len(s) : s[i] = s[j] => i = j

QueueWaits == Queued(queue)

IInv ==
  /\ TypeOK
  /\ QueueWaits
  /\ PostedByPc
  /\ HasTargets
  /\ SinceAnswered
  /\ Silent
  /\ AnswerIsVisible
  /\ HistoryInOrder

USE SessionAssumption

-----------------------------------------------------------------------------
(* The block of a request is its targets' reports, all under its name.     *)
LEMMA BlockIsSeq ==
  ASSUME NEW p \in Posts
  PROVE  /\ Blocks[p] \in Seq(Reports)
         /\ Len(Blocks[p]) = Targets[p]
         /\ \A i \in 1..Targets[p] : Blocks[p][i][1] = p
<1>1. Targets[p] \in Nat
  OBVIOUS
<1>2. Blocks[p] = [i \in 1..Targets[p] |-> <<p, i>>]
  BY DEF Blocks
<1>3. \A i \in 1..Targets[p] : <<p, i>> \in Reports /\ <<p, i>>[1] = p
  BY <1>1 DEF Reports
<1> HIDE DEF Reports
<1> QED
  BY <1>1, <1>2, <1>3

(* What is in a history after a request has extended it.                   *)
LEMMA ExtendedHistory ==
  ASSUME NEW h \in Seq(Reports), NEW p \in Posts
  PROVE  /\ h \o Blocks[p] \in Seq(Reports)
         /\ Len(h \o Blocks[p]) = Len(h) + Targets[p]
         /\ \A i \in 1..Len(h) : (h \o Blocks[p])[i] = h[i]
         /\ \A i \in 1..(Len(h) + Targets[p]) : i > Len(h) => (h \o Blocks[p])[i][1] = p
<1>1. /\ Blocks[p] \in Seq(Reports)
      /\ Len(Blocks[p]) = Targets[p]
      /\ \A i \in 1..Targets[p] : Blocks[p][i][1] = p
  BY BlockIsSeq
<1> DEFINE b == Blocks[p]
           m == Targets[p]
<1>2. b \in Seq(Reports) /\ Len(b) = m /\ \A i \in 1..m : b[i][1] = p
  BY <1>1
<1>3. m \in Nat
  OBVIOUS
<1> HIDE DEF b, m
<1>4. PICK n \in Nat : n = Len(h)
  OBVIOUS
<1>5. /\ h \o b \in Seq(Reports)
      /\ Len(h \o b) = n + m
      /\ \A i \in 1..(n + m) : (h \o b)[i] = IF i <= n THEN h[i] ELSE b[i - n]
  BY <1>2, <1>4, ConcatProperties
<1>6. \A i \in 1..n : (h \o b)[i] = h[i]
  BY <1>3, <1>5
<1>7. ASSUME NEW i \in 1..(n + m), i > n
      PROVE  (h \o b)[i][1] = p
  <2>1. i - n \in 1..m /\ ~(i <= n)
    BY <1>3, <1>7
  <2> QED
    BY <1>2, <1>5, <2>1
<1> QED
  BY <1>4, <1>5, <1>6, <1>7 DEF b, m

(* Those who have reports in a history.                                    *)
Posters(h) == {h[i][1] : i \in 1..Len(h)}

(* With targets, a request is among them once it has extended it, and      *)
(* nobody else joins.                                                      *)
LEMMA ExtendedPosters ==
  ASSUME NEW h \in Seq(Reports), NEW p \in Posts, Targets[p] > 0
  PROVE  Posters(h \o Blocks[p]) = Posters(h) \union {p}
<1> DEFINE g == h \o Blocks[p]
           m == Targets[p]
<1>1. PICK n \in Nat : n = Len(h)
  OBVIOUS
<1>2. /\ Len(g) = n + m
      /\ \A i \in 1..n : g[i] = h[i]
      /\ \A i \in 1..(n + m) : i > n => g[i][1] = p
  BY <1>1, ExtendedHistory
<1>3. m \in Nat /\ m > 0
  OBVIOUS
<1> HIDE DEF g, m
<1>4. ASSUME NEW q \in Posters(g) PROVE q \in Posters(h) \union {p}
  <2>1. PICK i \in 1..(n + m) : q = g[i][1]
    BY <1>2 DEF Posters
  <2>2. i > n \/ i \in 1..n
    BY <1>3
  <2> QED
    BY <1>1, <1>2, <2>1, <2>2 DEF Posters
<1>5. ASSUME NEW q \in Posters(h) PROVE q \in Posters(g)
  <2>1. PICK i \in 1..n : q = h[i][1]
    BY <1>1 DEF Posters
  <2>2. i \in 1..(n + m)
    BY <1>3
  <2> QED
    BY <1>2, <2>1, <2>2 DEF Posters
<1>6. p \in Posters(g)
  <2>1. n + 1 \in 1..(n + m) /\ n + 1 > n
    BY <1>3
  <2> QED
    BY <1>2, <2>1 DEF Posters
<1> QED
  BY <1>4, <1>5, <1>6 DEF g

(* The same, of the history and what is posted in it.                      *)
LEMMA PostedIsPosters ==
  ASSUME history \in Seq(Reports)
  PROVE  Posted = Posters(history)
<1>1. DOMAIN history = 1..Len(history)
  OBVIOUS
<1> QED
  BY <1>1 DEF Posted, Posters

(* A request's own step: its reports, and its name, are added.             *)
LEMMA ExtendedPosted ==
  ASSUME TypeOK, TypeOK', NEW p \in Posts, Targets[p] > 0, history' = history \o Blocks[p]
  PROVE  Posted' = Posted \union {p}
<1>1. Posted = Posters(history)
  BY PostedIsPosters DEF TypeOK
<1>2. history' \in Seq(Reports) => Posted' = Posters(history')
  <2>1. DOMAIN history' = 1..Len(history') \/ history' \notin Seq(Reports)
    OBVIOUS
  <2> QED
    BY <2>1 DEF Posted, Posters
<1>3. Posters(history \o Blocks[p]) = Posters(history) \union {p}
  BY ExtendedPosters DEF TypeOK
<1> QED
  BY <1>1, <1>2, <1>3 DEF TypeOK

-----------------------------------------------------------------------------
(* Who leaves the queue from anywhere leaves a queue: the same without     *)
(* one, or the same.                                                       *)
LEMMA WithoutType ==
  ASSUME TypeOK, NEW q \in Requests
  PROVE  /\ Without(q) \in Seq(Requests)
         /\ \/ Without(q) = queue /\ \A i \in 1..Len(queue) : queue[i] # q
            \/ \E i \in 1..Len(queue) :
                 /\ queue[i] = q
                 /\ Len(Without(q)) = Len(queue) - 1
                 /\ \A k \in 1..(Len(queue) - 1) :
                      Without(q)[k] = IF k < i THEN queue[k] ELSE queue[k + 1]
<1>1. queue \in Seq(Requests)
  BY DEF TypeOK
<1>2. CASE \E i \in DOMAIN queue : queue[i] = q
  <2> DEFINE i == CHOOSE n \in DOMAIN queue : queue[n] = q
  <2>1. i \in DOMAIN queue /\ queue[i] = q
    BY <1>2
  <2>2. PICK n \in Nat : n = Len(queue)
    BY <1>1
  <2>3. i \in 1..n
    BY <1>1, <2>1, <2>2
  <2>4. Without(q) = SubSeq(queue, 1, i - 1) \o SubSeq(queue, i + 1, n)
    BY <1>2, <2>2 DEF Without
  <2> HIDE DEF i
  <2> DEFINE s == SubSeq(queue, 1, i - 1)
             t == SubSeq(queue, i + 1, n)
  <2>5. /\ s \in Seq(Requests) /\ Len(s) = i - 1
        /\ \A k \in 1..(i - 1) : s[k] = queue[k]
    <3>1. \A m \in 1..(i - 1) : m \in 1..n
      BY <2>3
    <3>2. i - 1 \in Int /\ 1 \in Int /\ (1 <= i - 1 + 1)
      BY <2>3
    <3>3. /\ SubSeq(queue, 1, i - 1) \in Seq(Requests)
          /\ Len(SubSeq(queue, 1, i - 1)) = IF 1 <= i - 1 THEN i - 1 - 1 + 1 ELSE 0
          /\ \A k \in 1..(i - 1 - 1 + 1) : SubSeq(queue, 1, i - 1)[k] = queue[1 + k - 1]
      BY <1>1, <2>2, <3>1, <3>2, SubSeqProperties
    <3> QED
      BY <2>3, <3>3
  <2>6. /\ t \in Seq(Requests) /\ Len(t) = n - i
        /\ \A k \in 1..(n - i) : t[k] = queue[i + k]
    <3>1. \A m \in (i + 1)..n : m \in 1..n
      BY <2>3
    <3>2. i + 1 \in Int /\ n \in Int
      BY <2>3
    <3>3. /\ SubSeq(queue, i + 1, n) \in Seq(Requests)
          /\ Len(SubSeq(queue, i + 1, n)) = IF i + 1 <= n THEN n - (i + 1) + 1 ELSE 0
          /\ \A k \in 1..(n - (i + 1) + 1) : SubSeq(queue, i + 1, n)[k] = queue[(i + 1) + k - 1]
      BY <1>1, <2>2, <3>1, <3>2, SubSeqProperties
    <3> QED
      BY <2>3, <3>3
  <2> HIDE DEF s, t
  <2>7. s \o t \in Seq(Requests) /\ Len(s \o t) = (i - 1) + (n - i)
    <3>1. s \in Seq(Requests) /\ t \in Seq(Requests)
      BY <2>5, <2>6
    <3>2. s \o t \in Seq(Requests) /\ Len(s \o t) = Len(s) + Len(t)
      BY <3>1, ConcatProperties, Zenon
    <3> QED
      BY <2>5, <2>6, <3>2
  <2>8. Len(s \o t) = n - 1
    BY <2>3, <2>7
  <2>9. ASSUME NEW k \in 1..(n - 1)
        PROVE  (s \o t)[k] = IF k < i THEN queue[k] ELSE queue[k + 1]
    <3>1. (s \o t)[k] = IF k <= i - 1 THEN s[k] ELSE t[k - (i - 1)]
      <4>1. \A m \in 1..(Len(s) + Len(t)) : (s \o t)[m] = IF m <= Len(s) THEN s[m] ELSE t[m - Len(s)]
        BY <2>5, <2>6, ConcatProperties
      <4>2. Len(s) + Len(t) = n - 1
        BY <2>3, <2>5, <2>6
      <4> QED
        BY <2>5, <4>1, <4>2
    <3>2. CASE k < i
      BY <2>3, <2>5, <3>1, <3>2
    <3>3. CASE ~(k < i)
      <4>1. k - (i - 1) \in 1..(n - i) /\ i + (k - (i - 1)) = k + 1 /\ ~(k <= i - 1)
        BY <2>3, <3>3
      <4> QED
        BY <2>6, <3>1, <3>3, <4>1
    <3> QED
      BY <3>2, <3>3
  <2>10. Without(q) = s \o t
    BY <2>4 DEF s, t
  <2> QED
    BY <2>1, <2>2, <2>3, <2>7, <2>8, <2>9, <2>10
<1>3. CASE ~ \E i \in DOMAIN queue : queue[i] = q
  BY <1>1, <1>3 DEF Without
<1> QED
  BY <1>2, <1>3

(* Type correctness is inductive by itself, but for the history, whose new *)
(* part BlockIsSeq types.                                                  *)
LEMMA TypeStep == TypeOK /\ [Next]_vars => TypeOK'
<1> SUFFICES ASSUME TypeOK, [Next]_vars PROVE TypeOK'
  OBVIOUS
<1> USE DEF Requests, Underway, Over
<1>1. ASSUME NEW p \in Posts, Reject(p) PROVE TypeOK'
  BY <1>1 DEF TypeOK, Reject, GoTo
<1>2. ASSUME NEW p \in Posts, Receive(p) PROVE TypeOK'
  BY <1>2 DEF TypeOK, Receive, GoTo, Arrives
<1>3. ASSUME NEW p \in Posts, Scan(p) PROVE TypeOK'
  BY <1>3 DEF TypeOK, Scan
<1>4. ASSUME NEW p \in Posts, AskToWrite(p) PROVE TypeOK'
  BY <1>4, AppendProperties DEF TypeOK, AskToWrite, GoTo
<1>5. ASSUME NEW q \in Requests, Grant(q) PROVE TypeOK'
  <2>1. queue' \in Seq(Requests)
    BY <1>5, HeadTailProperties DEF TypeOK, Grant
  <2> QED
    BY <1>5, <2>1 DEF TypeOK, Grant, GoTo
<1>6. ASSUME NEW p \in Posts, Extend(p) PROVE TypeOK'
  <2>1. history' \in Seq(Reports)
    BY <1>6, ExtendedHistory DEF TypeOK, Extend
  <2> QED
    BY <1>6, <2>1 DEF TypeOK, Extend, GoTo
<1>7. ASSUME NEW p \in Posts, Answer(p) PROVE TypeOK'
  BY <1>7 DEF TypeOK, Answer, GoTo
<1>8. ASSUME NEW p \in Posts, Disconnect(p) PROVE TypeOK'
  <2>1. queue' \in Seq(Requests)
    BY <1>8, WithoutType DEF Disconnect, Dropped
  <2> QED
    BY <1>8, <2>1 DEF TypeOK, Disconnect, Dropped, GoTo
<1>9. ASSUME NEW r \in Readers, AskToRead(r) PROVE TypeOK'
  <2>1. queue' \in Seq(Requests)
    BY <1>9, AppendProperties DEF TypeOK, AskToRead
  <2> QED
    BY <1>9, <2>1 DEF TypeOK, AskToRead, GoTo, Arrives
<1>10. ASSUME NEW r \in Readers, Render(r) PROVE TypeOK'
  BY <1>10 DEF TypeOK, Render, GoTo
<1>11. ASSUME NEW r \in Readers, AnswerReader(r) PROVE TypeOK'
  BY <1>11 DEF TypeOK, AnswerReader, GoTo
<1>12. ASSUME NEW r \in Readers, DisconnectReader(r) PROVE TypeOK'
  <2>1. queue' \in Seq(Requests)
    BY <1>12, WithoutType DEF DisconnectReader, Dropped
  <2> QED
    BY <1>12, <2>1 DEF TypeOK, DisconnectReader, Dropped, GoTo
<1>13. ASSUME UNCHANGED vars PROVE TypeOK'
  BY <1>13 DEF TypeOK, vars
<1> QED
  BY <1>1, <1>2, <1>3, <1>4, <1>5, <1>6, <1>7, <1>8, <1>9, <1>10, <1>11, <1>12, <1>13
     DEF Next, PostWork, ReaderWork

(* The web session starts with the invariant.                              *)
LEMMA InitIInv == Init => IInv
<1> SUFFICES ASSUME Init PROVE IInv
  OBVIOUS
<1>1. TypeOK /\ QueueWaits
  BY DEF Init, TypeOK, Requests, QueueWaits, Queued
<1>2. Posted = {}
  BY DEF Init, Posted
<1>3. PostedByPc /\ HasTargets /\ SinceAnswered /\ Silent
  BY <1>2 DEF Init, PostedByPc, HasTargets, SinceAnswered, Silent, Underway, Requests
<1>4. AnswerIsVisible /\ HistoryInOrder
  BY DEF Init, AnswerIsVisible, HistoryInOrder
<1> QED
  BY <1>1, <1>3, <1>4 DEF IInv

-----------------------------------------------------------------------------
(* The queue stays one of those who wait: one who starts to wait was not   *)
(* in it, one who stops is in it no more.                                  *)
LEMMA QueueStep == TypeOK /\ TypeOK' /\ QueueWaits /\ Next => QueueWaits'
<1> SUFFICES ASSUME TypeOK, TypeOK', QueueWaits, Next PROVE QueueWaits'
  OBVIOUS
<1>1. PICK n \in Nat : n = Len(queue)
  BY DEF TypeOK
<1>2. /\ \A i \in 1..n : queue[i] \in Requests /\ pc[queue[i]] = "wait"
      /\ \A i, j \in 1..n : queue[i] = queue[j] => i = j
  BY <1>1 DEF TypeOK, QueueWaits, Queued
<1>3. ASSUME NEW q \in Requests, NEW label, pc[q] # "wait", queue' = queue,
             pc' = [pc EXCEPT ![q] = label]
      PROVE  QueueWaits'
  BY <1>1, <1>2, <1>3 DEF TypeOK, QueueWaits, Queued
<1>4. ASSUME NEW q \in Requests, pc[q] # "wait", queue' = Append(queue, q),
             pc' = [pc EXCEPT ![q] = "wait"]
      PROVE  QueueWaits'
  <2>1. /\ Len(queue') = n + 1
        /\ \A i \in 1..n : queue'[i] = queue[i]
        /\ queue'[n + 1] = q
    BY <1>1, <1>4, AppendProperties DEF TypeOK
  <2>2. \A i \in 1..(n + 1) : i \in 1..n \/ i = n + 1
    OBVIOUS
  <2>3. pc'[q] = "wait" /\ \A i \in 1..n : pc'[queue[i]] = "wait"
    BY <1>2, <1>4 DEF TypeOK
  <2> QED
    BY <1>2, <1>4, <2>1, <2>2, <2>3 DEF QueueWaits, Queued
<1>5. ASSUME NEW q \in Requests, Grant(q) PROVE QueueWaits'
  <2>1. /\ queue # <<>> /\ q = queue[1]
        /\ queue' = Tail(queue)
        /\ pc' = [pc EXCEPT ![q] = "locked"]
    BY <1>5 DEF Grant, GoTo, TypeOK
  <2>2. /\ n > 0
        /\ Len(queue') = n - 1
        /\ \A i \in 1..(n - 1) : queue'[i] = queue[i + 1]
    BY <1>1, <2>1, HeadTailProperties, EmptySeq DEF TypeOK
  <2>3. \A i \in 1..(n - 1) : i + 1 \in 1..n /\ i + 1 # 1 /\ 1 \in 1..n
    BY <2>2
  <2>4. \A i \in 1..(n - 1) : queue[i + 1] # q /\ pc'[queue[i + 1]] = "wait"
    BY <1>2, <2>1, <2>3 DEF TypeOK
  <2> QED
    BY <1>2, <2>2, <2>3, <2>4 DEF QueueWaits, Queued
<1>6. ASSUME NEW q \in Requests, Dropped(q), NEW label, pc' = [pc EXCEPT ![q] = label]
      PROVE  QueueWaits'
  <2>1. queue' = Without(q)
    BY <1>6 DEF Dropped
  <2>2. CASE queue' = queue /\ \A i \in 1..n : queue[i] # q
    BY <1>1, <1>2, <1>6, <2>2 DEF TypeOK, QueueWaits, Queued
  <2>3. ASSUME NEW i \in 1..n, queue[i] = q, Len(queue') = n - 1,
               \A k \in 1..(n - 1) : queue'[k] = IF k < i THEN queue[k] ELSE queue[k + 1]
        PROVE  QueueWaits'
    <3>1. \A k \in 1..(n - 1) : k \in 1..n /\ k + 1 \in 1..n
      OBVIOUS
    <3>2. \A k \in 1..(n - 1) : pc'[queue'[k]] = "wait"
      <4> SUFFICES ASSUME NEW k \in 1..(n - 1) PROVE pc'[queue'[k]] = "wait"
        OBVIOUS
      <4>1. CASE k < i
        BY <1>2, <1>6, <2>3, <3>1, <4>1 DEF TypeOK
      <4>2. CASE ~(k < i)
        BY <1>2, <1>6, <2>3, <3>1, <4>2 DEF TypeOK
      <4> QED
        BY <4>1, <4>2
    <3>3. \A k, l \in 1..(n - 1) : queue'[k] = queue'[l] => k = l
      <4> SUFFICES ASSUME NEW k \in 1..(n - 1), NEW l \in 1..(n - 1), queue'[k] = queue'[l]
                   PROVE  k = l
        OBVIOUS
      <4>1. (IF k < i THEN k ELSE k + 1) = (IF l < i THEN l ELSE l + 1)
        BY <1>2, <2>3, <3>1
      <4> QED
        BY <4>1
    <3> QED
      BY <2>3, <3>2, <3>3 DEF QueueWaits, Queued
  <2> QED
    BY <1>1, <2>1, <2>2, <2>3, WithoutType
<1>7. ASSUME NEW p \in Posts, Reject(p) \/ Receive(p) \/ PostWork(p) \/ Disconnect(p)
      PROVE  QueueWaits'
  <2>1. p \in Requests
    BY DEF Requests
  <2>2. CASE UNCHANGED <<queue, pc>>
    BY <2>2 DEF QueueWaits, Queued
  <2> QED
    BY <1>3, <1>4, <1>5, <1>6, <1>7, <2>1, <2>2
       DEF Reject, Receive, PostWork, Scan, AskToWrite, Extend, Answer, Disconnect, GoTo
<1>8. ASSUME NEW r \in Readers, AskToRead(r) \/ ReaderWork(r) \/ DisconnectReader(r)
      PROVE  QueueWaits'
  <2>1. r \in Requests
    BY DEF Requests
  <2> QED
    BY <1>3, <1>4, <1>5, <1>6, <1>8, <2>1
       DEF AskToRead, ReaderWork, Render, AnswerReader, DisconnectReader, GoTo
<1> QED
  BY <1>7, <1>8 DEF Next

(* So who is granted the lock waited for it.                               *)
LEMMA GrantedWaited ==
  ASSUME IInv, NEW q \in Requests, Grant(q)
  PROVE  pc[q] = "wait"
<1>1. queue \in Seq(Requests) /\ queue # <<>> /\ q = queue[1]
  BY DEF IInv, TypeOK, Grant
<1>2. 1 \in 1..Len(queue)
  BY <1>1, EmptySeq
<1> QED
  BY <1>1, <1>2 DEF IInv, QueueWaits, Queued

(* Who is posted is a request, and stays posted.                           *)
LEMMA PostedArePosts == TypeOK => Posted \subseteq Posts
<1> SUFFICES ASSUME TypeOK, NEW i \in DOMAIN history PROVE history[i][1] \in Posts
  BY DEF Posted
<1>1. history[i] \in Posts \X Nat
  BY DEF TypeOK, Reports
<1> QED
  BY <1>1

(* A step that leaves the history, the answers and what came before them   *)
(* alone keeps what is said of these three.                                *)
LEMMA QuietStep ==
  ASSUME IInv, UNCHANGED <<history, since, reply>>
  PROVE  /\ Posted' = Posted
         /\ AnswerIsVisible'
         /\ HistoryInOrder'
<1> QED
  BY DEF IInv, Posted, AnswerIsVisible, HistoryInOrder, Shows

(* Of any step of a scan request but the one that extends the history.     *)
LEMMA PostStep ==
  ASSUME IInv, TypeOK', QueueWaits', NEW p \in Posts,
         Reject(p) \/ Scan(p) \/ AskToWrite(p) \/ Grant(p) \/ Answer(p) \/ Disconnect(p)
  PROVE  IInv'
<1>1. UNCHANGED <<history, since, reply>>
  BY DEF Reject, Scan, AskToWrite, Grant, Answer, Disconnect, Dropped
<1>2. Posted' = Posted /\ AnswerIsVisible' /\ HistoryInOrder'
  BY <1>1, QuietStep
<1>3. /\ \A q \in Requests : q # p => pc'[q] = pc[q]
      /\ pc[p] = "answered" => pc'[p] = pc[p]
      /\ pc'[p] \in Underway => pc[p] \in Underway
      /\ pc'[p] \in {"new", "scan", "wait", "locked", "rejected"} =>
           pc[p] \in {"new", "scan", "wait", "locked", "rejected"}
      /\ pc'[p] \in {"respond", "answered"} => pc[p] \in {"respond", "answered"}
  <2> DEFINE Goes(from, to) == pc[p] \in from /\ pc' = [pc EXCEPT ![p] = to]
  <2>1. pc \in [Requests -> {"new"} \union Underway \union Over] /\ p \in Requests
    BY DEF IInv, TypeOK, Requests
  <2>2. \/ Goes({"new"}, "rejected")
        \/ UNCHANGED pc
        \/ Goes({"scan"}, "wait")
        \/ Goes({"respond"}, "answered")
        \/ Goes(Underway, "gone")
        \/ Goes({"wait"}, "locked")
    BY <2>1, GrantedWaited DEF Reject, Scan, AskToWrite, Grant, Answer, Disconnect, Dropped, GoTo
  <2> QED
    BY <2>1, <2>2 DEF Underway
<1>4. PostedByPc'
  BY <1>2, <1>3 DEF IInv, PostedByPc, Requests
<1>5. HasTargets'
  BY <1>3 DEF IInv, HasTargets, Requests
<1>6. SinceAnswered'
  BY <1>1, <1>3 DEF IInv, TypeOK, SinceAnswered, Requests
<1>7. Silent'
  BY <1>1, <1>3 DEF IInv, Silent, Requests
<1> QED
  BY <1>2, <1>4, <1>5, <1>6, <1>7 DEF IInv

(* Of a request that is made: it has no report in the history yet, so that *)
(* what came before it orders nothing.                                     *)
LEMMA ReceiveStep ==
  ASSUME IInv, TypeOK', QueueWaits', NEW p \in Posts, Receive(p)
  PROVE  IInv'
<1>1. /\ UNCHANGED <<history, reply>>
      /\ pc[p] = "new" /\ Targets[p] > 0
      /\ pc' = [pc EXCEPT ![p] = "scan"]
      /\ since' = [since EXCEPT ![p] = {q \in Posts : pc[q] = "answered"}]
  BY DEF Receive, GoTo, Arrives
<1>2. Posted' = Posted
  BY <1>1 DEF Posted
<1>3. PostedByPc' /\ HasTargets' /\ Silent'
  BY <1>1, <1>2 DEF IInv, TypeOK, PostedByPc, HasTargets, Silent, Requests, Underway
<1>4. SinceAnswered'
  BY <1>1 DEF IInv, TypeOK, SinceAnswered, Requests
<1>5. AnswerIsVisible'
  BY <1>1 DEF IInv, TypeOK, AnswerIsVisible, Shows, Requests
<1>6. HistoryInOrder'
  <2> SUFFICES ASSUME NEW i \in DOMAIN history, NEW j \in DOMAIN history,
                      history[j][1] \in since'[history[i][1]]
               PROVE  j < i
    BY <1>1 DEF HistoryInOrder
  <2>1. history[i][1] \in Posted /\ p \notin Posted
    BY <1>1 DEF IInv, PostedByPc, Posted
  <2>2. history[i][1] \in Requests
    BY <2>1, PostedArePosts DEF IInv, Requests
  <2>3. since'[history[i][1]] = since[history[i][1]]
    BY <1>1, <2>1, <2>2 DEF IInv, TypeOK
  <2> QED
    BY <2>3 DEF IInv, HistoryInOrder
<1> QED
  BY <1>3, <1>4, <1>5, <1>6 DEF IInv

(* Of the step that extends the history: whatever was answered is in front *)
(* of it, and nobody has come after it yet.                                *)
LEMMA ExtendStep ==
  ASSUME IInv, TypeOK', QueueWaits', NEW p \in Posts, Extend(p)
  PROVE  IInv'
<1>1. /\ UNCHANGED <<since, reply>>
      /\ pc[p] = "locked"
      /\ pc' = [pc EXCEPT ![p] = "respond"]
      /\ history' = history \o Blocks[p]
  BY DEF Extend, GoTo
<1>2. Targets[p] > 0
  BY <1>1 DEF IInv, HasTargets, Underway
<1>3. Posted' = Posted \union {p}
  BY <1>1, <1>2, ExtendedPosted DEF IInv
<1>4. PostedByPc' /\ HasTargets' /\ Silent'
  BY <1>1, <1>3 DEF IInv, TypeOK, PostedByPc, HasTargets, Silent, Requests, Underway
<1>5. SinceAnswered'
  BY <1>1 DEF IInv, TypeOK, SinceAnswered, Requests
<1>6. AnswerIsVisible'
  BY <1>1 DEF IInv, AnswerIsVisible, Shows
<1>7. HistoryInOrder'
  <2>1. PICK n \in Nat : n = Len(history)
    BY DEF IInv, TypeOK
  <2>2. /\ DOMAIN history = 1..n
        /\ DOMAIN history' = 1..(n + Targets[p])
        /\ \A i \in 1..n : history'[i] = history[i]
        /\ \A i \in 1..(n + Targets[p]) : i > n => history'[i][1] = p
    BY <1>1, <2>1, ExtendedHistory DEF IInv, TypeOK
  <2> SUFFICES ASSUME NEW i \in 1..(n + Targets[p]), NEW j \in 1..(n + Targets[p]),
                      history'[j][1] \in since[history'[i][1]]
               PROVE  j < i
    BY <1>1, <2>2 DEF HistoryInOrder
  <2>3. \A q \in Requests : p \notin since[q]
    BY <1>1 DEF IInv, SinceAnswered
  <2>4. history'[i][1] \in Requests
    <3>1. history'[i] \in Posts \X Nat
      BY <2>2 DEF TypeOK, Reports
    <3> QED
      BY <3>1 DEF Requests
  <2>5. j \in 1..n
    BY <2>2, <2>3, <2>4
  <2>6. CASE i \in 1..n
    BY <2>2, <2>5, <2>6 DEF IInv, HistoryInOrder
  <2>7. CASE i > n
    BY <2>5, <2>7
  <2> QED
    BY <2>6, <2>7
<1> QED
  BY <1>4, <1>5, <1>6, <1>7 DEF IInv

(* Of any step of a reader but the one that shows it the history.          *)
LEMMA ReaderStep ==
  ASSUME IInv, TypeOK', QueueWaits', NEW r \in Readers,
         AskToRead(r) \/ Grant(r) \/ AnswerReader(r) \/ DisconnectReader(r)
  PROVE  IInv'
<1>1. /\ UNCHANGED history
      /\ \A q \in Requests : q # r => pc'[q] = pc[q]
      /\ \A q \in Requests : q # r => since'[q] = since[q]
      /\ \A q \in Readers : q # r => reply'[q] = reply[q]
      /\ since'[r] = since[r] \/ since'[r] = {p \in Posts : pc[p] = "answered"}
      /\ reply'[r] = Nothing
  <2>1. r \in Requests
    BY DEF Requests
  <2> QED
    BY <2>1, GrantedWaited
       DEF IInv, TypeOK, Silent, Requests, AskToRead, Grant, AnswerReader, DisconnectReader,
           Dropped, GoTo, Arrives
<1>2. Posted' = Posted /\ Posted \subseteq Posts
  BY <1>1, PostedArePosts DEF Posted, IInv
<1>3. \A p \in Posts : p # r /\ p \in Requests
  BY DEF Requests
<1>4. PostedByPc'
  BY <1>1, <1>2, <1>3 DEF IInv, PostedByPc
<1>5. HasTargets'
  BY <1>1, <1>3 DEF IInv, HasTargets
<1>6. SinceAnswered'
  BY <1>1, <1>3 DEF IInv, TypeOK, SinceAnswered
<1>7. Silent'
  BY <1>1 DEF IInv, Silent, Requests
<1>8. AnswerIsVisible'
  BY <1>1 DEF IInv, AnswerIsVisible, Shows, Requests
<1>9. HistoryInOrder'
  <2> SUFFICES ASSUME NEW i \in DOMAIN history, NEW j \in DOMAIN history,
                      history[j][1] \in since'[history[i][1]]
               PROVE  j < i
    BY <1>1 DEF HistoryInOrder
  <2>1. history[i][1] \in Posts
    BY <1>2 DEF Posted
  <2> QED
    BY <1>1, <1>3, <2>1 DEF IInv, HistoryInOrder
<1> QED
  BY <1>4, <1>5, <1>6, <1>7, <1>8, <1>9 DEF IInv

(* Of the step that shows a reader the history: what was answered is in it.*)
LEMMA RenderStep ==
  ASSUME IInv, TypeOK', QueueWaits', NEW r \in Readers, Render(r)
  PROVE  IInv'
<1>1. /\ UNCHANGED <<history, since>>
      /\ pc' = [pc EXCEPT ![r] = "respond"]
      /\ reply' = [reply EXCEPT ![r] = history]
  BY DEF Render, GoTo
<1>2. Posted' = Posted
  BY <1>1 DEF Posted
<1>3. PostedByPc' /\ HasTargets' /\ SinceAnswered'
  BY <1>1, <1>2 DEF IInv, TypeOK, PostedByPc, HasTargets, SinceAnswered, Requests
<1>4. Silent'
  BY <1>1 DEF IInv, TypeOK, Silent, Requests
<1>5. AnswerIsVisible'
  <2> SUFFICES ASSUME NEW q \in Readers, reply'[q] # Nothing, NEW p \in since[q]
               PROVE  Shows(reply'[q], p)
    BY <1>1 DEF AnswerIsVisible
  <2>1. CASE q # r
    BY <1>1, <2>1 DEF IInv, TypeOK, AnswerIsVisible
  <2>2. CASE q = r
    <3>1. pc[p] = "answered" /\ p \in Posts
      BY DEF IInv, TypeOK, SinceAnswered, Requests
    <3>2. p \in Posted
      BY <3>1 DEF IInv, PostedByPc
    <3>3. reply'[q] = history
      BY <1>1, <2>2 DEF IInv, TypeOK
    <3> QED
      BY <3>2, <3>3 DEF Posted, Shows
  <2> QED
    BY <2>1, <2>2
<1>6. HistoryInOrder'
  BY <1>1 DEF IInv, HistoryInOrder
<1> QED
  BY <1>3, <1>4, <1>5, <1>6 DEF IInv

(* The invariant is inductive.                                             *)
LEMMA IInvStep == IInv /\ [Next]_vars => IInv'
<1> SUFFICES ASSUME IInv, [Next]_vars PROVE IInv'
  OBVIOUS
<1>1. TypeOK'
  BY TypeStep DEF IInv
<1>5. ASSUME Next PROVE QueueWaits'
  BY <1>1, <1>5, QueueStep DEF IInv
<1>2. ASSUME NEW p \in Posts, Reject(p) \/ Receive(p) \/ PostWork(p) \/ Disconnect(p)
      PROVE  IInv'
  BY <1>1, <1>2, <1>5, PostStep, ReceiveStep, ExtendStep DEF PostWork, Next
<1>3. ASSUME NEW r \in Readers, AskToRead(r) \/ ReaderWork(r) \/ DisconnectReader(r)
      PROVE  IInv'
  BY <1>1, <1>3, <1>5, ReaderStep, RenderStep DEF ReaderWork, Next
<1>4. ASSUME UNCHANGED vars PROVE IInv'
  <2>1. UNCHANGED <<history, since, reply, pc, queue>>
    BY <1>4 DEF vars
  <2>2. Posted' = Posted /\ AnswerIsVisible' /\ HistoryInOrder'
    BY <2>1, QuietStep
  <2>3. QueueWaits' /\ PostedByPc' /\ HasTargets' /\ SinceAnswered' /\ Silent'
    BY <2>1, <2>2 DEF IInv, QueueWaits, Queued, PostedByPc, HasTargets, SinceAnswered, Silent
  <2> QED
    BY <1>1, <2>2, <2>3 DEF IInv
<1> QED
  BY <1>2, <1>3, <1>4 DEF Next

(* Of every behaviour, the invariant.                                      *)
THEOREM Invariant == Spec => []IInv
<1>1. Init => IInv
  BY InitIInv
<1>2. IInv /\ [Next]_vars => IInv'
  BY IInvStep
<1> QED
  BY <1>1, <1>2, PTL DEF Spec

(* The variables have their types, for any requests and targets.           *)
THEOREM TypeCorrect == Spec => []TypeOK
<1>1. IInv => TypeOK
  BY DEF IInv
<1> QED
  BY <1>1, Invariant, PTL

(* Whoever asks after an answer is shown what was answered.                *)
THEOREM Visible == Spec => []AnswerIsVisible
<1>1. IInv => AnswerIsVisible
  BY DEF IInv
<1> QED
  BY <1>1, Invariant, PTL

(* The history has the scans in the order of question and answer.          *)
THEOREM Ordered == Spec => []HistoryInOrder
<1>1. IInv => HistoryInOrder
  BY DEF IInv
<1> QED
  BY <1>1, Invariant, PTL

-----------------------------------------------------------------------------
(* The history starts as an empty log.                                     *)
LEMMA InitIsLogInit == Init => Log!Init
  BY DEF Init, Log!Init, Posted

(* Each step of a handler is one of the log, or changes nothing of it:     *)
(* extending it posts a request that was not posted, and a reader is shown *)
(* the log that is.                                                        *)
LEMMA StepIsLogStep == IInv /\ [Next]_vars => [Log!Next]_(Log!vars)
<1> SUFFICES ASSUME IInv, [Next]_vars PROVE [Log!Next]_(Log!vars)
  OBVIOUS
<1>1. TypeOK'
  BY TypeStep DEF IInv
<1>2. ASSUME UNCHANGED <<history, reply>> PROVE UNCHANGED Log!vars
  BY <1>2 DEF Posted, Log!vars
<1>3. ASSUME NEW p \in Posts, Extend(p) PROVE Log!Post(p)
  <2>1. /\ history' = history \o Blocks[p]
        /\ UNCHANGED reply
        /\ pc[p] = "locked"
    BY <1>3 DEF Extend
  <2>2. Targets[p] > 0 /\ p \notin Posted
    BY <2>1 DEF IInv, HasTargets, PostedByPc, Underway
  <2>3. Posted' = Posted \union {p}
    BY <1>1, <2>1, <2>2, ExtendedPosted DEF IInv
  <2> QED
    BY <2>1, <2>2, <2>3 DEF Log!Post
<1>4. ASSUME NEW p \in Posts, Reject(p) \/ Receive(p) \/ PostWork(p) \/ Disconnect(p)
      PROVE  Extend(p) \/ UNCHANGED Log!vars
  BY <1>2, <1>4 DEF Reject, Receive, PostWork, Scan, AskToWrite, Grant, Answer, Disconnect, Dropped
<1>5. ASSUME NEW r \in Readers, Render(r) PROVE Log!Show(r)
  BY <1>5 DEF Render, Log!Show, Posted
<1>6. ASSUME NEW r \in Readers, AnswerReader(r) \/ DisconnectReader(r) PROVE Log!Answered(r)
  BY <1>6 DEF AnswerReader, DisconnectReader, Dropped, Log!Answered, Posted
<1>7. ASSUME NEW r \in Readers, AskToRead(r) \/ Grant(r) PROVE UNCHANGED Log!vars
  BY <1>2, <1>7 DEF AskToRead, Grant
<1>8. ASSUME UNCHANGED vars PROVE UNCHANGED Log!vars
  BY <1>2, <1>8 DEF vars
<1> QED
  BY <1>3, <1>4, <1>5, <1>6, <1>7, <1>8 DEF Next, ReaderWork, Log!Next

(* The web session implements the log, for any requests and readers.       *)
THEOREM ImplementsTheLog == Spec => ImplementsLog
<1>1. Init => Log!Init
  BY InitIsLogInit
<1>2. IInv /\ [Next]_vars => [Log!Next]_(Log!vars)
  BY StepIsLogStep
<1> QED
  BY <1>1, <1>2, Invariant, PTL DEF Spec, ImplementsLog, Log!Spec
=============================================================================
