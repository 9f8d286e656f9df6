----------------------------- MODULE SessionLog -----------------------------
(***************************************************************************)
(* What the web session promises: a log that whole scans are appended to,  *)
(* and readers that are shown the log as it was at one moment between      *)
(* their question and the answer.                                          *)
(***************************************************************************)
EXTENDS Sequences

CONSTANTS
  Posts,                 \* POST /api/scan requests
  Readers,               \* clients that ask for the history or an export
  Blocks,                \* request -> its reports, in the order of its targets
  Nothing                \* no answer

VARIABLES
  log,                   \* the reports of the session
  posted,                \* the requests whose reports are in the log
  shown                  \* reader -> the answer it is being given

vars == <<log, posted, shown>>

Init ==
  /\ log = <<>>
  /\ posted = {}
  /\ shown = [r \in Readers |-> Nothing]

Post(p) ==
  /\ p \notin posted
  /\ log' = log \o Blocks[p]
  /\ posted' = posted \union {p}
  /\ UNCHANGED shown

Show(r) ==
  /\ shown' = [shown EXCEPT ![r] = log]
  /\ UNCHANGED <<log, posted>>

Answered(r) ==
  /\ shown' = [shown EXCEPT ![r] = Nothing]
  /\ UNCHANGED <<log, posted>>

Next ==
  \/ \E p \in Posts : Post(p)
  \/ \E r \in Readers : Show(r) \/ Answered(r)

Spec == Init /\ [][Next]_vars

=============================================================================
