# cy-tls in TLA+

A specification of [cy-tls](../src/README.md), the SSL/TLS posture scanner: TLA+ modules
translated from its Rust source, TLC configurations that check them on small instances, and
theorems about them proved with TLAPS. Paths below are relative to the repository.

    tlc -config MCScan.cfg MCScan        # model-check
    tlapm ScanProofs.tla                 # check the proofs

## 1. The system

cy-tls connects to `host:port` targets, puts some twenty probes to each, one after the other, and
writes a report: what each probe saw, a vector of *findings* (stable IDs with a severity), a *grade*
(A+ to F, or T) and a *summary* with a `passed` flag and the active *breaches*.

| component | state it keeps | operations | interacts with |
|---|---|---|---|
| **bulk fan-out** `bulk.rs` | iterator over the targets, a `FuturesUnordered` of scans, stdout | prime, await the next finished scan, write a record (line, newline, flush), refill, fail | starts scans with a timeout; a scan always yields a report |
| **scan orchestrator** `scan/mod.rs` | `protocols`, `certificate`, `key_exchange`, `findings`, local to one scan | `scan_one`: every probe in a fixed order, later ones conditional on what earlier ones saw; then grade and summary | calls every probe below; run by `scan`, `bulk`, `gui`, `mcp` |
| **protocol versions** `protocol.rs`, `legacy_proto.rs` | none | one verified rustls handshake (marks TLS 1.2 *or* 1.3), four raw hellos | its findings are pushed before 0-RTT is known |
| **cipher enumeration** `cipher_enum*.rs` | suites still offered | one handshake per accepted suite until a handshake fails | decides which of ROBOT, DH, CBC probes run; run twice, the second time for forward secrecy only |
| **certificate** `cert.rs`, `trust_stores.rs`, `ocsp*.rs` | none | strict handshake, else a second one without verification; OCSP query; findings | a staple seen by another probe overrides the OCSP status |
| **active probes** `vuln_*.rs`, `dh_params.rs`, `tls12_features.rs`, `grease.rs`, `fallback_scsv.rs`, `tls13_0rtt.rs` | none | hand-made hellos, a verdict from what comes back, or does not | gated by the enumeration, by TLS 1.2, or by one another |
| **HTTP** `headers.rs`, `server_fingerprint.rs`, `http_redirect.rs`, `http2_*.rs` | none | blocking fetches with ureq; string tests | HSTS lifts the grade, the banner decides some verdicts |
| **grade, summary** `grade.rs`, `summary.rs`, `finding.rs` | none | three scores, a weighted mean, caps, hard fails, the bonus, the trust override; `passed` and breaches from tables | pure functions of the rest |
| **posture data** `pqc.rs`, `tls13_ech.rs`, `session.rs`, `cipher_pref.rs`, `caa.rs`, `dns_soa.rs`, `handshake_sim.rs`, `forward_secrecy.rs` | none | single verdicts | only forward secrecy is read again (by the grade) |
| **web session** `gui.rs` | the history of the session, behind a `tokio::sync::RwLock` | scan targets and append their reports; show or export the history | calls `run_to_reports`; clients leave at any await |
| **self-update** `self_update.rs` | the directory of the binary: its name and `.old` | ask for the release, download, rename, write, chmod, remove | other runs of `update`, kills, the operator |
| **SSH audit** `ssh_algos.rs` | none | one handshake up to KEXINIT; four tables of weak names | none |
| **preload list** `preload.rs` | 94,549 embedded names, sorted | look up a host and its parents; `verify-preload` | asked by the header audit |
| **other transports** `mcp.rs`, `main.rs`, `cli.rs`, `output/` | none | a sequential JSON-RPC loop; emitters | call `run_to_reports` |
| **host tools** `licensing.rs`, `hardware_rot.rs` | license file | license file, host fingerprint | none |

What is hard here, and what would make each part correct:

* **bulk** - completions in any order, a bounded set of scans, writes that fail half way. Correct:
  nothing lost or repeated, the bound kept and used, every target reported, an end.
* **a scan** - every probe may be lost to the network, and each reads silence in its own way;
  findings are pushed while the records they come from are still being completed. Correct: no
  combination of losses lets a bad target pass or invents a breach; a report that passes without
  losses has earned it.
* **enumeration** - a loop of handshakes, each answered by whichever server is behind the name.
  Correct: the list lies between what all accept and what any accepts, at the promised cost, and it ends.
* **ROBOT** - a verdict from comparing five connections, where a failure is a response class too.
  Correct: neither verdict without a cause, and time enough to reach one.
* **certificates** - whole days truncated toward zero, thresholds, findings that suppress one
  another by looking at what has been pushed so far, and a second opinion (the strict handshake)
  that may contradict them. Correct: no gap in time, no refusal without a reason, no pass with an
  expired chain.
* **the thread** - all scans of `bulk` are polled by one task; fetches and the writing of records keep it
  while the timers of the other scans run on. Correct: no timeout without the whole limit spent, a bound on how
  late a timer is seen, an end.
* **the web session** - handlers at once over one history, dropped at whatever await they are at when
  their client leaves. Correct: the history is a log of whole scans in the order of question and answer, and nobody
  waits at its lock for ever.
* **self-update** - six steps on two names, each of which may fail or be the last. Correct: a usable
  copy is always left, a run replaces its own binary and no other, and the messages are true.
* **audits of what a peer advertises** (SSH, headers, preload) - single passes over tables, in an order
  that decides. Correct: offering or allowing more never helps, a clean result has nothing against any list that arrived.
* **the grade** - a mean, then caps, then overrides, over tables that do not coincide. Correct: more
  findings never help, and nothing broken is averaged away.

PROJECT.json lists these hazards one by one, each at its line.

## 2. Modules

| module | models | extends |
|---|---|---|
| `Batch` | what a batch of scans promises a reader of stdout (abstract) | |
| `Bulk` | `bulk.rs`: the loop of `run` | |
| `Catalog` | the tables of IDs: severity critical, `BREACH_INDICATORS`, `critical_vulns`, `medium_caps` | |
| `Suites` | cipher suites by code point, and every list and name test that classifies them | |
| `Grade` | `grade::compute`, `summary::compute` | `Catalog`, `Suites` |
| `Cert` | `CertificateInfo::contribute_findings` | |
| `Server` | **external**: a TLS server, webpki and rustls, by what the probes depend on | `Cert`, `Suites` |
| `Probes` | one operator per probe: its possible verdicts, lost or not | `Server` |
| `Assessment` | what a scan promises a reader of its report (abstract) | `Catalog` |
| `Scan` | `scan_one` | `Probes`, `Grade` |
| `Enumeration` | the three cipher enumerations of a scan, and `cipher_pref::probe`, handshake by handshake | uses `Probes` |
| `Robot` | `vuln_robot::probe`, connection by connection | uses `Probes` |
| `ScanClaims` | what docs and comments claim of reports and the scan breaks | `Scan` |
| `CertAgeing` | one server scanned again and again as its certificate ages | `Server`, `Grade` |
| `GradeAudit` | one target graded again and again as findings are added | `Grade` |
| `Executor` | who gets the thread in `bulk`, and when: probes under timers, fetches that block, records being written | |
| `SessionLog` | what the web session promises: a log of whole scans (abstract) | |
| `Session` | `gui.rs`: the scan, history and export handlers | uses `SessionLog` |
| `SelfUpdate` | `self_update::run` on Linux and on macOS, several at once | |
| `Ssh` | `ssh_algos.rs`: what is kept of a KEXINIT, the tables, `audit` | |
| `Preload` | `preload.rs`: the lookup and `verify` | |
| `Headers` | `headers.rs`: the GET, the two OPTIONS, every finding | `Preload` |
| `Posture` | an SSH server and a site audited again and again as they change | `Ssh`, `Headers` |
| `MC*` | instances for TLC | |
| `BulkProofs`, `GradeLemmas`, `AuditProofs`, `ScanProofs`, `EnumerationProofs`, `RobotProofs`, `SessionProofs`, `SelfUpdateProofs` | theorems | |

**Bulk.** `next` is the position of `queue`, `inFlight` the `FuturesUnordered`, `current` and
`phase` the point `run` has reached within the body of its loop. `in_flight.next().await` is `Yield(t)`
for any `t` in flight. The three awaited writes are three actions; each may fail (`WriteFails`), which
drops the scans in flight. `emitted` is what a reader of stdout has, newline included.

**Scan.** `pc` names the next probe and runs through them in the order of `scan_one`. `seen` holds
the local records that later code reads (`protocols`, `certificate`, `accepted_at_12`, the
fingerprint, HSTS, the forward secrecy bucket), `findings` the IDs. Each action takes `lost`,
whether the network makes its probe fail; the operators of `Probes` say what the probe concludes from
that. `cert::inspect` is several actions, because its first handshake can time out and its second
succeed; `LegacyVersions` is one, with any subset of its four hellos lost, because nothing happens in
between. Both `--no-cipher-enum` and the full scan are covered (`full`). What the model
leaves out of a scan are findings nothing reads: single header audits, HTTP/2, PQC, ECH, DNS, the
redirect, and cipher preference, which `Enumeration` has. `extensions::probe` is a stub in this version, so the findings on compression
and client-initiated renegotiation never fire, and the model has no action that pushes them.

An enumeration and the ROBOT probe are one action each in `Scan`, whose result is an element of
`Enumerated` or `RobotVerdicts` (`Probes`). `Enumeration` and `Robot` are those actions in detail, and
`AsScanAssumes` in each says that the detail ends where the one action says it may.

**Enumeration.** `pc` is the loop or hello that is next; `remaining`, `accepted` and `budget` are
the loop's locals. The list is kept as a set, because who reads it tests membership. Each handshake
is a connection of its own, so `Answers` takes any backend of the `pool` behind the name. A backend
picks by its own ranking or the client's; a `stubborn` one answers the same suite whatever it is
offered. `try_one` returns `None` for a refusal, a timeout and an error alike; `result` remembers which it
was, for the properties only. All three enumerations run one after the other on the state they run
on in `scan_one`; the probes between them do not touch it.

**Robot.** What a server makes of a padded premaster is its first `Malformation`, computed
from the bytes the code puts there (`ZeroBytes`): byte `i` of the padding is `0x42 ^ 3i (mod 256)`, which is
zero for `i = 22`, and again for `i = 278` in a key that long. `reacts` is any function from
malformations to reactions. A disturbed connection yields a class by itself: a failed
connect counts as a timeout, an end of file as a close, an unexpected record as alert 0. `clock` counts
the seconds spent waiting for reactions; the rest of a connection takes no time unless it is
disturbed, when it may `Hang` until the timer of the whole, `min(--timeout-seconds, 30)`, fires. RSA moduli
have at least 59 bytes, for which the layout fits.

**Server.** A server is a record of what makes probes answer differently. `Wellformed` says which
records are servers: suites exactly when there is a version for them, and TLS 1.2 suites only with
TLS 1.2. `Trusted` is webpki's verdict; `Handshakes` what rustls can negotiate.

**Cert.** Times are whole hours relative to the scan, `num_days` is chrono's, truncating toward
zero. A `flaw` is one test of `contribute_findings` on a single field, with its ID in `FindingOf`; the tests
that combine fields or findings (validity, transparency, revocation, intermediates, trust) are
operators of their own. `Trust` takes the findings pushed *before* it, as the code does: those on
intermediates come after.

**Executor.** The one task of `FuturesUnordered` polls the scans in the order they were woken
(`woken`); `runner` is the scan that keeps the thread, for `busy` more ticks. `Program` is a scan's operations in
order: a *probe* makes round trips, all under the one timer that `timeout()` gave the probe; a *fetch*
(`headers::fetch`, `server_fingerprint::fetch`) makes blocking requests, each with the limit to itself; the record
written at the end keeps the thread too. `Turn` is what a scan may keep
the thread for at one poll. A poll looks at the answer first and at the timer then, as
`tokio::time::timeout` does. `own` and `held` add up what a probe's server took and what the thread was taken for;
only `TimeoutHasCause` reads them. `Bulk` says what the loop writes and when it refills, `Executor` when its scans
run; `Refill` is in both.

**Session.** `pc` is the await each handler has reached. `queue` and `holding` are tokio's fair
`RwLock`: first come, first let in, readers together, a writer alone. `Disconnect` is hyper dropping the handler's
future, with its place in the queue or the lock. `since` records which scans had been answered when a request
arrived; only the properties read it. A failing scan yields a report too, so every target adds one.

**SelfUpdate.** `host` is one of the two Unix systems binaries are published for. `dir` maps the two names to inodes and
`file` says what an inode holds, so that a process, which executes an inode, keeps its own through a `rename`. `Check`
takes any of `Versions` for the answer: nothing orders them, because the code only asks whether the latest tag is the
run's own version, and a build of one's own or a withdrawn release may well be newer than what it is replaced by.
`Resolve` is `current_exe()` *after* the download: on Linux the image's present name, on macOS the name the run was
started by; and only on Linux is a file that is executed closed to writers, and one that is written closed to `execve`
(`ETXTBSY`). `raced` becomes true when a run renames while another is anywhere between `current_exe()` and its end, or, on
macOS, renames another binary than the one it was started from; the properties say nothing from then on (see
*Divergences*). `Kill` may follow any step; `MoveBack` is the operator who finds the binary gone. `mode` "refused" is a
file whose chmod failed, which the code ignores: such a copy counts as usable, for it is one `chmod` by hand away from it.

**Ssh, Preload, Headers, Posture.** Pure functions of what a peer advertises. A list cut off inside a
KEXINIT is empty and so is every one after it (`whole` of them arrive). Names of algorithms are strings,
and the tests on how they begin and end are the constants `StartsWith` and `EndsWith`, any two predicates in the proofs;
the run, as TLA+ cannot look into a string, gives them for the names its peers use. `scan_list` keeps the severities of the
hits, and `worst` is the greatest by `rank`: which hit comes first decides only on wording. A host is a sequence of
labels, and the lookup's `None` is the empty one, which no list has. A site is what its last redirect answers with.
`SshPeer` and `WebPeer` are all peers the theorems are about, `SshPeers` and `WebPeers` those a run starts from. `Posture` changes a peer one step at a time and audits it again, so that
"more never helps" is a property of steps.

**Grade.** The scores are percentages as in the code. The floating-point mean
`(0.30 p + 0.30 k + 0.40 c).round()` is `(3p + 3k + 4c + 5) \div 10`: the exact tenths, rounded half up.

## 3. Runs

| run | instance | what it shows |
|---|---|---|
| `bulk` | files of 0 to 5 entries, `--concurrency` 0 to 3 | conservation, the bound, no idle slot, implements `Batch`, by which every entry is reported |
| `scan` | 38 servers x {full, `--no-cipher-enum`}, up to 2 lost probes anywhere | `PassMeansTrusted`, `NoInventedBreach`, `CompleteScanTells`; implements `Assessment` |
| `cert_ageing` | some 300 certificates around every threshold, scanned every 12 or 24 h for 65 days | no pass out of validity, no refusal untold or told twice, no expiry without notice |
| `grade_audit` | 36 protocol sets x 9 keys x 2 buckets x HSTS, up to 2 of 9 findings | monotone, sound in every dimension |
| `enumeration` | 96 single servers, 2 stubborn ones, 4 pairs behind one name; 4 + 2 suites, budgets that just suffice, up to 2 losses | `BetweenSomeAndAll`, `FewHandshakes`, `PreferenceIsTrue`, `AsScanAssumes`; every enumeration ends |
| `robot` | servers with 1 or 2 reactions, keys with and without a zero in the padding, timeouts 10 and 15, up to 2 disturbed connections | `VulnerableHasCause`, `ClearedHasCause`, `TimersFit`, `AsScanAssumes`; every probe ends |
| `self_update` | 3 runs on Linux and on macOS, 2 versions that GitHub may name in any order, every step failing or the last | a usable copy always, nothing replaced but a run's own image, true messages, an executable again in the end |
| `session` | scans of 0, 1 and 2 targets, 2 clients that poll without end, each leaving at any await | implements `SessionLog`; `AnswerIsVisible`, `HistoryInOrder`; scans are answered, readers let in |
| `executor` | 3 scans, 2 in flight, probe - fetch - probe, answers in one tick or never, limit 2 | `NobodyForgotten`, `TimeoutHasCause`, `BoundedLateness`; all scans end |
| `posture` | 15 SSH peers extended to 2 names a list; sites with 16 policies, 8 HSTS headers x 5 hosts x 27 lists, all fates of three requests | more never helps; clean means that each list that arrived was reviewed; findings on TRACE and preload eligibility are true; the lookup is the nearest covering entry |
| `zero_rtt` `classic_oracle` | the instances of `scan` and `robot` | **violations**: a claim of the docs or comments and its counterexample |

*Bounds.* Five entries with three slots give every case of the loop: priming that exhausts the
file and that does not, a refill, a drain without refill, cap 1 by 0. Two losses in a scan give every
pair of probes that could cover for each other (the strict handshake and its fallback are two), and
the servers of `MCScan` vary one thing a probe looks at each, alone and with what it interacts
with. Everything else in `Scan` is bounded by the program. The theorems of section 4 lift the
most important properties to any number of targets, slots, servers and losses. In `cert_ageing`
every window of `cert.rs` (1, 30, 90, 180, 398 days) has certificates on both sides, and 65 days
carry them across 30. In `enumeration` a pool's pick
needs two suites to depend on order and three to lose one in the middle; the budgets equal the
menus, and `RealBudgets` checks that the program's own (32 for 29, 16 for 5) are no tighter. In
`robot` the timeouts are the two around the sum of the five waits, and two disturbed connections are
enough to hide a leak seen on one or two vectors and to invent one. `grade_audit` takes one or two values on each side of every threshold of
`grade.rs`. Three updates are one that is killed, one that is started from what it left, and one that overlaps either. Two
versions are enough because nothing orders them: one run is told of the second and is slow, another installs the second,
a third, told of the first, puts that back, and now the slow one's answer is out of date. Whichever of the two is the
newer, a run that took the present name of the binary for its own would replace the wrong one (the mutant of
`ReplacesItsOwn`). In `session` two readers are what a fair lock and an unfair one need to
differ: one of them can always hold it. In `executor` two scans in flight are what one can keep waiting, the third
what a refill starts; a fetch of three requests is longer than the limit, so the timer of the other scan goes off
unseen. In `posture` two names in a list give every order of a weak and a weaker one, and the preload lists
hold, or do not, the host, its `www` name and a name that covers something else.

*Fairness.* `Bulk`, `Scan`, `Enumeration` and `Robot` have weak fairness on the task's own steps: tokio polls a ready task
again, and every await of a probe is under `timeout`, the two blocking fetches under ureq's, so a
step always ends. In `Executor` it is the runtime's: time passes or somebody runs. `Session` has it
on each handler's next step, the lock included, which tokio's fair lock grants; nobody has to ask, and anybody may
leave. `SelfUpdate` has it on each run's steps (it goes on unless killed) and on the operator's moving `.old` back,
which is enabled only while no run is under way; its run stops when every update has ended, hence `CHECK_DEADLOCK FALSE`, and so does `executor`'s. Failing writes and losses carry no fairness. `CertAgeing`, `GradeAudit` and `Posture` state no
liveness; their runs stop at the last scan, finding or change, hence `CHECK_DEADLOCK FALSE`.

*Properties worth a word.*

* `PassMeansTrusted`: `inspect` reconnects without verification when the strict handshake fails,
  for whatever reason. However the two are lost, no chain that webpki refuses passes.
* `NoInventedBreach`: a breach in the findings is one the server has. Two IDs are excepted,
  `TLS-ROBOT-VULNERABLE` and `TLS-OPENSSL-PADDING-ORACLE`: the code also uses them for mere eligibility.
* `CompleteScanTells`: the converse for complete scans - every breach a probe could have seen is in the findings, and
  what passes has none and showed its certificate. `Detectable` says what could be seen: the server answers the probe's
  hello at all, with an RSA key where the probe encrypts to one; and a staple with a status hides the responder's, even
  if the staple says "unknown" and the responder "revoked" (`mod.rs:224`).
* `ExpiredNeverPasses`: for the first 24 hours after `not_after` the certificate's own findings say
  "near expiry"; it is only the trust override of the grade that keeps such a target from passing.
* `RefusalExplained`: a store's refusal is silenced only by a finding that says why. `cert.rs:542` asks what has been
  pushed *so far*, so the order of the checks matters; the expired intermediate, pushed later, is its exception.
* `Expiry`: with a scan a day, nothing is reported expired that was not announced before.
* `BetweenSomeAndAll`: the order in which backends are met decides what the list has between the
  two bounds, which is why forward secrecy, judged on a second list, can differ from the first.
* `FewHandshakes`: the header comment's O(N), and the budget for servers that ignore the offer.
* `ClearedHasCause`: losses hide a leak only by falling on every vector that shows it. This is
  sharper than "no loss": two disturbed connections cannot clear a server that singles out three vectors.
* `TimersFit`: why 15 and 30 seconds are safe defaults and 10 is not: five waits of two seconds.
* `NobodyForgotten`: the safety half of `ScansEnd`. Every scan under way is queued, has the thread, or has a timer ahead of
  it, and no target waits while there is a slot.
* `BoundedLateness`: each other scan in flight can keep the thread for one turn, a row of fetches and a record; the
  `--timeout-seconds` of a probe is not exceeded by more, however the wake-ups fall.
* `TimeoutHasCause`: a probe that gives up while its answer is outstanding has used up its limit, by what its server
  takes and what other scans held the thread for. That the second is possible is the price of the blocking fetches.
* `ImplementsLog`: `extend`, the response and the drop of the guard have no await between them. That is all
  that keeps a scan whose client leaves from being half in the history.
* `ReplacesItsOwn`: a run compares versions before the download and asks for its path after, so its answer may be older
  than what another run has installed meanwhile. That it replaces nothing but its own image rests, on Linux, on
  `current_exe()` following the inode: its own name by then is `.old` or gone, and the run fails. It does replace its own
  image by an older release, if that is what GitHub names.
* `OfferingMoreNeverHelps`: for the SSH rules, whose first match decides on a name and whose worst name on a list. Its
  exception is the strict key exchange, which *is* an algorithm name, and the remedy for Terrapin.
* `CleanIsReviewed`: nothing is against any list that arrived. It says nothing of those that did not, for the code
  asks only whether the key exchanges are empty.
* `AllowingMoreNeverHelps`: `unsafe-inline` in `script-src-elem` alone is judged as one of scripts
  until a style directive has it too; `Guessed` is that case, and the only one.
* `MoreFindingsNeverHelp`: score, letter and `passed` never improve when a finding is added.

*Divergences.* Two runs show a claim and its counterexample: 0-RTT is never reported
(`contribute_findings` runs before the probe, `mod.rs:210`), and no ROBOT vector is padded correctly, the control
included (`vuln_robot.rs:362`). The models follow the code in others, which no run is spent on.

* *Headline.* IDs used for mere eligibility (`mod.rs:675`) are listed as active breaches (`summary.rs:43`). No
  enumerated server can get A+: `grade.rs:260` asks for a bucket called `modern`, which does not exist. SSLv3 does not
  cap at F (`grade.rs:89`). An expired intermediate does not silence the per-store findings: `cert.rs:542` looks for
  what `cert.rs:591` pushes. A strict handshake that is lost gives grade T, which `summary.rs:112` words as a chain
  that fails validation.
* *Probes.* An old version that a server speaks with NULL suites alone is not seen, though `legacy_proto.rs` calls its
  detection independent of cipher strength: its hello does not offer them. A Heartbleed record that is shorter than it says and gets no answer; the TLS 1.2 feature hello whose
  heartbeat extension does not parse; silence after an early ChangeCipherSpec read as refusal (`Probes`); TLS 1.2
  recorded for a server that answers with 1.0; TLS 1.3 missed when the chain is not trusted (`Scan`); 3DES and two DHE
  suites missing from the CBC list, GCM names taken for CBC (`Suites`).
* *Budget.* The "per-target wall-clock budget" of `cli.rs:114` is the budget of every probe, and of every blocking
  request, anew.
* *Updates.* Two that overlap can lose the binary: the second renames the first's unfinished file over `.old`, or removes
  the `.old` the first would go back to. Nothing locks the two names (`self_update.rs:94`). On macOS the name may have come
  to stand for another binary since the run was started from it, and the run renames that one: an older release then takes
  the place of a newer one, or a file that is not whole that of the good `.old`; and `cy-tls.old update` writes over itself
  and is removed. "New version available" (`self_update.rs:52`) is said of any other version, an older one too. A failing
  chmod is ignored and the backup removed all the same (`self_update.rs:109`).
* *Session.* `gui.rs:33` calls the history "newest last"; reports are appended when a scan ends, so a long scan asked
  for first comes after a short one asked for later.
* *Headers.* A GET that fails or answers 4xx or 5xx leaves the record of a site that sends no headers, and the findings
  on missing ones are claimed all the same (`headers.rs:489`). `contribute_findings` returns early without HSTS, before
  it looks at pins and compression (`headers.rs:403`). The fetch asks port 443 whatever the target's port. A first
  OPTIONS that is lost is not made up for by a second that succeeds.
* *Preload.* `verify-preload` strips `www.` and so misses the 43 entries that are www names themselves. The embedded
  list has no entry for a top-level domain, and the walk stops before one (`preload.rs:96`).
* *SSH.* The lists from server to client are not looked at; lists that did not arrive count as empty, so a packet cut
  after its first list may give `SSH-ALGOS-OK` with ciphers and MACs unread (`ssh_algos.rs:284`); a server of
  version 1 that closes after its banner is an error, and `SSH-PROTO-V1` is not reported.

## 4. Proofs

All theorems are checked by TLAPS, from the named assumptions on constants (`BulkAssumption`,
`ScanAssumption`, `AuditAssumption`, `AgeingAssumption`, `EnumerationAssumption`, `RobotAssumption`, `SessionAssumption`,
`SelfUpdateAssumption`, `ExecutorAssumption`, `PostureAssumption`), which TLC evaluates on the instances. Every invariant
and every action property of the passing runs is a theorem. The type
invariants are proved (`TypeCorrect`, `ExecutorTypeCorrect`), so no run repeats them.

* **BulkProofs.** `Spec => []TypeOK`, `[]Conservation`, `[]InFlightBound`, `[]SlotsUsed`, for every
  number of targets and slots. The inductive invariant `IInv` adds to them that cap slots are taken
  while targets wait (`Slots`), that nothing has begun in phase "start" (`Fresh`), that a failed run has
  dropped its scans (`Dropped`), and that the record being written is a target (`Underway`). `InFlightBound`
  counts a set, so the steps rest on the library's facts about cardinality. `Implementation` shows that
  initial states map to those of `Batch` and each step to a step of it or a stutter; `Complete` needs the
  invariant, to know that nothing is left when the loop ends.
  The second half is about `Executor`. `Turn` is a recursive function, so that there is one, and that it is a natural
  number everywhere, takes an induction. The library's induction theorems are out of reach of the provers here;
  `Induction` gets by without them, over a set instead of a predicate, from the least element that `WFMin` gives. The
  invariant `EInv` says where every scan is (`Places`: not started, queued once, waiting in a probe or keeping the
  thread, and at most `Cap` going), that nobody who can go on is forgotten (`Alert`), what a probe's time was spent on
  (`Accounted`), and `Punctual`, from which the bound comes: a scan whose timer has gone off is late by at most the rest
  of the current turn and one turn for each scan *queued before it*. `BoundedLateness` alone is not inductive, because it
  does not know the queue. That a queue is never longer than `Cap` is a count of sequences without repetitions
  (`QueueLength`). `TimeoutsAreExplained` follows from `Accounted`. `NoScanForgotten` has two invariants more, on top of
  `EInv`: where a scan under way is (`Attended`), and that the slots are filled while targets wait (`Filled`).
* **AuditProofs**, with the arithmetic in `GradeLemmas`. `SoundThroughout`: a passing letter needs a
  composite of 90, and with weights 30, 30 and 40 no two dimensions can carry the third below its
  threshold. `Monotonicity`: each score and each override is antitone in the set of findings; the
  case that needs care is T, which an explained distrust turns into F. The second part of the module is about
  `CertAgeing` (the variables and specifications of the three have names of their own, so that one module can extend
  them), for all certificates of `CertRecord`: `ExpiredIsRefused`, `RefusalHasReason` (each refusing store told, and not twice) and
  `ExpiryIsAnnounced`, from the invariant that the findings are those of the certificate at its age (`AgeInv`).
  `ExpiryIsAnnounced` is proved for scans at most 720 hours apart, where the run has 12 and 24: a leaf is near
  expiry for 743 hours, so thirty days between two scans cannot step over it. That bound on the gaps is an
  assumption of the theorem. The third part is about `Posture`, whose invariant `PInv` says that peers stay peers and that
  the audits are of the peers as they are. `CleanIsEarned` goes from the findings back to the lists that arrived, tables,
  CBC and Terrapin, for lists of any length and any names, cut anywhere; of a list that was cut off it says nothing. `OfferMonotonic` needs that a longer list has no fewer severities
  (`ScanList`) and that the worst of more is no less (`WeakListGrows`). `PreloadAlwaysAnswers` is about the walk over the
  suffixes of a host: the library says what `Tail` does to a sequence, `FromLabel` what a suffix of a suffix is, and the
  entry found is the least place at which one covers. It needs that no entry is a top-level domain, which the walk does not
  try (`preload.rs:96`). `PolicyMonotonic` compares two policies directive by directive (`Wider`).
* **ScanProofs.** `TypeCorrect`, `PassTrusted`, `NothingInvented` for every set of well-formed
  servers and any number of losses. `PassMeansTrusted` and `NoInventedBreach` are not inductive: whether
  the report may pass depends on the recorded certificate, and whether a certificate finding is
  true depends on how the record came about. `IInv` adds that the recorded certificate is
  the server's own but for how it was inspected (`Genuine`: a verified one is trusted, its OCSP status
  is one the responder or the staple gave), and that SSLv2 and SSLv3 are only recorded where they are
  spoken. `Implementation` is the safety part of `ImplementsAssessment`. `CompleteTells` has an invariant on top,
  `Thorough`: by where `pc` stands, what each probe that is past has told (`ToldSoFar`), for scans that lost none so far.
  A step keeps what others have told because findings are only added (`StaysTold`). The record of the certificate is
  replaced before anything is drawn from it, and `Inspecting` says what status it has at each step. At the end `passed`
  asks for no breach among the findings, and what was told are breaches.

* **EnumerationProofs.** For menus and rankings of any size, any pool of backends and any number of
  losses. `IInv` adds what a loop under way keeps (`LoopInv`): what is not offered any more was accepted, one
  handshake each, so the budget spent *is* the number of suites found. From it follow the bound on
  handshakes and, when the budget runs out, that the menu has too. `PicksInv` says an answer to a hello is some
  backend's pick; that two picks of one server tell its order is a fact about injective rankings.
* **RobotProofs.** For any servers, key sizes and timeouts. `IInv` adds that each class is one the
  server shows or its connection was disturbed (`Observed`), what each verdict was drawn from (`Grounds`), and
  that an undisturbed probe has waited two seconds a vector at most (`Waited`). `VulnerableSound` and `ClearedSound` follow from what a list of five classes can look like.
* **SessionProofs.** For any requests, targets and readers. `IInv` adds that those in the queue wait for the lock, each in
  one place (`QueueWaits`), that a request's reports are in the history once it is past the lock and not before
  (`PostedByPc`), that an answer is for good (`SinceAnswered`), and that a reader is shown nothing before it has had the
  lock (`Silent`). `ImplementsTheLog` is the whole refinement, as `SessionLog` states no fairness.
* **SelfUpdateProofs.** For any number of runs and versions, on either system. The invariant describes the directory at
  every point of the one swap under way: `SwapHolds` has a line for each step (from the renaming on `.old` is the image;
  past the opening the name holds the run's own file; past the writing it is whole, of the version downloaded),
  `OneAtATime` says that there is only one, for as long as `raced` is false. That the name is free when a run opens it
  needs `PathHolds` on Linux, on runs that hold a path and have not renamed yet, what `raced` excludes on macOS, and
  `Unborn`, that nobody else has the inode a run is about to create. `ReplacedByStep` goes through the steps that take a
  copy away: the renaming puts the image where the backup was, the removal comes when the download is in place.
  `TheImageIsKept` (a run whose writing fails leaves its image under its name or as `.old`) comes from the same invariant.
* `ScanEnumerates` and `ScanStepCovers` are the links to `Scan`: its single steps for an enumeration and for ROBOT
  over-approximate the detailed ones, so what is proved of `Scan` holds with either in its place.

Model-checked only: liveness (`EnumerationsEnd`, `ProbeEnds`, `NobodyStarves`, `ExecutableAgain`, `ScansEnd`, and that
every batch ends and every scan concludes), since fairness and ENABLED are out of the prover's reach; and the two
violations, which are counterexamples. What `Suites` and `Server` say of a code point or of a table is proved by expanding
the table, never by induction over it.

Attempts to prove changed three models. `classify_csp_unsafe_inline` was a CASE with overlapping guards, of which TLA+ may
choose any: it is an IF in the order of the code now. `worst` and `scan_list` went over the hits as a list, where only the
set of their severities matters. And what a complete scan tells was stated of passing targets only; the proof needs, and
gives, that all of `Detectable` is told.

## 5. Not modelled

* Emitters, command line, the tables of texts, DER and HTTP parsing, cryptography, hardware detection, the license file:
  formatting, parsing and single file operations.
* HTTP/2 and redirect probes, PQC, ECH, session, CAA and SOA: one exchange each, whose verdict goes into the report and
  is read by nothing.
* Handshake simulation: thirty independent handshakes from a table, read by nothing.
* `mcp.rs`: reads a line, answers it, reads the next; it keeps nothing between two lines.
* In modelled parts: keys of fewer than 59 bytes (`Robot`), `update` on Windows or through links to the binary, downloads cut short without an
  announced length, and the state a panic leaves behind.

The order of work was by weight: `Bulk` with `Batch`; `Catalog`, `Suites`, `Grade`; `Cert`, `Server`, `Probes`, `Scan`
with `Assessment`; `CertAgeing`; `GradeAudit`; `Robot`; `Enumeration`; `Executor`; `SelfUpdate`; `Session` with
`SessionLog`; `Ssh`, `Preload`, `Headers`, `Posture`; the proofs of each. What remains worth doing: that
`Executor`, which knows when scans run, implements `Batch` as `Bulk` does, which knows what is written; and a model of the
record that a failed GET leaves.
