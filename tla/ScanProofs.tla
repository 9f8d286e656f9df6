----------------------------- MODULE ScanProofs -----------------------------
(***************************************************************************)
(* The scan, for every set of servers and every number of lost probes: its *)
(* types, that what passes has a trusted chain, that no lost probe invents *)
(* a breach, that a complete scan tells every breach it could see, and that*)
(* every step is one the report promises.                                  *)
(***************************************************************************)
EXTENDS Scan, GradeLemmas, FiniteSetTheorems

ProtoRecord == [
  ssl2: BOOLEAN, ssl3: BOOLEAN, tls10: BOOLEAN, tls11: BOOLEAN,
  tls12: BOOLEAN, tls13: BOOLEAN, zero_rtt: BOOLEAN,
  suites: SUBSET (TLS12_SUITES \union TLS13_SUITES)]

SeenRecord == [
  proto: ProtoRecord,
  cert: CertRecord \union {NoCert},
  accepted: SUBSET TLS12_SUITES,
  banner: SUBSET Banners,
  hsts: BOOLEAN,
  fs: {"uncomputed", "none", "some-clients", "modern-clients", "robust"}]

(* The IDs are no breach the server does not have.                         *)
Sound(ids) == (ids \intersect BreachIndicators) \ Eligibility \subseteq Exposed(server)

(* What a recorded certificate has in common with the real one: all but how*)
(* it was inspected, and a verified one is trusted.                        *)
Statuses(s) == {"none", s.cert.ocspStatus} \union ({s.staple} \ {"absent", "unreadable"})
Genuine(c, s) ==
  \/ c = NoCert
  \/ /\ \E t \in BOOLEAN, st \in BOOLEAN, o \in Statuses(s) :
          c = [Observed(s.cert) EXCEPT
                 !.mozillaTrusted = t, !.stapled = st, !.ocspStatus = o]
     /\ c.mozillaTrusted => Trusted(s.cert)

(* The inductive invariant.                                                *)
IInv ==
  /\ TypeOK
  /\ Genuine(seen.cert, server)
  /\ \A v \in {"ssl2", "ssl3"} : seen.proto[v] => v \in server.versions
  /\ PassMeansTrusted
  /\ Sound(findings)

(* What every step has in common.                                          *)
Frame ==
  /\ server' = server /\ full' = full
  /\ pc' \in Steps /\ faults' \in 0..MaxFaults

(* A probe moves pc and counts its loss; the target stays the same.        *)
LEMMA ProbeFrames ==
  ASSUME NEW from, NEW to \in Steps, NEW lost, TypeOK, Probe(from, to, lost)
  PROVE  Frame
<1>1. faults \in 0..MaxFaults /\ MaxFaults \in Nat
  BY ScanAssumption DEF TypeOK
<1> QED BY <1>1 DEF Probe, Frame

-----------------------------------------------------------------------------
(* What servers really expose covers the findings of the probes.           *)
LEMMA VersionsExposed ==
  ASSUME NEW s
  PROVE  /\ "ssl2" \in s.versions => {"TLS-SSLV2", "TLS-DROWN-VULNERABLE"} \subseteq Exposed(s)
         /\ "ssl3" \in s.versions => {"TLS-SSLV3"} \subseteq Exposed(s)
  BY DEF Exposed, OldVersions, When

(* The flaws an active probe confirms are exposed under their IDs.         *)
LEMMA FlawsExposed ==
  ASSUME NEW s
  PROVE  /\ "ccs" \in s.flaws => {"TLS-CCS-INJECTION"} \subseteq Exposed(s)
         /\ "ticketbleed" \in s.flaws => {"TLS-TICKETBLEED"} \subseteq Exposed(s)
         /\ "goldendoodle" \in s.flaws => {"TLS-GOLDENDOODLE-ACTIVE"} \subseteq Exposed(s)
  BY DEF Exposed, When

(* So are the weak suites among any the server accepts.                    *)
LEMMA SuitesExposed ==
  ASSUME NEW s, NEW e, e \subseteq s.suites
  PROVE  WeakFindings(e) \subseteq Exposed(s)
<1>1. WeakFindings(e) \subseteq WeakFindings(s.suites)
  BY DEF WeakFindings
<1> QED BY <1>1 DEF Exposed

(* A server's certificate, and what can be recorded of it.                 *)
LEMMA ServerCert ==
  ASSUME NEW s \in Servers
  PROVE  s \in ServerRecord /\ s.cert \in CertRecord /\ Observed(s.cert) \in CertRecord
<1>1. s \in ServerRecord
  BY ScanAssumption
<1>2. s.cert \in CertRecord
  BY <1>1 DEF ServerRecord
<1> DEFINE c == s.cert
           t == Trusted(c)
<1>3. t \in BOOLEAN
  BY DEF Trusted
<1>4. [c EXCEPT !.mozillaTrusted = t, !.flaws = c.flaws \ {"unanchored"}] \in CertRecord
  <2> HIDE DEF c, t
  <2> QED BY <1>2, <1>3 DEF CertRecord, c
<1> QED BY <1>1, <1>2, <1>4 DEF Observed

(* The certificate findings that matter do not depend on how the           *)
(* certificate was inspected, revocation apart.                            *)
LEMMA CertExposed ==
  ASSUME NEW s \in Servers, NEW c, Genuine(c, s), c # NoCert
  PROVE  CertFindings(c) \intersect BreachIndicators \subseteq Exposed(s)
<1> DEFINE o == Observed(s.cert)
<1>1. PICK t \in BOOLEAN, st \in BOOLEAN, os \in Statuses(s) :
        c = [o EXCEPT !.mozillaTrusted = t, !.stapled = st, !.ocspStatus = os]
  BY DEF Genuine
<1>2. o \in CertRecord
  BY ServerCert
<1>3. /\ c.notAfter = o.notAfter /\ c.notBefore = o.notBefore
      /\ c.intermediates = o.intermediates /\ c.flaws = o.flaws
      /\ c.keyAlg = o.keyAlg /\ c.keyBits = o.keyBits
      /\ c.ocspStatus = os
  <2> HIDE DEF o
  <2> QED BY <1>1, <1>2 DEF CertRecord
<1>4. Validity(c) = Validity(o) /\ Intermediates(c) = Intermediates(o)
  <2> HIDE DEF o
  <2> QED BY <1>3 DEF Validity, Lifetime, Intermediates
<1>5. Leaf(c) \intersect BreachIndicators \subseteq Leaf(o)
  <2> HIDE DEF o
  <2>1. Excused(o) \ {"must_staple"} \subseteq Excused(c)
    BY <1>3 DEF Excused
  <2>2. FindingOf["must_staple"] \notin BreachIndicators
    BY DEF FindingOf, BreachIndicators
  <2>3. WeakKey(c) <=> WeakKey(o)
    BY <1>3 DEF WeakKey
  <2>4. {FindingOf[f] : f \in c.flaws \ Excused(c)} \intersect BreachIndicators
          \subseteq {FindingOf[f] : f \in o.flaws \ Excused(o)}
    BY <1>3, <2>1, <2>2
  <2> QED BY <2>3, <2>4 DEF Leaf, BreachIndicators
<1>6. /\ (Transparency(c) \union Trust(c, BeforeTrust(c))) \intersect BreachIndicators = {}
  <2>1. Transparency(c) \intersect BreachIndicators = {}
    BY DEF Transparency, BreachIndicators
  <2>2. c.rejectedBy \subseteq {"apple", "android", "java"}
    <3> HIDE DEF o
    <3> QED BY <1>1, <1>2 DEF CertRecord
  <2>3. {NotTrusted[x] : x \in c.rejectedBy} \intersect BreachIndicators = {}
    BY <2>2 DEF NotTrusted, BreachIndicators
  <2>4. Trust(c, BeforeTrust(c)) \subseteq
          {"TLS-CHAIN-NOT-TRUSTED-MOZILLA"} \union {NotTrusted[x] : x \in c.rejectedBy}
    BY DEF Trust
  <2> QED BY <2>1, <2>3, <2>4 DEF BreachIndicators
<1>7. Revocation(c) \intersect BreachIndicators \subseteq Exposed(s)
  <2>1. CASE os = "revoked"
    BY <1>1, <2>1 DEF Exposed, When, Statuses, Revocation, BreachIndicators
  <2>2. CASE os # "revoked"
    BY <1>3, <2>2 DEF Revocation, BreachIndicators
  <2> QED BY <2>1, <2>2
<1>8. CertFindings(o) \ {"TLS-OCSP-REVOKED"} \subseteq Exposed(s)
  BY DEF Exposed
<1>9. Validity(o) \union Leaf(o) \union Intermediates(o) \subseteq CertFindings(o)
  BY DEF CertFindings, BeforeTrust
<1>10. "TLS-OCSP-REVOKED" \notin Validity(o) \union Leaf(o) \union Intermediates(o)
  <2> HIDE DEF o
  <2>1. "TLS-OCSP-REVOKED" \notin Validity(o) \union Intermediates(o)
    BY DEF Validity, Intermediates
  <2>2. o.flaws \subseteq Flaws
    BY ScanAssumption DEF o, Observed, ServerRecord, CertRecord
  <2>3. \A f \in Flaws : FindingOf[f] # "TLS-OCSP-REVOKED"
    BY DEF FindingOf, Flaws
  <2> QED BY <2>1, <2>2, <2>3 DEF Leaf
<1> HIDE DEF o
<1> QED BY <1>4, <1>5, <1>6, <1>7, <1>8, <1>9, <1>10 DEF CertFindings, BeforeTrust

-----------------------------------------------------------------------------
(* A step that only records preserves the invariant if what it records is  *)
(* genuine and what it pushes is sound.                                    *)
LEMMA Records ==
  ASSUME IInv, Frame, report' = report,
         seen' \in SeenRecord,
         Genuine(seen'.cert, server),
         \A v \in {"ssl2", "ssl3"} : seen'.proto[v] => v \in server.versions,
         Sound(findings' \ findings)
  PROVE  IInv'
<1>1. TypeOK'
  BY DEF IInv, TypeOK, Frame, SeenRecord, ProtoRecord
<1>2. Genuine(seen.cert, server)'
  BY DEF Frame
<1>3. (\A v \in {"ssl2", "ssl3"} : seen.proto[v] => v \in server.versions)'
  BY DEF Frame
<1>4. PassMeansTrusted'
  BY DEF IInv, PassMeansTrusted, Frame
<1>5. Sound(findings)'
  BY DEF IInv, Sound, Frame
<1> QED BY <1>1, <1>2, <1>3, <1>4, <1>5 DEF IInv

(* A step that only adds sound findings preserves the invariant.           *)
LEMMA Pushes ==
  ASSUME IInv, Frame, UNCHANGED <<seen, report>>, Sound(findings' \ findings)
  PROVE  IInv'
<1>1. /\ seen' \in SeenRecord
      /\ Genuine(seen'.cert, server)
      /\ \A v \in {"ssl2", "ssl3"} : seen'.proto[v] => v \in server.versions
  BY DEF IInv, TypeOK, SeenRecord, ProtoRecord
<1> QED BY <1>1, Records

(* Recording something that is neither a certificate nor an old version.   *)
LEMMA RecordsElse ==
  ASSUME IInv, Frame, report' = report,
         seen' \in SeenRecord, seen'.cert = seen.cert,
         \A v \in {"ssl2", "ssl3"} : seen'.proto[v] = seen.proto[v],
         Sound(findings' \ findings)
  PROVE  IInv'
<1>1. /\ Genuine(seen'.cert, server)
      /\ \A v \in {"ssl2", "ssl3"} : seen'.proto[v] => v \in server.versions
  BY DEF IInv
<1> QED BY <1>1, Records

(* No finding outside the breach indicators can be unsound.                *)
LEMMA Harmless ==
  ASSUME NEW ids, ids \intersect BreachIndicators \subseteq Eligibility
  PROVE  Sound(ids)
  BY DEF Sound

(* The first states satisfy the invariant.                                 *)
LEMMA InitIInv == Init => IInv
<1> SUFFICES ASSUME Init PROVE IInv
  OBVIOUS
<1>1. seen \in SeenRecord /\ seen.cert = NoCert
  BY DEF Init, Unscanned, NothingSeen, SeenRecord, ProtoRecord
<1>2. TypeOK
  BY <1>1, ScanAssumption DEF Init, TypeOK, SeenRecord, ProtoRecord, Steps
<1>3. Genuine(seen.cert, server)
  BY <1>1 DEF Genuine
<1>4. \A v \in {"ssl2", "ssl3"} : ~seen.proto[v]
  BY DEF Init, Unscanned, NothingSeen
<1>5. PassMeansTrusted /\ Sound(findings)
  BY DEF Init, NoReport, PassMeansTrusted, Sound
<1> QED BY <1>2, <1>3, <1>4, <1>5 DEF IInv

-----------------------------------------------------------------------------
(* The probes that leave `seen` alone.                                     *)
LEMMA PushingSteps ==
  ASSUME IInv, NEW lost,
         \/ Connect(lost) \/ Robot(lost) \/ DhAndCbc(lost) \/ TlsFeatures(lost)
         \/ Heartbleed(lost) \/ Ccs(lost) \/ Ticketbleed(lost)
         \/ PaddingOracle(lost) \/ Goldendoodle(lost) \/ Grease(lost)
         \/ FallbackScsv(lost) \/ InspectConnectFails \/ JudgeBanner
  PROVE  IInv'
<1> USE DEF Steps
<1>0. TypeOK
  BY DEF IInv
<1>1. CASE Connect(lost)
  <2>1. Frame /\ UNCHANGED <<seen, report>>
    BY <1>0, <1>1, ProbeFrames DEF Connect
  <2>2. findings' \ findings \subseteq {"TLS-UNREACHABLE"}
    BY <1>1 DEF Connect, Push, When
  <2> QED BY <2>1, <2>2, Pushes, Harmless DEF BreachIndicators
<1>2. CASE Robot(lost)
  <2>1. Frame /\ UNCHANGED <<seen, report>>
    BY <1>0, <1>2, ProbeFrames DEF Robot
  <2>2. findings' \ findings \subseteq {"TLS-ROBOT-VULNERABLE"}
    BY <1>2 DEF Robot, Push, When
  <2> QED BY <2>1, <2>2, Pushes, Harmless DEF Eligibility
<1>3. CASE DhAndCbc(lost)
  <2>1. Frame /\ UNCHANGED <<seen, report>>
    BY <1>0, <1>3, ProbeFrames DEF DhAndCbc
  <2>2. findings' \ findings \subseteq
          {"TLS-DH-WEAK", "TLS-DH-COMMON-PRIME", "TLS-CBC-MAC-THEN-ENCRYPT"}
    BY <1>3 DEF DhAndCbc, Push, When, DhFindings
  <2> QED BY <2>1, <2>2, Pushes, Harmless DEF BreachIndicators
<1>4. CASE TlsFeatures(lost)
  <2>1. Frame /\ UNCHANGED <<seen, report>>
    BY <1>0, <1>4, ProbeFrames DEF TlsFeatures
  <2>2. findings' \ findings \subseteq
          {"TLS-HEARTBEAT-ENABLED", "TLS-INSECURE-RENEG-LEGACY",
           "TLS-NO-EXTENDED-MASTER-SECRET"}
    BY <1>4 DEF TlsFeatures, Push, When
  <2> QED BY <2>1, <2>2, Pushes, Harmless DEF BreachIndicators
<1>5. CASE Heartbleed(lost)
  <2>1. Frame /\ UNCHANGED <<seen, report>>
    BY <1>0, <1>5, ProbeFrames DEF Heartbleed
  <2>2. findings' \ findings = {}
    BY <1>5 DEF Heartbleed, Push, When, HeartbleedVerdict
  <2> QED BY <2>1, <2>2, Pushes, Harmless
<1>6. CASE Ccs(lost)
  <2>1. Frame /\ UNCHANGED <<seen, report>>
    BY <1>0, <1>6, ProbeFrames DEF Ccs
  <2>2. findings' \ findings \subseteq
          IF "ccs" \in server.flaws THEN {"TLS-CCS-INJECTION"} ELSE {}
    BY <1>6 DEF Ccs, Push, When, CcsVerdicts
  <2>3. Sound(findings' \ findings)
    BY <2>2, FlawsExposed DEF Sound
  <2> QED BY <2>1, <2>3, Pushes
<1>7. CASE Ticketbleed(lost)
  <2>1. Frame /\ UNCHANGED <<seen, report>>
    BY <1>0, <1>7, ProbeFrames DEF Ticketbleed
  <2>2. findings' \ findings \subseteq
          IF "ticketbleed" \in server.flaws THEN {"TLS-TICKETBLEED"} ELSE {}
    BY <1>7 DEF Ticketbleed, Push, When, TicketbleedVerdict
  <2>3. Sound(findings' \ findings)
    BY <2>2, FlawsExposed DEF Sound
  <2> QED BY <2>1, <2>3, Pushes
<1>8. CASE PaddingOracle(lost)
  <2>1. Frame /\ UNCHANGED <<seen, report>>
    BY <1>0, <1>8, ProbeFrames DEF PaddingOracle
  <2>2. findings' \ findings \subseteq {"TLS-OPENSSL-PADDING-ORACLE"}
    BY <1>8 DEF PaddingOracle, Push, When
  <2> QED BY <2>1, <2>2, Pushes, Harmless DEF Eligibility
<1>9. CASE Goldendoodle(lost)
  <2>1. Frame /\ UNCHANGED <<seen, report>>
    BY <1>0, <1>9, ProbeFrames DEF Goldendoodle
  <2>2. findings' \ findings \subseteq
          IF "goldendoodle" \in server.flaws THEN {"TLS-GOLDENDOODLE-ACTIVE"} ELSE {}
    BY <1>9 DEF Goldendoodle, Push, When, GoldendoodleVerdict
  <2>3. Sound(findings' \ findings)
    BY <2>2, FlawsExposed DEF Sound
  <2> QED BY <2>1, <2>3, Pushes
<1>10. CASE Grease(lost)
  <2>1. Frame /\ UNCHANGED <<seen, report>>
    BY <1>0, <1>10, ProbeFrames DEF Grease
  <2>2. findings' \ findings \subseteq {"TLS-GREASE-INTOLERANT"}
    BY <1>10 DEF Grease, Push, When
  <2> QED BY <2>1, <2>2, Pushes, Harmless DEF BreachIndicators
<1>11. CASE FallbackScsv(lost)
  <2>1. Frame /\ UNCHANGED <<seen, report>>
    BY <1>0, <1>11, ProbeFrames DEF FallbackScsv
  <2>2. findings' \ findings \subseteq {"TLS-NO-FALLBACK-SCSV"}
    BY <1>11 DEF FallbackScsv, Push, When
  <2> QED BY <2>1, <2>2, Pushes, Harmless DEF BreachIndicators
<1>12. CASE InspectConnectFails
  <2>1. Frame /\ UNCHANGED <<seen, report>> /\ findings' \ findings = {}
    BY <1>0, <1>12, ProbeFrames DEF InspectConnectFails
  <2> QED BY <2>1, Pushes, Harmless
<1>13. CASE JudgeBanner
  <2>1. Frame /\ UNCHANGED <<seen, report>>
    BY <1>0, <1>13, ProbeFrames DEF JudgeBanner
  <2>2. findings' \ findings \subseteq {"TLS-LUCKY13-LIKELY", "TLS-CBC-ORACLE-FAMILY-FP"}
    BY <1>13 DEF JudgeBanner, Push, When
  <2> QED BY <2>1, <2>2, Pushes, Harmless DEF BreachIndicators
<1> QED
  BY <1>1, <1>2, <1>3, <1>4, <1>5, <1>6, <1>7, <1>8, <1>9, <1>10, <1>11, <1>12, <1>13

-----------------------------------------------------------------------------
(* The probes that record protocols, suites and what the headers say.      *)
LEMMA RecordingSteps ==
  ASSUME IInv, NEW lost,
         \/ Handshake(lost) \/ EnumerateTls13(lost) \/ EnumerateTls12(lost)
         \/ Headers(lost) \/ Fingerprint(lost) \/ ForwardSecrecy(lost)
  PROVE  IInv'
<1> USE DEF Steps
<1>0. TypeOK /\ seen \in SeenRecord /\ server \in ServerRecord
  BY ServerCert DEF IInv, TypeOK, SeenRecord, ProtoRecord
<1>1. CASE Handshake(lost)
  <2>1. Frame /\ report' = report /\ findings' \ findings = {}
    BY <1>0, <1>1, ProbeFrames DEF Handshake
  <2>2. CASE UNCHANGED seen
    BY <2>1, <2>2, Pushes, Harmless
  <2>3. CASE \E h \in StrictHandshakes(server) :
          seen' = [seen EXCEPT !.proto[h[1]] = TRUE, !.proto.suites = {h[2]}]
    <3>1. PICK h \in StrictHandshakes(server) :
            seen' = [seen EXCEPT !.proto[h[1]] = TRUE, !.proto.suites = {h[2]}]
      BY <2>3
    <3>2. h[1] \in {"tls12", "tls13"} /\ h[2] \in TLS12_SUITES \union TLS13_SUITES
      BY <1>0 DEF StrictHandshakes, Handshakes, ServerRecord
    <3>3. seen' \in SeenRecord
      BY <1>0, <3>1, <3>2 DEF SeenRecord, ProtoRecord
    <3>4. /\ seen'.cert = seen.cert
          /\ \A v \in {"ssl2", "ssl3"} : seen'.proto[v] = seen.proto[v]
      BY <1>0, <3>1, <3>2 DEF SeenRecord, ProtoRecord
    <3> QED BY <2>1, <3>3, <3>4, RecordsElse, Harmless
  <2> QED BY <1>1, <2>2, <2>3 DEF Handshake
<1>2. CASE EnumerateTls13(lost)
  <2>1. Frame /\ report' = report /\ findings' \ findings = {}
    BY <1>0, <1>2, ProbeFrames DEF EnumerateTls13
  <2>2. PICK e \in SUBSET TLS13_SUITES :
          seen' = [seen EXCEPT !.proto.suites = @ \union e]
    BY <1>0, <1>2 DEF EnumerateTls13, Enumerated13, ServerRecord
  <2>3. seen' \in SeenRecord
    BY <1>0, <2>2 DEF SeenRecord, ProtoRecord
  <2>4. /\ seen'.cert = seen.cert
        /\ \A v \in {"ssl2", "ssl3"} : seen'.proto[v] = seen.proto[v]
    BY <1>0, <2>2 DEF SeenRecord, ProtoRecord
  <2> QED BY <2>1, <2>3, <2>4, RecordsElse, Harmless
<1>3. CASE EnumerateTls12(lost)
  <2>1. Frame /\ report' = report
    BY <1>0, <1>3, ProbeFrames DEF EnumerateTls12
  <2>2. PICK e \in SUBSET server.suites :
          /\ seen' = [seen EXCEPT !.accepted = e,
                                  !.proto.suites = @ \union e,
                                  !.proto.tls12 = @ \/ e # {}]
          /\ findings' = findings \union WeakFindings(e)
    BY <1>3 DEF EnumerateTls12, Enumerated, Push
  <2>3. e \in SUBSET TLS12_SUITES
    BY <1>0 DEF ServerRecord
  <2>4. seen' \in SeenRecord
    BY <1>0, <2>2, <2>3 DEF SeenRecord, ProtoRecord
  <2>5. /\ seen'.cert = seen.cert
        /\ \A v \in {"ssl2", "ssl3"} : seen'.proto[v] = seen.proto[v]
    BY <1>0, <2>2 DEF SeenRecord, ProtoRecord
  <2>6. Sound(findings' \ findings)
    BY <2>2, SuitesExposed DEF Sound
  <2> QED BY <2>1, <2>4, <2>5, <2>6, RecordsElse
<1>4. CASE Headers(lost)
  <2>1. Frame /\ report' = report /\ findings' \ findings = {}
    BY <1>0, <1>4, ProbeFrames DEF Headers
  <2>2. HstsSeen(server, lost) \in BOOLEAN
    BY <1>0 DEF HstsSeen, ServerRecord
  <2>3. /\ seen' \in SeenRecord /\ seen'.cert = seen.cert
        /\ \A v \in {"ssl2", "ssl3"} : seen'.proto[v] = seen.proto[v]
    BY <1>0, <1>4, <2>2 DEF Headers, SeenRecord, ProtoRecord
  <2> QED BY <2>1, <2>3, RecordsElse, Harmless
<1>5. CASE Fingerprint(lost)
  <2>1. Frame /\ report' = report /\ findings' \ findings = {}
    BY <1>0, <1>5, ProbeFrames DEF Fingerprint
  <2>2. BannerSeen(server, lost) \in SUBSET Banners
    BY <1>0 DEF BannerSeen, ServerRecord
  <2>3. /\ seen' \in SeenRecord /\ seen'.cert = seen.cert
        /\ \A v \in {"ssl2", "ssl3"} : seen'.proto[v] = seen.proto[v]
    BY <1>0, <1>5, <2>2 DEF Fingerprint, SeenRecord, ProtoRecord
  <2> QED BY <2>1, <2>3, RecordsElse, Harmless
<1>6. CASE ForwardSecrecy(lost)
  <2>1. Frame /\ report' = report
    BY <1>0, <1>6, ProbeFrames DEF ForwardSecrecy
  <2>2. PICK b \in {"none", "some-clients", "modern-clients", "robust"} :
          seen' = [seen EXCEPT !.fs = b]
    BY <1>6 DEF ForwardSecrecy, FsBucket
  <2>3. findings' \ findings \subseteq {"TLS-FORWARD-SECRECY-WEAK"}
    BY <1>6 DEF ForwardSecrecy, Push, When
  <2>4. /\ seen' \in SeenRecord /\ seen'.cert = seen.cert
        /\ \A v \in {"ssl2", "ssl3"} : seen'.proto[v] = seen.proto[v]
    BY <1>0, <2>2 DEF SeenRecord, ProtoRecord
  <2> QED BY <2>1, <2>3, <2>4, RecordsElse, Harmless DEF BreachIndicators
<1> QED BY <1>1, <1>2, <1>3, <1>4, <1>5, <1>6

(* The versions probed raw are finitely many, so losses can be counted.    *)
LEMMA LegacyFinite == IsFiniteSet(Legacy)
<1>1. IsFiniteSet({"ssl2"})
  BY FS_Singleton
<1>2. IsFiniteSet({"ssl2", "ssl3"})
  BY <1>1, FS_AddElement, {"ssl2"} \union {"ssl3"} = {"ssl2", "ssl3"}
<1>3. IsFiniteSet({"ssl2", "ssl3", "tls10"})
  BY <1>2, FS_AddElement, {"ssl2", "ssl3"} \union {"tls10"} = {"ssl2", "ssl3", "tls10"}
<1> QED BY <1>3, FS_AddElement, {"ssl2", "ssl3", "tls10"} \union {"tls11"} = Legacy DEF Legacy

(* The four raw probes record no old version the server does not have.     *)
LEMMA LegacyStep ==
  ASSUME IInv, NEW lost \in SUBSET Legacy, LegacyVersions(lost)
  PROVE  IInv'
<1>1. seen \in SeenRecord /\ MaxFaults \in Nat
  BY ScanAssumption DEF IInv, TypeOK, SeenRecord, ProtoRecord
<1>2. Frame /\ report' = report
  <2>1. faults \in Nat
    BY <1>1 DEF IInv, TypeOK
  <2>2. Cardinality(lost) \in Nat
    BY FS_Subset, FS_CardinalityType, LegacyFinite
  <2> QED BY <1>1, <2>1, <2>2 DEF LegacyVersions, Frame, Steps
<1>3. seen' = [seen EXCEPT !.proto =
         [v \in DOMAIN @ |-> IF v \in Legacy THEN v \in LegacySeen(server, lost) ELSE @[v]]]
  BY DEF LegacyVersions
<1>4. seen' \in SeenRecord
  <2> DEFINE p == [v \in DOMAIN seen.proto |->
                     IF v \in Legacy THEN v \in LegacySeen(server, lost) ELSE seen.proto[v]]
  <2>1. p \in ProtoRecord
    <3>1. DOMAIN seen.proto = {"ssl2", "ssl3", "tls10", "tls11", "tls12", "tls13",
                               "zero_rtt", "suites"}
      BY <1>1 DEF SeenRecord, ProtoRecord
    <3>2. p.suites = seen.proto.suites /\ seen.proto.suites \in SUBSET (TLS12_SUITES \union TLS13_SUITES)
      BY <1>1, <3>1 DEF SeenRecord, ProtoRecord, Legacy
    <3>3. ASSUME NEW v \in {"ssl2", "ssl3", "tls10", "tls11"} PROVE p[v] \in BOOLEAN
      <4>1. v \in Legacy /\ v \in DOMAIN seen.proto
        BY <3>1 DEF Legacy
      <4>2. p[v] = (v \in LegacySeen(server, lost))
        BY <4>1, Zenon
      <4>3. (v \in LegacySeen(server, lost)) \in BOOLEAN
        OBVIOUS
      <4> HIDE DEF p
      <4> QED BY <4>2, <4>3, Zenon
    <3>4. \A v \in {"tls12", "tls13", "zero_rtt"} : p[v] = seen.proto[v] /\ p[v] \in BOOLEAN
      BY <1>1, <3>1 DEF SeenRecord, ProtoRecord, Legacy
    <3>5. p = [v \in DOMAIN seen.proto |-> p[v]]
      OBVIOUS
    <3> HIDE DEF p
    <3> QED BY <3>1, <3>2, <3>3, <3>4, <3>5 DEF ProtoRecord
  <2>2. seen' = [seen EXCEPT !.proto = p]
    BY <1>3
  <2> HIDE DEF p
  <2> QED BY <1>1, <2>1, <2>2 DEF SeenRecord, ProtoRecord
<1>5. seen'.cert = seen.cert
  BY <1>1, <1>3 DEF SeenRecord, ProtoRecord
<1>6. \A v \in {"ssl2", "ssl3"} : seen'.proto[v] => v \in server.versions
  BY <1>1, <1>3 DEF SeenRecord, ProtoRecord, Legacy, LegacySeen
<1>7. Sound(findings' \ findings)
  <2>1. findings' \ findings \subseteq
          (IF seen'.proto.ssl2 THEN {"TLS-SSLV2", "TLS-DROWN-VULNERABLE"} ELSE {})
            \union (IF seen'.proto.ssl3 THEN {"TLS-SSLV3"} ELSE {})
            \union {"TLS-WEAK-VERSION-1.0", "TLS-WEAK-VERSION-1.1", "TLS-NO-TLS13",
                    "TLS-ZERO-RTT-ACCEPTED"}
    BY DEF LegacyVersions, Push, ProtocolFindings, When
  <2> QED BY <1>6, <2>1, VersionsExposed DEF Sound, BreachIndicators
<1>8. Genuine(seen'.cert, server)
  BY <1>5 DEF IInv
<1> QED BY <1>2, <1>4, <1>6, <1>7, <1>8, Records

-----------------------------------------------------------------------------
(* Each update of the recorded certificate is genuine again.               *)
LEMMA InspectedGenuine ==
  ASSUME TypeOK, NEW t \in BOOLEAN, t => Trusted(server.cert)
  PROVE  Inspected(t) \in CertRecord /\ Genuine(Inspected(t), server)
<1> DEFINE o == Observed(server.cert)
<1>1. o \in CertRecord
  BY ServerCert DEF TypeOK
<1>2. Inspected(t) = [o EXCEPT !.mozillaTrusted = t, !.stapled = FALSE, !.ocspStatus = "none"]
  BY DEF Inspected
<1>3. Inspected(t) \in CertRecord /\ Inspected(t).mozillaTrusted = t
  <2> HIDE DEF o
  <2> QED BY <1>1, <1>2 DEF CertRecord
<1> QED BY <1>2, <1>3 DEF Genuine, Statuses

(* The OCSP probes change nothing that makes a record genuine.             *)
LEMMA UpdatedGenuine ==
  ASSUME TypeOK, NEW c \in CertRecord, Genuine(c, server),
         NEW st \in BOOLEAN, NEW os \in Statuses(server),
         NEW d, d = [c EXCEPT !.stapled = st, !.ocspStatus = os]
  PROVE  d \in CertRecord /\ Genuine(d, server)
<1> DEFINE o == Observed(server.cert)
<1>1. o \in CertRecord /\ server \in ServerRecord /\ server.cert \in CertRecord
  BY ServerCert DEF TypeOK
<1>2. os \in {"none", "good", "revoked", "unknown"}
  BY <1>1 DEF Statuses, ServerRecord, CertRecord
<1>3. d \in CertRecord /\ d.mozillaTrusted = c.mozillaTrusted
  BY <1>2 DEF CertRecord
<1>4. c # NoCert
  BY DEF NoCert, CertRecord
<1>5. PICK t \in BOOLEAN, st2 \in BOOLEAN, os2 \in Statuses(server) :
        c = [o EXCEPT !.mozillaTrusted = t, !.stapled = st2, !.ocspStatus = os2]
  BY <1>4 DEF Genuine
<1>6. d = [o EXCEPT !.mozillaTrusted = t, !.stapled = st, !.ocspStatus = os]
  <2> HIDE DEF o
  <2> QED BY <1>1, <1>5 DEF CertRecord
<1>7. c.mozillaTrusted => Trusted(server.cert)
  BY <1>4 DEF Genuine
<1> QED BY <1>3, <1>6, <1>7 DEF Genuine

(* The steps that record the certificate, and the one that judges it.      *)
LEMMA CertSteps ==
  ASSUME IInv, NEW lost \in BOOLEAN,
         \/ StrictInspect(lost) \/ TolerantInspect(lost) \/ QueryResponder(lost)
         \/ Staple(lost) \/ ZeroRtt(lost)
  PROVE  IInv'
<1> USE DEF Steps
<1>0. /\ TypeOK /\ seen \in SeenRecord /\ server \in ServerRecord
      /\ Genuine(seen.cert, server)
  BY ServerCert DEF IInv, TypeOK, SeenRecord, ProtoRecord
<1>a. ASSUME NEW t \in BOOLEAN, t => Trusted(server.cert), Frame,
             seen' = [seen EXCEPT !.cert = Inspected(t)], UNCHANGED <<findings, report>>
      PROVE  IInv'
  <2>1. Inspected(t) \in CertRecord /\ Genuine(Inspected(t), server)
    BY <1>0, <1>a, InspectedGenuine
  <2>2. /\ seen' \in SeenRecord /\ seen'.cert = Inspected(t)
        /\ seen'.proto = seen.proto
    BY <1>0, <1>a, <2>1 DEF SeenRecord
  <2>3. Sound(findings' \ findings)
    BY <1>a, Harmless
  <2>4. \A v \in {"ssl2", "ssl3"} : seen'.proto[v] => v \in server.versions
    BY <2>2 DEF IInv
  <2> QED BY <1>a, <2>1, <2>2, <2>3, <2>4, Records
<1>1. CASE StrictInspect(lost)
  <2>1. Frame /\ UNCHANGED <<findings, report>>
    BY <1>0, <1>1, ProbeFrames DEF StrictInspect
  <2>2. CASE ~lost /\ StrictHandshakes(server) # {}
    <3>1. Trusted(server.cert) /\ seen' = [seen EXCEPT !.cert = Inspected(TRUE)]
      BY <1>1, <2>2 DEF StrictInspect, StrictHandshakes
    <3> QED BY <1>a, <2>1, <3>1
  <2>3. CASE ~(~lost /\ StrictHandshakes(server) # {})
    BY <1>1, <2>1, <2>3, Pushes, Harmless DEF StrictInspect
  <2> QED BY <2>2, <2>3
<1>2. CASE TolerantInspect(lost)
  <2>1. Frame /\ UNCHANGED <<findings, report>>
    BY <1>0, <1>2, ProbeFrames DEF TolerantInspect
  <2>2. CASE ~lost /\ Handshakes(server) # {}
    <3>1. seen' = [seen EXCEPT !.cert = Inspected(FALSE)]
      BY <1>2, <2>2 DEF TolerantInspect
    <3> QED BY <1>a, <2>1, <3>1
  <2>3. CASE ~(~lost /\ Handshakes(server) # {})
    BY <1>2, <2>1, <2>3, Pushes, Harmless DEF TolerantInspect
  <2> QED BY <2>2, <2>3
<1>b. ASSUME NEW st \in BOOLEAN, NEW os \in Statuses(server), Frame, seen.cert # NoCert,
             seen' = [seen EXCEPT !.cert = [seen.cert EXCEPT !.stapled = st, !.ocspStatus = os]],
             UNCHANGED <<findings, report>>
      PROVE  IInv'
  <2> DEFINE d == [seen.cert EXCEPT !.stapled = st, !.ocspStatus = os]
  <2>1. seen.cert \in CertRecord
    BY <1>0, <1>b DEF SeenRecord
  <2>2. d \in CertRecord /\ Genuine(d, server)
    BY <1>0, <2>1, UpdatedGenuine
  <2> HIDE DEF d
  <2>3. seen' \in SeenRecord /\ seen'.cert = d /\ seen'.proto = seen.proto
    BY <1>0, <1>b, <2>2 DEF SeenRecord, d
  <2>4. Sound(findings' \ findings)
    BY <1>b, Harmless
  <2>5. \A v \in {"ssl2", "ssl3"} : seen'.proto[v] => v \in server.versions
    BY <2>3 DEF IInv
  <2> QED BY <1>b, <2>2, <2>3, <2>4, <2>5, Records
<1>3. CASE QueryResponder(lost)
  <2>1. Frame /\ UNCHANGED <<findings, report>>
    BY <1>0, <1>3, ProbeFrames DEF QueryResponder
  <2>2. CASE lost \/ seen.cert = NoCert
    <3>1. seen' = seen
      BY <1>0, <1>3, <2>2 DEF QueryResponder, NoCert, SeenRecord
    <3> QED BY <2>1, <3>1, Pushes, Harmless
  <2>3. CASE ~lost /\ seen.cert # NoCert
    <3>1. seen.cert \in CertRecord
      BY <1>0, <2>3 DEF SeenRecord
    <3>2. seen.cert.stapled \in BOOLEAN /\ server.cert.ocspStatus \in Statuses(server)
      BY <3>1 DEF CertRecord, Statuses
    <3>3. [seen.cert EXCEPT !.ocspStatus = server.cert.ocspStatus]
            = [seen.cert EXCEPT !.stapled = seen.cert.stapled,
                                !.ocspStatus = server.cert.ocspStatus]
      BY <3>1 DEF CertRecord
    <3>4. seen' = [seen EXCEPT !.cert = [seen.cert EXCEPT !.ocspStatus = server.cert.ocspStatus]]
      BY <1>3, <2>3 DEF QueryResponder
    <3> QED BY <1>b, <2>1, <2>3, <3>2, <3>3, <3>4
  <2> QED BY <2>2, <2>3
<1>4. CASE Staple(lost)
  <2> DEFINE status == StapleSeen(server, lost)
  <2>1. Frame /\ UNCHANGED <<findings, report>>
    BY <1>0, <1>4, ProbeFrames DEF Staple
  <2>2. CASE seen.cert.keyAlg = "none"
    BY <1>4, <2>1, <2>2, Pushes, Harmless DEF Staple
  <2>3. CASE seen.cert.keyAlg # "none"
    <3>1. seen.cert \in CertRecord /\ seen.cert # NoCert
      BY <1>0, <2>3 DEF SeenRecord, NoCert
    <3>2. PICK os : os = IF status \in {"absent", "unreadable"}
                           THEN seen.cert.ocspStatus ELSE status
      OBVIOUS
    <3>3. seen.cert.ocspStatus \in Statuses(server)
      BY <1>0, <3>1 DEF Genuine, Statuses, CertRecord, Observed
    <3>4. os \in Statuses(server)
      BY <3>2, <3>3 DEF StapleSeen, Statuses
    <3>5. seen' = [seen EXCEPT !.cert =
                     [seen.cert EXCEPT !.stapled = (status # "absent"), !.ocspStatus = os]]
      BY <1>0, <1>4, <2>3, <3>1, <3>2 DEF Staple, SeenRecord, CertRecord
    <3>6. (status # "absent") \in BOOLEAN
      OBVIOUS
    <3> HIDE DEF status
    <3> QED BY <1>b, <2>1, <3>1, <3>4, <3>5, <3>6
  <2> QED BY <2>2, <2>3
<1>5. CASE ZeroRtt(lost)
  <2>1. Frame /\ report' = report
    BY <1>0, <1>5, ProbeFrames DEF ZeroRtt
  <2>2. PICK z \in BOOLEAN : seen' = [seen EXCEPT !.proto.zero_rtt = z]
    BY <1>5 DEF ZeroRtt
  <2>3. /\ seen' \in SeenRecord /\ seen'.cert = seen.cert
        /\ \A v \in {"ssl2", "ssl3"} : seen'.proto[v] = seen.proto[v]
    BY <1>0, <2>2 DEF SeenRecord, ProtoRecord
  <2>4. findings' \ findings \subseteq
          IF seen.cert.keyAlg # "none" THEN CertFindings(seen.cert) ELSE {}
    BY <1>5 DEF ZeroRtt, Push, When
  <2>5. seen.cert.keyAlg # "none" => seen.cert # NoCert
    BY DEF NoCert
  <2>6. Sound(findings' \ findings)
    BY <1>0, <2>4, <2>5, CertExposed DEF Sound, TypeOK
  <2> QED BY <2>1, <2>3, <2>6, RecordsElse
<1> QED BY <1>1, <1>2, <1>3, <1>4, <1>5

(* Without a certificate nothing is trusted.                               *)
LEMMA NoCertUntrusted == NoCert.mozillaTrusted = FALSE
  BY Zenon DEF NoCert

(* A passing grade needs a certificate that has been verified.             *)
LEMMA PassingCert ==
  ASSUME TypeOK, Passed(Letter(seen.proto, seen.cert, seen.hsts, findings, seen.fs), findings)
  PROVE  seen.cert.mozillaTrusted /\ seen.cert # NoCert
<1>0. seen \in SeenRecord
  BY DEF TypeOK, SeenRecord, ProtoRecord
<1>1. IsProto(seen.proto)
  BY <1>0 DEF SeenRecord, ProtoRecord, IsProto
<1>2. IsCert(seen.cert)
  <2>1. seen.cert \in CertRecord => IsCert(seen.cert)
    BY DEF CertRecord, IsCert
  <2>2. IsCert(NoCert)
    BY NoCertUntrusted DEF NoCert, IsCert
  <2> QED BY <1>0, <2>1, <2>2 DEF SeenRecord
<1>3. seen.cert.mozillaTrusted
  BY <1>1, <1>2, PassingLetter
<1> QED BY <1>3, NoCertUntrusted

(* The report: only a trusted chain passes.                                *)
LEMMA ConcludeStep == IInv /\ Conclude => IInv'
<1> SUFFICES ASSUME IInv, Conclude PROVE IInv'
  OBVIOUS
<1> DEFINE letter == Letter(seen.proto, seen.cert, seen.hsts, findings, seen.fs)
           score  == Score(seen.proto, seen.cert, findings)
<1>0. TypeOK /\ seen \in SeenRecord
  BY DEF IInv, TypeOK, SeenRecord, ProtoRecord
<1>1. Frame /\ seen' = seen /\ findings' = findings
  BY <1>0, ProbeFrames DEF Conclude, Steps
<1>2. IsProto(seen.proto) /\ IsCert(seen.cert)
  <2>1. IsProto(seen.proto)
    BY <1>0 DEF SeenRecord, ProtoRecord, IsProto
  <2>2. seen.cert \in CertRecord => IsCert(seen.cert)
    BY DEF CertRecord, IsCert
  <2>3. IsCert(NoCert)
    BY NoCertUntrusted DEF NoCert, IsCert
  <2> QED BY <1>0, <2>1, <2>2, <2>3 DEF SeenRecord
<1>3. letter \in Letters /\ score \in 0..100
  BY <1>2, LetterRange, ScorePercentage DEF Letters
<1>4. /\ report'.letter = letter /\ report'.score = score
      /\ report'.passed = Passed(letter, findings)
  BY DEF Conclude
<1>5. Passed(letter, findings) => Trusted(server.cert)
  <2>1. Passed(letter, findings) => seen.cert.mozillaTrusted
    BY <1>0, PassingCert
  <2>2. seen.cert.mozillaTrusted => Trusted(server.cert)
    BY NoCertUntrusted DEF IInv, Genuine
  <2> QED BY <2>1, <2>2
<1> HIDE DEF letter, score
<1>6. TypeOK'
  BY <1>0, <1>1, <1>3, <1>4 DEF TypeOK, Frame
<1>7. PassMeansTrusted'
  BY <1>1, <1>4, <1>5 DEF PassMeansTrusted, Frame
<1>8. Sound(findings)'
  BY <1>1 DEF IInv, Sound, Frame
<1>9. Genuine(seen.cert, server)'
  BY <1>1 DEF IInv, Frame
<1>10. (\A v \in {"ssl2", "ssl3"} : seen.proto[v] => v \in server.versions)'
  BY <1>1 DEF IInv, Frame
<1> QED BY <1>6, <1>7, <1>8, <1>9, <1>10 DEF IInv

-----------------------------------------------------------------------------
(* Every step preserves the invariant.                                     *)
LEMMA NextIInv == IInv /\ [Next]_vars => IInv'
<1> SUFFICES ASSUME IInv, [Next]_vars PROVE IInv'
  OBVIOUS
<1>1. ASSUME NEW lost \in BOOLEAN, Advance(lost) PROVE IInv'
  BY <1>1, PushingSteps, RecordingSteps, CertSteps DEF Advance
<1>2. ASSUME NEW lost \in SUBSET Legacy, LegacyVersions(lost) PROVE IInv'
  BY <1>2, LegacyStep
<1>3. CASE InspectConnectFails \/ JudgeBanner
  BY <1>3, PushingSteps
<1>4. CASE Conclude
  BY <1>4, ConcludeStep
<1>5. CASE UNCHANGED vars
  <2>1. UNCHANGED <<seen, report>> /\ findings' \ findings = {}
    BY <1>5 DEF vars
  <2>2. Frame
    BY <1>5 DEF vars, Frame, IInv, TypeOK
  <2> QED BY <2>1, <2>2, Pushes, Harmless
<1> QED BY <1>1, <1>2, <1>3, <1>4, <1>5 DEF Next, Step, Terminated

(* The invariant holds in every reachable state.                           *)
THEOREM Invariance == Spec => []IInv
<1>1. IInv /\ [Next]_vars => IInv'
  BY NextIInv
<1> QED BY <1>1, InitIInv, PTL DEF Spec

(* scan_one's state stays well-typed, whatever the server and the probes   *)
(* that are lost.                                                          *)
THEOREM TypeCorrect == Spec => []TypeOK
<1>1. IInv => TypeOK
  BY DEF IInv
<1> QED BY <1>1, Invariance, PTL

(* Only a target whose chain the Mozilla store accepts passes, whatever    *)
(* probes are lost: `passed` is never the result of an inspection that     *)
(* failed.                                                                 *)
THEOREM PassTrusted == Spec => []PassMeansTrusted
<1>1. IInv => PassMeansTrusted
  BY DEF IInv
<1> QED BY <1>1, Invariance, PTL

(* No lost probe, and no combination of them, makes scan_one report a      *)
(* breach the server does not have, the two IDs that stand for eligibility *)
(* aside.                                                                  *)
THEOREM NothingInvented == Spec => []NoInventedBreach
<1>1. IInv => NoInventedBreach
  BY DEF IInv, Sound, NoInventedBreach
<1> QED BY <1>1, Invariance, PTL

-----------------------------------------------------------------------------
(* What a scan with cipher enumeration that has lost no probe knows of its *)
(* target, probe after probe: the steps that follow each of them ...       *)
AfterGoldendoodle == {"banner", "grease", "fs", "scsv", "conclude"}
AfterPadding      == AfterGoldendoodle \union {"goldendoodle"}
AfterTicketbleed  == AfterPadding \union {"headers", "fingerprint", "padding"}
AfterCcs          == AfterTicketbleed \union {"ticketbleed"}
AfterRobot        == AfterCcs \union {"dh", "features", "heartbleed", "ccs"}
AfterSuites       == AfterRobot \union {"robot"}
AfterCertificate  == AfterSuites \union {"enum13", "enum12"}
AfterLegacy       == AfterCertificate
                       \union {"strict", "tolerant", "ocsp", "staple", "zero_rtt"}

(* ... and what each of them has told.                                     *)
StatusDue(s) ==
  LET staple == StapleSeen(s, FALSE) IN
  IF staple \in {"absent", "unreadable"} THEN s.cert.ocspStatus ELSE staple
CertDue(s) ==
  ((CertFindings(Observed(s.cert)) \ {"TLS-OCSP-REVOKED"}) \intersect BreachIndicators)
    \union When(StatusDue(s) = "revoked", {"TLS-OCSP-REVOKED"})
FlawTold(flaw, offer, id) ==
  flaw \in server.flaws /\ Answers(server, offer) => id \in findings
RsaKey == server.cert.keyAlg = "rsaEncryption"

VersionsTold    == OldVersions(LegacySeen(server, {})) \subseteq findings
CertificateTold == Handshakes(server) # {} => CertDue(server) \subseteq findings
SuitesTold ==
  /\ seen.accepted = server.suites
  /\ server.suites # {} => seen.proto.tls12
  /\ WeakFindings(server.suites) \subseteq findings
RobotTold        == RsaKey => FlawTold("robot", RobotOffer, "TLS-ROBOT-VULNERABLE")
CcsTold          == FlawTold("ccs", FeatureOffer, "TLS-CCS-INJECTION")
TicketbleedTold  == FlawTold("ticketbleed", FeatureOffer, "TLS-TICKETBLEED")
PaddingTold      == FlawTold("padding", {\h002F}, "TLS-OPENSSL-PADDING-ORACLE")
GoldendoodleTold ==
  RsaKey => FlawTold("goldendoodle", {\h002F}, "TLS-GOLDENDOODLE-ACTIVE")

(* The record of the certificate on its way to the findings.               *)
Inspecting ==
  /\ seen.cert # NoCert => Handshakes(server) # {}
  /\ pc = "ocsp" => seen.cert # NoCert
  /\ pc \in {"staple", "zero_rtt"} /\ Handshakes(server) # {} => seen.cert # NoCert
  /\ pc = "staple" /\ seen.cert # NoCert => seen.cert.ocspStatus = server.cert.ocspStatus
  /\ pc = "zero_rtt" /\ seen.cert # NoCert => seen.cert.ocspStatus = StatusDue(server)

ToldSoFar ==
  /\ Inspecting
  /\ pc \in AfterLegacy       => VersionsTold
  /\ pc \in AfterCertificate  => CertificateTold
  /\ pc \in AfterSuites       => SuitesTold
  /\ pc \in AfterRobot        => RobotTold
  /\ pc \in AfterCcs          => CcsTold
  /\ pc \in AfterTicketbleed  => TicketbleedTold
  /\ pc \in AfterPadding      => PaddingTold
  /\ pc \in AfterGoldendoodle => GoldendoodleTold

(* The inductive invariant of complete scans, on top of IInv.              *)
Thorough ==
  /\ full /\ faults = 0 => ToldSoFar
  /\ CompleteScanTells

(* A probe of such a scan was not lost, nor was any before it.             *)
LEMMA ProbeWhole ==
  ASSUME TypeOK, NEW from, NEW to, NEW lost \in BOOLEAN, Probe(from, to, lost),
         full', faults' = 0
  PROVE  /\ full /\ faults = 0 /\ lost = FALSE
         /\ server' = server /\ pc = from /\ pc' = to
<1>1. faults \in Nat
  BY ScanAssumption DEF TypeOK
<1> QED BY <1>1 DEF Probe

(* What has been told stays told, as long as nothing is taken back.        *)
LEMMA StaysTold ==
  ASSUME server' = server, findings \subseteq findings',
         seen'.accepted = seen.accepted, seen'.proto.tls12 = seen.proto.tls12
  PROVE  /\ VersionsTold => VersionsTold'
         /\ CertificateTold => CertificateTold'
         /\ SuitesTold => SuitesTold'
         /\ RobotTold => RobotTold'
         /\ CcsTold => CcsTold'
         /\ TicketbleedTold => TicketbleedTold'
         /\ PaddingTold => PaddingTold'
         /\ GoldendoodleTold => GoldendoodleTold'
<1>1. VersionsTold => VersionsTold'
  BY DEF VersionsTold
<1>2. CertificateTold => CertificateTold'
  BY DEF CertificateTold
<1>3. SuitesTold => SuitesTold'
  BY DEF SuitesTold
<1>4. /\ RobotTold => RobotTold'
      /\ CcsTold => CcsTold'
      /\ TicketbleedTold => TicketbleedTold'
      /\ PaddingTold => PaddingTold'
      /\ GoldendoodleTold => GoldendoodleTold'
  BY DEF RobotTold, CcsTold, TicketbleedTold, PaddingTold, GoldendoodleTold, RsaKey, FlawTold
<1> QED BY <1>1, <1>2, <1>3, <1>4

(* Once it is judged, the certificate's record stays as it is.             *)
LEMMA StaysInspected ==
  ASSUME Inspecting, server' = server, seen'.cert = seen.cert,
         pc' \notin {"ocsp", "staple", "zero_rtt"}
  PROVE  Inspecting'
  BY DEF Inspecting

(* The probes before and after those whose findings are followed.          *)
LEMMA SilentThorough ==
  ASSUME TypeOK, NEW lost \in BOOLEAN, full', faults' = 0,
         full /\ faults = 0 => ToldSoFar,
         \/ Connect(lost) \/ Handshake(lost) \/ EnumerateTls13(lost) \/ DhAndCbc(lost)
         \/ TlsFeatures(lost) \/ Heartbleed(lost) \/ Headers(lost) \/ Grease(lost)
         \/ ForwardSecrecy(lost) \/ FallbackScsv(lost)
  PROVE  ToldSoFar'
<1> USE DEF AfterLegacy, AfterCertificate, AfterSuites, AfterRobot, AfterCcs,
            AfterTicketbleed, AfterPadding, AfterGoldendoodle
<1>0. seen \in SeenRecord
  BY DEF TypeOK, SeenRecord, ProtoRecord
<1>1. CASE Connect(lost)
  <2>1. /\ full /\ faults = 0 /\ pc = "connect" /\ pc' \in {"handshake", "done"}
        /\ server' = server /\ seen' = seen
    BY <1>1, ProbeWhole DEF Connect
  <2>2. Inspecting'
    BY <2>1, StaysInspected DEF ToldSoFar
  <2> QED BY <2>1, <2>2 DEF ToldSoFar
<1>2. CASE Handshake(lost)
  <2>1. /\ full /\ faults = 0 /\ pc = "handshake" /\ pc' = "legacy" /\ server' = server
    BY <1>2, ProbeWhole DEF Handshake
  <2>2. seen'.cert = seen.cert
    BY <1>0, <1>2 DEF Handshake, SeenRecord
  <2>3. Inspecting'
    BY <2>1, <2>2, StaysInspected DEF ToldSoFar
  <2> QED BY <2>1, <2>3 DEF ToldSoFar
<1>3. CASE EnumerateTls13(lost)
  <2>1. /\ full /\ faults = 0 /\ pc = "enum13" /\ pc' = "enum12" /\ server' = server
    BY <1>3, ProbeWhole DEF EnumerateTls13
  <2>2. /\ seen'.cert = seen.cert /\ seen'.accepted = seen.accepted
        /\ seen'.proto.tls12 = seen.proto.tls12 /\ findings' = findings
    BY <1>0, <1>3 DEF EnumerateTls13, SeenRecord, ProtoRecord
  <2>3. Inspecting'
    BY <2>1, <2>2, StaysInspected DEF ToldSoFar
  <2> QED BY <2>1, <2>2, <2>3, StaysTold DEF ToldSoFar
<1>4. CASE \/ DhAndCbc(lost) \/ TlsFeatures(lost) \/ Heartbleed(lost) \/ Grease(lost)
           \/ FallbackScsv(lost)
  <2>1. /\ full /\ faults = 0 /\ server' = server /\ seen' = seen
        /\ \/ pc \in {"dh", "features", "heartbleed"}
              /\ pc' \in {"features", "heartbleed", "ccs"}
           \/ pc \in {"grease", "scsv"} /\ pc' \in {"fs", "conclude"}
    BY <1>4, ProbeWhole DEF DhAndCbc, TlsFeatures, Heartbleed, Grease, FallbackScsv
  <2>2. findings \subseteq findings'
    BY <1>4 DEF DhAndCbc, TlsFeatures, Heartbleed, Grease, FallbackScsv, Push
  <2>3. Inspecting'
    BY <2>1, StaysInspected DEF ToldSoFar
  <2> QED BY <2>1, <2>2, <2>3, StaysTold DEF ToldSoFar
<1>5. CASE Headers(lost) \/ ForwardSecrecy(lost)
  <2>1. /\ full /\ faults = 0 /\ server' = server
        /\ \/ pc = "headers" /\ pc' = "fingerprint"
           \/ pc = "fs" /\ pc' = "scsv"
    BY <1>5, ProbeWhole DEF Headers, ForwardSecrecy
  <2>2. /\ seen'.cert = seen.cert /\ seen'.accepted = seen.accepted
        /\ seen'.proto.tls12 = seen.proto.tls12 /\ findings \subseteq findings'
    BY <1>0, <1>5 DEF Headers, ForwardSecrecy, Push, SeenRecord, ProtoRecord
  <2>3. Inspecting'
    BY <2>1, <2>2, StaysInspected DEF ToldSoFar
  <2> QED BY <2>1, <2>2, <2>3, StaysTold DEF ToldSoFar
<1> QED BY <1>1, <1>2, <1>3, <1>4, <1>5

(* The active probes: each tells its flaw when the server has it.          *)
LEMMA ProbingThorough ==
  ASSUME TypeOK, NEW lost \in BOOLEAN, full', faults' = 0,
         full /\ faults = 0 => ToldSoFar,
         \/ Robot(lost) \/ Ccs(lost) \/ Ticketbleed(lost) \/ Fingerprint(lost)
         \/ PaddingOracle(lost) \/ Goldendoodle(lost)
  PROVE  ToldSoFar'
<1> USE DEF AfterLegacy, AfterCertificate, AfterSuites, AfterRobot, AfterCcs,
            AfterTicketbleed, AfterPadding, AfterGoldendoodle
<1>0. seen \in SeenRecord
  BY DEF TypeOK, SeenRecord, ProtoRecord
<1>a. ASSUME full, faults = 0, SuitesTold, NEW offer, Answers(server, offer)
      PROVE  seen.proto.tls12 /\ seen.accepted \intersect offer # {}
  BY <1>a DEF SuitesTold, Answers
<1>b. \h002F \in CbcListed /\ RobotOffer \subseteq RobotEligible
  BY DEF CbcListed, RsaCbc, RsaAead, RobotOffer, RobotEligible
<1>1. CASE Robot(lost)
  <2>1. /\ full /\ faults = 0 /\ lost = FALSE /\ pc = "robot" /\ pc' = "dh"
        /\ server' = server /\ seen' = seen /\ findings \subseteq findings'
    BY <1>1, ProbeWhole DEF Robot, Push
  <2>2. ASSUME RsaKey, "robot" \in server.flaws, Answers(server, RobotOffer)
        PROVE  "TLS-ROBOT-VULNERABLE" \in findings'
    <3>1. RobotEligible \intersect seen.accepted # {}
      BY <1>a, <1>b, <2>1, <2>2 DEF ToldSoFar
    <3>2. RobotVerdicts(server, lost) = {"vulnerable"}
      BY <2>1, <2>2 DEF RobotVerdicts, RsaKey
    <3> QED BY <1>1, <3>1, <3>2 DEF Robot, Push, When
  <2>3. RobotTold'
    BY <2>1, <2>2 DEF RobotTold, RsaKey, FlawTold
  <2>4. Inspecting'
    BY <2>1, StaysInspected DEF ToldSoFar
  <2> QED BY <2>1, <2>3, <2>4, StaysTold DEF ToldSoFar
<1>2. CASE Ccs(lost)
  <2>1. /\ full /\ faults = 0 /\ lost = FALSE /\ pc = "ccs" /\ pc' = "ticketbleed"
        /\ server' = server /\ seen' = seen /\ findings \subseteq findings'
    BY <1>2, ProbeWhole DEF Ccs, Push
  <2>2. ASSUME "ccs" \in server.flaws, Answers(server, FeatureOffer)
        PROVE  "TLS-CCS-INJECTION" \in findings'
    <3>1. seen.proto.tls12
      BY <1>a, <2>1, <2>2 DEF ToldSoFar
    <3>2. CcsVerdicts(server, lost) = {"vulnerable"}
      BY <2>1, <2>2 DEF CcsVerdicts
    <3> QED BY <1>2, <3>1, <3>2 DEF Ccs, Push, When
  <2>3. CcsTold'
    BY <2>1, <2>2 DEF CcsTold, FlawTold
  <2>4. Inspecting'
    BY <2>1, StaysInspected DEF ToldSoFar
  <2> QED BY <2>1, <2>3, <2>4, StaysTold DEF ToldSoFar
<1>3. CASE Ticketbleed(lost)
  <2>1. /\ full /\ faults = 0 /\ lost = FALSE /\ pc = "ticketbleed" /\ pc' = "headers"
        /\ server' = server /\ seen' = seen /\ findings \subseteq findings'
    BY <1>3, ProbeWhole DEF Ticketbleed, Push
  <2>2. ASSUME "ticketbleed" \in server.flaws, Answers(server, FeatureOffer)
        PROVE  "TLS-TICKETBLEED" \in findings'
    <3>1. seen.proto.tls12
      BY <1>a, <2>1, <2>2 DEF ToldSoFar
    <3>2. TicketbleedVerdict(server, lost) = "vulnerable"
      BY <2>1, <2>2 DEF TicketbleedVerdict
    <3> QED BY <1>3, <3>1, <3>2 DEF Ticketbleed, Push, When
  <2>3. TicketbleedTold'
    BY <2>1, <2>2 DEF TicketbleedTold, FlawTold
  <2>4. Inspecting'
    BY <2>1, StaysInspected DEF ToldSoFar
  <2> QED BY <2>1, <2>3, <2>4, StaysTold DEF ToldSoFar
<1>c. ASSUME full, faults = 0, SuitesTold, Answers(server, {\h002F})
      PROVE  \h002F \in Cbc
  BY <1>a, <1>b, <1>c DEF Cbc, is_cbc_suite
<1>4. CASE Fingerprint(lost)
  <2>1. /\ full /\ faults = 0 /\ pc = "fingerprint" /\ pc' \in {"banner", "padding"}
        /\ Cbc # {} => pc' = "padding"
        /\ server' = server /\ findings' = findings
    BY <1>4, ProbeWhole DEF Fingerprint
  <2>2. /\ seen'.cert = seen.cert /\ seen'.accepted = seen.accepted
        /\ seen'.proto.tls12 = seen.proto.tls12
    BY <1>0, <1>4 DEF Fingerprint, SeenRecord, ProtoRecord
  <2>3. pc' = "banner" => ~Answers(server, {\h002F})
    BY <1>c, <2>1 DEF ToldSoFar
  <2>4. pc' = "banner" => PaddingTold' /\ GoldendoodleTold'
    BY <2>1, <2>3 DEF PaddingTold, GoldendoodleTold, FlawTold
  <2>5. Inspecting'
    BY <2>1, <2>2, StaysInspected DEF ToldSoFar
  <2> QED BY <2>1, <2>2, <2>4, <2>5, StaysTold DEF ToldSoFar
<1>5. CASE PaddingOracle(lost)
  <2>1. /\ full /\ faults = 0 /\ lost = FALSE /\ pc = "padding" /\ pc' = "goldendoodle"
        /\ server' = server /\ seen' = seen /\ findings \subseteq findings'
    BY <1>5, ProbeWhole DEF PaddingOracle, Push
  <2>2. ASSUME "padding" \in server.flaws, Answers(server, {\h002F})
        PROVE  "TLS-OPENSSL-PADDING-ORACLE" \in findings'
    <3>1. \h002F \in Cbc
      BY <1>c, <2>1, <2>2 DEF ToldSoFar
    <3>2. "not_vulnerable" \notin PaddingVerdicts(server, lost)
      BY <2>1, <2>2 DEF PaddingVerdicts
    <3> QED BY <1>5, <3>1, <3>2 DEF PaddingOracle, Push, When
  <2>3. PaddingTold'
    BY <2>1, <2>2 DEF PaddingTold, FlawTold
  <2>4. Inspecting'
    BY <2>1, StaysInspected DEF ToldSoFar
  <2> QED BY <2>1, <2>3, <2>4, StaysTold DEF ToldSoFar
<1>6. CASE Goldendoodle(lost)
  <2>1. /\ full /\ faults = 0 /\ lost = FALSE /\ pc = "goldendoodle" /\ pc' = "banner"
        /\ server' = server /\ seen' = seen /\ findings \subseteq findings'
    BY <1>6, ProbeWhole DEF Goldendoodle, Push
  <2>2. ASSUME RsaKey, "goldendoodle" \in server.flaws, Answers(server, {\h002F})
        PROVE  "TLS-GOLDENDOODLE-ACTIVE" \in findings'
    <3>1. \h002F \in Cbc
      BY <1>c, <2>1, <2>2 DEF ToldSoFar
    <3>2. GoldendoodleVerdict(server, lost) = "vulnerable"
      BY <2>1, <2>2 DEF GoldendoodleVerdict, RsaKey
    <3> QED BY <1>6, <3>1, <3>2 DEF Goldendoodle, Push, When
  <2>3. GoldendoodleTold'
    BY <2>1, <2>2 DEF GoldendoodleTold, RsaKey, FlawTold
  <2>4. Inspecting'
    BY <2>1, StaysInspected DEF ToldSoFar
  <2> QED BY <2>1, <2>3, <2>4, StaysTold DEF ToldSoFar
<1> QED BY <1>1, <1>2, <1>3, <1>4, <1>5, <1>6

(* The four raw probes tell every old version that answers their hellos.   *)
LEMMA LegacyThorough ==
  ASSUME TypeOK, NEW lost \in SUBSET Legacy, LegacyVersions(lost), full', faults' = 0,
         full /\ faults = 0 => ToldSoFar
  PROVE  ToldSoFar'
<1>1. seen \in SeenRecord /\ faults \in Nat
  BY ScanAssumption DEF TypeOK, SeenRecord, ProtoRecord
<1>2. full /\ faults = 0 /\ lost = {} /\ pc = "legacy" /\ pc' = "strict" /\ server' = server
  <2>1. IsFiniteSet(lost) /\ Cardinality(lost) \in Nat
    BY FS_Subset, FS_CardinalityType, LegacyFinite
  <2>2. Cardinality(lost) = 0
    BY <1>1, <2>1 DEF LegacyVersions
  <2> QED BY <1>1, <2>1, <2>2, FS_EmptySet DEF LegacyVersions
<1>3. seen'.cert = seen.cert
  BY <1>1 DEF LegacyVersions, SeenRecord, ProtoRecord
<1>4. \A v \in {"ssl2", "ssl3"} : v \in LegacySeen(server, {}) => seen'.proto[v]
  BY <1>1, <1>2 DEF LegacyVersions, SeenRecord, ProtoRecord, Legacy
<1>5. ProtocolFindings(seen'.proto) \subseteq findings'
  BY DEF LegacyVersions, Push
<1>6. VersionsTold'
  BY <1>2, <1>4, <1>5 DEF VersionsTold, OldVersions, ProtocolFindings, When
<1>7. Inspecting'
  BY <1>2, <1>3, StaysInspected DEF ToldSoFar
<1> QED
  BY <1>2, <1>6, <1>7
  DEF ToldSoFar, AfterLegacy, AfterCertificate, AfterSuites, AfterRobot, AfterCcs,
      AfterTicketbleed, AfterPadding, AfterGoldendoodle

(* The findings on a genuine record have every breach of the certificate,  *)
(* revocation as its status says.                                          *)
LEMMA CertTold ==
  ASSUME NEW s \in Servers, NEW c, Genuine(c, s), c # NoCert, c.ocspStatus = StatusDue(s)
  PROVE  CertDue(s) \subseteq CertFindings(c)
<1> DEFINE o == Observed(s.cert)
<1>1. PICK t \in BOOLEAN, st \in BOOLEAN, os \in Statuses(s) :
        c = [o EXCEPT !.mozillaTrusted = t, !.stapled = st, !.ocspStatus = os]
  BY DEF Genuine
<1>2. o \in CertRecord
  BY ServerCert
<1>3. (CertFindings(o) \ {"TLS-OCSP-REVOKED"}) \intersect BreachIndicators
        \subseteq CertFindings(c)
  <2> HIDE DEF o
  <2>1. /\ c.notAfter = o.notAfter /\ c.notBefore = o.notBefore
        /\ c.intermediates = o.intermediates /\ c.flaws = o.flaws
        /\ c.keyAlg = o.keyAlg /\ c.keyBits = o.keyBits
    BY <1>1, <1>2 DEF CertRecord
  <2>2. Validity(c) = Validity(o) /\ Intermediates(c) = Intermediates(o)
    BY <2>1 DEF Validity, Lifetime, Intermediates
  <2>3. Leaf(o) \intersect BreachIndicators \subseteq Leaf(c)
    <3>1. Excused(c) \ {"must_staple"} \subseteq Excused(o)
      BY <2>1 DEF Excused
    <3>2. FindingOf["must_staple"] \notin BreachIndicators
      BY DEF FindingOf, BreachIndicators
    <3>3. WeakKey(c) <=> WeakKey(o)
      BY <2>1 DEF WeakKey
    <3>4. {FindingOf[f] : f \in o.flaws \ Excused(o)} \intersect BreachIndicators
            \subseteq {FindingOf[f] : f \in c.flaws \ Excused(c)}
      BY <2>1, <3>1, <3>2
    <3> QED BY <3>3, <3>4 DEF Leaf
  <2>4. (Transparency(o) \union Trust(o, BeforeTrust(o))) \intersect BreachIndicators = {}
    <3>1. Transparency(o) \intersect BreachIndicators = {}
      BY DEF Transparency, BreachIndicators
    <3>2. o.rejectedBy \subseteq {"apple", "android", "java"}
      BY <1>2 DEF CertRecord
    <3>3. {NotTrusted[x] : x \in o.rejectedBy} \intersect BreachIndicators = {}
      BY <3>2 DEF NotTrusted, BreachIndicators
    <3>4. Trust(o, BeforeTrust(o)) \subseteq
            {"TLS-CHAIN-NOT-TRUSTED-MOZILLA"} \union {NotTrusted[x] : x \in o.rejectedBy}
      BY DEF Trust
    <3> QED BY <3>1, <3>3, <3>4 DEF BreachIndicators
  <2>5. Revocation(o) \intersect BreachIndicators \subseteq {"TLS-OCSP-REVOKED"}
    BY DEF Revocation, BreachIndicators
  <2> QED BY <2>2, <2>3, <2>4, <2>5 DEF CertFindings, BeforeTrust
<1>4. c.ocspStatus = "revoked" => "TLS-OCSP-REVOKED" \in CertFindings(c)
  BY DEF CertFindings, BeforeTrust, Revocation
<1> HIDE DEF o
<1> QED BY <1>3, <1>4 DEF CertDue, When, o

(* The inspection of the certificate and the probes of its status, and the *)
(* findings drawn from them.                                               *)
LEMMA CertificateThorough ==
  ASSUME IInv, NEW lost \in BOOLEAN, full', faults' = 0,
         full /\ faults = 0 => ToldSoFar,
         \/ StrictInspect(lost) \/ TolerantInspect(lost) \/ QueryResponder(lost)
         \/ Staple(lost) \/ ZeroRtt(lost)
  PROVE  ToldSoFar'
<1> USE DEF AfterLegacy, AfterCertificate, AfterSuites, AfterRobot, AfterCcs,
            AfterTicketbleed, AfterPadding, AfterGoldendoodle
<1>0. /\ TypeOK /\ seen \in SeenRecord /\ server \in Servers
      /\ Genuine(seen.cert, server)
  BY DEF IInv, TypeOK, SeenRecord, ProtoRecord
<1>a. seen.cert # NoCert => seen.cert \in CertRecord /\ seen.cert.keyAlg # "none"
  BY <1>0 DEF SeenRecord, CertRecord
<1>b. ASSUME NEW t \in BOOLEAN, t => Trusted(server.cert)
      PROVE  Inspected(t) # NoCert
  <2>1. Inspected(t) \in CertRecord
    BY <1>0, <1>b, InspectedGenuine
  <2> QED BY <2>1 DEF CertRecord, NoCert
<1>1. CASE StrictInspect(lost)
  <2>1. /\ full /\ faults = 0 /\ lost = FALSE /\ pc = "strict" /\ server' = server
        /\ pc' = IF StrictHandshakes(server) # {} THEN "ocsp" ELSE "tolerant"
        /\ findings' = findings
    <3>1. full /\ faults = 0 /\ lost = FALSE
      BY <1>0, <1>1, ProbeWhole DEF StrictInspect
    <3> QED BY <1>1, <3>1 DEF StrictInspect, Probe
  <2>2. CASE StrictHandshakes(server) # {}
    <3>1. Handshakes(server) # {} /\ Trusted(server.cert)
      BY <2>2 DEF StrictHandshakes
    <3>2. seen'.cert = Inspected(TRUE)
      BY <1>0, <1>1, <2>1, <2>2 DEF StrictInspect, SeenRecord
    <3>3. Inspecting'
      BY <1>b, <2>1, <2>2, <3>1, <3>2 DEF Inspecting
    <3>4. VersionsTold'
      BY <2>1 DEF ToldSoFar, VersionsTold
    <3> QED BY <2>1, <2>2, <3>3, <3>4 DEF ToldSoFar
  <2>3. CASE StrictHandshakes(server) = {}
    <3>1. seen' = seen /\ pc' = "tolerant"
      BY <1>1, <2>1, <2>3 DEF StrictInspect
    <3>2. Inspecting'
      BY <2>1, <3>1, StaysInspected DEF ToldSoFar
    <3> QED BY <2>1, <3>1, <3>2, StaysTold DEF ToldSoFar
  <2> QED BY <2>2, <2>3
<1>2. CASE TolerantInspect(lost)
  <2>1. /\ full /\ faults = 0 /\ lost = FALSE /\ pc = "tolerant" /\ server' = server
        /\ pc' = IF Handshakes(server) # {} THEN "ocsp" ELSE "staple"
        /\ findings' = findings
    <3>1. full /\ faults = 0 /\ lost = FALSE
      BY <1>0, <1>2, ProbeWhole DEF TolerantInspect
    <3> QED BY <1>2, <3>1 DEF TolerantInspect, Probe
  <2>2. VersionsTold'
    BY <2>1 DEF ToldSoFar, VersionsTold
  <2>3. CASE Handshakes(server) # {}
    <3>1. seen'.cert = Inspected(FALSE)
      BY <1>0, <1>2, <2>1, <2>3 DEF TolerantInspect, SeenRecord
    <3>2. Inspecting'
      BY <1>b, <2>1, <2>3, <3>1 DEF Inspecting
    <3> QED BY <2>1, <2>2, <2>3, <3>2 DEF ToldSoFar
  <2>4. CASE Handshakes(server) = {}
    <3>1. seen' = seen /\ pc' = "staple"
      BY <1>2, <2>1, <2>4 DEF TolerantInspect
    <3>2. Inspecting'
      BY <2>1, <2>4, <3>1 DEF ToldSoFar, Inspecting
    <3> QED BY <2>1, <2>2, <3>1, <3>2 DEF ToldSoFar
  <2> QED BY <2>3, <2>4
<1>3. CASE QueryResponder(lost)
  <2>1. /\ full /\ faults = 0 /\ lost = FALSE /\ pc = "ocsp" /\ pc' = "staple"
        /\ server' = server /\ findings' = findings
    BY <1>0, <1>3, ProbeWhole DEF QueryResponder
  <2>2. VersionsTold'
    BY <2>1 DEF ToldSoFar, VersionsTold
  <2>3. seen.cert # NoCert /\ Handshakes(server) # {}
    BY <2>1 DEF ToldSoFar, Inspecting
  <2>4. seen'.cert = [seen.cert EXCEPT !.ocspStatus = server.cert.ocspStatus]
    BY <1>0, <1>3, <2>1 DEF QueryResponder, SeenRecord
  <2>5. seen'.cert.ocspStatus = server.cert.ocspStatus /\ seen'.cert # NoCert
    BY <1>a, <2>3, <2>4 DEF CertRecord, NoCert
  <2>6. Inspecting'
    BY <2>1, <2>3, <2>5 DEF Inspecting
  <2> QED BY <2>1, <2>2, <2>6 DEF ToldSoFar
<1>4. CASE Staple(lost)
  <2> DEFINE status == StapleSeen(server, FALSE)
  <2>1. /\ full /\ faults = 0 /\ lost = FALSE /\ pc = "staple" /\ pc' = "zero_rtt"
        /\ server' = server /\ findings' = findings
    BY <1>0, <1>4, ProbeWhole DEF Staple
  <2>2. VersionsTold'
    BY <2>1 DEF ToldSoFar, VersionsTold
  <2>3. CASE seen.cert = NoCert
    <3>1. seen' = seen
      BY <1>4, <2>3 DEF Staple, NoCert
    <3>2. Inspecting'
      BY <2>1, <2>3, <3>1 DEF ToldSoFar, Inspecting
    <3> QED BY <2>1, <2>2, <3>2 DEF ToldSoFar
  <2>4. CASE seen.cert # NoCert
    <3>1. /\ Handshakes(server) # {}
          /\ seen.cert.ocspStatus = server.cert.ocspStatus
      BY <2>1, <2>4 DEF ToldSoFar, Inspecting
    <3>2. seen'.cert = [seen.cert EXCEPT
                          !.stapled = (status # "absent"),
                          !.ocspStatus = IF status \in {"absent", "unreadable"}
                                           THEN seen.cert.ocspStatus ELSE status]
      BY <1>0, <1>4, <1>a, <2>1, <2>4 DEF Staple, SeenRecord, CertRecord
    <3>3. seen'.cert.ocspStatus = StatusDue(server) /\ seen'.cert # NoCert
      <4> HIDE DEF status
      <4>1. seen'.cert.ocspStatus = IF status \in {"absent", "unreadable"}
                                      THEN seen.cert.ocspStatus ELSE status
        BY <1>a, <2>4, <3>2 DEF CertRecord
      <4>2. seen'.cert.keyAlg = seen.cert.keyAlg
        BY <1>a, <2>4, <3>2 DEF CertRecord
      <4> QED BY <1>a, <2>4, <3>1, <4>1, <4>2 DEF StatusDue, status, NoCert
    <3>4. Inspecting'
      BY <2>1, <3>1, <3>3 DEF Inspecting
    <3> QED BY <2>1, <2>2, <3>4 DEF ToldSoFar
  <2> QED BY <2>3, <2>4
<1>5. CASE ZeroRtt(lost)
  <2>1. /\ full /\ faults = 0 /\ pc = "zero_rtt" /\ pc' = "enum13"
        /\ server' = server /\ findings \subseteq findings'
    BY <1>0, <1>5, ProbeWhole DEF ZeroRtt, Probe, Push
  <2>2. VersionsTold'
    BY <2>1 DEF ToldSoFar, VersionsTold
  <2>3. seen'.cert = seen.cert
    BY <1>0, <1>5 DEF ZeroRtt, SeenRecord
  <2>4. Inspecting'
    BY <2>1, <2>3, StaysInspected DEF ToldSoFar
  <2>5. ASSUME Handshakes(server) # {} PROVE CertDue(server) \subseteq findings'
    <3>1. /\ seen.cert # NoCert /\ seen.cert.keyAlg # "none"
          /\ seen.cert.ocspStatus = StatusDue(server)
      BY <1>a, <2>1, <2>5 DEF ToldSoFar, Inspecting
    <3>2. CertDue(server) \subseteq CertFindings(seen.cert)
      BY <1>0, <3>1, CertTold
    <3> QED BY <1>5, <3>1, <3>2 DEF ZeroRtt, Push, When
  <2>6. CertificateTold'
    BY <2>1, <2>5 DEF CertificateTold
  <2> QED BY <2>1, <2>2, <2>4, <2>6 DEF ToldSoFar
<1> QED BY <1>1, <1>2, <1>3, <1>4, <1>5

(* The enumeration tells every weak suite, and finds every suite there is. *)
LEMMA SuitesThorough ==
  ASSUME TypeOK, NEW lost \in BOOLEAN, EnumerateTls12(lost), full', faults' = 0,
         full /\ faults = 0 => ToldSoFar
  PROVE  ToldSoFar'
<1>0. seen \in SeenRecord
  BY DEF TypeOK, SeenRecord, ProtoRecord
<1>1. /\ full /\ faults = 0 /\ lost = FALSE /\ pc = "enum12" /\ pc' = "robot"
      /\ server' = server
  <2>1. Probe("enum12", "robot", lost)
    BY Zenon DEF EnumerateTls12
  <2> QED BY <2>1, ProbeWhole
<1>2. /\ seen' = [seen EXCEPT !.accepted = server.suites,
                              !.proto.suites = @ \union server.suites,
                              !.proto.tls12 = @ \/ server.suites # {}]
      /\ findings' = findings \union WeakFindings(server.suites)
  BY <1>1 DEF EnumerateTls12, Enumerated, Push
<1>3. /\ seen'.cert = seen.cert /\ seen'.accepted = server.suites
      /\ server.suites # {} => seen'.proto.tls12
  BY <1>0, <1>2 DEF SeenRecord, ProtoRecord
<1>4. SuitesTold'
  BY <1>1, <1>2, <1>3 DEF SuitesTold
<1>5. Inspecting'
  BY <1>1, <1>3, StaysInspected DEF ToldSoFar
<1>6. VersionsTold' /\ CertificateTold'
  BY <1>1, <1>2
  DEF ToldSoFar, VersionsTold, CertificateTold, AfterLegacy, AfterCertificate, AfterSuites,
      AfterRobot, AfterCcs, AfterTicketbleed, AfterPadding, AfterGoldendoodle
<1> QED
  BY <1>1, <1>4, <1>5, <1>6
  DEF ToldSoFar, AfterLegacy, AfterCertificate, AfterSuites, AfterRobot, AfterCcs,
      AfterTicketbleed, AfterPadding, AfterGoldendoodle

(* All that a scan can detect has been told when the probes are through,   *)
(* and it consists of breach indicators.                                   *)
LEMMA AllTold ==
  ASSUME pc = "conclude", ToldSoFar
  PROVE  Detectable(server) \subseteq findings \intersect BreachIndicators
<1>1. /\ VersionsTold /\ CertificateTold /\ SuitesTold /\ RobotTold /\ CcsTold
      /\ TicketbleedTold /\ PaddingTold /\ GoldendoodleTold
  BY DEF ToldSoFar, AfterLegacy, AfterCertificate, AfterSuites, AfterRobot, AfterCcs,
         AfterTicketbleed, AfterPadding, AfterGoldendoodle
<1> DEFINE s == server
           flaws ==
             When(Answers(s, FeatureOffer) /\ "ccs" \in s.flaws, {"TLS-CCS-INJECTION"})
             \union When(Answers(s, FeatureOffer) /\ "ticketbleed" \in s.flaws,
                         {"TLS-TICKETBLEED"})
             \union When(Answers(s, {\h002F}) /\ "padding" \in s.flaws,
                         {"TLS-OPENSSL-PADDING-ORACLE"})
           keyed ==
             When(Answers(s, RobotOffer) /\ "robot" \in s.flaws, {"TLS-ROBOT-VULNERABLE"})
             \union When(Answers(s, {\h002F}) /\ "goldendoodle" \in s.flaws,
                         {"TLS-GOLDENDOODLE-ACTIVE"})
<1>2. Detectable(s) \subseteq OldVersions(LegacySeen(s, {}))
                        \union (WeakFindings(s.suites) \intersect BreachIndicators)
                        \union flaws
                        \union When(RsaKey, keyed)
                        \union When(Handshakes(s) # {}, CertDue(s))
  <2> DEFINE staple  == StapleSeen(s, FALSE)
             revoked == \/ staple = "revoked"
                        \/ /\ staple \in {"absent", "unreadable"}
                           /\ s.cert.ocspStatus = "revoked"
             others  == (CertFindings(Observed(s.cert)) \ {"TLS-OCSP-REVOKED"})
                          \intersect BreachIndicators
  <2>1. Detectable(s) = OldVersions(LegacySeen(s, {}))
                          \union (WeakFindings(s.suites) \intersect BreachIndicators)
                          \union When(Answers(s, FeatureOffer) /\ "ccs" \in s.flaws,
                                      {"TLS-CCS-INJECTION"})
                          \union When(Answers(s, FeatureOffer) /\ "ticketbleed" \in s.flaws,
                                      {"TLS-TICKETBLEED"})
                          \union When(Answers(s, {\h002F}) /\ "padding" \in s.flaws,
                                      {"TLS-OPENSSL-PADDING-ORACLE"})
                          \union When(s.cert.keyAlg = "rsaEncryption", keyed)
                          \union When(Handshakes(s) # {},
                                      others \union When(revoked, {"TLS-OCSP-REVOKED"}))
    BY Zenon DEF Detectable
  <2>2. revoked => StatusDue(s) = "revoked"
    BY DEF StatusDue
  <2> HIDE DEF revoked
  <2>3. others \union When(revoked, {"TLS-OCSP-REVOKED"}) \subseteq CertDue(s)
    BY <2>2 DEF CertDue, When
  <2> HIDE DEF others, keyed
  <2>4. When(Handshakes(s) # {}, others \union When(revoked, {"TLS-OCSP-REVOKED"}))
          \subseteq When(Handshakes(s) # {}, CertDue(s))
    BY <2>3 DEF When
  <2>5. When(s.cert.keyAlg = "rsaEncryption", keyed) = When(RsaKey, keyed)
    BY DEF RsaKey
  <2> QED BY <2>1, <2>4, <2>5
<1>3. OldVersions(LegacySeen(s, {})) \subseteq findings \intersect BreachIndicators
  BY <1>1 DEF VersionsTold, OldVersions, When, BreachIndicators
<1>4. WeakFindings(s.suites) \subseteq findings
  BY <1>1 DEF SuitesTold
<1>5. flaws \union When(RsaKey, keyed) \subseteq findings \intersect BreachIndicators
  BY <1>1 DEF RobotTold, CcsTold, TicketbleedTold, PaddingTold, GoldendoodleTold, FlawTold,
              When, BreachIndicators
<1>6. When(Handshakes(s) # {}, CertDue(s)) \subseteq findings \intersect BreachIndicators
  <2>1. CertDue(s) \subseteq BreachIndicators
    BY DEF CertDue, When, BreachIndicators
  <2> QED BY <1>1, <2>1 DEF CertificateTold, When
<1> HIDE DEF flaws, keyed
<1> QED BY <1>2, <1>3, <1>4, <1>5, <1>6

(* The report of a complete scan.                                          *)
LEMMA ConcludeThorough ==
  ASSUME IInv, Conclude, full /\ faults = 0 => ToldSoFar
  PROVE  Thorough'
<1> DEFINE letter == Letter(seen.proto, seen.cert, seen.hsts, findings, seen.fs)
<1>1. /\ pc = "conclude" /\ pc' = "done" /\ full' = full /\ server' = server
      /\ UNCHANGED <<seen, findings>> /\ report'.passed = Passed(letter, findings)
      /\ faults' = 0 => faults = 0
  <2>1. faults \in Nat
    BY ScanAssumption DEF IInv, TypeOK
  <2> QED BY <2>1 DEF Conclude, Probe
<1>2. full' /\ faults' = 0 => ToldSoFar'
  <2> SUFFICES ASSUME full', faults' = 0 PROVE ToldSoFar'
    OBVIOUS
  <2>1. Inspecting'
    BY <1>1, StaysInspected DEF ToldSoFar
  <2> QED
    BY <1>1, <2>1
    DEF ToldSoFar, AfterLegacy, AfterCertificate, AfterSuites, AfterRobot, AfterCcs,
        AfterTicketbleed, AfterPadding, AfterGoldendoodle
<1>3. CompleteScanTells'
  <2> SUFFICES ASSUME full', faults' = 0
               PROVE  /\ Detectable(server) \subseteq findings
                      /\ Passed(letter, findings) =>
                           Detectable(server) = {} /\ Handshakes(server) # {}
    <3> HIDE DEF letter
    <3> QED BY <1>1 DEF CompleteScanTells
  <2>1. ToldSoFar /\ Detectable(server) \subseteq findings \intersect BreachIndicators
    BY <1>1, AllTold
  <2>2. Passed(letter, findings) => findings \intersect BreachIndicators = {}
    BY DEF Passed, Breaches
  <2>3. Passed(letter, findings) => seen.cert # NoCert
    BY PassingCert DEF IInv
  <2>4. seen.cert # NoCert => Handshakes(server) # {}
    BY <2>1 DEF ToldSoFar, Inspecting
  <2> QED BY <2>1, <2>2, <2>3, <2>4
<1> QED BY <1>2, <1>3 DEF Thorough

-----------------------------------------------------------------------------
(* Before the report there is none, and before the first probe no finding. *)
Unreported ==
  /\ pc # "done" => report = NoReport
  /\ pc = "connect" => findings = {}

(* What every step but the last one does to the report.                    *)
Gathers ==
  /\ pc # "done" /\ pc' # "connect" /\ report' = report
  /\ findings \subseteq findings'
  /\ pc' = "done" =>
       /\ pc = "connect"
       /\ findings' = findings \union {"TLS-UNREACHABLE"}
       /\ server' = server
       /\ server.reachable => faults' = faults + 1

(* Every step before the report only adds findings.                        *)
LEMMA StepGathers ==
  ASSUME Step, ~Conclude
  PROVE  Gathers
<1> USE DEF Probe, Push, Gathers
<1>1. ASSUME NEW lost \in BOOLEAN, Advance(lost) PROVE Gathers
  <2>1. CASE Connect(lost)
    BY <2>1 DEF Connect, When
  <2>2. CASE Handshake(lost) \/ StrictInspect(lost) \/ TolerantInspect(lost) \/ Staple(lost)
    BY <2>2 DEF Handshake, StrictInspect, TolerantInspect, Staple
  <2>3. CASE QueryResponder(lost) \/ ZeroRtt(lost) \/ EnumerateTls13(lost)
             \/ EnumerateTls12(lost)
    BY <2>3 DEF QueryResponder, ZeroRtt, EnumerateTls13, EnumerateTls12
  <2>4. CASE Robot(lost) \/ DhAndCbc(lost) \/ TlsFeatures(lost) \/ Heartbleed(lost)
    BY <2>4 DEF Robot, DhAndCbc, TlsFeatures, Heartbleed
  <2>5. CASE Ccs(lost) \/ Ticketbleed(lost) \/ Headers(lost) \/ Fingerprint(lost)
    BY <2>5 DEF Ccs, Ticketbleed, Headers, Fingerprint
  <2>6. CASE PaddingOracle(lost) \/ Goldendoodle(lost) \/ Grease(lost)
    BY <2>6 DEF PaddingOracle, Goldendoodle, Grease
  <2>7. CASE ForwardSecrecy(lost) \/ FallbackScsv(lost)
    BY <2>7 DEF ForwardSecrecy, FallbackScsv
  <2> QED BY <1>1, <2>1, <2>2, <2>3, <2>4, <2>5, <2>6, <2>7 DEF Advance
<1>2. ASSUME NEW lost \in SUBSET Legacy, LegacyVersions(lost) PROVE Gathers
  BY <1>2 DEF LegacyVersions
<1>3. CASE InspectConnectFails
  BY <1>3 DEF InspectConnectFails
<1>4. CASE JudgeBanner
  BY <1>4 DEF JudgeBanner
<1> QED BY <1>1, <1>2, <1>3, <1>4 DEF Step

(* A target without a report has not passed.                               *)
LEMMA NoReportFails == NoReport.passed = FALSE
  BY Zenon DEF NoReport

(* The abstract report speaks of the same IDs.                             *)
LEMMA SameCatalog ==
  /\ AbstractReport!Critical = Critical
  /\ AbstractReport!BreachIndicators = BreachIndicators
  BY DEF AbstractReport!Critical, AbstractReport!BreachIndicators, Critical, BreachIndicators

(* Nothing is reported before the scan is done.                            *)
LEMMA UnreportedInvariant == Spec => []Unreported
<1>1. Init => Unreported
  BY DEF Init, Unreported
<1>2. ASSUME Unreported, [Next]_vars PROVE Unreported'
  <2>1. CASE Conclude
    BY <2>1 DEF Conclude, Probe, Unreported
  <2>2. CASE Step /\ ~Conclude
    BY <1>2, <2>2, StepGathers DEF Gathers, Unreported
  <2>3. CASE UNCHANGED vars
    BY <1>2, <2>3 DEF vars, Unreported
  <2> QED BY <1>2, <2>1, <2>2, <2>3 DEF Next, Terminated
<1> QED BY <1>1, <1>2, PTL DEF Spec

(* scan_one implements what a report promises: its first states and each of*)
(* its steps map to those of Assessment.tla, or to a stutter.  That every  *)
(* scan ends is liveness and stays with the model checker.                 *)
THEOREM Implementation ==
  Spec => AbstractReport!Init /\ [][AbstractReport!Next]_AbstractReport!vars
<1>1. Init => AbstractReport!Init
  <2>1. Init => findings = {} /\ report = NoReport /\ pc # "done"
    BY DEF Init
  <2>2. NoReport.breaches = {}
    BY DEF NoReport
  <2> QED BY <2>1, <2>2, NoReportFails DEF AbstractReport!Init
<1>2. ASSUME Unreported, [Next]_vars
      PROVE  [AbstractReport!Next]_AbstractReport!vars
  <2>1. CASE Conclude
    <3> DEFINE letter == Letter(seen.proto, seen.cert, seen.hsts, findings, seen.fs)
    <3>1. /\ pc = "conclude" /\ pc' = "done" /\ findings' = findings
          /\ report'.passed = Passed(letter, findings)
          /\ report'.breaches = Breaches(findings)
      BY <2>1 DEF Conclude, Probe
    <3>2. Passed(letter, findings) =>
            findings \intersect (Critical \union BreachIndicators) = {}
      BY DEF Passed, Breaches
    <3> HIDE DEF letter
    <3>3. AbstractReport!Conclude
      BY <3>1, <3>2, SameCatalog DEF AbstractReport!Conclude, Breaches
    <3> QED BY <3>3 DEF AbstractReport!Next
  <2>2. CASE Step /\ ~Conclude /\ pc' # "done"
    <3>1. AbstractReport!Gather
      BY <2>2, StepGathers DEF Gathers, AbstractReport!Gather
    <3> QED BY <3>1 DEF AbstractReport!Next
  <2>3. CASE Step /\ ~Conclude /\ pc' = "done"
    <3>1. /\ report' = NoReport /\ pc # "done"
          /\ findings = {} /\ findings' = {"TLS-UNREACHABLE"}
      BY <1>2, <2>3, StepGathers DEF Gathers, Unreported
    <3>2. findings' \intersect (Critical \union BreachIndicators) = {}
      BY <3>1 DEF Critical, BreachIndicators
    <3>3. AbstractReport!Conclude
      <4>1. NoReport.breaches = findings' \intersect BreachIndicators
        BY <3>1 DEF NoReport, BreachIndicators
      <4> QED BY <2>3, <3>1, <3>2, <4>1, SameCatalog, NoReportFails DEF AbstractReport!Conclude
    <3> QED BY <3>3 DEF AbstractReport!Next
  <2>4. CASE UNCHANGED vars
    BY <2>4 DEF vars, AbstractReport!vars
  <2> QED BY <1>2, <2>1, <2>2, <2>3, <2>4 DEF Next, Terminated
<1> QED BY <1>1, <1>2, UnreportedInvariant, PTL DEF Spec

-----------------------------------------------------------------------------
(* Every step of a complete scan preserves the invariant.                  *)
LEMMA NextThorough == IInv /\ Thorough /\ [Next]_vars => Thorough'
<1> SUFFICES ASSUME IInv, Thorough, [Next]_vars PROVE Thorough'
  OBVIOUS
<1>0. TypeOK /\ (full /\ faults = 0 => ToldSoFar)
  BY DEF IInv, Thorough
<1>a. ASSUME ~Conclude, Step, full' /\ faults' = 0 => ToldSoFar' PROVE Thorough'
  <2>1. pc' = "done" => ~server'.reachable \/ faults' # 0
    <3>1. faults \in Nat
      BY <1>0, ScanAssumption DEF TypeOK
    <3> QED BY <1>a, <3>1, StepGathers DEF Gathers
  <2> QED BY <1>a, <2>1 DEF Thorough, CompleteScanTells
<1>1. ASSUME NEW lost \in BOOLEAN, Advance(lost), full', faults' = 0 PROVE ToldSoFar'
  BY <1>0, <1>1, SilentThorough, ProbingThorough, CertificateThorough, SuitesThorough
  DEF Advance
<1>2. ASSUME NEW lost \in SUBSET Legacy, LegacyVersions(lost), full', faults' = 0
      PROVE  ToldSoFar'
  BY <1>0, <1>2, LegacyThorough
<1>3. ASSUME InspectConnectFails, full', faults' = 0 PROVE ToldSoFar'
  <2>1. faults \in Nat /\ faults' = faults + 1
    BY <1>0, <1>3, ScanAssumption DEF InspectConnectFails, Probe, TypeOK
  <2> QED BY <1>3, <2>1
<1>4. ASSUME JudgeBanner, full', faults' = 0 PROVE ToldSoFar'
  <2>1. /\ full /\ faults = 0 /\ pc = "banner" /\ pc' = "grease"
        /\ server' = server /\ seen' = seen /\ findings \subseteq findings'
    BY <1>0, <1>4, ProbeWhole DEF JudgeBanner, Push
  <2>2. Inspecting'
    BY <1>0, <2>1, StaysInspected DEF ToldSoFar
  <2> QED
    BY <1>0, <2>1, <2>2, StaysTold
    DEF ToldSoFar, AfterLegacy, AfterCertificate, AfterSuites, AfterRobot, AfterCcs,
        AfterTicketbleed, AfterPadding, AfterGoldendoodle
<1>5. CASE Conclude
  BY <1>0, <1>5, ConcludeThorough
<1>6. CASE Step /\ ~Conclude
  BY <1>a, <1>1, <1>2, <1>3, <1>4, <1>6 DEF Step
<1>7. CASE UNCHANGED vars
  <2>1. ToldSoFar' <=> ToldSoFar
    BY <1>7
    DEF vars, ToldSoFar, Inspecting, VersionsTold, CertificateTold, SuitesTold, RobotTold,
        CcsTold, TicketbleedTold, PaddingTold, GoldendoodleTold, RsaKey, FlawTold
  <2> QED BY <1>7, <2>1 DEF vars, Thorough, CompleteScanTells
<1> QED BY <1>5, <1>6, <1>7 DEF Next, Terminated

(* A complete scan that lost no probe tells every breach that its probes   *)
(* could see - an old version, a weak suite, a flaw, whatever is wrong with*)
(* the certificate -, and passes no target that has one, and none whose    *)
(* certificate it has not seen, however `passed` and the breach list are   *)
(* drawn from their tables.                                                *)
THEOREM CompleteTells == Spec => []CompleteScanTells
<1>1. Init => Thorough
  <2>1. Init => pc = "connect" /\ seen.cert = NoCert
    BY DEF Init, Unscanned
  <2> QED
    BY <2>1
    DEF Thorough, ToldSoFar, Inspecting, CompleteScanTells, AfterLegacy, AfterCertificate,
        AfterSuites, AfterRobot, AfterCcs, AfterTicketbleed, AfterPadding, AfterGoldendoodle
<1>2. IInv /\ Thorough /\ [Next]_vars => Thorough'
  BY NextThorough
<1>3. Thorough => CompleteScanTells
  BY DEF Thorough
<1> QED BY <1>1, <1>2, <1>3, Invariance, PTL DEF Spec
=============================================================================
