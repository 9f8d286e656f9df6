------------------------------ MODULE Posture ------------------------------
(***************************************************************************)
(* The audits of what a peer advertises: the SSH algorithms of one server, *)
(* and the HTTP headers of one host.  The peer is changed step by step and *)
(* audited anew after each: what an audit says must move with it.          *)
(***************************************************************************)
EXTENDS Ssh, Headers

CONSTANTS
  SshPeers,              \* [server, fate] as Ssh describes them
  WebPeers,              \* [site, fate, host, list] as Headers does
  Algorithms,            \* list index -> names that may be added to it
  MaxOffers,             \* names in a list, at most
  Directives,            \* of the policies considered
  Tokens,                \* source expressions that may be in a policy
  Entries                \* names that may be in the preload list

SshPeer ==
  [server : [banner : STRING, lists : [1..7 -> Seq(STRING)]],
   fate : [packet : {"kexinit", "other", "failed"}, whole : Nat]]

Policy == UNION {[S -> SUBSET Tokens] : S \in SUBSET Directives}
Hsts == [maxAge : Nat, sub : BOOLEAN, preload : BOOLEAN]
Site ==
  [ok : BOOLEAN, hsts : {Absent} \union Hsts, csp : {Absent} \union Policy, sent : SUBSET STRING,
   cookies : SUBSET SUBSET STRING, allow : SUBSET STRING, allows : BOOLEAN]
WebPeer ==
  [site : Site, fate : [get : BOOLEAN, options : BOOLEAN, retry : BOOLEAN],
   host : Seq(STRING) \ {<<>>}, list : UNION {[S -> BOOLEAN] : S \in SUBSET Entries}]

(* No entry of the embedded list is a top-level domain.                    *)
ASSUME PostureAssumption ==
  /\ SshPeers \subseteq SshPeer /\ WebPeers \subseteq WebPeer
  /\ MaxOffers \in Nat
  /\ DOMAIN Algorithms \subseteq 1..7 /\ \A i \in DOMAIN Algorithms : Algorithms[i] \subseteq STRING
  /\ Directives \subseteq STRING /\ "absent" \notin Directives
  /\ Tokens \subseteq STRING
  /\ Entries \subseteq Seq(STRING) /\ \A name \in Entries : Len(name) > 1

VARIABLES
  ssh,                   \* the SSH peer
  web,                   \* the HTTPS host
  report,                \* what `cy-tls ssh` says of the one
  found                  \* the findings on the headers of the other

posture == <<ssh, web, report, found>>

SshAudit(s) == run_ssh_audit(s.server, s.fate)
WebAudit(w) == contribute_findings(fetch(w.site, w.fate, w.list, w.host))

Audited == report = SshAudit(ssh) /\ found = WebAudit(web)

PostureInit == ssh \in SshPeers /\ web \in WebPeers /\ Audited

(* The SSH server offers one more algorithm.                               *)
Offer(i, name) ==
  /\ Len(ssh.server.lists[i]) < MaxOffers
  /\ ssh' = [ssh EXCEPT !.server.lists[i] = Append(@, name)]
  /\ report' = SshAudit(ssh')
  /\ UNCHANGED <<web, found>>

(* The site's policy allows one more source.                               *)
AllowSource(directive, token) ==
  /\ web' = [web EXCEPT !.site.csp[directive] = @ \union {token}]
  /\ found' = WebAudit(web')
  /\ UNCHANGED <<ssh, report>>

(* The site says more about its transport security.                        *)
Strengthen ==
  /\ web.site.hsts # Absent
  /\ \/ \E age \in {ShortAge, YearAge} :
          /\ web.site.hsts.maxAge < age
          /\ web' = [web EXCEPT !.site.hsts.maxAge = age]
     \/ web' = [web EXCEPT !.site.hsts.sub = TRUE]
     \/ web' = [web EXCEPT !.site.hsts.preload = TRUE]
  /\ found' = WebAudit(web')
  /\ UNCHANGED <<ssh, report>>

(* An entry of the preload list is extended to its subdomains.             *)
IncludeSubdomains(name) ==
  /\ web' = [web EXCEPT !.list[name] = TRUE]
  /\ found' = WebAudit(web')
  /\ UNCHANGED <<ssh, report>>

PostureNext ==
  \/ \E i \in DOMAIN Algorithms : \E name \in Algorithms[i] : Offer(i, name)
  \/ /\ web.site.csp # Absent
     /\ \E d \in DOMAIN web.site.csp, token \in Tokens : AllowSource(d, token)
  \/ Strengthen
  \/ \E name \in DOMAIN web.list : IncludeSubdomains(name)

PostureSpec == PostureInit /\ [][PostureNext]_posture

-----------------------------------------------------------------------------
(* An SSH server that offers more is not reported better: each weakness    *)
(* stays, as severe or more so, but for Terrapin when the server marks     *)
(* that it knows the remedy.                                               *)
MarksStrict == Contains(ssh.server.lists[KEX], StrictKex)
OfferingMoreNeverHelps ==
  [][/\ report'.exit = report.exit
     /\ \A f \in report.findings :
          \/ f.severity = "Info"
          \/ \E g \in report'.findings : g.id = f.id /\ rank[g.severity] >= rank[f.severity]
          \/ f.id = "SSH-TERRAPIN" /\ ~MarksStrict /\ MarksStrict']_posture

(* A clean result is said only of a server whose key exchange was read and *)
(* of whose lists, as far as they arrived, nothing is held against a name: *)
(* no table's rule, no CBC mode, no mode open to Terrapin without the      *)
(* remedy.  Of lists that did not arrive it says nothing.                  *)
Suspect(name, rules) == \E i \in DOMAIN rules : matches(name, rules[i])
CleanIsReviewed ==
  flag("SSH-ALGOS-OK", "Info") \in report.findings =>
    /\ ssh.fate.packet = "kexinit" /\ ssh.fate.whole >= KEX
    /\ ~VersionOne(ssh.server.banner)
    /\ \A table \in {<<KEX, WEAK_KEX>>, <<HOST_KEY, WEAK_HOSTKEY>>,
                     <<CIPHER, WEAK_CIPHER>>, <<MAC, WEAK_MAC>>} :
         table[1] <= ssh.fate.whole =>
           \A name \in ToSet(ssh.server.lists[table[1]]) : ~Suspect(name, table[2])
    /\ CIPHER <= ssh.fate.whole =>
         \A c \in ToSet(ssh.server.lists[CIPHER]) : ~Cbc(c) /\ (ChaCha(c) => MarksStrict)
    /\ MAC <= ssh.fate.whole =>
         \A m \in ToSet(ssh.server.lists[MAC]) : Etm(m) => MarksStrict

(* A policy that allows more is not judged milder: what is found of it is  *)
(* found still, and inline scripts stay as severe, unless it was a guess   *)
(* that the inline sources found concern scripts at all.                   *)
Guessed(csp) ==
  INLINE \notin ScriptTokens(csp) /\ classify_csp_unsafe_inline(csp) = "Medium"
AllowingMoreNeverHelps ==
  [][web'.site.csp # web.site.csp =>
       /\ found \subseteq found'
       /\ classify_csp_unsafe_inline(web.site.csp) = "Medium" =>
            classify_csp_unsafe_inline(web'.site.csp) = "Medium" \/ Guessed(web.site.csp)]_posture

(* Of TRACE and the preload list, what is found of a site is true of it.   *)
(* TRACE is found on a server that lists it, whatever status it answers    *)
(* with, if no request is lost, and on no other.  A host told to submit    *)
(* itself to the list is one whose header has nothing else wrong and which *)
(* the list does not have, under whatever name it would inherit an entry.  *)
TraceIsSeen ==
  /\ "HTTP-TRACE-ENABLED" \in found => "TRACE" \in web.site.allow
  /\ ("TRACE" \in web.site.allow /\ web.site.ok /\ web.fate.get /\ web.fate.options /\ web.fate.retry)
       => "HTTP-TRACE-ENABLED" \in found

EligibleIsReady ==
  "HSTS-PRELOAD-ELIGIBLE-BUT-UNREGISTERED" \in found =>
    /\ found \intersect {"HSTS-MISSING", "HSTS-SHORT-MAX-AGE", "HSTS-NO-SUBDOMAINS"} = {}
    /\ "HSTS-NOT-PRELOADED" \in found
    /\ \A i \in 1..Len(web.host) :
         From(web.host, i) \in DOMAIN web.list => i > 1 /\ ~web.list[From(web.host, i)]

FoundIsTrue == TraceIsSeen /\ EligibleIsReady

(* The lookup finds a host that is in the list or below an entry that      *)
(* includes its subdomains, and the closest such entry.  `verify-preload`, *)
(* which drops a leading "www", misses a host only if the entry is the     *)
(* www name itself.                                                        *)
PreloadAnswers ==
  LET host == web.host
      list == web.list
      covers(name) == name \in DOMAIN list /\ (name = host \/ list[name])
      matched == is_preloaded(list, host)
  IN  /\ matched = None <=> \A i \in 1..Len(host) : ~covers(From(host, i))
      /\ matched # None => /\ covers(matched)
                           /\ \A i \in 1..(Len(host) - Len(matched)) : ~covers(From(host, i))
      /\ matched # None /\ ~verify(list, host).preloaded =>
           matched = host /\ Head(host) = "www"
=============================================================================
