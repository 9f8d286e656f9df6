----------------------------- MODULE MCPosture -----------------------------
(***************************************************************************)
(* Servers with a sound and a weak algorithm or two in each list, cut at   *)
(* every list; sites that differ in one respect each.  Only one of the two *)
(* peers is of interest at a time, the other is a plain one.               *)
(***************************************************************************)
EXTENDS Posture

ChaCha20 == "chacha20-poly1305@openssh.com"
HmacEtm == "hmac-sha2-512-etm@openssh.com"

(* What the prefixes and suffixes that are asked for make of the texts     *)
(* below.                                                                  *)
MCStartsWith(text, prefix) ==
  <<text, prefix>> \in {
    <<"arcfour256", "arcfour">>, <<"hmac-md5-96", "hmac-md5">>,
    <<ChaCha20, "chacha20-poly1305">>, <<"SSH-1.99-OpenSSH_3.9", "SSH-1.">>}
MCEndsWith(text, suffix) ==
  <<text, suffix>> \in {
    <<"3des-cbc", "-cbc">>, <<"aes192-cbc", "-cbc">>, <<HmacEtm, "-etm@openssh.com">>}

MCAlgorithms == [i \in {KEX, HOST_KEY, CIPHER, MAC} |->
  CASE i = KEX      -> {"diffie-hellman-group1-sha1", StrictKex}
    [] i = HOST_KEY -> {"ssh-rsa"}
    [] i = CIPHER   -> {"arcfour256", "3des-cbc", "aes192-cbc", ChaCha20}
    [] i = MAC      -> {"hmac-md5-96", HmacEtm}]

Lists == [i \in 1..7 |-> <<>>]
server_(banner) == [banner |-> banner, lists |-> Lists]
Fates == {[packet |-> "failed", whole |-> 0], [packet |-> "other", whole |-> 0]}
         \union {[packet |-> "kexinit", whole |-> n] : n \in {0, 2, 7}}

PlainSsh ==
  [server |-> [banner |-> "", lists |-> [i \in 1..7 |-> <<"sound", "sound">>]],
   fate |-> [packet |-> "kexinit", whole |-> 7]]
AllSshPeers ==
  {[server |-> server_(b), fate |-> f] :
     b \in {"", "SSH-1.99-OpenSSH_3.9", "SSH-2.0-OpenSSH_9.6"}, f \in Fates}

PlainSite == [ok |-> TRUE, hsts |-> Absent, csp |-> Absent, sent |-> {"compressed", "via"},
              cookies |-> {{"secure"}}, allow |-> {"GET", "TRACE"}, allows |-> TRUE]
MCFates == [get : BOOLEAN, options : BOOLEAN, retry : BOOLEAN]
Answered == [get |-> TRUE, options |-> TRUE, retry |-> TRUE]

Example == <<"example", "com">>
www(name) == <<"www">> \o name
Hosts == {Example, www(Example), www(www(Example)), <<"a">> \o Example, <<"com">>}
MCEntries == {Example, www(Example), <<"com", "au">>}
MCLists == UNION {[S -> BOOLEAN] : S \in SUBSET MCEntries}

web_(site, fate, host, list) == [site |-> site, fate |-> fate, host |-> host, list |-> list]
PlainWeb == web_(PlainSite, Answered, Example, <<>>)

MCDirectives == {"default-src", "script-src", "script-src-elem", "style-src"}
Policies == UNION {[S -> {{}}] : S \in SUBSET MCDirectives}

AllWebPeers ==
  {web_([PlainSite EXCEPT !.csp = p], Answered, Example, <<>>) : p \in Policies}
  \union {web_([PlainSite EXCEPT !.hsts = [maxAge |-> a, sub |-> s, preload |-> p]], Answered, h, l) :
            a \in {0, ShortAge}, s \in BOOLEAN, p \in BOOLEAN, h \in Hosts, l \in MCLists}
  \union {web_([PlainSite EXCEPT !.ok = o, !.allow = m, !.allows = s], f, Example, <<>>) :
            o \in BOOLEAN, m \in {{}, {"GET"}, {"GET", "TRACE"}}, s \in BOOLEAN, f \in MCFates}

MCTokens == {INLINE, "'unsafe-eval'", "data:"}

MCSshPeers == AllSshPeers \union {PlainSsh}
MCWebPeers == AllWebPeers \union {PlainWeb}

MCInit ==
  /\ \/ ssh \in AllSshPeers /\ web = PlainWeb
     \/ ssh = PlainSsh /\ web \in AllWebPeers
  /\ Audited

MCSpec == MCInit /\ [][PostureNext]_posture
=============================================================================
