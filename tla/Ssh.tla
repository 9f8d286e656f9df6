-------------------------------- MODULE Ssh --------------------------------
(***************************************************************************)
(* `cy-tls ssh` (ssh_algos.rs): the algorithms a server advertises in its  *)
(* KEXINIT, held against four tables of weak ones.  A server is a record   *)
(*   banner   its version line; of one that has sent none after 4096 bytes *)
(*            what there is of its last line, which may be ""              *)
(*   lists    the seven name-lists of its KEXINIT that are read, as sent   *)
(* and of the handshake with it, which one timer covers, comes             *)
(*   "kexinit"  the packet, of which so many lists arrive whole            *)
(*   "other"    another message first                                      *)
(*   "failed"   no connection, the end of the stream, a packet that cannot *)
(*              be one, or the timeout                                     *)
(***************************************************************************)
EXTENDS Naturals, Sequences, SequencesExt

CONSTANTS
  StartsWith(_, _),      \* str::starts_with: a text and what it may begin with
  EndsWith(_, _)         \* str::ends_with

KEX == 1
HOST_KEY == 2
CIPHER == 3
CIPHER_S2C == 4
MAC == 5
MAC_S2C == 6
COMPRESSION == 7

(* Rules are <<name, whether it is matched as a prefix, severity>>.        *)
WEAK_KEX == <<
  <<"diffie-hellman-group1-sha1", FALSE, "High">>,
  <<"diffie-hellman-group-exchange-sha1", FALSE, "Medium">>,
  <<"diffie-hellman-group14-sha1", FALSE, "Medium">>,
  <<"rsa1024-sha1", FALSE, "High">>,
  <<"gss-group1-sha1-", TRUE, "High">> >>

WEAK_HOSTKEY == << <<"ssh-dss", FALSE, "High">>, <<"ssh-rsa", FALSE, "Medium">> >>

WEAK_CIPHER == <<
  <<"none", FALSE, "Critical">>,
  <<"arcfour", TRUE, "High">>,
  <<"3des-cbc", FALSE, "Medium">>,
  <<"blowfish-cbc", FALSE, "Medium">>,
  <<"cast128-cbc", FALSE, "Medium">>,
  <<"des-cbc", FALSE, "Critical">>,
  <<"rijndael-cbc@lysator.liu.se", FALSE, "Medium">> >>

WEAK_MAC == <<
  <<"none", FALSE, "Critical">>,
  <<"hmac-md5", TRUE, "High">>,
  <<"hmac-sha1-96", FALSE, "Medium">>,
  <<"hmac-sha2-256-96", FALSE, "Medium">>,
  <<"hmac-sha2-512-96", FALSE, "Medium">>,
  <<"umac-64", TRUE, "Medium">>,
  <<"hmac-ripemd160", TRUE, "Medium">> >>

StrictKex == "kex-strict-s-v00@openssh.com"

matches(name, rule) == IF rule[2] THEN StartsWith(name, rule[1]) ELSE name = rule[1]

-----------------------------------------------------------------------------
(* A list whose length runs past the packet is empty, and so is every one  *)
(* after it: what is read as its length is text, too large to be one.      *)
name_list(server, whole, i) == IF i <= whole THEN server.lists[i] ELSE <<>>

Failed == [failed |-> TRUE]

(* The banner alone is kept of a server whose first message is another.    *)
handshake(server, fate) ==
  CASE fate.packet = "failed" -> Failed
    [] fate.packet = "other"  -> [banner |-> server.banner, kex |-> <<>>, host_keys |-> <<>>,
                                  ciphers |-> <<>>, macs |-> <<>>]
    [] OTHER ->
         LET read(i) == name_list(server, fate.whole, i)
         IN  [banner |-> server.banner, kex |-> read(KEX), host_keys |-> read(HOST_KEY),
              ciphers |-> read(CIPHER), macs |-> read(MAC)]

(* The first rule that matches decides on a name.                          *)
Hits(name, rules) == {i \in DOMAIN rules : matches(name, rules[i])}
First(name, rules) == CHOOSE i \in Hits(name, rules) : \A j \in Hits(name, rules) : i <= j

(* The severities of the names some rule matches.                          *)
scan_list(list, rules) ==
  {rules[First(name, rules)][3] : name \in {n \in ToSet(list) : Hits(n, rules) # {}}}

rank == [Critical |-> 4, High |-> 3, Medium |-> 2, Low |-> 1, Info |-> 0]

(* By the order in which the enum declares them, a mutated form, Critical  *)
(* is the least.                                                           *)
worstDeclared(hits) == CHOOSE s \in hits : \A t \in hits : rank[s] <= rank[t]
worst(hits) ==
  CHOOSE s \in hits \union {"Info"} : \A t \in hits \union {"Info"} : rank[t] <= rank[s]

flag(id, severity) == [id |-> id, severity |-> severity]

WeakList(id, list, rules) ==
  LET hits == scan_list(list, rules)
  IN  IF hits = {} THEN {} ELSE {flag(id, worst(hits))}

strict_kex(k) == Contains(k.kex, StrictKex)

ChaCha(cipher) == StartsWith(cipher, "chacha20-poly1305")
Etm(mac) == EndsWith(mac, "-etm@openssh.com")
Cbc(cipher) == EndsWith(cipher, "-cbc")

Terrapin(k) ==
  /\ (\E c \in ToSet(k.ciphers) : ChaCha(c)) \/ \E m \in ToSet(k.macs) : Etm(m)
  /\ ~strict_kex(k)

VersionOne(banner) == StartsWith(banner, "SSH-1.")

Weaknesses(k) ==
  (IF VersionOne(k.banner) THEN {flag("SSH-PROTO-V1", "Critical")} ELSE {})
  \union WeakList("SSH-KEX-WEAK", k.kex, WEAK_KEX)
  \union WeakList("SSH-HOSTKEY-WEAK", k.host_keys, WEAK_HOSTKEY)
  \union WeakList("SSH-CIPHER-WEAK", k.ciphers, WEAK_CIPHER)
  \union WeakList("SSH-MAC-WEAK", k.macs, WEAK_MAC)
  \union (IF \E c \in ToSet(k.ciphers) : Cbc(c)
            THEN {flag("SSH-CIPHER-CBC", "Medium")} ELSE {})
  \union (IF Terrapin(k) THEN {flag("SSH-TERRAPIN", "Medium")} ELSE {})

(* A clean result without a look at the key exchange, a mutated form.      *)
CleanUnread(weaknesses, k) == weaknesses = {}
Clean(weaknesses, k) == weaknesses = {} /\ k.kex # <<>>

audit(k) ==
  LET weaknesses == Weaknesses(k)
  IN  weaknesses
      \union (IF k.banner # "" THEN {flag("SSH-BANNER", "Info")} ELSE {})
      \union (IF Clean(weaknesses, k) THEN {flag("SSH-ALGOS-OK", "Info")} ELSE {})

(* Exit with 2, and no finding, when the handshake fails.                  *)
run_ssh_audit(server, fate) ==
  LET k == handshake(server, fate)
  IN  IF k = Failed THEN [exit |-> 2, findings |-> {}]
      ELSE [exit |-> 0, findings |-> audit(k)]
=============================================================================
