---------------------------- MODULE MCCertAgeing ----------------------------
(* Certificates around every threshold of cert.rs, followed for two months *)
(* and more with a scan every 12 or 24 hours.                              *)
EXTENDS CertAgeing

day == 24
issued(lifetime, left) == [notBefore |-> (left - lifetime) * day, notAfter |-> left * day]

(* Lifetimes around 180 and 398 days, ends 1 to 32 days ahead, one just    *)
(* expired, and one whose window has not opened; and certificates fresh    *)
(* enough that what is left of them crosses 180 or 398 days meanwhile.     *)
Windows == {issued(90, 1), issued(90, 32), issued(179, 31), issued(180, 5),
            issued(398, 30), issued(399, 31), issued(365, 0),
            [notBefore |-> 30, notAfter |-> 90 * day]}

mk(w, inter, flaws, scts, ops, rejected) ==
  [notBefore |-> w.notBefore, notAfter |-> w.notAfter, intermediates |-> inter,
   keyAlg |-> "rsaEncryption", keyBits |-> 4096, flaws |-> flaws, scts |-> scts,
   operators |-> ops, stapled |-> TRUE, ocspStatus |-> "good",
   mozillaTrusted |-> FALSE, rejectedBy |-> rejected]

MCCerts ==
  {mk(w, inter, flaws, sct, 2, {}) :
     w \in Windows, inter \in {{}, {31 * day}, {91 * day, 400 * day}},
     flaws \in {{}, {"unanchored"}, {"self_signed"}, {"no_server_auth"}},
     sct \in {0, 2, 3}}
  \union
  {mk(issued(90, 60), {5 * day}, flaws, 2, ops, r) :
     flaws \in {{}, {"self_signed"}}, ops \in {1, 2}, r \in SUBSET {"apple", "java"}}
  \union
  {mk(issued(life, left), {}, {}, sct, 2, {}) :
     life \in {365, 440}, left \in {200, 420}, sct \in {2, 3}}

MCMaxAge == 65 * day
=============================================================================
