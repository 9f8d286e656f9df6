------------------------------- MODULE MCRobot -------------------------------
(* Servers that react in one way to some malformations and in another to   *)
(* the rest, for keys with and without a zero byte in the padding.         *)
EXTENDS Robot

react(usual, odd, at) ==
  [m \in Malformations |-> IF m \in at THEN odd ELSE usual]

MCServers ==
  {[rsa |-> TRUE, modulus |-> n, reacts |-> react(usual, odd, at)] :
     n \in {64, 256}, usual \in {"bad_record_mac", "silent"},
     odd \in {"slow", "other_alert"},
     at \in {{}, {"first_byte", "second_byte"}, {"premaster_length", "short_padding"}}
              \union {{m} : m \in Malformations}}
  \union
  {[rsa |-> FALSE, modulus |-> 256, reacts |-> react("closed", "closed", {})]}
=============================================================================
