----------------------------- MODULE Datagrams ------------------------------
(***************************************************************************)
(* What one direction of a Session promises: every datagram has a number   *)
(* of its own, and is handed over unchanged and at most once.  It need not *)
(* be, datagrams may come in any order, and several at once when lost ones *)
(* are recovered together.                                                 *)
(***************************************************************************)
EXTENDS Sequences

CONSTANTS Numbers, Payloads

VARIABLES
    sent,           \* datagrams taken from the sender: [no, body]
    got             \* what was handed over, by number

vars == <<sent, got>>

Init == sent = {} /\ got = [n \in Numbers |-> <<>>]

Send(n, b) ==
    /\ \A m \in sent : m.no # n
    /\ sent' = sent \cup {[no |-> n, body |-> b]}
    /\ UNCHANGED got

\* Handed over for the first and only time.
Arrives(m) == got[m.no] = <<>> /\ got'[m.no] = <<m.body>>

Deliver ==
    /\ got' \in [Numbers -> Seq(Payloads)]
    /\ \A n \in Numbers : got'[n] = got[n] \/ \E m \in sent : m.no = n /\ Arrives(m)
    /\ UNCHANGED sent

Next == (\E n \in Numbers, b \in Payloads : Send(n, b)) \/ Deliver

Spec == Init /\ [][Next]_vars
=============================================================================
