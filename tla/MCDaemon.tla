------------------------------ MODULE MCDaemon ------------------------------
(* Instances of Daemon for TLC: which profiles exist and what is asked.     *)
EXTENDS Daemon, TLC

CONSTANTS c1, c2, c3, k1, k2, k3

P(c, v, x, n, r) ==
  [conn |-> c, ike |-> v, xauth |-> x, nets |-> n, rev |-> r]
Ask(op, c) == [op |-> op, conn |-> c, p |-> Absent]
Save(p) == [op |-> "ApplyProfile", conn |-> p.conn, p |-> p]

\* Two revisions of one profile, another one, and a name, c3, that connNameRE
\* does not accept.
FaultPayload == {P(c1, "v1", TRUE, 2, 1), P(c1, "v2", FALSE, 0, 2),
                 P(c2, "v2", FALSE, 0, 1)}
FaultRequests == {Save(p) : p \in FaultPayload}
                   \cup {Ask("RemoveProfile", c1), Ask("RemoveProfile", c3)}

\* One profile saved, once or twice, while another one is removed.
OverlapRequests == {Save(p) : p \in {q \in FaultPayload : q.conn = c1}}
                     \cup {Ask("RemoveProfile", c2)}

\* One IKEv1 split tunnel of two networks.
TunnelPayload == {P(c1, "v1", TRUE, 2, 1)}
TunnelRequests == {Ask(op, c1) : op \in {"Connect", "Disconnect", "Status"}}
\* The same with the profile edited or removed meanwhile.
MixedPayload == {P(c1, "v1", TRUE, 2, 1), P(c1, "v2", FALSE, 1, 2)}
MixedRequests == {Save(p) : p \in MixedPayload}
                   \cup {Ask(op, c1) : op \in {"Connect", "Disconnect",
                                               "RemoveProfile", "Status"}}

CallSymmetry == Permutations(Call)
=============================================================================
