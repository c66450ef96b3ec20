------------------------------ MODULE AuthGate ------------------------------
(***************************************************************************)
(* What the polkit check promises the machine's administrator, with no     *)
(* word on how the daemon works: the privileged files and the tunnels of a *)
(* connection change only while a grant for that connection is in force,   *)
(* and only in the way that grant allows.  (service.go:14-18)              *)
(***************************************************************************)
CONSTANTS Conn, ValidConn

VARIABLES
  main,   \* swanctl.conf
  entry,  \* the conf.d files of each connection
  up,     \* the connections with an SA, or negotiating one
  grants  \* [op, conn] that polkit has admitted and that are being served

gate == <<main, entry, up, grants>>

Granted(op, c) == [op |-> op, conn |-> c] \in grants

Grant(op, c) ==
  /\ c \in ValidConn
  /\ grants' = grants \cup {[op |-> op, conn |-> c]}
  /\ UNCHANGED <<main, entry, up>>

\* A grant ends with its call; tunnels may go down at any time.
Release ==
  /\ grants' \subseteq grants
  /\ up' \subseteq up
  /\ UNCHANGED <<main, entry>>

\* Only saving a profile may touch swanctl.conf.
EditMain ==
  /\ \E c \in ValidConn : Granted("ApplyProfile", c)
  /\ UNCHANGED <<entry, up, grants>>

EditEntry(c) ==
  /\ Granted("ApplyProfile", c) \/ Granted("RemoveProfile", c)
  /\ \A d \in Conn \ {c} : entry'[d] = entry[d]
  /\ UNCHANGED <<main, up, grants>>

Raise(c) ==
  /\ Granted("Connect", c)
  /\ up' = up \cup {c}
  /\ UNCHANGED <<main, entry, grants>>

Init == grants = {}

Next ==
  \/ \E c \in Conn : \/ Grant("ApplyProfile", c) \/ Grant("RemoveProfile", c)
                     \/ Grant("Connect", c) \/ Grant("Disconnect", c)
  \/ Release
  \/ EditMain
  \/ \E c \in ValidConn : EditEntry(c) \/ Raise(c)

Spec == Init /\ [][Next]_gate
=============================================================================
