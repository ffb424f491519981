-------------------------- MODULE MCInstallMonitor --------------------------
(* Small instances of InstallMonitor: the node every connection comes from. *)
EXTENDS InstallMonitor

CONSTANTS n1, n2, c1, c2, c3, c4

\* Three connections of one node: one answered and two queued behind it, which
\* is the least that can be taken up in the wrong order.  The fourth is another
\* node's.
MCNodeOf == [c \in Conns |-> IF c = c4 THEN n2 ELSE n1]
=============================================================================
