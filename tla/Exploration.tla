----------------------------- MODULE Exploration -----------------------------
(***************************************************************************)
(* What a worklist over code promises: starting from entries, to mark every *)
(* node that they lead to and no other.  The frontier holds the marked     *)
(* nodes whose successors are still to be looked at; in which order they   *)
(* are taken, and how they are kept, is left open.                         *)
(***************************************************************************)
CONSTANTS Entries(_),     \* the nodes where graph g is entered
          Succ(_, _)      \* the nodes that follow node n in graph g

VARIABLES graph, marked, frontier

vars == <<graph, marked, frontier>>

Init == marked = {} /\ frontier = {}

Enter == \E n \in Entries(graph) \ marked :
           /\ marked' = marked \cup {n}
           /\ frontier' = frontier \cup {n}

Visit == \E n \in frontier :
           /\ marked' = marked \cup Succ(graph, n)
           /\ frontier' = (frontier \ {n}) \cup (Succ(graph, n) \ marked)

Next == (Enter \/ Visit) /\ UNCHANGED graph

Spec == Init /\ [][Next]_vars

-----------------------------------------------------------------------------
(* The nodes entries lead to: those that no set closed under succession     *)
(* which holds the entries can leave out.                                  *)
Closed(g, S) == Entries(g) \subseteq S /\ \A n \in S : Succ(g, n) \subseteq S
Leads(g, n)  == \A S : Closed(g, S) => n \in S

Finished == Entries(graph) \subseteq marked /\ frontier = {}

(* When nothing is left to look at, exactly the nodes that the entries lead *)
(* to are marked, whatever the graph and the order of the visits.          *)
Exact == Finished => \A n : n \in marked <=> Leads(graph, n)
=============================================================================
