-------------------------- MODULE MCTouchSameObject --------------------------
(***************************************************************************)
(* All control-flow graphs over two accesses and the start and the stop of *)
(* a ROI, for a function that holds the ROI and for one that holds none.   *)
(* The entry, x and the stop may end their block with a branch.  p and q   *)
(* point into one object, v is a variable of its own.                      *)
(***************************************************************************)
EXTENDS TouchSameObject

CONSTANTS x, y, s, t, p, q, v, roi

MCNodes  == {Entry, x, y, s, t, Exit}
MCBaseOf == [ptr \in {p, q, v} |-> IF ptr = v THEN NoBase ELSE p]

Layouts ==
    {[n \in MCNodes |->
        CASE n = x -> [op |-> "load", ptr |-> p]
          [] n = y -> y1
          [] n = s /\ own -> [op |-> "start", roi |-> roi]
          [] n = t /\ own -> [op |-> "stop", roi |-> roi]
          [] OTHER -> [op |-> "branch"]] :
      y1 \in {[op |-> "load", ptr |-> q], [op |-> "store", ptr |-> q],
              [op |-> "load", ptr |-> v]},
      own \in BOOLEAN}

\* Every node is on a path from the entry to the exit.
Connected(g) ==
    /\ \A S \in SUBSET (MCNodes \ {Entry, Exit}) :
          S # {} => /\ \E n \in MCNodes \ S : g[n] \cap S # {}
                    /\ \E n \in S : ~(g[n] \subseteq S)
    /\ \E n \in MCNodes : Exit \in g[n]

To(n)     == MCNodes \ {Entry, n}
Fork(n) == {{m1, m2} : m1, m2 \in To(n)}

Graphs ==
    {g \in {[n \in MCNodes |-> CASE n = Entry -> e [] n = x -> x1 [] n = y -> {y1}
                                 [] n = s -> {s1} [] n = t -> t1 [] OTHER -> {}] :
              e \in Fork(Entry), x1 \in Fork(x), t1 \in Fork(t),
              y1 \in To(y), s1 \in To(s)} : Connected(g)}

MCFunctions == [instr : Layouts, succ : Graphs]
==============================================================================
