------------------------ MODULE MCCombinationalLoop ------------------------
(* The modules that the TLC runs of CombinationalLoop search. *)
EXTENDS CombinationalLoop

CONSTANT Wide   \* the number of names in the modules of assigns only

Names == 0 .. Wide

\* Name 0 is a parameter.
Continuous(edges) == {[target |-> e[1], uses |-> {e[2]}, under |-> {}] : e \in edges}
Plain(edges) == [signals |-> 1 .. Wide, continuous |-> Continuous(edges), blocks |-> {}]

\* Every graph of three signals, with the parameter read, too, and every
\* graph of Wide signals in which none reads itself.
Small == {Plain(E \cup {<<1, 0>>}) : E \in SUBSET ((1 .. 3) \X (1 .. 3))}
Loopless == {Plain(E) : E \in SUBSET {e \in (1 .. Wide) \X (1 .. Wide) : e[1] # e[2]}}

\* A block of two assignments beside at most one continuous one.
Assigns == {[target |-> t, uses |-> u, under |-> c] :
               t \in {1, 2}, u \in {{}, {1}, {2}}, c \in {{}, {1}, {3}}}
Procedural ==
    {[signals |-> 1 .. 3, continuous |-> Continuous(E),
      blocks |-> {[combinational |-> k, conditions |-> a.under \cup b.under, assigns |-> {a, b}]}] :
        E \in {{}, {<<3, 2>>}, {<<1, 2>>}}, k \in BOOLEAN, a \in Assigns, b \in Assigns}

Designs == Small \cup Loopless \cup Procedural
Blocks  == Procedural
=============================================================================
