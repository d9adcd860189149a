------------------------- MODULE CombinationalLoop -------------------------
(***************************************************************************)
(* The rule RISK_COMBINATIONAL_LOOP of src/sta_lite/risk/builtin_rules.py: *)
(* the dependency graph of a module's signals, Tarjan's search for its     *)
(* strongly connected components, and the choice of those that are loops.  *)
(* strongconnect recurses; calls is its stack of activations.  A set of    *)
(* neighbours has no order: the search takes them in any.                  *)
(***************************************************************************)
EXTENDS Naturals, Sequences, FiniteSets

CONSTANTS
    Name,    \* the identifiers of a module, as numbers in their sorted order
    Design   \* the modules to search

\* An assignment reads the names of its right-hand side, uses; under holds the
\* names in the if and case conditions around it.  conditions: the names in
\* all if and case conditions of the block.  signals: the ports and
\* declarations of the module without its parameters.
Assign == [target : Name, uses : SUBSET Name, under : SUBSET Name]
Block  == [combinational : BOOLEAN, conditions : SUBSET Name, assigns : SUBSET Assign]
Module == [signals : SUBSET Name, continuous : SUBSET Assign, blocks : SUBSET Block]

ASSUME LoopAssumption ==
    /\ Name \subseteq Nat /\ IsFiniteSet(Name)
    /\ \A d \in Design : /\ d.signals \subseteq Name
                         /\ \A a \in d.continuous : a \in Assign /\ a.under = {}
                         /\ \A b \in d.blocks :
                                /\ b \in Block
                                /\ \A a \in b.assigns : a.under \subseteq b.conditions

VARIABLES
    design,     \* the module
    graph,      \* its dependencies: the edges <<target, source>>
    indices,    \* the nodes found so far, each with the number it got
    lowlinks,   \* for the same nodes
    stack,      \* the nodes of no component yet; on_stack is its range
    calls,      \* the activations of strongconnect, each with its node and
                \* the neighbours its loop has left
    result      \* the components

input == <<design, graph>>
vars  == <<input, indices, lowlinks, stack, calls, result>>

-----------------------------------------------------------------------------
(* _combinational_dependency_graph: only signals are nodes. *)

Edges(d, target, sources) == ({target} \cap d.signals) \X (sources \cap d.signals)

ContinuousEdges(d) == UNION {Edges(d, a.target, a.uses) : a \in d.continuous}

\* Mutant of BlockEdges: conditions are no sources.
BlockEdgesBare(d) ==
    UNION {UNION {Edges(d, a.target, a.uses) : a \in b.assigns} :
               b \in {c \in d.blocks : c.combinational}}

\* An assignment depends on every condition of its block.
BlockEdges(d) ==
    UNION {UNION {Edges(d, a.target, a.uses \cup b.conditions) : a \in b.assigns} :
               b \in {c \in d.blocks : c.combinational}}

Nodes         == {e[1] : e \in graph} \cup {e[2] : e \in graph}
Neighbours(n) == {m \in Name : <<n, m>> \in graph}

-----------------------------------------------------------------------------
(* _tarjan_scc *)

Found    == DOMAIN indices
OnStack  == {stack[i] : i \in DOMAIN stack}
Innermost == calls[Len(calls)]
Callers  == SubSeq(calls, 1, Len(calls) - 1)
Lesser(a, b) == IF a < b THEN a ELSE b

TypeOK ==
    /\ graph \subseteq design.signals \X design.signals
    /\ Found \subseteq Name /\ indices \in [Found -> 0 .. Cardinality(Found) - 1]
    /\ lowlinks \in [Found -> 0 .. Cardinality(Found) - 1]
    /\ stack \in Seq(Found)
    /\ calls \in Seq([node : Found, left : SUBSET Name])
    /\ result \subseteq SUBSET Found

Init ==
    /\ design \in Design
    /\ graph = ContinuousEdges(design) \cup BlockEdges(design)
    /\ indices = <<>>
    /\ lowlinks = <<>>
    /\ stack = <<>>
    /\ calls = <<>>
    /\ result = {}

\* strongconnect(n) begins, below the activations in callers.
Enter(n, callers) ==
    /\ indices' = [m \in Found \cup {n} |-> IF m = n THEN Cardinality(Found) ELSE indices[m]]
    /\ lowlinks' = [m \in Found \cup {n} |-> IF m = n THEN Cardinality(Found) ELSE lowlinks[m]]
    /\ stack' = Append(stack, n)
    /\ calls' = Append(callers, [node |-> n, left |-> Neighbours(n)])
    /\ UNCHANGED <<input, result>>

\* Mutant of Root: every node is searched from, also one that was found.
RootAgain ==
    /\ calls = <<>>
    /\ \E n \in Nodes : Enter(n, calls)

\* The outer loop goes to the next node, in sorted order, that is not found yet.
Root ==
    /\ calls = <<>>
    /\ \E n \in Nodes \ Found : (\A m \in Nodes \ Found : n <= m) /\ Enter(n, calls)

\* The loop of the innermost activation takes a neighbour it has left.
Takes(m) ==
    /\ calls # <<>>
    /\ m \in Innermost.left

Rest(m) == Append(Callers, [Innermost EXCEPT !.left = @ \ {m}])

\* A neighbour not found before is searched first.
Descend(m) ==
    /\ Takes(m)
    /\ m \notin Found
    /\ Enter(m, Rest(m))

\* Mutant of LookBack: the stack is not consulted.
LookBackAnywhere(m) ==
    /\ Takes(m)
    /\ m \in Found
    /\ lowlinks' = [lowlinks EXCEPT ![Innermost.node] = Lesser(@, indices[m])]
    /\ calls' = Rest(m)
    /\ UNCHANGED <<input, indices, stack, result>>

\* A neighbour on the stack lowers the lowlink; one in a component does not.
LookBack(m) ==
    /\ Takes(m)
    /\ m \in Found
    /\ lowlinks' = IF m \in OnStack
                   THEN [lowlinks EXCEPT ![Innermost.node] = Lesser(@, indices[m])]
                   ELSE lowlinks
    /\ calls' = Rest(m)
    /\ UNCHANGED <<input, indices, stack, result>>

\* strongconnect returns, and the caller takes over the lowlink.
Return(lowest) ==
    /\ calls' = Callers
    /\ lowlinks' = IF Callers = <<>> THEN lowlinks
                   ELSE [lowlinks EXCEPT ![Callers[Len(Callers)].node] = Lesser(@, lowest)]

\* Mutant of Leave: the caller does not take over the lowlink.
LeaveAlone ==
    /\ calls # <<>>
    /\ Innermost.left = {}
    /\ lowlinks[Innermost.node] # indices[Innermost.node]
    /\ calls' = Callers
    /\ UNCHANGED <<input, indices, lowlinks, stack, result>>

\* A node that reaches further down the stack stays on it.
Leave ==
    /\ calls # <<>>
    /\ Innermost.left = {}
    /\ lowlinks[Innermost.node] # indices[Innermost.node]
    /\ Return(lowlinks[Innermost.node])
    /\ UNCHANGED <<input, indices, stack, result>>

\* One that does not is the root of a component: the stack from it upwards.
LeaveWithComponent ==
    /\ calls # <<>>
    /\ Innermost.left = {}
    /\ lowlinks[Innermost.node] = indices[Innermost.node]
    /\ \E i \in DOMAIN stack :
         /\ stack[i] = Innermost.node
         /\ stack' = SubSeq(stack, 1, i - 1)
         /\ result' = result \cup {{stack[j] : j \in i .. Len(stack)}}
    /\ Return(lowlinks[Innermost.node])
    /\ UNCHANGED <<input, indices>>

Done == calls = <<>> /\ Nodes \subseteq Found

Next ==
    \/ Root \/ Leave \/ LeaveWithComponent
    \/ \E m \in Name : Descend(m) \/ LookBack(m)
    \/ Done /\ UNCHANGED vars

Spec == Init /\ [][Next]_vars

-----------------------------------------------------------------------------
(* _rule_combinational_loop *)

\* Mutant of Loops: only components of several signals are loops.
LoopsOfSeveral == {c \in result : Cardinality(c) > 1}

\* A component is a loop if it has several signals or one that depends on itself.
Loops == {c \in result : Cardinality(c) > 1 \/ \E n \in c : <<n, n>> \in graph}

-----------------------------------------------------------------------------
(* Properties. *)

\* n is reached from m along one edge of E or more: it is in every set that
\* the edges do not lead out of and that has the successors of m.
Reaches(E, m, n) ==
    \A S \in SUBSET Name :
        (\A e \in E : e[1] \in S \cup {m} => e[2] \in S) => n \in S

Together(m, n) == m = n \/ (Reaches(graph, m, n) /\ Reaches(graph, n, m))

\* A component that strongconnect has put out is a whole class of signals
\* that reach each other, whatever the order of the neighbours was, and
\* no signal is in none when the search is done.
ComponentsAreClasses ==
    /\ \A c \in result : \A m \in c : c = {n \in Nodes : Together(m, n)}
    /\ Done => UNION result = Nodes

\* What keeps the search right: a lowlink is the number of a node on the
\* stack that can be reached, and every node on the stack reaches all
\* activations at or below its number.
StackIsConnected ==
    \A n \in OnStack :
        /\ \E m \in OnStack : indices[m] = lowlinks[n] /\ Together(m, n)
        /\ \A m \in {calls[i].node : i \in DOMAIN calls} :
               indices[m] <= indices[n] => m = n \/ Reaches(graph, m, n)

\* The signals an assignment really depends on: those it reads and those of
\* the conditions around it.
Depends ==
    UNION {Edges(design, a.target, a.uses \cup a.under) :
        a \in design.continuous \cup
              UNION {b.assigns : b \in {c \in design.blocks : c.combinational}}}

\* Every signal that depends on itself is in a loop that is reported.
RealLoopIsReported ==
    Done => \A n \in Name : Reaches(Depends, n, n) => n \in UNION Loops

=============================================================================
