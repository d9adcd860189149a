------------------------------ MODULE LoopProofs ------------------------------
(***************************************************************************)
(* Proofs about module CombinationalLoop: the search finds the strongly    *)
(* connected components of every graph, whatever the order in which the    *)
(* neighbours of a signal are taken, and the rule misses no loop.          *)
(***************************************************************************)
EXTENDS CombinationalLoop, SequenceTheorems, FiniteSetTheorems, TLAPS

USE DEF input, vars

-----------------------------------------------------------------------------
(* The inductive invariant. *)

PutOut   == UNION result
Leads(m, n) == m = n \/ Reaches(graph, m, n)

\* The innermost activation at or below a node of the stack.
Owns(i, n) ==
    /\ indices[calls[i].node] <= indices[n]
    /\ \A k \in DOMAIN calls : i < k => indices[n] < indices[calls[k].node]

\* The graph is the design's.
GraphInv == design \in Design /\ graph = ContinuousEdges(design) \cup BlockEdges(design)

\* The numbers are distinct and grow along the stack and along the activations,
\* whose nodes are on the stack.
Numbered ==
    /\ \A m, n \in Found : indices[m] = indices[n] => m = n
    /\ \A n \in Found : lowlinks[n] <= indices[n]
    /\ \A i, k \in DOMAIN stack : i < k => indices[stack[i]] < indices[stack[k]]
    /\ \A i, k \in DOMAIN calls : i < k => indices[calls[i].node] < indices[calls[k].node]
    /\ \A i \in DOMAIN calls : calls[i].node \in OnStack

\* A node that was found is a node of the graph, on the stack or put out.
Partitioned ==
    /\ Found \subseteq Nodes
    /\ Found = OnStack \cup PutOut
    /\ OnStack \cap PutOut = {}

\* An edge out of a node that was found leads to one that was found, unless
\* an activation still has it left; none leads out of the components.
Explored ==
    /\ \A i \in DOMAIN calls : \A m \in calls[i].left : <<calls[i].node, m>> \in graph
    /\ \A m, n \in Name : <<m, n>> \in graph =>
           /\ m \in Found => n \in Found \/ \E i \in DOMAIN calls : m = calls[i].node /\ n \in calls[i].left
           /\ m \in PutOut => n \in PutOut

\* Every activation reaches the nodes of the stack above its own, and each of
\* them reaches an activation below it.
Connected ==
    \A n \in OnStack :
        /\ \A i \in DOMAIN calls : indices[calls[i].node] <= indices[n] => Leads(calls[i].node, n)
        /\ \E i \in DOMAIN calls : indices[calls[i].node] <= indices[n] /\ Leads(n, calls[i].node)

\* A lowlink is the number of a node of the stack that can be reached ...
LowReached == \A n \in OnStack : \E m \in OnStack : indices[m] = lowlinks[n] /\ Leads(n, m)

\* ... and of an activation's lowlink none of the edges that were taken above it
\* and below the next activation leads further down the stack.
LowBound ==
    \A i \in DOMAIN calls, n \in OnStack, m \in OnStack :
        Owns(i, n) /\ <<n, m>> \in graph /\ ~(n = calls[i].node /\ m \in calls[i].left)
            => lowlinks[calls[i].node] <= indices[m]

Classes == \A c \in result : \A m \in c : c = {n \in Nodes : Together(m, n)}

SearchInv == Numbered /\ Partitioned /\ Explored /\ Connected /\ LowReached /\ LowBound /\ Classes
LoopInv   == TypeOK /\ GraphInv /\ SearchInv

-----------------------------------------------------------------------------
(* Reachability.  Every fact about it comes from the closed sets. *)

LEMMA EdgeReaches == ASSUME NEW E, NEW m, NEW n, <<m, n>> \in E PROVE Reaches(E, m, n)
<1> SUFFICES ASSUME NEW S \in SUBSET Name, \A e \in E : e[1] \in S \cup {m} => e[2] \in S PROVE n \in S
  BY DEF Reaches
<1>1. <<m, n>>[1] \in S \cup {m} => <<m, n>>[2] \in S
  OBVIOUS
<1>2. QED
  BY <1>1

LEMMA ReachesTransitive ==
    ASSUME NEW E, NEW m, NEW n, NEW p, Reaches(E, m, n), Reaches(E, n, p) PROVE Reaches(E, m, p)
<1> SUFFICES ASSUME NEW S \in SUBSET Name, \A e \in E : e[1] \in S \cup {m} => e[2] \in S PROVE p \in S
  BY DEF Reaches
<1>1. n \in S
  BY DEF Reaches
<1>2. \A e \in E : e[1] \in S \cup {n} => e[2] \in S
  BY <1>1
<1>3. QED
  BY <1>2 DEF Reaches

LEMMA LeadsTransitive == \A m, n, p : Leads(m, n) /\ Leads(n, p) => Leads(m, p)
BY ReachesTransitive DEF Leads

LEMMA EdgeLeads == \A m, n : <<m, n>> \in graph => Leads(m, n)
BY EdgeReaches DEF Leads

\* What an edge set E leads out of S at no place is not left from within.
LEMMA ClosedSet ==
    ASSUME NEW E, NEW S \in SUBSET Name, \A e \in E : e[1] \in S => e[2] \in S,
           NEW m \in S, NEW n, Reaches(E, m, n)
    PROVE  n \in S
BY DEF Reaches

\* Fewer edges reach less.
LEMMA ReachesMonotonic ==
    ASSUME NEW D, NEW E, D \subseteq E, NEW m, NEW n, Reaches(D, m, n) PROVE Reaches(E, m, n)
BY DEF Reaches

\* The graph is one of names.
LEMMA GraphOfNames ==
    ASSUME TypeOK, GraphInv
    PROVE  /\ graph \subseteq Name \X Name
           /\ Nodes \subseteq Name
           /\ \A n : n \in Nodes <=> \E m \in Name : <<n, m>> \in graph \/ <<m, n>> \in graph
<1>1. graph \subseteq Name \X Name
  BY LoopAssumption DEF TypeOK, GraphInv
<1>2. \A e \in graph : e[1] \in Name /\ e[2] \in Name /\ e = <<e[1], e[2]>>
  BY <1>1
<1>3. Nodes \subseteq Name
  BY <1>2 DEF Nodes
<1>4. ASSUME NEW n, n \in Nodes PROVE \E m \in Name : <<n, m>> \in graph \/ <<m, n>> \in graph
  <2>1. PICK e \in graph : n = e[1] \/ n = e[2]
    BY <1>4 DEF Nodes
  <2>2. QED
    BY <1>2, <2>1
<1>5. ASSUME NEW n, NEW m \in Name, <<n, m>> \in graph \/ <<m, n>> \in graph PROVE n \in Nodes
  <2>1. CASE <<n, m>> \in graph
    <3>1. <<n, m>>[1] = n
      OBVIOUS
    <3>2. QED
      BY <2>1, <3>1 DEF Nodes
  <2>2. CASE <<m, n>> \in graph
    <3>1. <<m, n>>[2] = n
      OBVIOUS
    <3>2. QED
      BY <2>2, <3>1 DEF Nodes
  <2>3. QED
    BY <1>5, <2>1, <2>2
<1>6. QED
  BY <1>1, <1>3, <1>4, <1>5

-----------------------------------------------------------------------------
(* The sequences. *)

Frame == [node : Found, left : SUBSET Name]

\* The front of a sequence.
LEMMA Front ==
    ASSUME NEW S, NEW q \in Seq(S), NEW k \in 0 .. Len(q)
    PROVE  /\ SubSeq(q, 1, k) \in Seq(S) /\ Len(SubSeq(q, 1, k)) = k
           /\ \A i \in 1 .. k : SubSeq(q, 1, k)[i] = q[i]
<1>1. 1 \in Int /\ k \in Int /\ k \in Nat /\ Len(q) \in Nat
  OBVIOUS
<1>2. \A i \in 1 .. k : q[i] \in S
  OBVIOUS
<1>3. /\ SubSeq(q, 1, k) \in Seq(S)
      /\ Len(SubSeq(q, 1, k)) = IF 1 <= k THEN k - 1 + 1 ELSE 0
      /\ \A i \in 1 .. k - 1 + 1 : SubSeq(q, 1, k)[i] = q[1 + i - 1]
  BY <1>1, <1>2, SubSeqProperties
<1>4. \A i \in 1 .. k : i \in 1 .. k - 1 + 1 /\ 1 + i - 1 = i
  BY <1>1
<1>5. QED
  BY <1>1, <1>3, <1>4

LEMMA Shapes ==
    ASSUME TypeOK
    PROVE  /\ Len(stack) \in Nat /\ DOMAIN stack = 1 .. Len(stack)
           /\ Len(calls) \in Nat /\ DOMAIN calls = 1 .. Len(calls)
           /\ OnStack \subseteq Found
           /\ \A i \in DOMAIN calls : calls[i] \in Frame
           /\ calls # <<>> => /\ Len(calls) \in DOMAIN calls /\ Innermost = calls[Len(calls)]
                              /\ Callers \in Seq(Frame) /\ Len(Callers) = Len(calls) - 1
                              /\ \A i \in 1 .. Len(calls) - 1 : Callers[i] = calls[i]
                              /\ Callers = <<>> <=> Len(calls) = 1
<1>1. stack \in Seq(Found) /\ calls \in Seq(Frame)
  BY DEF TypeOK, Frame
<1>2. /\ Len(stack) \in Nat /\ DOMAIN stack = 1 .. Len(stack)
      /\ Len(calls) \in Nat /\ DOMAIN calls = 1 .. Len(calls)
  BY <1>1
<1>3. \A i \in DOMAIN calls : calls[i] \in Frame
  BY <1>1, <1>2
<1>4. \A i \in DOMAIN stack : stack[i] \in Found
  BY <1>1, <1>2
<1>5. OnStack \subseteq Found
  BY <1>4 DEF OnStack
<1>6. ASSUME calls # <<>>
      PROVE  /\ Len(calls) \in DOMAIN calls
             /\ Callers \in Seq(Frame) /\ Len(Callers) = Len(calls) - 1
             /\ \A i \in 1 .. Len(calls) - 1 : Callers[i] = calls[i]
             /\ Callers = <<>> <=> Len(calls) = 1
  <2>1. Len(calls) \in Nat /\ Len(calls) # 0
    BY <1>1, <1>6, EmptySeq
  <2>2. Len(calls) - 1 \in 0 .. Len(calls)
    BY <1>2, <2>1
  <2>3. /\ Callers \in Seq(Frame) /\ Len(Callers) = Len(calls) - 1
        /\ \A i \in 1 .. Len(calls) - 1 : Callers[i] = calls[i]
    BY <1>1, <2>2, Front DEF Callers
  <2>4. Callers = <<>> <=> Len(calls) = 1
    BY <2>1, <2>3, EmptySeq
  <2>5. QED
    BY <1>2, <2>1, <2>3, <2>4
<1>7. QED
  BY <1>2, <1>3, <1>5, <1>6 DEF Innermost

\* The innermost activation without the neighbour it takes.
LEMMA RestShape ==
    ASSUME TypeOK, calls # <<>>, NEW m
    PROVE  /\ Rest(m) \in Seq(Frame) /\ Len(Rest(m)) = Len(calls)
           /\ \A i \in 1 .. Len(calls) - 1 : Rest(m)[i] = calls[i]
           /\ Rest(m)[Len(calls)].node = Innermost.node
           /\ Rest(m)[Len(calls)].left = Innermost.left \ {m}
<1> DEFINE f == [Innermost EXCEPT !.left = @ \ {m}]
<1>1. Innermost \in Frame /\ Callers \in Seq(Frame) /\ Len(Callers) = Len(calls) - 1 /\ Len(calls) \in Nat
      /\ \A i \in 1 .. Len(calls) - 1 : Callers[i] = calls[i]
  BY Shapes
<1>2. f \in Frame /\ f.node = Innermost.node /\ f.left = Innermost.left \ {m}
  BY <1>1 DEF Frame
<1> HIDE DEF f
<1>3. /\ Append(Callers, f) \in Seq(Frame) /\ Len(Append(Callers, f)) = Len(calls)
      /\ \A i \in 1 .. Len(calls) - 1 : Append(Callers, f)[i] = calls[i]
      /\ Append(Callers, f)[Len(calls)] = f
  BY <1>1, <1>2
<1>4. Rest(m) = Append(Callers, f)
  BY DEF Rest, f
<1>5. QED
  BY <1>2, <1>3, <1>4

-----------------------------------------------------------------------------
(* The start, and an activation that begins. *)

LEMMA InitLoopInv == Init => LoopInv
<1> SUFFICES ASSUME Init PROVE LoopInv
  OBVIOUS
<1>1. GraphInv
  BY DEF Init, GraphInv
<1>2. graph \subseteq design.signals \X design.signals
  BY DEF Init, ContinuousEdges, BlockEdges, Edges
<1>3. /\ DOMAIN indices = {} /\ DOMAIN lowlinks = {} /\ DOMAIN stack = {} /\ DOMAIN calls = {}
      /\ stack = <<>> /\ calls = <<>> /\ result = {}
  BY DEF Init
<1>4. Found = {} /\ OnStack = {} /\ PutOut = {}
  BY <1>3 DEF Found, OnStack, PutOut
<1>5. TypeOK
  <2>1. Cardinality(Found) = 0
    BY <1>4, FS_EmptySet
  <2>2. indices \in [Found -> 0 .. Cardinality(Found) - 1] /\ lowlinks \in [Found -> 0 .. Cardinality(Found) - 1]
    BY <1>4, <2>1 DEF Init
  <2>3. stack \in Seq(Found) /\ calls \in Seq([node : Found, left : SUBSET Name])
    BY <1>3
  <2>4. QED
    BY <1>2, <1>3, <1>4, <2>2, <2>3 DEF TypeOK
<1>6. SearchInv
  BY <1>3, <1>4 DEF SearchInv, Numbered, Partitioned, Explored, Connected, LowReached, LowBound, Classes
<1>7. QED
  BY <1>1, <1>5, <1>6 DEF LoopInv

\* The numbers given so far are below the next one.
LEMMA Numbers ==
    ASSUME TypeOK
    PROVE  /\ IsFiniteSet(Found) /\ Cardinality(Found) \in Nat
           /\ \A m \in Found : /\ indices[m] \in Nat /\ indices[m] < Cardinality(Found)
                               /\ lowlinks[m] \in Nat /\ lowlinks[m] < Cardinality(Found)
<1>1. IsFiniteSet(Found) /\ Cardinality(Found) \in Nat
  BY LoopAssumption, FS_Subset, FS_CardinalityType DEF TypeOK
<1>2. QED
  BY <1>1 DEF TypeOK

\* What Enter changes, point by point.
LEMMA Entered ==
    ASSUME TypeOK, NEW n \in Name, n \notin Found, NEW callers \in Seq(Frame), Len(callers) = Len(calls),
           \A i \in DOMAIN calls : callers[i].node = calls[i].node,
           Enter(n, callers)
    PROVE  /\ UNCHANGED <<design, graph, result>>
           /\ Found' = Found \cup {n} /\ Cardinality(Found') = Cardinality(Found) + 1
           /\ \A m \in Found : indices'[m] = indices[m] /\ lowlinks'[m] = lowlinks[m]
           /\ indices'[n] = Cardinality(Found) /\ lowlinks'[n] = Cardinality(Found)
           /\ OnStack' = OnStack \cup {n}
           /\ Len(stack') = Len(stack) + 1 /\ DOMAIN stack' = 1 .. Len(stack) + 1
           /\ \A i \in DOMAIN stack : stack'[i] = stack[i]
           /\ stack'[Len(stack) + 1] = n
           /\ Len(calls') = Len(calls) + 1 /\ DOMAIN calls' = 1 .. Len(calls) + 1
           /\ \A i \in DOMAIN calls : calls'[i] = callers[i] /\ calls'[i].node = calls[i].node
           /\ calls'[Len(calls) + 1].node = n /\ calls'[Len(calls) + 1].left = Neighbours(n)
           /\ TypeOK'
<1>1. UNCHANGED <<design, graph, result>>
  BY DEF Enter
<1>2. Found' = Found \cup {n}
  BY DEF Enter, Found
<1>3. IsFiniteSet(Found) /\ Cardinality(Found) \in Nat /\ Cardinality(Found') = Cardinality(Found) + 1
  BY <1>2, Numbers, FS_AddElement
<1>4. /\ \A m \in Found : indices'[m] = indices[m] /\ lowlinks'[m] = lowlinks[m]
      /\ indices'[n] = Cardinality(Found) /\ lowlinks'[n] = Cardinality(Found)
  BY DEF Enter
<1>5. indices' \in [Found' -> 0 .. Cardinality(Found') - 1] /\ lowlinks' \in [Found' -> 0 .. Cardinality(Found') - 1]
  <2>1. \A m \in Found' : indices'[m] \in 0 .. Cardinality(Found') - 1 /\ lowlinks'[m] \in 0 .. Cardinality(Found') - 1
    <3> SUFFICES ASSUME NEW m \in Found'
                 PROVE  indices'[m] \in 0 .. Cardinality(Found') - 1 /\ lowlinks'[m] \in 0 .. Cardinality(Found') - 1
      OBVIOUS
    <3>1. CASE m = n
      BY <1>3, <1>4, <3>1
    <3>2. CASE m \in Found
      <4>1. /\ indices[m] \in Nat /\ indices[m] < Cardinality(Found)
            /\ lowlinks[m] \in Nat /\ lowlinks[m] < Cardinality(Found)
        BY <3>2, Numbers
      <4>2. QED
        BY <1>3, <1>4, <3>2, <4>1
    <3>3. QED
      BY <1>2, <3>1, <3>2
  <2>2. indices' = [m \in Found' |-> indices'[m]] /\ lowlinks' = [m \in Found' |-> lowlinks'[m]]
    BY <1>2 DEF Enter
  <2>3. QED
    BY <2>1, <2>2
<1>6. /\ stack' \in Seq(Found') /\ Len(stack') = Len(stack) + 1 /\ DOMAIN stack' = 1 .. Len(stack) + 1
      /\ \A i \in 1 .. Len(stack) : stack'[i] = stack[i]
      /\ stack'[Len(stack) + 1] = n
  <2>1. stack \in Seq(Found') /\ n \in Found'
    BY <1>2, SeqMonotonic DEF TypeOK
  <2>2. stack' = Append(stack, n)
    BY DEF Enter
  <2>3. QED
    BY <2>1, <2>2
<1>7. OnStack' = OnStack \cup {n}
  <2>1. DOMAIN stack = 1 .. Len(stack) /\ Len(stack) \in Nat
    BY Shapes
  <2>2. \A i \in DOMAIN stack' : (i \in DOMAIN stack /\ stack'[i] = stack[i]) \/ (i = Len(stack) + 1 /\ stack'[i] = n)
    BY <1>6, <2>1
  <2>3. \A i \in DOMAIN stack : i \in DOMAIN stack' /\ stack'[i] = stack[i]
    BY <1>6, <2>1
  <2>4. Len(stack) + 1 \in DOMAIN stack'
    BY <1>6, <2>1
  <2>5. QED
    BY <1>6, <2>2, <2>3, <2>4 DEF OnStack
<1>8. /\ calls' \in Seq([node : Found', left : SUBSET Name])
      /\ Len(calls') = Len(calls) + 1 /\ DOMAIN calls' = 1 .. Len(calls) + 1
      /\ \A i \in 1 .. Len(calls) : calls'[i] = callers[i]
      /\ calls'[Len(calls) + 1] = [node |-> n, left |-> Neighbours(n)]
  <2> DEFINE F == [node : Found', left : SUBSET Name]
             f == [node |-> n, left |-> Neighbours(n)]
  <2>1. Frame \subseteq F
    BY <1>2 DEF Frame
  <2>2. callers \in Seq(F)
    BY <2>1, SeqMonotonic
  <2>3. f \in F
    BY <1>2 DEF Neighbours
  <2>4. calls' = Append(callers, f)
    BY DEF Enter
  <2> HIDE DEF F, f
  <2>5. /\ calls' \in Seq(F)
        /\ Len(calls') = Len(calls) + 1 /\ DOMAIN calls' = 1 .. Len(calls) + 1
        /\ \A i \in 1 .. Len(calls) : calls'[i] = callers[i]
        /\ calls'[Len(calls) + 1] = f
    BY <2>2, <2>3, <2>4
  <2>6. QED
    BY <2>5 DEF F, f
<1>9. /\ \A i \in DOMAIN calls : calls'[i] = callers[i] /\ calls'[i].node = calls[i].node
      /\ calls'[Len(calls) + 1].node = n /\ calls'[Len(calls) + 1].left = Neighbours(n)
      /\ \A i \in DOMAIN stack : stack'[i] = stack[i]
  BY <1>6, <1>8, Shapes
<1>10. TypeOK'
  BY <1>1, <1>2, <1>5, <1>6, <1>8 DEF TypeOK
<1>11. QED
  BY <1>1, <1>2, <1>3, <1>4, <1>6, <1>7, <1>8, <1>9, <1>10

\* An activation begins: for a node in no activation's way, or for the
\* neighbour n that the innermost one takes.
LEMMA EnterStep ==
    ASSUME LoopInv, NEW n \in Name, n \in Nodes, n \notin Found, NEW callers \in Seq(Frame), Len(callers) = Len(calls),
           \A i \in DOMAIN calls : /\ callers[i].node = calls[i].node
                                   /\ callers[i].left \subseteq calls[i].left
                                   /\ calls[i].left \subseteq callers[i].left \cup {n},
           calls # <<>> => <<Innermost.node, n>> \in graph,
           Enter(n, callers)
    PROVE  LoopInv'
<1> DEFINE K == Cardinality(Found)
           L == Len(calls)
<1>0. TypeOK /\ GraphInv /\ Numbered /\ Partitioned /\ Explored /\ Connected /\ LowReached /\ LowBound /\ Classes
  BY DEF LoopInv, SearchInv
<1>1. /\ UNCHANGED <<design, graph, result>>
      /\ Found' = Found \cup {n}
      /\ \A m \in Found : indices'[m] = indices[m] /\ lowlinks'[m] = lowlinks[m]
      /\ indices'[n] = K /\ lowlinks'[n] = K
      /\ OnStack' = OnStack \cup {n}
      /\ DOMAIN stack' = 1 .. Len(stack) + 1
      /\ \A i \in DOMAIN stack : stack'[i] = stack[i]
      /\ stack'[Len(stack) + 1] = n
      /\ DOMAIN calls' = 1 .. L + 1
      /\ \A i \in DOMAIN calls : calls'[i] = callers[i] /\ calls'[i].node = calls[i].node
      /\ calls'[L + 1].node = n /\ calls'[L + 1].left = Neighbours(n)
      /\ TypeOK'
  BY <1>0, Entered
<1>2. /\ Len(stack) \in Nat /\ DOMAIN stack = 1 .. Len(stack)
      /\ L \in Nat /\ DOMAIN calls = 1 .. L
      /\ OnStack \subseteq Found
      /\ \A i \in DOMAIN stack : stack[i] \in Found
      /\ \A i \in DOMAIN calls : calls[i].node \in Found /\ calls[i].node \in OnStack
      /\ n \notin OnStack
  BY <1>0, Shapes DEF Numbered, TypeOK, OnStack
<1>3. /\ K \in Nat
      /\ \A m \in Found : /\ indices[m] \in Nat /\ indices[m] < K
                          /\ lowlinks[m] \in Nat /\ lowlinks[m] < K
  BY <1>0, Numbers
<1> HIDE DEF K, L
<1>4. \A i \in DOMAIN calls' : i \in DOMAIN calls \/ (i = L + 1 /\ i \notin DOMAIN calls)
  BY <1>1, <1>2
<1>5. DOMAIN calls \subseteq DOMAIN calls' /\ L + 1 \in DOMAIN calls'
  BY <1>1, <1>2
<1>6. GraphInv' /\ Classes' /\ PutOut' = PutOut /\ Nodes' = Nodes
  <2>1. GraphInv'
    BY <1>0, <1>1 DEF GraphInv, ContinuousEdges, BlockEdges
  <2>2. Nodes' = Nodes /\ PutOut' = PutOut
    BY <1>1 DEF Nodes, PutOut
  <2>3. Classes'
    BY <1>0, <1>1, <2>2 DEF Classes, Together
  <2>4. QED
    BY <2>1, <2>2, <2>3
<1>7. Numbered'
  <2>1. \A p, q \in Found' : indices'[p] = indices'[q] => p = q
    BY <1>0, <1>1, <1>3 DEF Numbered
  <2>2. \A p \in Found' : lowlinks'[p] <= indices'[p]
    BY <1>0, <1>1, <1>3 DEF Numbered
  <2>3. \A i, k \in DOMAIN stack' : i < k => indices'[stack'[i]] < indices'[stack'[k]]
    <3> SUFFICES ASSUME NEW i \in DOMAIN stack', NEW k \in DOMAIN stack', i < k
                 PROVE  indices'[stack'[i]] < indices'[stack'[k]]
      OBVIOUS
    <3>1. i \in DOMAIN stack
      BY <1>1, <1>2
    <3>2. CASE k \in DOMAIN stack
      BY <1>0, <1>1, <1>2, <3>1, <3>2 DEF Numbered
    <3>3. CASE k = Len(stack) + 1
      BY <1>1, <1>2, <1>3, <3>1, <3>3
    <3>4. QED
      BY <1>1, <1>2, <3>2, <3>3
  <2>4. \A i, k \in DOMAIN calls' : i < k => indices'[calls'[i].node] < indices'[calls'[k].node]
    <3> SUFFICES ASSUME NEW i \in DOMAIN calls', NEW k \in DOMAIN calls', i < k
                 PROVE  indices'[calls'[i].node] < indices'[calls'[k].node]
      OBVIOUS
    <3>1. i \in DOMAIN calls
      BY <1>1, <1>2
    <3>2. CASE k \in DOMAIN calls
      BY <1>0, <1>1, <1>2, <3>1, <3>2 DEF Numbered
    <3>3. CASE k = L + 1
      <4>1. indices'[calls'[k].node] = K
        BY <1>1, <3>3
      <4>2. calls'[i].node = calls[i].node /\ indices'[calls[i].node] < K
        BY <1>1, <1>2, <1>3, <3>1
      <4>3. QED
        BY <4>1, <4>2
    <3>4. QED
      BY <1>4, <3>2, <3>3
  <2>5. \A i \in DOMAIN calls' : calls'[i].node \in OnStack'
    BY <1>1, <1>2, <1>4
  <2>6. QED
    BY <2>1, <2>2, <2>3, <2>4, <2>5 DEF Numbered
<1>8. Partitioned'
  BY <1>0, <1>1, <1>2, <1>6 DEF Partitioned
<1>9. Explored'
  <2>1. \A i \in DOMAIN calls' : \A m \in calls'[i].left : <<calls'[i].node, m>> \in graph'
    <3> SUFFICES ASSUME NEW i \in DOMAIN calls', NEW m \in calls'[i].left PROVE <<calls'[i].node, m>> \in graph
      BY <1>1
    <3>1. CASE i \in DOMAIN calls
      BY <1>0, <1>1, <3>1 DEF Explored
    <3>2. CASE i = L + 1
      BY <1>1, <3>2 DEF Neighbours
    <3>3. QED
      BY <1>4, <3>1, <3>2
  <2>2. ASSUME NEW p \in Name, NEW q \in Name, <<p, q>> \in graph, p \in Found'
        PROVE  q \in Found' \/ \E i \in DOMAIN calls' : p = calls'[i].node /\ q \in calls'[i].left
    <3>1. CASE p = n
      BY <1>1, <1>5, <2>2, <3>1 DEF Neighbours
    <3>2. CASE p \in Found /\ q # n
      <4>1. q \in Found \/ \E i \in DOMAIN calls : p = calls[i].node /\ q \in calls[i].left
        BY <1>0, <2>2, <3>2 DEF Explored
      <4>2. CASE q \in Found
        BY <1>1, <4>2
      <4>3. ASSUME NEW i \in DOMAIN calls, p = calls[i].node, q \in calls[i].left
            PROVE  i \in DOMAIN calls' /\ p = calls'[i].node /\ q \in calls'[i].left
        BY <1>1, <1>5, <3>2, <4>3
      <4>4. QED
        BY <4>1, <4>2, <4>3
    <3>3. QED
      BY <1>1, <2>2, <3>1, <3>2
  <2>3. \A p, q \in Name : <<p, q>> \in graph /\ p \in PutOut' => q \in PutOut'
    BY <1>0, <1>6 DEF Explored
  <2>4. QED
    BY <1>1, <2>1, <2>2, <2>3 DEF Explored
<1>10. Connected'
  <2> SUFFICES ASSUME NEW p \in OnStack'
               PROVE  /\ \A i \in DOMAIN calls' : indices'[calls'[i].node] <= indices'[p] => Leads(calls'[i].node, p)
                      /\ \E i \in DOMAIN calls' : indices'[calls'[i].node] <= indices'[p] /\ Leads(p, calls'[i].node)
    BY <1>1 DEF Connected, Leads
  <2>1. CASE p \in OnStack
    <3>1. p \in Found /\ indices'[p] = indices[p] /\ indices[p] < K /\ indices[p] \in Nat
      BY <1>1, <1>2, <1>3, <2>1
    <3>2. ASSUME NEW i \in DOMAIN calls', indices'[calls'[i].node] <= indices'[p] PROVE Leads(calls'[i].node, p)
      <4>1. i \in DOMAIN calls
        BY <1>1, <1>3, <1>4, <3>1, <3>2
      <4>2. calls'[i].node = calls[i].node /\ indices[calls[i].node] <= indices[p]
        BY <1>1, <1>2, <3>1, <3>2, <4>1
      <4>3. QED
        BY <1>0, <2>1, <4>1, <4>2 DEF Connected
    <3>3. PICK i \in DOMAIN calls : indices[calls[i].node] <= indices[p] /\ Leads(p, calls[i].node)
      BY <1>0, <2>1 DEF Connected
    <3>4. i \in DOMAIN calls' /\ indices'[calls'[i].node] <= indices'[p] /\ Leads(p, calls'[i].node)
      BY <1>1, <1>2, <1>5, <3>1, <3>3
    <3>5. QED
      BY <3>2, <3>4
  <2>2. CASE p = n
    <3>1. ASSUME NEW i \in DOMAIN calls' PROVE Leads(calls'[i].node, n)
      <4>1. CASE i \in DOMAIN calls
        <5>1. calls # <<>> /\ L \in DOMAIN calls /\ Innermost = calls[L]
          BY <1>0, <1>2, <4>1, Shapes DEF L
        <5>2. indices[calls[i].node] <= indices[Innermost.node] /\ Innermost.node \in OnStack
          <6>1. i = L \/ i < L
            BY <1>2, <4>1
          <6>2. QED
            BY <1>0, <1>2, <1>3, <4>1, <5>1, <6>1 DEF Numbered
        <5>3. Leads(calls[i].node, Innermost.node)
          BY <1>0, <4>1, <5>2 DEF Connected
        <5>4. Leads(Innermost.node, n)
          BY <5>1, EdgeLeads
        <5>5. QED
          BY <1>1, <4>1, <5>3, <5>4, LeadsTransitive
      <4>2. CASE i = L + 1
        BY <1>1, <4>2 DEF Leads
      <4>3. QED
        BY <1>4, <4>1, <4>2
    <3>2. indices'[calls'[L + 1].node] <= indices'[n] /\ Leads(n, calls'[L + 1].node)
      BY <1>1, <1>3 DEF Leads
    <3>3. QED
      BY <1>5, <2>2, <3>1, <3>2
  <2>3. QED
    BY <1>1, <2>1, <2>2
<1>11. LowReached'
  <2> SUFFICES ASSUME NEW p \in OnStack' PROVE \E m \in OnStack' : indices'[m] = lowlinks'[p] /\ Leads(p, m)
    BY <1>1 DEF LowReached, Leads
  <2>1. CASE p = n
    BY <1>1, <2>1 DEF Leads
  <2>2. CASE p \in OnStack
    BY <1>0, <1>1, <1>2, <2>2 DEF LowReached
  <2>3. QED
    BY <1>1, <2>1, <2>2
<1>12. LowBound'
  <2> SUFFICES ASSUME NEW i \in DOMAIN calls', NEW p \in OnStack', NEW q \in OnStack',
                      indices'[calls'[i].node] <= indices'[p],
                      \A k \in DOMAIN calls' : i < k => indices'[p] < indices'[calls'[k].node],
                      <<p, q>> \in graph, ~(p = calls'[i].node /\ q \in calls'[i].left)
               PROVE  lowlinks'[calls'[i].node] <= indices'[q]
    BY <1>1 DEF LowBound, Owns
  <2>1. CASE i = L + 1
    <3>1. p = n
      <4>1. K <= indices'[p]
        BY <1>1, <2>1
      <4>2. QED
        BY SMTT(30), <1>1, <1>2, <1>3, <4>1
    <3>2. q \in Name
      BY <1>0, <1>1, <1>2 DEF TypeOK
    <3>3. QED
      BY <1>1, <2>1, <3>1, <3>2 DEF Neighbours
  <2>2. CASE i \in DOMAIN calls
    <3>1. indices'[p] < K
      <4>1. i < L + 1
        BY <1>2, <2>2
      <4>2. indices'[calls'[L + 1].node] = K
        BY <1>1
      <4>3. QED
        BY <1>5, <4>1, <4>2
    <3>2. p \in OnStack /\ indices'[p] = indices[p]
      BY <1>1, <1>2, <1>3, <3>1
    <3>3. Owns(i, p)
      <4>1. indices[calls[i].node] <= indices[p]
        BY <1>1, <1>2, <2>2, <3>2
      <4>2. \A k \in DOMAIN calls : i < k => indices[p] < indices[calls[k].node]
        BY <1>1, <1>2, <1>5, <3>2
      <4>3. QED
        BY <4>1, <4>2 DEF Owns
    <3>4. lowlinks'[calls'[i].node] = lowlinks[calls[i].node]
      BY <1>1, <1>2, <2>2
    <3>5. CASE q = n
      BY <1>1, <1>2, <1>3, <2>2, <3>4, <3>5
    <3>6. CASE q \in OnStack
      <4>1. q # n /\ indices'[q] = indices[q]
        BY <1>1, <1>2, <3>6
      <4>2. ~(p = calls[i].node /\ q \in calls[i].left)
        BY <1>1, <2>2, <4>1
      <4>3. QED
        BY <1>0, <2>2, <3>2, <3>3, <3>4, <3>6, <4>1, <4>2 DEF LowBound
    <3>7. QED
      BY <1>1, <3>5, <3>6
  <2>3. QED
    BY <1>4, <2>1, <2>2
<1>13. QED
  BY <1>1, <1>6, <1>7, <1>8, <1>9, <1>10, <1>11, <1>12 DEF LoopInv, SearchInv

-----------------------------------------------------------------------------
(* A neighbour that was found before. *)

\* The lowlink of one node moves to another number of the range.
LEMMA LowlinkSet ==
    ASSUME TypeOK, NEW v \in Found, NEW e \in 0 .. Cardinality(Found) - 1
    PROVE  /\ [lowlinks EXCEPT ![v] = e] \in [Found -> 0 .. Cardinality(Found) - 1]
           /\ [lowlinks EXCEPT ![v] = e][v] = e
           /\ \A p \in Found \ {v} : [lowlinks EXCEPT ![v] = e][p] = lowlinks[p]
BY DEF TypeOK

LEMMA LookBackStep ==
    ASSUME LoopInv, NEW m \in Name, LookBack(m) PROVE LoopInv'
<1> DEFINE L == Len(calls)
           v == Innermost.node
<1>0. TypeOK /\ GraphInv /\ Numbered /\ Partitioned /\ Explored /\ Connected /\ LowReached /\ LowBound /\ Classes
  BY DEF LoopInv, SearchInv
<1>1. /\ calls # <<>> /\ m \in Innermost.left /\ m \in Found
      /\ UNCHANGED <<design, graph, indices, stack, result>> /\ calls' = Rest(m)
  BY DEF LookBack, Takes
<1>2. /\ L \in DOMAIN calls /\ L \in Nat /\ DOMAIN calls = 1 .. L /\ Innermost = calls[L]
      /\ v \in Found /\ v \in OnStack /\ OnStack \subseteq Found
      /\ \A i \in DOMAIN calls : calls[i].node \in OnStack
      /\ <<v, m>> \in graph
  BY <1>0, <1>1, Shapes DEF Numbered, Explored, Frame
<1>3. /\ calls' \in Seq(Frame) /\ DOMAIN calls' = DOMAIN calls
      /\ \A i \in DOMAIN calls : calls'[i].node = calls[i].node
      /\ \A i \in DOMAIN calls : i # L => calls'[i].left = calls[i].left
      /\ calls'[L].left = calls[L].left \ {m}
  <2>1. /\ Rest(m) \in Seq(Frame) /\ Len(Rest(m)) = L
        /\ \A i \in 1 .. L - 1 : Rest(m)[i] = calls[i]
        /\ Rest(m)[L].node = calls[L].node
        /\ Rest(m)[L].left = calls[L].left \ {m}
    BY <1>0, <1>1, <1>2, RestShape
  <2>2. \A i \in DOMAIN calls : i = L \/ i \in 1 .. L - 1
    BY <1>2
  <2>3. DOMAIN Rest(m) = 1 .. L
    BY <2>1
  <2>4. QED
    BY <1>1, <1>2, <2>1, <2>2, <2>3
<1>4. \A p \in Found : indices[p] \in Nat /\ lowlinks[p] \in Nat
                       /\ indices[p] \in 0 .. Cardinality(Found) - 1 /\ lowlinks[p] \in 0 .. Cardinality(Found) - 1
  BY <1>0 DEF TypeOK
<1>5. /\ Found' = Found /\ OnStack' = OnStack /\ PutOut' = PutOut /\ Nodes' = Nodes
      /\ \A p \in Found : indices'[p] = indices[p]
  BY <1>1 DEF Found, OnStack, PutOut, Nodes
<1> HIDE DEF L, v
<1>6. /\ lowlinks' \in [Found -> 0 .. Cardinality(Found) - 1]
      /\ \A p \in Found \ {v} : lowlinks'[p] = lowlinks[p]
      /\ lowlinks'[v] \in Nat /\ lowlinks'[v] <= lowlinks[v]
      /\ m \in OnStack => lowlinks'[v] <= indices[m]
      /\ lowlinks'[v] = lowlinks[v] \/ (m \in OnStack /\ lowlinks'[v] = indices[m])
  <2>1. CASE m \notin OnStack
    <3>1. lowlinks' = lowlinks
      BY <2>1 DEF LookBack
    <3>2. QED
      BY <1>0, <1>2, <1>4, <2>1, <3>1 DEF TypeOK
  <2>2. CASE m \in OnStack
    <3> DEFINE e == Lesser(lowlinks[v], indices[m])
    <3>1. lowlinks' = [lowlinks EXCEPT ![v] = e]
      BY <2>2 DEF LookBack, v
    <3>2. /\ e \in 0 .. Cardinality(Found) - 1 /\ e <= lowlinks[v] /\ e <= indices[m]
          /\ e = lowlinks[v] \/ e = indices[m]
      BY <1>1, <1>2, <1>4 DEF Lesser
    <3> HIDE DEF e
    <3>3. QED
      BY <1>0, <1>2, <2>2, <3>1, <3>2, LowlinkSet
  <2>3. QED
    BY <2>1, <2>2
<1>7. TypeOK'
  BY <1>0, <1>1, <1>3, <1>5, <1>6 DEF TypeOK, Frame
<1>8. GraphInv' /\ Classes' /\ Partitioned'
  <2>1. GraphInv' /\ Partitioned'
    BY <1>0, <1>1, <1>5 DEF GraphInv, ContinuousEdges, BlockEdges, Partitioned
  <2>2. Classes'
    BY <1>0, <1>1, <1>5 DEF Classes, Together
  <2>3. QED
    BY <2>1, <2>2
<1>9. Numbered'
  <2>1. \A p \in Found : lowlinks'[p] <= indices[p]
    BY <1>0, <1>2, <1>4, <1>6 DEF Numbered
  <2>2. \A i, k \in DOMAIN calls : i < k => indices[calls'[i].node] < indices[calls'[k].node]
    BY <1>0, <1>3 DEF Numbered
  <2>3. \A i \in DOMAIN calls : calls'[i].node \in OnStack
    BY <1>2, <1>3
  <2>4. QED
    BY <1>0, <1>1, <1>3, <1>5, <2>1, <2>2, <2>3 DEF Numbered
<1>10. Explored'
  <2>1. \A i \in DOMAIN calls' : \A q \in calls'[i].left : <<calls'[i].node, q>> \in graph
    BY <1>0, <1>2, <1>3 DEF Explored
  <2>2. ASSUME NEW p \in Name, NEW q \in Name, <<p, q>> \in graph, p \in Found, q \notin Found
        PROVE  \E i \in DOMAIN calls' : p = calls'[i].node /\ q \in calls'[i].left
    <3>1. PICK i \in DOMAIN calls : p = calls[i].node /\ q \in calls[i].left
      BY <1>0, <2>2 DEF Explored
    <3>2. q # m
      BY <1>1, <2>2
    <3>3. QED
      BY <1>3, <3>1, <3>2
  <2>3. QED
    BY <1>0, <1>1, <1>5, <2>1, <2>2 DEF Explored
<1>11. Connected'
  <2> SUFFICES ASSUME NEW p \in OnStack
               PROVE  /\ \A i \in DOMAIN calls : indices[calls'[i].node] <= indices[p] => Leads(calls'[i].node, p)
                      /\ \E i \in DOMAIN calls : indices[calls'[i].node] <= indices[p] /\ Leads(p, calls'[i].node)
    BY <1>1, <1>3, <1>5 DEF Connected, Leads
  <2>1. QED
    BY <1>0, <1>3 DEF Connected
<1>12. LowReached'
  <2> SUFFICES ASSUME NEW p \in OnStack PROVE \E q \in OnStack : indices[q] = lowlinks'[p] /\ Leads(p, q)
    BY <1>1, <1>5 DEF LowReached, Leads
  <2>1. CASE lowlinks'[p] = lowlinks[p]
    BY <1>0, <2>1 DEF LowReached
  <2>2. CASE p = v /\ m \in OnStack /\ lowlinks'[v] = indices[m]
    BY <1>2, <2>2, EdgeLeads
  <2>3. QED
    BY <1>2, <1>6, <2>1, <2>2
<1>13. LowBound'
  <2> SUFFICES ASSUME NEW i \in DOMAIN calls, NEW p \in OnStack, NEW q \in OnStack,
                      Owns(i, p), <<p, q>> \in graph, ~(p = calls'[i].node /\ q \in calls'[i].left)
               PROVE  lowlinks'[calls'[i].node] <= indices[q]
    <3>1. \A i \in DOMAIN calls, p \in OnStack : Owns(i, p)' => Owns(i, p)
      BY <1>1, <1>3 DEF Owns
    <3>2. QED
      BY <1>1, <1>3, <1>5, <3>1 DEF LowBound
  <2>1. ~(p = calls[i].node /\ q \in calls[i].left) => lowlinks[calls[i].node] <= indices[q]
    BY <1>0 DEF LowBound
  <2>2. calls'[i].node = calls[i].node /\ calls[i].node \in Found /\ q \in Found
    BY <1>2, <1>3
  <2>3. CASE i # L
    <3>1. calls[i].node # v
      <4>1. i < L
        BY <1>2, <2>3
      <4>2. indices[calls[i].node] < indices[v] /\ indices[v] \in Nat
        BY <1>0, <1>2, <1>4, <4>1 DEF Numbered, v
      <4>3. QED
        BY <4>2
    <3>2. QED
      BY <1>3, <1>6, <2>1, <2>2, <2>3, <3>1
  <2>4. CASE i = L
    <3>1. calls[i].node = v
      BY <1>2, <2>4 DEF v
    <3>2. CASE q = m
      BY <1>6, <2>2, <3>1, <3>2
    <3>3. CASE q # m
      <4>1. lowlinks[v] <= indices[q]
        BY <1>3, <2>1, <2>2, <2>4, <3>1, <3>3
      <4>2. QED
        BY <1>2, <1>4, <1>6, <2>2, <3>1, <4>1
    <3>4. QED
      BY <3>2, <3>3
  <2>5. QED
    BY <2>3, <2>4
<1>14. QED
  BY <1>7, <1>8, <1>9, <1>10, <1>11, <1>12, <1>13 DEF LoopInv, SearchInv

-----------------------------------------------------------------------------
(* An activation that ends. *)

\* What is known when the innermost activation has no neighbour left.
LEMMA Innermosts ==
    ASSUME LoopInv, calls # <<>>
    PROVE  /\ Len(calls) \in DOMAIN calls /\ Len(calls) \in Nat /\ DOMAIN calls = 1 .. Len(calls)
           /\ Innermost = calls[Len(calls)]
           /\ OnStack \subseteq Found
           /\ \A p \in Found : indices[p] \in Nat /\ lowlinks[p] \in Nat
           /\ \A i \in DOMAIN calls : calls[i].node \in OnStack /\ calls[i].node \in Found
           /\ \A i \in DOMAIN calls :
                  i # Len(calls) => i < Len(calls) /\ indices[calls[i].node] < indices[Innermost.node]
<1>1. TypeOK /\ Numbered
  BY DEF LoopInv, SearchInv
<1>2. /\ Len(calls) \in DOMAIN calls /\ Len(calls) \in Nat /\ DOMAIN calls = 1 .. Len(calls)
      /\ Innermost = calls[Len(calls)] /\ OnStack \subseteq Found
  BY <1>1, Shapes
<1>3. \A p \in Found : indices[p] \in Nat /\ lowlinks[p] \in Nat
  BY <1>1, Numbers
<1>4. \A i \in DOMAIN calls : calls[i].node \in OnStack /\ calls[i].node \in Found
  BY <1>1, <1>2 DEF Numbered
<1>5. ASSUME NEW i \in DOMAIN calls, i # Len(calls)
      PROVE  i < Len(calls) /\ indices[calls[i].node] < indices[Innermost.node]
  <2>1. i < Len(calls)
    BY <1>2, <1>5
  <2>2. QED
    BY <1>1, <1>2, <2>1 DEF Numbered
<1>6. QED
  BY <1>2, <1>3, <1>4, <1>5

\* An activation that ends reaches one below it, if its lowlink says so.
LEMMA ReachesCaller ==
    ASSUME LoopInv, calls # <<>>, lowlinks[Innermost.node] # indices[Innermost.node]
    PROVE  \E i \in DOMAIN calls : /\ i # Len(calls)
                                   /\ indices[calls[i].node] < indices[Innermost.node]
                                   /\ Leads(Innermost.node, calls[i].node)
<1> DEFINE v == Innermost.node
<1>1. /\ v \in OnStack /\ v \in Found /\ OnStack \subseteq Found
      /\ \A p \in Found : indices[p] \in Nat /\ lowlinks[p] \in Nat
      /\ \A i \in DOMAIN calls : calls[i].node \in Found
      /\ Innermost = calls[Len(calls)]
  BY Innermosts
<1>2. lowlinks[v] < indices[v]
  BY <1>1 DEF LoopInv, SearchInv, Numbered
<1>3. PICK m \in OnStack : indices[m] = lowlinks[v] /\ Leads(v, m)
  BY <1>1 DEF LoopInv, SearchInv, LowReached
<1>4. PICK i \in DOMAIN calls : indices[calls[i].node] <= indices[m] /\ Leads(m, calls[i].node)
  BY DEF LoopInv, SearchInv, Connected
<1>5. indices[calls[i].node] < indices[v]
  <2>1. indices[calls[i].node] \in Nat /\ indices[m] \in Nat /\ indices[v] \in Nat
    BY <1>1
  <2>2. QED
    BY <1>2, <1>3, <1>4, <2>1
<1>6. i # Len(calls)
  BY <1>1, <1>5
<1>7. Leads(v, calls[i].node)
  BY <1>3, <1>4, LeadsTransitive
<1>8. QED
  BY <1>5, <1>6, <1>7

LEMMA LeaveStep == ASSUME LoopInv, Leave PROVE LoopInv'
<1> DEFINE L == Len(calls)
           v == Innermost.node
           u == calls[L - 1].node
<1>0. TypeOK /\ GraphInv /\ Numbered /\ Partitioned /\ Explored /\ Connected /\ LowReached /\ LowBound /\ Classes
  BY DEF LoopInv, SearchInv
<1>1. /\ calls # <<>> /\ Innermost.left = {} /\ lowlinks[v] # indices[v]
      /\ UNCHANGED <<design, graph, indices, stack, result>>
      /\ calls' = Callers
      /\ lowlinks' = IF Callers = <<>> THEN lowlinks
                     ELSE [lowlinks EXCEPT ![Callers[Len(Callers)].node] = Lesser(@, lowlinks[v])]
  BY DEF Leave, Return
<1>2. /\ L \in DOMAIN calls /\ L \in Nat /\ DOMAIN calls = 1 .. L /\ Innermost = calls[L]
      /\ v \in OnStack /\ OnStack \subseteq Found
      /\ \A p \in Found : indices[p] \in Nat /\ lowlinks[p] \in Nat
      /\ \A i \in DOMAIN calls : calls[i].node \in OnStack /\ calls[i].node \in Found
      /\ \A i \in DOMAIN calls : i # L => i < L /\ indices[calls[i].node] < indices[v]
  BY <1>1, Innermosts
<1>3. PICK g \in DOMAIN calls : g # L /\ indices[calls[g].node] < indices[v] /\ Leads(v, calls[g].node)
  BY <1>1, ReachesCaller
<1> HIDE DEF L
<1>4. /\ L - 1 \in DOMAIN calls /\ L - 1 # L /\ L - 1 \in Nat
      /\ \A i \in DOMAIN calls : i # L <=> i \in 1 .. L - 1
      /\ \A i \in DOMAIN calls : i # L /\ i # L - 1 => i < L - 1
  <2>1. g \in 1 .. L /\ g # L /\ L \in Nat
    BY <1>2, <1>3
  <2>2. L - 1 \in 1 .. L /\ L - 1 # L /\ L - 1 \in Nat
    BY <2>1
  <2>3. \A i \in 1 .. L : (i # L <=> i \in 1 .. L - 1) /\ (i # L /\ i # L - 1 => i < L - 1)
    BY <2>1
  <2>4. QED
    BY <1>2, <2>2, <2>3
<1>5. /\ Callers \in Seq(Frame) /\ Len(Callers) = L - 1 /\ Callers # <<>>
      /\ DOMAIN Callers = 1 .. L - 1 /\ \A i \in 1 .. L - 1 : Callers[i] = calls[i]
      /\ Callers[Len(Callers)] = calls[L - 1]
  <2>1. /\ Callers \in Seq(Frame) /\ Len(Callers) = L - 1 /\ Callers # <<>>
        /\ \A i \in 1 .. L - 1 : Callers[i] = calls[i]
    <3>1. /\ Callers \in Seq(Frame) /\ Len(Callers) = L - 1
          /\ \A i \in 1 .. L - 1 : Callers[i] = calls[i]
          /\ Callers = <<>> <=> L = 1
      BY <1>0, <1>1, Shapes DEF L
    <3>2. L # 1
      <4>1. L \in Nat /\ L - 1 \in 1 .. L
        BY <1>2, <1>4
      <4>2. QED
        BY <4>1
    <3>3. QED
      BY <3>1, <3>2
  <2>2. DOMAIN Callers = 1 .. L - 1
    BY <2>1
  <2>3. L - 1 \in 1 .. L - 1
    BY <1>4
  <2>4. QED
    BY <2>1, <2>2, <2>3
<1>6. /\ Found' = Found /\ OnStack' = OnStack /\ PutOut' = PutOut /\ Nodes' = Nodes
      /\ \A p \in Found : indices'[p] = indices[p]
      /\ \A i \in DOMAIN calls' : i \in DOMAIN calls /\ i # L /\ calls'[i] = calls[i]
      /\ \A i \in DOMAIN calls : i # L => i \in DOMAIN calls'
  <2>1. Found' = Found /\ OnStack' = OnStack /\ PutOut' = PutOut /\ Nodes' = Nodes
    BY <1>1 DEF Found, OnStack, PutOut, Nodes
  <2>2. \A i \in DOMAIN calls' : i \in 1 .. L - 1 /\ calls'[i] = calls[i]
    BY <1>1, <1>5
  <2>3. \A i \in 1 .. L - 1 : i \in DOMAIN calls /\ i # L
    <3>1. L \in Nat /\ DOMAIN calls = 1 .. L
      BY <1>2
    <3>2. \A i \in 1 .. L - 1 : i \in 1 .. L /\ i # L
      BY <3>1
    <3>3. QED
      BY <3>1, <3>2
  <2>4. \A i \in DOMAIN calls : i # L => i \in DOMAIN calls'
    BY <1>1, <1>4, <1>5
  <2>5. QED
    BY <1>1, <2>1, <2>2, <2>3, <2>4
<1>7. /\ lowlinks' \in [Found -> 0 .. Cardinality(Found) - 1]
      /\ \A p \in Found \ {u} : lowlinks'[p] = lowlinks[p]
      /\ lowlinks'[u] \in Nat /\ lowlinks'[u] <= lowlinks[u] /\ lowlinks'[u] <= lowlinks[v]
      /\ lowlinks'[u] = lowlinks[u] \/ lowlinks'[u] = lowlinks[v]
  <2> DEFINE e == Lesser(lowlinks[u], lowlinks[v])
  <2>1. lowlinks' = [lowlinks EXCEPT ![u] = e]
    BY <1>1, <1>5
  <2>2. /\ u \in Found /\ e \in 0 .. Cardinality(Found) - 1 /\ e \in Nat /\ e <= lowlinks[u] /\ e <= lowlinks[v]
        /\ e = lowlinks[u] \/ e = lowlinks[v]
    <3>1. u \in Found /\ v \in Found
      BY <1>2, <1>4
    <3>2. lowlinks[u] \in 0 .. Cardinality(Found) - 1 /\ lowlinks[v] \in 0 .. Cardinality(Found) - 1
      BY <1>0, <3>1 DEF TypeOK
    <3>3. QED
      BY <1>2, <3>1, <3>2 DEF Lesser
  <2> HIDE DEF e
  <2>3. QED
    BY <1>0, <2>1, <2>2, LowlinkSet
<1> HIDE DEF v, u
<1>8. TypeOK'
  BY <1>0, <1>1, <1>5, <1>6, <1>7 DEF TypeOK, Frame
<1>9. GraphInv' /\ Classes' /\ Partitioned'
  <2>1. GraphInv' /\ Partitioned'
    BY <1>0, <1>1, <1>6 DEF GraphInv, ContinuousEdges, BlockEdges, Partitioned
  <2>2. Classes'
    BY <1>0, <1>1, <1>6 DEF Classes, Together
  <2>3. QED
    BY <2>1, <2>2
<1>10. u \in Found /\ u \in OnStack /\ indices[u] < indices[v] /\ v \in Found
  BY <1>2, <1>4 DEF u
<1>11. Numbered'
  <2>1. \A p \in Found : lowlinks'[p] <= indices[p]
    BY <1>0, <1>2, <1>7, <1>10 DEF Numbered
  <2>2. \A i, k \in DOMAIN calls' : i < k => indices[calls'[i].node] < indices[calls'[k].node]
    BY <1>0, <1>6 DEF Numbered
  <2>3. \A i \in DOMAIN calls' : calls'[i].node \in OnStack
    BY <1>2, <1>6
  <2>4. QED
    BY <1>0, <1>1, <1>6, <2>1, <2>2, <2>3 DEF Numbered
<1>12. Explored'
  <2>1. \A i \in DOMAIN calls' : \A q \in calls'[i].left : <<calls'[i].node, q>> \in graph
    BY <1>0, <1>6 DEF Explored
  <2>2. ASSUME NEW p \in Name, NEW q \in Name, <<p, q>> \in graph, p \in Found, q \notin Found
        PROVE  \E i \in DOMAIN calls' : p = calls'[i].node /\ q \in calls'[i].left
    <3>1. PICK i \in DOMAIN calls : p = calls[i].node /\ q \in calls[i].left
      BY <1>0, <2>2 DEF Explored
    <3>2. i # L
      BY <1>1, <1>2, <3>1
    <3>3. QED
      BY <1>6, <3>1, <3>2
  <2>3. QED
    BY <1>0, <1>1, <1>6, <2>1, <2>2 DEF Explored
<1>13. Connected'
  <2> SUFFICES ASSUME NEW p \in OnStack
               PROVE  /\ \A i \in DOMAIN calls' : indices[calls'[i].node] <= indices[p] => Leads(calls'[i].node, p)
                      /\ \E i \in DOMAIN calls' : indices[calls'[i].node] <= indices[p] /\ Leads(p, calls'[i].node)
    BY <1>1, <1>6 DEF Connected, Leads
  <2>1. \A i \in DOMAIN calls' : indices[calls'[i].node] <= indices[p] => Leads(calls'[i].node, p)
    BY <1>0, <1>6 DEF Connected
  <2>2. PICK i \in DOMAIN calls : indices[calls[i].node] <= indices[p] /\ Leads(p, calls[i].node)
    BY <1>0 DEF Connected
  <2>3. CASE i # L
    BY <1>6, <2>1, <2>2, <2>3
  <2>4. CASE i = L
    <3>1. indices[v] <= indices[p] /\ Leads(p, v)
      BY <1>2, <2>2, <2>4 DEF v
    <3>2. indices[calls[g].node] <= indices[p]
      <4>1. indices[calls[g].node] \in Nat /\ indices[v] \in Nat /\ indices[p] \in Nat
        BY <1>2, <1>10
      <4>2. QED
        BY <1>3, <3>1, <4>1
    <3>3. Leads(p, calls[g].node)
      BY <1>3, <3>1, LeadsTransitive
    <3>4. g \in DOMAIN calls' /\ calls'[g] = calls[g]
      BY <1>3, <1>6
    <3>5. QED
      BY <2>1, <3>2, <3>3, <3>4
  <2>5. QED
    BY <2>3, <2>4
<1>14. LowReached'
  <2> SUFFICES ASSUME NEW p \in OnStack PROVE \E q \in OnStack : indices[q] = lowlinks'[p] /\ Leads(p, q)
    BY <1>1, <1>6 DEF LowReached, Leads
  <2>1. CASE lowlinks'[p] = lowlinks[p]
    BY <1>0, <2>1 DEF LowReached
  <2>2. CASE p = u /\ lowlinks'[u] = lowlinks[v]
    <3>1. PICK q \in OnStack : indices[q] = lowlinks[v] /\ Leads(v, q)
      BY <1>0, <1>2 DEF LowReached
    <3>2. Leads(u, v)
      <4>1. L - 1 \in DOMAIN calls /\ indices[calls[L - 1].node] <= indices[v]
        BY <1>2, <1>4, <1>10 DEF u
      <4>2. QED
        BY <1>0, <1>2, <4>1 DEF Connected, u
    <3>3. QED
      BY <2>2, <3>1, <3>2, LeadsTransitive
  <2>3. QED
    BY <1>2, <1>7, <2>1, <2>2
<1>15. LowBound'
  <2> SUFFICES ASSUME NEW i \in DOMAIN calls', NEW p \in OnStack, NEW q \in OnStack,
                      indices[calls'[i].node] <= indices[p],
                      \A k \in DOMAIN calls' : i < k => indices[p] < indices[calls'[k].node],
                      <<p, q>> \in graph, ~(p = calls'[i].node /\ q \in calls'[i].left)
               PROVE  lowlinks'[calls'[i].node] <= indices[q]
    BY <1>1, <1>6 DEF LowBound, Owns
  <2>1. /\ i \in DOMAIN calls /\ i # L /\ calls'[i] = calls[i] /\ calls[i].node \in Found
        /\ p \in Found /\ q \in Found /\ indices[p] \in Nat /\ indices[q] \in Nat
    BY <1>2, <1>6
  <2>2. CASE indices[p] < indices[v]
    <3>1. Owns(i, p)
      <4>1. \A k \in DOMAIN calls : i < k => indices[p] < indices[calls[k].node]
        <5> SUFFICES ASSUME NEW k \in DOMAIN calls, i < k PROVE indices[p] < indices[calls[k].node]
          OBVIOUS
        <5>1. CASE k = L
          BY <1>2, <2>2, <5>1 DEF v
        <5>2. CASE k # L
          BY <1>6, <5>2
        <5>3. QED
          BY <5>1, <5>2
      <4>2. QED
        BY <2>1, <4>1 DEF Owns
    <3>2. lowlinks[calls[i].node] <= indices[q]
      BY <1>0, <2>1, <3>1 DEF LowBound
    <3>3. lowlinks'[calls[i].node] <= lowlinks[calls[i].node]
          /\ lowlinks'[calls[i].node] \in Nat /\ lowlinks[calls[i].node] \in Nat
      <4>1. CASE calls[i].node = u
        BY <1>2, <1>7, <2>1, <4>1
      <4>2. CASE calls[i].node # u
        <5>1. lowlinks'[calls[i].node] = lowlinks[calls[i].node] /\ lowlinks[calls[i].node] \in Nat
          BY <1>2, <1>7, <2>1, <4>2
        <5>2. QED
          BY <5>1
      <4>3. QED
        BY <4>1, <4>2
    <3>4. QED
      BY <2>1, <3>2, <3>3
  <2>3. CASE indices[v] <= indices[p]
    <3>1. i = L - 1
      <4>1. SUFFICES ASSUME i # L - 1 PROVE FALSE
        OBVIOUS
      <4>2. i < L - 1 /\ L - 1 \in DOMAIN calls' /\ calls'[L - 1].node = u
        BY <1>4, <1>6, <2>1, <4>1 DEF u
      <4>3. indices[p] < indices[u]
        BY <4>2
      <4>4. indices[u] \in Nat /\ indices[v] \in Nat
        BY <1>2, <1>10
      <4>5. QED
        BY <1>10, <2>1, <2>3, <4>3, <4>4
    <3>2. Owns(L, p)
      <4>1. \A k \in DOMAIN calls : ~(L < k)
        BY <1>2
      <4>2. QED
        BY <1>2, <2>3, <4>1 DEF Owns, v
    <3>3. lowlinks[v] <= indices[q]
      BY <1>0, <1>1, <1>2, <3>2 DEF LowBound, v
    <3>4. lowlinks'[u] <= indices[q]
      BY <1>2, <1>7, <1>10, <2>1, <3>3
    <3>5. QED
      BY <2>1, <3>1, <3>4 DEF u
  <2>4. QED
    <3>1. indices[v] \in Nat
      BY <1>2, <1>10
    <3>2. QED
      BY <2>1, <2>2, <2>3, <3>1
<1>16. QED
  BY <1>8, <1>9, <1>11, <1>12, <1>13, <1>14, <1>15 DEF LoopInv, SearchInv

\* A node whose lowlink is its own number: the stack from it upwards is the
\* component that is put out.
LEMMA StackSplits ==
    ASSUME LoopInv, calls # <<>>, NEW i \in DOMAIN stack, stack[i] = Innermost.node
    PROVE  /\ {stack[j] : j \in i .. Len(stack)} = {n \in OnStack : indices[Innermost.node] <= indices[n]}
           /\ SubSeq(stack, 1, i - 1) \in Seq(Found) /\ Len(SubSeq(stack, 1, i - 1)) = i - 1
           /\ DOMAIN SubSeq(stack, 1, i - 1) = 1 .. i - 1
           /\ \A j \in 1 .. i - 1 : j \in DOMAIN stack /\ SubSeq(stack, 1, i - 1)[j] = stack[j]
           /\ {stack[j] : j \in 1 .. i - 1} = {n \in OnStack : indices[n] < indices[Innermost.node]}
<1> DEFINE N == Len(stack)
           v == Innermost.node
<1>1. TypeOK /\ Numbered
  BY DEF LoopInv, SearchInv
<1>2. N \in Nat /\ DOMAIN stack = 1 .. N /\ stack \in Seq(Found)
  BY <1>1, Shapes DEF TypeOK
<1>3. \A j \in DOMAIN stack : stack[j] \in Found /\ indices[stack[j]] \in Nat /\ stack[j] \in OnStack
  BY <1>1, <1>2, Numbers DEF OnStack, TypeOK
<1>4. \A j \in DOMAIN stack : j < i => indices[stack[j]] < indices[v]
  BY <1>1 DEF Numbered
<1>5. \A j \in DOMAIN stack : i <= j => indices[v] <= indices[stack[j]]
  <2> SUFFICES ASSUME NEW j \in DOMAIN stack, i <= j PROVE indices[v] <= indices[stack[j]]
    OBVIOUS
  <2>1. i = j \/ i < j
    BY <1>2
  <2>2. QED
    BY <1>1, <1>3, <2>1 DEF Numbered
<1>6. SubSeq(stack, 1, i - 1) \in Seq(Found) /\ Len(SubSeq(stack, 1, i - 1)) = i - 1
      /\ \A j \in 1 .. i - 1 : SubSeq(stack, 1, i - 1)[j] = stack[j]
  <2>1. i - 1 \in 0 .. N
    BY <1>2
  <2>2. QED
    BY <1>2, <2>1, Front
<1>7. DOMAIN SubSeq(stack, 1, i - 1) = 1 .. i - 1
  BY <1>6
<1> HIDE DEF N, v
<1>8. /\ \A j \in 1 .. i - 1 : j \in DOMAIN stack /\ j < i
      /\ \A j \in i .. N : j \in DOMAIN stack /\ i <= j
      /\ \A j \in DOMAIN stack : (j < i /\ j \in 1 .. i - 1) \/ (i <= j /\ j \in i .. N)
  BY <1>2
<1>9. indices[v] \in Nat
  BY <1>3 DEF v
<1>10. {stack[j] : j \in i .. N} = {n \in OnStack : indices[v] <= indices[n]}
  <2>1. \A j \in i .. N : stack[j] \in OnStack /\ indices[v] <= indices[stack[j]]
    BY <1>3, <1>5, <1>8
  <2>2. \A n \in OnStack : indices[v] <= indices[n] => \E j \in i .. N : n = stack[j]
    <3> SUFFICES ASSUME NEW n \in OnStack, indices[v] <= indices[n] PROVE \E j \in i .. N : n = stack[j]
      OBVIOUS
    <3>1. PICK j \in DOMAIN stack : n = stack[j]
      BY DEF OnStack
    <3>2. ~(j < i)
      BY <1>3, <1>4, <1>9, <3>1
    <3>3. QED
      BY <1>8, <3>1, <3>2
  <2>3. QED
    BY <2>1, <2>2
<1>11. {stack[j] : j \in 1 .. i - 1} = {n \in OnStack : indices[n] < indices[v]}
  <2>1. \A j \in 1 .. i - 1 : stack[j] \in OnStack /\ indices[stack[j]] < indices[v]
    BY <1>3, <1>4, <1>8
  <2>2. \A n \in OnStack : indices[n] < indices[v] => \E j \in 1 .. i - 1 : n = stack[j]
    <3> SUFFICES ASSUME NEW n \in OnStack, indices[n] < indices[v] PROVE \E j \in 1 .. i - 1 : n = stack[j]
      OBVIOUS
    <3>1. PICK j \in DOMAIN stack : n = stack[j]
      BY DEF OnStack
    <3>2. ~(i <= j)
      BY <1>3, <1>5, <1>9, <3>1
    <3>3. QED
      BY <1>8, <3>1, <3>2
  <2>3. QED
    BY <2>1, <2>2
<1>12. QED
  BY <1>6, <1>7, <1>8, <1>10, <1>11 DEF N, v

\* The part of the stack above such a node is a class of nodes that reach each
\* other, and no edge leads out of it but into the components.
LEMMA ComponentIsClass ==
    ASSUME LoopInv, calls # <<>>, Innermost.left = {}, lowlinks[Innermost.node] = indices[Innermost.node],
           NEW C, C = {n \in OnStack : indices[Innermost.node] <= indices[n]}
    PROVE  /\ \A m, n \in Name : <<m, n>> \in graph /\ m \in C => n \in C \cup PutOut
           /\ \A m \in C : C = {n \in Nodes : Together(m, n)}
<1> DEFINE L == Len(calls)
           v == Innermost.node
<1>0. TypeOK /\ GraphInv /\ Numbered /\ Partitioned /\ Explored /\ Connected /\ LowReached /\ LowBound
  BY DEF LoopInv, SearchInv
<1>1. /\ L \in DOMAIN calls /\ L \in Nat /\ DOMAIN calls = 1 .. L /\ Innermost = calls[L]
      /\ v \in OnStack /\ OnStack \subseteq Found
      /\ \A p \in Found : indices[p] \in Nat /\ lowlinks[p] \in Nat
      /\ \A i \in DOMAIN calls : calls[i].node \in OnStack /\ calls[i].node \in Found
      /\ \A i \in DOMAIN calls : i # L => i < L /\ indices[calls[i].node] < indices[v]
  BY Innermosts
<1> HIDE DEF L
<1>2. \A i \in DOMAIN calls : ~(L < i)
  BY <1>1
<1> HIDE DEF v
<1>3. v = calls[L].node /\ v \in Found /\ indices[v] \in Nat
  BY <1>1 DEF v
<1>4. ASSUME NEW m \in Name, NEW n \in Name, <<m, n>> \in graph, m \in C PROVE n \in C \cup PutOut
  <2>1. m \in OnStack /\ m \in Found /\ indices[v] <= indices[m] /\ indices[m] \in Nat
    BY <1>1, <1>4 DEF v
  <2>2. n \in Found
    <3>1. SUFFICES ASSUME NEW i \in DOMAIN calls, m = calls[i].node, n \in calls[i].left PROVE FALSE
      BY <1>0, <1>4, <2>1 DEF Explored
    <3>2. i = L
      BY <1>1, <1>3, <2>1, <3>1
    <3>3. QED
      BY <1>1, <3>1, <3>2
  <2>3. CASE n \in OnStack
    <3>1. Owns(L, m)
      BY <1>2, <1>3, <2>1 DEF Owns
    <3>2. ~(m = calls[L].node /\ n \in calls[L].left)
      BY <1>1
    <3>3. lowlinks[v] <= indices[n]
      BY <1>0, <1>1, <1>3, <1>4, <2>1, <2>3, <3>1, <3>2 DEF LowBound
    <3>4. QED
      BY <2>3, <3>3 DEF v
  <2>4. QED
    BY <1>0, <2>2, <2>3 DEF Partitioned
<1>5. ASSUME NEW n \in C PROVE Leads(v, n) /\ Leads(n, v)
  <2>1. n \in OnStack /\ indices[v] <= indices[n]
    BY DEF v
  <2>2. Leads(v, n)
    BY <1>0, <1>1, <1>3, <2>1 DEF Connected
  <2>3. PICK i \in DOMAIN calls : indices[calls[i].node] <= indices[n] /\ Leads(n, calls[i].node)
    BY <1>0, <2>1 DEF Connected
  <2>4. indices[calls[i].node] <= indices[v]
    BY <1>1, <1>3
  <2>5. Leads(calls[i].node, v)
    BY <1>0, <1>1, <2>4 DEF Connected
  <2>6. QED
    BY <2>2, <2>3, <2>5, LeadsTransitive
<1>6. ASSUME NEW m \in C PROVE C = {n \in Nodes : Together(m, n)}
  <2>1. ASSUME NEW n \in C PROVE n \in Nodes /\ Together(m, n)
    <3>1. Leads(m, n) /\ Leads(n, m)
      BY <1>5, LeadsTransitive
    <3>2. n \in Nodes
      BY <1>0, <1>1 DEF Partitioned
    <3>3. QED
      BY <3>1, <3>2 DEF Leads, Together
  <2>2. ASSUME NEW n \in Nodes, Together(m, n) PROVE n \in C
    <3>1. SUFFICES ASSUME m # n PROVE n \in C
      OBVIOUS
    <3>2. Reaches(graph, m, n) /\ Reaches(graph, n, m)
      BY <2>2, <3>1 DEF Together
    <3>3. \A e \in graph : e[1] \in Name /\ e[2] \in Name /\ <<e[1], e[2]>> \in graph
      BY <1>0, GraphOfNames
    <3>4. C \subseteq Name /\ PutOut \subseteq Name
      BY <1>0, <1>1 DEF TypeOK, Partitioned
    <3>5. \A e \in graph : e[1] \in C \cup PutOut => e[2] \in C \cup PutOut
      <4>1. \A e \in graph : e[1] \in C => e[2] \in C \cup PutOut
        BY <1>4, <3>3
      <4>2. \A e \in graph : e[1] \in PutOut => e[2] \in PutOut
        <5>1. \A k, l \in Name : <<k, l>> \in graph /\ k \in PutOut => l \in PutOut
          BY <1>0 DEF Explored
        <5>2. QED
          BY <3>3, <5>1
      <4>3. QED
        BY <4>1, <4>2
    <3>6. n \in C \cup PutOut
      BY <3>2, <3>4, <3>5, ClosedSet
    <3>7. n \notin PutOut
      <4>1. SUFFICES ASSUME n \in PutOut PROVE FALSE
        OBVIOUS
      <4>2. \A e \in graph : e[1] \in PutOut => e[2] \in PutOut
        <5>1. \A k, l \in Name : <<k, l>> \in graph /\ k \in PutOut => l \in PutOut
          BY <1>0 DEF Explored
        <5>2. QED
          BY <3>3, <5>1
      <4>3. m \in PutOut
        BY <3>2, <3>4, <4>1, <4>2, ClosedSet
      <4>4. QED
        BY <1>0, <4>3 DEF Partitioned
    <3>8. QED
      BY <3>6, <3>7
  <2>3. QED
    BY <2>1, <2>2
<1>7. QED
  BY <1>4, <1>6

LEMMA LeaveWithComponentStep == ASSUME LoopInv, LeaveWithComponent PROVE LoopInv'
<1> DEFINE L == Len(calls)
           v == Innermost.node
           C == {n \in OnStack : indices[v] <= indices[n]}
<1>0. TypeOK /\ GraphInv /\ Numbered /\ Partitioned /\ Explored /\ Connected /\ LowReached /\ LowBound /\ Classes
  BY DEF LoopInv, SearchInv
<1>1. /\ calls # <<>> /\ Innermost.left = {} /\ lowlinks[v] = indices[v]
      /\ UNCHANGED <<design, graph, indices>>
      /\ calls' = Callers
      /\ lowlinks' = IF Callers = <<>> THEN lowlinks
                     ELSE [lowlinks EXCEPT ![Callers[Len(Callers)].node] = Lesser(@, lowlinks[v])]
  BY DEF LeaveWithComponent, Return
<1>2. /\ L \in DOMAIN calls /\ L \in Nat /\ DOMAIN calls = 1 .. L /\ Innermost = calls[L]
      /\ v \in OnStack /\ OnStack \subseteq Found
      /\ \A p \in Found : indices[p] \in Nat /\ lowlinks[p] \in Nat
      /\ \A i \in DOMAIN calls : calls[i].node \in OnStack /\ calls[i].node \in Found
      /\ \A i \in DOMAIN calls : i # L => i < L /\ indices[calls[i].node] < indices[v]
  BY <1>1, Innermosts
<1>3. PICK s \in DOMAIN stack : /\ stack[s] = v
                                /\ stack' = SubSeq(stack, 1, s - 1)
                                /\ result' = result \cup {{stack[j] : j \in s .. Len(stack)}}
  BY DEF LeaveWithComponent
<1>4. /\ result' = result \cup {C}
      /\ stack' \in Seq(Found) /\ DOMAIN stack' = 1 .. s - 1
      /\ \A j \in 1 .. s - 1 : j \in DOMAIN stack /\ stack'[j] = stack[j]
      /\ {stack[j] : j \in 1 .. s - 1} = {n \in OnStack : indices[n] < indices[v]}
  BY <1>1, <1>3, StackSplits
<1>5. /\ \A m, n \in Name : <<m, n>> \in graph /\ m \in C => n \in C \cup PutOut
      /\ \A m \in C : C = {n \in Nodes : Together(m, n)}
  BY <1>1, ComponentIsClass
<1>6. OnStack' = {n \in OnStack : indices[n] < indices[v]}
  <2>1. OnStack' = {stack[j] : j \in 1 .. s - 1}
    BY <1>4 DEF OnStack
  <2>2. QED
    BY <1>4, <2>1
<1>7. Found' = Found /\ Nodes' = Nodes /\ PutOut' = PutOut \cup C
  BY <1>1, <1>4 DEF Found, Nodes, PutOut
<1> HIDE DEF L
<1>8. /\ Callers \in Seq(Frame) /\ Len(Callers) = L - 1 /\ DOMAIN Callers = 1 .. L - 1
      /\ \A i \in 1 .. L - 1 : Callers[i] = calls[i]
      /\ Callers = <<>> <=> L = 1
  <2>1. /\ Callers \in Seq(Frame) /\ Len(Callers) = L - 1
        /\ \A i \in 1 .. L - 1 : Callers[i] = calls[i]
        /\ Callers = <<>> <=> L = 1
    BY <1>0, <1>1, Shapes DEF L
  <2>2. DOMAIN Callers = 1 .. L - 1
    BY <2>1
  <2>3. QED
    BY <2>1, <2>2
<1>9. /\ \A i \in DOMAIN calls' : i \in DOMAIN calls /\ i # L /\ calls'[i] = calls[i]
      /\ \A i \in DOMAIN calls : i # L => i \in DOMAIN calls'
  <2>1. \A i \in 1 .. L - 1 : i \in 1 .. L /\ i # L
    BY <1>2
  <2>2. \A i \in 1 .. L : i # L => i \in 1 .. L - 1
    BY <1>2
  <2>3. QED
    BY <1>1, <1>2, <1>8, <2>1, <2>2
<1> HIDE DEF v, C
<1>10. /\ v \in Found /\ indices[v] \in Nat /\ v = calls[L].node
       /\ C \subseteq OnStack /\ OnStack' \subseteq OnStack /\ OnStack = OnStack' \cup C /\ OnStack' \cap C = {}
       /\ \A n \in OnStack : n \in OnStack' <=> indices[n] < indices[v]
  BY <1>2, <1>6 DEF v, C
<1>11. lowlinks' = lowlinks
  <2>1. CASE Callers = <<>>
    BY <1>1, <2>1
  <2>2. CASE Callers # <<>>
    <3> DEFINE u == calls[L - 1].node
    <3>1. L - 1 \in 1 .. L - 1 /\ L - 1 \in 1 .. L /\ L - 1 # L
      BY <1>2, <1>8, <2>2
    <3>2. Callers[Len(Callers)].node = u /\ u \in Found /\ indices[u] < indices[v]
      BY <1>2, <1>8, <3>1
    <3>3. lowlinks[u] <= indices[u]
      BY <1>0, <3>2 DEF Numbered
    <3>4. Lesser(lowlinks[u], lowlinks[v]) = lowlinks[u]
      <4>1. lowlinks[u] \in Nat /\ indices[u] \in Nat
        BY <1>2, <3>2
      <4>2. lowlinks[u] < lowlinks[v]
        BY <1>1, <1>10, <3>2, <3>3, <4>1 DEF v
      <4>3. QED
        BY <4>2 DEF Lesser
    <3>5. lowlinks' = [lowlinks EXCEPT ![u] = lowlinks[u]]
      BY <1>1, <2>2, <3>2, <3>4 DEF v
    <3>6. lowlinks \in [Found -> 0 .. Cardinality(Found) - 1]
      BY <1>0 DEF TypeOK
    <3>7. QED
      BY <3>2, <3>5, <3>6
  <2>3. QED
    BY <2>1, <2>2
<1>12. TypeOK'
  <2>1. result' \subseteq SUBSET Found
    BY <1>0, <1>2, <1>4, <1>10 DEF TypeOK, C, v
  <2>2. stack' \in Seq(Found)
    BY <1>4
  <2>3. calls' \in Seq([node : Found, left : SUBSET Name])
    BY <1>1, <1>8 DEF Frame
  <2>4. QED
    BY <1>0, <1>1, <1>7, <1>11, <2>1, <2>2, <2>3 DEF TypeOK
<1>13. GraphInv'
  BY <1>0, <1>1 DEF GraphInv, ContinuousEdges, BlockEdges
<1>14. Classes'
  <2> SUFFICES ASSUME NEW c \in result', NEW m \in c PROVE c = {n \in Nodes : Together(m, n)}
    BY <1>1, <1>7 DEF Classes, Together
  <2>1. c \in result \/ c = C
    BY <1>4 DEF C, v
  <2>2. QED
    BY <1>0, <1>5, <2>1 DEF Classes, C, v
<1>15. Numbered'
  <2>1. \A i, k \in DOMAIN stack' : i < k => indices[stack'[i]] < indices[stack'[k]]
    BY <1>0, <1>4 DEF Numbered
  <2>2. \A i, k \in DOMAIN calls' : i < k => indices[calls'[i].node] < indices[calls'[k].node]
    BY <1>0, <1>9 DEF Numbered
  <2>3. \A i \in DOMAIN calls' : calls'[i].node \in OnStack'
    BY <1>2, <1>9, <1>10 DEF v
  <2>4. QED
    BY <1>0, <1>1, <1>7, <1>11, <2>1, <2>2, <2>3 DEF Numbered
<1>16. Partitioned'
  BY <1>0, <1>7, <1>10 DEF Partitioned
<1>17. Explored'
  <2>1. \A i \in DOMAIN calls' : \A q \in calls'[i].left : <<calls'[i].node, q>> \in graph
    BY <1>0, <1>9 DEF Explored
  <2>2. ASSUME NEW p \in Name, NEW q \in Name, <<p, q>> \in graph, p \in Found, q \notin Found
        PROVE  \E i \in DOMAIN calls' : p = calls'[i].node /\ q \in calls'[i].left
    <3>1. PICK i \in DOMAIN calls : p = calls[i].node /\ q \in calls[i].left
      BY <1>0, <2>2 DEF Explored
    <3>2. i # L
      BY <1>1, <1>2, <3>1
    <3>3. QED
      BY <1>9, <3>1, <3>2
  <2>3. ASSUME NEW p \in Name, NEW q \in Name, <<p, q>> \in graph, p \in PutOut \cup C PROVE q \in PutOut \cup C
    BY <1>0, <1>5, <2>3 DEF Explored, C, v
  <2>4. QED
    BY <1>1, <1>7, <2>1, <2>2, <2>3 DEF Explored
<1>18. Connected'
  <2> SUFFICES ASSUME NEW p \in OnStack'
               PROVE  /\ \A i \in DOMAIN calls' : indices[calls'[i].node] <= indices[p] => Leads(calls'[i].node, p)
                      /\ \E i \in DOMAIN calls' : indices[calls'[i].node] <= indices[p] /\ Leads(p, calls'[i].node)
    BY <1>1 DEF Connected, Leads
  <2>1. p \in OnStack /\ indices[p] < indices[v]
    BY <1>10
  <2>2. PICK i \in DOMAIN calls : indices[calls[i].node] <= indices[p] /\ Leads(p, calls[i].node)
    BY <1>0, <2>1 DEF Connected
  <2>3. i # L
    <3>1. indices[p] \in Nat
      BY <1>2, <2>1
    <3>2. QED
      BY <1>10, <2>1, <2>2, <3>1
  <2>4. QED
    BY <1>0, <1>9, <2>1, <2>2, <2>3 DEF Connected
<1>19. LowReached'
  <2> SUFFICES ASSUME NEW p \in OnStack' PROVE \E q \in OnStack' : indices[q] = lowlinks[p] /\ Leads(p, q)
    BY <1>1, <1>11 DEF LowReached, Leads
  <2>1. p \in OnStack /\ indices[p] < indices[v] /\ p \in Found
    BY <1>2, <1>10
  <2>2. PICK q \in OnStack : indices[q] = lowlinks[p] /\ Leads(p, q)
    BY <1>0, <2>1 DEF LowReached
  <2>3. indices[q] < indices[v]
    <3>1. lowlinks[p] <= indices[p] /\ lowlinks[p] \in Nat /\ indices[p] \in Nat
      BY <1>0, <1>2, <2>1 DEF Numbered
    <3>2. QED
      BY <1>10, <2>1, <2>2, <3>1
  <2>4. QED
    BY <1>10, <2>2, <2>3
<1>20. LowBound'
  <2> SUFFICES ASSUME NEW i \in DOMAIN calls', NEW p \in OnStack', NEW q \in OnStack',
                      indices[calls'[i].node] <= indices[p],
                      \A k \in DOMAIN calls' : i < k => indices[p] < indices[calls'[k].node],
                      <<p, q>> \in graph, ~(p = calls'[i].node /\ q \in calls'[i].left)
               PROVE  lowlinks[calls'[i].node] <= indices[q]
    BY <1>1, <1>11 DEF LowBound, Owns
  <2>1. /\ i \in DOMAIN calls /\ i # L /\ calls'[i] = calls[i]
        /\ p \in OnStack /\ q \in OnStack /\ indices[p] < indices[v]
    BY <1>9, <1>10
  <2>2. \A k \in DOMAIN calls : i < k => indices[p] < indices[calls[k].node]
    <3> SUFFICES ASSUME NEW k \in DOMAIN calls, i < k PROVE indices[p] < indices[calls[k].node]
      OBVIOUS
    <3>1. CASE k = L
      BY <1>10, <2>1, <3>1
    <3>2. CASE k # L
      BY <1>9, <3>2
    <3>3. QED
      BY <3>1, <3>2
  <2>3. Owns(i, p)
    BY <2>1, <2>2 DEF Owns
  <2>4. QED
    BY <1>0, <2>1, <2>3 DEF LowBound
<1>21. QED
  BY <1>12, <1>13, <1>14, <1>15, <1>16, <1>17, <1>18, <1>19, <1>20 DEF LoopInv, SearchInv

-----------------------------------------------------------------------------
(* Every step. *)

LEMMA StepLoopInv == LoopInv /\ [Next]_vars => LoopInv'
<1> SUFFICES ASSUME LoopInv, [Next]_vars PROVE LoopInv'
  OBVIOUS
<1>0. TypeOK /\ GraphInv /\ SearchInv
  BY DEF LoopInv
<1>1. CASE Root
  <2>1. PICK n \in Nodes \ Found : Enter(n, calls)
    BY <1>1 DEF Root
  <2>2. calls = <<>> /\ DOMAIN calls = {} /\ calls \in Seq(Frame) /\ n \in Name
    BY <1>0, <1>1, GraphOfNames DEF Root, TypeOK, Frame
  <2>3. QED
    BY <2>1, <2>2, EnterStep
<1>2. ASSUME NEW m \in Name, Descend(m) PROVE LoopInv'
  <2>1. calls # <<>> /\ m \in Innermost.left /\ m \notin Found /\ Enter(m, Rest(m))
    BY <1>2 DEF Descend, Takes
  <2>2. /\ Len(calls) \in DOMAIN calls /\ Len(calls) \in Nat /\ DOMAIN calls = 1 .. Len(calls)
        /\ Innermost = calls[Len(calls)]
    BY <1>0, <2>1, Shapes
  <2>3. /\ Rest(m) \in Seq(Frame) /\ Len(Rest(m)) = Len(calls)
        /\ \A i \in 1 .. Len(calls) - 1 : Rest(m)[i] = calls[i]
        /\ Rest(m)[Len(calls)].node = Innermost.node
        /\ Rest(m)[Len(calls)].left = Innermost.left \ {m}
    BY <1>0, <2>1, RestShape
  <2>4. \A i \in DOMAIN calls : i = Len(calls) \/ i \in 1 .. Len(calls) - 1
    BY <2>2
  <2>5. \A i \in DOMAIN calls : /\ Rest(m)[i].node = calls[i].node
                                /\ Rest(m)[i].left \subseteq calls[i].left
                                /\ calls[i].left \subseteq Rest(m)[i].left \cup {m}
    BY <2>2, <2>3, <2>4
  <2>6. <<Innermost.node, m>> \in graph
    BY <1>0, <2>1, <2>2 DEF SearchInv, Explored
  <2>7. m \in Nodes /\ Innermost.node \in Name
    <3>1. Innermost.node \in Name
      BY SMTT(30), <1>0, <2>2 DEF SearchInv, Numbered, TypeOK, OnStack
    <3>2. QED
      BY <1>0, <2>6, <3>1, GraphOfNames
  <2>8. QED
    BY <2>1, <2>3, <2>5, <2>6, <2>7, EnterStep
<1>3. ASSUME NEW m \in Name, LookBack(m) PROVE LoopInv'
  BY <1>3, LookBackStep
<1>4. CASE Leave
  BY <1>4, LeaveStep
<1>5. CASE LeaveWithComponent
  BY <1>5, LeaveWithComponentStep
<1>6. CASE UNCHANGED vars
  <2>1. UNCHANGED <<design, graph, indices, lowlinks, stack, calls, result>>
    BY <1>6
  <2>2. Found' = Found /\ OnStack' = OnStack /\ PutOut' = PutOut /\ Nodes' = Nodes
    BY <2>1 DEF Found, OnStack, PutOut, Nodes
  <2>3. TypeOK' /\ GraphInv'
    <3>1. GraphInv'
      BY <1>0, <2>1 DEF GraphInv, ContinuousEdges, BlockEdges
    <3>2. TypeOK'
      BY <1>0, <2>1, <2>2, ZenonT(30) DEF TypeOK
    <3>3. QED
      BY <3>1, <3>2
  <2>4. Numbered' /\ Partitioned' /\ Explored' /\ Connected' /\ LowReached' /\ LowBound' /\ Classes'
    BY <1>0, <2>1, <2>2
       DEF SearchInv, Numbered, Partitioned, Explored, Connected, LowReached, LowBound, Classes, Leads, Owns, Together
  <2>5. QED
    BY <2>3, <2>4 DEF LoopInv, SearchInv
<1>7. QED
  BY <1>1, <1>2, <1>3, <1>4, <1>5, <1>6 DEF Next

-----------------------------------------------------------------------------
(* Theorems. *)

\* What the indices, lowlinks and stacks of _tarjan_scc mean at every step of the
\* search, and that the graph is the one of the design.
THEOREM SearchInductive == Spec => []LoopInv
BY InitLoopInv, StepLoopInv, PTL DEF Spec

\* The numbers of the search and its stacks keep their types: a number is never
\* given out twice, and only nodes that were found are on a stack.
THEOREM LoopTypeCorrect == Spec => []TypeOK
<1>1. LoopInv => TypeOK
  BY DEF LoopInv
<1>2. QED
  BY <1>1, SearchInductive, PTL

\* _tarjan_scc is right for every graph and every order in which the sets of
\* neighbours are walked: each component it puts out is a whole class of
\* signals that reach each other, and when the search is done each signal is
\* in one.
THEOREM SearchIsCorrect == Spec => []ComponentsAreClasses
<1>1. LoopInv => ComponentsAreClasses
  <2> SUFFICES ASSUME LoopInv, Done PROVE PutOut = Nodes
    BY DEF ComponentsAreClasses, LoopInv, SearchInv, Classes, PutOut
  <2>1. calls = <<>> /\ DOMAIN calls = {} /\ Nodes \subseteq Found
    BY DEF Done
  <2>2. OnStack = {}
    BY <2>1 DEF LoopInv, SearchInv, Connected
  <2>3. QED
    BY <2>1, <2>2 DEF LoopInv, SearchInv, Partitioned
<1>2. QED
  BY <1>1, SearchInductive, PTL

\* What makes the lowlinks trustworthy: a node on the stack and the node whose
\* number is its lowlink reach each other, and the activations reach all that
\* lies above them on the stack.
THEOREM StackHangsTogether == Spec => []StackIsConnected
<1>1. ASSUME LoopInv PROVE StackIsConnected
  <2> SUFFICES ASSUME NEW n \in OnStack
               PROVE  /\ \E m \in OnStack : indices[m] = lowlinks[n] /\ Together(m, n)
                      /\ \A m \in {calls[i].node : i \in DOMAIN calls} :
                             indices[m] <= indices[n] => m = n \/ Reaches(graph, m, n)
    BY DEF StackIsConnected
  <2>0. TypeOK /\ Numbered /\ Connected /\ LowReached
    BY <1>1 DEF LoopInv, SearchInv
  <2>1. PICK m \in OnStack : indices[m] = lowlinks[n] /\ Leads(n, m)
    BY <2>0 DEF LowReached
  <2>2. PICK i \in DOMAIN calls : indices[calls[i].node] <= indices[m] /\ Leads(m, calls[i].node)
    BY <2>0 DEF Connected
  <2>3. indices[calls[i].node] <= indices[n]
    <3>1. OnStack \subseteq Found /\ calls[i].node \in OnStack
      BY <2>0, Shapes DEF Numbered
    <3>2. /\ indices[m] \in Nat /\ indices[n] \in Nat /\ indices[calls[i].node] \in Nat
          /\ lowlinks[n] <= indices[n]
      BY <2>0, <3>1, Numbers DEF Numbered
    <3>3. QED
      BY <2>1, <2>2, <3>2
  <2>4. Leads(calls[i].node, n)
    BY <2>0, <2>3 DEF Connected
  <2>5. Leads(m, n)
    BY <2>2, <2>4, LeadsTransitive
  <2>6. Together(m, n)
    BY <2>1, <2>5 DEF Leads, Together
  <2>7. \A k \in DOMAIN calls : indices[calls[k].node] <= indices[n] => Leads(calls[k].node, n)
    BY <2>0 DEF Connected
  <2>8. QED
    BY <2>1, <2>6, <2>7 DEF Leads
<1>2. QED
  BY <1>1, SearchInductive, PTL

\* A component of one node only is that node, and one of several has another.
LEMMA Several ==
    ASSUME NEW c, IsFiniteSet(c), NEW n \in c
    PROVE  Cardinality(c) > 1 <=> \E m \in c : m # n
<1>1. Cardinality(c) \in Nat /\ Cardinality({n}) = 1 /\ Cardinality(c) # 0
  BY FS_CardinalityType, FS_Singleton, FS_EmptySet
<1>2. Cardinality(c) = 1 <=> \E x : c = {x}
  BY FS_Singleton
<1>3. Cardinality(c) > 1 <=> ~\E x : c = {x}
  BY <1>1, <1>2
<1>4. QED
  BY <1>3

\* A node of the graph that reaches itself does so over an edge to itself or
\* over another node, which is then in its class.
LEMMA CycleSplits ==
    ASSUME TypeOK, GraphInv, NEW n \in Name, Reaches(graph, n, n)
    PROVE  /\ n \in Nodes
           /\ <<n, n>> \in graph \/ \E m \in Nodes \ {n} : Together(n, m)
<1>1. \A e \in graph : e[1] \in Name /\ e[2] \in Name /\ e = <<e[1], e[2]>> /\ e[1] \in Nodes /\ e[2] \in Nodes
  BY GraphOfNames DEF Nodes
<1>2. n \in Nodes
  <2>1. ~(\A e \in graph : e[1] \in {} \cup {n} => e[2] \in {})
    BY DEF Reaches
  <2>2. QED
    BY <1>1, <2>1
<1>3. ASSUME <<n, n>> \notin graph, \A m \in Nodes \ {n} : ~Together(n, m) PROVE FALSE
  <2> DEFINE S == {p \in Name : Reaches(graph, n, p) /\ ~Reaches(graph, p, n)}
  <2>1. ASSUME NEW e \in graph, e[1] \in S \cup {n} PROVE e[2] \in S
    <3>1. <<e[1], e[2]>> \in graph /\ e[2] \in Name /\ e[2] \in Nodes
      BY <1>1
    <3>2. Reaches(graph, n, e[2])
      BY <2>1, <3>1, EdgeReaches, ReachesTransitive
    <3>3. ~Reaches(graph, e[2], n)
      <4>1. SUFFICES ASSUME Reaches(graph, e[2], n) PROVE FALSE
        OBVIOUS
      <4>2. CASE e[1] = n
        BY <1>3, <3>1, <3>2, <4>1, <4>2 DEF Together
      <4>3. CASE e[1] \in S
        BY <3>1, <4>1, <4>3, EdgeReaches, ReachesTransitive
      <4>4. QED
        BY <2>1, <4>2, <4>3
    <3>4. QED
      BY <3>1, <3>2, <3>3
  <2>2. S \in SUBSET Name /\ \A e \in graph : e[1] \in S \cup {n} => e[2] \in S
    BY <2>1
  <2> HIDE DEF S
  <2>3. n \in S
    BY <2>2 DEF Reaches
  <2>4. QED
    BY <2>3 DEF S
<1>4. QED
  BY <1>2, <1>3

\* The dependencies of a design are among the edges of its graph.
LEMMA DependsIsInGraph == ASSUME GraphInv PROVE Depends \subseteq graph
<1>1. ASSUME NEW e \in Depends PROVE e \in graph
  <2>1. PICK a \in design.continuous \cup UNION {b.assigns : b \in {c \in design.blocks : c.combinational}} :
            e \in Edges(design, a.target, a.uses \cup a.under)
    BY DEF Depends
  <2>2. CASE a \in design.continuous
    <3>1. a.under = {}
      BY <2>2, LoopAssumption DEF GraphInv
    <3>2. e \in Edges(design, a.target, a.uses)
      BY <2>1, <3>1 DEF Edges
    <3>3. QED
      BY <2>2, <3>2 DEF GraphInv, ContinuousEdges
  <2>3. CASE \E b \in design.blocks : b.combinational /\ a \in b.assigns
    <3>1. PICK b \in design.blocks : b.combinational /\ a \in b.assigns
      BY <2>3
    <3>2. a.under \subseteq b.conditions
      BY <3>1, LoopAssumption DEF GraphInv
    <3>3. e \in Edges(design, a.target, a.uses \cup b.conditions)
      BY <2>1, <3>2 DEF Edges
    <3>4. e \in UNION {Edges(design, x.target, x.uses \cup b.conditions) : x \in b.assigns}
      BY <3>1, <3>3
    <3>5. b \in {c \in design.blocks : c.combinational}
      BY <3>1
    <3>6. e \in BlockEdges(design)
      BY <3>4, <3>5 DEF BlockEdges
    <3>7. QED
      BY <3>6 DEF GraphInv
  <2>4. QED
    BY <2>1, <2>2, <2>3
<1>2. QED
  BY <1>1

\* RISK_COMBINATIONAL_LOOP misses no loop: every signal of a design that depends
\* on itself, over however many assignments and conditions, is in a component
\* that the rule reports.
THEOREM NoLoopIsMissed == Spec => []RealLoopIsReported
<1>1. LoopInv => RealLoopIsReported
  <2> SUFFICES ASSUME LoopInv, Done, NEW n \in Name, Reaches(Depends, n, n) PROVE n \in UNION Loops
    BY DEF RealLoopIsReported
  <2>1. TypeOK /\ GraphInv /\ Classes
    BY DEF LoopInv, SearchInv
  <2>2. Reaches(graph, n, n)
    BY <2>1, DependsIsInGraph, ReachesMonotonic
  <2>3. /\ n \in Nodes
        /\ <<n, n>> \in graph \/ \E m \in Nodes \ {n} : Together(n, m)
    BY <2>1, <2>2, CycleSplits
  <2>4. calls = <<>> /\ DOMAIN calls = {} /\ Nodes \subseteq Found
    BY DEF Done
  <2>5. OnStack = {}
    BY <2>4 DEF LoopInv, SearchInv, Connected
  <2>6. n \in PutOut
    BY <2>3, <2>4, <2>5 DEF LoopInv, SearchInv, Partitioned
  <2>7. PICK c \in result : n \in c
    BY <2>6 DEF PutOut
  <2>8. IsFiniteSet(c)
    BY <2>1, LoopAssumption, FS_Subset DEF TypeOK
  <2>9. c = {m \in Nodes : Together(n, m)}
    BY <2>1, <2>7 DEF Classes
  <2>10. Cardinality(c) > 1 \/ \E m \in c : <<m, m>> \in graph
    BY <2>3, <2>7, <2>8, <2>9, Several
  <2>11. QED
    BY <2>7, <2>10 DEF Loops
<1>2. QED
  BY <1>1, SearchInductive, PTL

\* What the rule reports is at least a cycle of the graph it has built: every
\* signal of a loop reaches itself, before the search is done, too.
THEOREM LoopsAreCycles == Spec => [](\A n \in UNION Loops : Reaches(graph, n, n))
<1>1. LoopInv => \A n \in UNION Loops : Reaches(graph, n, n)
  <2> SUFFICES ASSUME LoopInv, NEW c \in result, NEW n \in c,
                      Cardinality(c) > 1 \/ \E m \in c : <<m, m>> \in graph
               PROVE  Reaches(graph, n, n)
    BY DEF Loops
  <2>1. c = {m \in Nodes : Together(n, m)}
    BY DEF LoopInv, SearchInv, Classes
  <2>2. IsFiniteSet(c)
    BY LoopAssumption, FS_Subset DEF LoopInv, TypeOK
  <2>3. CASE \E m \in c : m # n
    <3>1. PICK m \in c : m # n
      BY <2>3
    <3>2. Reaches(graph, n, m) /\ Reaches(graph, m, n)
      BY <2>1, <3>1 DEF Together
    <3>3. QED
      BY <3>2, ReachesTransitive
  <2>4. CASE c = {n}
    <3>1. <<n, n>> \in graph
      BY <2>2, <2>4, Several
    <3>2. QED
      BY <3>1, EdgeReaches
  <2>5. QED
    BY <2>3, <2>4
<1>2. QED
  BY <1>1, SearchInductive, PTL


-----------------------------------------------------------------------------
(* The search ends. *)

\* What is left to do: nodes to find, edges to look at, activations to leave.
\* Nothing that is done comes back.
ToFind  == Nodes \ Found
ToLook  == {e \in graph : e[1] \notin Found \/ \E i \in DOMAIN calls : calls[i].node = e[1] /\ e[2] \in calls[i].left}
ToLeave == {n \in Nodes : n \notin Found \/ \E i \in DOMAIN calls : calls[i].node = n}
Work    == Cardinality(ToFind) + Cardinality(ToLook) + Cardinality(ToLeave)

Shrinks == ToFind' \subseteq ToFind /\ ToLook' \subseteq ToLook /\ ToLeave' \subseteq ToLeave

LEMMA WorkIsFinite ==
    ASSUME LoopInv
    PROVE  IsFiniteSet(ToFind) /\ IsFiniteSet(ToLook) /\ IsFiniteSet(ToLeave)
<1>1. graph \subseteq Name \X Name /\ Nodes \subseteq Name
  BY GraphOfNames DEF LoopInv
<1>2. IsFiniteSet(Name \X Name) /\ IsFiniteSet(Name)
  BY LoopAssumption, FS_Product
<1>3. ToFind \subseteq Name /\ ToLook \subseteq Name \X Name /\ ToLeave \subseteq Name
  BY <1>1 DEF ToFind, ToLook, ToLeave
<1> QED
  BY <1>2, <1>3, FS_Subset

\* One thing less to do makes the number smaller.
LEMMA WorkShrinks ==
    ASSUME LoopInv, Shrinks, ToFind' # ToFind \/ ToLook' # ToLook \/ ToLeave' # ToLeave
    PROVE  Work' < Work
<1>1. ASSUME NEW S, NEW T, IsFiniteSet(S), T \subseteq S
      PROVE  /\ Cardinality(S) \in Nat /\ Cardinality(T) \in Nat /\ Cardinality(T) <= Cardinality(S)
             /\ T # S => Cardinality(T) < Cardinality(S)
  BY <1>1, FS_Subset, FS_CardinalityType
<1>2. /\ Cardinality(ToFind) \in Nat /\ Cardinality(ToFind') \in Nat /\ Cardinality(ToFind') <= Cardinality(ToFind)
      /\ ToFind' # ToFind => Cardinality(ToFind') < Cardinality(ToFind)
  BY <1>1, WorkIsFinite DEF Shrinks
<1>3. /\ Cardinality(ToLook) \in Nat /\ Cardinality(ToLook') \in Nat /\ Cardinality(ToLook') <= Cardinality(ToLook)
      /\ ToLook' # ToLook => Cardinality(ToLook') < Cardinality(ToLook)
  BY <1>1, WorkIsFinite DEF Shrinks
<1>4. /\ Cardinality(ToLeave) \in Nat /\ Cardinality(ToLeave') \in Nat /\ Cardinality(ToLeave') <= Cardinality(ToLeave)
      /\ ToLeave' # ToLeave => Cardinality(ToLeave') < Cardinality(ToLeave)
  BY <1>1, WorkIsFinite DEF Shrinks
<1> QED
  BY <1>2, <1>3, <1>4 DEF Work

\* An activation that begins finds a node.
LEMMA EnterWorks ==
    ASSUME LoopInv, NEW n \in Name, n \in Nodes, n \notin Found, NEW callers \in Seq(Frame),
           Len(callers) = Len(calls),
           \A i \in DOMAIN calls : callers[i].node = calls[i].node /\ callers[i].left \subseteq calls[i].left,
           Enter(n, callers)
    PROVE  Shrinks /\ ToFind' # ToFind
<1>1. TypeOK
  BY DEF LoopInv
<1>2. /\ graph' = graph /\ Found' = Found \cup {n}
      /\ \A i \in DOMAIN calls : calls'[i] = callers[i]
      /\ DOMAIN calls' = 1 .. Len(calls) + 1 /\ calls'[Len(calls) + 1].node = n
  BY <1>1, Entered
<1>3. DOMAIN calls = 1 .. Len(calls) /\ Len(calls) \in Nat
  BY <1>1, Shapes
<1>4. \A i \in DOMAIN calls' : i \in DOMAIN calls \/ i = Len(calls) + 1
  BY <1>2, <1>3
<1>5. Nodes' = Nodes
  BY <1>2 DEF Nodes
<1>6. ToFind' \subseteq ToFind /\ ToFind' # ToFind
  BY <1>2, <1>5 DEF ToFind
<1>7. ToLook' \subseteq ToLook
  BY <1>2, <1>4 DEF ToLook
<1>8. ToLeave' \subseteq ToLeave
  BY <1>2, <1>4, <1>5 DEF ToLeave
<1> QED
  BY <1>6, <1>7, <1>8 DEF Shrinks

\* A neighbour that was found is looked at once.
LEMMA LookBackWorks ==
    ASSUME LoopInv, NEW m \in Name, LookBack(m)
    PROVE  Shrinks /\ ToLook' # ToLook
<1> DEFINE v == Innermost.node
<1>1. TypeOK /\ Explored
  BY DEF LoopInv, SearchInv
<1>2. /\ calls # <<>> /\ m \in Innermost.left
      /\ UNCHANGED <<graph, indices>> /\ calls' = Rest(m)
  BY DEF LookBack, Takes
<1>3. /\ Len(calls) \in DOMAIN calls /\ DOMAIN calls = 1 .. Len(calls) /\ Innermost = calls[Len(calls)]
      /\ Len(calls) \in Nat /\ \A i \in DOMAIN calls : calls[i].node \in Found
      /\ \A i \in DOMAIN calls :
             i # Len(calls) => i < Len(calls) /\ indices[calls[i].node] < indices[v]
      /\ \A p \in Found : indices[p] \in Nat
  BY <1>2, Innermosts
<1>4. /\ DOMAIN calls' = DOMAIN calls
      /\ \A i \in DOMAIN calls : i # Len(calls) => calls'[i] = calls[i]
      /\ calls'[Len(calls)].node = v /\ calls'[Len(calls)].left = Innermost.left \ {m}
  <2>1. /\ Rest(m) \in Seq(Frame) /\ Len(Rest(m)) = Len(calls)
        /\ \A i \in 1 .. Len(calls) - 1 : Rest(m)[i] = calls[i]
        /\ Rest(m)[Len(calls)].node = Innermost.node
        /\ Rest(m)[Len(calls)].left = Innermost.left \ {m}
    BY <1>1, <1>2, RestShape
  <2> QED
    BY <1>2, <1>3, <2>1
<1>5. Found' = Found /\ Nodes' = Nodes
  BY <1>2 DEF Found, Nodes
<1>6. \A i \in DOMAIN calls : calls'[i].node = calls[i].node /\ calls'[i].left \subseteq calls[i].left
  BY <1>3, <1>4
<1>7. Shrinks
  BY <1>2, <1>4, <1>5, <1>6 DEF Shrinks, ToFind, ToLook, ToLeave
<1>8. <<v, m>> \in ToLook
  <2>1. <<v, m>> \in graph
    BY <1>1, <1>2, <1>3 DEF Explored
  <2> QED
    BY <1>2, <1>3, <2>1 DEF ToLook
<1>9. <<v, m>> \notin ToLook'
  <2>1. \A i \in DOMAIN calls : calls[i].node = v => i = Len(calls)
    BY <1>3
  <2>2. v \in Found'
    BY <1>3, <1>5
  <2> HIDE DEF v
  <2> QED
    BY <1>4, <1>6, <2>1, <2>2 DEF ToLook
<1> QED
  BY <1>7, <1>8, <1>9

\* A call that returns is over, and none is left of its node.
LEMMA LeaveWorks ==
    ASSUME LoopInv, calls # <<>>, UNCHANGED <<graph, indices>>, calls' = Callers
    PROVE  Shrinks /\ ToLeave' # ToLeave
<1> DEFINE v == Innermost.node
<1>1. TypeOK /\ Partitioned
  BY DEF LoopInv, SearchInv
<1>2. /\ Len(calls) \in DOMAIN calls /\ DOMAIN calls = 1 .. Len(calls) /\ Innermost = calls[Len(calls)]
      /\ Len(calls) \in Nat /\ \A i \in DOMAIN calls : calls[i].node \in Found
      /\ \A i \in DOMAIN calls :
             i # Len(calls) => i < Len(calls) /\ indices[calls[i].node] < indices[v]
      /\ \A p \in Found : indices[p] \in Nat
  BY Innermosts
<1>3. /\ DOMAIN calls' = 1 .. Len(calls) - 1
      /\ \A i \in 1 .. Len(calls) - 1 : calls'[i] = calls[i]
  BY <1>1, <1>2, Shapes
<1>4. Found' = Found /\ Nodes' = Nodes
  BY DEF Found, Nodes
<1>5. \A i \in DOMAIN calls' : i \in DOMAIN calls /\ i # Len(calls) /\ calls'[i] = calls[i]
  BY <1>2, <1>3
<1>6. Shrinks
  BY <1>4, <1>5 DEF Shrinks, ToFind, ToLook, ToLeave
<1>7. v \in ToLeave
  BY <1>1, <1>2 DEF ToLeave, Partitioned
<1>8. v \notin ToLeave'
  <2>1. \A i \in DOMAIN calls : calls[i].node = v => i = Len(calls)
    BY <1>2
  <2>2. v \in Found'
    BY <1>2, <1>4
  <2> HIDE DEF v
  <2> QED
    BY <1>5, <2>1, <2>2 DEF ToLeave
<1> QED
  BY <1>6, <1>7, <1>8

LEMMA StepWorks ==
    ASSUME LoopInv, [Next]_vars, vars' # vars
    PROVE  Work' < Work
<1>0. TypeOK /\ GraphInv
  BY DEF LoopInv
<1>1. CASE Root
  <2>1. PICK n \in Nodes \ Found : Enter(n, calls)
    BY <1>1 DEF Root
  <2>2. calls \in Seq(Frame) /\ n \in Name
    BY <1>0, GraphOfNames DEF TypeOK, Frame
  <2>3. Shrinks /\ ToFind' # ToFind
    BY <2>1, <2>2, EnterWorks
  <2> QED
    BY <2>3, WorkShrinks
<1>2. ASSUME NEW m \in Name, Descend(m) PROVE Work' < Work
  <2>1. calls # <<>> /\ m \in Innermost.left /\ m \notin Found /\ Enter(m, Rest(m))
    BY <1>2 DEF Descend, Takes
  <2>2. /\ Len(calls) \in DOMAIN calls /\ Len(calls) \in Nat /\ DOMAIN calls = 1 .. Len(calls)
        /\ Innermost = calls[Len(calls)] /\ \A i \in DOMAIN calls : calls[i].node \in Found
    BY <2>1, Innermosts
  <2>3. /\ Rest(m) \in Seq(Frame) /\ Len(Rest(m)) = Len(calls)
        /\ \A i \in 1 .. Len(calls) - 1 : Rest(m)[i] = calls[i]
        /\ Rest(m)[Len(calls)].node = Innermost.node
        /\ Rest(m)[Len(calls)].left = Innermost.left \ {m}
    BY <1>0, <2>1, RestShape
  <2>4. \A i \in DOMAIN calls : i = Len(calls) \/ i \in 1 .. Len(calls) - 1
    BY <2>2
  <2>5. \A i \in DOMAIN calls : Rest(m)[i].node = calls[i].node /\ Rest(m)[i].left \subseteq calls[i].left
    BY <2>2, <2>3, <2>4
  <2>6. <<Innermost.node, m>> \in graph
    BY <2>1, <2>2 DEF LoopInv, SearchInv, Explored
  <2>7. m \in Nodes
    BY <2>6 DEF Nodes
  <2>8. Shrinks /\ ToFind' # ToFind
    BY <2>1, <2>3, <2>5, <2>7, EnterWorks
  <2> QED
    BY <2>8, WorkShrinks
<1>3. ASSUME NEW m \in Name, LookBack(m) PROVE Work' < Work
  BY <1>3, LookBackWorks, WorkShrinks
<1>4. CASE Leave \/ LeaveWithComponent
  <2>1. calls # <<>> /\ UNCHANGED <<graph, indices>> /\ calls' = Callers
    BY <1>4 DEF Leave, LeaveWithComponent, Return
  <2> QED
    BY <2>1, LeaveWorks, WorkShrinks
<1> QED
  BY <1>1, <1>2, <1>3, <1>4 DEF Next

\* strongconnect comes to an end for every graph and every order of the
\* neighbours: each step finds a node, looks at an edge or leaves an activation,
\* and none of this happens twice.
THEOREM SearchEnds == Spec => [](Work \in Nat) /\ [][Work' < Work]_vars
<1>1. LoopInv => Work \in Nat
  <2> SUFFICES ASSUME LoopInv PROVE Work \in Nat
    OBVIOUS
  <2> QED
    BY WorkIsFinite, FS_CardinalityType DEF Work
<1>2. LoopInv /\ [Next]_vars => [Work' < Work]_vars
  <2> SUFFICES ASSUME LoopInv, [Next]_vars, vars' # vars PROVE Work' < Work
    OBVIOUS
  <2> QED
    BY StepWorks
<1> QED
  BY <1>1, <1>2, SearchInductive, PTL DEF Spec

=============================================================================
