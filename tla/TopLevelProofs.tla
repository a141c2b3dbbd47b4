---------------------------- MODULE TopLevelProofs ----------------------------
(***************************************************************************)
(* Proofs about Order and TopLevel: for every module, with any number of   *)
(* declarations of any kinds and references, the orderer orders each       *)
(* declaration once and after the names it needs, and refuses circles      *)
(* only; the order that it makes is one that the resolver's two passes can *)
(* use, and where they cannot the reason is a type that is marked before   *)
(* its members are ordered, or a name that the orderer does not look at.   *)
(***************************************************************************)
EXTENDS TopLevel, SequenceTheorems, FiniteSetTheorems, TLAPS

-----------------------------------------------------------------------------
(* The orderer: its inductive invariant. *)

Open == SeqElems(dependencies)
Done == SeqElems(topological_order)

\* What the state of a declaration says of where it is.
StatesOK ==
    /\ \A d \in Done : state[d] = "ORDERED" /\ d \notin Open
    /\ \A d \in Open :
         /\ state[d] # "UNORDERED"
         /\ state[d] = "ORDERED" => kind[d] \in {"struct", "union", "enum"}
    /\ \A d \in Decls : state[d] = "ORDERED" => d \in Done \cup Open
    /\ \A d \in Decls : state[d] = "UNORDERED" => refs[d] = <<>>
    /\ \A d \in Decls : d < next => state[d] # "UNORDERED"

\* No declaration is open twice, or ordered twice.
DistinctOK ==
    /\ \A i, j \in 1..Len(dependencies) :
         dependencies[i] = dependencies[j] => i = j
    /\ \A i \in 1..Len(topological_order) : topological_order[i] \notin Before(i)

\* The loop in order() is over when ordering is.
LoopOK ==
    phase \in {"ordered", "resolve", "resolved", "rejected"} =>
        dependencies = <<>> /\ next = N + 1

\* Each open declaration was entered for a reference in the one before.
ChainOK ==
    \A i \in 1..Len(dependencies) - 1 :
        RefersTo(dependencies[i], dependencies[i + 1])

\* What an open declaration has referred to so far is ordered, or marked, or
\* open as the next one.
OpenOK ==
    phase # "circular" =>
        \A i \in 1..Len(dependencies) : \A to \in Targets(dependencies[i]) :
            \/ to \in Done
            \/ kind[to] \in {"struct", "union", "enum"}
            \/ i < Len(dependencies) /\ to = dependencies[i + 1]

IInv ==
    /\ OrderTypeOK
    /\ StatesOK
    /\ DistinctOK
    /\ LoopOK
    /\ ChainOK
    /\ OpenOK
    /\ NamesFirst
    /\ CircularIsReal

-----------------------------------------------------------------------------
(* Facts about sequences and references. *)

\* A sequence with one more element.
LEMMA AppendFacts ==
    ASSUME NEW S, NEW s \in Seq(S), NEW e \in S
    PROVE  /\ Append(s, e) \in Seq(S)
           /\ Len(s) \in Nat
           /\ Len(Append(s, e)) = Len(s) + 1
           /\ \A i \in 1..Len(s) : Append(s, e)[i] = s[i]
           /\ Append(s, e)[Len(s) + 1] = e
           /\ SeqElems(Append(s, e)) = SeqElems(s) \cup {e}
  <1> DEFINE a == Append(s, e)
  <1>1. /\ a \in Seq(S)
        /\ Len(s) \in Nat
        /\ Len(a) = Len(s) + 1
        /\ \A i \in 1..Len(s) : a[i] = s[i]
        /\ a[Len(s) + 1] = e
    BY AppendProperties, LenProperties
  <1> HIDE DEF a
  <1>2. SeqElems(a) \subseteq SeqElems(s) \cup {e}
    <2> SUFFICES ASSUME NEW i \in 1..Len(a), a[i] # e
                 PROVE  a[i] \in SeqElems(s)
      BY DEF SeqElems
    <2>1. i \in 1..Len(s)
      BY <1>1
    <2> QED
      BY <1>1, <2>1 DEF SeqElems
  <1>3. SeqElems(s) \subseteq SeqElems(a)
    <2> SUFFICES ASSUME NEW i \in 1..Len(s)
                 PROVE  s[i] \in SeqElems(a)
      BY DEF SeqElems
    <2>1. i \in 1..Len(a) /\ a[i] = s[i]
      BY <1>1
    <2> QED
      BY <2>1 DEF SeqElems
  <1>4. e \in SeqElems(a)
    <2>1. Len(s) + 1 \in 1..Len(a)
      BY <1>1
    <2> QED
      BY <1>1, <2>1 DEF SeqElems
  <1> QED
    BY <1>1, <1>2, <1>3, <1>4 DEF a

\* A sequence without its last element.
LEMMA FrontFacts ==
    ASSUME NEW S, NEW s \in Seq(S), s # <<>>
    PROVE  LET front == SubSeq(s, 1, Len(s) - 1) IN
           /\ front \in Seq(S)
           /\ Len(s) \in Nat \ {0}
           /\ Len(front) = Len(s) - 1
           /\ \A i \in 1..Len(s) - 1 : front[i] = s[i]
           /\ s[Len(s)] \in SeqElems(s)
           /\ s[Len(s)] \in S
           /\ SeqElems(s) = SeqElems(front) \cup {s[Len(s)]}
  <1> DEFINE front == SubSeq(s, 1, Len(s) - 1)
  <1>1. Len(s) \in Nat \ {0} /\ s[Len(s)] \in S
    BY EmptySeq, ElementOfSeq
  <1>2. \A i \in 1..Len(s) - 1 : s[i] \in S
    BY <1>1, ElementOfSeq
  <1>3. /\ front \in Seq(S)
        /\ Len(front) = Len(s) - 1
        /\ \A i \in 1..Len(s) - 1 : front[i] = s[i]
    <2> DEFINE n == Len(s) - 1
    <2>1. n \in Nat /\ 1 \in Int /\ n \in Int
      BY <1>1
    <2>2. \A i \in 1..n : s[i] \in S
      BY <1>2
    <2> HIDE DEF n
    <2>3. /\ SubSeq(s, 1, n) \in Seq(S)
          /\ Len(SubSeq(s, 1, n)) = IF 1 <= n THEN n - 1 + 1 ELSE 0
          /\ \A i \in 1..n - 1 + 1 : SubSeq(s, 1, n)[i] = s[1 + i - 1]
      BY <2>1, <2>2, SubSeqProperties
    <2>4. /\ SubSeq(s, 1, n) \in Seq(S)
          /\ Len(SubSeq(s, 1, n)) = n
          /\ \A i \in 1..n : SubSeq(s, 1, n)[i] = s[i]
      BY <2>1, <2>3
    <2> QED
      BY <2>4 DEF n
  <1> HIDE DEF front
  <1>4. SeqElems(s) \subseteq SeqElems(front) \cup {s[Len(s)]}
    <2> SUFFICES ASSUME NEW i \in 1..Len(s), s[i] # s[Len(s)]
                 PROVE  s[i] \in SeqElems(front)
      BY DEF SeqElems
    <2>1. i \in 1..Len(front) /\ front[i] = s[i]
      BY <1>1, <1>3
    <2> QED
      BY <2>1 DEF SeqElems
  <1>5. SeqElems(front) \subseteq SeqElems(s)
    <2> SUFFICES ASSUME NEW i \in 1..Len(front)
                 PROVE  front[i] \in SeqElems(s)
      BY DEF SeqElems
    <2>1. i \in 1..Len(s) /\ front[i] = s[i]
      BY <1>1, <1>3
    <2> QED
      BY <2>1 DEF SeqElems
  <1>6. s[Len(s)] \in SeqElems(s)
    <2>1. Len(s) \in 1..Len(s)
      BY <1>1
    <2> QED
      BY <2>1 DEF SeqElems
  <1> QED
    BY <1>1, <1>3, <1>4, <1>5, <1>6 DEF front

\* What an invariant says of the references is a matter of their targets.
TargetsIn(f, d) == {r.to : r \in SeqElems(f[d])}

\* Targets reads the references alone.
LEMMA TargetsFacts ==
    /\ \A d : Targets(d) = TargetsIn(refs, d)
    /\ \A d : (Targets(d))' = TargetsIn(refs', d')
  BY DEF Targets, TargetsIn

\* What is before the i-th of a sequence.
Earlier(s, i) == {s[j] : j \in 1..i - 1}

\* Before reads the order alone.
LEMMA EarlierFacts ==
    \A i : Before(i) = Earlier(topological_order, i)
  BY DEF Before, Earlier

-----------------------------------------------------------------------------
(* A declaration is entered. *)

References == Seq([to : Decls, use : {"name", "size", "layout", "member"}])

\* From the loop in order() or for a reference, order_tldecl enters a
\* declaration that is not ordered yet.
LEMMA EnterKeeps ==
    ASSUME IInv, phase = "order", phase' = "order",
           NEW d \in Decls, state[d] = "UNORDERED", Enter(d),
           UNCHANGED <<extends, topological_order>>,
           next' \in 1..N + 1,
           next' = next \/ (next' = next + 1 /\ d = next),
           refs' \in [Decls -> References],
           \A e \in Decls : e \notin Open => refs'[e] = refs[e],
           \A i \in 1..Len(dependencies) :
               TargetsIn(refs', dependencies[i]) =
                   TargetsIn(refs, dependencies[i])
                       \cup IF i = Len(dependencies) THEN {d} ELSE {}
    PROVE  IInv'
  <1> DEFINE n == Len(dependencies)
  <1>1. /\ dependencies' \in Seq(Decls)
        /\ n \in Nat
        /\ Len(dependencies') = n + 1
        /\ \A i \in 1..n : dependencies'[i] = dependencies[i]
        /\ dependencies'[n + 1] = d
        /\ Open' = Open \cup {d}
    BY AppendFacts DEF IInv, OrderTypeOK, Enter, Open
  <1>2. Done' = Done
    BY DEF Done
  <1>3. PICK k \in {"extend", "struct", "union", "enum", "other"} :
          /\ kind' = [kind EXCEPT ![d] = k]
          /\ state' = [state EXCEPT ![d] = IF k \in {"struct", "union"} THEN "ORDERED" ELSE "ORDERING"]
    BY KindsAssumption DEF Enter
  <1>4. /\ kind \in [Decls -> {"unseen", "extend", "struct", "union", "enum", "other"}]
        /\ state \in [Decls -> {"UNORDERED", "ORDERING", "ORDERED"}]
        /\ kind[d] = "unseen"
        /\ refs[d] = <<>>
        /\ dependencies \in Seq(Decls)
        /\ topological_order \in Seq(Decls)
        /\ next \in 1..N + 1
        /\ d \in Nat /\ N \in Nat
        /\ Decls \subseteq Nat
    <2>1. d \in Nat /\ N \in Nat /\ Decls \subseteq Nat
      BY NAssumption DEF Decls
    <2> QED
      BY <2>1 DEF IInv, OrderTypeOK, StatesOK
  <1>5. d \notin Open /\ d \notin Done
    BY <1>4 DEF IInv, StatesOK
  <1>6. /\ Open \subseteq Decls
        /\ Done \subseteq Decls
        /\ \A i \in 1..n : dependencies[i] \in Open /\ dependencies[i] \in Decls
    BY <1>4, ElementOfSeq DEF Open, Done, SeqElems
  <1>7. \A e \in Decls : e # d => kind'[e] = kind[e] /\ state'[e] = state[e]
    BY <1>3, <1>4
  <1>8. kind'[d] = k /\ state'[d] = IF k \in {"struct", "union"} THEN "ORDERED" ELSE "ORDERING"
    BY <1>3, <1>4
  <1>9. OrderTypeOK'
    <2>1. (\A e \in Decls :
             /\ state[e] = "UNORDERED" <=> kind[e] = "unseen"
             /\ state[e] = "ORDERING" => e \in Open)'
      <3> SUFFICES ASSUME NEW e \in Decls
                   PROVE  /\ state'[e] = "UNORDERED" <=> kind'[e] = "unseen"
                          /\ state'[e] = "ORDERING" => e \in Open'
        OBVIOUS
      <3>1. CASE e = d
        BY <1>1, <1>8, <3>1
      <3>2. CASE e # d
        BY <1>1, <1>7, <3>2 DEF IInv, OrderTypeOK, Open
      <3> QED
        BY <3>1, <3>2
    <2>2. /\ kind' \in [Decls -> {"unseen", "extend", "struct", "union", "enum", "other"}]
          /\ state' \in [Decls -> {"UNORDERED", "ORDERING", "ORDERED"}]
      BY <1>3, <1>4
    <2> QED
      BY <1>1, <2>1, <2>2 DEF IInv, OrderTypeOK, Open, References
  <1>10. StatesOK'
    <2>1. (\A e \in Done : state[e] = "ORDERED" /\ e \notin Open)'
      BY <1>1, <1>2, <1>5, <1>6, <1>7 DEF IInv, StatesOK
    <2>2. ASSUME NEW e \in Open'
          PROVE  /\ state'[e] # "UNORDERED"
                 /\ state'[e] = "ORDERED" => kind'[e] \in {"struct", "union", "enum"}
      <3>1. CASE e = d
        BY <1>8, <3>1
      <3>2. CASE e # d
        BY <1>1, <1>6, <1>7, <2>2, <3>2 DEF IInv, StatesOK
      <3> QED
        BY <3>1, <3>2
    <2>3. ASSUME NEW e \in Decls
          PROVE  /\ state'[e] = "ORDERED" => e \in Done' \cup Open'
                 /\ state'[e] = "UNORDERED" => refs'[e] = <<>>
                 /\ e < next' => state'[e] # "UNORDERED"
      <3>1. CASE e = d
        BY <1>1, <1>8, <3>1
      <3>2. CASE e # d
        <4>1. state'[e] = state[e]
          BY <1>7, <3>2
        <4>2. e < next' => e < next
          BY <1>4, <3>2
        <4>3. state[e] = "UNORDERED" => e \notin Open
          BY DEF IInv, StatesOK
        <4> QED
          BY <1>1, <1>2, <4>1, <4>2, <4>3 DEF IInv, StatesOK
      <3> QED
        BY <3>1, <3>2
    <2> QED
      BY <2>1, <2>2, <2>3 DEF StatesOK
  <1>11. DistinctOK'
    <2>1. ASSUME NEW i \in 1..n + 1, NEW j \in 1..n + 1,
                 dependencies'[i] = dependencies'[j]
          PROVE  i = j
      <3>1. \A m \in 1..n : dependencies'[m] # d
        BY <1>1, <1>5, <1>6
      <3>2. (i \in 1..n /\ j \in 1..n) \/ (i = n + 1 /\ j = n + 1)
        BY <1>1, <2>1, <3>1
      <3>3. CASE i \in 1..n /\ j \in 1..n
        BY <1>1, <2>1, <3>3 DEF IInv, DistinctOK
      <3> QED
        BY <3>2, <3>3
    <2>2. (\A i \in 1..Len(topological_order) : topological_order[i] \notin Before(i))'
      BY DEF IInv, DistinctOK, Before
    <2> QED
      BY <1>1, <2>1, <2>2 DEF DistinctOK
  <1>12. LoopOK'
    BY DEF LoopOK
  <1>13. ChainOK'
    <2> SUFFICES ASSUME NEW i \in 1..n
                 PROVE  dependencies'[i + 1] \in TargetsIn(refs', dependencies'[i])
      BY <1>1, TargetsFacts DEF ChainOK, RefersTo
    <2>1. CASE i = n
      BY <1>1, <2>1
    <2>2. CASE i # n
      <3>1. i \in 1..n - 1 /\ i + 1 \in 1..n
        BY <1>1, <2>2
      <3>2. dependencies[i + 1] \in TargetsIn(refs, dependencies[i])
        BY <3>1, TargetsFacts DEF IInv, ChainOK, RefersTo
      <3> QED
        BY <1>1, <3>1, <3>2
    <2> QED
      BY <2>1, <2>2
  <1>14. OpenOK'
    <2> SUFFICES ASSUME NEW i \in 1..n + 1,
                        NEW to \in TargetsIn(refs', dependencies'[i])
                 PROVE  \/ to \in Done'
                        \/ kind'[to] \in {"struct", "union", "enum"}
                        \/ i < n + 1 /\ to = dependencies'[i + 1]
      BY <1>1, TargetsFacts DEF OpenOK
    <2>1. CASE i = n + 1
      <3>1. refs'[d] = <<>>
        BY <1>4, <1>5
      <3>2. TargetsIn(refs', d) = {}
        <4>1. Len(<<>>) = 0
          BY EmptySeq
        <4>2. SeqElems(<<>>) = {}
          BY <4>1 DEF SeqElems
        <4> QED
          BY <3>1, <4>2 DEF TargetsIn
      <3> QED
        BY <1>1, <2>1, <3>2
    <2>2. CASE i = n /\ to = d
      BY <1>1, <2>2
    <2>3. CASE i \in 1..n /\ to \in TargetsIn(refs, dependencies[i])
      <3>1. \/ to \in Done
            \/ kind[to] \in {"struct", "union", "enum"}
            \/ i < n /\ to = dependencies[i + 1]
        BY <2>3, TargetsFacts DEF IInv, OpenOK
      <3>2. CASE kind[to] \in {"struct", "union", "enum"}
        BY <1>3, <1>4, <3>2
      <3>3. CASE i < n /\ to = dependencies[i + 1]
        BY <1>1, <2>3, <3>3
      <3> QED
        BY <1>2, <3>1, <3>2, <3>3
    <2>4. i = n + 1 \/ (i = n /\ to = d) \/ (i \in 1..n /\ to \in TargetsIn(refs, dependencies[i]))
      BY <1>1
    <2> QED
      BY <2>1, <2>2, <2>3, <2>4
  <1>15. NamesFirst'
    <2> SUFFICES ASSUME NEW i \in 1..Len(topological_order),
                        NEW to \in TargetsIn(refs', topological_order[i])
                 PROVE  to \in Before(i) \/ kind'[to] \in {"struct", "union", "enum"}
      BY TargetsFacts DEF NamesFirst, Before
    <2>1. topological_order[i] \in Done
      BY DEF Done, SeqElems
    <2>2. refs'[topological_order[i]] = refs[topological_order[i]]
      BY <1>6, <2>1 DEF IInv, StatesOK
    <2>3. to \in Before(i) \/ kind[to] \in {"struct", "union", "enum"}
      BY <2>2, TargetsFacts DEF IInv, NamesFirst, TargetsIn
    <2>4. CASE kind[to] \in {"struct", "union", "enum"}
      BY <1>3, <1>4, <2>4
    <2> QED
      BY <2>3, <2>4
  <1>16. CircularIsReal'
    BY DEF CircularIsReal
  <1> QED
    BY <1>9, <1>10, <1>11, <1>12, <1>13, <1>14, <1>15, <1>16 DEF IInv

-----------------------------------------------------------------------------
(* The other steps. *)

\* The invariant holds before the first declaration.
LEMMA InitOK == Init => IInv
  <1> SUFFICES ASSUME Init
               PROVE  IInv
    OBVIOUS
  <1>1. Len(<<>>) = 0 /\ \A S : <<>> \in Seq(S)
    BY EmptySeq
  <1>2. SeqElems(<<>>) = {}
    BY <1>1 DEF SeqElems
  <1>3. Open = {} /\ Done = {}
    BY <1>2 DEF Init, Open, Done
  <1>4. N \in Nat /\ Decls \subseteq Nat \ {0}
    BY NAssumption DEF Decls
  <1>5. OrderTypeOK
    BY <1>1, <1>4 DEF Init, OrderTypeOK
  <1>6. StatesOK
    BY <1>3, <1>4 DEF Init, StatesOK
  <1>7. DistinctOK /\ ChainOK /\ OpenOK /\ NamesFirst
    BY <1>1 DEF Init, DistinctOK, ChainOK, OpenOK, NamesFirst
  <1>8. LoopOK /\ CircularIsReal
    BY DEF Init, LoopOK, CircularIsReal
  <1> QED
    BY <1>5, <1>6, <1>7, <1>8 DEF IInv

\* A step that changes the phase alone, and not to "circular"; some phases are
\* reached only with the loop ended.
LEMMA PhaseKeeps ==
    ASSUME IInv, phase # "circular", UNCHANGED <<program, ordervars>>,
           phase' \in {"misplaced", "order", "ordered", "resolve", "rejected", "resolved"},
           phase' \in {"ordered", "resolve", "rejected", "resolved"} =>
               dependencies = <<>> /\ next = N + 1
    PROVE  IInv'
  <1> USE DEF program, ordervars, IInv
  <1>1. OrderTypeOK'
    BY DEF OrderTypeOK
  <1>2. StatesOK' /\ DistinctOK' /\ ChainOK'
    BY DEF StatesOK, DistinctOK, ChainOK, Open, Done, Before, RefersTo, Targets
  <1>3. LoopOK'
    BY DEF LoopOK
  <1>4. OpenOK' /\ NamesFirst'
    BY DEF OpenOK, NamesFirst, Before, Done, Targets
  <1>5. CircularIsReal'
    BY DEF CircularIsReal
  <1> QED
    BY <1>1, <1>2, <1>3, <1>4, <1>5

\* The loop in order() goes to the next declaration.
LEMMA NextDeclKeeps ==
    ASSUME IInv, NextDecl
    PROVE  IInv'
  <1>1. /\ next \in Decls /\ next \in Nat /\ N \in Nat /\ next <= N
        /\ next + 1 \in 1..N + 1
    BY NAssumption DEF NextDecl, Decls
  <1>2. CASE state[next] = "ORDERED"
    <2> USE <1>2 DEF NextDecl
    <2>1. OrderTypeOK'
      BY <1>1 DEF IInv, OrderTypeOK
    <2>2. StatesOK'
      <3>1. \A d \in Decls : d < next + 1 => d < next \/ d = next
        BY <1>1 DEF Decls
      <3> QED
        BY <3>1 DEF IInv, StatesOK, Open, Done
    <2>3. DistinctOK' /\ ChainOK'
      BY DEF IInv, DistinctOK, ChainOK, Before, RefersTo, Targets
    <2>4. LoopOK' /\ CircularIsReal'
      BY DEF LoopOK, CircularIsReal
    <2>5. OpenOK' /\ NamesFirst'
      BY DEF IInv, OpenOK, NamesFirst, Before, Done, Targets
    <2> QED
      BY <2>1, <2>2, <2>3, <2>4, <2>5 DEF IInv
  <1>3. CASE state[next] # "ORDERED"
    <2>1. Len(dependencies) = 0 /\ Open = {}
      BY EmptySeq DEF NextDecl, Open, SeqElems
    <2>2. state[next] = "UNORDERED"
      BY <1>1, <1>3, <2>1 DEF IInv, OrderTypeOK, Open
    <2>3. Enter(next)
      BY <1>3 DEF NextDecl
    <2>4. refs' \in [Decls -> References] /\ refs' = refs
      BY DEF NextDecl, IInv, OrderTypeOK, References
    <2>5. \A i \in 1..Len(dependencies) : FALSE
      BY <2>1
    <2> QED
      BY <1>1, <2>2, <2>3, <2>4, <2>5, EnterKeeps DEF NextDecl
  <1> QED
    BY <1>2, <1>3

\* The values of an enum are ordered before it is marked.
LEMMA EnumValuesKeeps ==
    ASSUME IInv, EnumValues
    PROVE  IInv'
  <1>1. /\ dependencies \in Seq(Decls)
        /\ state \in [Decls -> {"UNORDERED", "ORDERING", "ORDERED"}]
        /\ kind[Top] = "enum" /\ state[Top] = "ORDERING"
        /\ state' = [state EXCEPT ![Top] = "ORDERED"]
        /\ UNCHANGED <<phase, program, next, dependencies, topological_order>>
    BY DEF EnumValues, IInv, OrderTypeOK
  <1>2. Top \in Open /\ Top \in Decls
    BY FrontFacts DEF EnumValues, IInv, OrderTypeOK, Top, Open
  <1>3. Open' = Open /\ Done' = Done
    BY <1>1 DEF Open, Done
  <1>4. state'[Top] = "ORDERED" /\ \A e \in Decls : e # Top => state'[e] = state[e]
    BY <1>1, <1>2
  <1>5. OrderTypeOK'
    <2>1. state' \in [Decls -> {"UNORDERED", "ORDERING", "ORDERED"}]
      BY <1>1
    <2>2. (\A e \in Decls :
             /\ state[e] = "UNORDERED" <=> kind[e] = "unseen"
             /\ state[e] = "ORDERING" => e \in Open)'
      BY <1>1, <1>3, <1>4 DEF IInv, OrderTypeOK, program, Open
    <2> QED
      BY <1>1, <2>1, <2>2 DEF IInv, OrderTypeOK, program, Open
  <1>6. StatesOK'
    <2>1. Open \subseteq Decls /\ Done \subseteq Decls
      BY ElementOfSeq DEF IInv, OrderTypeOK, Open, Done, SeqElems
    <2> QED
      BY <1>1, <1>2, <1>3, <1>4, <2>1 DEF IInv, StatesOK, program
  <1>7. DistinctOK' /\ ChainOK' /\ LoopOK'
    BY <1>1 DEF IInv, DistinctOK, ChainOK, LoopOK, Before, RefersTo, Targets, program
  <1>8. OpenOK' /\ NamesFirst'
    BY <1>1 DEF IInv, OpenOK, NamesFirst, Before, Done, Targets, program
  <1>9. CircularIsReal'
    BY <1>1 DEF EnumValues, CircularIsReal
  <1> QED
    BY <1>5, <1>6, <1>7, <1>8, <1>9 DEF IInv

\* The innermost open declaration is given one more target.
LEMMA ReferenceFacts ==
    ASSUME IInv, NEW to \in Decls, NEW use \in Uses, Reference(to, use)
    PROVE  /\ dependencies \in Seq(Decls)
           /\ Len(dependencies) \in Nat \ {0}
           /\ Top \in Open /\ Top \in Decls /\ Top \notin Done
           /\ refs' \in [Decls -> References]
           /\ \A d \in Decls : d # Top => refs'[d] = refs[d]
           /\ TargetsIn(refs', Top) = TargetsIn(refs, Top) \cup {to}
           /\ \A i \in 1..Len(dependencies) :
                TargetsIn(refs', dependencies[i]) =
                    TargetsIn(refs, dependencies[i])
                        \cup IF i = Len(dependencies) THEN {to} ELSE {}
  <1> DEFINE r == [to |-> to, use |-> use]
  <1>1. /\ dependencies \in Seq(Decls)
        /\ Len(dependencies) \in Nat \ {0}
        /\ Top \in Open /\ Top \in Decls
    BY FrontFacts DEF Reference, IInv, OrderTypeOK, Top, Open
  <1>2. Top \notin Done
    BY <1>1 DEF IInv, StatesOK
  <1>3. refs \in [Decls -> References] /\ r \in [to : Decls, use : {"name", "size", "layout", "member"}]
    BY UsesAssumption DEF IInv, OrderTypeOK, References
  <1>4. refs' = [refs EXCEPT ![Top] = Append(@, r)]
    BY DEF Reference
  <1>5. /\ Append(refs[Top], r) \in References
        /\ SeqElems(Append(refs[Top], r)) = SeqElems(refs[Top]) \cup {r}
    <2> DEFINE R == [to : Decls, use : {"name", "size", "layout", "member"}]
    <2>1. refs[Top] \in Seq(R) /\ r \in R
      BY <1>1, <1>3 DEF References
    <2> HIDE DEF r, R
    <2>2. /\ Append(refs[Top], r) \in Seq(R)
          /\ SeqElems(Append(refs[Top], r)) = SeqElems(refs[Top]) \cup {r}
      BY <2>1, AppendFacts
    <2> QED
      BY <2>2 DEF R, References
  <1>6. refs' \in [Decls -> References] /\ \A d \in Decls : d # Top => refs'[d] = refs[d]
    BY <1>1, <1>3, <1>4, <1>5
  <1>7. refs'[Top] = Append(refs[Top], r)
    BY <1>1, <1>3, <1>4
  <1>8. TargetsIn(refs', Top) = TargetsIn(refs, Top) \cup {to}
    <2>1. SeqElems(refs'[Top]) = SeqElems(refs[Top]) \cup {r} /\ r.to = to
      BY <1>5, <1>7
    <2> HIDE DEF r
    <2> QED
      BY <2>1 DEF TargetsIn
  <1>9. ASSUME NEW i \in 1..Len(dependencies)
        PROVE  TargetsIn(refs', dependencies[i]) =
                   TargetsIn(refs, dependencies[i])
                       \cup IF i = Len(dependencies) THEN {to} ELSE {}
    <2>1. CASE i = Len(dependencies)
      BY <1>8, <2>1 DEF Top
    <2>2. CASE i # Len(dependencies)
      <3>1. dependencies[i] # Top /\ dependencies[i] \in Decls
        BY <1>1, <2>2, ElementOfSeq DEF Top, IInv, DistinctOK
      <3> QED
        BY <1>6, <2>2, <3>1 DEF TargetsIn
    <2> QED
      BY <2>1, <2>2
  <1> QED
    BY <1>1, <1>2, <1>6, <1>8, <1>9

\* A reference to a declaration that is ordered, open, or entered now.
LEMMA ReferenceKeeps ==
    ASSUME IInv, NEW to \in Decls \ extends, NEW use \in Uses, Reference(to, use)
    PROVE  IInv'
  <1> DEFINE n == Len(dependencies)
  <1>1. /\ dependencies \in Seq(Decls)
        /\ n \in Nat \ {0}
        /\ Top \in Open /\ Top \in Decls /\ Top \notin Done
        /\ refs' \in [Decls -> References]
        /\ \A d \in Decls : d # Top => refs'[d] = refs[d]
        /\ \A i \in 1..n :
             TargetsIn(refs', dependencies[i]) =
                 TargetsIn(refs, dependencies[i]) \cup IF i = n THEN {to} ELSE {}
    BY ReferenceFacts
  <1>2. /\ Open \subseteq Decls /\ Done \subseteq Decls
        /\ \A i \in 1..n : dependencies[i] \in Decls
    BY ElementOfSeq DEF IInv, OrderTypeOK, Open, Done, SeqElems
  <1>3. CASE state[to] = "UNORDERED"
    <2>1. phase' = "order" /\ Enter(to) /\ next' = next /\ next \in 1..N + 1
      BY <1>3 DEF Reference, IInv, OrderTypeOK
    <2>2. UNCHANGED <<extends, topological_order>> /\ phase = "order"
      BY DEF Reference
    <2>3. \A d \in Decls : d \notin Open => refs'[d] = refs[d]
      BY <1>1
    <2> QED
      BY <1>1, <1>3, <2>1, <2>2, <2>3, EnterKeeps
  <1>4. CASE state[to] # "UNORDERED"
    <2>1. /\ UNCHANGED <<kind, extends, state, next, dependencies, topological_order>>
          /\ phase = "order"
          /\ \/ state[to] = "ORDERED" /\ phase' = "order"
             \/ state[to] = "ORDERING" /\ phase' = "circular"
      BY <1>4 DEF Reference, IInv, OrderTypeOK
    <2>2. OrderTypeOK'
      BY <1>1, <2>1 DEF IInv, OrderTypeOK, References
    <2>3. Open' = Open /\ Done' = Done /\ state[Top] # "UNORDERED"
      BY <1>1, <2>1 DEF Open, Done, IInv, StatesOK
    <2>4. StatesOK'
      <3>1. \A d \in Decls : state[d] = "UNORDERED" => refs'[d] = refs[d]
        BY <1>1, <2>3
      <3> QED
        BY <2>1, <2>3, <3>1 DEF IInv, StatesOK
    <2>5. DistinctOK' /\ LoopOK'
      BY <2>1 DEF IInv, DistinctOK, LoopOK, Before
    <2>6. \A i \in 1..n - 1 : dependencies[i + 1] \in TargetsIn(refs', dependencies[i])
      <3> SUFFICES ASSUME NEW i \in 1..n - 1
                   PROVE  dependencies[i + 1] \in TargetsIn(refs', dependencies[i])
        OBVIOUS
      <3>1. dependencies[i + 1] \in TargetsIn(refs, dependencies[i])
        BY TargetsFacts DEF IInv, ChainOK, RefersTo
      <3>2. i \in 1..n
        BY <1>1
      <3> QED
        BY <1>1, <3>1, <3>2
    <2>7. ChainOK'
      BY <2>1, <2>6, TargetsFacts DEF ChainOK, RefersTo
    <2>8. OpenOK'
      <3> SUFFICES ASSUME phase' # "circular", NEW i \in 1..n,
                          NEW x \in TargetsIn(refs', dependencies[i])
                   PROVE  \/ x \in Done
                          \/ kind[x] \in {"struct", "union", "enum"}
                          \/ i < n /\ x = dependencies[i + 1]
        BY <2>1, <2>3, TargetsFacts DEF OpenOK
      <3>1. CASE x = to
        BY <2>1, <3>1 DEF IInv, StatesOK
      <3>2. CASE x \in TargetsIn(refs, dependencies[i])
        BY <2>1, <3>2, TargetsFacts DEF IInv, OpenOK
      <3> QED
        BY <1>1, <3>1, <3>2
    <2>9. NamesFirst'
      <3> SUFFICES ASSUME NEW i \in 1..Len(topological_order),
                          NEW x \in TargetsIn(refs', topological_order[i])
                   PROVE  x \in Before(i) \/ kind[x] \in {"struct", "union", "enum"}
        BY <2>1, TargetsFacts DEF NamesFirst, Before
      <3>1. topological_order[i] \in Done
        BY DEF Done, SeqElems
      <3>2. x \in TargetsIn(refs, topological_order[i])
        BY <1>1, <1>2, <3>1 DEF TargetsIn
      <3> QED
        BY <3>2, TargetsFacts DEF IInv, NamesFirst
    <2>10. CircularIsReal'
      <3> SUFFICES ASSUME phase' = "circular"
                   PROVE  \E i \in 1..n :
                            /\ dependencies[i] \in TargetsIn(refs', dependencies[n])
                            /\ state[dependencies[i]] = "ORDERING"
                            /\ \A j \in i..n - 1 :
                                 dependencies[j + 1] \in TargetsIn(refs', dependencies[j])
        BY <2>1, TargetsFacts DEF CircularIsReal, RefersTo, Top
      <3>1. state[to] = "ORDERING"
        BY <2>1
      <3>2. PICK i \in 1..n : dependencies[i] = to
        BY <3>1 DEF IInv, OrderTypeOK, SeqElems
      <3>3. to \in TargetsIn(refs', dependencies[n])
        BY <1>1
      <3>4. \A j \in i..n - 1 : j \in 1..n - 1
        BY <1>1
      <3> QED
        BY <2>6, <3>1, <3>2, <3>3, <3>4
    <2> QED
      BY <2>2, <2>4, <2>5, <2>7, <2>8, <2>9, <2>10 DEF IInv
  <1> QED
    BY <1>3, <1>4

\* The declaration that was entered last is appended to the order.
LEMMA FinishKeeps ==
    ASSUME IInv, Finish
    PROVE  IInv'
  <1> DEFINE n == Len(dependencies)
             m == Len(topological_order)
  <1>1. /\ dependencies' \in Seq(Decls)
        /\ n \in Nat \ {0}
        /\ Len(dependencies') = n - 1
        /\ \A i \in 1..n - 1 : dependencies'[i] = dependencies[i]
        /\ Top = dependencies[n] /\ Top \in Open /\ Top \in Decls
        /\ Open = Open' \cup {Top}
    BY FrontFacts DEF Finish, IInv, OrderTypeOK, Top, Open
  <1>2. /\ topological_order' \in Seq(Decls)
        /\ m \in Nat
        /\ Len(topological_order') = m + 1
        /\ \A i \in 1..m : topological_order'[i] = topological_order[i]
        /\ topological_order'[m + 1] = Top
        /\ Done' = Done \cup {Top}
    BY <1>1, AppendFacts DEF Finish, IInv, OrderTypeOK, Done
  <1>3. /\ UNCHANGED <<phase, program, next>>
        /\ phase = "order"
        /\ state' = [state EXCEPT ![Top] = "ORDERED"]
        /\ state \in [Decls -> {"UNORDERED", "ORDERING", "ORDERED"}]
        /\ state'[Top] = "ORDERED"
        /\ \A d \in Decls : d # Top => state'[d] = state[d]
    BY <1>1 DEF Finish, IInv, OrderTypeOK
  <1>4. Top \notin Open' /\ Top \notin Done /\ state[Top] # "UNORDERED"
    <2>1. \A i \in 1..n - 1 : dependencies[i] # Top
      BY <1>1 DEF IInv, DistinctOK
    <2>2. Top \notin Open'
      BY <1>1, <2>1 DEF Open, SeqElems
    <2> QED
      BY <1>1, <2>2 DEF IInv, StatesOK
  <1>5. Open \subseteq Decls /\ Done \subseteq Decls
    BY ElementOfSeq DEF IInv, OrderTypeOK, Open, Done, SeqElems
  <1>6. OrderTypeOK'
    <2>1. (\A e \in Decls :
             /\ state[e] = "UNORDERED" <=> kind[e] = "unseen"
             /\ state[e] = "ORDERING" => e \in Open)'
      BY <1>1, <1>3, <1>4 DEF IInv, OrderTypeOK, program, Open
    <2>2. state' \in [Decls -> {"UNORDERED", "ORDERING", "ORDERED"}]
      BY <1>3
    <2> QED
      BY <1>1, <1>2, <1>3, <2>1, <2>2 DEF IInv, OrderTypeOK, program, Open
  <1>7. StatesOK'
    <2>1. (\A d \in Done : state[d] = "ORDERED" /\ d \notin Open)'
      BY <1>1, <1>2, <1>3, <1>4, <1>5 DEF IInv, StatesOK
    <2>2. (\A d \in Open :
             /\ state[d] # "UNORDERED"
             /\ state[d] = "ORDERED" => kind[d] \in {"struct", "union", "enum"})'
      BY <1>1, <1>3, <1>4, <1>5 DEF IInv, StatesOK, program
    <2>3. (\A d \in Decls : state[d] = "ORDERED" => d \in Done \cup Open)'
      BY <1>1, <1>2, <1>3 DEF IInv, StatesOK
    <2>4. (\A d \in Decls : state[d] = "UNORDERED" => refs[d] = <<>>)'
      BY <1>3 DEF IInv, StatesOK, program
    <2>5. (\A d \in Decls : d < next => state[d] # "UNORDERED")'
      BY <1>3 DEF IInv, StatesOK
    <2> QED
      BY <2>1, <2>2, <2>3, <2>4, <2>5 DEF StatesOK
  <1> DEFINE t == topological_order'
  <1>8. \A i \in 1..m + 1 : Earlier(t, i) = Earlier(topological_order, i)
    <2> SUFFICES ASSUME NEW i \in 1..m + 1
                 PROVE  Earlier(t, i) = Earlier(topological_order, i)
      OBVIOUS
    <2>1. \A j \in 1..i - 1 : j \in 1..m
      BY <1>2
    <2>2. \A j \in 1..i - 1 : t[j] = topological_order[j]
      BY <1>2, <2>1
    <2> QED
      BY <2>2 DEF Earlier
  <1>9. /\ \A i \in 1..m : Earlier(t, i) = Before(i)
        /\ Earlier(t, m + 1) = Done
    <2>1. \A i \in 1..m : Earlier(t, i) = Before(i)
      BY <1>2, <1>8, EarlierFacts
    <2>2. m + 1 - 1 = m /\ m + 1 \in 1..m + 1
      BY <1>2
    <2>3. Earlier(topological_order, m + 1) = Done
      BY <2>2 DEF Earlier, Done, SeqElems
    <2> QED
      BY <1>8, <2>1, <2>2, <2>3
  <1>10. DistinctOK'
    <2>1. (\A i, j \in 1..Len(dependencies) : dependencies[i] = dependencies[j] => i = j)'
      BY <1>1, SMTT(30) DEF IInv, DistinctOK
    <2>2. ASSUME NEW i \in 1..m + 1
          PROVE  t[i] \notin Earlier(t, i)
      <3>1. CASE i = m + 1
        BY <1>2, <1>4, <1>9, <3>1
      <3>2. CASE i \in 1..m
        BY <1>2, <1>9, <3>2 DEF IInv, DistinctOK
      <3> QED
        BY <1>2, <3>1, <3>2
    <2>3. (\A i \in 1..Len(topological_order) : topological_order[i] \notin Before(i))'
      BY <1>2, <2>2 DEF Before, Earlier
    <2> QED
      BY <2>1, <2>3 DEF DistinctOK
  <1>11. LoopOK' /\ CircularIsReal'
    BY <1>3 DEF LoopOK, CircularIsReal
  <1>12. UNCHANGED <<refs, kind>>
    BY <1>3 DEF program
  <1>13. ChainOK'
    <2> SUFFICES ASSUME NEW i \in 1..n - 2
                 PROVE  dependencies'[i + 1] \in TargetsIn(refs, dependencies'[i])
      BY <1>1, <1>12, TargetsFacts DEF ChainOK, RefersTo
    <2>1. i \in 1..n - 1 /\ i + 1 \in 1..n - 1
      BY <1>1
    <2> QED
      BY <1>1, <2>1, TargetsFacts DEF IInv, ChainOK, RefersTo
  <1>14. OpenOK'
    <2> SUFFICES ASSUME NEW i \in 1..n - 1,
                        NEW to \in TargetsIn(refs, dependencies[i])
                 PROVE  \/ to \in Done'
                        \/ kind[to] \in {"struct", "union", "enum"}
                        \/ i < n - 1 /\ to = dependencies'[i + 1]
      BY <1>1, <1>12, TargetsFacts DEF OpenOK
    <2>1. \/ to \in Done
          \/ kind[to] \in {"struct", "union", "enum"}
          \/ i < n /\ to = dependencies[i + 1]
      BY <1>1, <1>3, TargetsFacts DEF IInv, OpenOK
    <2>2. CASE to = dependencies[i + 1] /\ i = n - 1
      <3>1. i + 1 = n
        BY <1>1, <2>2
      <3>2. to = dependencies[n]
        BY <2>2, <3>1
      <3> QED
        BY <1>1, <1>2, <3>2
    <2>3. CASE to = dependencies[i + 1] /\ i # n - 1
      <3>1. i + 1 \in 1..n - 1 /\ i < n - 1
        BY <1>1, <2>3
      <3>2. dependencies'[i + 1] = dependencies[i + 1]
        BY <1>1, <3>1
      <3> QED
        BY <2>3, <3>1, <3>2
    <2> QED
      BY <1>2, <2>1, <2>2, <2>3
  <1>15. NamesFirst'
    <2> SUFFICES ASSUME NEW i \in 1..m + 1,
                        NEW to \in TargetsIn(refs, t[i])
                 PROVE  to \in Earlier(t, i) \/ kind[to] \in {"struct", "union", "enum"}
      BY <1>2, <1>12, TargetsFacts DEF NamesFirst, Before, Earlier
    <2>1. CASE i = m + 1
      <3>1. n \in 1..n /\ ~(n < n)
        BY <1>1
      <3>2. to \in TargetsIn(refs, dependencies[n])
        BY <1>1, <1>2, <2>1
      <3>3. to \in Done \/ kind[to] \in {"struct", "union", "enum"}
        BY <1>3, <3>1, <3>2, TargetsFacts DEF IInv, OpenOK
      <3> QED
        BY <1>9, <2>1, <3>3
    <2>2. CASE i \in 1..m
      BY <1>2, <1>9, <2>2, TargetsFacts DEF IInv, NamesFirst
    <2> QED
      BY <1>2, <2>1, <2>2
  <1> QED
    BY <1>6, <1>7, <1>10, <1>11, <1>13, <1>14, <1>15 DEF IInv

\* Each step of the orderer keeps the invariant.
LEMMA StepOK == IInv /\ [Order]_vars => IInv'
  <1> SUFFICES ASSUME IInv, [Order]_vars
               PROVE  IInv'
    OBVIOUS
  <1>1. CASE Check
    BY <1>1, PhaseKeeps DEF Check
  <1>2. CASE NextDecl
    BY <1>2, NextDeclKeeps
  <1>3. CASE EnumValues
    BY <1>3, EnumValuesKeeps
  <1>4. CASE Finish
    BY <1>4, FinishKeeps
  <1>5. CASE Ordered
    <2>1. next = N + 1
      BY <1>5, NAssumption DEF Ordered, IInv, OrderTypeOK, Decls
    <2> QED
      BY <1>5, <2>1, PhaseKeeps DEF Ordered
  <1>6. CASE Walk
    BY <1>6, ReferenceKeeps DEF Walk
  <1>7. CASE UNCHANGED vars
    <2> USE <1>7 DEF vars, program, ordervars
    <2>1. OrderTypeOK'
      BY DEF IInv, OrderTypeOK
    <2>2. StatesOK' /\ DistinctOK' /\ LoopOK' /\ ChainOK'
      BY DEF IInv, StatesOK, DistinctOK, LoopOK, ChainOK, Open,
             Done, Before, RefersTo, Targets
    <2>3. OpenOK' /\ NamesFirst' /\ CircularIsReal'
      BY DEF IInv, OpenOK, NamesFirst, CircularIsReal, Done, Before, RefersTo,
             Targets, Top
    <2> QED
      BY <2>1, <2>2, <2>3 DEF IInv
  <1> QED
    BY <1>1, <1>2, <1>3, <1>4, <1>5, <1>6, <1>7 DEF Order

\* The inductive invariant holds of every module.
THEOREM Invariant == Spec => []IInv
  <1>1. Init => IInv
    BY InitOK
  <1>2. IInv /\ [Order]_vars => IInv'
    BY StepOK
  <1> QED
    BY <1>1, <1>2, PTL DEF Spec

-----------------------------------------------------------------------------
(* The theorems. *)

\* The orderer's state is well typed, and what is being ordered is open.
THEOREM OrderTypeCorrect == Spec => []OrderTypeOK
  <1>1. IInv => OrderTypeOK
    BY DEF IInv
  <1> QED
    BY <1>1, Invariant, PTL

\* The inductive invariant contains what order() asserts.
LEMMA EachOnceOfInv == IInv => EachOnce
  <1> SUFFICES ASSUME IInv
               PROVE  EachOnce
    OBVIOUS
  <1>1. ASSUME NEW i \in 1..Len(topological_order)
        PROVE  topological_order[i] \notin Before(i) \cup SeqElems(dependencies)
    <2>1. topological_order[i] \in Done
      BY DEF Done, SeqElems
    <2> QED
      BY <2>1 DEF IInv, DistinctOK, StatesOK, Open
  <1>2. ASSUME phase \in {"ordered", "resolve", "resolved", "rejected"}
        PROVE  dependencies = <<>> /\ SeqElems(topological_order) = Decls
    <2>1. dependencies = <<>> /\ next = N + 1
      BY <1>2 DEF IInv, LoopOK
    <2>2. Open = {}
      BY <2>1, EmptySeq DEF Open, SeqElems
    <2>3. \A d \in Decls : d < next
      BY <2>1, NAssumption DEF Decls
    <2>4. \A d \in Decls : state[d] = "ORDERED"
      BY <2>2, <2>3 DEF IInv, OrderTypeOK, StatesOK, Open
    <2>5. Decls \subseteq Done
      BY <2>2, <2>4 DEF IInv, StatesOK
    <2>6. Done \subseteq Decls
      BY ElementOfSeq DEF IInv, OrderTypeOK, Done, SeqElems
    <2> QED
      BY <2>1, <2>5, <2>6 DEF Done
  <1> QED
    BY <1>1, <1>2 DEF EachOnce

\* order() orders every declaration exactly once: its assertion on the number
\* of declarations holds, and so does orderer_del's on the dependencies.
THEOREM EachOnceCorrect == Spec => []EachOnce
  <1>1. IInv => EachOnce
    BY EachOnceOfInv
  <1> QED
    BY <1>1, Invariant, PTL

\* Whatever an ordered declaration refers to was ordered before it, unless it
\* is a struct, a union or an enum.
THEOREM NamesFirstCorrect == Spec => []NamesFirst
  <1>1. IInv => NamesFirst
    BY DEF IInv
  <1> QED
    BY <1>1, Invariant, PTL

\* No module is refused as circular without a circle of references.
THEOREM CircularCorrect == Spec => []CircularIsReal
  <1>1. IInv => CircularIsReal
    BY DEF IInv
  <1> QED
    BY <1>1, Invariant, PTL

-----------------------------------------------------------------------------
(* The resolver's passes: the inductive invariant, beside that of the orderer. *)

\* The loop in order() comes to the extend declarations last, and each is
\* ordered while nothing else is open.
ExtendsOK ==
    /\ phase \notin {"check", "misplaced"} => ~Misplaced
    /\ \A e \in extends, d \in Decls : e < d /\ d < next => d \in extends
    /\ dependencies # <<>> => dependencies[1] = next - 1
    /\ \A d \in Open : d \in extends => Len(dependencies) = 1
    /\ \A d \in extends : state[d] # "UNORDERED" => d < next /\ kind[d] = "extend"
    /\ ExtendsLast

\* The phases before the resolver's passes, and those in and after them.
Early == {"check", "misplaced", "order", "circular", "ordered"}
Late == {"resolve", "rejected", "resolved"}

\* What the two passes have done so far.
Resolver ==
    /\ at \in Nat \ {0}
    /\ phase \in Early =>
         symbols = {} /\ at = 1 /\ stale = {}
    /\ phase \in Late =>
         /\ at <= Len(topological_order) + 1
         /\ symbols = complete \cup {d \in Decls : kind[d] \in {"struct", "union"}}
    /\ phase = "rejected" => at <= Len(topological_order)
    /\ complete = Before(at)
    /\ skipped \in [Decls -> SUBSET [to : Decls, use : {"name", "size", "layout", "member"}]]
    /\ stale \subseteq Decls \X Decls
    /\ missing \subseteq Decls

TInv ==
    /\ IInv
    /\ ExtendsOK
    /\ Resolver
    /\ LayoutsFirst
    /\ StaleIsLater
    /\ RejectedForOrder

-----------------------------------------------------------------------------
(* The orderer's steps. *)

\* The definitions of ExtendsOK depend on the orderer's state alone.
LEMMA ExtendsStutters ==
    ASSUME ExtendsOK, UNCHANGED <<program, ordervars>>,
           phase' \notin {"check", "misplaced"} => ~Misplaced
    PROVE  ExtendsOK'
  BY DEF ExtendsOK, ExtendsLast, Misplaced, Open, Decls, program, ordervars

\* The loop in order() comes to an extend declaration only after the others.
LEMMA NextDeclExtends ==
    ASSUME IInv, ExtendsOK, NextDecl
    PROVE  ExtendsOK'
  <1>1. /\ next \in Decls /\ next \in Nat \ {0} /\ N \in Nat
        /\ next' = next + 1 /\ Decls \subseteq Nat
        /\ extends \subseteq Decls /\ extends' = extends
        /\ dependencies = <<>> /\ phase = "order" /\ phase' = "order"
        /\ topological_order' = topological_order
        /\ state \in [Decls -> {"UNORDERED", "ORDERING", "ORDERED"}]
        /\ kind \in [Decls -> {"unseen", "extend", "struct", "union", "enum", "other"}]
    BY NAssumption DEF NextDecl, Decls, IInv, OrderTypeOK
  <1>2. ~Misplaced /\ ~Misplaced'
    BY <1>1 DEF ExtendsOK, Misplaced, Decls
  <1>3. (\A e \in extends, d \in Decls : e < d /\ d < next => d \in extends)'
    <2> SUFFICES ASSUME NEW e \in extends, NEW d \in Decls, e < d, d < next + 1
                 PROVE  d \in extends
      BY <1>1 DEF Decls
    <2>1. d \in Nat /\ e \in Nat
      BY <1>1
    <2>2. CASE d < next
      BY <2>2 DEF ExtendsOK
    <2>3. CASE d = next
      <3>1. next - 1 \in Decls /\ next - 1 < next
        BY <1>1, <2>1, <2>3 DEF Decls
      <3>2. next - 1 \in extends
        <4>1. CASE e = next - 1
          BY <4>1
        <4>2. CASE e # next - 1
          <5>1. e < next - 1
            BY <1>1, <2>1, <2>3, <4>2
          <5> QED
            BY <3>1, <5>1 DEF ExtendsOK
        <4> QED
          BY <4>1, <4>2
      <3>3. next - 1 + 1 = next
        BY <1>1
      <3> QED
        BY <1>1, <1>2, <2>3, <3>1, <3>2, <3>3 DEF Misplaced
    <2> QED
      BY <1>1, <2>1, <2>2, <2>3
  <1>4. ExtendsLast'
    BY <1>1 DEF ExtendsOK, ExtendsLast
  <1>5. CASE state[next] = "ORDERED"
    <2>1. dependencies' = <<>> /\ state' = state /\ kind' = kind
      BY <1>5 DEF NextDecl
    <2>2. Open' = {}
      BY <2>1, EmptySeq DEF Open, SeqElems
    <2>3. \A d \in extends : d < next => d < next + 1
      BY <1>1
    <2> QED
      BY <1>1, <1>2, <1>3, <1>4, <2>1, <2>2, <2>3 DEF ExtendsOK
  <1>6. CASE state[next] # "ORDERED"
    <2>1. Enter(next)
      BY <1>6 DEF NextDecl
    <2>2. /\ Len(dependencies') = 1
          /\ dependencies'[1] = next
      <3>1. dependencies' = Append(dependencies, next) /\ Len(dependencies) = 0
        BY <1>1, <2>1, EmptySeq DEF Enter
      <3>2. dependencies \in Seq(Decls)
        BY DEF IInv, OrderTypeOK
      <3> QED
        BY <1>1, <3>1, <3>2, AppendFacts
    <2>3. next = next' - 1
      BY <1>1
    <2>4. (\A d \in extends : state[d] # "UNORDERED" => d < next /\ kind[d] = "extend")'
      <3> SUFFICES ASSUME NEW d \in extends, state'[d] # "UNORDERED"
                   PROVE  d < next + 1 /\ kind'[d] = "extend"
        BY <1>1
      <3>1. PICK k \in {"extend", "struct", "union", "enum", "other"} :
               /\ next \in extends => k = "extend"
               /\ kind' = [kind EXCEPT ![next] = k]
               /\ state' = [state EXCEPT ![next] = IF k \in {"struct", "union"} THEN "ORDERED" ELSE "ORDERING"]
        BY <2>1, KindsAssumption DEF Enter
      <3>2. CASE d = next
        BY <1>1, <3>1, <3>2
      <3>3. CASE d # next
        <4>1. state[d] # "UNORDERED" /\ kind'[d] = kind[d]
          BY <1>1, <3>1, <3>3
        <4> QED
          BY <1>1, <4>1 DEF ExtendsOK
      <3> QED
        BY <3>2, <3>3
    <2> QED
      BY <1>1, <1>2, <1>3, <1>4, <2>2, <2>3, <2>4 DEF ExtendsOK
  <1> QED
    BY <1>5, <1>6

\* No reference leads to an extend declaration.
LEMMA ReferenceExtends ==
    ASSUME IInv, ExtendsOK, NEW to \in Decls \ extends, NEW use \in Uses, Reference(to, use)
    PROVE  ExtendsOK'
  <1>1. /\ dependencies \in Seq(Decls) /\ dependencies # <<>>
        /\ Top \in Open /\ Top \in Decls /\ Len(dependencies) \in Nat \ {0}
        /\ UNCHANGED <<extends, next, topological_order>>
        /\ phase = "order" /\ phase' \in {"order", "circular"}
        /\ kind[Top] # "extend"
        /\ state \in [Decls -> {"UNORDERED", "ORDERING", "ORDERED"}]
        /\ kind \in [Decls -> {"unseen", "extend", "struct", "union", "enum", "other"}]
        /\ extends \subseteq Decls
    BY FrontFacts DEF Reference, IInv, OrderTypeOK, Top, Open
  <1>2. ~Misplaced /\ ~Misplaced' /\ ExtendsLast'
    BY <1>1 DEF ExtendsOK, ExtendsLast, Misplaced, Decls
  <1>3. \A d \in Open : d \notin extends
    <2> SUFFICES ASSUME NEW d \in Open, d \in extends
                 PROVE  FALSE
      OBVIOUS
    <2>1. Len(dependencies) = 1
      BY DEF ExtendsOK
    <2>2. d = Top
      BY <2>1 DEF Open, SeqElems, Top
    <2> QED
      BY <1>1, <2>2 DEF ExtendsOK, IInv, StatesOK
  <1>4. CASE state[to] = "UNORDERED"
    <2>1. Enter(to)
      BY <1>4 DEF Reference
    <2>2. /\ dependencies' # <<>>
          /\ dependencies'[1] = dependencies[1]
          /\ Open' = Open \cup {to}
      <3>1. dependencies' = Append(dependencies, to) /\ 1 \in 1..Len(dependencies)
        BY <1>1, <2>1 DEF Enter
      <3> QED
        BY <1>1, <3>1, AppendFacts, AppendProperties DEF Open
    <2>3. \A d \in extends : state'[d] = state[d] /\ kind'[d] = kind[d]
      BY <1>1, <2>1 DEF Enter
    <2> QED
      BY <1>1, <1>2, <1>3, <2>2, <2>3 DEF ExtendsOK, Decls
  <1>5. CASE state[to] # "UNORDERED"
    <2>1. UNCHANGED <<kind, state, dependencies>>
      BY <1>1, <1>5 DEF Reference
    <2> QED
      BY <1>1, <1>2, <1>3, <2>1 DEF ExtendsOK, Open, Decls
  <1> QED
    BY <1>4, <1>5

\* An enum's values are no extend declarations.
LEMMA EnumValuesExtends ==
    ASSUME IInv, ExtendsOK, EnumValues
    PROVE  ExtendsOK'
  <1>1. /\ state' = [state EXCEPT ![Top] = "ORDERED"]
        /\ state[Top] # "UNORDERED" /\ Top \in Decls
        /\ state \in [Decls -> {"UNORDERED", "ORDERING", "ORDERED"}]
        /\ extends \subseteq Decls
        /\ UNCHANGED <<phase, program, next, dependencies, topological_order>>
    BY FrontFacts DEF EnumValues, IInv, OrderTypeOK, Top
  <1>2. \A d \in extends : state'[d] # "UNORDERED" => state[d] # "UNORDERED"
    BY <1>1
  <1> QED
    BY <1>1, <1>2 DEF ExtendsOK, ExtendsLast, Misplaced, Open, Decls, program

\* An extend declaration that is ordered is the only one that was open.
LEMMA FinishExtends ==
    ASSUME IInv, ExtendsOK, Finish
    PROVE  ExtendsOK'
  <1> DEFINE n == Len(dependencies)
             m == Len(topological_order)
  <1>1. /\ n \in Nat \ {0}
        /\ dependencies' \in Seq(Decls)
        /\ Len(dependencies') = n - 1
        /\ \A i \in 1..n - 1 : dependencies'[i] = dependencies[i]
        /\ Top = dependencies[n] /\ Top \in Open /\ Top \in Decls
        /\ Open = Open' \cup {Top}
    BY FrontFacts DEF Finish, IInv, OrderTypeOK, Top, Open
  <1>2. /\ m \in Nat
        /\ Len(topological_order') = m + 1
        /\ \A i \in 1..m : topological_order'[i] = topological_order[i]
        /\ topological_order'[m + 1] = Top
    BY <1>1, AppendFacts DEF Finish, IInv, OrderTypeOK
  <1>3. /\ UNCHANGED <<phase, program, next>>
        /\ phase = "order"
        /\ state' = [state EXCEPT ![Top] = "ORDERED"]
        /\ state \in [Decls -> {"UNORDERED", "ORDERING", "ORDERED"}]
        /\ state[Top] # "UNORDERED" /\ Top \notin Done
        /\ extends \subseteq Decls /\ Decls \subseteq Nat
        /\ next \in Nat
        /\ dependencies[1] = next - 1
    <2>1. state[Top] # "UNORDERED" /\ Top \notin Done
      BY <1>1 DEF IInv, StatesOK
    <2>2. next \in Nat /\ Decls \subseteq Nat /\ dependencies # <<>>
      BY NAssumption DEF Finish, IInv, OrderTypeOK, Decls
    <2> QED
      BY <2>1, <2>2 DEF Finish, IInv, OrderTypeOK, ExtendsOK
  <1>4. \A i \in 1..m : topological_order[i] \in extends =>
            /\ topological_order[i] < next - 1
            /\ Top \in extends /\ Top = next - 1
    <2> SUFFICES ASSUME NEW i \in 1..m, topological_order[i] \in extends
                 PROVE  /\ topological_order[i] < next - 1
                        /\ Top \in extends /\ Top = next - 1
      OBVIOUS
    <2> DEFINE e == topological_order[i]
    <2>1. e \in Done /\ e \in Nat
      BY <1>3 DEF Done, SeqElems
    <2>2. e < next
      BY <2>1 DEF ExtendsOK, IInv, StatesOK
    <2>3. next - 1 \in Open
      <3>1. 1 \in 1..n
        BY <1>1
      <3> QED
        BY <1>3, <3>1 DEF Open, SeqElems
    <2>4. e # next - 1
      BY <2>1, <2>3 DEF IInv, StatesOK
    <2>5. e < next - 1 /\ next - 1 < next
      BY <1>3, <2>1, <2>2, <2>4
    <2>6. next - 1 \in Decls
      <3>1. 1 \in 1..n
        BY <1>1
      <3> QED
        BY <1>3, <3>1, ElementOfSeq DEF IInv, OrderTypeOK
    <2>7. next - 1 \in extends
      BY <2>5, <2>6 DEF ExtendsOK
    <2>8. n = 1
      BY <2>3, <2>7 DEF ExtendsOK
    <2> QED
      BY <1>1, <1>3, <2>5, <2>7, <2>8
  <1>5. ExtendsLast'
    <2> SUFFICES ASSUME NEW i \in 1..m + 1, topological_order'[i] \in extends,
                        NEW j \in i + 1..m + 1
                 PROVE  /\ topological_order'[j] \in extends
                        /\ topological_order'[i] < topological_order'[j]
      BY <1>2, <1>3 DEF ExtendsLast, program
    <2>1. i \in 1..m
      BY <1>2
    <2>2. CASE j = m + 1
      BY <1>2, <1>4, <2>1, <2>2
    <2>3. CASE j # m + 1
      <3>1. j \in i + 1..m /\ j \in 1..m
        BY <1>2, <2>3
      <3> QED
        BY <1>2, <2>1, <3>1 DEF ExtendsOK, ExtendsLast
    <2> QED
      BY <2>2, <2>3
  <1>6. dependencies' # <<>> => dependencies'[1] = next - 1
    <2> SUFFICES ASSUME dependencies' # <<>>
                 PROVE  dependencies'[1] = next - 1
      OBVIOUS
    <2>1. 1 \in 1..n - 1
      BY <1>1, <1>3, EmptySeq
    <2> QED
      BY <1>1, <1>3, <2>1
  <1>7. \A d \in Open' : d \notin extends
    <2> SUFFICES ASSUME NEW d \in Open', d \in extends
                 PROVE  FALSE
      OBVIOUS
    <2>1. n = 1
      BY <1>1 DEF ExtendsOK
    <2>2. Len(dependencies') = 0
      BY <1>1, <2>1
    <2> QED
      BY <2>2 DEF Open, SeqElems
  <1>8. \A d \in extends : state'[d] # "UNORDERED" => state[d] # "UNORDERED"
    BY <1>3
  <1> QED
    BY <1>3, <1>5, <1>6, <1>7, <1>8 DEF ExtendsOK, Misplaced, Decls, program
-----------------------------------------------------------------------------
(* The resolver's steps. *)

\* While the orderer is at work the resolver has done nothing.
LEMMA OrderStepKeeps ==
    ASSUME TInv, OrderStep
    PROVE  TInv'
  <1>1. phase \in {"check", "order"} /\ phase' \in Early
    <2>1. /\ Check => phase = "check" /\ phase' \in {"misplaced", "order"}
          /\ NextDecl \/ EnumValues \/ Finish => phase = "order" /\ phase' = "order"
          /\ Ordered => phase = "order" /\ phase' = "ordered"
      BY DEF Check, NextDecl, EnumValues, Finish, Ordered
    <2>2. ASSUME NEW to, NEW use, Reference(to, use), to \in Decls
          PROVE  phase = "order" /\ phase' \in {"order", "circular"}
      BY <2>2 DEF Reference, TInv, IInv, OrderTypeOK
    <2> QED
      BY <2>1, <2>2 DEF OrderStep, Order, Walk, Early
  <1>2. IInv'
    BY StepOK DEF OrderStep, TInv
  <1>3. ExtendsOK'
    <2>1. CASE Check \/ Ordered
      BY <2>1, ExtendsStutters DEF Check, Ordered, TInv, ExtendsOK
    <2> QED
      BY <2>1, NextDeclExtends, ReferenceExtends, EnumValuesExtends, FinishExtends
         DEF OrderStep, Order, Walk, TInv
  <1>4. /\ symbols = {} /\ at = 1 /\ complete = {} /\ stale = {}
        /\ UNCHANGED resolvevars
    <2>1. 1..1 - 1 = {}
      OBVIOUS
    <2>2. Before(1) = {}
      BY <2>1 DEF Before
    <2> QED
      BY <1>1, <2>2 DEF TInv, Resolver, OrderStep, Early
  <1>5. Resolver'
    <2>1. phase' \notin Late /\ phase' # "rejected"
      BY <1>1 DEF Early, Late
    <2>2. (Before(1))' = {}
      <3>1. 1..1 - 1 = {}
        OBVIOUS
      <3> QED
        BY <3>1 DEF Before
    <2>3. /\ UNCHANGED <<skipped, symbols, complete, at, stale, missing>>
          /\ missing \subseteq Decls
          /\ skipped \in [Decls -> SUBSET [to : Decls, use : {"name", "size", "layout", "member"}]]
      BY <1>4 DEF resolvevars, TInv, Resolver
    <2> HIDE DEF Early, Late
    <2>4. complete' = Before(at)'
      BY <1>4, <2>2, <2>3
    <2> QED
      BY <1>1, <1>4, <2>1, <2>3, <2>4 DEF Resolver
  <1>6. LayoutsFirst' /\ StaleIsLater' /\ RejectedForOrder'
    <2>1. phase' # "rejected" /\ complete' = {} /\ stale' = {}
      BY <1>1, <1>4 DEF Early, resolvevars
    <2> QED
      BY <2>1 DEF LayoutsFirst, StaleIsLater, RejectedForOrder
  <1> QED
    BY <1>2, <1>3, <1>5, <1>6 DEF TInv

\* When the orderer has ended every declaration has its place, once.
LEMMA Places ==
    ASSUME IInv, phase \in {"ordered"} \cup Late
    PROVE  /\ dependencies = <<>> /\ next = N + 1
           /\ topological_order \in Seq(Decls)
           /\ Len(topological_order) \in Nat
           /\ \A i \in 1..Len(topological_order) : topological_order[i] \in Decls
           /\ \A d \in Decls : \E i \in 1..Len(topological_order) : topological_order[i] = d
           /\ \A i, j \in 1..Len(topological_order) :
                i < j => topological_order[i] # topological_order[j]
  <1>1. dependencies = <<>> /\ next = N + 1
    BY DEF IInv, LoopOK, Late
  <1>2. Open = {}
    BY <1>1, EmptySeq DEF Open, SeqElems
  <1>3. Decls \subseteq Done
    <2>1. \A d \in Decls : d < next
      BY <1>1, NAssumption DEF Decls
    <2> QED
      BY <1>2, <2>1 DEF IInv, OrderTypeOK, StatesOK, Open
  <1>4. /\ topological_order \in Seq(Decls)
        /\ Len(topological_order) \in Nat
        /\ \A i \in 1..Len(topological_order) : topological_order[i] \in Decls
    BY ElementOfSeq, LenProperties DEF IInv, OrderTypeOK
  <1>5. ASSUME NEW i \in 1..Len(topological_order), NEW j \in 1..Len(topological_order), i < j
        PROVE  topological_order[i] # topological_order[j]
    <2>1. topological_order[j] \notin Before(j)
      BY DEF IInv, DistinctOK
    <2>2. i \in 1..j - 1
      BY <1>5
    <2> QED
      BY <2>1, <2>2 DEF Before
  <1> QED
    BY <1>1, <1>3, <1>4, <1>5 DEF Done, SeqElems

\* A declaration that is not among the first k - 1 is at k or later.
LEMMA LaterPlace ==
    ASSUME IInv, phase \in {"ordered"} \cup Late,
           NEW k \in 1..Len(topological_order), NEW m \in Decls, m \notin Before(k)
    PROVE  m = topological_order[k] \/ Precedes(topological_order[k], m)
  <1>1. PICK i \in 1..Len(topological_order) : topological_order[i] = m
    BY Places
  <1>2. i \notin 1..k - 1
    BY <1>1 DEF Before
  <1>3. Len(topological_order) \in Nat
    BY Places
  <1>4. i = k \/ k < i
    BY <1>2, <1>3
  <1> QED
    BY <1>1, <1>4 DEF Precedes

\* What is in front of the loop's index precedes what is at the index.
LEMMA EarlierPlace ==
    ASSUME IInv, phase \in {"ordered"} \cup Late,
           NEW k \in 1..Len(topological_order), NEW m \in Before(k)
    PROVE  Precedes(m, topological_order[k])
  <1>1. PICK i \in 1..k - 1 : topological_order[i] = m
    BY DEF Before
  <1>2. i \in 1..Len(topological_order) /\ i < k
    BY Places
  <1> QED
    BY <1>1, <1>2 DEF Precedes

\* The resolver changes nothing of the program or its order.
LEMMA OrderKept ==
    ASSUME UNCHANGED <<program, ordervars>>
    PROVE  /\ UNCHANGED <<kind, refs, extends, state, next, dependencies, topological_order>>
           /\ \A a, b : Precedes(a, b)' <=> Precedes(a, b)
           /\ \A k : Before(k)' = Before(k)
  BY DEF program, ordervars, Precedes, Before

\* Layouts come first as long as the order and what is complete stay.
LEMMA LayoutsKept ==
    ASSUME LayoutsFirst, UNCHANGED <<program, ordervars>>, complete' = complete,
           \A d \in complete : skipped'[d] = skipped[d]
    PROVE  LayoutsFirst'
  BY OrderKept DEF LayoutsFirst, AllRefs

\* What was read too early stays so as long as the order stays.
LEMMA StaleKept ==
    ASSUME StaleIsLater, UNCHANGED <<program, ordervars>>, stale' = stale
    PROVE  StaleIsLater'
  BY OrderKept DEF StaleIsLater

\* The first pass declares the structs and unions.
LEMMA PredeclareKeeps ==
    ASSUME TInv, Predeclare
    PROVE  TInv'
  <1>1. /\ phase = "ordered" /\ phase' = "resolve"
        /\ UNCHANGED <<program, ordervars, skipped, complete, at, stale, missing>>
        /\ symbols' = {d \in Decls : kind[d] \in {"struct", "union"}}
        /\ at = 1
    BY DEF Predeclare, TInv, Resolver, Early
  <1>2. dependencies = <<>> /\ next = N + 1 /\ Len(topological_order) \in Nat
    BY <1>1, Places DEF TInv
  <1>3. IInv'
    BY <1>1, <1>2, PhaseKeeps DEF TInv
  <1>4. ExtendsOK'
    BY <1>1, ExtendsStutters DEF TInv, ExtendsOK
  <1>5. Resolver'
    <2>1. complete = {}
      <3>1. 1..1 - 1 = {}
        OBVIOUS
      <3> QED
        BY <1>1, <3>1 DEF TInv, Resolver, Before
    <2>2. phase' \notin Early /\ phase' # "rejected"
      BY <1>1 DEF Early
    <2>3. /\ at' \in Nat \ {0} /\ at' <= Len(topological_order) + 1
          /\ complete' = Before(at)'
          /\ stale' \subseteq Decls \X Decls
          /\ missing' \subseteq Decls
          /\ skipped' \in [Decls -> SUBSET [to : Decls, use : {"name", "size", "layout", "member"}]]
      BY <1>1, <1>2, OrderKept DEF TInv, Resolver
    <2> QED
      BY <1>1, <2>1, <2>2, <2>3, OrderKept DEF Resolver
  <1>6. LayoutsFirst' /\ StaleIsLater' /\ RejectedForOrder'
    BY <1>1, LayoutsKept, StaleKept DEF TInv, RejectedForOrder
  <1> QED
    BY <1>3, <1>4, <1>5, <1>6 DEF TInv

\* The resolver is led to a name that the orderer has not looked at.
LEMMA LookUpKeeps ==
    ASSUME TInv, NEW to \in Decls, NEW use \in Uses, LookUp(to, use)
    PROVE  TInv'
  <1> DEFINE d == topological_order[at]
  <1>1. /\ phase = "resolve" /\ at <= Len(topological_order)
        /\ UNCHANGED <<phase, program, ordervars, symbols, complete, at, stale, missing>>
        /\ skipped' = [skipped EXCEPT ![d] = @ \cup {[to |-> to, use |-> use]}]
    BY DEF LookUp
  <1>2. dependencies = <<>> /\ next = N + 1
    BY <1>1, Places DEF TInv, Late
  <1>3. at \in 1..Len(topological_order) /\ d \in Decls
    BY <1>1, Places DEF TInv, Resolver, Late
  <1>4. skipped \in [Decls -> SUBSET [to : Decls, use : {"name", "size", "layout", "member"}]]
    BY DEF TInv, Resolver
  <1>5. IInv'
    BY <1>1, <1>2, PhaseKeeps DEF TInv
  <1>6. ExtendsOK'
    BY <1>1, ExtendsStutters DEF TInv, ExtendsOK
  <1>7. Resolver'
    <2>1. skipped' \in [Decls -> SUBSET [to : Decls, use : {"name", "size", "layout", "member"}]]
      BY <1>1, <1>3, <1>4, UsesAssumption
    <2> QED
      BY <1>1, <2>1, OrderKept DEF TInv, Resolver
  <1>8. LayoutsFirst' /\ StaleIsLater' /\ RejectedForOrder'
    <2>1. d \notin complete
      BY <1>3 DEF TInv, IInv, DistinctOK, Resolver
    <2>2. \A e \in complete : skipped'[e] = skipped[e]
      BY <1>1, <1>4, <2>1
    <2>3. phase' # "rejected"
      BY <1>1
    <2> QED
      BY <1>1, <2>2, <2>3, LayoutsKept, StaleKept DEF TInv, RejectedForOrder
  <1> QED
    BY <1>5, <1>6, <1>7, <1>8 DEF TInv

\* What a declaration lacks comes later, if it is not the declaration itself;
\* what the orderer has looked at of it is a type.
LEMMA LackingFacts ==
    ASSUME TInv, phase = "resolve", at <= Len(topological_order),
           NEW d, d = topological_order[at]
    PROVE  /\ at \in 1..Len(topological_order)
           /\ d \in Decls
           /\ \A m \in Lacking(d) :
                /\ m \in Decls /\ m \notin Before(at)
                /\ \/ m \in SkippedTargets(d)
                   \/ kind[m] \in {"struct", "union"}
                   \/ kind[m] = "enum" /\ m # d
           /\ \A m \in EarlySizes(d) :
                m \in Decls /\ m \notin Before(at) /\ kind[m] \in {"struct", "union"}
  <1> DEFINE R == [to : Decls, use : {"name", "size", "layout", "member"}]
  <1>1. /\ at \in 1..Len(topological_order)
        /\ d \in Decls
    BY Places DEF TInv, Resolver, Late
  <1>2. SeqElems(refs[d]) \subseteq R
    <2>1. refs[d] \in Seq(R)
      BY <1>1 DEF TInv, IInv, OrderTypeOK
    <2> HIDE DEF R
    <2>2. \A i \in 1..Len(refs[d]) : refs[d][i] \in R
      BY <2>1, ElementOfSeq
    <2> QED
      BY <2>2 DEF SeqElems
  <1>3. skipped[d] \subseteq R
    BY <1>1 DEF TInv, Resolver
  <1>4. /\ Targets(d) \subseteq Decls
        /\ SkippedTargets(d) \subseteq Decls
        /\ \A r \in AllRefs(d) : r.to \in Decls
    BY <1>2, <1>3 DEF Targets, SkippedTargets, AllRefs
  <1>5. /\ complete = Before(at)
        /\ symbols = complete \cup {e \in Decls : kind[e] \in {"struct", "union"}}
    BY DEF TInv, Resolver, Late
  <1>6. \A use : \A K \in SUBSET {"struct", "union"} : \A m \in UsesEarly(d, use, K) :
          m \in Decls /\ m \notin Before(at) /\ kind[m] \in {"struct", "union"}
    BY <1>4, <1>5 DEF UsesEarly
  <1>7. ASSUME NEW m \in Undeclared(d)
        PROVE  /\ m \in Decls /\ m \notin Before(at)
               /\ m \in SkippedTargets(d) \/ (kind[m] = "enum" /\ m # d)
    <2>1. CASE m \in SkippedTargets(d) /\ m \notin symbols
      BY <1>4, <1>5, <2>1
    <2>2. CASE m \in Targets(d) /\ m \notin symbols /\ (kind[d] = "enum" => m # d)
      <3>1. m \in Before(at) \/ kind[m] \in {"struct", "union", "enum"}
        BY <1>1, <2>2 DEF TInv, IInv, NamesFirst
      <3>2. kind[m] = "enum" /\ m \notin Before(at) /\ m \in Decls
        BY <1>4, <1>5, <2>2, <3>1
      <3> QED
        BY <2>2, <3>2
    <2> QED
      BY <2>1, <2>2 DEF Undeclared
  <1>8. \A m \in Incomplete(d) \cup Unfilled(d) \cup EarlySizes(d) :
          m \in Decls /\ m \notin Before(at) /\ kind[m] \in {"struct", "union"}
    <2>1. {"struct"} \in SUBSET {"struct", "union"}
          /\ {"union"} \in SUBSET {"struct", "union"}
          /\ {"struct", "union"} \in SUBSET {"struct", "union"}
      OBVIOUS
    <2> QED
      BY <1>6, <2>1 DEF Incomplete, Unfilled, EarlySizes
  <1> QED
    BY <1>1, <1>7, <1>8 DEF Lacking

\* A declaration is refused for something that is not there or not complete.
LEMMA RejectKeeps ==
    ASSUME TInv, phase = "resolve", at <= Len(topological_order),
           Lacking(topological_order[at]) # {},
           Reject(topological_order[at]),
           UNCHANGED <<program, ordervars, skipped>>
    PROVE  TInv'
  <1> DEFINE d == topological_order[at]
  <1>1. /\ at \in 1..Len(topological_order)
        /\ missing' = Lacking(d)
        /\ missing' \subseteq Decls /\ missing' # {}
        /\ phase' = "rejected"
        /\ UNCHANGED <<symbols, complete, at, stale>>
    BY LackingFacts DEF Reject
  <1>2. dependencies = <<>> /\ next = N + 1
    BY Places DEF TInv, Late
  <1>3. IInv'
    BY <1>1, <1>2, PhaseKeeps DEF TInv
  <1>4. ExtendsOK'
    BY <1>1, ExtendsStutters DEF TInv, ExtendsOK
  <1>5. Resolver'
    BY <1>1, OrderKept DEF TInv, Resolver, Early, Late
  <1>6. LayoutsFirst' /\ StaleIsLater'
    BY <1>1, LayoutsKept, StaleKept DEF TInv
  <1>7. RejectedForOrder'
    <2> SUFFICES ASSUME NEW m \in missing'
                 PROVE  /\ m = d \/ Precedes(d, m)
                        /\ \/ m \in SkippedTargets(d)
                           \/ kind[m] \in {"struct", "union"}
                           \/ kind[m] = "enum" /\ m # d
      BY <1>1, OrderKept DEF RejectedForOrder, SkippedTargets
    <2>1. /\ m \notin Before(at) /\ m \in Decls
          /\ \/ m \in SkippedTargets(d)
             \/ kind[m] \in {"struct", "union"}
             \/ kind[m] = "enum" /\ m # d
      BY <1>1, LackingFacts
    <2>2. m = d \/ Precedes(d, m)
      BY <1>1, <2>1, LaterPlace DEF TInv, Late
    <2> QED
      BY <2>1, <2>2
  <1> QED
    BY <1>3, <1>4, <1>5, <1>6, <1>7 DEF TInv

\* A declaration is resolved, and if it is a type it is complete.
LEMMA AcceptKeeps ==
    ASSUME TInv, phase = "resolve", at <= Len(topological_order),
           Lacking(topological_order[at]) = {},
           Accept(topological_order[at]),
           UNCHANGED <<program, ordervars, skipped>>
    PROVE  TInv'
  <1> DEFINE d == topological_order[at]
  <1>1. /\ at \in 1..Len(topological_order)
        /\ d \in Decls
        /\ symbols' = symbols \cup {d}
        /\ complete' = complete \cup {d}
        /\ stale' = stale \cup {<<d, m>> : m \in EarlySizes(d)}
        /\ at' = at + 1
        /\ UNCHANGED <<phase, missing>>
        /\ EarlySizes(d) \subseteq Decls
    BY LackingFacts DEF Accept
  <1>2. dependencies = <<>> /\ next = N + 1 /\ Len(topological_order) \in Nat
    BY Places DEF TInv, Late
  <1>3. IInv'
    BY <1>1, <1>2, PhaseKeeps DEF TInv
  <1>4. ExtendsOK'
    BY <1>1, ExtendsStutters DEF TInv, ExtendsOK
  <1>5. complete = Before(at) /\ symbols = complete \cup {e \in Decls : kind[e] \in {"struct", "union"}}
    BY DEF TInv, Resolver, Late
  <1>6. Resolver'
    <2>1. Before(at + 1) = Before(at) \cup {d}
      <3>1. 1..at + 1 - 1 = 1..at - 1 \cup {at}
        BY <1>1
      <3> QED
        BY <3>1 DEF Before
    <2>2. complete' = Before(at)'
      BY <1>1, <1>5, <2>1, OrderKept
    <2>3. stale' \subseteq Decls \X Decls
      BY <1>1 DEF TInv, Resolver
    <2> QED
      BY <1>1, <1>2, <1>5, <2>2, <2>3, OrderKept DEF TInv, Resolver, Early
  <1>7. LayoutsFirst'
    <2> SUFFICES ASSUME NEW e \in complete \cup {d}, NEW r \in AllRefs(e),
                        r.use \in {"layout", "member"},
                        kind[r.to] \in {"struct", "union"}
                 PROVE  Precedes(r.to, e)
      BY <1>1, OrderKept DEF LayoutsFirst, AllRefs
    <2>1. CASE e \in complete
      BY <2>1 DEF TInv, LayoutsFirst
    <2>2. CASE e = d
      <3>1. r.to \in Before(at)
        BY <1>5, <2>2 DEF Lacking, Incomplete, Unfilled, UsesEarly
      <3> QED
        BY <1>1, <2>2, <3>1, EarlierPlace DEF TInv, Late
    <2> QED
      BY <2>1, <2>2
  <1>8. StaleIsLater'
    <2> SUFFICES ASSUME NEW m \in EarlySizes(d)
                 PROVE  kind[m] \in {"struct", "union"} /\ (d = m \/ Precedes(d, m))
      BY <1>1, OrderKept DEF TInv, StaleIsLater
    <2>1. m \notin Before(at) /\ kind[m] \in {"struct", "union"} /\ m \in Decls
      BY LackingFacts
    <2> QED
      BY <1>1, <2>1, LaterPlace DEF TInv, Late
  <1>9. RejectedForOrder'
    BY <1>1 DEF RejectedForOrder
  <1> QED
    BY <1>3, <1>4, <1>6, <1>7, <1>8, <1>9 DEF TInv

\* The second pass has come to the end of the order.
LEMMA ResolvedKeeps ==
    ASSUME TInv, Resolved
    PROVE  TInv'
  <1>1. /\ phase = "resolve" /\ phase' = "resolved"
        /\ UNCHANGED <<program, ordervars, skipped, symbols, complete, at, stale, missing>>
    BY DEF Resolved, resolvevars
  <1>2. dependencies = <<>> /\ next = N + 1
    BY <1>1, Places DEF TInv, Late
  <1>3. IInv'
    BY <1>1, <1>2, PhaseKeeps DEF TInv
  <1>4. ExtendsOK'
    BY <1>1, ExtendsStutters DEF TInv, ExtendsOK
  <1>5. Resolver'
    BY <1>1, OrderKept DEF TInv, Resolver, Early, Late
  <1>6. LayoutsFirst' /\ StaleIsLater' /\ RejectedForOrder'
    BY <1>1, LayoutsKept, StaleKept DEF TInv, RejectedForOrder
  <1> QED
    BY <1>3, <1>4, <1>5, <1>6 DEF TInv

\* Nothing changes when nothing happens.
LEMMA StutterKeeps ==
    ASSUME TInv, UNCHANGED allvars
    PROVE  TInv'
  <1>1. UNCHANGED <<phase, program, ordervars, skipped, symbols, complete, at, stale, missing>>
    BY DEF allvars, vars, resolvevars
  <1>2. IInv'
    BY <1>1, StepOK DEF TInv, vars
  <1>3. ExtendsOK'
    BY <1>1, ExtendsStutters DEF TInv, ExtendsOK
  <1>4. Resolver'
    BY <1>1, OrderKept DEF TInv, Resolver
  <1>5. LayoutsFirst' /\ StaleIsLater'
    BY <1>1, LayoutsKept, StaleKept DEF TInv
  <1>6. RejectedForOrder'
    BY <1>1, OrderKept DEF TInv, RejectedForOrder, SkippedTargets
  <1> QED
    BY <1>2, <1>3, <1>4, <1>5, <1>6 DEF TInv

\* The invariant holds before the order is made.
LEMMA TInitOK == RInit => TInv
  <1> SUFFICES ASSUME RInit
               PROVE  TInv
    OBVIOUS
  <1>1. IInv
    BY InitOK DEF RInit
  <1>2. Len(<<>>) = 0
    BY EmptySeq
  <1>3. ExtendsOK
    <2>1. Open = {} /\ \A d \in Decls : ~(d < 1)
      BY <1>2, NAssumption DEF RInit, Init, Open, SeqElems, Decls
    <2>2. ExtendsLast
      BY <1>2 DEF RInit, Init, ExtendsLast
    <2>3. \A d \in extends : state[d] = "UNORDERED"
      BY DEF RInit, Init
    <2> QED
      BY <2>1, <2>2, <2>3 DEF RInit, Init, ExtendsOK
  <1>4. Resolver
    <2>1. Before(1) = {}
      BY DEF Before
    <2> QED
      BY <2>1 DEF RInit, Init, Resolver, Early, Late
  <1>5. LayoutsFirst /\ StaleIsLater /\ RejectedForOrder
    BY DEF RInit, Init, LayoutsFirst, StaleIsLater, RejectedForOrder
  <1> QED
    BY <1>1, <1>3, <1>4, <1>5 DEF TInv

\* Each step of the orderer and of the resolver keeps the invariant.
LEMMA TStepOK == TInv /\ [RNext]_allvars => TInv'
  <1> SUFFICES ASSUME TInv, [RNext]_allvars
               PROVE  TInv'
    OBVIOUS
  <1>1. CASE OrderStep
    BY <1>1, OrderStepKeeps
  <1>2. CASE Predeclare
    BY <1>2, PredeclareKeeps
  <1>3. CASE ResolveDecl
    BY <1>3, RejectKeeps, AcceptKeeps DEF ResolveDecl
  <1>4. CASE Resolved
    BY <1>4, ResolvedKeeps
  <1>5. CASE \E to \in Decls, use \in Uses : LookUp(to, use)
    BY <1>5, LookUpKeeps
  <1>6. CASE Ended \/ UNCHANGED allvars
    BY <1>6, StutterKeeps DEF Ended
  <1> QED
    BY <1>1, <1>2, <1>3, <1>4, <1>5, <1>6 DEF RNext

\* The inductive invariant holds of every module.
THEOREM TopLevelInvariant == RSpec => []TInv
  <1>1. RInit => TInv
    BY TInitOK
  <1>2. TInv /\ [RNext]_allvars => TInv'
    BY TStepOK
  <1> QED
    BY <1>1, <1>2, PTL DEF RSpec

-----------------------------------------------------------------------------
(* The theorems. *)

\* A declaration has one place in the order only, so the order is no longer
\* than the module.
LEMMA OrderIsShort ==
    ASSUME IInv, phase \in {"ordered"} \cup Late
    PROVE  Len(topological_order) <= N
  <1> DEFINE L == Len(topological_order)
  <1>1. /\ L \in Nat
        /\ topological_order \in [1..L -> Decls]
    BY Places, LenProperties
  <1>2. topological_order \in Injection(1..L, Decls)
    <2>1. \A i, j \in 1..L : topological_order[i] = topological_order[j] => i = j
      <3> SUFFICES ASSUME NEW i \in 1..L, NEW j \in 1..L, i # j
                   PROVE  topological_order[i] # topological_order[j]
        OBVIOUS
      <3>1. i < j \/ j < i
        BY <1>1
      <3> QED
        BY <3>1, Places
    <2> QED
      BY <1>1, <2>1 DEF Injection, IsInjective
  <1>3. IsFiniteSet(Decls) /\ Cardinality(Decls) = N /\ Cardinality(1..L) = L
    <2>1. \A n \in Nat : IsFiniteSet(1..n) /\ Cardinality(1..n) = n
      BY FS_Interval
    <2> QED
      BY <1>1, <2>1, NAssumption DEF Decls
  <1> QED
    BY <1>2, <1>3, FS_Injection

\* The types of the resolver's variables, beside those of the orderer.
THEOREM TopLevelTypeCorrect == RSpec => []TopLevelTypeOK
  <1>1. TInv => TopLevelTypeOK
    <2> SUFFICES ASSUME TInv
                 PROVE  TopLevelTypeOK
      OBVIOUS
    <2>1. phase \in Early \cup Late
      BY DEF TInv, IInv, OrderTypeOK, Early, Late
    <2>2. at \in 1..N + 1
      BY <2>1, OrderIsShort, Places, NAssumption DEF TInv, Resolver
    <2>3. complete \subseteq symbols /\ symbols \subseteq Decls
      <3>1. CASE phase \in Early
        <4>1. complete = {} /\ symbols = {}
          BY <3>1 DEF TInv, Resolver, Before
        <4> QED
          BY <4>1
      <3>2. CASE phase \in Late
        <4>1. complete \subseteq Decls
          <5>1. \A j \in 1..at - 1 : j \in 1..Len(topological_order)
            BY <3>2, Places DEF TInv, Resolver
          <5> QED
            BY <3>2, <5>1, Places DEF TInv, Resolver, Before
        <4> QED
          BY <3>2, <4>1 DEF TInv, Resolver
      <3> QED
        BY <2>1, <3>1, <3>2
    <2> QED
      BY <2>2, <2>3 DEF TInv, IInv, Resolver, TopLevelTypeOK
  <1> QED
    BY <1>1, TopLevelInvariant, PTL

\* Also while the resolver is at work, order() has ordered every declaration
\* once and after the names that it needs, and has refused circles only.
THEOREM OrderStays == RSpec => [](EachOnce /\ NamesFirst /\ CircularIsReal)
  <1>1. TInv => EachOnce /\ NamesFirst /\ CircularIsReal
    BY EachOnceOfInv DEF TInv, IInv
  <1> QED
    BY <1>1, TopLevelInvariant, PTL

\* resolve() refuses an ordered module only for what is or comes later than the
\* declaration that it has come to, and this is a struct, a union, an enum or a
\* name that the orderer has not looked at: no other kind of name is missing.
THEOREM RejectedCorrect == RSpec => []RejectedForOrder
  <1>1. TInv => RejectedForOrder
    BY DEF TInv
  <1> QED
    BY <1>1, TopLevelInvariant, PTL

\* The order suits the resolver's two passes: extend declarations are last and
\* in the order of the source, what is laid out or evaluated from the layout of
\* a struct or union, or from what is declared in it, comes after it, and only
\* the size of one that is later, or is itself being completed, is ever read
\* too early: also where the orderer has not looked.
THEOREM OrderSufficesCorrect == RSpec => []OrderSuffices
  <1>1. TInv => OrderSuffices
    BY DEF TInv, ExtendsOK, OrderSuffices
  <1> QED
    BY <1>1, TopLevelInvariant, PTL
=============================================================================
