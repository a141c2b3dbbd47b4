---------------------------- MODULE TemplateProofs ----------------------------
(***************************************************************************)
(* Proofs about Template: for every program, however its templates use     *)
(* each other, and every limit on the depth, each instance that something  *)
(* can refer to is there once, and the chain that is reported with an      *)
(* error is the way on which the compiler came there.                      *)
(***************************************************************************)
EXTENDS Template, SequenceTheorems, TLAPS

-----------------------------------------------------------------------------
(* The inductive invariant. *)

ProgramOK ==
    /\ kind \in [Templates -> {"function", "struct"}]
    /\ signature \in [Templates -> Seq(Use)]
    /\ body \in [Owners -> Seq(Use)]

\* The instance that a chain has led to.
Reached(c) == IF c = <<>> THEN <<Main, 0>> ELSE c[Len(c)]

\* The structs of a chain are in the cache, and an argument is nested no
\* deeper than the chain is long.
GoodChain(c) ==
    /\ Len(c) <= MaxDepth
    /\ IsWay(c)
    /\ \A i \in 1..Len(c) :
         /\ c[i] \in Templates \X Nat
         /\ c[i][2] <= i
         /\ kind[c[i][1]] = "struct" => c[i] \in cache
    /\ \A i, j \in 1..Len(c) : i < j /\ c[i] = c[j] => kind[c[i][1]] = "function"

ChainsOK ==
    /\ phase # "too deep" => GoodChain(chain)
    /\ \A i \in 1..Len(acts) : GoodChain(acts[i].saved)
    /\ \A f \in Elems(incomplete_functions) :
         GoodChain(f.chain) /\ f.inst = Reached(f.chain)

\* The chain as it is while the i-th activation is the innermost.
ChainOf(i) == IF i = Len(acts) THEN chain ELSE acts[i + 1].saved

\* The i-th activation, in which the chain is c, has added a link to it; the
\* first is that of complete_function.
Link(a, i, c) ==
    /\ a.inst = Reached(c)
    /\ i = 1 =>
         /\ a.what = "body"
         /\ a.saved = <<>>
         /\ Elems(a.uses) \subseteq Elems(body[a.inst[1]])
    /\ i # 1 =>
         /\ a.what = "instance"
         /\ a.inst \in Templates \X Nat
         /\ c = Append(a.saved, a.inst)
         /\ Elems(a.uses) \subseteq Elems(signature[a.inst[1]])

StackOK ==
    /\ acts = <<>> => chain = <<>>
    /\ acts # <<>> => at <= Len(incomplete_functions)
    /\ \A i \in 1..Len(acts) : Link(acts[i], i, ChainOf(i))

\* The instances that have been listed are in the cache, and differ.
ListOK ==
    /\ \A i, j \in 1..Len(incomplete_functions) :
         i < j => incomplete_functions[i].inst # incomplete_functions[j].inst
    /\ \A f \in Elems(incomplete_functions) : f.inst \in cache \cup {<<Main, 0>>}

\* A struct that is being instantiated is in the cache, not on the list, and
\* there is no other activation for it.
StructsOK ==
    \A i \in 2..Len(acts) : kind[acts[i].inst[1]] = "struct" =>
        /\ acts[i].inst \in cache
        /\ \A f \in Elems(incomplete_functions) : f.inst # acts[i].inst
        /\ \A j \in 2..Len(acts) : acts[j].inst = acts[i].inst => i = j

\* What is in the cache is on the list or being instantiated.
CacheOK ==
    /\ cache \subseteq Templates \X Nat
    /\ \A inst \in cache :
         \/ \E f \in Elems(incomplete_functions) : f.inst = inst
         \/ \E i \in 2..Len(acts) : acts[i].inst = inst

ResolvingOK == StackOK /\ ListOK /\ StructsOK /\ CacheOK

TemplateInv ==
    /\ ProgramOK
    /\ TemplateTypeOK
    /\ ChainsOK
    /\ phase = "resolve" => ResolvingOK
    /\ IsWay(chain)
    /\ InstancesOnce

-----------------------------------------------------------------------------
(* Facts about sequences. *)

\* The elements of a sequence with one more.
LEMMA ElemsOfAppend ==
    ASSUME NEW S, NEW s \in Seq(S), NEW e \in S
    PROVE  Elems(Append(s, e)) = Elems(s) \cup {e}
  <1>1. /\ Len(s) \in Nat /\ Len(Append(s, e)) = Len(s) + 1
        /\ \A i \in 1..Len(s) : Append(s, e)[i] = s[i]
        /\ Append(s, e)[Len(s) + 1] = e
    BY AppendProperties, LenProperties
  <1> DEFINE a == Append(s, e)
  <1> HIDE DEF a
  <1>2. 1..Len(a) = 1..Len(s) \cup {Len(s) + 1}
    BY <1>1 DEF a
  <1>3. \A i \in 1..Len(s) : a[i] = s[i]
    BY <1>1 DEF a
  <1>4. a[Len(s) + 1] = e
    BY <1>1 DEF a
  <1> QED
    BY <1>2, <1>3, <1>4 DEF Elems, a

\* The elements of a sequence over S are in S.
LEMMA ElemsOfSeq ==
    ASSUME NEW S, NEW s \in Seq(S)
    PROVE  Elems(s) \subseteq S
  BY ElementOfSeq DEF Elems

\* UpTo has sequences.
LEMMA UpToIsSeq ==
    ASSUME NEW S, NEW n \in Nat
    PROVE  UpTo(S, n) \subseteq Seq(S)
  BY SeqDef DEF UpTo

\* What a sequence begins with, and the rest of it.
LEMMA HeadTailElems ==
    ASSUME NEW S, NEW s \in Seq(S), s # <<>>
    PROVE  /\ Head(s) \in Elems(s) /\ Head(s) \in S
           /\ Tail(s) \in Seq(S)
           /\ Elems(Tail(s)) \subseteq Elems(s)
  <1>1. /\ Len(s) \in Nat \ {0}
        /\ Head(s) = s[1] /\ Head(s) \in S
        /\ Tail(s) \in Seq(S)
        /\ Len(Tail(s)) = Len(s) - 1
        /\ \A i \in 1..Len(Tail(s)) : Tail(s)[i] = s[i + 1]
    BY HeadTailProperties, EmptySeq
  <1>2. Head(s) \in Elems(s)
    BY <1>1 DEF Elems
  <1>3. Elems(Tail(s)) \subseteq Elems(s)
    <2> SUFFICES ASSUME NEW i \in 1..Len(Tail(s))
                 PROVE  Tail(s)[i] \in Elems(s)
      BY DEF Elems
    <2>1. i + 1 \in 1..Len(s) /\ Tail(s)[i] = s[i + 1]
      BY <1>1
    <2> QED
      BY <2>1 DEF Elems
  <1> QED
    BY <1>1, <1>2, <1>3

\* A sequence without its last element.
LEMMA FrontFacts ==
    ASSUME NEW S, NEW s \in Seq(S), s # <<>>
    PROVE  /\ Len(s) \in Nat \ {0}
           /\ s[Len(s)] \in S
           /\ Front(s) \in Seq(S)
           /\ Len(Front(s)) = Len(s) - 1
           /\ \A i \in 1..Len(s) - 1 : Front(s)[i] = s[i]
  <1>1. Len(s) \in Nat \ {0} /\ s[Len(s)] \in S
    BY EmptySeq, ElementOfSeq
  <1> DEFINE n == Len(s) - 1
  <1>2. n \in Nat /\ n \in Int /\ \A i \in 1..n : s[i] \in S
    BY <1>1, ElementOfSeq
  <1> HIDE DEF n
  <1>3. /\ SubSeq(s, 1, n) \in Seq(S)
        /\ Len(SubSeq(s, 1, n)) = IF 1 <= n THEN n - 1 + 1 ELSE 0
        /\ \A i \in 1..n - 1 + 1 : SubSeq(s, 1, n)[i] = s[1 + i - 1]
    BY <1>2, SubSeqProperties
  <1>4. /\ SubSeq(s, 1, n) \in Seq(S)
        /\ Len(SubSeq(s, 1, n)) = n
        /\ \A i \in 1..n : SubSeq(s, 1, n)[i] = s[i]
    BY <1>2, <1>3
  <1> QED
    BY <1>1, <1>4 DEF n, Front

-----------------------------------------------------------------------------
(* Facts about instances and chains. *)

\* An argument of a use is nested at most one deeper than the user's.
LEMMA InstanceFacts ==
    ASSUME NEW use \in Use, NEW n \in Nat
    PROVE  /\ Instance(use, n) \in Templates \X Nat
           /\ Instance(use, n)[1] = use.of
           /\ Instance(use, n)[2] <= n + 1
  <1>1. use.of \in Templates /\ use.arg \in {"same", "pointer", "base"}
    BY ArgsAssumption DEF Use
  <1>2. CASE use.arg = "same"
    <2>1. Instance(use, n) = <<use.of, n>>
      BY <1>2 DEF Instance
    <2> QED
      BY <1>1, <2>1
  <1>3. CASE use.arg = "pointer"
    <2>1. Instance(use, n) = <<use.of, n + 1>>
      BY <1>3 DEF Instance
    <2> QED
      BY <1>1, <2>1
  <1>4. CASE use.arg = "base"
    <2>1. Instance(use, n) = <<use.of, 0>>
      BY <1>4 DEF Instance
    <2> QED
      BY <1>1, <2>1
  <1> QED
    BY <1>1, <1>2, <1>3, <1>4

\* A chain stays good while the cache grows.
LEMMA GoodStays ==
    ASSUME UNCHANGED program, cache \subseteq cache'
    PROVE  /\ \A c : IsWay(c) => IsWay(c)'
           /\ \A c : GoodChain(c) => GoodChain(c)'
  <1>1. UNCHANGED <<kind, signature, body>>
    BY DEF program
  <1>2. \A c : IsWay(c) => IsWay(c)'
    BY <1>1 DEF IsWay, Leads
  <1> QED
    BY <1>1, <1>2 DEF GoodChain

ActType == [what : {"instance", "body"}, inst : Instances,
            uses : Seq(Use), saved : Seq(Instances)]
Listed == [inst : Instances, chain : Seq(Instances)]

\* The index of the loop over the incomplete functions stays in reach of the list.
LEMMA AtFacts ==
    ASSUME TemplateInv
    PROVE  /\ incomplete_functions \in Seq(Listed)
           /\ Len(incomplete_functions) \in Nat
           /\ at \in Nat /\ 1 <= at /\ at <= Len(incomplete_functions) + 1
  <1>1. incomplete_functions \in Seq(Listed)
    BY DEF TemplateInv, TemplateTypeOK, Listed
  <1>2. Len(incomplete_functions) \in Nat
    BY <1>1, LenProperties
  <1>3. at \in 1..Len(incomplete_functions) + 1
    BY DEF TemplateInv, TemplateTypeOK
  <1> QED
    BY <1>1, <1>2, <1>3

\* What is known of the innermost activation.
LEMMA TopFacts ==
    ASSUME TemplateInv, phase = "resolve", acts # <<>>
    PROVE  /\ Len(acts) \in Nat \ {0}
           /\ Len(acts) \in 1..Len(acts)
           /\ Top = acts[Len(acts)]
           /\ Top \in ActType
           /\ Top.inst = Reached(chain)
           /\ ChainOf(Len(acts)) = chain
           /\ Top.inst \in Instances /\ Top.uses \in Seq(Use) /\ Top.saved \in Seq(Instances)
           /\ Top.inst[2] \in Nat /\ Top.inst[2] <= Len(chain) /\ Len(chain) \in Nat
           /\ \A u \in Elems(Top.uses) : Leads(Top.inst, Instance(u, Top.inst[2]))
  <1>1. acts \in Seq(ActType) /\ chain \in Seq(Instances)
    BY DEF TemplateInv, TemplateTypeOK, ActType
  <1>2. Len(acts) \in Nat \ {0} /\ Len(acts) \in 1..Len(acts) /\ Top \in ActType
    BY <1>1, EmptySeq, ElementOfSeq DEF Top
  <1>3. ChainOf(Len(acts)) = chain
    BY DEF ChainOf
  <1>4. Top.inst = Reached(chain)
    BY <1>2, <1>3 DEF TemplateInv, ResolvingOK, StackOK, Link, Top
  <1>5. Len(chain) \in Nat
    BY <1>1, LenProperties
  <1>6. Top.inst[2] \in Nat /\ Top.inst[2] <= Len(chain)
    <2>1. CASE chain = <<>>
      BY <1>4, <1>5, <2>1 DEF Reached
    <2>2. CASE chain # <<>>
      <3>1. Len(chain) \in 1..Len(chain) /\ Top.inst = chain[Len(chain)]
        BY <1>1, <1>4, <2>2, EmptySeq DEF Reached
      <3> QED
        BY <3>1 DEF TemplateInv, ChainsOK, GoodChain
    <2> QED
      BY <2>1, <2>2
  <1>7. ASSUME NEW u \in Elems(Top.uses)
        PROVE  Leads(Top.inst, Instance(u, Top.inst[2]))
    <2>1. CASE Len(acts) = 1
      <3>1. u \in Elems(body[Top.inst[1]])
        BY <1>2, <2>1 DEF TemplateInv, ResolvingOK, StackOK, Link, Top
      <3> QED
        BY <3>1 DEF Leads
    <2>2. CASE Len(acts) # 1
      <3>1. u \in Elems(signature[Top.inst[1]]) /\ Top.inst \in Templates \X Nat
        BY <1>2, <2>2 DEF TemplateInv, ResolvingOK, StackOK, Link, Top
      <3>2. Top.inst[1] # Main
        BY <3>1, MainAssumption
      <3> QED
        BY <3>1, <3>2 DEF Leads
    <2> QED
      BY <2>1, <2>2
  <1> QED
    BY <1>2, <1>3, <1>4, <1>5, <1>6, <1>7 DEF ActType, Top

\* The instance that is used next is led to from where the chain has led.
LEMMA NextUseFacts ==
    ASSUME TemplateInv, Using
    PROVE  /\ NextUse \in Templates \X Nat
           /\ NextUse \in Instances
           /\ NextUse[2] <= Len(chain) + 1
           /\ Leads(Reached(chain), NextUse)
  <1>1. /\ Head(Top.uses) \in Elems(Top.uses) /\ Head(Top.uses) \in Use
        /\ Top.inst[2] \in Nat /\ Top.inst[2] <= Len(chain) /\ Len(chain) \in Nat
        /\ Top.inst = Reached(chain)
        /\ Leads(Top.inst, NextUse)
    BY TopFacts, HeadTailElems DEF Using, NextUse
  <1>2. /\ NextUse \in Templates \X Nat
        /\ NextUse[2] <= Top.inst[2] + 1
    BY <1>1, InstanceFacts DEF NextUse
  <1> QED
    BY <1>1, <1>2 DEF Instances, Owners

\* One use less to look at, with all else as it was.
LEMMA AdvanceFacts ==
    ASSUME TemplateInv, Using
    PROVE  /\ Advance \in Seq(ActType)
           /\ Len(Advance) = Len(acts)
           /\ \A i \in 1..Len(acts) :
                /\ Advance[i].what = acts[i].what
                /\ Advance[i].inst = acts[i].inst
                /\ Advance[i].saved = acts[i].saved
                /\ Elems(Advance[i].uses) \subseteq Elems(acts[i].uses)
  <1> DEFINE n == Len(acts)
             t == [Top EXCEPT !.uses = Tail(@)]
  <1>1. acts \in Seq(ActType)
    BY DEF TemplateInv, TemplateTypeOK, ActType
  <1>2. n \in 1..n /\ Top = acts[n] /\ Top \in ActType /\ Top.uses \in Seq(Use)
    BY TopFacts DEF Using
  <1>3. Tail(Top.uses) \in Seq(Use) /\ Elems(Tail(Top.uses)) \subseteq Elems(Top.uses)
    BY <1>2, HeadTailElems DEF Using
  <1>4. /\ t \in ActType /\ t.what = Top.what /\ t.inst = Top.inst /\ t.saved = Top.saved
        /\ t.uses = Tail(Top.uses)
    BY <1>2, <1>3 DEF ActType
  <1>5. Advance = [acts EXCEPT ![n] = t]
    BY <1>2 DEF Advance
  <1> HIDE DEF t, n
  <1>6. /\ [acts EXCEPT ![n] = t] \in Seq(ActType)
        /\ Len([acts EXCEPT ![n] = t]) = Len(acts)
        /\ \A j \in 1..Len(acts) : [acts EXCEPT ![n] = t][j] = IF j = n THEN t ELSE acts[j]
    <2>1. n \in 1..Len(acts)
      BY <1>2 DEF n
    <2> QED
      BY <1>1, <1>4, <2>1, ExceptSeq
  <1> QED
    BY <1>2, <1>3, <1>4, <1>5, <1>6

-----------------------------------------------------------------------------
(* The steps. *)

\* What a step that leaves the program, the list and the loop's index alone,
\* and the cache as it is, keeps.
LEMMA InstancesKept ==
    ASSUME InstancesOnce, UNCHANGED <<program, cache, chain, incomplete_functions, at>>,
           phase' = phase
    PROVE  InstancesOnce'
  <1>1. kind' = kind
    BY DEF program
  <1> QED
    BY <1>1 DEF InstancesOnce, NoStructTwice, BodiesOnce, NoneIncomplete, ArgumentsAreBounded

\* An instance that is in the cache is used again.
LEMMA ReuseKeeps ==
    ASSUME TemplateInv, Reuse
    PROVE  TemplateInv'
  <1> DEFINE n == Len(acts)
  <1>1. /\ phase = "resolve" /\ acts # <<>> /\ Using
        /\ acts' = Advance
        /\ UNCHANGED <<program, phase, cache, chain, incomplete_functions, at>>
        /\ UNCHANGED <<kind, signature, body>>
    BY DEF Reuse, Using, program
  <1>2. /\ acts' \in Seq(ActType) /\ Len(acts') = n /\ acts' # <<>>
        /\ n \in Nat \ {0}
        /\ \A i \in 1..n :
             /\ acts'[i].what = acts[i].what
             /\ acts'[i].inst = acts[i].inst
             /\ acts'[i].saved = acts[i].saved
             /\ Elems(acts'[i].uses) \subseteq Elems(acts[i].uses)
    BY <1>1, AdvanceFacts, TopFacts, EmptySeq
  <1>3. \A c : (IsWay(c) => IsWay(c)') /\ (GoodChain(c) => GoodChain(c)')
    BY <1>1, GoodStays
  <1>4. \A i \in 1..n : ChainOf(i)' = ChainOf(i)
    BY <1>1, <1>2 DEF ChainOf
  <1>5. ProgramOK' /\ IsWay(chain)' /\ InstancesOnce'
    BY <1>1, <1>3, InstancesKept DEF TemplateInv, ProgramOK
  <1>6. TemplateTypeOK'
    BY <1>1, <1>2 DEF TemplateInv, TemplateTypeOK, ActType
  <1>7. ChainsOK'
    <2>1. (\A f \in Elems(incomplete_functions) : GoodChain(f.chain) /\ f.inst = Reached(f.chain))'
      BY <1>1, <1>3 DEF TemplateInv, ChainsOK, Reached
    <2>2. (\A i \in 1..Len(acts) : GoodChain(acts[i].saved))'
      BY <1>1, <1>2, <1>3 DEF TemplateInv, ChainsOK
    <2>3. GoodChain(chain)'
      BY <1>1, <1>3 DEF TemplateInv, ChainsOK
    <2> QED
      BY <2>1, <2>2, <2>3 DEF ChainsOK
  <1>8. StackOK'
    <2>1. ASSUME NEW i \in 1..n
          PROVE  Link(acts[i], i, ChainOf(i))'
      <3>1. Link(acts[i], i, ChainOf(i))
        BY <1>1 DEF TemplateInv, ResolvingOK, StackOK
      <3> QED
        BY <1>1, <1>2, <1>4, <3>1 DEF Link
    <2> QED
      BY <1>1, <1>2, <2>1 DEF StackOK, TemplateInv, ResolvingOK
  <1>9. ListOK' /\ StructsOK' /\ CacheOK'
    <2> USE DEF TemplateInv, ResolvingOK
    <2>1. ListOK'
      BY <1>1 DEF ListOK
    <2>2. \A i \in 2..n : i \in 1..n
      BY <1>2
    <2>3. StructsOK'
      BY <1>1, <1>2, <2>2 DEF StructsOK
    <2>4. CacheOK'
      BY <1>1, <1>2, <2>2 DEF CacheOK
    <2> QED
      BY <2>1, <2>3, <2>4
  <1> QED
    BY <1>5, <1>6, <1>7, <1>8, <1>9 DEF TemplateInv, ResolvingOK

\* A chain with one more link is a way, and good, if the one before was.
LEMMA LongerChain ==
    ASSUME TemplateInv, Using, NextUse \notin cache
    PROVE  LET c == Append(chain, NextUse) IN
           /\ c \in Seq(Instances)
           /\ Len(c) = Len(chain) + 1
           /\ Reached(c) = NextUse
           /\ IsWay(c)
           /\ \A i \in 1..Len(c) :
                /\ c[i] \in Templates \X Nat
                /\ c[i][2] <= i
                /\ kind[c[i][1]] = "struct" => c[i] \in cache \cup {NextUse}
           /\ \A i, j \in 1..Len(c) : i < j /\ c[i] = c[j] => kind[c[i][1]] = "function"
  <1> DEFINE c == Append(chain, NextUse)
             m == Len(chain)
  <1>1. /\ NextUse \in Templates \X Nat /\ NextUse \in Instances
        /\ NextUse[2] <= m + 1
        /\ Leads(Reached(chain), NextUse)
        /\ kind[NextUse[1]] \in {"function", "struct"}
    <2>1. NextUse \in Templates \X Nat
      BY NextUseFacts
    <2>2. NextUse[1] \in Templates
      BY <2>1
    <2>3. kind \in [Templates -> {"function", "struct"}]
      BY DEF TemplateInv, ProgramOK
    <2>4. kind[NextUse[1]] \in {"function", "struct"}
      BY <2>2, <2>3
    <2>5. NextUse \in Instances /\ NextUse[2] <= Len(chain) + 1 /\ Leads(Reached(chain), NextUse)
      BY NextUseFacts
    <2> QED
      BY <2>1, <2>4, <2>5
  <1>2. /\ c \in Seq(Instances) /\ m \in Nat /\ Len(c) = m + 1 /\ c # <<>>
        /\ \A i \in 1..m : c[i] = chain[i]
        /\ c[m + 1] = NextUse
    <2>1. chain \in Seq(Instances) /\ NextUse \in Instances
      BY <1>1 DEF TemplateInv, TemplateTypeOK
    <2> HIDE DEF NextUse, Instances
    <2>2. /\ c \in Seq(Instances) /\ c # <<>> /\ Len(c) = Len(chain) + 1
          /\ \A i \in 1..Len(chain) : c[i] = chain[i]
          /\ c[Len(chain) + 1] = NextUse
      BY <2>1, AppendProperties
    <2>3. Len(chain) \in Nat
      BY <2>1, LenProperties
    <2> QED
      BY <2>2, <2>3
  <1>3. chain = <<>> <=> m = 0
    BY EmptySeq DEF TemplateInv, TemplateTypeOK
  <1>4. GoodChain(chain)
    BY DEF TemplateInv, ChainsOK, Using
  <1> HIDE DEF c
  <1>5. IsWay(c)
    <2> SUFFICES ASSUME NEW i \in 1..m + 1
                 PROVE  Leads(IF i = 1 THEN <<Main, 0>> ELSE c[i - 1], c[i])
      BY <1>2 DEF IsWay
    <2>1. CASE i \in 1..m
      <3>1. i = 1 \/ i - 1 \in 1..m
        BY <1>2
      <3>2. Leads(IF i = 1 THEN <<Main, 0>> ELSE chain[i - 1], chain[i])
        BY <1>4, <2>1 DEF GoodChain, IsWay
      <3>3. c[i] = chain[i] /\ (i = 1 \/ c[i - 1] = chain[i - 1])
        BY <1>2, <2>1, <3>1
      <3> QED
        BY <3>2, <3>3
    <2>2. CASE i = m + 1 /\ m = 0
      BY <1>1, <1>2, <1>3, <2>2 DEF Reached
    <2>3. CASE i = m + 1 /\ m # 0
      <3>1. i # 1 /\ i - 1 = m /\ m \in 1..m
        BY <1>2, <2>3
      <3>2. c[i - 1] = chain[m] /\ c[i] = NextUse /\ Reached(chain) = chain[m]
        BY <1>2, <1>3, <2>3, <3>1 DEF Reached
      <3> QED
        BY <1>1, <3>1, <3>2
    <2> QED
      BY <1>2, <2>1, <2>2, <2>3
  <1>6. ASSUME NEW i \in 1..m + 1
        PROVE  /\ c[i] \in Templates \X Nat
               /\ c[i][2] <= i
               /\ kind[c[i][1]] = "struct" => c[i] \in cache \cup {NextUse}
    <2>1. CASE i \in 1..m
      BY <1>2, <1>4, <2>1 DEF GoodChain
    <2>2. CASE i = m + 1
      BY <1>1, <1>2, <2>2
    <2> QED
      BY <1>2, <2>1, <2>2
  <1>7. ASSUME NEW i \in 1..m + 1, NEW j \in 1..m + 1, i < j, c[i] = c[j]
        PROVE  kind[c[i][1]] = "function"
    <2>1. i \in 1..m /\ c[i] = chain[i]
      BY <1>2, <1>7
    <2>2. CASE j \in 1..m
      BY <1>2, <1>4, <1>7, <2>1, <2>2 DEF GoodChain
    <2>3. CASE j = m + 1
      <3>1. c[i] = NextUse
        BY <1>2, <1>7, <2>3
      <3>2. kind[c[i][1]] # "struct"
        BY <1>4, <2>1, <3>1 DEF GoodChain
      <3> QED
        BY <1>1, <3>1, <3>2
    <2> QED
      BY <1>2, <2>2, <2>3
  <1>8. Reached(c) = NextUse
    BY <1>2 DEF Reached
  <1> QED
    BY <1>2, <1>5, <1>6, <1>7, <1>8 DEF c

\* A program is refused for the length of a chain: the instance that the
\* chain has led to is not made.
LEMMA TooDeepKeeps ==
    ASSUME TemplateInv, Instantiate, Len(chain') > MaxDepth
    PROVE  TemplateInv'
  <1>1. /\ phase = "resolve" /\ acts # <<>> /\ Using /\ NextUse \notin cache
        /\ chain' = Append(chain, NextUse)
        /\ phase' = "too deep"
        /\ UNCHANGED <<program, cache, acts, incomplete_functions, at>>
        /\ UNCHANGED <<kind, signature, body>>
    BY DEF Instantiate, Using, program
  <1>2. /\ chain' \in Seq(Instances) /\ Len(chain') = Len(chain) + 1
        /\ IsWay(chain')
        /\ \A i, j \in 1..Len(chain') :
             i < j /\ chain'[i] = chain'[j] => kind[chain'[i][1]] = "function"
    BY <1>1, LongerChain
  <1>3. \A c : (IsWay(c) => IsWay(c)') /\ (GoodChain(c) => GoodChain(c)')
    BY <1>1, GoodStays
  <1>4. Len(chain) \in Nat /\ Len(chain) <= MaxDepth
    <2>1. Len(chain) \in Nat
      BY <1>1, TopFacts
    <2> QED
      BY <1>1, <2>1 DEF TemplateInv, TemplateTypeOK
  <1>5. ProgramOK'
    BY <1>1 DEF TemplateInv, ProgramOK
  <1>6. TemplateTypeOK'
    <2>1. Len(chain') <= MaxDepth + 1
      BY <1>2, <1>4, MaxDepthAssumption
    <2> QED
      BY <1>1, <1>2, <2>1 DEF TemplateInv, TemplateTypeOK
  <1>7. ChainsOK'
    BY <1>1, <1>3 DEF TemplateInv, ChainsOK, Reached
  <1>8. IsWay(chain)'
    BY <1>1, <1>2 DEF IsWay, Leads
  <1>9. InstancesOnce'
    BY <1>1, <1>2 DEF TemplateInv, InstancesOnce, NoStructTwice, BodiesOnce,
                      NoneIncomplete, ArgumentsAreBounded
  <1> QED
    BY <1>1, <1>5, <1>6, <1>7, <1>8, <1>9 DEF TemplateInv

\* A template is instantiated, with one more link in the chain.
LEMMA InstantiateKeeps ==
    ASSUME TemplateInv, Instantiate, ~(Len(chain') > MaxDepth)
    PROVE  TemplateInv'
  <1> DEFINE n == Len(acts)
             a == Activation("instance", NextUse, signature[NextUse[1]])
  <1>1. /\ phase = "resolve" /\ acts # <<>> /\ Using /\ NextUse \notin cache
        /\ chain' = Append(chain, NextUse)
        /\ cache' = cache \cup Cached(NextUse)
        /\ acts' = Append(Advance, a)
        /\ UNCHANGED <<program, phase, incomplete_functions, at>>
        /\ UNCHANGED <<kind, signature, body>>
    BY DEF Instantiate, Using, program
  <1>2. /\ chain' \in Seq(Instances) /\ Len(chain') = Len(chain) + 1
        /\ Reached(chain') = NextUse
        /\ IsWay(chain')
        /\ \A i \in 1..Len(chain') :
             /\ chain'[i] \in Templates \X Nat
             /\ chain'[i][2] <= i
             /\ kind[chain'[i][1]] = "struct" => chain'[i] \in cache \cup {NextUse}
        /\ \A i, j \in 1..Len(chain') :
             i < j /\ chain'[i] = chain'[j] => kind[chain'[i][1]] = "function"
    BY <1>1, LongerChain
  <1>3. /\ NextUse \in Templates \X Nat /\ NextUse \in Instances /\ NextUse[1] \in Templates
        /\ NextUse[2] <= Len(chain) + 1 /\ NextUse[2] \in Nat
    <2>1. NextUse \in Templates \X Nat
      BY <1>1, NextUseFacts
    <2> QED
      BY <1>1, <2>1, NextUseFacts
  <1>4. Len(chain) \in Nat /\ Len(chain') <= MaxDepth /\ NextUse[2] <= MaxDepth
    BY <1>1, <1>2, <1>3, TopFacts, MaxDepthAssumption
  <1>5. cache \subseteq cache' /\ cache' \subseteq cache \cup {NextUse}
        /\ (kind[NextUse[1]] = "struct" => NextUse \in cache')
        /\ (NextUse \in cache' => kind[NextUse[1]] = "struct")
    BY <1>1 DEF Cached
  <1>6. \A c : (IsWay(c) => IsWay(c)') /\ (GoodChain(c) => GoodChain(c)')
    BY <1>1, <1>5, GoodStays
  <1>7. ProgramOK'
    BY <1>1 DEF TemplateInv, ProgramOK
  <1>8. /\ a \in ActType /\ a.what = "instance" /\ a.inst = NextUse
        /\ a.uses = signature[NextUse[1]] /\ a.saved = chain
    <2>1. signature[NextUse[1]] \in Seq(Use) /\ chain \in Seq(Instances)
      BY <1>3 DEF TemplateInv, ProgramOK, TemplateTypeOK
    <2> QED
      BY <1>3, <2>1 DEF Activation, ActType
  <1>9. /\ n \in Nat \ {0}
        /\ acts' \in Seq(ActType) /\ Len(acts') = n + 1 /\ acts' # <<>>
        /\ acts'[n + 1] = a
        /\ \A i \in 1..n :
             /\ acts'[i].what = acts[i].what
             /\ acts'[i].inst = acts[i].inst
             /\ acts'[i].saved = acts[i].saved
             /\ Elems(acts'[i].uses) \subseteq Elems(acts[i].uses)
    <2> HIDE DEF a
    <2>1. /\ Advance \in Seq(ActType) /\ Len(Advance) = n
          /\ n \in Nat \ {0}
      BY <1>1, AdvanceFacts, TopFacts
    <2>2. /\ acts' \in Seq(ActType) /\ Len(acts') = n + 1 /\ acts' # <<>>
          /\ acts'[n + 1] = a
          /\ \A i \in 1..n : acts'[i] = Advance[i]
      BY <1>1, <1>8, <2>1, AppendProperties
    <2> QED
      BY <1>1, <2>1, <2>2, AdvanceFacts
  <1> HIDE DEF a
  <1>10. TemplateTypeOK'
    <2>1. cache' \subseteq Instances
      BY <1>3, <1>5 DEF TemplateInv, TemplateTypeOK
    <2> QED
      BY <1>1, <1>2, <1>4, <1>9, <2>1 DEF TemplateInv, TemplateTypeOK, ActType
  <1>11. IsWay(chain)' /\ GoodChain(chain)'
    <2>1. IsWay(chain)'
      BY <1>1, <1>2 DEF IsWay, Leads
    <2> QED
      BY <1>1, <1>2, <1>4, <1>5, <2>1 DEF GoodChain
  <1>12. ChainsOK'
    <2>1. ASSUME NEW i \in 1..n + 1
          PROVE  GoodChain(acts[i].saved)'
      <3>1. CASE i \in 1..n
        <4>1. GoodChain(acts[i].saved)
          BY <3>1 DEF TemplateInv, ChainsOK
        <4> QED
          BY <1>6, <1>9, <3>1, <4>1
      <3>2. CASE i = n + 1
        <4>1. GoodChain(chain)
          BY <1>1 DEF TemplateInv, ChainsOK
        <4> QED
          BY <1>6, <1>8, <1>9, <3>2, <4>1
      <3> QED
        BY <1>9, <3>1, <3>2
    <2>2. (\A f \in Elems(incomplete_functions) : GoodChain(f.chain) /\ f.inst = Reached(f.chain))'
      BY <1>1, <1>6 DEF TemplateInv, ChainsOK, Reached
    <2> QED
      BY <1>9, <1>11, <2>1, <2>2 DEF ChainsOK
  <1>13. StackOK'
    <2>1. ASSUME NEW i \in 1..n + 1
          PROVE  Link(acts[i], i, ChainOf(i))'
      <3>1. CASE i \in 1..n
        <4>1. Link(acts[i], i, ChainOf(i))
          BY <1>1, <3>1 DEF TemplateInv, ResolvingOK, StackOK
        <4>2. ChainOf(i)' = ChainOf(i)
          <5>1. CASE i = n
            BY <1>8, <1>9, <5>1 DEF ChainOf
          <5>2. CASE i # n
            <6>1. i + 1 \in 1..n /\ i # n + 1
              BY <1>9, <3>1, <5>2
            <6> QED
              BY <1>9, <5>2, <6>1 DEF ChainOf
          <5> QED
            BY <5>1, <5>2
        <4> QED
          BY <1>1, <1>9, <3>1, <4>1, <4>2 DEF Link
      <3>2. CASE i = n + 1
        <4>1. ChainOf(i)' = chain' /\ acts'[i] = a /\ i # 1
          BY <1>9, <3>2 DEF ChainOf
        <4> QED
          BY <1>1, <1>2, <1>3, <1>8, <4>1 DEF Link
      <3> QED
        BY <1>9, <3>1, <3>2
    <2>2. at' <= Len(incomplete_functions')
      BY <1>1 DEF TemplateInv, ResolvingOK, StackOK
    <2> QED
      BY <1>9, <2>1, <2>2 DEF StackOK
  <1>14. NextUse # <<Main, 0>> /\ \A f \in Elems(incomplete_functions) : f.inst # NextUse
    <2>1. NextUse # <<Main, 0>>
      BY <1>3, MainAssumption
    <2> QED
      BY <1>1, <2>1 DEF TemplateInv, ResolvingOK, ListOK
  <1>15. \A i \in 2..n : i \in 1..n /\ (acts[i].inst = NextUse => kind[NextUse[1]] # "struct")
    <2> SUFFICES ASSUME NEW i \in 2..n
                 PROVE  i \in 1..n /\ (acts[i].inst = NextUse => kind[NextUse[1]] # "struct")
      OBVIOUS
    <2>1. i \in 1..n
      BY <1>9
    <2> QED
      BY <1>1, <2>1 DEF TemplateInv, ResolvingOK, StructsOK
  <1>16. ListOK' /\ StructsOK' /\ CacheOK'
    <2>1. ListOK'
      BY <1>1, <1>5 DEF TemplateInv, ResolvingOK, ListOK
    <2>2. 2..n + 1 = 2..n \cup {n + 1} /\ \A i \in 2..n : i # n + 1
      BY <1>9
    <2>3. acts'[n + 1].inst = NextUse /\ \A i \in 2..n : acts'[i].inst = acts[i].inst
      BY <1>8, <1>9, <1>15
    <2>4. StructsOK
      BY <1>1 DEF TemplateInv, ResolvingOK
    <2>5. StructsOK'
      <3> SUFFICES ASSUME NEW i \in 2..n + 1, kind[acts'[i].inst[1]] = "struct"
                   PROVE  /\ acts'[i].inst \in cache'
                          /\ \A f \in Elems(incomplete_functions) : f.inst # acts'[i].inst
                          /\ \A j \in 2..n + 1 : acts'[j].inst = acts'[i].inst => i = j
        BY <1>1, <1>9 DEF StructsOK
      <3>1. CASE i \in 2..n
        BY <1>5, <1>15, <2>2, <2>3, <2>4, <3>1 DEF StructsOK
      <3>2. CASE i = n + 1
        BY <1>5, <1>14, <1>15, <2>2, <2>3, <3>2
      <3> QED
        BY <2>2, <3>1, <3>2
    <2>6. CacheOK'
      <3>1. cache' \subseteq Templates \X Nat
        BY <1>1, <1>3, <1>5 DEF TemplateInv, ResolvingOK, CacheOK
      <3>2. ASSUME NEW inst \in cache'
            PROVE  \/ \E f \in Elems(incomplete_functions) : f.inst = inst
                   \/ \E i \in 2..n + 1 : acts'[i].inst = inst
        <4>1. CASE inst \in cache
          BY <1>1, <2>2, <2>3, <4>1 DEF TemplateInv, ResolvingOK, CacheOK
        <4>2. CASE inst = NextUse
          <5>1. n + 1 \in 2..n + 1
            BY <1>9
          <5> QED
            BY <2>3, <4>2, <5>1
        <4> QED
          BY <1>5, <4>1, <4>2
      <3> QED
        BY <1>1, <1>9, <3>1, <3>2 DEF CacheOK
    <2> QED
      BY <2>1, <2>5, <2>6
  <1>17. InstancesOnce'
    <2>1. NoStructTwice' /\ BodiesOnce' /\ NoneIncomplete'
      BY <1>1, <1>2 DEF TemplateInv, InstancesOnce, NoStructTwice, BodiesOnce, NoneIncomplete
    <2>2. ArgumentsAreBounded'
      BY <1>1, <1>4, <1>5 DEF TemplateInv, InstancesOnce, ArgumentsAreBounded
    <2> QED
      BY <2>1, <2>2 DEF InstancesOnce
  <1> QED
    BY <1>7, <1>10, <1>11, <1>12, <1>13, <1>16, <1>17 DEF TemplateInv, ResolvingOK

\* The activation that ends, and what is below it.
LEMMA EndFacts ==
    ASSUME TemplateInv, Resolving("instance")
    PROVE  /\ Len(acts) \in Nat /\ Len(acts) \in 2..Len(acts)
           /\ Top = acts[Len(acts)]
           /\ Top.inst \in Templates \X Nat /\ Top.inst \in Instances
           /\ Top.inst[2] <= MaxDepth
           /\ Top.saved = ChainOf(Len(acts) - 1)
           /\ Front(acts) \in Seq(ActType)
           /\ Len(Front(acts)) = Len(acts) - 1
           /\ \A i \in 1..Len(acts) - 1 : Front(acts)[i] = acts[i]
  <1> DEFINE n == Len(acts)
  <1>1. /\ phase = "resolve" /\ acts # <<>> /\ Top.what = "instance"
        /\ acts \in Seq(ActType)
    BY DEF Resolving, TemplateInv, TemplateTypeOK, ActType
  <1>2. n \in Nat \ {0} /\ n \in 1..n /\ Top = acts[n]
    BY <1>1, TopFacts
  <1>3. Link(Top, n, ChainOf(n))
    BY <1>1, <1>2 DEF TemplateInv, ResolvingOK, StackOK
  <1>4. n # 1 /\ n \in 2..n
    <2>1. n # 1
      BY <1>1, <1>3 DEF Link
    <2>2. n \in Nat \ {0}
      BY <1>2
    <2> HIDE DEF n
    <2> QED
      BY <2>1, <2>2
  <1>5. Top.inst \in Templates \X Nat
    BY <1>3, <1>4 DEF Link
  <1>6. Top.inst[2] <= MaxDepth
    <2>1. Top.inst[2] \in Nat /\ Top.inst[2] <= Len(chain) /\ Len(chain) \in Nat
      BY <1>1, TopFacts
    <2>2. Len(chain) <= MaxDepth
      BY <1>1 DEF TemplateInv, TemplateTypeOK
    <2> QED
      BY <2>1, <2>2, MaxDepthAssumption
  <1>7. Top.saved = ChainOf(n - 1)
    <2>1. n - 1 # n /\ n - 1 + 1 = n
      BY <1>2
    <2> QED
      BY <1>2, <2>1 DEF ChainOf
  <1>8. /\ Front(acts) \in Seq(ActType)
        /\ Len(Front(acts)) = n - 1
        /\ \A i \in 1..n - 1 : Front(acts)[i] = acts[i]
    BY <1>1, FrontFacts
  <1> QED
    BY <1>1, <1>2, <1>4, <1>5, <1>6, <1>7, <1>8, TopFacts

\* The bodies of the instance are put on the list.
LEMMA ListGrows ==
    ASSUME TemplateInv, Finish
    PROVE  /\ incomplete_functions' \in Seq(Listed)
           /\ Len(incomplete_functions) \in Nat
           /\ Len(incomplete_functions') = Len(incomplete_functions) + 1
           /\ \A i \in 1..Len(incomplete_functions) :
                incomplete_functions'[i] = incomplete_functions[i]
           /\ incomplete_functions'[Len(incomplete_functions) + 1].inst = Top.inst
           /\ Elems(incomplete_functions') =
                Elems(incomplete_functions) \cup {[inst |-> Top.inst, chain |-> chain]}
           /\ Top.inst = Reached(chain)
           /\ GoodChain(chain)
           /\ at <= Len(incomplete_functions) /\ at \in Nat
  <1> DEFINE f == [inst |-> Top.inst, chain |-> chain]
  <1>1. /\ phase = "resolve" /\ acts # <<>> /\ Resolving("instance")
        /\ incomplete_functions' = Append(incomplete_functions, f)
    BY DEF Finish, Resolving
  <1>2. incomplete_functions \in Seq(Listed) /\ chain \in Seq(Instances)
    BY DEF TemplateInv, TemplateTypeOK, Listed
  <1>3. f \in Listed /\ f.inst = Top.inst
    BY <1>1, <1>2, EndFacts DEF Listed
  <1>4. Top.inst = Reached(chain)
    BY <1>1, TopFacts
  <1>5. GoodChain(chain) /\ at <= Len(incomplete_functions) /\ at \in Nat
    BY <1>1 DEF TemplateInv, ChainsOK, ResolvingOK, StackOK, TemplateTypeOK
  <1> HIDE DEF f
  <1>6. /\ Append(incomplete_functions, f) \in Seq(Listed)
        /\ Len(incomplete_functions) \in Nat
        /\ Len(Append(incomplete_functions, f)) = Len(incomplete_functions) + 1
        /\ \A i \in 1..Len(incomplete_functions) :
             Append(incomplete_functions, f)[i] = incomplete_functions[i]
        /\ Append(incomplete_functions, f)[Len(incomplete_functions) + 1] = f
        /\ Elems(Append(incomplete_functions, f)) = Elems(incomplete_functions) \cup {f}
    BY <1>2, <1>3, AppendProperties, LenProperties, ElemsOfAppend
  <1> QED
    BY <1>1, <1>3, <1>4, <1>5, <1>6 DEF f

\* The list with one more entry is in order, as far as the loop has come.
LEMMA LongerList ==
    ASSUME TemplateInv, Finish, UNCHANGED program, cache \subseteq cache', at' = at,
           cache' \subseteq cache \cup {Top.inst},
           chain' = chain \/ chain' = Top.saved
    PROVE  /\ \A f \in Elems(incomplete_functions') : GoodChain(f.chain)' /\ f.inst = Reached(f.chain)
           /\ NoStructTwice' /\ BodiesOnce' /\ ArgumentsAreBounded'
           /\ \A c : GoodChain(c) => GoodChain(c)'
           /\ GoodChain(chain)'
  <1> DEFINE m == Len(incomplete_functions)
  <1>1. \A c : GoodChain(c) => GoodChain(c)'
    BY GoodStays
  <1>2. /\ phase = "resolve" /\ acts # <<>> /\ Resolving("instance")
        /\ kind' = kind
    BY DEF Finish, Resolving, program
  <1>3. \A f \in Elems(incomplete_functions) : GoodChain(f.chain) /\ f.inst = Reached(f.chain)
    BY DEF TemplateInv, ChainsOK
  <1>4. \A f \in Elems(incomplete_functions') : GoodChain(f.chain) /\ f.inst = Reached(f.chain)
    BY <1>3, ListGrows
  <1>5. \A i \in 1..Len(acts) : GoodChain(acts[i].saved)
    BY DEF TemplateInv, ChainsOK
  <1>6. GoodChain(chain)'
    <2>1. GoodChain(chain) /\ GoodChain(Top.saved)
      BY <1>2, <1>5, ListGrows, TopFacts
    <2> QED
      BY <1>1, <2>1
  <1>7. NoStructTwice'
    BY <1>6 DEF GoodChain, NoStructTwice
  <1>8. BodiesOnce'
    <2> SUFFICES ASSUME NEW i \in 1..m + 1, NEW j \in 1..m + 1, i < j, j <= at
                 PROVE  incomplete_functions'[i].inst # incomplete_functions'[j].inst
      BY ListGrows DEF BodiesOnce
    <2>1. i \in 1..m /\ j \in 1..m
      BY ListGrows
    <2>2. incomplete_functions[i].inst # incomplete_functions[j].inst
      BY <1>2, <2>1 DEF TemplateInv, ResolvingOK, ListOK
    <2> QED
      BY <2>1, <2>2, ListGrows
  <1>9. ArgumentsAreBounded'
    <2> SUFFICES ASSUME NEW inst \in cache \cup {f.inst : f \in Elems(incomplete_functions)} \cup {Top.inst}
                 PROVE  inst[2] <= MaxDepth
      <3>1. {f.inst : f \in Elems(incomplete_functions')} \subseteq
                {f.inst : f \in Elems(incomplete_functions)} \cup {Top.inst}
        BY ListGrows
      <3> QED
        BY <3>1 DEF ArgumentsAreBounded
    <2>1. Top.inst[2] <= MaxDepth
      BY <1>2, EndFacts
    <2> QED
      BY <2>1 DEF TemplateInv, InstancesOnce, ArgumentsAreBounded
  <1>10. \A f \in Elems(incomplete_functions') : GoodChain(f.chain)' /\ f.inst = Reached(f.chain)
    BY <1>1, <1>4
  <1> QED
    BY <1>1, <1>6, <1>7, <1>8, <1>9, <1>10

\* A function whose signature has made it already is refused.
LEMMA RedeclaredKeeps ==
    ASSUME TemplateInv, Finish, kind[Top.inst[1]] = "function" /\ Top.inst \in cache
    PROVE  TemplateInv'
  <1>1. /\ phase = "resolve" /\ acts # <<>> /\ Resolving("instance")
        /\ phase' = "redeclared"
        /\ UNCHANGED <<program, cache, chain, acts, at>>
        /\ UNCHANGED <<kind, signature, body>>
    BY DEF Finish, Resolving, program
  <1>2. /\ \A f \in Elems(incomplete_functions') : GoodChain(f.chain)' /\ f.inst = Reached(f.chain)
        /\ NoStructTwice' /\ BodiesOnce' /\ ArgumentsAreBounded'
        /\ \A c : GoodChain(c) => GoodChain(c)'
        /\ GoodChain(chain)'
    BY <1>1, LongerList
  <1>3. ProgramOK'
    BY <1>1 DEF TemplateInv, ProgramOK
  <1>4. TemplateTypeOK'
    BY <1>1, ListGrows, SMTT(30) DEF TemplateInv, TemplateTypeOK, Listed
  <1>5. ChainsOK'
    <2>1. \A i \in 1..Len(acts) : GoodChain(acts[i].saved)
      BY DEF TemplateInv, ChainsOK
    <2>2. (\A i \in 1..Len(acts) : GoodChain(acts[i].saved))'
      BY <1>1, <1>2, <2>1
    <2> QED
      BY <1>2, <2>2 DEF ChainsOK, Reached
  <1>6. IsWay(chain)' /\ NoneIncomplete'
    BY <1>1, <1>2 DEF GoodChain, NoneIncomplete
  <1> QED
    BY <1>1, <1>2, <1>3, <1>4, <1>5, <1>6 DEF TemplateInv, InstancesOnce

\* An instance is listed and can be found, and the chain is restored.
LEMMA FinishKeeps ==
    ASSUME TemplateInv, Finish, ~(kind[Top.inst[1]] = "function" /\ Top.inst \in cache)
    PROVE  TemplateInv'
  <1> DEFINE n == Len(acts)
             m == Len(incomplete_functions)
  <1>1. /\ phase = "resolve" /\ acts # <<>> /\ Resolving("instance")
        /\ cache' = cache \cup {Top.inst}
        /\ chain' = Top.saved
        /\ acts' = Front(acts)
        /\ UNCHANGED <<program, phase, at>>
        /\ UNCHANGED <<kind, signature, body>>
    BY DEF Finish, Resolving, program
  <1>2. /\ \A f \in Elems(incomplete_functions') : GoodChain(f.chain)' /\ f.inst = Reached(f.chain)
        /\ NoStructTwice' /\ BodiesOnce' /\ ArgumentsAreBounded'
        /\ \A c : GoodChain(c) => GoodChain(c)'
        /\ GoodChain(chain)'
    BY <1>1, LongerList
  <1>3. ProgramOK'
    BY <1>1 DEF TemplateInv, ProgramOK
  <1>4. /\ n \in Nat /\ n \in 2..n /\ n \in 1..n
        /\ Top = acts[n] /\ Top \in ActType
        /\ Top.inst \in Templates \X Nat /\ Top.inst \in Instances
        /\ Top.saved = ChainOf(n - 1) /\ Top.saved \in Seq(Instances)
        /\ acts' \in Seq(ActType) /\ Len(acts') = n - 1
        /\ \A i \in 1..n - 1 : acts'[i] = acts[i]
    BY <1>1, EndFacts, TopFacts
  <1>5. /\ m \in Nat /\ at \in Nat /\ at <= m
        /\ incomplete_functions' \in Seq(Listed) /\ Len(incomplete_functions') = m + 1
        /\ \A i \in 1..m : incomplete_functions'[i] = incomplete_functions[i]
        /\ incomplete_functions'[m + 1].inst = Top.inst
    BY <1>1, ListGrows
  <1>6. Elems(incomplete_functions') =
            Elems(incomplete_functions) \cup {[inst |-> Top.inst, chain |-> chain]}
    BY <1>1, ListGrows
  <1>7. /\ \A f \in Elems(incomplete_functions') :
             f \in Elems(incomplete_functions) \/ f.inst = Top.inst
        /\ Elems(incomplete_functions) \subseteq Elems(incomplete_functions')
        /\ \E f \in Elems(incomplete_functions') : f.inst = Top.inst
    <2> DEFINE g == [inst |-> Top.inst, chain |-> chain]
    <2>1. g.inst = Top.inst
      OBVIOUS
    <2> HIDE DEF g
    <2>2. Elems(incomplete_functions') = Elems(incomplete_functions) \cup {g}
      BY <1>6 DEF g
    <2> QED
      BY <2>1, <2>2
  <1>8. TemplateTypeOK'
    <2>1. Len(chain') <= MaxDepth
      BY <1>2 DEF GoodChain
    <2>2. at \in 1..m + 2
      BY <1>5, AtFacts
    <2> QED
      BY <1>1, <1>4, <1>5, <2>1, <2>2 DEF TemplateInv, TemplateTypeOK, ActType, Listed
  <1>9. ChainsOK'
    <2>1. \A i \in 1..n : GoodChain(acts[i].saved)
      BY DEF TemplateInv, ChainsOK
    <2>2. (\A i \in 1..Len(acts) : GoodChain(acts[i].saved))'
      BY <1>2, <1>4, <2>1
    <2> QED
      BY <1>2, <2>2 DEF ChainsOK, Reached
  <1>10. StackOK'
    <2>1. ASSUME NEW i \in 1..n - 1
          PROVE  Link(acts[i], i, ChainOf(i))'
      <3>1. Link(acts[i], i, ChainOf(i)) /\ i \in 1..n
        BY <1>1, <1>4 DEF TemplateInv, ResolvingOK, StackOK
      <3>2. ChainOf(i)' = ChainOf(i)
        <4>1. CASE i = n - 1
          BY <1>1, <1>4, <4>1 DEF ChainOf
        <4>2. CASE i # n - 1
          <5>1. i + 1 \in 1..n - 1 /\ i # n
            BY <1>4, <4>2
          <5> QED
            BY <1>4, <4>2, <5>1 DEF ChainOf
        <4> QED
          BY <4>1, <4>2
      <3> QED
        BY <1>1, <1>4, <3>1, <3>2 DEF Link
    <2>2. acts' # <<>> /\ at' <= Len(incomplete_functions')
      BY <1>1, <1>4, <1>5
    <2> QED
      BY <1>4, <2>1, <2>2 DEF StackOK
  <1>11. StructsOK /\ ListOK /\ CacheOK
    BY <1>1 DEF TemplateInv, ResolvingOK
  <1>12. \A f \in Elems(incomplete_functions) : f.inst # Top.inst
    <2>1. CASE kind[Top.inst[1]] = "struct"
      BY <1>4, <1>11, <2>1 DEF StructsOK
    <2>2. CASE kind[Top.inst[1]] = "function"
      <3>1. Top.inst \notin cache /\ Top.inst # <<Main, 0>>
        BY <1>4, <2>2, MainAssumption
      <3> QED
        BY <1>11, <3>1 DEF ListOK
    <2> QED
      BY <1>4, <2>1, <2>2 DEF TemplateInv, ProgramOK
  <1>13. ListOK'
    <2>1. ASSUME NEW i \in 1..m + 1, NEW j \in 1..m + 1, i < j
          PROVE  incomplete_functions'[i].inst # incomplete_functions'[j].inst
      <3>1. i \in 1..m /\ (j \in 1..m \/ j = m + 1)
        BY <1>5, <2>1
      <3>2. CASE j \in 1..m
        BY <1>5, <1>11, <2>1, <3>1, <3>2 DEF ListOK
      <3>3. CASE j = m + 1
        BY <1>5, <1>12, <3>1, <3>3 DEF Elems
      <3> QED
        BY <3>1, <3>2, <3>3
    <2>2. \A f \in Elems(incomplete_functions') : f.inst \in cache' \cup {<<Main, 0>>}
      BY <1>1, <1>7, <1>11 DEF ListOK
    <2> QED
      BY <1>5, <2>1, <2>2 DEF ListOK
  <1>14. /\ \A i \in 2..n - 1 : i \in 2..n /\ i # n /\ acts'[i] = acts[i]
         /\ \A i \in 2..n : i # n => i \in 2..n - 1
    BY <1>4, SMTT(30)
  <1>15. StructsOK'
    <2> SUFFICES ASSUME NEW i \in 2..n - 1, kind[acts[i].inst[1]] = "struct"
                 PROVE  /\ acts[i].inst \in cache'
                        /\ \A f \in Elems(incomplete_functions') : f.inst # acts[i].inst
                        /\ \A j \in 2..n - 1 : acts[j].inst = acts[i].inst => i = j
      <3>1. /\ Len(acts') = n - 1 /\ kind' = kind
            /\ \A i \in 2..n - 1 : acts'[i] = acts[i]
        BY <1>1, <1>4, <1>14
      <3> QED
        BY <3>1 DEF StructsOK
    <2>1. /\ acts[i].inst \in cache
          /\ \A f \in Elems(incomplete_functions) : f.inst # acts[i].inst
          /\ \A j \in 2..n : acts[j].inst = acts[i].inst => i = j
      BY <1>11, <1>14 DEF StructsOK
    <2>2. Top.inst # acts[i].inst
      BY <1>4, <1>14, <2>1
    <2> QED
      BY <1>1, <1>7, <1>14, <2>1, <2>2
  <1>16. CacheOK'
    <2>1. cache' \subseteq Templates \X Nat
      BY <1>1, <1>4, <1>11 DEF CacheOK
    <2>2. ASSUME NEW inst \in cache'
          PROVE  \/ \E f \in Elems(incomplete_functions') : f.inst = inst
                 \/ \E i \in 2..n - 1 : acts'[i].inst = inst
      <3>1. CASE inst = Top.inst
        BY <1>7, <3>1
      <3>2. CASE inst # Top.inst
        <4>1. \/ \E f \in Elems(incomplete_functions) : f.inst = inst
              \/ \E i \in 2..n : acts[i].inst = inst
          BY <1>1, <1>11, <3>2 DEF CacheOK
        <4> QED
          BY <1>4, <1>7, <1>14, <3>2, <4>1
      <3> QED
        BY <3>1, <3>2
    <2> QED
      BY <1>4, <2>1, <2>2 DEF CacheOK
  <1>17. IsWay(chain)' /\ NoneIncomplete'
    BY <1>1, <1>2 DEF GoodChain, NoneIncomplete
  <1> QED
    BY <1>2, <1>3, <1>8, <1>9, <1>10, <1>13, <1>15, <1>16, <1>17
       DEF TemplateInv, ResolvingOK, InstancesOnce

\* Between two bodies there is no activation, so everything in the cache is on
\* the list.
LEMMA CompleteFunctionKeeps ==
    ASSUME TemplateInv, CompleteFunction
    PROVE  TemplateInv'
  <1> DEFINE f == incomplete_functions[at]
             b == Activation("body", f.inst, body[f.inst[1]])
  <1>1. /\ phase = "resolve" /\ acts = <<>> /\ at <= Len(incomplete_functions)
        /\ chain' = f.chain
        /\ acts' = <<b>>
        /\ UNCHANGED <<program, phase, cache, incomplete_functions, at>>
        /\ UNCHANGED <<kind, signature, body>>
    BY DEF CompleteFunction, program
  <1>2. chain = <<>>
    BY <1>1 DEF TemplateInv, ResolvingOK, StackOK
  <1>3. at \in 1..Len(incomplete_functions) /\ incomplete_functions \in Seq(Listed)
    BY <1>1, AtFacts
  <1>4. f \in Listed /\ f \in Elems(incomplete_functions)
    BY <1>3, ElementOfSeq DEF Elems
  <1> HIDE DEF f
  <1>5. /\ f.inst \in Instances /\ f.chain \in Seq(Instances)
        /\ GoodChain(f.chain) /\ f.inst = Reached(f.chain)
    BY <1>4 DEF TemplateInv, ChainsOK, Listed
  <1>6. /\ b \in ActType /\ b.what = "body" /\ b.inst = f.inst /\ b.saved = <<>>
        /\ b.uses = body[f.inst[1]]
    <2>1. f.inst[1] \in Owners
      BY <1>5 DEF Instances
    <2>2. body[f.inst[1]] \in Seq(Use)
      BY <2>1 DEF TemplateInv, ProgramOK
    <2>3. <<>> \in Seq(Instances)
      BY EmptySeq
    <2> QED
      BY <1>2, <1>5, <2>2, <2>3 DEF Activation, ActType
  <1> HIDE DEF b
  <1>7. /\ acts' \in Seq(ActType) /\ Len(acts') = 1 /\ acts' # <<>> /\ acts'[1] = b
        /\ Len(acts) = 0
    BY <1>1, <1>6
  <1>8. \A c : (IsWay(c) => IsWay(c)') /\ (GoodChain(c) => GoodChain(c)')
    BY <1>1, GoodStays
  <1>9. GoodChain(chain)' /\ IsWay(chain)'
    BY <1>1, <1>5, <1>8 DEF GoodChain
  <1>10. ProgramOK'
    BY <1>1 DEF TemplateInv, ProgramOK
  <1>11. TemplateTypeOK'
    <2>1. Len(chain') <= MaxDepth
      BY <1>9 DEF GoodChain
    <2> QED
      BY <1>1, <1>5, <1>7, <2>1 DEF TemplateInv, TemplateTypeOK, ActType
  <1>12. ChainsOK'
    <2>1. GoodChain(<<>>)'
      BY <1>2, <1>1, <1>8 DEF TemplateInv, ChainsOK
    <2>2. (\A i \in 1..Len(acts) : GoodChain(acts[i].saved))'
      BY <1>6, <1>7, <2>1
    <2>3. (\A g \in Elems(incomplete_functions) : GoodChain(g.chain) /\ g.inst = Reached(g.chain))'
      BY <1>1, <1>8 DEF TemplateInv, ChainsOK, Reached
    <2> QED
      BY <1>9, <2>2, <2>3 DEF ChainsOK
  <1>13. StackOK'
    <2>1. ChainOf(1)' = chain'
      BY <1>7 DEF ChainOf
    <2>2. Link(acts[1], 1, ChainOf(1))'
      BY <1>1, <1>5, <1>6, <1>7, <2>1 DEF Link, Reached
    <2> QED
      BY <1>1, <1>7, <2>2 DEF StackOK
  <1>14. ListOK' /\ StructsOK' /\ CacheOK'
    <2>1. ListOK /\ CacheOK
      BY <1>1 DEF TemplateInv, ResolvingOK
    <2> QED
      BY <1>1, <1>7, <2>1 DEF ListOK, StructsOK, CacheOK
  <1>15. InstancesOnce'
    <2>1. NoStructTwice'
      BY <1>9 DEF GoodChain, NoStructTwice
    <2> QED
      BY <1>1, <2>1 DEF TemplateInv, InstancesOnce, BodiesOnce, NoneIncomplete,
                        ArgumentsAreBounded
  <1> QED
    BY <1>9, <1>10, <1>11, <1>12, <1>13, <1>14, <1>15 DEF TemplateInv, ResolvingOK

\* A body is resolved, and the chain with which it was listed ends.
LEMMA CompletedKeeps ==
    ASSUME TemplateInv, Completed
    PROVE  TemplateInv'
  <1> DEFINE m == Len(incomplete_functions)
  <1>1. /\ phase = "resolve" /\ acts # <<>> /\ Top.what = "body"
        /\ chain' = Top.saved /\ acts' = <<>> /\ at' = at + 1
        /\ UNCHANGED <<program, phase, cache, incomplete_functions>>
        /\ UNCHANGED <<kind, signature, body>>
    BY DEF Completed, Resolving, program
  <1>2. Len(acts) \in Nat \ {0} /\ Len(acts) \in 1..Len(acts) /\ Top = acts[Len(acts)]
    BY <1>1, TopFacts
  <1>3. Link(Top, Len(acts), ChainOf(Len(acts)))
    BY <1>1, <1>2 DEF TemplateInv, ResolvingOK, StackOK
  <1>4. Len(acts) = 1 /\ Top.saved = <<>>
    BY <1>1, <1>3 DEF Link
  <1>5. m \in Nat /\ at \in Nat /\ at >= 1 /\ at <= m
    <2>1. at <= m
      BY <1>1 DEF TemplateInv, ResolvingOK, StackOK
    <2> QED
      BY <2>1, AtFacts
  <1>6. chain' = <<>> /\ Len(chain') = 0 /\ chain' \in Seq(Instances)
        /\ acts' \in Seq(ActType) /\ Len(acts') = 0
    BY <1>1, <1>4, EmptySeq
  <1>7. \A c : (IsWay(c) => IsWay(c)') /\ (GoodChain(c) => GoodChain(c)')
    BY <1>1, GoodStays
  <1>8. GoodChain(chain)' /\ IsWay(chain)'
    BY <1>1, <1>2, <1>4, <1>7 DEF TemplateInv, ChainsOK, GoodChain
  <1>9. ProgramOK'
    BY <1>1 DEF TemplateInv, ProgramOK
  <1>10. TemplateTypeOK'
    BY <1>1, <1>5, <1>6, MaxDepthAssumption DEF TemplateInv, TemplateTypeOK, ActType
  <1>11. ChainsOK'
    <2>1. (\A f \in Elems(incomplete_functions) : GoodChain(f.chain) /\ f.inst = Reached(f.chain))'
      BY <1>1, <1>7 DEF TemplateInv, ChainsOK, Reached
    <2>2. (\A i \in 1..Len(acts) : GoodChain(acts[i].saved))'
      BY <1>6
    <2> QED
      BY <1>8, <2>1, <2>2 DEF ChainsOK
  <1>12. ListOK /\ CacheOK
    BY <1>1 DEF TemplateInv, ResolvingOK
  <1>13. StackOK' /\ ListOK' /\ StructsOK'
    BY <1>1, <1>6, <1>12 DEF StackOK, ListOK, StructsOK
  <1>14. CacheOK'
    BY <1>1, <1>4, <1>6, <1>12 DEF CacheOK
  <1>15. InstancesOnce'
    <2>1. NoStructTwice'
      BY <1>8 DEF GoodChain, NoStructTwice
    <2>2. BodiesOnce'
      BY <1>1, <1>12 DEF ListOK, BodiesOnce
    <2> QED
      BY <1>1, <2>1, <2>2 DEF TemplateInv, InstancesOnce, NoneIncomplete, ArgumentsAreBounded
  <1> QED
    BY <1>8, <1>9, <1>10, <1>11, <1>13, <1>14, <1>15 DEF TemplateInv, ResolvingOK

\* Nothing is being instantiated when the loop ends, and the list is done: so
\* everything in the cache has a body.
LEMMA ResolvedKeeps ==
    ASSUME TemplateInv, Resolved
    PROVE  TemplateInv'
  <1> DEFINE m == Len(incomplete_functions)
  <1>1. /\ phase = "resolve" /\ acts = <<>> /\ at > m /\ phase' = "resolved"
        /\ UNCHANGED <<program, cache, chain, acts, incomplete_functions, at>>
        /\ UNCHANGED <<kind, signature, body>>
    BY DEF Resolved, program, resolver
  <1>2. m \in Nat /\ at - 1 = m
    BY <1>1, AtFacts
  <1>3. \A c : (IsWay(c) => IsWay(c)') /\ (GoodChain(c) => GoodChain(c)')
    BY <1>1, GoodStays
  <1>4. ProgramOK' /\ TemplateTypeOK' /\ IsWay(chain)'
    BY <1>1, <1>3 DEF TemplateInv, ProgramOK, TemplateTypeOK
  <1>5. ChainsOK'
    BY <1>1, <1>3 DEF TemplateInv, ChainsOK, Reached
  <1>6. NoneIncomplete'
    <2>1. Len(acts) = 0 /\ CacheOK
      BY <1>1 DEF TemplateInv, ResolvingOK
    <2>2. \A inst \in cache : \E f \in Elems(incomplete_functions) : f.inst = inst
      BY <2>1 DEF CacheOK
    <2>3. \A inst \in cache : \E i \in 1..m : incomplete_functions[i].inst = inst
      BY <2>2 DEF Elems
    <2> QED
      BY <1>1, <1>2, <2>3 DEF NoneIncomplete
  <1>7. InstancesOnce'
    BY <1>1, <1>6 DEF TemplateInv, InstancesOnce, NoStructTwice, BodiesOnce, ArgumentsAreBounded
  <1> QED
    BY <1>1, <1>4, <1>5, <1>7 DEF TemplateInv

\* At the start main is the only incomplete function.
LEMMA TemplateInit ==
    ASSUME Init
    PROVE  TemplateInv
  <1> DEFINE f == [inst |-> <<Main, 0>>, chain |-> <<>>]
  <1>1. /\ phase = "resolve" /\ cache = {} /\ chain = <<>> /\ acts = <<>> /\ at = 1
        /\ incomplete_functions = <<f>>
    BY DEF Init
  <1>2. ProgramOK
    <2>1. UpTo(Use, MaxUses) \subseteq Seq(Use)
      BY UpToIsSeq, MaxUsesAssumption
    <2> QED
      BY <2>1 DEF Init, ProgramOK
  <1>3. f \in Listed /\ f.inst = <<Main, 0>> /\ f.chain = <<>>
    BY EmptySeq DEF Listed, Instances, Owners
  <1> HIDE DEF f
  <1>4. /\ incomplete_functions \in Seq(Listed) /\ Len(incomplete_functions) = 1
        /\ Elems(incomplete_functions) = {f}
    BY <1>1, <1>3 DEF Elems
  <1>5. Len(chain) = 0 /\ Len(acts) = 0 /\ chain \in Seq(Instances) /\ acts \in Seq(ActType)
    BY <1>1, EmptySeq
  <1>6. TemplateTypeOK
    BY <1>1, <1>4, <1>5, MaxDepthAssumption DEF TemplateTypeOK, Listed, ActType
  <1>7. GoodChain(<<>>) /\ IsWay(chain)
    BY <1>1, <1>5, MaxDepthAssumption DEF GoodChain, IsWay
  <1>8. ChainsOK
    BY <1>1, <1>3, <1>4, <1>5, <1>7 DEF ChainsOK, Reached
  <1>9. ResolvingOK
    <2>1. ListOK
      <3>1. \A i, j \in 1..Len(incomplete_functions) : ~(i < j)
        BY <1>4
      <3>2. \A g \in Elems(incomplete_functions) : g.inst = <<Main, 0>>
        BY <1>3, <1>4
      <3> QED
        BY <3>1, <3>2 DEF ListOK
    <2>2. StackOK /\ StructsOK /\ CacheOK
      BY <1>1, <1>5 DEF StackOK, StructsOK, CacheOK
    <2> QED
      BY <2>1, <2>2 DEF ResolvingOK
  <1>10. InstancesOnce
    <2>1. NoStructTwice /\ BodiesOnce /\ NoneIncomplete
      BY <1>1, <1>4, <1>5 DEF NoStructTwice, BodiesOnce, NoneIncomplete
    <2>2. ArgumentsAreBounded
      BY <1>1, <1>3, <1>4, MaxDepthAssumption DEF ArgumentsAreBounded
    <2> QED
      BY <2>1, <2>2 DEF InstancesOnce
  <1> QED
    BY <1>2, <1>6, <1>7, <1>8, <1>9, <1>10 DEF TemplateInv

\* Nothing changes when nothing happens.
LEMMA TemplateStutter ==
    ASSUME TemplateInv, UNCHANGED vars
    PROVE  TemplateInv'
  <1>1. UNCHANGED <<kind, signature, body, phase, cache, chain, acts,
                    incomplete_functions, at, program>>
    BY DEF vars, program, resolver
  <1>2. \A c : (IsWay(c) => IsWay(c)') /\ (GoodChain(c) => GoodChain(c)')
    BY <1>1, GoodStays
  <1>3. ChainsOK' /\ IsWay(chain)'
    BY <1>1, <1>2 DEF TemplateInv, ChainsOK, Reached
  <1>4. ProgramOK' /\ TemplateTypeOK' /\ InstancesOnce'
    BY <1>1, InstancesKept DEF TemplateInv, ProgramOK, TemplateTypeOK
  <1>5. (phase = "resolve" => ResolvingOK)'
    <2> SUFFICES ASSUME phase = "resolve"
                 PROVE  ResolvingOK'
      BY <1>1
    <2>1. StackOK /\ ListOK /\ StructsOK /\ CacheOK
      BY DEF TemplateInv, ResolvingOK
    <2>2. StackOK'
      <3>1. \A i \in 1..Len(acts) : Link(acts[i], i, ChainOf(i))
        BY <2>1 DEF StackOK
      <3>2. \A i \in 1..Len(acts) : Link(acts[i], i, ChainOf(i))'
        BY <1>1, <3>1 DEF Link, ChainOf, Reached
      <3> QED
        BY <1>1, <2>1, <3>2 DEF StackOK
    <2>3. ListOK' /\ CacheOK'
      BY <1>1, <2>1 DEF ListOK, CacheOK
    <2>4. StructsOK'
      BY <1>1, <2>1 DEF StructsOK
    <2> QED
      BY <2>2, <2>3, <2>4 DEF ResolvingOK
  <1> QED
    BY <1>3, <1>4, <1>5 DEF TemplateInv

\* Each step of instantiation keeps the invariant.
LEMMA TemplateStep ==
    ASSUME TemplateInv, [TNext]_vars
    PROVE  TemplateInv'
  <1>1. CASE Reuse
    BY <1>1, ReuseKeeps
  <1>2. CASE Instantiate
    BY <1>2, InstantiateKeeps, TooDeepKeeps
  <1>3. CASE Finish
    BY <1>3, FinishKeeps, RedeclaredKeeps
  <1>4. CASE CompleteFunction
    BY <1>4, CompleteFunctionKeeps
  <1>5. CASE Completed
    BY <1>5, CompletedKeeps
  <1>6. CASE Resolved
    BY <1>6, ResolvedKeeps
  <1>7. CASE Stopped \/ UNCHANGED vars
    BY <1>7, TemplateStutter DEF Stopped
  <1> QED
    BY <1>1, <1>2, <1>3, <1>4, <1>5, <1>6, <1>7 DEF TNext

-----------------------------------------------------------------------------
(* The theorems. *)

\* The invariant from which the others follow.
THEOREM TemplateInvariant == TSpec => []TemplateInv
  <1>1. Init => TemplateInv
    BY TemplateInit
  <1>2. TemplateInv /\ [TNext]_vars => TemplateInv'
    BY TemplateStep
  <1> QED
    BY <1>1, <1>2, PTL DEF TSpec

\* The chain, the stack of activations and the list of incomplete functions
\* have the types that xget_template_instance gives them, and the chain is too
\* long only where the compiler stops.
THEOREM TemplateTypeCorrect == TSpec => []TemplateTypeOK
  <1>1. TemplateInv => TemplateTypeOK
    BY DEF TemplateInv
  <1> QED
    BY <1>1, TemplateInvariant, PTL

\* The chain of instances that an error message shows is the way on which the
\* compiler came to the instance, also for a body that has waited.
THEOREM ChainCorrect == TSpec => []ChainIsHonest
  <1>1. ASSUME TemplateInv
        PROVE  ChainIsHonest
    <2>1. IsWay(chain) /\ \A f \in Elems(incomplete_functions) : IsWay(f.chain)
      BY <1>1 DEF TemplateInv, ChainsOK, GoodChain
    <2>2. CASE phase = "resolve" /\ acts = <<>>
      BY <1>1, <2>1, <2>2 DEF ChainIsHonest, TemplateInv, ResolvingOK, StackOK
    <2>3. CASE phase = "resolve" /\ acts # <<>>
      BY <1>1, <2>1, <2>3, TopFacts DEF ChainIsHonest, Reached
    <2> QED
      BY <2>1, <2>2, <2>3 DEF ChainIsHonest
  <1> QED
    BY <1>1, TemplateInvariant, PTL

\* Every instance in the cache has its body completed, once, whatever the
\* templates instantiate while others are worked off; no struct contains
\* itself in the chain, and no argument is nested deeper than MAX_DEPTH.
THEOREM InstancesOnceCorrect == TSpec => []InstancesOnce
  <1>1. TemplateInv => InstancesOnce
    BY DEF TemplateInv
  <1> QED
    BY <1>1, TemplateInvariant, PTL
=============================================================================
