----------------------------- MODULE ImportsProofs -----------------------------
(***************************************************************************)
(* Proofs about Imports: for every set of modules, graph of imports, names *)
(* and namespaces, modules are loaded after those that they import, what a *)
(* module sees is what it declares and imports, and no program is refused  *)
(* for a redeclaration that it does not have.                              *)
(***************************************************************************)
EXTENDS Imports, SequenceTheorems, TLAPS

-----------------------------------------------------------------------------
(* The inductive invariant. *)

Phases == {"load", "loaded", "circular", "redeclared"}
Values == {Space} \cup (Mods \X Names)
Entries == Paths \X Values
ActType == [mod : Mods, rest : Seq(Mods \cup {Dir}), files : Seq(Mods)]

TypesOK ==
    /\ imports \in [Mods -> Seq(Mods \cup {Dir})]
    /\ namespace \in [Mods -> Namespaces \cup {NoNamespace}]
    /\ declares \in [Mods -> SUBSET Names]
    /\ phase \in Phases
    /\ spare \in 0..MaxImports
    /\ modules \subseteq Mods
    /\ loaded \in Seq(Mods)
    /\ acts \in Seq(ActType)
    /\ symbols \in [Mods -> SUBSET Entries]
    /\ global \subseteq Entries
    /\ merged \in [Mods -> SUBSET Mods]

\* A module is loaded, being loaded once, or not known.
Loading == {acts[i].mod : i \in 1..Len(acts)}
StackOK ==
    /\ modules = Loaded \cup Loading
    /\ \A i, j \in 1..Len(acts) : acts[i].mod = acts[j].mod => i = j
    /\ Loading \cap Loaded = {}

\* What an activation still has to import.
AcceptedIn(s) == {f \in Elems(s) : Accepted(f)}
Pending(a) ==
    AcceptedIn(a.files) \cup (Elems(a.rest) \cap Mods)
        \cup IF Dir \in Elems(a.rest) THEN AcceptedIn(Directory) ELSE {}

MergedOK ==
    /\ \A m \in Mods : merged[m] \subseteq Loaded
    /\ \A m \in Mods \ modules : merged[m] = {} /\ symbols[m] = {}
    /\ \A i \in 1..Len(acts) :
         merged[acts[i].mod] \cup Pending(acts[i]) = Reaches(acts[i].mod)

\* The table of a module is its namespace, what the modules that are merged
\* into it export, and from the end of its loading what it declares.  A module
\* that is loaded does not change any more, so neither do its exports.
Base(m) == IF namespace[m] = NoNamespace THEN {} ELSE {<<<<namespace[m]>>, Space>>}
Table(m) ==
    Base(m) \cup (UNION {Exports(p) : p \in merged[m]})
        \cup IF m \in Loaded THEN Own(m) ELSE {}
Known(e) ==
    \/ \E n \in Namespaces : e = <<<<n>>, Space>>
    \/ \E p \in modules : e \in Own(p)
TablesOK ==
    /\ \A m \in modules : symbols[m] = Table(m)
    /\ \A m \in Mods : ~Clash(symbols[m])
    /\ \A m \in Mods : \A e \in symbols[m] : Known(e)

GlobalOK ==
    /\ global = UNION {Globals(p) : p \in Loaded}
    /\ ~Clash(global)

ImportsInv ==
    /\ TypesOK
    /\ StackOK
    /\ MergedOK
    /\ ImportsFirst
    /\ TablesOK
    /\ GlobalOK
    /\ RedeclaredIsReal

-----------------------------------------------------------------------------
(* Facts about sequences. *)

\* The elements of a sequence with one more.
LEMMA ElemsOfAppend ==
    ASSUME NEW S, NEW s \in Seq(S), NEW e \in S
    PROVE  Elems(Append(s, e)) = Elems(s) \cup {e}
  <1> DEFINE a == Append(s, e)
             n == Len(s)
  <1>1. /\ n \in Nat /\ Len(a) = n + 1
        /\ \A i \in 1..n : a[i] = s[i]
        /\ a[n + 1] = e
    BY AppendProperties, LenProperties
  <1> HIDE DEF a, n
  <1>2. 1..n + 1 = 1..n \cup {n + 1}
    BY <1>1
  <1>3. {a[i] : i \in 1..n + 1} = {s[i] : i \in 1..n} \cup {e}
    BY <1>1, <1>2
  <1> QED
    BY <1>1, <1>3 DEF Elems, a, n

\* A sequence is its first element and the rest.
LEMMA HeadTailElems ==
    ASSUME NEW S, NEW s \in Seq(S), s # <<>>
    PROVE  /\ Head(s) \in S
           /\ Tail(s) \in Seq(S)
           /\ Elems(s) = {Head(s)} \cup Elems(Tail(s))
  <1> DEFINE t == Tail(s)
             n == Len(t)
  <1>1. /\ Head(s) = s[1] /\ Head(s) \in S
        /\ t \in Seq(S)
        /\ n \in Nat /\ Len(s) = n + 1
        /\ \A i \in 1..n : t[i] = s[i + 1]
    BY HeadTailProperties, EmptySeq, LenProperties
  <1> HIDE DEF t, n
  <1>2. /\ \A i \in 1..n + 1 : i = 1 \/ (i - 1 \in 1..n /\ i = i - 1 + 1)
        /\ \A i \in 1..n : i + 1 \in 1..n + 1
        /\ 1 \in 1..n + 1
    BY <1>1
  <1>3. \A x : (\E i \in 1..n + 1 : x = s[i]) <=> (x = s[1] \/ \E i \in 1..n : x = t[i])
    BY <1>1, <1>2, ZenonT(60)
  <1>4. Elems(s) = {s[1]} \cup {t[i] : i \in 1..n}
    <2>1. Elems(s) = {s[i] : i \in 1..n + 1}
      BY <1>1 DEF Elems
    <2>2. \A x : x \in Elems(s) <=> \E i \in 1..n + 1 : x = s[i]
      BY <2>1
    <2> QED
      BY <1>3, <2>2
  <1> QED
    BY <1>1, <1>4 DEF Elems, t, n

\* UpTo has sequences of bounded length.
LEMMA UpToFacts ==
    ASSUME NEW S, NEW n \in Nat, NEW s \in UpTo(S, n)
    PROVE  s \in Seq(S) /\ Len(s) \in 0..n
  <1>1. PICK k \in 0..n : s \in [1..k -> S]
    BY DEF UpTo
  <1>2. k \in Nat /\ s \in Seq(S) /\ DOMAIN s = 1..k
    BY <1>1, SeqDef
  <1>3. Len(s) = k
    BY <1>1, <1>2, LenProperties
  <1> QED
    BY <1>1, <1>2, <1>3

-----------------------------------------------------------------------------
(* Facts about tables of symbols. *)

\* What is in the table of a module, and what after a step.
LEMMA TableElement ==
    \A m, e :
        /\ e \in Table(m) <=> \/ e \in Base(m)
                              \/ \E p \in merged[m] : e \in Exports(p)
                              \/ m \in Loaded /\ e \in Own(m)
        /\ e \in Table(m)' <=> \/ e \in Base(m)'
                               \/ \E p \in merged'[m] : e \in Exports(p)'
                               \/ m \in Loaded' /\ e \in Own(m)'
  <1>1. \A m, e : e \in Table(m) <=> \/ e \in Base(m)
                                     \/ \E p \in merged[m] : e \in Exports(p)
                                     \/ m \in Loaded /\ e \in Own(m)
    BY DEF Table
  <1>2. \A m, e : e \in Table(m)' <=> \/ e \in Base(m)'
                                      \/ \E p \in merged'[m] : e \in Exports(p)'
                                      \/ m \in Loaded' /\ e \in Own(m)'
    BY DEF Table
  <1> QED
    BY <1>1, <1>2

\* A declaration is not a namespace, and known by the module that declares it.
LEMMA OwnFacts ==
    ASSUME TypesOK, NEW m \in Mods, NEW e \in Own(m)
    PROVE  /\ e \in Entries
           /\ e[2] # Space
           /\ e[2][1] = m
           /\ \E x \in declares[m] :
                /\ e[2] = <<m, x>>
                /\ e[1] = IF namespace[m] = NoNamespace THEN <<x>> ELSE <<namespace[m], x>>
           /\ namespace[m] # NoNamespace => e[1][1] = namespace[m]
  <1>1. /\ declares[m] \subseteq Names
        /\ namespace[m] \in Namespaces \cup {NoNamespace}
    BY DEF TypesOK
  <1>2. PICK x \in declares[m] :
          e = <<IF namespace[m] = NoNamespace THEN <<x>> ELSE <<namespace[m], x>>, <<m, x>>>>
    BY DEF Own
  <1>3. x \in Names
    BY <1>1
  <1>4. e[2] = <<m, x>>
        /\ e[1] = IF namespace[m] = NoNamespace THEN <<x>> ELSE <<namespace[m], x>>
    BY <1>2
  <1>5. <<m, x>> # Space
    <2>1. Len(<<m, x>>) = 2 /\ Len(Space) = 1
      BY DEF Space
    <2> QED
      BY <2>1
  <1>6. e[1] \in Paths
    <2>1. CASE namespace[m] = NoNamespace
      BY <1>3, <1>4, <2>1 DEF Paths
    <2>2. CASE namespace[m] # NoNamespace
      BY <1>1, <1>3, <1>4, <2>2 DEF Paths
    <2> QED
      BY <2>1, <2>2
  <1>7. e \in Entries
    BY <1>2, <1>3, <1>4, <1>6 DEF Entries, Values
  <1>8. namespace[m] # NoNamespace => e[1][1] = namespace[m]
    BY <1>4
  <1> QED
    BY <1>4, <1>5, <1>7, <1>8

\* A namespace is an entry of a table.
LEMMA SpaceFacts ==
    ASSUME NEW n \in Namespaces
    PROVE  <<<<n>>, Space>> \in Entries
  <1>1. <<n>> \in Paths
    BY DEF Paths
  <1> QED
    BY <1>1 DEF Entries, Values

\* What a loaded module declares, it exports.
LEMMA OwnIsExported ==
    ASSUME TypesOK, TablesOK, StackOK, NEW p \in Loaded
    PROVE  Own(p) \subseteq Exports(p)
  <1>1. p \in modules /\ p \in Mods
    BY DEF StackOK, TypesOK
  <1>2. CASE namespace[p] = NoNamespace
    BY <1>2 DEF Exports
  <1>3. CASE namespace[p] # NoNamespace
    <2>1. Own(p) \subseteq symbols[p]
      <3>1. symbols[p] = Table(p)
        BY <1>1 DEF TablesOK
      <3>2. Own(p) \subseteq Table(p)
        BY TableElement
      <3> QED
        BY <3>1, <3>2
    <2>2. \A e \in Own(p) : e[1][1] = namespace[p]
      BY <1>1, <1>3, OwnFacts
    <2> QED
      BY <1>3, <2>1, <2>2 DEF Exports
  <1> QED
    BY <1>2, <1>3

\* What is exported are entries of the tables that are known.
LEMMA ExportFacts ==
    ASSUME TypesOK, TablesOK, NEW p \in modules
    PROVE  \A e \in Exports(p) : e \in Entries /\ Known(e)
  <1>1. p \in Mods
    BY DEF TypesOK
  <1> SUFFICES ASSUME NEW e \in Exports(p)
               PROVE  e \in Entries /\ Known(e)
    OBVIOUS
  <1>2. CASE e \in Own(p)
    BY <1>1, <1>2, OwnFacts DEF Known
  <1>3. CASE e \in symbols[p]
    BY <1>1, <1>3 DEF TypesOK, TablesOK
  <1> QED
    BY <1>2, <1>3 DEF Exports

\* More entries do not undo a clash.
LEMMA ClashGrows ==
    ASSUME NEW S, NEW T, S \subseteq T, Clash(S)
    PROVE  Clash(T)
  BY DEF Clash

\* What a step that does not touch the program and the tables keeps.
LEMMA OperatorsStay ==
    ASSUME UNCHANGED <<imports, namespace, declares, tag, at_cwd, dotted, symbols, merged, loaded>>
    PROVE  /\ \A m : Own(m)' = Own(m)
           /\ \A m : Exports(m)' = Exports(m)
           /\ \A m : Globals(m)' = Globals(m)
           /\ \A m : Reaches(m)' = Reaches(m)
           /\ \A m : Base(m)' = Base(m)
           /\ \A m : Table(m)' = Table(m)
           /\ Loaded' = Loaded
  <1>1. \A m : Own(m)' = Own(m)
    BY DEF Own
  <1>2. \A m : Exports(m)' = Exports(m)
    BY <1>1 DEF Exports
  <1>3. \A m : Globals(m)' = Globals(m)
    BY <1>1 DEF Globals
  <1>4. \A f : Accepted(f)' = Accepted(f)
    BY DEF Accepted, Special, MatchesTarget, PlatformFileExists
  <1>5. \A m : Reaches(m)' = Reaches(m)
    BY <1>4 DEF Reaches
  <1>6. Loaded' = Loaded
    BY DEF Loaded
  <1>7. \A m : Base(m)' = Base(m)
    BY DEF Base
  <1>8. \A m : Table(m)' = Table(m)
    BY <1>1, <1>2, <1>6, <1>7 DEF Table
  <1> QED
    BY <1>1, <1>2, <1>3, <1>5, <1>6, <1>7, <1>8

\* What does not depend on the tables.
LEMMA ProgramStays ==
    ASSUME UNCHANGED <<imports, namespace, declares, tag, at_cwd, dotted, loaded>>
    PROVE  /\ \A m : Own(m)' = Own(m)
           /\ \A m : Globals(m)' = Globals(m)
           /\ \A m : Reaches(m)' = Reaches(m)
           /\ \A m : Base(m)' = Base(m)
           /\ \A a : Pending(a)' = Pending(a)
           /\ Loaded' = Loaded
  <1>1. \A m : Own(m)' = Own(m)
    BY DEF Own
  <1>2. \A m : Globals(m)' = Globals(m)
    BY <1>1 DEF Globals
  <1>3. \A f : Accepted(f)' = Accepted(f)
    BY DEF Accepted, Special, MatchesTarget, PlatformFileExists
  <1>4. \A m : Reaches(m)' = Reaches(m)
    BY <1>3 DEF Reaches
  <1>5. \A a : Pending(a)' = Pending(a)
    BY <1>3 DEF Pending, AcceptedIn
  <1> QED
    BY <1>1, <1>2, <1>4, <1>5 DEF Base, Loaded

\* What is known of the innermost activation of load_module.
LEMMA TopFacts ==
    ASSUME ImportsInv, Resolving
    PROVE  /\ Len(acts) \in Nat \ {0} /\ Len(acts) \in 1..Len(acts)
           /\ Top = acts[Len(acts)] /\ Top \in ActType
           /\ Top.mod \in Loading /\ Top.mod \in modules /\ Top.mod \in Mods
           /\ Top.mod \notin Loaded
           /\ merged[Top.mod] \cup Pending(Top) = Reaches(Top.mod)
           /\ merged[Top.mod] \subseteq Loaded
  <1>1. acts \in Seq(ActType) /\ acts # <<>>
    BY DEF ImportsInv, TypesOK, Resolving
  <1>2. Len(acts) \in Nat \ {0} /\ Len(acts) \in 1..Len(acts) /\ Top \in ActType
    BY <1>1, EmptySeq, ElementOfSeq DEF Top
  <1>3. Top.mod \in Loading /\ Top.mod \in Mods
    BY <1>2 DEF Loading, Top, ActType
  <1>4. Top.mod \in modules /\ Top.mod \notin Loaded
    BY <1>3 DEF ImportsInv, StackOK
  <1>5. merged[Top.mod] \cup Pending(Top) = Reaches(Top.mod)
    BY <1>2 DEF ImportsInv, MergedOK, Top
  <1>6. merged[Top.mod] \subseteq Loaded
    BY <1>3 DEF ImportsInv, MergedOK
  <1> QED
    BY <1>2, <1>3, <1>4, <1>5, <1>6 DEF Top

\* The activation that is on top is replaced by one for the same module.
LEMMA TopChanges ==
    ASSUME ImportsInv, Resolving, NEW t \in ActType, t.mod = Top.mod,
           acts' = [acts EXCEPT ![Len(acts)] = t]
    PROVE  /\ acts' \in Seq(ActType) /\ Len(acts') = Len(acts)
           /\ acts'[Len(acts)] = t
           /\ \A i \in 1..Len(acts) : i # Len(acts) => acts'[i] = acts[i]
           /\ \A i \in 1..Len(acts) : acts'[i].mod = acts[i].mod
  <1> DEFINE n == Len(acts)
  <1>1. acts \in Seq(ActType) /\ n \in 1..Len(acts) /\ Top = acts[n]
    BY TopFacts DEF ImportsInv, TypesOK
  <1> HIDE DEF n
  <1>2. /\ [acts EXCEPT ![n] = t] \in Seq(ActType)
        /\ Len([acts EXCEPT ![n] = t]) = Len(acts)
        /\ \A j \in 1..Len(acts) : [acts EXCEPT ![n] = t][j] = IF j = n THEN t ELSE acts[j]
    BY <1>1, ExceptSeq
  <1>3. acts' = [acts EXCEPT ![n] = t]
    BY DEF n
  <1> QED
    BY <1>1, <1>2, <1>3 DEF n

-----------------------------------------------------------------------------
(* The steps. *)

\* A step that changes no table, and on the stack nothing but how the files
\* that are left are listed.
LEMMA QuietKeeps ==
    ASSUME ImportsInv,
           UNCHANGED <<imports, namespace, declares, tag, at_cwd, dotted, spare, modules,
                       loaded, symbols, global, merged>>,
           acts' \in Seq(ActType), Len(acts') = Len(acts),
           \A i \in 1..Len(acts) :
               acts'[i].mod = acts[i].mod /\ Pending(acts'[i]) = Pending(acts[i]),
           phase' \in Phases,
           RedeclaredIsReal'
    PROVE  ImportsInv'
  <1>1. /\ \A m : Own(m)' = Own(m)
        /\ \A m : Exports(m)' = Exports(m)
        /\ \A m : Globals(m)' = Globals(m)
        /\ \A m : Reaches(m)' = Reaches(m)
        /\ \A m : Table(m)' = Table(m)
        /\ Loaded' = Loaded
    BY OperatorsStay
  <1>2. Loading' = Loading
    BY DEF Loading
  <1>3. TypesOK'
    BY DEF ImportsInv, TypesOK
  <1>4. StackOK'
    BY <1>1, <1>2 DEF ImportsInv, StackOK
  <1>5. \A f : Accepted(f)' = Accepted(f)
    BY DEF Accepted, Special, MatchesTarget, PlatformFileExists
  <1>6. \A a : Pending(a)' = Pending(a)
    BY <1>5 DEF Pending, AcceptedIn
  <1>7. MergedOK'
    <2>1. MergedOK
      BY DEF ImportsInv
    <2>2. \A i \in 1..Len(acts) : (merged[acts[i].mod] \cup Pending(acts[i]) = Reaches(acts[i].mod))'
      <3> TAKE i \in 1..Len(acts)
      <3>1. merged[acts[i].mod] \cup Pending(acts[i]) = Reaches(acts[i].mod)
        BY <2>1 DEF MergedOK
      <3> QED
        BY <1>1, <1>6, <3>1
    <2> QED
      BY <1>1, <2>1, <2>2 DEF MergedOK
  <1>8. ImportsFirst'
    <2> SUFFICES ASSUME NEW i \in 1..Len(loaded)
                 PROVE  (/\ \A j \in 1..i - 1 : loaded[i] # loaded[j]
                         /\ Reaches(loaded[i]) \subseteq {loaded[j] : j \in 1..i - 1}
                         /\ merged[loaded[i]] = Reaches(loaded[i]))'
      BY DEF ImportsFirst
    <2>1. /\ \A j \in 1..i - 1 : loaded[i] # loaded[j]
          /\ Reaches(loaded[i]) \subseteq {loaded[j] : j \in 1..i - 1}
          /\ merged[loaded[i]] = Reaches(loaded[i])
      BY DEF ImportsInv, ImportsFirst
    <2> QED
      BY <1>1, <2>1
  <1>9. TablesOK'
    <2>1. \A e : Known(e)' <=> Known(e)
      BY <1>1 DEF Known
    <2> QED
      BY <1>1, <2>1 DEF ImportsInv, TablesOK
  <1>10. GlobalOK'
    BY <1>1 DEF ImportsInv, GlobalOK
  <1> QED
    BY <1>3, <1>4, <1>7, <1>8, <1>9, <1>10 DEF ImportsInv

\* The refusals.
Real ==
    \/ Clash(InReach(Reported))
    \/ \E m \in Loaded :
         namespace[m] = NoNamespace /\ namespace[Reported] = NoNamespace
         /\ declares[m] \cap declares[Reported] # {}

\* Whether a redeclaration is real depends on the program and the tables alone.
LEMMA RealStays ==
    ASSUME UNCHANGED <<imports, namespace, declares, tag, at_cwd, dotted, loaded, acts,
                       symbols, merged>>
    PROVE  Real' <=> Real
  <1>1. /\ \A m : Own(m)' = Own(m)
        /\ \A m : Exports(m)' = Exports(m)
        /\ \A m : Reaches(m)' = Reaches(m)
        /\ Loaded' = Loaded
    BY OperatorsStay
  <1>2. \A m : InReach(m)' = InReach(m)
    BY <1>1 DEF InReach
  <1>3. Reported' = Reported
    BY DEF Reported, Top
  <1>4. InReach(Reported)' = InReach(Reported)
    BY <1>2, <1>3
  <1> QED
    BY <1>1, <1>3, <1>4 DEF Real

\* A program that is refused keeps its tables.
LEMMA RefuseKeeps ==
    ASSUME ImportsInv, UNCHANGED <<program, files, spare, modules, loaded, acts, symbols,
                                   global, merged>>,
           phase' \in Phases, phase' = "redeclared" => Real
    PROVE  ImportsInv'
  <1>1. UNCHANGED <<imports, namespace, declares, tag, at_cwd, dotted>>
    BY DEF program, files
  <1>2. Real' <=> Real
    BY <1>1, RealStays
  <1>3. RedeclaredIsReal'
    BY <1>2 DEF RedeclaredIsReal, Real
  <1>4. acts' \in Seq(ActType)
    BY DEF ImportsInv, TypesOK
  <1> QED
    BY <1>1, <1>3, <1>4, QuietKeeps

\* All that a module that is being loaded has in its table is in its reach.
LEMMA TableInReach ==
    ASSUME ImportsInv, Resolving
    PROVE  symbols[Top.mod] \subseteq InReach(Top.mod)
  <1> DEFINE m == Top.mod
  <1>1. m \in modules /\ m \notin Loaded /\ merged[m] \subseteq Loaded \cap Reaches(m)
    BY TopFacts
  <1> HIDE DEF m
  <1>2. symbols[m] = Table(m)
    BY <1>1 DEF ImportsInv, TablesOK
  <1>3. \A e : \/ e \in Base(m)
               \/ \E p \in Loaded \cap Reaches(m) : e \in Exports(p)
               => e \in InReach(m)
    <2>1. \A e : (\E p \in Loaded \cap Reaches(m) : e \in Exports(p)) => e \in InReach(m)
      BY DEF InReach
    <2>2. \A e : e \in Base(m) => e \in InReach(m)
      BY DEF InReach, Base
    <2> QED
      BY <2>1, <2>2
  <1>4. \A e : e \in Table(m) => \/ e \in Base(m)
                                 \/ \E p \in Loaded \cap Reaches(m) : e \in Exports(p)
    BY <1>1, TableElement
  <1> QED
    BY <1>2, <1>3, <1>4 DEF m

\* A circle of imports is refused with everything else as it was.
LEMMA CircularKeeps ==
    ASSUME ImportsInv, ImportCircular
    PROVE  ImportsInv'
  BY RefuseKeeps DEF ImportCircular, Phases

\* A file that is imported is one that its statement leads to.
LEMMA ImportFacts ==
    ASSUME ImportsInv, Importing
    PROVE  /\ Import \in Mods
           /\ Import \in Pending(Top)
           /\ Import \in Reaches(Top.mod)
           /\ \E t \in ActType :
                /\ t.mod = Top.mod
                /\ Advance = [acts EXCEPT ![Len(acts)] = t]
                /\ {Import} \cup Pending(t) = Pending(Top)
  <1>1. Top = acts[Len(acts)] /\ Top \in ActType /\ Len(acts) \in 1..Len(acts)
        /\ merged[Top.mod] \cup Pending(Top) = Reaches(Top.mod)
    BY TopFacts DEF Importing
  <1>2. Top.rest \in Seq(Mods \cup {Dir}) /\ Top.files \in Seq(Mods) /\ Top.mod \in Mods
    BY <1>1 DEF ActType
  <1>3. CASE Top.files # <<>>
    <2> DEFINE t == [Top EXCEPT !.files = Tail(@)]
    <2>1. /\ Import = Head(Top.files) /\ Accepted(Import)
          /\ Advance = [acts EXCEPT ![Len(acts)].files = Tail(@)]
      BY <1>3 DEF Importing, Import, Advance
    <2>2. /\ Import \in Mods /\ Tail(Top.files) \in Seq(Mods)
          /\ Elems(Top.files) = {Import} \cup Elems(Tail(Top.files))
      BY <1>2, <1>3, <2>1, HeadTailElems
    <2>3. t \in ActType /\ t.mod = Top.mod /\ t.rest = Top.rest /\ t.files = Tail(Top.files)
      BY <1>1, <2>2 DEF ActType
    <2>4. Advance = [acts EXCEPT ![Len(acts)] = t]
      BY <1>1, <2>1
    <2> HIDE DEF t
    <2>5. AcceptedIn(Top.files) = {Import} \cup AcceptedIn(t.files)
      BY <2>1, <2>2, <2>3 DEF AcceptedIn
    <2>6. {Import} \cup Pending(t) = Pending(Top)
      BY <2>3, <2>5 DEF Pending
    <2>7. Import \in Pending(Top) /\ Import \in Reaches(Top.mod)
      BY <1>1, <2>6
    <2> QED
      BY <2>2, <2>3, <2>4, <2>6, <2>7
  <1>4. CASE Top.files = <<>>
    <2> DEFINE t == [Top EXCEPT !.rest = Tail(@)]
    <2>1. /\ Top.rest # <<>> /\ Import = Head(Top.rest) /\ Import # Dir
          /\ Advance = [acts EXCEPT ![Len(acts)].rest = Tail(@)]
      BY <1>4 DEF Importing, Import, Advance
    <2>2. /\ Import \in Mods \cup {Dir} /\ Tail(Top.rest) \in Seq(Mods \cup {Dir})
          /\ Elems(Top.rest) = {Import} \cup Elems(Tail(Top.rest))
      BY <1>2, <2>1, HeadTailElems
    <2>3. t \in ActType /\ t.mod = Top.mod /\ t.files = Top.files /\ t.rest = Tail(Top.rest)
      BY <1>1, <2>2 DEF ActType
    <2>4. Advance = [acts EXCEPT ![Len(acts)] = t]
      BY <1>1, <2>1
    <2> HIDE DEF t
    <2>5. Elems(Top.rest) \cap Mods = {Import} \cup (Elems(t.rest) \cap Mods)
      BY <2>1, <2>2, <2>3
    <2>6. Dir \in Elems(Top.rest) <=> Dir \in Elems(t.rest)
      BY <2>1, <2>2, <2>3
    <2>7. {Import} \cup Pending(t) = Pending(Top)
      BY <2>3, <2>5, <2>6 DEF Pending
    <2>8. Import \in Pending(Top) /\ Import \in Reaches(Top.mod) /\ Import \in Mods
      BY <1>1, <2>1, <2>2, <2>7
    <2> QED
      BY <2>3, <2>4, <2>7, <2>8
  <1> QED
    BY <1>3, <1>4

\* The innermost activation may go on as long as it has the same to import.
LEMMA QuietTop ==
    ASSUME ImportsInv, Resolving, UNCHANGED <<program, files, phase, spare, modules, loaded,
                                              symbols, global, merged>>,
           NEW t \in ActType, t.mod = Top.mod, Pending(t) = Pending(Top),
           acts' = [acts EXCEPT ![Len(acts)] = t]
    PROVE  ImportsInv'
  <1>1. UNCHANGED <<imports, namespace, declares, tag, at_cwd, dotted>>
    BY DEF program, files
  <1>2. /\ acts' \in Seq(ActType) /\ Len(acts') = Len(acts)
        /\ \A i \in 1..Len(acts) : acts'[i].mod = acts[i].mod
        /\ \A i \in 1..Len(acts) : acts'[i] = IF i = Len(acts) THEN t ELSE acts[i]
    BY TopChanges
  <1>3. Top = acts[Len(acts)]
    BY TopFacts
  <1>4. \A i \in 1..Len(acts) : Pending(acts'[i]) = Pending(acts[i])
    BY <1>2, <1>3
  <1>5. phase' \in Phases /\ RedeclaredIsReal'
    BY DEF Resolving, Phases, RedeclaredIsReal
  <1> QED
    BY <1>1, <1>2, <1>4, <1>5, QuietKeeps

\* The directory's name is replaced by its files.
LEMMA ImportDirectoryKeeps ==
    ASSUME ImportsInv, ImportDirectory
    PROVE  ImportsInv'
  <1> DEFINE t == [Top EXCEPT !.files = Directory, !.rest = Tail(@)]
  <1>1. /\ Resolving /\ Top.files = <<>> /\ Top.rest # <<>> /\ Head(Top.rest) = Dir
        /\ acts' = [acts EXCEPT ![Len(acts)].files = Directory,
                                ![Len(acts)].rest = Tail(@)]
        /\ UNCHANGED <<program, files, phase, spare, modules, loaded, symbols, global, merged>>
    BY DEF ImportDirectory
  <1>2. Top = acts[Len(acts)] /\ Top \in ActType /\ Len(acts) \in 1..Len(acts)
    BY <1>1, TopFacts
  <1>3. Top.rest \in Seq(Mods \cup {Dir}) /\ Top.mod \in Mods
    BY <1>2 DEF ActType
  <1>4. /\ Tail(Top.rest) \in Seq(Mods \cup {Dir})
        /\ Elems(Top.rest) = {Dir} \cup Elems(Tail(Top.rest))
    BY <1>1, <1>3, HeadTailElems
  <1>5. /\ t \in ActType /\ t.mod = Top.mod
        /\ t.files = Directory /\ t.rest = Tail(Top.rest)
    BY <1>2, <1>3, <1>4, DirectoryAssumption DEF ActType
  <1>6. acts' = [acts EXCEPT ![Len(acts)] = t]
    BY <1>1, <1>2 DEF ImportsInv, TypesOK
  <1> HIDE DEF t
  <1>7. Pending(t) = Pending(Top)
    <2>1. AcceptedIn(Top.files) = {}
      BY <1>1 DEF AcceptedIn, Elems
    <2>2. Elems(Top.rest) \cap Mods = Elems(t.rest) \cap Mods
      BY <1>4, <1>5, DirAssumption
    <2>3. Dir \in Elems(Top.rest)
      BY <1>4
    <2> QED
      BY <1>5, <2>1, <2>2, <2>3 DEF Pending
  <1> QED
    BY <1>1, <1>5, <1>6, <1>7, QuietTop

\* A file for another platform was not to be imported.
LEMMA SkipFileKeeps ==
    ASSUME ImportsInv, SkipFile
    PROVE  ImportsInv'
  <1> DEFINE t == [Top EXCEPT !.files = Tail(@)]
  <1>1. /\ Resolving /\ Top.files # <<>> /\ ~Accepted(Head(Top.files))
        /\ acts' = [acts EXCEPT ![Len(acts)].files = Tail(@)]
        /\ UNCHANGED <<program, files, phase, spare, modules, loaded, symbols, global, merged>>
    BY DEF SkipFile
  <1>2. Top = acts[Len(acts)] /\ Top \in ActType /\ Len(acts) \in 1..Len(acts)
    BY <1>1, TopFacts
  <1>3. Top.files \in Seq(Mods) /\ Top.mod \in Mods
    BY <1>2 DEF ActType
  <1>4. /\ Tail(Top.files) \in Seq(Mods)
        /\ Elems(Top.files) = {Head(Top.files)} \cup Elems(Tail(Top.files))
    BY <1>1, <1>3, HeadTailElems
  <1>5. t \in ActType /\ t.mod = Top.mod /\ t.rest = Top.rest /\ t.files = Tail(Top.files)
    BY <1>2, <1>4 DEF ActType
  <1>6. acts' = [acts EXCEPT ![Len(acts)] = t]
    BY <1>1, <1>2
  <1> HIDE DEF t
  <1>7. Pending(t) = Pending(Top)
    <2>1. AcceptedIn(t.files) = AcceptedIn(Top.files)
      BY <1>1, <1>4, <1>5 DEF AcceptedIn
    <2> QED
      BY <1>5, <2>1 DEF Pending
  <1> QED
    BY <1>1, <1>5, <1>6, <1>7, QuietTop

\* The exports of other modules are merged.
LEMMA ImportLoadedKeeps ==
    ASSUME ImportsInv, ImportLoaded
    PROVE  ImportsInv'
  <1> DEFINE m == Top.mod
             p == Import
  <1>1. /\ Importing /\ Resolving /\ p \in Loaded
        /\ UNCHANGED <<program, files, spare, modules, loaded, global>>
        /\ UNCHANGED <<imports, namespace, declares, tag, at_cwd, dotted>>
    BY DEF ImportLoaded, Importing, program, files
  <1>2. /\ m \in Mods /\ m \in modules /\ m \notin Loaded /\ Top \in ActType
        /\ Len(acts) \in 1..Len(acts) /\ Top = acts[Len(acts)] /\ m = acts[Len(acts)].mod
        /\ merged[m] \cup Pending(Top) = Reaches(m)
    BY <1>1, TopFacts
  <1>3. p \in Mods /\ p \in modules /\ p \in Reaches(m) /\ p # m
    BY <1>1, <1>2, ImportFacts DEF ImportsInv, StackOK
  <1>4. CASE Collision(symbols[m], Exports(p))
    <2>1. UNCHANGED <<acts, symbols, merged>> /\ phase' = "redeclared"
      BY <1>4 DEF ImportLoaded
    <2>2. symbols[m] \cup Exports(p) \subseteq InReach(m)
      <3>1. symbols[m] \subseteq InReach(m)
        BY <1>1, TableInReach
      <3>2. Exports(p) \subseteq InReach(m)
        BY <1>1, <1>3 DEF InReach
      <3> QED
        BY <3>1, <3>2
    <2>3. Clash(InReach(m))
      BY <1>4, <2>2, ClashGrows DEF Collision
    <2>4. Real
      BY <2>3 DEF Real, Reported
    <2> QED
      BY <1>1, <2>1, <2>4, RefuseKeeps DEF Phases
  <1>5. CASE ~Collision(symbols[m], Exports(p))
    <2>1. /\ symbols' = [symbols EXCEPT ![m] = @ \cup Exports(p)]
          /\ merged' = [merged EXCEPT ![m] = @ \cup {p}]
          /\ acts' = Advance
          /\ UNCHANGED phase
      BY <1>5 DEF ImportLoaded, Merge
    <2>2. PICK t \in ActType :
            /\ t.mod = m
            /\ Advance = [acts EXCEPT ![Len(acts)] = t]
            /\ {p} \cup Pending(t) = Pending(Top)
      BY <1>1, ImportFacts
    <2>3. /\ acts' \in Seq(ActType) /\ Len(acts') = Len(acts)
          /\ acts'[Len(acts)] = t
          /\ \A i \in 1..Len(acts) : i # Len(acts) => acts'[i] = acts[i]
          /\ \A i \in 1..Len(acts) : acts'[i].mod = acts[i].mod
      BY <1>1, <2>1, <2>2, TopChanges
    <2> HIDE DEF m, p
    <2>4. /\ symbols \in [Mods -> SUBSET Entries] /\ merged \in [Mods -> SUBSET Mods]
          /\ modules \subseteq Mods
      BY DEF ImportsInv, TypesOK
    <2>5. /\ symbols'[m] = symbols[m] \cup Exports(p)
          /\ merged'[m] = merged[m] \cup {p}
          /\ \A q \in Mods : q # m => symbols'[q] = symbols[q] /\ merged'[q] = merged[q]
      BY <1>2, <2>1, <2>4
    <2>6. \A e \in Exports(p) : e \in Entries /\ Known(e)
      BY <1>3, ExportFacts DEF ImportsInv
    <2>7. TypesOK'
      <3>1. symbols' \in [Mods -> SUBSET Entries] /\ merged' \in [Mods -> SUBSET Mods]
        BY <1>2, <1>3, <2>1, <2>4, <2>6
      <3> QED
        BY <1>1, <2>1, <2>3, <3>1 DEF ImportsInv, TypesOK
    <2>8. /\ \A q : Own(q)' = Own(q)
          /\ \A q : Globals(q)' = Globals(q)
          /\ \A q : Reaches(q)' = Reaches(q)
          /\ \A q : Base(q)' = Base(q)
          /\ \A a : Pending(a)' = Pending(a)
          /\ Loaded' = Loaded
      BY <1>1, ProgramStays
    <2>9. \A q \in Loaded : Exports(q)' = Exports(q)
      <3> SUFFICES ASSUME NEW q \in Loaded
                   PROVE  Exports(q)' = Exports(q)
        OBVIOUS
      <3>1. q # m /\ q \in Mods
        BY <1>2 DEF ImportsInv, StackOK, TypesOK
      <3>2. symbols'[q] = symbols[q]
        BY <2>5, <3>1
      <3> QED
        BY <1>1, <2>8, <3>2 DEF Exports
    <2>10. StackOK'
      <3>1. Loading' = Loading
        BY <2>3 DEF Loading
      <3> QED
        BY <1>1, <2>3, <2>8, <3>1 DEF ImportsInv, StackOK
    <2>11. MergedOK'
      <3>1. \A q \in Mods : merged'[q] \subseteq Loaded
        BY <1>1, <2>5 DEF ImportsInv, MergedOK, p
      <3>2. \A q \in Mods \ modules : merged'[q] = {} /\ symbols'[q] = {}
        BY <1>2, <2>5 DEF ImportsInv, MergedOK
      <3>3. ASSUME NEW i \in 1..Len(acts)
            PROVE  merged'[acts'[i].mod] \cup Pending(acts'[i]) = Reaches(acts[i].mod)
        <4>1. CASE i = Len(acts)
          BY <1>2, <2>2, <2>3, <2>5, <4>1
        <4>2. CASE i # Len(acts)
          <5>1. acts[i].mod # m /\ acts[i].mod \in Mods
            <6>1. acts[i] \in ActType
              BY ElementOfSeq DEF ImportsInv, TypesOK
            <6> QED
              BY <1>2, <4>2, <6>1 DEF ImportsInv, StackOK, ActType
          <5> QED
            BY <2>3, <2>5, <4>2, <5>1 DEF ImportsInv, MergedOK
        <4> QED
          BY <4>1, <4>2
      <3>4. \A i \in 1..Len(acts') : (merged[acts[i].mod] \cup Pending(acts[i]) = Reaches(acts[i].mod))'
        BY <2>3, <2>8, <3>3
      <3> QED
        BY <1>1, <2>8, <3>1, <3>2, <3>4 DEF MergedOK
    <2>12. ImportsFirst'
      <3> SUFFICES ASSUME NEW i \in 1..Len(loaded)
                   PROVE  (/\ \A j \in 1..i - 1 : loaded[i] # loaded[j]
                           /\ Reaches(loaded[i]) \subseteq {loaded[j] : j \in 1..i - 1}
                           /\ merged[loaded[i]] = Reaches(loaded[i]))'
        BY <1>1 DEF ImportsFirst
      <3>1. /\ \A j \in 1..i - 1 : loaded[i] # loaded[j]
            /\ Reaches(loaded[i]) \subseteq {loaded[j] : j \in 1..i - 1}
            /\ merged[loaded[i]] = Reaches(loaded[i])
        BY DEF ImportsInv, ImportsFirst
      <3>2. loaded[i] # m /\ loaded[i] \in Mods
        BY <1>2, ElementOfSeq DEF ImportsInv, TypesOK, Loaded, Elems
      <3> QED
        BY <1>1, <2>5, <2>8, <3>1, <3>2
    <2>13. TablesOK'
      <3>1. ASSUME NEW q \in modules
            PROVE  (symbols[q] = Table(q))'
        <4>1. symbols[q] = Table(q) /\ merged[q] \subseteq Loaded /\ q \in Mods
          BY <2>4 DEF ImportsInv, TablesOK, MergedOK
        <4>2. CASE q = m
          <5>1. merged'[q] = merged[q] \cup {p} /\ symbols'[q] = symbols[q] \cup Exports(p)
                /\ q \notin Loaded
            BY <1>2, <2>5, <4>2
          <5>2. \A e : e \in symbols'[q] <=>
                    e \in Base(q) \/ (\E r \in merged[q] : e \in Exports(r)) \/ e \in Exports(p)
            BY <4>1, <5>1, TableElement
          <5>3. \A e : (\E r \in merged'[q] : e \in Exports(r)')
                    <=> (\E r \in merged[q] : e \in Exports(r)) \/ e \in Exports(p)
            BY <1>1, <2>9, <4>1, <5>1
          <5>4. \A e : e \in symbols'[q] <=> e \in Table(q)'
            BY <2>8, <5>1, <5>2, <5>3, TableElement
          <5> QED
            BY <5>4
        <4>3. CASE q # m
          <5>1. \A e : e \in Table(q)' <=> e \in Table(q)
            BY <2>5, <2>8, <2>9, <4>1, <4>3, TableElement
          <5> QED
            BY <2>5, <4>1, <4>3, <5>1
        <4> QED
          BY <4>2, <4>3
      <3>2. \A q \in Mods : ~Clash(symbols'[q])
        <4>1. ~Clash(symbols'[m])
          BY <1>5, <2>5 DEF Collision
        <4> QED
          BY <2>5, <4>1 DEF ImportsInv, TablesOK
      <3>3. \A e : Known(e)' <=> Known(e)
        BY <1>1, <2>8 DEF Known
      <3>4. \A q \in Mods : \A e \in symbols'[q] : Known(e)
        BY <2>5, <2>6 DEF ImportsInv, TablesOK
      <3>5. (\A q \in Mods : ~Clash(symbols[q]))'
        BY <3>2 DEF Clash
      <3> QED
        BY <1>1, <3>1, <3>3, <3>4, <3>5 DEF TablesOK
    <2>14. GlobalOK'
      BY <1>1, <2>8 DEF ImportsInv, GlobalOK, Clash
    <2>15. RedeclaredIsReal'
      BY <1>1, <2>1 DEF Resolving, RedeclaredIsReal
    <2> QED
      BY <2>7, <2>10, <2>11, <2>12, <2>13, <2>14, <2>15 DEF ImportsInv
  <1> QED
    BY <1>4, <1>5

\* A module that was not known is put on the stack; nothing that is in a table
\* is of it.
LEMMA LoadKeeps ==
    ASSUME ImportsInv, phase = "load", NEW m \in Mods \ modules, Load(m)
    PROVE  ImportsInv'
  <1>1. PICK i \in UpTo((Mods \ {Main}) \cup {Dir}, spare),
             n \in Namespaces \cup {NoNamespace},
             d \in {{}} \cup {{x} : x \in Names} :
          /\ imports' = [imports EXCEPT ![m] = i]
          /\ namespace' = [namespace EXCEPT ![m] = n]
          /\ declares' = [declares EXCEPT ![m] = d]
          /\ spare' = spare - Len(i)
          /\ acts' = Append(acts, [mod |-> m, rest |-> i, files |-> <<>>])
          /\ symbols' = [symbols EXCEPT ![m] = IF n = NoNamespace THEN {} ELSE {<<<<n>>, Space>>}]
    BY DEF Load
  <1>2. /\ modules' = modules \cup {m}
        /\ UNCHANGED <<tag, at_cwd, dotted, phase, loaded, global, merged>>
    BY DEF Load, files
  <1> DEFINE a == [mod |-> m, rest |-> i, files |-> <<>>]
             l == Len(acts)
  <1>3. TypesOK /\ spare \in Nat
    BY MaxImportsAssumption DEF ImportsInv, TypesOK
  <1>4. /\ i \in Seq(Mods \cup {Dir}) /\ Len(i) \in 0..spare
    <2>1. i \in Seq((Mods \ {Main}) \cup {Dir}) /\ Len(i) \in 0..spare
      BY <1>3, UpToFacts
    <2> QED
      BY <2>1
  <1>5. /\ a \in ActType /\ a.mod = m /\ a.rest = i /\ a.files = <<>>
    BY <1>4, EmptySeq DEF ActType
  <1> HIDE DEF a
  <1>6. /\ l \in Nat /\ acts' \in Seq(ActType) /\ Len(acts') = l + 1
        /\ acts'[l + 1] = a
        /\ \A j \in 1..l : acts'[j] = acts[j]
    <2>1. acts \in Seq(ActType) /\ acts' = Append(acts, a)
      BY <1>1, <1>3 DEF TypesOK, a
    <2> QED
      BY <1>5, <2>1, AppendProperties, LenProperties
  <1>7. /\ imports'[m] = i /\ namespace'[m] = n /\ declares'[m] = d
        /\ symbols'[m] = IF n = NoNamespace THEN {} ELSE {<<<<n>>, Space>>}
        /\ \A q \in Mods : q # m =>
             /\ imports'[q] = imports[q] /\ namespace'[q] = namespace[q]
             /\ declares'[q] = declares[q] /\ symbols'[q] = symbols[q]
    BY <1>1, <1>3 DEF TypesOK
  <1>8. symbols'[m] = Base(m)'
    BY <1>7 DEF Base
  <1>9. \A e \in symbols'[m] : n \in Namespaces /\ e = <<<<n>>, Space>>
    BY <1>7
  <1>10. TypesOK'
    <2>1. symbols'[m] \subseteq Entries
      BY <1>9, SpaceFacts
    <2>2. symbols' \in [Mods -> SUBSET Entries]
      BY <1>1, <1>3, <1>7, <2>1 DEF TypesOK
    <2>3. d \subseteq Names
      OBVIOUS
    <2>4. declares' \in [Mods -> SUBSET Names] /\ namespace' \in [Mods -> Namespaces \cup {NoNamespace}]
      BY <1>1, <1>3, <2>3 DEF TypesOK
    <2>5. imports' \in [Mods -> Seq(Mods \cup {Dir})]
      BY <1>1, <1>3, <1>4 DEF TypesOK
    <2>6. spare' \in 0..MaxImports
      BY <1>1, <1>3, <1>4, MaxImportsAssumption DEF TypesOK
    <2> QED
      BY <1>2, <1>3, <1>6, <2>2, <2>4, <2>5, <2>6 DEF TypesOK
  <1>11. /\ Loaded' = Loaded /\ Loaded \subseteq modules /\ m \notin Loaded /\ m \notin Loading
    BY <1>2 DEF Loaded, ImportsInv, StackOK
  <1>12. \A q \in modules : q \in Mods /\ q # m
    BY <1>3 DEF TypesOK
  <1>13. \A q \in modules :
           /\ Own(q)' = Own(q) /\ Exports(q)' = Exports(q) /\ Globals(q)' = Globals(q)
           /\ Reaches(q)' = Reaches(q) /\ Base(q)' = Base(q)
    <2> SUFFICES ASSUME NEW q \in modules
                 PROVE  /\ Own(q)' = Own(q) /\ Exports(q)' = Exports(q) /\ Globals(q)' = Globals(q)
                        /\ Reaches(q)' = Reaches(q) /\ Base(q)' = Base(q)
      OBVIOUS
    <2>1. /\ imports'[q] = imports[q] /\ namespace'[q] = namespace[q]
          /\ declares'[q] = declares[q] /\ symbols'[q] = symbols[q]
      BY <1>7, <1>12
    <2>2. Own(q)' = Own(q)
      BY <2>1 DEF Own
    <2>3. Exports(q)' = Exports(q) /\ Globals(q)' = Globals(q)
      BY <2>1, <2>2 DEF Exports, Globals
    <2>4. \A f : Accepted(f)' = Accepted(f)
      BY <1>2 DEF Accepted, Special, MatchesTarget, PlatformFileExists
    <2>5. Reaches(q)' = Reaches(q)
      BY <2>1, <2>4 DEF Reaches
    <2>6. Base(q)' = Base(q)
      BY <2>1 DEF Base
    <2> QED
      BY <2>2, <2>3, <2>5, <2>6
  <1>14. \A j \in 1..l + 1 : j \in 1..l \/ j = l + 1
    BY <1>6
  <1>15. \A j \in 1..l : /\ acts[j] \in ActType /\ acts[j].mod \in Loading /\ j \in 1..l + 1
                         /\ acts[j].mod \in modules /\ acts[j].mod # m
    <2> SUFFICES ASSUME NEW j \in 1..l
                 PROVE  /\ acts[j] \in ActType /\ acts[j].mod \in Loading /\ j \in 1..l + 1
                        /\ acts[j].mod \in modules /\ acts[j].mod # m
      OBVIOUS
    <2>1. acts[j] \in ActType /\ acts[j].mod \in Loading /\ j \in 1..l + 1
      BY <1>3, <1>6, ElementOfSeq DEF TypesOK, Loading
    <2> QED
      BY <1>11, <2>1 DEF ImportsInv, StackOK
  <1>16. StackOK'
    <2>1. \A x : x \in Loading' <=> x \in Loading \/ x = m
      <3>1. \A x : x \in Loading' <=> \E j \in 1..l + 1 : x = acts'[j].mod
        BY <1>6 DEF Loading
      <3>2. \A x : x \in Loading <=> \E j \in 1..l : x = acts[j].mod
        BY DEF Loading
      <3>3. l + 1 \in 1..l + 1
        BY <1>6
      <3> QED
        BY <1>5, <1>6, <1>14, <1>15, <3>1, <3>2, <3>3
    <2>2. modules' = Loaded' \cup Loading' /\ Loading' \cap Loaded' = {}
      BY <1>2, <1>11, <2>1 DEF ImportsInv, StackOK
    <2>3. \A j, k \in 1..l + 1 : acts'[j].mod = acts'[k].mod => j = k
      BY <1>5, <1>6, <1>14, <1>15 DEF ImportsInv, StackOK
    <2> QED
      BY <1>6, <2>2, <2>3 DEF StackOK
  <1>17. MergedOK'
    <2>1. merged[m] = {} /\ \A q \in Mods \ modules : merged[q] = {} /\ symbols[q] = {}
      BY DEF ImportsInv, MergedOK
    <2>2. \A q \in Mods \ modules' : q \in Mods \ modules /\ q # m
      BY <1>2
    <2>3. \A b : Pending(b)' = Pending(b)
      <3>1. \A f : Accepted(f)' = Accepted(f)
        BY <1>2 DEF Accepted, Special, MatchesTarget, PlatformFileExists
      <3> QED
        BY <3>1 DEF Pending, AcceptedIn
    <2>4. Reaches(m)' = Pending(a)
      <3>1. \A f : Accepted(f)' = Accepted(f)
        BY <1>2 DEF Accepted, Special, MatchesTarget, PlatformFileExists
      <3>2. AcceptedIn(<<>>) = {}
        BY DEF AcceptedIn, Elems
      <3>3. Reaches(m)' = (Elems(i) \cap Mods) \cup
                              IF Dir \in Elems(i) THEN AcceptedIn(Directory) ELSE {}
        BY <1>7, <3>1 DEF Reaches, AcceptedIn
      <3> QED
        BY <1>5, <3>2, <3>3 DEF Pending
    <2>5. ASSUME NEW j \in 1..l + 1
          PROVE  (merged[acts[j].mod] \cup Pending(acts[j]) = Reaches(acts[j].mod))'
      <3>1. CASE j \in 1..l
        <4>1. merged[acts[j].mod] \cup Pending(acts[j]) = Reaches(acts[j].mod)
          BY <3>1 DEF ImportsInv, MergedOK
        <4>2. acts'[j] = acts[j] /\ acts[j].mod \in modules
          BY <1>6, <1>15, <3>1
        <4> QED
          BY <1>2, <1>13, <2>3, <4>1, <4>2
      <3>2. CASE j = l + 1
        <4>1. acts'[j] = a /\ a.mod = m
          BY <1>5, <1>6, <3>2
        <4> QED
          BY <1>2, <2>1, <2>3, <2>4, <4>1
      <3> QED
        BY <1>14, <3>1, <3>2
    <2>6. \A q \in Mods : merged[q] \subseteq Loaded
      BY DEF ImportsInv, MergedOK
    <2> QED
      BY <1>2, <1>6, <1>7, <1>11, <2>1, <2>2, <2>5, <2>6 DEF MergedOK
  <1>18. ImportsFirst'
    <2> SUFFICES ASSUME NEW j \in 1..Len(loaded)
                 PROVE  (/\ \A k \in 1..j - 1 : loaded[j] # loaded[k]
                         /\ Reaches(loaded[j]) \subseteq {loaded[k] : k \in 1..j - 1}
                         /\ merged[loaded[j]] = Reaches(loaded[j]))'
      BY <1>2 DEF ImportsFirst
    <2>1. /\ \A k \in 1..j - 1 : loaded[j] # loaded[k]
          /\ Reaches(loaded[j]) \subseteq {loaded[k] : k \in 1..j - 1}
          /\ merged[loaded[j]] = Reaches(loaded[j])
      BY DEF ImportsInv, ImportsFirst
    <2>2. loaded[j] \in modules
      BY <1>11 DEF Loaded, Elems
    <2> QED
      BY <1>2, <1>13, <2>1, <2>2
  <1>19. TablesOK'
    <2>1. \A q \in Mods : merged[q] \subseteq modules
      BY <1>11 DEF ImportsInv, MergedOK
    <2>2. ASSUME NEW q \in modules
          PROVE  (symbols[q] = Table(q))'
      <3>1. symbols[q] = Table(q) /\ q \in Mods /\ q # m
        BY <1>12 DEF ImportsInv, TablesOK
      <3>2. \A e : e \in Table(q)' <=> e \in Table(q)
        BY <1>2, <1>11, <1>13, <2>1, <3>1, TableElement
      <3> QED
        BY <1>7, <3>1, <3>2
    <2>3. (symbols[m] = Table(m))'
      <3>1. merged'[m] = {} /\ m \notin Loaded'
        BY <1>2, <1>11 DEF ImportsInv, MergedOK
      <3>2. \A e : e \in Table(m)' <=> e \in Base(m)'
        BY <3>1, TableElement
      <3> QED
        BY <1>8, <3>2
    <2>4. \A q \in Mods : ~Clash(symbols'[q])
      <3>1. ~Clash(symbols'[m])
        BY <1>9 DEF Clash
      <3> QED
        BY <1>7, <3>1 DEF ImportsInv, TablesOK
    <2>5. (\A q \in Mods : ~Clash(symbols[q]))'
      BY <2>4 DEF Clash
    <2>6. \A e : Known(e) => Known(e)'
      BY <1>2, <1>13 DEF Known
    <2>7. \A e \in symbols'[m] : Known(e)'
      BY <1>9 DEF Known
    <2>8. \A q \in Mods : \A e \in symbols'[q] : Known(e)'
      BY <1>7, <2>6, <2>7 DEF ImportsInv, TablesOK
    <2> QED
      BY <1>2, <2>2, <2>3, <2>5, <2>8 DEF TablesOK
  <1>20. GlobalOK'
    <2>1. \A q \in Loaded : Globals(q)' = Globals(q)
      BY <1>11, <1>13
    <2> QED
      BY <1>2, <1>11, <2>1 DEF ImportsInv, GlobalOK, Clash
  <1>21. RedeclaredIsReal'
    BY <1>2 DEF RedeclaredIsReal
  <1> QED
    BY <1>10, <1>16, <1>17, <1>18, <1>19, <1>20, <1>21 DEF ImportsInv

\* A sequence without its last element.
LEMMA FrontFacts ==
    ASSUME NEW S, NEW s \in Seq(S), s # <<>>
    PROVE  /\ SubSeq(s, 1, Len(s) - 1) \in Seq(S)
           /\ Len(SubSeq(s, 1, Len(s) - 1)) = Len(s) - 1
           /\ \A i \in 1..Len(s) - 1 : SubSeq(s, 1, Len(s) - 1)[i] = s[i]
  <1> DEFINE n == Len(s) - 1
  <1>1. n \in Nat /\ n \in Int /\ \A i \in 1..n : s[i] \in S
    <2>1. Len(s) \in Nat \ {0}
      BY EmptySeq
    <2> QED
      BY <2>1, ElementOfSeq
  <1> HIDE DEF n
  <1>2. /\ SubSeq(s, 1, n) \in Seq(S)
        /\ Len(SubSeq(s, 1, n)) = IF 1 <= n THEN n - 1 + 1 ELSE 0
        /\ \A i \in 1..n - 1 + 1 : SubSeq(s, 1, n)[i] = s[1 + i - 1]
    BY <1>1, SubSeqProperties
  <1>3. /\ SubSeq(s, 1, n) \in Seq(S)
        /\ Len(SubSeq(s, 1, n)) = n
        /\ \A i \in 1..n : SubSeq(s, 1, n)[i] = s[i]
    BY <1>1, <1>2
  <1> QED
    BY <1>3 DEF n

\* Two modules without a namespace that declare the same name are the only
\* ones that clash in the global table.
LEMMA GlobalClash ==
    ASSUME ImportsInv, NEW m \in Mods, Clash(global \cup Globals(m))
    PROVE  \E p \in Loaded :
               namespace[p] = NoNamespace /\ namespace[m] = NoNamespace
               /\ declares[p] \cap declares[m] # {}
  <1>1. ~Clash(global) /\ global = UNION {Globals(p) : p \in Loaded}
    BY DEF ImportsInv, GlobalOK
  <1>2. \A p \in Mods : \A e \in Globals(p) :
          /\ namespace[p] = NoNamespace
          /\ \E x \in declares[p] : e[1] = <<x>> /\ e[2] = <<p, x>>
    <2> SUFFICES ASSUME NEW p \in Mods, NEW e \in Globals(p)
                 PROVE  /\ namespace[p] = NoNamespace
                        /\ \E x \in declares[p] : e[1] = <<x>> /\ e[2] = <<p, x>>
      OBVIOUS
    <2>1. namespace[p] = NoNamespace /\ e \in Own(p)
      BY DEF Globals
    <2> QED
      BY <2>1, OwnFacts DEF ImportsInv
  <1>3. PICK e \in global \cup Globals(m), f \in global \cup Globals(m) : e[1] = f[1] /\ e[2] # f[2]
    BY DEF Clash
  <1>4. \A g \in global : \E p \in Loaded : p \in Mods /\ g \in Globals(p)
    <2>1. Loaded \subseteq Mods
      BY DEF ImportsInv, StackOK, TypesOK
    <2> QED
      BY <1>1, <2>1
  <1>5. ASSUME NEW g \in global, NEW h \in Globals(m), g[1] = h[1]
        PROVE  \E p \in Loaded :
                   namespace[p] = NoNamespace /\ namespace[m] = NoNamespace
                   /\ declares[p] \cap declares[m] # {}
    <2>1. PICK p \in Loaded : p \in Mods /\ g \in Globals(p)
      BY <1>4
    <2>2. PICK x \in declares[p] : g[1] = <<x>>
      BY <1>2, <2>1
    <2>3. PICK y \in declares[m] : h[1] = <<y>>
      BY <1>2
    <2>4. x = y
      <3>1. <<x>>[1] = <<y>>[1]
        BY <1>5, <2>2, <2>3
      <3> QED
        BY <3>1
    <2>5. x \in declares[p] \cap declares[m]
      BY <2>4
    <2> QED
      BY <1>2, <2>1, <2>5
  <1>6. CASE e \in global /\ f \in global
    BY <1>1, <1>3, <1>6 DEF Clash
  <1>7. CASE e \in global /\ f \in Globals(m)
    BY <1>3, <1>5, <1>7
  <1>8. CASE e \in Globals(m) /\ f \in global
    BY <1>3, <1>5, <1>8
  <1>9. CASE e \in Globals(m) /\ f \in Globals(m)
    <2>1. PICK x \in declares[m] : e[1] = <<x>> /\ e[2] = <<m, x>>
      BY <1>2, <1>9
    <2>2. PICK y \in declares[m] : f[1] = <<y>> /\ f[2] = <<m, y>>
      BY <1>2, <1>9
    <2>3. x = y
      <3>1. <<x>>[1] = <<y>>[1]
        BY <1>3, <2>1, <2>2
      <3> QED
        BY <3>1
    <2> QED
      BY <1>3, <2>1, <2>2, <2>3
  <1> QED
    BY <1>3, <1>6, <1>7, <1>8, <1>9

\* The declarations join the imports, and the module is loaded.
LEMMA DeclareKeeps ==
    ASSUME ImportsInv, Declare
    PROVE  ImportsInv'
  <1> DEFINE m == Top.mod
             l == Len(acts)
             k == Len(loaded)
  <1>1. /\ Resolving /\ Top.files = <<>> /\ Top.rest = <<>>
        /\ UNCHANGED <<program, files, spare, modules, merged>>
        /\ UNCHANGED <<imports, namespace, declares, tag, at_cwd, dotted>>
    BY DEF Declare, program, files
  <1>2. /\ m \in Mods /\ m \in modules /\ m \in Loading /\ m \notin Loaded
        /\ l \in Nat \ {0} /\ l \in 1..l /\ m = acts[l].mod
        /\ merged[m] \cup Pending(Top) = Reaches(m) /\ merged[m] \subseteq Loaded
    BY <1>1, TopFacts
  <1>3. merged[m] = Reaches(m)
    <2>1. Pending(Top) = {}
      BY <1>1 DEF Pending, AcceptedIn, Elems
    <2> QED
      BY <1>2, <2>1
  <1>4. CASE Clash(symbols[m] \cup Own(m)) \/ Clash(global \cup Globals(m))
    <2>1. UNCHANGED <<loaded, acts, symbols, global>> /\ phase' = "redeclared"
      BY <1>4 DEF Declare
    <2>2. CASE Clash(symbols[m] \cup Own(m))
      <3>1. symbols[m] \subseteq InReach(m)
        BY <1>1, TableInReach
      <3>2. Own(m) \subseteq InReach(m)
        BY DEF InReach
      <3>3. Clash(InReach(m))
        BY <2>2, <3>1, <3>2, ClashGrows
      <3> QED
        BY <1>1, <2>1, <3>3, RefuseKeeps DEF Phases, Real, Reported
    <2>3. CASE Clash(global \cup Globals(m))
      <3>1. Real
        BY <1>2, <2>3, GlobalClash DEF Real, Reported
      <3> QED
        BY <1>1, <2>1, <3>1, RefuseKeeps DEF Phases
    <2> QED
      BY <1>4, <2>2, <2>3
  <1>5. CASE ~(Clash(symbols[m] \cup Own(m)) \/ Clash(global \cup Globals(m)))
    <2>1. /\ symbols' = [symbols EXCEPT ![m] = @ \cup Own(m)]
          /\ global' = global \cup Globals(m)
          /\ loaded' = Append(loaded, m)
          /\ acts' = SubSeq(acts, 1, l - 1)
          /\ phase' = IF m = Main THEN "loaded" ELSE phase
      BY <1>5 DEF Declare
    <2>2. /\ acts' \in Seq(ActType) /\ Len(acts') = l - 1
          /\ \A i \in 1..l - 1 : acts'[i] = acts[i]
      <3>1. acts \in Seq(ActType) /\ acts # <<>>
        BY <1>1 DEF ImportsInv, TypesOK, Resolving
      <3> QED
        BY <2>1, <3>1, FrontFacts
    <2> SUFFICES ASSUME NEW M, M = m
                 PROVE  ImportsInv'
      OBVIOUS
    <2>3. /\ M \in Mods /\ M \in modules /\ M \in Loading /\ M \notin Loaded
          /\ M = acts[l].mod
          /\ merged[M] = Reaches(M) /\ merged[M] \subseteq Loaded
          /\ ~Clash(symbols[M] \cup Own(M)) /\ ~Clash(global \cup Globals(M))
      BY <1>2, <1>3, <1>5
    <2>4. /\ symbols' = [symbols EXCEPT ![M] = @ \cup Own(M)]
          /\ global' = global \cup Globals(M)
          /\ loaded' = Append(loaded, M)
          /\ phase' \in {"load", "loaded"}
      BY <1>1, <2>1 DEF Resolving
    <2> HIDE DEF m
    <2>5. /\ loaded \in Seq(Mods) /\ symbols \in [Mods -> SUBSET Entries]
          /\ modules \subseteq Mods /\ TypesOK
      BY DEF ImportsInv, TypesOK
    <2>6. /\ k \in Nat /\ loaded' \in Seq(Mods) /\ Len(loaded') = k + 1
          /\ \A i \in 1..k : loaded'[i] = loaded[i]
          /\ loaded'[k + 1] = M
          /\ Loaded' = Loaded \cup {M}
      BY <2>3, <2>4, <2>5, AppendProperties, LenProperties, ElemsOfAppend DEF Loaded
    <2>7. /\ symbols'[M] = symbols[M] \cup Own(M)
          /\ \A q \in Mods : q # M => symbols'[q] = symbols[q]
      BY <2>3, <2>4, <2>5
    <2>8. /\ \A q : Own(q)' = Own(q)
          /\ \A q : Globals(q)' = Globals(q)
          /\ \A q : Reaches(q)' = Reaches(q)
          /\ \A q : Base(q)' = Base(q)
          /\ \A a : Pending(a)' = Pending(a)
      <3>1. \A q : Own(q)' = Own(q)
        BY <1>1 DEF Own
      <3>2. \A f : Accepted(f)' = Accepted(f)
        BY <1>1 DEF Accepted, Special, MatchesTarget, PlatformFileExists
      <3> QED
        BY <1>1, <3>1, <3>2 DEF Globals, Reaches, Base, Pending, AcceptedIn
    <2>9. \A q \in Loaded : q \in modules /\ q \in Mods /\ q # M /\ Exports(q)' = Exports(q)
      <3> SUFFICES ASSUME NEW q \in Loaded
                   PROVE  q \in modules /\ q \in Mods /\ q # M /\ Exports(q)' = Exports(q)
        OBVIOUS
      <3>1. q # M /\ q \in Mods /\ q \in modules
        BY <2>3 DEF ImportsInv, StackOK, TypesOK
      <3>2. symbols'[q] = symbols[q]
        BY <2>7, <3>1
      <3> QED
        BY <1>1, <2>8, <3>1, <3>2 DEF Exports
    <2>10. \A e \in Own(M) : e \in Entries /\ Known(e)
      BY <2>3, <2>5, OwnFacts DEF Known
    <2>11. TypesOK'
      <3>1. symbols' \in [Mods -> SUBSET Entries]
        BY <2>3, <2>4, <2>5, <2>10
      <3>2. global' \subseteq Entries
        BY <2>4, <2>5, <2>10 DEF TypesOK, Globals
      <3> QED
        BY <1>1, <2>2, <2>4, <2>5, <2>6, <3>1, <3>2 DEF TypesOK, Phases
    <2>12. \A i \in 1..l : i \in 1..l - 1 \/ i = l
      BY <1>2
    <2>13. \A i \in 1..l - 1 : i \in 1..l /\ i # l /\ acts[i].mod # M /\ acts'[i] = acts[i]
      <3> SUFFICES ASSUME NEW i \in 1..l - 1
                   PROVE  i \in 1..l /\ i # l /\ acts[i].mod # M /\ acts'[i] = acts[i]
        OBVIOUS
      <3>1. i \in 1..l /\ i # l
        BY <1>2
      <3> QED
        BY <1>2, <2>2, <2>3, <3>1 DEF ImportsInv, StackOK
    <2>14. StackOK'
      <3>1. \A x : x \in Loading' <=> x \in Loading /\ x # M
        <4>1. \A x : x \in Loading' <=> \E i \in 1..l - 1 : x = acts'[i].mod
          BY <2>2 DEF Loading
        <4>2. \A x : x \in Loading <=> \E i \in 1..l : x = acts[i].mod
          BY DEF Loading
        <4>3. ASSUME NEW x, NEW i \in 1..l - 1, x = acts'[i].mod
              PROVE  x \in Loading /\ x # M
          BY <2>13, <4>2, <4>3
        <4>4. ASSUME NEW x, NEW i \in 1..l, x = acts[i].mod, x # M
              PROVE  \E j \in 1..l - 1 : x = acts'[j].mod
          <5>1. i \in 1..l - 1
            BY <2>3, <2>12, <4>4
          <5> QED
            BY <2>13, <4>4, <5>1
        <4> QED
          BY <4>1, <4>2, <4>3, <4>4
      <3>2. modules' = Loaded' \cup Loading' /\ Loading' \cap Loaded' = {}
        BY <1>1, <2>3, <2>6, <3>1 DEF ImportsInv, StackOK
      <3>3. \A i, j \in 1..l - 1 : acts'[i].mod = acts'[j].mod => i = j
        BY <2>13 DEF ImportsInv, StackOK
      <3> QED
        BY <2>2, <3>2, <3>3 DEF StackOK
    <2>15. MergedOK'
      <3>1. ASSUME NEW i \in 1..l - 1
            PROVE  (merged[acts[i].mod] \cup Pending(acts[i]) = Reaches(acts[i].mod))'
        <4>1. merged[acts[i].mod] \cup Pending(acts[i]) = Reaches(acts[i].mod)
          BY <2>13 DEF ImportsInv, MergedOK
        <4> QED
          BY <1>1, <2>8, <2>13, <4>1
      <3>2. \A q \in Mods : merged'[q] \subseteq Loaded'
        BY <1>1, <2>6 DEF ImportsInv, MergedOK
      <3>3. \A q \in Mods \ modules : merged'[q] = {} /\ symbols'[q] = {}
        BY <1>1, <2>3, <2>7 DEF ImportsInv, MergedOK
      <3> QED
        BY <1>1, <2>2, <3>1, <3>2, <3>3 DEF MergedOK
    <2>16. ImportsFirst'
      <3> SUFFICES ASSUME NEW i \in 1..k + 1
                   PROVE  (/\ \A j \in 1..i - 1 : loaded[i] # loaded[j]
                           /\ Reaches(loaded[i]) \subseteq {loaded[j] : j \in 1..i - 1}
                           /\ merged[loaded[i]] = Reaches(loaded[i]))'
        BY <2>6 DEF ImportsFirst
      <3>1. CASE i \in 1..k
        <4>1. /\ \A j \in 1..i - 1 : loaded[i] # loaded[j]
              /\ Reaches(loaded[i]) \subseteq {loaded[j] : j \in 1..i - 1}
              /\ merged[loaded[i]] = Reaches(loaded[i])
          BY <3>1 DEF ImportsInv, ImportsFirst
        <4>2. loaded'[i] = loaded[i] /\ \A j \in 1..i - 1 : loaded'[j] = loaded[j]
          BY <2>6, <3>1
        <4>3. {loaded'[j] : j \in 1..i - 1} = {loaded[j] : j \in 1..i - 1}
          BY <4>2
        <4> QED
          BY <1>1, <2>8, <4>1, <4>2, <4>3
      <3>2. CASE i = k + 1
        <4>1. \A j \in 1..i - 1 : j \in 1..k /\ loaded'[j] = loaded[j] /\ loaded[j] \in Loaded
          BY <2>6, <3>2 DEF Loaded, Elems
        <4>2. Loaded = {loaded'[j] : j \in 1..i - 1}
          <5>1. i - 1 = k
            BY <2>6, <3>2
          <5> QED
            BY <4>1, <5>1 DEF Loaded, Elems
        <4>3. loaded'[i] = M
          BY <2>6, <3>2
        <4> QED
          BY <1>1, <2>3, <2>8, <4>1, <4>2, <4>3
      <3> QED
        BY <2>6, <3>1, <3>2
    <2>17. TablesOK'
      <3>1. ASSUME NEW q \in modules
            PROVE  (symbols[q] = Table(q))'
        <4>1. symbols[q] = Table(q) /\ merged[q] \subseteq Loaded /\ q \in Mods
          BY <2>5 DEF ImportsInv, TablesOK, MergedOK
        <4>2. \A e : (\E r \in merged'[q] : e \in Exports(r)') <=> \E r \in merged[q] : e \in Exports(r)
          BY <1>1, <2>9, <4>1
        <4>3. CASE q = M
          <5>1. symbols'[q] = symbols[q] \cup Own(q) /\ q \in Loaded' /\ q \notin Loaded
            BY <2>3, <2>6, <2>7, <4>3
          <5>2. \A e : e \in symbols'[q] <=> e \in Table(q)'
            BY <2>8, <4>1, <4>2, <5>1, TableElement
          <5> QED
            BY <5>2
        <4>4. CASE q # M
          <5>1. q \in Loaded' <=> q \in Loaded
            BY <2>6, <4>4
          <5>2. \A e : e \in Table(q)' <=> e \in Table(q)
            BY <2>8, <4>2, <5>1, TableElement
          <5> QED
            BY <2>7, <4>1, <4>4, <5>2
        <4> QED
          BY <4>3, <4>4
      <3>2. \A q \in Mods : ~Clash(symbols'[q])
        BY <2>3, <2>7 DEF ImportsInv, TablesOK
      <3>3. \A e : Known(e)' <=> Known(e)
        BY <1>1, <2>8 DEF Known
      <3>4. \A q \in Mods : \A e \in symbols'[q] : Known(e)
        BY <2>7, <2>10 DEF ImportsInv, TablesOK
      <3>5. (\A q \in Mods : ~Clash(symbols[q]))'
        BY <3>2 DEF Clash
      <3> QED
        BY <1>1, <3>1, <3>3, <3>4, <3>5 DEF TablesOK
    <2>18. GlobalOK'
      <3>1. global' = UNION {Globals(q) : q \in Loaded \cup {M}}
        BY <2>4 DEF ImportsInv, GlobalOK
      <3>2. ~Clash(global')
        BY <2>3, <2>4
      <3> QED
        BY <2>6, <2>8, <3>1, <3>2 DEF GlobalOK, Clash
    <2>19. RedeclaredIsReal'
      BY <2>4 DEF RedeclaredIsReal
    <2> QED
      BY <2>11, <2>14, <2>15, <2>16, <2>17, <2>18, <2>19 DEF ImportsInv
  <1> QED
    BY <1>4, <1>5

\* Before the main module is loaded everything is empty.
LEMMA ImportsInit ==
    ASSUME Init
    PROVE  ImportsInv
  <1>1. /\ imports = [m \in Mods |-> <<>>] /\ namespace = [m \in Mods |-> NoNamespace]
        /\ declares = [m \in Mods |-> {}] /\ phase = "load" /\ spare = MaxImports
        /\ modules = {} /\ loaded = <<>> /\ acts = <<>>
        /\ symbols = [m \in Mods |-> {}] /\ global = {} /\ merged = [m \in Mods |-> {}]
    BY DEF Init
  <1>2. TypesOK
    BY <1>1, MaxImportsAssumption, EmptySeq DEF TypesOK, Phases
  <1>3. Loaded = {} /\ Loading = {} /\ Len(acts) = 0 /\ Len(loaded) = 0
    BY <1>1 DEF Loaded, Loading, Elems
  <1>4. StackOK /\ ImportsFirst /\ RedeclaredIsReal
    BY <1>1, <1>3 DEF StackOK, ImportsFirst, RedeclaredIsReal
  <1>5. MergedOK
    BY <1>1, <1>3 DEF MergedOK
  <1>6. TablesOK
    BY <1>1 DEF TablesOK, Clash
  <1>7. GlobalOK
    BY <1>1, <1>3 DEF GlobalOK, Clash
  <1> QED
    BY <1>2, <1>4, <1>5, <1>6, <1>7 DEF ImportsInv

\* Nothing changes when nothing happens.
LEMMA ImportsStutter ==
    ASSUME ImportsInv, UNCHANGED vars
    PROVE  ImportsInv'
  <1>1. UNCHANGED <<program, files, spare, modules, loaded, acts, symbols, global, merged, phase>>
    BY DEF vars
  <1>2. phase' \in Phases /\ (phase' = "redeclared" => Real)
    BY <1>1 DEF ImportsInv, TypesOK, RedeclaredIsReal, Real
  <1> QED
    BY <1>1, <1>2, RefuseKeeps

\* Each step of loading keeps the invariant.
LEMMA ImportsStep ==
    ASSUME ImportsInv, [Next]_vars
    PROVE  ImportsInv'
  <1>1. CASE LoadMain
    <2>1. phase = "load" /\ Main \in Mods \ modules /\ Load(Main)
      BY <1>1, MainAssumption DEF LoadMain
    <2> QED
      BY <2>1, LoadKeeps
  <1>2. CASE ImportNew
    <2>1. phase = "load" /\ Import \in Mods \ modules /\ Load(Import)
      BY <1>2 DEF ImportNew, Importing, Resolving
    <2>2. PICK m \in Mods \ modules : m = Import /\ Load(m)
      BY <2>1
    <2> QED
      BY <2>1, <2>2, LoadKeeps
  <1>3. CASE ImportDirectory
    BY <1>3, ImportDirectoryKeeps
  <1>4. CASE SkipFile
    BY <1>4, SkipFileKeeps
  <1>5. CASE ImportCircular
    BY <1>5, CircularKeeps
  <1>6. CASE ImportLoaded
    BY <1>6, ImportLoadedKeeps
  <1>7. CASE Declare
    BY <1>7, DeclareKeeps
  <1>8. CASE Stopped \/ UNCHANGED vars
    BY <1>8, ImportsStutter DEF Stopped
  <1> QED
    BY <1>1, <1>2, <1>3, <1>4, <1>5, <1>6, <1>7, <1>8 DEF Next

-----------------------------------------------------------------------------
(* The theorems. *)

\* The invariant from which the others follow.
THEOREM ImportsInvariant == Spec => []ImportsInv
  <1>1. Init => ImportsInv
    BY ImportsInit
  <1>2. ImportsInv /\ [Next]_vars => ImportsInv'
    BY ImportsStep
  <1> QED
    BY <1>1, <1>2, PTL DEF Spec

\* Every module that load_module is called for is loaded or once on the stack
\* of the modules that are being loaded.
THEOREM ImportsTypeCorrect == Spec => []ImportsTypeOK
  <1>1. ASSUME ImportsInv
        PROVE  ImportsTypeOK
    <2>1. \A m \in Mods : \A e \in symbols[m] : e[1] \in Paths
      BY <1>1 DEF ImportsInv, TypesOK, Entries
    <2>2. modules = Loaded \cup {acts[i].mod : i \in 1..Len(acts)}
      BY <1>1 DEF ImportsInv, StackOK, Loading
    <2>3. \A i, j \in 1..Len(acts) : acts[i].mod = acts[j].mod => i = j
      BY <1>1 DEF ImportsInv, StackOK
    <2>4. \A m \in Mods : imports[m] \in Seq(Mods \cup {Dir})
      BY <1>1 DEF ImportsInv, TypesOK
    <2> QED
      BY <1>1, <2>1, <2>2, <2>3, <2>4 DEF ImportsInv, TypesOK, Phases, ImportsTypeOK
  <1> QED
    BY <1>1, ImportsInvariant, PTL

\* A module is loaded once, after all that it imports, whatever the modules
\* import and in whatever order: resolve_import_file never merges the table of
\* a module that is not finished.
THEOREM ImportsFirstCorrect == Spec => []ImportsFirst
  <1>1. ImportsInv => ImportsFirst
    BY DEF ImportsInv
  <1> QED
    BY <1>1, ImportsInvariant, PTL

\* merge_symbol_table and symbol_table_insert refuse a program only if it has
\* two symbols of the same name where both can be seen.
THEOREM RedeclaredCorrect == Spec => []RedeclaredIsReal
  <1>1. ImportsInv => RedeclaredIsReal
    BY DEF ImportsInv
  <1> QED
    BY <1>1, ImportsInvariant, PTL

\* A module sees what it declares and what the modules that it imports
\* declare, and nothing that only reaches it through their tables, but for
\* what shares the namespace of a module that it imports.
THEOREM SeesCorrect == Spec => []SeesItsImports
  <1>1. ASSUME ImportsInv
        PROVE  SeesItsImports
    <2>1. TypesOK /\ StackOK /\ MergedOK /\ TablesOK
      BY <1>1 DEF ImportsInv
    <2>2. \A m \in Loaded : m \in modules /\ m \in Mods /\ merged[m] = Reaches(m)
      <3> SUFFICES ASSUME NEW m \in Loaded
                   PROVE  m \in modules /\ m \in Mods /\ merged[m] = Reaches(m)
        OBVIOUS
      <3>1. PICK i \in 1..Len(loaded) : m = loaded[i]
        BY DEF Loaded, Elems
      <3> QED
        BY <1>1, <2>1, <3>1 DEF ImportsInv, ImportsFirst, StackOK, TypesOK
    <2>3. SeesImports
      <3> SUFFICES ASSUME NEW m \in Loaded, NEW p \in Reaches(m) \cup {m}, NEW e \in Own(p)
                   PROVE  e \in symbols[m]
        BY DEF SeesImports
      <3>1. symbols[m] = Table(m)
        BY <2>1, <2>2 DEF TablesOK
      <3>2. CASE p = m
        BY <3>1, <3>2, TableElement
      <3>3. CASE p \in Reaches(m)
        <4>1. p \in merged[m] /\ p \in Loaded
          BY <2>1, <2>2, <3>3 DEF MergedOK
        <4>2. e \in Exports(p)
          BY <2>1, <4>1, OwnIsExported
        <4> QED
          BY <3>1, <4>1, <4>2, TableElement
      <3> QED
        BY <3>2, <3>3
    <2>4. SeesNoMore
      <3> SUFFICES ASSUME NEW m \in Mods, NEW e \in symbols[m], e[2] # Space
                   PROVE  LET p == e[2][1]
                          IN  p = m \/ p \in Reaches(m) \/ Sharing(m, p)
        BY DEF SeesNoMore
      <3> DEFINE p == e[2][1]
      <3>1. m \in modules
        BY <2>1 DEF MergedOK
      <3>2. e \in Table(m) /\ merged[m] \subseteq Reaches(m) /\ merged[m] \subseteq Loaded
        <4>1. e \in Table(m) /\ merged[m] \subseteq Loaded
          BY <2>1, <3>1 DEF TablesOK, MergedOK
        <4>2. CASE m \in Loaded
          BY <2>2, <4>1, <4>2
        <4>3. CASE m \in Loading
          <5>1. PICK i \in 1..Len(acts) : m = acts[i].mod
            BY <4>3 DEF Loading
          <5>2. merged[m] \cup Pending(acts[i]) = Reaches(m)
            BY <2>1, <5>1 DEF MergedOK
          <5> QED
            BY <4>1, <5>2
        <4> QED
          BY <2>1, <3>1, <4>1, <4>2, <4>3 DEF StackOK
      <3>3. CASE e \in Base(m)
        BY <3>3 DEF Base
      <3>4. CASE e \in Own(m)
        BY <2>1, <3>4, OwnFacts
      <3>5. ASSUME NEW q \in merged[m], e \in Exports(q)
            PROVE  p = m \/ p \in Reaches(m) \/ Sharing(m, p)
        <4>1. q \in Reaches(m) /\ q \in Loaded /\ q \in modules /\ q \in Mods
          BY <2>2, <3>2
        <4>2. CASE namespace[q] = NoNamespace
          <5>1. e \in Own(q)
            BY <3>5, <4>2 DEF Exports
          <5> QED
            BY <2>1, <4>1, <5>1, OwnFacts
        <4>3. CASE namespace[q] # NoNamespace
          <5>1. e \in symbols[q] /\ e[1][1] = namespace[q]
            BY <3>5, <4>3 DEF Exports
          <5>2. PICK r \in modules : e \in Own(r)
            <6>1. Known(e)
              BY <2>1, <4>1, <5>1 DEF TablesOK
            <6>2. \A n \in Namespaces : e # <<<<n>>, Space>>
              OBVIOUS
            <6> QED
              BY <6>1, <6>2 DEF Known
          <5>3. r \in Mods /\ p = r
            BY <2>1, <5>2, OwnFacts DEF TypesOK
          <5>4. CASE namespace[r] # NoNamespace
            <6>1. namespace[r] = namespace[q]
              BY <2>1, <5>1, <5>2, <5>3, <5>4, OwnFacts
            <6> QED
              BY <4>1, <4>3, <5>3, <6>1 DEF Sharing
          <5>5. CASE namespace[r] = NoNamespace
            \* The name of a declaration would be that of q's namespace.
            <6>1. PICK x \in declares[r] : e[1] = <<x>> /\ e[2] = <<r, x>>
              <7>1. \E x \in declares[r] :
                      /\ e[2] = <<r, x>>
                      /\ e[1] = IF namespace[r] = NoNamespace THEN <<x>> ELSE <<namespace[r], x>>
                BY <2>1, <5>2, <5>3, OwnFacts
              <7> QED
                BY <5>5, <7>1
            <6>2. e[1] = <<namespace[q]>>
              BY <5>1, <6>1
            <6> DEFINE b == <<<<namespace[q]>>, Space>>
            <6>3. b \in symbols[q]
              <7>1. b \in Base(q) /\ symbols[q] = Table(q)
                BY <2>1, <4>1, <4>3 DEF Base, TablesOK
              <7> QED
                BY <7>1, TableElement
            <6>4. b[1] = e[1] /\ b[2] # e[2]
              BY <6>2
            <6>5. Clash(symbols[q])
              BY <5>1, <6>3, <6>4 DEF Clash
            <6> QED
              BY <2>1, <4>1, <6>5 DEF TablesOK
          <5> QED
            BY <5>4, <5>5
        <4> QED
          BY <4>2, <4>3
      <3> QED
        BY <3>2, <3>3, <3>4, <3>5, TableElement
    <2> QED
      BY <2>3, <2>4 DEF SeesItsImports
  <1> QED
    BY <1>1, ImportsInvariant, PTL

\* Of the variants of a module in a directory those for the platform are
\* imported, and the one for all others if there is none, provided that the
\* path leads to the directory from where the compiler runs and has no dot.
THEOREM PlatformFilesCorrect == Spec => [](at_cwd /\ ~dotted => PlatformFiles)
  <1>1. ASSUME ImportsInv, at_cwd, ~dotted
        PROVE  PlatformFiles
    <2>1. \A f : f \in Elems(Directory) => (Accepted(f) <=> ForPlatform(f))
      BY <1>1 DEF Accepted, Special, MatchesTarget, PlatformFileExists, ForPlatform
    <2> SUFFICES ASSUME NEW m \in Loaded, imports[m] = <<Dir>>
                 PROVE  merged[m] = {f \in Elems(Directory) : ForPlatform(f)}
      BY DEF PlatformFiles
    <2>2. merged[m] = Reaches(m)
      <3>1. PICK i \in 1..Len(loaded) : m = loaded[i]
        BY DEF Loaded, Elems
      <3> QED
        BY <1>1, <3>1 DEF ImportsInv, ImportsFirst
    <2>3. Elems(<<Dir>>) = {Dir}
      BY DEF Elems
    <2>4. Reaches(m) = {f \in Elems(Directory) : Accepted(f)}
      BY <2>3, DirAssumption DEF Reaches
    <2> QED
      BY <2>1, <2>2, <2>4
  <1> QED
    BY <1>1, ImportsInvariant, PTL
=============================================================================
