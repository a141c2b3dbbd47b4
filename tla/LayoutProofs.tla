----------------------------- MODULE LayoutProofs -----------------------------
(***************************************************************************)
(* Layout's type invariant and MembersApart, proved for programs of any    *)
(* size.                                                                   *)
(*                                                                         *)
(* That members lie apart needs more than the members: what a struct has   *)
(* been told of a member's type must still be true, so a type that is a    *)
(* member is finished, and only a type that is being completed changes     *)
(* (Ready); no addition in uintmax_t wraps as long as nothing exceeds      *)
(* SIZEOF_MAX, which holds because the alignment of everything that takes  *)
(* up space is one of a scalar or pointer (AlignsOK); and all members of   *)
(* an open struct end before the offset that it has come to (Placed).      *)
(***************************************************************************)
EXTENDS Layout, SequenceTheorems, TLAPS

Kinds == {"integer", "any", "struct", "union", "pointer", "function", "slice", "array"}
Numbers == {0} \cup ScalarSizes \cup Declared \cup Instances \cup Counts
Names == Seq(Kinds \X Numbers) \ {<<>>}

Layouts(known) ==
    [size : 0..UINTMAX_MAX, align : 0..UINTMAX_MAX, is_complete : BOOLEAN,
     members : Seq([type : known, offset : Nat])]

ActType(known) == [type : known, next_offset : 0..UINTMAX_MAX]

\* Types are known by their names, and only structs and unions are unfinished.
KnownOK ==
    /\ DOMAIN layout \subseteq Names
    /\ \A t \in DOMAIN layout :
          /\ layout[t] \in Layouts(DOMAIN layout)
          /\ ~layout[t].is_complete => IsAggregate(t)

\* Who is being completed: each struct or union once; the other unfinished
\* ones have no members yet.
ActsOK ==
    /\ acts \in Seq(ActType(DOMAIN layout))
    /\ \A i \in DOMAIN acts : ~layout[acts[i].type].is_complete
    /\ \A i, j \in DOMAIN acts : acts[i].type = acts[j].type => i = j
    /\ \A t \in DOMAIN layout :
          ~layout[t].is_complete /\ (\A i \in DOMAIN acts : acts[i].type # t) =>
             layout[t] = Unfinished

\* The list has finished types, once, pointers among them, before slices.
ListOK ==
    /\ types \in Seq(DOMAIN layout)
    /\ \A i \in DOMAIN types : layout[types[i]].is_complete
    /\ \A i, j \in DOMAIN types : types[i] = types[j] => i = j
    /\ \A t \in DOMAIN layout : Kind(t) = "pointer" => \E i \in DOMAIN types : types[i] = t
    /\ \A i \in DOMAIN types : Kind(types[i]) = "slice" =>
          \E j \in 1..(i - 1) : types[j] = Pointer(Base(types[i]))

\* What takes up space has the alignment of a scalar or of a pointer.
AlignsOK ==
    \A t \in DOMAIN layout :
        /\ layout[t].align \in Alignments \cup {0, UINTMAX_MAX}
        /\ layout[t].size \notin {0, SIZEOF_UNSIZED} => layout[t].align \in Alignments
        /\ IsAggregate(t) => layout[t].align \in Alignments \cup {0}

\* A member's type does not change any more.
Ready ==
    \A t \in DOMAIN layout : \A j \in DOMAIN layout[t].members :
        layout[layout[t].members[j].type].is_complete

Small(size) == size <= SIZEOF_MAX \/ size = SIZEOF_UNSIZED

\* Nothing has exceeded the maximum, and members end before the next offset.
Placed ==
    ~oversized =>
        /\ \A t \in DOMAIN layout :
              Small(Bytes(t)) /\ (IsAggregate(t) => Bytes(t) <= SIZEOF_MAX)
        /\ \A i \in DOMAIN acts :
              /\ acts[i].next_offset <= SIZEOF_MAX
              /\ Kind(acts[i].type) = "struct" =>
                    LET members == layout[acts[i].type].members
                    IN  \A j \in DOMAIN members :
                            members[j].offset + Bytes(members[j].type) <= acts[i].next_offset

LayoutInv ==
    /\ phase \in {"resolve", "refused", "generated"}
    /\ early \subseteq DOMAIN layout
    /\ oversized \in BOOLEAN
    /\ KnownOK
    /\ ActsOK
    /\ ListOK
    /\ AlignsOK
    /\ Ready
    /\ Placed
    /\ MembersApart

\* MembersApart of one member, and of one struct or union, in a given layout.
MemberApart(known, s, j) ==
    LET self == known[s]
        m == self.members[j]
        member == known[m.type]
    IN  /\ m.offset % Greater(member.align, 1) = 0
        /\ member.size > 0 =>
               m.offset + member.size <= self.size /\ self.align % member.align = 0
        /\ Kind(s) = "struct" =>
               \A i \in 1..(j - 1) :
                   self.members[i].offset + known[self.members[i].type].size <= m.offset

Rounded(known, s) ==
    Kind(s) = "struct" \/ known[s].is_complete =>
        known[s].size % Greater(known[s].align, 1) = 0

Apart(known, s) ==
    Rounded(known, s) /\ \A j \in DOMAIN known[s].members : MemberApart(known, s, j)

-----------------------------------------------------------------------------
(***************************************************************************)
(* Sequences.                                                              *)
(***************************************************************************)
\* The elements of a sequence may be seen in a larger set.
LEMMA SeqLarger ==
    ASSUME NEW S, NEW T, S \subseteq T, NEW s \in Seq(S)
    PROVE  s \in Seq(T)
  OBVIOUS

\* A sequence with one more element.
LEMMA AppendFacts ==
    ASSUME NEW S, NEW s \in Seq(S), NEW e \in S
    PROVE  /\ Append(s, e) \in Seq(S) /\ Len(Append(s, e)) = Len(s) + 1
           /\ Len(s) \in Nat /\ DOMAIN s = 1..Len(s)
           /\ DOMAIN Append(s, e) = 1..(Len(s) + 1)
           /\ Append(s, e)[Len(s) + 1] = e
           /\ \A i \in 1..Len(s) : Append(s, e)[i] = s[i]
  OBVIOUS

\* A sequence without its last element.
LEMMA FrontFacts ==
    ASSUME NEW S, NEW s \in Seq(S), s # <<>>
    PROVE  /\ Len(s) \in Nat \ {0} /\ Last(s) = s[Len(s)] /\ Last(s) \in S
           /\ Front(s) \in Seq(S) /\ Len(Front(s)) = Len(s) - 1
           /\ DOMAIN s = 1..Len(s) /\ DOMAIN Front(s) = 1..(Len(s) - 1)
           /\ \A i \in 1..(Len(s) - 1) : Front(s)[i] = s[i]
  <1>1. Len(s) \in Nat /\ DOMAIN s = 1..Len(s) /\ Len(s) # 0
    BY EmptySeq
  <1>2. /\ Front(s) \in Seq(S) /\ Len(Front(s)) = Len(s) - 1
        /\ \A i \in 1..(Len(s) - 1) : Front(s)[i] = s[i]
    BY <1>1 DEF Front
  <1>3. DOMAIN Front(s) = 1..(Len(s) - 1)
    BY <1>1, <1>2
  <1>4. Last(s) = s[Len(s)] /\ s[Len(s)] \in S
    BY <1>1 DEF Last
  <1> QED
    BY <1>1, <1>2, <1>3, <1>4

-----------------------------------------------------------------------------
(***************************************************************************)
(* Arithmetic in uintmax_t.                                                *)
(***************************************************************************)
\* The sizes of the machine, without their names.
LEMMA Machine ==
    /\ UINTMAX_MAX \in Nat /\ SIZEOF_MAX \in Nat /\ SIZEOF_MAX >= 1
    /\ UINTMAX_MAX = 2 * SIZEOF_MAX + 1 /\ SIZEOF_UNSIZED = UINTMAX_MAX
    /\ \A a \in Alignments : a \in 1..SIZEOF_MAX /\ a \in Nat
    /\ ScalarSizes \subseteq Alignments /\ Word \in Alignments /\ Word \in Nat
    /\ 2 * Word \in 1..SIZEOF_MAX
    /\ Counts \subseteq Nat
  BY LayoutAssumption, AlignmentsAssumption
     DEF SIZEOF_MAX, Alignments, SIZEOF_UNSIZED

\* A sum that fits does not wrap.
LEMMA WrappedFacts ==
    ASSUME NEW n \in Nat
    PROVE  /\ Wrapped(n) \in 0..UINTMAX_MAX
           /\ n <= UINTMAX_MAX => Wrapped(n) = n
           /\ Wrapped(UINTMAX_MAX + 1) = 0
  BY Machine DEF Wrapped

\* From an offset to the next multiple of n's divisor a there are fewer than a
\* steps, and none of them is a multiple.
LEMMA NextMultiple ==
    ASSUME NEW n \in Nat, NEW a \in Nat \ {0}
    PROVE  \E d \in 0..(a - 1) :
              /\ (n + d) % a = 0
              /\ \A k \in 0..(d - 1) : (n + k) % a # 0
  <1> DEFINE q == n \div a
             r == n % a
  <1>1. q \in Nat /\ r \in 0..(a - 1) /\ n = (q * a) + r
    OBVIOUS
  <1> HIDE DEF q, r
  <1>2. \A k \in 0..(a - 1) : ((q * a) + k) % a = k
    BY <1>1
  <1>3. CASE r = 0
    <2>1. (n + 0) % a = 0
      BY <1>1, <1>2, <1>3
    <2> QED
      BY <2>1
  <1>4. CASE r # 0
    <2>1. n + (a - r) = ((q + 1) * a) + 0 /\ q + 1 \in Nat
      BY <1>1
    <2>2. (((q + 1) * a) + 0) % a = 0
      BY <1>1
    <2>3. ASSUME NEW k \in 0..((a - r) - 1)
          PROVE  (n + k) % a # 0
      <3>1. n + k = (q * a) + (r + k) /\ r + k \in 0..(a - 1) /\ r + k # 0
        BY <1>1, <1>4
      <3> QED
        BY <1>2, <3>1
    <2>4. a - r \in 0..(a - 1)
      BY <1>1, <1>4
    <2> QED
      BY <2>1, <2>2, <2>3, <2>4
  <1> QED
    BY <1>3, <1>4

\* The loop that pads an offset ends, at the first multiple of the alignment.
LEMMA PaddingFacts ==
    ASSUME NEW offset \in 0..UINTMAX_MAX, NEW align \in 1..UINTMAX_MAX
    PROVE  LET P == Padding(offset, align)
           IN  /\ P \in 0..UINTMAX_MAX
               /\ Wrapped(offset + P) % align = 0
               /\ \A n \in 0..UINTMAX_MAX : Wrapped(offset + n) % align = 0 => P <= n
  <1> DEFINE W == {n \in 0..UINTMAX_MAX : Wrapped(offset + n) % align = 0}
  <1>1. PICK d \in 0..(align - 1) :
          (offset + d) % align = 0 /\ \A k \in 0..(d - 1) : (offset + k) % align # 0
    <2>1. offset \in Nat /\ align \in Nat \ {0}
      BY Machine
    <2> QED
      BY <2>1, NextMultiple
  <1>2. \E w \in W : \A n \in W : w <= n
    <2>1. CASE offset + d <= UINTMAX_MAX
      <3>1. d \in W
        BY <1>1, <2>1, Machine, WrappedFacts
      <3>2. ASSUME NEW n \in W, n < d
            PROVE  FALSE
        <4>1. Wrapped(offset + n) = offset + n /\ n \in 0..(d - 1)
          BY <1>1, <2>1, <3>2, Machine, WrappedFacts
        <4> QED
          BY <1>1, <4>1
      <3> QED
        BY <3>1, <3>2, <1>1
    <2>2. CASE offset + d > UINTMAX_MAX
      <3> DEFINE w == (UINTMAX_MAX + 1) - offset
      <3>1. w \in 0..UINTMAX_MAX /\ offset + w = UINTMAX_MAX + 1 /\ w <= d
        BY <1>1, <2>2, Machine
      <3> HIDE DEF w
      <3>2. w \in W
        BY <3>1, Machine, WrappedFacts
      <3>3. ASSUME NEW n \in W, n < w
            PROVE  FALSE
        <4>1. offset + n <= UINTMAX_MAX /\ offset + n \in Nat /\ n \in 0..(d - 1)
          BY <1>1, <3>1, <3>3, Machine
        <4>2. Wrapped(offset + n) = offset + n
          BY <4>1, WrappedFacts
        <4> QED
          BY <1>1, <4>1, <4>2
      <3> QED
        BY <3>1, <3>2, <3>3
    <2> QED
      BY <1>1, <2>1, <2>2, Machine
  <1>3. Padding(offset, align) = CHOOSE w \in W : \A n \in W : w <= n
    BY DEF Padding, Min
  <1> QED
    BY <1>2, <1>3

\* What Aligned is, for alignments that types have: a multiple, not less than
\* the offset, and for alignments of things that take up space not more than
\* SIZEOF_MAX + 1.
LEMMA AlignedFacts ==
    ASSUME NEW offset \in 0..UINTMAX_MAX, NEW align \in Alignments \cup {0, UINTMAX_MAX}
    PROVE  /\ Aligned(offset, align) \in 0..UINTMAX_MAX
           /\ Aligned(offset, align) % Greater(align, 1) = 0
           /\ offset <= SIZEOF_MAX =>
                 /\ Aligned(offset, align) >= offset
                 /\ align # UINTMAX_MAX => Aligned(offset, align) <= SIZEOF_MAX + 1
  <1>1. CASE align = 0
    BY <1>1, Machine DEF Aligned, Greater
  <1>2. CASE align # 0
    <2> DEFINE P == Padding(offset, align)
    <2>1. align \in 1..UINTMAX_MAX
      BY <1>2, Machine
    <2>2. /\ P \in 0..UINTMAX_MAX
          /\ Wrapped(offset + P) % align = 0
          /\ \A n \in 0..UINTMAX_MAX : Wrapped(offset + n) % align = 0 => P <= n
      BY <2>1, PaddingFacts
    <2> HIDE DEF P
    <2>3. Aligned(offset, align) = Wrapped(offset + P) /\ Greater(align, 1) = align
      BY <1>2, <2>1 DEF Aligned, Greater, P
    <2>4. Wrapped(offset + P) \in 0..UINTMAX_MAX
      BY <2>2, Machine, WrappedFacts
    <2>5. ASSUME offset <= SIZEOF_MAX
          PROVE  /\ Wrapped(offset + P) >= offset
                 /\ align # UINTMAX_MAX => Wrapped(offset + P) <= SIZEOF_MAX + 1
      <3> DEFINE M == IF align = UINTMAX_MAX THEN UINTMAX_MAX ELSE SIZEOF_MAX + 1
      <3>1. M \in offset..UINTMAX_MAX /\ M % align = 0
        BY <1>2, <2>1, <2>5, Machine, AlignmentsAssumption
      <3>2. M - offset \in 0..UINTMAX_MAX /\ offset + (M - offset) = M /\ M \in Nat
        BY <3>1, Machine
      <3>3. P <= M - offset
        BY <2>2, <3>1, <3>2, WrappedFacts
      <3>4. Wrapped(offset + P) = offset + P
        BY <2>2, <3>1, <3>2, <3>3, Machine, WrappedFacts
      <3> QED
        BY <2>2, <3>2, <3>3, <3>4
    <2> QED
      BY <2>2, <2>3, <2>4, <2>5
  <1> QED
    BY <1>1, <1>2

-----------------------------------------------------------------------------
(***************************************************************************)
(* Names and entries.                                                      *)
(***************************************************************************)
\* A name made by a constructor can be taken apart again.
LEMMA NameFacts ==
    ASSUME NEW kind \in Kinds, NEW count \in Numbers
    PROVE  /\ Leaf(kind, count) \in Names /\ Kind(Leaf(kind, count)) = kind
           /\ CountOf(Leaf(kind, count)) = count
           /\ \A base \in Names :
                 /\ Of(kind, count, base) \in Names
                 /\ Kind(Of(kind, count, base)) = kind
                 /\ CountOf(Of(kind, count, base)) = count
                 /\ Base(Of(kind, count, base)) = base
  <1> DEFINE x == <<kind, count>>
  <1>1. x \in Kinds \X Numbers /\ x[1] = kind /\ x[2] = count
    OBVIOUS
  <1> HIDE DEF x
  <1>2. /\ Leaf(kind, count) = <<x>> /\ <<x>> \in Seq(Kinds \X Numbers) /\ Len(<<x>>) = 1
        /\ <<x>>[1] = x /\ <<x>> # <<>>
    BY <1>1 DEF Leaf, x
  <1>3. ASSUME NEW base \in Names
        PROVE  /\ <<x>> \o base \in Names
               /\ (<<x>> \o base)[1] = x
               /\ Tail(<<x>> \o base) = base
    <2>1. base \in Seq(Kinds \X Numbers) /\ Len(base) \in Nat
      BY DEF Names
    <2> DEFINE name == <<x>> \o base
    <2>2. /\ name \in Seq(Kinds \X Numbers) /\ Len(name) = 1 + Len(base) /\ name[1] = x
          /\ \A i \in 1..Len(base) : name[i + 1] = base[i]
      BY <1>2, <2>1
    <2> HIDE DEF name
    <2>3. name # <<>>
      BY <2>1, <2>2
    <2>4. /\ Tail(name) \in Seq(Kinds \X Numbers) /\ Len(Tail(name)) = Len(base)
          /\ \A i \in 1..Len(base) : Tail(name)[i] = base[i]
      BY <2>1, <2>2, <2>3
    <2>5. Tail(name) = base
      BY <2>1, <2>4, SeqEqual
    <2> QED
      BY <2>2, <2>3, <2>5 DEF name, Names
  <1>4. Leaf(kind, count) \in Names /\ Kind(Leaf(kind, count)) = kind
        /\ CountOf(Leaf(kind, count)) = count
    BY <1>1, <1>2 DEF Names, Kind, CountOf
  <1>5. ASSUME NEW base \in Names
        PROVE  /\ Of(kind, count, base) \in Names
               /\ Kind(Of(kind, count, base)) = kind
               /\ CountOf(Of(kind, count, base)) = count
               /\ Base(Of(kind, count, base)) = base
    <2>1. Of(kind, count, base) = <<x>> \o base
      BY DEF Of, x
    <2> QED
      BY <1>1, <1>3, <2>1 DEF Kind, CountOf, Base
  <1> QED
    BY <1>4, <1>5

\* The list of types with one more, or with one changed.
LEMMA WithFacts ==
    ASSUME NEW known, NEW type, NEW self
    PROVE  /\ DOMAIN With(known, type, self) = DOMAIN known \cup {type}
           /\ With(known, type, self)[type] = self
           /\ \A t \in DOMAIN known \ {type} : With(known, type, self)[t] = known[t]
  BY DEF With

\* A size and an alignment without members.
LEMMA SizedFacts ==
    ASSUME NEW size \in 0..UINTMAX_MAX, NEW align \in 0..UINTMAX_MAX, NEW known
    PROVE  /\ Sized(size, align) \in Layouts(known) /\ Unfinished \in Layouts(known)
           /\ Sized(size, align).size = size /\ Sized(size, align).align = align
           /\ Sized(size, align).is_complete /\ Sized(size, align).members = <<>>
           /\ Unfinished.size = 0 /\ Unfinished.align = 0
           /\ ~Unfinished.is_complete /\ Unfinished.members = <<>>
  <1>1. \A S : <<>> \in Seq(S)
    OBVIOUS
  <1>2. 0 \in 0..UINTMAX_MAX
    BY Machine
  <1> QED
    BY <1>1, <1>2 DEF Sized, Unfinished, Layouts

\* What is known of an entry, when more types are known.
LEMMA LayoutsLarger ==
    ASSUME NEW K, NEW L, K \subseteq L, NEW x \in Layouts(K)
    PROVE  x \in Layouts(L)
  <1> DEFINE A == [type : K, offset : Nat]
             B == [type : L, offset : Nat]
  <1>1. A \subseteq B
    OBVIOUS
  <1>2. x.members \in Seq(A)
    BY DEF Layouts
  <1> HIDE DEF A, B
  <1>3. x.members \in Seq(B)
    BY <1>1, <1>2, SeqLarger
  <1> QED
    BY <1>3 DEF Layouts, B

\* What the elements of an entry and of an activation are.
LEMMA MembersTyped ==
    ASSUME NEW K, NEW x \in Layouts(K)
    PROVE  /\ x.size \in 0..UINTMAX_MAX /\ x.align \in 0..UINTMAX_MAX
           /\ x.is_complete \in BOOLEAN
           /\ x.members \in Seq([type : K, offset : Nat])
           /\ Len(x.members) \in Nat /\ DOMAIN x.members = 1..Len(x.members)
           /\ \A j \in DOMAIN x.members :
                 x.members[j].type \in K /\ x.members[j].offset \in Nat
  <1> DEFINE A == [type : K, offset : Nat]
  <1>1. x.members \in Seq(A)
    BY DEF Layouts
  <1> HIDE DEF A
  <1>2. /\ Len(x.members) \in Nat /\ DOMAIN x.members = 1..Len(x.members)
        /\ \A j \in DOMAIN x.members : x.members[j] \in A
    BY <1>1
  <1> QED
    BY <1>1, <1>2 DEF Layouts, A

\* What the elements of the stack are.
LEMMA ActsTyped ==
    ASSUME NEW K, NEW s \in Seq(ActType(K))
    PROVE  /\ Len(s) \in Nat /\ DOMAIN s = 1..Len(s)
           /\ \A i \in DOMAIN s :
                 s[i].type \in K /\ s[i].next_offset \in 0..UINTMAX_MAX
  <1>1. \A i \in DOMAIN s : s[i] \in ActType(K)
    OBVIOUS
  <1> QED
    BY <1>1 DEF ActType

\* A stack, when more types are known.
LEMMA ActTypeLarger ==
    ASSUME NEW K, NEW L, K \subseteq L, NEW s \in Seq(ActType(K))
    PROVE  s \in Seq(ActType(L))
  <1>1. ActType(K) \subseteq ActType(L)
    BY DEF ActType
  <1> QED
    BY <1>1, SeqLarger

\* What is apart stays so when other entries change.
LEMMA ApartStays ==
    ASSUME NEW known, NEW new, NEW s, NEW n \in Nat,
           new[s] = known[s], DOMAIN known[s].members = 1..n,
           \A j \in 1..n : new[known[s].members[j].type] = known[known[s].members[j].type],
           Apart(known, s)
    PROVE  Apart(new, s)
  <1>1. ASSUME NEW j \in 1..n
        PROVE  MemberApart(new, s, j)
    <2>1. /\ MemberApart(known, s, j)
          /\ \A i \in 1..(j - 1) : i \in 1..n
      BY DEF Apart
    <2> QED
      BY <2>1 DEF MemberApart
  <1> QED
    BY <1>1 DEF Apart, Rounded

-----------------------------------------------------------------------------
(***************************************************************************)
(* The steps.                                                              *)
(***************************************************************************)
\* A type that is made without members, other than a struct or a union.
LEMMA UniqueKeeps ==
    ASSUME LayoutInv, NEW type \in Names, ~IsAggregate(type),
           NEW size \in 0..SIZEOF_MAX, NEW align \in Alignments \cup {0, UINTMAX_MAX},
           size # 0 => align \in Alignments,
           Kind(type) = "slice" => Pointer(Base(type)) \in DOMAIN layout,
           \A base \in Names : Kind(Pointer(base)) = "pointer",
           Kind(type) = "slice" => Base(type) \in Names,
           type_unique(type, size, align),
           early' = early \/ early' = early \cup {type}
    PROVE  LayoutInv'
  <1> DEFINE self == Sized(size, align)
             K == DOMAIN layout
             n == Len(types)
  <1>1. /\ type \notin K /\ layout' = With(layout, type, self)
        /\ types' = Append(types, type)
        /\ UNCHANGED <<phase, acts, oversized>>
    BY DEF type_unique, Known
  <1>2. /\ size \in 0..UINTMAX_MAX /\ align \in 0..UINTMAX_MAX /\ size # SIZEOF_UNSIZED
        /\ size <= SIZEOF_MAX
    BY Machine
  <1>3. /\ self.size = size /\ self.align = align /\ self.is_complete /\ self.members = <<>>
        /\ \A known : self \in Layouts(known)
    <2>1. ASSUME NEW known
          PROVE  self \in Layouts(known)
      BY <1>2, SizedFacts
    <2> QED
      BY <1>2, <2>1, SizedFacts
  <1> HIDE DEF self
  <1>4. /\ DOMAIN layout' = K \cup {type} /\ layout'[type] = self
        /\ \A t \in K : layout'[t] = layout[t]
    BY <1>1 DEF With
  <1>5. /\ types' \in Seq(K \cup {type}) /\ n \in Nat /\ Len(types') = n + 1
        /\ DOMAIN types = 1..n /\ DOMAIN types' = 1..(n + 1)
        /\ types'[n + 1] = type /\ \A i \in 1..n : types'[i] = types[i] /\ types[i] \in K
    <2>1. types \in Seq(K) /\ types \in Seq(K \cup {type})
      BY SeqLarger DEF LayoutInv, ListOK
    <2> QED
      BY <1>1, <2>1, AppendFacts
  <1>6. KnownOK'
    <2>1. ASSUME NEW t \in K
          PROVE  /\ layout'[t] \in Layouts(K \cup {type})
                 /\ ~layout'[t].is_complete => IsAggregate(t)
      <3>1. layout[t] \in Layouts(K) /\ (~layout[t].is_complete => IsAggregate(t))
        BY DEF LayoutInv, KnownOK
      <3>2. layout[t] \in Layouts(K \cup {type})
        BY <3>1, LayoutsLarger
      <3> QED
        BY <1>4, <3>1, <3>2
    <2>2. K \subseteq Names
      BY DEF LayoutInv, KnownOK
    <2> QED
      BY <1>3, <1>4, <2>1, <2>2 DEF KnownOK
  <1>7. ActsOK'
    <2>1. acts \in Seq(ActType(K))
      BY DEF LayoutInv, ActsOK
    <2>2. /\ acts \in Seq(ActType(K \cup {type}))
          /\ \A i \in DOMAIN acts : acts[i].type \in K
      BY <2>1, ActTypeLarger, ActsTyped
    <2> QED
      BY <1>1, <1>3, <1>4, <2>2 DEF LayoutInv, ActsOK
  <1>8. ListOK'
    <2>1. \A i \in 1..(n + 1) : layout'[types'[i]].is_complete
      BY <1>3, <1>4, <1>5 DEF LayoutInv, ListOK
    <2>2. \A i, j \in 1..(n + 1) : types'[i] = types'[j] => i = j
      BY <1>1, <1>5 DEF LayoutInv, ListOK
    <2>3. ASSUME NEW t \in K \cup {type}, Kind(t) = "pointer"
          PROVE  \E i \in 1..(n + 1) : types'[i] = t
      BY <1>5, <2>3 DEF LayoutInv, ListOK
    <2>4. ASSUME NEW i \in 1..(n + 1), Kind(types'[i]) = "slice"
          PROVE  \E j \in 1..(i - 1) : types'[j] = Pointer(Base(types'[i]))
      <3>1. CASE i \in 1..n
        BY <1>5, <2>4, <3>1 DEF LayoutInv, ListOK
      <3>2. CASE i = n + 1
        <4>1. Pointer(Base(type)) \in K /\ Kind(Pointer(Base(type))) = "pointer"
          BY <1>5, <2>4, <3>2
        <4> QED
          BY <1>5, <3>2, <4>1 DEF LayoutInv, ListOK
      <3> QED
        BY <3>1, <3>2, <1>5
    <2> QED
      BY <1>4, <1>5, <2>1, <2>2, <2>3, <2>4 DEF ListOK
  <1>9. AlignsOK'
    <2>1. \A t \in K :
             /\ layout'[t].align \in Alignments \cup {0, UINTMAX_MAX}
             /\ layout'[t].size \notin {0, SIZEOF_UNSIZED} => layout'[t].align \in Alignments
             /\ IsAggregate(t) => layout'[t].align \in Alignments \cup {0}
      BY <1>4 DEF LayoutInv, AlignsOK
    <2> QED
      BY <1>2, <1>3, <1>4, <2>1 DEF AlignsOK
  <1>10. \A t \in K : \A j \in DOMAIN layout[t].members : layout[t].members[j].type \in K
    BY MembersTyped DEF LayoutInv, KnownOK
  <1>11. Ready'
    BY <1>3, <1>4, <1>10 DEF LayoutInv, Ready
  <1>12. Placed'
    <2> SUFFICES ASSUME ~oversized
                 PROVE  Placed'
      BY <1>1 DEF Placed
    <2>1. \A t \in K : Small(Bytes(t)) /\ (IsAggregate(t) => Bytes(t) <= SIZEOF_MAX)
      BY DEF LayoutInv, Placed
    <2>2. \A t \in K \cup {type} : Bytes(t)' = IF t = type THEN size ELSE Bytes(t)
      BY <1>1, <1>3, <1>4 DEF Bytes
    <2>3. \A i \in DOMAIN acts : acts[i].type \in K
      BY ActsTyped DEF LayoutInv, ActsOK
    <2>4. \A i \in DOMAIN acts :
             \A j \in DOMAIN layout[acts[i].type].members :
                layout'[layout[acts[i].type].members[j].type].size
                   = Bytes(layout[acts[i].type].members[j].type)
      BY <1>4, <1>10, <2>3 DEF Bytes
    <2>5. \A t \in K \cup {type} :
             Small(Bytes(t))' /\ (IsAggregate(t) => Bytes(t)' <= SIZEOF_MAX)
      BY <1>2, <2>1, <2>2 DEF Small
    <2>6. ASSUME NEW i \in DOMAIN acts
          PROVE  /\ acts[i].next_offset <= SIZEOF_MAX
                 /\ Kind(acts[i].type) = "struct" =>
                       \A j \in DOMAIN layout'[acts[i].type].members :
                           layout'[acts[i].type].members[j].offset
                              + layout'[layout'[acts[i].type].members[j].type].size
                                 <= acts[i].next_offset
      <3>1. layout'[acts[i].type] = layout[acts[i].type]
        BY <1>4, <2>3
      <3>2. /\ acts[i].next_offset <= SIZEOF_MAX
            /\ Kind(acts[i].type) = "struct" =>
                  \A j \in DOMAIN layout[acts[i].type].members :
                      layout[acts[i].type].members[j].offset
                         + layout[layout[acts[i].type].members[j].type].size
                            <= acts[i].next_offset
        BY DEF LayoutInv, Placed, Bytes
      <3> QED
        BY <2>4, <3>1, <3>2 DEF Bytes
    <2> QED
      BY <1>1, <1>4, <2>5, <2>6 DEF Placed, Bytes
  <1>13. MembersApart'
    <2>1. Aggregates' = Aggregates
      BY <1>4 DEF Aggregates, IsAggregate
    <2> SUFFICES ASSUME ~oversized, NEW t \in Aggregates
                 PROVE  Apart(layout', t)
      BY <1>1, <2>1 DEF MembersApart, Apart, MemberApart, Rounded, Bytes
    <2>2. Apart(layout, t)
      BY DEF LayoutInv, MembersApart, Apart, MemberApart, Rounded, Bytes
    <2>3. t \in K
      BY DEF Aggregates
    <2>4. layout[t] \in Layouts(K)
      BY <2>3 DEF LayoutInv, KnownOK
    <2>5. /\ DOMAIN layout[t].members = 1..Len(layout[t].members)
          /\ Len(layout[t].members) \in Nat
      BY <2>4, MembersTyped
    <2> QED
      BY <1>4, <1>10, <2>2, <2>3, <2>5, ApartStays
  <1> QED
    BY <1>1, <1>4, <1>6, <1>7, <1>8, <1>9, <1>11, <1>12, <1>13 DEF LayoutInv

\* An array that takes up space has elements that do, and whose size is known.
LEMMA ArraySize ==
    ASSUME NEW count \in Nat, NEW size \in 0..UINTMAX_MAX,
           ~(count # 0 /\ Wrapped(count * size) \div count # size),
           Wrapped(count * size) <= SIZEOF_MAX, Wrapped(count * size) # 0
    PROVE  size \notin {0, SIZEOF_UNSIZED}
  <1> DEFINE all == Wrapped(count * size)
  <1>1. Wrapped(0) = 0
    BY Machine, WrappedFacts
  <1>2. count # 0 /\ size # 0
    <2>1. CASE count = 0
      BY <1>1, <2>1, Machine
    <2>2. CASE size = 0
      BY <1>1, <2>2, Machine
    <2> QED
      BY <2>1, <2>2
  <1>3. count * size \in Nat
    BY Machine
  <1>4. all \in Nat /\ all \div count = size /\ all <= SIZEOF_MAX
    BY <1>2, <1>3, Machine, WrappedFacts
  <1> HIDE DEF all
  <1>5. all \div count <= all
    BY <1>2, <1>4
  <1> QED
    BY <1>2, <1>4, <1>5, Machine

\* Nothing but the phase changes.
LEMMA PhaseKeeps ==
    ASSUME LayoutInv, UNCHANGED <<layout, types, acts, early, oversized>>,
           phase' \in {"resolve", "refused", "generated"}
    PROVE  LayoutInv'
  <1>1. KnownOK' /\ ActsOK'
    BY DEF LayoutInv, KnownOK, ActsOK
  <1>2. ListOK' /\ AlignsOK' /\ Ready'
    BY DEF LayoutInv, ListOK, AlignsOK, Ready
  <1>3. Placed'
    BY DEF LayoutInv, Placed, Small, Bytes
  <1>4. MembersApart'
    BY DEF LayoutInv, MembersApart, Aggregates, Bytes
  <1> QED
    BY <1>1, <1>2, <1>3, <1>4 DEF LayoutInv

\* Type expressions keep the invariant.
LEMMA TypesKeep ==
    ASSUME LayoutInv, ResolvePointer \/ ResolveFunction \/ ResolveSlice \/ ResolveArray
    PROVE  LayoutInv'
  <1>1. /\ DOMAIN layout \subseteq Names
        /\ \A t \in DOMAIN layout : layout[t].size \in 0..UINTMAX_MAX
    BY MembersTyped DEF LayoutInv, KnownOK
  <1>2. \A base \in Names : /\ Pointer(base) \in Names
                            /\ Kind(Pointer(base)) = "pointer"
                            /\ ~IsAggregate(Pointer(base))
    <2>1. "pointer" \in Kinds /\ 0 \in Numbers
      BY DEF Kinds, Numbers
    <2> QED
      BY <2>1, NameFacts DEF Pointer, IsAggregate
  <1>3. Word \in 0..SIZEOF_MAX /\ 2 * Word \in 0..SIZEOF_MAX /\ Word \in Alignments
    BY Machine
  <1>4. ASSUME NEW base \in DOMAIN layout, type_unique(Pointer(base), Word, Word),
               early' = early
        PROVE  LayoutInv'
    <2>1. /\ Pointer(base) \in Names /\ ~IsAggregate(Pointer(base))
          /\ Kind(Pointer(base)) # "slice"
      BY <1>1, <1>2
    <2> QED
      BY <1>2, <1>3, <1>4, <2>1, UniqueKeeps
  <1>5. CASE ResolvePointer
    BY <1>4, <1>5 DEF ResolvePointer, Bases
  <1>6. CASE ResolveFunction
    <2>1. PICK param \in DOMAIN layout : type_unique(Of("function", 0, param), Word, Word)
      BY <1>6 DEF ResolveFunction, Bases
    <2>2. "function" \in Kinds /\ 0 \in Numbers
      BY DEF Kinds, Numbers
    <2> DEFINE type == Of("function", 0, param)
    <2>3. type \in Names /\ Kind(type) = "function"
      BY <1>1, <2>2, NameFacts
    <2> HIDE DEF type
    <2>4. ~IsAggregate(type) /\ Kind(type) # "slice"
      BY <2>3 DEF IsAggregate
    <2>5. type_unique(type, Word, Word) /\ early' = early
      BY <1>6, <2>1 DEF ResolveFunction, type
    <2> QED
      BY <1>2, <1>3, <2>3, <2>4, <2>5, UniqueKeeps
  <1>7. CASE ResolveSlice
    <2>1. PICK base \in DOMAIN layout :
            IF Known(Pointer(base)) THEN type_unique(Of("slice", 0, base), 2 * Word, Word)
            ELSE type_unique(Pointer(base), Word, Word)
      BY <1>7 DEF ResolveSlice, Bases
    <2>2. early' = early
      BY <1>7 DEF ResolveSlice
    <2>3. CASE Known(Pointer(base))
      <3>1. "slice" \in Kinds /\ 0 \in Numbers
        BY DEF Kinds, Numbers
      <3> DEFINE type == Of("slice", 0, base)
      <3>2. type \in Names /\ Kind(type) = "slice" /\ Base(type) = base
        BY <1>1, <3>1, NameFacts
      <3> HIDE DEF type
      <3>3. ~IsAggregate(type) /\ Pointer(Base(type)) \in DOMAIN layout /\ Base(type) \in Names
        BY <1>1, <2>3, <3>2 DEF IsAggregate, Known
      <3>4. type_unique(type, 2 * Word, Word)
        BY <2>1, <2>3 DEF type
      <3> QED
        BY <1>2, <1>3, <2>2, <3>2, <3>3, <3>4, UniqueKeeps
    <2>4. CASE ~Known(Pointer(base))
      BY <1>4, <2>1, <2>2, <2>4
    <2> QED
      BY <2>3, <2>4
  <1>8. CASE ResolveArray
    <2>1. PICK base \in DOMAIN layout, count \in Counts :
            LET type == Of("array", count, base)
                element == layout[base]
                size == Wrapped(count * element.size)
                overflow == count # 0 /\ size \div count # element.size
            IN  IF overflow \/ size > SIZEOF_MAX THEN Refuse
                ELSE /\ type_unique(type, size, element.align)
                     /\ early' = IF element.is_complete /\ base \notin early THEN early
                                 ELSE early \cup {type}
      BY <1>8 DEF ResolveArray
    <2> DEFINE type == Of("array", count, base)
               size == Wrapped(count * layout[base].size)
    <2>2. "array" \in Kinds /\ count \in Numbers /\ count \in Nat
      BY Machine DEF Kinds, Numbers
    <2>3. type \in Names /\ Kind(type) = "array"
      BY <1>1, <2>2, NameFacts
    <2>4. size \in 0..UINTMAX_MAX /\ SIZEOF_MAX \in Nat
      <3>1. count * layout[base].size \in Nat
        BY <1>1, <2>2, Machine
      <3> QED
        BY <3>1, Machine, WrappedFacts
    <2>5. CASE Refuse
      BY <2>5, PhaseKeeps DEF Refuse
    <2>6. CASE ~Refuse
      <3>1. /\ ~(count # 0 /\ size \div count # layout[base].size) /\ size <= SIZEOF_MAX
            /\ type_unique(type, size, layout[base].align)
            /\ early' = early \/ early' = early \cup {type}
        BY <2>1, <2>4, <2>6
      <3>2. layout[base].align \in Alignments \cup {0, UINTMAX_MAX}
        BY DEF LayoutInv, AlignsOK
      <3>3. size # 0 => layout[base].align \in Alignments
        BY <1>1, <2>2, <3>1, ArraySize DEF LayoutInv, AlignsOK
      <3> HIDE DEF type, size
      <3>4. ~IsAggregate(type) /\ Kind(type) # "slice" /\ size \in 0..SIZEOF_MAX
        BY <2>3, <2>4, <3>1, Machine DEF IsAggregate
      <3> QED
        BY <1>2, <2>3, <3>1, <3>2, <3>3, <3>4, UniqueKeeps
    <2> QED
      BY <2>5, <2>6
  <1> QED
    BY <1>5, <1>6, <1>7, <1>8

\* A struct or union that has no members yet is entered.
LEMMA EnterKeeps ==
    ASSUME LayoutInv, NEW type \in Names, IsAggregate(type), NEW known,
           DOMAIN known = DOMAIN layout \cup {type}, known[type] = Unfinished,
           \A t \in DOMAIN layout \ {type} : known[t] = layout[t],
           type \in DOMAIN layout => ~layout[type].is_complete,
           \A i \in DOMAIN acts : acts[i].type # type,
           Enter(type, known)
    PROVE  LayoutInv'
  <1> DEFINE K == DOMAIN layout
             L == K \cup {type}
             n == Len(types)
             r == Len(acts)
             self == layout'[type]
  <1>0. 0 \in 0..UINTMAX_MAX
    BY Machine
  <1>1. /\ Sized(0, 0) \in Layouts(L) /\ Unfinished \in Layouts(L)
        /\ Sized(0, 0).size = 0 /\ Sized(0, 0).align = 0
        /\ Sized(0, 0).is_complete /\ Sized(0, 0).members = <<>>
        /\ Unfinished.size = 0 /\ Unfinished.align = 0
        /\ ~Unfinished.is_complete /\ Unfinished.members = <<>>
    BY <1>0, SizedFacts
  <1>2. UNCHANGED <<phase, early, oversized>>
    BY DEF Enter
  <1>3. \/ /\ self = Sized(0, 0) /\ types' = Append(types, type) /\ acts' = acts
        \/ /\ self = Unfinished /\ types' = types /\ acts' = Append(acts, Act(type))
    BY DEF Enter, With
  <1>4. DOMAIN layout' = L /\ \A t \in K \ {type} : layout'[t] = layout[t]
    BY DEF Enter, With
  <1>5. self \in Layouts(L) /\ self.size = 0 /\ self.align = 0 /\ self.members = <<>>
    BY <1>1, <1>3
  <1> HIDE DEF self
  <1>6. \A t \in K : layout[t] \in Layouts(K) /\ (~layout[t].is_complete => IsAggregate(t))
    BY DEF LayoutInv, KnownOK
  <1>7. \A t \in K : \A j \in DOMAIN layout[t].members :
            layout[t].members[j].type \in K \ {type}
    <2> SUFFICES ASSUME NEW t \in K, NEW j \in DOMAIN layout[t].members
                 PROVE  layout[t].members[j].type \in K \ {type}
      OBVIOUS
    <2>1. layout[t].members[j].type \in K
      BY <1>6, MembersTyped
    <2>2. layout[layout[t].members[j].type].is_complete
      BY DEF LayoutInv, Ready
    <2> QED
      BY <2>1, <2>2
  <1>8. KnownOK'
    <2>1. \A t \in K : layout[t] \in Layouts(L)
      BY <1>6, LayoutsLarger
    <2>2. K \subseteq Names
      BY DEF LayoutInv, KnownOK
    <2> QED
      BY <1>4, <1>5, <1>6, <2>1, <2>2 DEF KnownOK, self
  <1>9. /\ acts \in Seq(ActType(L)) /\ r \in Nat /\ DOMAIN acts = 1..r
        /\ \A i \in 1..r : acts[i].type \in K \ {type} /\ ~layout[acts[i].type].is_complete
        /\ \A i, j \in 1..r : acts[i].type = acts[j].type => i = j
        /\ \A t \in K : ~layout[t].is_complete /\ (\A i \in 1..r : acts[i].type # t) =>
              layout[t] = Unfinished
    <2>1. acts \in Seq(ActType(K))
      BY DEF LayoutInv, ActsOK
    <2> QED
      BY <2>1, ActTypeLarger, ActsTyped DEF LayoutInv, ActsOK
  <1>10. ActsOK'
    <2>1. CASE acts' = acts /\ self = Sized(0, 0)
      BY <1>1, <1>4, <1>9, <2>1 DEF ActsOK, self
    <2>2. CASE acts' = Append(acts, Act(type)) /\ self = Unfinished
      <3>1. Act(type) \in ActType(L) /\ Act(type).type = type
        BY <1>0 DEF Act, ActType
      <3>2. /\ acts' \in Seq(ActType(L)) /\ DOMAIN acts' = 1..(r + 1)
            /\ acts'[r + 1].type = type /\ \A i \in 1..r : acts'[i] = acts[i]
        BY <1>9, <2>2, <3>1, AppendFacts
      <3>3. \A i \in 1..(r + 1) : i = r + 1 \/ i \in 1..r
        BY <1>9
      <3>4. r + 1 \in 1..(r + 1) /\ \A i \in 1..r : i \in 1..(r + 1)
        BY <1>9
      <3>5. \A i \in 1..(r + 1) : ~layout'[acts'[i].type].is_complete
        BY <1>1, <1>4, <1>9, <2>2, <3>2, <3>3 DEF self
      <3>6. \A i, j \in 1..(r + 1) : acts'[i].type = acts'[j].type => i = j
        BY <1>9, <3>2, <3>3
      <3>7. ASSUME NEW t \in L, ~layout'[t].is_complete,
                   \A i \in 1..(r + 1) : acts'[i].type # t
            PROVE  layout'[t] = Unfinished
        BY <1>4, <1>9, <3>2, <3>4, <3>7
      <3> QED
        BY <1>4, <3>2, <3>5, <3>6, <3>7 DEF ActsOK
    <2> QED
      BY <1>3, <2>1, <2>2
  <1>11. /\ types \in Seq(L) /\ n \in Nat /\ DOMAIN types = 1..n
         /\ \A i \in 1..n : types[i] \in K \ {type}
    BY SeqLarger DEF LayoutInv, ListOK
  <1>12. ~(Kind(type) = "pointer") /\ ~(Kind(type) = "slice")
    BY DEF IsAggregate
  <1>13. ListOK'
    <2>1. CASE types' = types
      BY <1>4, <1>11, <1>12, <2>1 DEF LayoutInv, ListOK
    <2>2. CASE types' = Append(types, type) /\ self = Sized(0, 0)
      <3>1. /\ types' \in Seq(L) /\ DOMAIN types' = 1..(n + 1) /\ types'[n + 1] = type
            /\ \A i \in 1..n : types'[i] = types[i]
        BY <1>11, <2>2, AppendFacts
      <3>2. /\ \A i \in 1..(n + 1) : i = n + 1 \/ i \in 1..n
            /\ \A i \in 1..n : i \in 1..(n + 1) /\ \A j \in 1..(i - 1) : j \in 1..n
        BY <1>11
      <3>3. \A i \in 1..(n + 1) : layout'[types'[i]].is_complete
        BY <1>1, <1>4, <1>11, <2>2, <3>1, <3>2 DEF LayoutInv, ListOK, self
      <3>4. \A i, j \in 1..(n + 1) : types'[i] = types'[j] => i = j
        BY <1>11, <3>1, <3>2 DEF LayoutInv, ListOK
      <3>5. \A t \in L : Kind(t) = "pointer" => \E i \in 1..(n + 1) : types'[i] = t
        BY <1>11, <1>12, <3>1, <3>2 DEF LayoutInv, ListOK
      <3>6. ASSUME NEW i \in 1..(n + 1), Kind(types'[i]) = "slice"
            PROVE  \E j \in 1..(i - 1) : types'[j] = Pointer(Base(types'[i]))
        <4>1. i \in 1..n /\ types'[i] = types[i]
          BY <1>12, <3>1, <3>2, <3>6
        <4>2. \E j \in 1..(i - 1) : types[j] = Pointer(Base(types[i]))
          BY <1>11, <3>6, <4>1 DEF LayoutInv, ListOK
        <4> QED
          BY <3>1, <3>2, <4>1, <4>2
      <3> QED
        BY <1>4, <3>1, <3>3, <3>4, <3>5, <3>6 DEF ListOK
    <2> QED
      BY <1>3, <2>1, <2>2
  <1>14. AlignsOK'
    BY <1>4, <1>5 DEF LayoutInv, AlignsOK, self
  <1>15. Ready'
    BY <1>4, <1>5, <1>7 DEF LayoutInv, Ready, self
  <1>16. Placed'
    <2> SUFFICES ASSUME ~oversized
                 PROVE  Placed'
      BY <1>2 DEF Placed
    <2>1. \A t \in L : Small(Bytes(t))' /\ (IsAggregate(t) => Bytes(t)' <= SIZEOF_MAX)
      BY <1>4, <1>5, Machine DEF LayoutInv, Placed, Small, Bytes, self
    <2>2. ASSUME NEW i \in 1..r
          PROVE  /\ acts[i].next_offset <= SIZEOF_MAX
                 /\ Kind(acts[i].type) = "struct" =>
                       \A j \in DOMAIN layout'[acts[i].type].members :
                           layout'[acts[i].type].members[j].offset
                              + layout'[layout'[acts[i].type].members[j].type].size
                                 <= acts[i].next_offset
      <3>1. /\ acts[i].next_offset <= SIZEOF_MAX /\ i \in DOMAIN acts
            /\ Kind(acts[i].type) = "struct" =>
                  \A j \in DOMAIN layout[acts[i].type].members :
                      layout[acts[i].type].members[j].offset
                         + layout[layout[acts[i].type].members[j].type].size
                            <= acts[i].next_offset
        BY <1>9 DEF LayoutInv, Placed, Bytes
      <3>2. layout'[acts[i].type] = layout[acts[i].type] /\ acts[i].type \in K
        BY <1>4, <1>9, <3>1
      <3>3. \A j \in DOMAIN layout[acts[i].type].members :
               layout'[layout[acts[i].type].members[j].type].size
                  = layout[layout[acts[i].type].members[j].type].size
        BY <1>4, <1>7, <3>2
      <3> QED
        BY <3>1, <3>2, <3>3
    <2>3. CASE acts' = acts
      BY <1>2, <1>4, <1>9, <2>1, <2>2, <2>3 DEF Placed, Bytes
    <2>4. CASE acts' = Append(acts, Act(type))
      <3>1. Act(type) \in ActType(L) /\ Act(type).type = type /\ Act(type).next_offset = 0
        BY <1>0 DEF Act, ActType
      <3>2. /\ DOMAIN acts' = 1..(r + 1) /\ acts'[r + 1] = Act(type)
            /\ \A i \in 1..r : acts'[i] = acts[i]
        BY <1>9, <2>4, <3>1, AppendFacts
      <3>3. \A i \in 1..(r + 1) : i = r + 1 \/ i \in 1..r
        BY <1>9
      <3>4. layout'[type].members = <<>> /\ DOMAIN <<>> = {} /\ 0 <= SIZEOF_MAX
        BY <1>4, <1>5, Machine DEF self
      <3>5. ASSUME NEW i \in 1..(r + 1)
            PROVE  /\ acts'[i].next_offset <= SIZEOF_MAX
                   /\ Kind(acts'[i].type) = "struct" =>
                         \A j \in DOMAIN layout'[acts'[i].type].members :
                             layout'[acts'[i].type].members[j].offset
                                + layout'[layout'[acts'[i].type].members[j].type].size
                                   <= acts'[i].next_offset
        <4>1. CASE i = r + 1
          BY <3>1, <3>2, <3>4, <4>1
        <4>2. CASE i \in 1..r
          BY <2>2, <3>2, <4>2
        <4> QED
          BY <3>3, <4>1, <4>2
      <3> QED
        BY <1>4, <2>1, <3>2, <3>5 DEF Placed, Bytes
    <2> QED
      BY <1>3, <2>3, <2>4
  <1>17. MembersApart'
    <2>1. Aggregates' \subseteq Aggregates \cup {type}
      BY <1>4 DEF Aggregates, IsAggregate
    <2> SUFFICES ASSUME ~oversized, NEW t \in Aggregates'
                 PROVE  Apart(layout', t)
      BY <1>2 DEF MembersApart, Apart, MemberApart, Rounded, Bytes
    <2>2. CASE t # type
      <3>1. t \in K \ {type} /\ t \in Aggregates
        BY <2>1, <2>2 DEF Aggregates
      <3>2. Apart(layout, t)
        BY <3>1 DEF LayoutInv, MembersApart, Apart, MemberApart, Rounded, Bytes
      <3>3. /\ DOMAIN layout[t].members = 1..Len(layout[t].members)
            /\ Len(layout[t].members) \in Nat
        BY <1>6, <3>1, MembersTyped
      <3> QED
        BY <1>4, <1>7, <3>1, <3>2, <3>3, ApartStays
    <2>3. CASE t = type
      <3>1. layout'[t].size % Greater(layout'[t].align, 1) = 0 /\ layout'[t].members = <<>>
        BY <1>5, <2>3 DEF Greater, self
      <3> QED
        BY <3>1 DEF Apart, Rounded
    <2> QED
      BY <2>2, <2>3
  <1> QED
    BY <1>2, <1>4, <1>8, <1>10, <1>13, <1>14, <1>15, <1>16, <1>17 DEF LayoutInv

\* complete_struct, complete_union and instances keep the invariant.
LEMMA EntriesKeep ==
    ASSUME LayoutInv, Complete \/ Instantiate
    PROVE  LayoutInv'
  <1>1. CASE Complete
    <2>1. PICK type \in Aggregates : ~layout[type].is_complete /\ Enter(type, layout)
      BY <1>1 DEF Complete
    <2>2. type \in DOMAIN layout /\ IsAggregate(type) /\ acts = <<>>
      BY <1>1 DEF Complete, Aggregates
    <2>3. layout[type] = Unfinished /\ type \in Names
      BY <2>1, <2>2 DEF LayoutInv, ActsOK, KnownOK
    <2> QED
      BY <2>1, <2>2, <2>3, EnterKeeps
  <1>2. CASE Instantiate
    <2>1. PICK kind \in {"struct", "union"}, number \in Instances :
            /\ \A k \in {"struct", "union"} : ~Known(Leaf(k, number))
            /\ Enter(Leaf(kind, number), With(layout, Leaf(kind, number), Unfinished))
      BY <1>2 DEF Instantiate
    <2> DEFINE type == Leaf(kind, number)
    <2>2. kind \in Kinds /\ number \in Numbers
      BY DEF Kinds, Numbers
    <2>3. type \in Names /\ IsAggregate(type)
      BY <2>2, NameFacts DEF IsAggregate
    <2>4. type \notin DOMAIN layout /\ Enter(type, With(layout, type, Unfinished))
      BY <2>1 DEF Known
    <2> HIDE DEF type
    <2> DEFINE known == With(layout, type, Unfinished)
    <2>5. /\ DOMAIN known = DOMAIN layout \cup {type} /\ known[type] = Unfinished
          /\ \A t \in DOMAIN layout \ {type} : known[t] = layout[t]
      BY DEF With
    <2>6. Enter(type, known)
      BY <2>4
    <2> HIDE DEF known
    <2>7. \A i \in DOMAIN acts : acts[i].type # type
      BY <2>4, ActsTyped DEF LayoutInv, ActsOK
    <2> QED
      BY <2>3, <2>4, <2>5, <2>6, <2>7, EnterKeeps
  <1> QED
    BY <1>1, <1>2

-----------------------------------------------------------------------------
(***************************************************************************)
(* One more member.                                                        *)
(***************************************************************************)
Added(s, offset, type) ==
    IF Kind(s) = "struct" THEN StructMember(layout[s], offset, type)
    ELSE UnionMember(layout[s], offset, type)

Grown(s, offset, type, is_last) ==
    IF is_last THEN Finished(Kind(s), Added(s, offset, type).self)
    ELSE Added(s, offset, type).self

Place(s, offset, type) ==
    IF Kind(s) = "struct" THEN Aligned(offset, layout[type].align) ELSE 0

\* What is known of a member's type before it is added.
Fit(type) ==
    /\ type \in DOMAIN layout
    /\ layout[type].is_complete
    /\ layout[type].size \in 0..(UINTMAX_MAX - 1)
    /\ layout[type].align \in Alignments \cup {0, UINTMAX_MAX}
    /\ layout[type].size # 0 => layout[type].align \in Alignments

Open(self) ==
    /\ self \in Layouts(DOMAIN layout)
    /\ ~self.is_complete
    /\ self.align \in Alignments \cup {0}
    /\ self.size \notin {0, SIZEOF_UNSIZED} => self.align \in Alignments

\* The larger of two alignments is one, and a multiple of both.
LEMMA GreaterFacts ==
    ASSUME NEW a \in Alignments, NEW b \in Alignments \cup {0}
    PROVE  /\ Greater(a, b) \in Alignments /\ Greater(a, b) >= a /\ Greater(a, b) >= b
           /\ Greater(a, b) % a = 0
  <1>1. /\ a \in Nat \ {0} /\ b \in Nat /\ a % a = 0
    BY Machine
  <1>2. CASE a >= b
    BY <1>1, <1>2 DEF Greater
  <1>3. CASE a < b
    BY <1>1, <1>3, AlignmentsAssumption DEF Greater
  <1> QED
    BY <1>1, <1>2, <1>3

\* What `added` is when a struct gets one more member: where the member is, and
\* what is known of the struct as long as nothing exceeds the maximum.
StructAdds(self, offset, type, added) ==
    LET member == layout[type]
        g == added.self
        at == Aligned(offset, member.align)
    IN  /\ at \in 0..UINTMAX_MAX
        /\ added.next_offset \in 0..UINTMAX_MAX
        /\ g.size \in 0..UINTMAX_MAX
        /\ g.align \in Alignments \cup {0}
        /\ g.size \notin {0, SIZEOF_UNSIZED} => g.align \in Alignments
        /\ g = [self EXCEPT !.members = Append(self.members, [type |-> type, offset |-> at]),
                            !.size = g.size, !.align = g.align]
        /\ offset <= SIZEOF_MAX /\ self.size <= SIZEOF_MAX /\ member.size <= SIZEOF_MAX
              /\ added.next_offset <= SIZEOF_MAX
              /\ self.size % Greater(self.align, 1) = 0 =>
              /\ at % Greater(member.align, 1) = 0
              /\ offset <= at /\ at + member.size <= added.next_offset
              /\ g.align >= self.align
              /\ member.size > 0 => at + member.size <= g.size /\ g.align >= member.align
              /\ g.size = self.size \/ g.size >= offset
              /\ g.size % Greater(g.align, 1) = 0

\* StructMember does that.
LEMMA StructFacts ==
    ASSUME NEW self, Open(self), NEW offset \in 0..UINTMAX_MAX, NEW type, Fit(type)
    PROVE  StructAdds(self, offset, type, StructMember(self, offset, type))
  <1> DEFINE member == layout[type]
             added == StructMember(self, offset, type)
             g == added.self
             at == Aligned(offset, member.align)
             end == Wrapped(at + member.size)
             align == Greater(member.align, self.align)
             members == Append(self.members, [type |-> type, offset |-> at])
             Bounded == /\ at \in 0..UINTMAX_MAX
                        /\ added.next_offset \in 0..UINTMAX_MAX
                        /\ g.size \in 0..UINTMAX_MAX
                        /\ g.align \in Alignments \cup {0}
                        /\ g.size \notin {0, SIZEOF_UNSIZED} => g.align \in Alignments
             Fits == /\ offset <= SIZEOF_MAX /\ self.size <= SIZEOF_MAX
                     /\ member.size <= SIZEOF_MAX /\ added.next_offset <= SIZEOF_MAX
                     /\ self.size % Greater(self.align, 1) = 0
  <1> SUFFICES /\ Bounded
               /\ g = [self EXCEPT !.members = members, !.size = g.size, !.align = g.align]
               /\ Fits => /\ at % Greater(member.align, 1) = 0
                          /\ offset <= at /\ at + member.size <= added.next_offset
                          /\ g.align >= self.align
                          /\ member.size > 0 => /\ at + member.size <= g.size
                                                /\ g.align >= member.align
                          /\ g.size = self.size \/ g.size >= offset
                          /\ g.size % Greater(g.align, 1) = 0
    BY DEF StructAdds
  <1>1. /\ member.align \in Alignments \cup {0, UINTMAX_MAX}
        /\ member.size \in 0..(UINTMAX_MAX - 1)
        /\ member.size # 0 => member.align \in Alignments
    BY DEF Fit
  <1>2. /\ self.align \in Alignments \cup {0} /\ self.size \in 0..UINTMAX_MAX
        /\ self.size \notin {0, SIZEOF_UNSIZED} => self.align \in Alignments
        /\ self = [self EXCEPT !.size = self.size, !.align = self.align]
    BY DEF Open, Layouts
  <1>3. /\ at \in 0..UINTMAX_MAX
        /\ at % Greater(member.align, 1) = 0
        /\ offset <= SIZEOF_MAX =>
              /\ at >= offset
              /\ member.align # UINTMAX_MAX => at <= SIZEOF_MAX + 1
    BY <1>1, AlignedFacts
  <1>4. end \in 0..UINTMAX_MAX /\ (at + member.size <= UINTMAX_MAX => end = at + member.size)
    BY <1>1, <1>3, Machine, WrappedFacts
  <1>5. CASE member.size = 0
    <2>1. /\ added.next_offset = at /\ g = [self EXCEPT !.members = members]
          /\ g.size = self.size /\ g.align = self.align
      BY <1>2, <1>5 DEF StructMember, Open, Layouts
    <2>2. g = [self EXCEPT !.members = members, !.size = g.size, !.align = g.align]
      BY <1>2, <2>1 DEF Open, Layouts
    <2> HIDE DEF added, at, member, members, g
    <2> QED
      BY <1>2, <1>3, <1>5, <2>1, <2>2, Machine
  <1>6. CASE member.size # 0
    <2>1. /\ member.align \in Alignments /\ align \in Alignments
          /\ align >= member.align /\ align >= self.align
      BY <1>1, <1>2, <1>6, GreaterFacts
    <2>2. /\ added.next_offset = end
          /\ g = [self EXCEPT !.members = members, !.align = align, !.size = Aligned(end, align)]
          /\ g.size = Aligned(end, align) /\ g.align = align
      BY <1>6 DEF StructMember, Open, Layouts
    <2>3. g = [self EXCEPT !.members = members, !.size = g.size, !.align = g.align]
      BY <2>2 DEF Open, Layouts
    <2>4. /\ g.size \in 0..UINTMAX_MAX
          /\ g.size % Greater(g.align, 1) = 0
          /\ end <= SIZEOF_MAX => g.size >= end
      BY <1>4, <2>1, <2>2, AlignedFacts
    <2>5. ASSUME offset <= SIZEOF_MAX, member.size <= SIZEOF_MAX
          PROVE  end = at + member.size
      BY <1>1, <1>3, <1>4, <2>1, <2>5, Machine
    <2> HIDE DEF added, at, end, member, members, align, g
    <2> QED
      BY <1>1, <1>2, <1>3, <1>4, <1>6, <2>1, <2>2, <2>3, <2>4, <2>5, Machine
  <1> QED
    BY <1>5, <1>6

\* What `added` is when a union gets one more member.
UnionAdds(self, offset, type, added) ==
    LET member == layout[type]
        g == added.self
    IN  /\ added.next_offset = offset
        /\ g = [self EXCEPT !.members = Append(self.members, [type |-> type, offset |-> 0]),
                            !.size = g.size, !.align = g.align]
        /\ g.size \in 0..UINTMAX_MAX
        /\ g.align \in Alignments \cup {0}
        /\ g.size \notin {0, SIZEOF_UNSIZED} => g.align \in Alignments
        /\ g.align >= self.align /\ g.size >= self.size /\ g.size >= member.size
        /\ member.size > 0 => g.align >= member.align
        /\ g.size = self.size \/ g.size = member.size

\* UnionMember does that.
LEMMA UnionFacts ==
    ASSUME NEW self, Open(self), NEW offset, NEW type, Fit(type)
    PROVE  UnionAdds(self, offset, type, UnionMember(self, offset, type))
  <1> DEFINE member == layout[type]
             added == UnionMember(self, offset, type)
             g == added.self
             members == Append(self.members, [type |-> type, offset |-> 0])
  <1> SUFFICES /\ added.next_offset = offset
               /\ g = [self EXCEPT !.members = members, !.size = g.size, !.align = g.align]
               /\ g.size \in 0..UINTMAX_MAX
               /\ g.align \in Alignments \cup {0}
               /\ g.size \notin {0, SIZEOF_UNSIZED} => g.align \in Alignments
               /\ g.align >= self.align /\ g.size >= self.size /\ g.size >= member.size
               /\ member.size > 0 => g.align >= member.align
               /\ g.size = self.size \/ g.size = member.size
    BY DEF UnionAdds
  <1>1. /\ member.size \in 0..(UINTMAX_MAX - 1)
        /\ member.size # 0 => member.align \in Alignments
    BY DEF Fit
  <1>2. /\ self.align \in Alignments \cup {0} /\ self.size \in 0..UINTMAX_MAX
        /\ self.size \notin {0, SIZEOF_UNSIZED} => self.align \in Alignments
    BY DEF Open, Layouts
  <1>3. added.next_offset = offset
    BY DEF UnionMember
  <1>4. g = [self EXCEPT !.members = members, !.size = g.size, !.align = g.align]
    BY DEF UnionMember, Open, Layouts
  <1>5. CASE member.size = 0
    <2>1. g.size = self.size /\ g.align = self.align
      BY <1>5 DEF UnionMember, Open, Layouts
    <2> HIDE DEF added, member, members, g
    <2> QED
      BY <1>2, <1>3, <1>4, <1>5, <2>1, Machine
  <1>6. CASE member.size # 0
    <2>1. /\ g.size = Greater(member.size, self.size)
          /\ g.align = Greater(member.align, self.align)
      BY <1>6 DEF UnionMember, Open, Layouts
    <2>2. /\ g.align \in Alignments /\ g.align >= member.align /\ g.align >= self.align
      BY <1>1, <1>2, <1>6, <2>1, GreaterFacts
    <2>3. /\ g.size \in 0..UINTMAX_MAX /\ g.size >= member.size /\ g.size >= self.size
          /\ g.size = self.size \/ g.size = member.size
      BY <1>1, <1>2, <2>1, Machine DEF Greater
    <2> HIDE DEF added, member, members, g
    <2> QED
      BY <1>3, <1>4, <2>2, <2>3
  <1> QED
    BY <1>5, <1>6

\* What g is when s gets one more member, which may be its last, at `at`.
Adds(s, offset, type, is_last, g, next, at) ==
    LET member == layout[type]
        self == layout[s]
    IN  /\ at \in 0..UINTMAX_MAX /\ next \in 0..UINTMAX_MAX
        /\ g \in Layouts(DOMAIN layout) /\ (g.is_complete <=> is_last)
        /\ g.members = Append(self.members, [type |-> type, offset |-> at])
        /\ g.size \in 0..UINTMAX_MAX
        /\ g.align \in Alignments \cup {0}
        /\ g.size \notin {0, SIZEOF_UNSIZED} => g.align \in Alignments
        /\ /\ offset <= SIZEOF_MAX /\ self.size <= SIZEOF_MAX
           /\ member.size <= SIZEOF_MAX /\ next <= SIZEOF_MAX
           /\ Kind(s) = "struct" => self.size % Greater(self.align, 1) = 0
           => /\ at % Greater(member.align, 1) = 0
              /\ Kind(s) = "struct" => offset <= at /\ at + member.size <= next
              /\ g.align >= self.align
              /\ member.size > 0 => at + member.size <= g.size /\ g.align >= member.align
              /\ g.size >= self.size \/ (Kind(s) = "struct" /\ g.size >= offset)
              /\ Kind(s) = "struct" \/ is_last => g.size % Greater(g.align, 1) = 0

\* AddMember does that, for the last member and for the others.
LEMMA GrownFacts ==
    ASSUME NEW s, Kind(s) \in {"struct", "union"}, Open(layout[s]),
           NEW offset \in 0..UINTMAX_MAX, NEW type, Fit(type), NEW is_last \in BOOLEAN
    PROVE  Adds(s, offset, type, is_last, Grown(s, offset, type, is_last),
                Added(s, offset, type).next_offset, Place(s, offset, type))
  <1> DEFINE member == layout[type]
             self == layout[s]
             added == Added(s, offset, type)
             g == Grown(s, offset, type, is_last)
             next == added.next_offset
             at == Place(s, offset, type)
             entry == [type |-> type, offset |-> at]
             members == Append(self.members, entry)
             Fits == /\ offset <= SIZEOF_MAX /\ self.size <= SIZEOF_MAX
                     /\ member.size <= SIZEOF_MAX /\ next <= SIZEOF_MAX
                     /\ Kind(s) = "struct" => self.size % Greater(self.align, 1) = 0
             Good(x) == /\ x.size \in 0..UINTMAX_MAX
                        /\ x.align \in Alignments \cup {0}
                        /\ x.size \notin {0, SIZEOF_UNSIZED} => x.align \in Alignments
             Holds(x) == /\ at % Greater(member.align, 1) = 0
                         /\ Kind(s) = "struct" => offset <= at /\ at + member.size <= next
                         /\ x.align >= self.align
                         /\ member.size > 0 => /\ at + member.size <= x.size
                                               /\ x.align >= member.align
                         /\ x.size >= self.size \/ (Kind(s) = "struct" /\ x.size >= offset)
  <1> SUFFICES /\ at \in 0..UINTMAX_MAX /\ next \in 0..UINTMAX_MAX
               /\ g \in Layouts(DOMAIN layout) /\ (g.is_complete <=> is_last)
               /\ g.members = members /\ Good(g)
               /\ Fits => /\ Holds(g)
                          /\ Kind(s) = "struct" \/ is_last => g.size % Greater(g.align, 1) = 0
    BY DEF Adds
  <1>1. /\ self.size \in 0..UINTMAX_MAX /\ self.align \in Nat /\ self \in Layouts(DOMAIN layout)
        /\ ~self.is_complete
    <2>1. self \in Layouts(DOMAIN layout) /\ ~self.is_complete
      BY DEF Open
    <2>2. self.size \in 0..UINTMAX_MAX /\ self.align \in 0..UINTMAX_MAX
      BY <2>1, MembersTyped
    <2> QED
      BY <2>1, <2>2, Machine
  <1>2. /\ member.size \in 0..(UINTMAX_MAX - 1) /\ member.align \in Nat
        /\ type \in DOMAIN layout
    <2>1. /\ member.size \in 0..(UINTMAX_MAX - 1) /\ type \in DOMAIN layout
          /\ member.align \in Alignments \cup {0, UINTMAX_MAX}
      BY DEF Fit
    <2>2. \A a \in Alignments \cup {0, UINTMAX_MAX} : a \in Nat
      BY Machine
    <2> QED
      BY <2>1, <2>2
  <1>3. /\ at \in 0..UINTMAX_MAX /\ next \in 0..UINTMAX_MAX
        /\ added.self = [self EXCEPT !.members = members, !.size = added.self.size,
                                     !.align = added.self.align]
        /\ Good(added.self)
        /\ Fits => /\ Holds(added.self)
                   /\ Kind(s) = "struct" =>
                         added.self.size % Greater(added.self.align, 1) = 0
                   /\ Kind(s) = "union" => added.self.size <= SIZEOF_MAX
    <2>1. CASE Kind(s) = "struct"
      <3>1. added = StructMember(self, offset, type) /\ at = Aligned(offset, member.align)
        BY <2>1 DEF Added, Place
      <3>2. StructAdds(self, offset, type, added)
        BY <3>1, StructFacts
      <3>3. at = Aligned(offset, layout[type].align)
        BY <3>1
      <3> HIDE DEF added, at, self
      <3> QED
        BY <1>1, <1>2, <2>1, <3>2, <3>3, Machine DEF StructAdds
    <2>2. CASE Kind(s) = "union"
      <3>1. added = UnionMember(self, offset, type) /\ at = 0
        BY <2>2 DEF Added, Place
      <3>2. 0 % Greater(member.align, 1) = 0
        BY <1>2 DEF Greater
      <3>3. UnionAdds(self, offset, type, added)
        BY <3>1, UnionFacts
      <3>4. at = 0
        BY <3>1
      <3> HIDE DEF added, at, self
      <3> QED
        BY <1>1, <1>2, <2>2, <3>2, <3>3, <3>4, Machine DEF UnionAdds
    <2> QED
      BY <2>1, <2>2
  <1>4. /\ members \in Seq([type : DOMAIN layout, offset : Nat])
        /\ added.self \in Layouts(DOMAIN layout) /\ added.self.members = members
        /\ ~added.self.is_complete
    <2>1. entry \in [type : DOMAIN layout, offset : Nat]
      BY <1>2, <1>3, Machine
    <2>2. members \in Seq([type : DOMAIN layout, offset : Nat])
      BY <1>1, <2>1, MembersTyped, AppendFacts
    <2> HIDE DEF members
    <2>3. added.self.size \in 0..UINTMAX_MAX /\ added.self.align \in 0..UINTMAX_MAX
      BY <1>3, Machine
    <2> HIDE DEF added
    <2> QED
      BY <1>1, <1>3, <2>2, <2>3 DEF Layouts
  <1>5. CASE ~is_last
    <2>1. g = added.self
      BY <1>5 DEF Grown
    <2> HIDE DEF g, added, member, self, at, members, next
    <2> QED
      BY <1>3, <1>4, <1>5, <2>1
  <1>6. CASE is_last
    <2> DEFINE size == IF Kind(s) = "union" THEN Aligned(added.self.size, added.self.align)
                       ELSE added.self.size
    <2>1. g = [added.self EXCEPT !.is_complete = TRUE, !.size = size]
      BY <1>6 DEF Grown, Finished
    <2>2. /\ size \in 0..UINTMAX_MAX
          /\ added.self.align = 0 => size = added.self.size
          /\ Kind(s) = "struct" => size = added.self.size
          /\ Kind(s) = "union" =>
                /\ size % Greater(added.self.align, 1) = 0
                /\ added.self.size <= SIZEOF_MAX => size >= added.self.size
      <3>1. CASE Kind(s) = "union"
        <4>1. size = Aligned(added.self.size, added.self.align)
          BY <3>1
        <4>2. /\ added.self.align = 0 => size = added.self.size
          BY <4>1 DEF Aligned
        <4> QED
          BY <1>3, <3>1, <4>1, <4>2, AlignedFacts
      <3>2. CASE Kind(s) = "struct"
        BY <1>3, <3>2
      <3> QED
        BY <3>1, <3>2
    <2> HIDE DEF g, added, member, self, at, members, next, size
    <2>3. /\ g \in Layouts(DOMAIN layout) /\ g.is_complete /\ g.members = members
          /\ g.size = size /\ g.align = added.self.align
      BY <1>4, <2>1, <2>2 DEF Layouts
    <2>4. Good(g)
      BY <1>3, <2>2, <2>3
    <2>5. ASSUME Fits
          PROVE  Holds(g) /\ g.size % Greater(g.align, 1) = 0
      <3>1. /\ size >= added.self.size
            /\ size % Greater(added.self.align, 1) = 0
            /\ added.self.size \in Nat /\ size \in Nat
        BY <1>3, <2>2, <2>5, Machine
      <3> QED
        BY <1>1, <1>2, <1>3, <2>2, <2>3, <2>5, <3>1, Machine
    <2> QED
      BY <1>3, <1>6, <2>3, <2>4, <2>5
  <1> QED
    BY <1>5, <1>6

\* What a member's type has lets it be added to the struct or union on top.
LEMMA MemberFits ==
    ASSUME LayoutInv, acts # <<>>, NEW type \in DOMAIN layout, ~Unfit(type)
    PROVE  LET s == Last(acts).type
           IN  /\ s \in DOMAIN layout /\ Last(acts).next_offset \in 0..UINTMAX_MAX
               /\ Last(acts) = acts[Len(acts)] /\ Len(acts) \in Nat \ {0}
               /\ ~layout[s].is_complete /\ Kind(s) \in {"struct", "union"}
               /\ Open(layout[s]) /\ Fit(type)
  <1> DEFINE act == Last(acts)
             s == act.type
             r == Len(acts)
  <1>1. r \in Nat \ {0} /\ act = acts[r] /\ act \in ActType(DOMAIN layout) /\ r \in DOMAIN acts
    BY FrontFacts DEF LayoutInv, ActsOK
  <1>2. s \in DOMAIN layout /\ act.next_offset \in 0..UINTMAX_MAX
    BY <1>1 DEF ActType
  <1>3. ~layout[s].is_complete /\ IsAggregate(s)
    BY <1>1, <1>2 DEF LayoutInv, ActsOK, KnownOK
  <1>4. Open(layout[s])
    BY <1>2, <1>3 DEF LayoutInv, KnownOK, AlignsOK, Open
  <1>5. /\ layout[type].is_complete /\ layout[type].size # SIZEOF_UNSIZED
    BY DEF Unfit, LayoutInv, KnownOK
  <1>6. layout[type].size \in 0..UINTMAX_MAX
    BY MembersTyped DEF LayoutInv, KnownOK
  <1>7. layout[type].size \in 0..(UINTMAX_MAX - 1)
    BY <1>5, <1>6, Machine
  <1>8. /\ layout[type].align \in Alignments \cup {0, UINTMAX_MAX}
        /\ layout[type].size # 0 => layout[type].align \in Alignments
    BY <1>5 DEF LayoutInv, AlignsOK
  <1>9. Fit(type)
    BY <1>5, <1>7, <1>8 DEF Fit
  <1> QED
    BY <1>1, <1>2, <1>3, <1>4, <1>9 DEF IsAggregate

\* An alignment that divided the struct's still does when that grows.
LEMMA StillDivides ==
    ASSUME NEW a \in Alignments, NEW b \in Alignments, NEW d \in Alignments \cup {0},
           b % a = 0, d >= b
    PROVE  d % a = 0
  <1>1. /\ a \in Nat \ {0} /\ b \in Nat \ {0} /\ d \in Nat
    BY Machine
  <1>2. a <= b
    BY <1>1
  <1> QED
    BY <1>1, <1>2, AlignmentsAssumption

\* What ends before one offset ends before a later one.
LEMMA EndsBefore ==
    \A at, size, end, later \in Nat : at + size <= end /\ end <= later => at + size <= later
  OBVIOUS

\* An offset is not beyond the end of what follows it.
LEMMA StartsBefore ==
    \A at, size, end \in Nat : at + size <= end => at <= end /\ size <= end
  OBVIOUS

\* complete_struct and complete_union keep the invariant member by member.
LEMMA MemberKeeps ==
    ASSUME LayoutInv, AddMember
    PROVE  LayoutInv'
  <1> DEFINE K == DOMAIN layout
             r == Len(acts)
             act == Last(acts)
             s == act.type
             self == layout[s]
             offset == act.next_offset
  <1>1. PICK type \in K, is_last \in BOOLEAN :
          IF Unfit(type) THEN Refuse
          ELSE /\ layout' = [layout EXCEPT ![s] = Grown(s, offset, type, is_last)]
               /\ types' = IF is_last THEN Append(types, s) ELSE types
               /\ acts' = IF is_last THEN Front(acts)
                          ELSE [acts EXCEPT ![r].next_offset = Added(s, offset, type).next_offset]
               /\ oversized' = (oversized
                      \/ Grown(s, offset, type, is_last).size > SIZEOF_MAX
                      \/ Added(s, offset, type).next_offset > SIZEOF_MAX)
               /\ UNCHANGED <<phase, c, early>>
    BY DEF AddMember, Grown, Added
  <1>2. CASE Unfit(type)
    BY <1>1, <1>2, PhaseKeeps DEF Refuse
  <1>3. CASE ~Unfit(type)
    <2>1. acts # <<>>
      BY DEF AddMember
    <2>2. /\ s \in K /\ offset \in 0..UINTMAX_MAX /\ act = acts[r] /\ r \in Nat \ {0}
          /\ ~layout[s].is_complete /\ Kind(s) \in {"struct", "union"}
          /\ Open(layout[s]) /\ Fit(type)
      BY <1>3, <2>1, MemberFits
    <2> DEFINE g == Grown(s, offset, type, is_last)
               next == Added(s, offset, type).next_offset
               at == Place(s, offset, type)
               entry == [type |-> type, offset |-> at]
               n == Len(self.members)
    <2>3. Adds(s, offset, type, is_last, g, next, at)
      BY <2>2, GrownFacts
    <2>4. /\ layout' = [layout EXCEPT ![s] = g]
          /\ types' = IF is_last THEN Append(types, s) ELSE types
          /\ acts' = IF is_last THEN Front(acts) ELSE [acts EXCEPT ![r].next_offset = next]
          /\ oversized' = (oversized \/ g.size > SIZEOF_MAX \/ next > SIZEOF_MAX)
          /\ UNCHANGED <<phase, early>>
      BY <1>1, <1>3
    <2> HIDE DEF g, next, at, act
    <2>5. DOMAIN layout' = K /\ layout'[s] = g /\ \A t \in K \ {s} : layout'[t] = layout[t]
      BY <2>2, <2>4
    <2>6. /\ type \in K /\ type # s /\ layout[type].is_complete
          /\ layout'[type] = layout[type]
      BY <2>2, <2>5 DEF Fit
    <2>7. \A t \in K : layout[t] \in Layouts(K) /\ (~layout[t].is_complete => IsAggregate(t))
      BY DEF LayoutInv, KnownOK
    <2>8. /\ n \in Nat /\ DOMAIN self.members = 1..n
          /\ DOMAIN g.members = 1..(n + 1) /\ g.members[n + 1] = entry
          /\ \A j \in 1..n : g.members[j] = self.members[j]
      <3>1. self.members \in Seq([type : K, offset : Nat])
        BY <2>2, <2>7, MembersTyped
      <3>2. entry \in [type : K, offset : Nat] /\ g.members = Append(self.members, entry)
        BY <2>3, <2>6, Machine DEF Adds
      <3> HIDE DEF entry, self
      <3> QED
        BY <3>1, <3>2, AppendFacts
    <2>9. ASSUME NEW t \in K, NEW j \in DOMAIN layout[t].members
          PROVE  /\ layout[t].members[j].type \in K \ {s}
                 /\ layout[layout[t].members[j].type].is_complete
                 /\ layout[t].members[j].offset \in Nat
                 /\ layout'[layout[t].members[j].type] = layout[layout[t].members[j].type]
      <3>1. layout[t].members[j].type \in K /\ layout[t].members[j].offset \in Nat
        BY <2>7, <2>9, MembersTyped
      <3>2. layout[layout[t].members[j].type].is_complete
        BY <2>9 DEF LayoutInv, Ready
      <3> QED
        BY <2>2, <2>5, <3>1, <3>2
    <2>10. /\ g \in Layouts(K) /\ (g.is_complete <=> is_last)
           /\ g.size \in 0..UINTMAX_MAX
           /\ g.align \in Alignments \cup {0}
           /\ g.size \notin {0, SIZEOF_UNSIZED} => g.align \in Alignments
           /\ next \in 0..UINTMAX_MAX /\ at \in 0..UINTMAX_MAX
      BY <2>3 DEF Adds
    <2>11. KnownOK'
      <3>1. K \subseteq Names /\ IsAggregate(s)
        BY <2>2 DEF LayoutInv, KnownOK, IsAggregate
      <3> QED
        BY <2>5, <2>7, <2>10, <3>1 DEF KnownOK
    <2>12. /\ acts \in Seq(ActType(K)) /\ DOMAIN acts = 1..r /\ acts[r].type = s
           /\ \A i \in 1..r : acts[i].type \in K /\ ~layout[acts[i].type].is_complete
           /\ \A i, j \in 1..r : acts[i].type = acts[j].type => i = j
           /\ \A t \in K : ~layout[t].is_complete /\ (\A i \in 1..r : acts[i].type # t) =>
                 layout[t] = Unfinished
      BY <2>2, ActsTyped DEF LayoutInv, ActsOK
    <2>13. /\ \A i \in 1..r : i = r \/ i \in 1..(r - 1)
           /\ \A i \in 1..(r - 1) : i \in 1..r /\ i # r
           /\ \A i \in 1..(r - 1) : acts[i].type # s
           /\ r \in 1..r
      <3>1. /\ \A i \in 1..r : i = r \/ i \in 1..(r - 1)
            /\ \A i \in 1..(r - 1) : i \in 1..r /\ i # r
            /\ r \in 1..r
        BY <2>2
      <3> QED
        BY <2>12, <3>1
    <2>14. /\ is_last => /\ acts' \in Seq(ActType(K)) /\ DOMAIN acts' = 1..(r - 1)
                         /\ \A i \in 1..(r - 1) : acts'[i] = acts[i]
           /\ ~is_last => /\ acts' \in Seq(ActType(K)) /\ DOMAIN acts' = 1..r
                          /\ \A i \in 1..r : acts'[i].type = acts[i].type
                          /\ \A i \in 1..(r - 1) : acts'[i] = acts[i]
                          /\ acts'[r].next_offset = next
      <3>1. CASE is_last
        BY <2>1, <2>4, <2>12, <3>1, FrontFacts
      <3>2. CASE ~is_last
        <4> DEFINE new == [type |-> s, next_offset |-> next]
        <4>0. acts \in Seq(ActType(K)) /\ r \in 1..Len(acts)
          BY <2>12, <2>13
        <4>1. acts' = [acts EXCEPT ![r] = new]
          <5>1. acts[r] \in ActType(K)
            BY <4>0, ElementOfSeq
          <5>2. [acts[r] EXCEPT !.next_offset = next] = new
            BY <2>12, <5>1, SMTT(30) DEF ActType
          <5> QED
            BY <2>4, <3>2, <5>2
        <4>2. new \in ActType(K) /\ new.type = s /\ new.next_offset = next
          BY <2>2, <2>10 DEF ActType
        <4> HIDE DEF new
        <4>3. /\ acts' \in Seq(ActType(K)) /\ Len(acts') = r
              /\ \A i \in 1..r : acts'[i] = IF i = r THEN new ELSE acts[i]
          BY <4>0, <4>1, <4>2, ExceptSeq
        <4>4. DOMAIN acts' = 1..r
          BY <4>3
        <4>5. \A i \in 1..r : acts'[i].type = acts[i].type
          BY <2>12, <4>2, <4>3
        <4> QED
          BY <2>13, <3>2, <4>2, <4>3, <4>4, <4>5
      <3> QED
        BY <3>1, <3>2
    <2>15. ActsOK'
      <3>1. CASE is_last
        <4>1. \A i \in 1..(r - 1) :
                 acts[i].type \in K \ {s} /\ ~layout'[acts[i].type].is_complete
          BY <2>5, <2>12, <2>13
        <4>2. \A i, j \in 1..(r - 1) : acts[i].type = acts[j].type => i = j
          BY <2>12, <2>13
        <4>3. ASSUME NEW t \in K, ~layout'[t].is_complete,
                     \A i \in 1..(r - 1) : acts[i].type # t
              PROVE  layout'[t] = Unfinished
          <5>1. t # s
            BY <2>5, <2>10, <3>1, <4>3
          <5>2. \A i \in 1..r : acts[i].type # t
            BY <2>12, <2>13, <4>3, <5>1
          <5> QED
            BY <2>5, <2>12, <4>3, <5>1, <5>2
        <4> QED
          <5>1. /\ acts' \in Seq(ActType(K)) /\ DOMAIN acts' = 1..(r - 1)
                /\ \A i \in 1..(r - 1) : acts'[i].type = acts[i].type
            BY <2>14, <3>1
          <5> QED
            BY <2>5, <4>1, <4>2, <4>3, <5>1 DEF ActsOK
      <3>2. CASE ~is_last
        <4>1. \A i \in 1..r : ~layout'[acts[i].type].is_complete
          BY <2>5, <2>10, <2>12, <2>13, <3>2
        <4>2. ASSUME NEW t \in K, ~layout'[t].is_complete,
                     \A i \in 1..r : acts[i].type # t
              PROVE  layout'[t] = Unfinished
          BY <2>5, <2>12, <2>13, <4>2
        <4> QED
          <5>1. /\ acts' \in Seq(ActType(K)) /\ DOMAIN acts' = 1..r
                /\ \A i \in 1..r : acts'[i].type = acts[i].type
            BY <2>14, <3>2
          <5>2. \A i, j \in 1..r : acts[i].type = acts[j].type => i = j
            BY <2>12
          <5> QED
            BY <2>5, <4>1, <4>2, <5>1, <5>2 DEF ActsOK
      <3> QED
        BY <3>1, <3>2
    <2>16. ListOK'
      <3> DEFINE l == Len(types)
      <3>1. /\ types \in Seq(K) /\ l \in Nat /\ DOMAIN types = 1..l
            /\ \A i \in 1..l : types[i] \in K /\ types[i] # s
                                /\ layout'[types[i]].is_complete
        <4>1. types \in Seq(K) /\ l \in Nat /\ DOMAIN types = 1..l
          BY DEF LayoutInv, ListOK
        <4>2. \A i \in 1..l : types[i] \in K /\ layout[types[i]].is_complete
          BY <4>1 DEF LayoutInv, ListOK
        <4> QED
          BY <2>2, <2>5, <4>1, <4>2
      <3>2. CASE ~is_last
        BY <2>4, <2>5, <3>1, <3>2 DEF LayoutInv, ListOK
      <3>3. CASE is_last
        <4>1. /\ types' \in Seq(K) /\ DOMAIN types' = 1..(l + 1) /\ types'[l + 1] = s
              /\ \A i \in 1..l : types'[i] = types[i]
          BY <2>2, <2>4, <3>1, <3>3, AppendFacts
        <4>2. /\ \A i \in 1..(l + 1) : i = l + 1 \/ i \in 1..l
              /\ \A i \in 1..l : i \in 1..(l + 1) /\ \A j \in 1..(i - 1) : j \in 1..l
          BY <3>1
        <4>3. \A i \in 1..(l + 1) : layout'[types'[i]].is_complete
          BY <2>5, <2>10, <3>1, <3>3, <4>1, <4>2
        <4>4. \A i, j \in 1..(l + 1) : types'[i] = types'[j] => i = j
          BY <3>1, <4>1, <4>2 DEF LayoutInv, ListOK
        <4>5. \A t \in K : Kind(t) = "pointer" => \E i \in 1..(l + 1) : types'[i] = t
          BY <3>1, <4>1, <4>2 DEF LayoutInv, ListOK
        <4>6. ASSUME NEW i \in 1..(l + 1), Kind(types'[i]) = "slice"
              PROVE  \E j \in 1..(i - 1) : types'[j] = Pointer(Base(types'[i]))
          <5>1. i \in 1..l /\ types'[i] = types[i]
            BY <2>2, <4>1, <4>2, <4>6
          <5>2. \E j \in 1..(i - 1) : types[j] = Pointer(Base(types[i]))
            BY <3>1, <4>6, <5>1 DEF LayoutInv, ListOK
          <5> QED
            BY <4>1, <4>2, <5>1, <5>2
        <4> QED
          BY <2>5, <4>1, <4>3, <4>4, <4>5, <4>6 DEF ListOK
      <3> QED
        BY <3>2, <3>3
    <2>17. AlignsOK'
      <3>1. ASSUME NEW t \in K \ {s}
            PROVE  /\ layout'[t].align \in Alignments \cup {0, UINTMAX_MAX}
                   /\ layout'[t].size \notin {0, SIZEOF_UNSIZED} =>
                         layout'[t].align \in Alignments
                   /\ IsAggregate(t) => layout'[t].align \in Alignments \cup {0}
        BY <2>5 DEF LayoutInv, AlignsOK
      <3> QED
        BY <2>5, <2>10, <3>1 DEF AlignsOK
    <2>18. Ready'
      <3>1. ASSUME NEW t \in K \ {s}, NEW j \in DOMAIN layout[t].members
            PROVE  layout'[layout[t].members[j].type].is_complete
        BY <2>9
      <3>2. ASSUME NEW j \in 1..(n + 1)
            PROVE  layout'[g.members[j].type].is_complete
        <4>1. CASE j = n + 1
          BY <2>6, <2>8, <4>1, SMTT(30)
        <4>2. CASE j \in 1..n
          BY <2>2, <2>8, <2>9, <4>2, SMTT(30)
        <4> QED
          BY <2>8, <4>1, <4>2
      <3> QED
        BY <2>5, <2>8, <3>1, <3>2 DEF Ready
    <2>19. ASSUME ~oversized'
           PROVE  /\ ~oversized /\ g.size <= SIZEOF_MAX /\ next <= SIZEOF_MAX
                  /\ offset <= SIZEOF_MAX /\ self.size <= SIZEOF_MAX
                  /\ layout[type].size <= SIZEOF_MAX
                  /\ Kind(s) = "struct" => self.size % Greater(self.align, 1) = 0
                  /\ Apart(layout, s)
                  /\ Kind(s) = "struct" => \A j \in 1..n :
                        self.members[j].offset + layout[self.members[j].type].size <= offset
      <3>1. ~oversized /\ g.size <= SIZEOF_MAX /\ next <= SIZEOF_MAX
        <4>1. ~oversized /\ ~(g.size > SIZEOF_MAX) /\ ~(next > SIZEOF_MAX)
          BY <2>4, <2>19
        <4> QED
          BY <2>10, <4>1, Machine
      <3>2. /\ \A t \in K : Small(Bytes(t)) /\ (IsAggregate(t) => Bytes(t) <= SIZEOF_MAX)
            /\ offset <= SIZEOF_MAX
            /\ Kind(s) = "struct" => \A j \in DOMAIN self.members :
                  self.members[j].offset + Bytes(self.members[j].type) <= offset
        BY <2>2, <2>12, <2>13, <3>1 DEF LayoutInv, Placed
      <3>3. self.size <= SIZEOF_MAX /\ s \in Aggregates
        BY <2>2, <3>2 DEF IsAggregate, Bytes, Aggregates
      <3>4. layout[type].size <= SIZEOF_MAX
        BY <2>2, <2>6, <3>2, Machine DEF Fit, Small, Bytes
      <3>5. Apart(layout, s)
        BY <3>1, <3>3 DEF LayoutInv, MembersApart, Apart, MemberApart, Rounded, Bytes
      <3>6. Kind(s) = "struct" => self.size % Greater(self.align, 1) = 0
        BY <3>5 DEF Apart, Rounded
      <3> QED
        BY <2>8, <3>1, <3>2, <3>3, <3>4, <3>5, <3>6 DEF Bytes
    <2>20. ASSUME ~oversized'
           PROVE  /\ at % Greater(layout[type].align, 1) = 0
                  /\ Kind(s) = "struct" => offset <= at /\ at + layout[type].size <= next
                  /\ g.align >= self.align
                  /\ layout[type].size > 0 => /\ at + layout[type].size <= g.size
                                              /\ g.align >= layout[type].align
                  /\ g.size >= self.size \/ (Kind(s) = "struct" /\ g.size >= offset)
                  /\ Kind(s) = "struct" \/ is_last => g.size % Greater(g.align, 1) = 0
      BY <2>3, <2>19, <2>20 DEF Adds
    <2>23. /\ \A t \in K : layout[t].size \in Nat /\ layout[t].size \in 0..UINTMAX_MAX
           /\ \A t \in K : layout[t].size # 0 /\ layout[t].size # SIZEOF_UNSIZED =>
                 layout[t].align \in Alignments
           /\ offset \in Nat /\ at \in Nat /\ next \in Nat /\ g.size \in Nat
      <3>1. \A t \in K : layout[t].size \in 0..UINTMAX_MAX
        BY <2>7, MembersTyped
      <3>2. \A x \in 0..UINTMAX_MAX : x \in Nat
        BY Machine
      <3>3. \A t \in K : layout[t].size # 0 /\ layout[t].size # SIZEOF_UNSIZED =>
               layout[t].align \in Alignments
        BY DEF LayoutInv, AlignsOK
      <3> QED
        BY <2>2, <2>10, <3>1, <3>2, <3>3
    <2>24. \A j \in 1..n :
              /\ j \in DOMAIN self.members /\ g.members[j] = self.members[j]
              /\ self.members[j].type \in K \ {s} /\ self.members[j].offset \in Nat
              /\ layout[self.members[j].type].is_complete
              /\ layout'[self.members[j].type] = layout[self.members[j].type]
      <3>1. /\ \A j \in DOMAIN self.members :
                  /\ self.members[j].type \in K \ {s} /\ self.members[j].offset \in Nat
                  /\ layout[self.members[j].type].is_complete
                  /\ layout'[self.members[j].type] = layout[self.members[j].type]
        BY <2>2, <2>9
      <3> HIDE DEF self, n
      <3> QED
        BY <2>8, <3>1
    <2>21. Placed'
      <3> SUFFICES ASSUME ~oversized'
                   PROVE  Placed'
        BY DEF Placed
      <3>1. /\ ~oversized /\ g.size <= SIZEOF_MAX /\ next <= SIZEOF_MAX
            /\ Kind(s) = "struct" => \A j \in 1..n :
                  self.members[j].offset + layout[self.members[j].type].size <= offset
            /\ Kind(s) = "struct" => offset <= at /\ at + layout[type].size <= next
        BY <2>19, <2>20
      <3>2. \A t \in K : Small(Bytes(t)') /\ (IsAggregate(t) => Bytes(t)' <= SIZEOF_MAX)
        BY <2>5, <3>1 DEF LayoutInv, Placed, Small, Bytes
      <3>3. ASSUME NEW i \in 1..(r - 1)
            PROVE  /\ acts[i].next_offset <= SIZEOF_MAX
                   /\ Kind(acts[i].type) = "struct" =>
                         \A j \in DOMAIN layout'[acts[i].type].members :
                             layout'[acts[i].type].members[j].offset
                                + layout'[layout'[acts[i].type].members[j].type].size
                                   <= acts[i].next_offset
        <4>1. /\ acts[i].type \in K \ {s} /\ i \in DOMAIN acts
              /\ layout'[acts[i].type] = layout[acts[i].type]
          BY <2>5, <2>12, <2>13
        <4>2. /\ acts[i].next_offset <= SIZEOF_MAX
              /\ Kind(acts[i].type) = "struct" =>
                    \A j \in DOMAIN layout[acts[i].type].members :
                        layout[acts[i].type].members[j].offset
                           + layout[layout[acts[i].type].members[j].type].size
                              <= acts[i].next_offset
          BY <3>1, <4>1 DEF LayoutInv, Placed, Bytes
        <4> QED
          BY <2>9, <4>1, <4>2, SMTT(30)
      <3>4. ASSUME Kind(s) = "struct", NEW j \in 1..(n + 1)
            PROVE  g.members[j].offset + layout'[g.members[j].type].size <= next
        <4>1. CASE j = n + 1
          BY <2>6, <2>8, <2>20, <3>4, <4>1, SMTT(30)
        <4>2. CASE j \in 1..n
          <5>1. /\ g.members[j] = self.members[j] /\ self.members[j].offset \in Nat
                /\ layout'[self.members[j].type] = layout[self.members[j].type]
                /\ self.members[j].type \in K
            BY <2>24, <4>2
          <5>2. self.members[j].offset + layout[self.members[j].type].size <= offset
            BY <3>1, <3>4, <4>2
          <5>3. offset <= at /\ at + layout[type].size <= next
            BY <3>1, <3>4
          <5>4. layout[self.members[j].type].size \in Nat /\ layout[type].size \in Nat
            BY <2>23, <5>1
          <5>5. offset <= next
            BY <2>23, <5>3, <5>4, StartsBefore
          <5>6. self.members[j].offset + layout[self.members[j].type].size <= next
            BY <2>23, <5>1, <5>2, <5>4, <5>5, EndsBefore
          <5> QED
            BY <5>1, <5>6
        <4> QED
          BY <2>8, <4>1, <4>2, SMTT(30)
      <3>5. CASE is_last
        BY <2>5, <2>14, <3>2, <3>3, <3>5 DEF Placed, Bytes
      <3>6. CASE ~is_last
        <4>1. ASSUME NEW i \in 1..r
              PROVE  /\ acts'[i].next_offset <= SIZEOF_MAX
                     /\ Kind(acts'[i].type) = "struct" =>
                           \A j \in DOMAIN layout'[acts'[i].type].members :
                               layout'[acts'[i].type].members[j].offset
                                  + layout'[layout'[acts'[i].type].members[j].type].size
                                     <= acts'[i].next_offset
          <5>1. CASE i \in 1..(r - 1)
            BY <2>14, <3>3, <3>6, <5>1
          <5>2. CASE i = r
            <6>1. acts'[i].type = s /\ acts'[i].next_offset = next
              BY <2>12, <2>14, <3>6, <5>2
            <6> QED
              BY <2>5, <2>8, <3>1, <3>4, <6>1
          <5> QED
            BY <2>13, <5>1, <5>2
        <4> QED
          BY <2>5, <2>14, <3>2, <3>6, <4>1 DEF Placed, Bytes
      <3> QED
        BY <3>5, <3>6
    <2>22. MembersApart'
      <3>1. Aggregates' = Aggregates
        BY <2>5 DEF Aggregates
      <3> SUFFICES ASSUME ~oversized', NEW t \in Aggregates
                   PROVE  Apart(layout', t)
        BY <3>1 DEF MembersApart, Apart, MemberApart, Rounded, Bytes
      <3>2. CASE t # s
        <4>1. t \in K \ {s} /\ ~oversized
          BY <2>19, <3>2 DEF Aggregates
        <4>2. Apart(layout, t)
          BY <4>1 DEF LayoutInv, MembersApart, Apart, MemberApart, Rounded, Bytes
        <4>3. /\ DOMAIN layout[t].members = 1..Len(layout[t].members)
              /\ Len(layout[t].members) \in Nat
          BY <2>7, <4>1, MembersTyped
        <4> QED
          BY <2>5, <2>9, <4>1, <4>2, <4>3, ApartStays
      <3>3. CASE t = s
        <4>1. Rounded(layout', s)
          BY <2>5, <2>10, <2>20 DEF Rounded
        <4>2. ASSUME NEW j \in 1..n
              PROVE  MemberApart(layout', s, j)
          <5> DEFINE m == self.members[j]
                     x == layout[m.type]
          <5>1. /\ m.type \in K \ {s} /\ m.offset \in Nat /\ j \in DOMAIN self.members
                /\ g.members[j] = m /\ layout'[m.type] = x
            BY <2>24, <4>2
          <5>2. /\ m.offset % Greater(x.align, 1) = 0
                /\ x.size > 0 => m.offset + x.size <= self.size /\ self.align % x.align = 0
                /\ Kind(s) = "struct" => \A i \in 1..(j - 1) :
                      self.members[i].offset + layout[self.members[i].type].size <= m.offset
            <6>1. MemberApart(layout, s, j)
              BY <2>19, <5>1 DEF Apart
            <6> QED
              BY <6>1 DEF MemberApart
          <5>3. x.size \in Nat /\ self.size \in Nat /\ self.size <= SIZEOF_MAX
            BY <2>2, <2>19, <2>23, <5>1
          <5>4. x.size > 0 => m.offset + x.size <= g.size
            <6>1. CASE g.size >= self.size
              BY <2>23, <5>1, <5>2, <5>3, <6>1, EndsBefore
            <6>2. CASE Kind(s) = "struct" /\ g.size >= offset
              <7>1. m.offset + x.size <= offset
                BY <2>19, <4>2, <6>2
              <7> QED
                BY <2>23, <5>1, <5>3, <6>2, <7>1, EndsBefore
            <6> QED
              BY <2>20, <6>1, <6>2
          <5>5. x.size > 0 => g.align % x.align = 0
            <6> SUFFICES ASSUME x.size > 0
                         PROVE  g.align % x.align = 0
              OBVIOUS
            <6> HIDE DEF m, x
            <6>1. m.offset + x.size <= self.size /\ self.align % x.align = 0
              BY <5>2
            <6>2. /\ x.size # 0 /\ x.size # SIZEOF_UNSIZED
                  /\ self.size # 0 /\ self.size # SIZEOF_UNSIZED
              <7>1. x.size <= self.size /\ 0 < x.size
                BY <5>1, <5>3, <6>1, StartsBefore
              <7>2. x.size \in Nat /\ self.size \in Nat /\ self.size <= SIZEOF_MAX
                BY <5>3
              <7> HIDE DEF self
              <7> QED
                BY <7>1, <7>2, Machine
            <6>3. x.align \in Alignments /\ self.align \in Alignments
              BY <2>2, <2>23, <5>1, <6>2 DEF x
            <6>4. g.align \in Alignments \cup {0} /\ g.align >= self.align
              BY <2>10, <2>20
            <6> QED
              BY <6>1, <6>3, <6>4, StillDivides
          <5>6. ASSUME Kind(s) = "struct", NEW i \in 1..(j - 1)
                PROVE  g.members[i].offset + layout'[g.members[i].type].size <= m.offset
            <6>1. i \in 1..n /\ i \in DOMAIN self.members
              BY <2>8, <4>2
            <6>2. /\ g.members[i] = self.members[i]
                  /\ layout'[self.members[i].type] = layout[self.members[i].type]
              BY <2>24, <6>1
            <6> QED
              BY <5>2, <5>6, <6>2
          <5> QED
            BY <2>5, <5>1, <5>2, <5>4, <5>5, <5>6 DEF MemberApart
        <4>3. MemberApart(layout', s, n + 1)
          <5> DEFINE x == layout[type]
          <5>1. /\ g.members[n + 1].type = type /\ g.members[n + 1].offset = at
                /\ layout'[type] = x
            BY <2>6, <2>8
          <5>2. at % Greater(x.align, 1) = 0 /\ (x.size > 0 => at + x.size <= g.size)
            BY <2>20
          <5>3. ASSUME x.size > 0
                PROVE  g.align % x.align = 0
            <6>1. x.size \in Nat /\ x.size <= SIZEOF_MAX /\ g.size <= SIZEOF_MAX
              BY <2>6, <2>19, <2>23
            <6>2. /\ x.size # 0 /\ x.size # SIZEOF_UNSIZED
                  /\ g.size \notin {0, SIZEOF_UNSIZED}
              BY <2>23, <5>2, <5>3, <6>1, Machine
            <6>3. x.align \in Alignments /\ g.align \in Alignments /\ g.align >= x.align
              BY <2>6, <2>10, <2>20, <2>23, <5>3, <6>2
            <6>4. x.align % x.align = 0
              BY <6>3, GreaterFacts DEF Greater
            <6> QED
              BY <6>3, <6>4, StillDivides
          <5>4. ASSUME Kind(s) = "struct", NEW i \in 1..((n + 1) - 1)
                PROVE  g.members[i].offset + layout'[g.members[i].type].size <= at
            <6>1. i \in 1..n /\ i \in DOMAIN self.members
              BY <2>8
            <6>2. /\ g.members[i] = self.members[i] /\ self.members[i].offset \in Nat
                  /\ layout'[self.members[i].type] = layout[self.members[i].type]
                  /\ self.members[i].type \in K
              BY <2>24, <6>1
            <6>3. self.members[i].offset + layout[self.members[i].type].size <= offset
              BY <2>19, <5>4, <6>1
            <6>4. offset <= at /\ layout[self.members[i].type].size \in Nat
              BY <2>20, <2>23, <5>4, <6>2
            <6> QED
              BY <2>23, <6>2, <6>3, <6>4, EndsBefore
          <5> QED
            BY <2>5, <5>1, <5>2, <5>3, <5>4 DEF MemberApart
        <4> QED
          BY <2>5, <2>8, <3>3, <4>1, <4>2, <4>3 DEF Apart
      <3> QED
        BY <3>2, <3>3
    <2> QED
      BY <2>4, <2>5, <2>10, <2>11, <2>15, <2>16, <2>17, <2>18, <2>21, <2>22 DEF LayoutInv
  <1> QED
    BY <1>2, <1>3

-----------------------------------------------------------------------------
(***************************************************************************)
(* The invariant.                                                          *)
(***************************************************************************)
\* Scalars and any are there at the start, and the declared structs and unions.
LEMMA InitKeeps == Init => LayoutInv
  <1> SUFFICES ASSUME Init
               PROVE  LayoutInv
    OBVIOUS
  <1> DEFINE K == DOMAIN layout
  <1>1. PICK kind \in [Declared -> {"struct", "union"}] :
          layout = [type \in Scalars \cup {AnyType} \cup {Leaf(kind[n], n) : n \in Declared} |->
                       IF type = AnyType THEN Sized(SIZEOF_UNSIZED, ALIGNOF_UNSIZED)
                       ELSE IF type \in Scalars THEN Sized(CountOf(type), CountOf(type))
                       ELSE Unfinished]
    BY DEF Init
  <1>2. /\ phase = "resolve" /\ types = <<>> /\ acts = <<>> /\ early = {} /\ ~oversized
        /\ oversized \in BOOLEAN
    BY DEF Init
  <1>3. \A t \in Scalars : /\ t \in Names /\ Kind(t) = "integer"
                           /\ CountOf(t) \in ScalarSizes
    <2>1. ASSUME NEW n \in ScalarSizes
          PROVE  /\ Leaf("integer", n) \in Names /\ Kind(Leaf("integer", n)) = "integer"
                 /\ CountOf(Leaf("integer", n)) = n
      <3>1. "integer" \in Kinds /\ n \in Numbers
        BY DEF Kinds, Numbers
      <3> QED
        BY <3>1, NameFacts
    <2> QED
      BY <2>1 DEF Scalars
  <1>4. AnyType \in Names /\ Kind(AnyType) = "any"
    <2>1. "any" \in Kinds /\ 0 \in Numbers
      BY DEF Kinds, Numbers
    <2> QED
      BY <2>1, NameFacts DEF AnyType
  <1>5. ASSUME NEW n \in Declared
        PROVE  /\ Leaf(kind[n], n) \in Names /\ Kind(Leaf(kind[n], n)) = kind[n]
               /\ kind[n] \in {"struct", "union"}
    <2>1. kind[n] \in Kinds /\ n \in Numbers /\ kind[n] \in {"struct", "union"}
      BY DEF Kinds, Numbers
    <2> QED
      BY <2>1, NameFacts
  <1>6. ASSUME NEW t \in K
        PROVE  /\ t \in Names
               /\ \/ Kind(t) = "integer" /\ \E n \in ScalarSizes : layout[t] = Sized(n, n)
                  \/ Kind(t) = "any" /\ layout[t] = Sized(SIZEOF_UNSIZED, ALIGNOF_UNSIZED)
                  \/ Kind(t) \in {"struct", "union"} /\ layout[t] = Unfinished
    <2>1. CASE t \in Scalars
      <3>1. t # AnyType
        BY <1>3, <1>4, <2>1
      <3> QED
        BY <1>1, <1>3, <2>1, <3>1
    <2>2. CASE t = AnyType
      BY <1>1, <1>4, <2>2
    <2>3. CASE \E n \in Declared : t = Leaf(kind[n], n)
      <3>1. PICK n \in Declared : t = Leaf(kind[n], n)
        BY <2>3
      <3>2. t \in Names /\ Kind(t) \in {"struct", "union"}
        BY <1>5, <3>1
      <3>3. t # AnyType /\ t \notin Scalars
        BY <1>3, <1>4, <3>2
      <3> QED
        BY <1>1, <3>2, <3>3
    <2> QED
      BY <1>1, <2>1, <2>2, <2>3
  <1>7. \A n \in ScalarSizes : /\ n \in 1..SIZEOF_MAX /\ n \in 0..UINTMAX_MAX
                              /\ n \in Alignments
    BY Machine
  <1>8. /\ SIZEOF_UNSIZED = UINTMAX_MAX /\ ALIGNOF_UNSIZED = UINTMAX_MAX
        /\ UINTMAX_MAX \in 0..UINTMAX_MAX
    BY Machine DEF ALIGNOF_UNSIZED
  <1>9. ASSUME NEW t \in K
        PROVE  /\ t \in Names /\ layout[t] \in Layouts(K)
               /\ Kind(t) \notin {"pointer", "slice"}
               /\ DOMAIN layout[t].members = {}
               /\ layout[t].align \in Alignments \cup {0, UINTMAX_MAX}
               /\ layout[t].size \notin {0, SIZEOF_UNSIZED} => layout[t].align \in Alignments
               /\ Small(layout[t].size)
               /\ IsAggregate(t) => layout[t] = Unfinished
               /\ ~layout[t].is_complete => IsAggregate(t) /\ layout[t] = Unfinished
    <2>0. DOMAIN <<>> = {}
      OBVIOUS
    <2>1. CASE Kind(t) = "integer" /\ \E n \in ScalarSizes : layout[t] = Sized(n, n)
      <3>1. PICK n \in ScalarSizes : layout[t] = Sized(n, n)
        BY <2>1
      <3>2. n \in Alignments /\ n \in 0..UINTMAX_MAX /\ n <= SIZEOF_MAX
        BY <1>7
      <3>3. /\ layout[t] \in Layouts(K) /\ layout[t].size = n /\ layout[t].align = n
            /\ layout[t].is_complete /\ layout[t].members = <<>>
        BY <3>1, <3>2, SizedFacts
      <3> QED
        BY <1>6, <2>0, <2>1, <3>2, <3>3 DEF Small, IsAggregate
    <2>2. CASE Kind(t) = "any" /\ layout[t] = Sized(SIZEOF_UNSIZED, ALIGNOF_UNSIZED)
      <3>1. /\ layout[t] \in Layouts(K) /\ layout[t].size = UINTMAX_MAX
            /\ layout[t].align = UINTMAX_MAX
            /\ layout[t].is_complete /\ layout[t].members = <<>>
        BY <1>8, <2>2, SizedFacts
      <3> QED
        BY <1>6, <1>8, <2>0, <2>2, <3>1 DEF Small, IsAggregate
    <2>3. CASE Kind(t) \in {"struct", "union"} /\ layout[t] = Unfinished
      <3>1. /\ layout[t] \in Layouts(K) /\ layout[t].size = 0 /\ layout[t].align = 0
            /\ ~layout[t].is_complete /\ layout[t].members = <<>>
        BY <1>8, <2>3, SizedFacts
      <3> QED
        BY <1>6, <2>0, <2>3, <3>1, Machine DEF Small, IsAggregate
    <2> QED
      BY <1>6, <2>1, <2>2, <2>3
  <1>10. \A S : <<>> \in Seq(S) /\ DOMAIN <<>> = {}
    OBVIOUS
  <1>11. /\ Unfinished.size = 0 /\ Unfinished.align = 0
         /\ 0 % Greater(0, 1) = 0 /\ 0 <= SIZEOF_MAX
    BY <1>8, SizedFacts, Machine DEF Greater
  <1>12. KnownOK
    BY <1>9 DEF KnownOK
  <1>13. ActsOK
    BY <1>2, <1>9, <1>10 DEF ActsOK
  <1>14. ListOK
    BY <1>2, <1>9, <1>10 DEF ListOK
  <1>15. AlignsOK
    BY <1>9, <1>11 DEF AlignsOK
  <1>16. Ready
    BY <1>9 DEF Ready
  <1>17. Placed
    BY <1>2, <1>9, <1>10, <1>11 DEF Placed, Bytes
  <1>18. MembersApart
    <2>1. ASSUME NEW t \in Aggregates
          PROVE  Apart(layout, t)
      <3>1. t \in K /\ IsAggregate(t)
        BY DEF Aggregates
      <3>2. layout[t] = Unfinished /\ DOMAIN layout[t].members = {}
        BY <1>9, <3>1
      <3> QED
        BY <1>11, <3>2 DEF Apart, Rounded
    <2> QED
      BY <2>1 DEF MembersApart, Apart, MemberApart, Rounded, Bytes
  <1> QED
    BY <1>2, <1>12, <1>13, <1>14, <1>15, <1>16, <1>17, <1>18 DEF LayoutInv

\* Each step keeps the invariant.
LEMMA NextKeeps == LayoutInv /\ [Next]_vars => LayoutInv'
  <1> SUFFICES ASSUME LayoutInv, [Next]_vars
               PROVE  LayoutInv'
    OBVIOUS
  <1>1. CASE ResolvePointer \/ ResolveFunction \/ ResolveSlice \/ ResolveArray
    BY <1>1, TypesKeep
  <1>2. CASE Complete \/ Instantiate
    BY <1>2, EntriesKeep
  <1>3. CASE AddMember
    BY <1>3, MemberKeeps
  <1>4. CASE Codegen
    BY <1>4, PhaseKeeps DEF Codegen
  <1>5. CASE UNCHANGED vars
    BY <1>5, PhaseKeeps DEF vars, LayoutInv
  <1> QED
    BY <1>1, <1>2, <1>3, <1>4, <1>5 DEF Next

\* The inductive invariant holds at any point of resolution, for any number of
\* types and members and any sizes that meet the assumptions.
THEOREM LayoutInvariant == Spec => []LayoutInv
  <1> QED
    BY InitKeeps, NextKeeps, PTL DEF Spec

\* The list of types has finished types, each once, and what a slice's struct
\* is made of before the slice (resolve.c, context()->types).
THEOREM LayoutTypeCorrect == Spec => []LayoutTypeOK
  <1>1. LayoutInv => LayoutTypeOK
    <2> SUFFICES ASSUME LayoutInv
                 PROVE  LayoutTypeOK
      OBVIOUS
    <2>1. \A t \in DOMAIN layout : /\ layout[t].size \in 0..UINTMAX_MAX
                                   /\ layout[t].align \in 0..UINTMAX_MAX
      BY MembersTyped DEF LayoutInv, KnownOK
    <2>2. IsInjective(types) /\ ToSet(types) \subseteq DOMAIN layout
      BY DEF LayoutInv, ListOK, IsInjective, ToSet
    <2>3. IsInjective([i \in DOMAIN acts |-> acts[i].type])
      BY DEF LayoutInv, ActsOK, IsInjective
    <2> QED
      BY <2>1, <2>2, <2>3 DEF LayoutTypeOK, LayoutInv, ListOK, ActsOK
  <1> QED
    BY <1>1, LayoutInvariant, PTL

\* As long as no object exceeds the maximum size, members of a struct do not
\* overlap, every member is aligned and within its struct, and so are the
\* elements of an array of them (resolve.c, complete_struct, complete_union).
THEOREM ApartCorrect == Spec => []MembersApart
  <1>1. LayoutInv => MembersApart
    BY DEF LayoutInv
  <1> QED
    BY <1>1, LayoutInvariant, PTL

=============================================================================
