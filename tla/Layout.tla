------------------------------- MODULE Layout -------------------------------
(***************************************************************************)
(* Sizes, alignments and offsets of types, the list of types in the order  *)
(* in which they come into being, and the C declarations that are printed  *)
(* in that order (resolve.c: complete_struct, complete_union,              *)
(* resolve_type_*; ast.c: type_new_*, type_unique_*; codegen.c:            *)
(* codegen_type_declaration, codegen_type_definition).                     *)
(*                                                                         *)
(* The type expressions of a program can come in any order, and between    *)
(* any two members of a struct.  Structs and unions in Declared are known  *)
(* before they are completed; those in Instances (template instances and   *)
(* anonymous structs) are completed as soon as they are known.             *)
(***************************************************************************)
EXTENDS Integers, Sequences, FiniteSetsExt, SequencesExt

CONSTANTS
    Declared,       \* numbers of the declared structs and unions
    Instances,      \* numbers of the others
    ScalarSizes,    \* sizes of integers (1, 2, 4 and 8 in the code)
    Word,           \* size of a pointer (8 or 4)
    UINTMAX_MAX,    \* 2^64 - 1 in the code
    Counts,         \* counts of arrays
    MaxTypes,       \* bound: types that are made, beside the declared ones
    MaxMembers      \* bound: members of all structs and unions

SIZEOF_UNSIZED == UINTMAX_MAX
ALIGNOF_UNSIZED == UINTMAX_MAX
SIZEOF_MAX == UINTMAX_MAX \div 2

ASSUME LayoutAssumption ==
    /\ UINTMAX_MAX \in Nat
    /\ ScalarSizes \cup {Word, 2 * Word} \subseteq 1..SIZEOF_MAX
    /\ Counts \subseteq 0..UINTMAX_MAX
    /\ Declared \cap Instances = {}
    /\ MaxTypes \in Nat /\ MaxMembers \in Nat

\* The alignments of scalars and pointers are powers of two.
Alignments == ScalarSizes \cup {Word}
ASSUME AlignmentsAssumption ==
    /\ 2 * SIZEOF_MAX + 1 = UINTMAX_MAX
    /\ \A a \in Alignments :
          /\ (SIZEOF_MAX + 1) % a = 0
          /\ \A b \in Alignments : a <= b => b % a = 0

VARIABLES
    phase,      \* "resolve", "refused" or "generated"
    layout,     \* the types that are known, by their names
    types,      \* context()->types, without the builtin ones
    acts,       \* the recursion of complete_struct and complete_union
    c,          \* what the C compiler makes of the declarations
    early,      \* history: arrays that were made of unfinished elements
    oversized   \* history: an object exceeded SIZEOF_MAX

vars == <<phase, layout, types, acts, c, early, oversized>>

\* A type is its name: constructors, and the name of a leaf.
Of(kind, count, base) == <<<<kind, count>>>> \o base
Leaf(kind, number) == <<<<kind, number>>>>
Kind(type) == type[1][1]
CountOf(type) == type[1][2]
Base(type) == Tail(type)

Scalars == {Leaf("integer", size) : size \in ScalarSizes}
AnyType == Leaf("any", 0)

Sized(size, align) == [size |-> size, align |-> align, is_complete |-> TRUE, members |-> <<>>]
Unfinished == [Sized(0, 0) EXCEPT !.is_complete = FALSE]

\* In uintmax_t.
Wrapped(n) == n % (UINTMAX_MAX + 1)

Init ==
    /\ phase = "resolve"
    /\ \E kind \in [Declared -> {"struct", "union"}] :
          LET declared == {Leaf(kind[n], n) : n \in Declared}
          IN  layout = [type \in Scalars \cup {AnyType} \cup declared |->
                           IF type = AnyType THEN Sized(SIZEOF_UNSIZED, ALIGNOF_UNSIZED)
                           ELSE IF type \in Scalars THEN Sized(CountOf(type), CountOf(type))
                           ELSE Unfinished]
    /\ types = <<>> /\ acts = <<>> /\ c = <<>>
    /\ early = {} /\ oversized = FALSE

-----------------------------------------------------------------------------
(***************************************************************************)
(* Type expressions.  A type that has its name already is not made again.  *)
(***************************************************************************)
Known(type) == type \in DOMAIN layout

Refuse ==
    /\ phase' = "refused"
    /\ UNCHANGED <<layout, types, acts, c, early, oversized>>

IsAggregate(type) == Kind(type) \in {"struct", "union"}
Aggregates == {type \in DOMAIN layout : IsAggregate(type)}

Resolving ==
    /\ phase = "resolve"
    /\ Cardinality(DOMAIN layout \ (Scalars \cup {AnyType})) < MaxTypes + Cardinality(Declared)

With(known, type, self) ==
    [t \in DOMAIN known \cup {type} |-> IF t = type THEN self ELSE known[t]]

type_unique(type, size, align) ==
    /\ ~Known(type)
    /\ layout' = With(layout, type, Sized(size, align))
    /\ types' = Append(types, type)
    /\ UNCHANGED <<phase, acts, c, oversized>>

Pointer(base) == Of("pointer", 0, base)

\* Bound: nothing but the name differs for pointers to integers and the like.
Bases == DOMAIN layout \ Scalars

ResolvePointer ==
    /\ Resolving
    /\ \E base \in Bases : type_unique(Pointer(base), Word, Word)
    /\ UNCHANGED early

\* Of one parameter, without a result.
ResolveFunction ==
    /\ Resolving
    /\ \E param \in Bases : type_unique(Of("function", 0, param), Word, Word)
    /\ UNCHANGED early

\* Mutant of ResolveSlice: the pointer is left out.
ResolveSliceAlone ==
    /\ Resolving
    /\ \E base \in Bases : type_unique(Of("slice", 0, base), 2 * Word, Word)
    /\ UNCHANGED early

\* The pointer to the elements comes into being before the slice.
ResolveSlice ==
    /\ Resolving
    /\ \E base \in Bases :
         IF Known(Pointer(base)) THEN type_unique(Of("slice", 0, base), 2 * Word, Word)
         ELSE type_unique(Pointer(base), Word, Word)
    /\ UNCHANGED early

\* An array is made of the size that its elements have now.
ResolveArray ==
    /\ Resolving
    /\ \E base \in DOMAIN layout, count \in Counts :
         LET type == Of("array", count, base)
             element == layout[base]
             size == Wrapped(count * element.size)
             overflow == count # 0 /\ size \div count # element.size
         IN  IF overflow \/ size > SIZEOF_MAX THEN Refuse
             ELSE /\ type_unique(type, size, element.align)
                  /\ early' = IF element.is_complete /\ base \notin early THEN early
                              ELSE early \cup {type}

-----------------------------------------------------------------------------
(***************************************************************************)
(* Structs and unions.                                                     *)
(***************************************************************************)
Act(type) == [type |-> type, next_offset |-> 0]

\* complete_struct or complete_union is entered; without members it is done.
Enter(type, known) ==
    \/ /\ layout' = With(known, type, Sized(0, 0))
       /\ types' = Append(types, type)
       /\ UNCHANGED <<phase, acts, c, early, oversized>>
    \/ /\ layout' = known
       /\ acts' = Append(acts, Act(type))
       /\ UNCHANGED <<phase, types, c, early, oversized>>

Complete ==
    /\ phase = "resolve" /\ acts = <<>>
    /\ \E type \in Aggregates : ~layout[type].is_complete /\ Enter(type, layout)

Instantiate ==
    /\ Resolving
    /\ \E kind \in {"struct", "union"}, number \in Instances :
          /\ \A k \in {"struct", "union"} : ~Known(Leaf(k, number))
          /\ Enter(Leaf(kind, number), With(layout, Leaf(kind, number), Unfinished))

\* Steps of 1 until `align` divides, in uintmax_t.
Padding(offset, align) ==
    Min({n \in 0..UINTMAX_MAX : Wrapped(offset + n) % align = 0})
Aligned(offset, align) ==
    IF align = 0 THEN offset ELSE Wrapped(offset + Padding(offset, align))

Greater(m, n) == IF m >= n THEN m ELSE n

\* Mutant of StructMember: members are not aligned.
StructMemberPacked(self, offset, type) ==
    LET member == layout[type]
        end == Wrapped(offset + member.size)
        align == Greater(member.align, self.align)
        members == Append(self.members, [type |-> type, offset |-> offset])
    IN  IF member.size = 0
        THEN [self |-> [self EXCEPT !.members = members], next_offset |-> offset]
        ELSE [self |-> [self EXCEPT !.members = members, !.align = align,
                                    !.size = Aligned(end, align)],
              next_offset |-> end]

\* The struct and its next offset, with one more member.
StructMember(self, offset, type) ==
    LET member == layout[type]
        at == Aligned(offset, member.align)
        end == Wrapped(at + member.size)
        align == Greater(member.align, self.align)
        members == Append(self.members, [type |-> type, offset |-> at])
    IN  IF member.size = 0
        THEN [self |-> [self EXCEPT !.members = members], next_offset |-> at]
        ELSE [self |-> [self EXCEPT !.members = members, !.align = align,
                                    !.size = Aligned(end, align)],
              next_offset |-> end]

UnionMember(self, offset, type) ==
    LET member == layout[type]
        members == Append(self.members, [type |-> type, offset |-> 0])
    IN  [self |-> IF member.size = 0 THEN [self EXCEPT !.members = members]
                  ELSE [self EXCEPT !.members = members,
                                    !.size = Greater(member.size, @),
                                    !.align = Greater(member.align, @)],
         next_offset |-> offset]

\* Mutant of Finished: the size of a union is not rounded up.
FinishedUnpadded(kind, self) == [self EXCEPT !.is_complete = TRUE]

\* Of a struct or a union with its last member.
Finished(kind, self) ==
    [self EXCEPT !.is_complete = TRUE,
                 !.size = IF kind = "union" THEN Aligned(@, self.align) ELSE @]

Unfit(type) ==
    \/ IsAggregate(type) /\ ~layout[type].is_complete
    \/ layout[type].size = SIZEOF_UNSIZED

HasRoom == MapThenSumSet(LAMBDA s : Len(layout[s].members), Aggregates) < MaxMembers

AddMember ==
    /\ phase = "resolve" /\ acts # <<>>
    /\ HasRoom
    /\ \E type \in DOMAIN layout, is_last \in BOOLEAN :
         LET act == Last(acts)
             self == layout[act.type]
             added == IF Kind(act.type) = "struct"
                      THEN StructMember(self, act.next_offset, type)
                      ELSE UnionMember(self, act.next_offset, type)
             grown == IF is_last THEN Finished(Kind(act.type), added.self) ELSE added.self
         IN  IF Unfit(type) THEN Refuse
             ELSE /\ layout' = [layout EXCEPT ![act.type] = grown]
                  /\ types' = IF is_last THEN Append(types, act.type) ELSE types
                  /\ acts' = IF is_last THEN Front(acts)
                             ELSE [acts EXCEPT ![Len(acts)].next_offset = added.next_offset]
                  /\ oversized' = (oversized \/ grown.size > SIZEOF_MAX
                                             \/ added.next_offset > SIZEOF_MAX)
                  /\ UNCHANGED <<phase, c, early>>

-----------------------------------------------------------------------------
(***************************************************************************)
(* The C declarations.  In C, a name can be used for a pointer or in a     *)
(* function type once it is declared, by value once it is defined.         *)
(***************************************************************************)
\* mangle_type: C's void.
Void(type) == layout[type].size \in {0, SIZEOF_UNSIZED}

codegen_type_declaration == {type \in ToSet(types) : IsAggregate(type) /\ ~Void(type)}

RoundUp(n, align) == ((n + align - 1) \div align) * align
Solid(members) == SelectSeq(members, LAMBDA m : ~Void(m.type))

\* `printed` is the offset that the code generator counts, up to which there
\* are members and padding bytes; `end` is where C puts them.
CStruct(defined, members, size) ==
    LET solid == Solid(members)
        after[i \in 0..Len(solid)] ==
            IF i = 0 THEN [printed |-> 0, end |-> 0, align |-> 1, offsets |-> <<>>]
            ELSE LET before == after[i - 1]
                     m == solid[i]
                     C == defined[m.type]
                     padding == Greater(m.offset - before.printed, 0)
                     at == RoundUp(before.end + padding, C.align)
                 IN  [printed |-> before.printed + padding + layout[m.type].size,
                      end |-> at + C.size,
                      align |-> Greater(C.align, before.align),
                      offsets |-> Append(before.offsets, at)]
        all == after[Len(solid)]
    IN  [size |-> RoundUp(all.end + Greater(size - all.printed, 0), all.align),
         align |-> all.align, offsets |-> all.offsets]

CUnion(defined, members, size) ==
    LET solid == {defined[m.type] : m \in ToSet(Solid(members))}
        align == Max({m.align : m \in solid})
    IN  [size |-> RoundUp(Max({size} \cup {m.size : m \in solid}), align),
         align |-> align, offsets |-> [i \in 1..Len(Solid(members)) |-> 0]]

CSized(size, align) == [size |-> size, align |-> align, offsets |-> <<>>]

\* The definition can be printed after those in `defined`.
Definable(defined, type) ==
    LET Declares(t) == Void(t) \/ t \in DOMAIN defined \/ t \in codegen_type_declaration
    IN  /\ type \notin DOMAIN defined
        /\ CASE Kind(type) \in {"pointer", "function"} -> Declares(Base(type))
             [] Kind(type) = "slice" -> Pointer(Base(type)) \in DOMAIN defined
             [] Kind(type) = "array" -> Base(type) \in DOMAIN defined
             [] IsAggregate(type) ->
                    \A m \in ToSet(Solid(layout[type].members)) : m.type \in DOMAIN defined

codegen_type_definition(defined, type) ==
    CASE Kind(type) \in {"pointer", "function"} -> CSized(Word, Word)
      [] Kind(type) = "slice" -> CSized(2 * Word, Word)
      [] Kind(type) = "array" ->
             CSized(CountOf(type) * defined[Base(type)].size, defined[Base(type)].align)
      [] Kind(type) = "struct" -> CStruct(defined, layout[type].members, layout[type].size)
      [] Kind(type) = "union" -> CUnion(defined, layout[type].members, layout[type].size)

\* The static assertions that follow each definition.
Asserted(defined, type) ==
    /\ defined[type].size = layout[type].size
    /\ defined[type].align = layout[type].align

\* The definitions of the types one after the other, until C refuses one.
Compiled ==
    LET builtin == [type \in Scalars |-> CSized(CountOf(type), CountOf(type))]
        after[i \in 0..Len(types)] ==
            IF i = 0 THEN [ok |-> TRUE, defined |-> builtin]
            ELSE LET before == after[i - 1]
                     type == types[i]
                     defined == With(before.defined, type,
                                     codegen_type_definition(before.defined, type))
                 IN  IF Void(type) \/ ~before.ok THEN before
                     ELSE IF ~Definable(before.defined, type)
                          THEN [before EXCEPT !.ok = FALSE]
                     ELSE [ok |-> Asserted(defined, type), defined |-> defined]
    IN  after[Len(types)]

Codegen ==
    /\ phase = "resolve" /\ acts = <<>>
    /\ \A type \in DOMAIN layout : layout[type].is_complete
    /\ phase' = "generated"
    /\ c' = Compiled
    /\ UNCHANGED <<layout, types, acts, early, oversized>>

Next ==
    \/ ResolvePointer \/ ResolveFunction \/ ResolveSlice \/ ResolveArray
    \/ Complete \/ Instantiate \/ AddMember \/ Codegen

Spec == Init /\ [][Next]_vars

-----------------------------------------------------------------------------
\* Types have one entry each, the pointer to its elements before a slice;
\* what is being completed is unfinished and open once.
LayoutTypeOK ==
    /\ phase \in {"resolve", "refused", "generated"}
    /\ \A type \in DOMAIN layout :
          layout[type].size \in 0..UINTMAX_MAX /\ layout[type].align \in 0..UINTMAX_MAX
    /\ IsInjective(types) /\ ToSet(types) \subseteq DOMAIN layout
    /\ \A i \in DOMAIN types : Kind(types[i]) = "slice" =>
          \E j \in 1..(i - 1) : types[j] = Pointer(Base(types[i]))
    /\ IsInjective([i \in DOMAIN acts |-> acts[i].type])
    /\ \A i \in DOMAIN acts : ~layout[acts[i].type].is_complete
    /\ early \subseteq DOMAIN layout

Bytes(type) == layout[type].size

\* Members of a struct lie one after the other, each at a multiple of its
\* alignment, and, unless they are empty, within the struct; elements of an
\* array of them are aligned too (complete_struct and complete_union, at any
\* point of the walk over the members).
MembersApart ==
    ~oversized =>
        \A s \in Aggregates :
            LET self == layout[s]
            IN  /\ \A j \in DOMAIN self.members :
                     LET m == self.members[j]
                     IN  /\ m.offset % Greater(layout[m.type].align, 1) = 0
                         /\ Bytes(m.type) > 0 =>
                                /\ m.offset + Bytes(m.type) <= self.size
                                /\ self.align % layout[m.type].align = 0
                         /\ Kind(s) = "struct" => \A i \in 1..(j - 1) :
                                self.members[i].offset + Bytes(self.members[i].type) <= m.offset
                /\ Kind(s) = "struct" \/ self.is_complete =>
                       self.size % Greater(self.align, 1) = 0

\* The C compiler accepts the declarations in the order of the list, every
\* static assertion on a size or an alignment holds, and C has each member at
\* the offset that constant evaluation uses; excepted are programs in which an
\* array was made of a struct that was not complete yet, and objects that
\* exceed the maximum (codegen.c, codegen_type_definition).
CAgrees ==
    phase = "generated" /\ early = {} /\ ~oversized =>
        /\ c.ok
        /\ \A s \in {t \in Aggregates : ~Void(t)} :
              c.defined[s].offsets =
                  LET solid == Solid(layout[s].members)
                  IN  [i \in DOMAIN solid |-> solid[i].offset]

\* sunder.h: "The size of a type must not exceed the maximum value of an
\* ssize integer".  It is checked of arrays only.
\* The code breaks it: see "Findings" in README.md.
SizesFit ==
    \A type \in DOMAIN layout : Bytes(type) # SIZEOF_UNSIZED => Bytes(type) <= SIZEOF_MAX
=============================================================================
