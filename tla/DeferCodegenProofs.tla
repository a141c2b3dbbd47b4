-------------------------- MODULE DeferCodegenProofs --------------------------
(***************************************************************************)
(* Proofs about DeferCodegen: for every function that the resolver leaves, *)
(* of any length and nesting, codegen_defers never follows the NULL at the *)
(* end of the list, the bodies generated inside one another end earlier    *)
(* and earlier in the tree, and every C block that is opened is closed.    *)
(*                                                                         *)
(* The proof is about the shape of the tree first: D gives the number of   *)
(* blocks that are open in front of each token.  What DeferPromiseProofs   *)
(* needs of the tree is here, too: not only how many blocks are open in    *)
(* front of a token, but which (E), and which defers are in force (L).     *)
(***************************************************************************)
EXTENDS DeferCodegen, DeferResolveProofs

-----------------------------------------------------------------------------
(* The shape of the tree, while it is built and once it is complete. *)

\* D[p] is the number of blocks that are open in front of the token a[p].
Nesting(D, a) ==
    /\ D \in [1..Len(a) + 1 -> Nat]
    /\ D[1] = 0
    /\ \A p \in 1..Len(a) :
         D[p + 1] = CASE a[p].op \in Openers -> D[p] + 1
                      [] a[p].op = "end" -> D[p] - 1
                      [] OTHER -> D[p]

\* A deferred body is a block: it is left where it was entered.
DefersNest(D, h) ==
    \A d \in 1..Len(h) :
        /\ D[h[d].hi + 1] = D[h[d].lo]
        /\ \A p \in h[d].lo + 1..h[d].hi : D[p] > D[h[d].lo]

\* Deferred bodies are numbered as they end, and nest; a way out of a block
\* begins with a defer that was complete before it.
BodiesOK(h, a) ==
    \A d \in 1..Len(h) :
        /\ h[d].lo \in 1..Len(a) /\ h[d].hi \in 1..Len(a)
        /\ h[d].lo < h[d].hi
        /\ a[h[d].hi].op = "end"
BodiesNest(h) ==
    \A d \in 1..Len(h) : \A e \in 1..Len(h) :
        /\ d < e => h[d].hi < h[e].hi
        /\ h[d].lo \in h[e].lo + 1..h[e].hi => h[d].hi < h[e].hi
BeginsOK(h, a) ==
    \A p \in 1..Len(a) :
        a[p].op \in Exits =>
            /\ a[p].begin \in 0..Len(h)
            /\ a[p].begin # Null => h[a[p].begin].hi < p

\* Frames that stand for a block of the tree have its opening token as mark.
Marked(f, a) ==
    /\ \A k \in 1..Len(f) :
         /\ f[k].mark \in 1..Len(a) + 1
         /\ f[k].kind # "when" => f[k].mark <= Len(a)
    /\ \A k \in 1..Len(f) : \A j \in 1..k - 1 :
         /\ f[j].mark <= f[k].mark
         /\ f[j].kind # "when" => f[j].mark < f[k].mark
    /\ Len(f) > 0 => f[1].kind = "fn" /\ f[1].mark = 1
MarkedApart(f, h) ==
    \A k \in 1..Len(f) : \A d \in 1..Len(h) :
        f[k].kind # "when" => h[d].hi < f[k].mark \/ h[d].lo > f[k].mark

\* The depth inside frame k.
Inside(D, f, k) == IF f[k].kind = "when" THEN D[f[k].mark] ELSE D[f[k].mark] + 1

\* Nothing behind the beginning of a frame is less deep than its inside.
FramesNest(D, f, a) ==
    \A k \in 1..Len(f) :
        /\ \A p \in f[k].mark + 1..Len(a) + 1 : D[p] >= Inside(D, f, k)
        /\ Inside(D, f, k) = IF k = Len(f) THEN D[Len(a) + 1] ELSE D[f[k + 1].mark]

\* The tree, as far as it is built, with the frames that are open.
Tree(D, f, h, a) ==
    /\ Nesting(D, a) /\ DefersNest(D, h)
    /\ BodiesOK(h, a) /\ BodiesNest(h) /\ BeginsOK(h, a)
    /\ Marked(f, a) /\ MarkedApart(f, h) /\ FramesNest(D, f, a)

\* The tree of a function that is resolved is one block.
Whole(D, h, a) ==
    /\ Len(a) > 1
    /\ a[Len(a)].op = "end"
    /\ D[Len(a) + 1] = 0
    /\ \A p \in 2..Len(a) : D[p] >= 1
    /\ \A d \in 1..Len(h) : h[d].hi < Len(a)

Building == phase \in {"resolve", "fatal"}
TreeOK ==
    \E D : Tree(D, frames, heap, ast) /\ (Building \/ Whole(D, heap, ast))

-----------------------------------------------------------------------------
(* One token more, one frame more or less, one deferred body more. *)

\* The depths of a tree with one token more.
Deeper(D, n, v) == [p \in 1..n + 1 |-> IF p = n + 1 THEN v ELSE D[p]]

\* The depth of the new place is v, the others are as before.
LEMMA DeeperFacts ==
    ASSUME NEW n \in Nat, NEW v \in Nat, NEW D \in [1..n -> Nat]
    PROVE  /\ Deeper(D, n, v) \in [1..n + 1 -> Nat]
           /\ Deeper(D, n, v)[n + 1] = v
           /\ \A p \in 1..n : Deeper(D, n, v)[p] = D[p]
  BY DEF Deeper

\* What a new token does to the depths, and to what is known of the bodies.
LEMMA TreeAppend ==
    ASSUME NEW D, NEW h \in Seq(DeferType), NEW a \in Seq(TokenType),
           NEW t \in TokenType,
           Nesting(D, a), DefersNest(D, h), BodiesOK(h, a), BodiesNest(h), BeginsOK(h, a),
           t.op \in Exits => t.begin \in 0..Len(h),
           NEW v \in Nat,
           v = CASE t.op \in Openers -> D[Len(a) + 1] + 1
                 [] t.op = "end" -> D[Len(a) + 1] - 1
                 [] OTHER -> D[Len(a) + 1]
    PROVE  LET E == Deeper(D, Len(a) + 1, v)
               b == Append(a, t)
           IN  /\ E[Len(a) + 2] = v
               /\ \A p \in 1..Len(a) + 1 : E[p] = D[p]
               /\ Nesting(E, b) /\ DefersNest(E, h)
               /\ BodiesOK(h, b) /\ BodiesNest(h) /\ BeginsOK(h, b)
  <1> DEFINE E == Deeper(D, Len(a) + 1, v)
             b == Append(a, t)
  <1>1. Len(a) \in Nat /\ Len(h) \in Nat
    BY LenProperties
  <1>2. /\ Len(b) = Len(a) + 1 /\ b[Len(a) + 1] = t
        /\ \A p \in 1..Len(a) : b[p] = a[p]
    BY <1>1, AppendProperties
  <1>3. /\ E \in [1..Len(b) + 1 -> Nat]
        /\ E[Len(a) + 2] = v
        /\ \A p \in 1..Len(a) + 1 : E[p] = D[p]
    <2>1. D \in [1..Len(a) + 1 -> Nat] /\ Len(a) + 1 \in Nat
      BY <1>1 DEF Nesting
    <2>2. /\ E \in [1..(Len(a) + 1) + 1 -> Nat]
          /\ E[(Len(a) + 1) + 1] = v
          /\ \A p \in 1..Len(a) + 1 : E[p] = D[p]
      BY <2>1, DeeperFacts
    <2>3. (Len(a) + 1) + 1 = Len(a) + 2 /\ Len(b) + 1 = Len(a) + 2
      BY <1>1, <1>2
    <2> QED
      BY <2>2, <2>3
  <1> HIDE DEF E, b
  <1>4. Nesting(E, b)
    <2>1. E[1] = 0
      BY <1>1, <1>3 DEF Nesting
    <2>2. ASSUME NEW p \in 1..Len(b)
          PROVE  E[p + 1] = CASE b[p].op \in Openers -> E[p] + 1
                              [] b[p].op = "end" -> E[p] - 1
                              [] OTHER -> E[p]
      <3>1. CASE p \in 1..Len(a)
        <4>1. p + 1 \in 1..Len(a) + 1 /\ p \in 1..Len(a) + 1
          BY <1>1, <3>1
        <4>2. E[p + 1] = D[p + 1] /\ E[p] = D[p] /\ b[p] = a[p]
          BY <1>2, <1>3, <3>1, <4>1
        <4> QED
          BY <3>1, <4>2 DEF Nesting
      <3>2. CASE p = Len(a) + 1
        <4>1. p + 1 = Len(a) + 2 /\ p \in 1..Len(a) + 1
          BY <1>1, <3>2
        <4>2. E[p + 1] = v /\ E[p] = D[Len(a) + 1] /\ b[p] = t
          BY <1>2, <1>3, <3>2, <4>1
        <4> QED
          BY <4>2
      <3> QED
        BY <1>1, <1>2, <3>1, <3>2
    <2> QED
      BY <1>3, <2>1, <2>2 DEF Nesting
  <1>5. DefersNest(E, h)
    <2> SUFFICES ASSUME NEW d \in 1..Len(h)
                 PROVE  /\ E[h[d].hi + 1] = E[h[d].lo]
                        /\ \A p \in h[d].lo + 1..h[d].hi : E[p] > E[h[d].lo]
      BY DEF DefersNest
    <2>1. /\ h[d].lo \in 1..Len(a) + 1 /\ h[d].hi + 1 \in 1..Len(a) + 1
          /\ \A p \in h[d].lo + 1..h[d].hi : p \in 1..Len(a) + 1
      BY <1>1 DEF BodiesOK
    <2> QED
      BY <1>3, <2>1 DEF DefersNest
  <1>6. BodiesOK(h, b)
    BY <1>1, <1>2 DEF BodiesOK
  <1>7. BeginsOK(h, b)
    <2> SUFFICES ASSUME NEW p \in 1..Len(b), b[p].op \in Exits
                 PROVE  /\ b[p].begin \in 0..Len(h)
                        /\ b[p].begin # Null => h[b[p].begin].hi < p
      BY DEF BeginsOK
    <2>1. CASE p \in 1..Len(a)
      BY <1>2, <2>1 DEF BeginsOK
    <2>2. CASE p = Len(a) + 1
      <3>1. b[p] = t /\ t.begin \in 0..Len(h)
        BY <1>2, <2>2
      <3>2. ASSUME t.begin # Null PROVE h[t.begin].hi < p
        <4>1. t.begin \in 1..Len(h)
          BY <1>1, <3>1, <3>2 DEF Null
        <4> QED
          BY <1>1, <2>2, <4>1 DEF BodiesOK
      <3> QED
        BY <3>1, <3>2
    <2> QED
      BY <1>1, <1>2, <2>1, <2>2
  <1> QED
    BY <1>3, <1>4, <1>5, <1>6, <1>7 DEF E, b

\* A way out inside a block.
LEMMA TreeJump ==
    ASSUME NEW D, NEW f \in Seq(FrameType), NEW h \in Seq(DeferType),
           NEW a \in Seq(TokenType), Tree(D, f, h, a),
           NEW t \in TokenType, t.op \in Exits, t.op # "end", t.begin \in 0..Len(h)
    PROVE  \E E : Tree(E, f, h, Append(a, t))
  <1> DEFINE v == D[Len(a) + 1]
             E == Deeper(D, Len(a) + 1, v)
             b == Append(a, t)
  <1>1. Len(a) \in Nat /\ Len(f) \in Nat
    BY LenProperties
  <1>2. v \in Nat /\ t.op \notin Openers
    BY <1>1 DEF Tree, Nesting, Exits, Openers
  <1>3. /\ E[Len(a) + 2] = v
        /\ \A p \in 1..Len(a) + 1 : E[p] = D[p]
        /\ Nesting(E, b) /\ DefersNest(E, h)
        /\ BodiesOK(h, b) /\ BodiesNest(h) /\ BeginsOK(h, b)
    BY <1>2, TreeAppend DEF Tree
  <1>4. Len(b) = Len(a) + 1
    BY AppendProperties
  <1> HIDE DEF E, b
  <1>5. Marked(f, b) /\ MarkedApart(f, h)
    BY <1>1, <1>4 DEF Tree, Marked
  <1>6. FramesNest(E, f, b)
    <2> SUFFICES ASSUME NEW k \in 1..Len(f)
                 PROVE  /\ \A p \in f[k].mark + 1..Len(b) + 1 : E[p] >= Inside(E, f, k)
                        /\ Inside(E, f, k) = IF k = Len(f) THEN E[Len(b) + 1]
                                                          ELSE E[f[k + 1].mark]
      BY DEF FramesNest
    <2>1. /\ f[k].mark \in 1..Len(a) + 1
          /\ k # Len(f) => f[k + 1].mark \in 1..Len(a) + 1
      BY <1>1 DEF Tree, Marked
    <2>2. Inside(E, f, k) = Inside(D, f, k)
      BY <1>3, <2>1 DEF Inside
    <2>3. /\ \A p \in f[k].mark + 1..Len(a) + 1 : D[p] >= Inside(D, f, k)
          /\ Inside(D, f, k) = IF k = Len(f) THEN D[Len(a) + 1] ELSE D[f[k + 1].mark]
      BY DEF Tree, FramesNest
    <2>4. ASSUME NEW p \in f[k].mark + 1..Len(b) + 1
          PROVE  E[p] >= Inside(D, f, k)
      <3>1. CASE p = Len(a) + 2
        <4>1. E[p] = D[Len(a) + 1]
          BY <1>3, <3>1
        <4>2. CASE f[k].mark < Len(a) + 1
          BY <1>1, <2>1, <2>3, <4>1, <4>2
        <4>3. CASE f[k].mark = Len(a) + 1
          <5>1. f[k].kind = "when"
            BY <1>1, <4>3 DEF Tree, Marked
          <5>2. Inside(D, f, k) = D[Len(a) + 1]
            BY <4>3, <5>1 DEF Inside
          <5>3. D[Len(a) + 1] \in Nat
            BY <1>2
          <5> QED
            BY <4>1, <5>2, <5>3
        <4> QED
          BY <1>1, <2>1, <4>2, <4>3
      <3>2. CASE p # Len(a) + 2
        <4>1. /\ p \in Int /\ f[k].mark \in Int
              /\ f[k].mark + 1 <= p /\ p <= Len(a) + 2
          BY <1>1, <1>4, <2>1
        <4>2. p \in f[k].mark + 1..Len(a) + 1 /\ p \in 1..Len(a) + 1
          BY <1>1, <2>1, <3>2, <4>1
        <4> QED
          BY <1>3, <2>3, <4>2
      <3> QED
        BY <3>1, <3>2
    <2>5. Inside(D, f, k) = IF k = Len(f) THEN E[Len(b) + 1] ELSE E[f[k + 1].mark]
      <3>1. Len(b) + 1 = Len(a) + 2
        BY <1>1, <1>4
      <3> QED
        BY <1>3, <2>1, <2>3, <3>1
    <2> QED
      BY <2>2, <2>4, <2>5
  <1> QED
    BY <1>3, <1>5, <1>6 DEF Tree, b

\* The block that is being resolved is in every frame.
LEMMA LastDepth ==
    ASSUME NEW D, NEW f \in Seq(FrameType), NEW a \in Seq(TokenType),
           Nesting(D, a), Marked(f, a), FramesNest(D, f, a), NEW k \in 1..Len(f)
    PROVE  /\ Inside(D, f, k) \in Nat
           /\ D[Len(a) + 1] >= Inside(D, f, k)
  <1>1. Len(a) \in Nat /\ Len(f) \in Nat
    BY LenProperties
  <1>2. f[k].mark \in 1..Len(a) + 1
    BY DEF Marked
  <1>3. D[f[k].mark] \in Nat /\ D[Len(a) + 1] \in Nat
    BY <1>1, <1>2 DEF Nesting
  <1>4. Inside(D, f, k) \in Nat
    BY <1>3 DEF Inside
  <1>5. CASE f[k].mark < Len(a) + 1
    BY <1>1, <1>2, <1>4, <1>5 DEF FramesNest
  <1>6. CASE f[k].mark = Len(a) + 1
    <2>1. f[k].kind = "when"
      BY <1>1, <1>6 DEF Marked
    <2>2. Inside(D, f, k) = D[Len(a) + 1]
      BY <1>6, <2>1 DEF Inside
    <2> QED
      BY <1>3, <2>2
  <1> QED
    BY <1>1, <1>2, <1>4, <1>5, <1>6

\* A frame whose mark is the end of the tree so far.
LEMMA MarkedPush ==
    ASSUME NEW f \in Seq(FrameType), NEW h \in Seq(DeferType),
           NEW a \in Seq(TokenType), NEW b \in Seq(TokenType),
           Marked(f, a), MarkedApart(f, h), BodiesOK(h, a), Len(f) > 0,
           NEW r \in FrameType, r.mark = Len(a) + 1,
           Len(b) = IF r.kind = "when" THEN Len(a) ELSE Len(a) + 1
    PROVE  Marked(Append(f, r), b) /\ MarkedApart(Append(f, r), h)
  <1> DEFINE g == Append(f, r)
  <1>1. Len(a) \in Nat /\ Len(f) \in Nat
    BY LenProperties
  <1>2. /\ Len(g) = Len(f) + 1 /\ g[Len(f) + 1] = r
        /\ \A k \in 1..Len(f) : g[k] = f[k]
    BY <1>1, AppendProperties
  <1> HIDE DEF g
  <1>3. ASSUME NEW k \in 1..Len(g)
        PROVE  /\ g[k].mark \in 1..Len(b) + 1
               /\ g[k].kind # "when" => g[k].mark <= Len(b)
    <2>1. CASE k \in 1..Len(f)
      BY <1>1, <1>2, <2>1 DEF Marked
    <2>2. CASE k = Len(f) + 1
      BY <1>1, <1>2, <2>2
    <2> QED
      BY <1>1, <1>2, <2>1, <2>2
  <1>4. ASSUME NEW k \in 1..Len(g), NEW j \in 1..k - 1
        PROVE  /\ g[j].mark <= g[k].mark
               /\ g[j].kind # "when" => g[j].mark < g[k].mark
    <2>1. j \in 1..Len(f) /\ g[j] = f[j]
      BY <1>1, <1>2
    <2>2. CASE k \in 1..Len(f)
      BY <1>2, <2>1, <2>2 DEF Marked
    <2>3. CASE k = Len(f) + 1
      BY <1>1, <1>2, <2>1, <2>3 DEF Marked
    <2> QED
      BY <1>1, <1>2, <2>2, <2>3
  <1>5. ASSUME NEW k \in 1..Len(g), NEW d \in 1..Len(h), g[k].kind # "when"
        PROVE  h[d].hi < g[k].mark \/ h[d].lo > g[k].mark
    <2>1. CASE k \in 1..Len(f)
      BY <1>2, <1>5, <2>1 DEF MarkedApart
    <2>2. CASE k = Len(f) + 1
      BY <1>1, <1>2, <2>2 DEF BodiesOK
    <2> QED
      BY <1>1, <1>2, <2>1, <2>2
  <1>6. g[1].kind = "fn" /\ g[1].mark = 1
    BY <1>1, <1>2 DEF Marked
  <1> QED
    BY <1>3, <1>4, <1>5, <1>6 DEF Marked, MarkedApart, g

\* resolve_block for the arm of a `when`.
LEMMA TreeWhen ==
    ASSUME NEW D, NEW f \in Seq(FrameType), NEW h \in Seq(DeferType),
           NEW a \in Seq(TokenType), Tree(D, f, h, a), Len(f) > 0,
           NEW r \in FrameType, r.kind = "when", r.mark = Len(a) + 1
    PROVE  Tree(D, Append(f, r), h, a)
  <1> DEFINE g == Append(f, r)
  <1>1. Len(a) \in Nat /\ Len(f) \in Nat
    BY LenProperties
  <1>2. /\ Len(g) = Len(f) + 1 /\ g[Len(f) + 1] = r
        /\ \A k \in 1..Len(f) : g[k] = f[k]
    BY <1>1, AppendProperties
  <1>3. Marked(g, a) /\ MarkedApart(g, h)
    BY MarkedPush DEF Tree
  <1> HIDE DEF g
  <1>4. FramesNest(D, g, a)
    <2> SUFFICES ASSUME NEW k \in 1..Len(g)
                 PROVE  /\ \A p \in g[k].mark + 1..Len(a) + 1 : D[p] >= Inside(D, g, k)
                        /\ Inside(D, g, k) = IF k = Len(g) THEN D[Len(a) + 1]
                                                          ELSE D[g[k + 1].mark]
      BY DEF FramesNest
    <2>1. CASE k \in 1..Len(f)
      <3>1. Inside(D, g, k) = Inside(D, f, k) /\ g[k] = f[k] /\ k # Len(g)
        BY <1>1, <1>2, <2>1 DEF Inside
      <3>2. k # Len(f) => g[k + 1] = f[k + 1]
        BY <1>1, <1>2, <2>1
      <3>3. k = Len(f) => g[k + 1].mark = Len(a) + 1
        BY <1>2
      <3> QED
        BY <2>1, <3>1, <3>2, <3>3 DEF Tree, FramesNest
    <2>2. CASE k = Len(f) + 1
      <3>1. g[k] = r /\ k = Len(g)
        BY <1>2, <2>2
      <3>2. Inside(D, g, k) = D[Len(a) + 1]
        BY <3>1 DEF Inside
      <3> QED
        BY <1>1, <3>1, <3>2
    <2> QED
      BY <1>1, <1>2, <2>1, <2>2
  <1> QED
    BY <1>3, <1>4 DEF Tree, g

\* resolve_block for a body with a scope of its own.
LEMMA TreeOpen ==
    ASSUME NEW D, NEW f \in Seq(FrameType), NEW h \in Seq(DeferType),
           NEW a \in Seq(TokenType), Tree(D, f, h, a), Len(f) > 0,
           NEW t \in TokenType, t.op \in Openers,
           NEW r \in FrameType, r.kind # "when", r.mark = Len(a) + 1
    PROVE  \E E : Tree(E, Append(f, r), h, Append(a, t))
  <1> DEFINE v == D[Len(a) + 1] + 1
             E == Deeper(D, Len(a) + 1, v)
             b == Append(a, t)
             g == Append(f, r)
  <1>1. Len(a) \in Nat /\ Len(f) \in Nat
    BY LenProperties
  <1>2. D[Len(a) + 1] \in Nat /\ v \in Nat /\ t.op \notin Exits /\ t.op # "end"
    BY <1>1 DEF Tree, Nesting, Exits, Openers
  <1>3. /\ E[Len(a) + 2] = v
        /\ \A p \in 1..Len(a) + 1 : E[p] = D[p]
        /\ Nesting(E, b) /\ DefersNest(E, h)
        /\ BodiesOK(h, b) /\ BodiesNest(h) /\ BeginsOK(h, b)
    BY <1>2, TreeAppend DEF Tree
  <1>4. /\ Len(g) = Len(f) + 1 /\ g[Len(f) + 1] = r
        /\ \A k \in 1..Len(f) : g[k] = f[k]
        /\ Len(b) = Len(a) + 1 /\ b \in Seq(TokenType)
    BY <1>1, AppendProperties
  <1>5. Marked(g, b) /\ MarkedApart(g, h)
    BY <1>4, MarkedPush DEF Tree
  <1> HIDE DEF E, b, g
  <1>6. FramesNest(E, g, b)
    <2> SUFFICES ASSUME NEW k \in 1..Len(g)
                 PROVE  /\ \A p \in g[k].mark + 1..Len(b) + 1 : E[p] >= Inside(E, g, k)
                        /\ Inside(E, g, k) = IF k = Len(g) THEN E[Len(b) + 1]
                                                          ELSE E[g[k + 1].mark]
      BY DEF FramesNest
    <2>1. CASE k \in 1..Len(f)
      <3>1. f[k].mark \in 1..Len(a) + 1 /\ g[k] = f[k] /\ k # Len(g)
        BY <1>1, <1>4, <2>1 DEF Tree, Marked
      <3>2. Inside(E, g, k) = Inside(D, f, k)
        BY <1>3, <3>1 DEF Inside
      <3>3. Inside(D, f, k) \in Nat /\ D[Len(a) + 1] >= Inside(D, f, k)
        BY <2>1, LastDepth DEF Tree
      <3>4. ASSUME NEW p \in g[k].mark + 1..Len(b) + 1
            PROVE  E[p] >= Inside(D, f, k)
        <4>1. CASE p = Len(a) + 2
          BY <1>2, <1>3, <3>3, <4>1
        <4>2. CASE p # Len(a) + 2
          <5>1. p \in f[k].mark + 1..Len(a) + 1 /\ p \in 1..Len(a) + 1
            BY <1>1, <1>4, <3>1, <4>2
          <5> QED
            BY <1>3, <2>1, <5>1 DEF Tree, FramesNest
        <4> QED
          BY <4>1, <4>2
      <3>5. Inside(D, f, k) = E[g[k + 1].mark]
        <4>1. CASE k = Len(f)
          <5>1. g[k + 1].mark = Len(a) + 1 /\ Len(a) + 1 \in 1..Len(a) + 1
            BY <1>1, <1>4, <4>1
          <5> QED
            BY <1>3, <2>1, <4>1, <5>1 DEF Tree, FramesNest
        <4>2. CASE k # Len(f)
          <5>1. k + 1 \in 1..Len(f)
            BY <1>1, <2>1, <4>2
          <5>2. g[k + 1] = f[k + 1] /\ f[k + 1].mark \in 1..Len(a) + 1
            BY <1>4, <5>1 DEF Tree, Marked
          <5> QED
            BY <1>3, <2>1, <4>2, <5>2 DEF Tree, FramesNest
        <4> QED
          BY <4>1, <4>2
      <3> QED
        BY <3>1, <3>2, <3>4, <3>5
    <2>2. CASE k = Len(f) + 1
      <3>1. g[k] = r /\ k = Len(g) /\ Len(b) + 1 = Len(a) + 2
        BY <1>1, <1>4, <2>2
      <3>2. E[Len(a) + 1] = D[Len(a) + 1]
        BY <1>1, <1>3
      <3>3. Inside(E, g, k) = E[Len(b) + 1]
        BY <1>3, <3>1, <3>2 DEF Inside
      <3>4. E[Len(a) + 2] \in Nat
        BY <1>2, <1>3
      <3>5. \A p \in g[k].mark + 1..Len(b) + 1 : p = Len(a) + 2
        BY <1>1, <3>1
      <3> QED
        BY <3>1, <3>3, <3>4, <3>5
    <2> QED
      BY <1>1, <1>4, <2>1, <2>2
  <1> QED
    BY <1>3, <1>5, <1>6 DEF Tree, g, b

\* A frame less.
LEMMA MarkedPop ==
    ASSUME NEW f \in Seq(FrameType), NEW h \in Seq(DeferType),
           NEW a \in Seq(TokenType), NEW b \in Seq(TokenType),
           Marked(f, a), MarkedApart(f, h), Len(f) > 0, Len(b) >= Len(a)
    PROVE  LET g == Prefix(f, Len(f) - 1)
           IN  /\ g \in Seq(FrameType) /\ Len(g) = Len(f) - 1
               /\ \A k \in 1..Len(f) - 1 : g[k] = f[k]
               /\ Marked(g, b) /\ MarkedApart(g, h)
  <1> DEFINE g == Prefix(f, Len(f) - 1)
  <1>1. Len(a) \in Nat /\ Len(b) \in Nat /\ Len(f) \in Nat
    BY LenProperties
  <1>2. /\ g \in Seq(FrameType) /\ Len(g) = Len(f) - 1
        /\ \A k \in 1..Len(f) - 1 : g[k] = f[k]
    <2>1. Len(f) - 1 \in 0..Len(f)
      BY <1>1
    <2> QED
      BY <2>1, PrefixFacts
  <1> HIDE DEF g
  <1>3. ASSUME NEW k \in 1..Len(g)
        PROVE  /\ k \in 1..Len(f) /\ g[k] = f[k]
               /\ \A j \in 1..k - 1 : j \in 1..Len(f) /\ g[j] = f[j]
    BY <1>1, <1>2
  <1>4. Marked(g, b)
    <2>1. ASSUME NEW k \in 1..Len(g)
          PROVE  /\ g[k].mark \in 1..Len(b) + 1
                 /\ g[k].kind # "when" => g[k].mark <= Len(b)
      <3>1. /\ f[k].mark \in 1..Len(a) + 1
            /\ f[k].kind # "when" => f[k].mark <= Len(a)
        BY <1>3 DEF Marked
      <3> QED
        BY <1>1, <1>3, <3>1
    <2>2. ASSUME NEW k \in 1..Len(g), NEW j \in 1..k - 1
          PROVE  /\ g[j].mark <= g[k].mark
                 /\ g[j].kind # "when" => g[j].mark < g[k].mark
      BY <1>3 DEF Marked
    <2>3. Len(g) > 0 => g[1].kind = "fn" /\ g[1].mark = 1
      BY <1>1, <1>2, <1>3 DEF Marked
    <2> QED
      BY <2>1, <2>2, <2>3 DEF Marked
  <1>5. MarkedApart(g, h)
    BY <1>3 DEF MarkedApart
  <1> QED
    BY <1>2, <1>4, <1>5 DEF g

\* A `when` ends: its arm stays in the block around it.
LEMMA TreeEndWhen ==
    ASSUME NEW D, NEW f \in Seq(FrameType), NEW h \in Seq(DeferType),
           NEW a \in Seq(TokenType), Tree(D, f, h, a),
           Len(f) > 1, f[Len(f)].kind = "when"
    PROVE  Tree(D, Prefix(f, Len(f) - 1), h, a)
  <1> DEFINE g == Prefix(f, Len(f) - 1)
  <1>1. Len(a) \in Nat /\ Len(f) \in Nat
    BY LenProperties
  <1>2. /\ Len(g) = Len(f) - 1
        /\ \A k \in 1..Len(f) - 1 : g[k] = f[k]
        /\ Marked(g, a) /\ MarkedApart(g, h)
    BY <1>1, MarkedPop DEF Tree
  <1> HIDE DEF g
  <1>3. FramesNest(D, g, a)
    <2> SUFFICES ASSUME NEW k \in 1..Len(g)
                 PROVE  /\ \A p \in g[k].mark + 1..Len(a) + 1 : D[p] >= Inside(D, g, k)
                        /\ Inside(D, g, k) = IF k = Len(g) THEN D[Len(a) + 1]
                                                          ELSE D[g[k + 1].mark]
      BY DEF FramesNest
    <2>1. k \in 1..Len(f) /\ k # Len(f) /\ g[k] = f[k]
      BY <1>1, <1>2
    <2>2. Inside(D, g, k) = Inside(D, f, k)
      BY <2>1 DEF Inside
    <2>3. /\ \A p \in f[k].mark + 1..Len(a) + 1 : D[p] >= Inside(D, f, k)
          /\ Inside(D, f, k) = D[f[k + 1].mark]
      BY <2>1 DEF Tree, FramesNest
    <2>4. CASE k = Len(g)
      <3>1. k + 1 = Len(f) /\ Len(f) \in 1..Len(f)
        BY <1>1, <1>2, <2>4
      <3>2. D[f[Len(f)].mark] = D[Len(a) + 1]
        BY <3>1 DEF Tree, FramesNest, Inside
      <3> QED
        BY <2>1, <2>2, <2>3, <2>4, <3>1, <3>2
    <2>5. CASE k # Len(g)
      <3>1. k + 1 \in 1..Len(f) - 1
        BY <1>1, <1>2, <2>5
      <3> QED
        BY <1>2, <2>1, <2>2, <2>3, <2>5, <3>1
    <2> QED
      BY <2>4, <2>5
  <1> QED
    BY <1>2, <1>3 DEF Tree, g

\* A block ends: it is left where it was entered, and was inside until then.
LEMMA TreeEnd ==
    ASSUME NEW D, NEW f \in Seq(FrameType), NEW h \in Seq(DeferType),
           NEW a \in Seq(TokenType), Tree(D, f, h, a),
           Len(f) > 0, f[Len(f)].kind # "when",
           NEW t \in TokenType, t.op = "end", t.begin \in 0..Len(h)
    PROVE  LET b == Append(a, t)
               m == f[Len(f)].mark
           IN  \E E : /\ Tree(E, Prefix(f, Len(f) - 1), h, b)
                      /\ E[Len(b) + 1] = E[m]
                      /\ \A p \in m + 1..Len(b) : E[p] > E[m]
  <1> DEFINE v == D[Len(a) + 1] - 1
             E == Deeper(D, Len(a) + 1, v)
             b == Append(a, t)
             g == Prefix(f, Len(f) - 1)
             n == Len(f)
             m == f[n].mark
  <1>1. Len(a) \in Nat /\ n \in Nat /\ n \in 1..n
    BY LenProperties
  <1>2. m \in 1..Len(a) /\ t.op \in Exits /\ t.op \notin Openers
    BY <1>1 DEF Tree, Marked, Exits, Openers
  <1>3. D[m] \in Nat /\ D[Len(a) + 1] = D[m] + 1 /\ v = D[m]
    <2>1. D[m] \in Nat
      BY <1>1, <1>2 DEF Tree, Nesting
    <2>2. D[Len(a) + 1] = D[m] + 1
      BY <1>1 DEF Tree, FramesNest, Inside
    <2> QED
      BY <2>1, <2>2
  <1>4. /\ E[Len(a) + 2] = v
        /\ \A p \in 1..Len(a) + 1 : E[p] = D[p]
        /\ Nesting(E, b) /\ DefersNest(E, h)
        /\ BodiesOK(h, b) /\ BodiesNest(h) /\ BeginsOK(h, b)
    BY <1>2, <1>3, TreeAppend, SMTT(30) DEF Tree
  <1>5. Len(b) = Len(a) + 1 /\ b \in Seq(TokenType)
    BY <1>1, AppendProperties
  <1>6. /\ Len(g) = n - 1
        /\ \A k \in 1..n - 1 : g[k] = f[k]
        /\ Marked(g, b) /\ MarkedApart(g, h)
    <2>1. Len(b) >= Len(a) /\ Len(f) > 0
      BY <1>1, <1>5
    <2>2. Marked(f, a) /\ MarkedApart(f, h)
      BY DEF Tree
    <2> QED
      BY <1>5, <2>1, <2>2, MarkedPop
  <1> HIDE DEF E, b, g, v
  <1>7. E[m] = D[m] /\ E[Len(b) + 1] = E[m]
    <2>1. m \in 1..Len(a) + 1 /\ Len(b) + 1 = Len(a) + 2
      BY <1>1, <1>2, <1>5
    <2> QED
      BY <1>3, <1>4, <2>1
  <1>8. ASSUME NEW p \in m + 1..Len(b) PROVE E[p] > E[m]
    <2>1. p \in m + 1..Len(a) + 1 /\ p \in 1..Len(a) + 1
      BY <1>1, <1>2, <1>5
    <2>2. D[p] >= D[m] + 1
      BY <1>1, <2>1 DEF Tree, FramesNest, Inside
    <2>3. D[p] \in Nat
      BY <2>1 DEF Tree, Nesting
    <2> QED
      BY <1>3, <1>4, <1>7, <2>1, <2>2, <2>3
  <1>9. FramesNest(E, g, b)
    <2> SUFFICES ASSUME NEW k \in 1..Len(g)
                 PROVE  /\ \A p \in g[k].mark + 1..Len(b) + 1 : E[p] >= Inside(E, g, k)
                        /\ Inside(E, g, k) = IF k = Len(g) THEN E[Len(b) + 1]
                                                          ELSE E[g[k + 1].mark]
      BY DEF FramesNest
    <2>1. k \in 1..n /\ k # n /\ g[k] = f[k] /\ k + 1 \in 1..n /\ k \in 1..n - 1
      BY <1>1, <1>6
    <2>2. f[k].mark \in 1..Len(a) + 1 /\ f[k + 1].mark \in 1..Len(a) + 1
      BY <2>1 DEF Tree, Marked
    <2>3. Inside(E, g, k) = Inside(D, f, k)
      BY <1>4, <2>1, <2>2 DEF Inside
    <2>4. /\ \A p \in f[k].mark + 1..Len(a) + 1 : D[p] >= Inside(D, f, k)
          /\ Inside(D, f, k) = D[f[k + 1].mark]
      BY <2>1 DEF Tree, FramesNest
    <2>5. D[m] >= Inside(D, f, k)
      <3>1. CASE f[k].mark < m
        <4>1. m \in f[k].mark + 1..Len(a) + 1
          BY <1>1, <1>2, <2>2, <3>1, SMTT(30)
        <4> QED
          BY <2>4, <4>1
      <3>2. CASE f[k].mark = m
        <4>1. f[k].kind = "when"
          BY <1>1, <1>2, <2>1, <3>2 DEF Tree, Marked
        <4> QED
          BY <1>3, <3>2, <4>1 DEF Inside
      <3>3. f[k].mark <= m
        BY <1>1, <2>1 DEF Tree, Marked
      <3> QED
        BY <1>2, <2>2, <3>1, <3>2, <3>3, SMTT(30)
    <2>6. ASSUME NEW p \in g[k].mark + 1..Len(b) + 1
          PROVE  E[p] >= Inside(D, f, k)
      <3>1. CASE p = Len(a) + 2
        BY <1>3, <1>4, <2>5, <3>1
      <3>2. CASE p # Len(a) + 2
        <4>1. /\ p \in Int /\ f[k].mark \in Int
              /\ f[k].mark + 1 <= p /\ p <= Len(a) + 2
          BY <1>1, <1>5, <2>1, <2>2
        <4>0. Len(a) \in Nat /\ f[k].mark >= 1
          BY <1>1, <2>2
        <4>2. p <= Len(a) + 1
          BY <3>2, <4>0, <4>1
        <4>3. p \in f[k].mark + 1..Len(a) + 1 /\ p \in 1..Len(a) + 1
          BY <4>0, <4>1, <4>2
        <4> QED
          BY <1>4, <2>4, <4>3
      <3> QED
        BY <3>1, <3>2
    <2>7. CASE k = Len(g)
      <3>1. k + 1 = n
        BY <1>1, <1>6, <2>7
      <3> QED
        BY <1>7, <2>1, <2>3, <2>4, <2>6, <2>7, <3>1
    <2>8. CASE k # Len(g)
      <3>1. k + 1 \in 1..n - 1
        BY <1>1, <1>6, <2>8
      <3> QED
        BY <1>4, <1>6, <2>1, <2>2, <2>3, <2>4, <2>6, <2>8, <3>1
    <2> QED
      BY <2>7, <2>8
  <1> QED
    BY <1>4, <1>6, <1>7, <1>8, <1>9 DEF Tree, g, b

\* The block that has just ended becomes a deferred body.
LEMMA TreeDefer ==
    ASSUME NEW D, NEW f \in Seq(FrameType), NEW h \in Seq(DeferType),
           NEW a \in Seq(TokenType), Tree(D, f, h, a),
           NEW d \in DeferType, d.hi = Len(a), d.lo \in 1..Len(a), d.lo < d.hi,
           a[Len(a)].op = "end", D[Len(a) + 1] = D[d.lo],
           \A p \in d.lo + 1..Len(a) : D[p] > D[d.lo],
           \A e \in 1..Len(h) :
               h[e].hi < Len(a) /\ (h[e].hi < d.lo \/ h[e].lo > d.lo),
           \A k \in 1..Len(f) : f[k].kind # "when" => f[k].mark < d.lo
    PROVE  Tree(D, f, Append(h, d), a)
  <1> DEFINE g == Append(h, d)
             n == Len(h)
  <1>1. Len(a) \in Nat /\ n \in Nat
    BY LenProperties
  <1>2. /\ Len(g) = n + 1 /\ g[n + 1] = d
        /\ \A e \in 1..n : g[e] = h[e]
    BY <1>1, AppendProperties
  <1> HIDE DEF g
  <1>3. ASSUME NEW e \in 1..Len(g)
        PROVE  (e \in 1..Len(h) /\ g[e] = h[e]) \/ (e = n + 1 /\ g[e] = d)
    <2>1. CASE e = n + 1
      BY <1>2, <2>1
    <2>2. CASE e # n + 1
      <3>0. Len(g) = Len(h) + 1 /\ Len(h) \in Nat
        BY <1>1, <1>2
      <3>1. e \in 1..Len(h)
        BY <2>2, <3>0
      <3>2. g[e] = h[e]
        BY <1>2, <3>1
      <3> QED
        BY <3>1, <3>2
    <2> QED
      BY <2>1, <2>2
  <1>4. DefersNest(D, g)
    BY <1>3 DEF Tree, DefersNest
  <1>5. BodiesOK(g, a)
    BY <1>1, <1>3, SMTT(30) DEF Tree, BodiesOK
  <1>6. BodiesNest(g)
    <2> SUFFICES ASSUME NEW x \in 1..Len(g), NEW e \in 1..Len(g)
                 PROVE  /\ x < e => g[x].hi < g[e].hi
                        /\ g[x].lo \in g[e].lo + 1..g[e].hi => g[x].hi < g[e].hi
      BY DEF BodiesNest
    <2>1. CASE x \in 1..Len(h) /\ g[x] = h[x]
      <3>1. CASE e \in 1..Len(h) /\ g[e] = h[e]
        BY <2>1, <3>1 DEF Tree, BodiesNest
      <3>2. CASE e = n + 1 /\ g[e] = d
        BY <2>1, <3>2
      <3> QED
        BY <1>3, <3>1, <3>2
    <2>2. CASE x = n + 1 /\ g[x] = d
      <3>1. ~(x < e)
        BY <1>1, <1>2, <2>2
      <3>2. CASE e \in 1..Len(h) /\ g[e] = h[e]
        <4>1. h[e].lo \in Nat /\ h[e].hi \in Nat
          BY <1>1, <3>2 DEF Tree, BodiesOK
        <4>2. h[e].hi < d.lo \/ h[e].lo > d.lo
          BY <3>2
        <4>3. d.lo \in Nat
          BY <1>1
        <4>4. d.lo \notin h[e].lo + 1..h[e].hi
          BY <4>1, <4>2, <4>3, SMTT(30)
        <4> QED
          BY <2>2, <3>1, <3>2, <4>4
      <3>3. CASE e = n + 1 /\ g[e] = d
        BY <1>1, <2>2, <3>1, <3>3
      <3> QED
        BY <1>3, <3>2, <3>3
    <2> QED
      BY <1>3, <2>1, <2>2
  <1>7. BeginsOK(g, a)
    BY <1>1, <1>2, SMTT(30) DEF Tree, BeginsOK, Null
  <1>8. MarkedApart(f, g)
    BY <1>3 DEF Tree, MarkedApart
  <1> QED
    BY <1>4, <1>5, <1>6, <1>7, <1>8 DEF Tree, g

-----------------------------------------------------------------------------
(* The resolver keeps the shape of the tree. *)

\* The empty tree has its shape.
LEMMA InitTree == Init => TreeOK
  <1> SUFFICES ASSUME Init PROVE TreeOK
    OBVIOUS
  <1> DEFINE D == [p \in 1..2 |-> IF p = 1 THEN 0 ELSE 1]
  <1>1. D[1] = 0 /\ D[2] = 1 /\ D \in [1..2 -> Nat]
    OBVIOUS
  <1> HIDE DEF D
  <1>2. /\ Len(ast) = 1 /\ ast[1].op = "fn" /\ Len(heap) = 0
        /\ Len(frames) = 1 /\ frames[1].kind = "fn" /\ frames[1].mark = 1
        /\ phase = "resolve"
    BY DEF Init, Opener, Token
  <1>3. Nesting(D, ast)
    <2> SUFFICES ASSUME NEW p \in 1..Len(ast)
                 PROVE  D[p + 1] = CASE ast[p].op \in Openers -> D[p] + 1
                                     [] ast[p].op = "end" -> D[p] - 1
                                     [] OTHER -> D[p]
      BY <1>1, <1>2 DEF Nesting
    <2>1. p = 1 /\ ast[p].op \in Openers /\ ast[p].op # "end"
      BY <1>2 DEF Openers
    <2> QED
      BY <1>1, <2>1
  <1>4. DefersNest(D, heap) /\ BodiesOK(heap, ast) /\ BodiesNest(heap)
    BY <1>2 DEF DefersNest, BodiesOK, BodiesNest
  <1>5. BeginsOK(heap, ast)
    BY <1>2 DEF BeginsOK, Exits
  <1>6. Marked(frames, ast) /\ MarkedApart(frames, heap)
    BY <1>2 DEF Marked, MarkedApart
  <1>7. FramesNest(D, frames, ast)
    <2>1. Inside(D, frames, 1) = 1
      BY <1>1, <1>2 DEF Inside
    <2> QED
      BY <1>1, <1>2, <2>1 DEF FramesNest
  <1>8. Tree(D, frames, heap, ast)
    BY <1>3, <1>4, <1>5, <1>6, <1>7 DEF Tree
  <1> QED
    BY <1>2, <1>8 DEF TreeOK, Building

\* The step for an action that appends a way out of a block, or nothing.
LEMMA JumpTree ==
    ASSUME TreeOK, ResolveTypeOK, phase = "resolve",
           UNCHANGED <<heap, frames>>, phase' \in {"resolve", "fatal"},
           NEW t \in TokenType, t.op \in Exits, t.op # "end", t.begin \in 0..Len(heap),
           ast' = ast \/ ast' = Append(ast, t)
    PROVE  TreeOK'
  <1>1. PICK D : Tree(D, frames, heap, ast)
    BY DEF TreeOK
  <1>2. \E E : Tree(E, frames, heap, ast')
    <2>1. CASE ast' = ast
      BY <1>1, <2>1
    <2>2. CASE ast' = Append(ast, t)
      BY <1>1, <2>2, TreeJump DEF ResolveTypeOK
    <2> QED
      BY <2>1, <2>2
  <1> QED
    BY <1>2 DEF TreeOK, Building

\* A block that is opened is one deeper (resolve_block is entered).
LEMMA EnterTree ==
    ASSUME TreeOK, ResolveTypeOK, phase = "resolve", Len(frames) > 0,
           NEW op \in Openers, Enter(op), UNCHANGED <<phase, heap>>
    PROVE  TreeOK'
  <1>1. PICK D : Tree(D, frames, heap, ast)
    BY DEF TreeOK
  <1>2. Opener(op) \in TokenType /\ Frame(op) \in FrameType
    BY OpenerTyped, FrameTyped
  <1>3. Opener(op).op \in Openers /\ Frame(op).mark = Len(ast) + 1 /\ Frame(op).kind # "when"
    BY DEF Opener, Token, Frame, Openers
  <1>4. \E E : Tree(E, Append(frames, Frame(op)), heap, Append(ast, Opener(op)))
    BY <1>1, <1>2, <1>3, TreeOpen DEF ResolveTypeOK
  <1> QED
    BY <1>4 DEF TreeOK, Building, Enter

\* The end of a block that the tree knows, before its frame is forgotten.
LEMMA EndTree ==
    ASSUME TreeOK, ResolveTypeOK, FramesOK, Len(frames) > 0, Top.kind # "when"
    PROVE  LET b == Append(ast, BlockEnd)
           IN  \E E : /\ Tree(E, Popped, heap, b)
                      /\ E[Len(b) + 1] = E[Top.mark]
                      /\ \A p \in Top.mark + 1..Len(b) : E[p] > E[Top.mark]
  <1>1. PICK D : Tree(D, frames, heap, ast)
    BY DEF TreeOK
  <1>2. BlockEnd \in TokenType
    BY TopFacts
  <1>3. BlockEnd.op = "end" /\ BlockEnd.begin \in 0..Len(heap)
    BY DEF BlockEnd, Token, ResolveTypeOK
  <1>4. Popped = Prefix(frames, Len(frames) - 1) /\ Top = frames[Len(frames)]
    BY DEF Popped, Prefix, Top
  <1>5. /\ frames \in Seq(FrameType) /\ heap \in Seq(DeferType) /\ ast \in Seq(TokenType)
        /\ Len(frames) > 0 /\ frames[Len(frames)].kind # "when"
    BY <1>4 DEF ResolveTypeOK
  <1> DEFINE t == BlockEnd
  <1>6. t \in TokenType /\ t.op = "end" /\ t.begin \in 0..Len(heap)
    BY <1>2, <1>3
  <1> HIDE DEF t
  <1>7. \E E : /\ Tree(E, Prefix(frames, Len(frames) - 1), heap, Append(ast, t))
               /\ E[Len(Append(ast, t)) + 1] = E[frames[Len(frames)].mark]
               /\ \A p \in frames[Len(frames)].mark + 1..Len(Append(ast, t)) :
                     E[p] > E[frames[Len(frames)].mark]
    BY <1>1, <1>5, <1>6, TreeEnd, ZenonT(60)
  <1> QED
    BY <1>4, <1>7, Zenon DEF t

\* The end of a block leads back to the depth of its opening token.
LEMMA EndBlockTree ==
    ASSUME TreeOK, ResolveTypeOK, FramesOK, Len(frames) > 0, Top.kind # "when",
           phase = "resolve", UNCHANGED <<phase, heap>>,
           frames' = Popped, ast' = Append(ast, BlockEnd)
    PROVE  TreeOK'
  <1>1. \E E : Tree(E, Popped, heap, Append(ast, BlockEnd))
    BY EndTree
  <1> QED
    BY <1>1 DEF TreeOK, Building

\* The new defer of resolve_stmt_defer_block, whose body has just ended.
LEMMA EndDeferTree ==
    ASSUME TreeOK, ResolveTypeOK, FramesOK, EndDefer
    PROVE  TreeOK'
  <1> DEFINE b == Append(ast, BlockEnd)
             m == Top.mark
             d == [prev |-> Top.save, lo |-> m, hi |-> Len(ast) + 1]
             n == Len(frames)
  <1>1. /\ phase = "resolve" /\ phase' = phase /\ n > 1 /\ Top.kind = "defer"
        /\ frames' = Popped /\ ast' = b /\ heap' = Append(heap, d)
    BY DEF EndDefer, Close
  <1>2. Len(ast) \in Nat /\ Len(heap) \in Nat /\ n \in Nat /\ n \in 1..n
    BY <1>1, NatFacts
  <1>3. PICK D : Tree(D, frames, heap, ast)
    BY DEF TreeOK
  <1>4. PICK E : /\ Tree(E, Popped, heap, b)
                 /\ E[Len(b) + 1] = E[m]
                 /\ \A p \in m + 1..Len(b) : E[p] > E[m]
    <2>1. Len(frames) > 0 /\ Top.kind # "when"
      BY <1>1, <1>2
    <2>2. \E E : /\ Tree(E, Popped, heap, b)
                 /\ E[Len(b) + 1] = E[m]
                 /\ \A p \in m + 1..Len(b) : E[p] > E[m]
      BY <2>1, EndTree, Zenon
    <2> QED
      BY <2>2
  <1>5. /\ Top.save \in Nat /\ m \in Nat /\ BlockEnd \in TokenType
        /\ Popped \in Seq(FrameType) /\ Len(Popped) = n - 1
        /\ \A k \in 1..n - 1 : Popped[k] = frames[k]
    <2>1. Len(frames) > 0
      BY <1>1, <1>2
    <2>2. /\ Top \in FrameType /\ BlockEnd \in TokenType
          /\ Popped \in Seq(FrameType) /\ Len(Popped) = n - 1
          /\ \A k \in 1..n - 1 : Popped[k] = frames[k]
      BY <2>1, TopFacts, Zenon
    <2>3. Top.save \in Nat /\ Top.mark \in Nat
      BY <2>2 DEF FrameType
    <2> QED
      BY <2>2, <2>3
  <1>6. /\ b \in Seq(TokenType) /\ Len(b) = Len(ast) + 1
        /\ b[Len(b)] = BlockEnd
    BY <1>2, <1>5, AppendProperties DEF ResolveTypeOK
  <1>7. d \in DeferType /\ d.hi = Len(b) /\ d.lo = m
    BY <1>2, <1>5, <1>6 DEF DeferType
  <1>8. m \in 1..Len(ast)
    BY <1>1, <1>2, <1>3 DEF Tree, Marked, Top
  <1>9. b[Len(b)].op = "end"
    BY <1>6 DEF BlockEnd, Token
  <1>10. ASSUME NEW e \in 1..Len(heap)
         PROVE  heap[e].hi < Len(b) /\ (heap[e].hi < m \/ heap[e].lo > m)
    <2>1. heap[e].hi < m \/ heap[e].lo > m
      BY <1>1, <1>2, <1>3 DEF Tree, MarkedApart, Top
    <2>2. heap[e].hi \in 1..Len(ast)
      BY <1>3 DEF Tree, BodiesOK
    <2> QED
      BY <1>2, <1>6, <2>1, <2>2
  <1>11. ASSUME NEW k \in 1..Len(Popped), Popped[k].kind # "when"
         PROVE  Popped[k].mark < m
    <2>1. k \in 1..n - 1 /\ Popped[k] = frames[k]
      BY <1>2, <1>5
    <2> QED
      BY <1>2, <1>3, <1>11, <2>1 DEF Tree, Marked, Top
  <1>12. heap \in Seq(DeferType)
    BY DEF ResolveTypeOK
  <1> HIDE DEF b, d, m
  <1>13. Tree(E, Popped, Append(heap, d), b)
    <2>1. d.lo \in 1..Len(b) /\ d.lo < d.hi
      BY <1>2, <1>6, <1>7, <1>8
    <2> QED
      BY <1>4, <1>5, <1>6, <1>7, <1>9, <1>10, <1>11, <1>12, <2>1, TreeDefer
  <1> QED
    BY <1>1, <1>13 DEF TreeOK, Building

\* resolve_stmt_defer_expr: a block is entered, ends and becomes a body.
LEMMA DeferExprTree ==
    ASSUME TreeOK, ResolveTypeOK, Len(frames) > 0, DeferExpr
    PROVE  TreeOK'
  <1> DEFINE o == Opener("defer")
             t == Token("end", current_defer, current_defer, <<>>, 0)
             a == Append(ast, o)
             b == Append(a, t)
             r == Frame("defer")
             f == Append(frames, r)
             m == Len(ast) + 1
             d == [prev |-> current_defer, lo |-> m, hi |-> Len(ast) + 2]
  <1>1. /\ phase = "resolve" /\ phase' = phase /\ frames' = frames
        /\ ast' = b /\ heap' = Append(heap, d)
    BY Zenon DEF DeferExpr, Statement, PushDefer
  <1>2. Len(ast) \in Nat /\ Len(heap) \in Nat /\ Len(frames) \in Nat /\ current_defer \in Nat
    BY NatFacts
  <1>3. /\ heap \in Seq(DeferType) /\ frames \in Seq(FrameType) /\ ast \in Seq(TokenType)
        /\ current_defer \in 0..Len(heap)
    BY DEF ResolveTypeOK
  <1>4. o \in TokenType /\ r \in FrameType /\ "defer" \in Openers
    BY OpenerTyped, FrameTyped DEF Openers
  <1>5. o.op = "defer" /\ r.kind = "defer" /\ r.mark = m
    BY DEF Opener, Token, Frame
  <1>6. t \in TokenType /\ t.op = "end" /\ t.begin = current_defer
    <2>1. "end" \in Openers \cup Exits /\ 0 \in Nat /\ <<>> \in Seq(Nat)
      BY EmptySeq DEF Exits
    <2>2. t \in TokenType
      BY <1>2, <2>1, TokenTyped
    <2> QED
      BY <2>2 DEF Token
  <1>7. /\ a \in Seq(TokenType) /\ Len(a) = Len(ast) + 1
        /\ f \in Seq(FrameType) /\ Len(f) = Len(frames) + 1 /\ f[Len(f)] = r
        /\ \A k \in 1..Len(frames) : f[k] = frames[k]
    BY <1>2, <1>3, <1>4, AppendProperties
  <1>8. b \in Seq(TokenType) /\ Len(b) = Len(ast) + 2 /\ b[Len(b)] = t
    BY <1>2, <1>6, <1>7, AppendProperties
  <1>9. d \in DeferType /\ d.hi = Len(b) /\ d.lo = m
    BY <1>2, <1>8 DEF DeferType
  <1> HIDE DEF o, t, a, b, r, d, f
  <1>10. PICK D : Tree(D, frames, heap, ast)
    BY DEF TreeOK
  <1>11. PICK DD : Tree(DD, f, heap, a)
    BY <1>3, <1>4, <1>5, <1>10, TreeOpen DEF a, f
  <1>12. PICK E : /\ Tree(E, Prefix(f, Len(f) - 1), heap, b)
                  /\ E[Len(b) + 1] = E[m]
                  /\ \A p \in m + 1..Len(b) : E[p] > E[m]
    <2>1. Len(f) > 0 /\ f[Len(f)].kind # "when" /\ f[Len(f)].mark = m
      BY <1>2, <1>5, <1>7
    <2>2. t.begin \in 0..Len(heap)
      BY <1>3, <1>6
    <2>3. \E E : /\ Tree(E, Prefix(f, Len(f) - 1), heap, Append(a, t))
                 /\ E[Len(Append(a, t)) + 1] = E[f[Len(f)].mark]
                 /\ \A p \in f[Len(f)].mark + 1..Len(Append(a, t)) : E[p] > E[f[Len(f)].mark]
      BY <1>3, <1>6, <1>7, <1>11, <2>1, <2>2, TreeEnd, ZenonT(60)
    <2> QED
      BY <2>1, <2>3 DEF b
  <1>13. Prefix(f, Len(f) - 1) = frames
    <2>1. Len(f) - 1 = Len(frames) /\ Len(frames) \in 0..Len(f)
      BY <1>2, <1>7
    <2>2. /\ Prefix(f, Len(frames)) \in Seq(FrameType)
          /\ Len(Prefix(f, Len(frames))) = Len(frames)
          /\ \A k \in 1..Len(frames) : Prefix(f, Len(frames))[k] = f[k]
      BY <1>7, <2>1, PrefixFacts
    <2> QED
      BY <1>3, <1>7, <2>1, <2>2, SeqEqual
  <1>14. ASSUME NEW e \in 1..Len(heap)
         PROVE  heap[e].hi < Len(b) /\ (heap[e].hi < m \/ heap[e].lo > m)
    <2>1. heap[e].hi \in 1..Len(ast)
      BY <1>10 DEF Tree, BodiesOK
    <2> QED
      BY <1>2, <1>8, <2>1
  <1>15. ASSUME NEW k \in 1..Len(frames), frames[k].kind # "when"
         PROVE  frames[k].mark < m
    BY <1>2, <1>10, <1>15 DEF Tree, Marked
  <1>16. Tree(E, frames, Append(heap, d), b)
    <2>1. d.lo \in 1..Len(b) /\ d.lo < d.hi
      BY <1>2, <1>8, <1>9
    <2>2. b[Len(b)].op = "end" /\ Tree(E, frames, heap, b)
      BY <1>6, <1>8, <1>12, <1>13
    <2>3. E[Len(b) + 1] = E[d.lo] /\ \A p \in d.lo + 1..Len(b) : E[p] > E[d.lo]
      BY <1>9, <1>12
    <2>4. \A e \in 1..Len(heap) :
              heap[e].hi < Len(b) /\ (heap[e].hi < d.lo \/ heap[e].lo > d.lo)
      BY <1>9, <1>14
    <2>5. \A k \in 1..Len(frames) : frames[k].kind # "when" => frames[k].mark < d.lo
      BY <1>9, <1>15
    <2> QED
      BY <1>3, <1>8, <1>9, <2>1, <2>2, <2>3, <2>4, <2>5, TreeDefer
  <1> QED
    BY <1>1, <1>16 DEF TreeOK, Building
\* The function ends: its tree is one block.
LEMMA EndFunctionTree ==
    ASSUME TreeOK, ResolveTypeOK, FramesOK, EndFunction
    PROVE  TreeOK'
  <1> DEFINE b == Append(ast, BlockEnd)
  <1>1. /\ phase = "resolve" /\ Len(frames) = 1
        /\ frames' = <<>> /\ ast' = b /\ heap' = heap
    BY DEF EndFunction
  <1>2. Len(ast) \in Nat /\ Len(heap) \in Nat
    BY NatFacts
  <1>3. PICK D : Tree(D, frames, heap, ast)
    BY DEF TreeOK
  <1>4. Top.kind = "fn" /\ Top.mark = 1 /\ 1 <= Len(ast)
    BY <1>1, <1>3 DEF Tree, Marked, Top
  <1>5. PICK E : /\ Tree(E, Popped, heap, b)
                 /\ E[Len(b) + 1] = E[1]
                 /\ \A p \in 1 + 1..Len(b) : E[p] > E[1]
    <2>1. Len(frames) > 0 /\ Top.kind # "when"
      BY <1>1, <1>4
    <2>2. \E E : /\ Tree(E, Popped, heap, b)
                 /\ E[Len(b) + 1] = E[Top.mark]
                 /\ \A p \in Top.mark + 1..Len(b) : E[p] > E[Top.mark]
      BY <2>1, EndTree, Zenon
    <2> QED
      BY <1>4, <2>2
  <1>6. Popped = <<>>
    BY <1>1, SubSeqEmpty DEF Popped
  <1>7. BlockEnd \in TokenType
    BY <1>1, TopFacts
  <1>8. /\ Len(b) = Len(ast) + 1 /\ b[Len(b)] = BlockEnd /\ BlockEnd.op = "end"
    BY <1>2, <1>7, AppendProperties DEF ResolveTypeOK, BlockEnd, Token
  <1> HIDE DEF b
  <1>9. Whole(E, heap, b)
    <2>1. Len(b) > 1 /\ b[Len(b)].op = "end"
      BY <1>2, <1>4, <1>8
    <2>2. E \in [1..Len(b) + 1 -> Nat] /\ E[1] = 0
      BY <1>5 DEF Tree, Nesting
    <2>3. ASSUME NEW p \in 2..Len(b) PROVE E[p] >= 1
      <3>1. p \in 1 + 1..Len(b) /\ E[p] \in Nat
        BY <1>2, <1>8, <2>2
      <3> QED
        BY <1>5, <2>2, <3>1
    <2>4. ASSUME NEW d \in 1..Len(heap) PROVE heap[d].hi < Len(b)
      <3>1. heap[d].hi \in 1..Len(ast)
        BY <1>3 DEF Tree, BodiesOK
      <3> QED
        BY <1>2, <1>8, <3>1
    <2> QED
      BY <1>5, <2>1, <2>2, <2>3, <2>4 DEF Whole
  <1> QED
    BY <1>1, <1>5, <1>6, <1>9 DEF TreeOK
\* The type of a token follows from that of the tree that it is appended to.
LEMMA LastTyped ==
    ASSUME ResolveTypeOK, ResolveTypeOK', NEW t, ast' = Append(ast, t)
    PROVE  t \in TokenType
  <1>1. ast \in Seq(TokenType) /\ ast' \in Seq(TokenType)
    BY DEF ResolveTypeOK
  <1>2. ast \in Seq(TokenType \cup {t}) /\ t \in TokenType \cup {t}
    BY <1>1, SeqMonotonic
  <1>3. Len(ast') = Len(ast) + 1 /\ ast'[Len(ast) + 1] = t
    BY <1>2, AppendProperties
  <1>4. Len(ast) \in Nat
    BY <1>1, LenProperties
  <1> QED
    BY <1>1, <1>3, <1>4, ElementOfSeq

\* break and continue begin with a defer that was complete before them.
LEMMA JumpStepTree ==
    ASSUME TreeOK, ResolveTypeOK, ResolveTypeOK', NEW op \in {"break", "continue"}, Jump(op)
    PROVE  TreeOK'
  <1> DEFINE t == Token(op, current_defer, current_loop_defer,
                        Above(live, IF loop_at = 0 THEN 0 ELSE frames[loop_at].base),
                        IF loop_at = 0 THEN 0 ELSE frames[loop_at].mark)
  <1>1. /\ phase = "resolve" /\ UNCHANGED <<heap, frames>>
        /\ \/ ast' = Append(ast, t) /\ phase' = phase
           \/ ast' = ast /\ phase' = "fatal"
    BY DEF Jump, Statement
  <1>2. t.op = op /\ t.begin = current_defer
    BY DEF Token
  <1>3. current_defer \in 0..Len(heap)
    BY DEF ResolveTypeOK
  <1> HIDE DEF t
  <1>4. CASE ast' = Append(ast, t) /\ phase' = phase
    <2>1. t \in TokenType
      BY <1>4, LastTyped
    <2> QED
      BY <1>1, <1>2, <1>3, <1>4, <2>1, JumpTree DEF Exits
  <1>5. CASE ast' = ast /\ phase' = "fatal"
    BY <1>1, <1>5 DEF TreeOK, Building
  <1> QED
    BY <1>1, <1>4, <1>5

\* Each step of the resolver keeps the shape of the tree.
LEMMA TreeStep ==
    ResolveTypeOK /\ FramesOK /\ ResolveTypeOK' /\ TreeOK /\ [Resolve]_vars => TreeOK'
  <1> SUFFICES ASSUME ResolveTypeOK, FramesOK, ResolveTypeOK', TreeOK, [Resolve]_vars
               PROVE  TreeOK'
    OBVIOUS
  <1>0. phase = "resolve" => Len(frames) > 0
    BY DEF FramesOK
  <1>1. CASE DeferExpr
    BY <1>0, <1>1, DeferExprTree, Zenon DEF DeferExpr, Statement
  <1>2. CASE DeferBlock
    BY <1>0, <1>2, EnterTree, Zenon DEF DeferBlock, Statement, Openers
  <1>3. CASE If
    BY <1>0, <1>3, EnterTree DEF If, Statement, Openers
  <1>4. CASE For
    BY <1>0, <1>4, EnterTree DEF For, Statement, Openers
  <1>5. CASE When
    <2>1. PICK D : Tree(D, frames, heap, ast)
      BY DEF TreeOK
    <2>2. Frame("when") \in FrameType
      BY FrameTyped
    <2>3. Frame("when").kind = "when" /\ Frame("when").mark = Len(ast) + 1
      BY DEF Frame
    <2>4. Tree(D, Append(frames, Frame("when")), heap, ast)
      BY <1>0, <1>5, <2>1, <2>2, <2>3, TreeWhen DEF ResolveTypeOK, When, Statement
    <2> QED
      BY <1>5, <2>4 DEF When, Statement, TreeOK, Building
  <1>6. CASE WhenNone
    BY <1>6, Zenon DEF WhenNone, Statement, TreeOK, Building
  <1>7. CASE Break
    BY <1>7, JumpStepTree DEF Break
  <1>8. CASE Continue
    BY <1>8, JumpStepTree DEF Continue
  <1>9. CASE Return
    <2> DEFINE t == Token("return", current_defer, Null, live, 0)
    <2>1. phase = "resolve" /\ UNCHANGED <<phase, heap, frames>> /\ ast' = Append(ast, t)
      BY <1>9 DEF Return, Statement
    <2>2. t.op = "return" /\ t.begin = current_defer
      BY DEF Token
    <2>3. t \in TokenType
      BY <2>1, LastTyped
    <2>4. current_defer \in 0..Len(heap)
      BY DEF ResolveTypeOK
    <2> HIDE DEF t
    <2> QED
      BY <2>1, <2>2, <2>3, <2>4, JumpTree DEF Exits
  <1>10. CASE EndIf
    <2>1. Len(frames) > 0 /\ Top.kind # "when" /\ phase = "resolve"
      BY <1>0, <1>10 DEF EndIf, Close
    <2> QED
      BY <1>10, <2>1, EndBlockTree DEF EndIf, Close
  <1>11. CASE EndFor
    <2>1. Len(frames) > 0 /\ Top.kind # "when" /\ phase = "resolve"
      BY <1>0, <1>11 DEF EndFor, Close
    <2> QED
      BY <1>11, <2>1, EndBlockTree DEF EndFor, Close
  <1>12. CASE EndDefer
    BY <1>12, EndDeferTree
  <1>13. CASE EndWhen
    <2>1. PICK D : Tree(D, frames, heap, ast)
      BY DEF TreeOK
    <2>2. /\ Len(frames) > 1 /\ frames[Len(frames)].kind = "when" /\ phase = "resolve"
          /\ frames' = Prefix(frames, Len(frames) - 1) /\ UNCHANGED <<phase, ast, heap>>
      BY <1>13 DEF EndWhen, Close, Top, Popped, Prefix
    <2>3. Tree(D, Prefix(frames, Len(frames) - 1), heap, ast)
      BY <2>1, <2>2, TreeEndWhen DEF ResolveTypeOK
    <2> QED
      BY <2>2, <2>3 DEF TreeOK, Building
  <1>14. CASE EndFunction
    BY <1>14, EndFunctionTree
  <1>15. CASE UNCHANGED vars
    BY <1>15 DEF vars, TreeOK, Building
  <1> QED
    BY <1>1, <1>2, <1>3, <1>4, <1>5, <1>6, <1>7, <1>8, <1>9, <1>10, <1>11, <1>12, <1>13,
       <1>14, <1>15 DEF Resolve
-----------------------------------------------------------------------------
(* The activations of codegen_block over a tree of that shape. *)

\* An activation of codegen_block.
ActType == [pc : 1..Len(ast), hi : 1..Len(ast), current : 0..Len(heap)]

\* An activation r is inside a block that ends at r.hi, with every deferred
\* body that it has yet to come by; the defer that codegen_defers is at ended
\* before it, and lies on the stretch of the list that is due.
ActOK(D, h, a, cut, r) ==
    /\ r.pc \in 1..r.hi /\ r.hi \in 1..Len(a) /\ a[r.hi].op = "end"
    /\ r.current \in 0..Len(h)
    /\ r.current # Null => h[r.current].hi < r.pc
    /\ \A d \in 1..Len(h) : h[d].lo \in r.pc..r.hi => h[d].hi < r.hi
    /\ \A p \in r.pc..r.hi : D[p] >= D[r.hi]
    /\ ~cut /\ a[r.pc].op \in Exits =>
         \/ r.current = a[r.pc].end
         \/ \E i \in 1..Len(a[r.pc].due) : r.current = a[r.pc].due[i]

\* Each activation; what it generates ended before the place that called for it.
ActsOK(D, h, a, cut, A) ==
    /\ \A k \in 1..Len(A) : ActOK(D, h, a, cut, A[k])
    /\ \A k \in 1..Len(A) - 1 : A[k + 1].hi < A[k].pc

\* Of the n C blocks that are open, B[k] were opened by the first k activations.
Opened(D, A, n) ==
    \E B \in [0..Len(A) -> Nat] :
        /\ B[0] = 0 /\ B[Len(A)] = n
        /\ \A k \in 1..Len(A) :
             /\ B[k] = B[k - 1] + (D[A[k].pc] - D[A[k].hi]) + 1
             /\ B[k] >= k

\* The phases in which codegen_block is not active.
Idle == {"resolve", "fatal", "resolved", "compiled", "run"}

\* The shape of the tree, of the activations over it, and of the blocks that they opened.
Shape ==
    \E D : /\ Tree(D, frames, heap, ast)
           /\ Building \/ Whole(D, heap, ast)
           /\ ActsOK(D, heap, ast, dropped, acts)
           /\ Opened(D, acts, Len(opens))

\* The inductive invariant of the code generator.
GenInv ==
    /\ GenTypeOK /\ NoNullDefer /\ Shape
    /\ phase \in Idle <=> acts = <<>>

\* A fresh activation, at a place inside a block.
LEMMA ActivationOK ==
    ASSUME NEW D, NEW f, Tree(D, f, heap, ast), ResolveTypeOK, ExitsUnwind,
           NEW hi \in 1..Len(ast), NEW p \in 1..hi, ast[hi].op = "end",
           \A d \in 1..Len(heap) : heap[d].lo \in p..hi => heap[d].hi < hi,
           \A q \in p..hi : D[q] >= D[hi]
    PROVE  /\ Activation(p, hi) \in ActType
           /\ Activation(p, hi).pc = p /\ Activation(p, hi).hi = hi
           /\ ActOK(D, heap, ast, dropped, Activation(p, hi))
  <1> DEFINE r == Activation(p, hi)
  <1>1. Len(ast) \in Nat /\ Len(heap) \in Nat /\ p \in 1..Len(ast) /\ p <= hi
    BY NatFacts
  <1>2. r = [pc |-> p, hi |-> hi,
             current |-> IF ast[p].op \in Exits THEN ast[p].begin ELSE Null]
    BY <1>1 DEF Activation
  <1>3. /\ r.current \in 0..Len(heap)
        /\ r.current # Null => heap[r.current].hi < p
    <2>1. CASE ast[p].op \in Exits
      BY <1>1, <1>2, <2>1 DEF Tree, BeginsOK
    <2>2. CASE ast[p].op \notin Exits
      BY <1>1, <1>2, <2>2 DEF Null
    <2> QED
      BY <2>1, <2>2
  <1>4. ASSUME ~dropped, ast[p].op \in Exits
        PROVE  \/ r.current = ast[p].end
               \/ \E i \in 1..Len(ast[p].due) : r.current = ast[p].due[i]
    <2>1. r.current = ast[p].begin
      BY <1>2, <1>4
    <2>2. Unwinds(heap, ast[p].begin, ast[p].end, ast[p].due)
      BY <1>1, <1>4 DEF ExitsUnwind
    <2>3. ast[p].due \in Seq(Nat)
      <3>1. ast \in Seq(TokenType)
        BY DEF ResolveTypeOK
      <3>2. ast[p] \in TokenType
        BY <1>1, <3>1, ElementOfSeq
      <3> QED
        BY <3>2 DEF TokenType
    <2>4. ast[p].due # <<>> => Len(ast[p].due) \in 1..Len(ast[p].due)
      BY <2>3, EmptySeq
    <2> QED
      BY <2>1, <2>2, <2>4 DEF Unwinds
  <1>5. r.pc = p /\ r.hi = hi
    BY <1>2
  <1>6. r \in ActType
    BY <1>1, <1>2, <1>3 DEF ActType
  <1> HIDE DEF r
  <1>7. ActOK(D, heap, ast, dropped, r)
    BY <1>3, <1>4, <1>5 DEF ActOK
  <1> QED
    BY <1>5, <1>6, <1>7 DEF r

\* A call of codegen_block.
LEMMA ActsPush ==
    ASSUME NEW T, NEW A \in Seq(T), NEW r \in T, NEW D, NEW h, NEW a, NEW cut,
           NEW n \in Nat,
           ActsOK(D, h, a, cut, A), Opened(D, A, n),
           ActOK(D, h, a, cut, r), D[r.pc] = D[r.hi], D[r.hi] \in Nat,
           Len(A) > 0 => r.hi < A[Len(A)].pc
    PROVE  ActsOK(D, h, a, cut, Append(A, r)) /\ Opened(D, Append(A, r), n + 1)
  <1> DEFINE Z == Append(A, r)
             m == Len(A)
  <1>1. m \in Nat
    BY LenProperties
  <1>2. /\ Len(Z) = m + 1 /\ Z[m + 1] = r
        /\ \A k \in 1..m : Z[k] = A[k]
    BY <1>1, AppendProperties
  <1> HIDE DEF Z
  <1>3. ActsOK(D, h, a, cut, Z)
    <2>1. ASSUME NEW k \in 1..Len(Z) PROVE ActOK(D, h, a, cut, Z[k])
      <3>1. k \in 1..m \/ k = m + 1
        BY <1>1, <1>2
      <3> QED
        BY <1>2, <3>1 DEF ActsOK
    <2>2. ASSUME NEW k \in 1..Len(Z) - 1 PROVE Z[k + 1].hi < Z[k].pc
      <3>1. k \in 1..m /\ Len(Z) - 1 = m
        BY <1>1, <1>2
      <3>2. CASE k = m
        BY <1>1, <1>2, <3>1, <3>2
      <3>3. CASE k # m
        <4>1. k \in 1..m - 1 /\ k + 1 \in 1..m
          BY <1>1, <3>1, <3>3
        <4> QED
          BY <1>2, <3>1, <4>1 DEF ActsOK
      <3> QED
        BY <3>2, <3>3
    <2> QED
      BY <2>1, <2>2 DEF ActsOK
  <1>4. Opened(D, Z, n + 1)
    <2>1. PICK B \in [0..m -> Nat] :
              /\ B[0] = 0 /\ B[m] = n
              /\ \A k \in 1..m :
                   /\ B[k] = B[k - 1] + (D[A[k].pc] - D[A[k].hi]) + 1
                   /\ B[k] >= k
      BY DEF Opened
    <2> DEFINE C == [k \in 0..m + 1 |-> IF k = m + 1 THEN n + 1 ELSE B[k]]
    <2>2. /\ C \in [0..Len(Z) -> Nat] /\ C[m + 1] = n + 1
          /\ \A k \in 0..m : C[k] = B[k]
      BY <1>1, <1>2
    <2> HIDE DEF C
    <2>3. n >= m
      BY <1>1, <2>1
    <2>4. ASSUME NEW k \in 1..Len(Z)
          PROVE  /\ C[k] = C[k - 1] + (D[Z[k].pc] - D[Z[k].hi]) + 1
                 /\ C[k] >= k
      <3>1. CASE k \in 1..m
        <4>1. k \in 0..m /\ k - 1 \in 0..m
          BY <1>1, <3>1
        <4> QED
          BY <1>2, <2>1, <2>2, <3>1, <4>1
      <3>2. CASE k = m + 1
        <4>1. C[k] = n + 1 /\ k - 1 = m /\ C[m] = n /\ Z[k] = r
          BY <1>1, <1>2, <2>1, <2>2, <3>2
        <4>2. D[Z[k].pc] - D[Z[k].hi] = 0
          BY <4>1
        <4> QED
          BY <1>1, <2>3, <3>2, <4>1, <4>2
      <3> QED
        BY <1>1, <1>2, <3>1, <3>2
    <2>5. C[0] = 0 /\ C[Len(Z)] = n + 1
      BY <1>1, <1>2, <2>1, <2>2
    <2> QED
      BY <2>2, <2>4, <2>5 DEF Opened
  <1> QED
    BY <1>3, <1>4 DEF Z
\* The newest activation goes on inside its block.
LEMMA ActsAdvance ==
    ASSUME NEW T, NEW A \in Seq(T), Len(A) > 0, NEW r \in T,
           NEW D, NEW h, NEW a, NEW cut, NEW n \in Nat,
           ActsOK(D, h, a, cut, A), Opened(D, A, n), ActOK(D, h, a, cut, r),
           r.hi = A[Len(A)].hi,
           D[r.hi] \in Nat, D[r.pc] \in Nat, D[A[Len(A)].pc] \in Nat
    PROVE  LET Z == [A EXCEPT ![Len(A)] = r]
           IN  /\ Z \in Seq(T) /\ Len(Z) = Len(A) /\ Z[Len(A)] = r
               /\ ActsOK(D, h, a, cut, Z)
               /\ Opened(D, Z, n + (D[r.pc] - D[A[Len(A)].pc]))
  <1> DEFINE Z == [A EXCEPT ![Len(A)] = r]
             m == Len(A)
             old == A[m]
             x == n + (D[r.pc] - D[old.pc])
  <1>1. m \in Nat /\ m \in 1..m
    BY LenProperties
  <1>2. /\ Z \in Seq(T) /\ Len(Z) = m /\ Z[m] = r
        /\ \A k \in 1..m : k # m => Z[k] = A[k]
    BY <1>1, ExceptSeq
  <1> HIDE DEF Z
  <1>3. ActsOK(D, h, a, cut, Z)
    <2>1. ASSUME NEW k \in 1..Len(Z) PROVE ActOK(D, h, a, cut, Z[k])
      BY <1>2 DEF ActsOK
    <2>2. ASSUME NEW k \in 1..Len(Z) - 1 PROVE Z[k + 1].hi < Z[k].pc
      <3>1. k \in 1..m - 1 /\ k \in 1..m /\ k + 1 \in 1..m /\ k # m
        BY <1>1, <1>2
      <3>2. Z[k] = A[k] /\ Z[k + 1].hi = A[k + 1].hi
        BY <1>2, <3>1
      <3> QED
        BY <3>1, <3>2 DEF ActsOK
    <2> QED
      BY <2>1, <2>2 DEF ActsOK
  <1>4. Opened(D, Z, x)
    <2>1. PICK B \in [0..m -> Nat] :
              /\ B[0] = 0 /\ B[m] = n
              /\ \A k \in 1..m :
                   /\ B[k] = B[k - 1] + (D[A[k].pc] - D[A[k].hi]) + 1
                   /\ B[k] >= k
      BY DEF Opened
    <2>2. B[m] = B[m - 1] + (D[old.pc] - D[old.hi]) + 1
      BY <1>1, <2>1
    <2>3. B[m - 1] \in Nat /\ B[m - 1] >= m - 1
      <3>1. CASE m = 1
        BY <2>1, <3>1
      <3>2. CASE m # 1
        <4>1. m - 1 \in 1..m /\ m - 1 \in 0..m
          BY <1>1, <3>2
        <4>2. B[m - 1] >= m - 1
          BY <2>1, <4>1
        <4>3. B[m - 1] \in Nat
          BY <4>1
        <4> QED
          BY <4>2, <4>3
      <3> QED
        BY <3>1, <3>2
    <2>4. x = B[m - 1] + (D[r.pc] - D[r.hi]) + 1
      BY <2>1, <2>2, <2>3, SMTT(30)
    <2>5. D[r.pc] >= D[r.hi]
      <3>1. r.pc \in r.pc..r.hi
        BY DEF ActOK
      <3> QED
        BY <3>1 DEF ActOK
    <2>6. x \in Nat /\ x >= m
      BY <1>1, <2>3, <2>4, <2>5
    <2> HIDE DEF x
    <2> DEFINE C == [k \in 0..m |-> IF k = m THEN x ELSE B[k]]
    <2>7. /\ C \in [0..Len(Z) -> Nat] /\ C[m] = x
          /\ \A k \in 0..m : k # m => C[k] = B[k]
      BY <1>1, <1>2, <2>1, <2>6
    <2> HIDE DEF C
    <2>8. ASSUME NEW k \in 1..Len(Z)
          PROVE  /\ C[k] = C[k - 1] + (D[Z[k].pc] - D[Z[k].hi]) + 1
                 /\ C[k] >= k
      <3>1. k \in 0..m /\ k - 1 \in 0..m /\ k - 1 # m /\ k \in 1..m
        BY <1>1, <1>2
      <3>2. CASE k # m
        BY <1>2, <2>1, <2>7, <3>1, <3>2
      <3>3. CASE k = m
        <4>1. C[k] = x /\ C[k - 1] = B[m - 1] /\ Z[k] = r
          BY <1>2, <2>7, <3>1, <3>3
        <4> QED
          BY <2>4, <2>6, <3>3, <4>1
      <3> QED
        BY <3>2, <3>3
    <2>9. C[0] = 0 /\ C[Len(Z)] = x
      BY <1>1, <1>2, <2>1, <2>7
    <2> QED
      BY <2>7, <2>8, <2>9 DEF Opened
  <1> QED
    BY <1>2, <1>3, <1>4 DEF Z

\* codegen_block returns.
LEMMA ActsPop ==
    ASSUME NEW T, NEW A \in Seq(T), Len(A) > 0, NEW D, NEW h, NEW a, NEW cut, NEW n,
           ActsOK(D, h, a, cut, A), Opened(D, A, n),
           A[Len(A)].pc = A[Len(A)].hi, D[A[Len(A)].hi] \in Nat
    PROVE  LET Z == Prefix(A, Len(A) - 1)
           IN  /\ Z \in Seq(T) /\ Len(Z) = Len(A) - 1
               /\ ActsOK(D, h, a, cut, Z) /\ Opened(D, Z, n - 1)
  <1> DEFINE Z == Prefix(A, Len(A) - 1)
             m == Len(A)
  <1>1. m \in Nat /\ m \in 1..m /\ m - 1 \in 0..m
    BY LenProperties
  <1>2. /\ Z \in Seq(T) /\ Len(Z) = m - 1
        /\ \A k \in 1..m - 1 : Z[k] = A[k]
    BY <1>1, PrefixFacts
  <1> HIDE DEF Z
  <1>3. ActsOK(D, h, a, cut, Z)
    <2>1. ASSUME NEW k \in 1..Len(Z) PROVE ActOK(D, h, a, cut, Z[k])
      <3>1. k \in 1..m /\ Z[k] = A[k]
        BY <1>1, <1>2
      <3> QED
        BY <3>1 DEF ActsOK
    <2>2. ASSUME NEW k \in 1..Len(Z) - 1 PROVE Z[k + 1].hi < Z[k].pc
      <3>1. k \in 1..m - 1 /\ Z[k] = A[k] /\ Z[k + 1] = A[k + 1]
        BY <1>1, <1>2
      <3> QED
        BY <3>1 DEF ActsOK
    <2> QED
      BY <2>1, <2>2 DEF ActsOK
  <1>4. Opened(D, Z, n - 1)
    <2>1. PICK B \in [0..m -> Nat] :
              /\ B[0] = 0 /\ B[m] = n
              /\ \A k \in 1..m :
                   /\ B[k] = B[k - 1] + (D[A[k].pc] - D[A[k].hi]) + 1
                   /\ B[k] >= k
      BY DEF Opened
    <2> DEFINE C == [k \in 0..m - 1 |-> B[k]]
    <2>2. /\ C \in [0..Len(Z) -> Nat]
          /\ \A k \in 0..m - 1 : C[k] = B[k]
      BY <1>1, <1>2
    <2> HIDE DEF C
    <2>3. B[m - 1] = n - 1
      <3>1. B[m] = B[m - 1] + (D[A[m].pc] - D[A[m].hi]) + 1 /\ B[m - 1] \in Nat
        BY <1>1, <2>1
      <3> QED
        BY <2>1, <3>1
    <2>4. C[Len(Z)] = n - 1 /\ C[0] = 0
      BY <1>1, <1>2, <2>1, <2>2, <2>3
    <2>5. ASSUME NEW k \in 1..Len(Z)
          PROVE  /\ C[k] = C[k - 1] + (D[Z[k].pc] - D[Z[k].hi]) + 1
                 /\ C[k] >= k
      <3>0. m \in Nat /\ k \in 1..m - 1
        BY <1>1, <1>2
      <3>1. /\ k \in 1..m /\ k \in 0..m - 1 /\ k - 1 \in 0..m - 1
            /\ Z[k] = A[k]
        BY <1>2, <3>0
      <3> QED
        BY <2>1, <2>2, <3>1
    <2> QED
      BY <2>2, <2>4, <2>5 DEF Opened
  <1> QED
    BY <1>2, <1>3, <1>4 DEF Z

\* Every activation has opened a block that is still open.
LEMMA OpenedFacts ==
    ASSUME NEW T, NEW A \in Seq(T), NEW D, NEW n, Opened(D, A, n)
    PROVE  n \in Nat /\ n >= Len(A) /\ (Len(A) = 0 => n = 0)
  <1>1. Len(A) \in Nat
    BY LenProperties
  <1> QED
    BY <1>1 DEF Opened
-----------------------------------------------------------------------------
(* The steps of the code generator. *)

\* As long as the tree stays, its depths stay, and the activations may change.
LEMMA ShapeStays ==
    ASSUME NEW D, Tree(D, frames, heap, ast), Building \/ Whole(D, heap, ast),
           UNCHANGED <<ast, heap, frames, dropped>>, Building' \/ ~Building,
           ActsOK(D, heap, ast, dropped, acts'), Opened(D, acts', Len(opens'))
    PROVE  Shape'
  <1>1. /\ Tree(D, frames', heap', ast') /\ (Building' \/ Whole(D, heap', ast'))
        /\ ActsOK(D, heap', ast', dropped', acts') /\ Opened(D, acts', Len(opens'))
    OBVIOUS
  <1> QED
    BY <1>1 DEF Shape

\* What is read of the newest activation.
LEMMA ActFacts ==
    ASSUME ResolveTypeOK, GenTypeOK, acts # <<>>, NEW D, NEW f,
           Tree(D, f, heap, ast), ActsOK(D, heap, ast, dropped, acts)
    PROVE  /\ Len(acts) \in Nat /\ Len(acts) > 0 /\ acts \in Seq(ActType)
           /\ Len(ast) \in Nat /\ Len(heap) \in Nat
           /\ Act \in ActType /\ ActOK(D, heap, ast, dropped, Act)
           /\ Act.pc \in 1..Act.hi /\ Act.hi \in 1..Len(ast) /\ Act.pc \in 1..Len(ast)
           /\ AstTok \in TokenType
           /\ \A p \in 1..Len(ast) + 1 : D[p] \in Nat
           /\ D[Act.pc + 1] = CASE AstTok.op \in Openers -> D[Act.pc] + 1
                                [] AstTok.op = "end" -> D[Act.pc] - 1
                                [] OTHER -> D[Act.pc]
  <1>1. acts \in Seq(ActType) /\ ast \in Seq(TokenType)
    BY DEF GenTypeOK, ActType, ResolveTypeOK
  <1>2. Len(acts) \in Nat /\ Len(acts) > 0 /\ Len(acts) \in 1..Len(acts)
    BY <1>1, EmptySeq
  <1>3. Len(ast) \in Nat /\ Len(heap) \in Nat
    BY NatFacts
  <1>4. Act \in ActType
    BY <1>1, <1>2, ElementOfSeq DEF Act
  <1>5. ActOK(D, heap, ast, dropped, Act)
    BY <1>2 DEF ActsOK, Act
  <1>6. Act.pc \in 1..Act.hi /\ Act.hi \in 1..Len(ast)
    BY <1>5 DEF ActOK
  <1>7. Act.pc \in 1..Len(ast)
    BY <1>3, <1>6
  <1>8. AstTok \in TokenType
    BY <1>1, <1>7, ElementOfSeq DEF AstTok
  <1>9. \A p \in 1..Len(ast) + 1 : D[p] \in Nat
    BY DEF Tree, Nesting
  <1>10. D[Act.pc + 1] = CASE AstTok.op \in Openers -> D[Act.pc] + 1
                           [] AstTok.op = "end" -> D[Act.pc] - 1
                           [] OTHER -> D[Act.pc]
    BY <1>7 DEF Tree, Nesting, AstTok
  <1> QED
    BY <1>1, <1>2, <1>3, <1>4, <1>5, <1>6, <1>7, <1>8, <1>9, <1>10

\* The place after the one that was left, or after a deferred body there.
LEMMA LaterOK ==
    ASSUME ResolveTypeOK, ExitsUnwind, GenTypeOK, acts # <<>>, NEW D, NEW f,
           Tree(D, f, heap, ast), ActsOK(D, heap, ast, dropped, acts),
           Opened(D, acts, Len(opens)), NEW p \in Act.pc + 1..Act.hi
    PROVE  /\ Advance(p) \in Seq(ActType) /\ Advance(p) # <<>>
           /\ ActsOK(D, heap, ast, dropped, Advance(p))
           /\ Opened(D, Advance(p), Len(opens) + (D[p] - D[Act.pc]))
  <1> DEFINE r == Activation(p, Act.hi)
  <1>1. /\ Len(acts) \in Nat /\ Len(acts) > 0 /\ acts \in Seq(ActType)
        /\ Len(ast) \in Nat /\ ActOK(D, heap, ast, dropped, Act)
        /\ Act.pc \in 1..Act.hi /\ Act.hi \in 1..Len(ast) /\ Act.pc \in 1..Len(ast)
        /\ \A q \in 1..Len(ast) + 1 : D[q] \in Nat
    BY ActFacts
  <1>2. /\ p \in 1..Act.hi /\ p \in 1..Len(ast) + 1
        /\ Act.hi \in 1..Len(ast) + 1 /\ Act.pc \in 1..Len(ast) + 1
    BY <1>1
  <1>3. \A q \in p..Act.hi : q \in Act.pc..Act.hi
    BY <1>1
  <1>4. \A d \in 1..Len(heap) : heap[d].lo \in p..Act.hi => heap[d].hi < Act.hi
    BY <1>1, <1>3 DEF ActOK
  <1>5. \A q \in p..Act.hi : D[q] >= D[Act.hi]
    BY <1>1, <1>3 DEF ActOK
  <1>6. ast[Act.hi].op = "end"
    BY <1>1 DEF ActOK
  <1>7. /\ r \in ActType /\ r.pc = p /\ r.hi = Act.hi
        /\ ActOK(D, heap, ast, dropped, r)
    BY <1>1, <1>2, <1>4, <1>5, <1>6, ActivationOK, ZenonT(60)
  <1>8. Len(opens) \in Nat
    BY LenProperties DEF GenTypeOK
  <1>9. Act = acts[Len(acts)] /\ Advance(p) = [acts EXCEPT ![Len(acts)] = r]
    BY DEF Act, Advance
  <1>10. D[p] \in Nat /\ D[Act.hi] \in Nat /\ D[Act.pc] \in Nat
    BY <1>1, <1>2
  <1> HIDE DEF r
  <1>11. LET Z == [acts EXCEPT ![Len(acts)] = r]
         IN  /\ Z \in Seq(ActType) /\ Len(Z) = Len(acts)
             /\ ActsOK(D, heap, ast, dropped, Z)
             /\ Opened(D, Z, Len(opens) + (D[r.pc] - D[acts[Len(acts)].pc]))
    BY <1>1, <1>7, <1>8, <1>9, <1>10, ActsAdvance
  <1>12. Advance(p) # <<>>
    <2>1. Len(Advance(p)) > 0
      BY <1>1, <1>9, <1>11
    <2> QED
      BY <2>1, EmptySeq
  <1> QED
    BY <1>7, <1>9, <1>11, <1>12
\* One token more of C, and the blocks that are open before it.
LEMMA AppendTyped ==
    ASSUME GenTypeOK, NEW t \in CTokType, out' = Append(out, t)
    PROVE  /\ out' \in Seq(CTokType) /\ Len(out') = Len(out) + 1
           /\ Len(out) \in Nat /\ Len(opens) \in Nat
           /\ opens \in Seq(1..Len(out'))
  <1>1. out \in Seq(CTokType) /\ opens \in Seq(1..Len(out))
    BY DEF GenTypeOK
  <1>2. out' \in Seq(CTokType) /\ Len(out') = Len(out) + 1
    BY <1>1, AppendProperties
  <1>3. Len(out) \in Nat /\ Len(opens) \in Nat
    BY <1>1, LenProperties
  <1>4. 1..Len(out) \subseteq 1..Len(out')
    BY <1>2, <1>3
  <1> QED
    BY <1>1, <1>2, <1>3, <1>4, SeqMonotonic

\* One more C block that is open.
LEMMA OpenCTyped ==
    ASSUME GenTypeOK, NEW op \in COpeners, NEW defer \in Nat, NEW src \in Nat,
           OpenC(op, defer, src)
    PROVE  /\ out' \in Seq(CTokType) /\ opens' \in Seq(1..Len(out'))
           /\ Len(opens') = Len(opens) + 1 /\ Len(opens) \in Nat
  <1>1. CTok(op, defer, 0, src) \in CTokType
    BY DEF CTok, CTokType
  <1>2. out' = Append(out, CTok(op, defer, 0, src)) /\ opens' = Append(opens, Len(out) + 1)
    BY DEF OpenC
  <1>3. /\ out' \in Seq(CTokType) /\ Len(out') = Len(out) + 1
        /\ Len(out) \in Nat /\ Len(opens) \in Nat /\ opens \in Seq(1..Len(out'))
    BY <1>1, <1>2, AppendTyped
  <1>4. Len(out) + 1 \in 1..Len(out')
    BY <1>3
  <1> QED
    BY <1>2, <1>3, <1>4, AppendProperties

\* The tree and what the resolver has recorded in it stay as they are.
LEMMA LaterInv ==
    ASSUME IInv, UNCHANGED <<count, ast, heap, frames, resolver, history>>, ~Building,
           phase' \in {"resolved", "codegen", "crash", "compiled", "run"}
    PROVE  IInv' /\ ~Building'
  <1>1. phase' # "resolve" /\ phase' # "fatal"
    OBVIOUS
  <1>2. UNCHANGED <<current_defer, current_loop_defer, is_within_loop, live, loop_at, dropped>>
    BY DEF resolver, history
  <1>3. ResolveTypeOK'
    BY <1>2 DEF IInv, ResolveTypeOK
  <1>4. FramesOK'
    <2>1. \A k \in 1..Len(frames) : FrameOK(k)' <=> FrameOK(k)
      BY <1>2 DEF FrameOK, LoopOf
    <2> QED
      BY <1>1, <2>1 DEF IInv, FramesOK, LoopIsTracked
  <1>5. ListIsScope' /\ SavesOK'
    BY <1>1 DEF ListIsScope, SavesOK
  <1>6. ExitsUnwind'
    BY <1>2 DEF IInv, ExitsUnwind, Unwinds
  <1> QED
    BY <1>1, <1>3, <1>4, <1>5, <1>6 DEF IInv, Building

\* codegen begins with one activation for the whole function.
LEMMA GenFunctionStep ==
    ASSUME IInv, GenInv, GenFunction
    PROVE  GenInv'
  <1> DEFINE r == Activation(2, Len(ast))
  <1>1. /\ phase = "resolved" /\ phase' = "codegen" /\ acts' = <<r>> /\ OpenC("fn", Null, 1)
        /\ UNCHANGED <<count, ast, heap, frames, resolver, history>>
    BY DEF GenFunction
  <1>2. acts = <<>> /\ ~Building
    BY <1>1 DEF GenInv, Idle, Building
  <1>3. PICK D : /\ Tree(D, frames, heap, ast) /\ Whole(D, heap, ast)
                 /\ ActsOK(D, heap, ast, dropped, acts) /\ Opened(D, acts, Len(opens))
    BY <1>2 DEF GenInv, Shape
  <1>4. ResolveTypeOK /\ ExitsUnwind /\ Len(ast) \in Nat /\ GenTypeOK
    BY NatFacts DEF IInv, GenInv
  <1>5. /\ out' \in Seq(CTokType) /\ opens' \in Seq(1..Len(out'))
        /\ Len(opens') = Len(opens) + 1 /\ Len(opens) \in Nat
    BY <1>1, <1>4, OpenCTyped DEF COpeners, Null
  <1>6. D[2] = 1 /\ D[Len(ast)] = 1
    <2>1. 1 \in 1..Len(ast) /\ Len(ast) \in 1..Len(ast) /\ 2 \in 2..Len(ast) /\ 1 + 1 = 2
      BY <1>3, <1>4 DEF Whole
    <2>2. D[2] >= 1 /\ D[Len(ast) + 1] = 0 /\ ast[Len(ast)].op = "end" /\ D[1] = 0
      BY <1>3, <2>1 DEF Whole, Tree, Nesting
    <2>3. D[1 + 1] = D[1] + 1 \/ D[1 + 1] = D[1] - 1 \/ D[1 + 1] = D[1]
      BY <1>3, <2>1 DEF Tree, Nesting
    <2>4. D[Len(ast)] \in Nat
      BY <1>3, <1>4, <2>1 DEF Tree, Nesting
    <2>5. D[Len(ast) + 1] = D[Len(ast)] - 1
      BY <1>3, <2>1, <2>2 DEF Tree, Nesting, Openers
    <2>6. D[2] = 1
      BY <2>1, <2>2, <2>3
    <2>7. D[Len(ast)] = 1
      BY <2>2, <2>4, <2>5
    <2> QED
      BY <2>6, <2>7
  <1>7. /\ r \in ActType /\ r.pc = 2 /\ r.hi = Len(ast)
        /\ ActOK(D, heap, ast, dropped, r)
    <2>1. /\ Len(ast) \in 1..Len(ast) /\ 2 \in 1..Len(ast) /\ ast[Len(ast)].op = "end"
          /\ \A d \in 1..Len(heap) : heap[d].hi < Len(ast)
          /\ \A q \in 2..Len(ast) : D[q] >= D[Len(ast)]
      BY <1>3, <1>4, <1>6 DEF Whole
    <2> QED
      BY <1>3, <1>4, <2>1, ActivationOK
  <1> HIDE DEF r
  <1>8. /\ ActsOK(D, heap, ast, dropped, acts')
        /\ Opened(D, acts', Len(opens'))
        /\ acts' \in Seq(ActType) /\ acts' # <<>>
    <2>1. acts \in Seq(ActType) /\ Len(acts) = 0 /\ ~(Len(acts) > 0)
      BY <1>2, EmptySeq
    <2>2. D[r.pc] = D[r.hi] /\ D[r.hi] \in Nat
      BY <1>6, <1>7
    <2>3. /\ ActsOK(D, heap, ast, dropped, Append(acts, r))
          /\ Opened(D, Append(acts, r), Len(opens) + 1)
      BY <1>3, <1>5, <1>7, <2>1, <2>2, ActsPush
    <2>4. Append(acts, r) \in Seq(ActType) /\ Len(Append(acts, r)) = Len(acts) + 1
      BY <1>7, <2>1, AppendProperties
    <2>5. acts' = Append(acts, r)
      BY <1>1, <1>2
    <2>6. acts' # <<>>
      BY <1>1
    <2> QED
      BY <1>5, <2>3, <2>4, <2>5, <2>6
  <1>9. ~Building' /\ IInv'
    BY <1>1, <1>2, LaterInv
  <1>10. Shape'
    <2>1. UNCHANGED <<ast, heap, frames, dropped>>
      BY <1>1 DEF history
    <2> QED
      BY <1>2, <1>3, <1>8, <1>9, <2>1, ShapeStays
  <1>11. GenTypeOK'
    BY <1>1, <1>5, <1>8 DEF GenTypeOK, ActType
  <1> QED
    BY <1>1, <1>8, <1>10, <1>11 DEF GenInv, NoNullDefer, Idle
\* A step of the code generator inside a function.
LEMMA InsideFacts ==
    ASSUME IInv, GenInv, phase = "codegen"
    PROVE  /\ ResolveTypeOK /\ ExitsUnwind /\ GenTypeOK /\ acts # <<>> /\ ~Building
           /\ \E D : /\ Tree(D, frames, heap, ast) /\ Whole(D, heap, ast)
                     /\ ActsOK(D, heap, ast, dropped, acts)
                     /\ Opened(D, acts, Len(opens))
  BY DEF IInv, GenInv, Shape, Building, Idle

\* The invariant after a step that stays inside the function.
LEMMA InsideNext ==
    ASSUME IInv, GenInv, phase = "codegen", phase' = "codegen",
           UNCHANGED <<ast, heap, frames, dropped>>,
           acts' \in Seq(ActType), acts' # <<>>,
           out' \in Seq(CTokType), opens' \in Seq(1..Len(out')),
           NEW D, Tree(D, frames, heap, ast), Whole(D, heap, ast),
           ActsOK(D, heap, ast, dropped, acts'), Opened(D, acts', Len(opens'))
    PROVE  GenInv'
  <1>1. ~Building /\ ~Building'
    BY DEF Building
  <1>2. Shape'
    BY <1>1, ShapeStays
  <1>3. GenTypeOK'
    BY DEF GenTypeOK, ActType
  <1> QED
    BY <1>2, <1>3 DEF GenInv, NoNullDefer, Idle

\* The generator enters an if or a loop: a C block more, the token after it.
LEMMA GenOpenStep ==
    ASSUME IInv, GenInv, GenOpen
    PROVE  GenInv'
  <1>1. /\ phase = "codegen" /\ AstTok.op \in {"if", "for"}
        /\ OpenC(AstTok.op, Null, Act.pc) /\ acts' = Advance(Act.pc + 1)
        /\ UNCHANGED <<phase, ast, heap, frames, dropped>>
    BY DEF GenOpen, vars, history
  <1>2. /\ ResolveTypeOK /\ ExitsUnwind /\ GenTypeOK /\ acts # <<>>
        /\ \E D : /\ Tree(D, frames, heap, ast) /\ Whole(D, heap, ast)
                  /\ ActsOK(D, heap, ast, dropped, acts) /\ Opened(D, acts, Len(opens))
    BY <1>1, InsideFacts
  <1>3. PICK D : /\ Tree(D, frames, heap, ast) /\ Whole(D, heap, ast)
                 /\ ActsOK(D, heap, ast, dropped, acts) /\ Opened(D, acts, Len(opens))
    BY <1>2
  <1>4. /\ Len(ast) \in Nat /\ Act.pc \in 1..Act.hi /\ Act.hi \in 1..Len(ast)
        /\ Act.pc \in 1..Len(ast) /\ ActOK(D, heap, ast, dropped, Act)
        /\ \A p \in 1..Len(ast) + 1 : D[p] \in Nat
        /\ D[Act.pc + 1] = CASE AstTok.op \in Openers -> D[Act.pc] + 1
                             [] AstTok.op = "end" -> D[Act.pc] - 1
                             [] OTHER -> D[Act.pc]
    BY <1>2, <1>3, ActFacts
  <1>5. Act.pc + 1 \in Act.pc + 1..Act.hi
    <2>1. ast[Act.hi].op = "end" /\ ast[Act.pc].op # "end"
      BY <1>1, <1>4 DEF ActOK, AstTok
    <2>2. Act.pc # Act.hi
      BY <2>1
    <2> QED
      BY <1>4, <2>2
  <1>6. D[Act.pc + 1] = D[Act.pc] + 1 /\ D[Act.pc] \in Nat
    BY <1>1, <1>4 DEF Openers
  <1>7. /\ acts' \in Seq(ActType) /\ acts' # <<>>
        /\ ActsOK(D, heap, ast, dropped, acts')
        /\ Opened(D, acts', Len(opens) + (D[Act.pc + 1] - D[Act.pc]))
    BY <1>1, <1>2, <1>3, <1>5, LaterOK
  <1>8. /\ out' \in Seq(CTokType) /\ opens' \in Seq(1..Len(out'))
        /\ Len(opens') = Len(opens) + 1 /\ Len(opens) \in Nat
    <2>1. AstTok.op \in COpeners /\ Null \in Nat /\ Act.pc \in Nat
      BY <1>1, <1>4 DEF COpeners, Null
    <2> QED
      BY <1>1, <1>2, <2>1, OpenCTyped
  <1>9. Len(opens) + (D[Act.pc + 1] - D[Act.pc]) = Len(opens')
    BY <1>6, <1>8
  <1> QED
    BY <1>1, <1>3, <1>7, <1>8, <1>9, InsideNext

\* The generator passes a defer, whose body is one stretch of the tree.
LEMMA GenDeferStep ==
    ASSUME IInv, GenInv, GenDefer
    PROVE  GenInv'
  <1>1. /\ phase = "codegen" /\ AstTok.op = "defer"
        /\ UNCHANGED <<phase, ast, heap, frames, dropped, opens>>
    BY DEF GenDefer, vars, history
  <1>2. /\ ResolveTypeOK /\ ExitsUnwind /\ GenTypeOK /\ acts # <<>>
        /\ \E D : /\ Tree(D, frames, heap, ast) /\ Whole(D, heap, ast)
                  /\ ActsOK(D, heap, ast, dropped, acts) /\ Opened(D, acts, Len(opens))
    BY <1>1, InsideFacts
  <1>3. PICK D : /\ Tree(D, frames, heap, ast) /\ Whole(D, heap, ast)
                 /\ ActsOK(D, heap, ast, dropped, acts) /\ Opened(D, acts, Len(opens))
    BY <1>2
  <1>4. /\ Len(ast) \in Nat /\ Act.pc \in 1..Act.hi /\ Act.hi \in 1..Len(ast)
        /\ Act.pc \in 1..Len(ast) /\ ActOK(D, heap, ast, dropped, Act)
        /\ \A p \in 1..Len(ast) + 1 : D[p] \in Nat
    BY <1>2, <1>3, ActFacts
  <1>5. PICK d \in 1..Len(heap) :
            /\ heap[d].lo = Act.pc
            /\ out' = Append(out, CTok("reach", d, 0, Act.pc))
            /\ acts' = Advance(heap[d].hi + 1)
    BY DEF GenDefer
  <1>6. heap[d].hi + 1 \in Act.pc + 1..Act.hi
    <2>1. heap[d].hi < Act.hi
      BY <1>4, <1>5 DEF ActOK
    <2>2. heap[d].lo < heap[d].hi /\ heap[d].hi \in 1..Len(ast)
      BY <1>3 DEF Tree, BodiesOK
    <2> QED
      BY <1>4, <1>5, <2>1, <2>2
  <1>7. D[heap[d].hi + 1] = D[Act.pc] /\ D[Act.pc] \in Nat
    BY <1>3, <1>4, <1>5 DEF Tree, DefersNest
  <1>8. /\ acts' \in Seq(ActType) /\ acts' # <<>>
        /\ ActsOK(D, heap, ast, dropped, acts')
        /\ Opened(D, acts', Len(opens) + (D[heap[d].hi + 1] - D[Act.pc]))
    BY <1>2, <1>3, <1>5, <1>6, LaterOK
  <1>9. /\ out' \in Seq(CTokType) /\ opens \in Seq(1..Len(out')) /\ Len(opens) \in Nat
    <2>1. CTok("reach", d, 0, Act.pc) \in CTokType
      BY <1>4 DEF CTok, CTokType
    <2> QED
      BY <1>2, <1>5, <2>1, AppendTyped
  <1>10. Len(opens) + (D[heap[d].hi + 1] - D[Act.pc]) = Len(opens')
    BY <1>1, <1>7, <1>9
  <1>11. opens' \in Seq(1..Len(out'))
    BY <1>1, <1>9
  <1> QED
    BY <1>1, <1>3, <1>8, <1>9, <1>10, <1>11, InsideNext
\* The defer that codegen_defers is at, and what it goes on to.
LEMMA CurrentFacts ==
    ASSUME ResolveTypeOK, ExitsUnwind, GenTypeOK, acts # <<>>, NEW D, NEW f,
           Tree(D, f, heap, ast), ActsOK(D, heap, ast, dropped, acts),
           AstTok.op \in Exits, Act.current # AstTok.end, Act.current # Null
    PROVE  /\ Act.current \in 1..Len(heap)
           /\ heap[Act.current].hi < Act.pc
           /\ [Act EXCEPT !.current = heap[Act.current].prev] \in ActType
           /\ ActOK(D, heap, ast, dropped, [Act EXCEPT !.current = heap[Act.current].prev])
  <1> DEFINE d == Act.current
             x == heap[d].prev
             r == [Act EXCEPT !.current = x]
  <1>1. /\ Len(ast) \in Nat /\ Len(heap) \in Nat
        /\ Act \in ActType /\ ActOK(D, heap, ast, dropped, Act)
        /\ Act.pc \in 1..Len(ast)
    BY ActFacts
  <1>2. d \in 1..Len(heap) /\ heap[d].hi < Act.pc
    BY <1>1 DEF ActOK, Null
  <1>3. x \in 0..Len(heap) /\ x < d /\ heap[d] \in DeferType
    <2>1. heap[d] \in DeferType
      BY <1>2, NatFacts
    <2>2. x \in Nat /\ x < d
      BY <1>2, <2>1 DEF DeferType, ResolveTypeOK
    <2> QED
      BY <1>1, <1>2, <2>1, <2>2
  <1>4. r \in ActType /\ r.pc = Act.pc /\ r.hi = Act.hi /\ r.current = x
    BY <1>1, <1>3 DEF ActType
  <1>5. x # Null => heap[x].hi < Act.pc
    <2> SUFFICES ASSUME x # Null PROVE heap[x].hi < Act.pc
      OBVIOUS
    <2>1. x \in 1..Len(heap)
      BY <1>1, <1>3 DEF Null
    <2>2. heap[x].hi < heap[d].hi
      BY <1>2, <1>3, <2>1 DEF Tree, BodiesNest
    <2>3. heap[x].hi \in 1..Len(ast) /\ heap[d].hi \in 1..Len(ast)
      BY <1>2, <2>1 DEF Tree, BodiesOK
    <2> QED
      BY <1>1, <1>2, <2>2, <2>3
  <1>6. ASSUME ~dropped
        PROVE  \/ x = ast[Act.pc].end
               \/ \E i \in 1..Len(ast[Act.pc].due) : x = ast[Act.pc].due[i]
    <2> DEFINE due == ast[Act.pc].due
    <2>1. Unwinds(heap, ast[Act.pc].begin, ast[Act.pc].end, due)
      BY <1>1, <1>6 DEF ExitsUnwind, AstTok
    <2>2. PICK i \in 1..Len(due) : d = due[i]
      BY <1>1, <1>6 DEF ActOK, AstTok
    <2>3. Len(due) \in Nat
      <3>1. AstTok \in TokenType
        BY ActFacts
      <3>2. due \in Seq(Nat)
        BY <3>1 DEF TokenType, AstTok
      <3> QED
        BY <3>2, LenProperties
    <2>4. x = IF i = 1 THEN ast[Act.pc].end ELSE due[i - 1]
      BY <2>1, <2>2 DEF Unwinds
    <2>5. i # 1 => i - 1 \in 1..Len(due)
      BY <2>3
    <2> QED
      BY <2>4, <2>5
  <1> HIDE DEF x, r
  <1>7. ActOK(D, heap, ast, dropped, r)
    BY <1>1, <1>3, <1>4, <1>5, <1>6 DEF ActOK
  <1> QED
    BY <1>2, <1>4, <1>7 DEF r, x

\* The deferred body that codegen_defers generates.
LEMMA BodyOK ==
    ASSUME ResolveTypeOK, ExitsUnwind, NEW D, NEW f, Tree(D, f, heap, ast),
           NEW d \in 1..Len(heap)
    PROVE  LET r == Activation(heap[d].lo + 1, heap[d].hi)
           IN  /\ r \in ActType /\ r.hi = heap[d].hi
               /\ ActOK(D, heap, ast, dropped, r)
               /\ D[r.pc] = D[r.hi] /\ D[r.hi] \in Nat
  <1> DEFINE lo == heap[d].lo
             hi == heap[d].hi
  <1>1. /\ Len(ast) \in Nat /\ lo \in 1..Len(ast) /\ hi \in 1..Len(ast) /\ lo < hi
        /\ ast[hi].op = "end"
    BY NatFacts DEF Tree, BodiesOK
  <1>2. lo + 1 \in 1..hi /\ lo + 1 \in lo + 1..hi /\ hi \in lo + 1..hi /\ hi + 1 \in 1..Len(ast) + 1
    BY <1>1
  <1>3. \A p \in 1..Len(ast) + 1 : D[p] \in Nat
    BY DEF Tree, Nesting
  <1>4. D[hi + 1] = D[lo] /\ \A p \in lo + 1..hi : D[p] > D[lo]
    BY DEF Tree, DefersNest
  <1>5. D[hi] = D[lo] + 1 /\ D[lo] \in Nat
    <2>1. D[hi + 1] = D[hi] - 1
      BY <1>1 DEF Tree, Nesting, Openers
    <2>2. D[hi] \in Nat /\ D[lo] \in Nat
      BY <1>1, <1>3
    <2> QED
      BY <1>4, <2>1, <2>2
  <1>6. D[lo + 1] = D[lo] + 1
    <2>1. D[lo + 1] = D[lo] + 1 \/ D[lo + 1] = D[lo] - 1 \/ D[lo + 1] = D[lo]
      BY <1>1 DEF Tree, Nesting
    <2>2. D[lo + 1] > D[lo]
      BY <1>2, <1>4
    <2> QED
      BY <1>5, <2>1, <2>2
  <1>7. \A e \in 1..Len(heap) : heap[e].lo \in lo + 1..hi => heap[e].hi < hi
    BY DEF Tree, BodiesNest
  <1>8. \A q \in lo + 1..hi : D[q] >= D[hi]
    <2> SUFFICES ASSUME NEW q \in lo + 1..hi PROVE D[q] >= D[hi]
      OBVIOUS
    <2>1. q \in 1..Len(ast) + 1 /\ D[q] > D[lo]
      BY <1>1, <1>4
    <2>2. D[q] \in Nat
      BY <1>3, <2>1
    <2> QED
      BY <1>5, <2>1, <2>2
  <1> DEFINE r == Activation(lo + 1, hi)
  <1>9. /\ r \in ActType /\ r.pc = lo + 1 /\ r.hi = hi
        /\ ActOK(D, heap, ast, dropped, r)
    BY <1>1, <1>2, <1>7, <1>8, ActivationOK, ZenonT(60)
  <1> HIDE DEF r
  <1>10. D[r.pc] = D[r.hi] /\ D[r.hi] \in Nat
    BY <1>5, <1>6, <1>9
  <1> QED
    BY <1>9, <1>10 DEF r

\* At a way out the generator prints a deferred body: an activation inside
\* another, which ends earlier in the tree.
LEMMA GenUnwindStep ==
    ASSUME IInv, GenInv, GenUnwind
    PROVE  GenInv'
  <1> DEFINE d == Act.current
             r == [Act EXCEPT !.current = heap[d].prev]
             Z == [acts EXCEPT ![Len(acts)] = r]
             b == Activation(heap[d].lo + 1, heap[d].hi)
  <1>1. /\ phase = "codegen" /\ AstTok.op \in Exits
        /\ Act.current # AstTok.end /\ Act.current # Null
        /\ OpenC("run", d, heap[d].lo)
        /\ UNCHANGED <<phase, ast, heap, frames, dropped>>
    BY DEF GenUnwind, Unwinding, vars, history
  <1>2. acts' = Append(Z, b)
    BY DEF GenUnwind, Act
  <1>3. /\ ResolveTypeOK /\ ExitsUnwind /\ GenTypeOK /\ acts # <<>>
        /\ \E D : /\ Tree(D, frames, heap, ast) /\ Whole(D, heap, ast)
                  /\ ActsOK(D, heap, ast, dropped, acts) /\ Opened(D, acts, Len(opens))
    BY <1>1, InsideFacts
  <1>4. PICK D : /\ Tree(D, frames, heap, ast) /\ Whole(D, heap, ast)
                 /\ ActsOK(D, heap, ast, dropped, acts) /\ Opened(D, acts, Len(opens))
    BY <1>3
  <1>5. /\ Len(acts) \in Nat /\ Len(acts) > 0 /\ acts \in Seq(ActType) /\ Len(ast) \in Nat
        /\ Act.pc \in 1..Act.hi /\ Act.hi \in 1..Len(ast) /\ Act.pc \in 1..Len(ast)
        /\ Act \in ActType /\ \A p \in 1..Len(ast) + 1 : D[p] \in Nat
    BY <1>3, <1>4, ActFacts
  <1>6. /\ d \in 1..Len(heap) /\ heap[d].hi < Act.pc
        /\ r \in ActType /\ ActOK(D, heap, ast, dropped, r)
    BY <1>1, <1>3, <1>4, CurrentFacts
  <1>7. /\ b \in ActType /\ b.hi = heap[d].hi /\ ActOK(D, heap, ast, dropped, b)
        /\ D[b.pc] = D[b.hi] /\ D[b.hi] \in Nat
    BY <1>3, <1>4, <1>6, BodyOK
  <1>8. r.pc = Act.pc /\ r.hi = Act.hi /\ Act = acts[Len(acts)]
    BY <1>5 DEF ActType, Act
  <1>9. /\ out' \in Seq(CTokType) /\ opens' \in Seq(1..Len(out'))
        /\ Len(opens') = Len(opens) + 1 /\ Len(opens) \in Nat
    <2>1. "run" \in COpeners /\ d \in Nat /\ heap[d].lo \in Nat
      BY <1>4, <1>6 DEF COpeners, Tree, BodiesOK
    <2> QED
      BY <1>1, <1>3, <2>1, OpenCTyped
  <1> HIDE DEF r, b, d
  <1>10. /\ Z \in Seq(ActType) /\ Len(Z) = Len(acts) /\ Z[Len(acts)] = r
         /\ ActsOK(D, heap, ast, dropped, Z)
         /\ Opened(D, Z, Len(opens))
    <2>1. /\ D[r.hi] \in Nat /\ D[r.pc] \in Nat /\ D[acts[Len(acts)].pc] \in Nat
          /\ r.hi = acts[Len(acts)].hi
          /\ D[r.pc] - D[acts[Len(acts)].pc] = 0
      BY <1>5, <1>8
    <2>2. /\ Z \in Seq(ActType) /\ Len(Z) = Len(acts) /\ Z[Len(acts)] = r
          /\ ActsOK(D, heap, ast, dropped, Z)
          /\ Opened(D, Z, Len(opens) + (D[r.pc] - D[acts[Len(acts)].pc]))
      BY <1>4, <1>5, <1>6, <1>9, <2>1, ActsAdvance
    <2> QED
      BY <1>9, <2>1, <2>2
  <1> HIDE DEF Z
  <1>11. /\ ActsOK(D, heap, ast, dropped, Append(Z, b))
         /\ Opened(D, Append(Z, b), Len(opens) + 1)
    <2>1. b.hi < Z[Len(Z)].pc
      BY <1>6, <1>7, <1>8, <1>10
    <2> QED
      BY <1>7, <1>9, <1>10, <2>1, ActsPush
  <1>12. acts' \in Seq(ActType) /\ acts' # <<>>
    <2>1. Append(Z, b) \in Seq(ActType) /\ Len(Append(Z, b)) = Len(Z) + 1
      BY <1>7, <1>10, AppendProperties
    <2>2. Len(Append(Z, b)) # 0
      BY <1>5, <1>10, <2>1
    <2> QED
      BY <1>2, <2>1, <2>2, EmptySeq
  <1> QED
    BY <1>1, <1>2, <1>4, <1>9, <1>11, <1>12, InsideNext

\* Only a list that a when has cut leads to NULL.
LEMMA GenNullStep ==
    ASSUME IInv, GenInv, GenNull
    PROVE  GenInv'
  <1>1. /\ phase = "codegen" /\ phase' = "crash" /\ AstTok.op \in Exits
        /\ Act.current # AstTok.end /\ Act.current = Null
        /\ UNCHANGED <<ast, heap, frames, dropped, acts, out, opens>>
    BY DEF GenNull, Unwinding, history, codegen
  <1>2. /\ ResolveTypeOK /\ ExitsUnwind /\ GenTypeOK /\ acts # <<>> /\ ~Building
        /\ \E D : /\ Tree(D, frames, heap, ast) /\ Whole(D, heap, ast)
                  /\ ActsOK(D, heap, ast, dropped, acts) /\ Opened(D, acts, Len(opens))
    BY <1>1, InsideFacts
  <1>3. PICK D : /\ Tree(D, frames, heap, ast) /\ Whole(D, heap, ast)
                 /\ ActsOK(D, heap, ast, dropped, acts) /\ Opened(D, acts, Len(opens))
    BY <1>2
  <1>4. ActOK(D, heap, ast, dropped, Act) /\ Act.pc \in 1..Len(ast)
    BY <1>2, <1>3, ActFacts
  <1>5. dropped
    <2> SUFFICES ASSUME ~dropped PROVE FALSE
      BY <1>2 DEF ResolveTypeOK
    <2>1. PICK i \in 1..Len(ast[Act.pc].due) : Act.current = ast[Act.pc].due[i]
      BY <1>1, <1>4 DEF ActOK, AstTok
    <2>2. Unwinds(heap, ast[Act.pc].begin, ast[Act.pc].end, ast[Act.pc].due)
      BY <1>1, <1>2, <1>4 DEF ExitsUnwind, AstTok
    <2>3. Act.current \in 1..Len(heap)
      BY <2>1, <2>2 DEF Unwinds
    <2> QED
      BY <1>1, <2>3 DEF Null
  <1>6. ~Building' /\ Building' = FALSE
    BY <1>1 DEF Building
  <1>7. Shape'
    <2>1. ActsOK(D, heap, ast, dropped, acts') /\ Opened(D, acts', Len(opens'))
      BY <1>1, <1>3
    <2> QED
      BY <1>1, <1>2, <1>3, <2>1, ShapeStays
  <1>8. GenTypeOK'
    BY <1>1, <1>2 DEF GenTypeOK
  <1> QED
    BY <1>1, <1>2, <1>5, <1>7, <1>8 DEF GenInv, NoNullDefer, Idle
\* The C that a way out of a block comes down to.
LEMMA ExitTyped ==
    ASSUME GenTypeOK, AstTok.op \in Exits, Act.pc \in Nat, Len(opens) > 0,
           IF AstTok.op = "end"
             THEN /\ out' = Append(out, CTok("end", Null, opens[Len(opens)], Act.pc))
                  /\ opens' = Prefix(opens, Len(opens) - 1)
             ELSE /\ out' = Append(out, CTok(AstTok.op, Null, 0, Act.pc))
                  /\ UNCHANGED opens
    PROVE  /\ out' \in Seq(CTokType) /\ opens' \in Seq(1..Len(out')) /\ Len(opens) \in Nat
           /\ Len(opens') = IF AstTok.op = "end" THEN Len(opens) - 1 ELSE Len(opens)
  <1> DEFINE t == IF AstTok.op = "end" THEN CTok("end", Null, opens[Len(opens)], Act.pc)
                                       ELSE CTok(AstTok.op, Null, 0, Act.pc)
  <1>1. opens \in Seq(1..Len(out)) /\ Len(opens) \in Nat /\ Len(opens) \in 1..Len(opens)
    BY LenProperties DEF GenTypeOK
  <1>2. opens[Len(opens)] \in Nat
    <2>1. opens[Len(opens)] \in 1..Len(out)
      BY <1>1, ElementOfSeq
    <2> QED
      BY <2>1
  <1>3. t \in CTokType /\ out' = Append(out, t)
    BY <1>2 DEF CTok, CTokType, Null, Exits
  <1> HIDE DEF t
  <1>4. out' \in Seq(CTokType) /\ opens \in Seq(1..Len(out'))
    BY <1>3, AppendTyped
  <1>5. CASE AstTok.op = "end"
    <2>1. Len(opens) - 1 \in 0..Len(opens)
      BY <1>1
    <2>2. Prefix(opens, Len(opens) - 1) \in Seq(1..Len(out'))
      BY <1>4, <2>1, PrefixFacts
    <2>3. Len(Prefix(opens, Len(opens) - 1)) = Len(opens) - 1
      BY <1>4, <2>1, PrefixFacts
    <2> QED
      BY <1>1, <1>4, <1>5, <2>2, <2>3
  <1>6. CASE AstTok.op # "end"
    BY <1>1, <1>4, <1>6
  <1> QED
    BY <1>5, <1>6

\* What is due is printed; the way out follows, and at the end of its block an
\* activation ends.
LEMMA GenExitStep ==
    ASSUME IInv, GenInv, GenExit
    PROVE  GenInv'
  <1>1. /\ phase = "codegen" /\ AstTok.op \in Exits
        /\ IF AstTok.op = "end"
             THEN /\ out' = Append(out, CTok("end", Null, opens[Len(opens)], Act.pc))
                  /\ opens' = Prefix(opens, Len(opens) - 1)
             ELSE /\ out' = Append(out, CTok(AstTok.op, Null, 0, Act.pc))
                  /\ UNCHANGED opens
        /\ acts' = IF Act.pc = Act.hi THEN Prefix(acts, Len(acts) - 1) ELSE Advance(Act.pc + 1)
        /\ phase' = IF acts' = <<>> THEN "compiled" ELSE phase
        /\ UNCHANGED <<ast, heap, frames, dropped>>
    BY DEF GenExit, Unwinding, history
  <1>2. /\ ResolveTypeOK /\ ExitsUnwind /\ GenTypeOK /\ acts # <<>> /\ ~Building
        /\ \E D : /\ Tree(D, frames, heap, ast) /\ Whole(D, heap, ast)
                  /\ ActsOK(D, heap, ast, dropped, acts) /\ Opened(D, acts, Len(opens))
    BY <1>1, InsideFacts
  <1>3. PICK D : /\ Tree(D, frames, heap, ast) /\ Whole(D, heap, ast)
                 /\ ActsOK(D, heap, ast, dropped, acts) /\ Opened(D, acts, Len(opens))
    BY <1>2
  <1>4. /\ Len(acts) \in Nat /\ Len(acts) > 0 /\ acts \in Seq(ActType) /\ Len(ast) \in Nat
        /\ Act.pc \in 1..Act.hi /\ Act.hi \in 1..Len(ast) /\ Act.pc \in 1..Len(ast)
        /\ ActOK(D, heap, ast, dropped, Act)
        /\ \A p \in 1..Len(ast) + 1 : D[p] \in Nat
        /\ D[Act.pc + 1] = CASE AstTok.op \in Openers -> D[Act.pc] + 1
                             [] AstTok.op = "end" -> D[Act.pc] - 1
                             [] OTHER -> D[Act.pc]
    BY <1>2, <1>3, ActFacts
  <1>5. Len(opens) > 0
    <2>1. Len(opens) \in Nat /\ Len(opens) >= Len(acts)
      BY <1>3, <1>4, OpenedFacts
    <2> QED
      BY <1>4, <2>1
  <1>6. /\ out' \in Seq(CTokType) /\ opens' \in Seq(1..Len(out')) /\ Len(opens) \in Nat
        /\ Len(opens') = IF AstTok.op = "end" THEN Len(opens) - 1 ELSE Len(opens)
    <2>1. Act.pc \in Nat
      BY <1>4
    <2> QED
      BY <1>1, <1>2, <1>5, <2>1, ExitTyped
  <1>7. CASE Act.pc = Act.hi
    <2>1. AstTok.op = "end" /\ Len(opens') = Len(opens) - 1
      BY <1>4, <1>6, <1>7 DEF ActOK, AstTok
    <2>2. Act = acts[Len(acts)] /\ D[acts[Len(acts)].hi] \in Nat
      BY <1>4 DEF Act
    <2>3. /\ acts' \in Seq(ActType)
          /\ ActsOK(D, heap, ast, dropped, acts') /\ Opened(D, acts', Len(opens) - 1)
      BY <1>1, <1>3, <1>4, <1>7, <2>2, ActsPop
    <2>4. CASE acts' # <<>>
      BY <1>1, <1>3, <1>6, <2>1, <2>3, <2>4, InsideNext
    <2>5. CASE acts' = <<>>
      <3>1. phase' = "compiled" /\ ~Building'
        BY <1>1, <2>5 DEF Building
      <3>2. Shape'
        BY <1>1, <1>2, <1>3, <2>1, <2>3, <3>1, ShapeStays
      <3>3. GenTypeOK'
        BY <1>1, <1>6, <2>3 DEF GenTypeOK, ActType
      <3> QED
        BY <2>5, <3>1, <3>2, <3>3 DEF GenInv, NoNullDefer, Idle
    <2> QED
      BY <2>4, <2>5
  <1>8. CASE Act.pc # Act.hi
    <2>1. Act.pc + 1 \in Act.pc + 1..Act.hi
      BY <1>4, <1>8
    <2>2. /\ acts' \in Seq(ActType) /\ acts' # <<>>
          /\ ActsOK(D, heap, ast, dropped, acts')
          /\ Opened(D, acts', Len(opens) + (D[Act.pc + 1] - D[Act.pc]))
      BY <1>1, <1>2, <1>3, <1>8, <2>1, LaterOK
    <2>3. D[Act.pc] \in Nat /\ AstTok.op \notin Openers
      BY <1>1, <1>4, SMTT(30) DEF Openers, Exits
    <2>4. D[Act.pc + 1] = IF AstTok.op = "end" THEN D[Act.pc] - 1 ELSE D[Act.pc]
      BY <1>4, <2>3
    <2>5. Len(opens) + (D[Act.pc + 1] - D[Act.pc]) = Len(opens')
      BY <1>6, <2>3, <2>4
    <2>6. phase' = "codegen"
      BY <1>1, <2>2
    <2> QED
      BY <1>1, <1>3, <1>6, <2>2, <2>5, <2>6, InsideNext
  <1> QED
    BY <1>7, <1>8

-----------------------------------------------------------------------------
(* The invariant of the function from its resolution to its execution. *)

\* At the start nothing is generated.
LEMMA InitGen == CInit => IInv /\ GenInv
  <1> SUFFICES ASSUME CInit PROVE IInv /\ GenInv
    OBVIOUS
  <1>1. Init /\ acts = <<>> /\ out = <<>> /\ opens = <<>>
    BY DEF CInit
  <1>2. IInv /\ TreeOK
    BY <1>1, InitInv, InitTree
  <1>3. phase = "resolve"
    BY <1>1 DEF Init
  <1>4. PICK D : Tree(D, frames, heap, ast)
    BY <1>2 DEF TreeOK
  <1>5. Len(acts) = 0 /\ Len(opens) = 0
    BY <1>1
  <1>6. ActsOK(D, heap, ast, dropped, acts) /\ Opened(D, acts, Len(opens))
    <2> DEFINE B == [k \in 0..0 |-> 0]
    <2>1. B \in [0..Len(acts) -> Nat] /\ B[0] = 0
      BY <1>5
    <2> HIDE DEF B
    <2>2. Opened(D, acts, Len(opens))
      BY <1>5, <2>1 DEF Opened
    <2>3. ActsOK(D, heap, ast, dropped, acts)
      BY <1>5 DEF ActsOK
    <2> QED
      BY <2>2, <2>3
  <1>7. Shape
    BY <1>3, <1>4, <1>6 DEF Shape, Building
  <1>8. GenTypeOK
    BY <1>1, EmptySeq DEF GenTypeOK
  <1> QED
    BY <1>1, <1>2, <1>3, <1>7, <1>8 DEF GenInv, NoNullDefer, Idle
\* Nothing is generated while the function is being resolved.
LEMMA ResolveGen ==
    ASSUME IInv, GenInv, ResolveStep
    PROVE  IInv' /\ GenInv'
  <1>1. /\ Resolve /\ UNCHANGED <<acts, out, opens>>
    BY DEF ResolveStep, codegen
  <1>2. phase = "resolve" /\ phase' \in {"resolve", "fatal", "resolved"}
    <2>1. CASE DeferExpr
      BY <2>1, Zenon DEF DeferExpr, Statement
    <2>2. CASE DeferBlock \/ If \/ For
      BY <2>2, Zenon DEF DeferBlock, If, For, Statement
    <2>3. CASE When \/ WhenNone \/ Return
      BY <2>3, Zenon DEF When, WhenNone, Return, Statement
    <2>4. CASE Break \/ Continue
      BY <2>4 DEF Break, Continue, Jump, Statement
    <2>5. CASE EndIf \/ EndFor \/ EndDefer \/ EndWhen
      BY <2>5 DEF EndIf, EndFor, EndDefer, EndWhen, Close
    <2>6. CASE EndFunction
      BY <2>6 DEF EndFunction
    <2> QED
      BY <1>1, <2>1, <2>2, <2>3, <2>4, <2>5, <2>6 DEF Resolve
  <1>3. acts = <<>> /\ Len(acts) = 0
    <2>1. acts = <<>>
      BY <1>2 DEF GenInv, Idle
    <2> QED
      BY <2>1
  <1>4. TreeOK /\ \E D : Opened(D, acts, Len(opens))
    BY DEF GenInv, Shape, TreeOK
  <1>5. IInv'
    BY <1>1, NextInv
  <1>6. TreeOK'
    BY <1>1, <1>4, <1>5, TreeStep DEF IInv
  <1>7. PICK D : /\ Tree(D, frames', heap', ast')
                 /\ Building' \/ Whole(D, heap', ast')
    BY <1>6 DEF TreeOK
  <1>8. acts \in Seq(ActType) /\ acts' = acts /\ opens' = opens
    BY <1>1 DEF GenInv, GenTypeOK, ActType
  <1>9. Len(opens) = 0
    BY <1>3, <1>4, <1>8, OpenedFacts
  <1>10. ActsOK(D, heap', ast', dropped', acts') /\ Opened(D, acts', Len(opens'))
    <2> DEFINE B == [k \in 0..0 |-> 0]
    <2>1. B \in [0..Len(acts) -> Nat] /\ B[0] = 0
      BY <1>3
    <2> HIDE DEF B
    <2>2. Opened(D, acts, 0)
      BY <1>3, <2>1 DEF Opened
    <2>3. ActsOK(D, heap', ast', dropped', acts)
      BY <1>3 DEF ActsOK
    <2> QED
      BY <1>8, <1>9, <2>2, <2>3
  <1>11. Shape'
    BY <1>7, <1>10 DEF Shape
  <1>12. GenTypeOK'
    BY <1>1, <1>3, EmptySeq DEF GenInv, GenTypeOK
  <1> QED
    BY <1>1, <1>2, <1>3, <1>5, <1>11, <1>12 DEF GenInv, NoNullDefer, Idle

\* The C function runs: nothing that was generated changes.
LEMMA RunStep ==
    ASSUME IInv, GenInv, Start \/ Step
    PROVE  IInv' /\ GenInv'
  <1>1. /\ phase \in {"compiled", "run"} /\ phase' = "run"
        /\ UNCHANGED <<count, ast, heap, frames, resolver, history, acts, out, opens>>
    BY DEF Start, Step, codegen, vars
  <1>2. ~Building /\ dropped' = dropped /\ acts = <<>>
    BY <1>1 DEF Building, history, GenInv, Idle
  <1>3. IInv' /\ ~Building'
    BY <1>1, <1>2, LaterInv
  <1>4. PICK D : /\ Tree(D, frames, heap, ast) /\ Whole(D, heap, ast)
                 /\ ActsOK(D, heap, ast, dropped, acts) /\ Opened(D, acts, Len(opens))
    BY <1>2 DEF GenInv, Shape
  <1>5. Shape'
    <2>1. ActsOK(D, heap, ast, dropped, acts') /\ Opened(D, acts', Len(opens'))
      BY <1>1, <1>4
    <2> QED
      BY <1>1, <1>2, <1>3, <1>4, <2>1, ShapeStays
  <1>6. GenTypeOK'
    BY <1>1 DEF GenInv, GenTypeOK
  <1> QED
    BY <1>1, <1>2, <1>3, <1>5, <1>6 DEF GenInv, NoNullDefer, Idle

\* Each step of the resolver, of the generator and of the generated function
\* keeps the invariant.
LEMMA NextGen == IInv /\ GenInv /\ [CNext]_allvars => IInv' /\ GenInv'
  <1> SUFFICES ASSUME IInv, GenInv, [CNext]_allvars PROVE IInv' /\ GenInv'
    OBVIOUS
  <1>1. CASE ResolveStep
    BY <1>1, ResolveGen
  <1>2. CASE Codegen
    <2>1. GenInv'
      BY <1>2, GenFunctionStep, GenOpenStep, GenDeferStep, GenUnwindStep, GenNullStep,
         GenExitStep DEF Codegen
    <2>2. /\ UNCHANGED <<count, ast, heap, frames, resolver, history>>
          /\ phase \in {"resolved", "codegen"} /\ phase' \in {"codegen", "crash", "compiled"}
      <3>1. CASE GenFunction
        BY <3>1 DEF GenFunction
      <3>2. CASE GenOpen \/ GenDefer \/ GenUnwind
        BY <3>2 DEF GenOpen, GenDefer, GenUnwind, Unwinding, vars
      <3>3. CASE GenNull \/ GenExit
        BY <3>3 DEF GenNull, GenExit, Unwinding
      <3> QED
        BY <1>2, <3>1, <3>2, <3>3 DEF Codegen
    <2>3. ~Building
      BY <2>2 DEF Building
    <2> QED
      BY <2>1, <2>2, <2>3, LaterInv
  <1>3. CASE Start \/ Step
    BY <1>3, RunStep
  <1>4. CASE Stopped \/ UNCHANGED allvars
    <2>1. UNCHANGED <<vars, acts, out, opens>>
      BY <1>4 DEF Stopped, allvars, codegen
    <2>2. IInv'
      BY <2>1, NextInv
    <2>3. Building' <=> Building
      BY <2>1 DEF vars, Building
    <2>4. UNCHANGED <<phase, ast, heap, frames, dropped, acts, out, opens>>
      BY <2>1 DEF vars, history
    <2>5. Shape'
      BY <2>3, <2>4 DEF GenInv, Shape
    <2>6. GenTypeOK'
      BY <2>4 DEF GenInv, GenTypeOK
    <2> QED
      BY <2>2, <2>4, <2>5, <2>6 DEF GenInv, NoNullDefer, Idle
  <1> QED
    BY <1>1, <1>2, <1>3, <1>4 DEF CNext

-----------------------------------------------------------------------------
(* Sequences that begin alike. *)

\* s is how t begins; x is in s; the last element; t is s and one more.
Begins(s, t) == Len(s) <= Len(t) /\ \A i \in 1..Len(s) : s[i] = t[i]
In(x, s) == \E i \in 1..Len(s) : s[i] = x
Tip(s) == s[Len(s)]
Longer(t, s, x) ==
    /\ Len(t) = Len(s) + 1 /\ t[Len(s) + 1] = x
    /\ \A i \in 1..Len(s) : t[i] = s[i]

\* Beginning is an order.
LEMMA BeginsOrder ==
    ASSUME NEW s \in Seq(Nat), NEW t \in Seq(Nat), NEW u \in Seq(Nat)
    PROVE  /\ Begins(s, s)
           /\ Begins(s, t) /\ Begins(t, u) => Begins(s, u)
           /\ Begins(s, u) /\ Begins(t, u) /\ Len(s) <= Len(t) => Begins(s, t)
           /\ Begins(s, t) /\ Len(t) <= Len(s) => s = t
           /\ Begins(s, u) /\ Begins(t, u) /\ Len(s) = Len(t) => s = t
  <1>1. Len(s) \in Nat /\ Len(t) \in Nat /\ Len(u) \in Nat
    BY LenProperties
  <1>2. Begins(s, s)
    BY <1>1 DEF Begins
  <1>3. Begins(s, t) /\ Begins(t, u) => Begins(s, u)
    BY <1>1 DEF Begins
  <1>4. Begins(s, u) /\ Begins(t, u) /\ Len(s) <= Len(t) => Begins(s, t)
    BY <1>1 DEF Begins
  <1>5. Begins(s, t) /\ Len(t) <= Len(s) => s = t
    <2> SUFFICES ASSUME Begins(s, t), Len(t) <= Len(s) PROVE s = t
      OBVIOUS
    <2>1. Len(s) = Len(t) /\ \A i \in 1..Len(s) : s[i] = t[i]
      BY <1>1 DEF Begins
    <2> QED
      BY <2>1, SeqEqual
  <1> QED
    BY <1>1, <1>2, <1>3, <1>4, <1>5

\* A sequence with one element more.
LEMMA AppendLonger ==
    ASSUME NEW S, NEW s \in Seq(S), NEW x \in S
    PROVE  Append(s, x) \in Seq(S) /\ Longer(Append(s, x), s, x)
  BY AppendProperties DEF Longer

\* It begins with what it was made from.
LEMMA BeginsLonger ==
    ASSUME NEW s \in Seq(Nat), NEW t \in Seq(Nat), NEW x \in Nat
    PROVE  /\ Append(t, x) \in Seq(Nat) /\ Len(Append(t, x)) = Len(t) + 1
           /\ Append(t, x)[Len(t) + 1] = x
           /\ \A i \in 1..Len(t) : Append(t, x)[i] = t[i]
           /\ Begins(t, Append(t, x))
           /\ Begins(s, t) => Begins(s, Append(t, x))
           /\ Tip(Append(t, x)) = x /\ Append(t, x) # <<>>
           /\ In(x, Append(t, x))
           /\ \A y : In(y, t) => In(y, Append(t, x))
  <1>1. Len(s) \in Nat /\ Len(t) \in Nat
    BY LenProperties
  <1>2. /\ Append(t, x) \in Seq(Nat) /\ Len(Append(t, x)) = Len(t) + 1
        /\ Append(t, x)[Len(t) + 1] = x
        /\ \A i \in 1..Len(t) : Append(t, x)[i] = t[i]
    BY AppendProperties
  <1>3. Begins(t, Append(t, x)) /\ (Begins(s, t) => Begins(s, Append(t, x)))
    BY <1>1, <1>2 DEF Begins
  <1>4. Tip(Append(t, x)) = x /\ Append(t, x) # <<>>
    BY <1>1, <1>2, EmptySeq DEF Tip
  <1>5. In(x, Append(t, x)) /\ \A y : In(y, t) => In(y, Append(t, x))
    BY <1>1, <1>2 DEF In
  <1> QED
    BY <1>2, <1>3, <1>4, <1>5

\* Prefix(s, n) is how s begins, and a beginning is a prefix.
LEMMA BeginsPrefix ==
    ASSUME NEW s \in Seq(Nat), NEW n \in 0..Len(s)
    PROVE  /\ Prefix(s, n) \in Seq(Nat) /\ Len(Prefix(s, n)) = n
           /\ \A i \in 1..n : Prefix(s, n)[i] = s[i]
           /\ Begins(Prefix(s, n), s)
           /\ n = Len(s) => Prefix(s, n) = s
  <1>1. /\ Prefix(s, n) \in Seq(Nat) /\ Len(Prefix(s, n)) = n
        /\ \A i \in 1..n : Prefix(s, n)[i] = s[i]
    BY PrefixFacts
  <1>2. Begins(Prefix(s, n), s)
    BY <1>1 DEF Begins
  <1>3. n = Len(s) => Prefix(s, n) = s
    BY <1>1, SeqEqual
  <1> QED
    BY <1>1, <1>2, <1>3

\* What is in a beginning is in the whole.
LEMMA InBegins ==
    ASSUME NEW s \in Seq(Nat), NEW t \in Seq(Nat), Begins(s, t), NEW x, In(x, s)
    PROVE  In(x, t)
  <1>1. Len(s) \in Nat /\ Len(t) \in Nat
    BY LenProperties
  <1> QED
    BY <1>1 DEF In, Begins

\* The elements of a sequence of sequences.
LEMMA PlaceTyped ==
    ASSUME NEW E \in Seq(Seq(Nat)), NEW p \in 1..Len(E)
    PROVE  /\ E[p] \in Seq(Nat) /\ Len(E[p]) \in Nat
           /\ \A i \in 1..Len(E[p]) : E[p][i] \in Nat
  <1>1. E[p] \in Seq(Nat)
    BY ElementOfSeq
  <1> QED
    BY <1>1, ElementOfSeq, LenProperties

-----------------------------------------------------------------------------
(* The places of the tree. *)

\* The ways out of a block other than its end.
Jumps == {"break", "continue", "return"}

\* What each token does: a block is opened, is ended, or is left by a jump.
Flows(E, L, a) ==
    \A p \in 1..Len(a) :
        /\ a[p].op \in Openers => E[p + 1] = Append(E[p], p) /\ L[p + 1] = L[p]
        /\ a[p].op \in Jumps => E[p + 1] = E[p] /\ L[p + 1] = L[p]
        /\ a[p].op = "end" =>
             /\ E[p] # <<>>
             /\ E[p + 1] = E[Tip(E[p])]
             /\ a[Tip(E[p])].op # "defer" => L[p + 1] = L[Tip(E[p])]

\* The blocks around p were opened one in another, before p, and the defers
\* that were in force at their opening still are.
Around(E, L, a, p) ==
    \A i \in 1..Len(E[p]) :
        /\ E[p][i] \in 1..p - 1 /\ a[E[p][i]].op \in Openers
        /\ Begins(E[E[p][i]], E[p]) /\ Len(E[E[p][i]]) = i - 1
        /\ Begins(L[E[p][i]], L[p])

\* Of the defers in force at p, each was written where exactly the older ones
\* were in force, in a block that is still open.
InForce(E, L, h, p) ==
    \A j \in 1..Len(L[p]) :
        /\ L[p][j] \in 1..Len(h)
        /\ Begins(L[h[L[p][j]].lo], L[p]) /\ Len(L[h[L[p][j]].lo]) = j - 1
        /\ Begins(E[h[L[p][j]].lo], E[p])
        /\ \A k \in 1..j - 1 : L[p][k] < L[p][j]

\* What a way out has to run: the defers of the block that ends, of all blocks
\* in the loop and the loop's own, of the function.
DueOK(E, L, a, p) ==
    /\ a[p].op = "end" => a[p].due = Above(L[p], Len(L[Tip(E[p])]))
    /\ a[p].op \in {"break", "continue"} =>
         /\ In(a[p].loop, E[p]) /\ a[a[p].loop].op = "for"
         /\ a[p].due = Above(L[p], Len(L[a[p].loop]))
    /\ a[p].op = "return" => a[p].due = L[p]
    /\ a[p].op \in Exits => a[p].begin = Null \/ In(a[p].begin, L[p])

\* The body of a defer is one block; the defer is in force behind it.
BodyIn(E, L, h, a, d) ==
    /\ h[d].lo \in 1..Len(a) /\ h[d].hi \in 1..Len(a) /\ h[d].lo < h[d].hi
    /\ a[h[d].lo].op = "defer" /\ a[h[d].hi].op = "end"
    /\ E[h[d].hi] # <<>> /\ Tip(E[h[d].hi]) = h[d].lo
    /\ L[h[d].hi + 1] = Append(L[h[d].lo], d)
    /\ \A p \in h[d].lo + 1..h[d].hi : Begins(E[h[d].lo + 1], E[p])
    /\ h[d].prev = Null \/ In(h[d].prev, L[h[d].lo])

\* E and L say, of every place, what is around it and what is in force.
Scoped(E, L, h, a) ==
    /\ Len(E) = Len(a) + 1 /\ E[1] = <<>>
    /\ Len(L) = Len(a) + 1 /\ L[1] = <<>>
    /\ Flows(E, L, a)
    /\ \A p \in 1..Len(a) + 1 : Around(E, L, a, p) /\ InForce(E, L, h, p)
    /\ \A p \in 1..Len(a) : DueOK(E, L, a, p)
    /\ \A d \in 1..Len(h) : BodyIn(E, L, h, a, d)

\* The tree has one token more, and perhaps a deferred body more.
Grows(E, L, h, a, e, l, t, E2, L2, h2, b) ==
    /\ E \in Seq(Seq(Nat)) /\ L \in Seq(Seq(Nat)) /\ e \in Seq(Nat) /\ l \in Seq(Nat)
    /\ a \in Seq(TokenType) /\ h \in Seq(DeferType) /\ h2 \in Seq(DeferType)
    /\ E2 = Append(E, e) /\ L2 = Append(L, l) /\ b = Append(a, t) /\ t \in TokenType
    /\ Len(h) <= Len(h2) /\ \A d \in 1..Len(h) : h2[d] = h[d]
    /\ Scoped(E, L, h, a)

\* Growing, place by place.
LEMMA GrowsFacts ==
    ASSUME NEW E, NEW L, NEW h, NEW a, NEW e, NEW l, NEW t, NEW E2, NEW L2, NEW h2, NEW b,
           Grows(E, L, h, a, e, l, t, E2, L2, h2, b)
    PROVE  /\ Len(a) \in Nat /\ Len(h) \in Nat /\ Len(h2) \in Nat
           /\ E2 \in Seq(Seq(Nat)) /\ Len(E) = Len(a) + 1 /\ Len(E2) = Len(a) + 2
           /\ L2 \in Seq(Seq(Nat)) /\ Len(L) = Len(a) + 1 /\ Len(L2) = Len(a) + 2
           /\ Len(b) = Len(a) + 1 /\ b[Len(a) + 1] = t
           /\ E2[Len(a) + 2] = e /\ L2[Len(a) + 2] = l
           /\ \A p \in 1..Len(a) + 1 :
                E2[p] = E[p] /\ L2[p] = L[p] /\ E[p] \in Seq(Nat) /\ L[p] \in Seq(Nat)
           /\ \A p \in 1..Len(a) : b[p] = a[p]
  <1>1. /\ Len(a) \in Nat /\ Len(h) \in Nat /\ Len(h2) \in Nat
        /\ Len(E) = Len(a) + 1 /\ Len(L) = Len(a) + 1
    BY LenProperties DEF Grows, Scoped
  <1>2. /\ E2 \in Seq(Seq(Nat)) /\ Longer(E2, E, e)
        /\ L2 \in Seq(Seq(Nat)) /\ Longer(L2, L, l)
        /\ Longer(b, a, t)
    BY AppendLonger DEF Grows
  <1>3. (Len(a) + 1) + 1 = Len(a) + 2
    BY <1>1
  <1>4. \A p \in 1..Len(a) + 1 : E[p] \in Seq(Nat) /\ L[p] \in Seq(Nat)
    BY <1>1, PlaceTyped DEF Grows
  <1> QED
    BY <1>1, <1>2, <1>3, <1>4 DEF Longer

\* What is said of the old places stays true, so only the new one matters.
LEMMA ScopedGrows ==
    ASSUME NEW E, NEW L, NEW h, NEW a, NEW e, NEW l, NEW t, NEW E2, NEW L2, NEW h2, NEW b,
           Grows(E, L, h, a, e, l, t, E2, L2, h2, b),
           t.op \in Openers => e = Append(E[Len(a) + 1], Len(a) + 1) /\ l = L[Len(a) + 1],
           t.op \in Jumps => e = E[Len(a) + 1] /\ l = L[Len(a) + 1],
           t.op = "end" =>
             /\ E[Len(a) + 1] # <<>>
             /\ e = E[Tip(E[Len(a) + 1])]
             /\ a[Tip(E[Len(a) + 1])].op # "defer" => l = L[Tip(E[Len(a) + 1])],
           Around(E2, L2, b, Len(a) + 2), InForce(E2, L2, h2, Len(a) + 2),
           DueOK(E2, L2, b, Len(a) + 1),
           \A d \in Len(h) + 1..Len(h2) : BodyIn(E2, L2, h2, b, d)
    PROVE  Scoped(E2, L2, h2, b)
  <1>1. /\ Len(a) \in Nat /\ Len(h) \in Nat /\ Len(h2) \in Nat
        /\ Len(E) = Len(a) + 1 /\ Len(E2) = Len(a) + 2
        /\ Len(L) = Len(a) + 1 /\ Len(L2) = Len(a) + 2
        /\ Len(b) = Len(a) + 1 /\ b[Len(a) + 1] = t
        /\ E2[Len(a) + 2] = e /\ L2[Len(a) + 2] = l
    BY GrowsFacts
  <1>2. /\ \A p \in 1..Len(a) + 1 : E2[p] = E[p] /\ L2[p] = L[p]
        /\ \A p \in 1..Len(a) : b[p] = a[p]
    BY GrowsFacts
  <1>3. /\ Scoped(E, L, h, a) /\ \A d \in 1..Len(h) : h2[d] = h[d]
        /\ E \in Seq(Seq(Nat)) /\ L \in Seq(Seq(Nat))
    BY DEF Grows
  <1>4. \A p \in 1..Len(a) + 1 : Len(E[p]) \in Nat /\ Len(L[p]) \in Nat
    BY <1>1, <1>3, PlaceTyped
  <1>5. ASSUME NEW p \in 1..Len(a) + 1, E[p] # <<>>
        PROVE  Tip(E[p]) \in 1..p - 1
    <2>1. Len(E[p]) \in 1..Len(E[p])
      BY <1>1, <1>3, <1>4, <1>5, PlaceTyped, EmptySeq
    <2> QED
      BY <1>3, <2>1 DEF Scoped, Around, Tip
  <1>6. Flows(E2, L2, b)
    <2> SUFFICES ASSUME NEW p \in 1..Len(b)
                 PROVE  /\ b[p].op \in Openers => E2[p + 1] = Append(E2[p], p) /\ L2[p + 1] = L2[p]
                        /\ b[p].op \in Jumps => E2[p + 1] = E2[p] /\ L2[p + 1] = L2[p]
                        /\ b[p].op = "end" =>
                             /\ E2[p] # <<>> /\ E2[p + 1] = E2[Tip(E2[p])]
                             /\ b[Tip(E2[p])].op # "defer" => L2[p + 1] = L2[Tip(E2[p])]
      BY DEF Flows
    <2>1. CASE p \in 1..Len(a)
      <3>1. p \in 1..Len(a) + 1 /\ p + 1 \in 1..Len(a) + 1
        BY <1>1, <2>1
      <3>2. E2[p] = E[p] /\ L2[p] = L[p] /\ E2[p + 1] = E[p + 1] /\ L2[p + 1] = L[p + 1] /\ b[p] = a[p]
        BY <1>2, <2>1, <3>1
      <3>3. E[p] # <<>> =>
              /\ E2[Tip(E[p])] = E[Tip(E[p])] /\ L2[Tip(E[p])] = L[Tip(E[p])]
              /\ b[Tip(E[p])] = a[Tip(E[p])]
        BY <1>1, <1>2, <1>5, <3>1, SMTT(30)
      <3>4. /\ a[p].op \in Openers => E[p + 1] = Append(E[p], p) /\ L[p + 1] = L[p]
            /\ a[p].op \in Jumps => E[p + 1] = E[p] /\ L[p + 1] = L[p]
            /\ a[p].op = "end" =>
                 /\ E[p] # <<>> /\ E[p + 1] = E[Tip(E[p])]
                 /\ a[Tip(E[p])].op # "defer" => L[p + 1] = L[Tip(E[p])]
        BY <1>3, <2>1 DEF Scoped, Flows
      <3> QED
        BY <3>2, <3>3, <3>4
    <2>2. CASE p = Len(a) + 1
      <3>1. p \in 1..Len(a) + 1 /\ p + 1 = Len(a) + 2
        BY <1>1, <2>2
      <3>2. E2[p] = E[p] /\ L2[p] = L[p] /\ E2[p + 1] = e /\ L2[p + 1] = l /\ b[p] = t
        BY <1>1, <1>2, <2>2, <3>1
      <3>3. E[p] # <<>> =>
              /\ E2[Tip(E[p])] = E[Tip(E[p])] /\ L2[Tip(E[p])] = L[Tip(E[p])]
              /\ b[Tip(E[p])] = a[Tip(E[p])]
        BY <1>1, <1>2, <1>5, <2>2, <3>1
      <3> QED
        BY <2>2, <3>2, <3>3
    <2> QED
      BY <1>1, <2>1, <2>2
  <1>7. ASSUME NEW p \in 1..Len(a) + 1 PROVE Around(E2, L2, b, p)
    <2> SUFFICES ASSUME NEW i \in 1..Len(E2[p])
                 PROVE  /\ E2[p][i] \in 1..p - 1 /\ b[E2[p][i]].op \in Openers
                        /\ Begins(E2[E2[p][i]], E2[p]) /\ Len(E2[E2[p][i]]) = i - 1
                        /\ Begins(L2[E2[p][i]], L2[p])
      BY DEF Around
    <2>1. E2[p] = E[p] /\ L2[p] = L[p] /\ i \in 1..Len(E[p])
      BY <1>2
    <2>2. /\ E[p][i] \in 1..p - 1 /\ a[E[p][i]].op \in Openers
          /\ Begins(E[E[p][i]], E[p]) /\ Len(E[E[p][i]]) = i - 1
          /\ Begins(L[E[p][i]], L[p])
      BY <1>3, <2>1 DEF Scoped, Around
    <2>3. E[p][i] \in 1..Len(a) /\ E[p][i] \in 1..Len(a) + 1
      BY <1>1, <2>2
    <2> QED
      BY <1>2, <2>1, <2>2, <2>3
  <1>8. ASSUME NEW p \in 1..Len(a) + 1 PROVE InForce(E2, L2, h2, p)
    <2> SUFFICES ASSUME NEW j \in 1..Len(L2[p])
                 PROVE  /\ L2[p][j] \in 1..Len(h2)
                        /\ Begins(L2[h2[L2[p][j]].lo], L2[p]) /\ Len(L2[h2[L2[p][j]].lo]) = j - 1
                        /\ Begins(E2[h2[L2[p][j]].lo], E2[p])
                        /\ \A k \in 1..j - 1 : L2[p][k] < L2[p][j]
      BY DEF InForce
    <2>1. E2[p] = E[p] /\ L2[p] = L[p] /\ j \in 1..Len(L[p])
      BY <1>2
    <2>2. /\ L[p][j] \in 1..Len(h)
          /\ Begins(L[h[L[p][j]].lo], L[p]) /\ Len(L[h[L[p][j]].lo]) = j - 1
          /\ Begins(E[h[L[p][j]].lo], E[p])
          /\ \A k \in 1..j - 1 : L[p][k] < L[p][j]
      <3>1. InForce(E, L, h, p)
        BY <1>3 DEF Scoped
      <3> QED
        BY <2>1, <3>1 DEF InForce
    <2>3. h2[L[p][j]] = h[L[p][j]] /\ L[p][j] \in 1..Len(h2)
      <3>1. L[p][j] \in 1..Len(h)
        BY <2>2
      <3>2. Len(h) <= Len(h2)
        BY DEF Grows
      <3>3. L[p][j] \in 1..Len(h2)
        BY <1>1, <3>1, <3>2
      <3> QED
        BY <1>3, <3>1, <3>3
    <2>4. h[L[p][j]].lo \in 1..Len(a) + 1
      <3>1. BodyIn(E, L, h, a, L[p][j])
        BY <1>3, <2>2, SMTT(30) DEF Scoped
      <3>2. h[L[p][j]].lo \in 1..Len(a)
        BY <3>1, Zenon DEF BodyIn
      <3> QED
        BY <1>1, <3>2
    <2>5. L2[h[L[p][j]].lo] = L[h[L[p][j]].lo] /\ E2[h[L[p][j]].lo] = E[h[L[p][j]].lo]
      BY <1>2, <2>4
    <2> QED
      BY <2>1, <2>2, <2>3, <2>5
  <1>9. ASSUME NEW p \in 1..Len(a) PROVE DueOK(E2, L2, b, p)
    <2>1. E2[p] = E[p] /\ L2[p] = L[p] /\ b[p] = a[p]
      BY <1>1, <1>2
    <2>2. DueOK(E, L, a, p) /\ p \in 1..Len(a) + 1
      BY <1>1, <1>3 DEF Scoped
    <2>3. a[p].op = "end" => L2[Tip(E[p])] = L[Tip(E[p])]
      <3> SUFFICES ASSUME a[p].op = "end" PROVE L2[Tip(E[p])] = L[Tip(E[p])]
        OBVIOUS
      <3>1. Tip(E[p]) \in 1..p - 1
        BY <1>3, <1>5, <2>2 DEF Scoped, Flows
      <3> QED
        BY <1>1, <1>2, <3>1
    <2>4. a[p].op \in {"break", "continue"} =>
            L2[a[p].loop] = L[a[p].loop] /\ b[a[p].loop] = a[a[p].loop]
      <3> SUFFICES ASSUME a[p].op \in {"break", "continue"}
                   PROVE  L2[a[p].loop] = L[a[p].loop] /\ b[a[p].loop] = a[a[p].loop]
        OBVIOUS
      <3>1. In(a[p].loop, E[p])
        BY <2>2 DEF DueOK
      <3>2. a[p].loop \in 1..p - 1
        BY <1>3, <2>2, <3>1 DEF In, Scoped, Around
      <3> QED
        BY <1>1, <1>2, <3>2
    <2> QED
      BY <2>1, <2>2, <2>3, <2>4 DEF DueOK
  <1>10. ASSUME NEW d \in 1..Len(h) PROVE BodyIn(E2, L2, h2, b, d)
    <2>1. BodyIn(E, L, h, a, d) /\ h2[d] = h[d]
      BY <1>3 DEF Scoped
    <2> DEFINE lo == h[d].lo
               hi == h[d].hi
    <2>2. /\ lo \in 1..Len(a) /\ hi \in 1..Len(a) /\ lo < hi
          /\ a[lo].op = "defer" /\ a[hi].op = "end"
          /\ E[hi] # <<>> /\ Tip(E[hi]) = lo
          /\ L[hi + 1] = Append(L[lo], d)
          /\ \A p \in lo + 1..hi : Begins(E[lo + 1], E[p])
          /\ h[d].prev = Null \/ In(h[d].prev, L[lo])
      BY <2>1 DEF BodyIn
    <2> HIDE DEF lo, hi
    <2>3. /\ lo \in 1..Len(a) + 1 /\ hi \in 1..Len(a) + 1
          /\ lo + 1 \in 1..Len(a) + 1 /\ hi + 1 \in 1..Len(a) + 1
          /\ \A p \in lo + 1..hi : p \in 1..Len(a) + 1
          /\ lo \in 1..Len(b) /\ hi \in 1..Len(b)
      BY <1>1, <2>2, SMTT(30)
    <2>4. /\ lo \in 1..Len(b) /\ hi \in 1..Len(b) /\ lo < hi
          /\ b[lo].op = "defer" /\ b[hi].op = "end"
          /\ E2[hi] # <<>> /\ Tip(E2[hi]) = lo
          /\ L2[hi + 1] = Append(L2[lo], d)
          /\ \A p \in lo + 1..hi : Begins(E2[lo + 1], E2[p])
          /\ h[d].prev = Null \/ In(h[d].prev, L2[lo])
      BY <1>2, <2>2, <2>3
    <2> QED
      BY <2>1, <2>4 DEF BodyIn, lo, hi
  <1>11. \A p \in 1..Len(b) + 1 : Around(E2, L2, b, p) /\ InForce(E2, L2, h2, p)
    BY <1>1, <1>7, <1>8
  <1>12. \A p \in 1..Len(b) : DueOK(E2, L2, b, p)
    BY <1>1, <1>9
  <1>13. \A d \in 1..Len(h2) : BodyIn(E2, L2, h2, b, d)
    BY <1>1, <1>10
  <1>14. E2[1] = <<>> /\ L2[1] = <<>>
    BY <1>1, <1>2, <1>3 DEF Scoped
  <1> QED
    BY <1>1, <1>6, <1>11, <1>12, <1>13, <1>14 DEF Scoped

\* The new place is like an old one, q.
LEMMA PlaceLike ==
    ASSUME NEW E, NEW L, NEW h, NEW a, NEW e, NEW l, NEW t, NEW E2, NEW L2, NEW h2, NEW b,
           Grows(E, L, h, a, e, l, t, E2, L2, h2, b),
           NEW q \in 1..Len(a) + 1, e = E[q], l = L[q]
    PROVE  Around(E2, L2, b, Len(a) + 2) /\ InForce(E2, L2, h2, Len(a) + 2)
  <1>1. /\ Len(a) \in Nat /\ Len(h) \in Nat /\ Len(h2) \in Nat
        /\ E2[Len(a) + 2] = e /\ L2[Len(a) + 2] = l
        /\ \A p \in 1..Len(a) + 1 : E2[p] = E[p] /\ L2[p] = L[p]
        /\ \A p \in 1..Len(a) : b[p] = a[p]
    BY GrowsFacts, SMTT(30)
  <1>2. /\ Around(E, L, a, q) /\ InForce(E, L, h, q)
        /\ \A d \in 1..Len(h) : BodyIn(E, L, h, a, d)
        /\ Len(h) <= Len(h2) /\ \A d \in 1..Len(h) : h2[d] = h[d]
    BY DEF Grows, Scoped
  <1>3. ASSUME NEW i \in 1..Len(e)
        PROVE  /\ e[i] \in 1..Len(a) + 1 /\ b[e[i]].op \in Openers
               /\ Begins(E2[e[i]], e) /\ Len(E2[e[i]]) = i - 1
               /\ Begins(L2[e[i]], l)
    <2>1. /\ e[i] \in 1..q - 1 /\ a[e[i]].op \in Openers
          /\ Begins(E[e[i]], e) /\ Len(E[e[i]]) = i - 1
          /\ Begins(L[e[i]], l)
      BY <1>2 DEF Around
    <2>2. e[i] \in 1..Len(a) + 1 /\ e[i] \in 1..Len(a)
      BY <1>1, <2>1
    <2> QED
      BY <1>1, <2>1, <2>2
  <1>4. ASSUME NEW j \in 1..Len(l)
        PROVE  /\ l[j] \in 1..Len(h2)
               /\ Begins(L2[h2[l[j]].lo], l) /\ Len(L2[h2[l[j]].lo]) = j - 1
               /\ Begins(E2[h2[l[j]].lo], e)
               /\ \A k \in 1..j - 1 : l[k] < l[j]
    <2>1. /\ l[j] \in 1..Len(h)
          /\ Begins(L[h[l[j]].lo], l) /\ Len(L[h[l[j]].lo]) = j - 1
          /\ Begins(E[h[l[j]].lo], e)
          /\ \A k \in 1..j - 1 : l[k] < l[j]
      BY <1>2 DEF InForce
    <2>2. h2[l[j]] = h[l[j]]
      BY <1>2, <2>1
    <2>3. l[j] \in 1..Len(h2)
      BY <1>1, <1>2, <2>1, SMTT(30)
    <2>4. h[l[j]].lo \in 1..Len(a)
      <3>1. BodyIn(E, L, h, a, l[j])
        BY <1>2, <2>1
      <3> QED
        BY <3>1, Zenon DEF BodyIn
    <2>5. h[l[j]].lo \in 1..Len(a) + 1
      BY <1>1, <2>4
    <2>6. L2[h[l[j]].lo] = L[h[l[j]].lo] /\ E2[h[l[j]].lo] = E[h[l[j]].lo]
      BY <1>1, <2>5
    <2> QED
      BY <2>1, <2>2, <2>3, <2>6
  <1>5. (Len(a) + 2) - 1 = Len(a) + 1
    BY <1>1
  <1>6. Around(E2, L2, b, Len(a) + 2)
    BY <1>1, <1>3, <1>5 DEF Around
  <1>7. InForce(E2, L2, h2, Len(a) + 2)
    BY <1>1, <1>4 DEF InForce
  <1> QED
    BY <1>6, <1>7

\* The new place is inside a block that is opened.
LEMMA PlaceInside ==
    ASSUME NEW E, NEW L, NEW h, NEW a, NEW e, NEW l, NEW t, NEW E2, NEW L2, NEW h2, NEW b,
           Grows(E, L, h, a, e, l, t, E2, L2, h2, b)
    PROVE  t.op \in Openers /\ e = Append(E[Len(a) + 1], Len(a) + 1) /\ l = L[Len(a) + 1]
             => Around(E2, L2, b, Len(a) + 2) /\ InForce(E2, L2, h2, Len(a) + 2)
  <1>1. /\ Len(a) \in Nat /\ Len(h) \in Nat /\ Len(h2) \in Nat
        /\ E2[Len(a) + 2] = e /\ L2[Len(a) + 2] = l /\ b[Len(a) + 1] = t
        /\ \A p \in 1..Len(a) + 1 :
                E2[p] = E[p] /\ L2[p] = L[p] /\ E[p] \in Seq(Nat) /\ L[p] \in Seq(Nat)
        /\ \A p \in 1..Len(a) : b[p] = a[p]
    BY GrowsFacts, SMTT(30)
  <1> SUFFICES ASSUME t.op \in Openers, e = Append(E[Len(a) + 1], Len(a) + 1),
                      l = L[Len(a) + 1]
               PROVE  Around(E2, L2, b, Len(a) + 2) /\ InForce(E2, L2, h2, Len(a) + 2)
    OBVIOUS
  <1> DEFINE q == Len(a) + 1
             x == E[q]
  <1>2. q \in 1..Len(a) + 1 /\ q \in Nat /\ q = Len(a) + 1
    BY <1>1
  <1> HIDE DEF q
  <1>3. /\ Around(E, L, a, q) /\ InForce(E, L, h, q)
        /\ \A d \in 1..Len(h) : BodyIn(E, L, h, a, d)
        /\ Len(h) <= Len(h2) /\ \A d \in 1..Len(h) : h2[d] = h[d]
    BY <1>2 DEF Grows, Scoped
  <1>4. x \in Seq(Nat) /\ l \in Seq(Nat) /\ Len(x) \in Nat /\ L[q] = l
    BY <1>1, <1>2, LenProperties
  <1>5. e = Append(x, q)
    BY <1>2
  <1>6. /\ e \in Seq(Nat) /\ Len(e) = Len(x) + 1 /\ e[Len(x) + 1] = q
        /\ \A i \in 1..Len(x) : e[i] = x[i]
        /\ Begins(x, e) /\ \A s \in Seq(Nat) : Begins(s, x) => Begins(s, e)
    BY <1>2, <1>4, <1>5, BeginsLonger
  <1>7. ASSUME NEW i \in 1..Len(e)
        PROVE  /\ e[i] \in 1..Len(a) + 1 /\ b[e[i]].op \in Openers
               /\ Begins(E2[e[i]], e) /\ Len(E2[e[i]]) = i - 1
               /\ Begins(L2[e[i]], l)
    <2>1. CASE i \in 1..Len(x)
      <3>1. /\ x[i] \in 1..q - 1 /\ a[x[i]].op \in Openers
            /\ Begins(E[x[i]], x) /\ Len(E[x[i]]) = i - 1
            /\ Begins(L[x[i]], l)
        BY <1>3, <1>4, <2>1 DEF Around
      <3>2. x[i] \in 1..Len(a) + 1 /\ x[i] \in 1..Len(a)
        BY <1>1, <1>2, <3>1
      <3>3. E[x[i]] \in Seq(Nat) /\ E2[x[i]] = E[x[i]] /\ L2[x[i]] = L[x[i]] /\ b[x[i]] = a[x[i]]
        BY <1>1, <3>2
      <3>4. e[i] = x[i]
        BY <1>6, <2>1
      <3> QED
        BY <1>6, <3>1, <3>2, <3>3, <3>4
    <2>2. CASE i = Len(x) + 1
      <3>1. e[i] = q /\ E2[q] = x /\ L2[q] = l /\ b[q] = t
        BY <1>1, <1>2, <1>4, <1>6, <2>2
      <3>2. Begins(l, l)
        BY <1>4, BeginsOrder
      <3>3. Begins(E2[e[i]], e) /\ Len(E2[e[i]]) = i - 1
        BY <1>4, <1>6, <2>2, <3>1
      <3>4. e[i] \in 1..Len(a) + 1 /\ b[e[i]].op \in Openers
        BY <1>2, <3>1
      <3>5. Begins(L2[e[i]], l)
        BY <3>1, <3>2
      <3> QED
        BY <3>3, <3>4, <3>5
    <2>3. i \in 1..Len(x) \/ i = Len(x) + 1
      BY <1>4, <1>6, SMTT(30)
    <2> QED
      BY <2>1, <2>2, <2>3
  <1>8. ASSUME NEW j \in 1..Len(l)
        PROVE  /\ l[j] \in 1..Len(h2)
               /\ Begins(L2[h2[l[j]].lo], l) /\ Len(L2[h2[l[j]].lo]) = j - 1
               /\ Begins(E2[h2[l[j]].lo], e)
               /\ \A k \in 1..j - 1 : l[k] < l[j]
    <2>1. /\ l[j] \in 1..Len(h)
          /\ Begins(L[h[l[j]].lo], l) /\ Len(L[h[l[j]].lo]) = j - 1
          /\ Begins(E[h[l[j]].lo], x)
          /\ \A k \in 1..j - 1 : l[k] < l[j]
      BY <1>3, <1>4 DEF InForce
    <2>2. h2[l[j]] = h[l[j]]
      BY <1>3, <2>1
    <2>3. l[j] \in 1..Len(h2)
      BY <1>1, <1>3, <2>1, SMTT(30)
    <2>4. h[l[j]].lo \in 1..Len(a)
      <3>1. BodyIn(E, L, h, a, l[j])
        BY <1>3, <2>1
      <3> QED
        BY <3>1, Zenon DEF BodyIn
    <2>5. h[l[j]].lo \in 1..Len(a) + 1
      BY <1>1, <2>4
    <2>6. /\ L2[h[l[j]].lo] = L[h[l[j]].lo] /\ E2[h[l[j]].lo] = E[h[l[j]].lo]
          /\ E[h[l[j]].lo] \in Seq(Nat)
      BY <1>1, <2>5
    <2> QED
      BY <1>6, <2>1, <2>2, <2>3, <2>6, Zenon
  <1>9. (Len(a) + 2) - 1 = Len(a) + 1
    BY <1>1
  <1>10. Around(E2, L2, b, Len(a) + 2)
    BY <1>1, <1>7, <1>9 DEF Around
  <1>11. InForce(E2, L2, h2, Len(a) + 2)
    BY <1>1, <1>8 DEF InForce
  <1> QED
    BY <1>10, <1>11

\* The new place is behind a deferred body that began at q.
LEMMA PlaceBehind ==
    ASSUME NEW E, NEW L, NEW h, NEW a, NEW e, NEW l, NEW t, NEW E2, NEW L2, NEW h2, NEW b,
           Grows(E, L, h, a, e, l, t, E2, L2, h2, b), NEW q \in 1..Len(a) + 1,
           Len(h2) = Len(h) + 1, h2[Len(h) + 1].lo = q
    PROVE  e = E[q] /\ l = Append(L[q], Len(h) + 1)
             => Around(E2, L2, b, Len(a) + 2) /\ InForce(E2, L2, h2, Len(a) + 2)
  <1>1. /\ Len(a) \in Nat /\ Len(h) \in Nat /\ Len(h2) \in Nat
        /\ E2[Len(a) + 2] = e /\ L2[Len(a) + 2] = l
        /\ \A p \in 1..Len(a) + 1 :
                E2[p] = E[p] /\ L2[p] = L[p] /\ E[p] \in Seq(Nat) /\ L[p] \in Seq(Nat)
        /\ \A p \in 1..Len(a) : b[p] = a[p]
    <2>1. /\ Len(a) \in Nat /\ Len(h) \in Nat /\ Len(h2) \in Nat
          /\ E2[Len(a) + 2] = e /\ L2[Len(a) + 2] = l
      BY GrowsFacts
    <2>2. \A p \in 1..Len(a) + 1 :
                E2[p] = E[p] /\ L2[p] = L[p] /\ E[p] \in Seq(Nat) /\ L[p] \in Seq(Nat)
      BY GrowsFacts
    <2>3. \A p \in 1..Len(a) : b[p] = a[p]
      BY GrowsFacts, SMTT(30)
    <2> QED
      BY <2>1, <2>2, <2>3
  <1>2. /\ Around(E, L, a, q) /\ InForce(E, L, h, q)
        /\ \A d \in 1..Len(h) : BodyIn(E, L, h, a, d)
        /\ \A d \in 1..Len(h) : h2[d] = h[d]
    BY DEF Grows, Scoped
  <1> DEFINE x == L[q]
             n == Len(h) + 1
  <1>3. /\ x \in Seq(Nat) /\ Len(x) \in Nat /\ n \in Nat
        /\ \A m \in 1..Len(h) : m < n /\ m \in 1..n
        /\ n \in 1..n
    BY <1>1, LenProperties
  <1>4. x = L[q] /\ n = Len(h) + 1
    OBVIOUS
  <1> HIDE DEF x, n
  <1>5. Append(x, n) \in Seq(Nat) /\ Len(Append(x, n)) = Len(x) + 1 /\ Append(x, n)[Len(x) + 1] = n
        /\ \A i \in 1..Len(x) : Append(x, n)[i] = x[i]
    BY <1>3, BeginsLonger
  <1>6. Begins(x, Append(x, n)) /\ \A s \in Seq(Nat) : Begins(s, x) => Begins(s, Append(x, n))
    BY <1>3, BeginsLonger
  <1> SUFFICES ASSUME e = E[q], l = Append(x, n)
               PROVE  Around(E2, L2, b, Len(a) + 2) /\ InForce(E2, L2, h2, Len(a) + 2)
    BY <1>4
  <1>7. ASSUME NEW i \in 1..Len(e)
        PROVE  /\ e[i] \in 1..Len(a) + 1 /\ b[e[i]].op \in Openers
               /\ Begins(E2[e[i]], e) /\ Len(E2[e[i]]) = i - 1
               /\ Begins(L2[e[i]], l)
    <2>1. /\ e[i] \in 1..q - 1 /\ a[e[i]].op \in Openers
          /\ Begins(E[e[i]], e) /\ Len(E[e[i]]) = i - 1
          /\ Begins(L[e[i]], x)
      <3>1. i \in 1..Len(E[q])
        OBVIOUS
      <3>2. /\ E[q][i] \in 1..q - 1 /\ a[E[q][i]].op \in Openers
            /\ Begins(E[E[q][i]], E[q]) /\ Len(E[E[q][i]]) = i - 1
            /\ Begins(L[E[q][i]], L[q])
        BY <1>2, <3>1 DEF Around
      <3> QED
        BY <1>4, <3>2
    <2>2. e[i] \in 1..Len(a) + 1 /\ e[i] \in 1..Len(a)
      <3>1. q \in Nat /\ q <= Len(a) + 1 /\ Len(a) \in Nat
        BY <1>1
      <3>2. \A y \in 1..q - 1 : y \in 1..Len(a) + 1 /\ y \in 1..Len(a)
        BY <3>1
      <3> QED
        BY <2>1, <3>2
    <2>3. L[e[i]] \in Seq(Nat)
      BY <1>1, <2>2
    <2>4. Begins(L[e[i]], l)
      BY <1>6, <2>1, <2>3
    <2> QED
      BY <1>1, <2>1, <2>2, <2>4
  <1>8. ASSUME NEW j \in 1..Len(l)
        PROVE  /\ l[j] \in 1..Len(h2)
               /\ Begins(L2[h2[l[j]].lo], l) /\ Len(L2[h2[l[j]].lo]) = j - 1
               /\ Begins(E2[h2[l[j]].lo], e)
               /\ \A k \in 1..j - 1 : l[k] < l[j]
    <2>1. CASE j \in 1..Len(x)
      <3> DEFINE d == x[j]
      <3>1. /\ d \in 1..Len(h)
            /\ Begins(L[h[d].lo], x) /\ Len(L[h[d].lo]) = j - 1
            /\ Begins(E[h[d].lo], e)
            /\ \A k \in 1..j - 1 : x[k] < d
        BY <1>2, <1>4, <2>1 DEF InForce
      <3>2. l[j] = d /\ \A k \in 1..j - 1 : l[k] = x[k]
        BY <1>3, <1>5, <2>1
      <3> HIDE DEF d
      <3>3. h2[d] = h[d]
        BY <1>2, <3>1
      <3>4. d \in 1..Len(h2)
        BY <1>3, <1>4, <3>1
      <3>5. h[d].lo \in 1..Len(a)
        <4>1. BodyIn(E, L, h, a, d)
          BY <1>2, <3>1
        <4> QED
          BY <4>1 DEF BodyIn
      <3>6. h[d].lo \in 1..Len(a) + 1
        BY <1>1, <3>5
      <3>7. /\ L2[h[d].lo] = L[h[d].lo] /\ E2[h[d].lo] = E[h[d].lo]
            /\ L[h[d].lo] \in Seq(Nat)
        BY <1>1, <3>6
      <3>8. Begins(L[h[d].lo], l)
        BY <1>6, <3>1, <3>7
      <3> QED
        BY <3>1, <3>2, <3>3, <3>4, <3>7, <3>8
    <2>2. CASE j = Len(x) + 1
      <3>1. l[j] = n /\ h2[n].lo = q /\ L2[q] = x /\ E2[q] = e /\ n \in 1..Len(h2)
        BY <1>1, <1>3, <1>4, <1>5, <2>2
      <3>2. \A k \in 1..j - 1 : l[k] < l[j]
        <4> SUFFICES ASSUME NEW k \in 1..j - 1 PROVE l[k] < n
          BY <3>1
        <4>1. k \in 1..Len(x)
          BY <1>3, <2>2
        <4>2. l[k] = x[k] /\ x[k] \in 1..Len(h)
          BY <1>2, <1>4, <1>5, <4>1 DEF InForce
        <4> QED
          BY <1>3, <4>2
      <3>3. Begins(x, l)
        BY <1>6
      <3>4. Begins(e, e)
        BY <1>1, BeginsOrder
      <3>5. Len(x) = j - 1
        BY <1>3, <2>2
      <3> QED
        BY <3>1, <3>2, <3>3, <3>4, <3>5
    <2>3. j \in 1..Len(x) \/ j = Len(x) + 1
      BY <1>3, <1>5
    <2> QED
      BY <2>1, <2>2, <2>3
  <1>9. (Len(a) + 2) - 1 = Len(a) + 1
    BY <1>1
  <1>10. Around(E2, L2, b, Len(a) + 2)
    BY <1>1, <1>7, <1>9 DEF Around
  <1>11. InForce(E2, L2, h2, Len(a) + 2)
    BY <1>1, <1>8 DEF InForce
  <1> QED
    BY <1>10, <1>11

-----------------------------------------------------------------------------
(* The frames of resolve_block, among the places. *)

\* The first place inside a frame.
First(r) == IF r.kind = "when" THEN r.mark ELSE r.mark + 1

\* From its first place on, all that is resolved is inside frame k; the next
\* frame, or the next statement, is directly inside it.  A frame with a scope of
\* its own knows how many defers were in force in front of it.
Framed(E, L, f, a, k) ==
    /\ f[k].mark \in 1..Len(a) + 1 /\ First(f[k]) \in 1..Len(a) + 1
    /\ f[k].kind # "when" =>
         /\ a[f[k].mark].op = f[k].kind
         /\ f[k].base = Len(L[f[k].mark])
         /\ f[k].save = Null \/ In(f[k].save, L[f[k].mark])
    /\ \A p \in First(f[k])..Len(a) + 1 : Begins(E[First(f[k])], E[p])
    /\ \A j \in k + 1..Len(f) : First(f[k]) <= f[j].mark
    /\ E[First(f[k])] = E[IF k = Len(f) THEN Len(a) + 1 ELSE f[k + 1].mark]
    /\ f[k].save_loop_at \in 0..k - 1
    /\ f[k].save_loop_at # 0 => f[f[k].save_loop_at].kind = "for"
    /\ (k = 1 <=> f[k].kind = "fn") /\ (k = 1 => f[k].mark = 1)

\* A token that leaves the innermost block as it is.
LEMMA FramedStays ==
    ASSUME NEW E \in Seq(Seq(Nat)), NEW L, NEW f \in Seq(FrameType), NEW a \in Seq(TokenType),
           NEW E2 \in Seq(Seq(Nat)), NEW L2, NEW b \in Seq(TokenType),
           Len(E) = Len(a) + 1, Len(E2) = Len(b) + 1, Len(b) >= Len(a),
           \A p \in 1..Len(a) + 1 : E2[p] = E[p] /\ L2[p] = L[p],
           \A p \in 1..Len(a) : b[p] = a[p],
           \A p \in Len(a) + 2..Len(b) + 1 : Begins(E[Len(a) + 1], E2[p]),
           E2[Len(b) + 1] = E[Len(a) + 1],
           NEW k \in 1..Len(f), Framed(E, L, f, a, k), \A j \in 1..Len(f) : f[j].mark <= Len(a) + 1
    PROVE  Framed(E2, L2, f, b, k)
  <1>1. Len(a) \in Nat /\ Len(b) \in Nat /\ Len(f) \in Nat
    BY LenProperties
  <1> DEFINE r == f[k]
             m == f[k].mark
             n == First(f[k])
             z == Len(a) + 1
  <1>2. /\ m \in 1..z /\ n \in 1..z
        /\ r.kind # "when" =>
             /\ a[m].op = r.kind /\ r.base = Len(L[m])
             /\ r.save = Null \/ In(r.save, L[m])
        /\ \A p \in n..z : Begins(E[n], E[p])
        /\ \A j \in k + 1..Len(f) : n <= f[j].mark
        /\ E[n] = E[IF k = Len(f) THEN z ELSE f[k + 1].mark]
        /\ r.save_loop_at \in 0..k - 1
        /\ r.save_loop_at # 0 => f[r.save_loop_at].kind = "for"
        /\ (k = 1 <=> r.kind = "fn") /\ (k = 1 => m = 1)
    BY DEF Framed
  <1>8. /\ m \in 1..z /\ n \in 1..z /\ z = Len(a) + 1
        /\ r.kind # "when" => n = m + 1
    BY DEF Framed, First
  <1> HIDE DEF m, n, z
  <1>3. r.kind # "when" => m \in 1..Len(a)
    BY <1>1, <1>8
  <1>4. m \in 1..Len(b) + 1 /\ n \in 1..Len(b) + 1
    BY <1>1, <1>8
  <1>5. ASSUME NEW p \in n..Len(b) + 1 PROVE Begins(E2[n], E2[p])
    <2>1. CASE p \in n..z
      <3>1. p \in 1..z
        BY <1>1, <1>8, <2>1
      <3>2. E2[n] = E[n] /\ E2[p] = E[p] /\ Begins(E[n], E[p])
        BY <1>2, <1>8, <2>1, <3>1
      <3> QED
        BY <3>2
    <2>2. CASE p \in z + 1..Len(b) + 1
      <3>1. /\ n \in 1..Len(E) /\ z \in 1..Len(E) /\ p \in 1..Len(E2) /\ z \in n..z
        BY <1>1, <1>8, <2>2
      <3>2. E[n] \in Seq(Nat) /\ E[z] \in Seq(Nat) /\ E2[p] \in Seq(Nat)
        BY <3>1, PlaceTyped
      <3>3. Begins(E[n], E[z]) /\ Begins(E[z], E2[p])
        <4>1. p \in Len(a) + 2..Len(b) + 1
          BY <1>1, <1>8, <2>2
        <4> QED
          BY <1>2, <1>8, <3>1, <4>1
      <3>4. Begins(E[n], E2[p])
        BY <3>2, <3>3, BeginsOrder, SMTT(30)
      <3>5. E2[n] = E[n]
        BY <1>8
      <3> QED
        BY <3>4, <3>5
    <2>3. p \in n..z \/ p \in z + 1..Len(b) + 1
      BY <1>1, <1>8
    <2> QED
      BY <2>1, <2>2, <2>3
  <1>6. E2[n] = E2[IF k = Len(f) THEN Len(b) + 1 ELSE f[k + 1].mark]
    <2>1. CASE k = Len(f)
      BY <1>2, <1>8, <2>1
    <2>2. CASE k # Len(f)
      <3>1. k + 1 \in 1..Len(f) /\ k + 1 \in k + 1..Len(f)
        BY <1>1, <2>2
      <3>2. f[k + 1] \in FrameType
        BY <3>1, ElementOfSeq
      <3>3. f[k + 1].mark \in Nat
        BY <3>2 DEF FrameType
      <3>4. n <= f[k + 1].mark /\ f[k + 1].mark <= z
        BY <1>2, <1>8, <3>1
      <3>5. f[k + 1].mark \in 1..z
        BY <1>1, <1>8, <3>3, <3>4, SMTT(30)
      <3> QED
        BY <1>2, <1>8, <2>2, <3>5
    <2> QED
      BY <2>1, <2>2
  <1>7. r.kind # "when" =>
             /\ b[m].op = r.kind /\ r.base = Len(L2[m])
             /\ r.save = Null \/ In(r.save, L2[m])
    BY <1>1, <1>2, <1>3, <1>8
  <1> QED
    BY <1>2, <1>4, <1>5, <1>6, <1>7 DEF Framed, m, n

\* A frame more.
LEMMA FramedPush ==
    ASSUME NEW E \in Seq(Seq(Nat)), NEW L, NEW f \in Seq(FrameType), NEW a \in Seq(TokenType),
           NEW E2 \in Seq(Seq(Nat)), NEW L2, NEW b \in Seq(TokenType), NEW r \in FrameType,
           Len(E) = Len(a) + 1, Len(E2) = Len(b) + 1, Len(f) > 0,
           \A p \in 1..Len(a) + 1 : E2[p] = E[p] /\ L2[p] = L[p],
           \A p \in 1..Len(a) : b[p] = a[p],
           r.mark = Len(a) + 1, r.kind # "fn",
           Len(b) = IF r.kind = "when" THEN Len(a) ELSE Len(a) + 1,
           r.kind # "when" =>
             /\ b[r.mark].op = r.kind /\ r.base = Len(L[r.mark])
             /\ r.save = Null \/ In(r.save, L[r.mark])
             /\ Begins(E[Len(a) + 1], E2[Len(a) + 2]),
           r.save_loop_at \in 0..Len(f),
           r.save_loop_at # 0 => f[r.save_loop_at].kind = "for",
           \A k \in 1..Len(f) : Framed(E, L, f, a, k)
    PROVE  \A k \in 1..Len(Append(f, r)) : Framed(E2, L2, Append(f, r), b, k)
  <1> DEFINE g == Append(f, r)
             z == Len(a) + 1
  <1>1. Len(a) \in Nat /\ Len(b) \in Nat /\ Len(f) \in Nat
    BY LenProperties
  <1>2. Len(g) = Len(f) + 1 /\ g[Len(f) + 1] = r /\ \A k \in 1..Len(f) : g[k] = f[k]
    BY AppendProperties
  <1>3. First(r) = Len(b) + 1
    BY <1>1 DEF First
  <1> HIDE DEF g
  <1>4. ASSUME NEW k \in 1..Len(f) PROVE Framed(E2, L2, g, b, k)
    <2> DEFINE m == f[k].mark
               n == First(f[k])
    <2>1. /\ m \in 1..z /\ n \in 1..z
          /\ f[k].kind # "when" =>
               /\ a[m].op = f[k].kind /\ f[k].base = Len(L[m])
               /\ f[k].save = Null \/ In(f[k].save, L[m])
          /\ \A p \in n..z : Begins(E[n], E[p])
          /\ \A j \in k + 1..Len(f) : n <= f[j].mark
          /\ E[n] = E[IF k = Len(f) THEN z ELSE f[k + 1].mark]
          /\ f[k].save_loop_at \in 0..k - 1
          /\ f[k].save_loop_at # 0 => f[f[k].save_loop_at].kind = "for"
          /\ (k = 1 <=> f[k].kind = "fn") /\ (k = 1 => m = 1)
      BY DEF Framed
    <2>11. /\ m \in 1..z /\ n \in 1..z /\ z = Len(a) + 1
           /\ f[k].kind # "when" => n = m + 1
      BY DEF Framed, First
    <2> HIDE DEF m, n, z
    <2>2. f[k].kind # "when" => m \in 1..Len(a)
      BY <1>1, <2>11
    <2>3. m \in 1..Len(b) + 1 /\ n \in 1..Len(b) + 1
      BY <1>1, <2>11, SMTT(30)
    <2>4. ASSUME NEW p \in n..Len(b) + 1 PROVE Begins(E2[n], E2[p])
      <3>1. CASE p \in n..z
        <4>1. p \in 1..z
          BY <1>1, <2>11, <3>1
        <4> QED
          BY <2>1, <2>11, <3>1, <4>1
      <3>2. CASE p = z + 1 /\ r.kind # "when"
        <4>1. /\ n \in 1..Len(E) /\ z \in 1..Len(E) /\ p \in 1..Len(E2) /\ z \in n..z
          BY <1>1, <2>11, <3>2
        <4>2. E[n] \in Seq(Nat) /\ E[z] \in Seq(Nat) /\ E2[p] \in Seq(Nat)
          BY <4>1, PlaceTyped
        <4>3. p = Len(a) + 2
          BY <1>1, <2>11, <3>2
        <4>4. Begins(E[n], E[z]) /\ Begins(E[z], E2[p])
          BY <2>1, <2>11, <3>2, <4>1, <4>3
        <4>5. Begins(E[n], E2[p])
          BY <4>2, <4>4, BeginsOrder, SMTT(30)
        <4> QED
          BY <2>11, <4>5
      <3>3. p \in n..z \/ (p = z + 1 /\ r.kind # "when")
        BY <1>1, <2>11, SMTT(30)
      <3> QED
        BY <3>1, <3>2, <3>3
    <2>5. \A j \in k + 1..Len(g) : n <= g[j].mark
      <3> SUFFICES ASSUME NEW j \in k + 1..Len(g) PROVE n <= g[j].mark
        OBVIOUS
      <3>1. CASE j = Len(g)
        <4>1. n <= z
          BY <1>1, <2>11
        <4>3. j = Len(f) + 1
          BY <1>2, <3>1
        <4>4. g[j] = r
          BY <1>2, <4>3
        <4>2. g[j].mark = z
          BY <2>11, <4>4
        <4> QED
          BY <4>1, <4>2
      <3>2. CASE j # Len(g)
        <4>3. j \in Nat /\ k + 1 <= j /\ j <= Len(f) + 1 /\ j # Len(f) + 1 /\ k \in Nat /\ 1 <= k
          BY <1>1, <1>2, <3>2
        <4>1. j \in k + 1..Len(f) /\ j \in 1..Len(f)
          <5>1. Len(f) \in Nat
            BY <1>1
          <5>2. j <= Len(f) /\ 1 <= j
            BY <4>3, <5>1
          <5> QED
            BY <4>3, <5>1, <5>2
        <4>2. n <= f[j].mark /\ g[j] = f[j]
          BY <1>2, <2>1, <4>1
        <4> QED
          BY <4>2
      <3> QED
        BY <3>1, <3>2
    <2>6. g[k + 1].mark = IF k = Len(f) THEN z ELSE f[k + 1].mark
      <3>1. k # Len(f) => k + 1 \in 1..Len(f)
        BY <1>1
      <3> QED
        BY <1>2, <2>11, <3>1
    <2>7. E2[n] = E2[IF k = Len(g) THEN Len(b) + 1 ELSE g[k + 1].mark]
      <3>1. k # Len(g)
        BY <1>1, <1>2
      <3>2. CASE k = Len(f)
        <4>1. z \in 1..z
          BY <1>1, <2>11
        <4> QED
          BY <2>1, <2>6, <2>11, <3>1, <3>2, <4>1, SMTT(30)
      <3>3. CASE k # Len(f)
        <4>1. k + 1 \in 1..Len(f)
          BY <1>1, <3>3
        <4>2. f[k + 1].mark \in 1..z
          BY <2>11, <4>1 DEF Framed
        <4> QED
          BY <2>1, <2>6, <2>11, <3>1, <3>3, <4>2, ZenonT(60)
      <3> QED
        BY <3>2, <3>3
    <2>8. f[k].kind # "when" =>
               /\ b[m].op = f[k].kind /\ f[k].base = Len(L2[m])
               /\ f[k].save = Null \/ In(f[k].save, L2[m])
      <3> SUFFICES ASSUME f[k].kind # "when"
                   PROVE  /\ b[m].op = f[k].kind /\ f[k].base = Len(L2[m])
                          /\ f[k].save = Null \/ In(f[k].save, L2[m])
        OBVIOUS
      <3>1. L2[m] = L[m]
        BY <2>11
      <3>2. b[m] = a[m]
        BY <2>2
      <3> QED
        BY <2>1, <3>1, <3>2
    <2>9. f[k].save_loop_at # 0 => g[f[k].save_loop_at].kind = "for"
      <3>2. f[k].save_loop_at \in 0..k - 1
        BY <2>1
      <3>1. f[k].save_loop_at # 0 => f[k].save_loop_at \in 1..Len(f)
        BY <1>1, <3>2, SMTT(30)
      <3> QED
        BY <1>2, <2>1, <3>1
    <2>10. g[k] = f[k]
      BY <1>2
    <2> QED
      BY <2>1, <2>3, <2>4, <2>5, <2>7, <2>8, <2>9, <2>10 DEF Framed, m, n
  <1>5. ASSUME NEW k, k = Len(f) + 1 PROVE Framed(E2, L2, g, b, k)
    <2>1. g[k] = r /\ k = Len(g) /\ k # 1
      BY <1>1, <1>2, <1>5
    <2>2. r.mark \in 1..Len(b) + 1 /\ First(r) \in 1..Len(b) + 1
      BY <1>1, <1>3
    <2>3. ASSUME r.kind # "when"
          PROVE  /\ b[r.mark].op = r.kind /\ r.base = Len(L2[r.mark])
                 /\ r.save = Null \/ In(r.save, L2[r.mark])
      <3>1. r.mark \in 1..Len(a) + 1
        BY <1>1
      <3> QED
        BY <2>3, <3>1
    <2>4. \A p \in First(r)..Len(b) + 1 : Begins(E2[First(r)], E2[p])
      <3> SUFFICES ASSUME NEW p \in First(r)..Len(b) + 1 PROVE Begins(E2[First(r)], E2[p])
        OBVIOUS
      <3>1. p = First(r) /\ p \in 1..Len(E2)
        BY <1>1, <1>3
      <3>2. E2[p] \in Seq(Nat)
        BY <3>1, PlaceTyped
      <3> QED
        BY <3>1, <3>2, BeginsOrder
    <2>5. \A j \in k + 1..Len(g) : First(r) <= g[j].mark
      BY <1>1, <1>2, <1>5
    <2>6. r.save_loop_at \in 0..k - 1
      BY <1>1, <1>5
    <2>7. r.save_loop_at # 0 => g[r.save_loop_at].kind = "for"
      <3>1. r.save_loop_at # 0 => r.save_loop_at \in 1..Len(f)
        BY <1>1
      <3> QED
        BY <1>2, <3>1
    <2> QED
      BY <1>3, <2>1, <2>2, <2>3, <2>4, <2>5, <2>6, <2>7 DEF Framed
  <1>6. \A k \in 1..Len(g) : k \in 1..Len(f) \/ k = Len(f) + 1
    BY <1>1, <1>2
  <1>7. \A k \in 1..Len(g) : Framed(E2, L2, g, b, k)
    BY <1>4, <1>5, <1>6
  <1> QED
    BY <1>7 DEF g

\* A frame less: what follows is in the block around it.
LEMMA FramedPop ==
    ASSUME NEW E \in Seq(Seq(Nat)), NEW L, NEW f \in Seq(FrameType), NEW a \in Seq(TokenType),
           NEW E2 \in Seq(Seq(Nat)), NEW L2, NEW b \in Seq(TokenType),
           Len(E) = Len(a) + 1, Len(E2) = Len(b) + 1, Len(f) > 1,
           \A p \in 1..Len(a) + 1 : E2[p] = E[p] /\ L2[p] = L[p],
           \A p \in 1..Len(a) : b[p] = a[p],
           Len(b) = Len(a) \/ Len(b) = Len(a) + 1,
           E2[Len(b) + 1] = E[f[Len(f)].mark],
           \A k \in 1..Len(f) : Framed(E, L, f, a, k)
    PROVE  /\ Prefix(f, Len(f) - 1) \in Seq(FrameType)
           /\ Len(Prefix(f, Len(f) - 1)) = Len(f) - 1
           /\ \A k \in 1..Len(f) - 1 : Prefix(f, Len(f) - 1)[k] = f[k]
           /\ \A k \in 1..Len(f) - 1 : Framed(E2, L2, Prefix(f, Len(f) - 1), b, k)
  <1> DEFINE g == Prefix(f, Len(f) - 1)
             z == Len(a) + 1
  <1>1. Len(a) \in Nat /\ Len(b) \in Nat /\ Len(f) \in Nat /\ Len(f) - 1 \in 0..Len(f)
    BY LenProperties
  <1>2. /\ g \in Seq(FrameType) /\ Len(g) = Len(f) - 1
        /\ \A k \in 1..Len(f) - 1 : g[k] = f[k]
    BY <1>1, PrefixFacts
  <1> HIDE DEF g
  <1>3. ASSUME NEW k \in 1..Len(f) - 1 PROVE Framed(E2, L2, g, b, k)
    <2> DEFINE m == f[k].mark
               n == First(f[k])
    <2>1. k \in 1..Len(f) /\ k # Len(f) /\ Len(f) \in k + 1..Len(f) /\ k + 1 \in 1..Len(f)
      BY <1>1
    <2>2. Framed(E, L, f, a, k)
      BY <2>1
    <2>3. /\ m \in 1..z /\ n \in 1..z
          /\ f[k].kind # "when" =>
               /\ a[m].op = f[k].kind /\ f[k].base = Len(L[m])
               /\ f[k].save = Null \/ In(f[k].save, L[m])
          /\ \A p \in n..z : Begins(E[n], E[p])
          /\ \A j \in k + 1..Len(f) : n <= f[j].mark
          /\ E[n] = E[IF k = Len(f) THEN z ELSE f[k + 1].mark]
          /\ f[k].save_loop_at \in 0..k - 1
          /\ f[k].save_loop_at # 0 => f[f[k].save_loop_at].kind = "for"
          /\ (k = 1 <=> f[k].kind = "fn") /\ (k = 1 => m = 1)
      BY <2>2 DEF Framed
    <2>13. /\ m \in 1..z /\ n \in 1..z /\ z = Len(a) + 1
           /\ f[k].kind # "when" => n = m + 1
      BY <2>2 DEF Framed, First
    <2> HIDE DEF m, n, z
    <2>14. n <= f[Len(f)].mark
      BY <2>1, <2>3
    <2>4. f[k].kind # "when" => m \in 1..Len(a)
      BY <1>1, <2>13
    <2>15. Len(b) + 1 \in Nat /\ z <= Len(b) + 1 /\ z \in Nat /\ (Len(b) + 1 = z \/ Len(b) + 1 = z + 1)
      <3>1. z \in Nat /\ z = Len(a) + 1
        BY <1>1, <2>13
      <3>2. CASE Len(b) = Len(a)
        BY <3>1, <3>2
      <3>3. CASE Len(b) = Len(a) + 1
        BY <3>1, <3>3
      <3> QED
        BY <3>2, <3>3
    <2>5. m \in 1..Len(b) + 1 /\ n \in 1..Len(b) + 1
      BY <2>13, <2>15, SMTT(30)
    <2>6. f[Len(f)].mark \in n..z
      <3>1. Framed(E, L, f, a, Len(f))
        BY <1>1
      <3>2. f[Len(f)].mark \in 1..z
        BY <2>13, <3>1 DEF Framed
      <3> QED
        BY <1>1, <2>13, <2>14, <3>2, SMTT(30)
    <2>7. ASSUME NEW p \in n..Len(b) + 1 PROVE Begins(E2[n], E2[p])
      <3>1. CASE p \in n..z
        <4>1. p \in 1..z
          BY <1>1, <2>13, <3>1
        <4> QED
          BY <2>3, <2>13, <3>1, <4>1
      <3>2. CASE p = Len(b) + 1
        <4>1. Begins(E[n], E[f[Len(f)].mark])
          BY <2>3, <2>6
        <4>2. E2[n] = E[n]
          BY <2>13
        <4>3. E2[p] = E[f[Len(f)].mark]
          BY <3>2
        <4> QED
          BY <4>1, <4>2, <4>3
      <3>3. p \in n..z \/ p = Len(b) + 1
        BY <2>13, <2>15, SMTT(30)
      <3> QED
        BY <3>1, <3>2, <3>3
    <2>8. \A j \in k + 1..Len(g) : n <= g[j].mark
      <3>1. \A j \in k + 1..Len(g) : j \in k + 1..Len(f) /\ g[j] = f[j]
        <4> SUFFICES ASSUME NEW j \in k + 1..Len(g)
                     PROVE  j \in k + 1..Len(f) /\ g[j] = f[j]
          OBVIOUS
        <4>1. k \in Nat /\ Len(f) \in Nat /\ Len(g) = Len(f) - 1
          BY <1>1, <1>2
        <4>2. j \in k + 1..Len(f) /\ j \in 1..Len(f) - 1
          BY <4>1
        <4> QED
          BY <1>2, <4>2
      <3> QED
        BY <2>3, <3>1
    <2>9. E2[n] = E2[IF k = Len(g) THEN Len(b) + 1 ELSE g[k + 1].mark]
      <3>1. CASE k = Len(g)
        <4>1. k + 1 = Len(f)
          BY <1>1, <1>2, <3>1
        <4> QED
          BY <2>1, <2>3, <2>13, <3>1, <4>1, ZenonT(60)
      <3>2. CASE k # Len(g)
        <4>1. k + 1 \in 1..Len(f) - 1
          BY <1>1, <1>2, <3>2
        <4>2. f[k + 1].mark \in 1..z
          BY <2>1, <2>13 DEF Framed
        <4>3. g[k + 1] = f[k + 1]
          BY <1>2, <4>1
        <4>4. E2[n] = E[n] /\ E2[f[k + 1].mark] = E[f[k + 1].mark]
          BY <2>13, <4>2
        <4>5. E[n] = E[f[k + 1].mark]
          BY <2>1, <2>3
        <4> QED
          BY <3>2, <4>3, <4>4, <4>5
      <3> QED
        BY <3>1, <3>2
    <2>10. f[k].kind # "when" =>
               /\ b[m].op = f[k].kind /\ f[k].base = Len(L2[m])
               /\ f[k].save = Null \/ In(f[k].save, L2[m])
      <3> SUFFICES ASSUME f[k].kind # "when"
                   PROVE  /\ b[m].op = f[k].kind /\ f[k].base = Len(L2[m])
                          /\ f[k].save = Null \/ In(f[k].save, L2[m])
        OBVIOUS
      <3>1. L2[m] = L[m]
        BY <2>13
      <3>2. b[m] = a[m]
        BY <2>4
      <3> QED
        BY <2>3, <3>1, <3>2
    <2>11. f[k].save_loop_at # 0 => g[f[k].save_loop_at].kind = "for"
      <3>2. f[k].save_loop_at \in 0..k - 1
        BY <2>3
      <3>1. f[k].save_loop_at # 0 => f[k].save_loop_at \in 1..Len(f) - 1
        BY <1>1, <3>2, SMTT(30)
      <3> QED
        BY <1>2, <2>3, <3>1
    <2>12. g[k] = f[k]
      BY <1>2
    <2> QED
      BY <2>3, <2>5, <2>7, <2>8, <2>9, <2>10, <2>11, <2>12, SMTT(30) DEF Framed, m, n
  <1> QED
    BY <1>2, <1>3 DEF g

-----------------------------------------------------------------------------
(* The tree grows, statement by statement. *)

\* The places and the frames agree with each other and with the resolver.
Growing(E, L, h, a, f, now, cur, loop) ==
    /\ E \in Seq(Seq(Nat)) /\ L \in Seq(Seq(Nat))
    /\ a \in Seq(TokenType) /\ h \in Seq(DeferType) /\ f \in Seq(FrameType)
    /\ Scoped(E, L, h, a)
    /\ Len(f) > 0 /\ \A k \in 1..Len(f) : Framed(E, L, f, a, k)
    /\ L[Len(a) + 1] = now
    /\ cur = Null \/ In(cur, now)
    /\ loop \in 0..Len(f) /\ (loop # 0 => f[loop].kind = "for")

\* The next place is like place q; it is inside a block that is opened.
Copied(S, q) == Append(S, S[q])
Deepened(E, a) == Append(E, Append(E[Len(a) + 1], Len(a) + 1))

\* A tree and its frames.
LEMMA GrowingFacts ==
    ASSUME NEW E, NEW L, NEW h, NEW a, NEW f, NEW now, NEW cur, NEW loop,
           Growing(E, L, h, a, f, now, cur, loop)
    PROVE  /\ E \in Seq(Seq(Nat)) /\ L \in Seq(Seq(Nat))
           /\ a \in Seq(TokenType) /\ h \in Seq(DeferType) /\ f \in Seq(FrameType)
           /\ Len(a) \in Nat /\ Len(h) \in Nat /\ Len(f) \in Nat /\ Len(f) \in 1..Len(f)
           /\ Len(E) = Len(a) + 1 /\ Len(L) = Len(a) + 1
           /\ \A p \in 1..Len(a) + 1 : E[p] \in Seq(Nat) /\ L[p] \in Seq(Nat)
           /\ L[Len(a) + 1] = now /\ now \in Seq(Nat)
           /\ f[Len(f)] \in FrameType
           /\ \A k \in 1..Len(f) :
                f[k].mark \in 1..Len(a) + 1 /\ f[k].mark <= Len(a) + 1 /\ f[k].save_loop_at \in 0..k - 1
  <1>1. /\ E \in Seq(Seq(Nat)) /\ L \in Seq(Seq(Nat))
        /\ a \in Seq(TokenType) /\ h \in Seq(DeferType) /\ f \in Seq(FrameType)
        /\ Len(E) = Len(a) + 1 /\ Len(L) = Len(a) + 1
        /\ L[Len(a) + 1] = now /\ Len(f) > 0
    BY DEF Growing, Scoped
  <1>2. Len(a) \in Nat /\ Len(h) \in Nat /\ Len(f) \in Nat
    BY <1>1, LenProperties
  <1>3. \A p \in 1..Len(a) + 1 : E[p] \in Seq(Nat) /\ L[p] \in Seq(Nat)
    BY <1>1, PlaceTyped
  <1>4. Len(f) \in 1..Len(f) /\ Len(a) + 1 \in 1..Len(a) + 1
    BY <1>1, <1>2
  <1>5. f[Len(f)] \in FrameType
    BY <1>1, <1>4, ElementOfSeq
  <1>6. ASSUME NEW k \in 1..Len(f)
        PROVE  f[k].mark \in 1..Len(a) + 1 /\ f[k].mark <= Len(a) + 1 /\ f[k].save_loop_at \in 0..k - 1
    <2>1. Framed(E, L, f, a, k)
      BY DEF Growing
    <2>2. f[k].mark \in 1..Len(a) + 1 /\ f[k].save_loop_at \in 0..k - 1
      BY <2>1 DEF Framed
    <2> QED
      BY <1>2, <2>2
  <1> QED
    BY <1>1, <1>2, <1>3, <1>4, <1>5, <1>6

\* One place more.
LEMMA GrowingGrows ==
    ASSUME NEW E, NEW L, NEW h, NEW a, NEW f, NEW now, NEW cur, NEW loop,
           Growing(E, L, h, a, f, now, cur, loop),
           NEW e \in Seq(Nat), NEW l \in Seq(Nat), NEW t \in TokenType
    PROVE  /\ Grows(E, L, h, a, e, l, t, Append(E, e), Append(L, l), h, Append(a, t))
           /\ \A n \in DeferType :
                /\ Grows(E, L, h, a, e, l, t, Append(E, e), Append(L, l), Append(h, n), Append(a, t))
                /\ Append(h, n) \in Seq(DeferType)
                /\ Len(Append(h, n)) = Len(h) + 1 /\ Append(h, n)[Len(h) + 1] = n
           /\ Append(E, e) \in Seq(Seq(Nat)) /\ Append(L, l) \in Seq(Seq(Nat))
           /\ Append(a, t) \in Seq(TokenType) /\ Len(Append(a, t)) = Len(a) + 1
           /\ Append(a, t)[Len(a) + 1] = t /\ \A p \in 1..Len(a) : Append(a, t)[p] = a[p]
           /\ Len(Append(E, e)) = Len(a) + 2 /\ Len(Append(L, l)) = Len(a) + 2
           /\ Append(E, e)[Len(a) + 2] = e /\ Append(L, l)[Len(a) + 2] = l
           /\ \A p \in 1..Len(a) + 1 : Append(E, e)[p] = E[p] /\ Append(L, l)[p] = L[p]
  <1>1. /\ E \in Seq(Seq(Nat)) /\ L \in Seq(Seq(Nat))
        /\ a \in Seq(TokenType) /\ h \in Seq(DeferType) /\ Scoped(E, L, h, a)
    BY DEF Growing
  <1>2. Len(h) \in Nat
    BY <1>1, LenProperties
  <1>3. Grows(E, L, h, a, e, l, t, Append(E, e), Append(L, l), h, Append(a, t))
    BY <1>1, <1>2 DEF Grows
  <1>4. ASSUME NEW n \in DeferType
        PROVE  /\ Grows(E, L, h, a, e, l, t, Append(E, e), Append(L, l), Append(h, n), Append(a, t))
               /\ Append(h, n) \in Seq(DeferType)
               /\ Len(Append(h, n)) = Len(h) + 1 /\ Append(h, n)[Len(h) + 1] = n
    <2>1. /\ Append(h, n) \in Seq(DeferType)
          /\ Len(Append(h, n)) = Len(h) + 1 /\ Append(h, n)[Len(h) + 1] = n
          /\ \A d \in 1..Len(h) : Append(h, n)[d] = h[d]
      BY <1>1, AppendProperties
    <2>2. Len(h) <= Len(Append(h, n))
      BY <1>2, <2>1
    <2> QED
      BY <1>1, <2>1, <2>2 DEF Grows
  <1>5. /\ Append(E, e) \in Seq(Seq(Nat)) /\ Append(L, l) \in Seq(Seq(Nat))
        /\ Len(Append(E, e)) = Len(a) + 2 /\ Len(Append(L, l)) = Len(a) + 2
        /\ Len(Append(a, t)) = Len(a) + 1 /\ Append(a, t)[Len(a) + 1] = t
        /\ Append(E, e)[Len(a) + 2] = e /\ Append(L, l)[Len(a) + 2] = l
    <2> DEFINE E2 == Append(E, e)
               L2 == Append(L, l)
               b == Append(a, t)
    <2>1. Grows(E, L, h, a, e, l, t, E2, L2, h, b)
      BY <1>3
    <2> HIDE DEF E2, L2, b
    <2>2. /\ E2 \in Seq(Seq(Nat)) /\ L2 \in Seq(Seq(Nat))
          /\ Len(E2) = Len(a) + 2 /\ Len(L2) = Len(a) + 2
          /\ Len(b) = Len(a) + 1 /\ b[Len(a) + 1] = t
          /\ E2[Len(a) + 2] = e /\ L2[Len(a) + 2] = l
      BY <2>1, GrowsFacts
    <2> QED
      BY <2>2 DEF E2, L2, b
  <1>6. /\ \A p \in 1..Len(a) + 1 : Append(E, e)[p] = E[p] /\ Append(L, l)[p] = L[p]
        /\ \A p \in 1..Len(a) : Append(a, t)[p] = a[p]
    BY <1>3, GrowsFacts, SMTT(30)
  <1>7. Append(a, t) \in Seq(TokenType)
    BY <1>1, AppendProperties
  <1> QED
    BY <1>3, <1>4, <1>5, <1>6, <1>7

\* In front of the statement that comes next, the innermost scope is the block of
\* the last frame, and a loop's frame marks a block that is open.
LEMMA LastFrame ==
    ASSUME NEW E, NEW L, NEW h, NEW a, NEW f, NEW now, NEW cur, NEW loop,
           Growing(E, L, h, a, f, now, cur, loop),
           NEW k \in 1..Len(f), f[k].kind # "when"
    PROVE  /\ f[k].mark \in 1..Len(a) /\ f[k].mark + 1 \in 1..Len(a) + 1
           /\ a[f[k].mark].op = f[k].kind /\ a[f[k].mark].op \in Openers
           /\ E[f[k].mark + 1] = Append(E[f[k].mark], f[k].mark)
           /\ In(f[k].mark, E[Len(a) + 1]) /\ Begins(E[f[k].mark + 1], E[Len(a) + 1])
           /\ f[k].base = Len(L[f[k].mark]) /\ Begins(L[f[k].mark], now)
           /\ f[k].base \in 0..Len(now) /\ Prefix(now, f[k].base) = L[f[k].mark]
           /\ k = Len(f) =>
                /\ E[Len(a) + 1] = Append(E[f[k].mark], f[k].mark)
                /\ E[Len(a) + 1] # <<>> /\ Tip(E[Len(a) + 1]) = f[k].mark
           /\ f[k].save = Null \/ In(f[k].save, L[f[k].mark])
           /\ \A p \in f[k].mark + 1..Len(a) + 1 : Begins(E[f[k].mark + 1], E[p])
  <1> DEFINE z == Len(a) + 1
             m == f[k].mark
  <1>1. /\ f \in Seq(FrameType) /\ Len(a) \in Nat
        /\ \A p \in 1..z : E[p] \in Seq(Nat) /\ L[p] \in Seq(Nat)
        /\ L[z] = now /\ now \in Seq(Nat)
    BY GrowingFacts
  <1>2. f[k] \in FrameType
    BY <1>1, ElementOfSeq
  <1>3. f[k].kind \in Openers
    BY <1>2 DEF FrameType
  <1>4. Framed(E, L, f, a, k) /\ Scoped(E, L, h, a)
    BY DEF Growing
  <1>5. First(f[k]) = m + 1
    BY DEF First
  <1>6. m \in 1..z /\ m + 1 \in 1..z
    BY <1>4, <1>5 DEF Framed
  <1>7. m \in 1..Len(a)
    BY <1>1, <1>6
  <1>8. a[m].op = f[k].kind /\ f[k].base = Len(L[m]) /\ (f[k].save = Null \/ In(f[k].save, L[m]))
    BY <1>4 DEF Framed
  <1>9. E[m + 1] = Append(E[m], m)
    BY <1>3, <1>4, <1>7, <1>8 DEF Scoped, Flows
  <1>10. \A p \in m + 1..z : Begins(E[m + 1], E[p])
    BY <1>4, <1>5 DEF Framed
  <1>11. z \in m + 1..z /\ z \in 1..z
    BY <1>1, <1>6
  <1>12. Begins(E[m + 1], E[z])
    BY <1>10, <1>11
  <1>13. E[m] \in Seq(Nat) /\ E[z] \in Seq(Nat) /\ m \in Nat
    BY <1>1, <1>6, <1>11
  <1> DEFINE s == Append(E[m], m)
  <1>14. /\ s \in Seq(Nat) /\ In(m, s) /\ s # <<>> /\ Tip(s) = m
         /\ Len(s) = Len(E[m]) + 1 /\ s[Len(E[m]) + 1] = m
    <2>1. ASSUME NEW x \in Seq(Nat)
          PROVE  /\ Append(x, m) \in Seq(Nat) /\ In(m, Append(x, m)) /\ Append(x, m) # <<>>
                 /\ Tip(Append(x, m)) = m
                 /\ Len(Append(x, m)) = Len(x) + 1 /\ Append(x, m)[Len(x) + 1] = m
      BY <1>13, BeginsLonger
    <2> QED
      BY <1>13, <2>1
  <1>15. s = E[m + 1]
    BY <1>9
  <1> HIDE DEF s
  <1>16. In(m, E[z])
    BY <1>12, <1>13, <1>14, <1>15, InBegins
  <1>17. k = Len(f) => E[z] = s
    BY <1>4, <1>5, <1>15 DEF Framed
  <1> HIDE DEF z, m
  <1>18. Begins(L[m], now)
    <2> DEFINE i == Len(E[m]) + 1
    <2>1. i \in 1..Len(E[z]) /\ E[z][i] = m
      <3>1. Len(E[m]) \in Nat /\ Len(E[z]) \in Nat
        BY <1>13, LenProperties
      <3>2. Len(s) <= Len(E[z]) /\ \A j \in 1..Len(s) : s[j] = E[z][j]
        BY <1>12, <1>15 DEF Begins
      <3>3. i \in 1..Len(s)
        BY <1>14, <3>1
      <3> QED
        BY <1>14, <3>1, <3>2, <3>3, SMTT(30)
    <2>2. Around(E, L, a, z)
      BY <1>4, <1>11 DEF Scoped, z
    <2> QED
      BY <1>1, <2>1, <2>2 DEF Around
  <1>19. L[m] \in Seq(Nat)
    BY <1>1, <1>6
  <1>20. Len(L[m]) \in Nat /\ Len(now) \in Nat /\ Len(L[m]) <= Len(now)
    BY <1>1, <1>18, <1>19, LenProperties DEF Begins
  <1>21. f[k].base \in 0..Len(now)
    BY <1>8, <1>20
  <1>22. Prefix(now, f[k].base) = L[m]
    <2> DEFINE u == Prefix(now, f[k].base)
    <2>1. u \in Seq(Nat) /\ Len(u) = f[k].base /\ Begins(u, now)
      BY <1>1, <1>21, BeginsPrefix
    <2> HIDE DEF u
    <2>2. Len(u) = Len(L[m])
      BY <1>8, <2>1
    <2>3. u = L[m]
      BY <1>1, <1>18, <1>19, <2>1, <2>2, BeginsOrder
    <2> QED
      BY <2>3 DEF u
  <1> QED
    BY <1>3, <1>6, <1>7, <1>8, <1>9, <1>10, <1>12, <1>14, <1>15, <1>16, <1>17, <1>18, <1>21, <1>22 DEF z, m, s

\* A jump: the next place is like the one in front of it.
LEMMA GrowsJump ==
    ASSUME NEW E, NEW L, NEW h, NEW a, NEW f, NEW now, NEW cur, NEW loop,
           Growing(E, L, h, a, f, now, cur, loop),
           NEW t \in TokenType, t.op \in Jumps, t.begin = cur,
           t.op = "return" => t.due = now,
           t.op # "return" =>
             loop # 0 /\ t.loop = f[loop].mark /\ t.due = Above(now, f[loop].base)
    PROVE  Growing(Copied(E, Len(a) + 1), Copied(L, Len(a) + 1), h, Append(a, t), f, now, cur, loop)
  <1> DEFINE z == Len(a) + 1
             e == E[z]
             l == L[z]
             E2 == Append(E, e)
             L2 == Append(L, l)
             b == Append(a, t)
  <1>1. /\ E \in Seq(Seq(Nat)) /\ L \in Seq(Seq(Nat))
        /\ a \in Seq(TokenType) /\ h \in Seq(DeferType) /\ f \in Seq(FrameType)
        /\ Len(a) \in Nat /\ Len(h) \in Nat /\ Len(f) \in Nat
        /\ Len(E) = Len(a) + 1 /\ Len(L) = Len(a) + 1
        /\ e \in Seq(Nat) /\ l \in Seq(Nat) /\ l = now
    BY GrowingFacts
  <1>2. /\ Grows(E, L, h, a, e, l, t, E2, L2, h, b)
        /\ E2 \in Seq(Seq(Nat)) /\ L2 \in Seq(Seq(Nat)) /\ b \in Seq(TokenType)
        /\ Len(b) = Len(a) + 1 /\ b[z] = t /\ \A p \in 1..Len(a) : b[p] = a[p]
        /\ Len(E2) = Len(a) + 2 /\ E2[Len(a) + 2] = e /\ L2[Len(a) + 2] = l
        /\ \A p \in 1..Len(a) + 1 : E2[p] = E[p] /\ L2[p] = L[p]
    BY <1>1, GrowingGrows
  <1>3. z \in 1..Len(a) + 1 /\ z = Len(a) + 1 /\ Len(a) + 2 = Len(b) + 1
    BY <1>1, <1>2
  <1>4. e = E[z] /\ l = L[z]
    OBVIOUS
  <1> HIDE DEF z, E2, L2, b
  <1>5. Around(E2, L2, b, Len(a) + 2) /\ InForce(E2, L2, h, Len(a) + 2)
    BY <1>2, <1>3, <1>4, PlaceLike
  <1>6. DueOK(E2, L2, b, z)
    <2>1. E2[z] = e /\ L2[z] = now
      BY <1>1, <1>2, <1>3, <1>4
    <2>2. t.begin = Null \/ In(t.begin, now)
      BY DEF Growing
    <2>3. ASSUME t.op # "return"
          PROVE  In(t.loop, e) /\ b[t.loop].op = "for" /\ t.due = Above(now, Len(L2[t.loop]))
      <3>1. loop \in 1..Len(f) /\ f[loop].kind = "for"
        BY <1>1, <2>3 DEF Growing
      <3>2. t.loop = f[loop].mark /\ t.due = Above(now, f[loop].base)
        BY <2>3
      <3>3. /\ f[loop].mark \in 1..Len(a) /\ a[f[loop].mark].op = "for"
            /\ In(f[loop].mark, E[Len(a) + 1]) /\ f[loop].base = Len(L[f[loop].mark])
        BY <3>1, LastFrame, SMTT(30)
      <3>5. f[loop].mark \in 1..Len(a) + 1
        BY <1>1, <3>3, SMTT(30)
      <3>4. L2[f[loop].mark] = L[f[loop].mark] /\ b[f[loop].mark] = a[f[loop].mark]
        BY <1>2, <3>3, <3>5
      <3> QED
        BY <1>3, <1>4, <3>2, <3>3, <3>4
    <2> QED
      BY <1>1, <1>2, <2>1, <2>2, <2>3 DEF DueOK, Jumps
  <1>7. t.op \notin Openers /\ t.op # "end"
    BY DEF Jumps, Openers
  <1>8. \A d \in Len(h) + 1..Len(h) : BodyIn(E2, L2, h, b, d)
    BY <1>1
  <1>9. Scoped(E2, L2, h, b)
    BY <1>2, <1>3, <1>4, <1>5, <1>6, <1>7, <1>8, ScopedGrows
  <1>10. \A p \in Len(a) + 2..Len(b) + 1 : Begins(E[Len(a) + 1], E2[p])
    <2>1. Begins(e, e)
      BY <1>1, BeginsOrder
    <2> QED
      BY <1>1, <1>2, <1>3, <1>4, <2>1
  <1>11. ASSUME NEW k \in 1..Len(f) PROVE Framed(E2, L2, f, b, k)
    <2>1. Framed(E, L, f, a, k) /\ \A j \in 1..Len(f) : f[j].mark <= Len(a) + 1
      <3>1. Framed(E, L, f, a, k)
        BY DEF Growing
      <3>2. \A j \in 1..Len(f) : f[j].mark <= Len(a) + 1
        BY GrowingFacts
      <3> QED
        BY <3>1, <3>2
    <2>2. Len(E2) = Len(b) + 1 /\ Len(b) >= Len(a) /\ E2[Len(b) + 1] = E[Len(a) + 1]
      BY <1>1, <1>2, <1>3, <1>4
    <2> QED
      BY <1>1, <1>2, <1>10, <2>1, <2>2, FramedStays
  <1>12. L2[Len(b) + 1] = now
    BY <1>1, <1>2, <1>3
  <1>13. Growing(E2, L2, h, b, f, now, cur, loop)
    BY <1>1, <1>2, <1>9, <1>11, <1>12 DEF Growing
  <1> QED
    BY <1>13 DEF E2, L2, b, z, Copied

\* A block is opened, with a frame of its own.
LEMMA GrowsOpen ==
    ASSUME NEW E, NEW L, NEW h, NEW a, NEW f, NEW now, NEW cur, NEW loop,
           Growing(E, L, h, a, f, now, cur, loop),
           NEW t \in TokenType, t.op \in {"if", "for", "defer"},
           NEW r \in FrameType, r.kind = t.op, r.mark = Len(a) + 1, r.base = Len(now),
           r.save = cur, r.save_loop_at = loop,
           NEW inner, inner = loop \/ (inner = Len(f) + 1 /\ t.op = "for")
    PROVE  Growing(Deepened(E, a), Copied(L, Len(a) + 1), h, Append(a, t), Append(f, r), now, cur, inner)
  <1> DEFINE z == Len(a) + 1
             e == Append(E[z], z)
             l == L[z]
             E2 == Append(E, e)
             L2 == Append(L, l)
             b == Append(a, t)
             g == Append(f, r)
  <1>1. /\ E \in Seq(Seq(Nat)) /\ L \in Seq(Seq(Nat))
        /\ a \in Seq(TokenType) /\ h \in Seq(DeferType) /\ f \in Seq(FrameType)
        /\ Len(a) \in Nat /\ Len(h) \in Nat /\ Len(f) \in Nat /\ Len(f) \in 1..Len(f)
        /\ Len(E) = Len(a) + 1 /\ Len(L) = Len(a) + 1
        /\ E[z] \in Seq(Nat) /\ l \in Seq(Nat) /\ l = now /\ z \in Nat
    BY GrowingFacts
  <1>2. e \in Seq(Nat) /\ Begins(E[z], e)
    BY <1>1, BeginsLonger
  <1>5. e = Append(E[Len(a) + 1], Len(a) + 1) /\ l = L[Len(a) + 1] /\ z = Len(a) + 1
    OBVIOUS
  <1> HIDE DEF z, e, l
  <1>3. /\ Grows(E, L, h, a, e, l, t, E2, L2, h, b)
        /\ E2 \in Seq(Seq(Nat)) /\ L2 \in Seq(Seq(Nat)) /\ b \in Seq(TokenType)
        /\ Len(b) = Len(a) + 1 /\ b[z] = t /\ \A p \in 1..Len(a) : b[p] = a[p]
        /\ Len(E2) = Len(a) + 2 /\ E2[Len(a) + 2] = e /\ L2[Len(a) + 2] = l
        /\ \A p \in 1..Len(a) + 1 : E2[p] = E[p] /\ L2[p] = L[p]
    <2>2. Grows(E, L, h, a, e, l, t, E2, L2, h, b)
      BY <1>1, <1>2, GrowingGrows
    <2>3. /\ E2 \in Seq(Seq(Nat)) /\ L2 \in Seq(Seq(Nat)) /\ b \in Seq(TokenType)
          /\ Len(b) = Len(a) + 1 /\ b[Len(a) + 1] = t
      BY <1>1, <1>2, GrowingGrows
    <2>4. /\ \A p \in 1..Len(a) : b[p] = a[p]
          /\ \A p \in 1..Len(a) + 1 : E2[p] = E[p] /\ L2[p] = L[p]
      BY <1>1, <1>2, GrowingGrows
    <2>5. Len(E2) = Len(a) + 2 /\ E2[Len(a) + 2] = e /\ L2[Len(a) + 2] = l
      BY <1>1, <1>2, GrowingGrows
    <2> QED
      BY <1>5, <2>2, <2>3, <2>4, <2>5
  <1>4. z = Len(a) + 1 /\ Len(a) + 2 = Len(b) + 1 /\ Len(E2) = Len(b) + 1
    BY <1>1, <1>3, <1>5
  <1>6. Len(g) = Len(f) + 1 /\ g \in Seq(FrameType) /\ g[Len(f) + 1] = r /\ \A k \in 1..Len(f) : g[k] = f[k]
    BY <1>1, AppendProperties
  <1>7. t.op \in Openers /\ t.op \notin Jumps /\ t.op \notin Exits /\ t.op # "end" /\ t.op # "when" /\ t.op # "fn"
    BY DEF Openers, Jumps, Exits
  <1> HIDE DEF E2, L2, b, g
  <1>8. Around(E2, L2, b, Len(a) + 2) /\ InForce(E2, L2, h, Len(a) + 2)
    BY <1>3, <1>5, <1>7, PlaceInside
  <1>9. DueOK(E2, L2, b, z)
    BY <1>3, <1>7 DEF DueOK, Jumps, Exits
  <1>10. \A d \in Len(h) + 1..Len(h) : BodyIn(E2, L2, h, b, d)
    BY <1>1
  <1>11. Scoped(E2, L2, h, b)
    <2>1. DueOK(E2, L2, b, Len(a) + 1)
      BY <1>4, <1>9
    <2> QED
      BY <1>3, <1>5, <1>7, <1>8, <1>10, <2>1, ScopedGrows
  <1>12. \A k \in 1..Len(g) : Framed(E2, L2, g, b, k)
    <2>1. b[r.mark].op = r.kind /\ r.base = Len(L[r.mark]) /\ (r.save = Null \/ In(r.save, L[r.mark]))
      BY <1>1, <1>3, <1>4, <1>5 DEF Growing
    <2>2. Begins(E[Len(a) + 1], E2[Len(a) + 2])
      BY <1>2, <1>3, <1>4
    <2>3. /\ r.save_loop_at \in 0..Len(f) /\ (r.save_loop_at # 0 => f[r.save_loop_at].kind = "for")
          /\ Len(f) > 0 /\ \A k \in 1..Len(f) : Framed(E, L, f, a, k)
      BY DEF Growing
    <2>4. Len(b) = IF r.kind = "when" THEN Len(a) ELSE Len(a) + 1
      BY <1>3, <1>7
    <2> QED
      BY <1>1, <1>3, <1>4, <1>7, <2>1, <2>2, <2>3, <2>4, FramedPush DEF g
  <1>13. L2[Len(b) + 1] = now
    BY <1>1, <1>3, <1>4
  <1>14. inner \in 0..Len(g) /\ (inner # 0 => g[inner].kind = "for")
    <2>1. loop \in 0..Len(f) /\ (loop # 0 => f[loop].kind = "for")
      BY DEF Growing
    <2>2. CASE inner = loop
      <3>1. loop # 0 => loop \in 1..Len(f)
        BY <1>1, <2>1
      <3>2. loop # 0 => g[loop] = f[loop]
        BY <1>6, <3>1
      <3> QED
        BY <1>1, <1>6, <2>1, <2>2, <3>2
    <2>3. CASE inner = Len(f) + 1 /\ t.op = "for"
      BY <1>1, <1>6, <2>3
    <2> QED
      BY <2>2, <2>3
  <1>15. Len(g) > 0 /\ (cur = Null \/ In(cur, now))
    BY <1>1, <1>6 DEF Growing
  <1>16. Growing(E2, L2, h, b, g, now, cur, inner)
    BY <1>1, <1>3, <1>6, <1>11, <1>12, <1>13, <1>14, <1>15 DEF Growing
  <1> QED
    BY <1>16 DEF E2, L2, b, g, e, l, z, Copied, Deepened

\* The arm of a `when`: a frame and no token.
LEMMA GrowsWhen ==
    ASSUME NEW E, NEW L, NEW h, NEW a, NEW f, NEW now, NEW cur, NEW loop,
           Growing(E, L, h, a, f, now, cur, loop),
           NEW r \in FrameType, r.kind = "when", r.mark = Len(a) + 1, r.save_loop_at = loop
    PROVE  Growing(E, L, h, a, Append(f, r), now, cur, loop)
  <1> DEFINE g == Append(f, r)
  <1>1. /\ E \in Seq(Seq(Nat)) /\ L \in Seq(Seq(Nat))
        /\ a \in Seq(TokenType) /\ h \in Seq(DeferType) /\ f \in Seq(FrameType)
        /\ Len(a) \in Nat /\ Len(f) \in Nat
        /\ Len(E) = Len(a) + 1
    BY GrowingFacts
  <1>2. Len(g) = Len(f) + 1 /\ g \in Seq(FrameType) /\ \A k \in 1..Len(f) : g[k] = f[k]
    BY <1>1, AppendProperties
  <1>3. /\ loop \in 0..Len(f) /\ (loop # 0 => f[loop].kind = "for")
        /\ Len(f) > 0 /\ \A k \in 1..Len(f) : Framed(E, L, f, a, k)
        /\ Scoped(E, L, h, a) /\ L[Len(a) + 1] = now /\ (cur = Null \/ In(cur, now))
    BY DEF Growing
  <1>4. \A k \in 1..Len(g) : Framed(E, L, g, a, k)
    <2>1. /\ r.kind # "fn" /\ Len(a) = IF r.kind = "when" THEN Len(a) ELSE Len(a) + 1
          /\ \A p \in 1..Len(a) + 1 : E[p] = E[p] /\ L[p] = L[p]
          /\ \A p \in 1..Len(a) : a[p] = a[p]
      OBVIOUS
    <2> QED
      BY <1>1, <1>3, <2>1, FramedPush
  <1>5. loop # 0 => g[loop].kind = "for"
    <2>1. loop # 0 => loop \in 1..Len(f)
      BY <1>1, <1>3
    <2> QED
      BY <1>2, <1>3, <2>1
  <1>6. Len(g) > 0 /\ loop \in 0..Len(g)
    BY <1>1, <1>2, <1>3
  <1> QED
    BY <1>1, <1>2, <1>3, <1>4, <1>5, <1>6 DEF Growing

\* The end of a `when` arm.
LEMMA GrowsEndWhen ==
    ASSUME NEW E, NEW L, NEW h, NEW a, NEW f, NEW now, NEW cur, NEW loop,
           Growing(E, L, h, a, f, now, cur, loop), Len(f) > 1, f[Len(f)].kind = "when"
    PROVE  Growing(E, L, h, a, Prefix(f, Len(f) - 1), now, cur, loop)
  <1> DEFINE g == Prefix(f, Len(f) - 1)
  <1>1. /\ E \in Seq(Seq(Nat)) /\ L \in Seq(Seq(Nat))
        /\ a \in Seq(TokenType) /\ h \in Seq(DeferType) /\ f \in Seq(FrameType)
        /\ Len(a) \in Nat /\ Len(f) \in Nat /\ Len(f) \in 1..Len(f)
        /\ Len(E) = Len(a) + 1
    BY GrowingFacts
  <1>2. /\ loop \in 0..Len(f) /\ (loop # 0 => f[loop].kind = "for")
        /\ \A k \in 1..Len(f) : Framed(E, L, f, a, k)
        /\ Scoped(E, L, h, a) /\ L[Len(a) + 1] = now /\ (cur = Null \/ In(cur, now))
    BY DEF Growing
  <1>3. E[Len(a) + 1] = E[f[Len(f)].mark]
    <2>1. Framed(E, L, f, a, Len(f))
      BY <1>1, <1>2
    <2> QED
      BY <2>1 DEF Framed, First
  <1>4. /\ g \in Seq(FrameType) /\ Len(g) = Len(f) - 1
        /\ \A k \in 1..Len(f) - 1 : g[k] = f[k]
        /\ \A k \in 1..Len(f) - 1 : Framed(E, L, g, a, k)
    <2>1. /\ \A p \in 1..Len(a) + 1 : E[p] = E[p] /\ L[p] = L[p]
          /\ \A p \in 1..Len(a) : a[p] = a[p]
      OBVIOUS
    <2> QED
      BY <1>1, <1>2, <1>3, <2>1, FramedPop, ZenonT(60)
  <1> HIDE DEF g
  <1>5. loop # Len(f)
    BY <1>1, <1>2
  <1>6. loop \in 0..Len(g) /\ (loop # 0 => loop \in 1..Len(f) - 1)
    BY <1>1, <1>2, <1>4, <1>5
  <1>7. loop # 0 => g[loop].kind = "for"
    BY <1>2, <1>4, <1>6
  <1>8. Len(g) > 0 /\ \A k \in 1..Len(g) : Framed(E, L, g, a, k)
    BY <1>1, <1>4
  <1>9. Growing(E, L, h, a, g, now, cur, loop)
    BY <1>1, <1>2, <1>4, <1>6, <1>7, <1>8 DEF Growing
  <1> QED
    BY <1>9 DEF g

\* The end of a block: the defers in force are those in front of it, and the loop
\* is the frame's when it was a loop.
LEMMA GrowsEnd ==
    ASSUME NEW E, NEW L, NEW h, NEW a, NEW f, NEW now, NEW cur, NEW loop,
           Growing(E, L, h, a, f, now, cur, loop), Len(f) > 1, f[Len(f)].kind \in {"if", "for"},
           NEW t \in TokenType, t.op = "end", t.begin = cur, t.due = Above(now, f[Len(f)].base),
           NEW outer, outer = IF f[Len(f)].kind = "for" THEN f[Len(f)].save_loop_at ELSE loop
    PROVE  Growing(Copied(E, f[Len(f)].mark), Copied(L, f[Len(f)].mark), h, Append(a, t),
                   Prefix(f, Len(f) - 1), Prefix(now, f[Len(f)].base), f[Len(f)].save, outer)
  <1> DEFINE z == Len(a) + 1
             m == f[Len(f)].mark
             e == E[m]
             l == L[m]
             E2 == Append(E, e)
             L2 == Append(L, l)
             b == Append(a, t)
             g == Prefix(f, Len(f) - 1)
  <1>1. /\ E \in Seq(Seq(Nat)) /\ L \in Seq(Seq(Nat))
        /\ a \in Seq(TokenType) /\ h \in Seq(DeferType) /\ f \in Seq(FrameType)
        /\ Len(a) \in Nat /\ Len(h) \in Nat /\ Len(f) \in Nat /\ Len(f) \in 1..Len(f)
        /\ Len(E) = Len(a) + 1 /\ Len(L) = Len(a) + 1
        /\ L[z] = now /\ z \in Nat /\ m \in 1..Len(a) + 1
        /\ e \in Seq(Nat) /\ l \in Seq(Nat) /\ f[Len(f)].save_loop_at \in 0..Len(f) - 1
    BY GrowingFacts, SMTT(30)
  <1>2. /\ m \in 1..Len(a) /\ a[m].op = f[Len(f)].kind /\ E[z] # <<>> /\ Tip(E[z]) = m
        /\ f[Len(f)].base = Len(L[m]) /\ Prefix(now, f[Len(f)].base) = l
        /\ f[Len(f)].save = Null \/ In(f[Len(f)].save, L[m])
    <2>1. Len(f) \in 1..Len(f) /\ f[Len(f)].kind # "when"
      BY <1>1
    <2>2. /\ f[Len(f)].mark \in 1..Len(a) /\ a[f[Len(f)].mark].op = f[Len(f)].kind
          /\ f[Len(f)].base = Len(L[f[Len(f)].mark]) /\ Prefix(now, f[Len(f)].base) = L[f[Len(f)].mark]
          /\ f[Len(f)].save = Null \/ In(f[Len(f)].save, L[f[Len(f)].mark])
      BY <2>1, LastFrame
    <2>3. E[Len(a) + 1] # <<>> /\ Tip(E[Len(a) + 1]) = f[Len(f)].mark
      BY <2>1, LastFrame
    <2> QED
      BY <2>2, <2>3
  <1>15. e = E[m] /\ l = L[m] /\ m = f[Len(f)].mark /\ z = Len(a) + 1
    OBVIOUS
  <1> HIDE DEF z, m, e, l
  <1>3. /\ Grows(E, L, h, a, e, l, t, E2, L2, h, b)
        /\ E2 \in Seq(Seq(Nat)) /\ L2 \in Seq(Seq(Nat)) /\ b \in Seq(TokenType)
        /\ Len(b) = Len(a) + 1 /\ b[Len(a) + 1] = t /\ \A p \in 1..Len(a) : b[p] = a[p]
        /\ Len(E2) = Len(a) + 2 /\ E2[Len(a) + 2] = e /\ L2[Len(a) + 2] = l
        /\ \A p \in 1..Len(a) + 1 : E2[p] = E[p] /\ L2[p] = L[p]
    <2>2. Grows(E, L, h, a, e, l, t, E2, L2, h, b)
      BY <1>1, GrowingGrows
    <2>3. /\ E2 \in Seq(Seq(Nat)) /\ L2 \in Seq(Seq(Nat)) /\ b \in Seq(TokenType)
          /\ Len(b) = Len(a) + 1 /\ b[Len(a) + 1] = t
      BY <1>1, GrowingGrows
    <2>4. /\ \A p \in 1..Len(a) : b[p] = a[p]
          /\ \A p \in 1..Len(a) + 1 : E2[p] = E[p] /\ L2[p] = L[p]
      BY <1>1, GrowingGrows
    <2>5. Len(E2) = Len(a) + 2 /\ E2[Len(a) + 2] = e /\ L2[Len(a) + 2] = l
      BY <1>1, GrowingGrows, SMTT(30)
    <2> QED
      BY <2>2, <2>3, <2>4, <2>5
  <1>4. z = Len(a) + 1 /\ Len(a) + 2 = Len(b) + 1 /\ z \in 1..Len(a) + 1
    BY <1>1, <1>3, <1>15
  <1> HIDE DEF E2, L2, b, g
  <1>5. Around(E2, L2, b, Len(a) + 2) /\ InForce(E2, L2, h, Len(a) + 2)
    <2>1. Grows(E, L, h, a, e, l, t, E2, L2, h, b)
      BY <1>3
    <2>2. m \in 1..Len(a) + 1
      BY <1>1
    <2> QED
      BY <1>15, <2>1, <2>2, PlaceLike
  <1>6. t.op \notin Openers /\ t.op \notin Jumps /\ t.op \in Exits
    BY DEF Openers, Jumps, Exits
  <1>7. DueOK(E2, L2, b, z)
    <2>1. b[z] = t /\ L2[z] = now /\ E2[z] = E[z] /\ L2[m] = l
      BY <1>1, <1>3, <1>4, <1>15
    <2>2. t.begin = Null \/ In(t.begin, now)
      BY DEF Growing
    <2> QED
      BY <1>2, <1>15, <2>1, <2>2 DEF DueOK
  <1>8. \A d \in Len(h) + 1..Len(h) : BodyIn(E2, L2, h, b, d)
    BY <1>1
  <1>9. Scoped(E2, L2, h, b)
    <2>1. /\ t.op = "end" => /\ E[Len(a) + 1] # <<>> /\ e = E[Tip(E[Len(a) + 1])]
                             /\ a[Tip(E[Len(a) + 1])].op # "defer" => l = L[Tip(E[Len(a) + 1])]
          /\ DueOK(E2, L2, b, Len(a) + 1)
      BY <1>2, <1>4, <1>7, <1>15
    <2> QED
      BY <1>3, <1>5, <1>6, <1>8, <2>1, ScopedGrows
  <1>10. /\ g \in Seq(FrameType) /\ Len(g) = Len(f) - 1
         /\ \A k \in 1..Len(f) - 1 : g[k] = f[k]
         /\ \A k \in 1..Len(f) - 1 : Framed(E2, L2, g, b, k)
    <2>1. \A k \in 1..Len(f) : Framed(E, L, f, a, k)
      BY DEF Growing
    <2>2. Len(E2) = Len(b) + 1 /\ E2[Len(b) + 1] = E[f[Len(f)].mark]
      BY <1>1, <1>3, <1>4, <1>15
    <2>3. Len(b) = Len(a) \/ Len(b) = Len(a) + 1
      BY <1>3
    <2>4. /\ \A p \in 1..Len(a) : b[p] = a[p]
          /\ \A p \in 1..Len(a) + 1 : E2[p] = E[p] /\ L2[p] = L[p]
          /\ E2 \in Seq(Seq(Nat)) /\ b \in Seq(TokenType)
      BY <1>3
    <2>5. /\ E \in Seq(Seq(Nat)) /\ f \in Seq(FrameType) /\ a \in Seq(TokenType)
          /\ Len(E) = Len(a) + 1
      BY <1>1
    <2>6. \A k \in 1..Len(f) - 1 : Framed(E2, L2, g, b, k)
      BY <2>1, <2>2, <2>3, <2>4, <2>5, FramedPop DEF g
    <2>7. Len(f) - 1 \in 0..Len(f)
      BY <1>1
    <2>8. /\ g \in Seq(FrameType) /\ Len(g) = Len(f) - 1
          /\ \A k \in 1..Len(f) - 1 : g[k] = f[k]
      BY <2>5, <2>7, PrefixFacts DEF g
    <2> QED
      BY <2>6, <2>8
  <1>11. outer \in 0..Len(g) /\ (outer # 0 => g[outer].kind = "for")
    <2>1. loop \in 0..Len(f) /\ (loop # 0 => f[loop].kind = "for")
      BY DEF Growing
    <2>2. outer \in 0..Len(f) - 1 /\ (outer # 0 => f[outer].kind = "for")
      <3>1. CASE f[Len(f)].kind = "for"
        <4>1. Framed(E, L, f, a, Len(f))
          BY <1>1 DEF Growing
        <4> QED
          BY <3>1, <4>1 DEF Framed
      <3>2. CASE f[Len(f)].kind # "for"
        <4>1. loop # Len(f)
          BY <1>1, <2>1, <3>2
        <4> QED
          BY <1>1, <2>1, <3>2, <4>1
      <3> QED
        BY <3>1, <3>2
    <2>3. outer # 0 => outer \in 1..Len(f) - 1
      BY <1>1, <2>2, SMTT(30)
    <2> QED
      BY <1>10, <2>2, <2>3
  <1>12. Len(g) > 0 /\ \A k \in 1..Len(g) : Framed(E2, L2, g, b, k)
    BY <1>1, <1>10
  <1>13. L2[Len(b) + 1] = l /\ (f[Len(f)].save = Null \/ In(f[Len(f)].save, l))
    BY <1>2, <1>3, <1>4, <1>15
  <1>14. Growing(E2, L2, h, b, g, l, f[Len(f)].save, outer)
    BY <1>1, <1>3, <1>9, <1>10, <1>11, <1>12, <1>13 DEF Growing
  <1> QED
    BY <1>2, <1>14 DEF E2, L2, b, g, e, l, m, Copied

\* The end of a deferred body: the new defer is in force behind it.
LEMMA GrowsDefer ==
    ASSUME NEW E, NEW L, NEW h, NEW a, NEW f, NEW now, NEW cur, NEW loop,
           Growing(E, L, h, a, f, now, cur, loop), Len(f) > 1, f[Len(f)].kind = "defer",
           NEW t \in TokenType, t.op = "end", t.begin = cur, t.due = Above(now, f[Len(f)].base),
           NEW n \in DeferType, n.prev = f[Len(f)].save, n.lo = f[Len(f)].mark, n.hi = Len(a) + 1
    PROVE  Growing(Copied(E, f[Len(f)].mark), Append(L, Append(L[f[Len(f)].mark], Len(h) + 1)),
                   Append(h, n), Append(a, t), Prefix(f, Len(f) - 1),
                   Append(Prefix(now, f[Len(f)].base), Len(h) + 1), Len(h) + 1, loop)
  <1> DEFINE z == Len(a) + 1
             m == f[Len(f)].mark
             e == E[m]
             l == Append(L[m], Len(h) + 1)
             E2 == Append(E, e)
             L2 == Append(L, l)
             h2 == Append(h, n)
             b == Append(a, t)
             g == Prefix(f, Len(f) - 1)
  <1>1. /\ E \in Seq(Seq(Nat)) /\ L \in Seq(Seq(Nat))
        /\ a \in Seq(TokenType) /\ h \in Seq(DeferType) /\ f \in Seq(FrameType)
        /\ Len(a) \in Nat /\ Len(h) \in Nat /\ Len(f) \in Nat /\ Len(f) \in 1..Len(f)
        /\ Len(E) = Len(a) + 1 /\ Len(L) = Len(a) + 1
        /\ L[z] = now /\ z \in Nat /\ m \in 1..Len(a) + 1
        /\ e \in Seq(Nat) /\ L[m] \in Seq(Nat)
    BY GrowingFacts
  <1>2. /\ m \in 1..Len(a) /\ a[m].op = "defer" /\ E[z] # <<>> /\ Tip(E[z]) = m
        /\ f[Len(f)].base = Len(L[m]) /\ Prefix(now, f[Len(f)].base) = L[m]
        /\ f[Len(f)].save = Null \/ In(f[Len(f)].save, L[m])
        /\ \A p \in m + 1..z : Begins(E[m + 1], E[p])
    <2>1. Len(f) \in 1..Len(f) /\ f[Len(f)].kind # "when"
      BY <1>1
    <2>2. /\ f[Len(f)].mark \in 1..Len(a) /\ a[f[Len(f)].mark].op = f[Len(f)].kind
          /\ f[Len(f)].base = Len(L[f[Len(f)].mark]) /\ Prefix(now, f[Len(f)].base) = L[f[Len(f)].mark]
          /\ f[Len(f)].save = Null \/ In(f[Len(f)].save, L[f[Len(f)].mark])
      BY <2>1, LastFrame
    <2>3. /\ E[Len(a) + 1] # <<>> /\ Tip(E[Len(a) + 1]) = f[Len(f)].mark
          /\ \A p \in f[Len(f)].mark + 1..Len(a) + 1 : Begins(E[f[Len(f)].mark + 1], E[p])
      BY <2>1, LastFrame
    <2> QED
      BY <2>2, <2>3
  <1>15. e = E[m] /\ l = Append(L[m], Len(h) + 1) /\ m = f[Len(f)].mark /\ z = Len(a) + 1
    OBVIOUS
  <1>16. l \in Seq(Nat) /\ In(Len(h) + 1, l)
    <2>1. Len(h) + 1 \in Nat
      BY <1>1
    <2>2. ASSUME NEW x \in Seq(Nat)
          PROVE  Append(x, Len(h) + 1) \in Seq(Nat) /\ In(Len(h) + 1, Append(x, Len(h) + 1))
      BY <2>1, BeginsLonger
    <2> QED
      BY <1>1, <2>2
  <1> HIDE DEF z, m, e, l
  <1>3. /\ Grows(E, L, h, a, e, l, t, E2, L2, h2, b)
        /\ h2 \in Seq(DeferType) /\ Len(h2) = Len(h) + 1 /\ h2[Len(h) + 1] = n
        /\ E2 \in Seq(Seq(Nat)) /\ L2 \in Seq(Seq(Nat)) /\ b \in Seq(TokenType)
        /\ Len(b) = Len(a) + 1 /\ b[Len(a) + 1] = t /\ \A p \in 1..Len(a) : b[p] = a[p]
        /\ Len(E2) = Len(a) + 2 /\ E2[Len(a) + 2] = e /\ L2[Len(a) + 2] = l
        /\ \A p \in 1..Len(a) + 1 : E2[p] = E[p] /\ L2[p] = L[p]
    <2>2. Grows(E, L, h, a, e, l, t, E2, L2, h2, b)
      BY <1>1, <1>16, GrowingGrows
    <2>6. h2 \in Seq(DeferType) /\ Len(h2) = Len(h) + 1 /\ h2[Len(h) + 1] = n
      BY <1>1, AppendProperties
    <2>3. /\ E2 \in Seq(Seq(Nat)) /\ L2 \in Seq(Seq(Nat)) /\ b \in Seq(TokenType)
          /\ Len(b) = Len(a) + 1 /\ b[Len(a) + 1] = t
      BY <1>1, <1>16, GrowingGrows
    <2>4. /\ \A p \in 1..Len(a) : b[p] = a[p]
          /\ \A p \in 1..Len(a) + 1 : E2[p] = E[p] /\ L2[p] = L[p]
      BY <1>1, <1>16, GrowingGrows
    <2>5. Len(E2) = Len(a) + 2 /\ E2[Len(a) + 2] = e /\ L2[Len(a) + 2] = l
      BY <1>1, <1>16, GrowingGrows, SMTT(30)
    <2> QED
      BY <2>2, <2>3, <2>4, <2>5, <2>6
  <1>4. Len(a) + 2 = Len(b) + 1 /\ z \in 1..Len(a) + 1 /\ z \in 1..Len(b) /\ m \in 1..Len(b)
    <2>1. Len(b) = Len(a) + 1 /\ Len(a) \in Nat /\ m \in 1..Len(a)
      BY <1>1, <1>2, <1>3
    <2> HIDE DEF b
    <2> QED
      BY <1>15, <2>1
  <1> HIDE DEF E2, L2, h2, b, g
  <1>5. Around(E2, L2, b, Len(a) + 2) /\ InForce(E2, L2, h2, Len(a) + 2)
    <2>1. Grows(E, L, h, a, e, l, t, E2, L2, h2, b)
      BY <1>3
    <2>2. m \in 1..Len(a) + 1 /\ Len(h2) = Len(h) + 1 /\ h2[Len(h) + 1].lo = m
      BY <1>1, <1>3, <1>15
    <2> QED
      BY <1>15, <2>1, <2>2, PlaceBehind
  <1>6. t.op \notin Openers /\ t.op \notin Jumps /\ t.op \in Exits
    BY SMTT(30) DEF Openers, Jumps, Exits
  <1>17. b[z] = t /\ b[m] = a[m] /\ L2[z] = now /\ E2[z] = E[z] /\ L2[m] = L[m] /\ L2[z + 1] = l
    <2>1. z + 1 = Len(a) + 2
      BY <1>1, <1>15
    <2> QED
      BY <1>1, <1>2, <1>3, <1>4, <1>15, <2>1
  <1>7. DueOK(E2, L2, b, z)
    <2>2. t.begin = Null \/ In(t.begin, now)
      BY DEF Growing
    <2> QED
      BY <1>2, <1>15, <1>17, <2>2 DEF DueOK
  <1>8. \A d \in Len(h) + 1..Len(h2) : BodyIn(E2, L2, h2, b, d)
    <2>1. m < z /\ z \in Nat /\ m \in Nat
      <3>1. Len(a) \in Nat /\ m \in 1..Len(a)
        BY <1>1, <1>2
      <3> QED
        BY <1>15, <3>1
    <2>2. \A p \in m + 1..z : Begins(E2[m + 1], E2[p])
      <3>1. m + 1 \in 1..Len(a) + 1
        BY <1>1, <1>2
      <3>2. ASSUME NEW p \in m + 1..z PROVE E2[p] = E[p]
        <4>1. p \in 1..Len(a) + 1
          BY <1>15, <2>1
        <4> QED
          BY <1>3, <4>1
      <3>3. E2[m + 1] = E[m + 1]
        BY <1>3, <3>1
      <3> QED
        BY <1>2, <3>2, <3>3
    <2>3. BodyIn(E2, L2, h2, b, Len(h) + 1)
      <3>1. h2[Len(h) + 1] = n /\ n.lo = m /\ n.hi = z /\ n.prev = f[Len(f)].save
        BY <1>3, <1>15
      <3> QED
        BY <1>2, <1>4, <1>15, <1>17, <2>1, <2>2, <3>1 DEF BodyIn
    <2>4. \A d \in Len(h) + 1..Len(h2) : d = Len(h) + 1
      BY <1>1, <1>3
    <2> QED
      BY <2>3, <2>4
  <1>9. Scoped(E2, L2, h2, b)
    <2>1. /\ t.op = "end" => /\ E[Len(a) + 1] # <<>> /\ e = E[Tip(E[Len(a) + 1])]
                             /\ a[Tip(E[Len(a) + 1])].op # "defer" => l = L[Tip(E[Len(a) + 1])]
          /\ DueOK(E2, L2, b, Len(a) + 1)
      BY <1>2, <1>7, <1>15
    <2> QED
      BY <1>3, <1>5, <1>6, <1>8, <2>1, ScopedGrows
  <1>10. /\ g \in Seq(FrameType) /\ Len(g) = Len(f) - 1
         /\ \A k \in 1..Len(f) - 1 : g[k] = f[k]
         /\ \A k \in 1..Len(f) - 1 : Framed(E2, L2, g, b, k)
    <2>1. \A k \in 1..Len(f) : Framed(E, L, f, a, k)
      BY DEF Growing
    <2>2. Len(E2) = Len(b) + 1 /\ E2[Len(b) + 1] = E[f[Len(f)].mark]
      BY <1>1, <1>3, <1>4, <1>15
    <2>3. Len(b) = Len(a) \/ Len(b) = Len(a) + 1
      BY <1>3
    <2>4. /\ \A p \in 1..Len(a) : b[p] = a[p]
          /\ \A p \in 1..Len(a) + 1 : E2[p] = E[p] /\ L2[p] = L[p]
          /\ E2 \in Seq(Seq(Nat)) /\ b \in Seq(TokenType)
      BY <1>3
    <2>5. /\ E \in Seq(Seq(Nat)) /\ f \in Seq(FrameType) /\ a \in Seq(TokenType)
          /\ Len(E) = Len(a) + 1
      BY <1>1
    <2>6. \A k \in 1..Len(f) - 1 : Framed(E2, L2, g, b, k)
      BY <2>1, <2>2, <2>3, <2>4, <2>5, FramedPop DEF g
    <2>7. Len(f) - 1 \in 0..Len(f)
      BY <1>1
    <2>8. /\ g \in Seq(FrameType) /\ Len(g) = Len(f) - 1
          /\ \A k \in 1..Len(f) - 1 : g[k] = f[k]
      BY <2>5, <2>7, PrefixFacts DEF g
    <2> QED
      BY <2>6, <2>8
  <1>11. loop \in 0..Len(g) /\ (loop # 0 => g[loop].kind = "for")
    <2>1. loop \in 0..Len(f) /\ (loop # 0 => f[loop].kind = "for")
      BY DEF Growing
    <2>2. loop # Len(f)
      BY <1>1, <2>1
    <2>3. loop \in 0..Len(f) - 1 /\ (loop # 0 => loop \in 1..Len(f) - 1)
      BY <1>1, <2>1, <2>2
    <2> QED
      BY <1>10, <2>1, <2>3
  <1>12. Len(g) > 0 /\ \A k \in 1..Len(g) : Framed(E2, L2, g, b, k)
    BY <1>1, <1>10
  <1>13. L2[Len(b) + 1] = l
    BY <1>3, <1>4
  <1>14. Growing(E2, L2, h2, b, g, l, Len(h) + 1, loop)
    BY <1>1, <1>3, <1>9, <1>10, <1>11, <1>12, <1>13, <1>16 DEF Growing
  <1> QED
    BY <1>2, <1>14 DEF E2, L2, h2, b, g, e, l, m, Copied

\* What the tree of a function is when it is complete: one block.
Complete(E, L, h, a) ==
    /\ E \in Seq(Seq(Nat)) /\ L \in Seq(Seq(Nat))
    /\ a \in Seq(TokenType) /\ h \in Seq(DeferType)
    /\ Scoped(E, L, h, a)
    /\ Len(a) > 1 /\ E[Len(a) + 1] = <<>> /\ a[Len(a)].op = "end"
    /\ E[2] = <<1>> /\ E[Len(a)] = <<1>> /\ a[1].op = "fn"
    /\ \A p \in 2..Len(a) : Begins(E[2], E[p])

\* The end of the function's body.
LEMMA GrowsFunction ==
    ASSUME NEW E, NEW L, NEW h, NEW a, NEW f, NEW now, NEW cur, NEW loop,
           Growing(E, L, h, a, f, now, cur, loop), Len(f) = 1,
           NEW t \in TokenType, t.op = "end", t.begin = cur, t.due = Above(now, f[1].base)
    PROVE  Complete(Copied(E, 1), Copied(L, 1), h, Append(a, t))
  <1> DEFINE z == Len(a) + 1
             e == E[1]
             l == L[1]
             E2 == Append(E, e)
             L2 == Append(L, l)
             b == Append(a, t)
  <1>1. /\ E \in Seq(Seq(Nat)) /\ L \in Seq(Seq(Nat))
        /\ a \in Seq(TokenType) /\ h \in Seq(DeferType) /\ f \in Seq(FrameType)
        /\ Len(a) \in Nat /\ Len(h) \in Nat /\ 1 \in 1..Len(f)
        /\ Len(E) = Len(a) + 1 /\ Len(L) = Len(a) + 1
        /\ L[z] = now /\ z \in Nat /\ 1 \in 1..Len(a) + 1
        /\ e \in Seq(Nat) /\ l \in Seq(Nat)
    <2>1. 1 \in 1..Len(a) + 1
      BY GrowingFacts
    <2> QED
      BY <2>1, GrowingFacts
  <1>2. Framed(E, L, f, a, 1) /\ Scoped(E, L, h, a)
    BY <1>1 DEF Growing
  <1>3. f[1].kind = "fn" /\ f[1].mark = 1
    BY <1>2 DEF Framed
  <1>4. /\ 1 \in 1..Len(a) /\ a[1].op = "fn" /\ E[z] # <<>> /\ Tip(E[z]) = 1
        /\ f[1].base = Len(L[1])
        /\ E[2] = Append(E[1], 1) /\ E[z] = Append(E[1], 1)
        /\ \A p \in 2..z : Begins(E[2], E[p])
    <2>1. f[1].kind # "when" /\ First(f[1]) = 2
      BY <1>3 DEF First
    <2>2. 2 \in 1..Len(a) + 1 /\ a[1].op = "fn" /\ f[1].base = Len(L[1])
      BY <1>2, <1>3, <2>1 DEF Framed
    <2>3. 1 \in 1..Len(a)
      BY <1>1, <2>2
    <2>4. E[2] = Append(E[1], 1)
      <3>1. Flows(E, L, a)
        BY <1>2 DEF Scoped
      <3>2. E[1 + 1] = Append(E[1], 1)
        BY <2>2, <2>3, <3>1 DEF Flows, Openers
      <3> QED
        BY <3>2
    <2>5. E[2] = E[z] /\ \A p \in 2..z : Begins(E[2], E[p])
      BY <1>2, <2>1 DEF Framed
    <2>6. ASSUME NEW x \in Seq(Nat) PROVE Append(x, 1) # <<>> /\ Tip(Append(x, 1)) = 1
      BY BeginsLonger
    <2>7. E[1] \in Seq(Nat)
      BY <1>1
    <2> QED
      BY <2>2, <2>3, <2>4, <2>5, <2>6, <2>7
  <1>5. e = <<>> /\ l = <<>> /\ E[2] = <<1>> /\ E[z] = <<1>>
    <2>1. E[1] = <<>> /\ L[1] = <<>>
      BY <1>2 DEF Scoped
    <2>2. Append(<<>>, 1) = <<1>>
      OBVIOUS
    <2> QED
      BY <1>4, <2>1, <2>2
  <1>15. e = E[1] /\ l = L[1] /\ z = Len(a) + 1
    OBVIOUS
  <1> HIDE DEF z, e, l
  <1>6. /\ Grows(E, L, h, a, e, l, t, E2, L2, h, b)
        /\ E2 \in Seq(Seq(Nat)) /\ L2 \in Seq(Seq(Nat)) /\ b \in Seq(TokenType)
        /\ Len(b) = Len(a) + 1 /\ b[Len(a) + 1] = t /\ \A p \in 1..Len(a) : b[p] = a[p]
        /\ Len(E2) = Len(a) + 2 /\ E2[Len(a) + 2] = e /\ L2[Len(a) + 2] = l
        /\ \A p \in 1..Len(a) + 1 : E2[p] = E[p] /\ L2[p] = L[p]
    <2>2. Grows(E, L, h, a, e, l, t, E2, L2, h, b)
      BY <1>1, GrowingGrows
    <2>3. /\ E2 \in Seq(Seq(Nat)) /\ L2 \in Seq(Seq(Nat)) /\ b \in Seq(TokenType)
          /\ Len(b) = Len(a) + 1 /\ b[Len(a) + 1] = t
      BY <1>1, GrowingGrows
    <2>4. /\ \A p \in 1..Len(a) : b[p] = a[p]
          /\ \A p \in 1..Len(a) + 1 : E2[p] = E[p] /\ L2[p] = L[p]
      BY <1>1, GrowingGrows
    <2>5. Len(E2) = Len(a) + 2 /\ E2[Len(a) + 2] = e /\ L2[Len(a) + 2] = l
      BY <1>1, GrowingGrows
    <2> QED
      BY <2>2, <2>3, <2>4, <2>5
  <1>7. Len(a) + 2 = Len(b) + 1 /\ z \in 1..Len(a) + 1 /\ 2 \in 1..Len(a) + 1 /\ z = Len(b)
    BY <1>1, <1>4, <1>6, <1>15
  <1> HIDE DEF E2, L2, b
  <1>8. Around(E2, L2, b, Len(a) + 2) /\ InForce(E2, L2, h, Len(a) + 2)
    <2>1. Grows(E, L, h, a, e, l, t, E2, L2, h, b)
      BY <1>6
    <2> QED
      BY <1>1, <1>15, <2>1, PlaceLike
  <1>9. t.op \notin Openers /\ t.op \notin Jumps /\ t.op \in Exits
    BY DEF Openers, Jumps, Exits
  <1>10. DueOK(E2, L2, b, z)
    <2>1. b[z] = t /\ L2[z] = now /\ E2[z] = E[z] /\ L2[1] = l
      BY <1>1, <1>6, <1>7, <1>15
    <2>2. t.begin = Null \/ In(t.begin, now)
      BY DEF Growing
    <2> QED
      BY <1>4, <1>15, <2>1, <2>2 DEF DueOK
  <1>11. \A d \in Len(h) + 1..Len(h) : BodyIn(E2, L2, h, b, d)
    BY <1>1
  <1>12. Scoped(E2, L2, h, b)
    <2>1. /\ t.op = "end" => /\ E[Len(a) + 1] # <<>> /\ e = E[Tip(E[Len(a) + 1])]
                             /\ a[Tip(E[Len(a) + 1])].op # "defer" => l = L[Tip(E[Len(a) + 1])]
          /\ DueOK(E2, L2, b, Len(a) + 1)
      BY <1>4, <1>10, <1>15
    <2> QED
      BY <1>6, <1>8, <1>9, <1>11, <2>1, ScopedGrows
  <1>13. \A p \in 2..Len(b) : Begins(E2[2], E2[p])
    <2>1. \A p \in 2..Len(b) : p \in 2..z /\ p \in 1..Len(a) + 1
      BY <1>1, <1>7, <1>15
    <2> QED
      BY <1>4, <1>6, <1>7, <2>1
  <1>14. /\ E2[Len(b) + 1] = <<>> /\ b[Len(b)].op = "end" /\ b[1].op = "fn"
         /\ E2[2] = <<1>> /\ E2[Len(b)] = <<1>> /\ Len(b) > 1
    <2>1. E2[Len(b) + 1] = <<>>
      BY <1>5, <1>6, <1>7
    <2>2. b[Len(b)].op = "end"
      BY <1>6, <1>7, <1>15
    <2>3. b[1].op = "fn"
      BY <1>4, <1>6
    <2>4. E2[2] = <<1>>
      BY <1>5, <1>6, <1>7
    <2>5. E2[Len(b)] = <<1>>
      BY <1>5, <1>6, <1>7
    <2>6. Len(b) > 1
      BY <1>1, <1>4, <1>6
    <2> QED
      BY <2>1, <2>2, <2>3, <2>4, <2>5, <2>6
  <1>16. Complete(E2, L2, h, b)
    BY <1>1, <1>6, <1>12, <1>13, <1>14 DEF Complete
  <1> QED
    BY <1>16 DEF E2, L2, b, e, l, Copied

-----------------------------------------------------------------------------
(* The resolver's steps. *)

\* The places of the resolver's tree, while it grows and when it is complete.
Places(E, L) ==
    /\ Building => Growing(E, L, heap, ast, frames, live, current_defer, loop_at)
    /\ ~Building => Complete(E, L, heap, ast)

\* Each defer and each open block is a statement that was counted.
Counted ==
    /\ count <= MaxStmts /\ Len(heap) <= count
    /\ Building => Len(heap) + Len(frames) <= count + 1

\* resolve_block is entered.
LEMMA EnterPlaces ==
    ASSUME NEW E, NEW L, Growing(E, L, heap, ast, frames, live, current_defer, loop_at),
           ResolveTypeOK, NEW op \in {"if", "for", "defer"}, Enter(op),
           UNCHANGED <<heap, live, current_defer>>,
           loop_at' = loop_at \/ (loop_at' = Len(frames) + 1 /\ op = "for")
    PROVE  \E E2, L2 : Growing(E2, L2, heap', ast', frames', live', current_defer', loop_at')
  <1> DEFINE t == Opener(op)
             r == Frame(op)
  <1>1. t \in TokenType /\ r \in FrameType
    BY OpenerTyped, FrameTyped DEF Openers
  <1>2. t.op = op /\ r.kind = t.op /\ r.mark = Len(ast) + 1 /\ r.base = Len(live)
        /\ r.save = current_defer /\ r.save_loop_at = loop_at
    BY DEF Opener, Token, Frame
  <1>3. ast' = Append(ast, t) /\ frames' = Append(frames, r)
    BY DEF Enter
  <1> HIDE DEF t, r
  <1>4. ASSUME NEW inner, inner = loop_at \/ (inner = Len(frames) + 1 /\ t.op = "for")
        PROVE  Growing(Deepened(E, ast), Copied(L, Len(ast) + 1), heap, Append(ast, t),
                       Append(frames, r), live, current_defer, inner)
    BY <1>1, <1>2, <1>4, GrowsOpen
  <1>5. Growing(Deepened(E, ast), Copied(L, Len(ast) + 1), heap', ast', frames', live',
                current_defer', loop_at')
    BY <1>2, <1>3, <1>4
  <1> QED
    BY <1>5

\* break and continue inside a loop, and return.
LEMMA JumpPlaces ==
    ASSUME NEW E, NEW L, Growing(E, L, heap, ast, frames, live, current_defer, loop_at),
           NEW t \in TokenType, t.op \in Jumps, t.begin = current_defer,
           t.op = "return" => t.due = live,
           t.op # "return" =>
             /\ loop_at # 0 /\ t.loop = frames[loop_at].mark
             /\ t.due = Above(live, frames[loop_at].base),
           ast' = Append(ast, t), UNCHANGED <<heap, frames, live, current_defer, loop_at>>
    PROVE  \E E2, L2 : Growing(E2, L2, heap', ast', frames', live', current_defer', loop_at')
  <1>1. Growing(Copied(E, Len(ast) + 1), Copied(L, Len(ast) + 1), heap, Append(ast, t), frames,
                live, current_defer, loop_at)
    BY GrowsJump
  <1> QED
    BY <1>1

\* The end of an arm or of a loop.
LEMMA EndPlaces ==
    ASSUME NEW E, NEW L, Growing(E, L, heap, ast, frames, live, current_defer, loop_at),
           ResolveTypeOK, FramesOK, Len(frames) > 1, Top.kind \in {"if", "for"},
           ast' = Append(ast, BlockEnd), frames' = Popped, heap' = heap,
           current_defer' = Top.save, live' = Prefix(live, Top.base),
           loop_at' = IF Top.kind = "for" THEN Top.save_loop_at ELSE loop_at
    PROVE  \E E2, L2 : Growing(E2, L2, heap', ast', frames', live', current_defer', loop_at')
  <1> DEFINE t == BlockEnd
  <1>1. t \in TokenType
    BY TopFacts, NatFacts
  <1>2. t.op = "end" /\ t.begin = current_defer /\ t.due = Above(live, frames[Len(frames)].base)
    BY DEF BlockEnd, Token, Top
  <1>3. Top = frames[Len(frames)] /\ Popped = Prefix(frames, Len(frames) - 1)
    BY DEF Top, Popped, Prefix
  <1> HIDE DEF t
  <1>4. ASSUME NEW outer,
               outer = IF frames[Len(frames)].kind = "for" THEN frames[Len(frames)].save_loop_at
                                                            ELSE loop_at
        PROVE  Growing(Copied(E, frames[Len(frames)].mark), Copied(L, frames[Len(frames)].mark),
                       heap, Append(ast, t), Prefix(frames, Len(frames) - 1),
                       Prefix(live, frames[Len(frames)].base), frames[Len(frames)].save, outer)
    BY <1>1, <1>2, <1>3, <1>4, GrowsEnd
  <1>5. Growing(Copied(E, frames[Len(frames)].mark), Copied(L, frames[Len(frames)].mark),
                heap', ast', frames', live', current_defer', loop_at')
    BY <1>3, <1>4 DEF t
  <1> QED
    BY <1>5

\* The end of a deferred body.
LEMMA DeferPlaces ==
    ASSUME NEW E, NEW L, Growing(E, L, heap, ast, frames, live, current_defer, loop_at),
           ResolveTypeOK, FramesOK, Len(frames) > 1, EndDefer
    PROVE  \E E2, L2 : Growing(E2, L2, heap', ast', frames', live', current_defer', loop_at')
  <1> DEFINE t == BlockEnd
             n == [prev |-> Top.save, lo |-> Top.mark, hi |-> Len(ast) + 1]
  <1>1. t \in TokenType /\ Top \in FrameType /\ Len(ast) \in Nat
    BY TopFacts, NatFacts
  <1>2. t.op = "end" /\ t.begin = current_defer /\ t.due = Above(live, frames[Len(frames)].base)
    BY DEF BlockEnd, Token, Top
  <1>3. Top = frames[Len(frames)] /\ Popped = Prefix(frames, Len(frames) - 1)
    BY DEF Top, Popped, Prefix
  <1>4. n \in DeferType /\ n.prev = Top.save /\ n.lo = Top.mark /\ n.hi = Len(ast) + 1
    BY <1>1 DEF DeferType, FrameType
  <1>5. /\ ast' = Append(ast, t) /\ heap' = Append(heap, n) /\ frames' = Popped
        /\ current_defer' = Len(heap) + 1 /\ loop_at' = loop_at
        /\ live' = Append(Prefix(live, Top.base), Len(heap) + 1) /\ Top.kind = "defer"
    BY DEF EndDefer, Close
  <1> HIDE DEF t, n
  <1>6. /\ frames[Len(frames)].kind = "defer" /\ n.prev = frames[Len(frames)].save
        /\ n.lo = frames[Len(frames)].mark
    BY <1>3, <1>4, <1>5
  <1>7. Growing(Copied(E, frames[Len(frames)].mark),
                Append(L, Append(L[frames[Len(frames)].mark], Len(heap) + 1)),
                Append(heap, n), Append(ast, t), Prefix(frames, Len(frames) - 1),
                Append(Prefix(live, frames[Len(frames)].base), Len(heap) + 1), Len(heap) + 1, loop_at)
    BY <1>1, <1>2, <1>4, <1>6, GrowsDefer
  <1>8. Growing(Copied(E, frames[Len(frames)].mark),
                Append(L, Append(L[frames[Len(frames)].mark], Len(heap) + 1)),
                heap', ast', frames', live', current_defer', loop_at')
    BY <1>3, <1>5, <1>7
  <1> QED
    BY <1>8

\* `defer expr;` is a deferred body that ends as soon as it begins.
LEMMA DeferExprPlaces ==
    ASSUME NEW E, NEW L, Growing(E, L, heap, ast, frames, live, current_defer, loop_at),
           ResolveTypeOK, DeferExpr
    PROVE  \E E2, L2 : Growing(E2, L2, heap', ast', frames', live', current_defer', loop_at')
  <1> DEFINE o == Opener("defer")
             r == Frame("defer")
             t == Token("end", current_defer, current_defer, <<>>, 0)
             n == [prev |-> current_defer, lo |-> Len(ast) + 1, hi |-> Len(ast) + 2]
             a == Append(ast, o)
             f == Append(frames, r)
  <1>1. /\ Len(ast) \in Nat /\ Len(frames) \in Nat /\ Len(live) \in Nat /\ current_defer \in Nat
        /\ ast \in Seq(TokenType) /\ frames \in Seq(FrameType) /\ live \in Seq(Nat)
    BY NatFacts DEF ResolveTypeOK
  <1>2. o \in TokenType /\ r \in FrameType
    BY OpenerTyped, FrameTyped DEF Openers
  <1>3. t \in TokenType
    BY <1>1, TokenTyped, EmptySeq DEF Exits
  <1>4. n \in DeferType
    BY <1>1 DEF DeferType
  <1>5. /\ o.op = "defer" /\ r.kind = "defer" /\ r.mark = Len(ast) + 1 /\ r.base = Len(live)
        /\ r.save = current_defer /\ r.save_loop_at = loop_at
    BY DEF Opener, Token, Frame
  <1>6. t.op = "end" /\ t.begin = current_defer /\ t.due = <<>>
    BY DEF Token
  <1>7. n.prev = current_defer /\ n.lo = Len(ast) + 1 /\ n.hi = Len(ast) + 2
    OBVIOUS
  <1>8. /\ ast' = Append(a, t) /\ heap' = Append(heap, n) /\ frames' = frames
        /\ current_defer' = Len(heap) + 1 /\ live' = Append(live, Len(heap) + 1) /\ loop_at' = loop_at
    BY Zenon DEF DeferExpr, PushDefer
  <1>9. Len(a) = Len(ast) + 1
    BY <1>1, <1>2, AppendProperties
  <1>10. /\ f \in Seq(FrameType) /\ Len(f) = Len(frames) + 1 /\ f[Len(frames) + 1] = r
         /\ \A k \in 1..Len(frames) : f[k] = frames[k]
    BY <1>1, <1>2, AppendProperties
  <1>11. Len(frames) > 0
    BY DEF Growing
  <1> HIDE DEF o, r, t, n, a, f
  <1>12. PICK E2, L2 : Growing(E2, L2, heap, a, f, live, current_defer, loop_at)
    <2>1. ASSUME NEW inner, inner = loop_at
          PROVE  Growing(Deepened(E, ast), Copied(L, Len(ast) + 1), heap, Append(ast, o),
                         Append(frames, r), live, current_defer, inner)
      BY <1>2, <1>5, <2>1, GrowsOpen
    <2>2. Growing(Deepened(E, ast), Copied(L, Len(ast) + 1), heap, a, f, live, current_defer, loop_at)
      BY <2>1 DEF a, f
    <2> QED
      BY <2>2
  <1>13. f[Len(f)] = r /\ Len(f) > 1
    BY <1>1, <1>10, <1>11
  <1>14. Above(live, Len(live)) = <<>> /\ Prefix(live, Len(live)) = live
    <2>1. Above(live, Len(live)) \in Seq(Nat) /\ Len(Above(live, Len(live))) = 0
      BY <1>1, AboveFacts
    <2>2. Prefix(live, Len(live)) = live
      BY <1>1, BeginsPrefix
    <2> QED
      BY <2>1, <2>2, EmptySeq
  <1>15. Prefix(f, Len(f) - 1) = frames
    <2>1. Len(f) - 1 \in 0..Len(f) /\ Len(f) - 1 = Len(frames)
      BY <1>1, <1>10
    <2>2. /\ Prefix(f, Len(f) - 1) \in Seq(FrameType) /\ Len(Prefix(f, Len(f) - 1)) = Len(frames)
          /\ \A k \in 1..Len(frames) : Prefix(f, Len(f) - 1)[k] = f[k]
      BY <1>10, <2>1, PrefixFacts
    <2> QED
      BY <1>1, <1>10, <2>2, SeqEqual
  <1>16. /\ f[Len(f)].kind = "defer" /\ t.due = Above(live, f[Len(f)].base)
         /\ n.prev = f[Len(f)].save /\ n.lo = f[Len(f)].mark /\ n.hi = Len(a) + 1
    <2>1. Len(a) + 1 = Len(ast) + 2
      BY <1>1, <1>9
    <2> QED
      BY <1>5, <1>6, <1>7, <1>13, <1>14, <2>1
  <1>17. Growing(Copied(E2, f[Len(f)].mark),
                 Append(L2, Append(L2[f[Len(f)].mark], Len(heap) + 1)),
                 Append(heap, n), Append(a, t), Prefix(f, Len(f) - 1),
                 Append(Prefix(live, f[Len(f)].base), Len(heap) + 1), Len(heap) + 1, loop_at)
    BY <1>3, <1>4, <1>6, <1>12, <1>13, <1>16, GrowsDefer
  <1>18. Prefix(live, f[Len(f)].base) = live
    BY <1>5, <1>13, <1>14
  <1>19. Growing(Copied(E2, f[Len(f)].mark),
                 Append(L2, Append(L2[f[Len(f)].mark], Len(heap) + 1)),
                 heap', ast', frames', live', current_defer', loop_at')
    BY <1>8, <1>15, <1>17, <1>18
  <1> QED
    BY <1>19

\* The end of the function's body completes the tree.
LEMMA FunctionPlaces ==
    ASSUME NEW E, NEW L, Growing(E, L, heap, ast, frames, live, current_defer, loop_at),
           ResolveTypeOK, FramesOK, EndFunction
    PROVE  \E E2, L2 : Complete(E2, L2, heap', ast')
  <1> DEFINE t == BlockEnd
  <1>1. Len(frames) = 1 /\ Len(frames) > 0 /\ ast' = Append(ast, t) /\ heap' = heap
    BY DEF EndFunction
  <1>2. t \in TokenType
    BY <1>1, TopFacts
  <1>3. t.op = "end" /\ t.begin = current_defer /\ t.due = Above(live, frames[1].base)
    BY <1>1 DEF BlockEnd, Token, Top
  <1> HIDE DEF t
  <1>4. Complete(Copied(E, 1), Copied(L, 1), heap, Append(ast, t))
    BY <1>1, <1>2, <1>3, GrowsFunction
  <1>5. Complete(Copied(E, 1), Copied(L, 1), heap', ast')
    BY <1>1, <1>4
  <1> QED
    BY <1>5

\* Each step of the resolver keeps the places.
LEMMA PlacesStep ==
    ASSUME NEW E, NEW L, Places(E, L), ResolveTypeOK, ResolveTypeOK', FramesOK, [Resolve]_vars
    PROVE  \E E2, L2 : Places(E2, L2)'
  <1>1. CASE UNCHANGED vars
    <2>1. UNCHANGED <<phase, heap, ast, frames, live, current_defer, loop_at>>
      BY <1>1 DEF vars, resolver, history
    <2>2. Places(E, L)'
      BY <2>1 DEF Places, Building
    <2> QED
      BY <2>2
  <1>2. ASSUME Resolve
        PROVE  phase = "resolve" /\ Growing(E, L, heap, ast, frames, live, current_defer, loop_at)
    <2>1. phase = "resolve"
      BY <1>2, Zenon DEF Resolve, DeferExpr, DeferBlock, If, For, When, WhenNone, Break, Continue, Jump,
         Return, EndIf, EndFor, EndDefer, EndWhen, EndFunction, Statement, Close
    <2> QED
      BY <2>1 DEF Places, Building
  <1>3. ASSUME phase' \in {"resolve", "fatal"},
               \E E2, L2 : Growing(E2, L2, heap', ast', frames', live', current_defer', loop_at')
        PROVE  \E E2, L2 : Places(E2, L2)'
    <2>1. PICK E2, L2 : Growing(E2, L2, heap', ast', frames', live', current_defer', loop_at')
      BY <1>3
    <2>2. Places(E2, L2)'
      BY <1>3, <2>1 DEF Places, Building
    <2> QED
      BY <2>2
  <1> SUFFICES ASSUME Resolve PROVE \E E2, L2 : Places(E2, L2)'
    BY <1>1
  <1>4. phase = "resolve" /\ Growing(E, L, heap, ast, frames, live, current_defer, loop_at)
    BY <1>2
  <1>5. CASE DeferExpr
    <2>1. phase' = "resolve"
      BY <1>4, <1>5, Zenon DEF DeferExpr
    <2> QED
      BY <1>3, <1>4, <1>5, <2>1, DeferExprPlaces
  <1>6. CASE DeferBlock
    <2>1. phase' = "resolve" /\ Enter("defer") /\ UNCHANGED <<heap, live, current_defer, loop_at>>
      BY <1>4, <1>6, Zenon DEF DeferBlock, resolver, history
    <2> QED
      BY <1>3, <1>4, <2>1, EnterPlaces
  <1>7. CASE If
    <2>1. phase' = "resolve" /\ Enter("if") /\ UNCHANGED <<heap, live, current_defer, loop_at>>
      BY <1>4, <1>7 DEF If, resolver, history
    <2> QED
      BY <1>3, <1>4, <2>1, EnterPlaces
  <1>8. CASE For
    <2>1. /\ phase' = "resolve" /\ Enter("for") /\ UNCHANGED <<heap, live, current_defer>>
          /\ loop_at' = Len(frames) + 1
      BY <1>4, <1>8 DEF For
    <2> QED
      BY <1>3, <1>4, <2>1, EnterPlaces
  <1>9. CASE When
    <2> DEFINE r == Frame("when")
    <2>1. /\ phase' = "resolve" /\ frames' = Append(frames, r)
          /\ UNCHANGED <<heap, ast, live, current_defer, loop_at>>
      BY <1>4, <1>9 DEF When, resolver, history
    <2>2. r \in FrameType /\ r.kind = "when" /\ r.mark = Len(ast) + 1 /\ r.save_loop_at = loop_at
      BY FrameTyped DEF Frame
    <2> HIDE DEF r
    <2>3. Growing(E, L, heap, ast, Append(frames, r), live, current_defer, loop_at)
      BY <1>4, <2>2, GrowsWhen
    <2>4. Growing(E, L, heap', ast', frames', live', current_defer', loop_at')
      BY <2>1, <2>3
    <2> QED
      BY <1>3, <2>1, <2>4
  <1>10. CASE WhenNone
    <2>1. /\ phase' = "resolve" /\ current_defer' = Null
          /\ UNCHANGED <<heap, ast, frames, live, loop_at>>
      BY <1>4, <1>10, Zenon DEF WhenNone
    <2>2. Growing(E, L, heap', ast', frames', live', current_defer', loop_at')
      BY <1>4, <2>1 DEF Growing
    <2> QED
      BY <1>3, <2>1, <2>2
  <1>11. ASSUME NEW op \in {"break", "continue"}, Jump(op)
         PROVE  \E E2, L2 : Places(E2, L2)'
    <2> DEFINE t == Token(op, current_defer, current_loop_defer,
                          Above(live, IF loop_at = 0 THEN 0 ELSE frames[loop_at].base),
                          IF loop_at = 0 THEN 0 ELSE frames[loop_at].mark)
    <2>1. UNCHANGED <<heap, frames, live, current_defer, loop_at>>
      BY <1>11 DEF Jump, resolver, history
    <2>2. CASE is_within_loop
      <3>1. ast' = Append(ast, t) /\ phase' = "resolve"
        BY <1>4, <1>11, <2>2 DEF Jump
      <3>2. loop_at # 0
        BY <1>4, <2>2 DEF FramesOK, LoopIsTracked
      <3>3. t.op = op /\ t.begin = current_defer /\ t.loop = frames[loop_at].mark
            /\ t.due = Above(live, frames[loop_at].base)
        BY <3>2 DEF Token
      <3>4. t \in TokenType
        BY <3>1, LastTyped
      <3> HIDE DEF t
      <3>5. t.op \in Jumps /\ t.op # "return"
        BY <3>3 DEF Jumps
      <3>6. \E E2, L2 : Growing(E2, L2, heap', ast', frames', live', current_defer', loop_at')
        BY <1>4, <2>1, <3>1, <3>2, <3>3, <3>4, <3>5, JumpPlaces
      <3> QED
        BY <1>3, <3>1, <3>6
    <2>3. CASE ~is_within_loop
      <3>1. ast' = ast /\ phase' = "fatal"
        BY <1>11, <2>3 DEF Jump
      <3>2. Growing(E, L, heap', ast', frames', live', current_defer', loop_at')
        BY <1>4, <2>1, <3>1
      <3> QED
        BY <1>3, <3>1, <3>2
    <2> QED
      BY <2>2, <2>3
  <1>12. CASE Break \/ Continue
    BY <1>11, <1>12 DEF Break, Continue
  <1>13. CASE Return
    <2> DEFINE t == Token("return", current_defer, Null, live, 0)
    <2>1. phase' = "resolve" /\ ast' = Append(ast, t) /\ UNCHANGED <<heap, frames, live, current_defer, loop_at>>
      BY <1>4, <1>13 DEF Return, resolver, history
    <2>2. t.op = "return" /\ t.begin = current_defer /\ t.due = live
      BY DEF Token
    <2>3. t \in TokenType
      BY <2>1, LastTyped
    <2> HIDE DEF t
    <2>4. t.op \in Jumps
      BY <2>2 DEF Jumps
    <2>5. \E E2, L2 : Growing(E2, L2, heap', ast', frames', live', current_defer', loop_at')
      BY <1>4, <2>1, <2>2, <2>3, <2>4, JumpPlaces
    <2> QED
      BY <1>3, <2>1, <2>5
  <1>14. CASE EndIf
    <2>1. /\ phase' = "resolve" /\ Len(frames) > 1 /\ Top.kind = "if"
          /\ ast' = Append(ast, BlockEnd) /\ frames' = Popped /\ heap' = heap
          /\ current_defer' = Top.save /\ live' = Prefix(live, Top.base) /\ loop_at' = loop_at
      BY <1>4, <1>14 DEF EndIf, Close
    <2> QED
      BY <1>3, <1>4, <2>1, EndPlaces
  <1>15. CASE EndFor
    <2>1. /\ phase' = "resolve" /\ Len(frames) > 1 /\ Top.kind = "for"
          /\ ast' = Append(ast, BlockEnd) /\ frames' = Popped /\ heap' = heap
          /\ current_defer' = Top.save /\ live' = Prefix(live, Top.base)
          /\ loop_at' = Top.save_loop_at
      BY <1>4, <1>15 DEF EndFor, Close
    <2> QED
      BY <1>3, <1>4, <2>1, EndPlaces
  <1>16. CASE EndDefer
    <2>1. phase' = "resolve" /\ Len(frames) > 1
      BY <1>4, <1>16 DEF EndDefer, Close
    <2> QED
      BY <1>3, <1>4, <1>16, <2>1, DeferPlaces
  <1>17. CASE EndWhen
    <2>1. /\ phase' = "resolve" /\ Len(frames) > 1 /\ frames[Len(frames)].kind = "when"
          /\ frames' = Prefix(frames, Len(frames) - 1)
          /\ UNCHANGED <<heap, ast, live, current_defer, loop_at>>
      BY <1>4, <1>17 DEF EndWhen, Close, Top, Popped, Prefix, resolver, history
    <2>2. Growing(E, L, heap, ast, Prefix(frames, Len(frames) - 1), live, current_defer, loop_at)
      BY <1>4, <2>1, GrowsEndWhen
    <2>3. Growing(E, L, heap', ast', frames', live', current_defer', loop_at')
      BY <2>1, <2>2
    <2> QED
      BY <1>3, <2>1, <2>3
  <1>18. CASE EndFunction
    <2>1. phase' = "resolved"
      BY <1>18 DEF EndFunction
    <2>2. PICK E2, L2 : Complete(E2, L2, heap', ast')
      BY <1>4, <1>18, FunctionPlaces
    <2>3. Places(E2, L2)'
      BY <2>1, <2>2 DEF Places, Building
    <2> QED
      BY <2>3
  <1> QED
    BY <1>5, <1>6, <1>7, <1>8, <1>9, <1>10, <1>12, <1>13, <1>14, <1>15, <1>16, <1>17, <1>18
    DEF Resolve

\* Before the first statement there is the opening token.
LEMMA InitPlaces == Init => \E E, L : Places(E, L)
  <1> SUFFICES ASSUME Init PROVE \E E, L : Places(E, L)
    OBVIOUS
  <1> DEFINE E == << <<>>, <<1>> >>
             L == << <<>>, <<>> >>
  <1>1. /\ phase = "resolve" /\ ast = <<Opener("fn")>> /\ heap = <<>> /\ live = <<>>
        /\ current_defer = Null /\ loop_at = 0 /\ Len(frames) = 1
        /\ frames[1].kind = "fn" /\ frames[1].mark = 1 /\ frames[1].base = 0
        /\ frames[1].save = Null /\ frames[1].save_loop_at = 0
    BY DEF Init
  <1>2. ResolveTypeOK
    BY InitTyped
  <1>3. Len(ast) = 1 /\ ast[1].op = "fn" /\ Len(heap) = 0
    BY <1>1 DEF Opener, Token
  <1>4. <<>> \in Seq(Nat) /\ <<1>> \in Seq(Nat)
    OBVIOUS
  <1>5. /\ E \in Seq(Seq(Nat)) /\ L \in Seq(Seq(Nat)) /\ Len(E) = 2 /\ Len(L) = 2
        /\ E[1] = <<>> /\ E[2] = <<1>> /\ L[1] = <<>> /\ L[2] = <<>>
    BY <1>4
  <1> HIDE DEF E, L
  <1>6. Begins(<<>>, <<>>) /\ Begins(<<>>, <<1>>) /\ Begins(<<1>>, <<1>>)
    BY DEF Begins
  <1>7. Flows(E, L, ast)
    <2>1. Append(<<>>, 1) = <<1>>
      OBVIOUS
    <2> QED
      <3>1. /\ ast[1].op \in Openers /\ ast[1].op \notin Jumps /\ ast[1].op # "end"
            /\ E[1 + 1] = Append(E[1], 1) /\ L[1 + 1] = L[1]
        BY <1>3, <1>5, <2>1 DEF Openers, Jumps
      <3>2. \A p \in 1..Len(ast) : p = 1
        BY <1>3
      <3> QED
        BY <3>1, <3>2 DEF Flows
  <1>8. \A p \in 1..Len(ast) + 1 : Around(E, L, ast, p) /\ InForce(E, L, heap, p)
    <2>1. Len(<<>>) = 0 /\ Len(<<1>>) = 1 /\ <<1>>[1] = 1
      OBVIOUS
    <2>2. Around(E, L, ast, 1) /\ InForce(E, L, heap, 1) /\ InForce(E, L, heap, 2)
      BY <1>5, <2>1 DEF Around, InForce
    <2>3. Around(E, L, ast, 2)
      BY <1>3, <1>5, <1>6, <2>1 DEF Around, Openers
    <2> QED
      BY <1>3, <2>2, <2>3
  <1>9. \A p \in 1..Len(ast) : DueOK(E, L, ast, p)
    BY <1>3 DEF DueOK, Exits
  <1>10. \A d \in 1..Len(heap) : BodyIn(E, L, heap, ast, d)
    BY <1>3
  <1>11. Scoped(E, L, heap, ast)
    BY <1>3, <1>5, <1>7, <1>8, <1>9, <1>10 DEF Scoped
  <1>12. Framed(E, L, frames, ast, 1)
    <2>1. First(frames[1]) = 2
      BY <1>1 DEF First
    <2>2. Len(<<>>) = 0
      OBVIOUS
    <2> QED
      <3>1. frames[1].mark \in 1..Len(ast) + 1 /\ First(frames[1]) \in 1..Len(ast) + 1
        BY <1>1, <1>3, <2>1
      <3>2. ast[1].op = "fn" /\ frames[1].base = Len(L[1]) /\ frames[1].save = Null
        BY <1>1, <1>3, <1>5, <2>2
      <3>3. \A p \in 2..Len(ast) + 1 : Begins(E[2], E[p])
        <4>1. \A p \in 2..Len(ast) + 1 : p = 2
          BY <1>3
        <4> QED
          BY <1>5, <1>6, <4>1
      <3>4. \A j \in 1 + 1..Len(frames) : First(frames[1]) <= frames[j].mark
        BY <1>1
      <3>5. E[2] = E[Len(ast) + 1] /\ 0 \in 0..1 - 1
        BY <1>3
      <3> QED
        BY <1>1, <2>1, <3>1, <3>2, <3>3, <3>4, <3>5 DEF Framed
  <1>13. Growing(E, L, heap, ast, frames, live, current_defer, loop_at)
    BY <1>1, <1>2, <1>3, <1>5, <1>11, <1>12 DEF Growing, ResolveTypeOK
  <1>14. Places(E, L)
    BY <1>1, <1>13 DEF Places, Building
  <1> QED
    BY <1>14

\* Each step of the resolver keeps the count.
LEMMA CountedStep ==
    ASSUME ResolveTypeOK, FramesOK, Counted, [Resolve]_vars
    PROVE  Counted'
  <1>1. /\ Len(heap) \in Nat /\ Len(frames) \in Nat /\ count \in Nat /\ MaxStmts \in Nat
        /\ heap \in Seq(DeferType) /\ frames \in Seq(FrameType)
    BY NatFacts, MaxStmtsAssumption DEF ResolveTypeOK
  <1>2. phase = "resolve" => Building /\ Len(frames) > 0
    BY DEF Building, FramesOK
  <1>3. CASE UNCHANGED vars
    BY <1>3 DEF vars, Counted, Building
  <1>4. ASSUME NEW kind, Statement(kind), Len(heap') + Len(frames') <= Len(heap) + Len(frames) + 1,
               Len(heap') \in Nat, Len(frames') > 0, Len(frames') \in Nat
        PROVE  Counted'
    BY <1>1, <1>2, <1>4 DEF Counted, Statement
  <1>5. ASSUME NEW kind \in Openers \cup {"when"}
        PROVE  Len(Append(frames, Frame(kind))) = Len(frames) + 1
    BY <1>1, <1>5, FrameTyped, AppendProperties
  <1>6. \A n : Len(Append(heap, n)) = Len(heap) + 1
    BY <1>1
  <1>7. CASE DeferExpr
    <2>1. Statement("defer expr") /\ Len(heap') = Len(heap) + 1 /\ frames' = frames /\ phase = "resolve"
      BY <1>6, <1>7, Zenon DEF DeferExpr, PushDefer, Statement
    <2>2. Len(frames') = Len(frames) /\ Len(frames) > 0
      BY <1>2, <2>1, Zenon
    <2>3. Len(heap') + Len(frames') <= Len(heap) + Len(frames) + 1 /\ Len(heap') \in Nat
      <3>1. Len(heap) \in Nat /\ Len(frames) \in Nat /\ Len(heap') = Len(heap) + 1
        BY <1>1, <2>1, Zenon
      <3> QED
        BY <2>2, <3>1
    <2> QED
      BY <1>1, <1>4, <2>1, <2>2, <2>3, Zenon
  <1>8. CASE DeferBlock \/ If \/ For \/ When
    <2>1. PICK kind : Statement(kind) /\ heap' = heap /\ phase = "resolve"
      BY <1>8, Zenon DEF DeferBlock, If, For, When, Statement
    <2>2. PICK k \in Openers \cup {"when"} : frames' = Append(frames, Frame(k))
      BY <1>8, Zenon DEF DeferBlock, If, For, When, Enter, Openers
    <2>3. Len(frames') = Len(frames) + 1
      BY <1>5, <2>2
    <2> QED
      BY <1>1, <1>2, <1>4, <2>1, <2>3
  <1>9. CASE WhenNone \/ Break \/ Continue \/ Return
    <2>1. PICK kind : Statement(kind) /\ heap' = heap /\ frames' = frames /\ phase = "resolve"
      BY <1>9, Zenon DEF WhenNone, Break, Continue, Jump, Return, Statement
    <2>2. Len(heap') = Len(heap) /\ Len(frames') = Len(frames) /\ Len(frames) > 0
      BY <1>2, <2>1
    <2>3. Len(heap') + Len(frames') <= Len(heap) + Len(frames) + 1
      BY <1>1, <2>2
    <2> QED
      BY <1>1, <1>4, <2>1, <2>2, <2>3
  <1>10. CASE EndIf \/ EndFor \/ EndDefer \/ EndWhen
    <2>1. /\ phase = "resolve" /\ Len(frames) > 1 /\ frames' = Popped /\ count' = count
          /\ (heap' = heap \/ \E n : heap' = Append(heap, n))
      BY <1>10 DEF EndIf, EndFor, EndDefer, EndWhen, Close
    <2>2. Len(frames') = Len(frames) - 1
      BY <1>1, <2>1, TopFacts
    <2>3. Len(heap') = Len(heap) \/ Len(heap') = Len(heap) + 1
      BY <1>6, <2>1
    <2> QED
      BY <1>1, <1>2, <2>1, <2>2, <2>3 DEF Counted
  <1>11. CASE EndFunction
    <2>1. phase = "resolve" /\ phase' = "resolved" /\ UNCHANGED <<count, heap>>
      BY <1>11 DEF EndFunction
    <2> QED
      BY <2>1 DEF Counted, Building
  <1> QED
    BY <1>3, <1>7, <1>8, <1>9, <1>10, <1>11 DEF Resolve

-----------------------------------------------------------------------------
(* The theorems. *)

\* What the invariant says of the walks of codegen_defers.
LEMMA WalksOfInv == IInv /\ GenInv => WalksTheList
  <1> SUFFICES ASSUME IInv, GenInv PROVE WalksTheList
    OBVIOUS
  <1>1. PICK D : ActsOK(D, heap, ast, dropped, acts) /\ Opened(D, acts, Len(opens))
    BY DEF GenInv, Shape
  <1>2. acts \in Seq(ActType) /\ opens \in Seq(1..Len(out))
    BY DEF GenInv, GenTypeOK, ActType
  <1>3. Len(opens) \in Nat /\ Len(opens) >= Len(acts) /\ (Len(acts) = 0 => Len(opens) = 0)
    BY <1>1, <1>2, OpenedFacts
  <1>4. phase \in {"compiled", "run"} => opens = <<>>
    <2> SUFFICES ASSUME phase \in {"compiled", "run"} PROVE opens = <<>>
      OBVIOUS
    <2>1. acts = <<>>
      BY DEF GenInv, Idle
    <2>2. Len(opens) = 0
      BY <1>3, <2>1
    <2> QED
      BY <1>2, <2>2, EmptySeq
  <1>5. UnwindsOlder
    <2> SUFFICES ASSUME NEW i \in 1..(Len(acts) - 1) PROVE acts[i + 1].hi < acts[i].hi
      BY DEF UnwindsOlder
    <2>1. Len(acts) \in Nat /\ i \in 1..Len(acts) /\ i + 1 \in 1..Len(acts)
      BY <1>2, LenProperties
    <2>2. acts[i + 1].hi < acts[i].pc
      BY <1>1 DEF ActsOK
    <2>3. acts[i].pc \in 1..acts[i].hi
      BY <1>1, <2>1 DEF ActsOK, ActOK
    <2>4. acts[i] \in ActType /\ acts[i + 1] \in ActType
      BY <1>2, <2>1, ElementOfSeq
    <2>5. acts[i].hi \in Nat /\ acts[i].pc \in Nat /\ acts[i + 1].hi \in Nat
      BY <2>4, SMTT(30) DEF ActType
    <2> QED
      BY <2>2, <2>3, <2>5
  <1> QED
    BY <1>3, <1>4, <1>5 DEF WalksTheList, BlocksMatch, GenInv

\* codegen_defers never follows the NULL at the end of the list, unless a
\* branchless `when` has cleared the list; the bodies that it generates inside
\* one another end earlier and earlier in the tree, so their nesting is bounded
\* by the number of defers; and every block that is opened in C is closed.
THEOREM WalksCorrect == CSpec => []WalksTheList
  <1> QED
    BY InitGen, NextGen, WalksOfInv, PTL DEF CSpec

\* The code generator's state is well typed, for functions of any length.
THEOREM GenTypeCorrect == CSpec => []GenTypeOK
  <1>1. GenInv => GenTypeOK
    BY DEF GenInv
  <1> QED
    BY <1>1, InitGen, NextGen, PTL DEF CSpec

\* What the resolver recorded still holds while C is generated and while the
\* function runs: the walks are over the lists that the resolver meant.
THEOREM ResolvedStays ==
    CSpec => [](ResolveTypeOK /\ ListIsScope /\ ExitsUnwind /\ LoopIsTracked)
  <1>1. IInv => ResolveTypeOK /\ ListIsScope /\ ExitsUnwind /\ LoopIsTracked
    BY DEF IInv, FramesOK
  <1> QED
    BY <1>1, InitGen, NextGen, PTL DEF CSpec
=============================================================================
