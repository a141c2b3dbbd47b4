-------------------------- MODULE DeferPromiseProofs --------------------------
(***************************************************************************)
(* The proof that the C function which comes out of the resolver and the   *)
(* code generator keeps the promise of `defer` (ScopeExit), whatever the   *)
(* function, and that its execution is well typed.                         *)
(*                                                                         *)
(* The argument is about places.  A place is a point between two tokens,   *)
(* of the tree or of the C text; place p is in front of token p.  At each  *)
(* place of the tree, E gives the blocks that are open (their opening      *)
(* tokens, outermost first) and L the defers in force, oldest first.  At   *)
(* each place of the text, B gives the C blocks that are open and W the    *)
(* defers that wait there: the places where they were reached.  For each   *)
(* activation of codegen_block, X keeps where it began and the C blocks it *)
(* has opened, Y the defers it has reached and not yet run.  E, L, B and W *)
(* are functions of the tree and of the text; the invariant says that they *)
(* exist.                                                                  *)
(***************************************************************************)
EXTENDS DeferCodegenProofs, FiniteSetTheorems, WellFoundedInduction

-----------------------------------------------------------------------------
(* The places of the text. *)

\* Enclosing, for the text o: the blocks that are open in front of token p.
Open(o, p) ==
    {q \in 1..p - 1 : o[q].op \in COpeners} \
        {o[e].open : e \in {q \in 1..p - 1 : o[q].op = "end"}}

\* What each token of C does, and where it comes from.
CFlow(B, h, a, o, p) ==
    /\ o[p].op \in COpeners => B[p + 1] = Append(B[p], p)
    /\ o[p].op \in Jumps \cup {"reach"} => B[p + 1] = B[p]
    /\ o[p].op = "end" =>
         /\ B[p] # <<>> /\ o[p].open = Tip(B[p])
         /\ B[p + 1] = B[Tip(B[p])]
    /\ o[p].op \notin {"reach", "run"} => o[p].src \in 1..Len(a) /\ a[o[p].src].op = o[p].op
    /\ o[p].op = "run" => o[p].src \in 1..Len(a) /\ a[o[p].src].op = "defer"
    /\ o[p].op \in {"reach", "run"} => o[p].defer \in 1..Len(h)
    /\ o[p].op \in {"break", "continue"} => \E i \in 1..Len(B[p]) : o[B[p][i]].op = "for"
    /\ p > 1 => B[p] # <<>>

\* The C blocks around p were opened one in another, before p; they are the
\* blocks that C sees there.
CNest(B, o, p) ==
    \A i \in 1..Len(B[p]) :
        /\ B[p][i] \in 1..p - 1 /\ o[B[p][i]].op \in COpeners
        /\ Begins(B[B[p][i]], B[p]) /\ Len(B[B[p][i]]) = i - 1
CPlace(B, o, p) ==
    CNest(B, o, p) /\ Open(o, p) = {B[p][i] : i \in 1..Len(B[p])}

\* The text o with its places: what each token does, and what is around each place.
Text(B, h, a, o) ==
    /\ B \in Seq(Seq(Nat)) /\ o \in Seq(CTokType)
    /\ Len(B) = Len(o) + 1 /\ B[1] = <<>>
    /\ \A p \in 1..Len(o) : CFlow(B, h, a, o, p)
    /\ \A p \in 1..Len(o) + 1 : CPlace(B, o, p)

\* The text has one token more.
Writes(B, h, a, o, t, b, B2, o2) ==
    /\ Text(B, h, a, o) /\ t \in CTokType /\ b \in Seq(Nat)
    /\ o2 = Append(o, t) /\ B2 = Append(B, b)

\* Writing, place by place.
LEMMA WritesFacts ==
    ASSUME NEW B, NEW h, NEW a, NEW o, NEW t, NEW b, NEW B2, NEW o2,
           Writes(B, h, a, o, t, b, B2, o2)
    PROVE  /\ Len(o) \in Nat /\ o \in Seq(CTokType) /\ B \in Seq(Seq(Nat))
           /\ o2 \in Seq(CTokType) /\ B2 \in Seq(Seq(Nat))
           /\ Len(B) = Len(o) + 1 /\ Len(o2) = Len(o) + 1 /\ Len(B2) = Len(o) + 2
           /\ o2[Len(o) + 1] = t /\ B2[Len(o) + 2] = b /\ B2[1] = <<>>
           /\ \A p \in 1..Len(o) + 1 : B2[p] = B[p] /\ B[p] \in Seq(Nat)
           /\ \A p \in 1..Len(o) : o2[p] = o[p] /\ o[p] \in CTokType
  <1>1. /\ B \in Seq(Seq(Nat)) /\ o \in Seq(CTokType) /\ Len(B) = Len(o) + 1 /\ B[1] = <<>>
        /\ t \in CTokType /\ b \in Seq(Nat) /\ o2 = Append(o, t) /\ B2 = Append(B, b)
    BY DEF Writes, Text
  <1>2. Len(o) \in Nat
    BY <1>1
  <1>3. /\ o2 \in Seq(CTokType) /\ Len(o2) = Len(o) + 1 /\ o2[Len(o) + 1] = t
        /\ \A p \in 1..Len(o) : o2[p] = o[p]
    BY <1>1, AppendLonger DEF Longer
  <1>4. /\ B2 \in Seq(Seq(Nat)) /\ Len(B2) = Len(B) + 1 /\ B2[Len(B) + 1] = b
        /\ \A p \in 1..Len(B) : B2[p] = B[p]
    BY <1>1, AppendLonger, SMTT(30) DEF Longer
  <1>5. \A p \in 1..Len(B) : B[p] \in Seq(Nat)
    BY <1>1, ElementOfSeq
  <1>6. \A p \in 1..Len(o) : o[p] \in CTokType
    BY <1>1, ElementOfSeq
  <1>7. Len(B) + 1 = Len(o) + 2 /\ 1 \in 1..Len(B)
    BY <1>1, <1>2
  <1> QED
    BY <1>1, <1>2, <1>3, <1>4, <1>5, <1>6, <1>7

\* The blocks around a place were opened in this order.
LEMMA BlocksRise ==
    ASSUME NEW B \in Seq(Seq(Nat)), NEW o, NEW p \in 1..Len(B),
           \A q \in 1..p : CNest(B, o, q)
    PROVE  \A j \in 1..Len(B[p]) : \A i \in 1..j - 1 : B[p][i] < B[p][j]
  <1> SUFFICES ASSUME NEW j \in 1..Len(B[p]), NEW i \in 1..j - 1 PROVE B[p][i] < B[p][j]
    OBVIOUS
  <1>1. Len(B[p]) \in Nat /\ Len(B) \in Nat
    BY PlaceTyped
  <1>2. B[p][j] \in 1..p - 1 /\ Begins(B[B[p][j]], B[p]) /\ Len(B[B[p][j]]) = j - 1
    BY DEF CNest
  <1>3. i \in 1..Len(B[p]) /\ i \in 1..Len(B[B[p][j]])
    BY <1>1, <1>2, SMTT(30)
  <1>4. B[B[p][j]][i] = B[p][i]
    BY <1>2, <1>3 DEF Begins
  <1>5. B[p][i] \in 1..p - 1
    BY <1>3 DEF CNest
  <1>6. B[p][j] \in 1..p /\ p \in Nat
    BY <1>1, <1>2, SMTT(30)
  <1>7. CNest(B, o, B[p][j])
    BY <1>6
  <1>8. B[B[p][j]][i] \in 1..B[p][j] - 1
    BY <1>3, <1>7 DEF CNest
  <1>9. B[p][i] \in 1..B[p][j] - 1
    BY <1>4, <1>8
  <1>10. B[p][j] \in Nat /\ B[p][i] \in Nat
    BY <1>6, <1>9, <1>5, SMTT(30)
  <1> QED
    BY <1>9, <1>10, SMTT(30)

\* What is said of the old places of the text stays true.
LEMMA TextStays ==
    ASSUME NEW B, NEW h, NEW a, NEW o, NEW t, NEW b, NEW B2, NEW o2,
           Writes(B, h, a, o, t, b, B2, o2)
    PROVE  /\ \A p \in 1..Len(o) : CFlow(B2, h, a, o2, p)
           /\ \A p \in 1..Len(o) + 1 : CPlace(B2, o2, p) /\ Open(o2, p) = Open(o, p)
  <1>1. /\ Len(o) \in Nat
        /\ \A p \in 1..Len(o) + 1 : B2[p] = B[p] /\ B[p] \in Seq(Nat)
        /\ \A p \in 1..Len(o) : o2[p] = o[p]
    <2>1. Len(o) \in Nat /\ \A p \in 1..Len(o) + 1 : B2[p] = B[p] /\ B[p] \in Seq(Nat)
      BY WritesFacts
    <2>2. \A p \in 1..Len(o) : o2[p] = o[p] /\ o[p] \in CTokType
      BY WritesFacts
    <2> QED
      BY <2>1, <2>2
  <1>2. /\ \A p \in 1..Len(o) : CFlow(B, h, a, o, p)
        /\ \A p \in 1..Len(o) + 1 : CPlace(B, o, p)
    BY DEF Writes, Text
  <1>3. ASSUME NEW p \in 1..Len(o) + 1, NEW i \in 1..Len(B[p])
        PROVE  B[p][i] \in 1..p - 1 /\ B[p][i] \in 1..Len(o) /\ B[p][i] \in 1..Len(o) + 1
               /\ B2[B[p][i]] = B[B[p][i]] /\ o2[B[p][i]] = o[B[p][i]]
    <2>1. B[p][i] \in 1..p - 1
      BY <1>2 DEF CPlace, CNest
    <2>2. B[p][i] \in 1..Len(o) /\ B[p][i] \in 1..Len(o) + 1
      BY <1>1, <2>1
    <2> QED
      BY <1>1, <2>1, <2>2
  <1>4. ASSUME NEW p \in 1..Len(o) PROVE CFlow(B2, h, a, o2, p)
    <2>1. CFlow(B, h, a, o, p) /\ p \in 1..Len(o) + 1 /\ p + 1 \in 1..Len(o) + 1
      BY <1>1, <1>2
    <2>2. B2[p] = B[p] /\ B2[p + 1] = B[p + 1] /\ o2[p] = o[p] /\ B[p] \in Seq(Nat)
      BY <1>1, <2>1
    <2>3. B[p] # <<>> => B2[Tip(B[p])] = B[Tip(B[p])]
      <3>1. B[p] # <<>> => Len(B[p]) \in 1..Len(B[p])
        BY <2>2
      <3> QED
        BY <1>3, <2>1, <3>1 DEF Tip
    <2>4. \A i \in 1..Len(B[p]) : o2[B[p][i]] = o[B[p][i]]
      BY <1>3, <2>1
    <2> QED
      BY <2>1, <2>2, <2>3, <2>4 DEF CFlow
  <1>5. ASSUME NEW p \in 1..Len(o) + 1 PROVE CNest(B2, o2, p)
    <2>1. CNest(B, o, p) /\ B2[p] = B[p]
      BY <1>1, <1>2 DEF CPlace
    <2>2. \A i \in 1..Len(B[p]) : o2[B[p][i]] = o[B[p][i]] /\ B2[B[p][i]] = B[B[p][i]]
      BY <1>3
    <2> QED
      BY <2>1, <2>2 DEF CNest
  <1>6. ASSUME NEW p \in 1..Len(o) + 1 PROVE Open(o2, p) = Open(o, p)
    <2>1. \A q \in 1..p - 1 : o2[q] = o[q]
      BY <1>1
    <2> QED
      BY <2>1 DEF Open
  <1>7. ASSUME NEW p \in 1..Len(o) + 1 PROVE Open(o2, p) = {B2[p][i] : i \in 1..Len(B2[p])}
    <2>1. B2[p] = B[p] /\ Open(o, p) = {B[p][i] : i \in 1..Len(B[p])}
      BY <1>1, <1>2 DEF CPlace
    <2> QED
      BY <1>6, <2>1
  <1> QED
    BY <1>4, <1>5, <1>6, <1>7 DEF CPlace

\* The blocks that are open behind a token, from those in front of it.
LEMMA OpenNext ==
    ASSUME NEW o, NEW z \in Nat, z > 0,
           \A e \in 1..z - 1 : o[e].op = "end" => o[e].open \in 1..e - 1
    PROVE  /\ o[z].op \in COpeners => Open(o, z + 1) = Open(o, z) \cup {z}
           /\ o[z].op = "end" => Open(o, z + 1) = Open(o, z) \ {o[z].open}
           /\ o[z].op \notin COpeners \cup {"end"} => Open(o, z + 1) = Open(o, z)
  <1> DEFINE P(n) == {q \in 1..n : o[q].op \in COpeners}
             F(n) == {o[e].open : e \in {q \in 1..n : o[q].op = "end"}}
  <1>1. Open(o, z) = P(z - 1) \ F(z - 1) /\ Open(o, z + 1) = P(z) \ F(z)
    BY DEF Open
  <1>2. 1..z = (1..z - 1) \cup {z}
    OBVIOUS
  <1>3. z \notin F(z - 1)
    OBVIOUS
  <1>4. CASE o[z].op \in COpeners
    <2>1. P(z) = P(z - 1) \cup {z}
      BY <1>2, <1>4
    <2>2. F(z) = F(z - 1)
      BY <1>2, <1>4 DEF COpeners
    <2> QED
      BY <1>1, <1>3, <1>4, <2>1, <2>2 DEF COpeners
  <1>5. CASE o[z].op = "end"
    <2>1. P(z) = P(z - 1)
      BY <1>2, <1>5 DEF COpeners
    <2>2. F(z) = F(z - 1) \cup {o[z].open}
      BY <1>2, <1>5
    <2> QED
      BY <1>1, <1>5, <2>1, <2>2 DEF COpeners
  <1>6. CASE o[z].op \notin COpeners \cup {"end"}
    <2>1. P(z) = P(z - 1)
      BY <1>2, <1>6
    <2>2. F(z) = F(z - 1)
      BY <1>2, <1>6
    <2> QED
      BY <1>1, <1>6, <2>1, <2>2
  <1> QED
    BY <1>4, <1>5, <1>6

\* The blocks around the place behind an opening token.
LEMMA OpenerNest ==
    ASSUME NEW B \in Seq(Seq(Nat)), NEW o, NEW z \in Nat, z > 0, Len(B) = z + 1,
           CNest(B, o, z), o[z].op \in COpeners, B[z + 1] = Append(B[z], z)
    PROVE  /\ CNest(B, o, z + 1)
           /\ {B[z + 1][i] : i \in 1..Len(B[z + 1])} = {B[z][i] : i \in 1..Len(B[z])} \cup {z}
  <1> DEFINE s == B[z]
             b == B[z + 1]
  <1>1. s \in Seq(Nat) /\ b \in Seq(Nat) /\ Len(s) \in Nat /\ b = Append(s, z)
    <2>1. z \in 1..Len(B) /\ z + 1 \in 1..Len(B)
      OBVIOUS
    <2> QED
      BY <2>1, PlaceTyped
  <1>2. \A i \in 1..Len(s) :
          /\ s[i] \in 1..z - 1 /\ o[s[i]].op \in COpeners
          /\ Begins(B[s[i]], s) /\ Len(B[s[i]]) = i - 1
    BY DEF CNest
  <1> HIDE DEF s, b
  <1>3. Len(b) = Len(s) + 1 /\ b[Len(s) + 1] = z
    BY <1>1, BeginsLonger
  <1>4. \A i \in 1..Len(s) : b[i] = s[i]
    BY <1>1, BeginsLonger
  <1>5. Begins(s, b)
    BY <1>1, BeginsLonger
  <1>6. \A i \in 1..Len(b) : i \in 1..Len(s) \/ i = Len(s) + 1
    <2>1. Len(s) \in Nat
      BY <1>1
    <2> DEFINE m == Len(s)
    <2>2. Len(b) = m + 1 /\ m \in Nat
      BY <1>3, <2>1
    <2> HIDE DEF m
    <2>3. \A i \in 1..m + 1 : i \in 1..m \/ i = m + 1
      BY <2>2
    <2> QED
      BY <2>2, <2>3 DEF m
  <1>7. CNest(B, o, z + 1)
    <2> SUFFICES ASSUME NEW i \in 1..Len(b)
                 PROVE  /\ b[i] \in 1..(z + 1) - 1 /\ o[b[i]].op \in COpeners
                        /\ Begins(B[b[i]], b) /\ Len(B[b[i]]) = i - 1
      BY DEF CNest, b
    <2>1. CASE i = Len(s) + 1
      <3>1. b[i] = z /\ B[z] = s
        BY <1>3, <2>1 DEF s
      <3> QED
        BY <1>1, <1>5, <2>1, <3>1
    <2>2. CASE i \in 1..Len(s)
      <3>1. /\ s[i] \in 1..z - 1 /\ o[s[i]].op \in COpeners
            /\ Begins(B[s[i]], s) /\ Len(B[s[i]]) = i - 1
        BY <1>2, <2>2
      <3>2. b[i] = s[i]
        BY <1>4, <2>2
      <3>3. s[i] \in 1..Len(B)
        BY <3>1
      <3>4. B[s[i]] \in Seq(Nat)
        BY <3>3, ElementOfSeq
      <3>5. Begins(B[s[i]], b)
        BY <1>1, <1>5, <3>1, <3>4, BeginsOrder
      <3>6. s[i] \in 1..(z + 1) - 1
        BY <3>1
      <3> QED
        BY <3>1, <3>2, <3>5, <3>6
    <2> QED
      BY <1>6, <2>1, <2>2
  <1>8. {b[i] : i \in 1..Len(b)} = {s[i] : i \in 1..Len(s)} \cup {z}
    <2>1. Len(s) \in Nat
      BY <1>1
    <2>2. \A i \in 1..Len(s) : i \in 1..Len(b)
      BY <1>3, <2>1
    <2>3. Len(s) + 1 \in 1..Len(b)
      BY <1>3, <2>1
    <2>4. ASSUME NEW i \in 1..Len(b) PROVE b[i] \in {s[j] : j \in 1..Len(s)} \cup {z}
      BY <1>3, <1>4, <1>6
    <2>5. ASSUME NEW i \in 1..Len(s) PROVE s[i] \in {b[j] : j \in 1..Len(b)}
      BY <1>4, <2>2
    <2>6. z \in {b[j] : j \in 1..Len(b)}
      BY <1>3, <2>3
    <2> QED
      BY <2>4, <2>5, <2>6
  <1> QED
    BY <1>7, <1>8 DEF s, b

\* The blocks around the place behind a closing token.
LEMMA EndNest ==
    ASSUME NEW B \in Seq(Seq(Nat)), NEW o, NEW z \in Nat, z > 0, Len(B) = z + 1,
           \A q \in 1..z : CNest(B, o, q), B[z] # <<>>, B[z + 1] = B[Tip(B[z])]
    PROVE  /\ CNest(B, o, z + 1)
           /\ {B[z + 1][i] : i \in 1..Len(B[z + 1])} = {B[z][i] : i \in 1..Len(B[z])} \ {Tip(B[z])}
  <1> DEFINE s == B[z]
             b == B[z + 1]
             k == Len(s)
  <1>1. s \in Seq(Nat) /\ k \in Nat /\ k \in 1..k
    <2>1. z \in 1..Len(B)
      OBVIOUS
    <2>2. s \in Seq(Nat)
      BY <2>1, PlaceTyped
    <2> QED
      BY <2>2
  <1>2. \A i \in 1..k :
          /\ s[i] \in 1..z - 1 /\ o[s[i]].op \in COpeners
          /\ Begins(B[s[i]], s) /\ Len(B[s[i]]) = i - 1
    <2>1. z \in 1..z
      OBVIOUS
    <2> QED
      BY <2>1 DEF CNest
  <1>3. \A i \in 1..k : B[s[i]] \in Seq(Nat)
    <2> SUFFICES ASSUME NEW i \in 1..k PROVE B[s[i]] \in Seq(Nat)
      OBVIOUS
    <2>1. s[i] \in 1..z - 1
      BY <1>2
    <2>2. s[i] \in 1..Len(B)
      BY <2>1
    <2> QED
      BY <2>2, ElementOfSeq
  <1>4. \A j \in 1..k : \A i \in 1..j - 1 : s[i] < s[j]
    <2>1. z \in 1..Len(B)
      OBVIOUS
    <2> QED
      BY <2>1, BlocksRise
  <1>5. b = B[s[k]]
    BY DEF Tip
  <1> HIDE DEF s, b, k
  <1>6. Begins(b, s) /\ Len(b) = k - 1 /\ b \in Seq(Nat)
    BY <1>1, <1>2, <1>3, <1>5
  <1>7. \A i \in 1..Len(b) : b[i] = s[i] /\ i \in 1..k /\ i \in 1..k - 1
    BY <1>1, <1>6 DEF Begins
  <1>8. CNest(B, o, z + 1)
    <2> SUFFICES ASSUME NEW i \in 1..Len(b)
                 PROVE  /\ b[i] \in 1..(z + 1) - 1 /\ o[b[i]].op \in COpeners
                        /\ Begins(B[b[i]], b) /\ Len(B[b[i]]) = i - 1
      BY DEF CNest, b
    <2>1. b[i] = s[i] /\ i \in 1..k /\ i \in 1..k - 1
      BY <1>7
    <2>2. /\ s[i] \in 1..z - 1 /\ o[s[i]].op \in COpeners
          /\ Begins(B[s[i]], s) /\ Len(B[s[i]]) = i - 1
      BY <1>2, <2>1
    <2>3. B[s[i]] \in Seq(Nat) /\ Len(B[s[i]]) <= Len(b)
      <3>1. B[s[i]] \in Seq(Nat)
        BY <1>3, <2>1
      <3>2. Len(B[s[i]]) = i - 1 /\ Len(b) = k - 1 /\ k \in Nat
        BY <1>1, <1>6, <2>2
      <3>3. i - 1 <= k - 1
        BY <2>1, <3>2
      <3> QED
        BY <3>1, <3>2, <3>3
    <2>4. Begins(B[s[i]], b)
      BY <1>1, <1>6, <2>2, <2>3, BeginsOrder
    <2>5. s[i] \in 1..(z + 1) - 1
      BY <2>2
    <2> QED
      BY <2>1, <2>2, <2>4, <2>5
  <1>9. {b[i] : i \in 1..Len(b)} = {s[i] : i \in 1..k} \ {s[k]}
    <2>1. \A i \in 1..Len(b) : s[i] # s[k]
      <3> SUFFICES ASSUME NEW i \in 1..Len(b) PROVE s[i] # s[k]
        OBVIOUS
      <3>1. i \in 1..k - 1 /\ i \in 1..k
        BY <1>7
      <3>2. s[i] < s[k]
        BY <1>1, <1>4, <3>1
      <3>3. s[i] \in Nat /\ s[k] \in Nat
        BY <1>1, <3>1, ElementOfSeq DEF k
      <3> QED
        BY <3>2, <3>3
    <2>2. 1..k = (1..Len(b)) \cup {k}
      BY <1>1, <1>6
    <2> QED
      BY <1>7, <2>1, <2>2
  <1> QED
    BY <1>8, <1>9 DEF s, b, k, Tip

\* The text with a token more has its places, when the token does what its
\* kind of token does.
LEMMA TextWrites ==
    ASSUME NEW B, NEW h, NEW a, NEW o, NEW t, NEW b, NEW B2, NEW o2,
           Writes(B, h, a, o, t, b, B2, o2), CFlow(B2, h, a, o2, Len(o) + 1)
    PROVE  Text(B2, h, a, o2)
  <1> DEFINE z == Len(o) + 1
  <1>1. z \in Nat /\ z > 0 /\ z \in 1..z /\ z - 1 = Len(o)
    BY WritesFacts
  <1>2. /\ o2 \in Seq(CTokType) /\ B2 \in Seq(Seq(Nat))
        /\ Len(o2) = z /\ Len(B2) = z + 1 /\ B2[1] = <<>>
    BY WritesFacts
  <1>3. o2[z] = t
    BY WritesFacts
  <1>4. \A p \in 1..Len(o) : CFlow(B2, h, a, o2, p)
    BY TextStays
  <1>5. \A p \in 1..z : CPlace(B2, o2, p)
    BY TextStays
  <1>6. CFlow(B2, h, a, o2, z)
    OBVIOUS
  <1> HIDE DEF z
  <1>7. \A p \in 1..z : CFlow(B2, h, a, o2, p)
    <2> SUFFICES ASSUME NEW p \in 1..z PROVE CFlow(B2, h, a, o2, p)
      OBVIOUS
    <2>1. p = z \/ p \in 1..z - 1
      BY <1>1
    <2> QED
      BY <1>1, <1>4, <1>6, <2>1
  <1>8. \A e \in 1..z - 1 : o2[e].op = "end" => o2[e].open \in 1..e - 1
    <2> SUFFICES ASSUME NEW e \in 1..z - 1, o2[e].op = "end" PROVE o2[e].open \in 1..e - 1
      OBVIOUS
    <2>1. e \in 1..z /\ e \in 1..Len(B2)
      BY <1>1, <1>2, SMTT(30)
    <2>2. B2[e] # <<>> /\ o2[e].open = Tip(B2[e])
      BY <1>7, <2>1 DEF CFlow
    <2>3. B2[e] \in Seq(Nat)
      BY <1>2, <2>1, PlaceTyped
    <2>4. Len(B2[e]) \in 1..Len(B2[e])
      BY <2>2, <2>3
    <2>5. CNest(B2, o2, e)
      BY <1>5, <2>1 DEF CPlace
    <2> QED
      BY <2>2, <2>4, <2>5 DEF CNest, Tip
  <1>9. /\ o2[z].op \in COpeners => Open(o2, z + 1) = Open(o2, z) \cup {z}
        /\ o2[z].op = "end" => Open(o2, z + 1) = Open(o2, z) \ {o2[z].open}
        /\ o2[z].op \notin COpeners \cup {"end"} => Open(o2, z + 1) = Open(o2, z)
    BY <1>1, <1>8, OpenNext
  <1>10. CNest(B2, o2, z) /\ Open(o2, z) = {B2[z][i] : i \in 1..Len(B2[z])}
    BY <1>1, <1>5 DEF CPlace
  <1>11. \A q \in 1..z : CNest(B2, o2, q)
    BY <1>5 DEF CPlace
  <1>12. CPlace(B2, o2, z + 1)
    <2>1. CASE o2[z].op \in COpeners
      <3>1. B2[z + 1] = Append(B2[z], z)
        BY <1>6, <2>1 DEF CFlow
      <3>2. /\ CNest(B2, o2, z + 1)
            /\ {B2[z + 1][i] : i \in 1..Len(B2[z + 1])} = {B2[z][i] : i \in 1..Len(B2[z])} \cup {z}
        <4>1. CNest(B2, o2, z)
          BY <1>10
        <4>2. B2 \in Seq(Seq(Nat)) /\ Len(B2) = z + 1 /\ z \in Nat /\ z > 0
          BY <1>1, <1>2
        <4> QED
          BY <2>1, <3>1, <4>1, <4>2, OpenerNest
      <3> QED
        BY <1>9, <1>10, <2>1, <3>2 DEF CPlace
    <2>2. CASE o2[z].op = "end"
      <3>1. B2[z] # <<>> /\ o2[z].open = Tip(B2[z]) /\ B2[z + 1] = B2[Tip(B2[z])]
        BY <1>6, <2>2 DEF CFlow
      <3>2. /\ CNest(B2, o2, z + 1)
            /\ {B2[z + 1][i] : i \in 1..Len(B2[z + 1])}
                 = {B2[z][i] : i \in 1..Len(B2[z])} \ {Tip(B2[z])}
        BY <1>1, <1>2, <1>11, <3>1, EndNest
      <3> QED
        BY <1>9, <1>10, <2>2, <3>1, <3>2 DEF CPlace
    <2>3. CASE o2[z].op \in Jumps \cup {"reach"}
      <3>1. B2[z + 1] = B2[z]
        BY <1>6, <2>3 DEF CFlow
      <3>2. Open(o2, z + 1) = Open(o2, z)
        BY <1>9, <2>3 DEF Jumps, COpeners
      <3>3. CNest(B2, o2, z + 1)
        <4> SUFFICES ASSUME NEW i \in 1..Len(B2[z])
                     PROVE  /\ B2[z][i] \in 1..(z + 1) - 1 /\ o2[B2[z][i]].op \in COpeners
                            /\ Begins(B2[B2[z][i]], B2[z]) /\ Len(B2[B2[z][i]]) = i - 1
          BY <3>1 DEF CNest
        <4>1. /\ B2[z][i] \in 1..z - 1 /\ o2[B2[z][i]].op \in COpeners
              /\ Begins(B2[B2[z][i]], B2[z]) /\ Len(B2[B2[z][i]]) = i - 1
          BY <1>10 DEF CNest
        <4>2. B2[z][i] \in 1..(z + 1) - 1
          BY <1>1, <4>1
        <4> QED
          BY <4>1, <4>2
      <3> QED
        BY <1>10, <3>1, <3>2, <3>3 DEF CPlace
    <2>4. o2[z].op \in COpeners \cup Exits \cup {"reach"}
      BY <1>3 DEF Writes, CTokType
    <2> QED
      BY <2>1, <2>2, <2>3, <2>4 DEF Exits, Jumps
  <1>13. \A p \in 1..Len(o2) + 1 : CPlace(B2, o2, p)
    <2> SUFFICES ASSUME NEW p \in 1..z + 1 PROVE CPlace(B2, o2, p)
      BY <1>2
    <2>1. p = z + 1 \/ p \in 1..z
      BY <1>1
    <2> QED
      BY <1>5, <1>12, <2>1
  <1> QED
    BY <1>2, <1>7, <1>13 DEF Text

\* An element of a beginning.
LEMMA BeginsAt ==
    ASSUME NEW s \in Seq(Nat), NEW t \in Seq(Nat), Begins(s, t), NEW i \in 1..Len(s)
    PROVE  i \in 1..Len(t) /\ t[i] = s[i]
  <1>1. Len(s) \in Nat /\ Len(t) \in Nat
    OBVIOUS
  <1> QED
    BY <1>1 DEF Begins

-----------------------------------------------------------------------------
(* Where an activation of codegen_block stands in the tree and in the text. *)

\* The complete tree, place by place.
LEMMA TreeFacts ==
    ASSUME NEW E, NEW L, NEW h, NEW a, Complete(E, L, h, a)
    PROVE  /\ Len(a) \in Nat /\ Len(h) \in Nat
           /\ \A p \in 1..Len(a) + 1 : E[p] \in Seq(Nat) /\ Len(E[p]) \in Nat
           /\ \A p \in 1..Len(a) + 1 : L[p] \in Seq(Nat) /\ Len(L[p]) \in Nat
           /\ \A p \in 1..Len(a) + 1 : Around(E, L, a, p)
           /\ \A p \in 1..Len(a) + 1 : InForce(E, L, h, p)
           /\ \A p \in 1..Len(a) : a[p] \in TokenType
           /\ \A p \in 1..Len(a) : DueOK(E, L, a, p)
           /\ \A d \in 1..Len(h) : BodyIn(E, L, h, a, d)
  <1>1. /\ E \in Seq(Seq(Nat)) /\ L \in Seq(Seq(Nat)) /\ a \in Seq(TokenType) /\ h \in Seq(DeferType)
        /\ Scoped(E, L, h, a)
    BY DEF Complete
  <1>2. Len(a) \in Nat /\ Len(h) \in Nat /\ Len(E) = Len(a) + 1 /\ Len(L) = Len(a) + 1
    BY <1>1 DEF Scoped
  <1>3. \A p \in 1..Len(a) + 1 : E[p] \in Seq(Nat) /\ Len(E[p]) \in Nat
    BY <1>1, <1>2, PlaceTyped
  <1>4. \A p \in 1..Len(a) + 1 : L[p] \in Seq(Nat) /\ Len(L[p]) \in Nat
    BY <1>1, <1>2, PlaceTyped
  <1>5. \A p \in 1..Len(a) : a[p] \in TokenType
    BY <1>1, ElementOfSeq
  <1>6. /\ \A p \in 1..Len(a) + 1 : Around(E, L, a, p) /\ InForce(E, L, h, p)
        /\ \A p \in 1..Len(a) : DueOK(E, L, a, p)
        /\ \A d \in 1..Len(h) : BodyIn(E, L, h, a, d)
    BY <1>1 DEF Scoped
  <1> QED
    BY <1>2, <1>3, <1>4, <1>5, <1>6

\* The complete tree, token by token.
LEMMA TreeFlows ==
    ASSUME NEW E, NEW L, NEW h, NEW a, Complete(E, L, h, a), NEW p \in 1..Len(a)
    PROVE  /\ a[p].op \in Openers => E[p + 1] = Append(E[p], p) /\ L[p + 1] = L[p]
           /\ a[p].op \in Jumps => E[p + 1] = E[p] /\ L[p + 1] = L[p]
           /\ a[p].op = "end" =>
                /\ E[p] # <<>> /\ Tip(E[p]) \in 1..p - 1 /\ a[Tip(E[p])].op \in Openers
                /\ E[p + 1] = E[Tip(E[p])]
                /\ a[Tip(E[p])].op # "defer" => L[p + 1] = L[Tip(E[p])]
           /\ a[p].op = "end" =>
                Begins(E[p + 1], E[p]) /\ Len(E[p + 1]) = Len(E[p]) - 1 /\ Begins(L[Tip(E[p])], L[p])
  <1>1. Flows(E, L, a)
    BY DEF Complete, Scoped
  <1>2. a[p].op = "end" => E[p] # <<>>
    BY <1>1 DEF Flows
  <1>3. Len(a) \in Nat /\ p \in 1..Len(a) + 1
    BY TreeFacts
  <1>4. E[p] \in Seq(Nat) /\ Around(E, L, a, p)
    BY <1>3, TreeFacts
  <1>5. a[p].op = "end" => Len(E[p]) \in 1..Len(E[p])
    BY <1>2, <1>4
  <1>6. a[p].op = "end" =>
          /\ Tip(E[p]) \in 1..p - 1 /\ a[Tip(E[p])].op \in Openers
          /\ Begins(E[Tip(E[p])], E[p]) /\ Len(E[Tip(E[p])]) = Len(E[p]) - 1
          /\ Begins(L[Tip(E[p])], L[p])
    BY <1>4, <1>5 DEF Around, Tip
  <1> QED
    BY <1>1, <1>2, <1>6 DEF Flows

\* Place p is inside the block that lo opens and hi ends.
Region(E, a, p, hi, lo) ==
    /\ lo \in 1..p - 1 /\ p \in 1..hi /\ hi \in 1..Len(a) /\ a[hi].op = "end"
    /\ E[hi] # <<>> /\ Tip(E[hi]) = lo
    /\ \A q \in lo + 1..hi : Begins(E[lo + 1], E[q])

\* Of the C blocks s, those from u on are the blocks e of the tree, from w on.
Lined(o, s, u, e, w) ==
    /\ Len(s) = u + (Len(e) - w)
    /\ \A k \in 1..Len(e) - w :
         /\ o[s[u + k]].src = e[w + k]
         /\ o[s[u + k]].op \in IF k > 1 THEN {"if", "for"} ELSE IF u = 0 THEN {"fn"} ELSE {"run"}

\* Each loop of the tree is a loop of C.
Looped(a, o, s, e) ==
    \A j \in 1..Len(e) :
        a[e[j]].op = "for" => \E k \in 1..Len(s) : o[s[k]].op = "for" /\ o[s[k]].src = e[j]

\* The blocks of s are opening tokens of the text.
BlocksOK(o, s) == \A k \in 1..Len(s) : s[k] \in 1..Len(o) /\ o[s[k]].op \in COpeners

\* An activation at place p of the body that ends at hi: the body begins at
\* x.lo, was called for inside x.under C blocks, and x.blocks are open now.
StandType == [lo : Nat, under : Nat, blocks : Seq(Nat)]
Spot(E, a, o, p, hi, x) ==
    /\ Region(E, a, p, hi, x.lo)
    /\ x.under = 0 => x.lo = 1 /\ hi = Len(a)
    /\ Lined(o, x.blocks, x.under, E[p], Len(E[x.lo]))
    /\ Looped(a, o, x.blocks, E[p])
    /\ BlocksOK(o, x.blocks)

\* What is around a place of a body.
LEMMA RegionFacts ==
    ASSUME NEW E, NEW L, NEW h, NEW a, Complete(E, L, h, a),
           NEW p, NEW hi, NEW lo, Region(E, a, p, hi, lo)
    PROVE  /\ p \in 1..Len(a) /\ lo \in 1..Len(a) /\ hi \in 1..Len(a)
           /\ p \in 1..Len(a) + 1 /\ p + 1 \in 1..Len(a) + 1 /\ lo + 1 \in 1..Len(a) + 1
           /\ E[p] \in Seq(Nat) /\ Len(E[p]) \in Nat /\ E[lo] \in Seq(Nat) /\ Len(E[lo]) \in Nat
           /\ a[lo].op \in Openers /\ E[lo + 1] = Append(E[lo], lo) /\ L[lo + 1] = L[lo]
           /\ Begins(E[lo + 1], E[p]) /\ Len(E[lo]) < Len(E[p]) /\ E[p][Len(E[lo]) + 1] = lo
           /\ p # hi => p + 1 \in lo + 1..hi /\ Begins(E[lo + 1], E[p + 1])
           /\ Len(E[lo + 1]) = Len(E[lo]) + 1
  <1>1. /\ lo \in 1..p - 1 /\ p \in 1..hi /\ hi \in 1..Len(a) /\ a[hi].op = "end"
        /\ E[hi] # <<>> /\ Tip(E[hi]) = lo
        /\ \A q \in lo + 1..hi : Begins(E[lo + 1], E[q])
    BY DEF Region
  <1>2. Len(a) \in Nat
    BY TreeFacts
  <1>3. /\ p \in 1..Len(a) /\ lo \in 1..Len(a) /\ hi \in 1..Len(a)
        /\ p \in 1..Len(a) + 1 /\ p + 1 \in 1..Len(a) + 1 /\ lo + 1 \in 1..Len(a) + 1
        /\ lo \in 1..Len(a) + 1 /\ p \in lo + 1..hi
        /\ p # hi => p + 1 \in lo + 1..hi
    BY <1>1, <1>2
  <1>4. a[lo].op \in Openers
    BY <1>1, TreeFlows
  <1>5. E[lo + 1] = Append(E[lo], lo) /\ L[lo + 1] = L[lo]
    BY <1>3, <1>4, TreeFlows
  <1>6. E[p] \in Seq(Nat) /\ Len(E[p]) \in Nat /\ E[lo] \in Seq(Nat) /\ Len(E[lo]) \in Nat
    BY <1>3, TreeFacts
  <1>7. lo \in Nat
    BY <1>3
  <1>8. Len(E[lo + 1]) = Len(E[lo]) + 1 /\ E[lo + 1][Len(E[lo]) + 1] = lo
    BY <1>5, <1>6, <1>7, BeginsLonger
  <1>9. Begins(E[lo + 1], E[p]) /\ (p # hi => Begins(E[lo + 1], E[p + 1]))
    BY <1>1, <1>3
  <1>10. Len(E[lo]) + 1 \in 1..Len(E[lo + 1])
    BY <1>6, <1>8
  <1>11. Len(E[lo]) < Len(E[p]) /\ E[p][Len(E[lo]) + 1] = lo
    <2>1. E[lo + 1] \in Seq(Nat)
      BY <1>3, TreeFacts
    <2>2. Len(E[lo]) + 1 \in 1..Len(E[p]) /\ E[p][Len(E[lo]) + 1] = E[lo + 1][Len(E[lo]) + 1]
      BY <1>6, <1>9, <1>10, <2>1, BeginsAt
    <2>3. Len(E[lo]) < Len(E[p])
      BY <1>6, <2>2
    <2> QED
      BY <1>8, <2>2, <2>3
  <1> QED
    BY <1>3, <1>4, <1>5, <1>6, <1>8, <1>9, <1>11

\* More text leaves what is known of the old one.
LEMMA SpotStays ==
    ASSUME NEW E, NEW a, NEW o, NEW o2, NEW p, NEW hi, NEW x \in StandType,
           Spot(E, a, o, p, hi, x), Len(o) \in Nat, Len(o2) \in Nat, Len(o2) >= Len(o),
           \A q \in 1..Len(o) : o2[q] = o[q], Len(E[p]) \in Nat, Len(E[x.lo]) \in Nat
    PROVE  Spot(E, a, o2, p, hi, x)
  <1> DEFINE s == x.blocks
  <1>1. s \in Seq(Nat) /\ Len(s) \in Nat /\ x.under \in Nat
    BY DEF StandType
  <1>2. \A k \in 1..Len(s) : o2[s[k]] = o[s[k]] /\ s[k] \in 1..Len(o2) /\ o[s[k]].op \in COpeners
    <2> SUFFICES ASSUME NEW k \in 1..Len(s)
                 PROVE o2[s[k]] = o[s[k]] /\ s[k] \in 1..Len(o2) /\ o[s[k]].op \in COpeners
      OBVIOUS
    <2>1. s[k] \in 1..Len(o) /\ o[s[k]].op \in COpeners
      BY DEF Spot, BlocksOK
    <2>2. s[k] \in 1..Len(o2)
      BY <2>1
    <2> QED
      BY <2>1, <2>2
  <1>3. BlocksOK(o2, s)
    BY <1>2 DEF BlocksOK
  <1>4. Looped(a, o2, s, E[p])
    BY <1>2, ZenonT(60) DEF Spot, Looped
  <1>5. Lined(o2, s, x.under, E[p], Len(E[x.lo]))
    <2> DEFINE w == Len(E[x.lo])
               e == E[p]
    <2>1. Lined(o, s, x.under, e, w)
      BY DEF Spot
    <2>2. Len(e) \in Nat /\ w \in Nat
      OBVIOUS
    <2> HIDE DEF w, e
    <2>3. Len(s) = x.under + (Len(e) - w)
      BY <2>1 DEF Lined
    <2>4. \A k \in 1..Len(e) - w : x.under + k \in 1..Len(s)
      BY <1>1, <2>2, <2>3, SMTT(30)
    <2>5. \A k \in 1..Len(e) - w : o2[s[x.under + k]] = o[s[x.under + k]]
      BY <1>2, <2>4
    <2>6. Lined(o2, s, x.under, e, w)
      BY <2>1, <2>5 DEF Lined
    <2> QED
      BY <2>6 DEF w, e
  <1> QED
    BY <1>3, <1>4, <1>5 DEF Spot

\* An index of a sequence that is one longer.
LEMMA OneMore ==
    ASSUME NEW m \in Nat, NEW n, n = m + 1
    PROVE  /\ n \in Nat /\ n \in 1..n
           /\ \A i \in 1..n : i \in 1..m \/ i = n
           /\ \A i \in 1..m : i \in 1..n
  OBVIOUS

\* A block more in the tree and in C.
LEMMA LinedMore ==
    ASSUME NEW a, NEW o, NEW s \in Seq(Nat), NEW u \in Nat, NEW e \in Seq(Nat), NEW w \in Nat,
           Lined(o, s, u, e, w), Looped(a, o, s, e), BlocksOK(o, s), w < Len(e),
           NEW z \in 1..Len(o), NEW p \in Nat, Len(o) \in Nat,
           o[z].op \in {"if", "for"}, o[z].src = p, a[p].op = "for" => o[z].op = "for"
    PROVE  /\ Lined(o, Append(s, z), u, Append(e, p), w)
           /\ Looped(a, o, Append(s, z), Append(e, p)) /\ BlocksOK(o, Append(s, z))
  <1> DEFINE s2 == Append(s, z)
             e2 == Append(e, p)
  <1>1. Len(s) \in Nat /\ Len(e) \in Nat /\ z \in Nat
    OBVIOUS
  <1>2. Len(s2) = Len(s) + 1 /\ s2[Len(s) + 1] = z /\ \A i \in 1..Len(s) : s2[i] = s[i]
    BY <1>1, BeginsLonger
  <1>3. Len(e2) = Len(e) + 1 /\ e2[Len(e) + 1] = p /\ \A i \in 1..Len(e) : e2[i] = e[i]
    BY <1>1, BeginsLonger
  <1> HIDE DEF s2, e2
  <1>4. Len(s) = u + (Len(e) - w)
    BY DEF Lined
  <1>5. /\ \A i \in 1..Len(s2) : i \in 1..Len(s) \/ i = Len(s) + 1
        /\ \A i \in 1..Len(s) : i \in 1..Len(s2)
    <2>1. Len(s2) = Len(s) + 1
      BY <1>2
    <2> QED
      BY <1>1, <2>1, OneMore
  <1>6. \A i \in 1..Len(e2) : i \in 1..Len(e) \/ i = Len(e) + 1
    <2>1. Len(e2) = Len(e) + 1
      BY <1>3
    <2> QED
      BY <1>1, <2>1, OneMore
  <1>7. BlocksOK(o, s2)
    BY <1>2, <1>5 DEF BlocksOK, COpeners
  <1>8. Lined(o, s2, u, e2, w)
    <2>1. Len(s2) = u + (Len(e2) - w)
      BY <1>1, <1>2, <1>3, <1>4
    <2>2. ASSUME NEW k \in 1..Len(e2) - w
          PROVE  /\ o[s2[u + k]].src = e2[w + k]
                 /\ o[s2[u + k]].op \in
                      IF k > 1 THEN {"if", "for"} ELSE IF u = 0 THEN {"fn"} ELSE {"run"}
      <3>1. CASE k = Len(e) - w + 1
        <4>1. u + k = Len(s) + 1 /\ w + k = Len(e) + 1 /\ k > 1
          BY <1>1, <1>4, <3>1
        <4> QED
          BY <1>2, <1>3, <4>1
      <3>2. CASE k # Len(e) - w + 1
        <4>1. k \in 1..Len(e) - w
          <5>1. Len(e2) - w = Len(e) - w + 1 /\ Len(e) - w \in Nat
            BY <1>1, <1>3
          <5> QED
            BY <3>2, <5>1, OneMore
        <4>2. u + k \in 1..Len(s) /\ w + k \in 1..Len(e)
          BY <1>1, <1>4, <4>1
        <4>3. s2[u + k] = s[u + k] /\ e2[w + k] = e[w + k]
          BY <1>2, <1>3, <4>2
        <4> QED
          BY <4>1, <4>3 DEF Lined
      <3> QED
        BY <3>1, <3>2
    <2> QED
      BY <2>1, <2>2 DEF Lined
  <1>9. Looped(a, o, s2, e2)
    <2> SUFFICES ASSUME NEW j \in 1..Len(e2), a[e2[j]].op = "for"
                 PROVE  \E k \in 1..Len(s2) : o[s2[k]].op = "for" /\ o[s2[k]].src = e2[j]
      BY DEF Looped
    <2>1. CASE j = Len(e) + 1
      <3>1. Len(s) + 1 \in 1..Len(s2)
        BY <1>1, <1>2
      <3> QED
        BY <1>2, <1>3, <2>1, <3>1
    <2>2. CASE j \in 1..Len(e)
      <3>1. e2[j] = e[j]
        BY <1>3, <2>2
      <3>2. PICK k \in 1..Len(s) : o[s[k]].op = "for" /\ o[s[k]].src = e[j]
        BY <2>2, <3>1 DEF Looped
      <3>3. k \in 1..Len(s2) /\ s2[k] = s[k]
        BY <1>2, <1>5
      <3> QED
        BY <3>1, <3>2, <3>3
    <2> QED
      BY <1>6, <2>1, <2>2
  <1> QED
    BY <1>7, <1>8, <1>9 DEF s2, e2

\* The blocks around a place of the tree were opened in this order.
LEMMA TreeRises ==
    ASSUME NEW E, NEW L, NEW h, NEW a, Complete(E, L, h, a), NEW p \in 1..Len(a) + 1
    PROVE  /\ \A j \in 1..Len(E[p]) : \A i \in 1..j - 1 : E[p][i] < E[p][j]
           /\ \A j \in 1..Len(E[p]) : \A i \in 1..j - 1 : E[p][i] # E[p][j]
  <1> SUFFICES ASSUME NEW j \in 1..Len(E[p]), NEW i \in 1..j - 1
               PROVE  E[p][i] < E[p][j] /\ E[p][i] # E[p][j]
    OBVIOUS
  <1>1. Len(a) \in Nat /\ E[p] \in Seq(Nat) /\ Len(E[p]) \in Nat /\ Around(E, L, a, p)
    BY TreeFacts
  <1>2. E[p][j] \in 1..p - 1 /\ Begins(E[E[p][j]], E[p]) /\ Len(E[E[p][j]]) = j - 1
    BY <1>1 DEF Around
  <1>3. E[p][j] \in 1..Len(a) + 1 /\ E[p][j] \in Nat
    BY <1>1, <1>2
  <1>4. i \in 1..Len(E[p]) /\ i \in 1..Len(E[E[p][j]])
    BY <1>1, <1>2
  <1>5. Around(E, L, a, E[p][j]) /\ E[E[p][j]] \in Seq(Nat)
    BY <1>3, TreeFacts
  <1>6. E[E[p][j]][i] \in 1..E[p][j] - 1
    BY <1>4, <1>5 DEF Around
  <1>7. E[E[p][j]][i] = E[p][i]
    BY <1>1, <1>2, <1>4, <1>5, BeginsAt
  <1>8. E[p][i] \in 1..E[p][j] - 1
    BY <1>6, <1>7
  <1> QED
    BY <1>3, <1>8

\* A block less in the tree and in C.
LEMMA LinedLess ==
    ASSUME NEW a, NEW o, NEW s \in Seq(Nat), NEW u \in Nat, NEW e \in Seq(Nat), NEW w \in Nat,
           Lined(o, s, u, e, w), Looped(a, o, s, e), BlocksOK(o, s), w < Len(e),
           NEW e2 \in Seq(Nat), Begins(e2, e), Len(e2) = Len(e) - 1,
           \A j \in 1..Len(e) - 1 : e[j] # e[Len(e)]
    PROVE  /\ Lined(o, Prefix(s, Len(s) - 1), u, e2, w)
           /\ Looped(a, o, Prefix(s, Len(s) - 1), e2) /\ BlocksOK(o, Prefix(s, Len(s) - 1))
           /\ s # <<>> /\ o[Tip(s)].src = Tip(e)
           /\ Len(e) > w + 1 => o[Tip(s)].op \in {"if", "for"}
  <1> DEFINE s2 == Prefix(s, Len(s) - 1)
             m == Len(s)
             n == Len(e)
  <1>1. m \in Nat /\ n \in Nat /\ m = u + (n - w) /\ m > 0
    BY DEF Lined
  <1>2. m - 1 \in 0..Len(s)
    BY <1>1
  <1>3. Len(s2) = m - 1 /\ \A i \in 1..m - 1 : s2[i] = s[i]
    BY <1>2, BeginsPrefix
  <1>4. Len(e2) = n - 1 /\ \A i \in 1..Len(e2) : e2[i] = e[i]
    BY DEF Begins
  <1>5. u + (n - w) = m /\ w + (n - w) = n /\ n - w \in 1..n - w
    BY <1>1
  <1>6. /\ o[s[m]].src = e[n]
        /\ o[s[m]].op \in IF n - w > 1 THEN {"if", "for"} ELSE IF u = 0 THEN {"fn"} ELSE {"run"}
    BY <1>5 DEF Lined
  <1> HIDE DEF s2, m, n
  <1>7. BlocksOK(o, s2)
    <2> SUFFICES ASSUME NEW k \in 1..Len(s2) PROVE s2[k] \in 1..Len(o) /\ o[s2[k]].op \in COpeners
      BY DEF BlocksOK
    <2>1. Len(s2) = m - 1
      BY <1>3
    <2>2. k \in 1..m - 1 /\ k \in 1..m
      BY <1>1, <2>1
    <2>3. s2[k] = s[k] /\ k \in 1..Len(s)
      BY <1>3, <2>2 DEF m
    <2> QED
      BY <2>3 DEF BlocksOK
  <1>8. Lined(o, s2, u, e2, w)
    <2>0. Len(s2) = m - 1 /\ Len(e2) = n - 1
      BY <1>3, <1>4
    <2>1. Len(s2) = u + (Len(e2) - w)
      <3>1. m - 1 = u + ((n - 1) - w)
        BY <1>1
      <3> QED
        BY <2>0, <3>1
    <2>2. ASSUME NEW k \in 1..Len(e2) - w
          PROVE  /\ o[s2[u + k]].src = e2[w + k]
                 /\ o[s2[u + k]].op \in
                      IF k > 1 THEN {"if", "for"} ELSE IF u = 0 THEN {"fn"} ELSE {"run"}
      <3>1. k \in 1..n - w /\ u + k \in 1..m - 1 /\ w + k \in 1..Len(e2)
        BY <1>1, <2>0
      <3>2. s2[u + k] = s[u + k] /\ e2[w + k] = e[w + k]
        BY <1>3, <1>4, <3>1
      <3> QED
        BY <3>1, <3>2 DEF Lined, n
    <2> QED
      BY <2>1, <2>2 DEF Lined
  <1>9. Looped(a, o, s2, e2)
    <2> SUFFICES ASSUME NEW j \in 1..Len(e2), a[e2[j]].op = "for"
                 PROVE  \E k \in 1..Len(s2) : o[s2[k]].op = "for" /\ o[s2[k]].src = e2[j]
      BY DEF Looped
    <2>1. Len(s2) = m - 1 /\ Len(e2) = n - 1
      BY <1>3, <1>4
    <2>2. j \in 1..n /\ j \in 1..n - 1
      BY <1>1, <2>1
    <2>3. e2[j] = e[j]
      BY <1>4
    <2>4. PICK k \in 1..m : o[s[k]].op = "for" /\ o[s[k]].src = e[j]
      BY <2>2, <2>3 DEF Looped, m, n
    <2>5. e[j] # e[n]
      BY <2>2 DEF n
    <2>6. k # m
      BY <1>6, <2>4, <2>5
    <2>7. k \in 1..m - 1
      BY <1>1, <2>6, SMTT(30)
    <2>8. k \in 1..Len(s2)
      BY <2>1, <2>7
    <2>9. s2[k] = s[k]
      BY <1>3, <2>7
    <2> QED
      BY <2>3, <2>4, <2>8, <2>9
  <1>10. s # <<>>
    <2>1. Len(s) > 0
      BY <1>1 DEF m
    <2> QED
      BY <2>1
  <1>11. n > w + 1 => n - w > 1
    BY <1>1
  <1> QED
    BY <1>6, <1>7, <1>8, <1>9, <1>10, <1>11 DEF s2, m, n, Tip

\* Into a block of the tree and of C.
LEMMA SpotOpen ==
    ASSUME NEW E, NEW L, NEW h, NEW a, Complete(E, L, h, a), NEW o, Len(o) \in Nat,
           NEW p, NEW hi, NEW x \in StandType, Spot(E, a, o, p, hi, x),
           a[p].op \in {"if", "for"},
           NEW z \in 1..Len(o), o[z].op = a[p].op, o[z].src = p
    PROVE  /\ [x EXCEPT !.blocks = Append(x.blocks, z)] \in StandType
           /\ Spot(E, a, o, p + 1, hi, [x EXCEPT !.blocks = Append(x.blocks, z)])
  <1> DEFINE y == [x EXCEPT !.blocks = Append(x.blocks, z)]
  <1>1. /\ x.lo \in Nat /\ x.under \in Nat /\ x.blocks \in Seq(Nat) /\ z \in Nat
        /\ y.lo = x.lo /\ y.under = x.under /\ y.blocks = Append(x.blocks, z)
    BY DEF StandType
  <1>2. y \in StandType
    BY <1>1, SMTT(30) DEF StandType
  <1>3. Region(E, a, p, hi, x.lo)
    BY DEF Spot
  <1>4. /\ p \in 1..Len(a) /\ E[p] \in Seq(Nat) /\ Len(E[p]) \in Nat
        /\ Len(E[x.lo]) \in Nat /\ Len(E[x.lo]) < Len(E[p])
    BY <1>3, RegionFacts, SMTT(30)
  <1>5. E[p + 1] = Append(E[p], p)
    BY <1>4, TreeFlows DEF Openers
  <1>6. p # hi
    BY <1>3 DEF Region
  <1>7. Region(E, a, p + 1, hi, x.lo)
    BY <1>3, <1>6 DEF Region
  <1>8. p \in Nat
    BY <1>3 DEF Region
  <1>9. /\ Lined(o, x.blocks, x.under, E[p], Len(E[x.lo])) /\ Looped(a, o, x.blocks, E[p])
        /\ BlocksOK(o, x.blocks) /\ (x.under = 0 => x.lo = 1 /\ hi = Len(a))
    BY DEF Spot
  <1> HIDE DEF y
  <1>10. /\ Lined(o, Append(x.blocks, z), x.under, Append(E[p], p), Len(E[x.lo]))
         /\ Looped(a, o, Append(x.blocks, z), Append(E[p], p)) /\ BlocksOK(o, Append(x.blocks, z))
    BY <1>1, <1>4, <1>8, <1>9, LinedMore
  <1>11. Spot(E, a, o, p + 1, hi, y)
    BY <1>1, <1>5, <1>7, <1>9, <1>10 DEF Spot
  <1> QED
    BY <1>2, <1>11 DEF y

\* On to a place with the same blocks around it.
LEMMA SpotSkip ==
    ASSUME NEW E, NEW a, NEW o, NEW p, NEW hi, NEW x, Spot(E, a, o, p, hi, x),
           NEW q \in p + 1..hi, E[q] = E[p]
    PROVE  Spot(E, a, o, q, hi, x)
  <1>1. Region(E, a, q, hi, x.lo)
    BY DEF Spot, Region
  <1> QED
    BY <1>1 DEF Spot

\* Out of a block that is not the body itself.
LEMMA SpotEnd ==
    ASSUME NEW E, NEW L, NEW h, NEW a, Complete(E, L, h, a), NEW o, Len(o) \in Nat,
           NEW p, NEW hi, NEW x \in StandType, Spot(E, a, o, p, hi, x),
           a[p].op = "end", p # hi
    PROVE  /\ [x EXCEPT !.blocks = Prefix(x.blocks, Len(x.blocks) - 1)] \in StandType
           /\ Spot(E, a, o, p + 1, hi, [x EXCEPT !.blocks = Prefix(x.blocks, Len(x.blocks) - 1)])
           /\ o[Tip(x.blocks)].op \in {"if", "for"} /\ x.under < Len(x.blocks) - 1
  <1> DEFINE t == Prefix(x.blocks, Len(x.blocks) - 1)
             y == [x EXCEPT !.blocks = t]
  <1>1. /\ x.lo \in Nat /\ x.under \in Nat /\ x.blocks \in Seq(Nat)
        /\ y.lo = x.lo /\ y.under = x.under /\ y.blocks = t
    BY DEF StandType
  <1>2. Region(E, a, p, hi, x.lo)
    BY DEF Spot
  <1>3. /\ p \in 1..Len(a) /\ E[p] \in Seq(Nat) /\ Len(E[p]) \in Nat /\ p \in 1..Len(a) + 1
        /\ Len(E[x.lo]) \in Nat /\ Len(E[x.lo]) < Len(E[p]) /\ p + 1 \in 1..Len(a) + 1
        /\ Begins(E[x.lo + 1], E[p + 1]) /\ Len(E[x.lo + 1]) = Len(E[x.lo]) + 1
        /\ p + 1 \in x.lo + 1..hi
    BY <1>2, RegionFacts, SMTT(30)
  <1>4. Begins(E[p + 1], E[p]) /\ Len(E[p + 1]) = Len(E[p]) - 1 /\ E[p + 1] \in Seq(Nat)
    BY <1>3, TreeFlows, TreeFacts, SMTT(30)
  <1>5. Len(E[p]) > Len(E[x.lo]) + 1
    <2>1. Len(E[x.lo + 1]) <= Len(E[p + 1])
      BY <1>3 DEF Begins
    <2> QED
      BY <1>3, <1>4, <2>1
  <1>6. \A j \in 1..Len(E[p]) - 1 : E[p][j] # E[p][Len(E[p])]
    <2>1. Len(E[p]) \in 1..Len(E[p])
      BY <1>3
    <2> QED
      BY <1>3, <2>1, TreeRises
  <1>7. /\ Lined(o, x.blocks, x.under, E[p], Len(E[x.lo])) /\ Looped(a, o, x.blocks, E[p])
        /\ BlocksOK(o, x.blocks) /\ (x.under = 0 => x.lo = 1 /\ hi = Len(a))
    BY DEF Spot
  <1> HIDE DEF y
  <1>8. /\ Lined(o, t, x.under, E[p + 1], Len(E[x.lo]))
        /\ Looped(a, o, t, E[p + 1]) /\ BlocksOK(o, t)
        /\ o[Tip(x.blocks)].op \in {"if", "for"} /\ x.blocks # <<>>
    <2> DEFINE s == x.blocks
               u == x.under
               e == E[p]
               e2 == E[p + 1]
               w == Len(E[x.lo])
    <2>1. s \in Seq(Nat) /\ u \in Nat
      BY <1>1
    <2>2. e \in Seq(Nat) /\ w \in Nat /\ w < Len(e)
      BY <1>3
    <2>3. e2 \in Seq(Nat) /\ Begins(e2, e) /\ Len(e2) = Len(e) - 1
      BY <1>4
    <2>4. \A j \in 1..Len(e) - 1 : e[j] # e[Len(e)]
      BY <1>6
    <2>5. Lined(o, s, u, e, w) /\ Looped(a, o, s, e) /\ BlocksOK(o, s)
      BY <1>7
    <2>6. Len(e) > w + 1
      BY <1>5
    <2> HIDE DEF s, u, e, e2, w
    <2>7. /\ Lined(o, Prefix(s, Len(s) - 1), u, e2, w)
          /\ Looped(a, o, Prefix(s, Len(s) - 1), e2) /\ BlocksOK(o, Prefix(s, Len(s) - 1))
          /\ s # <<>> /\ o[Tip(s)].op \in {"if", "for"}
      BY <2>1, <2>2, <2>3, <2>4, <2>5, <2>6, LinedLess
    <2> QED
      BY <2>7 DEF s, u, e2, w
  <1>9. Len(x.blocks) \in Nat /\ x.under \in Nat /\ x.under < Len(x.blocks) - 1
    <2>1. Len(x.blocks) = x.under + (Len(E[p]) - Len(E[x.lo]))
      BY <1>7 DEF Lined
    <2> DEFINE n == Len(E[p])
               w == Len(E[x.lo])
               u == x.under
               m == Len(x.blocks)
    <2>2. n \in Nat /\ w \in Nat /\ u \in Nat
      BY <1>1, <1>3
    <2>3. n > w + 1 /\ m = u + (n - w)
      BY <1>5, <2>1
    <2> HIDE DEF n, w, u, m
    <2>4. m \in Nat /\ u < m - 1
      BY <2>2, <2>3
    <2> QED
      BY <2>2, <2>4 DEF u, m
  <1>10. x.under < Len(x.blocks) - 1
    BY <1>9
  <1>11. t \in Seq(Nat)
    <2>1. Len(x.blocks) - 1 \in 0..Len(x.blocks)
      BY <1>9
    <2> QED
      BY <1>1, <2>1, BeginsPrefix
  <1>12. y \in StandType
    BY <1>1, <1>11 DEF StandType, y
  <1>13. Region(E, a, p + 1, hi, x.lo)
    <2>1. p + 1 \in 1..hi /\ x.lo \in 1..(p + 1) - 1
      BY <1>2, <1>3 DEF Region
    <2> QED
      BY <1>2, <2>1 DEF Region
  <1> HIDE DEF t
  <1>14. Spot(E, a, o, p + 1, hi, y)
    BY <1>1, <1>7, <1>8, <1>13 DEF Spot
  <1> QED
    BY <1>8, <1>10, <1>12, <1>14 DEF y, t

\* The body of a defer that is in force, as codegen_defers begins with it.
LEMMA SpotBody ==
    ASSUME NEW E, NEW L, NEW h, NEW a, Complete(E, L, h, a), NEW o, Len(o) \in Nat,
           NEW p, NEW hi, NEW x \in StandType, Spot(E, a, o, p, hi, x),
           NEW d \in 1..Len(h), In(d, L[p]),
           NEW z \in 1..Len(o), o[z].op = "run", o[z].src = h[d].lo,
           NEW y \in StandType, y.lo = h[d].lo, y.under = Len(x.blocks),
           y.blocks = Append(x.blocks, z)
    PROVE  /\ Spot(E, a, o, h[d].lo + 1, h[d].hi, y)
           /\ Len(x.blocks) > 0 /\ Begins(x.blocks, y.blocks)
  <1> DEFINE lo == h[d].lo
             s == x.blocks
             t == Append(s, z)
             e == E[lo]
             e2 == E[lo + 1]
  <1>1. /\ s \in Seq(Nat) /\ z \in Nat /\ x.under \in Nat /\ Len(s) \in Nat
        /\ y.lo = lo /\ y.under = Len(s) /\ y.blocks = t
    BY DEF StandType
  <1>2. Region(E, a, p, hi, x.lo)
    BY DEF Spot
  <1>3. /\ p \in 1..Len(a) /\ E[p] \in Seq(Nat) /\ Len(E[p]) \in Nat /\ p \in 1..Len(a) + 1
        /\ Len(E[x.lo]) \in Nat /\ Len(E[x.lo]) < Len(E[p])
    BY <1>2, RegionFacts
  <1>4. Len(s) > 0
    <2> DEFINE n == Len(E[p])
               w == Len(E[x.lo])
               u == x.under
               m == Len(s)
    <2>1. m = u + (n - w)
      BY DEF Spot, Lined
    <2>2. n \in Nat /\ w \in Nat /\ u \in Nat /\ w < n
      BY <1>1, <1>3
    <2> HIDE DEF n, w, u, m
    <2>3. m > 0
      BY <2>1, <2>2
    <2> QED
      BY <2>3 DEF m
  <1>5. /\ lo \in 1..Len(a) /\ h[d].hi \in 1..Len(a) /\ lo < h[d].hi
        /\ a[lo].op = "defer" /\ a[h[d].hi].op = "end"
        /\ E[h[d].hi] # <<>> /\ Tip(E[h[d].hi]) = lo
        /\ \A q \in lo + 1..h[d].hi : Begins(E[lo + 1], E[q])
    BY TreeFacts DEF BodyIn
  <1>6. Region(E, a, lo + 1, h[d].hi, lo)
    <2>1. lo \in 1..(lo + 1) - 1 /\ lo + 1 \in 1..h[d].hi
      BY <1>5
    <2> QED
      BY <1>5, <2>1 DEF Region
  <1>7. /\ e2 = Append(e, lo) /\ e \in Seq(Nat) /\ Len(e) \in Nat /\ Len(e2) = Len(e) + 1
        /\ lo \in Nat
    <2>1. lo \in Nat
      BY <1>5
    <2> DEFINE hi2 == h[d].hi
               p2 == lo + 1
    <2>2. Region(E, a, p2, hi2, lo) /\ e = E[lo] /\ e2 = E[lo + 1]
      BY <1>6
    <2> HIDE DEF lo, e, e2, hi2, p2
    <2>3. E[lo + 1] = Append(E[lo], lo)
      BY <2>2, RegionFacts
    <2>4. E[lo] \in Seq(Nat) /\ Len(E[lo]) \in Nat /\ Len(E[lo + 1]) = Len(E[lo]) + 1
      BY <2>2, RegionFacts
    <2> QED
      BY <2>1, <2>2, <2>3, <2>4
  <1>8. e2[Len(e) + 1] = lo /\ \A i \in 1..Len(e) : e2[i] = e[i]
    BY <1>7, BeginsLonger, SMTT(30)
  <1>9. Begins(e, E[p])
    <2>1. InForce(E, L, h, p)
      BY <1>3, TreeFacts
    <2>2. PICK j \in 1..Len(L[p]) : L[p][j] = d
      BY DEF In
    <2> QED
      BY <2>1, <2>2 DEF InForce
  <1>10. Len(t) = Len(s) + 1 /\ t[Len(s) + 1] = z /\ (\A i \in 1..Len(s) : t[i] = s[i])
         /\ Begins(s, t) /\ t \in Seq(Nat)
    BY <1>1, BeginsLonger
  <1>11. Looped(a, o, s, E[p]) /\ BlocksOK(o, s)
    BY DEF Spot
  <1> HIDE DEF lo, s, t, e, e2
  <1>12. BlocksOK(o, t)
    <2> SUFFICES ASSUME NEW k \in 1..Len(t) PROVE t[k] \in 1..Len(o) /\ o[t[k]].op \in COpeners
      BY DEF BlocksOK
    <2>1. Len(t) = Len(s) + 1
      BY <1>10
    <2>2. k \in 1..Len(s) \/ k = Len(s) + 1
      BY <1>1, <2>1, OneMore
    <2> QED
      BY <1>10, <1>11, <2>2 DEF BlocksOK, COpeners
  <1>13. Lined(o, t, Len(s), e2, Len(e))
    <2>1. Len(t) = Len(s) + 1 /\ Len(e2) = Len(e) + 1
      BY <1>7, <1>10
    <2>2. Len(t) = Len(s) + (Len(e2) - Len(e)) /\ Len(e2) - Len(e) = 1
      BY <1>1, <1>7, <2>1
    <2>3. ASSUME NEW k \in 1..Len(e2) - Len(e)
          PROVE  /\ o[t[Len(s) + k]].src = e2[Len(e) + k]
                 /\ o[t[Len(s) + k]].op \in
                      IF k > 1 THEN {"if", "for"} ELSE IF Len(s) = 0 THEN {"fn"} ELSE {"run"}
      <3>1. k = 1
        BY <2>2
      <3>2. Len(s) # 0
        BY <1>1, <1>4
      <3>3. o[t[Len(s) + 1]].src = e2[Len(e) + 1] /\ o[t[Len(s) + 1]].op = "run"
        BY <1>8, <1>10 DEF lo
      <3> QED
        BY <3>1, <3>2, <3>3
    <2> QED
      BY <2>2, <2>3 DEF Lined
  <1>14. Looped(a, o, t, e2)
    <2> SUFFICES ASSUME NEW j \in 1..Len(e2), a[e2[j]].op = "for"
                 PROVE  \E k \in 1..Len(t) : o[t[k]].op = "for" /\ o[t[k]].src = e2[j]
      BY DEF Looped
    <2>1. j # Len(e) + 1
      BY <1>5, <1>8
    <2>2. Len(e2) = Len(e) + 1
      BY <1>7
    <2>3. j \in 1..Len(e)
      BY <1>7, <2>1, <2>2, OneMore
    <2>4. e2[j] = e[j]
      BY <1>8, <2>3
    <2>5. j \in 1..Len(E[p]) /\ E[p][j] = e[j]
      BY <1>3, <1>7, <1>9, <2>3, BeginsAt
    <2>6. PICK k \in 1..Len(s) : o[s[k]].op = "for" /\ o[s[k]].src = e[j]
      BY <1>11, <2>4, <2>5 DEF Looped
    <2>7. t[k] = s[k]
      BY <1>10
    <2>8. Len(t) = Len(s) + 1
      BY <1>10
    <2>9. k \in 1..Len(t)
      BY <1>1, <2>8, OneMore
    <2> QED
      BY <2>4, <2>6, <2>7, <2>9
  <1>15. Len(s) # 0
    BY <1>1, <1>4
  <1>16. Spot(E, a, o, lo + 1, h[d].hi, y)
    BY <1>1, <1>6, <1>12, <1>13, <1>14, <1>15 DEF Spot, e, e2
  <1>17. y \in StandType
    BY <1>1, <1>7, <1>10 DEF StandType, lo, s, t
  <1> QED
    BY <1>1, <1>4, <1>10, <1>16, <1>17 DEF lo, s

\* The body of the function, as codegen begins with it.
LEMMA SpotFunction ==
    ASSUME NEW E, NEW L, NEW h, NEW a, Complete(E, L, h, a), NEW o, Len(o) \in Nat,
           1 \in 1..Len(o), o[1].op = "fn", o[1].src = 1,
           NEW y, y = [lo |-> 1, under |-> 0, blocks |-> << 1 >>]
    PROVE  y \in StandType /\ Spot(E, a, o, 2, Len(a), y)
  <1>1. /\ y.lo = 1 /\ y.under = 0 /\ y.blocks = << 1 >> /\ << 1 >> \in Seq(Nat)
        /\ y \in StandType
    BY DEF StandType
  <1>2. /\ Len(a) \in Nat /\ Len(a) > 1 /\ a[Len(a)].op = "end" /\ E[2] = << 1 >> /\ E[Len(a)] = << 1 >>
        /\ a[1].op = "fn" /\ \A q \in 2..Len(a) : Begins(E[2], E[q])
    BY TreeFacts DEF Complete
  <1>3. E[1] = <<>>
    BY DEF Complete, Scoped
  <1>4. Region(E, a, 2, Len(a), 1)
    <2>1. 1 \in 1..2 - 1 /\ 2 \in 1..Len(a) /\ Len(a) \in 1..Len(a) /\ 1 + 1 = 2
      BY <1>2
    <2>2. << 1 >> # <<>> /\ Tip(<< 1 >>) = 1
      BY DEF Tip
    <2> QED
      BY <1>2, <2>1, <2>2 DEF Region
  <1>5. Lined(o, << 1 >>, 0, << 1 >>, 0)
    BY DEF Lined
  <1>6. Looped(a, o, << 1 >>, << 1 >>)
    BY <1>2 DEF Looped
  <1>7. BlocksOK(o, << 1 >>)
    BY DEF BlocksOK, COpeners
  <1>8. Len(E[1]) = 0
    BY <1>3
  <1> QED
    BY <1>1, <1>2, <1>4, <1>5, <1>6, <1>7, <1>8 DEF Spot

-----------------------------------------------------------------------------
(* The activations of codegen_block, one inside another. *)

\* Where activation r stands; its defer is one that is in force there.
Stands(E, L, a, o, r, x) ==
    /\ Spot(E, a, o, r.pc, r.hi, x)
    /\ r.current = Null \/ In(r.current, L[r.pc])

\* Each activation was called for inside the C blocks of the one before it.
Standing(E, L, a, o, A, X) ==
    /\ X \in Seq(StandType) /\ Len(X) = Len(A)
    /\ \A i \in 1..Len(A) : Stands(E, L, a, o, A[i], X[i])
    /\ Len(A) > 0 => X[1].under = 0
    /\ \A i \in 1..Len(A) - 1 :
         /\ X[i + 1].under = Len(X[i].blocks) /\ X[i + 1].under > 0
         /\ Begins(X[i].blocks, X[i + 1].blocks)

\* The last element of a sequence is another one.
LEMMA TopReplaced ==
    ASSUME NEW S, NEW s \in Seq(S), Len(s) > 0, NEW x \in S
    PROVE  /\ [s EXCEPT ![Len(s)] = x] \in Seq(S)
           /\ Len([s EXCEPT ![Len(s)] = x]) = Len(s)
           /\ [s EXCEPT ![Len(s)] = x][Len(s)] = x
           /\ \A i \in 1..Len(s) - 1 : [s EXCEPT ![Len(s)] = x][i] = s[i]
  <1>1. Len(s) \in Nat /\ Len(s) \in 1..Len(s)
    OBVIOUS
  <1> QED
    BY <1>1, ExceptSeq

\* More text.
LEMMA StandingStays ==
    ASSUME NEW E, NEW L, NEW h, NEW a, Complete(E, L, h, a), NEW o, NEW o2, NEW A, NEW X,
           Standing(E, L, a, o, A, X), Len(o) \in Nat, Len(o2) \in Nat, Len(o2) >= Len(o),
           \A q \in 1..Len(o) : o2[q] = o[q]
    PROVE  Standing(E, L, a, o2, A, X)
  <1>1. ASSUME NEW i \in 1..Len(A) PROVE Stands(E, L, a, o2, A[i], X[i])
    <2>1. Spot(E, a, o, A[i].pc, A[i].hi, X[i])
      BY DEF Standing, Stands
    <2>2. X[i] \in StandType
      BY ElementOfSeq DEF Standing
    <2>3. Region(E, a, A[i].pc, A[i].hi, X[i].lo)
      BY <2>1 DEF Spot
    <2>4. Len(E[A[i].pc]) \in Nat /\ Len(E[X[i].lo]) \in Nat
      BY <2>3, RegionFacts
    <2>5. Spot(E, a, o2, A[i].pc, A[i].hi, X[i])
      BY <2>1, <2>2, <2>4, SpotStays
    <2> QED
      BY <2>5 DEF Standing, Stands
  <1> QED
    BY <1>1 DEF Standing

\* The innermost activation goes on, in the C blocks that it was called for in.
LEMMA StandingTop ==
    ASSUME NEW E, NEW L, NEW a, NEW o, NEW A, NEW X, Standing(E, L, a, o, A, X),
           NEW n \in Nat, n > 0, Len(A) = n,
           NEW B, Len(B) = n, \A i \in 1..n - 1 : B[i] = A[i],
           NEW Y \in Seq(StandType), Len(Y) = n, \A i \in 1..n - 1 : Y[i] = X[i],
           Stands(E, L, a, o, B[n], Y[n]), Y[n].under = X[n].under,
           \A i \in 1..Y[n].under : Y[n].blocks[i] = X[n].blocks[i],
           Y[n].under <= Len(Y[n].blocks)
    PROVE  Standing(E, L, a, o, B, Y)
  <1> DEFINE x == Y[n]
  <1>1. X \in Seq(StandType) /\ Len(X) = n
    BY DEF Standing
  <1>2. Y \in Seq(StandType) /\ Len(Y) = n /\ Y[n] = x /\ \A i \in 1..n - 1 : Y[i] = X[i]
    OBVIOUS
  <1>0. x.under = X[n].under /\ \A k \in 1..x.under : x.blocks[k] = X[n].blocks[k]
    OBVIOUS
  <1> HIDE DEF x
  <1>3. ASSUME NEW i \in 1..n PROVE Stands(E, L, a, o, B[i], Y[i])
    <2>1. CASE i = n
      BY <1>2, <2>1
    <2>2. CASE i # n
      <3>1. i \in 1..n - 1
        BY <2>2
      <3>2. B[i] = A[i] /\ Y[i] = X[i]
        BY <1>2, <3>1
      <3> QED
        BY <3>2 DEF Standing
    <2> QED
      BY <2>1, <2>2
  <1>4. Y[1].under = 0
    <2>1. X[1].under = 0
      BY DEF Standing
    <2>2. CASE n = 1
      BY <1>2, <2>1, <2>2
    <2>3. CASE n # 1
      <3>1. 1 \in 1..n - 1
        BY <2>3
      <3> QED
        BY <1>2, <2>1, <3>1
    <2> QED
      BY <2>2, <2>3
  <1>5. ASSUME NEW i \in 1..n - 1
        PROVE  /\ Y[i + 1].under = Len(Y[i].blocks) /\ Y[i + 1].under > 0
               /\ Begins(Y[i].blocks, Y[i + 1].blocks)
    <2>1. /\ X[i + 1].under = Len(X[i].blocks) /\ X[i + 1].under > 0
          /\ Begins(X[i].blocks, X[i + 1].blocks)
      BY DEF Standing
    <2>2. Y[i] = X[i]
      BY <1>2
    <2>3. CASE i + 1 = n
      <3>1. Y[i + 1] = x /\ x.under = X[i + 1].under
        BY <1>2, <2>3
      <3>2. \A k \in 1..Len(X[i].blocks) : x.blocks[k] = X[i + 1].blocks[k]
        BY <1>0, <2>1, <2>3
      <3>3. \A k \in 1..Len(X[i].blocks) : X[i].blocks[k] = X[i + 1].blocks[k]
        BY <2>1 DEF Begins
      <3>4. Begins(X[i].blocks, x.blocks)
        BY <2>1, <3>1, <3>2, <3>3 DEF Begins
      <3> QED
        BY <2>1, <2>2, <3>1, <3>4
    <2>4. CASE i + 1 # n
      <3>1. i + 1 \in 1..n - 1
        BY <2>4
      <3>2. Y[i + 1] = X[i + 1]
        BY <1>2, <3>1
      <3> QED
        BY <2>1, <2>2, <3>2
    <2> QED
      BY <2>3, <2>4
  <1>6. Standing(E, L, a, o, B, Y)
    BY <1>2, <1>3, <1>4, <1>5 DEF Standing
  <1> QED
    BY <1>6

\* An activation more.
LEMMA StandingPush ==
    ASSUME NEW E, NEW L, NEW a, NEW o, NEW A, NEW X, Standing(E, L, a, o, A, X),
           NEW n \in Nat, n > 0, Len(A) = n,
           NEW B, Len(B) = n + 1, \A i \in 1..n : B[i] = A[i],
           NEW x \in StandType, Stands(E, L, a, o, B[n + 1], x),
           x.under = Len(Tip(X).blocks), x.under > 0, Begins(Tip(X).blocks, x.blocks)
    PROVE  Standing(E, L, a, o, B, Append(X, x)) /\ Tip(Append(X, x)) = x
  <1> DEFINE Y == Append(X, x)
  <1>1. X \in Seq(StandType) /\ Len(X) = n
    BY DEF Standing
  <1>2. Y \in Seq(StandType) /\ Len(Y) = n + 1 /\ Y[n + 1] = x /\ \A i \in 1..n : Y[i] = X[i]
    BY <1>1, AppendLonger DEF Longer
  <1> HIDE DEF Y
  <1>3. ASSUME NEW i \in 1..n + 1 PROVE Stands(E, L, a, o, B[i], Y[i])
    <2>1. CASE i = n + 1
      BY <1>2, <2>1
    <2>2. CASE i # n + 1
      <3>1. i \in 1..n
        BY <2>2
      <3>2. B[i] = A[i] /\ Y[i] = X[i]
        BY <1>2, <3>1
      <3> QED
        BY <3>1, <3>2 DEF Standing
    <2> QED
      BY <2>1, <2>2
  <1>4. Y[1].under = 0
    <2>1. 1 \in 1..n
      OBVIOUS
    <2> QED
      BY <1>2, <2>1 DEF Standing
  <1>5. ASSUME NEW i \in 1..n
        PROVE  /\ Y[i + 1].under = Len(Y[i].blocks) /\ Y[i + 1].under > 0
               /\ Begins(Y[i].blocks, Y[i + 1].blocks)
    <2>1. Y[i] = X[i]
      BY <1>2
    <2>2. CASE i = n
      <3>1. Y[i + 1] = x /\ Y[i] = Tip(X)
        BY <1>1, <1>2, <2>1, <2>2 DEF Tip
      <3> QED
        BY <3>1
    <2>3. CASE i # n
      <3>1. i \in 1..n - 1 /\ i + 1 \in 1..n
        BY <2>3
      <3>2. Y[i + 1] = X[i + 1]
        BY <1>2, <3>1
      <3> QED
        BY <2>1, <3>1, <3>2 DEF Standing
    <2> QED
      BY <2>2, <2>3
  <1>6. Standing(E, L, a, o, B, Y)
    <2>1. (n + 1) - 1 = n
      OBVIOUS
    <2> QED
      BY <1>2, <1>3, <1>4, <1>5, <2>1 DEF Standing
  <1>7. Tip(Y) = x
    BY <1>2 DEF Tip
  <1> QED
    BY <1>6, <1>7 DEF Y

\* An activation less.
LEMMA StandingPop ==
    ASSUME NEW E, NEW L, NEW a, NEW o, NEW A, NEW X, Standing(E, L, a, o, A, X),
           NEW n \in Nat, n > 0, Len(A) = n,
           NEW B, Len(B) = n - 1, \A i \in 1..n - 1 : B[i] = A[i],
           NEW Y \in Seq(StandType), Len(Y) = n - 1, \A i \in 1..n - 1 : Y[i] = X[i]
    PROVE  Standing(E, L, a, o, B, Y)
  <1>4. ASSUME NEW i \in 1..n - 1 PROVE Stands(E, L, a, o, B[i], Y[i])
    <2>1. i \in 1..n
      OBVIOUS
    <2>2. B[i] = A[i] /\ Y[i] = X[i]
      OBVIOUS
    <2> QED
      BY <2>1, <2>2 DEF Standing
  <1>5. n - 1 > 0 => Y[1].under = 0
    <2>1. n - 1 > 0 => 1 \in 1..n - 1
      OBVIOUS
    <2> QED
      BY <2>1 DEF Standing
  <1>6. ASSUME NEW i \in 1..(n - 1) - 1
        PROVE  /\ Y[i + 1].under = Len(Y[i].blocks) /\ Y[i + 1].under > 0
               /\ Begins(Y[i].blocks, Y[i + 1].blocks)
    <2>1. i \in 1..n - 1 /\ i + 1 \in 1..n - 1
      OBVIOUS
    <2>2. Y[i] = X[i] /\ Y[i + 1] = X[i + 1]
      BY <2>1
    <2> QED
      BY <2>1, <2>2 DEF Standing
  <1>7. Standing(E, L, a, o, B, Y)
    BY <1>4, <1>5, <1>6 DEF Standing
  <1> QED
    BY <1>7

-----------------------------------------------------------------------------
(* The text grows, token by token. *)

\* The text o, of which the blocks s are open, and the activations A that
\* write it.
Written(E, L, h, a, o, A, s, B, X) ==
    /\ Complete(E, L, h, a) /\ Text(B, h, a, o) /\ Standing(E, L, a, o, A, X)
    /\ B[Len(o) + 1] = s /\ Len(o) > 0
    /\ s = IF Len(A) = 0 THEN <<>> ELSE Tip(X).blocks

\* A token behind the text, by the blocks in front of it and behind it.
LEMMA WrittenToken ==
    ASSUME NEW B, NEW h, NEW a, NEW o, NEW s, NEW t \in CTokType, NEW s2 \in Seq(Nat),
           Text(B, h, a, o), B[Len(o) + 1] = s, s # <<>>,
           t.op \in COpeners => s2 = Append(s, Len(o) + 1),
           t.op \in Jumps \cup {"reach"} => s2 = s,
           t.op = "end" => t.open = Tip(s) /\ s2 = Prefix(s, Len(s) - 1),
           t.op \notin {"reach", "run"} => t.src \in 1..Len(a) /\ a[t.src].op = t.op,
           t.op = "run" => t.src \in 1..Len(a) /\ a[t.src].op = "defer",
           t.op \in {"reach", "run"} => t.defer \in 1..Len(h),
           t.op \in {"break", "continue"} => \E i \in 1..Len(s) : o[s[i]].op = "for"
    PROVE  /\ Text(Append(B, s2), h, a, Append(o, t))
           /\ Writes(B, h, a, o, t, s2, Append(B, s2), Append(o, t))
  <1> DEFINE B2 == Append(B, s2)
             o2 == Append(o, t)
             z == Len(o) + 1
  <1>1. Writes(B, h, a, o, t, s2, B2, o2)
    BY DEF Writes
  <1> HIDE DEF B2, o2
  <1>2. Len(o) \in Nat /\ z \in 1..z /\ z \in Nat
    BY <1>1, WritesFacts
  <1>3. B2[z] = s /\ s \in Seq(Nat) /\ o2[z] = t
    <2>1. \A p \in 1..z : B2[p] = B[p] /\ B[p] \in Seq(Nat)
      BY <1>1, WritesFacts
    <2>2. o2[z] = t
      BY <1>1, WritesFacts
    <2>3. B[z] = s
      OBVIOUS
    <2>4. z \in 1..z
      BY <1>2
    <2> QED
      BY <2>1, <2>2, <2>3, <2>4
  <1>4. B2[z + 1] = s2
    <2>1. z + 1 = Len(o) + 2
      BY <1>2
    <2> QED
      BY <1>1, <2>1, WritesFacts
  <1>5. \A p \in 1..z - 1 : o2[p] = o[p]
    BY <1>1, <1>2, WritesFacts
  <1>6. \A p \in 1..z : B2[p] = B[p]
    BY <1>1, <1>2, WritesFacts
  <1>7. CNest(B2, o2, z)
    BY <1>1, <1>2, TextStays DEF CPlace
  <1>8. \A i \in 1..Len(s) :
          /\ s[i] \in 1..z - 1 /\ Begins(B2[s[i]], s) /\ Len(B2[s[i]]) = i - 1
    BY <1>3, <1>7 DEF CNest
  <1>9. Len(s) \in 1..Len(s) /\ Len(s) \in Nat
    BY <1>3
  <1>10. t.op = "end" => s2 = B2[Tip(s)]
    <2> SUFFICES ASSUME t.op = "end" PROVE s2 = B2[Tip(s)]
      OBVIOUS
    <2>1. s2 = Prefix(s, Len(s) - 1) /\ Len(s) - 1 \in 0..Len(s)
      BY <1>9
    <2>2. Begins(s2, s) /\ Len(s2) = Len(s) - 1
      BY <1>3, <2>1, BeginsPrefix
    <2>3. Tip(s) \in 1..z - 1 /\ Begins(B2[Tip(s)], s) /\ Len(B2[Tip(s)]) = Len(s) - 1
      BY <1>8, <1>9 DEF Tip
    <2>4. B2[Tip(s)] \in Seq(Nat)
      BY <1>1, <1>2, <2>3, WritesFacts, SMTT(30)
    <2> QED
      BY <1>3, <2>2, <2>3, <2>4, BeginsOrder
  <1>11. t.op \in {"break", "continue"} => \E i \in 1..Len(s) : o2[s[i]].op = "for"
    BY <1>5, <1>8
  <1> HIDE DEF z
  <1>12. CFlow(B2, h, a, o2, z)
    BY <1>3, <1>4, <1>10, <1>11 DEF CFlow, z
  <1>13. Text(B2, h, a, o2)
    BY <1>1, <1>12, TextWrites DEF z
  <1> QED
    BY <1>1, <1>13 DEF B2, o2

\* What is known of the text and of the innermost activation.
LEMMA WrittenFacts ==
    ASSUME NEW E, NEW L, NEW h, NEW a, NEW o, NEW A, NEW s, NEW B, NEW X,
           Written(E, L, h, a, o, A, s, B, X), Len(A) > 0, NEW T, A \in Seq(T)
    PROVE  /\ Len(A) \in Nat /\ Len(A) \in 1..Len(A)
           /\ X \in Seq(StandType) /\ Len(X) = Len(A) /\ Len(X) > 0
           /\ Tip(X) = X[Len(A)] /\ Tip(X) \in StandType
           /\ Stands(E, L, a, o, Tip(A), Tip(X)) /\ Spot(E, a, o, Tip(A).pc, Tip(A).hi, Tip(X))
           /\ Region(E, a, Tip(A).pc, Tip(A).hi, Tip(X).lo)
           /\ Tip(X).blocks = s /\ s \in Seq(Nat) /\ Len(s) \in Nat /\ s # <<>>
           /\ Tip(X).under < Len(s) /\ Tip(X).under \in Nat
           /\ Len(o) \in Nat /\ Len(o) > 0 /\ Len(a) \in Nat
           /\ Tip(A).pc \in 1..Tip(A).hi /\ Tip(A).pc \in 1..Len(a) /\ Tip(A).hi \in 1..Len(a)
  <1>1. Len(A) \in Nat /\ Len(A) \in 1..Len(A)
    OBVIOUS
  <1>2. X \in Seq(StandType) /\ Len(X) = Len(A) /\ Stands(E, L, a, o, Tip(A), X[Len(A)])
    BY <1>1 DEF Written, Standing, Tip
  <1>3. Tip(X) = X[Len(A)] /\ Tip(X) \in StandType
    BY <1>1, <1>2, ElementOfSeq DEF Tip
  <1>4. /\ Spot(E, a, o, Tip(A).pc, Tip(A).hi, Tip(X))
        /\ Region(E, a, Tip(A).pc, Tip(A).hi, Tip(X).lo)
    BY <1>2, <1>3 DEF Stands, Spot
  <1>5. Tip(X).blocks = s
    BY DEF Written
  <1>6. s \in Seq(Nat) /\ Len(s) \in Nat /\ Tip(X).under \in Nat
    BY <1>3, <1>5 DEF StandType
  <1>7. Tip(X).under < Len(s)
    <2> DEFINE n == Len(E[Tip(A).pc])
               w == Len(E[Tip(X).lo])
               u == Tip(X).under
               m == Len(s)
    <2>1. m = u + (n - w)
      BY <1>4, <1>5 DEF Spot, Lined
    <2>2. n \in Nat /\ w \in Nat /\ w < n
      BY <1>4, RegionFacts DEF Written
    <2>3. u \in Nat
      BY <1>6
    <2> HIDE DEF n, w, u, m
    <2>4. u < m
      BY <2>1, <2>2, <2>3
    <2> QED
      BY <2>4 DEF u, m
  <1>8. s # <<>>
    BY <1>6, <1>7
  <1>9. Len(o) \in Nat /\ Len(o) > 0
    BY DEF Written, Text
  <1>10. Len(a) \in Nat
    BY TreeFacts DEF Written
  <1>11. Tip(A).pc \in 1..Tip(A).hi /\ Tip(A).pc \in 1..Len(a) /\ Tip(A).hi \in 1..Len(a)
    BY <1>4, <1>10 DEF Region
  <1> QED
    BY <1>1, <1>2, <1>3, <1>4, <1>5, <1>6, <1>7, <1>8, <1>9, <1>10, <1>11

\* At the place where it lands, an activation has a defer that is in force.
LEMMA Landing ==
    ASSUME NEW E, NEW L, Complete(E, L, heap, ast), NEW o, NEW q, NEW hi, NEW x,
           Spot(E, ast, o, q, hi, x)
    PROVE  Stands(E, L, ast, o, Activation(q, hi), x)
  <1>1. q \in 1..hi /\ hi \in 1..Len(ast) /\ Len(ast) \in Nat
    BY TreeFacts DEF Spot, Region
  <1>2. q \in 1..Len(ast) /\ q <= hi
    BY <1>1
  <1>3. /\ Activation(q, hi).pc = q /\ Activation(q, hi).hi = hi
        /\ Activation(q, hi).current = IF ast[q].op \in Exits THEN ast[q].begin ELSE Null
    BY <1>2 DEF Activation
  <1>4. ast[q].op \in Exits => ast[q].begin = Null \/ In(ast[q].begin, L[q])
    BY <1>2, TreeFacts DEF DueOK
  <1> QED
    BY <1>3, <1>4 DEF Stands

\* The activation at the top of `acts` goes on at p.
LEMMA AdvanceFacts ==
    ASSUME NEW A, A \in Seq(ActType), Len(A) > 0, NEW r
    PROVE  /\ Len([A EXCEPT ![Len(A)] = r]) = Len(A)
           /\ [A EXCEPT ![Len(A)] = r][Len(A)] = r
           /\ \A i \in 1..Len(A) - 1 : [A EXCEPT ![Len(A)] = r][i] = A[i]
  <1>1. A \in Seq(ActType \cup {r})
    OBVIOUS
  <1>2. r \in ActType \cup {r}
    OBVIOUS
  <1> QED
    BY <1>1, <1>2, TopReplaced

\* What a step of the code generator finds.
LEMMA GenFacts ==
    ASSUME IInv, GenInv, phase = "codegen"
    PROVE  /\ ResolveTypeOK /\ ExitsUnwind /\ GenTypeOK
           /\ acts \in Seq(ActType) /\ Len(acts) \in Nat /\ Len(acts) > 0
           /\ Act = Tip(acts) /\ Act = acts[Len(acts)]
           /\ Act.pc \in 1..Act.hi /\ Act.hi \in 1..Len(ast) /\ Act.pc \in 1..Len(ast)
           /\ Act.current \in 0..Len(heap) /\ Len(ast) \in Nat /\ Len(heap) \in Nat
           /\ ast[Act.hi].op = "end" /\ AstTok = ast[Act.pc]
           /\ \A d \in 1..Len(heap) : heap[d].lo \in Act.pc..Act.hi => heap[d].hi < Act.hi
           /\ ~dropped /\ AstTok.op \in Exits =>
                \/ Act.current = AstTok.end
                \/ \E i \in 1..Len(AstTok.due) : Act.current = AstTok.due[i]
           /\ out \in Seq(CTokType) /\ opens \in Seq(Nat) /\ Len(out) \in Nat
  <1>1. /\ ResolveTypeOK /\ ExitsUnwind /\ GenTypeOK /\ acts # <<>>
        /\ \E D : /\ Tree(D, frames, heap, ast) /\ Whole(D, heap, ast)
                  /\ ActsOK(D, heap, ast, dropped, acts) /\ Opened(D, acts, Len(opens))
    BY InsideFacts
  <1>2. PICK D : Tree(D, frames, heap, ast) /\ ActsOK(D, heap, ast, dropped, acts)
    BY <1>1
  <1>3. /\ acts \in Seq(ActType) /\ Len(acts) \in Nat /\ Len(acts) > 0
        /\ Act.pc \in 1..Act.hi /\ Act.hi \in 1..Len(ast) /\ Act.pc \in 1..Len(ast)
        /\ Len(ast) \in Nat /\ Len(heap) \in Nat /\ ActOK(D, heap, ast, dropped, Act)
    BY <1>1, <1>2, ActFacts
  <1>4. /\ ast[Act.hi].op = "end" /\ Act.current \in 0..Len(heap)
        /\ \A d \in 1..Len(heap) : heap[d].lo \in Act.pc..Act.hi => heap[d].hi < Act.hi
    BY <1>3 DEF ActOK
  <1>5. ~dropped /\ AstTok.op \in Exits =>
          Act.current = AstTok.end \/ \E i \in 1..Len(AstTok.due) : Act.current = AstTok.due[i]
    BY <1>3 DEF ActOK, AstTok
  <1>6. out \in Seq(CTokType) /\ opens \in Seq(1..Len(out)) /\ Len(out) \in Nat
    BY <1>1 DEF GenTypeOK
  <1>7. opens \in Seq(Nat)
    BY <1>6
  <1> QED
    BY <1>1, <1>3, <1>4, <1>5, <1>6, <1>7 DEF Act, AstTok, Tip

\* The innermost activation, in the C blocks s.
Onto(X, s) == [X EXCEPT ![Len(X)] = [Tip(X) EXCEPT !.blocks = s]]

\* The innermost activation goes on at p, with the blocks of opens'.
LEMMA GenGoesOn ==
    ASSUME IInv, GenInv, phase = "codegen", NEW E, NEW L, NEW B, NEW X,
           Written(E, L, heap, ast, out, acts, opens, B, X),
           NEW t \in CTokType, opens' \in Seq(Nat),
           Text(Append(B, opens'), heap, ast, out'),
           Writes(B, heap, ast, out, t, opens', Append(B, opens'), out'),
           NEW p, acts' = Advance(p),
           Spot(E, ast, out', p, Act.hi, [Tip(X) EXCEPT !.blocks = opens']),
           Tip(X).under <= Len(opens'), \A i \in 1..Tip(X).under : opens'[i] = opens[i]
    PROVE  Written(E, L, heap, ast, out', acts', opens', Append(B, opens'), Onto(X, opens'))
  <1> DEFINE x == Tip(X)
             y == [x EXCEPT !.blocks = opens']
             n == Len(acts)
             B2 == Append(B, opens')
  <1>1. acts \in Seq(ActType) /\ n \in Nat /\ n > 0 /\ Act = Tip(acts)
    BY GenFacts
  <1>2. /\ X \in Seq(StandType) /\ Len(X) = n /\ x = X[n] /\ x \in StandType /\ x.blocks = opens
    BY <1>1, WrittenFacts
  <1>3. /\ y \in StandType /\ y.blocks = opens' /\ y.under = x.under
    BY <1>2 DEF StandType
  <1>4. Complete(E, L, heap, ast) /\ Standing(E, L, ast, out, acts, X)
    BY DEF Written
  <1>5. /\ Len(out) \in Nat /\ Len(out') = Len(out) + 1 /\ B2[Len(out) + 2] = opens'
        /\ \A q \in 1..Len(out) : out'[q] = out[q]
    BY WritesFacts
  <1>6. Len(out') \in Nat /\ Len(out') >= Len(out) /\ Len(out') > 0 /\ Len(out') + 1 = Len(out) + 2
    BY <1>5
  <1>7. Standing(E, L, ast, out', acts, X)
    BY <1>4, <1>5, <1>6, StandingStays
  <1>8. /\ Len(acts') = n /\ acts'[n] = Activation(p, Act.hi)
        /\ \A i \in 1..n - 1 : acts'[i] = acts[i]
    BY <1>1, AdvanceFacts DEF Advance
  <1>9. Stands(E, L, ast, out', acts'[n], y)
    BY <1>4, <1>8, Landing
  <1>10. y.under <= Len(y.blocks) /\ \A i \in 1..y.under : y.blocks[i] = X[n].blocks[i]
    BY <1>2, <1>3
  <1>0. Len(acts) = n /\ Len(acts') = n
    BY <1>8
  <1> HIDE DEF y, x, n, B2
  <1>11. /\ Standing(E, L, ast, out', acts', Onto(X, opens'))
         /\ Tip(Onto(X, opens')) = y
    <2> DEFINE Y == Onto(X, opens')
    <2>1. Y = [X EXCEPT ![Len(X)] = y]
      BY DEF Onto, y, x
    <2>2. Y \in Seq(StandType) /\ Len(Y) = n /\ Y[n] = y /\ \A i \in 1..n - 1 : Y[i] = X[i]
      BY <1>1, <1>2, <1>3, <2>1, TopReplaced
    <2> HIDE DEF Y
    <2>3. Y[n].under = X[n].under /\ \A i \in 1..n - 1 : acts'[i] = acts[i]
      BY <1>2, <1>3, <1>8, <2>2
    <2>4. n \in Nat /\ n > 0
      BY <1>1
    <2>5. Standing(E, L, ast, out', acts', Y)
      <3>1. Stands(E, L, ast, out', acts'[n], Y[n])
        BY <1>9, <2>2
      <3>2. Y[n].under <= Len(Y[n].blocks) /\ \A i \in 1..Y[n].under : Y[n].blocks[i] = X[n].blocks[i]
        BY <1>10, <2>2
      <3> QED
        BY <1>0, <1>7, <2>2, <2>3, <2>4, <3>1, <3>2, StandingTop, SMTT(30)
    <2>6. Tip(Y) = y
      BY <2>2 DEF Tip
    <2> QED
      BY <2>5, <2>6 DEF Y
  <1>13. B2[Len(out') + 1] = opens' /\ Text(B2, heap, ast, out')
    BY <1>5, <1>6 DEF B2
  <1>14. opens' = IF Len(acts') = 0 THEN <<>> ELSE Tip(Onto(X, opens')).blocks
    BY <1>0, <1>1, <1>3, <1>11
  <1> QED
    BY <1>4, <1>6, <1>11, <1>13, <1>14 DEF Written, B2

\* if and for: a block of C for a block of the tree.
LEMMA GenOpenWritten ==
    ASSUME IInv, GenInv, GenOpen, NEW E, NEW L, NEW B, NEW X,
           Written(E, L, heap, ast, out, acts, opens, B, X)
    PROVE  Written(E, L, heap, ast, out', acts', opens', Append(B, opens'), Onto(X, opens'))
  <1> DEFINE t == CTok(AstTok.op, Null, 0, Act.pc)
             z == Len(out) + 1
             x == Tip(X)
             y == [x EXCEPT !.blocks = Append(x.blocks, z)]
             q == Act.pc + 1
             B2 == Append(B, opens')
  <1>1. /\ phase = "codegen" /\ AstTok.op \in {"if", "for"}
        /\ out' = Append(out, t) /\ opens' = Append(opens, z) /\ acts' = Advance(q)
    BY DEF GenOpen, OpenC
  <1>2. /\ acts \in Seq(ActType) /\ Len(acts) \in Nat /\ Len(acts) > 0 /\ Act = Tip(acts)
        /\ Act.pc \in 1..Act.hi /\ Act.hi \in 1..Len(ast) /\ Act.pc \in 1..Len(ast)
        /\ Len(ast) \in Nat /\ ast[Act.hi].op = "end" /\ AstTok = ast[Act.pc]
        /\ out \in Seq(CTokType) /\ opens \in Seq(Nat) /\ Len(out) \in Nat
    BY <1>1, GenFacts
  <1>3. /\ X \in Seq(StandType) /\ Len(X) = Len(acts) /\ x = X[Len(acts)] /\ x \in StandType
        /\ Spot(E, ast, out, Act.pc, Act.hi, x) /\ Region(E, ast, Act.pc, Act.hi, x.lo)
        /\ x.blocks = opens /\ opens # <<>> /\ x.under < Len(opens) /\ x.under \in Nat
        /\ Len(opens) \in Nat
    BY <1>2, WrittenFacts
  <1>4. Complete(E, L, heap, ast) /\ Text(B, heap, ast, out) /\ B[Len(out) + 1] = opens
    BY DEF Written
  <1>5. /\ t \in CTokType /\ t.op = AstTok.op /\ t.src = Act.pc /\ t.op \in COpeners
        /\ t.op \notin Jumps \cup {"reach", "run", "end"} /\ t.op \notin {"break", "continue"}
    <2>1. Act.pc \in Nat /\ Null \in Nat /\ 0 \in Nat
      BY <1>2 DEF Null
    <2> QED
      BY <1>1, <2>1 DEF CTok, CTokType, COpeners, Jumps
  <1>6. opens' \in Seq(Nat)
    BY <1>1, <1>2
  <1>7. Text(B2, heap, ast, out') /\ Writes(B, heap, ast, out, t, opens', B2, out')
    BY <1>1, <1>2, <1>3, <1>4, <1>5, <1>6, WrittenToken
  <1>8. /\ Len(out') = Len(out) + 1 /\ out'[z] = t /\ \A p \in 1..Len(out) : out'[p] = out[p]
    BY <1>7, WritesFacts
  <1>9. Len(out') \in Nat /\ Len(out') >= Len(out) /\ z \in 1..Len(out')
    BY <1>2, <1>8
  <1>10. Len(E[Act.pc]) \in Nat /\ Len(E[x.lo]) \in Nat
    BY <1>3, <1>4, RegionFacts
  <1> HIDE DEF t, z, x, B2
  <1>11. Spot(E, ast, out', Act.pc, Act.hi, x)
    BY <1>2, <1>3, <1>8, <1>9, <1>10, SpotStays
  <1>12. y \in StandType /\ Spot(E, ast, out', q, Act.hi, y)
    <2>1. out'[z].op = ast[Act.pc].op /\ out'[z].src = Act.pc /\ ast[Act.pc].op \in {"if", "for"}
      BY <1>1, <1>2, <1>5, <1>8
    <2>2. /\ Complete(E, L, heap, ast) /\ x \in StandType /\ Spot(E, ast, out', Act.pc, Act.hi, x)
          /\ Len(out') \in Nat /\ z \in 1..Len(out')
      BY <1>3, <1>4, <1>9, <1>11
    <2> QED
      BY <2>1, <2>2, SpotOpen, SMTT(30)
  <1>13. [x EXCEPT !.blocks = opens'] = y
    BY <1>1, <1>3
  <1>14. x.under <= Len(opens') /\ \A i \in 1..x.under : opens'[i] = opens[i]
    <2>1. /\ Len(opens') = Len(opens) + 1 /\ \A i \in 1..Len(opens) : opens'[i] = opens[i]
      <3>1. z \in Nat
        BY <1>2 DEF z
      <3> QED
        BY <1>1, <1>2, <3>1, BeginsLonger
    <2>2. \A i \in 1..x.under : i \in 1..Len(opens)
      BY <1>3
    <2> QED
      BY <1>3, <2>1, <2>2
  <1> HIDE DEF y, q
  <1> QED
    BY <1>1, <1>5, <1>6, <1>7, <1>12, <1>13, <1>14, GenGoesOn DEF x, B2

\* A token behind the text in which the innermost activation stands.
LEMMA GenToken ==
    ASSUME IInv, GenInv, phase = "codegen", NEW E, NEW L, NEW B, NEW X,
           Written(E, L, heap, ast, out, acts, opens, B, X),
           NEW t \in CTokType, out' = Append(out, t), opens' \in Seq(Nat),
           t.op \in COpeners => opens' = Append(opens, Len(out) + 1),
           t.op \in Jumps \cup {"reach"} => opens' = opens,
           t.op = "end" => t.open = Tip(opens) /\ opens' = Prefix(opens, Len(opens) - 1),
           t.op \notin {"reach", "run"} => t.src \in 1..Len(ast) /\ ast[t.src].op = t.op,
           t.op = "run" => t.src \in 1..Len(ast) /\ ast[t.src].op = "defer",
           t.op \in {"reach", "run"} => t.defer \in 1..Len(heap),
           t.op \in {"break", "continue"} => \E i \in 1..Len(opens) : out[opens[i]].op = "for"
    PROVE  /\ Text(Append(B, opens'), heap, ast, out')
           /\ Writes(B, heap, ast, out, t, opens', Append(B, opens'), out')
           /\ Len(out) \in Nat /\ Len(out') = Len(out) + 1 /\ Len(out') \in Nat
           /\ Len(out') >= Len(out) /\ Len(out) + 1 \in 1..Len(out')
           /\ out'[Len(out) + 1] = t /\ \A p \in 1..Len(out) : out'[p] = out[p]
           /\ Spot(E, ast, out', Act.pc, Act.hi, Tip(X))
  <1> DEFINE x == Tip(X)
             B2 == Append(B, opens')
  <1>1. acts \in Seq(ActType) /\ Len(acts) > 0 /\ Act = Tip(acts)
    BY GenFacts
  <1>2. /\ x \in StandType /\ Spot(E, ast, out, Act.pc, Act.hi, x)
        /\ Region(E, ast, Act.pc, Act.hi, x.lo) /\ opens # <<>>
    BY <1>1, WrittenFacts
  <1>3. Complete(E, L, heap, ast) /\ Text(B, heap, ast, out) /\ B[Len(out) + 1] = opens
    BY DEF Written
  <1> HIDE DEF x
  <1>4. /\ Text(Append(B, opens'), heap, ast, Append(out, t))
        /\ Writes(B, heap, ast, out, t, opens', Append(B, opens'), Append(out, t))
    BY <1>2, <1>3, WrittenToken
  <1>5. Text(B2, heap, ast, out') /\ Writes(B, heap, ast, out, t, opens', B2, out')
    BY <1>4
  <1>6. /\ Len(out) \in Nat /\ Len(out') = Len(out) + 1 /\ out'[Len(out) + 1] = t
        /\ \A p \in 1..Len(out) : out'[p] = out[p]
    BY <1>5, WritesFacts
  <1>7. Len(out') \in Nat /\ Len(out') >= Len(out) /\ Len(out) + 1 \in 1..Len(out')
    BY <1>6
  <1>8. Len(E[Act.pc]) \in Nat /\ Len(E[x.lo]) \in Nat
    BY <1>2, <1>3, RegionFacts, ZenonT(60)
  <1>9. Spot(E, ast, out', Act.pc, Act.hi, x)
    BY <1>2, <1>6, <1>7, <1>8, SpotStays
  <1> QED
    BY <1>5, <1>6, <1>7, <1>9 DEF x, B2

\* defer: its place is marked, and the body is passed by.
LEMMA GenDeferWritten ==
    ASSUME IInv, GenInv, GenDefer, NEW E, NEW L, NEW B, NEW X,
           Written(E, L, heap, ast, out, acts, opens, B, X)
    PROVE  Written(E, L, heap, ast, out', acts', opens', Append(B, opens'), Onto(X, opens'))
  <1>1. PICK d \in 1..Len(heap) :
            /\ heap[d].lo = Act.pc
            /\ out' = Append(out, CTok("reach", d, 0, Act.pc))
            /\ acts' = Advance(heap[d].hi + 1)
    BY DEF GenDefer
  <1> DEFINE t == CTok("reach", d, 0, Act.pc)
             x == Tip(X)
             q == heap[d].hi + 1
  <1>2. phase = "codegen" /\ AstTok.op = "defer" /\ opens' = opens
    BY DEF GenDefer
  <1>3. /\ acts \in Seq(ActType) /\ Len(acts) > 0 /\ Act = Tip(acts)
        /\ Act.pc \in 1..Act.hi /\ Act.hi \in 1..Len(ast) /\ Act.pc \in 1..Len(ast)
        /\ Len(ast) \in Nat /\ opens \in Seq(Nat)
        /\ heap[d].lo \in Act.pc..Act.hi => heap[d].hi < Act.hi
    BY <1>2, GenFacts
  <1>4. /\ x \in StandType /\ x.blocks = opens /\ x.under < Len(opens) /\ x.under \in Nat
        /\ Len(opens) \in Nat
    BY <1>3, WrittenFacts
  <1>5. Complete(E, L, heap, ast)
    BY DEF Written
  <1>6. BodyIn(E, L, heap, ast, d)
    BY <1>5, TreeFacts
  <1>7. q \in Act.pc + 1..Act.hi
    <2>1. heap[d].lo < heap[d].hi /\ heap[d].hi \in 1..Len(ast)
      BY <1>6 DEF BodyIn
    <2>2. heap[d].hi < Act.hi
      BY <1>1, <1>3
    <2> QED
      BY <1>1, <1>3, <2>1, <2>2
  <1>8. E[q] = E[Act.pc]
    <2>1. heap[d].hi \in 1..Len(ast) /\ ast[heap[d].hi].op = "end" /\ Tip(E[heap[d].hi]) = heap[d].lo
      BY <1>6 DEF BodyIn
    <2>2. E[heap[d].hi + 1] = E[Tip(E[heap[d].hi])]
      BY <1>5, <2>1, TreeFlows
    <2> QED
      BY <1>1, <2>1, <2>2
  <1>9. t \in CTokType /\ t.op = "reach" /\ t.defer = d
    <2>1. Act.pc \in Nat /\ d \in Nat /\ 0 \in Nat
      BY <1>3
    <2> QED
      BY <2>1 DEF CTok, CTokType
  <1>10. /\ Text(Append(B, opens'), heap, ast, out')
         /\ Writes(B, heap, ast, out, t, opens', Append(B, opens'), out')
         /\ Spot(E, ast, out', Act.pc, Act.hi, x)
    <2>1. t.op \notin COpeners /\ t.op # "end" /\ t.op # "run" /\ t.op \notin {"break", "continue"}
      BY <1>9 DEF COpeners
    <2>2. out' = Append(out, t) /\ opens' \in Seq(Nat)
      BY <1>1, <1>2, <1>3
    <2> HIDE DEF t
    <2> QED
      BY <1>2, <1>9, <2>1, <2>2, GenToken
  <1> HIDE DEF q
  <1>11. Spot(E, ast, out', q, Act.hi, x)
    BY <1>7, <1>8, <1>10, SpotSkip
  <1>12. [x EXCEPT !.blocks = opens'] = x
    BY <1>2, <1>4 DEF StandType
  <1>13. x.under <= Len(opens') /\ \A i \in 1..x.under : opens'[i] = opens[i]
    BY <1>2, <1>4
  <1>14. acts' = Advance(q) /\ opens' \in Seq(Nat)
    BY <1>1, <1>2, <1>3 DEF q
  <1> HIDE DEF t
  <1> QED
    BY <1>2, <1>9, <1>10, <1>11, <1>12, <1>13, <1>14, GenGoesOn DEF x

\* Where break and continue are, C has a loop around them too.
LEMMA LoopInText ==
    ASSUME NEW E, NEW L, NEW h, NEW a, Complete(E, L, h, a), NEW o, NEW p, NEW hi, NEW x,
           Spot(E, a, o, p, hi, x), a[p].op \in {"break", "continue"}
    PROVE  \E i \in 1..Len(x.blocks) : o[x.blocks[i]].op = "for" /\ o[x.blocks[i]].src = a[p].loop
  <1>1. p \in 1..Len(a)
    BY RegionFacts DEF Spot
  <1>2. In(a[p].loop, E[p]) /\ a[a[p].loop].op = "for"
    BY <1>1, TreeFacts DEF DueOK
  <1>3. PICK j \in 1..Len(E[p]) : E[p][j] = a[p].loop
    BY <1>2 DEF In
  <1> QED
    BY <1>2, <1>3 DEF Spot, Looped

\* break, continue and return, when the defers are run: the token itself.
LEMMA GenJumpWritten ==
    ASSUME IInv, GenInv, GenExit, AstTok.op # "end", NEW E, NEW L, NEW B, NEW X,
           Written(E, L, heap, ast, out, acts, opens, B, X)
    PROVE  Written(E, L, heap, ast, out', acts', opens', Append(B, opens'), Onto(X, opens'))
  <1> DEFINE t == CTok(AstTok.op, Null, 0, Act.pc)
             x == Tip(X)
             q == Act.pc + 1
  <1>1. /\ phase = "codegen" /\ AstTok.op \in Jumps /\ out' = Append(out, t) /\ opens' = opens
        /\ acts' = IF Act.pc = Act.hi THEN Prefix(acts, Len(acts) - 1) ELSE Advance(q)
    BY DEF GenExit, Unwinding, Exits, Jumps
  <1>2. /\ acts \in Seq(ActType) /\ Len(acts) > 0 /\ Act = Tip(acts)
        /\ Act.pc \in 1..Act.hi /\ Act.hi \in 1..Len(ast) /\ Act.pc \in 1..Len(ast)
        /\ Len(ast) \in Nat /\ ast[Act.hi].op = "end" /\ AstTok = ast[Act.pc]
        /\ opens \in Seq(Nat)
    BY <1>1, GenFacts
  <1>3. /\ x \in StandType /\ x.blocks = opens /\ x.under < Len(opens) /\ x.under \in Nat
        /\ Len(opens) \in Nat /\ Spot(E, ast, out, Act.pc, Act.hi, x)
    BY <1>2, WrittenFacts
  <1>4. Complete(E, L, heap, ast)
    BY DEF Written
  <1>5. Act.pc # Act.hi
    BY <1>1, <1>2 DEF Jumps
  <1>6. q \in Act.pc + 1..Act.hi /\ acts' = Advance(q)
    BY <1>1, <1>2, <1>5
  <1>7. E[q] = E[Act.pc]
    BY <1>1, <1>2, <1>4, TreeFlows
  <1>8. t \in CTokType /\ t.op = AstTok.op /\ t.src = Act.pc
    <2>1. Act.pc \in Nat /\ 0 \in Nat /\ Null \in Nat
      BY <1>2 DEF Null
    <2> QED
      BY <1>1, <2>1 DEF CTok, CTokType, Exits, Jumps
  <1>9. t.op \in {"break", "continue"} => \E i \in 1..Len(opens) : out[opens[i]].op = "for"
    <2> SUFFICES ASSUME t.op \in {"break", "continue"}
                 PROVE  \E i \in 1..Len(opens) : out[opens[i]].op = "for"
      OBVIOUS
    <2>1. ast[Act.pc].op \in {"break", "continue"}
      BY <1>2, <1>8
    <2>2. \E i \in 1..Len(x.blocks) : out[x.blocks[i]].op = "for" /\ out[x.blocks[i]].src = ast[Act.pc].loop
      BY <1>3, <1>4, <2>1, LoopInText
    <2> QED
      BY <1>3, <2>2
  <1>10. /\ Text(Append(B, opens'), heap, ast, out')
         /\ Writes(B, heap, ast, out, t, opens', Append(B, opens'), out')
         /\ Spot(E, ast, out', Act.pc, Act.hi, x)
    <2>1. t.op \notin COpeners /\ t.op # "end" /\ t.op # "run" /\ t.op # "reach"
      BY <1>1, <1>8 DEF COpeners, Jumps
    <2>2. out' = Append(out, t) /\ opens' \in Seq(Nat)
      BY <1>1, <1>2
    <2>3. t.src \in 1..Len(ast) /\ ast[t.src].op = t.op
      BY <1>2, <1>8
    <2> HIDE DEF t
    <2> QED
      BY <1>1, <1>8, <1>9, <2>1, <2>2, <2>3, GenToken
  <1> HIDE DEF q
  <1>11. Spot(E, ast, out', q, Act.hi, x)
    BY <1>6, <1>7, <1>10, SpotSkip
  <1>12. [x EXCEPT !.blocks = opens'] = x
    BY <1>1, <1>3 DEF StandType
  <1>13. x.under <= Len(opens') /\ \A i \in 1..x.under : opens'[i] = opens[i]
    BY <1>1, <1>3
  <1>14. opens' \in Seq(Nat)
    BY <1>1, <1>2
  <1> HIDE DEF t
  <1> QED
    BY <1>1, <1>6, <1>8, <1>10, <1>11, <1>12, <1>13, <1>14, GenGoesOn DEF x

\* The closing token of a C block, for the end of a block of the tree.
LEMMA EndToken ==
    ASSUME IInv, GenInv, GenExit, AstTok.op = "end", NEW E, NEW L, NEW B, NEW X,
           Written(E, L, heap, ast, out, acts, opens, B, X)
    PROVE  LET t == CTok("end", Null, Tip(opens), Act.pc)
           IN  /\ t \in CTokType /\ opens' \in Seq(Nat)
               /\ opens' = Prefix(opens, Len(opens) - 1) /\ Len(opens') = Len(opens) - 1
               /\ \A i \in 1..Len(opens) - 1 : opens'[i] = opens[i]
               /\ Text(Append(B, opens'), heap, ast, out')
               /\ Writes(B, heap, ast, out, t, opens', Append(B, opens'), out')
               /\ Spot(E, ast, out', Act.pc, Act.hi, Tip(X))
  <1> DEFINE t == CTok("end", Null, Tip(opens), Act.pc)
  <1>1. /\ phase = "codegen" /\ out' = Append(out, t)
        /\ opens' = Prefix(opens, Len(opens) - 1)
    BY DEF GenExit, Unwinding, Tip
  <1>2. /\ acts \in Seq(ActType) /\ Len(acts) > 0 /\ Act = Tip(acts)
        /\ Act.pc \in 1..Len(ast) /\ Len(ast) \in Nat /\ AstTok = ast[Act.pc]
        /\ opens \in Seq(Nat)
    BY <1>1, GenFacts
  <1>3. opens # <<>> /\ Len(opens) \in Nat
    BY <1>2, WrittenFacts
  <1>4. Len(opens) \in 1..Len(opens) /\ Len(opens) - 1 \in 0..Len(opens)
    BY <1>2, <1>3
  <1>5. /\ opens' \in Seq(Nat) /\ Len(opens') = Len(opens) - 1
        /\ \A i \in 1..Len(opens) - 1 : opens'[i] = opens[i]
    BY <1>1, <1>2, <1>4, BeginsPrefix
  <1>6. Tip(opens) \in Nat
    BY <1>2, <1>4 DEF Tip
  <1>7. t \in CTokType /\ t.op = "end" /\ t.src = Act.pc /\ t.open = Tip(opens)
    <2>1. Act.pc \in Nat /\ Null \in Nat
      BY <1>2 DEF Null
    <2> QED
      BY <1>6, <2>1 DEF CTok, CTokType, Exits
  <1>8. /\ Text(Append(B, opens'), heap, ast, out')
        /\ Writes(B, heap, ast, out, t, opens', Append(B, opens'), out')
        /\ Spot(E, ast, out', Act.pc, Act.hi, Tip(X))
    <2>1. t.op \notin COpeners /\ t.op \notin Jumps \cup {"reach", "run"} /\ t.op \notin {"break", "continue"}
      BY <1>7 DEF COpeners, Jumps
    <2>2. t.src \in 1..Len(ast) /\ ast[t.src].op = t.op
      BY <1>2, <1>7
    <2> HIDE DEF t
    <2> QED
      BY <1>1, <1>5, <1>7, <2>1, <2>2, GenToken
  <1> QED
    BY <1>1, <1>5, <1>7, <1>8

\* The end of a block that is not the whole body.
LEMMA GenEndWritten ==
    ASSUME IInv, GenInv, GenExit, AstTok.op = "end", Act.pc # Act.hi, NEW E, NEW L, NEW B, NEW X,
           Written(E, L, heap, ast, out, acts, opens, B, X)
    PROVE  Written(E, L, heap, ast, out', acts', opens', Append(B, opens'), Onto(X, opens'))
  <1> DEFINE t == CTok("end", Null, Tip(opens), Act.pc)
             x == Tip(X)
             q == Act.pc + 1
  <1>1. phase = "codegen" /\ acts' = Advance(q)
    BY DEF GenExit, Unwinding
  <1>2. /\ acts \in Seq(ActType) /\ Len(acts) > 0 /\ Act = Tip(acts) /\ AstTok = ast[Act.pc]
    BY <1>1, GenFacts
  <1>3. /\ x \in StandType /\ x.blocks = opens /\ x.under \in Nat /\ Len(opens) \in Nat
    BY <1>2, WrittenFacts
  <1>4. Complete(E, L, heap, ast)
    BY DEF Written
  <1>5. /\ t \in CTokType /\ opens' \in Seq(Nat)
        /\ opens' = Prefix(opens, Len(opens) - 1) /\ Len(opens') = Len(opens) - 1
        /\ \A i \in 1..Len(opens) - 1 : opens'[i] = opens[i]
        /\ Text(Append(B, opens'), heap, ast, out')
        /\ Writes(B, heap, ast, out, t, opens', Append(B, opens'), out')
        /\ Spot(E, ast, out', Act.pc, Act.hi, x)
    BY EndToken
  <1>6. Len(out') \in Nat
    <2>1. Len(out) \in Nat /\ Len(out') = Len(out) + 1
      BY <1>5, WritesFacts
    <2> QED
      BY <2>1
  <1> HIDE DEF t, x
  <1>7. /\ Spot(E, ast, out', Act.pc + 1, Act.hi,
                [x EXCEPT !.blocks = Prefix(x.blocks, Len(x.blocks) - 1)])
        /\ x.under < Len(x.blocks) - 1
    <2>1. ast[Act.pc].op = "end" /\ Act.pc # Act.hi
      BY <1>2
    <2>2. Spot(E, ast, out', Act.pc, Act.hi, x)
      BY <1>5
    <2>3. x \in StandType
      BY <1>3
    <2> QED
      BY <1>4, <1>6, <2>1, <2>2, <2>3, SpotEnd
  <1>8. Spot(E, ast, out', q, Act.hi, [x EXCEPT !.blocks = opens'])
    BY <1>3, <1>5, <1>7
  <1>9. x.under <= Len(opens') /\ \A i \in 1..x.under : opens'[i] = opens[i]
    BY <1>3, <1>5, <1>7
  <1> HIDE DEF q
  <1> QED
    BY <1>1, <1>5, <1>8, <1>9, GenGoesOn DEF x

\* The end of a body: the C block that was opened for it is the one that ends.
LEMMA GenPopWritten ==
    ASSUME IInv, GenInv, GenExit, Act.pc = Act.hi, NEW E, NEW L, NEW B, NEW X,
           Written(E, L, heap, ast, out, acts, opens, B, X)
    PROVE  /\ Written(E, L, heap, ast, out', acts', opens', Append(B, opens'),
                      Prefix(X, Len(X) - 1))
           /\ acts' = Prefix(acts, Len(acts) - 1)
           /\ Len(opens) = Tip(X).under + 1
           /\ Len(acts) > 1 => opens' = X[Len(acts) - 1].blocks
  <1> DEFINE t == CTok("end", Null, Tip(opens), Act.pc)
             x == Tip(X)
             n == Len(acts)
             Y == Prefix(X, Len(X) - 1)
             B2 == Append(B, opens')
  <1>1. phase = "codegen" /\ acts' = Prefix(acts, n - 1)
    BY DEF GenExit, Unwinding
  <1>2. /\ acts \in Seq(ActType) /\ n \in Nat /\ n > 0 /\ Act = Tip(acts) /\ AstTok = ast[Act.pc]
        /\ Act.pc \in 1..Len(ast) /\ ast[Act.hi].op = "end" /\ opens \in Seq(Nat)
    BY <1>1, GenFacts
  <1>3. AstTok.op = "end"
    BY <1>2
  <1>4. /\ X \in Seq(StandType) /\ Len(X) = n /\ x \in StandType /\ x = X[n]
        /\ x.blocks = opens /\ x.under \in Nat
        /\ Len(opens) \in Nat /\ Spot(E, ast, out, Act.pc, Act.hi, x)
        /\ Region(E, ast, Act.pc, Act.hi, x.lo)
    BY <1>2, WrittenFacts
  <1>5. Complete(E, L, heap, ast) /\ Standing(E, L, ast, out, acts, X)
    BY DEF Written
  <1>6. /\ t \in CTokType /\ opens' \in Seq(Nat) /\ Len(opens') = Len(opens) - 1
        /\ \A i \in 1..Len(opens) - 1 : opens'[i] = opens[i]
        /\ Text(B2, heap, ast, out') /\ Writes(B, heap, ast, out, t, opens', B2, out')
    BY <1>3, EndToken
  <1> HIDE DEF t, Y, x
  <1>7. /\ Len(out) \in Nat /\ Len(out') = Len(out) + 1 /\ B2[Len(out) + 2] = opens'
        /\ \A q \in 1..Len(out) : out'[q] = out[q]
    BY <1>6, WritesFacts
  <1>8. Len(out') \in Nat /\ Len(out') >= Len(out) /\ Len(out') > 0 /\ Len(out') + 1 = Len(out) + 2
    BY <1>7
  <1>9. Standing(E, L, ast, out', acts, X)
    BY <1>5, <1>7, <1>8, StandingStays
  <1>10. /\ acts' \in Seq(ActType) /\ Len(acts') = n - 1 /\ \A i \in 1..n - 1 : acts'[i] = acts[i]
    <2>1. n - 1 \in 0..n
      BY <1>2
    <2> QED
      BY <1>1, <1>2, <2>1, PrefixFacts
  <1>0. Y \in Seq(StandType) /\ Len(Y) = n - 1 /\ \A i \in 1..n - 1 : Y[i] = X[i]
    <2>1. n - 1 \in 0..n
      BY <1>2
    <2> QED
      BY <1>4, <2>1, PrefixFacts DEF Y
  <1>11. Standing(E, L, ast, out', acts', Y)
    <2>1. /\ Len(acts) = n /\ n \in Nat /\ n > 0 /\ Len(acts') = n - 1
          /\ \A i \in 1..n - 1 : acts'[i] = acts[i]
      BY <1>2, <1>10
    <2> HIDE DEF n
    <2> QED
      BY <1>0, <1>9, <2>1, StandingPop
  <1>12. n > 1 => /\ Tip(Y) = X[n - 1] /\ x.under = Len(X[n - 1].blocks)
                  /\ Begins(X[n - 1].blocks, x.blocks)
    <2> SUFFICES ASSUME n > 1
                 PROVE  /\ Tip(Y) = X[n - 1] /\ x.under = Len(X[n - 1].blocks)
                        /\ Begins(X[n - 1].blocks, x.blocks)
      OBVIOUS
    <2>1. n - 1 \in 1..n - 1 /\ (n - 1) + 1 = n
      BY <1>2
    <2>2. Tip(Y) = X[n - 1]
      BY <1>0, <2>1 DEF Tip
    <2>3. X[(n - 1) + 1].under = Len(X[n - 1].blocks) /\ Begins(X[n - 1].blocks, X[(n - 1) + 1].blocks)
      BY <1>9, <2>1 DEF Standing
    <2> QED
      BY <1>4, <2>1, <2>2, <2>3
  <1>13. Len(opens) = x.under + 1
    <2>1. /\ Tip(E[Act.pc]) = x.lo
      BY <1>4 DEF Region
    <2>2. Len(E[x.lo]) = Len(E[Act.pc]) - 1
      <3>1. Len(E[Act.pc + 1]) = Len(E[Act.pc]) - 1
        BY <1>2, <1>3, <1>5, TreeFlows, SMTT(30)
      <3>2. E[Act.pc + 1] = E[Tip(E[Act.pc])]
        BY <1>2, <1>3, <1>5, TreeFlows, SMTT(30)
      <3> QED
        BY <2>1, <3>1, <3>2
    <2>3. Len(opens) = x.under + (Len(E[Act.pc]) - Len(E[x.lo]))
      BY <1>4 DEF Spot, Lined
    <2>4. Len(E[Act.pc]) \in Nat
      BY <1>4, <1>5, RegionFacts
    <2> DEFINE m == Len(opens)
               k == Len(E[Act.pc])
               j == Len(E[x.lo])
               u == x.under
    <2>5. j = k - 1 /\ m = u + (k - j) /\ k \in Nat /\ m \in Nat /\ u \in Nat
      BY <1>4, <2>2, <2>3, <2>4
    <2> HIDE DEF m, k, j, u
    <2>6. m = u + 1
      BY <2>5
    <2> QED
      BY <2>6 DEF m, u
  <1>14. n > 1 => opens' = X[n - 1].blocks
    <2> SUFFICES ASSUME n > 1 PROVE opens' = X[n - 1].blocks
      OBVIOUS
    <2>1. X[n - 1].blocks \in Seq(Nat)
      <3>1. n - 1 \in 1..Len(X)
        BY <1>2, <1>4
      <3> QED
        <4>1. X[n - 1] \in StandType
          BY <1>4, <3>1, ElementOfSeq
        <4> QED
          BY <4>1 DEF StandType
    <2>2. Len(X[n - 1].blocks) = Len(opens) - 1 /\ Begins(X[n - 1].blocks, opens)
      BY <1>4, <1>12, <1>13
    <2>3. Begins(opens', opens) /\ Len(opens') = Len(X[n - 1].blocks)
      BY <1>4, <1>6, <2>2 DEF Begins
    <2> QED
      BY <1>2, <1>6, <2>1, <2>2, <2>3, BeginsOrder
  <1>15. n = 1 => opens' = <<>>
    <2> SUFFICES ASSUME n = 1 PROVE opens' = <<>>
      OBVIOUS
    <2>1. x.under = 0
      BY <1>4, <1>5 DEF Standing
    <2>2. Len(opens') = 0
      BY <1>6, <1>13, <2>1
    <2> QED
      BY <1>6, <2>2
  <1>16. opens' = IF Len(acts') = 0 THEN <<>> ELSE Tip(Y).blocks
    <2>1. CASE n = 1
      BY <1>10, <1>15, <2>1
    <2>2. CASE n > 1
      <3>1. Len(acts') # 0
        BY <1>2, <1>10, <2>2
      <3> QED
        BY <1>12, <1>14, <2>2, <3>1
    <2>3. n = 1 \/ n > 1
      <3>1. n \in Nat /\ n > 0
        BY <1>2
      <3> HIDE DEF n
      <3> QED
        BY <3>1
    <2> QED
      BY <2>1, <2>2, <2>3
  <1>17. B2[Len(out') + 1] = opens'
    BY <1>7, <1>8
  <1> HIDE DEF B2
  <1>18. Written(E, L, heap, ast, out', acts', opens', B2, Y)
    BY <1>5, <1>6, <1>8, <1>11, <1>16, <1>17 DEF Written
  <1> QED
    BY <1>1, <1>13, <1>14, <1>18 DEF B2, Y, x

\* Each defer that codegen_defers comes to is one that is in force where it is
\* called, and so is the one that it goes on to.
LEMMA CurrentInForce ==
    ASSUME IInv, GenInv, GenUnwind, NEW E, NEW L, NEW B, NEW X,
           Written(E, L, heap, ast, out, acts, opens, B, X)
    PROVE  /\ Act.current \in 1..Len(heap) /\ In(Act.current, L[Act.pc])
           /\ BodyIn(E, L, heap, ast, Act.current)
           /\ heap[Act.current].prev = Null \/ In(heap[Act.current].prev, L[Act.pc])
  <1> DEFINE d == Act.current
  <1>1. phase = "codegen" /\ d # Null
    BY DEF GenUnwind, Unwinding
  <1>2. /\ acts \in Seq(ActType) /\ Len(acts) > 0 /\ Act = Tip(acts)
        /\ d \in 0..Len(heap) /\ Len(heap) \in Nat /\ Act.pc \in 1..Len(ast) /\ Len(ast) \in Nat
    BY <1>1, GenFacts
  <1>3. Stands(E, L, ast, out, Act, Tip(X))
    BY <1>2, WrittenFacts
  <1>4. In(d, L[Act.pc])
    BY <1>1, <1>3 DEF Stands
  <1>5. d \in 1..Len(heap)
    BY <1>1, <1>2 DEF Null
  <1>6. Complete(E, L, heap, ast) /\ Act.pc \in 1..Len(ast) + 1
    BY <1>2 DEF Written
  <1>7. BodyIn(E, L, heap, ast, d)
    BY <1>5, <1>6, TreeFacts, SMTT(30)
  <1>8. heap[d].prev = Null \/ In(heap[d].prev, L[heap[d].lo])
    BY <1>7 DEF BodyIn
  <1>9. Begins(L[heap[d].lo], L[Act.pc])
    <2>1. InForce(E, L, heap, Act.pc)
      BY <1>6, TreeFacts
    <2>2. PICK j \in 1..Len(L[Act.pc]) : L[Act.pc][j] = d
      BY <1>4 DEF In
    <2> QED
      BY <2>1, <2>2 DEF InForce
  <1>10. L[Act.pc] \in Seq(Nat) /\ L[heap[d].lo] \in Seq(Nat)
    <2>1. heap[d].lo \in 1..Len(ast) + 1
      <3>1. heap[d].lo \in 1..Len(ast)
        BY <1>7, Zenon DEF BodyIn
      <3> QED
        BY <1>2, <3>1
    <2> QED
      BY <1>6, <2>1, TreeFacts, SMTT(30)
  <1>11. heap[d].prev = Null \/ In(heap[d].prev, L[Act.pc])
    BY <1>8, <1>9, <1>10, InBegins
  <1> QED
    BY <1>4, <1>5, <1>7, <1>11

\* The place where the activation for a defer of the list begins.
BodySpot(d) ==
    [lo |-> heap[d].lo, under |-> Len(opens), blocks |-> Append(opens, Len(out) + 1)]

\* A deferred body in a C block of its own, inside the blocks that are open.
LEMMA GenUnwindWritten ==
    ASSUME IInv, GenInv, GenUnwind, NEW E, NEW L, NEW B, NEW X,
           Written(E, L, heap, ast, out, acts, opens, B, X)
    PROVE  Written(E, L, heap, ast, out', acts', opens', Append(B, opens'),
                   Append(X, BodySpot(Act.current)))
  <1> DEFINE d == Act.current
             t == CTok("run", d, 0, heap[d].lo)
             z == Len(out) + 1
             x == Tip(X)
             y == BodySpot(d)
             n == Len(acts)
             r == [Act EXCEPT !.current = heap[d].prev]
             A == [acts EXCEPT ![n] = r]
             b == Activation(heap[d].lo + 1, heap[d].hi)
             B2 == Append(B, opens')
             Y == Append(X, y)
  <1>1. /\ phase = "codegen" /\ out' = Append(out, t) /\ opens' = Append(opens, z)
        /\ acts' = Append(A, b)
    BY DEF GenUnwind, Unwinding, OpenC, Act
  <1>2. /\ acts \in Seq(ActType) /\ n \in Nat /\ n > 0 /\ Act = Tip(acts) /\ Act = acts[n]
        /\ Act.pc \in 1..Len(ast) /\ Len(ast) \in Nat /\ opens \in Seq(Nat) /\ Len(out) \in Nat
    BY <1>1, GenFacts
  <1>3. /\ X \in Seq(StandType) /\ Len(X) = n /\ x \in StandType /\ x = X[n]
        /\ x.blocks = opens /\ x.under < Len(opens) /\ x.under \in Nat /\ Len(opens) \in Nat
    BY <1>2, WrittenFacts
  <1>4. Complete(E, L, heap, ast) /\ Standing(E, L, ast, out, acts, X)
    BY DEF Written
  <1>5. /\ d \in 1..Len(heap) /\ In(d, L[Act.pc]) /\ BodyIn(E, L, heap, ast, d)
        /\ heap[d].prev = Null \/ In(heap[d].prev, L[Act.pc])
    BY CurrentInForce
  <1>6. heap[d].lo \in 1..Len(ast) /\ ast[heap[d].lo].op = "defer"
    BY <1>5 DEF BodyIn
  <1>7. t \in CTokType /\ t.op = "run" /\ t.src = heap[d].lo /\ t.defer = d
    <2>1. heap[d].lo \in Nat /\ d \in Nat /\ 0 \in Nat
      BY <1>2, <1>5, <1>6
    <2> QED
      BY <2>1 DEF CTok, CTokType, COpeners
  <1>8. opens' \in Seq(Nat)
    BY <1>1, <1>2
  <1> HIDE DEF t, x, y, d, r, A, b, Y
  <1>9. /\ Text(B2, heap, ast, out') /\ Writes(B, heap, ast, out, t, opens', B2, out')
        /\ Len(out') = Len(out) + 1 /\ Len(out') \in Nat /\ Len(out') >= Len(out) /\ z \in 1..Len(out')
        /\ out'[z] = t /\ (\A p \in 1..Len(out) : out'[p] = out[p])
        /\ Spot(E, ast, out', Act.pc, Act.hi, Tip(X))
    <2>1. t.op \in COpeners /\ t.op \notin Jumps \cup {"reach", "end"} /\ t.op \notin {"break", "continue"}
      BY <1>7 DEF COpeners, Jumps
    <2> QED
      BY <1>1, <1>5, <1>6, <1>7, <1>8, <2>1, GenToken
  <1>10. Standing(E, L, ast, out', acts, X)
    <2>1. Len(out) \in Nat
      BY <1>2
    <2> QED
      BY <1>4, <1>9, <2>1, StandingStays
  <1>11. /\ Len(A) = n /\ A[n] = r /\ \A i \in 1..n - 1 : A[i] = acts[i]
    BY <1>2, AdvanceFacts DEF A
  <1>12. r.pc = Act.pc /\ r.hi = Act.hi /\ r.current = heap[d].prev
    <2>1. Act \in ActType
      BY <1>2, ElementOfSeq
    <2> QED
      BY <2>1 DEF r, ActType
  <1>13. Stands(E, L, ast, out', r, X[n])
    BY <1>3, <1>5, <1>9, <1>12 DEF Stands, x
  <1>14. Standing(E, L, ast, out', A, X)
    <2>1. Stands(E, L, ast, out', A[n], X[n])
      BY <1>11, <1>13
    <2>2. X[n].under <= Len(X[n].blocks)
      BY <1>3
    <2>3. n \in Nat /\ n > 0 /\ Len(acts) = n /\ Len(X) = n
      BY <1>2, <1>3
    <2> HIDE DEF n
    <2> QED
      BY <1>3, <1>10, <1>11, <2>1, <2>2, <2>3, StandingTop
  <1>15. y \in StandType /\ y.lo = heap[d].lo /\ y.under = Len(x.blocks) /\ y.blocks = Append(x.blocks, z)
    <2>1. y = [lo |-> heap[d].lo, under |-> Len(opens), blocks |-> Append(opens, z)]
      BY DEF y, BodySpot
    <2>2. heap[d].lo \in Nat /\ Len(opens) \in Nat /\ Append(opens, z) \in Seq(Nat)
      BY <1>1, <1>3, <1>6, <1>8
    <2> QED
      BY <1>3, <2>1, <2>2 DEF StandType
  <1>16. /\ Spot(E, ast, out', heap[d].lo + 1, heap[d].hi, y)
         /\ Len(x.blocks) > 0 /\ Begins(x.blocks, y.blocks)
    <2>1. out'[z].op = "run" /\ out'[z].src = heap[d].lo
      BY <1>7, <1>9
    <2>2. Spot(E, ast, out', Act.pc, Act.hi, x)
      BY <1>9 DEF x
    <2> HIDE DEF z
    <2>3. x \in StandType /\ Complete(E, L, heap, ast) /\ Len(out') \in Nat /\ z \in 1..Len(out')
      BY <1>3, <1>4, <1>9
    <2>4. d \in 1..Len(heap) /\ In(d, L[Act.pc])
      BY <1>5
    <2> QED
      BY <1>15, <2>1, <2>2, <2>3, <2>4, SpotBody
  <1>17. Stands(E, L, ast, out', b, y)
    BY <1>4, <1>16, Landing DEF b
  <1>18. Len(acts') = n + 1 /\ acts'[n + 1] = b /\ \A i \in 1..n : acts'[i] = A[i]
    <2>1. A \in Seq(ActType \cup {r})
      <3>1. acts \in Seq(ActType \cup {r}) /\ r \in ActType \cup {r}
        BY <1>2
      <3> QED
        BY <1>2, <3>1, TopReplaced DEF A
    <2>2. A \in Seq(ActType \cup {r, b}) /\ b \in ActType \cup {r, b}
      BY <2>1
    <2> QED
      BY <1>1, <1>11, <2>2, AppendProperties
  <1>19. Standing(E, L, ast, out', acts', Y) /\ Tip(Y) = y
    <2>1. y \in StandType /\ y.under = Len(Tip(X).blocks) /\ y.under > 0 /\ Begins(Tip(X).blocks, y.blocks)
      BY <1>15, <1>16 DEF x
    <2>2. Stands(E, L, ast, out', acts'[n + 1], y)
      BY <1>17, <1>18
    <2>3. n \in Nat /\ n > 0
      BY <1>2
    <2> HIDE DEF n
    <2> QED
      BY <1>11, <1>14, <1>16, <1>18, <2>1, <2>2, <2>3, StandingPush DEF Y
  <1>20. y.blocks = opens' /\ Len(acts') # 0
    BY <1>1, <1>2, <1>18 DEF y, BodySpot
  <1>21. B2[Len(out') + 1] = opens' /\ Len(out') > 0
    <2>1. B2[Len(out) + 2] = opens' /\ Len(out) \in Nat
      BY <1>9, WritesFacts
    <2>2. Len(out') + 1 = Len(out) + 2 /\ Len(out') > 0
      BY <1>9, <2>1
    <2> HIDE DEF B2
    <2> QED
      BY <2>1, <2>2
  <1>22. opens' = IF Len(acts') = 0 THEN <<>> ELSE Tip(Y).blocks
    BY <1>19, <1>20
  <1>23. Written(E, L, heap, ast, out', acts', opens', B2, Y)
    BY <1>4, <1>9, <1>19, <1>21, <1>22 DEF Written
  <1> QED
    BY <1>23 DEF Y, y, d

\* The place where the function's own activation begins.
FirstSpot == [lo |-> 1, under |-> 0, blocks |-> <<1>>]

\* The function's own C block.
LEMMA GenFunctionWritten ==
    ASSUME NEW E, NEW L, Complete(E, L, heap, ast), ResolveTypeOK,
           GenFunction, out = <<>>, opens = <<>>
    PROVE  Written(E, L, heap, ast, out', acts', opens', << <<>>, <<1>> >>, <<FirstSpot>>)
  <1> DEFINE t == CTok("fn", Null, 0, 1)
             B == << <<>> >>
             B2 == << <<>>, <<1>> >>
             X == <<FirstSpot>>
  <1>1. out' = <<t>> /\ opens' = <<1>> /\ acts' = <<Activation(2, Len(ast))>>
    <2>1. Len(out) + 1 = 1
      OBVIOUS
    <2>2. Append(<<>>, t) = <<t>> /\ Append(<<>>, 1) = <<1>>
      OBVIOUS
    <2> QED
      BY <2>1, <2>2 DEF GenFunction, OpenC
  <1>2. Len(ast) \in Nat /\ Len(ast) > 1 /\ ast[1].op = "fn"
    BY TreeFacts DEF Complete
  <1>3. t \in CTokType /\ t.op = "fn" /\ t.src = 1
    BY DEF CTok, CTokType, COpeners, Null
  <1>4. Text(B, heap, ast, <<>>)
    <2>1. B \in Seq(Seq(Nat)) /\ Len(B) = 1 /\ B[1] = <<>>
      <3>1. <<>> \in Seq(Nat)
        OBVIOUS
      <3> QED
        BY <3>1
    <2>2. Open(<<>>, 1) = {}
      BY DEF Open
    <2>3. Len(B[1]) = 0
      BY <2>1
    <2> HIDE DEF B
    <2>4. CNest(B, <<>>, 1)
      BY <2>3 DEF CNest
    <2>5. {B[1][i] : i \in 1..Len(B[1])} = {}
      BY <2>3
    <2>6. CPlace(B, <<>>, 1)
      BY <2>2, <2>4, <2>5 DEF CPlace
    <2>7. <<>> \in Seq(CTokType) /\ Len(<<>>) = 0 /\ 1..0 = {} /\ 1..0 + 1 = {1}
      OBVIOUS
    <2> QED
      BY <2>1, <2>6, <2>7 DEF Text
  <1>5. B2 = Append(B, <<1>>) /\ <<1>> \in Seq(Nat) /\ out' = Append(<<>>, t)
    BY <1>1
  <1>6. Writes(B, heap, ast, <<>>, t, <<1>>, B2, out')
    BY <1>3, <1>4, <1>5 DEF Writes
  <1>7. B2[1] = <<>> /\ B2[2] = <<1>> /\ out'[1] = t /\ Len(out') = 1
    BY <1>1
  <1>8. CFlow(B2, heap, ast, out', 1)
    <2>1. Append(<<>>, 1) = <<1>>
      OBVIOUS
    <2>2. B2[1 + 1] = Append(B2[1], 1)
      BY <1>7, <2>1
    <2>3. 1 \in 1..Len(ast)
      BY <1>2
    <2> HIDE DEF B2, t
    <2> QED
      BY <1>2, <1>3, <1>7, <2>2, <2>3 DEF CFlow, Jumps
  <1> HIDE DEF B, B2, t, X
  <1>9. Text(B2, heap, ast, out')
    <2>1. Len(<<>>) + 1 = 1
      OBVIOUS
    <2> QED
      BY <1>6, <1>8, <2>1, TextWrites
  <1>10. FirstSpot \in StandType /\ Spot(E, ast, out', 2, Len(ast), FirstSpot)
    <2>1. Len(out') \in Nat /\ 1 \in 1..Len(out') /\ out'[1].op = "fn" /\ out'[1].src = 1
      BY <1>3, <1>7
    <2> QED
      BY <2>1, SpotFunction DEF FirstSpot
  <1>11. Stands(E, L, ast, out', Activation(2, Len(ast)), FirstSpot)
    BY <1>10, Landing
  <1>12. /\ X \in Seq(StandType) /\ Len(X) = 1 /\ X[1] = FirstSpot /\ Tip(X) = FirstSpot
         /\ FirstSpot.under = 0 /\ FirstSpot.blocks = <<1>>
    BY <1>10 DEF X, Tip, FirstSpot
  <1>13. Standing(E, L, ast, out', acts', X)
    <2>1. Len(acts') = 1 /\ acts'[1] = Activation(2, Len(ast))
      BY <1>1
    <2>2. \A i \in 1..1 : i = 1
      OBVIOUS
    <2>3. 1..1 - 1 = {}
      OBVIOUS
    <2> QED
      BY <1>11, <1>12, <2>1, <2>2, <2>3 DEF Standing
  <1>14. Len(acts') # 0 /\ Len(out') + 1 = 2 /\ Len(out') > 0
    BY <1>1
  <1>15. Written(E, L, heap, ast, out', acts', opens', B2, X)
    BY <1>1, <1>7, <1>9, <1>12, <1>13, <1>14 DEF Written
  <1> QED
    BY <1>15 DEF B2, X

-----------------------------------------------------------------------------
(* The defers that wait at each place of the text. *)

\* What each token of C does to the defers that wait: W[p] are the places where
\* they were reached.  The ways out leave exactly what waited at the opening of
\* the block, or of the loop, that they leave.
NoFor(B, o, p, i) == \A j \in i + 1..Len(B[p]) : o[B[p][j]].op # "for"
WaitTok(B, W, a, o, p) ==
    /\ o[p].op \in {"fn", "if", "for", "end"} => W[p + 1] = W[p]
    /\ o[p].op = "reach" => W[p + 1] = Append(W[p], p)
    /\ o[p].op = "run" =>
         /\ W[p] # <<>> /\ o[Tip(W[p])].defer = o[p].defer
         /\ W[p + 1] = Prefix(W[p], Len(W[p]) - 1)
    /\ o[p].op = "end" /\ o[Tip(B[p])].op # "run" => W[Tip(B[p])] = W[p]
    /\ o[p].op = "return" => W[p] = <<>>
    /\ o[p].op \in {"break", "continue"} =>
         \A i \in 1..Len(B[p]) :
            o[B[p][i]].op = "for" /\ o[B[p][i]].src = a[o[p].src].loop /\ NoFor(B, o, p, i)
              => W[B[p][i]] = W[p]

\* A defer waits in the blocks in which it was reached.
WaitPlace(B, W, o, p) ==
    \A i \in 1..Len(W[p]) :
        /\ W[p][i] \in 1..p - 1 /\ o[W[p][i]].op = "reach"
        /\ B[W[p][i]] # <<>> /\ Begins(B[W[p][i]], B[p])
Waits(B, W, a, o) ==
    /\ W \in Seq(Seq(Nat)) /\ Len(W) = Len(o) + 1 /\ W[1] = <<>>
    /\ \A p \in 1..Len(o) : WaitTok(B, W, a, o, p)
    /\ \A p \in 1..Len(o) + 1 : WaitPlace(B, W, o, p)

\* The text has one token more, behind which w waits.
Tells(B, W, h, a, o, t, b, w, B2, W2, o2) ==
    /\ Writes(B, h, a, o, t, b, B2, o2) /\ Waits(B, W, a, o)
    /\ w \in Seq(Nat) /\ W2 = Append(W, w)

\* Telling, place by place.
LEMMA TellsFacts ==
    ASSUME NEW B, NEW W, NEW h, NEW a, NEW o, NEW t, NEW b, NEW w, NEW B2, NEW W2, NEW o2,
           Tells(B, W, h, a, o, t, b, w, B2, W2, o2)
    PROVE  /\ Len(o) \in Nat /\ Len(o2) = Len(o) + 1 /\ Len(W2) = Len(o) + 2
           /\ W2 \in Seq(Seq(Nat)) /\ W2[1] = <<>>
           /\ o2[Len(o) + 1] = t /\ B2[Len(o) + 2] = b /\ W2[Len(o) + 2] = w
           /\ \A p \in 1..Len(o) + 1 :
                B2[p] = B[p] /\ B[p] \in Seq(Nat) /\ W2[p] = W[p] /\ W[p] \in Seq(Nat)
           /\ \A p \in 1..Len(o) : o2[p] = o[p]
           /\ \A p \in 1..Len(o) + 1 : CPlace(B, o, p)
           /\ \A p \in 1..Len(o) : CFlow(B, h, a, o, p)
  <1>1. Writes(B, h, a, o, t, b, B2, o2) /\ Waits(B, W, a, o) /\ w \in Seq(Nat) /\ W2 = Append(W, w)
    BY DEF Tells
  <1>2. /\ Len(o) \in Nat /\ Len(o2) = Len(o) + 1 /\ o2[Len(o) + 1] = t /\ B2[Len(o) + 2] = b
        /\ (\A p \in 1..Len(o) + 1 : B2[p] = B[p] /\ B[p] \in Seq(Nat))
        /\ (\A p \in 1..Len(o) : o2[p] = o[p])
    BY <1>1, WritesFacts
  <1>3. /\ \A p \in 1..Len(o) + 1 : CPlace(B, o, p)
        /\ \A p \in 1..Len(o) : CFlow(B, h, a, o, p)
    BY <1>1 DEF Writes, Text
  <1>4. W \in Seq(Seq(Nat)) /\ Len(W) = Len(o) + 1 /\ W[1] = <<>>
    BY <1>1 DEF Waits
  <1>5. /\ W2 \in Seq(Seq(Nat)) /\ Len(W2) = Len(W) + 1 /\ W2[Len(W) + 1] = w
        /\ \A p \in 1..Len(W) : W2[p] = W[p]
    BY <1>1, <1>4, AppendProperties
  <1>6. Len(W) + 1 = Len(o) + 2 /\ 1 \in 1..Len(W)
    BY <1>2, <1>4
  <1>7. \A p \in 1..Len(o) + 1 : W2[p] = W[p] /\ W[p] \in Seq(Nat)
    BY <1>4, <1>5, ElementOfSeq
  <1> QED
    BY <1>2, <1>3, <1>4, <1>5, <1>6, <1>7

\* What waits at the old places of the text stays.
LEMMA WaitsGrow ==
    ASSUME NEW B, NEW W, NEW h, NEW a, NEW o, NEW t, NEW b, NEW w, NEW B2, NEW W2, NEW o2,
           Tells(B, W, h, a, o, t, b, w, B2, W2, o2),
           WaitTok(B2, W2, a, o2, Len(o) + 1), WaitPlace(B2, W2, o2, Len(o) + 2)
    PROVE  Waits(B2, W2, a, o2)
  <1>1. /\ Len(o) \in Nat /\ Len(o2) = Len(o) + 1 /\ Len(W2) = Len(o) + 2
        /\ W2 \in Seq(Seq(Nat)) /\ W2[1] = <<>>
    BY TellsFacts
  <1>2. /\ \A p \in 1..Len(o) + 1 :
             B2[p] = B[p] /\ B[p] \in Seq(Nat) /\ W2[p] = W[p] /\ W[p] \in Seq(Nat)
        /\ \A p \in 1..Len(o) : o2[p] = o[p]
    BY TellsFacts
  <1>3. \A p \in 1..Len(o) + 1 : CPlace(B, o, p)
    BY TellsFacts
  <1>4. \A p \in 1..Len(o) : CFlow(B, h, a, o, p)
    BY TellsFacts
  <1>5. /\ \A p \in 1..Len(o) : WaitTok(B, W, a, o, p)
        /\ \A p \in 1..Len(o) + 1 : WaitPlace(B, W, o, p)
    BY DEF Tells, Waits
  <1>6. ASSUME NEW p \in 1..Len(o) + 1 PROVE WaitPlace(B2, W2, o2, p)
    <2>1. WaitPlace(B, W, o, p) /\ W2[p] = W[p] /\ B2[p] = B[p]
      BY <1>2, <1>5
    <2>2. ASSUME NEW i \in 1..Len(W[p])
          PROVE  /\ W[p][i] \in 1..p - 1 /\ o2[W[p][i]].op = "reach"
                 /\ B2[W[p][i]] # <<>> /\ Begins(B2[W[p][i]], B2[p])
      <3>1. /\ W[p][i] \in 1..p - 1 /\ o[W[p][i]].op = "reach"
            /\ B[W[p][i]] # <<>> /\ Begins(B[W[p][i]], B[p])
        BY <2>1 DEF WaitPlace
      <3>2. W[p][i] \in 1..Len(o) /\ W[p][i] \in 1..Len(o) + 1
        <4>1. \A q \in 1..p - 1 : q \in 1..Len(o) /\ q \in 1..Len(o) + 1
          BY <1>1, SMTT(30)
        <4> QED
          BY <3>1, <4>1
      <3> QED
        BY <1>2, <2>1, <3>1, <3>2
    <2> QED
      BY <2>1, <2>2 DEF WaitPlace
  <1>7. ASSUME NEW p \in 1..Len(o) PROVE WaitTok(B2, W2, a, o2, p)
    <2>1. p \in 1..Len(o) + 1 /\ p + 1 \in 1..Len(o) + 1
      BY <1>1
    <2>2. /\ W2[p] = W[p] /\ B2[p] = B[p] /\ W2[p + 1] = W[p + 1] /\ o2[p] = o[p]
          /\ WaitTok(B, W, a, o, p) /\ B[p] \in Seq(Nat) /\ W[p] \in Seq(Nat)
      BY <1>2, <1>5, <2>1
    <2>3. \A i \in 1..Len(B[p]) : B[p][i] \in 1..p - 1
      BY <1>3, <2>1 DEF CPlace, CNest
    <2>4. \A i \in 1..Len(B[p]) : o2[B[p][i]] = o[B[p][i]] /\ W2[B[p][i]] = W[B[p][i]]
      <3>1. \A i \in 1..p - 1 : i \in 1..Len(o) /\ i \in 1..Len(o) + 1
        BY <1>1
      <3> QED
        BY <1>2, <2>3, <3>1
    <2>5. W[p] # <<>> => o2[Tip(W[p])] = o[Tip(W[p])]
      <3> SUFFICES ASSUME W[p] # <<>> PROVE o2[Tip(W[p])] = o[Tip(W[p])]
        OBVIOUS
      <3>1. Len(W[p]) \in 1..Len(W[p])
        BY <2>2
      <3>2. Tip(W[p]) \in 1..p - 1
        BY <1>5, <2>1, <3>1 DEF WaitPlace, Tip
      <3>3. Tip(W[p]) \in 1..Len(o)
        BY <1>1, <3>2
      <3> QED
        BY <1>2, <3>3
    <2>6. B[p] # <<>> => o2[Tip(B[p])] = o[Tip(B[p])] /\ W2[Tip(B[p])] = W[Tip(B[p])]
      <3> SUFFICES ASSUME B[p] # <<>>
                   PROVE  o2[Tip(B[p])] = o[Tip(B[p])] /\ W2[Tip(B[p])] = W[Tip(B[p])]
        OBVIOUS
      <3>1. Len(B[p]) \in 1..Len(B[p])
        BY <2>2
      <3> QED
        BY <2>4, <3>1 DEF Tip
    <2>7. o[p].op = "end" => B[p] # <<>>
      BY <1>4 DEF CFlow
    <2>8. \A i \in 1..Len(B[p]) : NoFor(B2, o2, p, i) => NoFor(B, o, p, i)
      <3> SUFFICES ASSUME NEW i \in 1..Len(B[p]), NoFor(B2, o2, p, i),
                          NEW j \in i + 1..Len(B[p])
                   PROVE  o[B[p][j]].op # "for"
        BY DEF NoFor
      <3>1. j \in 1..Len(B[p])
        BY <2>2
      <3>2. o2[B2[p][j]].op # "for"
        BY <2>2 DEF NoFor
      <3> QED
        BY <2>2, <2>4, <3>1, <3>2
    <2>9. o[p].op \in {"fn", "if", "for", "end"} => W[p + 1] = W[p]
      BY <2>2 DEF WaitTok
    <2>10. o[p].op = "reach" => W[p + 1] = Append(W[p], p)
      BY <2>2 DEF WaitTok
    <2>11. o[p].op = "run" =>
             /\ W[p] # <<>> /\ o[Tip(W[p])].defer = o[p].defer
             /\ W[p + 1] = Prefix(W[p], Len(W[p]) - 1)
      BY <2>2 DEF WaitTok
    <2>12. o[p].op = "end" /\ o[Tip(B[p])].op # "run" => W[Tip(B[p])] = W[p]
      BY <2>2 DEF WaitTok
    <2>13. o[p].op = "return" => W[p] = <<>>
      BY <2>2 DEF WaitTok
    <2>14. o[p].op \in {"break", "continue"} =>
             \A i \in 1..Len(B[p]) :
                o[B[p][i]].op = "for" /\ o[B[p][i]].src = a[o[p].src].loop /\ NoFor(B, o, p, i)
                  => W[B[p][i]] = W[p]
      BY <2>2 DEF WaitTok
    <2>15. o2[p].op \in {"break", "continue"} =>
             \A i \in 1..Len(B2[p]) :
                o2[B2[p][i]].op = "for" /\ o2[B2[p][i]].src = a[o2[p].src].loop /\ NoFor(B2, o2, p, i)
                  => W2[B2[p][i]] = W2[p]
      BY <2>2, <2>4, <2>8, <2>14
    <2>16. o2[p].op = "end" /\ o2[Tip(B2[p])].op # "run" => W2[Tip(B2[p])] = W2[p]
      BY <2>2, <2>6, <2>7, <2>12
    <2>17. o2[p].op = "run" =>
             /\ W2[p] # <<>> /\ o2[Tip(W2[p])].defer = o2[p].defer
             /\ W2[p + 1] = Prefix(W2[p], Len(W2[p]) - 1)
      BY <2>2, <2>5, <2>11
    <2> QED
      BY <2>2, <2>9, <2>10, <2>13, <2>15, <2>16, <2>17 DEF WaitTok
  <1>8. \A p \in 1..Len(o2) : p \in 1..Len(o) \/ p = Len(o) + 1
    <2>1. Len(o) \in Nat /\ Len(o2) = Len(o) + 1
      BY <1>1
    <2>2. \A i \in 1..Len(o2) : i \in 1..Len(o) \/ i = Len(o2)
      BY <2>1, OneMore
    <2> QED
      BY <2>1, <2>2
  <1>9. \A p \in 1..Len(o2) + 1 : p \in 1..Len(o) + 1 \/ p = Len(o) + 2
    BY <1>1
  <1>10. Len(W2) = Len(o2) + 1
    BY <1>1
  <1> QED
    BY <1>1, <1>6, <1>7, <1>8, <1>9, <1>10 DEF Waits

-----------------------------------------------------------------------------
(* The defers that each activation of codegen_block has come by. *)

\* The defers in force at place p of the tree were reached at v, in blocks that
\* are open.
Reached(L, B, o, p, s, v) ==
    /\ Len(v) = Len(L[p])
    /\ \A j \in 1..Len(v) :
         /\ v[j] \in 1..Len(o) /\ o[v[j]].op = "reach" /\ o[v[j]].defer = L[p][j]
         /\ B[v[j]] # <<>> /\ Begins(B[v[j]], s)

\* Of those, the ones that were in force in front of a block waited there.
Last(o, s, k) == \A j \in k + 1..Len(s) : o[s[j]].src # o[s[k]].src
Kept(E, L, W, o, p, s, v) ==
    \A k \in 1..Len(s) :
        o[s[k]].op # "run" /\ In(o[s[k]].src, E[p]) /\ Last(o, s, k)
          => W[s[k]] = Prefix(v, Len(L[o[s[k]].src]))

\* At a way out, the newest have been generated and `left` remain; the defer
\* that codegen_defers is at is the newest of them, or the end of its stretch.
LeftOK(L, a, r, y) ==
    /\ y.left <= Len(y.reached)
    /\ a[r.pc].op \notin Exits => y.left = Len(y.reached)
    /\ a[r.pc].op \in Exits =>
         /\ Len(y.reached) <= y.left + Len(a[r.pc].due)
         /\ r.current = IF Len(y.reached) < y.left + Len(a[r.pc].due)
                          THEN L[r.pc][y.left] ELSE a[r.pc].end

\* For each activation: the defers it has reached, and how many it has yet to run.
WaitType == [reached : Seq(Nat), left : Nat]
Waited(E, L, B, W, a, o, r, x, y) ==
    /\ Reached(L, B, o, r.pc, x.blocks, y.reached)
    /\ Kept(E, L, W, o, r.pc, x.blocks, y.reached)
    /\ LeftOK(L, a, r, y)

\* A body was called for when the defers older than its own were left.
Linked(L, a, r, y, x2, y2) ==
    /\ a[r.pc].op \in Exits
    /\ y.left = Len(L[x2.lo]) /\ y.left <= Len(y2.reached)
    /\ \A j \in 1..y.left : y2.reached[j] = y.reached[j]

\* All activations, each of which was called for by the one before it.
Waiting(E, L, B, W, a, o, A, X, Y) ==
    /\ Y \in Seq(WaitType) /\ Len(Y) = Len(A)
    /\ \A i \in 1..Len(A) : Waited(E, L, B, W, a, o, A[i], X[i], Y[i])
    /\ \A i \in 1..Len(A) - 1 : Linked(L, a, A[i], Y[i], X[i + 1], Y[i + 1])

\* More text leaves what an activation has come by.
LEMMA WaitedStays ==
    ASSUME NEW E, NEW L, NEW a, NEW r, NEW x \in StandType, NEW y \in WaitType,
           NEW o, NEW o2, Len(o) \in Nat, Len(o2) \in Nat, Len(o2) >= Len(o),
           NEW B, NEW B2, NEW W, NEW W2,
           \A q \in 1..Len(o) : o2[q] = o[q] /\ B2[q] = B[q] /\ W2[q] = W[q],
           BlocksOK(o, x.blocks), Waited(E, L, B, W, a, o, r, x, y)
    PROVE  Waited(E, L, B2, W2, a, o2, r, x, y)
  <1> DEFINE s == x.blocks
             v == y.reached
  <1>1. s \in Seq(Nat) /\ v \in Seq(Nat) /\ Len(s) \in Nat /\ Len(v) \in Nat
    BY DEF StandType, WaitType
  <1>2. Reached(L, B, o, r.pc, s, v) /\ Kept(E, L, W, o, r.pc, s, v) /\ LeftOK(L, a, r, y)
    BY DEF Waited
  <1>3. \A k \in 1..Len(s) : s[k] \in 1..Len(o)
    BY DEF BlocksOK
  <1> HIDE DEF s, v
  <1>4. \A k \in 1..Len(s) : o2[s[k]] = o[s[k]] /\ W2[s[k]] = W[s[k]]
    BY <1>3
  <1>5. \A k \in 1..Len(s) : Last(o2, s, k) => Last(o, s, k)
    <2> SUFFICES ASSUME NEW k \in 1..Len(s), Last(o2, s, k), NEW j \in k + 1..Len(s)
                 PROVE  o[s[j]].src # o[s[k]].src
      BY DEF Last
    <2>1. j \in 1..Len(s)
      BY <1>1
    <2>2. o2[s[j]].src # o2[s[k]].src
      BY DEF Last
    <2> QED
      BY <1>4, <2>1, <2>2
  <1>6. Kept(E, L, W2, o2, r.pc, s, v)
    BY <1>2, <1>4, <1>5 DEF Kept
  <1>7. Reached(L, B2, o2, r.pc, s, v)
    <2> SUFFICES ASSUME NEW j \in 1..Len(v)
                 PROVE  /\ v[j] \in 1..Len(o2) /\ o2[v[j]].op = "reach"
                        /\ o2[v[j]].defer = L[r.pc][j]
                        /\ B2[v[j]] # <<>> /\ Begins(B2[v[j]], s)
      BY <1>2 DEF Reached
    <2>1. /\ v[j] \in 1..Len(o) /\ o[v[j]].op = "reach" /\ o[v[j]].defer = L[r.pc][j]
          /\ B[v[j]] # <<>> /\ Begins(B[v[j]], s)
      BY <1>2 DEF Reached
    <2>2. o2[v[j]] = o[v[j]] /\ B2[v[j]] = B[v[j]]
      BY <2>1
    <2>3. v[j] \in 1..Len(o2)
      BY <2>1
    <2> QED
      BY <2>1, <2>2, <2>3
  <1> QED
    BY <1>2, <1>6, <1>7 DEF Waited, s, v

\* So for all of them.
LEMMA WaitingStays ==
    ASSUME NEW E, NEW L, NEW a, NEW o, NEW o2, Len(o) \in Nat, Len(o2) \in Nat, Len(o2) >= Len(o),
           NEW B, NEW B2, NEW W, NEW W2,
           \A q \in 1..Len(o) : o2[q] = o[q] /\ B2[q] = B[q] /\ W2[q] = W[q],
           NEW A, NEW X, NEW Y, Standing(E, L, a, o, A, X), Waiting(E, L, B, W, a, o, A, X, Y)
    PROVE  Waiting(E, L, B2, W2, a, o2, A, X, Y)
  <1>1. X \in Seq(StandType) /\ Len(X) = Len(A)
    BY DEF Standing
  <1>2. Y \in Seq(WaitType) /\ Len(Y) = Len(A)
    BY DEF Waiting
  <1>3. ASSUME NEW i \in 1..Len(A) PROVE Waited(E, L, B2, W2, a, o2, A[i], X[i], Y[i])
    <2>1. X[i] \in StandType /\ Y[i] \in WaitType
      BY <1>1, <1>2, ElementOfSeq
    <2>2. BlocksOK(o, X[i].blocks)
      BY DEF Standing, Stands, Spot
    <2>3. Waited(E, L, B, W, a, o, A[i], X[i], Y[i])
      BY DEF Waiting
    <2> QED
      BY <2>1, <2>2, <2>3, WaitedStays
  <1> QED
    BY <1>2, <1>3 DEF Waiting

\* The innermost activations change: the m outer ones stay as they are.
LEMMA WaitingEdit ==
    ASSUME NEW E, NEW L, NEW B, NEW W, NEW a, NEW o, NEW A, NEW X, NEW Y,
           Waiting(E, L, B, W, a, o, A, X, Y), Len(A) \in Nat, NEW m \in 0..Len(A),
           NEW A2, NEW X2, NEW Y2 \in Seq(WaitType), Len(Y2) = Len(A2), m <= Len(A2),
           \A i \in 1..m : A2[i] = A[i] /\ X2[i] = X[i] /\ Y2[i] = Y[i],
           \A i \in m + 1..Len(A2) : Waited(E, L, B, W, a, o, A2[i], X2[i], Y2[i]),
           \A i \in 1..Len(A2) - 1 :
             i >= m => Linked(L, a, A2[i], Y2[i], X2[i + 1], Y2[i + 1])
    PROVE  Waiting(E, L, B, W, a, o, A2, X2, Y2)
  <1>0. Len(A2) \in Nat
    BY LenProperties
  <1>1. ASSUME NEW i \in 1..Len(A2) PROVE Waited(E, L, B, W, a, o, A2[i], X2[i], Y2[i])
    <2>1. CASE i \in 1..m
      <3>1. i \in 1..Len(A)
        BY <2>1
      <3> QED
        BY <2>1, <3>1 DEF Waiting
    <2>2. CASE i \in m + 1..Len(A2)
      BY <2>2
    <2>3. i \in 1..m \/ i \in m + 1..Len(A2)
      BY <1>0
    <2> QED
      BY <2>1, <2>2, <2>3
  <1>2. ASSUME NEW i \in 1..Len(A2) - 1
        PROVE  Linked(L, a, A2[i], Y2[i], X2[i + 1], Y2[i + 1])
    <2>1. CASE i >= m
      BY <2>1
    <2>2. CASE ~(i >= m)
      <3>1. i \in 1..m /\ i + 1 \in 1..m /\ i \in 1..Len(A) - 1
        BY <1>0, <2>2
      <3> QED
        BY <3>1 DEF Waiting
    <2> QED
      BY <2>1, <2>2
  <1> QED
    BY <1>1, <1>2 DEF Waiting

\* The text o and the activations A that write it, with the defers that wait:
\* behind the text, those that the innermost activation has not generated.
Awaited(E, L, B, W, a, o, A, X, Y) ==
    /\ Waits(B, W, a, o) /\ Waiting(E, L, B, W, a, o, A, X, Y)
    /\ W[Len(o) + 1] = IF Len(Y) = 0 THEN <<>> ELSE Prefix(Tip(Y).reached, Tip(Y).left)

\* What waits behind the new token.
LEMMA TellsNew ==
    ASSUME NEW B, NEW W, NEW h, NEW a, NEW o, NEW t, NEW b, NEW w, NEW B2, NEW W2, NEW o2,
           Tells(B, W, h, a, o, t, b, w, B2, W2, o2)
    PROVE  W2[Len(o) + 2] = w /\ B2[Len(o) + 2] = b
  BY TellsFacts

\* A token more, and what the activations have come by then.
LEMMA AwaitedGrows ==
    ASSUME NEW E, NEW L, NEW B, NEW W, NEW h, NEW a, NEW o, NEW t, NEW b, NEW B2, NEW W2, NEW o2,
           NEW w, Tells(B, W, h, a, o, t, b, w, B2, W2, o2),
           NEW A2, NEW X2, NEW Y2, Waiting(E, L, B2, W2, a, o2, A2, X2, Y2), Len(A2) \in Nat,
           WaitTok(B2, W2, a, o2, Len(o) + 1),
           Len(A2) > 0 => b = X2[Len(A2)].blocks,
           w = IF Len(Y2) = 0 THEN <<>> ELSE Prefix(Tip(Y2).reached, Tip(Y2).left)
    PROVE  Awaited(E, L, B2, W2, a, o2, A2, X2, Y2)
  <1> DEFINE n == Len(A2)
             y == Tip(Y2)
             v == y.reached
             m == y.left
  <1>3. Y2 \in Seq(WaitType) /\ Len(Y2) = n
    BY DEF Waiting
  <1>7. n = 0 => w = <<>>
    BY <1>3
  <1>8. ASSUME n > 0
        PROVE  /\ n \in 1..n /\ y = Y2[n] /\ y \in WaitType /\ Waited(E, L, B2, W2, a, o2, A2[n], X2[n], y)
               /\ w = Prefix(y.reached, y.left) /\ b = X2[n].blocks
    <2>1. n \in 1..n /\ y = Y2[n] /\ y \in WaitType
      BY <1>3, <1>8 DEF Tip
    <2>2. Waited(E, L, B2, W2, a, o2, A2[n], X2[n], y)
      BY <2>1 DEF Waiting
    <2> QED
      BY <1>3, <1>8, <2>1, <2>2
  <1>9. Len(A2) \in Nat
    OBVIOUS
  <1> HIDE DEF n, y, v, m
  <1>2. Len(o) \in Nat /\ Len(o2) = Len(o) + 1
    BY TellsFacts
  <1>10. W2[Len(o) + 2] = w
    BY TellsNew
  <1>11. B2[Len(o) + 2] = b
    BY TellsNew
  <1>4. WaitPlace(B2, W2, o2, Len(o) + 2)
    <2>1. CASE n = 0
      <3>1. w = <<>>
        BY <1>7, <2>1
      <3>2. W2[Len(o) + 2] = <<>>
        BY <1>10, <3>1
      <3> HIDE DEF n
      <3>3. \A i \in 1..Len(W2[Len(o) + 2]) : FALSE
        <4>1. Len(<<>>) = 0
          OBVIOUS
        <4>2. Len(W2[Len(o) + 2]) = 0
          BY <3>2, <4>1
        <4> QED
          BY <4>2
      <3> QED
        BY <3>3 DEF WaitPlace
    <2>2. CASE n > 0
      <3>2. /\ n \in 1..n /\ y = Y2[n] /\ y \in WaitType /\ Waited(E, L, B2, W2, a, o2, A2[n], X2[n], y)
            /\ w = Prefix(v, m) /\ b = X2[n].blocks
        BY <1>8, <2>2 DEF v, m
      <3>4. v \in Seq(Nat) /\ m \in 0..Len(v)
        <4>1. v \in Seq(Nat) /\ m \in Nat /\ m <= Len(v)
          BY <3>2 DEF WaitType, Waited, LeftOK, v, m
        <4> QED
          BY <4>1
      <3>5. \A j \in 1..Len(v) :
                /\ v[j] \in 1..Len(o2) /\ o2[v[j]].op = "reach"
                /\ B2[v[j]] # <<>> /\ Begins(B2[v[j]], b)
        BY <3>2 DEF Waited, Reached, v
      <3>6. Len(w) = m /\ \A i \in 1..m : w[i] = v[i] /\ i \in 1..Len(v)
        <4>1. Len(w) = m /\ \A i \in 1..m : w[i] = v[i]
          BY <3>2, <3>4, BeginsPrefix
        <4>2. \A i \in 1..m : i \in 1..Len(v)
          BY <3>4
        <4> QED
          BY <4>1, <4>2
      <3>7. ASSUME NEW i \in 1..Len(w)
            PROVE  /\ w[i] \in 1..Len(o) + 2 - 1 /\ o2[w[i]].op = "reach"
                   /\ B2[w[i]] # <<>> /\ Begins(B2[w[i]], b)
        <4>1. w[i] = v[i] /\ i \in 1..Len(v)
          BY <3>6
        <4>2. /\ w[i] \in 1..Len(o2) /\ o2[w[i]].op = "reach"
              /\ B2[w[i]] # <<>> /\ Begins(B2[w[i]], b)
          BY <3>5, <4>1
        <4>3. \A k \in 1..Len(o2) : k \in 1..Len(o) + 2 - 1
          BY <1>2
        <4> QED
          BY <4>2, <4>3
      <3> DEFINE q == Len(o) + 2
      <3>8. W2[q] = w /\ B2[q] = b
        BY <1>10, <1>11
      <3>9. \A i \in 1..Len(w) : w[i] \in 1..q - 1 /\ o2[w[i]].op = "reach"
                   /\ B2[w[i]] # <<>> /\ Begins(B2[w[i]], b)
        BY <3>7
      <3> HIDE DEF q
      <3>10. WaitPlace(B2, W2, o2, q)
        BY <3>8, <3>9 DEF WaitPlace
      <3> QED
        BY <3>10 DEF q
    <2>3. n = 0 \/ n > 0
      BY <1>9 DEF n
    <2> QED
      BY <2>1, <2>2, <2>3
  <1>5. Waits(B2, W2, a, o2)
    BY <1>4, WaitsGrow
  <1>6. W2[Len(o2) + 1] = w
    <2>1. Len(o2) + 1 = Len(o) + 2
      BY <1>2
    <2> QED
      BY <1>10, <2>1
  <1> QED
    BY <1>5, <1>6 DEF Awaited

\* What is around the body of an activation, and the defers in force there.
LEMMA BodyForce ==
    ASSUME NEW E, NEW L, NEW h, NEW a, Complete(E, L, h, a), NEW p, NEW hi, NEW lo,
           Region(E, a, p, hi, lo)
    PROVE  /\ L[p] \in Seq(Nat) /\ Len(L[p]) \in Nat /\ L[lo] \in Seq(Nat) /\ Len(L[lo]) \in Nat
           /\ Begins(L[lo], L[p]) /\ Len(L[lo]) <= Len(L[p])
  <1>1. /\ p \in 1..Len(a) + 1 /\ lo \in 1..Len(a)
        /\ E[p] \in Seq(Nat) /\ Len(E[p]) \in Nat /\ Len(E[lo]) \in Nat
        /\ Len(E[lo]) < Len(E[p]) /\ E[p][Len(E[lo]) + 1] = lo
    BY RegionFacts
  <1>2. lo \in 1..Len(a) + 1
    BY <1>1, TreeFacts
  <1>3. Around(E, L, a, p) /\ L[p] \in Seq(Nat) /\ Len(L[p]) \in Nat
    BY <1>1, TreeFacts
  <1>4. L[lo] \in Seq(Nat) /\ Len(L[lo]) \in Nat
    BY <1>2, TreeFacts
  <1>5. Len(E[lo]) + 1 \in 1..Len(E[p])
    BY <1>1
  <1>6. Begins(L[lo], L[p])
    BY <1>1, <1>3, <1>5 DEF Around
  <1> QED
    BY <1>3, <1>4, <1>6 DEF Begins

\* At a way out, what is due are the defers above some number of them.
DueFrom(E, L, a, p) ==
    CASE a[p].op = "end" -> Len(L[Tip(E[p])])
      [] a[p].op \in {"break", "continue"} -> Len(L[a[p].loop])
      [] a[p].op = "return" -> 0

\* They are all the defers above it, and no fewer.
LEMMA DueFacts ==
    ASSUME NEW E, NEW L, NEW h, NEW a, Complete(E, L, h, a), NEW p \in 1..Len(a),
           a[p].op \in Exits, NEW m, m = DueFrom(E, L, a, p)
    PROVE  /\ m \in 0..Len(L[p]) /\ L[p] \in Seq(Nat) /\ Len(L[p]) \in Nat
           /\ Len(a[p].due) = Len(L[p]) - m
           /\ \A i \in 1..Len(a[p].due) : a[p].due[i] = L[p][m + i] /\ m + i \in 1..Len(L[p])
  <1>1. p \in 1..Len(a) + 1 /\ Len(a) \in Nat
    BY TreeFacts
  <1>2. /\ E[p] \in Seq(Nat) /\ L[p] \in Seq(Nat) /\ Len(L[p]) \in Nat /\ Len(E[p]) \in Nat
        /\ Around(E, L, a, p) /\ DueOK(E, L, a, p)
    BY <1>1, TreeFacts
  <1>3. m \in 0..Len(L[p]) /\ a[p].due = Above(L[p], m)
    <2>1. CASE a[p].op = "end"
      <3>1. E[p] # <<>> /\ Begins(L[Tip(E[p])], L[p]) /\ Tip(E[p]) \in 1..p - 1
        BY <2>1, TreeFlows
      <3>2. Tip(E[p]) \in 1..Len(a) + 1
        BY <1>1, <3>1
      <3>3. Len(L[Tip(E[p])]) \in Nat
        BY <3>2, TreeFacts
      <3>4. m = Len(L[Tip(E[p])])
        BY <2>1 DEF DueFrom
      <3>5. a[p].due = Above(L[p], Len(L[Tip(E[p])]))
        BY <1>2, <2>1 DEF DueOK
      <3> QED
        BY <1>2, <3>1, <3>3, <3>4, <3>5 DEF Begins
    <2>2. CASE a[p].op \in {"break", "continue"}
      <3>1. In(a[p].loop, E[p]) /\ a[p].due = Above(L[p], Len(L[a[p].loop]))
        BY <1>2, <2>2 DEF DueOK
      <3>2. PICK j \in 1..Len(E[p]) : E[p][j] = a[p].loop
        BY <3>1 DEF In
      <3>3. a[p].loop \in 1..p - 1 /\ Begins(L[a[p].loop], L[p])
        BY <1>2, <3>2 DEF Around
      <3>4. a[p].loop \in 1..Len(a) + 1
        BY <1>1, <3>3
      <3>5. Len(L[a[p].loop]) \in Nat
        BY <3>4, TreeFacts
      <3>6. m = Len(L[a[p].loop])
        BY <2>2 DEF DueFrom
      <3> QED
        BY <1>2, <3>1, <3>3, <3>5, <3>6 DEF Begins
    <2>3. CASE a[p].op = "return"
      <3>1. m = 0
        BY <2>3 DEF DueFrom
      <3>2. a[p].due = L[p]
        BY <1>2, <2>3 DEF DueOK
      <3>3. Above(L[p], 0) = L[p]
        BY <1>2 DEF Above
      <3> QED
        BY <1>2, <3>1, <3>2, <3>3
    <2> QED
      BY <2>1, <2>2, <2>3 DEF Exits
  <1> DEFINE s == L[p]
             u == a[p].due
             k == Len(s)
  <1>4. s \in Seq(Nat) /\ k \in Nat /\ m \in 0..k /\ u = Above(s, m)
    BY <1>2, <1>3
  <1> HIDE DEF s, u
  <1>5. Len(u) = k - m /\ \A i \in 1..k - m : u[i] = s[m + i]
    BY <1>4, AboveFacts
  <1> HIDE DEF k
  <1>6. \A i \in 1..k - m : m + i \in 1..k
    BY <1>4
  <1> QED
    BY <1>2, <1>3, <1>5, <1>6 DEF s, u, k

\* Where an activation lands, nothing has been generated yet.
LEMMA LandingLeft ==
    ASSUME NEW E, NEW L, Complete(E, L, heap, ast), ExitsUnwind, ~dropped,
           NEW q, NEW hi, NEW lo, Region(E, ast, q, hi, lo),
           NEW y \in WaitType, Len(y.reached) = Len(L[q]), y.left = Len(L[q])
    PROVE  LeftOK(L, ast, Activation(q, hi), y)
  <1> DEFINE r == Activation(q, hi)
             m == DueFrom(E, L, ast, q)
             u == ast[q].due
  <1>1. q \in 1..Len(ast) /\ q \in 1..hi /\ q <= hi
    BY RegionFacts DEF Region
  <1>2. L[q] \in Seq(Nat) /\ Len(L[q]) \in Nat
    BY BodyForce
  <1>3. r.pc = q
    BY DEF Activation
  <1>4. CASE ast[q].op \notin Exits
    <2> HIDE DEF r, u
    <2>1. y.left = Len(y.reached) /\ y.left <= Len(y.reached)
      BY <1>2
    <2> QED
      BY <1>3, <1>4, <2>1 DEF LeftOK, r
  <1>5. CASE ast[q].op \in Exits
    <2>1. r.current = ast[q].begin
      BY <1>1, <1>5 DEF Activation
    <2>2. ast[q].begin = IF u = <<>> THEN ast[q].end ELSE u[Len(u)]
      BY <1>1, <1>5 DEF ExitsUnwind, Unwinds
    <2>3. /\ m \in 0..Len(L[q]) /\ Len(u) = Len(L[q]) - m
          /\ \A i \in 1..Len(u) : u[i] = L[q][m + i] /\ m + i \in 1..Len(L[q])
      <3>1. q \in 1..Len(ast) /\ ast[q].op \in Exits /\ m = DueFrom(E, L, ast, q)
        BY <1>1, <1>5
      <3> HIDE DEF m
      <3>2. m \in 0..Len(L[q]) /\ Len(ast[q].due) = Len(L[q]) - m
        BY <3>1, DueFacts
      <3>3. \A i \in 1..Len(ast[q].due) :
               ast[q].due[i] = L[q][m + i] /\ m + i \in 1..Len(L[q])
        BY <3>1, DueFacts, SMTT(30)
      <3> QED
        BY <3>2, <3>3
    <2>4. u \in Seq(Nat)
      <3>1. ast[q] \in TokenType
        BY <1>1, TreeFacts
      <3> QED
        BY <3>1 DEF TokenType
    <2> HIDE DEF u, m, r
    <2>5. Len(u) \in Nat /\ (u = <<>> <=> Len(u) = 0)
      BY <2>4
    <2>6. r.current = IF Len(L[q]) < Len(L[q]) + Len(u) THEN L[q][Len(L[q])] ELSE ast[q].end
      <3>1. CASE Len(u) = 0
        BY <1>2, <2>1, <2>2, <2>5, <3>1
      <3>2. CASE Len(u) > 0
        <4>1. Len(u) \in 1..Len(u) /\ m + Len(u) = Len(L[q])
          BY <1>2, <2>3, <2>5, <3>2
        <4>2. u[Len(u)] = L[q][Len(L[q])]
          BY <2>3, <4>1
        <4>3. Len(L[q]) < Len(L[q]) + Len(u)
          BY <1>2, <3>2, <2>5
        <4>4. r.current = u[Len(u)]
          BY <2>1, <2>2, <2>5, <3>2
        <4> QED
          BY <4>2, <4>3, <4>4
      <3> QED
        BY <2>5, <3>1, <3>2
    <2>7. y.left = Len(y.reached) /\ y.left <= Len(y.reached) /\ Len(y.reached) <= y.left + Len(u)
      BY <1>2, <2>5
    <2>8. r.current = IF Len(y.reached) < y.left + Len(u) THEN L[q][y.left] ELSE ast[q].end
      BY <2>6
    <2>9. u = ast[r.pc].due /\ r.pc = q
      BY <1>3 DEF u
    <2>10. LeftOK(L, ast, r, y)
      BY <1>5, <2>7, <2>8, <2>9 DEF LeftOK
    <2> QED
      BY <2>10 DEF r
  <1> QED
    BY <1>4, <1>5

-----------------------------------------------------------------------------
(* What the innermost activation has come by, from place to place. *)

\* What waits, and in which blocks, in front of the next token.
LEMMA AwaitedFacts ==
    ASSUME IInv, GenInv, phase = "codegen", NEW E, NEW L, NEW B, NEW X, NEW W, NEW Y,
           Written(E, L, heap, ast, out, acts, opens, B, X),
           Awaited(E, L, B, W, ast, out, acts, X, Y)
    PROVE  /\ Y \in Seq(WaitType) /\ Len(Y) = Len(acts) /\ Len(acts) > 0
           /\ Tip(Y) = Y[Len(acts)] /\ Tip(Y) \in WaitType
           /\ Tip(Y).reached \in Seq(Nat) /\ Tip(Y).left \in Nat
           /\ Len(Tip(Y).reached) \in Nat /\ Tip(Y).left <= Len(Tip(Y).reached)
           /\ Len(Tip(Y).reached) = Len(L[Act.pc])
           /\ Waited(E, L, B, W, ast, out, Act, Tip(X), Tip(Y))
           /\ W[Len(out) + 1] = Prefix(Tip(Y).reached, Tip(Y).left)
           /\ Waits(B, W, ast, out)
  <1> DEFINE n == Len(acts)
             y == Tip(Y)
  <1>1. acts \in Seq(ActType) /\ n \in Nat /\ n > 0 /\ Act = Tip(acts) /\ Act = acts[n]
    BY GenFacts
  <1>2. Y \in Seq(WaitType) /\ Len(Y) = n
    BY DEF Awaited, Waiting
  <1>3. Tip(X) = X[n]
    BY <1>1, WrittenFacts
  <1>4. W[Len(out) + 1] = Prefix(y.reached, y.left) /\ Waits(B, W, ast, out)
    BY <1>1, <1>2 DEF Awaited
  <1> HIDE DEF n
  <1>5. n \in 1..n /\ y = Y[n] /\ y \in WaitType
    BY <1>1, <1>2 DEF Tip
  <1>6. Waited(E, L, B, W, ast, out, Act, Tip(X), y)
    BY <1>1, <1>3, <1>5 DEF Awaited, Waiting, n
  <1>7. y.reached \in Seq(Nat) /\ y.left \in Nat
    BY <1>5 DEF WaitType
  <1>8. y.left <= Len(y.reached) /\ Len(y.reached) = Len(L[Act.pc])
    BY <1>6 DEF Waited, LeftOK, Reached
  <1>9. Len(y.reached) \in Nat
    BY <1>7
  <1> QED
    BY <1>1, <1>2, <1>4, <1>5, <1>6, <1>7, <1>8, <1>9 DEF n

\* It stays so behind the next token.
LEMMA AwaitedOver ==
    ASSUME IInv, GenInv, phase = "codegen", NEW E, NEW L, NEW B, NEW X, NEW W, NEW Y,
           Written(E, L, heap, ast, out, acts, opens, B, X),
           Awaited(E, L, B, W, ast, out, acts, X, Y), NEW t, NEW w, NEW B2, NEW W2,
           Tells(B, W, heap, ast, out, t, opens', w, B2, W2, out')
    PROVE  /\ Waiting(E, L, B2, W2, ast, out', acts, X, Y)
           /\ Waited(E, L, B2, W2, ast, out', Act, Tip(X), Tip(Y))
           /\ W2[Len(out) + 1] = Prefix(Tip(Y).reached, Tip(Y).left)
           /\ B2[Len(out) + 1] = opens
  <1> DEFINE z == Len(out) + 1
  <1>1. Len(out) \in Nat /\ Len(out') = Len(out) + 1
    BY TellsFacts
  <1>2. \A p \in 1..Len(out) + 1 : B2[p] = B[p] /\ W2[p] = W[p]
    BY TellsFacts
  <1>3. \A p \in 1..Len(out) : out'[p] = out[p]
    BY TellsFacts
  <1>4. z \in 1..Len(out) + 1 /\ \A q \in 1..Len(out) : q \in 1..Len(out) + 1
    BY <1>1
  <1>5. B2[z] = opens /\ W2[z] = W[z]
    BY <1>2, <1>4 DEF Written
  <1>6. Standing(E, L, ast, out, acts, X) /\ Waiting(E, L, B, W, ast, out, acts, X, Y)
    BY DEF Written, Awaited
  <1>7. \A q \in 1..Len(out) : out'[q] = out[q] /\ B2[q] = B[q] /\ W2[q] = W[q]
    BY <1>2, <1>3, <1>4
  <1>8. Len(out') \in Nat /\ Len(out') >= Len(out)
    BY <1>1
  <1>9. Waiting(E, L, B2, W2, ast, out', acts, X, Y)
    BY <1>1, <1>6, <1>7, <1>8, WaitingStays
  <1>10. /\ Tip(Y) = Y[Len(acts)] /\ Len(acts) > 0
         /\ W[Len(out) + 1] = Prefix(Tip(Y).reached, Tip(Y).left)
    BY AwaitedFacts
  <1>11. acts \in Seq(ActType) /\ Act = acts[Len(acts)] /\ Len(acts) \in Nat
    BY GenFacts
  <1>12. Tip(X) = X[Len(acts)]
    BY <1>10, <1>11, WrittenFacts
  <1>13. Len(acts) \in 1..Len(acts)
    BY <1>10, <1>11
  <1>14. Waited(E, L, B2, W2, ast, out', Act, Tip(X), Tip(Y))
    BY <1>9, <1>10, <1>11, <1>12, <1>13 DEF Waiting
  <1> QED
    BY <1>5, <1>9, <1>10, <1>14 DEF z

\* The innermost activation, in other blocks.
LEMMA OntoFacts ==
    ASSUME NEW X \in Seq(StandType), Len(X) > 0, NEW s \in Seq(Nat)
    PROVE  /\ Onto(X, s) \in Seq(StandType) /\ Len(Onto(X, s)) = Len(X)
           /\ Onto(X, s)[Len(X)] \in StandType
           /\ Onto(X, s)[Len(X)].blocks = s
           /\ Onto(X, s)[Len(X)].lo = Tip(X).lo /\ Onto(X, s)[Len(X)].under = Tip(X).under
           /\ \A i \in 1..Len(X) - 1 : Onto(X, s)[i] = X[i]
  <1> DEFINE y == [Tip(X) EXCEPT !.blocks = s]
  <1>1. Len(X) \in 1..Len(X)
    OBVIOUS
  <1>2. Tip(X) \in StandType
    BY <1>1 DEF Tip
  <1>3. y \in StandType /\ y.blocks = s /\ y.lo = Tip(X).lo /\ y.under = Tip(X).under
    BY <1>2 DEF StandType
  <1>4. Onto(X, s) = [X EXCEPT ![Len(X)] = y]
    BY DEF Onto
  <1> HIDE DEF y
  <1> QED
    BY <1>3, <1>4, TopReplaced

\* Another innermost activation in the place of the old one.
LEMMA WaitingTop ==
    ASSUME NEW E, NEW L, NEW B, NEW W, NEW a, NEW o, NEW A, NEW X, NEW Y,
           Waiting(E, L, B, W, a, o, A, X, Y), NEW n \in Nat, n > 0, Len(A) = n,
           NEW A2, NEW X2, NEW Y2 \in Seq(WaitType), Len(A2) = n, Len(Y2) = n,
           \A i \in 1..n - 1 : A2[i] = A[i] /\ X2[i] = X[i] /\ Y2[i] = Y[i],
           Waited(E, L, B, W, a, o, A2[n], X2[n], Y2[n]),
           \A i \in 1..n - 1 : i = n - 1 => Linked(L, a, A2[i], Y2[i], X2[i + 1], Y2[i + 1])
    PROVE  Waiting(E, L, B, W, a, o, A2, X2, Y2)
  <1>1. ASSUME NEW i \in 1..n PROVE Waited(E, L, B, W, a, o, A2[i], X2[i], Y2[i])
    <2>1. CASE i = n
      BY <2>1
    <2>2. CASE i # n
      <3>1. i \in 1..n - 1
        BY <2>2
      <3> QED
        BY <3>1 DEF Waiting
    <2> QED
      BY <2>1, <2>2
  <1>2. ASSUME NEW i \in 1..n - 1
        PROVE  Linked(L, a, A2[i], Y2[i], X2[i + 1], Y2[i + 1])
    <2>1. CASE i = n - 1
      BY <2>1
    <2>2. CASE i # n - 1
      <3>1. i + 1 \in 1..n - 1
        BY <2>2
      <3>2. A2[i] = A[i] /\ Y2[i] = Y[i] /\ X2[i + 1] = X[i + 1] /\ Y2[i + 1] = Y[i + 1]
        BY <3>1
      <3>3. Linked(L, a, A[i], Y[i], X[i + 1], Y[i + 1])
        BY DEF Waiting
      <3> QED
        BY <3>2, <3>3
    <2> QED
      BY <2>1, <2>2
  <1> QED
    BY <1>1, <1>2 DEF Waiting

\* The innermost activation goes on at p, having come by y2.
LEMMA GenWaitsOn ==
    ASSUME IInv, GenInv, phase = "codegen", NEW E, NEW L, NEW B, NEW X, NEW W, NEW Y,
           Written(E, L, heap, ast, out, acts, opens, B, X),
           Awaited(E, L, B, W, ast, out, acts, X, Y), NEW t, NEW w, NEW B2, NEW W2,
           Tells(B, W, heap, ast, out, t, opens', w, B2, W2, out'),
           WaitTok(B2, W2, ast, out', Len(out) + 1), opens' \in Seq(Nat),
           NEW p, acts' = Advance(p), NEW x2, x2 = Onto(X, opens')[Len(X)],
           NEW y2 \in WaitType, w = Prefix(y2.reached, y2.left),
           Waited(E, L, B2, W2, ast, out', Activation(p, Act.hi), x2, y2),
           Len(L[Tip(X).lo]) <= Len(y2.reached), Len(L[Tip(X).lo]) \in Nat,
           \A j \in 1..Len(L[Tip(X).lo]) : y2.reached[j] = Tip(Y).reached[j]
    PROVE  \E Y2 : Awaited(E, L, B2, W2, ast, out', acts', Onto(X, opens'), Y2)
  <1> DEFINE n == Len(acts)
             x == Tip(X)
             y == Tip(Y)
             X2 == Onto(X, opens')
             Y2 == [Y EXCEPT ![Len(Y)] = y2]
             r == Activation(p, Act.hi)
  <1>1. acts \in Seq(ActType) /\ n \in Nat /\ n > 0 /\ Act = acts[n] /\ n \in 1..n
    BY GenFacts
  <1>2. X \in Seq(StandType) /\ Len(X) = n /\ x = X[n]
    BY <1>1, WrittenFacts
  <1>3. Y \in Seq(WaitType) /\ Len(Y) = n /\ y = Y[n]
    BY AwaitedFacts
  <1>4. Waiting(E, L, B2, W2, ast, out', acts, X, Y)
    BY AwaitedOver
  <1>5. /\ Len(X2) = n /\ X2[n] = x2 /\ x2.blocks = opens' /\ x2.lo = x.lo
        /\ \A i \in 1..n - 1 : X2[i] = X[i]
    BY <1>1, <1>2, OntoFacts
  <1>6. acts' = [acts EXCEPT ![n] = r]
    BY DEF Advance
  <1>7. Len(acts') = n /\ acts'[n] = r /\ \A i \in 1..n - 1 : acts'[i] = acts[i]
    BY <1>1, <1>6, AdvanceFacts
  <1>8. /\ Y2 \in Seq(WaitType) /\ Len(Y2) = n /\ Y2[n] = y2
        /\ \A i \in 1..n - 1 : Y2[i] = Y[i]
    BY <1>1, <1>3, TopReplaced
  <1> HIDE DEF n, X2, Y2, x, y, r
  <1>10. ASSUME NEW i \in 1..n - 1, i >= n - 1
         PROVE  Linked(L, ast, acts'[i], Y2[i], X2[i + 1], Y2[i + 1])
    <2>1. i = n - 1 /\ i + 1 = n
      BY <1>1, <1>10
    <2>2. acts'[i] = acts[i] /\ Y2[i] = Y[i] /\ X2[i + 1] = x2 /\ Y2[i + 1] = y2
      BY <1>5, <1>7, <1>8, <2>1
    <2>3. Linked(L, ast, acts[i], Y[i], X[i + 1], Y[i + 1])
      <3>1. i \in 1..Len(acts) - 1
        BY DEF n
      <3> QED
        BY <1>4, <3>1 DEF Waiting
    <2>4. /\ ast[acts[i].pc].op \in Exits /\ Y[i].left = Len(L[x.lo])
          /\ \A j \in 1..Y[i].left : y.reached[j] = Y[i].reached[j]
      BY <1>2, <1>3, <2>1, <2>3 DEF Linked
    <2>5. \A j \in 1..Y[i].left : y2.reached[j] = Y[i].reached[j]
      BY <2>4 DEF x, y
    <2>6. Linked(L, ast, acts[i], Y[i], x2, y2)
      BY <1>5, <2>4, <2>5 DEF Linked, x
    <2> QED
      BY <2>2, <2>6
  <1>11. Waiting(E, L, B2, W2, ast, out', acts', X2, Y2)
    <2>1. \A i \in 1..n - 1 : acts'[i] = acts[i] /\ X2[i] = X[i] /\ Y2[i] = Y[i]
      BY <1>5, <1>7, <1>8
    <2>2. \A i \in 1..n - 1 :
             i = n - 1 => Linked(L, ast, acts'[i], Y2[i], X2[i + 1], Y2[i + 1])
      BY <1>1, <1>10
    <2>3. Waited(E, L, B2, W2, ast, out', acts'[n], X2[n], Y2[n])
      BY <1>5, <1>7, <1>8 DEF r
    <2>4. Len(acts) = n
      BY DEF n
    <2> QED
      BY <1>1, <1>4, <1>7, <1>8, <2>1, <2>2, <2>3, <2>4, WaitingTop
  <1>12. Len(acts') \in Nat /\ Len(acts') > 0 /\ opens' = X2[Len(acts')].blocks
    BY <1>1, <1>5, <1>7
  <1>13. w = IF Len(Y2) = 0 THEN <<>> ELSE Prefix(Tip(Y2).reached, Tip(Y2).left)
    <2>1. Tip(Y2) = y2 /\ Len(Y2) > 0
      BY <1>1, <1>8 DEF Tip
    <2> QED
      BY <2>1
  <1>14. Awaited(E, L, B2, W2, ast, out', acts', X2, Y2)
    BY <1>11, <1>12, <1>13, AwaitedGrows
  <1> QED
    BY <1>14 DEF X2

\* A prefix of a beginning.
LEMMA PrefixBegins ==
    ASSUME NEW s \in Seq(Nat), NEW t \in Seq(Nat), Begins(s, t), NEW k \in 0..Len(s)
    PROVE  Prefix(s, k) = Prefix(t, k)
  <1>1. Len(s) \in Nat /\ Len(t) \in Nat /\ k \in 0..Len(t)
    BY DEF Begins
  <1>2. /\ Prefix(s, k) \in Seq(Nat) /\ Len(Prefix(s, k)) = k
        /\ \A i \in 1..k : Prefix(s, k)[i] = s[i]
    BY BeginsPrefix
  <1>3. /\ Prefix(t, k) \in Seq(Nat) /\ Len(Prefix(t, k)) = k
        /\ \A i \in 1..k : Prefix(t, k)[i] = t[i]
    BY <1>1, BeginsPrefix
  <1>4. \A i \in 1..k : s[i] = t[i]
    BY <1>1 DEF Begins
  <1> QED
    BY <1>2, <1>3, <1>4, SeqEqual

\* A block around p, and the defers in force in front of it.
LEMMA ForceAt ==
    ASSUME NEW E, NEW L, NEW h, NEW a, Complete(E, L, h, a), NEW p \in 1..Len(a) + 1,
           NEW x, In(x, E[p])
    PROVE  /\ x \in 1..p - 1 /\ x \in 1..Len(a) + 1 /\ a[x].op \in Openers
           /\ L[x] \in Seq(Nat) /\ Len(L[x]) \in Nat /\ Len(L[x]) <= Len(L[p])
           /\ Begins(L[x], L[p]) /\ Begins(E[x], E[p])
  <1>1. Len(a) \in Nat /\ Around(E, L, a, p)
    BY TreeFacts
  <1>2. PICK j \in 1..Len(E[p]) : E[p][j] = x
    BY DEF In
  <1>3. x \in 1..p - 1 /\ Begins(L[x], L[p]) /\ Begins(E[x], E[p]) /\ a[x].op \in Openers
    BY <1>1, <1>2 DEF Around
  <1>4. x \in 1..Len(a) + 1
    BY <1>1, <1>3
  <1>5. L[x] \in Seq(Nat) /\ Len(L[x]) \in Nat
    BY <1>4, TreeFacts
  <1> QED
    BY <1>3, <1>4, <1>5 DEF Begins

\* A sequence with one element more, or less, in the terms of Last.
LEMMA LastMore ==
    ASSUME NEW o, NEW s \in Seq(Nat), NEW z, NEW t \in Seq(Nat), Longer(t, s, z)
    PROVE  \A k \in 1..Len(s) : Last(o, t, k) => Last(o, s, k) /\ o[z].src # o[s[k]].src
  <1>1. /\ Len(t) = Len(s) + 1 /\ t[Len(s) + 1] = z
        /\ \A k \in 1..Len(s) : t[k] = s[k]
    BY DEF Longer
  <1> DEFINE n == Len(s)
  <1>3. n \in Nat
    OBVIOUS
  <1> HIDE DEF n
  <1>4. ASSUME NEW k \in 1..n, Last(o, t, k) PROVE Last(o, s, k) /\ o[z].src # o[s[k]].src
    <2>1. \A j \in k + 1..n + 1 : o[t[j]].src # o[s[k]].src
      BY <1>1, <1>4 DEF Last, n
    <2>2. n + 1 \in k + 1..n + 1 /\ \A j \in k + 1..n : j \in k + 1..n + 1 /\ j \in 1..n
      BY <1>3
    <2>3. t[n + 1] = z /\ \A j \in 1..n : t[j] = s[j]
      BY <1>1 DEF n
    <2>4. \A j \in k + 1..n : o[s[j]].src # o[s[k]].src
      BY <2>1, <2>2, <2>3
    <2>5. o[z].src # o[s[k]].src
      BY <2>1, <2>2, <2>3
    <2> QED
      BY <2>4, <2>5 DEF Last, n
  <1> QED
    BY <1>4 DEF n

\* Into a block of the tree.
LEMMA KeptOpen ==
    ASSUME NEW E, NEW L, NEW h, NEW a, Complete(E, L, h, a), NEW p \in 1..Len(a),
           NEW W, NEW o, NEW s \in Seq(Nat), NEW v \in Seq(Nat), Kept(E, L, W, o, p, s, v),
           Len(v) = Len(L[p]), E[p + 1] = Append(E[p], p),
           NEW z \in Nat, o[z].src = p, W[z] = v, NEW t \in Seq(Nat), Longer(t, s, z)
    PROVE  Kept(E, L, W, o, p + 1, t, v)
  <1>1. /\ Len(t) = Len(s) + 1 /\ t[Len(s) + 1] = z
        /\ \A k \in 1..Len(s) : t[k] = s[k]
    BY DEF Longer
  <1>2. \A k \in 1..Len(s) : Last(o, t, k) => Last(o, s, k) /\ o[z].src # o[s[k]].src
    BY LastMore, SMTT(30)
  <1>3. Prefix(v, Len(L[p])) = v
    <2>1. Len(v) \in 0..Len(v)
      OBVIOUS
    <2> QED
      BY <2>1, BeginsPrefix
  <1>4. \A x : In(x, E[p + 1]) => x = p \/ In(x, E[p])
    <2>1. p \in 1..Len(a) + 1
      BY TreeFacts
    <2> DEFINE e == E[p]
               g == E[p + 1]
               n == Len(e)
    <2>2. e \in Seq(Nat) /\ p \in Nat /\ g = Append(e, p)
      BY <2>1, TreeFacts
    <2> HIDE DEF e, g
    <2>3. n \in Nat /\ Len(g) = n + 1 /\ g[n + 1] = p /\ \A i \in 1..n : g[i] = e[i]
      BY <2>2, BeginsLonger
    <2> HIDE DEF n
    <2>4. \A i \in 1..n + 1 : i \in 1..n \/ i = n + 1
      BY <2>3
    <2>5. ASSUME NEW x, In(x, g) PROVE x = p \/ In(x, e)
      BY <2>3, <2>4, <2>5 DEF In, n
    <2> QED
      BY <2>5 DEF e, g
  <1> SUFFICES ASSUME NEW k \in 1..Len(t), o[t[k]].op # "run", In(o[t[k]].src, E[p + 1]), Last(o, t, k)
               PROVE  W[t[k]] = Prefix(v, Len(L[o[t[k]].src]))
    BY DEF Kept
  <1>5. CASE k \in 1..Len(s)
    <2>1. t[k] = s[k] /\ Last(o, s, k) /\ o[z].src # o[s[k]].src
      BY <1>1, <1>2, <1>5
    <2>2. In(o[s[k]].src, E[p])
      BY <1>4, <2>1
    <2> QED
      BY <1>5, <2>1, <2>2 DEF Kept
  <1>6. CASE k = Len(s) + 1
    BY <1>1, <1>3, <1>6
  <1>7. k \in 1..Len(s) \/ k = Len(s) + 1
    BY <1>1, OneMore
  <1> QED
    BY <1>5, <1>6, <1>7

\* Into the body of a defer.
LEMMA KeptBody ==
    ASSUME NEW E, NEW L, NEW h, NEW a, Complete(E, L, h, a), NEW p \in 1..Len(a) + 1,
           NEW W, NEW o, NEW s \in Seq(Nat), NEW v \in Seq(Nat), Kept(E, L, W, o, p, s, v),
           NEW q \in 1..Len(a), E[q + 1] = Append(E[q], q), Begins(E[q], E[p]),
           NEW m, m = Len(L[q]), m <= Len(v),
           NEW z \in Nat, o[z].op = "run", o[z].src = q, NEW t \in Seq(Nat), Longer(t, s, z)
    PROVE  Kept(E, L, W, o, q + 1, t, Prefix(v, m))
  <1>1. /\ Len(t) = Len(s) + 1 /\ t[Len(s) + 1] = z
        /\ \A k \in 1..Len(s) : t[k] = s[k]
    BY DEF Longer
  <1>2. \A k \in 1..Len(s) : Last(o, t, k) => Last(o, s, k) /\ o[z].src # o[s[k]].src
    BY LastMore, SMTT(30)
  <1>3. q \in 1..Len(a) + 1 /\ Len(a) \in Nat
    BY TreeFacts
  <1>4. /\ E[q] \in Seq(Nat) /\ E[p] \in Seq(Nat) /\ m \in Nat
    BY <1>3, TreeFacts
  <1>5. \A x : In(x, E[q + 1]) => x = q \/ In(x, E[q])
    <2> DEFINE e == E[q]
               g == E[q + 1]
               n == Len(e)
    <2>2. e \in Seq(Nat) /\ q \in Nat /\ g = Append(e, q)
      BY <1>3, <1>4
    <2> HIDE DEF e, g
    <2>3. n \in Nat /\ Len(g) = n + 1 /\ g[n + 1] = q /\ \A i \in 1..n : g[i] = e[i]
      BY <2>2, BeginsLonger, SMTT(30)
    <2> HIDE DEF n
    <2>4. \A i \in 1..n + 1 : i \in 1..n \/ i = n + 1
      BY <2>3
    <2>5. ASSUME NEW x, In(x, g) PROVE x = q \/ In(x, e)
      BY <2>3, <2>4, <2>5 DEF In, n
    <2> QED
      BY <2>5 DEF e, g
  <1>6. m \in 0..Len(v)
    BY <1>4
  <1> DEFINE w == Prefix(v, m)
  <1>7. w \in Seq(Nat) /\ Len(w) = m /\ Begins(w, v)
    BY <1>6, BeginsPrefix
  <1> HIDE DEF w
  <1> SUFFICES ASSUME NEW k \in 1..Len(t), o[t[k]].op # "run", In(o[t[k]].src, E[q + 1]), Last(o, t, k)
               PROVE  W[t[k]] = Prefix(w, Len(L[o[t[k]].src]))
    BY DEF Kept, w
  <1>8. CASE k \in 1..Len(s)
    <2>1. t[k] = s[k] /\ Last(o, s, k) /\ o[z].src # o[s[k]].src
      BY <1>1, <1>2, <1>8
    <2> DEFINE x == o[s[k]].src
    <2>2. In(x, E[q])
      BY <1>5, <2>1
    <2>3. In(x, E[p])
      BY <1>4, <2>2, InBegins
    <2>4. W[s[k]] = Prefix(v, Len(L[x]))
      BY <1>8, <2>1, <2>3 DEF Kept
    <2> HIDE DEF x
    <2>5. Len(L[x]) \in Nat /\ Len(L[x]) <= Len(L[q])
      BY <1>3, <2>2, ForceAt
    <2>6. Len(L[x]) \in 0..Len(w)
      BY <1>4, <1>7, <2>5
    <2>7. Prefix(w, Len(L[x])) = Prefix(v, Len(L[x]))
      BY <1>7, <2>6, PrefixBegins
    <2> QED
      BY <2>1, <2>4, <2>7 DEF x
  <1>9. CASE k = Len(s) + 1
    BY <1>1, <1>9
  <1>10. k \in 1..Len(s) \/ k = Len(s) + 1
    BY <1>1, OneMore
  <1> QED
    BY <1>8, <1>9, <1>10

\* Behind a defer, which waits from there on.
LEMMA KeptDefer ==
    ASSUME NEW E, NEW L, NEW h, NEW a, Complete(E, L, h, a), NEW p \in 1..Len(a) + 1,
           NEW W, NEW o, NEW s \in Seq(Nat), NEW v \in Seq(Nat), Kept(E, L, W, o, p, s, v),
           Len(v) = Len(L[p]), NEW q, E[q] = E[p], NEW z \in Nat, NEW w, w = Append(v, z)
    PROVE  Kept(E, L, W, o, q, s, w)
  <1>1. w \in Seq(Nat) /\ Begins(v, w)
    BY BeginsLonger
  <1> SUFFICES ASSUME NEW k \in 1..Len(s), o[s[k]].op # "run", In(o[s[k]].src, E[p]), Last(o, s, k)
               PROVE  W[s[k]] = Prefix(w, Len(L[o[s[k]].src]))
    BY DEF Kept
  <1> DEFINE x == o[s[k]].src
  <1>2. W[s[k]] = Prefix(v, Len(L[x]))
    BY DEF Kept
  <1>3. In(x, E[p])
    OBVIOUS
  <1> HIDE DEF x
  <1>4. Len(L[x]) \in Nat /\ Len(L[x]) <= Len(L[p])
    BY <1>3, ForceAt
  <1>5. Len(L[x]) \in 0..Len(v)
    BY <1>4
  <1>6. Prefix(v, Len(L[x])) = Prefix(w, Len(L[x]))
    BY <1>1, <1>5, PrefixBegins
  <1> QED
    BY <1>2, <1>6 DEF x

\* Out of a block of the tree.
LEMMA KeptEnd ==
    ASSUME NEW E, NEW L, NEW h, NEW a, Complete(E, L, h, a), NEW p \in 1..Len(a),
           a[p].op = "end",
           NEW W, NEW o, NEW s \in Seq(Nat), NEW v \in Seq(Nat), Kept(E, L, W, o, p, s, v),
           s # <<>>, o[Tip(s)].src = Tip(E[p]),
           NEW m, m = Len(L[Tip(E[p])]), m <= Len(v),
           NEW t, t = Prefix(s, Len(s) - 1)
    PROVE  Kept(E, L, W, o, p + 1, t, Prefix(v, m))
  <1> DEFINE q == Tip(E[p])
             n == Len(s) - 1
  <1>1. /\ q \in 1..p - 1 /\ E[p + 1] = E[q] /\ Begins(E[p + 1], E[p])
    BY TreeFlows
  <1>2. p \in 1..Len(a) + 1 /\ q \in 1..Len(a) + 1 /\ Len(a) \in Nat
    BY <1>1, TreeFacts, SMTT(60)
  <1>3. /\ E[q] \in Seq(Nat) /\ E[p] \in Seq(Nat) /\ m \in Nat
    BY <1>2, TreeFacts
  <1>4. m \in 0..Len(v)
    BY <1>3
  <1> DEFINE w == Prefix(v, m)
  <1>5. w \in Seq(Nat) /\ Len(w) = m /\ Begins(w, v)
    BY <1>4, BeginsPrefix
  <1>6. n \in Nat /\ n + 1 = Len(s) /\ n \in 0..Len(s)
    BY EmptySeq
  <1>7. t \in Seq(Nat) /\ Len(t) = n /\ \A i \in 1..n : t[i] = s[i]
    BY <1>6, BeginsPrefix, Zenon
  <1>8. s[n + 1] = Tip(s)
    BY <1>6 DEF Tip
  <1> HIDE DEF w, q, n
  <1> SUFFICES ASSUME NEW k \in 1..n, o[s[k]].op # "run", In(o[s[k]].src, E[q]), Last(o, t, k)
               PROVE  W[s[k]] = Prefix(w, Len(L[o[s[k]].src]))
    BY <1>1, <1>7 DEF Kept, w
  <1> DEFINE x == o[s[k]].src
  <1>9. x \in 1..q - 1 /\ Len(L[x]) \in Nat /\ Len(L[x]) <= Len(L[q])
    <2>1. In(x, E[q])
      OBVIOUS
    <2> HIDE DEF x
    <2> QED
      BY <1>2, <2>1, ForceAt
  <1>10. In(x, E[p])
    BY <1>1, <1>3, InBegins
  <1>11. Last(o, s, k)
    <2>1. \A j \in k + 1..n : o[s[j]].src # x
      <3>1. \A j \in k + 1..n : j \in 1..n
        BY <1>6
      <3>2. \A j \in k + 1..n : o[t[j]].src # o[t[k]].src
        BY <1>7 DEF Last
      <3> QED
        BY <1>7, <3>1, <3>2
    <2>2. o[s[n + 1]].src # x
      <3>1. q # x
        BY <1>2, <1>9
      <3> QED
        BY <1>8, <3>1 DEF q
    <2>3. \A j \in k + 1..n + 1 : j \in k + 1..n \/ j = n + 1
      BY <1>6
    <2>4. \A j \in k + 1..n + 1 : o[s[j]].src # x
      BY <2>1, <2>2, <2>3
    <2> QED
      BY <1>6, <2>4 DEF Last
  <1>12. k \in 1..Len(s)
    BY <1>6
  <1>13. W[s[k]] = Prefix(v, Len(L[x]))
    BY <1>10, <1>11, <1>12 DEF Kept
  <1> HIDE DEF x
  <1>14. Len(L[x]) \in 0..Len(w)
    BY <1>5, <1>9 DEF q
  <1>15. Prefix(w, Len(L[x])) = Prefix(v, Len(L[x]))
    BY <1>5, <1>14, PrefixBegins
  <1> QED
    BY <1>13, <1>15 DEF x

\* The defers that stay in force were reached in blocks that stay open.
LEMMA ReachedMoves ==
    ASSUME NEW L, NEW B, NEW o, NEW p, NEW s, NEW v, Reached(L, B, o, p, s, v),
           NEW q, NEW t, NEW w, Len(w) = Len(L[q]),
           \A j \in 1..Len(w) :
             j \in 1..Len(v) /\ w[j] = v[j] /\ L[q][j] = L[p][j] /\ Begins(B[v[j]], t)
    PROVE  Reached(L, B, o, q, t, w)
  BY DEF Reached

\* Where the innermost activation lands.
LEMMA GenLands ==
    ASSUME IInv, GenInv, phase = "codegen", NEW E, NEW L, NEW B, NEW X,
           Written(E, L, heap, ast, out, acts, opens, B, X),
           NEW p, acts' = Advance(p), opens' \in Seq(Nat), NEW B2,
           Written(E, L, heap, ast, out', acts', opens', B2, Onto(X, opens'))
    PROVE  /\ Region(E, ast, p, Act.hi, Tip(X).lo)
           /\ Onto(X, opens')[Len(X)].blocks = opens'
  <1> DEFINE n == Len(acts)
             r == Activation(p, Act.hi)
             X2 == Onto(X, opens')
  <1>1. acts \in Seq(ActType) /\ n \in Nat /\ n > 0
    BY GenFacts
  <1>2. X \in Seq(StandType) /\ Len(X) = n
    BY <1>1, WrittenFacts
  <1>3. X2[n].blocks = opens' /\ X2[n].lo = Tip(X).lo
    BY <1>1, <1>2, OntoFacts
  <1>4. acts' = [acts EXCEPT ![n] = r]
    BY DEF Advance
  <1>5. Len(acts') = n /\ acts'[n] = r
    BY <1>1, <1>4, AdvanceFacts
  <1>6. Standing(E, L, ast, out', acts', X2)
    BY DEF Written
  <1>7. r.pc = p /\ r.hi = Act.hi
    BY DEF Activation
  <1> HIDE DEF n, r, X2
  <1>8. n \in 1..Len(acts')
    BY <1>1, <1>5
  <1>9. Region(E, ast, r.pc, r.hi, X2[n].lo)
    BY <1>5, <1>6, <1>8 DEF Standing, Stands, Spot
  <1> QED
    BY <1>2, <1>3, <1>7, <1>9 DEF n, X2

\* The innermost activation lands at p, where the defers in force wait at w.
LEMMA GenArrives ==
    ASSUME IInv, GenInv, ~dropped, phase = "codegen", NEW E, NEW L, NEW B, NEW X, NEW W, NEW Y,
           Written(E, L, heap, ast, out, acts, opens, B, X),
           Awaited(E, L, B, W, ast, out, acts, X, Y), NEW t, NEW w \in Seq(Nat), NEW B2, NEW W2,
           Tells(B, W, heap, ast, out, t, opens', w, B2, W2, out'),
           WaitTok(B2, W2, ast, out', Len(out) + 1), opens' \in Seq(Nat),
           NEW p, acts' = Advance(p),
           Written(E, L, heap, ast, out', acts', opens', B2, Onto(X, opens')),
           Reached(L, B2, out', p, opens', w), Kept(E, L, W2, out', p, opens', w),
           \A j \in 1..Len(w) : j <= Len(L[Tip(X).lo]) => w[j] = Tip(Y).reached[j]
    PROVE  \E Y2 : Awaited(E, L, B2, W2, ast, out', acts', Onto(X, opens'), Y2)
  <1> DEFINE y2 == [reached |-> w, left |-> Len(w)]
             x2 == Onto(X, opens')[Len(X)]
             lo == Tip(X).lo
             r == Activation(p, Act.hi)
  <1>1. Region(E, ast, p, Act.hi, lo) /\ x2.blocks = opens'
    BY GenLands
  <1>2. Complete(E, L, heap, ast) /\ ExitsUnwind
    BY GenFacts DEF Written
  <1>3. L[p] \in Seq(Nat) /\ Len(L[p]) \in Nat /\ Len(L[lo]) \in Nat /\ Len(L[lo]) <= Len(L[p])
    BY <1>1, <1>2, BodyForce
  <1>4. Len(w) = Len(L[p])
    BY DEF Reached
  <1>5. y2 \in WaitType /\ y2.reached = w /\ y2.left = Len(w)
    <2>1. Len(w) \in Nat
      OBVIOUS
    <2> QED
      BY <2>1 DEF WaitType
  <1>6. w = Prefix(w, Len(w))
    <2>1. Len(w) \in 0..Len(w)
      OBVIOUS
    <2> QED
      BY <2>1, BeginsPrefix
  <1> HIDE DEF y2, x2, lo, r
  <1>7. LeftOK(L, ast, r, y2)
    BY <1>1, <1>2, <1>4, <1>5, LandingLeft DEF r
  <1>8. r.pc = p
    BY DEF r, Activation
  <1>9. Waited(E, L, B2, W2, ast, out', r, x2, y2)
    BY <1>1, <1>5, <1>7, <1>8 DEF Waited
  <1>10. w = Prefix(y2.reached, y2.left)
    BY <1>5, <1>6
  <1>11. Len(L[lo]) <= Len(y2.reached) /\ \A j \in 1..Len(L[lo]) : y2.reached[j] = Tip(Y).reached[j]
    <2>1. \A j \in 1..Len(L[lo]) : j \in 1..Len(w) /\ j <= Len(L[lo])
      BY <1>3, <1>4
    <2> QED
      BY <1>3, <1>4, <1>5, <2>1 DEF lo
  <1> QED
    BY <1>3, <1>5, <1>9, <1>10, <1>11, GenWaitsOn, SMTT(30) DEF x2, lo, r

\* if and for: what waits in front of a block waits at its opening.
LEMMA GenOpenAwaited ==
    ASSUME IInv, GenInv, ~dropped, GenOpen, NEW E, NEW L, NEW B, NEW X, NEW W, NEW Y,
           Written(E, L, heap, ast, out, acts, opens, B, X),
           Awaited(E, L, B, W, ast, out, acts, X, Y)
    PROVE  \E W2, Y2 : Awaited(E, L, Append(B, opens'), W2, ast, out', acts', Onto(X, opens'), Y2)
  <1> DEFINE t == CTok(AstTok.op, Null, 0, Act.pc)
             z == Len(out) + 1
             p == Act.pc
             q == Act.pc + 1
             B2 == Append(B, opens')
             w == Tip(Y).reached
  <1>1. /\ phase = "codegen" /\ AstTok.op \in {"if", "for"}
        /\ out' = Append(out, t) /\ opens' = Append(opens, z) /\ acts' = Advance(q)
    BY DEF GenOpen, OpenC
  <1>2. /\ p \in 1..Len(ast) /\ AstTok = ast[p]
        /\ out \in Seq(CTokType) /\ opens \in Seq(Nat) /\ Len(out) \in Nat
    BY <1>1, GenFacts
  <1>3. Complete(E, L, heap, ast) /\ Text(B, heap, ast, out)
    BY DEF Written
  <1>4. /\ t \in CTokType /\ t.op = AstTok.op /\ t.src = p
    <2>1. Act.pc \in Nat /\ Null \in Nat /\ 0 \in Nat
      BY <1>2 DEF Null
    <2> QED
      BY <1>1, <2>1 DEF CTok, CTokType, COpeners
  <1>5. /\ w \in Seq(Nat) /\ Len(w) = Len(L[p]) /\ Tip(Y).left <= Len(w) /\ Waits(B, W, ast, out)
    BY <1>1, AwaitedFacts
  <1>6. z \in Nat /\ opens' \in Seq(Nat) /\ Longer(opens', opens, z) /\ Begins(opens, opens')
    <2>1. z \in Nat
      BY <1>2
    <2> HIDE DEF z
    <2> QED
      BY <1>1, <1>2, <2>1, BeginsLonger DEF Longer
  <1>7. Writes(B, heap, ast, out, t, opens', B2, out')
    BY <1>1, <1>3, <1>4, <1>6 DEF Writes
  <1> HIDE DEF t, B2
  <1>8. PICK W2 : Tells(B, W, heap, ast, out, t, opens', w, B2, W2, out')
    BY <1>5, <1>7 DEF Tells
  <1>9. /\ Waited(E, L, B2, W2, ast, out', Act, Tip(X), Tip(Y))
        /\ W2[z] = Prefix(Tip(Y).reached, Tip(Y).left) /\ B2[z] = opens
    BY <1>1, <1>8, AwaitedOver
  <1>10. Tip(X).blocks = opens
    BY <1>1, GenFacts, WrittenFacts
  <1>11. Reached(L, B2, out', p, opens, w) /\ Kept(E, L, W2, out', p, opens, w) /\ Tip(Y).left = Len(w)
    <2>1. ast[Act.pc].op \notin Exits
      BY <1>1, <1>2 DEF Exits
    <2> QED
      BY <1>9, <1>10, <2>1 DEF Waited, LeftOK
  <1>12. Prefix(w, Len(w)) = w
    <2> HIDE DEF w
    <2>1. Len(w) \in 0..Len(w)
      BY <1>5
    <2> QED
      BY <1>5, <2>1, BeginsPrefix
  <1>13. W2[z] = w
    BY <1>9, <1>11, <1>12
  <1>14. W2[Len(out) + 2] = w /\ out'[z] = t
    BY <1>8, TellsFacts
  <1>15. E[q] = Append(E[p], p) /\ L[q] = L[p]
    <2>1. ast[p].op \in Openers
      BY <1>1, <1>2 DEF Openers
    <2> HIDE DEF p
    <2>2. E[p + 1] = Append(E[p], p) /\ L[p + 1] = L[p]
      BY <1>2, <1>3, <2>1, TreeFlows
    <2> QED
      BY <2>2 DEF p
  <1> HIDE DEF w, p
  <1>16. Kept(E, L, W2, out', q, opens', w)
    <2>1. out'[z].src = p
      BY <1>4, <1>14
    <2> HIDE DEF z
    <2> QED
      BY <1>2, <1>3, <1>5, <1>6, <1>11, <1>13, <1>15, <2>1, KeptOpen DEF p
  <1>17. Reached(L, B2, out', q, opens', w)
    <2>1. \A j \in 1..Len(w) : L[q][j] = L[p][j] /\ Begins(B2[w[j]], opens')
      <3> SUFFICES ASSUME NEW j \in 1..Len(w) PROVE Begins(B2[w[j]], opens')
        BY <1>15
      <3>1. w[j] \in 1..Len(out') /\ Begins(B2[w[j]], opens)
        BY <1>11 DEF Reached
      <3>2. B2[w[j]] \in Seq(Nat)
        <4>1. Len(out') = Len(out) + 1 /\ \A i \in 1..Len(out) + 1 : B2[i] = B[i] /\ B[i] \in Seq(Nat)
          BY <1>8, TellsFacts
        <4> QED
          BY <3>1, <4>1
      <3> QED
        BY <1>2, <1>6, <3>1, <3>2, BeginsOrder
    <2>2. Len(w) = Len(L[q])
      BY <1>5, <1>15
    <2> HIDE DEF q
    <2> QED
      BY <1>11, <2>1, <2>2, ReachedMoves
  <1>18. WaitTok(B2, W2, ast, out', z)
    <2>1. W2[z + 1] = W2[z]
      <3>1. z + 1 = Len(out) + 2
        BY <1>2
      <3> QED
        BY <1>13, <1>14, <3>1
    <2>2. out'[z].op \in {"if", "for"}
      BY <1>1, <1>4, <1>14
    <2> HIDE DEF z
    <2> QED
      BY <2>1, <2>2 DEF WaitTok
  <1>19. Written(E, L, heap, ast, out', acts', opens', B2, Onto(X, opens'))
    BY GenOpenWritten DEF B2
  <1>20. \E Y2 : Awaited(E, L, B2, W2, ast, out', acts', Onto(X, opens'), Y2)
    <2>1. WaitTok(B2, W2, ast, out', Len(out) + 1)
      BY <1>18
    <2>2. \A j \in 1..Len(w) : j <= Len(L[Tip(X).lo]) => w[j] = Tip(Y).reached[j]
      BY DEF w
    <2> HIDE DEF q, z
    <2> QED
      BY <1>1, <1>5, <1>6, <1>8, <1>16, <1>17, <1>19, <2>1, <2>2, GenArrives
  <1> QED
    BY <1>20 DEF B2

\* defer: the new defer waits at its place.
LEMMA GenDeferAwaited ==
    ASSUME IInv, GenInv, ~dropped, GenDefer, NEW E, NEW L, NEW B, NEW X, NEW W, NEW Y,
           Written(E, L, heap, ast, out, acts, opens, B, X),
           Awaited(E, L, B, W, ast, out, acts, X, Y)
    PROVE  \E W2, Y2 : Awaited(E, L, Append(B, opens'), W2, ast, out', acts', Onto(X, opens'), Y2)
  <1>1. PICK d \in 1..Len(heap) :
            /\ heap[d].lo = Act.pc
            /\ out' = Append(out, CTok("reach", d, 0, Act.pc))
            /\ acts' = Advance(heap[d].hi + 1)
    BY DEF GenDefer
  <1> DEFINE t == CTok("reach", d, 0, Act.pc)
             z == Len(out) + 1
             p == Act.pc
             q == heap[d].hi + 1
             B2 == Append(B, opens')
             v == Tip(Y).reached
             w == Append(v, z)
  <1>2. phase = "codegen" /\ ast[p].op = "defer" /\ opens' = opens
    BY DEF GenDefer, AstTok
  <1>3. /\ p \in 1..Len(ast) /\ Len(ast) \in Nat
        /\ out \in Seq(CTokType) /\ opens \in Seq(Nat) /\ Len(out) \in Nat
    BY <1>2, GenFacts
  <1>4. Complete(E, L, heap, ast) /\ Text(B, heap, ast, out)
    BY DEF Written
  <1>5. t \in CTokType /\ t.op = "reach" /\ t.defer = d
    <2>1. Act.pc \in Nat /\ d \in Nat /\ 0 \in Nat
      BY <1>3
    <2> QED
      BY <2>1 DEF CTok, CTokType
  <1>6. /\ v \in Seq(Nat) /\ Len(v) = Len(L[p]) /\ Tip(Y).left <= Len(v) /\ Waits(B, W, ast, out)
    BY <1>2, AwaitedFacts
  <1>7. z \in Nat /\ z > 0
    BY <1>3
  <1>8. Writes(B, heap, ast, out, t, opens', B2, out')
    BY <1>1, <1>2, <1>3, <1>4, <1>5 DEF Writes
  <1>9. /\ w \in Seq(Nat) /\ Longer(w, v, z)
    <2> HIDE DEF z, v
    <2> QED
      BY <1>6, <1>7, BeginsLonger DEF Longer
  <1> HIDE DEF t, B2
  <1>10. PICK W2 : Tells(B, W, heap, ast, out, t, opens', w, B2, W2, out')
    BY <1>6, <1>8, <1>9 DEF Tells
  <1>11. /\ Waited(E, L, B2, W2, ast, out', Act, Tip(X), Tip(Y))
         /\ W2[z] = Prefix(Tip(Y).reached, Tip(Y).left) /\ B2[z] = opens
    BY <1>2, <1>10, AwaitedOver
  <1>12. Tip(X).blocks = opens /\ opens # <<>>
    BY <1>2, GenFacts, WrittenFacts, SMTT(30)
  <1>13. Reached(L, B2, out', p, opens, v) /\ Kept(E, L, W2, out', p, opens, v) /\ Tip(Y).left = Len(v)
    <2>1. ast[Act.pc].op \notin Exits
      BY <1>2 DEF Exits
    <2> QED
      BY <1>11, <1>12, <2>1 DEF Waited, LeftOK
  <1>14. W2[z] = v
    <2>1. W2[z] = Prefix(v, Len(v))
      BY <1>11, <1>13
    <2> HIDE DEF v
    <2>2. Len(v) \in 0..Len(v)
      BY <1>6
    <2> QED
      BY <1>6, <2>1, <2>2, BeginsPrefix
  <1>15. W2[Len(out) + 2] = w
    BY <1>10, TellsNew
  <1>16. out'[z] = t /\ Len(out') = z
    BY <1>10, TellsFacts
  <1>17. BodyIn(E, L, heap, ast, d)
    BY <1>4, TreeFacts
  <1>18. E[q] = E[p] /\ L[q] = Append(L[p], d) /\ heap[d].hi \in 1..Len(ast) /\ heap[d].lo = p
    <2>1. /\ heap[d].hi \in 1..Len(ast) /\ ast[heap[d].hi].op = "end" /\ Tip(E[heap[d].hi]) = heap[d].lo
          /\ L[heap[d].hi + 1] = Append(L[heap[d].lo], d)
      BY <1>17 DEF BodyIn
    <2>2. E[heap[d].hi + 1] = E[Tip(E[heap[d].hi])]
      BY <1>4, <2>1, TreeFlows, SMTT(30)
    <2> QED
      BY <1>1, <2>1, <2>2
  <1>19. p \in 1..Len(ast) + 1 /\ L[p] \in Seq(Nat) /\ Len(L[p]) \in Nat
    <2>1. p \in 1..Len(ast) + 1
      BY <1>3
    <2> QED
      BY <1>4, <2>1, TreeFacts
  <1>20. Longer(L[q], L[p], d)
    BY <1>18, <1>19, BeginsLonger DEF Longer
  <1> HIDE DEF v, p, q
  <1>21. Kept(E, L, W2, out', q, opens', w)
    <2> HIDE DEF z
    <2>1. Kept(E, L, W2, out', q, opens, w)
      BY <1>3, <1>4, <1>6, <1>7, <1>13, <1>18, <1>19, KeptDefer
    <2> QED
      BY <1>2, <2>1
  <1> HIDE DEF w
  <1>22. Reached(L, B2, out', q, opens', w)
    <2> DEFINE n == Len(v)
    <2>1. /\ Len(w) = n + 1 /\ w[n + 1] = z /\ \A j \in 1..n : w[j] = v[j]
      BY <1>9 DEF Longer
    <2>2. /\ Len(L[q]) = n + 1 /\ L[q][n + 1] = d /\ \A j \in 1..n : L[q][j] = L[p][j]
      BY <1>6, <1>20 DEF Longer
    <2>3. n \in Nat
      BY <1>6
    <2>4. \A j \in 1..n :
            /\ v[j] \in 1..Len(out') /\ out'[v[j]].op = "reach" /\ out'[v[j]].defer = L[p][j]
            /\ B2[v[j]] # <<>> /\ Begins(B2[v[j]], opens)
      BY <1>13 DEF Reached
    <2>5. /\ z \in 1..Len(out') /\ out'[z].op = "reach" /\ out'[z].defer = d
          /\ B2[z] # <<>> /\ Begins(B2[z], opens)
      <3>1. z \in 1..Len(out')
        BY <1>7, <1>16
      <3>2. Begins(opens, opens)
        BY <1>3, BeginsOrder
      <3> QED
        BY <1>5, <1>11, <1>12, <1>16, <3>1, <3>2
    <2> HIDE DEF n, z
    <2>6. \A j \in 1..n + 1 : j \in 1..n \/ j = n + 1
      BY <2>3
    <2>7. \A j \in 1..n + 1 :
            /\ w[j] \in 1..Len(out') /\ out'[w[j]].op = "reach" /\ out'[w[j]].defer = L[q][j]
            /\ B2[w[j]] # <<>> /\ Begins(B2[w[j]], opens)
      BY <2>1, <2>2, <2>4, <2>5, <2>6
    <2> QED
      BY <1>2, <2>1, <2>2, <2>7 DEF Reached
  <1>23. WaitTok(B2, W2, ast, out', z)
    <2>1. z + 1 = Len(out) + 2
      BY <1>3
    <2>2. W2[z + 1] = Append(W2[z], z)
      BY <1>14, <1>15, <2>1 DEF w
    <2>3. out'[z].op = "reach"
      BY <1>5, <1>16
    <2> HIDE DEF z
    <2> QED
      BY <2>2, <2>3 DEF WaitTok
  <1>24. Written(E, L, heap, ast, out', acts', opens', B2, Onto(X, opens'))
    BY GenDeferWritten DEF B2
  <1>25. \A j \in 1..Len(w) : j <= Len(L[Tip(X).lo]) => w[j] = Tip(Y).reached[j]
    <2> SUFFICES ASSUME NEW j \in 1..Len(w), j <= Len(L[Tip(X).lo]) PROVE w[j] = v[j]
      BY DEF v
    <2>1. Len(L[Tip(X).lo]) \in Nat /\ Len(L[Tip(X).lo]) <= Len(L[p])
      <3>1. Region(E, ast, p, Act.hi, Tip(X).lo)
        BY <1>2, GenFacts, WrittenFacts DEF p
      <3> QED
        BY <1>4, <3>1, BodyForce
    <2>2. j \in 1..Len(v)
      BY <1>6, <2>1
    <2> QED
      BY <1>9, <2>2 DEF Longer
  <1>26. \E Y2 : Awaited(E, L, B2, W2, ast, out', acts', Onto(X, opens'), Y2)
    <2>1. WaitTok(B2, W2, ast, out', Len(out) + 1) /\ opens' \in Seq(Nat) /\ acts' = Advance(q)
      BY <1>1, <1>2, <1>3, <1>23 DEF q
    <2> HIDE DEF z
    <2> QED
      BY <1>2, <1>9, <1>10, <1>21, <1>22, <1>24, <1>25, <2>1, GenArrives
  <1> QED
    BY <1>26 DEF B2

\* When codegen_defers is at its end, all that was due has been generated.
LEMMA AllGenerated ==
    ASSUME NEW E, NEW L, Complete(E, L, heap, ast), ResolveTypeOK, ExitsUnwind, ~dropped,
           NEW r, r.pc \in 1..Len(ast), ast[r.pc].op \in Exits, r.current = ast[r.pc].end,
           NEW y \in WaitType, Len(y.reached) = Len(L[r.pc]), LeftOK(L, ast, r, y)
    PROVE  y.left = DueFrom(E, L, ast, r.pc)
  <1> DEFINE p == r.pc
             m == DueFrom(E, L, ast, p)
             u == ast[p].due
             n == Len(L[p])
             k == y.left
  <1>0. p \in 1..Len(ast) /\ ast[p].op \in Exits /\ m = DueFrom(E, L, ast, p)
    OBVIOUS
  <1>1. /\ m \in 0..n /\ n \in Nat /\ Len(u) = n - m
        /\ \A i \in 1..Len(u) : u[i] = L[p][m + i] /\ m + i \in 1..n
    <2> HIDE DEF p, m
    <2>1. m \in 0..Len(L[p]) /\ Len(L[p]) \in Nat
      BY <1>0, DueFacts
    <2>2. Len(ast[p].due) = Len(L[p]) - m
      BY <1>0, DueFacts
    <2>3. ASSUME NEW i \in 1..Len(ast[p].due)
          PROVE  ast[p].due[i] = L[p][m + i] /\ m + i \in 1..Len(L[p])
      BY <1>0, DueFacts, SMTT(30)
    <2> QED
      BY <2>1, <2>2, <2>3
  <1>2. k \in Nat /\ k <= n /\ n <= k + Len(u)
    BY DEF LeftOK, WaitType
  <1>3. r.current = IF n < k + Len(u) THEN L[p][k] ELSE ast[p].end
    BY DEF LeftOK
  <1>4. \A i \in 1..Len(u) :
             u[i] \in 1..Len(heap) /\ heap[u[i]].prev = IF i = 1 THEN ast[p].end ELSE u[i - 1]
    BY DEF ExitsUnwind, Unwinds
  <1>5. \A d \in 1..Len(heap) : heap[d].prev < d
    BY DEF ResolveTypeOK
  <1>6. \A j \in 1..n : \A i \in 1..j - 1 : L[p][i] < L[p][j]
    <2>1. p \in 1..Len(ast) + 1
      BY TreeFacts
    <2> QED
      BY <2>1, TreeFacts DEF InForce
  <1>10. \A j \in 1..n : L[p][j] \in Nat
    <2>1. p \in 1..Len(ast) + 1
      BY TreeFacts
    <2>2. L[p] \in Seq(Nat)
      BY <2>1, TreeFacts
    <2> QED
      BY <2>2
  <1>11. heap \in Seq(DeferType) /\ r.current = ast[p].end
    BY DEF ResolveTypeOK
  <1> HIDE DEF p, m, u, n, k
  <1>7. k >= m
    BY <1>1, <1>2
  <1>8. ASSUME k > m PROVE FALSE
    <2>1. n < k + Len(u) /\ Len(u) \in Nat /\ Len(u) > 0 /\ 1 \in 1..Len(u) /\ m + 1 \in 1..n /\ k \in 1..n
      BY <1>1, <1>2, <1>8
    <2>2. ast[p].end = L[p][k]
      BY <1>3, <1>11, <2>1
    <2>3. u[1] = L[p][m + 1] /\ u[1] \in 1..Len(heap) /\ heap[u[1]].prev = ast[p].end
      BY <1>1, <1>4, <2>1
    <2>4. heap[u[1]].prev < u[1]
      BY <1>5, <2>3
    <2>5. L[p][k] < L[p][m + 1]
      BY <2>2, <2>3, <2>4
    <2>6. L[p][k] \in Nat /\ L[p][m + 1] \in Nat
      BY <1>10, <2>1
    <2>7. k # m + 1
      BY <2>5, <2>6
    <2>8. m + 1 \in 1..k - 1
      BY <1>1, <1>2, <1>8, <2>7
    <2>9. L[p][m + 1] < L[p][k]
      BY <1>6, <2>1, <2>8
    <2> QED
      BY <2>5, <2>6, <2>9
  <1> QED
    BY <1>1, <1>2, <1>7, <1>8 DEF p, m, k

\* So for the innermost activation, when it leaves its way out.
LEMMA GenLeft ==
    ASSUME IInv, GenInv, ~dropped, GenExit, NEW E, NEW L, NEW B, NEW X, NEW W, NEW Y,
           Written(E, L, heap, ast, out, acts, opens, B, X),
           Awaited(E, L, B, W, ast, out, acts, X, Y)
    PROVE  Tip(Y).left = DueFrom(E, L, ast, Act.pc)
  <1>1. phase = "codegen" /\ AstTok.op \in Exits /\ Act.current = AstTok.end
    BY DEF GenExit, Unwinding
  <1>2. Act.pc \in 1..Len(ast) /\ AstTok = ast[Act.pc] /\ ResolveTypeOK /\ ExitsUnwind
    BY <1>1, GenFacts
  <1>3. /\ Tip(Y) \in WaitType /\ Len(Tip(Y).reached) = Len(L[Act.pc])
        /\ LeftOK(L, ast, Act, Tip(Y))
    BY <1>1, AwaitedFacts DEF Waited
  <1>4. Complete(E, L, heap, ast)
    BY DEF Written
  <1> QED
    BY <1>1, <1>2, <1>3, <1>4, AllGenerated

\* The C blocks s come from blocks of the tree; s[i] is the innermost loop.
FromTree(a, o, s) ==
    \A k \in 1..Len(s) :
        /\ o[s[k]].op # "run" => a[o[s[k]].src].op = o[s[k]].op
        /\ o[s[k]].op = "run" => a[o[s[k]].src].op = "defer"
LastFor(o, s, i) ==
    o[s[i]].op = "for" /\ \A j \in i + 1..Len(s) : o[s[j]].op # "for"

\* At a break or continue, the innermost loop of C that is the tree's loop is
\* also the innermost block of C for it.
LEMMA LoopKept ==
    ASSUME NEW E, NEW L, NEW h, NEW a, Complete(E, L, h, a), NEW p \in 1..Len(a),
           a[p].op \in {"break", "continue"}, NEW W, NEW o, NEW s \in Seq(Nat), NEW v,
           Kept(E, L, W, o, p, s, v),
           FromTree(a, o, s),
           NEW i \in 1..Len(s), LastFor(o, s, i), o[s[i]].src = a[p].loop
    PROVE  W[s[i]] = Prefix(v, Len(L[a[p].loop]))
  <1>1. In(a[p].loop, E[p]) /\ a[a[p].loop].op = "for"
    BY TreeFacts DEF DueOK
  <1>3. o[s[i]].op = "for" /\ \A j \in i + 1..Len(s) : o[s[j]].op # "for"
    BY DEF LastFor
  <1>4. \A k \in 1..Len(s) :
             /\ o[s[k]].op # "run" => a[o[s[k]].src].op = o[s[k]].op
             /\ o[s[k]].op = "run" => a[o[s[k]].src].op = "defer"
    BY DEF FromTree
  <1>2. Last(o, s, i)
    <2> SUFFICES ASSUME NEW j \in i + 1..Len(s), o[s[j]].src = o[s[i]].src PROVE FALSE
      BY DEF Last
    <2>1. j \in 1..Len(s)
      <3>1. Len(s) \in Nat
        OBVIOUS
      <3> QED
        BY <3>1
    <2>2. a[o[s[j]].src].op = "for"
      BY <1>1
    <2>3. o[s[j]].op # "run"
      BY <1>4, <2>1, <2>2
    <2>4. o[s[j]].op = "for"
      BY <1>4, <2>1, <2>2, <2>3
    <2> QED
      BY <1>3, <2>4
  <1> QED
    BY <1>1, <1>2, <1>3 DEF Kept

\* The blocks of a text come from blocks of the tree.
LEMMA BlocksFrom ==
    ASSUME NEW B, NEW h, NEW a, NEW o, Text(B, h, a, o), NEW s \in Seq(Nat), BlocksOK(o, s)
    PROVE  FromTree(a, o, s)
  <1> SUFFICES ASSUME NEW k \in 1..Len(s)
               PROVE  /\ o[s[k]].op # "run" => a[o[s[k]].src].op = o[s[k]].op
                      /\ o[s[k]].op = "run" => a[o[s[k]].src].op = "defer"
    BY DEF FromTree
  <1>1. s[k] \in 1..Len(o) /\ o[s[k]].op \in COpeners
    BY DEF BlocksOK
  <1>2. CFlow(B, h, a, o, s[k])
    BY <1>1 DEF Text
  <1>3. o[s[k]].op # "reach"
    BY <1>1 DEF COpeners
  <1> QED
    BY <1>2, <1>3 DEF CFlow

\* break, continue and return leave exactly what waited in front of the loop,
\* or of the function.
LEMMA GenJumpAwaited ==
    ASSUME IInv, GenInv, ~dropped, GenExit, AstTok.op # "end",
           NEW E, NEW L, NEW B, NEW X, NEW W, NEW Y,
           Written(E, L, heap, ast, out, acts, opens, B, X),
           Awaited(E, L, B, W, ast, out, acts, X, Y)
    PROVE  \E W2, Y2 : Awaited(E, L, Append(B, opens'), W2, ast, out', acts', Onto(X, opens'), Y2)
  <1> DEFINE t == CTok(AstTok.op, Null, 0, Act.pc)
             z == Len(out) + 1
             p == Act.pc
             q == p + 1
             B2 == Append(B, opens')
             v == Tip(Y).reached
  <1>1. /\ phase = "codegen" /\ AstTok.op \in Jumps /\ out' = Append(out, t) /\ opens' = opens
        /\ acts' = IF Act.pc = Act.hi THEN Prefix(acts, Len(acts) - 1) ELSE Advance(q)
    BY DEF GenExit, Unwinding, Exits, Jumps
  <1>2. /\ p \in 1..Len(ast) /\ Len(ast) \in Nat /\ AstTok = ast[p] /\ ast[Act.hi].op = "end"
        /\ out \in Seq(CTokType) /\ opens \in Seq(Nat) /\ Len(out) \in Nat
    BY <1>1, GenFacts
  <1>3. Complete(E, L, heap, ast) /\ Text(B, heap, ast, out)
    BY DEF Written
  <1>4. acts' = Advance(q)
    <2>1. Act.pc # Act.hi
      BY <1>1, <1>2 DEF Jumps
    <2> QED
      BY <1>1, <2>1
  <1>5. t \in CTokType /\ t.op = ast[p].op /\ t.src = p
    <2>1. Act.pc \in Nat /\ Null \in Nat /\ 0 \in Nat
      BY <1>2 DEF Null
    <2>2. AstTok.op \in Exits
      BY <1>1 DEF Jumps, Exits
    <2> QED
      BY <1>2, <2>1, <2>2 DEF CTok, CTokType
  <1>6. /\ v \in Seq(Nat) /\ Len(v) = Len(L[p]) /\ Waits(B, W, ast, out)
    BY <1>1, AwaitedFacts
  <1>7. Writes(B, heap, ast, out, t, opens', B2, out')
    BY <1>1, <1>2, <1>3, <1>5 DEF Writes
  <1> HIDE DEF t, B2
  <1>8. PICK W2 : Tells(B, W, heap, ast, out, t, opens', v, B2, W2, out')
    BY <1>6, <1>7 DEF Tells
  <1>9. /\ Waited(E, L, B2, W2, ast, out', Act, Tip(X), Tip(Y))
        /\ W2[z] = Prefix(Tip(Y).reached, Tip(Y).left) /\ B2[z] = opens
    BY <1>1, <1>8, AwaitedOver
  <1>10. Tip(X).blocks = opens /\ Spot(E, ast, out, p, Act.hi, Tip(X))
    BY <1>1, GenFacts, WrittenFacts
  <1>11. Reached(L, B2, out', p, opens, v) /\ Kept(E, L, W2, out', p, opens, v)
    BY <1>9, <1>10 DEF Waited
  <1>12. Tip(Y).left = DueFrom(E, L, ast, p)
    BY GenLeft
  <1>13. W2[z] = Prefix(v, DueFrom(E, L, ast, p))
    BY <1>9, <1>12
  <1>14. out'[z] = t /\ Len(out') = z /\ \A i \in 1..Len(out) : out'[i] = out[i]
    BY <1>8, TellsFacts
  <1>15. E[q] = E[p] /\ L[q] = L[p]
    <2>1. ast[p].op \in Jumps
      BY <1>1, <1>2
    <2> HIDE DEF p
    <2>2. E[p + 1] = E[p] /\ L[p + 1] = L[p]
      BY <1>2, <1>3, <2>1, TreeFlows
    <2> QED
      BY <2>2
  <1> HIDE DEF v, p, q
  <1>16. Kept(E, L, W2, out', q, opens', v)
    BY <1>1, <1>11, <1>15 DEF Kept
  <1>17. Reached(L, B2, out', q, opens', v)
    BY <1>1, <1>11, <1>15 DEF Reached
  <1>18. Written(E, L, heap, ast, out', acts', opens', B2, Onto(X, opens'))
    BY GenJumpWritten DEF B2
  <1>19. WaitTok(B2, W2, ast, out', z)
    <2>1. CASE ast[p].op = "return"
      <3>1. Prefix(v, 0) = <<>>
        <4>1. Prefix(v, 0) \in Seq(Nat) /\ Len(Prefix(v, 0)) = 0
          <5>1. 0 \in 0..Len(v)
            BY <1>6
          <5> QED
            BY <1>6, <5>1, BeginsPrefix
        <4> QED
          BY <4>1, EmptySeq
      <3>2. W2[z] = <<>>
        BY <1>13, <2>1, <3>1 DEF DueFrom
      <3>3. out'[z].op = "return"
        BY <1>5, <1>14, <2>1
      <3> HIDE DEF z
      <3> QED
        BY <3>2, <3>3 DEF WaitTok
    <2>2. CASE ast[p].op \in {"break", "continue"}
      <3>1. W2[z] = Prefix(v, Len(L[ast[p].loop]))
        BY <1>13, <2>2 DEF DueFrom
      <3>2. out'[z].op \in {"break", "continue"} /\ out'[z].src = p
        BY <1>5, <1>14, <2>2
      <3>3. Text(B2, heap, ast, out')
        BY <1>18 DEF Written
      <3>4. BlocksOK(out', opens)
        <4>1. BlocksOK(out, opens)
          BY <1>10 DEF Spot
        <4>2. \A i \in 1..Len(out) : i \in 1..Len(out')
          BY <1>2, <1>14
        <4> QED
          BY <1>14, <4>1, <4>2 DEF BlocksOK
      <3>5. FromTree(ast, out', opens)
        BY <1>2, <3>3, <3>4, BlocksFrom
      <3>6. ASSUME NEW i \in 1..Len(B2[z]), out'[B2[z][i]].op = "for",
                   out'[B2[z][i]].src = ast[out'[z].src].loop, NoFor(B2, out', z, i)
            PROVE  W2[B2[z][i]] = W2[z]
        <4>1. LastFor(out', opens, i)
          BY <1>9, <3>6 DEF NoFor, LastFor
        <4>2. i \in 1..Len(opens) /\ out'[opens[i]].op = "for" /\ out'[opens[i]].src = ast[p].loop
          BY <1>9, <3>2, <3>6
        <4> HIDE DEF z
        <4>3. Kept(E, L, W2, out', p, opens, v)
          BY <1>11
        <4>4. W2[opens[i]] = Prefix(v, Len(L[ast[p].loop]))
          <5>1. p \in 1..Len(ast) /\ ast[p].op \in {"break", "continue"} /\ Complete(E, L, heap, ast)
            BY <1>2, <1>3, <2>2
          <5>2. opens \in Seq(Nat)
            BY <1>2
          <5>3. i \in 1..Len(opens)
            BY <4>2
          <5>4. out'[opens[i]].op = "for" /\ out'[opens[i]].src = ast[p].loop
            BY <4>2
          <5> QED
            BY <3>5, <4>1, <4>3, <5>1, <5>2, <5>3, <5>4, LoopKept
        <4> QED
          BY <1>9, <3>1, <4>4
      <3> HIDE DEF z
      <3> QED
        BY <3>2, <3>6 DEF WaitTok
    <2> QED
      BY <1>1, <1>2, <2>1, <2>2 DEF Jumps
  <1>20. \A j \in 1..Len(v) : j <= Len(L[Tip(X).lo]) => v[j] = Tip(Y).reached[j]
    BY DEF v
  <1>21. \E Y2 : Awaited(E, L, B2, W2, ast, out', acts', Onto(X, opens'), Y2)
    <2>1. WaitTok(B2, W2, ast, out', Len(out) + 1) /\ opens' \in Seq(Nat)
      BY <1>1, <1>2, <1>19
    <2> HIDE DEF z
    <2> QED
      BY <1>1, <1>4, <1>6, <1>8, <1>16, <1>17, <1>18, <1>20, <2>1, GenArrives
  <1> QED
    BY <1>21 DEF B2

\* The innermost block of C and of the tree.
LEMMA LinedTip ==
    ASSUME NEW o, NEW s \in Seq(Nat), NEW u \in Nat, NEW e \in Seq(Nat), NEW w \in Nat,
           Lined(o, s, u, e, w), w < Len(e)
    PROVE  /\ Len(s) \in Nat /\ Len(s) \in 1..Len(s) /\ Len(s) > u /\ o[Tip(s)].src = Tip(e)
           /\ Len(s) = u + 1 => o[Tip(s)].op \in IF u = 0 THEN {"fn"} ELSE {"run"}
  <1> DEFINE n == Len(s)
             m == Len(e)
             k == m - w
  <1>1. n \in Nat /\ m \in Nat /\ n = u + (m - w)
    BY DEF Lined
  <1>2. \A j \in 1..k :
          /\ o[s[u + j]].src = e[w + j]
          /\ o[s[u + j]].op \in IF j > 1 THEN {"if", "for"} ELSE IF u = 0 THEN {"fn"} ELSE {"run"}
    BY DEF Lined
  <1>3. m > w
    OBVIOUS
  <1> HIDE DEF n, m
  <1>4. k \in 1..k /\ n \in 1..n /\ u + k = n /\ w + k = m /\ n > u
    BY <1>1, <1>3
  <1>5. o[s[n]].src = e[m]
    BY <1>2, <1>4
  <1>6. n = u + 1 => k = 1
    BY <1>1, <1>3
  <1>7. n = u + 1 => o[s[n]].op \in IF u = 0 THEN {"fn"} ELSE {"run"}
    <2> SUFFICES ASSUME n = u + 1 PROVE o[s[n]].op \in IF u = 0 THEN {"fn"} ELSE {"run"}
      OBVIOUS
    <2>1. 1 \in 1..k /\ u + 1 = n
      BY <1>4, <1>6
    <2> QED
      BY <1>2, <2>1
  <1> QED
    BY <1>1, <1>4, <1>5, <1>7 DEF n, m, Tip

\* At the end of a block, what waits is what waited at its opening.
LEMMA EndWaits ==
    ASSUME IInv, GenInv, ~dropped, GenExit, AstTok.op = "end",
           NEW E, NEW L, NEW B, NEW X, NEW W, NEW Y,
           Written(E, L, heap, ast, out, acts, opens, B, X),
           Awaited(E, L, B, W, ast, out, acts, X, Y), NEW t, NEW w, NEW B2, NEW W2,
           Tells(B, W, heap, ast, out, t, opens', w, B2, W2, out')
    PROVE  /\ Tip(Y).left = Len(L[Tip(E[Act.pc])])
           /\ W2[Len(out) + 1] = Prefix(Tip(Y).reached, Tip(Y).left) /\ B2[Len(out) + 1] = opens
           /\ Reached(L, B2, out', Act.pc, opens, Tip(Y).reached)
           /\ Kept(E, L, W2, out', Act.pc, opens, Tip(Y).reached)
           /\ opens \in Seq(Nat) /\ opens # <<>> /\ out'[Tip(opens)].src = Tip(E[Act.pc])
           /\ out'[Tip(opens)] = out[Tip(opens)]
           /\ out'[Tip(opens)].op # "run" => W2[Tip(opens)] = W2[Len(out) + 1]
  <1> DEFINE z == Len(out) + 1
             p == Act.pc
             v == Tip(Y).reached
             x == Tip(X)
  <1>1. phase = "codegen"
    BY DEF GenExit, Unwinding
  <1>2. /\ p \in 1..Len(ast) /\ AstTok = ast[p] /\ ast[p].op = "end"
        /\ opens \in Seq(Nat) /\ Len(out) \in Nat
    BY <1>1, GenFacts
  <1>3. Complete(E, L, heap, ast)
    BY DEF Written
  <1>4. /\ Waited(E, L, B2, W2, ast, out', Act, Tip(X), Tip(Y))
        /\ W2[z] = Prefix(Tip(Y).reached, Tip(Y).left) /\ B2[z] = opens
    BY <1>1, AwaitedOver
  <1>5. /\ x \in StandType /\ x.blocks = opens /\ Spot(E, ast, out, p, Act.hi, x)
        /\ Region(E, ast, p, Act.hi, x.lo) /\ x.under \in Nat
    BY <1>1, GenFacts, WrittenFacts
  <1>6. Reached(L, B2, out', p, opens, v) /\ Kept(E, L, W2, out', p, opens, v)
    BY <1>4, <1>5 DEF Waited
  <1>7. Tip(Y).left = Len(L[Tip(E[p])])
    <2>1. Tip(Y).left = DueFrom(E, L, ast, p)
      BY GenLeft
    <2> QED
      BY <1>2, <2>1 DEF DueFrom
  <1>8. /\ E[p] \in Seq(Nat) /\ E[x.lo] \in Seq(Nat) /\ Len(E[x.lo]) \in Nat
        /\ Len(E[x.lo]) < Len(E[p]) /\ Len(E[p]) \in Nat
    BY <1>3, <1>5, RegionFacts
  <1>9. Lined(out, opens, x.under, E[p], Len(E[x.lo])) /\ BlocksOK(out, opens)
    BY <1>5 DEF Spot
  <1> HIDE DEF p, v, x, z
  <1>10. Len(opens) \in 1..Len(opens) /\ out[Tip(opens)].src = Tip(E[p])
    BY <1>2, <1>5, <1>8, <1>9, LinedTip, SMTT(30)
  <1>11. out'[Tip(opens)] = out[Tip(opens)]
    <2>1. Tip(opens) \in 1..Len(out)
      BY <1>9, <1>10 DEF BlocksOK, Tip
    <2>2. Writes(B, heap, ast, out, t, opens', B2, out')
      BY DEF Tells
    <2>3. \A i \in 1..Len(out) : out'[i] = out[i]
      BY <2>2, WritesFacts
    <2> QED
      BY <2>1, <2>3
  <1>12. out'[Tip(opens)].op # "run" => W2[Tip(opens)] = W2[z]
    <2> SUFFICES ASSUME out'[Tip(opens)].op # "run" PROVE W2[Tip(opens)] = W2[z]
      OBVIOUS
    <2> DEFINE k == Len(opens)
    <2>1. k \in 1..k /\ out'[opens[k]].src = Tip(E[p]) /\ out'[opens[k]].op # "run"
      BY <1>10, <1>11 DEF Tip
    <2>2. In(Tip(E[p]), E[p])
      <3>1. Len(E[p]) \in 1..Len(E[p])
        BY <1>8
      <3> QED
        BY <3>1 DEF In, Tip
    <2>3. Last(out', opens, k)
      <3>1. \A j \in k + 1..Len(opens) : FALSE
        BY <2>1
      <3> QED
        BY <3>1 DEF Last
    <2>4. W2[opens[k]] = Prefix(v, Len(L[out'[opens[k]].src]))
      BY <1>6, <2>1, <2>2, <2>3 DEF Kept
    <2> QED
      BY <1>4, <1>7, <2>1, <2>4 DEF Tip, v
  <1>13. opens # <<>>
    BY <1>2, <1>10
  <1> QED
    BY <1>2, <1>4, <1>6, <1>7, <1>10, <1>11, <1>12, <1>13 DEF p, v, z

\* The innermost C block is one of the body's own.
LEMMA EndOp ==
    ASSUME NEW E, NEW L, NEW h, NEW a, Complete(E, L, h, a), NEW o, Len(o) \in Nat,
           NEW p, NEW hi, NEW x \in StandType, Spot(E, a, o, p, hi, x),
           a[p].op = "end", p # hi
    PROVE  o[Tip(x.blocks)].op \in {"if", "for"}
  <1> HIDE DEF Tip
  <1> QED
    BY SpotEnd, ZenonT(60)

\* The end of a block that is not the whole body: its defers wait no more.
LEMMA GenEndAwaited ==
    ASSUME IInv, GenInv, ~dropped, GenExit, AstTok.op = "end", Act.pc # Act.hi,
           NEW E, NEW L, NEW B, NEW X, NEW W, NEW Y,
           Written(E, L, heap, ast, out, acts, opens, B, X),
           Awaited(E, L, B, W, ast, out, acts, X, Y)
    PROVE  \E W2, Y2 : Awaited(E, L, Append(B, opens'), W2, ast, out', acts', Onto(X, opens'), Y2)
  <1> DEFINE t == CTok("end", Null, Tip(opens), Act.pc)
             z == Len(out) + 1
             p == Act.pc
             q == p + 1
             s0 == Tip(E[p])
             B2 == Append(B, opens')
             v == Tip(Y).reached
             m == Tip(Y).left
             w == Prefix(v, m)
  <1>1. phase = "codegen" /\ acts' = Advance(q)
    BY DEF GenExit, Unwinding
  <1>2. /\ p \in 1..Len(ast) /\ Len(ast) \in Nat /\ ast[p].op = "end" /\ Len(out) \in Nat
    BY <1>1, GenFacts
  <1>3. Complete(E, L, heap, ast)
    BY DEF Written
  <1>4. opens' \in Seq(Nat) /\ Writes(B, heap, ast, out, t, opens', B2, out')
    BY EndToken
  <1>5. opens' = Prefix(opens, Len(opens) - 1) /\ t.op = "end"
    BY EndToken DEF CTok
  <1>6. /\ v \in Seq(Nat) /\ Len(v) = Len(L[p]) /\ m \in Nat /\ m <= Len(v) /\ Waits(B, W, ast, out)
    BY <1>1, AwaitedFacts
  <1>7. w \in Seq(Nat) /\ Len(w) = m /\ \A j \in 1..m : w[j] = v[j]
    <2> HIDE DEF v, m
    <2>1. m \in 0..Len(v)
      BY <1>6
    <2> QED
      BY <1>6, <2>1, BeginsPrefix
  <1> HIDE DEF t, B2, w
  <1>8. PICK W2 : Tells(B, W, heap, ast, out, t, opens', w, B2, W2, out')
    BY <1>4, <1>6, <1>7 DEF Tells
  <1>9. /\ m = Len(L[s0]) /\ W2[z] = w /\ B2[z] = opens
        /\ Reached(L, B2, out', p, opens, v) /\ Kept(E, L, W2, out', p, opens, v)
        /\ opens \in Seq(Nat) /\ opens # <<>> /\ out'[Tip(opens)].src = s0
        /\ out'[Tip(opens)] = out[Tip(opens)]
    BY <1>8, EndWaits DEF w
  <1>10. out'[Tip(opens)].op # "run" => W2[Tip(opens)] = W2[z]
    BY <1>8, EndWaits
  <1>11. /\ Tip(X) \in StandType /\ Tip(X).blocks = opens /\ Spot(E, ast, out, p, Act.hi, Tip(X))
    BY <1>1, GenFacts, WrittenFacts
  <1>12. out[Tip(opens)].op \in {"if", "for"}
    <2> DEFINE x == Tip(X)
    <2>1. x \in StandType /\ x.blocks = opens /\ Spot(E, ast, out, p, Act.hi, x) /\ p # Act.hi
      BY <1>11
    <2> HIDE DEF x, p
    <2>2. out[Tip(x.blocks)].op \in {"if", "for"}
      BY <1>2, <1>3, <2>1, EndOp
    <2> QED
      BY <2>1, <2>2
  <1>13. out'[z] = t /\ Len(out') = z
    BY <1>8, TellsFacts
  <1>14. W2[Len(out) + 2] = w
    BY <1>8, TellsNew
  <1>15. Written(E, L, heap, ast, out', acts', opens', B2, Onto(X, opens'))
    BY GenEndWritten DEF B2
  <1>16. /\ s0 \in 1..p - 1 /\ s0 \in 1..Len(ast) + 1
    <2> HIDE DEF p
    <2>1. s0 \in 1..p - 1
      BY <1>2, <1>3, TreeFlows
    <2> QED
      BY <1>2, <2>1
  <1>17. L[q] = L[s0]
    <2>1. ast[s0].op # "defer"
      <3>1. Text(B2, heap, ast, out')
        BY <1>15 DEF Written
      <3>2. Tip(opens) \in 1..Len(out')
        <4>1. BlocksOK(out, opens)
          BY <1>11 DEF Spot
        <4>2. Len(opens) \in 1..Len(opens)
          BY <1>9
        <4>3. Tip(opens) \in 1..Len(out)
          BY <4>1, <4>2 DEF BlocksOK, Tip
        <4> QED
          BY <1>2, <1>13, <4>3
      <3>3. CFlow(B2, heap, ast, out', Tip(opens))
        BY <3>1, <3>2 DEF Text
      <3>4. out'[Tip(opens)].op \in {"if", "for"}
        BY <1>9, <1>12
      <3>5. ast[s0].op = out'[Tip(opens)].op
        BY <1>9, <3>3, <3>4 DEF CFlow
      <3> QED
        BY <3>4, <3>5
    <2> HIDE DEF p
    <2>2. ast[Tip(E[p])].op # "defer" => L[p + 1] = L[Tip(E[p])]
      BY <1>2, <1>3, TreeFlows
    <2> QED
      BY <2>1, <2>2
  <1>18. L[p] \in Seq(Nat) /\ L[s0] \in Seq(Nat) /\ Begins(L[s0], L[p])
    <2>1. p \in 1..Len(ast) + 1
      BY <1>2
    <2>2. Begins(L[Tip(E[p])], L[p])
      BY <1>2, <1>3, TreeFlows
    <2> QED
      BY <1>3, <1>16, <2>1, <2>2, TreeFacts
  <1> HIDE DEF v, p, q, m, s0
  <1>19. Kept(E, L, W2, out', q, opens', w)
    <2>1. Kept(E, L, W2, out', p + 1, opens', Prefix(v, m))
      <3>1. m = Len(L[Tip(E[p])]) /\ out'[Tip(opens)].src = Tip(E[p])
        BY <1>9 DEF s0
      <3> QED
        BY <1>2, <1>3, <1>5, <1>6, <1>9, <3>1, KeptEnd
    <2> QED
      BY <2>1 DEF w, q
  <1>20. Reached(L, B2, out', q, opens', w)
    <2>1. Len(w) = Len(L[q])
      BY <1>7, <1>9, <1>17
    <2>2. Len(v) \in Nat /\ Len(L[s0]) \in Nat
      BY <1>6, <1>18
    <2>3. W2[Tip(opens)] = w
      BY <1>9, <1>10, <1>12
    <2>4. B2[Tip(opens)] = opens'
      <3>1. Text(B2, heap, ast, out')
        BY <1>15 DEF Written
      <3>2. z \in 1..Len(out')
        BY <1>2, <1>13
      <3>3. CFlow(B2, heap, ast, out', z)
        BY <3>1, <3>2 DEF Text
      <3>4. B2[z + 1] = B2[Tip(B2[z])]
        BY <1>5, <1>13, <3>3 DEF CFlow
      <3>5. B2[z + 1] = opens'
        <4>1. z + 1 = Len(out) + 2
          BY <1>2
        <4>2. B2[Len(out) + 2] = opens'
          BY <1>8, TellsNew
        <4> QED
          BY <4>1, <4>2
      <3> QED
        BY <1>9, <3>4, <3>5
    <2>5. \A j \in 1..Len(w) : Begins(B2[w[j]], opens')
      <3>1. Tip(opens) \in 1..Len(out) + 1 /\ Tip(opens) \in Nat
        <4>1. BlocksOK(out, opens)
          BY <1>11 DEF Spot
        <4>2. Len(opens) \in 1..Len(opens)
          BY <1>9
        <4>3. Tip(opens) \in 1..Len(out)
          BY <4>1, <4>2 DEF BlocksOK, Tip
        <4> QED
          BY <1>2, <4>3
      <3>2. WaitPlace(B, W, out, Tip(opens))
        BY <1>6, <3>1 DEF Waits
      <3>3. \A i \in 1..Len(out) + 1 : B2[i] = B[i] /\ W2[i] = W[i]
        BY <1>8, TellsFacts
      <3>4. W[Tip(opens)] = w /\ B[Tip(opens)] = opens'
        BY <2>3, <2>4, <3>1, <3>3
      <3>5. \A j \in 1..Len(w) : w[j] \in 1..Tip(opens) - 1 /\ Begins(B[w[j]], opens')
        BY <3>2, <3>4 DEF WaitPlace
      <3>6. \A i \in 1..Tip(opens) - 1 : i \in 1..Len(out) + 1
        BY <1>2, <3>1
      <3> QED
        BY <3>3, <3>5, <3>6
    <2>6. \A j \in 1..Len(w) :
             j \in 1..Len(v) /\ w[j] = v[j] /\ L[q][j] = L[p][j] /\ Begins(B2[v[j]], opens')
      <3> SUFFICES ASSUME NEW j \in 1..Len(w)
                   PROVE  j \in 1..Len(v) /\ w[j] = v[j] /\ L[q][j] = L[p][j] /\ Begins(B2[v[j]], opens')
        OBVIOUS
      <3>1. j \in 1..m /\ j \in 1..Len(v) /\ j \in 1..Len(L[s0])
        BY <1>6, <1>7, <1>9, <2>2
      <3>2. L[s0][j] = L[p][j]
        BY <1>18, <3>1 DEF Begins
      <3> QED
        BY <1>7, <1>17, <2>5, <3>1, <3>2
    <2> QED
      BY <1>9, <2>1, <2>6, ReachedMoves
  <1>21. WaitTok(B2, W2, ast, out', z)
    <2>1. W2[z + 1] = W2[z]
      <3>1. z + 1 = Len(out) + 2
        BY <1>2
      <3> QED
        BY <1>9, <1>14, <3>1
    <2>2. out'[z].op = "end"
      BY <1>5, <1>13
    <2>3. W2[Tip(B2[z])] = W2[z]
      BY <1>9, <1>10, <1>12
    <2> HIDE DEF z
    <2> QED
      BY <2>1, <2>2, <2>3 DEF WaitTok
  <1>22. \A j \in 1..Len(w) : j <= Len(L[Tip(X).lo]) => w[j] = Tip(Y).reached[j]
    BY <1>7 DEF v
  <1>23. \E Y2 : Awaited(E, L, B2, W2, ast, out', acts', Onto(X, opens'), Y2)
    <2>1. WaitTok(B2, W2, ast, out', Len(out) + 1)
      BY <1>21
    <2> HIDE DEF z
    <2> QED
      BY <1>1, <1>4, <1>7, <1>8, <1>15, <1>19, <1>20, <1>22, <2>1, GenArrives, SMTT(30)
  <1> QED
    BY <1>23 DEF B2

\* Sequences that agree on their first k elements.
LEMMA PrefixSame ==
    ASSUME NEW s \in Seq(Nat), NEW t \in Seq(Nat), NEW k \in Nat, k <= Len(s), k <= Len(t),
           \A i \in 1..k : s[i] = t[i]
    PROVE  Prefix(s, k) = Prefix(t, k)
  <1>1. k \in 0..Len(s) /\ k \in 0..Len(t)
    OBVIOUS
  <1> DEFINE u == Prefix(s, k)
             v == Prefix(t, k)
  <1>2. /\ u \in Seq(Nat) /\ Len(u) = k /\ \A i \in 1..k : u[i] = s[i]
        /\ v \in Seq(Nat) /\ Len(v) = k /\ \A i \in 1..k : v[i] = t[i]
    BY <1>1, BeginsPrefix
  <1> HIDE DEF u, v
  <1>3. Begins(u, v)
    <2>1. Len(u) = Len(v) /\ Len(u) = k /\ Len(u) <= Len(v)
      BY <1>2
    <2>2. ASSUME NEW i \in 1..k PROVE u[i] = v[i]
      BY <1>2
    <2> QED
      BY <2>1, <2>2 DEF Begins
  <1>4. u = v
    BY <1>2, <1>3, BeginsOrder
  <1> QED
    BY <1>4 DEF u, v

\* The first m activations.
Shorter(A, X, A2, X2, m) == Len(A2) = m /\ \A i \in 1..m : A2[i] = A[i] /\ X2[i] = X[i]

\* The innermost activation has gone: the others have come by what they had.
LEMMA WaitingPop ==
    ASSUME NEW E, NEW L, NEW B, NEW W, NEW a, NEW o, NEW A, NEW X, NEW Y,
           Waiting(E, L, B, W, a, o, A, X, Y), NEW n \in Nat, n > 0, Len(A) = n,
           NEW A2, NEW X2, Shorter(A, X, A2, X2, n - 1)
    PROVE  /\ Prefix(Y, n - 1) \in Seq(WaitType) /\ Len(Prefix(Y, n - 1)) = n - 1
           /\ \A i \in 1..n - 1 : Prefix(Y, n - 1)[i] = Y[i]
           /\ Waiting(E, L, B, W, a, o, A2, X2, Prefix(Y, n - 1))
  <1>1. Y \in Seq(WaitType) /\ Len(Y) = n
    BY DEF Waiting
  <1> DEFINE m == n - 1
             Y2 == Prefix(Y, m)
  <1>2. m \in 0..Len(Y) /\ m \in Nat /\ m < n
    BY <1>1
  <1>3. Y2 \in Seq(WaitType) /\ Len(Y2) = m /\ \A i \in 1..m : Y2[i] = Y[i]
    BY <1>1, <1>2 DEF Prefix
  <1> HIDE DEF m, Y2
  <1>4. m = n - 1 /\ Len(A2) = m /\ \A i \in 1..m : A2[i] = A[i] /\ X2[i] = X[i]
    BY DEF m, Shorter
  <1>5. ASSUME NEW i \in 1..m PROVE Waited(E, L, B, W, a, o, A2[i], X2[i], Y2[i])
    <2>1. i \in 1..Len(A)
      BY <1>2
    <2> QED
      BY <1>3, <1>4, <2>1 DEF Waiting
  <1>6. ASSUME NEW i \in 1..m - 1
        PROVE  Linked(L, a, A2[i], Y2[i], X2[i + 1], Y2[i + 1])
    <2>1. i \in 1..Len(A) - 1 /\ i \in 1..m /\ i + 1 \in 1..m
      BY <1>2
    <2> HIDE DEF Linked
    <2>2. Linked(L, a, A[i], Y[i], X[i + 1], Y[i + 1])
      BY <2>1 DEF Waiting
    <2> QED
      BY <1>3, <1>4, <2>1, <2>2
  <1>7. Waiting(E, L, B, W, a, o, A2, X2, Y2)
    BY <1>3, <1>4, <1>5, <1>6 DEF Waiting
  <1> QED
    BY <1>3, <1>4, <1>7 DEF m, Y2

\* What waited where a body was called for is what is left behind the body.
LEMMA LeftBehind ==
    ASSUME NEW E, NEW L, NEW B, NEW W, NEW a, NEW o, NEW A, NEW X, NEW Y,
           Waiting(E, L, B, W, a, o, A, X, Y), NEW n \in Nat, n > 1, Len(A) = n,
           NEW m, m = Len(L[X[n].lo])
    PROVE  /\ Y[n - 1].reached \in Seq(Nat) /\ Y[n].reached \in Seq(Nat)
           /\ Y[n - 1].left = m
           /\ Prefix(Y[n - 1].reached, m) = Prefix(Y[n].reached, m)
  <1> DEFINE i == n - 1
             y == Y[i]
             y2 == Y[n]
             x2 == X[n]
             v == y.reached
             v2 == y2.reached
  <1>1. i \in 1..n - 1 /\ i \in 1..n /\ n \in 1..n /\ i + 1 = n
    OBVIOUS
  <1>2. Y \in Seq(WaitType) /\ Len(Y) = n
    BY DEF Waiting
  <1>3. y \in WaitType /\ y2 \in WaitType
    BY <1>1, <1>2
  <1>4. Linked(L, a, A[i], y, x2, y2)
    BY <1>1 DEF Waiting
  <1>5. Waited(E, L, B, W, a, o, A[i], X[i], y)
    BY <1>1 DEF Waiting
  <1> HIDE DEF y, y2, x2
  <1>6. v \in Seq(Nat) /\ v2 \in Seq(Nat) /\ y.left \in Nat
    BY <1>3 DEF WaitType
  <1>7. y.left = m /\ m <= Len(v2) /\ \A j \in 1..m : v2[j] = v[j]
    BY <1>4 DEF Linked, x2
  <1>8. m <= Len(v)
    BY <1>5, <1>7 DEF Waited, LeftOK
  <1>9. m \in Nat
    BY <1>6, <1>7
  <1> HIDE DEF v, v2
  <1>10. Prefix(v, m) = Prefix(v2, m)
    BY <1>6, <1>7, <1>8, <1>9, PrefixSame
  <1> QED
    BY <1>6, <1>7, <1>10 DEF v, v2, y, y2

\* The end of a body: what waits is what waited where it was called for.
LEMMA GenPopAwaited ==
    ASSUME IInv, GenInv, ~dropped, GenExit, AstTok.op = "end", Act.pc = Act.hi,
           NEW E, NEW L, NEW B, NEW X, NEW W, NEW Y,
           Written(E, L, heap, ast, out, acts, opens, B, X),
           Awaited(E, L, B, W, ast, out, acts, X, Y)
    PROVE  \E W2, Y2 : Awaited(E, L, Append(B, opens'), W2, ast, out', acts',
                               Prefix(X, Len(X) - 1), Y2)
  <1> DEFINE t == CTok("end", Null, Tip(opens), Act.pc)
             z == Len(out) + 1
             n == Len(acts)
             B2 == Append(B, opens')
             X2 == Prefix(X, n - 1)
             Y2 == Prefix(Y, n - 1)
             v == Tip(Y).reached
             m == Tip(Y).left
             w == Prefix(v, m)
  <1>1. phase = "codegen"
    BY DEF GenExit, Unwinding
  <1>2. /\ Act.pc \in 1..Len(ast) /\ Len(ast) \in Nat /\ ast[Act.pc].op = "end" /\ Len(out) \in Nat
        /\ acts \in Seq(ActType) /\ n \in Nat /\ n > 0
    BY <1>1, GenFacts
  <1>3. Complete(E, L, heap, ast)
    BY DEF Written
  <1>4. opens' \in Seq(Nat) /\ Writes(B, heap, ast, out, t, opens', B2, out')
    BY EndToken
  <1>5. t.op = "end"
    BY DEF CTok
  <1>6. /\ v \in Seq(Nat) /\ m \in Nat /\ m <= Len(v) /\ Waits(B, W, ast, out)
        /\ Tip(Y) = Y[n] /\ Len(v) \in Nat
    BY <1>1, AwaitedFacts
  <1>7. w \in Seq(Nat) /\ Len(w) = m
    <2> HIDE DEF v, m
    <2>1. m \in 0..Len(v)
      BY <1>6
    <2> QED
      BY <1>6, <2>1, BeginsPrefix
  <1> HIDE DEF t, B2, w
  <1>8. PICK W2 : Tells(B, W, heap, ast, out, t, opens', w, B2, W2, out')
    BY <1>4, <1>6, <1>7 DEF Tells
  <1>9. /\ m = Len(L[Tip(E[Act.pc])]) /\ W2[z] = w /\ B2[z] = opens
        /\ out'[Tip(opens)].op # "run" => W2[Tip(opens)] = W2[z]
    BY <1>8, EndWaits DEF w
  <1>10. /\ X \in Seq(StandType) /\ Len(X) = n /\ Tip(X) = X[n]
         /\ Region(E, ast, Act.pc, Act.hi, Tip(X).lo)
    BY <1>1, GenFacts, WrittenFacts
  <1>11. m = Len(L[X[n].lo])
    BY <1>9, <1>10 DEF Region
  <1>12. out'[z] = t /\ Len(out') = z
    BY <1>8, TellsFacts
  <1>13. W2[Len(out) + 2] = w
    BY <1>8, TellsNew
  <1>14. WaitTok(B2, W2, ast, out', z)
    <2>1. W2[z + 1] = W2[z]
      <3>1. z + 1 = Len(out) + 2
        BY <1>2
      <3> QED
        BY <1>9, <1>13, <3>1
    <2>2. out'[z].op = "end"
      BY <1>5, <1>12
    <2>3. out'[Tip(B2[z])].op # "run" => W2[Tip(B2[z])] = W2[z]
      BY <1>9
    <2> HIDE DEF z
    <2> QED
      BY <2>1, <2>2, <2>3 DEF WaitTok
  <1>15. Waiting(E, L, B2, W2, ast, out', acts, X, Y)
    BY <1>1, <1>8, AwaitedOver
  <1>16. /\ acts' = Prefix(acts, n - 1)
         /\ n > 1 => opens' = X[n - 1].blocks
    BY <1>2, <1>10, GenPopWritten
  <1>17. /\ Len(acts') = n - 1 /\ \A i \in 1..n - 1 : acts'[i] = acts[i] /\ X2[i] = X[i]
    BY <1>2, <1>10, <1>16 DEF Prefix
  <1> HIDE DEF X2, n
  <1>18. /\ Y2 \in Seq(WaitType) /\ Len(Y2) = n - 1 /\ \A i \in 1..n - 1 : Y2[i] = Y[i]
         /\ Waiting(E, L, B2, W2, ast, out', acts', X2, Y2)
    <2>1. Len(acts) = n
      BY DEF n
    <2>2. n \in Nat /\ n > 0
      BY <1>2
    <2>3. Shorter(acts, X, acts', X2, n - 1)
      BY <1>17 DEF Shorter
    <2> QED
      BY <1>15, <2>1, <2>2, <2>3, WaitingPop
  <1>19. Len(acts') > 0 => opens' = X2[Len(acts')].blocks
    <2> SUFFICES ASSUME Len(acts') > 0 PROVE opens' = X2[Len(acts')].blocks
      OBVIOUS
    <2>1. n > 1 /\ n - 1 \in 1..n - 1 /\ Len(acts') = n - 1
      BY <1>2, <1>17
    <2> QED
      BY <1>16, <1>17, <2>1
  <1> HIDE DEF v, m, Y2
  <1>20. w = IF Len(Y2) = 0 THEN <<>> ELSE Prefix(Tip(Y2).reached, Tip(Y2).left)
    <2>1. CASE n = 1
      <3>1. Len(Y2) = 0
        BY <1>18, <2>1
      <3>2. X[1].under = 0
        <4>1. Standing(E, L, ast, out, acts, X) /\ Len(acts) > 0
          BY <1>2 DEF Written, n
        <4> QED
          BY <4>1 DEF Standing
      <3>3. X[1].lo = 1
        <4>1. Spot(E, ast, out, Act.pc, Act.hi, Tip(X))
          BY <1>1, GenFacts, WrittenFacts
        <4> QED
          BY <1>10, <2>1, <3>2, <4>1 DEF Spot
      <3>4. L[1] = <<>>
        BY <1>3 DEF Complete, Scoped
      <3>5. m = 0
        BY <1>11, <2>1, <3>3, <3>4
      <3>6. w = <<>>
        BY <1>7, <3>5, EmptySeq
      <3> QED
        BY <3>1, <3>6
    <2>2. CASE n > 1
      <3>1. Len(acts) = n
        BY DEF n
      <3>2. Y[n - 1].left = m /\ Prefix(Y[n - 1].reached, m) = Prefix(Y[n].reached, m)
        BY <1>2, <1>11, <1>15, <2>2, <3>1, LeftBehind
      <3>3. w = Prefix(Y[n].reached, m)
        BY <1>6 DEF w, v
      <3>4. Len(Y2) # 0 /\ n - 1 \in 1..n - 1 /\ Len(Y2) = n - 1
        BY <1>2, <1>18, <2>2
      <3>5. Tip(Y2) = Y[n - 1]
        BY <1>18, <3>4 DEF Tip
      <3> QED
        BY <3>2, <3>3, <3>4, <3>5
    <2> QED
      BY <1>2, <2>1, <2>2
  <1>21. Awaited(E, L, B2, W2, ast, out', acts', X2, Y2)
    <2>1. WaitTok(B2, W2, ast, out', Len(out) + 1)
      BY <1>14
    <2>2. Len(acts') \in Nat
      BY <1>2, <1>17
    <2> HIDE DEF z
    <2> QED
      BY <1>8, <1>18, <1>19, <1>20, <2>1, <2>2, AwaitedGrows
  <1>22. X2 = Prefix(X, Len(X) - 1)
    BY <1>10 DEF X2
  <1> QED
    BY <1>21, <1>22 DEF B2

\* codegen_defers is at the newest defer that is left.
LEMMA UnwindNow ==
    ASSUME NEW E, NEW L, Complete(E, L, heap, ast), ResolveTypeOK, ExitsUnwind, ~dropped,
           NEW r, r.pc \in 1..Len(ast), ast[r.pc].op \in Exits, r.current # ast[r.pc].end,
           NEW y \in WaitType, Len(y.reached) = Len(L[r.pc]), LeftOK(L, ast, r, y)
    PROVE  y.left \in 1..Len(L[r.pc]) /\ r.current = L[r.pc][y.left]
  <1> DEFINE p == r.pc
             m == DueFrom(E, L, ast, p)
             u == ast[p].due
             n == Len(L[p])
             k == y.left
             i == k - m
  <1>0. p \in 1..Len(ast) /\ ast[p].op \in Exits /\ m = DueFrom(E, L, ast, p)
    OBVIOUS
  <1>1. /\ m \in 0..n /\ n \in Nat /\ Len(u) = n - m
        /\ \A j \in 1..Len(u) : u[j] = L[p][m + j]
    <2> HIDE DEF p, m
    <2>1. m \in 0..Len(L[p]) /\ Len(L[p]) \in Nat
      BY <1>0, DueFacts
    <2>2. Len(ast[p].due) = Len(L[p]) - m
      BY <1>0, DueFacts
    <2>3. ASSUME NEW j \in 1..Len(ast[p].due)
          PROVE  ast[p].due[j] = L[p][m + j] /\ m + j \in 1..Len(L[p])
      BY <1>0, DueFacts, SMTT(30)
    <2> QED
      BY <2>1, <2>2, <2>3
  <1>2. k \in Nat /\ k <= n /\ n <= k + Len(u)
    BY DEF LeftOK, WaitType
  <1>3. r.current = IF n < k + Len(u) THEN L[p][k] ELSE ast[p].end
    BY DEF LeftOK
  <1>5. r.current # ast[p].end
    OBVIOUS
  <1> HIDE DEF p, m, u, n, k
  <1>8. n < k + Len(u) /\ r.current = L[p][k]
    BY <1>3, <1>5
  <1>9. k > m /\ k \in 1..n /\ i \in 1..Len(u) /\ m + i = k
    BY <1>1, <1>2, <1>8
  <1> QED
    BY <1>8, <1>9 DEF p, k, n

\* codegen_defers goes on to the next older defer that is left.
LEMMA UnwindLeft ==
    ASSUME NEW E, NEW L, Complete(E, L, heap, ast), ResolveTypeOK, ExitsUnwind, ~dropped,
           NEW r, r.pc \in 1..Len(ast), ast[r.pc].op \in Exits, r.current # ast[r.pc].end,
           NEW y \in WaitType, Len(y.reached) = Len(L[r.pc]), LeftOK(L, ast, r, y),
           NEW y1 \in WaitType, y1.reached = y.reached, y1.left = y.left - 1,
           NEW r1, r1.pc = r.pc, r1.current = heap[r.current].prev
    PROVE  /\ y.left \in 1..Len(L[r.pc]) /\ r.current = L[r.pc][y.left]
           /\ LeftOK(L, ast, r1, y1)
  <1> DEFINE p == r.pc
             m == DueFrom(E, L, ast, p)
             u == ast[p].due
             n == Len(L[p])
             k == y.left
             i == k - m
  <1>0. p \in 1..Len(ast) /\ ast[p].op \in Exits /\ m = DueFrom(E, L, ast, p)
    OBVIOUS
  <1>1. /\ m \in 0..n /\ n \in Nat /\ Len(u) = n - m
        /\ \A j \in 1..Len(u) : u[j] = L[p][m + j]
    <2> HIDE DEF p, m
    <2>1. m \in 0..Len(L[p]) /\ Len(L[p]) \in Nat
      BY <1>0, DueFacts
    <2>2. Len(ast[p].due) = Len(L[p]) - m
      BY <1>0, DueFacts
    <2>3. ASSUME NEW j \in 1..Len(ast[p].due)
          PROVE  ast[p].due[j] = L[p][m + j] /\ m + j \in 1..Len(L[p])
      BY <1>0, DueFacts, SMTT(30)
    <2> QED
      BY <2>1, <2>2, <2>3
  <1>2. k \in Nat /\ k <= n /\ n <= k + Len(u)
    BY DEF LeftOK, WaitType
  <1>3. r.current = IF n < k + Len(u) THEN L[p][k] ELSE ast[p].end
    BY DEF LeftOK
  <1>4. \A j \in 1..Len(u) : heap[u[j]].prev = IF j = 1 THEN ast[p].end ELSE u[j - 1]
    BY DEF ExitsUnwind, Unwinds
  <1>5. r.current # ast[p].end /\ r1.pc = p /\ r1.current = heap[r.current].prev
    OBVIOUS
  <1>6. y1.left = k - 1 /\ Len(y1.reached) = n
    OBVIOUS
  <1>7. u = ast[p].due
    OBVIOUS
  <1> HIDE DEF p, m, u, n, k
  <1>8. n < k + Len(u) /\ r.current = L[p][k]
    BY <1>3, <1>5
  <1>9. k > m /\ k \in 1..n /\ i \in 1..Len(u) /\ m + i = k
    BY <1>1, <1>2, <1>8
  <1>10. u[i] = L[p][k]
    BY <1>1, <1>9
  <1>11. r1.current = IF i = 1 THEN ast[p].end ELSE u[i - 1]
    BY <1>4, <1>5, <1>8, <1>9, <1>10
  <1>12. i # 1 => i - 1 \in 1..Len(u) /\ m + (i - 1) = k - 1
    BY <1>1, <1>2, <1>9, SMTT(30)
  <1>13. i # 1 => u[i - 1] = L[p][k - 1]
    BY <1>1, <1>12
  <1>14. i # 1 <=> n < (k - 1) + Len(u)
    BY <1>1, <1>2, <1>9
  <1>15. r1.current = IF n < (k - 1) + Len(u) THEN L[p][k - 1] ELSE ast[p].end
    BY <1>11, <1>13, <1>14
  <1>16. k - 1 <= n /\ n <= (k - 1) + Len(u)
    BY <1>1, <1>2, <1>9, SMTT(30)
  <1>17. LeftOK(L, ast, r1, y1)
    BY <1>0, <1>5, <1>6, <1>7, <1>15, <1>16 DEF LeftOK
  <1> QED
    BY <1>8, <1>9, <1>17 DEF p, k, n

\* Where the body of a defer begins, the older ones are in force.
LEMMA UnwindOlder ==
    ASSUME NEW E, NEW L, Complete(E, L, heap, ast), NEW p \in 1..Len(ast),
           NEW k \in 1..Len(L[p]), NEW d, d = L[p][k]
    PROVE  Len(L[heap[d].lo]) = k - 1
  <1>1. p \in 1..Len(ast) + 1
    BY TreeFacts
  <1>2. InForce(E, L, heap, p)
    BY <1>1, TreeFacts
  <1> QED
    BY <1>2 DEF InForce

\* The body of the defer d, the k-th in force at p, starts in the block z: t is
\* the C blocks around it and w the defers that wait, both in front of it.
BodyStarts(L, B, o, p, s, v, k, d, z, t, m, w) ==
    /\ \A j \in 1..Len(v) : B[v[j]] \in Seq(Nat)
    /\ k \in 1..Len(L[p]) /\ d \in 1..Len(heap) /\ d = L[p][k]
    /\ z \in Nat /\ o[z].op = "run" /\ o[z].src = heap[d].lo
    /\ t \in Seq(Nat) /\ Longer(t, s, z)
    /\ m = k - 1 /\ w = Prefix(v, m)

\* The body of the newest defer that is left begins where the older ones wait.
LEMMA UnwindBody ==
    ASSUME NEW E, NEW L, Complete(E, L, heap, ast), ExitsUnwind, ~dropped,
           NEW B, NEW W, NEW o, NEW p \in 1..Len(ast), NEW s \in Seq(Nat), NEW v \in Seq(Nat),
           Reached(L, B, o, p, s, v), Kept(E, L, W, o, p, s, v),
           NEW k, NEW d, NEW z, NEW t, NEW m, NEW w,
           BodyStarts(L, B, o, p, s, v, k, d, z, t, m, w),
           NEW x, x.blocks = t, NEW y \in WaitType, y.reached = w, y.left = m
    PROVE  Waited(E, L, B, W, ast, o, Activation(heap[d].lo + 1, heap[d].hi), x, y)
  <1> DEFINE lo == heap[d].lo
             hi == heap[d].hi
             q == lo + 1
             n == Len(L[p])
             e == L[lo]
  <1>0. /\ \A j \in 1..Len(v) : B[v[j]] \in Seq(Nat)
        /\ k \in 1..Len(L[p]) /\ d \in 1..Len(heap) /\ d = L[p][k]
        /\ z \in Nat /\ o[z].op = "run" /\ o[z].src = heap[d].lo
        /\ t \in Seq(Nat) /\ Longer(t, s, z)
        /\ m = k - 1 /\ w = Prefix(v, m)
    BY DEF BodyStarts
  <1> USE <1>0
  <1>1. p \in 1..Len(ast) + 1 /\ Len(ast) \in Nat
    BY TreeFacts
  <1>2. BodyIn(E, L, heap, ast, d) /\ InForce(E, L, heap, p) /\ L[p] \in Seq(Nat) /\ n \in Nat
    BY <1>1, TreeFacts
  <1>3. Begins(e, L[p]) /\ Len(e) = m /\ Begins(E[lo], E[p])
    BY <1>2 DEF InForce
  <1>4. /\ lo \in 1..Len(ast) /\ hi \in 1..Len(ast) /\ lo < hi /\ ast[lo].op = "defer"
        /\ Region(E, ast, q, hi, lo)
    <2>1. /\ lo \in 1..Len(ast) /\ hi \in 1..Len(ast) /\ lo < hi /\ ast[lo].op = "defer"
          /\ ast[hi].op = "end" /\ E[hi] # <<>> /\ Tip(E[hi]) = lo
          /\ \A i \in lo + 1..hi : Begins(E[lo + 1], E[i])
      BY <1>2, Zenon DEF BodyIn
    <2>2. lo \in 1..q - 1 /\ q \in 1..hi
      <3> HIDE DEF lo, hi
      <3>1. lo \in Nat /\ lo > 0 /\ hi \in Nat /\ lo < hi
        BY <1>1, <2>1
      <3> QED
        BY <3>1
    <2> QED
      BY <2>1, <2>2, SMTT(30) DEF Region
  <1>5. E[lo + 1] = Append(E[lo], lo) /\ L[lo + 1] = L[lo]
    <2>1. ast[lo].op \in Openers
      BY <1>4 DEF Openers
    <2> HIDE DEF lo
    <2>2. Complete(E, L, heap, ast) /\ lo \in 1..Len(ast)
      BY <1>4
    <2>3. ast[lo].op \in Openers => E[lo + 1] = Append(E[lo], lo) /\ L[lo + 1] = L[lo]
      BY <2>2, TreeFlows
    <2> QED
      BY <2>1, <2>3
  <1>6. Len(v) = n /\ m \in 0..Len(v) /\ m \in Nat /\ m <= Len(v) /\ Len(v) \in Nat
    <2>1. Len(v) = Len(L[p])
      BY DEF Reached
    <2>2. k \in 1..Len(L[p]) /\ Len(L[p]) \in Nat
      BY <1>2
    <2> QED
      BY <2>1, <2>2
  <1>7. w \in Seq(Nat) /\ Len(w) = m /\ \A j \in 1..m : w[j] = v[j]
    <2>1. /\ Prefix(v, m) \in Seq(Nat) /\ Len(Prefix(v, m)) = m
          /\ \A j \in 1..m : Prefix(v, m)[j] = v[j]
      BY <1>6, BeginsPrefix
    <2> QED
      BY <2>1
  <1>8. Longer(t, s, z)
    OBVIOUS
  <1>9. Begins(s, t) /\ \A b \in Seq(Nat) : Begins(b, s) => Begins(b, t)
    <2>1. Begins(s, t)
      <3>1. Len(s) \in Nat
        OBVIOUS
      <3> QED
        BY <3>1 DEF Longer, Begins
    <2> QED
      BY <2>1, BeginsOrder
  <1>10. o[z].src = lo
    OBVIOUS
  <1>11. y.reached = w /\ y.left = m
    OBVIOUS
  <1> HIDE DEF lo, hi, n, e
  <1>12. Kept(E, L, W, o, q, t, w)
    <2>1. m = Len(L[lo])
      BY <1>3 DEF e
    <2>2. Kept(E, L, W, o, lo + 1, t, Prefix(v, m))
      BY <1>1, <1>3, <1>4, <1>5, <1>6, <1>8, <1>10, <2>1, KeptBody
    <2> QED
      BY <2>2
  <1>13. Reached(L, B, o, q, t, w)
    <2>1. Len(w) = Len(L[q])
      BY <1>3, <1>5, <1>7 DEF e
    <2>2. \A j \in 1..Len(w) :
             j \in 1..Len(v) /\ w[j] = v[j] /\ L[q][j] = L[p][j] /\ Begins(B[v[j]], t)
      <3> SUFFICES ASSUME NEW j \in 1..Len(w)
                   PROVE  j \in 1..Len(v) /\ w[j] = v[j] /\ L[q][j] = L[p][j] /\ Begins(B[v[j]], t)
        OBVIOUS
      <3>1. j \in 1..m /\ j \in 1..Len(v) /\ j \in 1..Len(e)
        BY <1>3, <1>6, <1>7, SMTT(30)
      <3>2. e[j] = L[p][j]
        BY <1>3, <3>1 DEF Begins
      <3>3. L[q][j] = L[p][j]
        BY <1>5, <3>2 DEF e
      <3>4. Begins(B[v[j]], s) /\ B[v[j]] \in Seq(Nat)
        BY <3>1 DEF Reached
      <3>5. Begins(B[v[j]], t)
        BY <1>9, <3>4
      <3> QED
        BY <1>7, <3>1, <3>3, <3>5
    <2> HIDE DEF q
    <2>3. ASSUME NEW j \in 1..Len(w)
          PROVE  /\ w[j] \in 1..Len(o) /\ o[w[j]].op = "reach" /\ o[w[j]].defer = L[q][j]
                 /\ B[w[j]] # <<>> /\ Begins(B[w[j]], t)
      <3>1. /\ j \in 1..Len(v) /\ w[j] = v[j] /\ L[q][j] = L[p][j] /\ Begins(B[v[j]], t)
        BY <2>2
      <3>2. /\ v[j] \in 1..Len(o) /\ o[v[j]].op = "reach" /\ o[v[j]].defer = L[p][j]
            /\ B[v[j]] # <<>>
        BY <3>1 DEF Reached
      <3> QED
        BY <3>1, <3>2
    <2> QED
      BY <2>1, <2>3 DEF Reached
  <1>14. LeftOK(L, ast, Activation(q, hi), y)
    <2>1. Len(y.reached) = Len(L[q]) /\ y.left = Len(L[q])
      BY <1>3, <1>5, <1>7, <1>11 DEF e
    <2> HIDE DEF q
    <2> QED
      BY <1>4, <2>1, LandingLeft
  <1>15. Activation(q, hi).pc = q
    BY DEF Activation
  <1>16. Waited(E, L, B, W, ast, o, Activation(q, hi), x, y)
    <2> HIDE DEF q
    <2> QED
      BY <1>11, <1>12, <1>13, <1>14, <1>15 DEF Waited
  <1> QED
    BY <1>16 DEF lo, hi

\* What the unwinding activation and the new one are.
LEMMA UnwindActs ==
    ASSUME IInv, GenInv, GenUnwind
    PROVE  LET n == Len(acts)
               d == Act.current
           IN  /\ Len(acts') = n + 1 /\ n \in Nat /\ n > 0
               /\ \A i \in 1..n - 1 : acts'[i] = acts[i]
               /\ acts'[n].pc = Act.pc /\ acts'[n].hi = Act.hi
               /\ acts'[n].current = heap[d].prev
               /\ acts'[n + 1] = Activation(heap[d].lo + 1, heap[d].hi)
               /\ out' = Append(out, CTok("run", d, 0, heap[d].lo))
               /\ opens' = Append(opens, Len(out) + 1)
               /\ Act.current # AstTok.end /\ AstTok.op \in Exits
  <1> DEFINE n == Len(acts)
             d == Act.current
             r == [Act EXCEPT !.current = heap[d].prev]
             A == [acts EXCEPT ![n] = r]
             b == Activation(heap[d].lo + 1, heap[d].hi)
  <1>1. /\ phase = "codegen" /\ out' = Append(out, CTok("run", d, 0, heap[d].lo))
        /\ opens' = Append(opens, Len(out) + 1) /\ acts' = Append(A, b)
        /\ Act.current # AstTok.end /\ AstTok.op \in Exits
    BY DEF GenUnwind, Unwinding, OpenC, Act
  <1>2. acts \in Seq(ActType) /\ n \in Nat /\ n > 0 /\ Act = Tip(acts) /\ Act = acts[n]
    BY <1>1, GenFacts
  <1> HIDE DEF d, r, A, b
  <1>3. /\ Len(A) = n /\ A[n] = r /\ \A i \in 1..n - 1 : A[i] = acts[i]
    BY <1>2, AdvanceFacts DEF A
  <1>4. r.pc = Act.pc /\ r.hi = Act.hi /\ r.current = heap[d].prev
    <2>1. Act \in ActType
      BY <1>2, ElementOfSeq
    <2> QED
      BY <2>1 DEF r, ActType
  <1>5. Len(acts') = n + 1 /\ acts'[n + 1] = b /\ \A i \in 1..n : acts'[i] = A[i]
    <2>1. A \in Seq(ActType \cup {r})
      <3>1. acts \in Seq(ActType \cup {r}) /\ r \in ActType \cup {r}
        BY <1>2
      <3> QED
        BY <1>2, <3>1, TopReplaced DEF A
    <2>2. A \in Seq(ActType \cup {r, b}) /\ b \in ActType \cup {r, b}
      BY <2>1
    <2> QED
      BY <1>1, <1>3, <2>2, AppendProperties
  <1>6. acts'[n] = r /\ \A i \in 1..n - 1 : acts'[i] = acts[i]
    <2>1. n \in 1..n /\ \A i \in 1..n - 1 : i \in 1..n
      BY <1>2
    <2> QED
      BY <1>3, <1>5, <2>1
  <1> QED
    BY <1>1, <1>2, <1>4, <1>5, <1>6 DEF d, b

\* One more of the two ends of what is unwound.
UnwindEnds(A, X, Y, A2, X2, Y2, n) ==
    /\ Len(A2) = n + 1 /\ Len(Y2) = n + 1 /\ Len(Y) = n
    /\ \A i \in 1..n - 1 : A2[i] = A[i] /\ X2[i] = X[i] /\ Y2[i] = Y[i]
    /\ A2[n].pc = A[n].pc /\ X2[n] = X[n] /\ Y2[n].reached = Y[n].reached

\* The innermost activation waits for one more, which is innermost now.
LEMMA WaitingPush ==
    ASSUME NEW E, NEW L, NEW B, NEW W, NEW a, NEW o, NEW A, NEW X, NEW Y,
           Waiting(E, L, B, W, a, o, A, X, Y), NEW n \in Nat, n > 0, Len(A) = n,
           NEW A2, NEW X2, NEW Y2 \in Seq(WaitType), UnwindEnds(A, X, Y, A2, X2, Y2, n),
           Waited(E, L, B, W, a, o, A2[n], X2[n], Y2[n]),
           Waited(E, L, B, W, a, o, A2[n + 1], X2[n + 1], Y2[n + 1]),
           Linked(L, a, A2[n], Y2[n], X2[n + 1], Y2[n + 1])
    PROVE  Waiting(E, L, B, W, a, o, A2, X2, Y2)
  <1>1. /\ Len(A2) = n + 1 /\ Len(Y2) = n + 1
        /\ \A i \in 1..n - 1 : A2[i] = A[i] /\ X2[i] = X[i] /\ Y2[i] = Y[i]
        /\ A2[n].pc = A[n].pc /\ X2[n] = X[n] /\ Y2[n].reached = Y[n].reached
    BY DEF UnwindEnds
  <1>2. ASSUME NEW i \in 1..n + 1 PROVE Waited(E, L, B, W, a, o, A2[i], X2[i], Y2[i])
    <2>1. CASE i = n + 1
      BY <2>1
    <2>2. CASE i = n
      BY <2>2
    <2>3. CASE i < n
      <3>1. i \in 1..n - 1 /\ i \in 1..Len(A)
        BY <2>3
      <3>2. Waited(E, L, B, W, a, o, A[i], X[i], Y[i])
        BY <3>1 DEF Waiting
      <3> QED
        BY <1>1, <3>1, <3>2
    <2> QED
      BY <2>1, <2>2, <2>3
  <1>3. ASSUME NEW i \in 1..n PROVE Linked(L, a, A2[i], Y2[i], X2[i + 1], Y2[i + 1])
    <2>1. CASE i = n
      BY <2>1
    <2>2. CASE i = n - 1
      <3>1. i \in 1..n - 1 /\ i \in 1..Len(A) - 1 /\ i + 1 = n
        BY <2>2
      <3>2. Linked(L, a, A[i], Y[i], X[i + 1], Y[i + 1])
        BY <3>1 DEF Waiting
      <3>3. Linked(L, a, A2[i], Y2[i], X2[n], Y[n])
        BY <1>1, <3>1, <3>2
      <3> QED
        BY <1>1, <3>1, <3>3 DEF Linked
    <2>3. CASE i < n - 1
      <3>1. i \in 1..n - 1 /\ i \in 1..Len(A) - 1 /\ i + 1 \in 1..n - 1
        BY <2>3
      <3>2. Linked(L, a, A[i], Y[i], X[i + 1], Y[i + 1])
        BY <3>1 DEF Waiting
      <3> QED
        BY <1>1, <3>1, <3>2
    <2> QED
      BY <2>1, <2>2, <2>3
  <1>4. (n + 1) - 1 = n
    OBVIOUS
  <1> QED
    BY <1>1, <1>2, <1>3, <1>4 DEF Waiting

\* codegen_defers: the newest defer that is left waits no more, and the others
\* wait inside its body.
LEMMA GenUnwindAwaited ==
    ASSUME IInv, GenInv, ~dropped, GenUnwind, NEW E, NEW L, NEW B, NEW X, NEW W, NEW Y,
           Written(E, L, heap, ast, out, acts, opens, B, X),
           Awaited(E, L, B, W, ast, out, acts, X, Y)
    PROVE  \E W2, Y2 : Awaited(E, L, Append(B, opens'), W2, ast, out', acts',
                               Append(X, BodySpot(Act.current)), Y2)
  <1> DEFINE d == Act.current
             t == CTok("run", d, 0, heap[d].lo)
             z == Len(out) + 1
             n == Len(acts)
             p == Act.pc
             v == Tip(Y).reached
             k == Tip(Y).left
             w == Prefix(v, k - 1)
             y1 == [reached |-> v, left |-> k - 1]
             y2 == [reached |-> w, left |-> k - 1]
             Y1 == [Y EXCEPT ![Len(Y)] = y1]
             Y2 == Append(Y1, y2)
             x2 == BodySpot(d)
             X2 == Append(X, x2)
             B2 == Append(B, opens')
             b == Activation(heap[d].lo + 1, heap[d].hi)
  <1>1. phase = "codegen"
    BY DEF GenUnwind, Unwinding
  <1>2. /\ p \in 1..Len(ast) /\ Len(ast) \in Nat /\ AstTok = ast[p] /\ ResolveTypeOK /\ ExitsUnwind
        /\ acts \in Seq(ActType) /\ n \in Nat /\ n > 0 /\ Act = acts[n] /\ Len(out) \in Nat
        /\ opens \in Seq(Nat)
    BY <1>1, GenFacts
  <1>3. /\ Len(acts') = n + 1 /\ \A i \in 1..n - 1 : acts'[i] = acts[i]
        /\ acts'[n].pc = p /\ acts'[n].current = heap[d].prev /\ acts'[n + 1] = b
        /\ out' = Append(out, t) /\ opens' = Append(opens, z)
        /\ d # AstTok.end /\ AstTok.op \in Exits
    BY UnwindActs
  <1>4. d \in 1..Len(heap) /\ BodyIn(E, L, heap, ast, d)
    BY CurrentInForce
  <1>5. Complete(E, L, heap, ast) /\ Text(B, heap, ast, out)
    BY DEF Written
  <1>6. /\ Y \in Seq(WaitType) /\ Len(Y) = n /\ Tip(Y) = Y[n] /\ Tip(Y) \in WaitType
        /\ v \in Seq(Nat) /\ Len(v) = Len(L[p]) /\ k \in Nat /\ k <= Len(v) /\ Len(v) \in Nat
        /\ Waits(B, W, ast, out) /\ Waited(E, L, B, W, ast, out, Act, Tip(X), Tip(Y))
    BY <1>1, AwaitedFacts
  <1>7. /\ X \in Seq(StandType) /\ Len(X) = n /\ Tip(X) = X[n] /\ Tip(X).blocks = opens
    BY <1>1, GenFacts, WrittenFacts
  <1>8. heap[d].lo \in 1..Len(ast) /\ ast[heap[d].lo].op = "defer"
    BY <1>4 DEF BodyIn
  <1>9. t \in CTokType /\ t.op = "run" /\ t.src = heap[d].lo /\ t.defer = d
    <2>1. heap[d].lo \in Nat /\ d \in Nat /\ 0 \in Nat
      BY <1>2, <1>4, <1>8
    <2> QED
      BY <2>1 DEF CTok, CTokType, COpeners
  <1>10. opens' \in Seq(Nat) /\ Longer(opens', opens, z)
    BY <1>2, <1>3, AppendLonger
  <1>11. Writes(B, heap, ast, out, t, opens', B2, out')
    BY <1>3, <1>5, <1>9, <1>10 DEF Writes
  <1>12. /\ k \in 1..Len(L[p]) /\ d = L[p][k]
         /\ y1 \in WaitType /\ LeftOK(L, ast, acts'[n], y1)
    <2>1. LeftOK(L, ast, Act, Tip(Y))
      BY <1>6 DEF Waited
    <2>2. Act.pc \in 1..Len(ast) /\ ast[Act.pc].op \in Exits /\ Act.current # ast[Act.pc].end
      BY <1>2, <1>3
    <2>3. v = Tip(Y).reached /\ Len(Tip(Y).reached) = Len(L[Act.pc])
      BY <1>6
    <2>4. acts'[n].pc = Act.pc /\ acts'[n].current = heap[Act.current].prev
      BY <1>3
    <2> HIDE DEF p, v, d
    <2>5. k \in 1..Len(L[Act.pc]) /\ Act.current = L[Act.pc][k]
      <3>1. Complete(E, L, heap, ast) /\ ResolveTypeOK /\ ExitsUnwind /\ Tip(Y) \in WaitType
        BY <1>2, <1>5, <1>6
      <3> QED
        BY <2>1, <2>2, <2>3, <3>1, UnwindNow
    <2>6. y1 \in WaitType /\ y1.reached = Tip(Y).reached /\ y1.left = Tip(Y).left - 1
      <3>1. k - 1 \in Nat
        BY <1>6, <2>5
      <3> QED
        BY <1>6, <2>3, <3>1 DEF WaitType
    <2> HIDE DEF y1, k
    <2>7. LeftOK(L, ast, acts'[n], y1)
      BY <1>2, <1>5, <1>6, <2>1, <2>2, <2>3, <2>4, <2>6, UnwindLeft
    <2> QED
      BY <2>5, <2>6, <2>7 DEF p, d
  <1>13. w \in Seq(Nat) /\ Len(w) = k - 1 /\ y2 \in WaitType /\ k - 1 \in Nat
    <2>1. k - 1 \in 0..Len(v) /\ k - 1 \in Nat
      BY <1>6, <1>12
    <2> HIDE DEF v, k
    <2>2. w \in Seq(Nat) /\ Len(w) = k - 1
      BY <1>6, <2>1, BeginsPrefix
    <2> HIDE DEF w
    <2> QED
      BY <2>1, <2>2 DEF WaitType
  <1> HIDE DEF t, B2, w, y1, y2, v, k, p, d
  <1>14. PICK W2 : Tells(B, W, heap, ast, out, t, opens', w, B2, W2, out')
    BY <1>6, <1>11, <1>13 DEF Tells
  <1>15. /\ Waiting(E, L, B2, W2, ast, out', acts, X, Y)
         /\ Waited(E, L, B2, W2, ast, out', Act, Tip(X), Tip(Y))
         /\ W2[z] = Prefix(v, k)
    BY <1>1, <1>14, AwaitedOver DEF v, k
  <1>16. /\ Reached(L, B2, out', p, opens, v) /\ Kept(E, L, W2, out', p, opens, v)
    BY <1>7, <1>15 DEF Waited, p, v
  <1>17. /\ out'[z] = t /\ Len(out') = z /\ B2 \in Seq(Seq(Nat)) /\ Len(B2) = Len(out) + 2
         /\ \A i \in 1..Len(out) : out'[i] = out[i]
    BY <1>11, WritesFacts
  <1>18. W2[Len(out) + 2] = w
    BY <1>14, TellsNew
  <1>19. \A j \in 1..Len(v) : v[j] \in 1..Len(out) /\ out'[v[j]].defer = L[p][j] /\ B2[v[j]] \in Seq(Nat)
    <2> SUFFICES ASSUME NEW j \in 1..Len(v)
                 PROVE  v[j] \in 1..Len(out) /\ out'[v[j]].defer = L[p][j] /\ B2[v[j]] \in Seq(Nat)
      OBVIOUS
    <2>1. Reached(L, B, out, p, Tip(X).blocks, v)
      BY <1>6 DEF Waited, p, v
    <2>2. v[j] \in 1..Len(out)
      BY <2>1 DEF Reached
    <2>3. out'[v[j]].defer = L[p][j]
      BY <1>16 DEF Reached
    <2>4. v[j] \in 1..Len(B2)
      BY <1>2, <1>17, <2>2
    <2> QED
      BY <1>17, <2>2, <2>3, <2>4
  <1>20. WaitTok(B2, W2, ast, out', z)
    <2> DEFINE u == W2[z]
    <2>1. k \in 0..Len(v) /\ k \in 1..Len(v) /\ k \in 1..k
      BY <1>6, <1>12
    <2>2. u \in Seq(Nat) /\ Len(u) = k /\ \A i \in 1..k : u[i] = v[i]
      <3>1. /\ Prefix(v, k) \in Seq(Nat) /\ Len(Prefix(v, k)) = k
            /\ \A i \in 1..k : Prefix(v, k)[i] = v[i]
        BY <1>6, <2>1, BeginsPrefix
      <3> HIDE DEF z
      <3>2. W2[z] = Prefix(v, k)
        BY <1>15 DEF z
      <3> QED
        BY <3>1, <3>2
    <2> HIDE DEF u
    <2>3. Tip(u) = v[k] /\ u # <<>>
      <3>1. u[k] = v[k]
        BY <2>1, <2>2
      <3> QED
        BY <1>13, <2>1, <2>2, <3>1 DEF Tip
    <2>4. out'[Tip(u)].defer = d
      BY <1>12, <1>19, <2>1, <2>3
    <2>5. Prefix(u, k - 1) = w
      <3>1. k - 1 \in Nat /\ k - 1 <= Len(u) /\ k - 1 <= Len(v)
        BY <1>6, <1>13, <2>1, <2>2
      <3>2. \A i \in 1..k - 1 : u[i] = v[i]
        <4>1. \A i \in 1..k - 1 : i \in 1..k
          BY <1>6
        <4> QED
          BY <2>2, <4>1
      <3>3. Prefix(u, k - 1) = Prefix(v, k - 1)
        BY <1>6, <2>2, <3>1, <3>2, PrefixSame
      <3> QED
        BY <3>3 DEF w
    <2>6. W2[z + 1] = w
      <3>1. z + 1 = Len(out) + 2
        BY <1>2
      <3> QED
        BY <1>18, <3>1
    <2>7. W2[z + 1] = Prefix(W2[z], Len(W2[z]) - 1)
      BY <2>2, <2>5, <2>6 DEF u
    <2>8. out'[z].op = "run" /\ out'[z].defer = d
      BY <1>9, <1>17
    <2>9. W2[z] # <<>> /\ out'[Tip(W2[z])].defer = d
      BY <2>3, <2>4 DEF u
    <2> HIDE DEF z
    <2> QED
      BY <2>7, <2>8, <2>9 DEF WaitTok
  <1>21. /\ x2.blocks = opens' /\ x2.lo = heap[d].lo
    BY <1>3 DEF BodySpot
  <1> HIDE DEF x2, b
  <1>22. /\ Len(L[heap[d].lo]) = k - 1 /\ \A j \in 1..k - 1 : w[j] = v[j]
         /\ Waited(E, L, B2, W2, ast, out', b, x2, y2)
    <2>1. y2.reached = Prefix(v, k - 1) /\ y2.left = k - 1
      BY DEF y2, w
    <2>2. p \in 1..Len(ast) /\ opens \in Seq(Nat) /\ v \in Seq(Nat) /\ opens' \in Seq(Nat) /\ z \in Nat
      BY <1>2, <1>6, <1>10
    <2>3. \A j \in 1..Len(v) : B2[v[j]] \in Seq(Nat)
      BY <1>19
    <2>4. k \in 1..Len(L[p]) /\ d \in 1..Len(heap) /\ d = L[p][k]
      BY <1>4, <1>12
    <2>5. out'[z].op = "run" /\ out'[z].src = heap[d].lo
      BY <1>9, <1>17
    <2>6. Longer(opens', opens, z) /\ x2.blocks = opens'
      BY <1>10, <1>21
    <2>7. y2 \in WaitType
      BY <1>13
    <2> HIDE DEF z
    <2>8. /\ Len(L[heap[d].lo]) = k - 1
          /\ \A j \in 1..k - 1 : Prefix(v, k - 1)[j] = v[j]
          /\ Waited(E, L, B2, W2, ast, out', Activation(heap[d].lo + 1, heap[d].hi), x2, y2)
      <3>1. /\ Complete(E, L, heap, ast) /\ ExitsUnwind
            /\ Reached(L, B2, out', p, opens, v) /\ Kept(E, L, W2, out', p, opens, v)
        BY <1>2, <1>5, <1>16
      <3> DEFINE m == k - 1
      <3>2. m = k - 1 /\ w = Prefix(v, m) /\ y2.reached = w /\ y2.left = m
        BY <2>1 DEF w
      <3>3. Len(L[heap[d].lo]) = k - 1
        BY <2>2, <2>4, <3>1, UnwindOlder
      <3>4. \A j \in 1..k - 1 : Prefix(v, k - 1)[j] = v[j]
        <4>1. k - 1 \in 0..Len(v)
          BY <1>6, <1>12
        <4> QED
          BY <1>6, <4>1, BeginsPrefix
      <3> HIDE DEF y2, m
      <3>5. Waited(E, L, B2, W2, ast, out', Activation(heap[d].lo + 1, heap[d].hi), x2, y2)
        <4>1. BodyStarts(L, B2, out', p, opens, v, k, d, z, opens', m, w)
          BY <2>2, <2>3, <2>4, <2>5, <2>6, <3>2 DEF BodyStarts
        <4> QED
          BY <2>2, <2>6, <2>7, <3>1, <3>2, <4>1, UnwindBody
      <3> QED
        BY <3>3, <3>4, <3>5
    <2> QED
      BY <2>8 DEF b, w
  <1>23. /\ Len(Y1) = n /\ Y1 \in Seq(WaitType) /\ Y1[n] = y1 /\ \A i \in 1..n - 1 : Y1[i] = Y[i]
    BY <1>2, <1>6, <1>12, TopReplaced
  <1> HIDE DEF Y1
  <1>24. /\ Y2 \in Seq(WaitType) /\ Len(Y2) = n + 1 /\ Y2[n + 1] = y2 /\ \A i \in 1..n : Y2[i] = Y1[i]
    BY <1>13, <1>23, AppendProperties
  <1>25. x2 \in StandType
    <2>1. heap[d].lo \in Nat /\ Len(opens) \in Nat
      BY <1>2, <1>8
    <2>2. Append(opens, z) \in Seq(Nat)
      BY <1>3, <1>10
    <2> QED
      BY <2>1, <2>2 DEF x2, BodySpot, StandType
  <1>26. X2[n + 1] = x2 /\ \A i \in 1..n : X2[i] = X[i]
    BY <1>7, <1>25, AppendProperties
  <1> HIDE DEF X2, Y2
  <1>27. UnwindEnds(acts, X, Y, acts', X2, Y2, n)
    <2>1. n \in 1..n /\ \A i \in 1..n - 1 : i \in 1..n
      BY <1>2
    <2>2. Y2[n].reached = Y[n].reached
      <3>1. n \in 1..n /\ Y2[n] = Y1[n] /\ Y1[n] = y1
        BY <1>23, <1>24, <2>1
      <3>2. y1.reached = v /\ v = Y[n].reached
        BY <1>6 DEF y1, v
      <3> QED
        BY <3>1, <3>2
    <2>3. acts'[n].pc = acts[n].pc
      BY <1>2, <1>3 DEF p
    <2> HIDE DEF n
    <2>4. \A i \in 1..n - 1 : acts'[i] = acts[i] /\ X2[i] = X[i] /\ Y2[i] = Y[i]
      BY <1>3, <1>23, <1>24, <1>26, <2>1
    <2> QED
      BY <1>3, <1>6, <1>24, <1>26, <2>1, <2>2, <2>3, <2>4 DEF UnwindEnds
  <1>28. Waited(E, L, B2, W2, ast, out', acts'[n], X2[n], Y2[n])
    <2>1. n \in 1..n
      BY <1>2
    <2>2. X2[n] = X[n] /\ Y2[n] = y1 /\ X[n].blocks = opens
      BY <1>7, <1>23, <1>24, <1>26, <2>1
    <2>3. y1.reached = v
      BY DEF y1
    <2> QED
      BY <1>3, <1>12, <1>16, <2>2, <2>3 DEF Waited
  <1>29. Waited(E, L, B2, W2, ast, out', acts'[n + 1], X2[n + 1], Y2[n + 1])
    BY <1>3, <1>22, <1>24, <1>26
  <1>30. Linked(L, ast, acts'[n], Y2[n], X2[n + 1], Y2[n + 1])
    <2>1. n \in 1..n
      BY <1>2
    <2>2. Y2[n] = y1 /\ y1.reached = v /\ y1.left = k - 1 /\ y2.reached = w
      BY <1>23, <1>24, <2>1 DEF y1, y2
    <2>3. ast[acts'[n].pc].op \in Exits
      BY <1>2, <1>3
    <2>4. k - 1 = Len(L[x2.lo]) /\ k - 1 <= Len(w)
      BY <1>13, <1>21, <1>22
    <2> HIDE DEF n
    <2> QED
      BY <1>22, <1>24, <1>26, <2>2, <2>3, <2>4 DEF Linked
  <1>31. Waiting(E, L, B2, W2, ast, out', acts', X2, Y2)
    <2>1. n \in Nat /\ n > 0 /\ Len(acts) = n
      BY <1>2
    <2> HIDE DEF n
    <2> QED
      BY <1>15, <1>24, <1>27, <1>28, <1>29, <1>30, <2>1, WaitingPush
  <1>32. w = IF Len(Y2) = 0 THEN <<>> ELSE Prefix(Tip(Y2).reached, Tip(Y2).left)
    <2>1. Len(Y2) # 0 /\ Tip(Y2) = y2
      BY <1>2, <1>24 DEF Tip
    <2>2. y2.reached = w /\ y2.left = k - 1
      BY DEF y2
    <2>3. Prefix(w, k - 1) = w
      <3>1. k - 1 \in 0..Len(w)
        BY <1>13
      <3> QED
        BY <1>13, <3>1, BeginsPrefix
    <2> QED
      BY <2>1, <2>2, <2>3
  <1>33. Len(acts') > 0 => opens' = X2[Len(acts')].blocks
    BY <1>3, <1>21, <1>26
  <1>34. Awaited(E, L, B2, W2, ast, out', acts', X2, Y2)
    <2>1. WaitTok(B2, W2, ast, out', Len(out) + 1) /\ Len(acts') \in Nat
      BY <1>2, <1>3, <1>20
    <2> HIDE DEF z
    <2> QED
      BY <1>14, <1>31, <1>32, <1>33, <2>1, AwaitedGrows
  <1> QED
    BY <1>34 DEF B2, X2, x2, d

\* The function begins with nothing waiting.
LEMMA GenFunctionAwaited ==
    ASSUME NEW E, NEW L, Complete(E, L, heap, ast), ResolveTypeOK, ExitsUnwind, ~dropped,
           GenFunction, out = <<>>, opens = <<>>
    PROVE  \E W2, Y2 : Awaited(E, L, << <<>>, <<1>> >>, W2, ast, out', acts', <<FirstSpot>>, Y2)
  <1> DEFINE t == CTok("fn", Null, 0, 1)
             B == << <<>>, <<1>> >>
             W == << <<>>, <<>> >>
             X == <<FirstSpot>>
             y == [reached |-> <<>>, left |-> 0]
             Y == <<y>>
             r == Activation(2, Len(ast))
  <1>1. out' = <<t>> /\ acts' = <<r>>
    <2>1. Len(out) + 1 = 1
      OBVIOUS
    <2>2. Append(<<>>, t) = <<t>> /\ Append(<<>>, 1) = <<1>>
      OBVIOUS
    <2> QED
      BY <2>1, <2>2 DEF GenFunction, OpenC
  <1>2. Len(ast) \in Nat /\ Len(ast) > 1 /\ ast[1].op = "fn"
    BY TreeFacts DEF Complete
  <1>3. t.op = "fn" /\ t.src = 1
    BY DEF CTok
  <1>4. Written(E, L, heap, ast, out', acts', opens', B, X)
    BY GenFunctionWritten
  <1>5. W \in Seq(Seq(Nat)) /\ Len(W) = 2 /\ W[1] = <<>> /\ W[2] = <<>>
    <2>1. <<>> \in Seq(Nat)
      OBVIOUS
    <2> QED
      BY <2>1
  <1>6. B[1] = <<>> /\ B[2] = <<1>>
    OBVIOUS
  <1>7. Len(out') = 1 /\ out'[1] = t
    BY <1>1
  <1>8. y \in WaitType /\ y.reached = <<>> /\ y.left = 0 /\ Len(y.reached) = 0
    <2>1. <<>> \in Seq(Nat) /\ 0 \in Nat /\ Len(<<>>) = 0
      OBVIOUS
    <2> QED
      BY <2>1 DEF WaitType
  <1>9. Y \in Seq(WaitType) /\ Len(Y) = 1 /\ Tip(Y) = y /\ Y[1] = y
    BY <1>8 DEF Tip
  <1>10. Len(acts') = 1 /\ acts'[1] = r /\ r.pc = 2 /\ r.hi = Len(ast)
    BY <1>1 DEF Activation
  <1>11. /\ X[1] = FirstSpot /\ Len(X) = 1 /\ FirstSpot.lo = 1 /\ FirstSpot.blocks = <<1>>
    BY DEF FirstSpot
  <1> HIDE DEF t, B, W, X, y, Y
  <1>12. Waits(B, W, ast, out')
    <2>1. WaitTok(B, W, ast, out', 1)
      BY <1>3, <1>5, <1>7 DEF WaitTok
    <2>2. WaitPlace(B, W, out', 1) /\ WaitPlace(B, W, out', 2)
      <3>1. Len(W[1]) = 0 /\ Len(W[2]) = 0
        BY <1>5
      <3> QED
        BY <3>1 DEF WaitPlace
    <2>3. (\A i \in 1..1 : i = 1) /\ (\A i \in 1..1 + 1 : i = 1 \/ i = 2)
      OBVIOUS
    <2> QED
      BY <1>5, <1>7, <2>1, <2>2, <2>3 DEF Waits
  <1>13. Spot(E, ast, out', 2, Len(ast), FirstSpot) /\ Region(E, ast, 2, Len(ast), 1)
    <2>1. Standing(E, L, ast, out', acts', X)
      BY <1>4 DEF Written
    <2>2. Stands(E, L, ast, out', acts'[1], X[1])
      BY <1>10, <2>1 DEF Standing
    <2> HIDE DEF r
    <2>3. Spot(E, ast, out', 2, Len(ast), FirstSpot)
      BY <1>10, <1>11, <2>2 DEF Stands
    <2> QED
      BY <1>11, <2>3 DEF Spot
  <1>14. L[2] = <<>> /\ E[2] = Append(E[1], 1) /\ E[1] = <<>>
    <2>1. L[1] = <<>> /\ E[1] = <<>>
      BY DEF Complete, Scoped
    <2>2. 1 \in 1..Len(ast) /\ ast[1].op \in Openers
      BY <1>2 DEF Openers
    <2>3. E[1 + 1] = Append(E[1], 1) /\ L[1 + 1] = L[1]
      BY <2>2, TreeFlows
    <2> QED
      BY <2>1, <2>3
  <1>15. Reached(L, B, out', 2, <<1>>, <<>>)
    <2>1. Len(<<>>) = 0 /\ Len(L[2]) = 0
      BY <1>14
    <2> QED
      BY <2>1 DEF Reached
  <1>16. Kept(E, L, W, out', 2, <<1>>, <<>>)
    <2>1. /\ Len(<<1>>) = 1 /\ <<1>>[1] = 1 /\ \A k \in 1..1 : k = 1
      OBVIOUS
    <2>2. L[1] = <<>>
      BY DEF Complete, Scoped
    <2>3. Prefix(<<>>, 0) = <<>>
      <3>1. 0 \in 0..Len(<<>>) /\ <<>> \in Seq(Nat)
        OBVIOUS
      <3> QED
        BY <3>1, BeginsPrefix, EmptySeq
    <2>4. W[1] = Prefix(<<>>, Len(L[1]))
      BY <1>5, <2>2, <2>3
    <2>5. out'[1].src = 1
      BY <1>3, <1>7
    <2> QED
      BY <2>1, <2>4, <2>5 DEF Kept
  <1>17. LeftOK(L, ast, r, y)
    <2>1. Len(y.reached) = Len(L[2]) /\ y.left = Len(L[2])
      BY <1>8, <1>14
    <2> QED
      BY <1>8, <1>13, <2>1, LandingLeft
  <1>18. Waited(E, L, B, W, ast, out', acts'[1], X[1], Y[1])
    <2> HIDE DEF r
    <2> QED
      BY <1>8, <1>9, <1>10, <1>11, <1>15, <1>16, <1>17 DEF Waited
  <1>19. Waiting(E, L, B, W, ast, out', acts', X, Y)
    <2>1. (\A i \in 1..1 : i = 1) /\ 1..1 - 1 = {}
      OBVIOUS
    <2> QED
      BY <1>9, <1>10, <1>18, <2>1 DEF Waiting
  <1>20. W[Len(out') + 1] = IF Len(Y) = 0 THEN <<>> ELSE Prefix(Tip(Y).reached, Tip(Y).left)
    <2>1. Prefix(<<>>, 0) = <<>>
      <3>1. 0 \in 0..Len(<<>>) /\ <<>> \in Seq(Nat)
        OBVIOUS
      <3> QED
        BY <3>1, BeginsPrefix, EmptySeq
    <2>2. Len(out') + 1 = 2 /\ Len(Y) # 0
      BY <1>7, <1>9
    <2> QED
      BY <1>5, <1>8, <1>9, <2>1, <2>2
  <1>21. Awaited(E, L, B, W, ast, out', acts', X, Y)
    BY <1>12, <1>19, <1>20 DEF Awaited
  <1> QED
    BY <1>21 DEF B, X

-----------------------------------------------------------------------------
(* The text that has been generated so far. *)

\* The state's text with its places.  Once a branchless `when` has cut the list
\* the text is still nested, but nothing is said of what waits.
Textual(E, L, B, W, X, Y) ==
    /\ Written(E, L, heap, ast, out, acts, opens, B, X)
    /\ ~dropped => Awaited(E, L, B, W, ast, out, acts, X, Y)

\* A step of the code generator, from what is known of it one by one.
LEMMA TextualNext ==
    ASSUME UNCHANGED <<ast, heap, dropped>>, NEW E, NEW L, NEW B2, NEW X2,
           Written(E, L, heap, ast, out', acts', opens', B2, X2),
           ~dropped => \E W2, Y2 : Awaited(E, L, B2, W2, ast, out', acts', X2, Y2)
    PROVE  \E W2, Y2 : Textual(E, L, B2, W2, X2, Y2)'
  <1>1. PICK W2, Y2 : ~dropped => Awaited(E, L, B2, W2, ast, out', acts', X2, Y2)
    OBVIOUS
  <1>2. Textual(E, L, B2, W2, X2, Y2)'
    BY <1>1 DEF Textual
  <1> QED
    BY <1>2

\* Every token of the text is generated where it belongs.
LEMMA GenTextual ==
    ASSUME IInv, GenInv, NEW E, NEW L, NEW B, NEW W, NEW X, NEW Y,
           Textual(E, L, B, W, X, Y), GenOpen \/ GenDefer \/ GenUnwind \/ GenExit
    PROVE  \E B2, W2, X2, Y2 : Textual(E, L, B2, W2, X2, Y2)'
  <1>1. UNCHANGED <<ast, heap, dropped>> /\ phase = "codegen"
    BY DEF GenOpen, GenDefer, GenUnwind, GenExit, Unwinding, vars, history
  <1>2. /\ Written(E, L, heap, ast, out, acts, opens, B, X)
        /\ ~dropped => Awaited(E, L, B, W, ast, out, acts, X, Y)
    BY DEF Textual
  <1>3. ASSUME NEW X2, Written(E, L, heap, ast, out', acts', opens', Append(B, opens'), X2),
               ~dropped => \E W2, Y2 : Awaited(E, L, Append(B, opens'), W2, ast, out', acts', X2, Y2)
        PROVE  \E B2, W2, X3, Y2 : Textual(E, L, B2, W2, X3, Y2)'
    <2>1. PICK B3, X3 : B3 = Append(B, opens') /\ X3 = X2
      OBVIOUS
    <2>2. \E W2, Y2 : Textual(E, L, B3, W2, X3, Y2)'
      BY <1>1, <1>3, <2>1, TextualNext
    <2> QED
      BY <2>2
  <1>4. CASE GenOpen
    <2>1. Written(E, L, heap, ast, out', acts', opens', Append(B, opens'), Onto(X, opens'))
      BY <1>2, <1>3, <1>4, GenOpenWritten
    <2>2. ~dropped => \E W2, Y2 : Awaited(E, L, Append(B, opens'), W2, ast, out', acts', Onto(X, opens'), Y2)
      BY <1>2, <1>3, <1>4, GenOpenAwaited
    <2> QED
      BY <1>3, <2>1, <2>2
  <1>5. CASE GenDefer
    <2>1. Written(E, L, heap, ast, out', acts', opens', Append(B, opens'), Onto(X, opens'))
      BY <1>2, <1>3, <1>5, GenDeferWritten
    <2>2. ~dropped => \E W2, Y2 : Awaited(E, L, Append(B, opens'), W2, ast, out', acts', Onto(X, opens'), Y2)
      BY <1>2, <1>3, <1>5, GenDeferAwaited
    <2> QED
      BY <1>3, <2>1, <2>2
  <1>6. CASE GenUnwind
    <2>1. Written(E, L, heap, ast, out', acts', opens', Append(B, opens'), Append(X, BodySpot(Act.current)))
      BY <1>2, <1>3, <1>6, GenUnwindWritten
    <2>2. ~dropped => \E W2, Y2 : Awaited(E, L, Append(B, opens'), W2, ast, out', acts', Append(X, BodySpot(Act.current)), Y2)
      BY <1>2, <1>3, <1>6, GenUnwindAwaited
    <2> QED
      BY <1>3, <2>1, <2>2
  <1>7. CASE GenExit
    <2>1. CASE AstTok.op # "end"
      <3>1. Written(E, L, heap, ast, out', acts', opens', Append(B, opens'), Onto(X, opens'))
        BY <1>2, <1>3, <1>7, <2>1, GenJumpWritten
      <3>2. ~dropped => \E W2, Y2 : Awaited(E, L, Append(B, opens'), W2, ast, out', acts', Onto(X, opens'), Y2)
        BY <1>2, <1>3, <1>7, <2>1, GenJumpAwaited
      <3> QED
        BY <1>3, <3>1, <3>2
    <2>2. CASE AstTok.op = "end" /\ Act.pc # Act.hi
      <3>1. Written(E, L, heap, ast, out', acts', opens', Append(B, opens'), Onto(X, opens'))
        BY <1>2, <1>3, <1>7, <2>2, GenEndWritten
      <3>2. ~dropped => \E W2, Y2 : Awaited(E, L, Append(B, opens'), W2, ast, out', acts', Onto(X, opens'), Y2)
        BY <1>2, <1>3, <1>7, <2>2, GenEndAwaited
      <3> QED
        BY <1>3, <3>1, <3>2
    <2>3. CASE AstTok.op = "end" /\ Act.pc = Act.hi
      <3>1. Written(E, L, heap, ast, out', acts', opens', Append(B, opens'), Prefix(X, Len(X) - 1))
        BY <1>2, <1>3, <1>7, <2>3, GenPopWritten
      <3>2. ~dropped => \E W2, Y2 : Awaited(E, L, Append(B, opens'), W2, ast, out', acts', Prefix(X, Len(X) - 1), Y2)
        BY <1>2, <1>3, <1>7, <2>3, GenPopAwaited
      <3> QED
        BY <1>3, <3>1, <3>2
    <2> QED
      BY <2>1, <2>2, <2>3
  <1> QED
    BY <1>4, <1>5, <1>6, <1>7

\* So is the first one.
LEMMA FirstTextual ==
    ASSUME NEW E, NEW L, Complete(E, L, heap, ast), ResolveTypeOK, ExitsUnwind,
           GenFunction, out = <<>>, opens = <<>>
    PROVE  \E B2, W2, X2, Y2 : Textual(E, L, B2, W2, X2, Y2)'
  <1>1. UNCHANGED <<ast, heap, dropped>>
    BY DEF GenFunction, history
  <1>2. Written(E, L, heap, ast, out', acts', opens', << <<>>, <<1>> >>, <<FirstSpot>>)
    BY GenFunctionWritten
  <1>3. ~dropped => \E W2, Y2 : Awaited(E, L, << <<>>, <<1>> >>, W2, ast, out', acts', <<FirstSpot>>, Y2)
    BY GenFunctionAwaited
  <1>4. \E W2, Y2 : Textual(E, L, << <<>>, <<1>> >>, W2, <<FirstSpot>>, Y2)'
    BY <1>1, <1>2, <1>3, TextualNext
  <1> QED
    BY <1>4

-----------------------------------------------------------------------------
(* What C sees of the blocks: Enclosing, Innermost, LoopAround and EndOf. *)

\* A set of indices has a greatest one.
LEMMA GreatestIndex ==
    ASSUME NEW n \in Nat, NEW T \in SUBSET (1..n), T # {}
    PROVE  \E m \in T : \A k \in T : k <= m
  <1> DEFINE U == {n - k : k \in T}
  <1>0. \A k \in T : k \in 1..n /\ n - k \in Nat
    <2>1. \A k \in T : k \in 1..n
      OBVIOUS
    <2> QED
      BY <2>1
  <1>1. U \subseteq Nat /\ U # {}
    BY <1>0
  <1>2. \E x \in U : \A y \in U : ~(<<y, x>> \in OpToRel(<, Nat))
    <2> HIDE DEF U
    <2> QED
      BY <1>1, NatLessThanWellFounded, WFMin, Zenon
  <1>3. PICK x \in U : \A y \in U : ~(y < x)
    BY <1>1, <1>2 DEF OpToRel
  <1>4. \A y \in U : y \in Nat /\ x \in Nat /\ ~(y < x)
    BY <1>1, <1>3
  <1>5. PICK m \in T : x = n - m
    OBVIOUS
  <1>6. ASSUME NEW k \in T PROVE k <= m
    <2>1. n - k \in U
      OBVIOUS
    <2>2. ~(n - k < n - m)
      BY <1>4, <1>5, <2>1
    <2> QED
      BY <2>2
  <1> QED
    BY <1>6

\* The blocks around a place of the text.
LEMMA PlaceFacts ==
    ASSUME NEW B, NEW h, NEW a, NEW o, Text(B, h, a, o), NEW p \in 1..Len(o) + 1
    PROVE  /\ Len(o) \in Nat /\ p \in Nat /\ B[p] \in Seq(Nat) /\ Len(B[p]) \in Nat
           /\ \A i \in 1..Len(B[p]) :
                /\ B[p][i] \in 1..p - 1 /\ o[B[p][i]].op \in COpeners
                /\ Begins(B[B[p][i]], B[p]) /\ Len(B[B[p][i]]) = i - 1
           /\ \A j \in 1..Len(B[p]) : \A i \in 1..j - 1 : B[p][i] < B[p][j]
           /\ Open(o, p) = {B[p][i] : i \in 1..Len(B[p])}
  <1>1. /\ B \in Seq(Seq(Nat)) /\ o \in Seq(CTokType) /\ Len(B) = Len(o) + 1
        /\ \A q \in 1..Len(o) + 1 : CPlace(B, o, q)
    BY DEF Text
  <1>2. Len(o) \in Nat /\ p \in Nat /\ p \in 1..Len(B)
    BY <1>1
  <1>3. B[p] \in Seq(Nat) /\ Len(B[p]) \in Nat
    BY <1>1, <1>2
  <1>4. CPlace(B, o, p)
    BY <1>1
  <1>5. ASSUME NEW q \in 1..p PROVE CNest(B, o, q)
    <2>1. q \in 1..Len(o) + 1
      BY <1>2
    <2> QED
      BY <1>1, <2>1 DEF CPlace
  <1>6. \A j \in 1..Len(B[p]) : \A i \in 1..j - 1 : B[p][i] < B[p][j]
    BY <1>1, <1>2, <1>5, BlocksRise
  <1> QED
    BY <1>2, <1>3, <1>4, <1>6 DEF CPlace, CNest

\* C counts as many blocks as there are.
LEMMA DepthIsLength ==
    ASSUME NEW B, Text(B, heap, ast, out), NEW p \in 1..Len(out) + 1
    PROVE  Depth(p) = Len(B[p]) /\ Enclosing(p) = {B[p][i] : i \in 1..Len(B[p])}
  <1> DEFINE s == B[p]
             n == Len(s)
             S == {s[i] : i \in 1..n}
             f == [i \in 1..n |-> s[i]]
  <1>1. n \in Nat /\ s \in Seq(Nat) /\ Open(out, p) = S
        /\ \A j \in 1..n : \A i \in 1..j - 1 : s[i] < s[j]
    BY PlaceFacts
  <1>2. Enclosing(p) = S
    BY <1>1 DEF Enclosing, Open
  <1>3. \A i \in 1..n : s[i] \in Nat
    BY <1>1
  <1>4. \A i \in 1..n : \A j \in 1..n : s[i] = s[j] => i = j
    <2> SUFFICES ASSUME NEW i \in 1..n, NEW j \in 1..n, i # j PROVE s[i] # s[j]
      OBVIOUS
    <2>1. i \in Nat /\ j \in Nat
      BY <1>1
    <2>2. i \in 1..j - 1 \/ j \in 1..i - 1
      BY <2>1
    <2>3. s[i] < s[j] \/ s[j] < s[i]
      BY <1>1, <2>2
    <2> QED
      BY <1>3, <2>3
  <1> HIDE DEF s, n
  <1>5. f \in Bijection(1..n, S)
    BY <1>4 DEF Bijection, Injection, Surjection, IsInjective
  <1>6. ExistsBijection(1..n, S)
    BY <1>5 DEF ExistsBijection
  <1>7. IsFiniteSet(1..n) /\ Cardinality(1..n) = n
    BY <1>1, FS_Interval, SMTT(30)
  <1>8. Cardinality(S) = n
    BY <1>6, <1>7, FS_Bijection
  <1> QED
    BY <1>2, <1>8 DEF Depth, s, n

\* The last one opened is the innermost.
LEMMA InnermostIsTip ==
    ASSUME NEW B, Text(B, heap, ast, out), NEW p \in 1..Len(out) + 1, B[p] # <<>>
    PROVE  Innermost(Enclosing(p)) = Tip(B[p])
  <1> DEFINE s == B[p]
             n == Len(s)
             S == {s[i] : i \in 1..n}
  <1>1. n \in Nat /\ s \in Seq(Nat) /\ \A j \in 1..n : \A i \in 1..j - 1 : s[i] < s[j]
    BY PlaceFacts
  <1>2. Enclosing(p) = S
    BY DepthIsLength
  <1>3. n > 0 /\ n \in 1..n
    BY <1>1
  <1>4. \A i \in 1..n : s[i] \in Nat
    BY <1>1
  <1>5. ASSUME NEW i \in 1..n PROVE s[i] <= s[n]
    <2>1. i = n \/ i \in 1..n - 1
      BY <1>1
    <2>2. s[i] = s[n] \/ s[i] < s[n]
      BY <1>1, <1>3, <2>1
    <2> QED
      BY <1>3, <1>4, <2>2
  <1>6. s[n] \in S /\ \A q \in S : q <= s[n] /\ q \in Nat
    BY <1>3, <1>4, <1>5
  <1> HIDE DEF S, s, n
  <1>7. \A o \in S : (\A q \in S : q <= o) => o = s[n]
    BY <1>6
  <1>8. Innermost(S) = s[n]
    BY <1>6, <1>7 DEF Innermost
  <1> QED
    BY <1>2, <1>8 DEF s, n, Tip

\* The loop that C means by break and continue is the innermost "for".
LEMMA LoopAroundIs ==
    ASSUME NEW B, Text(B, heap, ast, out), NEW p \in 1..Len(out) + 1,
           \E i \in 1..Len(B[p]) : out[B[p][i]].op = "for"
    PROVE  \E i \in 1..Len(B[p]) :
              LoopAround(p) = B[p][i] /\ out[B[p][i]].op = "for" /\ NoFor(B, out, p, i)
  <1> DEFINE s == B[p]
             n == Len(s)
             T == {i \in 1..n : out[s[i]].op = "for"}
             S == {o \in Enclosing(p) : out[o].op = "for"}
  <1>1. n \in Nat /\ s \in Seq(Nat) /\ \A j \in 1..n : \A i \in 1..j - 1 : s[i] < s[j]
    BY PlaceFacts
  <1>2. Enclosing(p) = {s[i] : i \in 1..n}
    BY DepthIsLength
  <1>3. \A i \in 1..n : s[i] \in Nat
    BY <1>1
  <1>4. T \in SUBSET (1..n) /\ T # {}
    OBVIOUS
  <1>5. PICK m \in T : \A k \in T : k <= m
    BY <1>1, <1>4, GreatestIndex
  <1>6. m \in 1..n /\ out[s[m]].op = "for" /\ m \in Nat
    BY <1>5
  <1>7. NoFor(B, out, p, m)
    <2> SUFFICES ASSUME NEW j \in m + 1..n PROVE out[s[j]].op # "for"
      BY DEF NoFor
    <2>1. j \in 1..n /\ ~(j <= m)
      BY <1>1, <1>6
    <2> QED
      BY <1>5, <2>1
  <1>8. s[m] \in S
    BY <1>2, <1>6
  <1>9. ASSUME NEW q \in S PROVE q \in Nat /\ q <= s[m]
    <2>1. PICK k \in 1..n : q = s[k]
      BY <1>2
    <2>2. k \in T
      BY <2>1
    <2>3. k = m \/ k \in 1..m - 1
      BY <1>5, <1>6, <2>2
    <2>4. s[k] = s[m] \/ s[k] < s[m]
      BY <1>1, <1>6, <2>3
    <2> QED
      BY <1>3, <1>6, <2>1, <2>4
  <1>10. Innermost(S) = s[m]
    <2> HIDE DEF S, s, n, T
    <2>1. \A o \in S : (\A q \in S : q <= o) => o = s[m]
      BY <1>8, <1>9
    <2> QED
      BY <1>8, <1>9, <2>1 DEF Innermost
  <1> QED
    BY <1>6, <1>7, <1>10 DEF LoopAround

\* In a complete text every block that is opened is ended, behind its opening.
LEMMA EndOfOpener ==
    ASSUME NEW B, Text(B, heap, ast, out), B[Len(out) + 1] = <<>>,
           NEW o \in 1..Len(out), out[o].op \in COpeners
    PROVE  /\ EndOf(o) \in o + 1..Len(out) /\ out[EndOf(o)].op = "end"
           /\ B[EndOf(o)] # <<>> /\ Tip(B[EndOf(o)]) = o /\ B[EndOf(o) + 1] = B[o]
  <1> DEFINE z == Len(out) + 1
             e == EndOf(o)
  <1>1. Len(out) \in Nat /\ Open(out, z) = {B[z][i] : i \in 1..Len(B[z])}
    <2>1. z \in 1..Len(out) + 1
      BY DEF Text
    <2> QED
      BY <2>1, PlaceFacts
  <1>2. Open(out, z) = {}
    BY <1>1
  <1>3. o \in {q \in 1..z - 1 : out[q].op \in COpeners}
    BY <1>1
  <1>4. PICK x \in {q \in 1..z - 1 : out[q].op = "end"} : out[x].open = o
    BY <1>2, <1>3 DEF Open
  <1>5. x \in 1..Len(out) /\ out[x].op = "end" /\ out[x].open = o
    BY <1>1, <1>4
  <1>6. e \in 1..Len(out) /\ out[e].op = "end" /\ out[e].open = o
    BY <1>5 DEF EndOf
  <1> HIDE DEF e
  <1>7. B[e] # <<>> /\ o = Tip(B[e]) /\ B[e + 1] = B[Tip(B[e])]
    BY <1>6 DEF Text, CFlow
  <1>8. e \in 1..Len(out) + 1
    BY <1>1, <1>6
  <1>9. B[e] \in Seq(Nat) /\ \A i \in 1..Len(B[e]) : B[e][i] \in 1..e - 1
    BY <1>8, PlaceFacts
  <1>10. Tip(B[e]) \in 1..e - 1
    <2>1. Len(B[e]) \in 1..Len(B[e])
      BY <1>7, <1>9
    <2> QED
      BY <1>9, <2>1 DEF Tip
  <1>11. e \in o + 1..Len(out)
    BY <1>1, <1>6, <1>7, <1>10
  <1> QED
    BY <1>6, <1>7, <1>11 DEF e

-----------------------------------------------------------------------------
(* Where a step of the C function leads. *)

\* The text of a complete function, with its places.
FullText(B) == Text(B, heap, ast, out) /\ B[Len(out) + 1] = <<>>

\* What a step does to the blocks around it: it opens one, it stays where it
\* is, or it goes back to where an outer one was opened.
LEMMA TargetBlocks ==
    ASSUME NEW B, FullText(B), NEW p \in 1..Len(out), NEW to \in Targets(p)
    PROVE  /\ to \in 1..Len(out) + 1
           /\ out[p].op \in {"fn", "run"} => B[to] = Append(B[p], p)
           /\ out[p].op \in {"if", "for"} => B[to] = Append(B[p], p) \/ B[to] = B[p]
           /\ out[p].op = "reach" => B[to] = B[p]
           /\ out[p].op \in Exits => Begins(B[to], B[p])
  <1> DEFINE z == Len(out) + 1
  <1>0. Text(B, heap, ast, out) /\ B[z] = <<>>
    BY DEF FullText
  <1>1. /\ Text(B, heap, ast, out) /\ B[z] = <<>> /\ CFlow(B, heap, ast, out, p)
        /\ out \in Seq(CTokType) /\ out[p] \in CTokType
    <2>1. out \in Seq(CTokType) /\ \A q \in 1..Len(out) : CFlow(B, heap, ast, out, q)
      BY <1>0 DEF Text
    <2>2. out[p] \in CTokType
      BY <2>1, ElementOfSeq
    <2> QED
      BY <1>0, <2>1, <2>2
  <1>2. /\ Len(out) \in Nat /\ p \in Nat /\ p \in 1..Len(out) + 1 /\ p + 1 \in 1..Len(out) + 1
        /\ z \in 1..Len(out) + 1
    BY <1>1
  <1>3. /\ B[p] \in Seq(Nat) /\ Len(B[p]) \in Nat
        /\ \A i \in 1..Len(B[p]) :
             /\ B[p][i] \in 1..p - 1 /\ out[B[p][i]].op \in COpeners
             /\ Begins(B[B[p][i]], B[p]) /\ Len(B[B[p][i]]) = i - 1
    BY <1>1, <1>2, PlaceFacts
  <1>4. CASE out[p].op \in {"fn", "run"}
    BY <1>1, <1>2, <1>4 DEF Targets, CFlow, COpeners, Exits
  <1>5. CASE out[p].op = "reach"
    BY <1>1, <1>2, <1>5 DEF Targets, CFlow, COpeners, Exits
  <1>6. CASE out[p].op \in {"if", "for"}
    <2>1. out[p].op \in COpeners
      BY <1>6 DEF COpeners
    <2>2. EndOf(p) \in p + 1..Len(out) /\ B[EndOf(p) + 1] = B[p]
      BY <1>1, <2>1, EndOfOpener
    <2>3. EndOf(p) + 1 \in 1..Len(out) + 1
      BY <1>2, <2>2
    <2>4. to = p + 1 \/ to = EndOf(p) + 1
      BY <1>6 DEF Targets
    <2>5. B[p + 1] = Append(B[p], p)
      BY <1>1, <2>1 DEF CFlow
    <2> QED
      BY <1>2, <1>6, <2>2, <2>3, <2>4, <2>5 DEF Exits
  <1>7. CASE out[p].op = "end"
    <2>1. B[p] # <<>> /\ out[p].open = Tip(B[p]) /\ B[p + 1] = B[Tip(B[p])]
      BY <1>1, <1>7 DEF CFlow
    <2>2. Len(B[p]) \in 1..Len(B[p])
      BY <1>3, <2>1
    <2>3. Tip(B[p]) \in 1..p - 1 /\ Begins(B[Tip(B[p])], B[p])
      BY <1>3, <2>2 DEF Tip
    <2>4. to = p + 1 \/ to = Tip(B[p])
      BY <1>7, <2>1 DEF Targets
    <2>5. Tip(B[p]) \in 1..Len(out) + 1
      BY <1>2, <2>3
    <2> QED
      BY <1>2, <1>7, <2>1, <2>3, <2>4, <2>5 DEF Exits
  <1>8. CASE out[p].op \in {"break", "continue"}
    <2>1. \E i \in 1..Len(B[p]) : out[B[p][i]].op = "for"
      BY <1>1, <1>8 DEF CFlow
    <2>2. PICK i \in 1..Len(B[p]) : LoopAround(p) = B[p][i]
      BY <1>1, <1>2, <2>1, LoopAroundIs
    <2> DEFINE l == B[p][i]
    <2>3. l \in 1..p - 1 /\ out[l].op \in COpeners /\ Begins(B[l], B[p])
      BY <1>3
    <2>4. l \in 1..Len(out) /\ l \in 1..Len(out) + 1
      BY <1>2, <2>3
    <2>5. EndOf(l) \in l + 1..Len(out) /\ B[EndOf(l) + 1] = B[l]
      BY <1>1, <2>3, <2>4, EndOfOpener
    <2>6. EndOf(l) + 1 \in 1..Len(out) + 1
      BY <1>2, <2>4, <2>5
    <2>7. to = EndOf(l) + 1 \/ to = l
      BY <1>8, <2>2 DEF Targets
    <2> QED
      BY <1>8, <2>3, <2>4, <2>5, <2>6, <2>7 DEF Exits
  <1>9. CASE out[p].op = "return"
    <2>1. to = z
      BY <1>9 DEF Targets, Finished
    <2>2. Begins(B[to], B[p])
      BY <1>1, <1>3, <2>1 DEF Begins
    <2> QED
      BY <1>2, <1>9, <2>1, <2>2 DEF Exits
  <1>10. out[p].op \in COpeners \cup Exits \cup {"reach"}
    BY <1>1 DEF CTokType
  <1> QED
    BY <1>4, <1>5, <1>6, <1>7, <1>8, <1>9, <1>10 DEF COpeners, Exits

\* The places of the text at which defers wait, when nothing waits at the end.
FullWaits(B, W) == Waits(B, W, ast, out) /\ W[Len(out) + 1] = <<>>

\* What a step does to what waits: only "reach" adds and only "run" takes away.
LEMMA TargetWaits ==
    ASSUME NEW B, FullText(B), NEW W, FullWaits(B, W), ~Captured,
           NEW p \in 1..Len(out), NEW to \in Targets(p)
    PROVE  /\ out[p].op = "reach" => W[to] = Append(W[p], p)
           /\ out[p].op = "run" =>
                /\ W[p] # <<>> /\ out[Tip(W[p])].defer = out[p].defer
                /\ W[to] = Prefix(W[p], Len(W[p]) - 1)
           /\ out[p].op \notin {"reach", "run"} => W[to] = W[p]
  <1> DEFINE z == Len(out) + 1
  <1>0. Text(B, heap, ast, out) /\ B[z] = <<>>
    BY DEF FullText
  <1>1. /\ Text(B, heap, ast, out) /\ B[z] = <<>> /\ CFlow(B, heap, ast, out, p)
        /\ out \in Seq(CTokType) /\ out[p] \in CTokType
    <2>1. out \in Seq(CTokType) /\ \A q \in 1..Len(out) : CFlow(B, heap, ast, out, q)
      BY <1>0 DEF Text
    <2>2. out[p] \in CTokType
      BY <2>1, ElementOfSeq
    <2> QED
      BY <1>0, <2>1, <2>2
  <1>2. /\ Len(out) \in Nat /\ p \in Nat /\ p \in 1..Len(out) + 1 /\ p + 1 \in 1..Len(out) + 1
    BY <1>1
  <1>3. \A q \in 1..Len(out) : WaitTok(B, W, ast, out, q)
    BY DEF FullWaits, Waits
  <1>4. WaitTok(B, W, ast, out, p) /\ W[z] = <<>>
    BY <1>3 DEF FullWaits
  <1>5. ASSUME NEW o \in 1..Len(out), out[o].op \in {"if", "for"}
        PROVE  W[EndOf(o) + 1] = W[o]
    <2> DEFINE e == EndOf(o)
    <2>1. out[o].op \in COpeners
      BY <1>5 DEF COpeners
    <2>2. e \in o + 1..Len(out) /\ out[e].op = "end" /\ Tip(B[e]) = o
      BY <1>1, <2>1, EndOfOpener
    <2> HIDE DEF e
    <2>3. e \in 1..Len(out)
      BY <1>2, <2>2
    <2>4. WaitTok(B, W, ast, out, e)
      BY <1>3, <2>3
    <2>5. W[e + 1] = W[e] /\ W[o] = W[e]
      BY <1>5, <2>2, <2>4 DEF WaitTok
    <2> QED
      BY <2>5 DEF e
  <1>6. CASE out[p].op \in {"fn", "run", "reach"}
    <2>1. to = p + 1
      BY <1>6 DEF Targets
    <2> QED
      BY <1>4, <1>6, <2>1 DEF WaitTok
  <1>7. CASE out[p].op \in {"if", "for"}
    <2>1. to = p + 1 \/ to = EndOf(p) + 1
      BY <1>7 DEF Targets
    <2>2. W[p + 1] = W[p]
      BY <1>4, <1>7 DEF WaitTok
    <2>3. W[EndOf(p) + 1] = W[p]
      BY <1>5, <1>7
    <2> QED
      BY <1>7, <2>1, <2>2, <2>3
  <1>8. CASE out[p].op = "end"
    <2>1. out[p].open = Tip(B[p])
      BY <1>1, <1>8 DEF CFlow
    <2>2. W[p + 1] = W[p] /\ (out[Tip(B[p])].op # "run" => W[Tip(B[p])] = W[p])
      BY <1>4, <1>8 DEF WaitTok
    <2>3. to = p + 1 \/ (to = Tip(B[p]) /\ out[Tip(B[p])].op = "for")
      BY <1>8, <2>1 DEF Targets
    <2> QED
      BY <1>8, <2>2, <2>3
  <1>9. CASE out[p].op \in {"break", "continue"}
    <2>1. \E i \in 1..Len(B[p]) : out[B[p][i]].op = "for"
      BY <1>1, <1>9 DEF CFlow
    <2>2. PICK i \in 1..Len(B[p]) :
             LoopAround(p) = B[p][i] /\ out[B[p][i]].op = "for" /\ NoFor(B, out, p, i)
      BY <1>1, <1>2, <2>1, LoopAroundIs
    <2> DEFINE l == B[p][i]
    <2>3. out[l].src = ast[out[p].src].loop
      BY <1>9, <2>2 DEF Captured
    <2>4. W[l] = W[p]
      BY <1>4, <1>9, <2>2, <2>3 DEF WaitTok
    <2>5. l \in 1..p - 1
      BY <1>1, <1>2, PlaceFacts
    <2>6. l \in 1..Len(out)
      BY <1>2, <2>5
    <2>7. W[EndOf(l) + 1] = W[l]
      BY <1>5, <2>2, <2>6
    <2>8. to = EndOf(l) + 1 \/ to = l
      BY <1>9, <2>2 DEF Targets
    <2> QED
      BY <1>9, <2>4, <2>7, <2>8
  <1>10. CASE out[p].op = "return"
    <2>1. to = z
      BY <1>10 DEF Targets, Finished
    <2>2. W[p] = <<>>
      BY <1>4, <1>10 DEF WaitTok
    <2> QED
      BY <1>4, <1>10, <2>1, <2>2
  <1>11. out[p].op \in COpeners \cup Exits \cup {"reach"}
    BY <1>1 DEF CTokType
  <1> QED
    BY <1>6, <1>7, <1>8, <1>9, <1>10, <1>11 DEF COpeners, Exits

-----------------------------------------------------------------------------
(* The stack of the defers that were reached, while the C function runs. *)

\* A defer that waits, and where it was reached.
PendingType == [defer : 1..Len(heap), at : 1..Len(out)]

\* The stack that survives a step is the older part of the stack.
LEMMA SurvivingTyped ==
    ASSUME NEW T, NEW s \in Seq(T), NEW to
    PROVE  Surviving(s, to) \in Seq(T)
  <1> DEFINE S == {i \in 1..Len(s) : Innermost(Enclosing(s[i].at)) \in Enclosing(to)}
             n == Cardinality(S)
  <1>1. Len(s) \in Nat
    OBVIOUS
  <1>2. IsFiniteSet(1..Len(s)) /\ Cardinality(1..Len(s)) = Len(s)
    BY <1>1, FS_Interval
  <1>3. S \in SUBSET (1..Len(s))
    OBVIOUS
  <1> HIDE DEF S
  <1>4. IsFiniteSet(S) /\ n <= Len(s)
    BY <1>2, <1>3, FS_Subset
  <1>5. n \in Nat
    BY <1>4, FS_CardinalityType
  <1> HIDE DEF n
  <1>6. Prefix(s, n) \in Seq(T)
    BY <1>1, <1>4, <1>5, PrefixFacts
  <1> QED
    BY <1>6 DEF Surviving, S, n

\* It is all of the stack when no block is left in which a defer waits.
LEMMA SurvivingAll ==
    ASSUME NEW T, NEW s \in Seq(T), NEW to,
           \A i \in 1..Len(s) : Innermost(Enclosing(s[i].at)) \in Enclosing(to)
    PROVE  Surviving(s, to) = s
  <1> DEFINE S == {i \in 1..Len(s) : Innermost(Enclosing(s[i].at)) \in Enclosing(to)}
  <1>1. Len(s) \in Nat
    OBVIOUS
  <1>2. Cardinality(1..Len(s)) = Len(s)
    BY <1>1, FS_Interval
  <1>3. S = 1..Len(s)
    OBVIOUS
  <1>4. Prefix(s, Len(s)) = s
    BY DEF Prefix
  <1> QED
    BY <1>2, <1>3, <1>4 DEF Surviving

\* The stack is what the text says of the next token.
Stacked(W) ==
    /\ Len(pending) = Len(W[pc])
    /\ \A i \in 1..Len(pending) :
         pending[i].defer = out[W[pc][i]].defer /\ pending[i].at = W[pc][i]

\* The stack as a step leaves it has its type, whatever the text.
LEMMA StepTyped ==
    ASSUME NEW B, FullText(B), Step, pc \in 1..Len(out) + 1, pending \in Seq(PendingType)
    PROVE  pc' \in 1..Len(out) + 1 /\ pending' \in Seq(PendingType) /\ pc \in 1..Len(out)
  <1> DEFINE p == pc
  <1>1. PICK to \in Targets(p) :
          /\ pc' = to
          /\ pending' = CASE out[p].op = "reach" ->
                               Append(pending, [defer |-> out[p].defer, at |-> p])
                          [] out[p].op = "run" /\ pending # <<>> ->
                               Prefix(pending, Len(pending) - 1)
                          [] OTHER -> Surviving(pending, to)
    BY DEF Step
  <1>2. out \in Seq(CTokType) /\ Text(B, heap, ast, out)
    BY DEF FullText, Text
  <1>3. p # Len(out) + 1
    BY DEF Step, Finished
  <1>4. p \in 1..Len(out)
    BY <1>2, <1>3
  <1>5. to \in 1..Len(out) + 1
    BY <1>4, TargetBlocks
  <1>6. CASE out[p].op = "reach"
    <2>1. CFlow(B, heap, ast, out, p)
      BY <1>2, <1>4 DEF Text
    <2>2. out[p].defer \in 1..Len(heap)
      BY <1>6, <2>1 DEF CFlow
    <2> DEFINE r == [defer |-> out[p].defer, at |-> p]
    <2>3. r \in PendingType
      BY <1>4, <2>2 DEF PendingType
    <2>4. pending' = Append(pending, r)
      BY <1>1, <1>6
    <2> HIDE DEF r
    <2>5. pending' \in Seq(PendingType)
      BY <2>3, <2>4, AppendProperties
    <2> QED
      BY <1>1, <1>4, <1>5, <2>5
  <1>7. CASE out[p].op = "run" /\ pending # <<>>
    <2>1. pending' = Prefix(pending, Len(pending) - 1)
      BY <1>1, <1>7
    <2>2. Len(pending) - 1 \in 0..Len(pending)
      BY <1>7
    <2>3. Prefix(pending, Len(pending) - 1) \in Seq(PendingType)
      BY <2>2, PrefixFacts
    <2> QED
      BY <1>1, <1>4, <1>5, <2>1, <2>3
  <1>8. CASE out[p].op # "reach" /\ ~(out[p].op = "run" /\ pending # <<>>)
    <2>1. pending' = Surviving(pending, to)
      BY <1>1, <1>8
    <2> QED
      BY <1>1, <1>4, <1>5, <2>1, SurvivingTyped
  <1> QED
    BY <1>6, <1>7, <1>8

\* A step of the C function keeps the stack at what the text says.
LEMMA StepStacked ==
    ASSUME NEW B, FullText(B), NEW W, FullWaits(B, W), ~Captured, Step,
           pc \in 1..Len(out) + 1, pending \in Seq(PendingType), Stacked(W)
    PROVE  Stacked(W)'
  <1> DEFINE p == pc
             w == W[p]
             n == Len(pending)
  <1>1. PICK to \in Targets(p) :
          /\ pc' = to
          /\ pending' = CASE out[p].op = "reach" ->
                               Append(pending, [defer |-> out[p].defer, at |-> p])
                          [] out[p].op = "run" /\ pending # <<>> ->
                               Prefix(pending, Len(pending) - 1)
                          [] OTHER -> Surviving(pending, to)
    BY DEF Step
  <1>2. out' = out
    BY DEF Step, codegen
  <1>3. p \in 1..Len(out) /\ pc' \in 1..Len(out) + 1
    BY StepTyped
  <1>4. /\ out[p].op = "reach" => W[to] = Append(w, p)
        /\ out[p].op = "run" =>
             /\ w # <<>> /\ out[Tip(w)].defer = out[p].defer
             /\ W[to] = Prefix(w, Len(w) - 1)
        /\ out[p].op \notin {"reach", "run"} => W[to] = w
    BY <1>3, TargetWaits
  <1>5. w \in Seq(Nat) /\ Len(w) \in Nat /\ n \in Nat /\ W[to] \in Seq(Nat) /\ Len(W[to]) \in Nat
    <2>1. W \in Seq(Seq(Nat)) /\ Len(W) = Len(out) + 1
      BY DEF FullWaits, Waits
    <2>2. p \in 1..Len(W) /\ to \in 1..Len(W)
      BY <1>1, <1>3, <2>1
    <2> QED
      BY <2>1, <2>2
  <1>6. n = Len(w) /\ \A i \in 1..n : pending[i].defer = out[w[i]].defer /\ pending[i].at = w[i]
    BY DEF Stacked
  <1>7. SUFFICES /\ Len(pending') = Len(W[to])
                 /\ \A i \in 1..Len(pending') :
                      pending'[i].defer = out[W[to][i]].defer /\ pending'[i].at = W[to][i]
    BY <1>1, <1>2 DEF Stacked
  <1>8. CASE out[p].op = "reach"
    <2> DEFINE r == [defer |-> out[p].defer, at |-> p]
    <2>1. pending' = Append(pending, r) /\ W[to] = Append(w, p) /\ p \in Nat
      BY <1>1, <1>3, <1>4, <1>8
    <2>2. r.defer = out[p].defer /\ r.at = p
      OBVIOUS
    <2>3. Len(pending') = n + 1 /\ pending'[n + 1] = r /\ \A i \in 1..n : pending'[i] = pending[i]
      <3> HIDE DEF r
      <3> QED
        BY <2>1, AppendProperties
    <2>4. Len(W[to]) = Len(w) + 1 /\ W[to][Len(w) + 1] = p /\ \A i \in 1..Len(w) : W[to][i] = w[i]
      BY <1>5, <2>1, AppendProperties
    <2>5. ASSUME NEW i \in 1..n + 1
          PROVE  pending'[i].defer = out[W[to][i]].defer /\ pending'[i].at = W[to][i]
      <3>1. i \in 1..n \/ i = n + 1
        BY <1>5
      <3> HIDE DEF r, n, w
      <3> QED
        BY <1>6, <2>2, <2>3, <2>4, <3>1
    <2> QED
      BY <1>6, <2>3, <2>4, <2>5
  <1>9. CASE out[p].op = "run"
    <2>1. w # <<>> /\ W[to] = Prefix(w, Len(w) - 1)
      BY <1>4, <1>9
    <2>2. Len(w) > 0 /\ n - 1 \in 0..n /\ Len(w) - 1 \in 0..Len(w)
      BY <1>5, <1>6, <2>1
    <2>3. pending # <<>>
      BY <1>6, <2>2
    <2>4. pending' = Prefix(pending, n - 1)
      BY <1>1, <1>9, <2>3
    <2>5. Len(pending') = n - 1 /\ \A i \in 1..n - 1 : pending'[i] = pending[i]
      BY <2>2, <2>4, PrefixFacts
    <2>6. Len(W[to]) = Len(w) - 1 /\ \A i \in 1..Len(w) - 1 : W[to][i] = w[i]
      <3> HIDE DEF w
      <3>1. /\ Len(Prefix(w, Len(w) - 1)) = Len(w) - 1
            /\ \A i \in 1..Len(w) - 1 : Prefix(w, Len(w) - 1)[i] = w[i]
        BY <1>5, <2>2, PrefixFacts
      <3> QED
        BY <2>1, <3>1
    <2>7. \A i \in 1..n - 1 : i \in 1..n
      BY <1>5
    <2> HIDE DEF n, w
    <2> QED
      BY <1>6, <2>5, <2>6, <2>7
  <1>10. CASE out[p].op \notin {"reach", "run"}
    <2>1. pending' = Surviving(pending, to) /\ W[to] = w
      BY <1>1, <1>4, <1>10
    <2>2. Surviving(pending, to) = pending
      <3> SUFFICES ASSUME NEW i \in 1..Len(pending)
                   PROVE  Innermost(Enclosing(pending[i].at)) \in Enclosing(to)
        BY SurvivingAll
      <3>1. pending[i].at = w[i] /\ i \in 1..Len(W[to])
        BY <1>6, <2>1
      <3>2. /\ w[i] \in 1..to - 1 /\ B[w[i]] # <<>> /\ Begins(B[w[i]], B[to])
        <4>1. to \in 1..Len(out) + 1
          BY <1>1, <1>3
        <4>2. WaitPlace(B, W, out, to)
          BY <4>1 DEF FullWaits, Waits
        <4> QED
          BY <2>1, <3>1, <4>2 DEF WaitPlace
      <3>3. Text(B, heap, ast, out)
        BY DEF FullText
      <3>4. to \in 1..Len(out) + 1 /\ w[i] \in 1..Len(out) + 1
        <4>1. Len(out) \in Nat
          BY <1>3, <3>3 DEF Text
        <4> QED
          BY <1>1, <1>3, <3>2, <4>1
      <3> DEFINE s == B[w[i]]
      <3>5. Innermost(Enclosing(w[i])) = Tip(s)
        BY <3>2, <3>3, <3>4, InnermostIsTip
      <3>6. Enclosing(to) = {B[to][k] : k \in 1..Len(B[to])}
        BY <3>3, <3>4, DepthIsLength
      <3>7. s \in Seq(Nat) /\ B[to] \in Seq(Nat)
        BY <3>3, <3>4, PlaceFacts
      <3>8. Len(s) \in 1..Len(s)
        BY <3>2, <3>7
      <3>9. Len(s) \in 1..Len(B[to]) /\ B[to][Len(s)] = s[Len(s)]
        BY <3>2, <3>7, <3>8, BeginsAt
      <3> QED
        BY <3>1, <3>5, <3>6, <3>9 DEF Tip
    <2> QED
      BY <1>6, <2>1, <2>2
  <1> QED
    BY <1>8, <1>9, <1>10

-----------------------------------------------------------------------------
(* The promise, step by step. *)

\* The stack and the running bodies as the promise sees them.
StackAt(B, s) == [i \in 1..Len(s) |-> <<s[i].defer, Len(B[s[i].at])>>]
BodiesAt(B, p) ==
    {<<out[B[p][i]].defer, i>> : i \in {j \in 1..Len(B[p]) : out[B[p][j]].op = "run"}}

\* A running body is one level deeper than the place where it is run.
LEMMA BodiesOf ==
    ASSUME NEW B, Text(B, heap, ast, out), NEW p \in 1..Len(out) + 1
    PROVE  {<<out[o].defer, Depth(o) + 1>> : o \in Bodies(p)} = BodiesAt(B, p)
  <1> DEFINE s == B[p]
             I == {j \in 1..Len(s) : out[s[j]].op = "run"}
  <1>1. Enclosing(p) = {s[i] : i \in 1..Len(s)}
    BY DepthIsLength
  <1>2. Bodies(p) = {s[i] : i \in I}
    BY <1>1 DEF Bodies
  <1>3. ASSUME NEW i \in I PROVE <<out[s[i]].defer, Depth(s[i]) + 1>> = <<out[s[i]].defer, i>>
    <2>1. /\ Len(out) \in Nat /\ p \in Nat /\ s[i] \in 1..p - 1 /\ Len(B[s[i]]) = i - 1 /\ i \in Nat
      BY PlaceFacts
    <2>2. s[i] \in 1..Len(out) + 1
      BY <2>1
    <2>3. Depth(s[i]) = Len(B[s[i]])
      BY <2>2, DepthIsLength
    <2> QED
      BY <2>1, <2>3
  <1>4. {<<out[o].defer, Depth(o) + 1>> : o \in Bodies(p)}
          = {<<out[s[i]].defer, Depth(s[i]) + 1>> : i \in I}
    BY <1>2
  <1> HIDE DEF I
  <1>5. {<<out[s[i]].defer, Depth(s[i]) + 1>> : i \in I} = {<<out[s[i]].defer, i>> : i \in I}
    BY <1>3
  <1> QED
    BY <1>4, <1>5 DEF BodiesAt, I

\* The state of the promise, for the text o, at token p with the stack s.
DepthOf(o, p) == Cardinality(Open(o, p))
PendingOf(o, s) == [i \in 1..Len(s) |-> <<s[i].defer, DepthOf(o, s[i].at)>>]
RunningOf(o, p) ==
    {<<o[q].defer, DepthOf(o, q) + 1>> : q \in {r \in Open(o, p) : o[r].op = "run"}}

\* It is the state that ScopeExit is instantiated with, while the function runs.
LEMMA ScopeState ==
    /\ Running /\ Sound =>
         /\ ScopeDepth = DepthOf(out, pc) /\ ScopePending = PendingOf(out, pending)
         /\ ScopeRunning = RunningOf(out, pc)
    /\ (Running /\ Sound)' =>
         /\ ScopeDepth' = DepthOf(out', pc') /\ ScopePending' = PendingOf(out', pending')
         /\ ScopeRunning' = RunningOf(out', pc')
  <1>1. /\ Running /\ Sound => ScopeDepth = DepthOf(out, pc)
        /\ (Running /\ Sound)' => ScopeDepth' = DepthOf(out', pc')
    BY DEF ScopeDepth, DepthOf, Depth, Enclosing, Open
  <1>2. /\ Running /\ Sound => ScopePending = PendingOf(out, pending)
        /\ (Running /\ Sound)' => ScopePending' = PendingOf(out', pending')
    BY DEF ScopePending, PendingOf, DepthOf, Depth, Enclosing, Open
  <1>3. /\ Running /\ Sound => ScopeRunning = RunningOf(out, pc)
        /\ (Running /\ Sound)' => ScopeRunning' = RunningOf(out', pc')
    BY DEF ScopeRunning, RunningOf, DepthOf, Depth, Enclosing, Open, Bodies
  <1> QED
    BY <1>1, <1>2, <1>3

\* Otherwise it is the promise's initial state.
LEMMA ScopeIdle ==
    /\ ~(Running /\ Sound) => ScopeDepth = 0 /\ ScopePending = <<>> /\ ScopeRunning = {}
    /\ ~(Running /\ Sound)' => ScopeDepth' = 0 /\ ScopePending' = <<>> /\ ScopeRunning' = {}
  BY DEF ScopeDepth, ScopePending, ScopeRunning

\* The state of the promise at a place of the text, where s waits.
LEMMA ScopeAt ==
    ASSUME NEW B, Text(B, heap, ast, out), NEW W, FullWaits(B, W), NEW p \in 1..Len(out) + 1,
           NEW s, Len(s) = Len(W[p]), \A i \in 1..Len(s) : s[i].at = W[p][i]
    PROVE  /\ DepthOf(out, p) = Len(B[p]) /\ PendingOf(out, s) = StackAt(B, s)
           /\ RunningOf(out, p) = BodiesAt(B, p)
  <1>1. \A q : Depth(q) = DepthOf(out, q) /\ Enclosing(q) = Open(out, q)
    BY DEF DepthOf, Depth, Enclosing, Open
  <1>2. DepthOf(out, p) = Len(B[p])
    BY <1>1, DepthIsLength
  <1>3. RunningOf(out, p) = {<<out[o].defer, Depth(o) + 1>> : o \in Bodies(p)}
    BY <1>1 DEF RunningOf, Bodies
  <1>4. RunningOf(out, p) = BodiesAt(B, p)
    BY <1>3, BodiesOf
  <1>5. ASSUME NEW i \in 1..Len(s)
        PROVE  <<s[i].defer, DepthOf(out, s[i].at)>> = <<s[i].defer, Len(B[s[i].at])>>
    <2>1. s[i].at = W[p][i] /\ i \in 1..Len(W[p])
      OBVIOUS
    <2>2. WaitPlace(B, W, out, p)
      BY DEF FullWaits, Waits
    <2>3. W[p][i] \in 1..p - 1 /\ p \in Nat /\ Len(out) \in Nat
      BY <2>1, <2>2, PlaceFacts DEF WaitPlace
    <2>4. W[p][i] \in 1..Len(out) + 1
      BY <2>3
    <2>5. Depth(W[p][i]) = Len(B[W[p][i]])
      BY <2>4, DepthIsLength
    <2> QED
      BY <1>1, <2>1, <2>5
  <1>6. PendingOf(out, s) = StackAt(B, s)
    BY <1>5 DEF PendingOf, StackAt
  <1> QED
    BY <1>2, <1>4, <1>6

\* A function on 1..n is a sequence.
LEMMA FunctionSeq ==
    ASSUME NEW n \in Nat, NEW U, NEW f \in [1..n -> U]
    PROVE  f \in Seq(U) /\ Len(f) = n
  OBVIOUS

\* A block that is entered: a running body when it is the body of a defer.
LEMMA BodiesPush ==
    ASSUME NEW B, NEW p, NEW to, B[p] \in Seq(Nat), p \in Nat, B[to] = Append(B[p], p)
    PROVE  /\ Len(B[to]) = Len(B[p]) + 1
           /\ out[p].op # "run" => BodiesAt(B, to) = BodiesAt(B, p)
           /\ out[p].op = "run" =>
                BodiesAt(B, to) = BodiesAt(B, p) \cup {<<out[p].defer, Len(B[p]) + 1>>}
  <1> DEFINE s == B[p]
             t == B[to]
             n == Len(s)
  <1>1. n \in Nat /\ Len(t) = n + 1 /\ t[n + 1] = p /\ \A i \in 1..n : t[i] = s[i]
    BY AppendProperties
  <1> HIDE DEF s, t, n
  <1>2. \A i : i \in 1..n + 1 <=> i \in 1..n \/ i = n + 1
    BY <1>1
  <1>3. \A i \in 1..n : i # n + 1
    BY <1>1
  <1>4. BodiesAt(B, p) = {<<out[s[i]].defer, i>> : i \in {j \in 1..n : out[s[j]].op = "run"}}
    BY DEF BodiesAt, s, n
  <1>5. BodiesAt(B, to) = {<<out[t[i]].defer, i>> : i \in {j \in 1..n + 1 : out[t[j]].op = "run"}}
    BY <1>1 DEF BodiesAt, t
  <1>6. ASSUME NEW x PROVE x \in BodiesAt(B, to) <=>
                  x \in BodiesAt(B, p) \/ (out[p].op = "run" /\ x = <<out[p].defer, n + 1>>)
    <2>1. x \in BodiesAt(B, to) <=> \E i \in 1..n + 1 : out[t[i]].op = "run" /\ x = <<out[t[i]].defer, i>>
      BY <1>5
    <2>2. x \in BodiesAt(B, p) <=> \E i \in 1..n : out[s[i]].op = "run" /\ x = <<out[s[i]].defer, i>>
      BY <1>4
    <2> QED
      BY <1>1, <1>2, <2>1, <2>2
  <1>7. out[p].op # "run" => BodiesAt(B, to) = BodiesAt(B, p)
    BY <1>6
  <1>8. out[p].op = "run" => BodiesAt(B, to) = BodiesAt(B, p) \cup {<<out[p].defer, n + 1>>}
    BY <1>6
  <1> QED
    BY <1>1, <1>7, <1>8 DEF s, t, n

\* Blocks that are left: their bodies do not run any more.
LEMMA BodiesLeave ==
    ASSUME NEW B, NEW p, NEW to, B[p] \in Seq(Nat), B[to] \in Seq(Nat), Begins(B[to], B[p])
    PROVE  BodiesAt(B, to) = {b \in BodiesAt(B, p) : b[2] <= Len(B[to])}
  <1> DEFINE s == B[p]
             t == B[to]
             n == Len(s)
             m == Len(t)
  <1>1. n \in Nat /\ m \in Nat /\ m <= n /\ \A i \in 1..m : t[i] = s[i]
    BY DEF Begins
  <1> HIDE DEF s, t, n, m
  <1>2. \A i : i \in 1..m <=> i \in 1..n /\ i <= m
    BY <1>1
  <1>3. BodiesAt(B, p) = {<<out[s[i]].defer, i>> : i \in {j \in 1..n : out[s[j]].op = "run"}}
    BY DEF BodiesAt, s, n
  <1>4. BodiesAt(B, to) = {<<out[t[i]].defer, i>> : i \in {j \in 1..m : out[t[j]].op = "run"}}
    BY DEF BodiesAt, t, m
  <1>5. ASSUME NEW x PROVE x \in BodiesAt(B, to) <=> x \in BodiesAt(B, p) /\ x[2] <= m
    <2>1. x \in BodiesAt(B, to) <=> \E i \in 1..m : out[t[i]].op = "run" /\ x = <<out[t[i]].defer, i>>
      BY <1>4
    <2>2. x \in BodiesAt(B, p) <=> \E i \in 1..n : out[s[i]].op = "run" /\ x = <<out[s[i]].defer, i>>
      BY <1>3
    <2> QED
      BY <1>1, <1>2, <2>1, <2>2
  <1>6. BodiesAt(B, to) = {b \in BodiesAt(B, p) : b[2] <= m}
    BY <1>5
  <1> QED
    BY <1>6 DEF m, t

\* A defer more on the stack, and one less.
LEMMA StackMore ==
    ASSUME NEW B, NEW T, NEW s \in Seq(T), NEW r \in T
    PROVE  /\ StackAt(B, Append(s, r)) = Append(StackAt(B, s), <<r.defer, Len(B[r.at])>>)
           /\ Len(StackAt(B, s)) = Len(s)
  <1> DEFINE n == Len(s)
             f == StackAt(B, s)
             v == <<r.defer, Len(B[r.at])>>
             t == Append(s, r)
             g == StackAt(B, t)
  <1>1. n \in Nat /\ Len(t) = n + 1 /\ t[n + 1] = r /\ \A i \in 1..n : t[i] = s[i]
    BY AppendProperties
  <1>2. /\ f = [i \in 1..n |-> <<s[i].defer, Len(B[s[i].at])>>]
        /\ g = [i \in 1..n + 1 |-> <<t[i].defer, Len(B[t[i].at])>>]
    BY <1>1 DEF StackAt
  <1> DEFINE U == {<<s[i].defer, Len(B[s[i].at])>> : i \in 1..n} \cup {v}
  <1>3. f \in [1..n -> U] /\ v \in U
    BY <1>2
  <1>4. \A i \in 1..n : g[i] = f[i] /\ i \in 1..n + 1
    BY <1>1, <1>2
  <1>5. g[n + 1] = v
    <2>1. n + 1 \in 1..n + 1
      BY <1>1
    <2>2. g[n + 1] = <<t[n + 1].defer, Len(B[t[n + 1].at])>>
      BY <1>2, <2>1
    <2> QED
      BY <1>1, <2>2
  <1>6. DOMAIN g = 1..n + 1 /\ g = [i \in 1..n + 1 |-> g[i]]
    BY <1>2
  <1> HIDE DEF U, f, n, g, v, t
  <1>7. \A i \in 1..n + 1 : i \in 1..n \/ i = n + 1
    BY <1>1
  <1>8. ASSUME NEW i \in 1..n + 1 PROVE g[i] \in U
    BY <1>3, <1>4, <1>5, <1>7
  <1>9. g \in [1..n + 1 -> U]
    BY <1>6, <1>8
  <1>10. f \in Seq(U) /\ Len(f) = n /\ g \in Seq(U) /\ Len(g) = n + 1
    <2>1. n + 1 \in Nat
      BY <1>1
    <2>2. f \in Seq(U) /\ Len(f) = n
      BY <1>1, <1>3, FunctionSeq
    <2>3. g \in Seq(U) /\ Len(g) = n + 1
      BY <1>9, <2>1, FunctionSeq
    <2> QED
      BY <2>2, <2>3
  <1>11. /\ Append(f, v) \in Seq(U) /\ Len(Append(f, v)) = n + 1 /\ Append(f, v)[n + 1] = v
         /\ \A i \in 1..n : Append(f, v)[i] = f[i]
    BY <1>3, <1>10, AppendProperties
  <1>12. ASSUME NEW i \in 1..n + 1 PROVE g[i] = Append(f, v)[i]
    BY <1>4, <1>5, <1>7, <1>11
  <1>13. g = Append(f, v)
    BY <1>10, <1>11, <1>12, SeqEqual
  <1> QED
    BY <1>10, <1>13 DEF f, g, t, v, n

\* The stack without its newest defer.
LEMMA StackLess ==
    ASSUME NEW B, NEW T, NEW s \in Seq(T), Len(s) > 0
    PROVE  /\ StackAt(B, Prefix(s, Len(s) - 1)) = SubSeq(StackAt(B, s), 1, Len(StackAt(B, s)) - 1)
           /\ StackAt(B, s) # <<>>
           /\ StackAt(B, s)[Len(StackAt(B, s))] = <<Tip(s).defer, Len(B[Tip(s).at])>>
  <1> DEFINE n == Len(s)
             f == StackAt(B, s)
             t == Prefix(s, n - 1)
             g == StackAt(B, t)
             U == {<<s[i].defer, Len(B[s[i].at])>> : i \in 1..n}
  <1>1. n \in Nat /\ n > 0 /\ n - 1 \in 0..n
    OBVIOUS
  <1>2. Len(t) = n - 1 /\ \A i \in 1..n - 1 : t[i] = s[i]
    BY <1>1, PrefixFacts
  <1>3. /\ f = [i \in 1..n |-> <<s[i].defer, Len(B[s[i].at])>>]
        /\ g = [i \in 1..n - 1 |-> <<t[i].defer, Len(B[t[i].at])>>]
    BY <1>2 DEF StackAt
  <1>4. f \in [1..n -> U]
    BY <1>3
  <1>5. n \in 1..n /\ \A i \in 1..n - 1 : i \in 1..n
    BY <1>1
  <1>6. \A i \in 1..n - 1 : g[i] = f[i]
    BY <1>2, <1>3, <1>5
  <1>7. DOMAIN g = 1..n - 1 /\ g = [i \in 1..n - 1 |-> g[i]] /\ f[n] = <<s[n].defer, Len(B[s[n].at])>>
    BY <1>3, <1>5
  <1> HIDE DEF U, f, n, g, t
  <1>8. \A i \in 1..n - 1 : g[i] \in U
    BY <1>4, <1>5, <1>6
  <1>9. g \in [1..n - 1 -> U]
    BY <1>7, <1>8
  <1>10. f \in Seq(U) /\ Len(f) = n /\ g \in Seq(U) /\ Len(g) = n - 1
    <2>1. n - 1 \in Nat
      BY <1>1
    <2>2. f \in Seq(U) /\ Len(f) = n
      BY <1>1, <1>4, FunctionSeq
    <2>3. g \in Seq(U) /\ Len(g) = n - 1
      BY <1>9, <2>1, FunctionSeq
    <2> QED
      BY <2>2, <2>3
  <1>11. /\ Prefix(f, n - 1) \in Seq(U) /\ Len(Prefix(f, n - 1)) = n - 1
         /\ \A i \in 1..n - 1 : Prefix(f, n - 1)[i] = f[i]
    BY <1>1, <1>10, PrefixFacts
  <1>12. g = Prefix(f, n - 1)
    BY <1>6, <1>10, <1>11, SeqEqual
  <1>13. f # <<>>
    BY <1>1, <1>10
  <1> QED
    BY <1>7, <1>10, <1>12, <1>13 DEF f, g, t, n, Prefix, Tip

\* What the step of the C function leaves is on the stack too.
LEMMA StepStack ==
    ASSUME NEW B, FullText(B), NEW W, FullWaits(B, W), ~Captured, Step,
           pc \in 1..Len(out) + 1, pending \in Seq(PendingType), Stacked(W)
    PROVE  /\ out[pc].op = "reach" =>
                pending' = Append(pending, [defer |-> out[pc].defer, at |-> pc])
           /\ out[pc].op = "run" =>
                /\ Len(pending) > 0 /\ Tip(pending).defer = out[pc].defer
                /\ pending' = Prefix(pending, Len(pending) - 1)
           /\ out[pc].op \notin {"reach", "run"} => pending' = pending
  <1> DEFINE p == pc
             w == W[p]
             n == Len(pending)
  <1>1. PICK to \in Targets(p) :
          /\ pc' = to
          /\ pending' = CASE out[p].op = "reach" ->
                               Append(pending, [defer |-> out[p].defer, at |-> p])
                          [] out[p].op = "run" /\ pending # <<>> ->
                               Prefix(pending, Len(pending) - 1)
                          [] OTHER -> Surviving(pending, to)
    BY DEF Step
  <1>2. out' = out
    BY DEF Step, codegen
  <1>3. p \in 1..Len(out) /\ pc' \in 1..Len(out) + 1 /\ pending' \in Seq(PendingType)
    BY StepTyped
  <1>4. /\ out[p].op = "run" => w # <<>> /\ out[Tip(w)].defer = out[p].defer
        /\ out[p].op \notin {"reach", "run"} => W[to] = w
    BY <1>3, TargetWaits
  <1>5. n = Len(w) /\ \A i \in 1..n : pending[i].defer = out[w[i]].defer /\ pending[i].at = w[i]
    BY DEF Stacked
  <1>6. w \in Seq(Nat) /\ n \in Nat
    <2>1. W \in Seq(Seq(Nat)) /\ Len(W) = Len(out) + 1
      BY DEF FullWaits, Waits
    <2>2. p \in 1..Len(W)
      BY <2>1
    <2> QED
      BY <2>1, <2>2
  <1>7. CASE out[p].op = "reach"
    BY <1>1, <1>7
  <1>8. CASE out[p].op = "run"
    <2>1. n > 0 /\ n \in 1..n
      BY <1>4, <1>5, <1>6, <1>8
    <2>2. pending # <<>>
      BY <2>1
    <2>3. pending' = Prefix(pending, n - 1)
      BY <1>1, <1>8, <2>2
    <2>4. Tip(pending).defer = out[Tip(w)].defer
      BY <1>5, <2>1 DEF Tip
    <2> QED
      BY <1>4, <1>8, <2>1, <2>3, <2>4
  <1>9. CASE out[p].op \notin {"reach", "run"}
    <2>1. Stacked(W)'
      BY StepStacked
    <2>2. Len(pending') = Len(w) /\ \A i \in 1..Len(pending') :
            pending'[i].defer = out[w[i]].defer /\ pending'[i].at = w[i]
      BY <1>1, <1>2, <1>4, <1>9, <2>1 DEF Stacked
    <2>3. ASSUME NEW i \in 1..n PROVE pending'[i] = pending[i]
      <3>1. pending[i] \in PendingType /\ pending'[i] \in PendingType
        BY <1>3, <1>5, <2>2, ElementOfSeq
      <3>2. pending'[i].defer = pending[i].defer /\ pending'[i].at = pending[i].at
        BY <1>5, <2>2
      <3>3. \A r \in PendingType : r = [defer |-> r.defer, at |-> r.at]
        BY DEF PendingType
      <3> HIDE DEF n
      <3> QED
        BY <3>1, <3>2, <3>3
    <2>4. pending' = pending
      BY <1>3, <1>5, <2>2, <2>3, SeqEqual
    <2> QED
      BY <1>9, <2>4
  <1> QED
    BY <1>7, <1>8, <1>9

\* A step of the C function is a step of the promise, or changes nothing of it.
LEMMA StepPromise ==
    ASSUME NEW B, FullText(B), NEW W, FullWaits(B, W), Sound, Step, Counted, ResolveTypeOK,
           pc \in 1..Len(out) + 1, pending \in Seq(PendingType), Stacked(W)
    PROVE  [Promise!Next]_Promise!vars
  <1> DEFINE p == pc
             w == W[p]
             P == StackAt(B, pending)
             R == BodiesAt(B, p)
             n == Len(B[p])
  <1>1. PICK to \in Targets(p) : pc' = to
    BY DEF Step
  <1>2. /\ phase = "run" /\ phase' = "run" /\ out' = out /\ ast' = ast /\ dropped' = dropped
    BY DEF Step, codegen, vars, history
  <1>3. p \in 1..Len(out) /\ to \in 1..Len(out) + 1 /\ pending' \in Seq(PendingType)
    BY <1>1, StepTyped
  <1>4. ~Captured /\ Running /\ Running'
    BY <1>2 DEF Sound, Running
  <1>5. Sound'
    <2>1. Captured' <=> Captured
      BY <1>2 DEF Captured, LoopAround, Enclosing
    <2> QED
      BY <1>2, <1>4, <2>1 DEF Sound
  <1>6. Stacked(W)' /\ Text(B, heap, ast, out)
    BY <1>4, StepStacked DEF FullText
  <1>7. /\ ScopeDepth = n /\ ScopePending = P /\ ScopeRunning = R
    <2>1. Len(pending) = Len(W[p]) /\ \A i \in 1..Len(pending) : pending[i].at = W[p][i]
      BY DEF Stacked
    <2> QED
      BY <1>4, <1>6, <2>1, ScopeState, ScopeAt
  <1> DEFINE P2 == StackAt(B, pending')
             R2 == BodiesAt(B, to)
             m == Len(B[to])
  <1>8. ScopeDepth' = m /\ ScopePending' = P2 /\ ScopeRunning' = R2
    <2>1. Len(pending') = Len(W[to]) /\ \A i \in 1..Len(pending') : pending'[i].at = W[to][i]
      BY <1>1, <1>2, <1>6 DEF Stacked
    <2>2. ScopeDepth' = DepthOf(out, to) /\ ScopePending' = PendingOf(out, pending')
          /\ ScopeRunning' = RunningOf(out, to)
      BY <1>1, <1>2, <1>4, <1>5, ScopeState
    <2> QED
      BY <1>3, <1>6, <2>1, <2>2, ScopeAt, ZenonT(60)
  <1>9. /\ out[p].op \in {"fn", "run"} => B[to] = Append(B[p], p)
        /\ out[p].op \in {"if", "for"} => B[to] = Append(B[p], p) \/ B[to] = B[p]
        /\ out[p].op = "reach" => B[to] = B[p]
        /\ out[p].op \in Exits => Begins(B[to], B[p])
    BY <1>3, TargetBlocks
  <1>10. /\ out[p].op = "reach" =>
              pending' = Append(pending, [defer |-> out[p].defer, at |-> p])
         /\ out[p].op = "run" =>
              /\ Len(pending) > 0 /\ Tip(pending).defer = out[p].defer
              /\ pending' = Prefix(pending, Len(pending) - 1)
         /\ out[p].op \notin {"reach", "run"} => pending' = pending
    BY <1>4, StepStack
  <1>11. /\ B[p] \in Seq(Nat) /\ B[to] \in Seq(Nat) /\ n \in Nat /\ m \in Nat /\ p \in Nat
         /\ Len(out) \in Nat
    <2>1. p \in 1..Len(out) + 1
      BY <1>3
    <2> QED
      BY <1>3, <1>6, <2>1, PlaceFacts
  <1>12. Len(P) = Len(pending) /\ Len(pending) \in Nat
    BY DEF StackAt
  <1>13. out \in Seq(CTokType) /\ CFlow(B, heap, ast, out, p)
    BY <1>3, <1>6 DEF Text
  <1>14. out[p].op \in COpeners \cup Exits \cup {"reach"}
    <2>1. out[p] \in CTokType
      BY <1>3, <1>13, ElementOfSeq
    <2> QED
      BY <2>1 DEF CTokType
  <1>15. ASSUME out[p].op \in {"reach", "run"} PROVE out[p].defer \in 1..MaxStmts
    <2>1. out[p].defer \in 1..Len(heap)
      BY <1>13, <1>15 DEF CFlow
    <2>2. Len(heap) <= MaxStmts /\ Len(heap) \in Nat /\ MaxStmts \in Nat
      <3>1. Len(heap) \in Nat /\ count \in Nat
        BY DEF ResolveTypeOK
      <3> QED
        BY <3>1, MaxStmtsAssumption DEF Counted
    <2> QED
      BY <2>1, <2>2
  <1>16. WaitPlace(B, W, out, to)
    BY <1>3 DEF FullWaits, Waits
  <1>17. /\ Len(pending') = Len(W[to]) /\ W[to] \in Seq(Nat)
         /\ \A i \in 1..Len(pending') : pending'[i].at = W[to][i]
    <2>1. W \in Seq(Seq(Nat)) /\ Len(W) = Len(out) + 1
      BY DEF FullWaits, Waits
    <2>2. to \in 1..Len(W)
      BY <1>3, <2>1
    <2> QED
      BY <1>1, <1>2, <1>6, <2>1, <2>2 DEF Stacked
  <1> HIDE DEF w, P, R, n, P2, R2, m
  <1>18. CASE out[p].op \in {"fn", "if", "for"} /\ B[to] = Append(B[p], p)
    <2>1. m = n + 1 /\ R2 = R
      BY <1>11, <1>18, BodiesPush DEF m, n, R, R2
    <2>2. P2 = P
      BY <1>10, <1>18 DEF P, P2
    <2>3. Promise!Enter
      BY <1>7, <1>8, <2>1, <2>2 DEF Promise!Enter
    <2> QED
      BY <2>3 DEF Promise!Next
  <1>19. CASE out[p].op \in {"if", "for"} /\ B[to] = B[p]
    <2>1. m = n /\ R2 = R
      BY <1>19 DEF m, n, R, R2, BodiesAt
    <2>2. P2 = P
      BY <1>10, <1>19 DEF P, P2
    <2> QED
      BY <1>7, <1>8, <2>1, <2>2 DEF Promise!vars
  <1>20. CASE out[p].op = "reach"
    <2> DEFINE d == out[p].defer
               r == [defer |-> d, at |-> p]
               k == Len(pending)
    <2>1. m = n /\ R2 = R
      BY <1>9, <1>20 DEF m, n, R, R2, BodiesAt
    <2>2. r.defer = d /\ r.at = p
      OBVIOUS
    <2>3. pending' = Append(pending, r)
      BY <1>10, <1>20
    <2> HIDE DEF r
    <2>4. r \in {r} \cup PendingType /\ pending \in Seq({r} \cup PendingType)
      BY SeqMonotonic
    <2>5. P2 = Append(P, <<r.defer, Len(B[r.at])>>)
      BY <2>3, <2>4, StackMore DEF P, P2
    <2>6. P2 = Append(P, <<d, n>>)
      BY <2>2, <2>5 DEF n
    <2>7. Len(pending') = k + 1 /\ pending'[k + 1] = r
      BY <2>3, <2>4, AppendProperties
    <2>8. k + 1 \in 1..Len(W[to]) /\ W[to][k + 1] = p
      BY <1>12, <1>17, <2>2, <2>7
    <2>9. B[p] # <<>>
      BY <1>16, <2>8 DEF WaitPlace
    <2>10. n > 0
      BY <1>11, <2>9 DEF n
    <2>11. d \in 1..MaxStmts
      BY <1>15, <1>20
    <2>12. Promise!Reach(d)
      BY <1>7, <1>8, <2>1, <2>6, <2>10 DEF Promise!Reach
    <2> QED
      BY <2>11, <2>12 DEF Promise!Next
  <1>21. CASE out[p].op = "run"
    <2> DEFINE d == out[p].defer
    <2>1. m = n + 1 /\ R2 = R \cup {<<d, n + 1>>}
      BY <1>9, <1>11, <1>21, BodiesPush DEF m, n, R, R2
    <2>2. Len(pending) > 0 /\ Tip(pending).defer = d /\ pending' = Prefix(pending, Len(pending) - 1)
      BY <1>10, <1>21
    <2>3. P2 = SubSeq(P, 1, Len(P) - 1) /\ P # <<>> /\ P[Len(P)] = <<d, Len(B[Tip(pending).at])>>
      BY <2>2, StackLess DEF P, P2
    <2>4. P[Len(P)][1] = d
      BY <2>3
    <2>5. d \in 1..MaxStmts
      BY <1>15, <1>21
    <2>6. Promise!RunBody(d)
      BY <1>7, <1>8, <2>1, <2>3, <2>4 DEF Promise!RunBody
    <2> QED
      BY <2>5, <2>6 DEF Promise!Next
  <1>22. CASE out[p].op \in Exits
    <2>1. Begins(B[to], B[p]) /\ m <= n
      BY <1>9, <1>22 DEF Begins, m, n
    <2>2. R2 = {b \in R : b[2] <= m}
      BY <1>11, <2>1, BodiesLeave DEF R, R2, m
    <2>3. pending' = pending /\ P2 = P
      <3>1. out[p].op \notin {"reach", "run"}
        BY <1>22 DEF Exits
      <3> QED
        BY <1>10, <3>1 DEF P, P2
    <2>4. CASE m < n
      <3>1. P = <<>> \/ P[Len(P)][2] <= m
        <4>1. CASE Len(pending) = 0
          BY <4>1, <1>12 DEF P, StackAt
        <4>2. CASE Len(pending) > 0
          <5> DEFINE k == Len(pending)
          <5>1. P[Len(P)] = <<Tip(pending).defer, Len(B[Tip(pending).at])>>
            BY <4>2, StackLess DEF P
          <5>2. k \in 1..Len(W[to]) /\ Tip(pending).at = W[to][k]
            BY <1>12, <1>17, <2>3, <4>2 DEF Tip
          <5>3. Begins(B[W[to][k]], B[to])
            BY <1>16, <5>2 DEF WaitPlace
          <5>4. Len(B[Tip(pending).at]) <= m
            BY <5>2, <5>3 DEF Begins, m
          <5> QED
            BY <5>1, <5>4
        <4> QED
          BY <1>12, <4>1, <4>2
      <3>2. Promise!Clear(m)
        BY <1>7, <3>1 DEF Promise!Clear
      <3>3. Promise!Leave(m)
        BY <1>7, <1>8, <2>2, <2>3, <2>4, <3>2 DEF Promise!Leave
      <3>4. m \in 0..ScopeDepth
        BY <1>7, <1>11, <2>4 DEF m, n
      <3> QED
        BY <3>3, <3>4 DEF Promise!Next
    <2>5. CASE m = n
      <3>1. R2 = R
        <4>1. ASSUME NEW b \in R PROVE b[2] <= n
          <5>1. PICK i \in 1..Len(B[p]) : b = <<out[B[p][i]].defer, i>>
            BY DEF R, BodiesAt
          <5> QED
            BY <1>11, <5>1 DEF n
        <4> QED
          BY <2>2, <2>5, <4>1
      <3> QED
        BY <1>7, <1>8, <2>3, <2>5, <3>1 DEF Promise!vars
    <2>6. m < n \/ m = n
      BY <1>11, <2>1 DEF m, n
    <2> QED
      BY <2>4, <2>5, <2>6
  <1> QED
    BY <1>9, <1>14, <1>18, <1>19, <1>20, <1>21, <1>22 DEF COpeners

-----------------------------------------------------------------------------
(* The invariant: the text has its places, and while it runs the stack is     *)
(* what the text says of the next token.                                      *)

\* No C has been generated yet.
Early == {"resolve", "fatal", "resolved"}

\* The C text has its places, and the stack of the running function is what they say.
TextOK(E, L) ==
    phase \notin Early =>
        \E B, W, X, Y :
            /\ Textual(E, L, B, W, X, Y)
            /\ phase = "run" /\ Sound => Stacked(W)

\* Where the function is, and what waits, in each phase.
RunTyped ==
    /\ phase \in Early => out = <<>> /\ opens = <<>>
    /\ phase # "run" => pc = 0 /\ pending = <<>>
    /\ phase = "run" => pc \in 1..Len(out) + 1
    /\ pending \in Seq(PendingType)

\* The inductive invariant.
PromiseInv ==
    /\ IInv /\ GenInv /\ Counted /\ RunTyped
    /\ \E E, L : Places(E, L) /\ TextOK(E, L)

\* The initial state.
LEMMA InitPromise == CInit => PromiseInv
  <1> SUFFICES ASSUME CInit PROVE PromiseInv
    OBVIOUS
  <1>1. Init /\ out = <<>> /\ opens = <<>> /\ pc = 0 /\ pending = <<>>
    BY DEF CInit
  <1>2. IInv /\ GenInv
    BY InitGen
  <1>3. phase = "resolve" /\ count = 0 /\ heap = <<>> /\ Len(frames) = 1
    BY <1>1 DEF Init
  <1>4. Counted
    <2>1. Len(heap) = 0
      BY <1>3
    <2> QED
      BY <1>3, <2>1, MaxStmtsAssumption DEF Counted
  <1>5. RunTyped
    BY <1>1, <1>3, EmptySeq DEF RunTyped, Early
  <1>6. PICK E, L : Places(E, L)
    BY <1>1, InitPlaces
  <1>7. TextOK(E, L)
    BY <1>3 DEF TextOK, Early
  <1> QED
    BY <1>2, <1>4, <1>5, <1>6, <1>7 DEF PromiseInv

\* The resolver resolves, until it has resolved the function or found an error.
LEMMA ResolveBegins ==
    ASSUME Resolve
    PROVE  phase = "resolve" /\ phase' \in Early
  <1>1. CASE DeferExpr
    BY <1>1, Zenon DEF DeferExpr, Statement, Early
  <1>2. CASE DeferBlock \/ If \/ For
    BY <1>2, Zenon DEF DeferBlock, If, For, Statement, Early
  <1>3. CASE When \/ WhenNone \/ Return
    BY <1>3, Zenon DEF When, WhenNone, Return, Statement, Early
  <1>4. CASE Break \/ Continue
    BY <1>4 DEF Break, Continue, Jump, Statement, Early
  <1>5. CASE EndIf \/ EndFor \/ EndDefer \/ EndWhen
    BY <1>5 DEF EndIf, EndFor, EndDefer, EndWhen, Close, Early
  <1>6. CASE EndFunction
    BY <1>6 DEF EndFunction, Early
  <1> QED
    BY <1>1, <1>2, <1>3, <1>4, <1>5, <1>6 DEF Resolve

\* A step of the resolver.
LEMMA ResolvePromise ==
    ASSUME PromiseInv, ResolveStep
    PROVE  PromiseInv'
  <1>1. /\ Resolve /\ UNCHANGED <<acts, out, opens, pc, pending>>
    BY DEF ResolveStep, codegen, runtime
  <1>2. IInv' /\ GenInv'
    BY ResolveGen DEF PromiseInv
  <1>3. phase = "resolve" /\ phase' \in Early
    BY <1>1, ResolveBegins
  <1>4. ResolveTypeOK /\ ResolveTypeOK' /\ FramesOK
    BY <1>2 DEF PromiseInv, IInv
  <1>5. Counted'
    BY <1>1, <1>4, CountedStep DEF PromiseInv
  <1>6. RunTyped'
    <2>1. out = <<>> /\ opens = <<>> /\ pc = 0 /\ pending = <<>>
      BY <1>3 DEF PromiseInv, RunTyped, Early
    <2> QED
      BY <1>1, <1>3, <2>1, EmptySeq DEF RunTyped, Early
  <1>7. PICK E, L : Places(E, L)
    BY DEF PromiseInv
  <1>8. PICK E2, L2 : Places(E2, L2)'
    BY <1>1, <1>4, <1>7, PlacesStep
  <1>9. TextOK(E2, L2)'
    BY <1>3 DEF TextOK
  <1> QED
    BY <1>2, <1>5, <1>6, <1>8, <1>9 DEF PromiseInv

\* What stays of the tree once the resolver is done.
LEMMA TreeStays ==
    ASSUME PromiseInv, UNCHANGED <<count, ast, heap, frames, resolver, history>>,
           ~Building, ~Building', NEW E, NEW L, Places(E, L)
    PROVE  Counted' /\ Places(E, L)'
  <1>1. Places(E, L)'
    BY DEF Places
  <1>2. Counted'
    BY DEF Counted, PromiseInv
  <1> QED
    BY <1>1, <1>2

\* A step of the code generator.
LEMMA CodegenPromise ==
    ASSUME PromiseInv, Codegen
    PROVE  PromiseInv'
  <1>1. IInv' /\ GenInv'
    BY NextGen DEF PromiseInv, CNext
  <1>2. /\ UNCHANGED <<count, ast, heap, frames, resolver, history, pc, pending>>
        /\ phase \in {"resolved", "codegen"} /\ phase' \in {"codegen", "crash", "compiled"}
    <2>1. CASE GenFunction
      BY <2>1 DEF GenFunction, runtime
    <2>2. CASE GenOpen \/ GenDefer \/ GenUnwind
      BY <2>2 DEF GenOpen, GenDefer, GenUnwind, Unwinding, vars, runtime
    <2>3. CASE GenNull \/ GenExit
      BY <2>3 DEF GenNull, GenExit, Unwinding, runtime
    <2> QED
      BY <2>1, <2>2, <2>3 DEF Codegen
  <1>3. ~Building /\ ~Building' /\ phase' \notin Early
    BY <1>2 DEF Building, Early
  <1>4. PICK E, L : Places(E, L) /\ TextOK(E, L)
    BY DEF PromiseInv
  <1>5. Counted' /\ Places(E, L)'
    BY <1>2, <1>3, <1>4, TreeStays
  <1>6. RunTyped'
    BY <1>2, <1>3, EmptySeq DEF RunTyped, PromiseInv
  <1>7. ASSUME \E B, W, X, Y : Textual(E, L, B, W, X, Y)' PROVE TextOK(E, L)'
    BY <1>2, <1>7 DEF TextOK
  <1>8. TextOK(E, L)'
    <2>1. CASE GenFunction
      <3>1. phase = "resolved" /\ phase \in Early
        BY <2>1 DEF GenFunction, Early
      <3>2. Complete(E, L, heap, ast)
        BY <1>3, <1>4 DEF Places
      <3>3. out = <<>> /\ opens = <<>>
        BY <3>1 DEF PromiseInv, RunTyped
      <3>4. ResolveTypeOK /\ ExitsUnwind
        BY DEF PromiseInv, IInv
      <3>5. \E B2, W2, X2, Y2 : Textual(E, L, B2, W2, X2, Y2)'
        BY <2>1, <3>2, <3>3, <3>4, FirstTextual
      <3> QED
        BY <1>7, <3>5
    <2>2. CASE GenNull
      <3>1. phase = "codegen" /\ UNCHANGED <<acts, out, opens>>
        BY <2>2 DEF GenNull, Unwinding, codegen
      <3>2. PICK B, W, X, Y : Textual(E, L, B, W, X, Y)
        BY <1>4, <3>1 DEF TextOK, Early
      <3>3. dropped' = dropped
        BY <1>2 DEF history
      <3>4. Textual(E, L, B, W, X, Y)'
        BY <1>2, <3>1, <3>2, <3>3 DEF Textual
      <3> QED
        BY <1>7, <3>4
    <2>3. CASE GenOpen \/ GenDefer \/ GenUnwind \/ GenExit
      <3>1. phase = "codegen"
        BY <2>3 DEF GenOpen, GenDefer, GenUnwind, GenExit, Unwinding
      <3>2. PICK B, W, X, Y : Textual(E, L, B, W, X, Y)
        BY <1>4, <3>1 DEF TextOK, Early
      <3>3. \E B2, W2, X2, Y2 : Textual(E, L, B2, W2, X2, Y2)'
        BY <2>3, <3>2, GenTextual DEF PromiseInv
      <3> QED
        BY <1>7, <3>3
    <2> QED
      BY <2>1, <2>2, <2>3 DEF Codegen
  <1> QED
    BY <1>1, <1>5, <1>6, <1>8, <1>4 DEF PromiseInv

\* Whether the text is sound depends on the text alone.
LEMMA SoundStays == UNCHANGED <<out, ast, dropped>> => (Sound' <=> Sound)
  BY DEF Sound, Captured, LoopAround, Enclosing

\* While the C function is called and runs, its text is complete.
LEMMA CompleteText ==
    ASSUME PromiseInv, phase \in {"compiled", "run"}, NEW E, NEW L, NEW B, NEW W, NEW X, NEW Y,
           Textual(E, L, B, W, X, Y)
    PROVE  FullText(B) /\ (Sound => FullWaits(B, W))
  <1>1. acts = <<>> /\ Len(acts) = 0
    <2>1. acts = <<>>
      BY DEF PromiseInv, GenInv, Idle
    <2> QED
      BY <2>1
  <1>2. FullText(B)
    BY <1>1 DEF Textual, Written, FullText
  <1>3. ASSUME Sound PROVE FullWaits(B, W)
    <2>1. Awaited(E, L, B, W, ast, out, acts, X, Y)
      BY <1>3 DEF Textual, Sound
    <2>2. Len(Y) = 0
      BY <1>1, <2>1 DEF Awaited, Waiting
    <2> QED
      BY <2>1, <2>2 DEF Awaited, FullWaits
  <1> QED
    BY <1>2, <1>3

\* The function is called.
LEMMA StartPromise ==
    ASSUME PromiseInv, Start
    PROVE  PromiseInv' /\ UNCHANGED Promise!vars
  <1>1. IInv' /\ GenInv'
    BY NextGen DEF PromiseInv, CNext
  <1>2. /\ UNCHANGED <<count, ast, heap, frames, resolver, history, acts, out, opens, pending>>
        /\ phase = "compiled" /\ phase' = "run" /\ pc' = 1
    BY DEF Start, codegen
  <1>3. ~Building /\ ~Building' /\ phase \notin Early /\ phase' \notin Early /\ dropped' = dropped
    BY <1>2 DEF Building, Early, history
  <1>4. PICK E, L : Places(E, L) /\ TextOK(E, L)
    BY DEF PromiseInv
  <1>5. PICK B, W, X, Y : Textual(E, L, B, W, X, Y)
    BY <1>3, <1>4 DEF TextOK
  <1>6. FullText(B) /\ (Sound => FullWaits(B, W))
    BY <1>2, <1>5, CompleteText
  <1>7. Counted' /\ Places(E, L)'
    BY <1>2, <1>3, <1>4, TreeStays
  <1>8. pending = <<>> /\ pending' = <<>> /\ Len(pending') = 0
    <2>1. pending = <<>>
      BY <1>2 DEF PromiseInv, RunTyped
    <2> QED
      BY <1>2, <2>1
  <1>9. Text(B, heap, ast, out) /\ Len(out) \in Nat /\ 1 \in 1..Len(out) + 1 /\ B[1] = <<>>
    <2>1. Text(B, heap, ast, out)
      BY <1>6 DEF FullText
    <2>2. out \in Seq(CTokType) /\ B[1] = <<>>
      BY <2>1 DEF Text
    <2> QED
      BY <2>1, <2>2
  <1>10. RunTyped'
    BY <1>2, <1>3, <1>8, <1>9, EmptySeq DEF RunTyped
  <1>11. Textual(E, L, B, W, X, Y)'
    BY <1>2, <1>3, <1>5 DEF Textual
  <1>12. Sound' <=> Sound
    BY <1>2, <1>3, SoundStays
  <1>13. Sound => W[1] = <<>> /\ Len(W[1]) = 0
    <2>1. Sound => W[1] = <<>>
      BY <1>6 DEF FullWaits, Waits
    <2> QED
      BY <2>1
  <1>14. Sound => Stacked(W)'
    BY <1>2, <1>8, <1>13 DEF Stacked
  <1>15. TextOK(E, L)'
    BY <1>11, <1>12, <1>14 DEF TextOK
  <1>16. ScopeDepth = 0 /\ ScopePending = <<>> /\ ScopeRunning = {}
    <2>1. ~Running
      BY <1>2 DEF Running
    <2> QED
      BY <2>1, ScopeIdle
  <1>17. ScopeDepth' = 0 /\ ScopePending' = <<>> /\ ScopeRunning' = {}
    <2>1. CASE ~Sound'
      BY <2>1, ScopeIdle
    <2>2. CASE Sound'
      <3>1. Running'
        BY <1>2 DEF Running
      <3>2. /\ ScopeDepth' = DepthOf(out, 1) /\ ScopePending' = PendingOf(out, <<>>)
            /\ ScopeRunning' = RunningOf(out, 1)
        BY <1>2, <1>8, <2>2, <3>1, ScopeState
      <3>3. DepthOf(out, 1) = Len(B[1]) /\ RunningOf(out, 1) = BodiesAt(B, 1)
            /\ PendingOf(out, <<>>) = StackAt(B, <<>>)
        <4>1. Len(<<>>) = Len(W[1])
          BY <1>12, <1>13, <2>2
        <4>2. \A i \in 1..Len(<<>>) : <<>>[i].at = W[1][i]
          OBVIOUS
        <4>3. FullWaits(B, W)
          BY <1>6, <1>12, <2>2
        <4> QED
          BY <1>9, <4>1, <4>2, <4>3, ScopeAt
      <3>4. Len(B[1]) = 0
        BY <1>9
      <3>5. BodiesAt(B, 1) = {}
        BY <3>4 DEF BodiesAt
      <3>6. StackAt(B, <<>>) = <<>>
        BY DEF StackAt
      <3> QED
        BY <3>2, <3>3, <3>4, <3>5, <3>6
    <2> QED
      BY <2>1, <2>2
  <1>18. UNCHANGED Promise!vars
    BY <1>16, <1>17 DEF Promise!vars
  <1> QED
    BY <1>1, <1>7, <1>10, <1>15, <1>18 DEF PromiseInv

\* The function runs.
LEMMA RunPromise ==
    ASSUME PromiseInv, Step
    PROVE  PromiseInv' /\ [Promise!Next]_Promise!vars
  <1>1. IInv' /\ GenInv'
    BY NextGen DEF PromiseInv, CNext
  <1>2. /\ UNCHANGED <<count, ast, heap, frames, resolver, history, acts, out, opens>>
        /\ phase = "run" /\ phase' = "run"
    BY DEF Step, codegen, vars
  <1>3. ~Building /\ ~Building' /\ phase \notin Early /\ phase' \notin Early /\ dropped' = dropped
    BY <1>2 DEF Building, Early, history
  <1>4. PICK E, L : Places(E, L) /\ TextOK(E, L)
    BY DEF PromiseInv
  <1>5. PICK B, W, X, Y : Textual(E, L, B, W, X, Y) /\ (Sound => Stacked(W))
    BY <1>2, <1>3, <1>4 DEF TextOK
  <1>6. FullText(B) /\ (Sound => FullWaits(B, W))
    BY <1>2, <1>5, CompleteText
  <1>7. Counted' /\ Places(E, L)'
    BY <1>2, <1>3, <1>4, TreeStays
  <1>8. pc \in 1..Len(out) + 1 /\ pending \in Seq(PendingType)
    BY <1>2 DEF PromiseInv, RunTyped
  <1>9. pc' \in 1..Len(out) + 1 /\ pending' \in Seq(PendingType)
    BY <1>6, <1>8, StepTyped
  <1>10. RunTyped'
    BY <1>2, <1>3, <1>9 DEF RunTyped, PendingType
  <1>11. Textual(E, L, B, W, X, Y)'
    BY <1>2, <1>3, <1>5 DEF Textual
  <1>12. Sound' <=> Sound
    BY <1>2, <1>3, SoundStays
  <1>13. Sound => Stacked(W)'
    BY <1>5, <1>6, <1>8, StepStacked DEF Sound
  <1>14. TextOK(E, L)'
    BY <1>11, <1>12, <1>13 DEF TextOK
  <1>15. [Promise!Next]_Promise!vars
    <2>1. CASE Sound
      <3>1. Counted /\ ResolveTypeOK
        BY DEF PromiseInv, IInv
      <3> QED
        BY <1>5, <1>6, <1>8, <2>1, <3>1, StepPromise
    <2>2. CASE ~Sound
      <3>1. /\ ScopeDepth' = ScopeDepth /\ ScopePending' = ScopePending
            /\ ScopeRunning' = ScopeRunning
        BY <1>12, <2>2, ScopeIdle
      <3> QED
        BY <3>1 DEF Promise!vars
    <2> QED
      BY <2>1, <2>2
  <1> QED
    BY <1>1, <1>7, <1>10, <1>14, <1>15 DEF PromiseInv

\* Each step keeps the invariant, and is a step of the promise or none.
LEMMA NextPromise ==
    PromiseInv /\ [CNext]_allvars => PromiseInv' /\ [Promise!Next]_Promise!vars
  <1> SUFFICES ASSUME PromiseInv, [CNext]_allvars
               PROVE  PromiseInv' /\ [Promise!Next]_Promise!vars
    OBVIOUS
  <1>1. ASSUME ~Running, ~Running' PROVE [Promise!Next]_Promise!vars
    <2>1. /\ ScopeDepth' = ScopeDepth /\ ScopePending' = ScopePending
          /\ ScopeRunning' = ScopeRunning
      BY <1>1, ScopeIdle
    <2> QED
      BY <2>1 DEF Promise!vars
  <1>2. CASE ResolveStep
    <2>1. PromiseInv'
      BY <1>2, ResolvePromise
    <2>2. ~Running /\ ~Running'
      <3>1. phase = "resolve" /\ phase' \in Early
        BY <1>2, ResolveBegins DEF ResolveStep
      <3> QED
        BY <3>1 DEF Running, Early
    <2> QED
      BY <1>1, <2>1, <2>2
  <1>3. CASE Codegen
    <2>1. PromiseInv'
      BY <1>3, CodegenPromise
    <2>2. phase \in {"resolved", "codegen"} /\ phase' \in {"codegen", "crash", "compiled"}
      <3>1. CASE GenFunction
        BY <3>1 DEF GenFunction
      <3>2. CASE GenOpen \/ GenDefer \/ GenUnwind
        BY <3>2 DEF GenOpen, GenDefer, GenUnwind, Unwinding, vars
      <3>3. CASE GenNull \/ GenExit
        BY <3>3 DEF GenNull, GenExit, Unwinding
      <3> QED
        BY <1>3, <3>1, <3>2, <3>3 DEF Codegen
    <2>3. ~Running /\ ~Running'
      BY <2>2 DEF Running
    <2> QED
      BY <1>1, <2>1, <2>3
  <1>4. CASE Start
    BY <1>4, StartPromise
  <1>5. CASE Step
    BY <1>5, RunPromise
  <1>6. CASE Stopped \/ UNCHANGED allvars
    <2>1. UNCHANGED <<count, phase, ast, heap, frames, resolver, history, acts, out, opens, pc, pending>>
      BY <1>6 DEF Stopped, allvars, vars, codegen, runtime
    <2>2. IInv' /\ GenInv'
      BY NextGen DEF PromiseInv
    <2>3. UNCHANGED <<live, current_defer, loop_at, dropped>>
      BY <2>1 DEF resolver, history
    <2>4. PICK E, L : Places(E, L) /\ TextOK(E, L)
      BY DEF PromiseInv
    <2>5. Places(E, L)'
      BY <2>1, <2>3, <2>4 DEF Places, Building
    <2>6. Counted' /\ RunTyped'
      BY <2>1 DEF PromiseInv, Counted, RunTyped, PendingType, Building
    <2>7. Sound' <=> Sound
      BY <2>1, <2>3, SoundStays
    <2>8. TextOK(E, L)'
      BY <2>1, <2>3, <2>4, <2>7 DEF TextOK, Textual, Stacked
    <2>9. PromiseInv'
      BY <2>2, <2>5, <2>6, <2>8 DEF PromiseInv
    <2>10. UNCHANGED Promise!vars
      <3>1. Running' <=> Running
        BY <2>1 DEF Running
      <3>2. CASE Running /\ Sound
        BY <2>1, <2>7, <3>1, <3>2, ScopeState DEF Promise!vars
      <3>3. CASE ~(Running /\ Sound)
        BY <2>7, <3>1, <3>3, ScopeIdle DEF Promise!vars
      <3> QED
        BY <3>2, <3>3
    <2> QED
      BY <2>9, <2>10
  <1> QED
    BY <1>2, <1>3, <1>4, <1>5, <1>6 DEF CNext

\* What the defers that wait say of the next token, while the text is sound.
LEMMA NewestNext ==
    ASSUME PromiseInv, Sound, phase = "run", pc # Finished
    PROVE  /\ out[pc].op = "run" => pending # <<>> /\ Tip(pending).defer = out[pc].defer
           /\ Step /\ out[pc].op \notin {"reach", "run"} => pending' = pending
           /\ Step /\ out[pc].op = "reach" => Len(pending') > Len(pending)
  <1>1. PICK E, L : TextOK(E, L)
    BY DEF PromiseInv
  <1>2. PICK B, W, X, Y : Textual(E, L, B, W, X, Y) /\ Stacked(W)
    BY <1>1 DEF TextOK, Early
  <1>3. FullText(B) /\ FullWaits(B, W) /\ ~Captured
    BY <1>2, CompleteText DEF Sound
  <1>4. pc \in 1..Len(out) + 1 /\ pending \in Seq(PendingType) /\ Len(pending) \in Nat
    BY DEF PromiseInv, RunTyped
  <1>5. out \in Seq(CTokType) /\ \A q \in 1..Len(out) : WaitTok(B, W, ast, out, q)
    BY <1>3 DEF FullText, Text, FullWaits, Waits
  <1>6. pc \in 1..Len(out)
    BY <1>4, <1>5 DEF Finished
  <1>7. ASSUME out[pc].op = "run"
        PROVE  pending # <<>> /\ Tip(pending).defer = out[pc].defer
    <2>1. W[pc] # <<>> /\ out[Tip(W[pc])].defer = out[pc].defer
      BY <1>5, <1>6, <1>7 DEF WaitTok
    <2>2. W[pc] \in Seq(Nat)
      <3>1. W \in Seq(Seq(Nat)) /\ Len(W) = Len(out) + 1
        BY <1>3 DEF FullWaits, Waits
      <3> QED
        BY <1>4, <3>1
    <2>3. Len(W[pc]) \in Nat /\ Len(W[pc]) > 0
      BY <2>1, <2>2
    <2>4. Len(pending) = Len(W[pc])
      BY <1>2 DEF Stacked
    <2>5. Len(pending) \in 1..Len(pending)
      BY <2>3, <2>4
    <2>6. Tip(pending).defer = out[Tip(W[pc])].defer
      BY <1>2, <2>4, <2>5 DEF Stacked, Tip
    <2> QED
      BY <2>1, <2>5, <2>6
  <1>8. ASSUME Step, out[pc].op = "reach" PROVE Len(pending') > Len(pending)
    <2> DEFINE r == [defer |-> out[pc].defer, at |-> pc]
    <2>1. pending' = Append(pending, r)
      BY <1>2, <1>3, <1>4, <1>8, StepStack
    <2> HIDE DEF r
    <2>2. Len(pending') = Len(pending) + 1
      BY <1>4, <2>1
    <2> QED
      BY <1>4, <2>2
  <1>9. Step /\ out[pc].op \notin {"reach", "run"} => pending' = pending
    BY <1>2, <1>3, <1>4, StepStack
  <1> QED
    BY <1>7, <1>8, <1>9

-----------------------------------------------------------------------------
(* The theorems. *)

\* The state of the code generator and of the C function that runs is well
\* typed, for functions of any length and nesting: the function never runs off
\* its text, and what waits is always a defer of the function.
THEOREM CTypeCorrect == CSpec => []CTypeOK
  <1>1. PromiseInv => CTypeOK
    <2> SUFFICES ASSUME PromiseInv PROVE CTypeOK
      OBVIOUS
    <2>1. GenTypeOK /\ RunTyped
      BY DEF PromiseInv, GenInv
    <2>2. Len(out) \in Nat
      BY <2>1 DEF GenTypeOK
    <2>3. pc \in 0..Len(out) + 1
      BY <2>1, <2>2 DEF RunTyped
    <2> QED
      BY <2>1, <2>3 DEF CTypeOK, RunTyped, PendingType
  <1> QED
    BY <1>1, InitPromise, NextPromise, PTL DEF CSpec

\* Every execution of every function that is generated keeps the promise of
\* `defer`: each defer that is reached runs once, newest first, before its scope
\* is left by its end, a break, a continue or a return, whatever the length and
\* the nesting of the function; unless a branchless `when` has cut the list of
\* defers or C takes a break or continue for one of another loop.
THEOREM PromiseKept == CSpec => KeepsPromise
  <1>1. CInit => Promise!Init
    <2> SUFFICES ASSUME CInit PROVE Promise!Init
      OBVIOUS
    <2>1. phase = "resolve"
      BY DEF CInit, Init
    <2>2. ~Running
      BY <2>1 DEF Running
    <2> QED
      BY <2>2, ScopeIdle DEF Promise!Init
  <1> QED
    BY <1>1, InitPromise, NextPromise, PTL DEF CSpec, KeepsPromise, Promise!Spec

\* The body that runs is that of the newest defer that was reached and not run,
\* unless a branchless `when` has cut the list of defers or C takes a break or
\* continue in a deferred body for one of another loop: nothing else breaks it.
THEOREM NewestUnlessCut == CSpec => [](Sound => RunsNewest)
  <1>1. PromiseInv => (Sound => RunsNewest)
    <2> SUFFICES ASSUME PromiseInv, Sound PROVE RunsNewest
      OBVIOUS
    <2>1. Running /\ pc # Finished => phase = "run"
      BY DEF Running
    <2> QED
      BY <2>1, NewestNext DEF RunsNewest, Tip
  <1> QED
    BY <1>1, InitPromise, NextPromise, PTL DEF CSpec

\* Nor does anything else make the function forget a defer that it has reached:
\* the stack gets shorter only where a body begins to run.
THEOREM ForgottenOnlyIfCut ==
    CSpec => [][Sound /\ Running /\ pc # Finished /\ Len(pending') < Len(pending)
                  => out[pc].op = "run"]_allvars
  <1>1. ASSUME PromiseInv, [CNext]_allvars
        PROVE  [Sound /\ Running /\ pc # Finished /\ Len(pending') < Len(pending)
                  => out[pc].op = "run"]_allvars
    <2> SUFFICES ASSUME CNext, Sound, Running, pc # Finished, out[pc].op # "run"
                 PROVE  ~(Len(pending') < Len(pending))
      BY <1>1
    <2>1. phase = "run" /\ Len(pending) \in Nat
      BY <1>1 DEF Running, PromiseInv, RunTyped
    <2>2. CASE Step
      <3>1. out[pc].op = "reach" => Len(pending') > Len(pending)
        BY <1>1, <2>1, <2>2, NewestNext
      <3>2. out[pc].op # "reach" => pending' = pending
        BY <1>1, <2>1, <2>2, NewestNext
      <3>3. out[pc].op = "reach" => Len(pending') \in Nat
        BY <1>1, <2>1, <2>2, NextPromise DEF PromiseInv, RunTyped
      <3> QED
        BY <2>1, <3>1, <3>2, <3>3
    <2>3. CASE Start \/ Stopped
      <3>1. pending' = pending
        BY <2>3 DEF Start, Stopped, allvars, runtime
      <3> QED
        BY <2>1, <3>1
    <2>4. CASE ResolveStep
      <3>1. phase = "resolve"
        BY <2>4, ResolveBegins DEF ResolveStep
      <3> QED
        BY <2>1, <3>1
    <2>5. CASE Codegen
      <3>1. phase \in {"resolved", "codegen"}
        BY <2>5 DEF Codegen, GenFunction, GenOpen, GenDefer, GenUnwind, GenNull, GenExit, Unwinding
      <3> QED
        BY <2>1, <3>1
    <2> QED
      BY <2>2, <2>3, <2>4, <2>5 DEF CNext
  <1> QED
    BY <1>1, InitPromise, NextPromise, PTL DEF CSpec
=============================================================================
