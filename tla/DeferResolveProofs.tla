-------------------------- MODULE DeferResolveProofs --------------------------
(***************************************************************************)
(* Proofs about DeferResolve: for every program, of any length, the list   *)
(* of defers that the resolver carries is the list of the defers lexically *)
(* in force, and every way out of a block records exactly those to run.    *)
(***************************************************************************)
EXTENDS DeferResolve, SequenceTheorems, TLAPS

-----------------------------------------------------------------------------
(* The inductive invariant. *)

\* The innermost loop as it was while frame k was the newest.
LoopOf(k) == IF k = Len(frames) THEN loop_at ELSE frames[k + 1].save_loop_at

\* The activations of resolve_block, whatever a `when` does to the list.
FrameOK(k) ==
    /\ frames[k].save <= Len(heap)
    /\ frames[k].save_loop <= Len(heap)
    /\ frames[k].base <= Len(live)
    /\ \A j \in 1..k : frames[j].base <= frames[k].base
    /\ frames[k].save_loop_at < k
    /\ frames[k].save_within = (frames[k].save_loop_at # 0)
    /\ LoopOf(k) = IF frames[k].kind = "for" THEN k ELSE frames[k].save_loop_at

FramesOK ==
    /\ \A k \in 1..Len(frames) : FrameOK(k)
    /\ phase = "resolve" => Len(frames) > 0
    /\ LoopIsTracked

\* What is saved is what the list was when the frame was entered.
SavesOK ==
    phase = "resolve" /\ ~dropped =>
        /\ \A k \in 1..Len(frames) :
             /\ frames[k].save = At(live, frames[k].base)
             /\ frames[k].save_loop_at # 0 =>
                    frames[k].save_loop = frames[frames[k].save_loop_at].save
        /\ loop_at # 0 => current_loop_defer = frames[loop_at].save

IInv == ResolveTypeOK /\ FramesOK /\ ListIsScope /\ SavesOK /\ ExitsUnwind

-----------------------------------------------------------------------------
(* Facts about sequences and lists. *)

\* The first n elements of a sequence.
LEMMA PrefixFacts ==
    ASSUME NEW S, NEW s \in Seq(S), NEW n \in 0..Len(s)
    PROVE  /\ Prefix(s, n) \in Seq(S)
           /\ Len(Prefix(s, n)) = n
           /\ \A i \in 1..n : Prefix(s, n)[i] = s[i]
  BY SubSeqProperties, ElementOfSeq DEF Prefix

\* The elements after the first n.
LEMMA AboveFacts ==
    ASSUME NEW S, NEW s \in Seq(S), NEW n \in 0..Len(s)
    PROVE  /\ Above(s, n) \in Seq(S)
           /\ Len(Above(s, n)) = Len(s) - n
           /\ \A i \in 1..(Len(s) - n) : Above(s, n)[i] = s[n + i]
  <1>1. \A i \in (n + 1)..Len(s) : s[i] \in S
    BY ElementOfSeq
  <1>2. Len(s) \in Nat
    BY LenProperties
  <1> QED
    BY <1>1, <1>2, SubSeqProperties DEF Above

\* A new node leaves every list of older nodes as it was.
LEMMA UnwindsMonotone ==
    ASSUME NEW h \in Seq(DeferType), NEW d \in DeferType, NEW due \in Seq(Nat),
           NEW begin, NEW end, Unwinds(h, begin, end, due)
    PROVE  Unwinds(Append(h, d), begin, end, due)
  BY AppendProperties DEF Unwinds

\* A new node in front of a list.
LEMMA UnwindsPush ==
    ASSUME NEW h \in Seq(DeferType), NEW d \in DeferType, NEW due \in Seq(Nat),
           NEW end, Unwinds(h, d.prev, end, due)
    PROVE  Unwinds(Append(h, d), Len(h) + 1, end, Append(due, Len(h) + 1))
  <1> DEFINE new == Append(due, Len(h) + 1)
             hh == Append(h, d)
  <1>1. /\ Len(h) \in Nat /\ Len(due) \in Nat
        /\ Len(hh) = Len(h) + 1 /\ hh[Len(h) + 1] = d
        /\ \A i \in 1..Len(h) : hh[i] = h[i]
    BY AppendProperties, LenProperties
  <1>2. /\ new # <<>> /\ Len(new) = Len(due) + 1
        /\ new[Len(due) + 1] = Len(h) + 1
        /\ \A i \in 1..Len(due) : new[i] = due[i]
    BY <1>1, AppendProperties
  <1>3. ASSUME NEW i \in 1..Len(new)
        PROVE  /\ new[i] \in 1..Len(hh)
               /\ hh[new[i]].prev = IF i = 1 THEN end ELSE new[i - 1]
    <2>1. CASE i \in 1..Len(due)
      BY <1>1, <1>2, <2>1, SMTT(30) DEF Unwinds
    <2>2. CASE i = Len(due) + 1
      <3>1. hh[new[i]].prev = d.prev
        BY <1>1, <1>2, <2>2
      <3>2. due = <<>> <=> Len(due) = 0
        BY EmptySeq
      <3> QED
        BY <1>1, <1>2, <2>2, <3>1, <3>2 DEF Unwinds
    <2> QED
      BY <1>1, <1>2, <2>1, <2>2, SMTT(30)
  <1> QED
    BY <1>1, <1>2, <1>3 DEF Unwinds

\* A list splits at any of its nodes: the newer part ends where the older begins.
LEMMA UnwindsSplit ==
    ASSUME NEW h \in Seq(DeferType), NEW all \in Seq(Nat), NEW begin,
           NEW n \in 0..Len(all), Unwinds(h, begin, Null, all)
    PROVE  /\ Unwinds(h, At(all, n), Null, Prefix(all, n))
           /\ Unwinds(h, begin, At(all, n), Above(all, n))
  <1>1. Len(all) \in Nat
    BY LenProperties
  <1> DEFINE low == Prefix(all, n)
             high == Above(all, n)
  <1>2. /\ Len(low) = n
        /\ \A i \in 1..n : low[i] = all[i]
        /\ low = <<>> <=> n = 0
    BY PrefixFacts, EmptySeq
  <1>3. /\ Len(high) = Len(all) - n
        /\ \A i \in 1..(Len(all) - n) : high[i] = all[n + i]
        /\ high = <<>> <=> n = Len(all)
    BY <1>1, AboveFacts, EmptySeq
  <1>4. /\ begin = IF n = Len(all) THEN At(all, n) ELSE all[Len(all)]
        /\ \A i \in 1..Len(all) :
             /\ all[i] \in 1..Len(h)
             /\ h[all[i]].prev = At(all, i - 1)
    <2>1. all = <<>> <=> Len(all) = 0
      BY EmptySeq
    <2> QED
      BY <1>1, <2>1 DEF Unwinds, At, Null
  <1> HIDE DEF low, high
  <1>5. Unwinds(h, At(all, n), Null, low)
    <2>1. ASSUME NEW i \in 1..n
          PROVE  /\ low[i] \in 1..Len(h)
                 /\ h[low[i]].prev = IF i = 1 THEN Null ELSE low[i - 1]
      <3>1. i \in 1..Len(all) /\ low[i] = all[i]
        BY <1>1, <1>2
      <3>2. i # 1 => i - 1 \in 1..n /\ i - 1 # 0
        BY <1>1
      <3>3. h[low[i]].prev = At(all, i - 1) /\ low[i] \in 1..Len(h)
        BY <1>4, <3>1
      <3>4. CASE i = 1
        BY <3>3, <3>4 DEF At
      <3>5. CASE i # 1
        BY <1>2, <3>2, <3>3, <3>5 DEF At
      <3> QED
        BY <3>4, <3>5
    <2> QED
      BY <1>2, <2>1 DEF Unwinds, At
  <1>6. Unwinds(h, begin, At(all, n), high)
    <2>1. ASSUME NEW i \in 1..(Len(all) - n)
          PROVE  /\ high[i] \in 1..Len(h)
                 /\ h[high[i]].prev = IF i = 1 THEN At(all, n) ELSE high[i - 1]
      <3>1. n + i \in 1..Len(all) /\ high[i] = all[n + i]
        BY <1>1, <1>3
      <3>2. i # 1 => i - 1 \in 1..(Len(all) - n) /\ n + (i - 1) = n + i - 1
        BY <1>1
      <3>3. i # 1 => n + i - 1 # 0
        BY <1>1
      <3>4. h[high[i]].prev = At(all, n + i - 1) /\ high[i] \in 1..Len(h)
        BY <1>4, <3>1
      <3>5. CASE i = 1
        BY <3>4, <3>5
      <3>6. CASE i # 1
        BY <1>3, <3>2, <3>3, <3>4, <3>6 DEF At
      <3> QED
        BY <3>5, <3>6
    <2>2. n # Len(all) => high[Len(high)] = all[Len(all)]
      BY <1>1, <1>3
    <2> QED
      BY <1>3, <1>4, <2>1, <2>2 DEF Unwinds
  <1> QED
    BY <1>5, <1>6 DEF low, high

-----------------------------------------------------------------------------
(* The step of the resolver's state. *)

\* What Token makes is a token.
LEMMA TokenTyped ==
    ASSUME NEW op \in Openers \cup Exits, NEW begin \in Nat, NEW end \in Nat,
           NEW due \in Seq(Nat), NEW loop \in Nat
    PROVE  Token(op, begin, end, due, loop) \in TokenType
  BY DEF Token, TokenType

\* What the type invariant says of each variable.
LEMMA NatFacts ==
    ASSUME ResolveTypeOK
    PROVE  /\ Len(ast) \in Nat /\ Len(heap) \in Nat
           /\ Len(frames) \in Nat /\ Len(live) \in Nat
           /\ current_defer \in Nat /\ current_loop_defer \in Nat
           /\ \A k \in 1..Len(frames) : frames[k] \in FrameType
           /\ \A d \in 1..Len(heap) : heap[d] \in DeferType
           /\ \A i \in 1..Len(live) : live[i] \in Nat
  <1>1. /\ Len(ast) \in Nat /\ Len(heap) \in Nat
        /\ Len(frames) \in Nat /\ Len(live) \in Nat
    BY LenProperties DEF ResolveTypeOK
  <1>2. current_defer \in Nat /\ current_loop_defer \in Nat
    BY <1>1 DEF ResolveTypeOK
  <1> QED
    BY <1>1, <1>2, ElementOfSeq DEF ResolveTypeOK

\* What Opener makes is a token.
LEMMA OpenerTyped ==
    ASSUME NEW op \in Openers
    PROVE  Opener(op) \in TokenType
  BY TokenTyped, EmptySeq DEF Opener, Null

\* What Frame saves is a frame.
LEMMA FrameTyped ==
    ASSUME ResolveTypeOK, NEW kind \in Openers \cup {"when"}
    PROVE  Frame(kind) \in FrameType
  BY LenProperties DEF Frame, FrameType, ResolveTypeOK

\* The newest frame, and what BlockEnd and the Close actions read of it.
LEMMA TopFacts ==
    ASSUME ResolveTypeOK, FramesOK, Len(frames) > 0
    PROVE  /\ Len(frames) \in 1..Len(frames)
           /\ Top \in FrameType
           /\ FrameOK(Len(frames))
           /\ Top.base \in 0..Len(live)
           /\ Top.save \in 0..Len(heap)
           /\ Top.save_loop \in 0..Len(heap)
           /\ BlockEnd \in TokenType
           /\ Popped \in Seq(FrameType)
           /\ Len(Popped) = Len(frames) - 1
           /\ \A k \in 1..(Len(frames) - 1) : Popped[k] = frames[k]
  <1>1. Len(frames) \in 1..Len(frames)
    BY LenProperties DEF ResolveTypeOK
  <1>2. Top \in FrameType
    BY <1>1, ElementOfSeq DEF ResolveTypeOK, Top
  <1>3. FrameOK(Len(frames))
    BY <1>1 DEF FramesOK
  <1>4. /\ Top.base \in Nat /\ Top.save \in Nat /\ Top.save_loop \in Nat
        /\ Top.base <= Len(live) /\ Top.save <= Len(heap) /\ Top.save_loop <= Len(heap)
    BY <1>2, <1>3 DEF FrameOK, FrameType, Top
  <1>5. /\ Top.base \in 0..Len(live)
        /\ Top.save \in 0..Len(heap)
        /\ Top.save_loop \in 0..Len(heap)
    BY <1>4, NatFacts
  <1>7. BlockEnd \in TokenType
    <2>1. Above(live, Top.base) \in Seq(Nat)
      BY <1>5, AboveFacts DEF ResolveTypeOK
    <2>2. "end" \in Openers \cup Exits /\ 0 \in Nat
      BY DEF Exits
    <2> QED
      BY <1>4, <2>1, <2>2, NatFacts, TokenTyped DEF BlockEnd
  <1>6. /\ Popped \in Seq(FrameType)
        /\ Len(Popped) = Len(frames) - 1
        /\ \A k \in 1..(Len(frames) - 1) : Popped[k] = frames[k]
    <2>1. Popped = Prefix(frames, Len(frames) - 1)
      BY DEF Popped, Prefix
    <2>2. Len(frames) - 1 \in 0..Len(frames)
      BY <1>1
    <2> QED
      BY <2>1, <2>2, PrefixFacts, ZenonT(60) DEF ResolveTypeOK
  <1> QED
    BY <1>1, <1>2, <1>3, <1>5, <1>6, <1>7

\* The loop that a break or continue leaves.
LEMMA LoopFacts ==
    ASSUME ResolveTypeOK, FramesOK, loop_at # 0, Len(frames) > 0
    PROVE  /\ loop_at \in 1..Len(frames)
           /\ frames[loop_at] \in FrameType
           /\ frames[loop_at].base \in 0..Len(live)
  <1> DEFINE n == Len(frames)
  <1>1. n \in 1..n /\ n \in Nat
    BY NatFacts
  <1>2. FrameOK(n) /\ frames[n] \in FrameType
    BY <1>1, TopFacts DEF Top
  <1>3. LoopOf(n) = loop_at
    BY DEF LoopOf
  <1>4. frames[n].save_loop_at \in Nat /\ frames[n].save_loop_at < n
    BY <1>2 DEF FrameOK, FrameType
  <1>5. loop_at = n \/ loop_at = frames[n].save_loop_at
    BY <1>2, <1>3 DEF FrameOK
  <1>6. loop_at \in 1..n
    BY <1>1, <1>4, <1>5
  <1>7. FrameOK(loop_at) /\ frames[loop_at] \in FrameType
    BY <1>6, NatFacts DEF FramesOK
  <1>8. frames[loop_at].base \in Nat /\ frames[loop_at].base <= Len(live)
    BY <1>7 DEF FrameOK, FrameType
  <1> QED
    BY <1>6, <1>7, <1>8, NatFacts

-----------------------------------------------------------------------------
(* Type correctness. *)

\* The types are right before the function is entered.
LEMMA InitTyped == Init => ResolveTypeOK
  <1> SUFFICES ASSUME Init PROVE ResolveTypeOK
    OBVIOUS
  <1>1. ast \in Seq(TokenType)
    BY OpenerTyped DEF Init, Openers
  <1>2. frames \in Seq(FrameType)
    BY DEF Init, FrameType, Openers, Null
  <1>3. heap = <<>> /\ live = <<>> /\ current_defer = 0 /\ current_loop_defer = 0
    BY DEF Init, Null
  <1>4. heap \in Seq(DeferType) /\ Len(heap) = 0 /\ live \in Seq(Nat)
    BY <1>3, EmptySeq
  <1>5. /\ current_defer \in 0..Len(heap) /\ current_loop_defer \in 0..Len(heap)
        /\ \A d \in 1..Len(heap) : heap[d].prev < d
    BY <1>3, <1>4
  <1>6. /\ phase = "resolve" /\ count = 0 /\ loop_at = 0
        /\ is_within_loop = FALSE /\ dropped = FALSE
    BY DEF Init
  <1> QED
    BY <1>1, <1>2, <1>4, <1>5, <1>6 DEF ResolveTypeOK

\* A new node, chained in front of an older one.
LEMMA HeapTyped ==
    ASSUME ResolveTypeOK, NEW prev \in 0..Len(heap), NEW lo \in Nat, NEW hi \in Nat,
           heap' = Append(heap, [prev |-> prev, lo |-> lo, hi |-> hi])
    PROVE  /\ heap' \in Seq(DeferType)
           /\ Len(heap') = Len(heap) + 1
           /\ \A d \in 1..Len(heap') : heap'[d].prev < d
  <1> DEFINE node == [prev |-> prev, lo |-> lo, hi |-> hi]
  <1>1. prev \in Nat /\ prev < Len(heap) + 1 /\ Len(heap) \in Nat
    BY NatFacts
  <1>2. node \in DeferType
    BY <1>1 DEF DeferType
  <1>3. /\ heap' \in Seq(DeferType) /\ Len(heap') = Len(heap) + 1
        /\ \A d \in 1..Len(heap) : heap'[d] = heap[d]
        /\ heap'[Len(heap) + 1] = node
    BY <1>2, AppendProperties DEF ResolveTypeOK
  <1>4. \A d \in 1..Len(heap) : heap[d].prev < d
    BY DEF ResolveTypeOK
  <1> QED
    BY <1>1, <1>3, <1>4

\* Each step of the resolver keeps the types.
LEMMA TypeStep == ResolveTypeOK /\ FramesOK /\ [Resolve]_vars => ResolveTypeOK'
  <1> SUFFICES ASSUME ResolveTypeOK, FramesOK, [Resolve]_vars
               PROVE  ResolveTypeOK'
    OBVIOUS
  <1> USE NatFacts
  <1>1. CASE DeferExpr
    <2>0. PushDefer(Len(ast) + 1, Len(ast) + 2)
      BY <1>1 DEF DeferExpr
    <2>1. /\ Opener("defer") \in TokenType
          /\ Token("end", current_defer, current_defer, <<>>, 0) \in TokenType
      BY OpenerTyped, TokenTyped, EmptySeq DEF Openers, Exits
    <2>2. ast' \in Seq(TokenType)
      BY <1>1, <2>1, AppendProperties DEF DeferExpr, ResolveTypeOK
    <2>3. /\ heap' \in Seq(DeferType) /\ Len(heap') = Len(heap) + 1
          /\ \A d \in 1..Len(heap') : heap'[d].prev < d
      <3>1. /\ heap' = Append(heap, [prev |-> current_defer, lo |-> Len(ast) + 1,
                                     hi |-> Len(ast) + 2])
            /\ current_defer \in 0..Len(heap)
            /\ Len(ast) + 1 \in Nat /\ Len(ast) + 2 \in Nat
        BY <2>0 DEF PushDefer, ResolveTypeOK
      <3> QED
        BY <3>1, HeapTyped
    <2>4. live' \in Seq(Nat)
      <3>1. live' = Append(live, Len(heap) + 1) /\ Len(heap) + 1 \in Nat
        BY <2>0 DEF PushDefer
      <3> QED
        BY <3>1, AppendProperties DEF ResolveTypeOK
    <2>5. current_defer' = Len(heap) + 1
      BY <2>0 DEF PushDefer
    <2>6. /\ UNCHANGED <<phase, frames, current_loop_defer, is_within_loop, loop_at, dropped>>
          /\ count' = count + 1
      BY <1>1 DEF DeferExpr, Statement
    <2> QED
      BY <2>2, <2>3, <2>4, <2>5, <2>6 DEF ResolveTypeOK
  <1>2. ASSUME NEW kind \in Openers, Enter(kind)
        PROVE  ast' \in Seq(TokenType) /\ frames' \in Seq(FrameType)
    BY <1>2, OpenerTyped, FrameTyped, AppendProperties DEF Enter, ResolveTypeOK
  <1>3. CASE DeferBlock \/ If
    <2>1. PICK kind \in {"defer", "if"} : Enter(kind)
      BY <1>3 DEF DeferBlock, If
    <2>2. ast' \in Seq(TokenType) /\ frames' \in Seq(FrameType)
      BY <1>2, <2>1 DEF Openers
    <2>3. count \in Nat /\ count' = count + 1
      BY <1>3 DEF DeferBlock, If, Statement, ResolveTypeOK
    <2>4. UNCHANGED <<phase, heap, resolver, history>>
      BY <1>3 DEF DeferBlock, If
    <2> QED
      BY <2>2, <2>3, <2>4 DEF ResolveTypeOK, resolver, history
  <1>4. CASE For
    <2>1. ast' \in Seq(TokenType) /\ frames' \in Seq(FrameType)
      BY <1>2, <1>4 DEF For, Openers
    <2>2. loop_at' \in Nat /\ is_within_loop' \in BOOLEAN
      BY <1>4 DEF For
    <2>3. /\ UNCHANGED <<phase, heap, current_defer, live, dropped>>
          /\ current_loop_defer' = current_defer /\ count' = count + 1
      BY <1>4 DEF For, Statement
    <2> QED
      BY <2>1, <2>2, <2>3 DEF ResolveTypeOK
  <1>5. CASE When
    <2>1. frames' \in Seq(FrameType)
      BY <1>5, FrameTyped, AppendProperties DEF When, ResolveTypeOK
    <2> QED
      BY <1>5, <2>1 DEF When, Statement, ResolveTypeOK, resolver, history
  <1>6. CASE WhenNone
    <2>1. dropped' \in BOOLEAN
      BY <1>6 DEF WhenNone
    <2>2. current_defer' \in 0..Len(heap)
      <3>1. current_defer' = 0
        BY <1>6 DEF WhenNone, Null
      <3> QED
        BY <3>1
    <2>3. /\ UNCHANGED <<phase, ast, heap, frames, current_loop_defer, is_within_loop,
                         live, loop_at>>
          /\ count' = count + 1
      BY <1>6 DEF WhenNone, Statement
    <2> QED
      BY <2>1, <2>2, <2>3 DEF ResolveTypeOK
  <1>7. ASSUME NEW op \in {"break", "continue"}, Jump(op)
        PROVE  ResolveTypeOK'
    <2>1. CASE is_within_loop
      <3>1. loop_at # 0 /\ Len(frames) > 0
        BY <1>7, <2>1 DEF FramesOK, LoopIsTracked, Jump, Statement
      <3>2. /\ frames[loop_at].base \in 0..Len(live)
            /\ frames[loop_at].mark \in Nat
        BY <3>1, LoopFacts DEF FrameType
      <3>3. Above(live, frames[loop_at].base) \in Seq(Nat)
        BY <3>2, AboveFacts DEF ResolveTypeOK
      <3>4. Token(op, current_defer, current_loop_defer,
                  Above(live, frames[loop_at].base), frames[loop_at].mark) \in TokenType
        BY <3>2, <3>3, TokenTyped DEF Exits
      <3>5. ast' \in Seq(TokenType)
        <4>1. ast' = Append(ast, Token(op, current_defer, current_loop_defer,
                  Above(live, frames[loop_at].base), frames[loop_at].mark))
          BY <1>7, <2>1, <3>1 DEF Jump
        <4> QED
          BY <3>4, <4>1, AppendProperties DEF ResolveTypeOK
      <3> QED
        BY <1>7, <2>1, <3>5 DEF Jump, Statement, ResolveTypeOK, resolver, history
    <2>2. CASE ~is_within_loop
      BY <1>7, <2>2 DEF Jump, Statement, ResolveTypeOK, resolver, history
    <2> QED
      BY <2>1, <2>2
  <1>8. CASE Break \/ Continue
    BY <1>7, <1>8 DEF Break, Continue
  <1>9. CASE Return
    <2>1. Token("return", current_defer, Null, live, 0) \in TokenType
      BY TokenTyped DEF Exits, Null, ResolveTypeOK
    <2>2. ast' \in Seq(TokenType)
      BY <1>9, <2>1, AppendProperties DEF Return, ResolveTypeOK
    <2> QED
      BY <1>9, <2>2 DEF Return, Statement, ResolveTypeOK, resolver, history
  <1>10. ASSUME Len(frames) > 0
         PROVE  /\ Append(ast, BlockEnd) \in Seq(TokenType)
                /\ Prefix(live, Top.base) \in Seq(Nat)
                /\ Popped \in Seq(FrameType)
                /\ Top.save \in 0..Len(heap) /\ Top.save_loop \in 0..Len(heap)
                /\ Top.save_within \in BOOLEAN /\ Top.save_loop_at \in Nat
                /\ Top.mark \in Nat
    BY <1>10, TopFacts, PrefixFacts, AppendProperties DEF ResolveTypeOK, FrameType
  <1>11. CASE EndIf
    BY <1>10, <1>11 DEF EndIf, Close, ResolveTypeOK
  <1>12. CASE EndFor
    BY <1>10, <1>12 DEF EndFor, Close, ResolveTypeOK
  <1>13. CASE EndDefer
    <2>1. Len(frames) > 0
      BY <1>13 DEF EndDefer, Close
    <2>2. /\ heap' \in Seq(DeferType) /\ Len(heap') = Len(heap) + 1
          /\ \A d \in 1..Len(heap') : heap'[d].prev < d
      <3>1. heap' = Append(heap, [prev |-> Top.save, lo |-> Top.mark,
                                  hi |-> Len(ast) + 1])
        BY <1>13 DEF EndDefer
      <3>2. Top.save \in 0..Len(heap) /\ Top.mark \in Nat /\ Len(ast) + 1 \in Nat
        BY <1>10, <2>1
      <3> QED
        BY <3>1, <3>2, HeapTyped
    <2>3. live' \in Seq(Nat)
      <3>1. Prefix(live, Top.base) \in Seq(Nat) /\ Len(heap) + 1 \in Nat
        BY <1>10, <2>1
      <3> QED
        BY <1>13, <3>1, AppendProperties DEF EndDefer
    <2>4. /\ UNCHANGED <<phase, count, current_loop_defer, is_within_loop, loop_at, dropped>>
          /\ current_defer' = Len(heap) + 1
          /\ ast' = Append(ast, BlockEnd) /\ frames' = Popped
      BY <1>13 DEF EndDefer, Close
    <2> QED
      BY <1>10, <2>1, <2>2, <2>3, <2>4 DEF ResolveTypeOK
  <1>14. CASE EndWhen
    BY <1>10, <1>14 DEF EndWhen, Close, ResolveTypeOK, resolver, history
  <1>15. CASE EndFunction
    <2>1. frames' \in Seq(FrameType) /\ live' \in Seq(Nat)
      BY <1>15, EmptySeq DEF EndFunction
    <2> QED
      BY <1>10, <1>15, <2>1 DEF EndFunction, ResolveTypeOK
  <1>16. CASE UNCHANGED vars
    BY <1>16 DEF vars, resolver, history, ResolveTypeOK
  <1> QED
    BY <1>1, <1>3, <1>4, <1>5, <1>6, <1>8, <1>9, <1>11, <1>12, <1>13, <1>14,
       <1>15, <1>16 DEF Resolve

-----------------------------------------------------------------------------
(* The frames. *)

\* The saved loop frames and bases of the frames below the newest one do not
\* depend on what happens to the state of the resolver.
LEMMA InitFrames == Init => FramesOK
  <1> SUFFICES ASSUME Init PROVE FramesOK
    OBVIOUS
  <1>1. /\ Len(frames) = 1 /\ Len(heap) = 0 /\ Len(live) = 0
        /\ frames[1].kind = "fn" /\ frames[1].base = 0 /\ frames[1].save = 0
        /\ frames[1].save_loop = 0 /\ frames[1].save_loop_at = 0
        /\ frames[1].save_within = FALSE
    BY DEF Init, Null
  <1>2. /\ loop_at = 0 /\ is_within_loop = FALSE /\ phase = "resolve"
    BY DEF Init
  <1>3. FrameOK(1)
    <2>1. frames[1].save_within = (frames[1].save_loop_at # 0)
      BY <1>1
    <2>2. LoopOf(1) = 0
      BY <1>1, <1>2 DEF LoopOf
    <2>3. \A j \in 1..1 : frames[j].base <= frames[1].base
      BY <1>1
    <2> QED
      BY <1>1, <2>1, <2>2, <2>3 DEF FrameOK
  <1>4. LoopIsTracked
    BY <1>2 DEF LoopIsTracked
  <1> QED
    BY <1>1, <1>3, <1>4 DEF FramesOK

\* The frames stay; the nodes and the defers in force can only become more.
LEMMA FramesStay ==
    ASSUME ResolveTypeOK, FramesOK, Len(heap) <= Len(heap'), Len(live) <= Len(live'),
           Len(heap') \in Nat, Len(live') \in Nat,
           UNCHANGED <<frames, loop_at>>
    PROVE  \A k \in 1..Len(frames') : FrameOK(k)'
  <1> SUFFICES ASSUME NEW k \in 1..Len(frames) PROVE FrameOK(k)'
    OBVIOUS
  <1>1. FrameOK(k) /\ frames[k] \in FrameType
    BY NatFacts DEF FramesOK
  <1>2. LoopOf(k)' = LoopOf(k)
    BY DEF LoopOf
  <1> QED
    BY <1>1, <1>2, NatFacts DEF FrameOK, FrameType

\* resolve_block is entered.
LEMMA FramesPush ==
    ASSUME ResolveTypeOK, FramesOK, phase = "resolve", NEW kind \in Openers \cup {"when"},
           frames' = Append(frames, Frame(kind)), UNCHANGED <<heap, live>>,
           loop_at' = IF kind = "for" THEN Len(frames) + 1 ELSE loop_at
    PROVE  \A k \in 1..Len(frames') : FrameOK(k)'
  <1> DEFINE new == Frame(kind)
  <1>0. PICK n : n = Len(frames)
    OBVIOUS
  <1>1. /\ n \in Nat /\ n > 0 /\ Len(frames') = n + 1 /\ frames'[n + 1] = new
        /\ \A k \in 1..n : frames'[k] = frames[k]
    BY <1>0, NatFacts, FrameTyped, AppendProperties DEF ResolveTypeOK, FramesOK
  <1>2. /\ new.kind = kind /\ new.base = Len(live) /\ new.save = current_defer
        /\ new.save_loop = current_loop_defer /\ new.save_within = is_within_loop
        /\ new.save_loop_at = loop_at
    BY DEF Frame
  <1> HIDE DEF new
  <1>4. loop_at < n + 1 /\ loop_at \in Nat
    <2>1. loop_at # 0 => loop_at \in 1..n
      BY <1>0, <1>1, LoopFacts
    <2>2. loop_at \in Nat
      BY DEF ResolveTypeOK
    <2> QED
      BY <1>1, <2>1, <2>2
  <1>5. ASSUME NEW k \in 1..n PROVE FrameOK(k)'
    <2>1. FrameOK(k) /\ frames[k] \in FrameType /\ frames'[k] = frames[k]
      BY <1>0, <1>1, NatFacts DEF FramesOK
    <2>2. k # n + 1 /\ \A j \in 1..k : frames'[j] = frames[j]
      BY <1>1
    <2>3. LoopOf(k)' = LoopOf(k)
      <3>1. CASE k = n
        BY <1>0, <1>1, <1>2, <2>2, <3>1 DEF LoopOf
      <3>2. CASE k # n
        <4>1. k + 1 \in 1..n
          BY <1>1, <3>2
        <4> QED
          BY <1>0, <1>1, <2>2, <3>2, <4>1 DEF LoopOf
      <3> QED
        BY <3>1, <3>2
    <2> QED
      BY <2>1, <2>2, <2>3 DEF FrameOK
  <1>6. FrameOK(n + 1)'
    <2>1. current_defer <= Len(heap) /\ current_loop_defer <= Len(heap)
      BY NatFacts DEF ResolveTypeOK
    <2>2. \A j \in 1..n : frames'[j].base <= Len(live)
      BY <1>0, <1>1 DEF FramesOK, FrameOK
    <2>3. \A j \in 1..(n + 1) : frames'[j].base <= frames'[n + 1].base
      BY <1>1, <1>2, <2>2, NatFacts
    <2>4. is_within_loop = (loop_at # 0)
      BY DEF FramesOK, LoopIsTracked
    <2>5. LoopOf(n + 1)' = IF kind = "for" THEN n + 1 ELSE loop_at
      BY <1>1 DEF LoopOf
    <2> QED
      BY <1>1, <1>2, <1>4, <2>1, <2>3, <2>4, <2>5, NatFacts DEF FrameOK
  <1> QED
    BY <1>1, <1>5, <1>6

\* resolve_block returns: the frames below, and the loop they are in, are back.
LEMMA FramesPop ==
    ASSUME ResolveTypeOK, FramesOK, Len(frames) > 0,
           frames' = Popped, loop_at' = Top.save_loop_at,
           Len(heap') \in Nat, Len(live') \in Nat,
           Len(heap) <= Len(heap'), Top.base <= Len(live')
    PROVE  \A k \in 1..Len(frames') : FrameOK(k)'
  <1> DEFINE n == Len(frames)
  <1>1. /\ n \in 1..n /\ n \in Nat /\ Len(frames') = n - 1
        /\ \A k \in 1..(n - 1) : frames'[k] = frames[k]
    BY NatFacts, TopFacts
  <1> SUFFICES ASSUME NEW k \in 1..(n - 1) PROVE FrameOK(k)'
    BY <1>1
  <1>2. /\ k \in 1..n /\ k # n /\ k + 1 \in 1..n /\ frames'[k] = frames[k]
        /\ \A j \in 1..k : frames'[j] = frames[j]
    BY <1>1
  <1>3. FrameOK(k) /\ FrameOK(n) /\ frames[k] \in FrameType /\ frames[n] \in FrameType
    BY <1>1, <1>2, NatFacts DEF FramesOK
  <1>4. frames[k].base <= Len(live')
    <2>1. frames[k].base <= Top.base
      BY <1>2, <1>3 DEF FrameOK, Top
    <2> QED
      BY <1>3, <2>1, SMTT(30) DEF FrameType, Top
  <1>5. LoopOf(k)' = LoopOf(k)
    <2>1. CASE k = n - 1
      BY <1>1, <1>2, <2>1 DEF LoopOf, Top
    <2>2. CASE k # n - 1
      <3>1. k + 1 \in 1..(n - 1)
        BY <1>1, <2>2
      <3> QED
        BY <1>1, <1>2, <2>2, <3>1 DEF LoopOf
    <2> QED
      BY <2>1, <2>2
  <1>6. frames[k].save <= Len(heap') /\ frames[k].save_loop <= Len(heap')
    <2>1. /\ frames[k].save <= Len(heap) /\ frames[k].save_loop <= Len(heap)
          /\ frames[k].save \in Nat /\ frames[k].save_loop \in Nat
      BY <1>3 DEF FrameOK, FrameType
    <2> QED
      BY <2>1, NatFacts, SMTT(30)
  <1> QED
    BY <1>2, <1>3, <1>4, <1>5, <1>6 DEF FrameOK

\* Each step of the resolver keeps what frames have saved in order.
LEMMA FramesStep == ResolveTypeOK /\ FramesOK /\ ResolveTypeOK' /\ [Resolve]_vars => FramesOK'
  <1> SUFFICES ASSUME ResolveTypeOK, FramesOK, ResolveTypeOK', [Resolve]_vars
               PROVE  FramesOK'
    OBVIOUS
  <1>0. /\ Len(heap) \in Nat /\ Len(live) \in Nat /\ Len(frames) \in Nat
        /\ Len(heap') \in Nat /\ Len(live') \in Nat /\ Len(frames') \in Nat
    BY NatFacts, LenProperties DEF ResolveTypeOK
  <1>1. CASE DeferExpr
    <2>1. PushDefer(Len(ast) + 1, Len(ast) + 2) /\ UNCHANGED <<frames, loop_at>>
      BY <1>1 DEF DeferExpr
    <2>2. Len(heap') = Len(heap) + 1 /\ Len(live') = Len(live) + 1
      BY <2>1, <1>0, AppendProperties DEF PushDefer, ResolveTypeOK, DeferType
    <2>3. \A k \in 1..Len(frames') : FrameOK(k)'
      BY <2>1, <2>2, <1>0, FramesStay
    <2>4. UNCHANGED <<phase, is_within_loop, loop_at, frames>>
      BY <1>1 DEF DeferExpr
    <2> QED
      BY <2>3, <2>4 DEF FramesOK, LoopIsTracked
  <1>2. CASE WhenNone \/ Break \/ Continue \/ Return
    <2>1. UNCHANGED <<heap, frames, live, loop_at, is_within_loop>>
      BY <1>2 DEF WhenNone, Break, Continue, Jump, Return, resolver, history
    <2>2. \A k \in 1..Len(frames') : FrameOK(k)'
      BY <2>1, <1>0, FramesStay
    <2>3. phase = "resolve"
      BY <1>2 DEF WhenNone, Break, Continue, Jump, Return, Statement
    <2>4. phase' = "resolve" \/ (phase' = "fatal" /\ is_within_loop = FALSE)
      <3>1. is_within_loop \in BOOLEAN
        BY DEF ResolveTypeOK
      <3> QED
        BY <1>2, <2>3, <3>1 DEF WhenNone, Break, Continue, Jump, Return
    <2> QED
      BY <2>1, <2>2, <2>3, <2>4 DEF FramesOK, LoopIsTracked
  <1>3. CASE DeferBlock \/ If \/ When
    <2>1. PICK kind \in {"defer", "if", "when"} : frames' = Append(frames, Frame(kind))
      BY <1>3 DEF DeferBlock, If, When, Enter
    <2>2. /\ UNCHANGED <<phase, heap, live, loop_at, is_within_loop>>
          /\ phase = "resolve"
      BY <1>3 DEF DeferBlock, If, When, Statement, resolver, history
    <2>3. \A k \in 1..Len(frames') : FrameOK(k)'
      BY <2>1, <2>2, FramesPush DEF Openers
    <2>4. Len(frames') > 0
      BY <2>1, <1>0, FrameTyped, AppendProperties DEF ResolveTypeOK, Openers
    <2> QED
      BY <2>2, <2>3, <2>4 DEF FramesOK, LoopIsTracked
  <1>4. CASE For
    <2>1. /\ frames' = Append(frames, Frame("for")) /\ loop_at' = Len(frames) + 1
          /\ UNCHANGED <<phase, heap, live>> /\ phase = "resolve" /\ is_within_loop' = TRUE
      BY <1>4 DEF For, Enter, Statement
    <2>2. \A k \in 1..Len(frames') : FrameOK(k)'
      BY <2>1, FramesPush DEF Openers
    <2>3. Len(frames') > 0
      BY <2>1, <1>0, FrameTyped, AppendProperties DEF ResolveTypeOK, Openers
    <2>4. loop_at' # 0
      BY <2>1, <1>0
    <2> QED
      BY <2>1, <2>2, <2>3, <2>4 DEF FramesOK, LoopIsTracked
  <1>5. ASSUME NEW kinds, Close(kinds)
        PROVE  /\ Len(frames) > 0 /\ Len(Popped) > 0 /\ frames' = Popped
               /\ Top.kind \in kinds /\ phase = "resolve" /\ phase' = "resolve"
               /\ Top.base \in 0..Len(live) /\ Prefix(live, Top.base) \in Seq(Nat)
               /\ Len(Prefix(live, Top.base)) = Top.base /\ Top.base \in Nat
    <2>1. /\ Len(frames) > 1 /\ frames' = Popped /\ Top.kind \in kinds
          /\ phase = "resolve" /\ phase' = "resolve"
      BY <1>5 DEF Close
    <2>2. Len(frames) > 0
      BY <2>1, <1>0
    <2>3. Len(Popped) = Len(frames) - 1 /\ Top.base \in 0..Len(live)
      BY <2>2, TopFacts
    <2>4. live \in Seq(Nat)
      BY DEF ResolveTypeOK
    <2>5. Prefix(live, Top.base) \in Seq(Nat) /\ Len(Prefix(live, Top.base)) = Top.base
      BY <2>3, <2>4, PrefixFacts
    <2> QED
      BY <1>0, <2>1, <2>2, <2>3, <2>5
  <1>6. ASSUME Len(frames) > 0, Top.kind # "for"
        PROVE  loop_at = Top.save_loop_at
    BY <1>6, TopFacts DEF FrameOK, LoopOf, Top
  <1>7. CASE EndIf
    <2>1. /\ Close({"if"}) /\ UNCHANGED <<heap, is_within_loop, loop_at>>
          /\ live' = Prefix(live, Top.base)
      BY <1>7 DEF EndIf
    <2>2. \A k \in 1..Len(frames') : FrameOK(k)'
      BY <2>1, <1>0, <1>5, <1>6, FramesPop
    <2> QED
      BY <2>1, <2>2, <1>5 DEF FramesOK, LoopIsTracked
  <1>8. CASE EndFor
    <2>1. /\ Close({"for"}) /\ UNCHANGED heap /\ live' = Prefix(live, Top.base)
          /\ loop_at' = Top.save_loop_at /\ is_within_loop' = Top.save_within
      BY <1>8 DEF EndFor
    <2>2. \A k \in 1..Len(frames') : FrameOK(k)'
      BY <2>1, <1>0, <1>5, FramesPop
    <2>3. Top.save_within = (Top.save_loop_at # 0)
      BY <2>1, <1>5, TopFacts DEF FrameOK, Top
    <2> QED
      BY <2>1, <2>2, <2>3, <1>5 DEF FramesOK, LoopIsTracked
  <1>9. CASE EndDefer
    <2>1. /\ Close({"defer"}) /\ UNCHANGED <<is_within_loop, loop_at>>
          /\ live' = Append(Prefix(live, Top.base), Len(heap) + 1)
          /\ heap' = Append(heap, [prev |-> Top.save, lo |-> Top.mark, hi |-> Len(ast) + 1])
      BY <1>9 DEF EndDefer
    <2>2. Len(live') = Top.base + 1
      BY <2>1, <1>0, <1>5, AppendProperties, SMTT(30)
    <2>3. Len(heap') = Len(heap) + 1
      BY <2>1, AppendProperties DEF ResolveTypeOK
    <2>4. Len(heap) <= Len(heap') /\ Top.base <= Len(live')
      BY <1>0, <2>1, <2>2, <2>3, <1>5
    <2>5. \A k \in 1..Len(frames') : FrameOK(k)'
      BY <2>1, <2>4, <1>0, <1>5, <1>6, FramesPop
    <2> QED
      BY <2>1, <2>5, <1>5 DEF FramesOK, LoopIsTracked
  <1>10. CASE EndWhen
    <2>1. Close({"when"}) /\ UNCHANGED <<heap, live, is_within_loop, loop_at>>
      BY <1>10 DEF EndWhen, resolver, history
    <2>2. Len(heap) <= Len(heap') /\ Top.base <= Len(live')
      BY <1>0, <2>1, <1>5
    <2>3. \A k \in 1..Len(frames') : FrameOK(k)'
      BY <2>1, <2>2, <1>0, <1>5, <1>6, FramesPop
    <2> QED
      BY <2>1, <2>3, <1>5 DEF FramesOK, LoopIsTracked
  <1>11. CASE EndFunction
    <2>1. frames' = <<>> /\ phase' = "resolved"
      BY <1>11 DEF EndFunction
    <2> QED
      BY <2>1 DEF FramesOK, LoopIsTracked
  <1>12. CASE UNCHANGED vars
    <2>1. UNCHANGED <<phase, heap, frames, live, loop_at, is_within_loop>>
      BY <1>12 DEF vars, resolver, history
    <2>2. \A k \in 1..Len(frames') : FrameOK(k)'
      BY <2>1, <1>0, FramesStay
    <2> QED
      BY <2>1, <2>2 DEF FramesOK, LoopIsTracked
  <1> QED
    BY <1>1, <1>2, <1>3, <1>4, <1>7, <1>8, <1>9, <1>10, <1>11, <1>12 DEF Resolve

-----------------------------------------------------------------------------
(* The list. *)

\* The list and what is saved of it, for as long as no `when` has cleared it.
ListOK == ListIsScope /\ SavesOK

\* The current list is the list of the newest frame and what was added since.
LEMMA ListSplit ==
    ASSUME ResolveTypeOK, FramesOK, ListOK, phase = "resolve", ~dropped,
           NEW k \in 1..Len(frames)
    PROVE  /\ frames[k].base \in 0..Len(live)
           /\ frames[k].save = At(live, frames[k].base)
           /\ Unwinds(heap, frames[k].save, Null, Prefix(live, frames[k].base))
           /\ Unwinds(heap, current_defer, frames[k].save, Above(live, frames[k].base))
  <1>1. frames[k].base \in Nat /\ frames[k].base <= Len(live)
    BY NatFacts DEF FramesOK, FrameOK, FrameType
  <1>2. frames[k].base \in 0..Len(live)
    BY <1>1, NatFacts
  <1>3. frames[k].save = At(live, frames[k].base) /\ Unwinds(heap, current_defer, Null, live)
    BY DEF ListOK, ListIsScope, SavesOK
  <1>4. live \in Seq(Nat) /\ heap \in Seq(DeferType)
    BY DEF ResolveTypeOK
  <1>5. /\ Unwinds(heap, At(live, frames[k].base), Null, Prefix(live, frames[k].base))
        /\ Unwinds(heap, current_defer, At(live, frames[k].base),
                   Above(live, frames[k].base))
    BY <1>2, <1>3, <1>4, UnwindsSplit
  <1> QED
    BY <1>2, <1>3, <1>5

\* Saved positions of the list stay what they are while the list keeps them.
LEMMA SavesStay ==
    ASSUME ResolveTypeOK, FramesOK, ListOK, phase = "resolve", ~dropped,
           NEW n \in 0..Len(frames), NEW top \in Nat,
           \A k \in 1..n : frames'[k] = frames[k],
           \A i \in 1..top : live'[i] = live[i],
           \A k \in 1..n : frames[k].base <= top
    PROVE  \A k \in 1..n :
             /\ frames'[k].save = At(live', frames'[k].base)
             /\ frames'[k].save_loop_at # 0 =>
                    frames'[k].save_loop = frames'[frames'[k].save_loop_at].save
  <1> SUFFICES ASSUME NEW k \in 1..n
               PROVE  /\ frames'[k].save = At(live', frames'[k].base)
                      /\ frames'[k].save_loop_at # 0 =>
                             frames'[k].save_loop = frames'[frames'[k].save_loop_at].save
    OBVIOUS
  <1>1. /\ k \in 1..Len(frames) /\ n \in Nat /\ frames'[k] = frames[k]
        /\ frames[k] \in FrameType /\ FrameOK(k)
    BY NatFacts DEF FramesOK
  <1>2. /\ frames[k].save = At(live, frames[k].base)
        /\ frames[k].save_loop_at # 0 =>
               frames[k].save_loop = frames[frames[k].save_loop_at].save
    BY <1>1 DEF ListOK, SavesOK
  <1>3. /\ frames[k].base \in Nat /\ frames[k].save_loop_at \in Nat
        /\ frames[k].save_loop_at < k
    BY <1>1 DEF FrameOK, FrameType
  <1>4. At(live', frames[k].base) = At(live, frames[k].base)
    <2>1. frames[k].base # 0 => frames[k].base \in 1..top
      BY <1>3
    <2> QED
      BY <2>1 DEF At
  <1>5. frames[k].save_loop_at # 0 => frames[k].save_loop_at \in 1..n
    BY <1>1, <1>3
  <1> QED
    BY <1>1, <1>2, <1>4, <1>5

\* At the start the list and the defers in force are empty.
LEMMA InitList == Init => ListOK
  <1> SUFFICES ASSUME Init PROVE ListOK
    OBVIOUS
  <1>1. live = <<>> /\ Len(live) = 0 /\ current_defer = Null /\ loop_at = 0
    BY DEF Init
  <1>2. Len(frames) = 1 /\ frames[1].base = 0 /\ frames[1].save = Null
        /\ frames[1].save_loop_at = 0
    BY DEF Init
  <1>3. Unwinds(heap, current_defer, Null, live)
    BY <1>1 DEF Unwinds
  <1> QED
    BY <1>1, <1>2, <1>3 DEF ListOK, ListIsScope, SavesOK, At

\* The newest defer in force is the current one.
LEMMA CurrentIsNewest ==
    ASSUME ResolveTypeOK, ListOK, phase = "resolve", ~dropped
    PROVE  current_defer = At(live, Len(live))
  <1>1. live = <<>> <=> Len(live) = 0
    BY EmptySeq DEF ResolveTypeOK
  <1> QED
    BY <1>1 DEF ListOK, ListIsScope, Unwinds, At

\* Each step keeps the lists of the current block and of all saved frames.
LEMMA ListStep ==
    ResolveTypeOK /\ FramesOK /\ ListOK /\ ResolveTypeOK' /\ FramesOK' /\ [Resolve]_vars
        => ListOK'
  <1> SUFFICES ASSUME ResolveTypeOK, FramesOK, ListOK, ResolveTypeOK', FramesOK',
                      [Resolve]_vars, phase' = "resolve", ~dropped'
               PROVE  /\ Unwinds(heap', current_defer', Null, live')
                      /\ \A k \in 1..Len(frames') :
                           /\ frames'[k].save = At(live', frames'[k].base)
                           /\ frames'[k].save_loop_at # 0 =>
                                frames'[k].save_loop = frames'[frames'[k].save_loop_at].save
                      /\ loop_at' # 0 => current_loop_defer' = frames'[loop_at'].save
    BY DEF ListOK, ListIsScope, SavesOK
  <1>0. ~dropped /\ phase = "resolve"
    <2>1. dropped => dropped'
      BY DEF Resolve, vars, history, DeferExpr, DeferBlock, If, For, When, WhenNone, Break,
             Continue, Jump, Return, EndIf, EndFor, EndDefer, EndWhen, EndFunction
    <2>2. phase = "resolve"
      BY DEF Resolve, vars, Statement, Close, DeferExpr, DeferBlock, If, For, When, WhenNone,
             Break, Continue, Jump, Return, EndIf, EndFor, EndDefer, EndWhen, EndFunction
    <2> QED
      BY <2>1, <2>2
  <1>1. /\ Unwinds(heap, current_defer, Null, live)
        /\ loop_at # 0 => current_loop_defer = frames[loop_at].save
    BY <1>0 DEF ListOK, ListIsScope, SavesOK
  <1>2. /\ Len(heap) \in Nat /\ Len(live) \in Nat /\ Len(frames) \in Nat
        /\ Len(frames) > 0 /\ Len(frames) \in 0..Len(frames)
        /\ Len(frames) - 1 \in 0..Len(frames)
    BY <1>0, NatFacts DEF FramesOK
  <1>3. \A k \in 1..Len(frames) : frames[k].base <= Len(live)
    BY DEF FramesOK, FrameOK
  <1>4. loop_at # 0 => loop_at \in 1..Len(frames)
    BY <1>2, LoopFacts
  <1>5. /\ heap \in Seq(DeferType) /\ live \in Seq(Nat) /\ frames \in Seq(FrameType)
    BY DEF ResolveTypeOK
  <1>6. CASE DeferExpr
    <2>1. /\ PushDefer(Len(ast) + 1, Len(ast) + 2)
          /\ UNCHANGED <<frames, current_loop_defer, loop_at>>
      BY <1>6 DEF DeferExpr
    <2> DEFINE node == [prev |-> current_defer, lo |-> Len(ast) + 1, hi |-> Len(ast) + 2]
    <2>2. /\ heap' = Append(heap, node) /\ current_defer' = Len(heap) + 1
          /\ live' = Append(live, Len(heap) + 1)
      BY <2>1 DEF PushDefer
    <2>3. node \in DeferType /\ node.prev = current_defer
      BY NatFacts DEF DeferType
    <2>4. Unwinds(heap', current_defer', Null, live')
      BY <1>1, <1>5, <2>2, <2>3, UnwindsPush
    <2>5. \A i \in 1..Len(live) : live'[i] = live[i]
      BY <1>2, <1>5, <2>2, AppendProperties
    <2>6. \A k \in 1..Len(frames) :
             /\ frames'[k].save = At(live', frames'[k].base)
             /\ frames'[k].save_loop_at # 0 =>
                    frames'[k].save_loop = frames'[frames'[k].save_loop_at].save
      BY <1>0, <1>2, <1>3, <2>1, <2>5, SavesStay
    <2> QED
      BY <1>1, <2>1, <2>4, <2>6
  <1>7. ASSUME NEW kind \in Openers \cup {"when"}, frames' = Append(frames, Frame(kind)),
               UNCHANGED live
        PROVE  /\ \A k \in 1..Len(frames') :
                    /\ frames'[k].save = At(live', frames'[k].base)
                    /\ frames'[k].save_loop_at # 0 =>
                         frames'[k].save_loop = frames'[frames'[k].save_loop_at].save
               /\ frames'[Len(frames) + 1].save = current_defer
               /\ \A k \in 1..Len(frames) : frames'[k] = frames[k]
    <2>1. /\ Len(frames') = Len(frames) + 1 /\ frames'[Len(frames) + 1] = Frame(kind)
          /\ \A k \in 1..Len(frames) : frames'[k] = frames[k]
      BY <1>5, <1>7, FrameTyped, AppendProperties
    <2>2. \A k \in 1..Len(frames) :
             /\ frames'[k].save = At(live', frames'[k].base)
             /\ frames'[k].save_loop_at # 0 =>
                    frames'[k].save_loop = frames'[frames'[k].save_loop_at].save
      BY <1>0, <1>2, <1>3, <1>7, <2>1, SavesStay
    <2>3. /\ Frame(kind).save = current_defer /\ Frame(kind).base = Len(live)
          /\ Frame(kind).save_loop = current_loop_defer
          /\ Frame(kind).save_loop_at = loop_at
      BY DEF Frame
    <2>4. /\ Frame(kind).save = At(live', Frame(kind).base)
          /\ Frame(kind).save_loop_at # 0 =>
               Frame(kind).save_loop = frames'[Frame(kind).save_loop_at].save
      BY <1>0, <1>1, <1>4, <1>7, <2>1, <2>3, CurrentIsNewest
    <2>5. \A k \in 1..Len(frames') : k \in 1..Len(frames) \/ k = Len(frames) + 1
      BY <1>2, <2>1
    <2> QED
      BY <2>1, <2>2, <2>3, <2>4, <2>5
  <1>8. CASE DeferBlock \/ If \/ When
    <2>1. PICK kind \in {"defer", "if", "when"} : frames' = Append(frames, Frame(kind))
      BY <1>8 DEF DeferBlock, If, When, Enter
    <2>2. UNCHANGED <<heap, current_defer, current_loop_defer, live, loop_at>>
      BY <1>8 DEF DeferBlock, If, When, resolver, history
    <2> QED
      BY <1>1, <1>4, <1>7, <2>1, <2>2 DEF Openers
  <1>9. CASE For
    <2>1. /\ frames' = Append(frames, Frame("for")) /\ loop_at' = Len(frames) + 1
          /\ UNCHANGED <<heap, current_defer, live>> /\ current_loop_defer' = current_defer
      BY <1>9 DEF For, Enter
    <2> QED
      BY <1>1, <1>7, <2>1 DEF Openers
  <1>10. CASE WhenNone
    <2>1. /\ UNCHANGED <<heap, frames, current_loop_defer, live, loop_at>>
          /\ current_defer' = Null
      BY <1>10 DEF WhenNone
    <2>2. current_defer = Null
      BY <1>10 DEF WhenNone
    <2>3. \A k \in 1..Len(frames) :
             /\ frames'[k].save = At(live', frames'[k].base)
             /\ frames'[k].save_loop_at # 0 =>
                    frames'[k].save_loop = frames'[frames'[k].save_loop_at].save
      BY <1>0, <1>2, <1>3, <2>1, SavesStay
    <2> QED
      BY <1>1, <2>1, <2>2, <2>3
  <1>11. CASE Break \/ Continue \/ Return \/ UNCHANGED vars
    <2>1. UNCHANGED <<heap, frames, current_defer, current_loop_defer, live, loop_at>>
      BY <1>11 DEF Break, Continue, Jump, Return, vars, resolver, history
    <2>2. \A k \in 1..Len(frames) :
             /\ frames'[k].save = At(live', frames'[k].base)
             /\ frames'[k].save_loop_at # 0 =>
                    frames'[k].save_loop = frames'[frames'[k].save_loop_at].save
      BY <1>0, <1>2, <1>3, <2>1, SavesStay
    <2> QED
      BY <1>1, <2>1, <2>2
  <1>12. ASSUME NEW kinds, Close(kinds)
         PROVE  /\ Len(frames) \in 1..Len(frames) /\ Len(frames') = Len(frames) - 1
                /\ Top.kind \in kinds
                /\ \A k \in 1..(Len(frames) - 1) : frames'[k] = frames[k]
                /\ \A k \in 1..(Len(frames) - 1) : frames[k].base <= Top.base
                /\ Top.base \in 0..Len(live) /\ Top.base \in Nat
                /\ Top.kind # "for" => loop_at = Top.save_loop_at
                /\ Top.save_loop_at \in Nat /\ Top.save_loop_at < Len(frames)
                /\ Unwinds(heap, Top.save, Null, Prefix(live, Top.base))
                /\ Prefix(live, Top.base) \in Seq(Nat)
                /\ Len(Prefix(live, Top.base)) = Top.base
                /\ \A i \in 1..Top.base : Prefix(live, Top.base)[i] = live[i]
    <2>1. frames' = Popped /\ Top.kind \in kinds
      BY <1>12 DEF Close
    <2>2. /\ Len(frames) \in 1..Len(frames) /\ Len(frames') = Len(frames) - 1
          /\ \A k \in 1..(Len(frames) - 1) : frames'[k] = frames[k]
          /\ FrameOK(Len(frames)) /\ Top \in FrameType /\ Top.base \in 0..Len(live)
      BY <1>2, <2>1, TopFacts
    <2>3. /\ Top.kind # "for" => loop_at = Top.save_loop_at
          /\ Top.save_loop_at < Len(frames)
          /\ \A k \in 1..(Len(frames) - 1) : frames[k].base <= Top.base
      BY <1>2, <2>2 DEF FrameOK, LoopOf, Top
    <2>4. Unwinds(heap, Top.save, Null, Prefix(live, Top.base))
      BY <1>0, <2>2, ListSplit DEF Top
    <2>5. Top.base \in Nat /\ Top.save_loop_at \in Nat
      BY <2>2 DEF FrameType
    <2>6. /\ Prefix(live, Top.base) \in Seq(Nat)
          /\ Len(Prefix(live, Top.base)) = Top.base
          /\ \A i \in 1..Top.base : Prefix(live, Top.base)[i] = live[i]
      BY <1>5, <2>2, PrefixFacts
    <2> QED
      BY <2>1, <2>2, <2>3, <2>4, <2>5, <2>6
  <1>13. ASSUME NEW kinds, Close(kinds), \A i \in 1..Top.base : live'[i] = live[i]
         PROVE  \A k \in 1..Len(frames') :
                  /\ frames'[k].save = At(live', frames'[k].base)
                  /\ frames'[k].save_loop_at # 0 =>
                         frames'[k].save_loop = frames'[frames'[k].save_loop_at].save
    BY <1>0, <1>2, <1>12, <1>13, SavesStay, ZenonT(60)
  <1>14. ASSUME NEW kinds, Close(kinds), Top.kind # "for",
                UNCHANGED <<current_loop_defer, loop_at>>
         PROVE  loop_at' # 0 => current_loop_defer' = frames'[loop_at'].save
    <2>1. loop_at # 0 => loop_at \in 1..(Len(frames) - 1)
      BY <1>2, <1>12, <1>14
    <2> QED
      BY <1>1, <1>12, <1>14, <2>1
  <1>15. CASE EndIf
    <2>1. /\ Close({"if"}) /\ UNCHANGED <<heap, current_loop_defer, loop_at>>
          /\ live' = Prefix(live, Top.base) /\ current_defer' = Top.save
      BY <1>15 DEF EndIf
    <2> QED
      BY <2>1, <1>12, <1>13, <1>14
  <1>16. CASE EndFor
    <2>1. /\ Close({"for"}) /\ UNCHANGED heap /\ current_loop_defer' = Top.save_loop
          /\ loop_at' = Top.save_loop_at
          /\ live' = Prefix(live, Top.base) /\ current_defer' = Top.save
      BY <1>16 DEF EndFor
    <2>2. Top.save_loop_at # 0 => Top.save_loop = frames[Top.save_loop_at].save
      BY <1>0, <1>12, <2>1 DEF ListOK, SavesOK, Top
    <2>3. Top.save_loop_at # 0 => Top.save_loop_at \in 1..(Len(frames) - 1)
      BY <1>2, <1>12, <2>1
    <2>4. loop_at' # 0 => current_loop_defer' = frames'[loop_at'].save
      BY <2>1, <2>2, <2>3, <1>12
    <2>5. \A i \in 1..Top.base : live'[i] = live[i]
      BY <2>1, <1>12
    <2>6. Unwinds(heap', current_defer', Null, live')
      BY <2>1, <1>12
    <2> QED
      BY <2>1, <2>4, <2>5, <2>6, <1>13
  <1>17. CASE EndDefer
    <2> DEFINE node == [prev |-> Top.save, lo |-> Top.mark, hi |-> Len(ast) + 1]
               kept == Prefix(live, Top.base)
    <2>1. /\ Close({"defer"}) /\ UNCHANGED <<current_loop_defer, loop_at>>
          /\ live' = Append(kept, Len(heap) + 1) /\ current_defer' = Len(heap) + 1
          /\ heap' = Append(heap, node)
      BY <1>17 DEF EndDefer
    <2>2. node \in DeferType /\ node.prev = Top.save
      <3>1. Top \in FrameType
        BY <1>2, TopFacts
      <3> QED
        BY <3>1, NatFacts DEF DeferType, FrameType
    <2>3. kept \in Seq(Nat) /\ Len(kept) = Top.base /\ Unwinds(heap, node.prev, Null, kept)
      BY <1>12, <2>1, <2>2
    <2>4. Unwinds(heap', current_defer', Null, live')
      BY <1>5, <2>1, <2>2, <2>3, UnwindsPush
    <2>5. \A i \in 1..Top.base : live'[i] = live[i]
      BY <1>2, <1>12, <2>1, <2>3, AppendProperties
    <2>6. Close({"defer"}) /\ Top.kind # "for" /\ UNCHANGED <<current_loop_defer, loop_at>>
      BY <2>1, <1>12
    <2>7. loop_at' # 0 => current_loop_defer' = frames'[loop_at'].save
      BY <2>6, <1>14
    <2> QED
      BY <2>4, <2>5, <2>6, <2>7, <1>13
  <1>18. CASE EndWhen
    <2>1. /\ Close({"when"})
          /\ UNCHANGED <<heap, current_defer, current_loop_defer, live, loop_at>>
      BY <1>18 DEF EndWhen, resolver, history
    <2> QED
      BY <1>1, <2>1, <1>12, <1>13, <1>14
  <1>19. CASE EndFunction
    BY <1>19 DEF EndFunction
  <1> QED
    BY <1>6, <1>8, <1>9, <1>10, <1>11, <1>15, <1>16, <1>17, <1>18, <1>19 DEF Resolve

-----------------------------------------------------------------------------
(* The ways out. *)

\* The ways out in the tree a, through the nodes h.
TokensOK(h, a) ==
    \A i \in 1..Len(a) :
        a[i].op \in Exits => Unwinds(h, a[i].begin, a[i].end, a[i].due)

\* A new way out unwinds what is due; the older ones do so still.
LEMMA TokensAppend ==
    ASSUME NEW h, NEW a \in Seq(TokenType), NEW t \in TokenType, TokensOK(h, a),
           t.op \in Exits => Unwinds(h, t.begin, t.end, t.due)
    PROVE  TokensOK(h, Append(a, t))
  <1>1. /\ Len(a) \in Nat /\ Len(Append(a, t)) = Len(a) + 1
        /\ Append(a, t)[Len(a) + 1] = t
        /\ \A i \in 1..Len(a) : Append(a, t)[i] = a[i]
    BY AppendProperties, LenProperties
  <1>2. \A i \in 1..Len(Append(a, t)) : i \in 1..Len(a) \/ i = Len(a) + 1
    BY <1>1
  <1> QED
    BY <1>1, <1>2 DEF TokensOK

\* A new defer changes no way out that is there already.
LEMMA TokensMonotone ==
    ASSUME NEW h \in Seq(DeferType), NEW d \in DeferType, NEW a \in Seq(TokenType),
           TokensOK(h, a)
    PROVE  TokensOK(Append(h, d), a)
  <1> SUFFICES ASSUME NEW i \in 1..Len(a), a[i].op \in Exits
               PROVE  Unwinds(Append(h, d), a[i].begin, a[i].end, a[i].due)
    BY DEF TokensOK
  <1>1. a[i] \in TokenType
    BY ElementOfSeq
  <1>2. a[i].due \in Seq(Nat)
    BY <1>1 DEF TokenType
  <1>3. Unwinds(h, a[i].begin, a[i].end, a[i].due)
    BY DEF TokensOK
  <1> QED
    BY <1>2, <1>3, UnwindsMonotone

\* Each step of the resolver keeps the ways out in order.
LEMMA ExitsStep ==
    ResolveTypeOK /\ FramesOK /\ ListOK /\ ExitsUnwind /\ ResolveTypeOK' /\ [Resolve]_vars
        => ExitsUnwind'
  <1> SUFFICES ASSUME ResolveTypeOK, FramesOK, ListOK, ExitsUnwind, ResolveTypeOK',
                      [Resolve]_vars, ~dropped'
               PROVE  TokensOK(heap', ast')
    BY DEF ExitsUnwind, TokensOK
  <1>0. ~dropped
    BY DEF Resolve, vars, history, DeferExpr, DeferBlock, If, For, When, WhenNone, Break,
           Continue, Jump, Return, EndIf, EndFor, EndDefer, EndWhen, EndFunction
  <1>1. /\ TokensOK(heap, ast) /\ heap \in Seq(DeferType) /\ ast \in Seq(TokenType)
        /\ live \in Seq(Nat)
    BY <1>0 DEF ExitsUnwind, TokensOK, ResolveTypeOK
  <1>2. ASSUME NEW op \in Openers
        PROVE  TokensOK(heap, Append(ast, Opener(op)))
    <2>1. Opener(op) \in TokenType /\ Opener(op).op = op /\ op \notin Exits
      BY OpenerTyped DEF Opener, Token, Openers, Exits
    <2> QED
      BY <1>1, <2>1, TokensAppend
  <1>3. CASE DeferExpr
    <2> DEFINE end == Token("end", current_defer, current_defer, <<>>, 0)
               node == [prev |-> current_defer, lo |-> Len(ast) + 1, hi |-> Len(ast) + 2]
    <2>1. PushDefer(Len(ast) + 1, Len(ast) + 2)
          /\ ast' = Append(Append(ast, Opener("defer")), end)
      BY <1>3 DEF DeferExpr
    <2>2. end \in TokenType /\ Unwinds(heap, end.begin, end.end, end.due)
      <3>1. end \in TokenType
        BY NatFacts, TokenTyped, EmptySeq DEF Exits
      <3> QED
        BY <3>1 DEF Token, Unwinds
    <2>3. Append(ast, Opener("defer")) \in Seq(TokenType)
      BY <1>1, OpenerTyped, AppendProperties DEF Openers
    <2>4. TokensOK(heap, ast')
      BY <1>2, <2>1, <2>2, <2>3, TokensAppend DEF Openers
    <2>5. heap' = Append(heap, node) /\ node \in DeferType
      BY <2>1, NatFacts DEF PushDefer, DeferType
    <2> QED
      BY <1>1, <2>4, <2>5, TokensMonotone DEF ResolveTypeOK
  <1>4. CASE DeferBlock \/ If \/ For
    <2>1. PICK op \in Openers : ast' = Append(ast, Opener(op))
      BY <1>4 DEF DeferBlock, If, For, Enter, Openers
    <2>2. UNCHANGED heap
      BY <1>4 DEF DeferBlock, If, For
    <2> QED
      BY <1>2, <2>1, <2>2
  <1>5. CASE When \/ WhenNone \/ EndWhen \/ UNCHANGED vars
    <2>1. UNCHANGED <<ast, heap>>
      BY <1>5 DEF When, WhenNone, EndWhen, vars
    <2> QED
      BY <1>1, <2>1
  <1>6. ASSUME NEW op \in {"break", "continue"}, Jump(op)
        PROVE  TokensOK(heap', ast')
    <2>1. UNCHANGED heap /\ phase = "resolve"
      BY <1>6 DEF Jump, Statement
    <2>2. CASE is_within_loop
      <3>1. loop_at # 0 /\ Len(frames) > 0
        BY <2>1, <2>2 DEF FramesOK, LoopIsTracked
      <3> DEFINE mark == frames[loop_at].mark
                 due == Above(live, frames[loop_at].base)
                 t == Token(op, current_defer, current_loop_defer, due, mark)
      <3>2. ast' = Append(ast, t)
        BY <1>6, <2>2, <3>1 DEF Jump
      <3>3. loop_at \in 1..Len(frames) /\ frames[loop_at] \in FrameType
            /\ frames[loop_at].base \in 0..Len(live)
        BY <3>1, LoopFacts
      <3>4. mark \in Nat /\ due \in Seq(Nat)
        BY <1>1, <3>3, AboveFacts DEF FrameType
      <3>5. current_loop_defer = frames[loop_at].save
        BY <1>0, <2>1, <3>1 DEF ListOK, SavesOK
      <3>6. Unwinds(heap, current_defer, current_loop_defer, due)
        BY <1>0, <2>1, <3>3, <3>5, ListSplit
      <3> HIDE DEF due, mark
      <3>7. t \in TokenType
        BY <3>4, NatFacts, TokenTyped DEF Exits
      <3>8. Unwinds(heap, t.begin, t.end, t.due)
        BY <3>6 DEF Token
      <3> QED
        BY <1>1, <2>1, <3>2, <3>7, <3>8, TokensAppend
    <2>3. CASE ~is_within_loop
      <3>1. UNCHANGED ast
        BY <1>6, <2>3 DEF Jump
      <3> QED
        BY <1>1, <2>1, <3>1
    <2> QED
      BY <2>2, <2>3
  <1>7. CASE Break \/ Continue
    BY <1>6, <1>7 DEF Break, Continue
  <1>8. CASE Return
    <2> DEFINE t == Token("return", current_defer, Null, live, 0)
    <2>1. ast' = Append(ast, t) /\ UNCHANGED heap /\ phase = "resolve"
      BY <1>8 DEF Return, Statement
    <2>2. Unwinds(heap, current_defer, Null, live)
      BY <1>0, <2>1 DEF ListOK, ListIsScope
    <2>3. t \in TokenType
      BY <1>1, NatFacts, TokenTyped DEF Exits, Null
    <2>4. Unwinds(heap, t.begin, t.end, t.due)
      BY <2>2 DEF Token
    <2> QED
      BY <1>1, <2>1, <2>3, <2>4, TokensAppend
  <1>9. ASSUME phase = "resolve", ast' = Append(ast, BlockEnd)
        PROVE  TokensOK(heap, ast')
    <2>1. Len(frames) > 0
      BY <1>9 DEF FramesOK
    <2>2. BlockEnd \in TokenType /\ Len(frames) \in 1..Len(frames)
      BY <2>1, TopFacts
    <2>3. Unwinds(heap, current_defer, Top.save, Above(live, Top.base))
      BY <1>0, <1>9, <2>2, ListSplit DEF Top
    <2>4. Unwinds(heap, BlockEnd.begin, BlockEnd.end, BlockEnd.due)
      BY <2>3 DEF BlockEnd, Token
    <2> QED
      BY <1>1, <1>9, <2>2, <2>4, TokensAppend
  <1>10. CASE EndIf \/ EndFor \/ EndFunction
    <2>1. phase = "resolve" /\ ast' = Append(ast, BlockEnd) /\ UNCHANGED heap
      BY <1>10 DEF EndIf, EndFor, EndFunction, Close
    <2> QED
      BY <1>9, <2>1
  <1>11. CASE EndDefer
    <2> DEFINE node == [prev |-> Top.save, lo |-> Top.mark, hi |-> Len(ast) + 1]
    <2>1. /\ phase = "resolve" /\ ast' = Append(ast, BlockEnd)
          /\ heap' = Append(heap, node) /\ Len(frames) > 1
      BY <1>11 DEF EndDefer, Close
    <2>2. node \in DeferType
      <3>1. Len(frames) > 0
        BY <2>1, NatFacts
      <3>2. Top \in FrameType
        BY <3>1, TopFacts
      <3> QED
        BY <3>2, NatFacts DEF DeferType, FrameType
    <2>3. ast' \in Seq(TokenType)
      BY DEF ResolveTypeOK
    <2> QED
      BY <1>1, <1>9, <2>1, <2>2, <2>3, TokensMonotone
  <1> QED
    BY <1>3, <1>4, <1>5, <1>7, <1>8, <1>10, <1>11 DEF Resolve

-----------------------------------------------------------------------------
(* The theorems. *)

\* The invariant holds at the start.
LEMMA InitInv == Init => IInv
  <1> SUFFICES ASSUME Init PROVE IInv
    OBVIOUS
  <1>1. ResolveTypeOK /\ FramesOK /\ ListOK
    BY InitTyped, InitFrames, InitList
  <1>2. ast = <<Opener("fn")>>
    BY DEF Init
  <1>3. Len(ast) = 1 /\ ast[1].op = "fn"
    BY <1>2 DEF Opener, Token
  <1>4. ExitsUnwind
    BY <1>3 DEF ExitsUnwind, Exits
  <1> QED
    BY <1>1, <1>4 DEF IInv, ListOK

\* Each step of the resolver keeps the invariant.
LEMMA NextInv == IInv /\ [Resolve]_vars => IInv'
  BY TypeStep, FramesStep, ListStep, ExitsStep DEF IInv, ListOK

\* The types of the resolver's state hold, and the list of defers ends, for
\* functions of any length.
THEOREM TypeCorrect == Spec => []ResolveTypeOK
  <1>1. IInv => ResolveTypeOK
    BY DEF IInv
  <1> QED
    BY <1>1, InitInv, NextInv, PTL DEF Spec

\* Whatever the program, every end of a block, break, continue and return
\* records exactly the defers it leaves behind, unless a branchless `when` has
\* cleared the list before.
THEOREM ExitsCorrect == Spec => []ExitsUnwind
  <1>1. IInv => ExitsUnwind
    BY DEF IInv
  <1> QED
    BY <1>1, InitInv, NextInv, PTL DEF Spec

\* The list that the resolver carries is that of the defers in force.
THEOREM ListCorrect == Spec => []ListIsScope
  <1>1. IInv => ListIsScope
    BY DEF IInv
  <1> QED
    BY <1>1, InitInv, NextInv, PTL DEF Spec

\* break and continue are refused exactly where no loop encloses them.
THEOREM LoopCorrect == Spec => []LoopIsTracked
  <1>1. IInv => LoopIsTracked
    BY DEF IInv, FramesOK
  <1> QED
    BY <1>1, InitInv, NextInv, PTL DEF Spec
=============================================================================
