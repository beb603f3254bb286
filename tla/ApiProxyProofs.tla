--------------------------- MODULE ApiProxyProofs ---------------------------
(***************************************************************************)
(* Theorems about ApiProxy: what its properties say holds for any policies,*)
(* prompts, answers and numbers of threads.  The first part is about       *)
(* FlattenSeq, of which everything the proxy does to sequences of blocks   *)
(* is made; it is proved by least counterexamples, for an operator cannot  *)
(* be handed to the induction theorems of the library.                     *)
(***************************************************************************)
EXTENDS ApiProxy, SequenceTheorems, WellFoundedInduction, TLAPS

-----------------------------------------------------------------------------
(* Sequences                                                               *)

LEMMA LeastOf ==
    ASSUME NEW S \in SUBSET Nat, S # {}
    PROVE  \E x \in S : \A y \in S : x <= y
<1>1. PICK x \in S : \A y \in S : ~ (<<y, x>> \in OpToRel(<, Nat))
  BY NatLessThanWellFounded, WFMin
<1>2. \A y \in S : ~ (y < x)
  BY <1>1 DEF OpToRel
<1> QED
  BY <1>2

LEMMA ToSetIs ==
    ASSUME NEW S, NEW s \in Seq(S)
    PROVE  /\ DOMAIN s = 1 .. Len(s) /\ Len(s) \in Nat
           /\ ToSet(s) \subseteq S
           /\ \A x : x \in ToSet(s) <=> \E i \in 1 .. Len(s) : x = s[i]
  BY DEF ToSet

LEMMA ToSetConcat ==
    ASSUME NEW S, NEW s \in Seq(S), NEW t \in Seq(S)
    PROVE  ToSet(s \o t) = ToSet(s) \cup ToSet(t)
<1>1. /\ s \o t \in Seq(S) /\ Len(s \o t) = Len(s) + Len(t)
      /\ \A i \in 1 .. Len(s) : (s \o t)[i] = s[i]
      /\ \A i \in 1 .. Len(t) : (s \o t)[Len(s) + i] = t[i]
      /\ Len(s) \in Nat /\ Len(t) \in Nat
  OBVIOUS
<1>2. ASSUME NEW x \in ToSet(s \o t) PROVE x \in ToSet(s) \cup ToSet(t)
  <2>1. PICK i \in 1 .. Len(s) + Len(t) : x = (s \o t)[i]
    <3>1. \E i \in DOMAIN (s \o t) : x = (s \o t)[i]
      BY <1>2 DEF ToSet
    <3>2. DOMAIN (s \o t) = 1 .. Len(s \o t)
      BY <1>1
    <3> QED
      BY <1>1, <3>1, <3>2
  <2>2. CASE i \in 1 .. Len(s)
    BY <1>1, <2>1, <2>2, ToSetIs
  <2>3. CASE i - Len(s) \in 1 .. Len(t)
    <3>1. i = Len(s) + (i - Len(s))
      BY <1>1, <2>1
    <3>2. x = t[i - Len(s)]
      BY <1>1, <2>1, <2>3, <3>1
    <3> QED
      BY <2>3, <3>2, ToSetIs
  <2> QED
    BY <1>1, <2>1, <2>2, <2>3
<1>3. ASSUME NEW x \in ToSet(s) PROVE x \in ToSet(s \o t)
  <2>1. PICK i \in 1 .. Len(s) : x = s[i]
    BY <1>3, ToSetIs
  <2>2. i \in 1 .. Len(s \o t) /\ x = (s \o t)[i]
    BY <1>1, <2>1
  <2> QED
    BY <1>1, <2>2, ToSetIs
<1>4. ASSUME NEW x \in ToSet(t) PROVE x \in ToSet(s \o t)
  <2>1. PICK i \in 1 .. Len(t) : x = t[i]
    BY <1>4, ToSetIs
  <2>2. Len(s) + i \in 1 .. Len(s \o t) /\ x = (s \o t)[Len(s) + i]
    BY <1>1, <2>1
  <2> QED
    BY <1>1, <2>2, ToSetIs
<1> QED
  BY <1>2, <1>3, <1>4

\* A sequence flattened one part after the other.
FlattenedBy(f, k, ss) ==
    /\ DOMAIN f = 1 .. k
    /\ f[1] = ss[1]
    /\ \A i \in 2 .. k : f[i] = f[i - 1] \o ss[i]

LEMMA FlattenExists ==
    ASSUME NEW ss, Len(ss) \in Nat
    PROVE  \A k \in 1 .. Len(ss) : \E f : FlattenedBy(f, k, ss)
<1> DEFINE Bad == {k \in 1 .. Len(ss) : ~ \E f : FlattenedBy(f, k, ss)}
<1> SUFFICES ASSUME Bad # {} PROVE FALSE
  OBVIOUS
<1>1. PICK k \in Bad : \A y \in Bad : k <= y
  <2>1. Bad \in SUBSET Nat
    OBVIOUS
  <2> HIDE DEF Bad
  <2> QED
    BY <2>1, LeastOf
<1>2. k \in 1 .. Len(ss) /\ ~ \E f : FlattenedBy(f, k, ss)
  BY <1>1
<1>3. k # 1
  <2>1. FlattenedBy([i \in 1 .. 1 |-> ss[1]], 1, ss)
    BY DEF FlattenedBy
  <2> QED
    BY <1>2, <2>1
<1>4. k - 1 \in 1 .. Len(ss) /\ k - 1 \notin Bad
  BY <1>1, <1>2, <1>3
<1>5. PICK f : FlattenedBy(f, k - 1, ss)
  BY <1>4
<1> DEFINE g == [i \in 1 .. k |-> IF i = k THEN f[k - 1] \o ss[k] ELSE f[i]]
<1>6. FlattenedBy(g, k, ss)
  <2>1. k \in Nat /\ k >= 2 /\ f[1] = ss[1] /\ \A i \in 2 .. k - 1 : f[i] = f[i - 1] \o ss[i]
    <3>1. k \in Nat /\ k >= 2
      BY <1>2, <1>3
    <3>2. f[1] = ss[1] /\ \A i \in 2 .. k - 1 : f[i] = f[i - 1] \o ss[i]
      BY <1>5 DEF FlattenedBy
    <3> QED
      BY <3>1, <3>2
  <2>2. g[1] = ss[1]
    BY <2>1
  <2>3. ASSUME NEW i \in 2 .. k PROVE g[i] = g[i - 1] \o ss[i]
    <3>1. i - 1 \in 1 .. k /\ i - 1 # k
      BY <2>1
    <3>2. g[i - 1] = f[i - 1]
      BY <3>1
    <3>3. CASE i = k
      <4>1. k \in 1 .. k
        BY <2>1
      <4>2. g[k] = f[k - 1] \o ss[k]
        BY <4>1
      <4> QED
        BY <3>2, <3>3, <4>2
    <3>4. CASE i # k
      <4>1. i \in 2 .. k - 1 /\ i \in 1 .. k
        BY <2>1, <3>4
      <4>2. g[i] = f[i]
        BY <3>4, <4>1
      <4> QED
        BY <2>1, <3>2, <4>1, <4>2
    <3> QED
      BY <3>3, <3>4
  <2> QED
    BY <2>2, <2>3 DEF FlattenedBy
<1> QED
  BY <1>2, <1>6

\* FlattenSeq is the last of a function that is what its recursion says.
LEMMA FlattenIs ==
    ASSUME NEW S, NEW ss \in Seq(Seq(S)), ss # <<>>
    PROVE  \E f : FlattenedBy(f, Len(ss), ss) /\ FlattenSeq(ss) = f[Len(ss)]
<1>1. Len(ss) \in Nat /\ Len(ss) # 0
  OBVIOUS
<1> DEFINE Eq(f) == f = [i \in 1 .. Len(ss) |-> IF i = 1 THEN ss[i] ELSE f[i - 1] \o ss[i]]
<1>2. PICK f : FlattenedBy(f, Len(ss), ss)
  BY <1>1, FlattenExists
<1>3. \E h : Eq(h)
  <2> DEFINE h == [i \in 1 .. Len(ss) |-> f[i]]
  <2>1. ASSUME NEW i \in 1 .. Len(ss)
        PROVE  h[i] = IF i = 1 THEN ss[i] ELSE h[i - 1] \o ss[i]
    <3>1. CASE i = 1
      BY <1>2, <3>1 DEF FlattenedBy
    <3>2. CASE i # 1
      <4>1. i \in 2 .. Len(ss) /\ i - 1 \in 1 .. Len(ss)
        BY <1>1, <3>2
      <4> QED
        BY <1>2, <3>2, <4>1 DEF FlattenedBy
    <3> QED
      BY <3>1, <3>2
  <2>2. h = [i \in 1 .. Len(ss) |-> IF i = 1 THEN ss[i] ELSE h[i - 1] \o ss[i]]
    BY <2>1
  <2> QED
    BY <2>2
<1> DEFINE g == CHOOSE h : Eq(h)
<1>4. Eq(g)
  BY <1>3
<1>5. FlattenSeq(ss) = g[Len(ss)]
  BY <1>1 DEF FlattenSeq
<1>6. FlattenedBy(g, Len(ss), ss)
  <2> HIDE DEF g
  <2>1. DOMAIN g = 1 .. Len(ss)
    BY <1>4
  <2>2. g[1] = ss[1]
    BY <1>1, <1>4
  <2>3. ASSUME NEW i \in 2 .. Len(ss) PROVE g[i] = g[i - 1] \o ss[i]
    <3>1. i \in 1 .. Len(ss) /\ i # 1
      BY <1>1
    <3>2. g[i] = IF i = 1 THEN ss[i] ELSE g[i - 1] \o ss[i]
      BY <1>4, <3>1
    <3> QED
      BY <3>1, <3>2
  <2> QED
    BY <2>1, <2>2, <2>3 DEF FlattenedBy
<1> QED
  BY <1>5, <1>6

\* What flattening gives: a sequence of the elements of all parts.
LEMMA Flattened ==
    ASSUME NEW S, NEW ss \in Seq(Seq(S))
    PROVE  /\ FlattenSeq(ss) \in Seq(S)
           /\ \A x : x \in ToSet(FlattenSeq(ss)) <=> \E i \in 1 .. Len(ss) : x \in ToSet(ss[i])
<1>1. CASE ss = <<>>
  <2>1. FlattenSeq(ss) = ss /\ Len(ss) = 0
    BY <1>1 DEF FlattenSeq
  <2>2. FlattenSeq(ss) = <<>> /\ <<>> \in Seq(S)
    BY <1>1, <2>1
  <2>3. ToSet(FlattenSeq(ss)) = {}
    BY <2>2 DEF ToSet
  <2> QED
    BY <2>1, <2>2, <2>3
<1>2. CASE ss # <<>>
  <2>1. PICK f : FlattenedBy(f, Len(ss), ss) /\ FlattenSeq(ss) = f[Len(ss)]
    BY <1>2, FlattenIs
  <2>2. Len(ss) \in Nat \ {0} /\ \A i \in 1 .. Len(ss) : ss[i] \in Seq(S)
    BY <1>2
  <2> DEFINE Right(k) == /\ f[k] \in Seq(S)
                         /\ \A x : x \in ToSet(f[k]) <=> \E i \in 1 .. k : x \in ToSet(ss[i])
             Bad == {k \in 1 .. Len(ss) : ~Right(k)}
  <2>3. Bad = {}
    <3> SUFFICES ASSUME Bad # {} PROVE FALSE
      OBVIOUS
    <3>1. PICK k \in Bad : \A y \in Bad : k <= y
      <4>1. Bad \in SUBSET Nat
        OBVIOUS
      <4> HIDE DEF Bad
      <4> QED
        BY <4>1, LeastOf
    <3>2. k \in 1 .. Len(ss) /\ ~Right(k)
      BY <3>1
    <3>3. CASE k = 1
      <4>1. f[1] = ss[1]
        BY <2>1 DEF FlattenedBy
      <4>2. Right(1)
        BY <2>2, <4>1
      <4> QED
        BY <3>2, <3>3, <4>2
    <3>4. CASE k # 1
      <4>1. k - 1 \in 1 .. Len(ss) /\ k \in 2 .. Len(ss)
        BY <2>2, <3>2, <3>4
      <4>2. Right(k - 1)
        <5>1. k - 1 \notin Bad
          <6> HIDE DEF Bad
          <6> QED
            BY <2>2, <3>1, <3>2
        <5> HIDE DEF Right
        <5> QED
          BY <4>1, <5>1
      <4>3. f[k] = f[k - 1] \o ss[k]
        BY <2>1, <4>1 DEF FlattenedBy
      <4>4. f[k] \in Seq(S) /\ ToSet(f[k]) = ToSet(f[k - 1]) \cup ToSet(ss[k])
        <5>1. f[k - 1] \in Seq(S) /\ ss[k] \in Seq(S)
          BY <2>2, <3>2, <4>2
        <5> HIDE DEF Right
        <5> QED
          BY <4>3, <5>1, ToSetConcat, ConcatProperties
      <4>5. \A i : i \in 1 .. k <=> i \in 1 .. k - 1 \/ i = k
        BY <2>2, <3>2
      <4>6. Right(k)
        BY <4>2, <4>4, <4>5
      <4> QED
        BY <3>2, <4>6
    <3> QED
      BY <3>3, <3>4
  <2>4. Right(Len(ss))
    <3> HIDE DEF Right
    <3>1. Len(ss) \in 1 .. Len(ss)
      BY <2>2
    <3> QED
      BY <2>3, <3>1
  <2> QED
    BY <2>1, <2>4
<1> QED
  BY <1>1, <1>2

LEMMA OfTypeIs ==
    ASSUME NEW S, NEW s \in Seq(S), NEW types
    PROVE  /\ OfType(s, types) \in Seq({b \in S : b.type \in types})
           /\ \A b : b \in ToSet(OfType(s, types)) <=> b \in ToSet(s) /\ b.type \in types
<1> DEFINE T == {b \in S : b.type \in types}
           ss == [i \in DOMAIN s |-> IF s[i].type \in types THEN <<s[i]>> ELSE <<>>]
<1>1. Len(s) \in Nat /\ DOMAIN s = 1 .. Len(s) /\ \A i \in 1 .. Len(s) : s[i] \in S
  OBVIOUS
<1>2. \A i \in 1 .. Len(s) :
        /\ ss[i] \in Seq(T)
        /\ \A b : b \in ToSet(ss[i]) <=> b = s[i] /\ b.type \in types
  <2> TAKE i \in 1 .. Len(s)
  <2>1. CASE s[i].type \in types
    <3>1. ss[i] = <<s[i]>>
      BY <1>1, <2>1
    <3>2. <<s[i]>> \in Seq(T)
      BY <1>1, <2>1
    <3>3. \A b : b \in ToSet(<<s[i]>>) <=> b = s[i]
      BY DEF ToSet
    <3> QED
      BY <2>1, <3>1, <3>2, <3>3
  <2>2. CASE s[i].type \notin types
    <3>1. ss[i] = <<>>
      BY <1>1, <2>2
    <3>2. \A b : b \notin ToSet(<<>>)
      BY DEF ToSet
    <3> QED
      BY <2>2, <3>1, <3>2
  <2> QED
    BY <2>1, <2>2
<1>3. ss \in Seq(Seq(T)) /\ Len(ss) = Len(s)
  <2>1. ss \in [1 .. Len(s) -> Seq(T)]
    BY <1>1, <1>2
  <2> HIDE DEF ss
  <2> QED
    BY <1>1, <2>1
<1>4. OfType(s, types) = FlattenSeq(ss)
  BY DEF OfType
<1> HIDE DEF ss, T
<1>5. /\ FlattenSeq(ss) \in Seq(T)
      /\ \A x : x \in ToSet(FlattenSeq(ss)) <=> \E i \in 1 .. Len(ss) : x \in ToSet(ss[i])
  BY <1>3, Flattened
<1>6. \A b : b \in ToSet(s) <=> \E i \in 1 .. Len(s) : b = s[i]
  BY ToSetIs
<1>7. \A b : b \in ToSet(OfType(s, types)) <=> b \in ToSet(s) /\ b.type \in types
  <2> TAKE b
  <2>1. b \in ToSet(OfType(s, types)) <=> \E i \in 1 .. Len(s) : b \in ToSet(ss[i])
    BY <1>3, <1>4, <1>5
  <2>2. \A i \in 1 .. Len(s) : b \in ToSet(ss[i]) <=> b = s[i] /\ b.type \in types
    BY <1>2
  <2> QED
    BY <1>6, <2>1, <2>2
<1>8. OfType(s, types) \in Seq({b \in S : b.type \in types})
  BY <1>4, <1>5 DEF T
<1> QED
  BY <1>7, <1>8

LEMMA BlocksAtIs ==
    ASSUME NEW S, NEW body, Len(body) \in Nat, DOMAIN body = 1 .. Len(body),
           NEW at, \A i \in DOMAIN body : i \in at => body[i].blocks \in Seq(S)
    PROVE  /\ BlocksAt(body, at) \in Seq(S)
           /\ \A b : b \in ToSet(BlocksAt(body, at)) <=>
                     \E i \in 1 .. Len(body) : i \in at /\ b \in ToSet(body[i].blocks)
<1> DEFINE ss == [i \in DOMAIN body |-> IF i \in at THEN body[i].blocks ELSE <<>>]
<1>1. \A i \in 1 .. Len(body) :
        /\ ss[i] \in Seq(S)
        /\ \A b : b \in ToSet(ss[i]) <=> i \in at /\ b \in ToSet(body[i].blocks)
  <2> TAKE i \in 1 .. Len(body)
  <2>1. CASE i \in at
    <3>1. ss[i] = body[i].blocks
      BY <2>1
    <3> QED
      BY <2>1, <3>1
  <2>2. CASE i \notin at
    <3>1. ss[i] = <<>>
      BY <2>2
    <3>2. \A b : b \notin ToSet(<<>>)
      BY DEF ToSet
    <3>3. <<>> \in Seq(S)
      OBVIOUS
    <3> QED
      BY <2>2, <3>1, <3>2, <3>3
  <2> QED
    BY <2>1, <2>2
<1>2. ss \in Seq(Seq(S)) /\ Len(ss) = Len(body)
  <2>1. ss \in [1 .. Len(body) -> Seq(S)]
    BY <1>1
  <2> HIDE DEF ss
  <2> QED
    BY <2>1
<1>3. BlocksAt(body, at) = FlattenSeq(ss)
  BY DEF BlocksAt
<1> HIDE DEF ss
<1>4. /\ FlattenSeq(ss) \in Seq(S)
      /\ \A x : x \in ToSet(FlattenSeq(ss)) <=> \E i \in 1 .. Len(ss) : x \in ToSet(ss[i])
  BY <1>2, Flattened
<1> QED
  BY <1>1, <1>2, <1>3, <1>4, Zenon

-----------------------------------------------------------------------------
(* The stream of an answer                                                 *)

LEMMA WireIs ==
    ASSUME NEW m, NEW S, m.blocks \in Seq(S)
    PROVE  LET n == Len(m.blocks) IN
           /\ n \in Nat /\ Len(Wire(m)) = 1 + 3 * n /\ DOMAIN Wire(m) = 1 .. 1 + 3 * n
           /\ Wire(m)[1] = [type |-> "message_start", id |-> m.id]
           /\ \A i \in 1 .. n :
                 /\ Wire(m)[3 * i - 1] = [type |-> "content_block_start", index |-> i,
                                          block |-> m.blocks[i]]
                 /\ Wire(m)[3 * i] = [type |-> "content_block_delta", index |-> i,
                                      block |-> m.blocks[i]]
                 /\ Wire(m)[3 * i + 1] = [type |-> "content_block_stop", index |-> i,
                                          block |-> m.blocks[i]]
           /\ \A j \in 1 .. 1 + 3 * n :
                 j = 1 \/ \E i \in 1 .. n : j \in {3 * i - 1, 3 * i, 3 * i + 1}
<1> DEFINE n == Len(m.blocks)
           E(j) == IF j = 1 THEN [type |-> "message_start", id |-> m.id]
                   ELSE LET i == (j + 1) \div 3
                        IN  [type |-> BlockEvents[1 + ((j + 1) % 3)], index |-> i,
                             block |-> m.blocks[i]]
<1>1. n \in Nat
  OBVIOUS
<1>2. Wire(m) = [j \in 1 .. 1 + 3 * n |-> E(j)]
  BY DEF Wire
<1>3. DOMAIN Wire(m) = 1 .. 1 + 3 * n /\ Len(Wire(m)) = 1 + 3 * n
  <2>1. 1 + 3 * n \in Nat
    BY <1>1
  <2> HIDE DEF n, E
  <2> QED
    BY <1>2, <2>1
<1>4. Wire(m)[1] = [type |-> "message_start", id |-> m.id]
  <2>1. 1 \in 1 .. 1 + 3 * n
    BY <1>1
  <2> HIDE DEF n
  <2> QED
    BY <1>2, <2>1
<1>5. ASSUME NEW i \in 1 .. n
      PROVE  /\ Wire(m)[3 * i - 1] = [type |-> "content_block_start", index |-> i,
                                      block |-> m.blocks[i]]
             /\ Wire(m)[3 * i] = [type |-> "content_block_delta", index |-> i,
                                  block |-> m.blocks[i]]
             /\ Wire(m)[3 * i + 1] = [type |-> "content_block_stop", index |-> i,
                                      block |-> m.blocks[i]]
  <2>1. /\ 3 * i - 1 \in 1 .. 1 + 3 * n /\ 3 * i - 1 # 1
        /\ 3 * i \in 1 .. 1 + 3 * n /\ 3 * i # 1
        /\ 3 * i + 1 \in 1 .. 1 + 3 * n /\ 3 * i + 1 # 1
    BY <1>1
  <2>2. /\ ((3 * i - 1) + 1) \div 3 = i /\ ((3 * i - 1) + 1) % 3 = 0
        /\ (3 * i + 1) \div 3 = i /\ (3 * i + 1) % 3 = 1
        /\ ((3 * i + 1) + 1) \div 3 = i /\ ((3 * i + 1) + 1) % 3 = 2
    BY <1>1
  <2>3. /\ BlockEvents[1 + 0] = "content_block_start"
        /\ BlockEvents[1 + 1] = "content_block_delta"
        /\ BlockEvents[1 + 2] = "content_block_stop"
    BY DEF BlockEvents
  <2>4. /\ Wire(m)[3 * i - 1] = E(3 * i - 1) /\ Wire(m)[3 * i] = E(3 * i)
        /\ Wire(m)[3 * i + 1] = E(3 * i + 1)
    <3> HIDE DEF n, E
    <3> QED
      BY <1>2, <2>1
  <2> QED
    BY <2>1, <2>2, <2>3, <2>4
<1>6. ASSUME NEW j \in 1 .. 1 + 3 * n
      PROVE  j = 1 \/ \E i \in 1 .. n : j \in {3 * i - 1, 3 * i, 3 * i + 1}
  <2> DEFINE i == (j + 1) \div 3
  <2>1. j # 1 => i \in 1 .. n
    BY <1>1
  <2>2. j \in {3 * i - 1, 3 * i, 3 * i + 1}
    BY <1>1
  <2> QED
    BY <2>1, <2>2
<1> QED
  BY <1>1, <1>3, <1>4, <1>5, <1>6

LEMMA Literals ==
    /\ EmptyInput \in STRING
    /\ EmptyText \in STRING /\ "cancel" \in STRING /\ "notice" \in STRING /\ "blk" \in STRING
    /\ Reminder \in STRING /\ Output \in STRING
  BY ProxyAssumption

\* A block as assemble_sse has it when the stream breaks off before its content.
LEMMA OpenedIs ==
    ASSUME NEW b \in AnswerBlock
    PROVE  /\ Opened(b) \in AnswerBlock /\ Opened(b).type = b.type
           /\ b.type = "tool_use" => Opened(b).id = b.id
<1>1. CASE b.type = "tool_use"
  <2>1. b \in [type : {"tool_use"}, id : ToolId, call : Call]
    BY <1>1 DEF AnswerBlock
  <2>2. Opened(b) = [b EXCEPT !.call = [b.call EXCEPT !.input = EmptyInput]]
    BY <1>1, <2>1 DEF Opened
  <2>3. [b.call EXCEPT !.input = EmptyInput] \in Call
    <3>1. b.call \in [name : STRING, input : STRING] /\ EmptyInput \in STRING
      BY <2>1, Literals DEF Call
    <3> QED
      BY <3>1 DEF Call
  <2> QED
    BY <2>1, <2>2, <2>3 DEF AnswerBlock
<1>2. CASE b.type = "text"
  <2>1. Opened(b) = [type |-> "text", text |-> EmptyText]
    BY <1>2 DEF Opened, TextBlock
  <2>2. Opened(b) \in [type : {"text", "thinking"}, text : STRING]
    BY <2>1, Literals
  <2> QED
    BY <1>2, <2>1, <2>2 DEF AnswerBlock
<1>3. CASE b.type \notin {"text", "tool_use"}
  BY <1>3 DEF Opened
<1> QED
  BY <1>1, <1>2, <1>3

BlockEvent(type, i, b) == [type |-> type, index |-> i, block |-> b]

\* What is in the first k events of a stream.
LEMMA StreamIs ==
    ASSUME NEW m, m.blocks \in Seq(AnswerBlock), NEW k \in 0 .. Len(Wire(m)), NEW e
    PROVE  e \in ToSet(SubSeq(Wire(m), 1, k)) <=>
              \/ k # 0 /\ e = [type |-> "message_start", id |-> m.id]
              \/ \E i \in 1 .. Len(m.blocks) :
                    \/ 3 * i - 1 <= k /\ e = BlockEvent("content_block_start", i, m.blocks[i])
                    \/ 3 * i <= k /\ e = BlockEvent("content_block_delta", i, m.blocks[i])
                    \/ 3 * i + 1 <= k /\ e = BlockEvent("content_block_stop", i, m.blocks[i])
<1> DEFINE n == Len(m.blocks)
           w == Wire(m)
<1>1. /\ n \in Nat /\ Len(w) = 1 + 3 * n /\ DOMAIN w = 1 .. 1 + 3 * n
      /\ w[1] = [type |-> "message_start", id |-> m.id]
  BY WireIs
<1>2. \A i \in 1 .. n : /\ w[3 * i - 1] = BlockEvent("content_block_start", i, m.blocks[i])
                        /\ w[3 * i] = BlockEvent("content_block_delta", i, m.blocks[i])
                        /\ w[3 * i + 1] = BlockEvent("content_block_stop", i, m.blocks[i])
  BY WireIs DEF BlockEvent
<1>3. \A j \in 1 .. 1 + 3 * n : j = 1 \/ \E i \in 1 .. n : j \in {3 * i - 1, 3 * i, 3 * i + 1}
  BY WireIs
<1> HIDE DEF n, w
<1>4. k \in Nat /\ k <= 1 + 3 * n
  BY <1>1 DEF w
<1>5. e \in ToSet(SubSeq(w, 1, k)) <=> \E j \in 1 .. k : e = w[j]
  <2>1. \A j \in 1 .. k : w[j] \in {w[i] : i \in 1 .. k}
    OBVIOUS
  <2>2. /\ SubSeq(w, 1, k) \in Seq({w[i] : i \in 1 .. k})
        /\ Len(SubSeq(w, 1, k)) = IF 1 <= k THEN k - 1 + 1 ELSE 0
        /\ \A i \in 1 .. k - 1 + 1 : SubSeq(w, 1, k)[i] = w[1 + i - 1]
    BY <1>4, <2>1, SubSeqProperties
  <2>3. Len(SubSeq(w, 1, k)) = k /\ \A i \in 1 .. k : SubSeq(w, 1, k)[i] = w[i]
    BY <1>4, <2>2
  <2>4. e \in ToSet(SubSeq(w, 1, k)) <=> \E j \in 1 .. Len(SubSeq(w, 1, k)) : e = SubSeq(w, 1, k)[j]
    BY <2>2, ToSetIs
  <2> QED
    BY <2>3, <2>4
<1>6. ASSUME NEW j \in 1 .. k, e = w[j], j # 1
      PROVE  \E i \in 1 .. n :
                \/ 3 * i - 1 <= k /\ e = BlockEvent("content_block_start", i, m.blocks[i])
                \/ 3 * i <= k /\ e = BlockEvent("content_block_delta", i, m.blocks[i])
                \/ 3 * i + 1 <= k /\ e = BlockEvent("content_block_stop", i, m.blocks[i])
  <2>1. j \in 1 .. 1 + 3 * n /\ j <= k
    BY <1>1, <1>4
  <2>2. PICK i \in 1 .. n : j \in {3 * i - 1, 3 * i, 3 * i + 1}
    BY <1>3, <1>6, <2>1
  <2>3. \/ j = 3 * i - 1 /\ e = BlockEvent("content_block_start", i, m.blocks[i])
        \/ j = 3 * i /\ e = BlockEvent("content_block_delta", i, m.blocks[i])
        \/ j = 3 * i + 1 /\ e = BlockEvent("content_block_stop", i, m.blocks[i])
    BY <1>2, <1>6, <2>2
  <2> QED
    BY <2>1, <2>3
<1>7. ASSUME NEW i \in 1 .. n,
             \/ 3 * i - 1 <= k /\ e = BlockEvent("content_block_start", i, m.blocks[i])
             \/ 3 * i <= k /\ e = BlockEvent("content_block_delta", i, m.blocks[i])
             \/ 3 * i + 1 <= k /\ e = BlockEvent("content_block_stop", i, m.blocks[i])
      PROVE  \E j \in 1 .. k : e = w[j]
  <2>1. CASE 3 * i - 1 <= k /\ e = BlockEvent("content_block_start", i, m.blocks[i])
    <3>1. 3 * i - 1 \in 1 .. k
      BY <1>1, <1>4, <2>1
    <3> QED
      BY <1>2, <2>1, <3>1
  <2>2. CASE 3 * i <= k /\ e = BlockEvent("content_block_delta", i, m.blocks[i])
    <3>1. 3 * i \in 1 .. k
      BY <1>1, <1>4, <2>2
    <3> QED
      BY <1>2, <2>2, <3>1
  <2>3. CASE 3 * i + 1 <= k /\ e = BlockEvent("content_block_stop", i, m.blocks[i])
    <3>1. 3 * i + 1 \in 1 .. k
      BY <1>1, <1>4, <2>3
    <3> QED
      BY <1>2, <2>3, <3>1
  <2> QED
    BY <1>7, <2>1, <2>2, <2>3
<1>8. k # 0 <=> 1 \in 1 .. k
  BY <1>4
<1> QED
  BY <1>1, <1>5, <1>6, <1>7, <1>8 DEF n, w

\* What assemble_sse makes of the first k events of a stream.
LEMMA AssembledIs ==
    ASSUME NEW m, m.id \in Nat, m.blocks \in Seq(AnswerBlock),
           NEW k \in 0 .. Len(Wire(m))
    PROVE  LET got == AssembleSse(SubSeq(Wire(m), 1, k)) IN
           /\ got.id \in Nat /\ (got.blocks # <<>> => got.id = m.id)
           /\ got.blocks \in Seq({b \in AnswerBlock : b.type \in {"text", "tool_use"}})
           /\ \A b \in ToSet(got.blocks) :
                 \E i \in 1 .. Len(m.blocks) : b \in {m.blocks[i], Opened(m.blocks[i])}
           /\ k = Len(Wire(m)) =>
                 \A b : b \in ToSet(got.blocks) <=>
                        b \in ToSet(m.blocks) /\ b.type \in {"text", "tool_use"}
<1> DEFINE n == Len(m.blocks)
           stream == SubSeq(Wire(m), 1, k)
           st == ToSet(stream)
           B(i) == m.blocks[i]
<1>1. n \in Nat /\ Len(Wire(m)) = 1 + 3 * n /\ \A i \in 1 .. n : B(i) \in AnswerBlock
  <2>1. n \in Nat /\ \A i \in 1 .. n : B(i) \in AnswerBlock
    OBVIOUS
  <2>2. Len(Wire(m)) = 1 + 3 * n
    BY WireIs
  <2> QED
    BY <2>1, <2>2
<1>2. k \in Nat /\ k <= 1 + 3 * n
  BY <1>1
<1>3. PICK l \in 0 .. n, f \in 0 .. n :
         /\ \A i \in 1 .. n : (3 * i - 1 <= k <=> i <= l) /\ (3 * i <= k <=> i <= f)
         /\ (k = 1 + 3 * n => l = n /\ f = n) /\ (k = 0 => l = 0)
  <2> HIDE DEF n
  <2>1. (k + 1) \div 3 \in 0 .. n /\ k \div 3 \in 0 .. n
    BY <1>1, <1>2
  <2>2. \A i \in 1 .. n : (3 * i - 1 <= k <=> i <= (k + 1) \div 3) /\ (3 * i <= k <=> i <= k \div 3)
    BY <1>1, <1>2
  <2>3. k = 1 + 3 * n => (k + 1) \div 3 = n /\ k \div 3 = n
    BY <1>1, <1>2
  <2>4. k = 0 => (k + 1) \div 3 = 0
    BY <1>1, <1>2
  <2> QED
    BY <2>1, <2>2, <2>3, <2>4
<1>4. \A e : e \in st <=>
         \/ k # 0 /\ e = [type |-> "message_start", id |-> m.id]
         \/ \E i \in 1 .. n :
               \/ i <= l /\ e = BlockEvent("content_block_start", i, B(i))
               \/ i <= f /\ e = BlockEvent("content_block_delta", i, B(i))
               \/ 3 * i + 1 <= k /\ e = BlockEvent("content_block_stop", i, B(i))
  <2> TAKE e
  <2> HIDE DEF n
  <2>1. e \in st <=>
         \/ k # 0 /\ e = [type |-> "message_start", id |-> m.id]
         \/ \E i \in 1 .. n :
               \/ 3 * i - 1 <= k /\ e = BlockEvent("content_block_start", i, B(i))
               \/ 3 * i <= k /\ e = BlockEvent("content_block_delta", i, B(i))
               \/ 3 * i + 1 <= k /\ e = BlockEvent("content_block_stop", i, B(i))
    BY StreamIs DEF n
  <2> QED
    BY <1>3, <2>1
<1> DEFINE Events(type) == {e \in st : e.type = type}
           Begun(i) == {Opened(e.block) : e \in {d \in Events("content_block_start") : d.index = i}}
           Filled(i) == {e.block : e \in {d \in Events("content_block_delta") : d.index = i}}
           start == Events("message_start")
           at == {e.index : e \in Events("content_block_start")}
           blocks == [i \in at |-> CHOOSE b \in IF Filled(i) = {} THEN Begun(i) ELSE Filled(i) : TRUE]
           got == AssembleSse(stream)
<1>5. /\ got.id = IF start = {} THEN 0 ELSE (CHOOSE e \in start : TRUE).id
      /\ got.blocks = OfType(blocks, {"text", "tool_use"})
  BY DEF AssembleSse
<1> HIDE DEF n, st, B
<1>6. \A e : e \in Events("content_block_start") <=>
             \E i \in 1 .. l : e = BlockEvent("content_block_start", i, B(i))
  BY <1>1, <1>3, <1>4 DEF BlockEvent
<1>7. \A e : e \in Events("content_block_delta") <=>
             \E i \in 1 .. f : e = BlockEvent("content_block_delta", i, B(i))
  BY <1>1, <1>3, <1>4 DEF BlockEvent
<1>8. \A e : e \in start <=> k # 0 /\ e = [type |-> "message_start", id |-> m.id]
  BY <1>4 DEF BlockEvent
<1> HIDE DEF Events
<1>8a. \A t, i, b : BlockEvent(t, i, b).index = i /\ BlockEvent(t, i, b).block = b
  BY DEF BlockEvent
<1>9. at = 1 .. l
  <2>1. \A x : x \in at <=> \E e \in Events("content_block_start") : x = e.index
    OBVIOUS
  <2>2. ASSUME NEW x \in at PROVE x \in 1 .. l
    <3>1. PICK e \in Events("content_block_start") : x = e.index
      BY <2>1
    <3>2. PICK i \in 1 .. l : e = BlockEvent("content_block_start", i, B(i))
      BY <1>6
    <3> QED
      BY <1>8a, <3>1, <3>2
  <2>3. ASSUME NEW x \in 1 .. l PROVE x \in at
    <3>1. BlockEvent("content_block_start", x, B(x)) \in Events("content_block_start")
      BY <1>6
    <3> QED
      BY <1>8a, <2>1, <3>1
  <2> QED
    BY <2>2, <2>3
<1>10. \A i \in 1 .. l : Begun(i) = {Opened(B(i))}
  <2> TAKE i \in 1 .. l
  <2>1. \A x : x \in Begun(i) <=> \E e \in Events("content_block_start") :
                                     e.index = i /\ x = Opened(e.block)
    OBVIOUS
  <2>2. \A x : x \in Begun(i) <=> x = Opened(B(i))
    BY <1>8a, <1>6, <2>1
  <2> QED
    BY <2>2
<1>11. \A i \in 1 .. l : Filled(i) = IF i <= f THEN {B(i)} ELSE {}
  <2> TAKE i \in 1 .. l
  <2>1. \A x : x \in Filled(i) <=> \E e \in Events("content_block_delta") :
                                     e.index = i /\ x = e.block
    OBVIOUS
  <2>2. \A x : x \in Filled(i) <=> i \in 1 .. f /\ x = B(i)
    <3> TAKE x
    <3>1. ASSUME x \in Filled(i) PROVE i \in 1 .. f /\ x = B(i)
      <4>1. PICK e \in Events("content_block_delta") : e.index = i /\ x = e.block
        BY <2>1, <3>1
      <4>2. PICK j \in 1 .. f : e = BlockEvent("content_block_delta", j, B(j))
        BY <1>7
      <4> QED
        BY <1>8a, <4>1, <4>2
    <3>2. ASSUME i \in 1 .. f, x = B(i) PROVE x \in Filled(i)
      <4>1. BlockEvent("content_block_delta", i, B(i)) \in Events("content_block_delta")
        BY <1>7, <3>2
      <4> QED
        BY <1>8a, <2>1, <3>2, <4>1
    <3> QED
      BY <3>1, <3>2
  <2>3. i \in 1 .. f <=> i <= f
    BY <1>1, <1>3
  <2>4. CASE i <= f
    <3>1. \A x : x \in Filled(i) <=> x = B(i)
      BY <2>2, <2>3, <2>4
    <3> QED
      BY <2>4, <3>1
  <2>5. CASE ~(i <= f)
    <3>1. \A x : x \notin Filled(i)
      BY <2>2, <2>3, <2>5
    <3> QED
      BY <2>5, <3>1
  <2> QED
    BY <2>4, <2>5
<1> HIDE DEF Begun, Filled, at, start
<1>12. \A i \in 1 .. l : blocks[i] = IF i <= f THEN B(i) ELSE Opened(B(i))
  BY <1>9, <1>10, <1>11
<1>13. \A i \in 1 .. l : i \in 1 .. n /\ blocks[i] \in AnswerBlock
  <2> HIDE DEF blocks
  <2> QED
    BY <1>1, <1>12, OpenedIs
<1>14. blocks \in Seq(AnswerBlock) /\ Len(blocks) = l
  <2>1. blocks = [i \in 1 .. l |-> blocks[i]]
    BY <1>9
  <2> HIDE DEF blocks
  <2>2. blocks \in [1 .. l -> AnswerBlock] /\ l \in Nat
    BY <1>1, <1>13, <2>1
  <2> QED
    BY <2>2
<1> HIDE DEF blocks, got
<1>15. got.id = IF k = 0 THEN 0 ELSE m.id
  <2>1. CASE k = 0
    BY <1>5, <1>8, <2>1
  <2>2. CASE k # 0
    <3>1. start = {[type |-> "message_start", id |-> m.id]}
      BY <1>8, <2>2
    <3>2. (CHOOSE e \in start : TRUE) = [type |-> "message_start", id |-> m.id]
      BY <3>1
    <3> QED
      BY <1>5, <2>2, <3>1, <3>2
  <2> QED
    BY <2>1, <2>2
<1>16. \A b : b \in ToSet(blocks) <=> \E i \in 1 .. l : b = blocks[i]
  BY <1>14, ToSetIs
<1>17. /\ got.blocks \in Seq({b \in AnswerBlock : b.type \in {"text", "tool_use"}})
       /\ \A b : b \in ToSet(got.blocks) <=> b \in ToSet(blocks) /\ b.type \in {"text", "tool_use"}
  BY <1>5, <1>14, OfTypeIs
<1>18. got.blocks # <<>> => got.id = m.id
  <2>1. ASSUME k = 0 PROVE got.blocks = <<>>
    <3>1. l = 0
      BY <1>3, <2>1
    <3>2. \A b : b \notin ToSet(got.blocks)
      BY <1>16, <1>17, <3>1
    <3>3. \A i \in 1 .. Len(got.blocks) : got.blocks[i] \in ToSet(got.blocks)
      BY <1>17, ToSetIs
    <3> QED
      BY <1>17, <3>2, <3>3
  <2> QED
    BY <1>15, <2>1
<1>19. \A b \in ToSet(got.blocks) :
          \E i \in 1 .. Len(m.blocks) : b \in {m.blocks[i], Opened(m.blocks[i])}
  BY <1>12, <1>13, <1>16, <1>17 DEF n, B
<1>20. k = Len(Wire(m)) =>
          \A b : b \in ToSet(got.blocks) <=>
                 b \in ToSet(m.blocks) /\ b.type \in {"text", "tool_use"}
  <2> SUFFICES ASSUME k = Len(Wire(m))
               PROVE  \A b : b \in ToSet(blocks) <=> b \in ToSet(m.blocks)
    BY <1>17
  <2>1. l = n /\ f = n
    BY <1>1, <1>3
  <2>2. \A i \in 1 .. n : blocks[i] = m.blocks[i]
    BY <1>12, <2>1 DEF B
  <2>3. \A b : b \in ToSet(m.blocks) <=> \E i \in 1 .. n : b = m.blocks[i]
    BY ToSetIs DEF n
  <2> QED
    BY <1>16, <2>1, <2>2, <2>3
<1>21. got.id \in Nat
  BY <1>15
<1> QED
  BY <1>17, <1>18, <1>19, <1>20, <1>21 DEF got

-----------------------------------------------------------------------------
(* Conversations, requests and events                                      *)

\* A sequence made from another one by applying something to every element is
\* written out in each lemma, for the same reason as above.

LEMMA MessageIs ==
    ASSUME NEW body \in Conversation
    PROVE  /\ Len(body) \in Nat /\ DOMAIN body = 1 .. Len(body)
           /\ \A i \in 1 .. Len(body) :
                 /\ body[i] \in UserMessage \cup AssistantMessage
                 /\ body[i].role \in {"user", "assistant"}
                 /\ body[i].role = "user" => body[i] \in UserMessage
                 /\ body[i].role = "assistant" => body[i] \in AssistantMessage
<1>1. Len(body) \in Nat /\ DOMAIN body = 1 .. Len(body)
  BY DEF Conversation
<1>2. \A i \in 1 .. Len(body) : body[i] \in UserMessage \cup AssistantMessage
  BY DEF Conversation
<1>3. \A x \in UserMessage : x.role = "user"
  BY DEF UserMessage
<1>4. \A x \in AssistantMessage : x.role = "assistant"
  BY DEF AssistantMessage
<1> QED
  BY <1>1, <1>2, <1>3, <1>4

LEMMA TrailingIs ==
    ASSUME NEW body \in Conversation
    PROVE  /\ TrailingBlocks(body) \in Seq(UserBlock)
           /\ \A b : b \in ToSet(TrailingBlocks(body)) <=>
                     \E i \in Trailing(body) : b \in ToSet(body[i].blocks)
           /\ \A i : i \in Trailing(body) <=>
                     /\ i \in 1 .. Len(body)
                     /\ \A k \in i .. Len(body) : body[k].role = "user"
           /\ \A i \in Trailing(body) : body[i] \in UserMessage /\ body[i].blocks \in Seq(UserBlock)
<1>1. /\ Len(body) \in Nat /\ DOMAIN body = 1 .. Len(body)
      /\ \A i \in 1 .. Len(body) : body[i].role \in {"user", "assistant"}
  BY MessageIs
<1>2. \A i \in Trailing(body) : i \in DOMAIN body /\ body[i].role = "user"
  BY DEF Trailing
<1>3. \A i \in Trailing(body) : body[i] \in UserMessage /\ body[i].blocks \in Seq(UserBlock)
  BY <1>1, <1>2, MessageIs DEF UserMessage
<1>4. \A i : i \in Trailing(body) <=>
             i \in 1 .. Len(body) /\ \A k \in i .. Len(body) : body[k].role = "user"
  <2> TAKE i
  <2>1. ASSUME i \in Trailing(body), NEW k \in i .. Len(body) PROVE body[k].role = "user"
    BY <1>1, <2>1 DEF Trailing
  <2>2. ASSUME i \in 1 .. Len(body), \A k \in i .. Len(body) : body[k].role = "user"
        PROVE  i \in Trailing(body)
    <3>1. body[i].role = "user"
      BY <1>1, <2>2
    <3>2. ASSUME NEW k \in DOMAIN body, body[k].role = "assistant" PROVE k < i
      <4>1. ~(k \in i .. Len(body))
        BY <2>2, <3>2
      <4> QED
        BY <1>1, <2>2, <4>1
    <3> QED
      BY <1>1, <2>2, <3>1, <3>2 DEF Trailing
  <2> QED
    BY <1>1, <1>2, <2>1, <2>2
<1>5. /\ TrailingBlocks(body) \in Seq(UserBlock)
      /\ \A b : b \in ToSet(TrailingBlocks(body)) <=>
                \E i \in 1 .. Len(body) : i \in Trailing(body) /\ b \in ToSet(body[i].blocks)
  BY <1>1, <1>3, BlocksAtIs DEF TrailingBlocks
<1> QED
  BY <1>1, <1>2, <1>3, <1>4, <1>5

LEMMA UserBlockIs ==
    ASSUME NEW b \in UserBlock, NEW blocked \in BOOLEAN
    PROVE  /\ b.type \in {"text", "tool_result"} /\ b.text \in STRING
           /\ RequestEvent(b, blocked) \in LogEvent
           /\ RequestEvent(b, blocked).kind \in {"user_prompt", "tool_result"}
<1>1. CASE b.type = "tool_result"
  <2>1. b.id \in ToolId /\ b.text \in STRING
    BY <1>1 DEF UserBlock
  <2>2. RequestEvent(b, blocked) = [id |-> <<"api-tr", b.id, b.text>>, kind |-> "tool_result",
                                    val |-> b.text, ref |-> b.id, blocked |-> FALSE]
    BY <1>1 DEF RequestEvent, Event
  <2> QED
    BY <1>1, <2>1, <2>2 DEF LogEvent
<1>2. CASE b.type = "text"
  <2>1. b.text \in STRING
    BY <1>2 DEF UserBlock
  <2>2. RequestEvent(b, blocked) = [id |-> <<"api-up", b.text>>, kind |-> "user_prompt",
                                    val |-> b.text, ref |-> <<>>, blocked |-> blocked]
    BY <1>2 DEF RequestEvent, Event
  <2>3. RequestEvent(b, blocked) \in
           [id : {"api-up"} \X STRING, kind : {"user_prompt"}, val : STRING, ref : {<<>>},
            blocked : BOOLEAN]
    BY <2>1, <2>2
  <2> QED
    BY <1>2, <2>1, <2>2, <2>3 DEF LogEvent
<1> QED
  BY <1>1, <1>2 DEF UserBlock

\* What is new in a request, and is no context: its texts and results.
News(body) ==
    {b \in UNION {ToSet(body[i].blocks) : i \in Trailing(body)} : ~IsContext(b)}

LEMMA NewsIs ==
    ASSUME NEW body \in Conversation
    PROVE  /\ News(body) \subseteq UserBlock
           /\ \A b : b \in News(body) <=> b \in ToSet(TrailingBlocks(body)) /\ ~IsContext(b)
           /\ TrailingUserText(body) = {b.text : b \in News(body)}
<1>1. /\ TrailingBlocks(body) \in Seq(UserBlock)
      /\ \A b : b \in ToSet(TrailingBlocks(body)) <=>
                \E i \in Trailing(body) : b \in ToSet(body[i].blocks)
  BY TrailingIs
<1>2. ToSet(TrailingBlocks(body)) \subseteq UserBlock
  BY <1>1, ToSetIs
<1>3. \A b : b \in News(body) <=> b \in ToSet(TrailingBlocks(body)) /\ ~IsContext(b)
  BY <1>1 DEF News
<1>4. News(body) = {c \in ToSet(TrailingBlocks(body)) : ~IsContext(c)}
  BY <1>3
<1> QED
  BY <1>2, <1>3, <1>4 DEF TrailingUserText

LEMMA RequestEventsAre ==
    ASSUME NEW body \in Conversation, NEW blocked \in BOOLEAN
    PROVE  /\ EventsFromRequest(body, blocked) \in Seq(LogEvent)
           /\ (blocked => News(body) # {}) =>
                 \A e : e \in ToSet(EventsFromRequest(body, blocked)) <=>
                        \E b \in News(body) : e = RequestEvent(b, blocked)
<1> DEFINE new == TrailingBlocks(body)
           ss == [i \in DOMAIN new |->
                     IF IsContext(new[i]) THEN <<>> ELSE <<RequestEvent(new[i], blocked)>>]
           evs == FlattenSeq(ss)
<1>1. new \in Seq(UserBlock) /\ Len(new) \in Nat /\ DOMAIN new = 1 .. Len(new)
  <2>1. new \in Seq(UserBlock)
    BY TrailingIs
  <2> QED
    BY <2>1
<1>2. \A i \in 1 .. Len(new) :
        /\ ss[i] \in Seq(LogEvent)
        /\ \A e : e \in ToSet(ss[i]) <=> ~IsContext(new[i]) /\ e = RequestEvent(new[i], blocked)
  <2> TAKE i \in 1 .. Len(new)
  <2>1. CASE IsContext(new[i])
    <3>1. ss[i] = <<>>
      BY <1>1, <2>1
    <3>2. \A e : e \notin ToSet(<<>>)
      BY DEF ToSet
    <3> QED
      BY <2>1, <3>1, <3>2
  <2>2. CASE ~IsContext(new[i])
    <3>1. ss[i] = <<RequestEvent(new[i], blocked)>>
      BY <1>1, <2>2
    <3>2. \A x, e : e \in ToSet(<<x>>) <=> e = x
      BY DEF ToSet
    <3>3. RequestEvent(new[i], blocked) \in LogEvent
      BY <1>1, UserBlockIs
    <3> QED
      BY <2>2, <3>1, <3>2, <3>3
  <2> QED
    BY <2>1, <2>2
<1>3. ss \in Seq(Seq(LogEvent)) /\ Len(ss) = Len(new)
  <2>1. ss \in [1 .. Len(new) -> Seq(LogEvent)]
    BY <1>1, <1>2
  <2> HIDE DEF ss, new
  <2> QED
    BY <1>1, <2>1
<1>4. EventsFromRequest(body, blocked) =
        IF blocked /\ evs = <<>>
        THEN <<Event(<<"api-up", "blk", Len(body)>>, "user_prompt", "blk", <<>>, TRUE)>>
        ELSE evs
  BY DEF EventsFromRequest
<1> HIDE DEF ss
<1>5. /\ evs \in Seq(LogEvent)
      /\ \A e : e \in ToSet(evs) <=> \E i \in 1 .. Len(ss) : e \in ToSet(ss[i])
  BY <1>3, Flattened
<1> HIDE DEF evs, new
<1>6. \A e : e \in ToSet(evs) <=> \E b \in News(body) : e = RequestEvent(b, blocked)
  <2>1. \A b : b \in News(body) <=> \E i \in 1 .. Len(new) : b = new[i] /\ ~IsContext(b)
    BY <1>1, NewsIs, ToSetIs DEF new
  <2> TAKE e
  <2>2. e \in ToSet(evs) <=> \E i \in 1 .. Len(new) : e \in ToSet(ss[i])
    BY <1>3, <1>5
  <2> QED
    BY <1>2, <2>1, <2>2
<1>7. evs = <<>> => News(body) = {}
  <2>1. \A e : e \notin ToSet(<<>>)
    BY DEF ToSet
  <2> QED
    BY <1>6, <2>1
<1>8. Event(<<"api-up", "blk", Len(body)>>, "user_prompt", "blk", <<>>, TRUE) \in LogEvent
  <2>1. Len(body) \in Nat
    BY MessageIs
  <2> QED
    BY <2>1, Literals DEF Event, LogEvent
<1>9. EventsFromRequest(body, blocked) \in Seq(LogEvent)
  <2>1. \A x \in LogEvent : <<x>> \in Seq(LogEvent)
    OBVIOUS
  <2> QED
    BY <1>4, <1>5, <1>8, <2>1
<1> QED
  BY <1>4, <1>6, <1>7, <1>9

LEMMA MessageEventsAre ==
    ASSUME NEW msg, msg.id \in Nat, NEW dropped,
           msg.blocks \in Seq({b \in AnswerBlock : b.type \in {"text", "tool_use"}})
    PROVE  /\ EventsFromMessage(msg, dropped) \in Seq(LogEvent)
           /\ Len(EventsFromMessage(msg, dropped)) = Len(msg.blocks)
           /\ \A i \in 1 .. Len(msg.blocks) :
                 LET b == msg.blocks[i]
                     e == EventsFromMessage(msg, dropped)[i]
                 IN  /\ e.id = <<"api", msg.id, i>>
                     /\ b.type = "text" => /\ e.kind = "assistant_text" /\ e.val = b.text
                                           /\ e.ref = <<>> /\ e.blocked = FALSE
                     /\ b.type = "tool_use" => /\ e.kind = "tool_use" /\ e.val = b.call
                                               /\ e.ref = b.id
                                               /\ e.blocked = (b.call.name \in dropped)
<1> DEFINE n == Len(msg.blocks)
           evs == EventsFromMessage(msg, dropped)
           T == {b \in AnswerBlock : b.type \in {"text", "tool_use"}}
           E(i, b) == IF b.type = "text"
                      THEN Event(<<"api", msg.id, i>>, "assistant_text", b.text, <<>>, FALSE)
                      ELSE Event(<<"api", msg.id, i>>, "tool_use", b.call, b.id,
                                 b.call.name \in dropped)
<1>1. n \in Nat /\ DOMAIN msg.blocks = 1 .. n /\ \A i \in 1 .. n : msg.blocks[i] \in T
  <2>1. msg.blocks \in Seq(T)
    OBVIOUS
  <2> HIDE DEF T
  <2> QED
    BY <2>1
<1>2. evs = [i \in 1 .. n |-> E(i, msg.blocks[i])]
  BY <1>1 DEF EventsFromMessage
<1>3. ASSUME NEW i \in 1 .. n, NEW b \in T PROVE E(i, b) \in LogEvent
  <2>1. <<"api", msg.id, i>> \in {"api"} \X Nat \X Nat
    BY <1>1
  <2>2. CASE b.type = "text"
    <3>1. b.text \in STRING
      BY <2>2 DEF AnswerBlock
    <3> QED
      BY <2>1, <2>2, <3>1 DEF LogEvent, Event
  <2>3. CASE b.type = "tool_use"
    <3>1. b.id \in ToolId /\ b.call \in Call
      BY <2>3 DEF AnswerBlock
    <3> QED
      BY <2>1, <2>3, <3>1 DEF LogEvent, Event
  <2> QED
    BY <2>2, <2>3
<1>4. evs \in [1 .. n -> LogEvent]
  <2> HIDE DEF T, E, evs, n
  <2> QED
    BY <1>1, <1>2, <1>3
<1>5. evs \in Seq(LogEvent) /\ Len(evs) = n
  <2> HIDE DEF evs, n
  <2> QED
    BY <1>1, <1>4
<1>6. \A i \in 1 .. n : evs[i] = E(i, msg.blocks[i]) /\ msg.blocks[i].type \in {"text", "tool_use"}
  BY <1>1, <1>2
<1> HIDE DEF evs
<1>7. ASSUME NEW i \in 1 .. n
      PROVE  LET b == msg.blocks[i]
                 e == evs[i]
             IN  /\ e.id = <<"api", msg.id, i>>
                 /\ b.type = "text" => /\ e.kind = "assistant_text" /\ e.val = b.text
                                       /\ e.ref = <<>> /\ e.blocked = FALSE
                 /\ b.type = "tool_use" => /\ e.kind = "tool_use" /\ e.val = b.call
                                           /\ e.ref = b.id /\ e.blocked = (b.call.name \in dropped)
  <2> DEFINE b == msg.blocks[i]
  <2>1. CASE b.type = "text"
    <3>1. evs[i] = [id |-> <<"api", msg.id, i>>, kind |-> "assistant_text", val |-> b.text,
                    ref |-> <<>>, blocked |-> FALSE]
      BY <1>6, <2>1 DEF Event
    <3> HIDE DEF b
    <3>2. /\ evs[i].id = <<"api", msg.id, i>> /\ evs[i].kind = "assistant_text"
          /\ evs[i].val = b.text /\ evs[i].ref = <<>> /\ evs[i].blocked = FALSE
      BY <3>1
    <3> QED
      BY <2>1, <3>2 DEF b
  <2>2. CASE b.type = "tool_use"
    <3> DEFINE named == b.call.name \in dropped
    <3>1. evs[i] = [id |-> <<"api", msg.id, i>>, kind |-> "tool_use", val |-> b.call,
                    ref |-> b.id, blocked |-> named]
      BY <1>6, <2>2 DEF Event
    <3> HIDE DEF b, named
    <3>2. /\ evs[i].id = <<"api", msg.id, i>> /\ evs[i].kind = "tool_use"
          /\ evs[i].val = b.call /\ evs[i].ref = b.id /\ evs[i].blocked = named
      BY <3>1
    <3> QED
      BY <2>2, <3>2 DEF b, named
  <2> QED
    BY <1>6, <2>1, <2>2
<1> QED
  BY <1>5, <1>7 DEF evs

-----------------------------------------------------------------------------
(* Answers, and what Claude makes of them                                  *)

LEMMA WithIdsIs ==
    ASSUME NEW mid \in Nat, NEW r \in Reply
    PROVE  /\ WithIds(mid, r) \in Seq(AnswerBlock)
           /\ \A i \in 1 .. Len(WithIds(mid, r)) :
                 WithIds(mid, r)[i].type = "tool_use" => WithIds(mid, r)[i].id = <<mid, i>>
<1>1. r \in Seq(ReplyBlock)
  BY ProxyAssumption
<1>2. Len(r) \in Nat /\ DOMAIN r = 1 .. Len(r) /\ \A i \in 1 .. Len(r) : r[i] \in ReplyBlock
  BY <1>1
<1> DEFINE w == WithIds(mid, r)
<1>3. w = [i \in 1 .. Len(r) |->
             IF r[i].type = "tool_use"
             THEN [type |-> "tool_use", id |-> <<mid, i>>, call |-> r[i].call] ELSE r[i]]
  BY <1>2 DEF WithIds
<1>4. ASSUME NEW i \in 1 .. Len(r)
      PROVE  w[i] \in AnswerBlock /\ (w[i].type = "tool_use" => w[i].id = <<mid, i>>)
  <2>1. CASE r[i].type = "tool_use"
    <3>1. r[i].call \in Call
      BY <1>2, <2>1 DEF ReplyBlock
    <3>2. <<mid, i>> \in ToolId
      BY <1>2 DEF ToolId
    <3>3. w[i] = [type |-> "tool_use", id |-> <<mid, i>>, call |-> r[i].call]
      BY <1>3, <2>1
    <3> QED
      BY <3>1, <3>2, <3>3 DEF AnswerBlock
  <2>2. CASE r[i].type # "tool_use"
    <3>1. w[i] = r[i]
      BY <1>3, <2>2
    <3> QED
      BY <1>2, <2>2, <3>1 DEF AnswerBlock, ReplyBlock
  <2> QED
    BY <2>1, <2>2
<1>5. DOMAIN w = 1 .. Len(r)
  BY <1>3
<1> HIDE DEF w
<1>6. w \in [1 .. Len(r) -> AnswerBlock]
  <2>1. w = [i \in 1 .. Len(r) |-> w[i]]
    BY <1>3, <1>5
  <2> QED
    BY <1>4, <2>1
<1>7. w \in Seq(AnswerBlock) /\ Len(w) = Len(r)
  BY <1>2, <1>6
<1> QED
  BY <1>4, <1>7 DEF w

LEMMA CallsAre ==
    ASSUME NEW blocks \in Seq(AnswerBlock)
    PROVE  /\ \A b : b \in ToSet(ToolCalls(blocks)) <=> b \in ToSet(blocks) /\ b.type = "tool_use"
           /\ \A b \in ToSet(ToolCalls(blocks)) : b.id \in ToolId /\ b.call \in Call
           /\ ToolResults(blocks) \in Seq(UserBlock)
           /\ ToolCalls(blocks) = <<>> <=> \A b \in ToSet(blocks) : b.type # "tool_use"
<1> DEFINE calls == ToolCalls(blocks)
           T == {b \in AnswerBlock : b.type \in {"tool_use"}}
<1>1. /\ calls \in Seq(T)
      /\ \A b : b \in ToSet(calls) <=> b \in ToSet(blocks) /\ b.type \in {"tool_use"}
  BY OfTypeIs DEF ToolCalls
<1>2. \A b \in T : b.id \in ToolId /\ b.call \in Call
  BY DEF AnswerBlock
<1> HIDE DEF calls, T
<1>3. /\ Len(calls) \in Nat /\ DOMAIN calls = 1 .. Len(calls)
      /\ \A i \in 1 .. Len(calls) : calls[i] \in T
      /\ ToSet(calls) \subseteq T
  BY <1>1, ToSetIs
<1>4. ToolResults(blocks) \in Seq(UserBlock)
  <2> DEFINE res == ToolResults(blocks)
  <2>1. res = [i \in 1 .. Len(calls) |-> [type |-> "tool_result", id |-> calls[i].id, text |-> Output]]
    BY <1>3 DEF ToolResults, calls
  <2>2. \A i \in 1 .. Len(calls) :
           [type |-> "tool_result", id |-> calls[i].id, text |-> Output] \in UserBlock
    BY <1>2, <1>3, Literals DEF UserBlock
  <2> HIDE DEF res
  <2>3. res \in [1 .. Len(calls) -> UserBlock]
    BY <2>1, <2>2
  <2>4. res \in Seq(UserBlock)
    BY <1>3, <2>3
  <2> QED
    BY <2>4 DEF res
<1>5. calls = <<>> <=> \A b : b \notin ToSet(calls)
  <2>1. ASSUME calls = <<>> PROVE \A b : b \notin ToSet(calls)
    BY <2>1 DEF ToSet
  <2>2. ASSUME calls # <<>> PROVE \E b : b \in ToSet(calls)
    <3>1. 1 \in DOMAIN calls
      BY <1>1, <2>2
    <3> QED
      BY <3>1 DEF ToSet
  <2> QED
    BY <2>1, <2>2
<1>6. \A b \in ToSet(calls) : b.id \in ToolId /\ b.call \in Call
  BY <1>2, <1>3
<1> QED
  BY <1>1, <1>4, <1>5, <1>6 DEF calls

\* A conversation only grows: what is in it stays, but a message may turn out to
\* be what the proxy was on for.
Grown(c, d) ==
    /\ Len(c) <= Len(d)
    /\ \A i \in 1 .. Len(c) :
          /\ d[i].role = c[i].role /\ d[i].blocks = c[i].blocks
          /\ c[i].role = "user" /\ c[i].on => d[i].on
          /\ c[i].role = "assistant" => d[i] = c[i]

LEMMA AppendGrows ==
    ASSUME NEW c \in Conversation, NEW m \in UserMessage \cup AssistantMessage
    PROVE  /\ Append(c, m) \in Conversation /\ Len(Append(c, m)) = Len(c) + 1
           /\ Append(c, m)[Len(c) + 1] = m /\ \A i \in 1 .. Len(c) : Append(c, m)[i] = c[i]
           /\ Grown(c, Append(c, m))
<1>1. c \in Seq(UserMessage \cup AssistantMessage)
  BY DEF Conversation
<1> DEFINE M == UserMessage \cup AssistantMessage
           d == Append(c, m)
<1> HIDE DEF M
<1>2. /\ d \in Seq(M) /\ Len(d) = Len(c) + 1 /\ Len(c) \in Nat
      /\ d[Len(c) + 1] = m /\ \A i \in 1 .. Len(c) : d[i] = c[i]
  BY <1>1 DEF M
<1> HIDE DEF d
<1>3. Grown(c, d)
  BY <1>2 DEF Grown
<1> QED
  BY <1>2, <1>3 DEF Conversation, M, d

LEMMA AssistantIs ==
    ASSUME NEW by \in Writer, NEW id \in Nat,
           NEW pol \in Policies, NEW blocks \in Seq(AnswerBlock)
    PROVE  /\ Assistant(by, id, pol, blocks) \in AssistantMessage
           /\ Assistant(by, id, pol, blocks).role = "assistant"
           /\ Assistant(by, id, pol, blocks).by = by /\ Assistant(by, id, pol, blocks).id = id
           /\ Assistant(by, id, pol, blocks).pol = pol
           /\ Assistant(by, id, pol, blocks).blocks = blocks
  BY DEF Assistant, AssistantMessage, Writer

LEMMA UserIs ==
    ASSUME NEW on \in BOOLEAN, NEW blocks \in Seq(UserBlock)
    PROVE  /\ User(on, blocks) \in UserMessage /\ User(on, blocks).role = "user"
           /\ User(on, blocks).on = on /\ User(on, blocks).blocks = blocks
  BY DEF User, UserMessage

LEMMA DefaultTyped == DefaultPolicy \in Policies /\ LoadPolicy \in Policies
<1>1. DefaultPolicy \in Policies
  BY DEF DefaultPolicy, Policies
<1> QED
  BY <1>1, ProxyAssumption DEF LoadPolicy

\* An answer that arrives whole: the message, and the results of its tools.
LEMMA AnsweredIs ==
    ASSUME conv \in Conversation, routed \in BOOLEAN, NEW a \in AssistantMessage, Answered(a)
    PROVE  /\ conv' \in Conversation /\ Grown(conv, conv')
           /\ \A i \in 1 .. Len(conv) : conv'[i] = conv[i]
           /\ conv'[Len(conv) + 1] = a
           /\ \/ Len(conv') = Len(conv) + 1 /\ claude' = "idle"
                 /\ \A b \in ToSet(a.blocks) : b.type # "tool_use"
              \/ Len(conv') = Len(conv) + 2 /\ claude' = "ready"
                 /\ conv'[Len(conv) + 2] = User(routed, ToolResults(a.blocks))
           /\ cur' = None
<1>1. a.blocks \in Seq(AnswerBlock)
  BY DEF AssistantMessage
<1>2. Len(conv) \in Nat
  BY MessageIs
<1> DEFINE c == Append(conv, a)
<1>3. /\ c \in Conversation /\ Len(c) = Len(conv) + 1 /\ c[Len(conv) + 1] = a
      /\ \A i \in 1 .. Len(conv) : c[i] = conv[i]
      /\ Grown(conv, c)
  BY AppendGrows
<1>4. CASE ToolCalls(a.blocks) = <<>>
  <2>1. conv' = c /\ claude' = "idle" /\ cur' = None
    BY <1>4 DEF Answered
  <2>2. \A b \in ToSet(a.blocks) : b.type # "tool_use"
    BY <1>1, <1>4, CallsAre
  <2> HIDE DEF c
  <2> QED
    BY <1>3, <2>1, <2>2
<1>5. CASE ToolCalls(a.blocks) # <<>>
  <2> DEFINE u == User(routed, ToolResults(a.blocks))
             d == Append(c, u)
  <2>1. u \in UserMessage
    BY <1>1, CallsAre, UserIs
  <2>2. conv' = conv \o <<a, u>> /\ claude' = "ready" /\ cur' = None
    BY <1>5 DEF Answered
  <2> HIDE DEF u
  <2>3. conv \o <<a, u>> = d
    <3>1. conv \in Seq(UserMessage \cup AssistantMessage)
      BY DEF Conversation
    <3> DEFINE M == UserMessage \cup AssistantMessage
    <3>2. a \in M /\ u \in M /\ conv \in Seq(M)
      BY <2>1, <3>1
    <3> HIDE DEF M
    <3> QED
      BY <3>2
  <2>4. /\ d \in Conversation /\ Len(d) = Len(c) + 1 /\ d[Len(c) + 1] = u
        /\ \A i \in 1 .. Len(c) : d[i] = c[i]
    <3> HIDE DEF c
    <3> QED
      BY <1>3, <2>1, AppendGrows
  <2> HIDE DEF c, d
  <2>5. /\ Len(d) = Len(conv) + 2 /\ d[Len(conv) + 2] = u /\ d[Len(conv) + 1] = a
        /\ \A i \in 1 .. Len(conv) : d[i] = conv[i]
    <3>1. Len(c) = Len(conv) + 1 /\ Len(c) + 1 = Len(conv) + 2
      BY <1>2, <1>3
    <3>2. Len(conv) + 1 \in 1 .. Len(c) /\ \A i \in 1 .. Len(conv) : i \in 1 .. Len(c)
      BY <1>2, <3>1
    <3> QED
      BY <1>3, <2>4, <3>1, <3>2
  <2>6. Grown(conv, d)
    BY <1>2, <2>5 DEF Grown
  <2> QED
    BY <2>2, <2>3, <2>4, <2>5, <2>6 DEF u
<1> QED
  BY <1>4, <1>5

\* What is kept of an answer that broke off.
Cut == Assistant("cut", 0, DefaultPolicy, <<>>)

LEMMA CutIs == Cut \in AssistantMessage /\ Cut.role = "assistant" /\ Cut.by = "cut" /\ Cut.blocks = <<>>
<1>1. /\ "cut" \in Writer /\ 0 \in Nat
      /\ <<>> \in Seq(AnswerBlock) /\ DefaultPolicy \in Policies
  BY DefaultTyped DEF Writer
<1> QED
  BY <1>1, DefaultTyped DEF Cut, Assistant, AssistantMessage

LEMMA FailsIs ==
    ASSUME conv \in Conversation, NEW h \in Handler, NEW begun, Fails(h, begun)
    PROVE  /\ conv' \in Conversation /\ Grown(conv, conv')
           /\ conv' = conv \/ (cur = h /\ conv' = Append(conv, Cut) /\ Len(conv') = Len(conv) + 1
                               /\ conv'[Len(conv) + 1] = Cut /\ claude' = "idle"
                               /\ \A i \in 1 .. Len(conv) : conv'[i] = conv[i])
           /\ cur = h => cur' = None /\ claude' \in {"idle", "ready"}
           /\ cur # h => UNCHANGED dialog
<1>1. Len(conv) \in Nat /\ Grown(conv, conv)
  BY MessageIs DEF Grown
<1>2. /\ Append(conv, Cut) \in Conversation /\ Len(Append(conv, Cut)) = Len(conv) + 1
      /\ Append(conv, Cut)[Len(conv) + 1] = Cut
      /\ \A i \in 1 .. Len(conv) : Append(conv, Cut)[i] = conv[i]
      /\ Grown(conv, Append(conv, Cut))
  BY CutIs, AppendGrows
<1>3. CASE cur = h
  <2>1. /\ cur' = None /\ claude' \in {"idle", "ready"}
        /\ conv' = conv \/ (conv' = Append(conv, Cut) /\ claude' = "idle")
    BY <1>3 DEF Fails, Cut
  <2> QED
    BY <1>1, <1>2, <1>3, <2>1
<1>4. CASE cur # h
  <2>1. conv' = conv /\ UNCHANGED dialog
    BY <1>4 DEF Fails, dialog
  <2> QED
    BY <1>1, <1>4, <2>1
<1> QED
  BY <1>3, <1>4

-----------------------------------------------------------------------------
(* The steps: what each one does, and that it keeps the types              *)

Message == [id : Nat, status : Nat, blocks : Seq(AnswerBlock)]
Thread == [pc : Pc, body : Conversation, pol : Policies, evs : Seq(LogEvent), msg : Message]

Execution == [pol : Policies, by : Writer, id : ToolId, call : Call]

\* The type invariant, with what it says of the threads by itself.
ThreadsTyped ==
    /\ hs \in [Handler -> Thread]
    /\ \A h \in Handler : hs[h].pc = "free" <=> hs[h] = Free

DialogTyped ==
    /\ conv \in Conversation
    /\ claude \in {"idle", "ready", "waiting"}
    /\ cur \in Handler \cup {None} /\ (cur # None <=> claude = "waiting")

SettingsTyped ==
    /\ routed \in BOOLEAN /\ policy \in Policy \cup {None}
    /\ toggles \in 0 .. MaxToggle /\ edits \in 0 .. MaxEdit

LogTyped == torn \in BOOLEAN /\ spool \subseteq LogEvent /\ lost \subseteq LogEvent

RestTyped == executed \subseteq Execution /\ msgs \in 0 .. MaxMsg /\ faults \in 0 .. MaxFault

LEMMA TypeParts ==
    TypeOK <=> ThreadsTyped /\ DialogTyped /\ SettingsTyped /\ LogTyped /\ RestTyped
<1>1. Thread = [pc : Pc, body : Conversation, pol : Policies, evs : Seq(LogEvent),
                msg : [id : Nat, status : Nat, blocks : Seq(AnswerBlock)]]
  BY DEF Thread, Message
<1> QED
  BY <1>1, Zenon DEF TypeOK, ThreadsTyped, DialogTyped, SettingsTyped, LogTyped, RestTyped, Execution

LEMMA TypeNext ==
    TypeOK' <=> ThreadsTyped' /\ DialogTyped' /\ SettingsTyped' /\ LogTyped' /\ RestTyped'
<1>1. Thread = [pc : Pc, body : Conversation, pol : Policies, evs : Seq(LogEvent),
                msg : [id : Nat, status : Nat, blocks : Seq(AnswerBlock)]]
  BY DEF Thread, Message
<1> QED
  BY <1>1, Zenon DEF TypeOK, ThreadsTyped, DialogTyped, SettingsTyped, LogTyped, RestTyped, Execution

LEMMA FreeIs == Free \in Thread /\ Free.pc = "free" /\ Free.body = <<>> /\ Free.evs = <<>>
<1>1. <<>> \in Conversation /\ <<>> \in Seq(LogEvent) /\ <<>> \in Seq(AnswerBlock)
  BY DEF Conversation
<1>2. NoMsg \in Message
  BY <1>1 DEF NoMsg, Message
<1>3. DefaultPolicy \in Policies /\ "free" \in Pc
  BY DefaultTyped DEF Pc
<1> QED
  BY <1>1, <1>2, <1>3 DEF Free, Thread

\* One thread goes on, the others stay where they are.
OnlyThread(h, t) == hs'[h] = t /\ \A g \in Handler : g # h => hs'[g] = hs[g]

LEMMA ThreadMoves ==
    ASSUME ThreadsTyped, NEW h \in Handler, NEW t \in Thread, t.pc = "free" => t = Free,
           hs' = [hs EXCEPT ![h] = t]
    PROVE  ThreadsTyped' /\ OnlyThread(h, t)
<1>1. /\ hs' \in [Handler -> Thread] /\ hs'[h] = t
      /\ \A g \in Handler : g # h => hs'[g] = hs[g]
  BY DEF ThreadsTyped
<1>2. ASSUME NEW g \in Handler
      PROVE  hs'[g].pc = "free" <=> hs'[g] = Free
  <2>1. CASE g = h
    BY <1>1, <2>1, FreeIs
  <2>2. CASE g # h
    BY <1>1, <2>2 DEF ThreadsTyped
  <2> QED
    BY <2>1, <2>2
<1> QED
  BY <1>1, <1>2 DEF ThreadsTyped, OnlyThread

LEMMA ThreadIs ==
    ASSUME ThreadsTyped, NEW h \in Handler
    PROVE  /\ hs[h] \in Thread /\ hs[h].pc \in Pc /\ hs[h].body \in Conversation
           /\ hs[h].pol \in Policies /\ hs[h].evs \in Seq(LogEvent)
           /\ hs[h].msg.id \in Nat /\ hs[h].msg.status \in Nat
           /\ hs[h].msg.blocks \in Seq(AnswerBlock) /\ hs[h].msg \in Message
<1>1. hs[h] \in Thread
  BY DEF ThreadsTyped
<1> QED
  BY <1>1 DEF Thread, Message

LEMMA Faulted == ASSUME RestTyped, Fault PROVE faults' \in 0 .. MaxFault
  BY ProxyAssumption DEF RestTyped, Fault

\* What a step adds to the conversation: at most the assistant message a, and
\* user messages that know whether the proxy is on.
Adds(a) ==
    /\ conv' \in Conversation /\ Grown(conv, conv')
    /\ \A j \in 1 .. Len(conv') : j > Len(conv) =>
          \/ conv'[j].role = "user" /\ conv'[j].on = routed
          \/ j = Len(conv) + 1 /\ conv'[j] = a

\* What it adds comes neither from the model nor from the proxy.
Aside == \E a \in AssistantMessage : a.by \in {"direct", "cut"} /\ Adds(a)

LEMMA StaysAside ==
    ASSUME DialogTyped, conv' = conv
    PROVE  Aside /\ \A a : Adds(a)
<1>1. Len(conv) \in Nat /\ conv \in Conversation
  BY MessageIs DEF DialogTyped
<1>2. Grown(conv, conv')
  BY <1>1 DEF Grown
<1>3. \A a : Adds(a)
  BY <1>1, <1>2 DEF Adds
<1> QED
  BY <1>3, CutIs DEF Aside

LEMMA AnsweredAdds ==
    ASSUME DialogTyped, routed \in BOOLEAN, NEW a \in AssistantMessage, Answered(a)
    PROVE  /\ DialogTyped' /\ Adds(a) /\ cur' = None /\ claude' \in {"idle", "ready"}
           /\ Len(conv) + 1 \in 1 .. Len(conv') /\ conv'[Len(conv) + 1] = a
<1>1. conv \in Conversation /\ Len(conv) \in Nat /\ a.blocks \in Seq(AnswerBlock)
  BY MessageIs DEF DialogTyped, AssistantMessage
<1>2. /\ conv' \in Conversation /\ Grown(conv, conv')
      /\ \A i \in 1 .. Len(conv) : conv'[i] = conv[i]
      /\ conv'[Len(conv) + 1] = a
      /\ \/ Len(conv') = Len(conv) + 1 /\ claude' = "idle"
         \/ Len(conv') = Len(conv) + 2 /\ claude' = "ready"
            /\ conv'[Len(conv) + 2] = User(routed, ToolResults(a.blocks))
      /\ cur' = None
  BY <1>1, AnsweredIs
<1>3. LET u == User(routed, ToolResults(a.blocks)) IN u.role = "user" /\ u.on = routed
  BY <1>1, CallsAre, UserIs
<1>4. Adds(a)
  <2> SUFFICES ASSUME NEW j \in 1 .. Len(conv'), j > Len(conv)
               PROVE  \/ conv'[j].role = "user" /\ conv'[j].on = routed
                      \/ j = Len(conv) + 1 /\ conv'[j] = a
    BY <1>2 DEF Adds
  <2>1. j = Len(conv) + 1 \/ (j = Len(conv) + 2 /\ Len(conv') = Len(conv) + 2)
    BY <1>1, <1>2
  <2>2. CASE j = Len(conv) + 1
    BY <1>2, <2>2
  <2>3. CASE j = Len(conv) + 2 /\ Len(conv') = Len(conv) + 2
    <3>1. Len(conv') # Len(conv) + 1
      BY <1>1, <2>3
    <3> QED
      BY <1>2, <1>3, <2>3, <3>1
  <2> QED
    BY <2>1, <2>2, <2>3
<1>5. DialogTyped'
  BY <1>2 DEF DialogTyped
<1>6. Len(conv) + 1 \in 1 .. Len(conv')
  BY <1>1, <1>2
<1> QED
  BY <1>2, <1>4, <1>5, <1>6

\* What Claude runs of an answer under a policy.
Runs(a) ==
    {[pol |-> a.pol, by |-> a.by, id |-> b.id, call |-> b.call] :
        b \in {c \in ToSet(a.blocks) : c.type = "tool_use"}}

LEMMA DeliverIs ==
    ASSUME DialogTyped, routed \in BOOLEAN, executed \subseteq Execution, NEW h \in Handler,
           NEW a \in AssistantMessage, Deliver(h, a)
    PROVE  /\ DialogTyped' /\ executed' \subseteq Execution /\ Adds(a)
           /\ cur # h => conv' = conv /\ claude' = claude /\ cur' = cur /\ executed' = executed
           /\ cur = h => /\ cur' = None
                         /\ Len(conv) + 1 \in 1 .. Len(conv') /\ conv'[Len(conv) + 1] = a
                         /\ executed' = executed \cup Runs(a)
<1>1. CASE cur = h
  <2>1. a.blocks \in Seq(AnswerBlock) /\ a.pol \in Policies /\ a.by \in Writer
    BY DEF AssistantMessage
  <2>2. /\ Answered(a)
        /\ executed' = executed \cup {[pol |-> a.pol, by |-> a.by, id |-> b.id, call |-> b.call] :
                                      b \in ToSet(ToolCalls(a.blocks))}
    BY <1>1 DEF Deliver
  <2>3. {[pol |-> a.pol, by |-> a.by, id |-> b.id, call |-> b.call] : b \in ToSet(ToolCalls(a.blocks))}
        = Runs(a)
    <3>1. \A b : b \in ToSet(ToolCalls(a.blocks)) <=> b \in ToSet(a.blocks) /\ b.type = "tool_use"
      BY <2>1, CallsAre
    <3>2. ToSet(ToolCalls(a.blocks)) = {c \in ToSet(a.blocks) : c.type = "tool_use"}
      BY <3>1
    <3> QED
      BY <3>2 DEF Runs
  <2>4. Runs(a) \subseteq Execution
    <3> SUFFICES ASSUME NEW b \in ToSet(ToolCalls(a.blocks))
                 PROVE  [pol |-> a.pol, by |-> a.by, id |-> b.id, call |-> b.call] \in Execution
      BY <2>3
    <3>1. b.id \in ToolId /\ b.call \in Call
      BY <2>1, CallsAre
    <3> QED
      BY <2>1, <3>1 DEF Execution
  <2> QED
    BY <1>1, <2>2, <2>3, <2>4, AnsweredAdds
<1>2. CASE cur # h
  <2>1. conv' = conv /\ claude' = claude /\ cur' = cur /\ executed' = executed
    BY <1>2 DEF Deliver, dialog
  <2>2. Adds(a)
    BY <2>1, StaysAside
  <2>3. DialogTyped'
    BY <2>1 DEF DialogTyped
  <2> QED
    BY <1>2, <2>1, <2>2, <2>3
<1> QED
  BY <1>1, <1>2

LEMMA FailsAside ==
    ASSUME DialogTyped, NEW h \in Handler, NEW begun, Fails(h, begun)
    PROVE  /\ DialogTyped' /\ Aside
           /\ cur = h => cur' = None
           /\ cur # h => conv' = conv /\ claude' = claude /\ cur' = cur
<1>1. conv \in Conversation /\ Len(conv) \in Nat
  BY MessageIs DEF DialogTyped
<1>2. /\ conv' \in Conversation /\ Grown(conv, conv')
      /\ conv' = conv \/ (Len(conv') = Len(conv) + 1 /\ conv'[Len(conv) + 1] = Cut)
      /\ cur = h => cur' = None /\ claude' \in {"idle", "ready"}
      /\ cur # h => conv' = conv /\ claude' = claude /\ cur' = cur
  BY <1>1, FailsIs DEF dialog
<1>3. Adds(Cut)
  <2>1. CASE conv' = conv
    BY <2>1, StaysAside
  <2>2. CASE Len(conv') = Len(conv) + 1 /\ conv'[Len(conv) + 1] = Cut
    <3>1. \A j \in 1 .. Len(conv') : j > Len(conv) => j = Len(conv) + 1
      BY <1>1, <2>2
    <3> QED
      BY <1>2, <2>2, <3>1 DEF Adds
  <2> QED
    BY <1>2, <2>1, <2>2
<1>4. Aside
  BY <1>3, CutIs DEF Aside
<1>5. DialogTyped'
  <2>1. CASE cur = h
    BY <1>2, <2>1 DEF DialogTyped
  <2>2. CASE cur # h
    BY <1>2, <2>2 DEF DialogTyped
  <2> QED
    BY <2>1, <2>2
<1> QED
  BY <1>2, <1>4, <1>5

LEMMA TypeStep ==
    ASSUME TypeOK, NEW t \in Text, Type(t)
    PROVE  TypeOK' /\ Aside
<1> DEFINE u == User(routed, <<TextBlock(Reminder), TextBlock(t)>>)
<1>1. u \in UserMessage /\ u.role = "user" /\ u.on = routed
  <2>1. routed \in BOOLEAN
    BY TypeParts DEF SettingsTyped
  <2>2. TextBlock(Reminder) \in UserBlock /\ TextBlock(t) \in UserBlock
    <3>1. t \in STRING /\ Reminder \in STRING
      BY ProxyAssumption
    <3> QED
      BY <3>1 DEF TextBlock, UserBlock
  <2>3. <<TextBlock(Reminder), TextBlock(t)>> \in Seq(UserBlock)
    <3>1. \A a, b \in UserBlock : <<a, b>> \in Seq(UserBlock)
      OBVIOUS
    <3> QED
      BY <2>2, <3>1
  <2> HIDE DEF u
  <2> QED
    BY <2>1, <2>3, UserIs DEF u
<1>2. conv \in Conversation /\ Len(conv) \in Nat
  BY MessageIs, TypeParts DEF DialogTyped
<1>3. conv' = Append(conv, u)
  BY DEF Type
<1> HIDE DEF u
<1>4. /\ conv' \in Conversation /\ Len(conv') = Len(conv) + 1
      /\ conv'[Len(conv) + 1] = u /\ Grown(conv, conv')
  BY <1>1, <1>2, <1>3, AppendGrows
<1>5. Adds(Cut)
  <2>1. \A j \in 1 .. Len(conv') : j > Len(conv) => j = Len(conv) + 1
    BY <1>2, <1>4
  <2> QED
    BY <1>1, <1>4, <2>1 DEF Adds
<1>6. Aside
  BY <1>5, CutIs DEF Aside
<1>7. DialogTyped'
  BY <1>4, TypeParts DEF Type, DialogTyped
<1>8. ThreadsTyped' /\ SettingsTyped' /\ LogTyped' /\ RestTyped'
  BY TypeParts DEF Type, settings, log, ThreadsTyped, SettingsTyped, LogTyped, RestTyped
<1> QED
  BY <1>6, <1>7, <1>8, TypeParts, TypeNext

LEMMA DirectStep ==
    ASSUME TypeOK, Direct
    PROVE  TypeOK' /\ Aside /\ cur' = None /\ msgs' \in {msgs, msgs + 1}
<1>1. /\ DialogTyped /\ SettingsTyped /\ RestTyped /\ routed \in BOOLEAN
      /\ msgs \in Nat /\ MaxMsg \in Nat
  BY TypeParts, ProxyAssumption DEF SettingsTyped, RestTyped
<1>2. CASE msgs < MaxMsg /\ msgs' = msgs + 1 /\
           \E r \in Reply :
              Answered(Assistant("direct", msgs + 1, DefaultPolicy, WithIds(msgs + 1, r)))
  <2>1. PICK r \in Reply :
            Answered(Assistant("direct", msgs + 1, DefaultPolicy, WithIds(msgs + 1, r)))
    BY <1>2
  <2> DEFINE a == Assistant("direct", msgs + 1, DefaultPolicy, WithIds(msgs + 1, r))
  <2>2. a \in AssistantMessage /\ a.by = "direct"
    <3>1. msgs + 1 \in Nat
      BY <1>1
    <3>2. WithIds(msgs + 1, r) \in Seq(AnswerBlock) /\ DefaultPolicy \in Policies
      BY <3>1, WithIdsIs, DefaultTyped
    <3> QED
      BY <3>1, <3>2, AssistantIs DEF Writer
  <2> HIDE DEF a
  <2>3. DialogTyped' /\ Adds(a) /\ cur' = None
    <3>1. Answered(a)
      BY <2>1 DEF a
    <3> QED
      BY <1>1, <2>2, <3>1, AnsweredAdds
  <2>4. Aside
    BY <2>2, <2>3 DEF Aside
  <2>5. msgs' \in 0 .. MaxMsg
    BY <1>1, <1>2
  <2>6. RestTyped' /\ ThreadsTyped' /\ SettingsTyped' /\ LogTyped'
    BY <2>5, TypeParts DEF Direct, settings, log, ThreadsTyped, SettingsTyped, LogTyped, RestTyped
  <2> QED
    BY <1>2, <2>3, <2>4, <2>6, TypeParts, TypeNext
<1>3. CASE claude' = "idle" /\ UNCHANGED <<conv, cur, msgs>>
  <2>1. claude = "ready" /\ cur = None
    BY <1>1 DEF Direct, DialogTyped
  <2>2. DialogTyped' /\ cur' = None
    BY <1>1, <1>3, <2>1 DEF DialogTyped
  <2>3. RestTyped' /\ ThreadsTyped' /\ SettingsTyped' /\ LogTyped'
    BY <1>3, TypeParts
       DEF Direct, settings, log, ThreadsTyped, SettingsTyped, LogTyped, RestTyped
  <2>4. Aside
    BY <1>1, <1>3, StaysAside
  <2> QED
    BY <1>3, <2>2, <2>3, <2>4, TypeParts, TypeNext
<1> QED
  BY <1>2, <1>3 DEF Direct

LEMMA SendStep ==
    ASSUME TypeOK, NEW h \in Handler, Send(h)
    PROVE  /\ TypeOK' /\ cur' = h
           /\ OnlyThread(h, [Free EXCEPT !.pc = "request", !.body = conv])
<1> DEFINE t == [Free EXCEPT !.pc = "request", !.body = conv]
<1>1. conv \in Conversation
  BY TypeParts DEF DialogTyped
<1>2. t \in Thread /\ t.pc # "free"
  <2>1. "request" \in Pc
    BY DEF Pc
  <2> QED
    BY <1>1, <2>1, FreeIs DEF Thread
<1>3. ThreadsTyped' /\ OnlyThread(h, t)
  <2>1. hs' = [hs EXCEPT ![h] = t]
    BY DEF Send
  <2> HIDE DEF t
  <2> QED
    BY <1>2, <2>1, ThreadMoves, TypeParts
<1>4. DialogTyped' /\ cur' = h
  BY TypeParts, ProxyAssumption DEF Send, DialogTyped
<1>5. SettingsTyped' /\ LogTyped' /\ RestTyped'
  BY TypeParts DEF Send, settings, log, SettingsTyped, LogTyped, RestTyped
<1> QED
  BY <1>3, <1>4, <1>5, TypeParts, TypeNext

LEMMA EscStep ==
    ASSUME TypeOK, Esc
    PROVE  TypeOK' /\ Aside /\ cur' = None
<1>1. DialogTyped /\ conv \in Conversation /\ Len(conv) \in Nat
  BY TypeParts, MessageIs DEF DialogTyped
<1>2. CASE conv' = conv
  <2>1. DialogTyped'
    BY <1>1, <1>2 DEF Esc, DialogTyped
  <2> QED
    BY <1>1, <1>2, <2>1, StaysAside, Faulted, TypeParts, TypeNext
       DEF Esc, settings, log, ThreadsTyped, SettingsTyped, LogTyped, RestTyped
<1>3. CASE conv' = Append(conv, Assistant("cut", 0, DefaultPolicy, <<>>))
  <2>1. /\ conv' \in Conversation /\ Len(conv') = Len(conv) + 1
        /\ conv'[Len(conv) + 1] = Cut /\ Grown(conv, conv')
    <3>1. conv' = Append(conv, Cut)
      BY <1>3 DEF Cut
    <3> QED
      BY <1>1, <3>1, CutIs, AppendGrows
  <2>2. Adds(Cut)
    <3>1. \A j \in 1 .. Len(conv') : j > Len(conv) => j = Len(conv) + 1
      BY <1>1, <2>1
    <3> QED
      BY <2>1, <3>1 DEF Adds
  <2>3. Aside
    BY <2>2, CutIs DEF Aside
  <2>4. DialogTyped'
    BY <1>1, <2>1 DEF Esc, DialogTyped
  <2> QED
    BY <2>3, <2>4, Faulted, TypeParts, TypeNext
       DEF Esc, settings, log, ThreadsTyped, SettingsTyped, LogTyped, RestTyped
<1> QED
  BY <1>2, <1>3 DEF Esc

\* Switching the proxy on or off leaves what was said, and what is told of who
\* said it.
LEMMA ToggleStep ==
    ASSUME TypeOK, Toggle
    PROVE  /\ TypeOK' /\ Grown(conv, conv') /\ Len(conv') = Len(conv)
           /\ cur = None /\ cur' = None
           /\ routed' => \A i \in Trailing(conv) : conv'[i].on
<1>1. /\ conv \in Conversation /\ Len(conv) \in Nat /\ DOMAIN conv = 1 .. Len(conv)
      /\ \A i \in 1 .. Len(conv) :
            /\ conv[i] \in UserMessage \cup AssistantMessage
            /\ conv[i].role \in {"user", "assistant"}
            /\ conv[i].role = "user" => conv[i] \in UserMessage
            /\ conv[i].role = "assistant" => conv[i] \in AssistantMessage
  BY MessageIs, TypeParts DEF DialogTyped
<1>2. \A i \in Trailing(conv) : i \in 1 .. Len(conv) /\ conv[i] \in UserMessage /\ conv[i].role = "user"
  BY <1>1 DEF Trailing
<1>3. CASE routed
  <2>1. /\ routed' = FALSE /\ conv' = conv /\ claude = "idle"
        /\ toggles < MaxToggle /\ toggles' = toggles + 1
        /\ UNCHANGED <<claude, cur, policy, edits, hs, msgs, faults, executed>>
        /\ UNCHANGED <<spool, lost, torn>>
    BY <1>3 DEF Toggle, log
  <2>2. cur = None /\ cur' = None
    BY <2>1, TypeParts DEF DialogTyped
  <2>3. ThreadsTyped' /\ DialogTyped' /\ RestTyped'
    <3>1. ThreadsTyped'
      BY <2>1, TypeParts DEF ThreadsTyped
    <3>2. DialogTyped'
      BY <2>1, TypeParts DEF DialogTyped
    <3>3. RestTyped'
      BY <2>1, TypeParts DEF RestTyped
    <3> QED
      BY <3>1, <3>2, <3>3
  <2>4. LogTyped'
    BY <2>1, TypeParts DEF LogTyped
  <2>5. SettingsTyped'
    <3>1. toggles \in 0 .. MaxToggle /\ MaxToggle \in Nat
      BY TypeParts, ProxyAssumption DEF SettingsTyped
    <3>2. toggles + 1 \in 0 .. MaxToggle
      BY <2>1, <3>1
    <3>3. policy' = policy /\ routed' \in BOOLEAN /\ toggles' \in 0 .. MaxToggle
      BY <2>1, <3>2
    <3> QED
      BY <2>1, <3>3, TypeParts DEF SettingsTyped
  <2>6. Grown(conv, conv')
    BY <1>1, <2>1 DEF Grown
  <2> QED
    BY <2>1, <2>2, <2>3, <2>4, <2>5, <2>6, TypeNext
<1>4. CASE ~routed
  <2> DEFINE c == [i \in DOMAIN conv |->
                      IF i \in Trailing(conv) THEN [conv[i] EXCEPT !.on = TRUE] ELSE conv[i]]
  <2>1. conv' = c
    BY <1>4 DEF Toggle
  <2>2. \A i \in 1 .. Len(conv) :
           /\ i \in Trailing(conv) => /\ c[i] = [conv[i] EXCEPT !.on = TRUE]
                                      /\ c[i] \in UserMessage /\ c[i].on /\ c[i].role = "user"
                                      /\ c[i].blocks = conv[i].blocks
           /\ i \notin Trailing(conv) => c[i] = conv[i]
    BY <1>1, <1>2 DEF UserMessage
  <2>3. \A i \in 1 .. Len(conv) : c[i] \in UserMessage \cup AssistantMessage
    BY <1>1, <2>2
  <2>4. c \in Conversation /\ Len(c) = Len(conv)
    <3>1. DOMAIN c = 1 .. Len(conv)
      BY <1>1
    <3>2. c \in [1 .. Len(conv) -> UserMessage \cup AssistantMessage]
      BY <1>1, <2>3
    <3> HIDE DEF c
    <3>3. c \in Seq(UserMessage \cup AssistantMessage) /\ Len(c) = Len(conv)
      BY <1>1, <3>1, <3>2
    <3> QED
      BY <3>3 DEF Conversation
  <2> HIDE DEF c
  <2>5. Grown(conv, c)
    <3>1. ASSUME NEW i \in 1 .. Len(conv)
          PROVE  /\ c[i].role = conv[i].role /\ c[i].blocks = conv[i].blocks
                 /\ conv[i].role = "user" /\ conv[i].on => c[i].on
                 /\ conv[i].role = "assistant" => c[i] = conv[i]
      <4>1. CASE i \in Trailing(conv)
        BY <1>2, <2>2, <4>1
      <4>2. CASE i \notin Trailing(conv)
        BY <2>2, <4>2
      <4> QED
        BY <4>1, <4>2
    <3> QED
      BY <1>1, <2>4, <3>1 DEF Grown
  <2>6. DialogTyped' /\ cur = None /\ cur' = None
    BY <2>1, <2>4, TypeParts DEF Toggle, DialogTyped
  <2>7. SettingsTyped'
    BY TypeParts, ProxyAssumption DEF Toggle, SettingsTyped
  <2>8. ThreadsTyped' /\ LogTyped' /\ RestTyped'
    BY TypeParts DEF Toggle, log, ThreadsTyped, LogTyped, RestTyped
  <2> QED
    BY <1>2, <2>1, <2>2, <2>4, <2>5, <2>6, <2>7, <2>8, TypeParts, TypeNext
<1> QED
  BY <1>3, <1>4

LEMMA EditPolicyStep ==
    ASSUME TypeOK, EditPolicy
    PROVE  TypeOK' /\ Aside
<1>1. conv' = conv /\ DialogTyped
  BY TypeParts DEF EditPolicy, dialog
<1>2. SettingsTyped'
  BY TypeParts, ProxyAssumption DEF EditPolicy, SettingsTyped
<1>3. DialogTyped' /\ ThreadsTyped' /\ LogTyped' /\ RestTyped'
  BY TypeParts DEF EditPolicy, dialog, log, DialogTyped, ThreadsTyped, LogTyped, RestTyped
<1> QED
  BY <1>1, <1>2, <1>3, StaysAside, TypeParts, TypeNext

LEMMA HandleRequestStep ==
    ASSUME TypeOK, NEW h \in Handler, HandleRequest(h)
    PROVE  LET t  == hs'[h]
               no == Blocks(t.pol, hs[h].body)
           IN  /\ TypeOK' /\ \A g \in Handler : g # h => hs'[g] = hs[g]
               /\ t.pc = IF no THEN "refuse" ELSE "upstream"
               /\ t.body = hs[h].body
               /\ t.evs = EventsFromRequest(hs[h].body, no)
<1>0. PICK p \in {LoadPolicy, DefaultPolicy} :
         /\ IF p = LoadPolicy THEN UNCHANGED faults ELSE Fault
         /\ LET no  == Blocks(p, hs[h].body)
                evs == EventsFromRequest(hs[h].body, no)
            IN  hs' = [hs EXCEPT ![h] = [@ EXCEPT !.pc = IF no THEN "refuse" ELSE "upstream",
                                                  !.pol = p, !.evs = evs]]
  BY DEF HandleRequest
<1> DEFINE no == Blocks(p, hs[h].body)
           es == EventsFromRequest(hs[h].body, no)
           t  == [hs[h] EXCEPT !.pc = IF no THEN "refuse" ELSE "upstream",
                               !.pol = p, !.evs = es]
<1>1. ThreadsTyped /\ hs[h] \in Thread /\ hs[h].body \in Conversation
  BY TypeParts, ThreadIs
<1>2. p \in Policies /\ no \in BOOLEAN
  BY DefaultTyped DEF Blocks
<1>3. es \in Seq(LogEvent)
  <2> HIDE DEF no
  <2> QED
    BY <1>1, <1>2, RequestEventsAre
<1>4. hs' = [hs EXCEPT ![h] = t]
  BY <1>0, <1>1 DEF ThreadsTyped
<1> HIDE DEF no, es
<1>5. /\ t \in Thread /\ t.pc # "free" /\ t.body = hs[h].body /\ t.pol = p /\ t.evs = es
      /\ t.pc = IF no THEN "refuse" ELSE "upstream"
  BY <1>1, <1>2, <1>3 DEF Thread, Pc
<1> HIDE DEF t
<1>6. ThreadsTyped' /\ OnlyThread(h, t)
  BY <1>1, <1>4, <1>5, ThreadMoves
<1>7. DialogTyped' /\ SettingsTyped' /\ LogTyped' /\ RestTyped'
  <2>1. UNCHANGED <<dialog, settings, log, msgs, executed>>
    BY DEF HandleRequest
  <2>2. faults' \in 0 .. MaxFault
    BY <1>0, Faulted, TypeParts DEF RestTyped
  <2> QED
    BY <2>1, <2>2, TypeParts
       DEF dialog, settings, log, DialogTyped, SettingsTyped, LogTyped, RestTyped
<1> QED
  BY <1>5, <1>6, <1>7, TypeParts, TypeNext DEF no, es, OnlyThread

LEMMA RefuseStep ==
    ASSUME TypeOK, NEW h \in Handler, Refuse(h)
    PROVE  LET a == Assistant("proxy", 0, hs[h].pol, <<TextBlock("cancel")>>)
           IN  /\ TypeOK' /\ a \in AssistantMessage /\ Adds(a) /\ Runs(a) = {}
               /\ cur # h => conv' = conv /\ cur' = cur /\ executed' = executed
               /\ cur = h => /\ cur' = None
                             /\ Len(conv) + 1 \in 1 .. Len(conv') /\ conv'[Len(conv) + 1] = a
                             /\ executed' = executed
               /\ hs'[h].pc = "log" /\ hs'[h].evs = hs[h].evs
               /\ \A g \in Handler : g # h => hs'[g] = hs[g]
<1> DEFINE a == Assistant("proxy", 0, hs[h].pol, <<TextBlock("cancel")>>)
           t == [hs[h] EXCEPT !.pc = "log"]
<1>1. ThreadsTyped /\ hs[h] \in Thread /\ hs[h].pol \in Policies
  BY TypeParts, ThreadIs
<1>2. <<TextBlock("cancel")>> \in Seq(AnswerBlock)
  <2>1. TextBlock("cancel") \in AnswerBlock
    BY Literals DEF TextBlock, AnswerBlock
  <2>2. \A b \in AnswerBlock : <<b>> \in Seq(AnswerBlock)
    OBVIOUS
  <2> QED
    BY <2>1, <2>2
<1>3. a \in AssistantMessage /\ a.blocks = <<TextBlock("cancel")>>
  <2> DEFINE bs == <<TextBlock("cancel")>>
  <2>1. bs \in Seq(AnswerBlock) /\ 0 \in Nat /\ "proxy" \in Writer
    BY <1>2 DEF Writer
  <2> HIDE DEF bs
  <2>2. Assistant("proxy", 0, hs[h].pol, bs) \in AssistantMessage
        /\ Assistant("proxy", 0, hs[h].pol, bs).blocks = bs
    BY <1>1, <2>1, AssistantIs
  <2> QED
    BY <2>2 DEF bs
<1>4. Runs(a) = {}
  <2>1. \A c \in ToSet(a.blocks) : c = TextBlock("cancel")
    <3>1. \A c : c \in ToSet(<<TextBlock("cancel")>>) => c = TextBlock("cancel")
      BY DEF ToSet
    <3> QED
      BY <1>3, <3>1
  <2>2. TextBlock("cancel").type # "tool_use"
    BY DEF TextBlock
  <2> HIDE DEF a
  <2> QED
    BY <2>1, <2>2 DEF Runs
<1>5. Deliver(h, a) /\ hs' = [hs EXCEPT ![h] = t]
  BY <1>1 DEF Refuse, ThreadsTyped
<1>6. t \in Thread /\ t.pc = "log" /\ t.evs = hs[h].evs
  BY <1>1 DEF Thread, Pc
<1> HIDE DEF a, t
<1>7. ThreadsTyped' /\ OnlyThread(h, t)
  BY <1>1, <1>5, <1>6, ThreadMoves
<1>8. /\ DialogTyped' /\ executed' \subseteq Execution /\ Adds(a)
      /\ cur # h => conv' = conv /\ cur' = cur /\ executed' = executed
      /\ cur = h => /\ cur' = None
                    /\ Len(conv) + 1 \in 1 .. Len(conv') /\ conv'[Len(conv) + 1] = a
                    /\ executed' = executed \cup Runs(a)
  BY <1>3, <1>5, DeliverIs, TypeParts DEF SettingsTyped, RestTyped
<1>9. SettingsTyped' /\ LogTyped' /\ RestTyped'
  BY <1>8, TypeParts DEF Refuse, settings, log, SettingsTyped, LogTyped, RestTyped
<1> QED
  BY <1>3, <1>4, <1>6, <1>7, <1>8, <1>9, TypeParts, TypeNext DEF a, OnlyThread

\* A thread that ends without an answer: no connection, or a relay that breaks.
LEMMA ThreadEnds ==
    ASSUME TypeOK, NEW h \in Handler, UpstreamFails(h) \/ RelayBreaks(h)
    PROVE  /\ TypeOK' /\ Aside
           /\ cur = h => cur' = None
           /\ cur # h => conv' = conv /\ cur' = cur
           /\ OnlyThread(h, Free)
           /\ routed' = routed /\ spool' = spool /\ lost' = lost
           /\ msgs' = msgs /\ executed' = executed
<1>1. /\ hs' = [hs EXCEPT ![h] = Free] /\ \E begun : Fails(h, begun)
      /\ UNCHANGED <<settings, log, msgs, executed>>
      /\ Fault \/ UNCHANGED faults
  BY DEF UpstreamFails, RelayBreaks
<1>2. ThreadsTyped' /\ OnlyThread(h, Free)
  BY <1>1, FreeIs, ThreadMoves, TypeParts
<1>3. /\ DialogTyped' /\ Aside
      /\ cur = h => cur' = None
      /\ cur # h => conv' = conv /\ cur' = cur
  BY <1>1, FailsAside, TypeParts
<1>4. SettingsTyped' /\ LogTyped' /\ RestTyped'
  BY <1>1, Faulted, TypeParts DEF settings, log, SettingsTyped, LogTyped, RestTyped
<1> QED
  BY <1>1, <1>2, <1>3, <1>4, TypeParts, TypeNext DEF settings, log

LEMMA UpstreamAnswersStep ==
    ASSUME TypeOK, NEW h \in Handler, UpstreamAnswers(h)
    PROVE  LET t == hs'[h] IN
           /\ TypeOK' /\ Aside /\ conv' = conv /\ cur' = cur /\ routed' = routed
           /\ spool' = spool /\ lost' = lost /\ executed' = executed
           /\ \A g \in Handler : g # h => hs'[g] = hs[g]
           /\ t.evs = hs[h].evs /\ t.pol = hs[h].pol /\ t.pc \in {"relay", "gate"}
           /\ \/ /\ msgs' = msgs + 1 /\ t.msg.id = msgs + 1 /\ t.msg.status = 200
                 /\ t.pc = IF hs[h].pol.gate THEN "gate" ELSE "relay"
                 /\ \A b \in ToSet(t.msg.blocks) : b.type = "tool_use" => b.id[1] = msgs + 1
              \/ msgs' = msgs /\ t.msg.status = 500 /\ t.pc = "relay"
<1>1. /\ ThreadsTyped /\ hs[h] \in Thread /\ hs[h].pol \in Policies
      /\ msgs \in Nat /\ MaxMsg \in Nat
  BY TypeParts, ThreadIs, ProxyAssumption DEF RestTyped
<1>2. /\ conv' = conv /\ claude' = claude /\ cur' = cur
      /\ UNCHANGED <<settings, log, executed>>
  BY DEF UpstreamAnswers, dialog
<1>3. DialogTyped' /\ SettingsTyped' /\ LogTyped' /\ Aside
  BY <1>2, StaysAside, TypeParts DEF settings, log, DialogTyped, SettingsTyped, LogTyped
<1>4. CASE /\ msgs < MaxMsg /\ msgs' = msgs + 1 /\ UNCHANGED faults
           /\ \E r \in Reply :
                hs' = [hs EXCEPT ![h] =
                        [@ EXCEPT !.pc = IF hs[h].pol.gate THEN "gate" ELSE "relay", !.body = <<>>,
                                  !.msg = [id |-> msgs + 1, status |-> 200,
                                           blocks |-> WithIds(msgs + 1, r)]]]
  <2>1. PICK r \in Reply :
            hs' = [hs EXCEPT ![h] =
                    [@ EXCEPT !.pc = IF hs[h].pol.gate THEN "gate" ELSE "relay", !.body = <<>>,
                              !.msg = [id |-> msgs + 1, status |-> 200,
                                       blocks |-> WithIds(msgs + 1, r)]]]
    BY <1>4
  <2> DEFINE bs == WithIds(msgs + 1, r)
             m  == [id |-> msgs + 1, status |-> 200, blocks |-> bs]
             t  == [hs[h] EXCEPT !.pc = IF hs[h].pol.gate THEN "gate" ELSE "relay",
                                 !.body = <<>>, !.msg = m]
  <2>2. hs' = [hs EXCEPT ![h] = t]
    BY <2>1
  <2>3. bs \in Seq(AnswerBlock) /\ \A b \in ToSet(bs) : b.type = "tool_use" => b.id[1] = msgs + 1
    <3>1. msgs + 1 \in Nat
      BY <1>1
    <3>2. /\ bs \in Seq(AnswerBlock)
          /\ \A i \in 1 .. Len(bs) : bs[i].type = "tool_use" => bs[i].id = <<msgs + 1, i>>
      BY <3>1, WithIdsIs
    <3> HIDE DEF bs
    <3>3. \A b \in ToSet(bs) : \E i \in 1 .. Len(bs) : b = bs[i]
      BY <3>2, ToSetIs
    <3> QED
      BY <3>2, <3>3
  <2> HIDE DEF bs
  <2>4. m \in Message /\ m.id = msgs + 1 /\ m.status = 200 /\ m.blocks = bs
    BY <1>1, <2>3 DEF Message
  <2> HIDE DEF m
  <2>5. /\ t \in Thread /\ t.pc = IF hs[h].pol.gate THEN "gate" ELSE "relay"
        /\ t.msg = m /\ t.evs = hs[h].evs /\ t.pol = hs[h].pol
    <3>1. <<>> \in Conversation
      BY DEF Conversation
    <3> QED
      BY <1>1, <2>4, <3>1 DEF Thread, Pc
  <2> HIDE DEF t
  <2>6. ThreadsTyped' /\ OnlyThread(h, t)
    <3>1. t.pc # "free"
      BY <2>5
    <3> QED
      BY <1>1, <2>2, <2>5, <3>1, ThreadMoves
  <2>7. msgs' \in 0 .. MaxMsg
    BY <1>1, <1>4
  <2>8. RestTyped'
    BY <1>2, <1>4, <2>7, TypeParts DEF RestTyped
  <2> QED
    BY <1>2, <1>3, <1>4, <2>3, <2>4, <2>5, <2>6, <2>8, TypeParts, TypeNext DEF OnlyThread, settings, log
<1>5. CASE /\ Fault /\ msgs' = msgs
           /\ hs' = [hs EXCEPT ![h] = [@ EXCEPT !.pc = "relay", !.body = <<>>,
                                                !.msg = [NoMsg EXCEPT !.status = 500]]]
  <2> DEFINE m  == [NoMsg EXCEPT !.status = 500]
             t  == [hs[h] EXCEPT !.pc = "relay", !.body = <<>>, !.msg = m]
  <2>1. hs' = [hs EXCEPT ![h] = t]
    BY <1>5
  <2>2. m \in Message /\ m.status = 500
    <3>1. <<>> \in Seq(AnswerBlock)
      OBVIOUS
    <3>2. m = [id |-> 0, status |-> 500, blocks |-> <<>>]
      BY DEF NoMsg
    <3> HIDE DEF m
    <3>3. [id |-> 0, status |-> 500, blocks |-> <<>>] \in Message
      BY <3>1 DEF Message
    <3> QED
      BY <3>2, <3>3
  <2> HIDE DEF m
  <2>3. t \in Thread /\ t.pc = "relay" /\ t.msg = m /\ t.evs = hs[h].evs /\ t.pol = hs[h].pol
    <3>1. <<>> \in Conversation
      BY DEF Conversation
    <3> QED
      BY <1>1, <2>2, <3>1 DEF Thread, Pc
  <2> HIDE DEF t
  <2>4. ThreadsTyped' /\ OnlyThread(h, t)
    <3>1. t.pc # "free"
      BY <2>3
    <3> QED
      BY <1>1, <2>1, <2>3, <3>1, ThreadMoves
  <2>5. RestTyped'
    BY <1>2, <1>5, Faulted, TypeParts DEF RestTyped
  <2> QED
    BY <1>2, <1>3, <1>5, <2>2, <2>3, <2>4, <2>5, TypeParts, TypeNext DEF OnlyThread, settings, log
<1> QED
  BY <1>4, <1>5 DEF UpstreamAnswers

LEMMA WireWhole ==
    ASSUME NEW m \in Message
    PROVE  /\ Len(Wire(m)) \in Nat /\ Len(Wire(m)) \in 0 .. Len(Wire(m))
           /\ SubSeq(Wire(m), 1, Len(Wire(m))) = Wire(m)
<1>1. m.blocks \in Seq(AnswerBlock)
  BY DEF Message
<1>2. LET n == Len(m.blocks) IN
      n \in Nat /\ Len(Wire(m)) = 1 + 3 * n /\ DOMAIN Wire(m) = 1 .. 1 + 3 * n
  BY <1>1, WireIs
<1> DEFINE w == Wire(m)
           S == {w[j] : j \in 1 .. Len(w)}
<1>3. Len(w) \in Nat /\ DOMAIN w = 1 .. Len(w)
  BY <1>2
<1>4. w \in [1 .. Len(w) -> S]
  <2>1. w = [j \in 1 .. Len(w) |-> w[j]]
    BY <1>3 DEF Wire
  <2> HIDE DEF w
  <2> QED
    BY <2>1
<1> HIDE DEF w, S
<1>5. w \in Seq(S)
  BY <1>3, <1>4
<1>6. SubSeq(w, 1, Len(w)) = w
  BY <1>5, SubSeqFull
<1> QED
  BY <1>3, <1>6 DEF w

\* The event e tells of the block b of the message mid, as of one that was sent on.
Tells(e, mid, b) ==
    /\ e.id[1] = "api" /\ e.id[2] = mid /\ ~e.blocked
    /\ IF b.type = "text" THEN e.kind = "assistant_text" /\ e.val = b.text
       ELSE e.kind = "tool_use" /\ e.ref = b.id /\ e.val = b.call

\* The ids of the tool calls of an answer begin with its own.
OwnCalls(m) == \A b \in ToSet(m.blocks) : b.type = "tool_use" => b.id[1] = m.id

\* The events of an answer, of which the first k events of the stream have come.
LEMMA AnswerEventsAre ==
    ASSUME NEW m \in Message, NEW k \in 0 .. Len(Wire(m)), NEW dropped
    PROVE  LET es == EventsFromMessage(AssembleSse(SubSeq(Wire(m), 1, k)), dropped) IN
           /\ es \in Seq(LogEvent)
           /\ \A e \in ToSet(es) :
                 /\ e.id[1] = "api" /\ e.id[2] = m.id
                 /\ e.kind \in {"assistant_text", "tool_use"}
                 /\ e.kind = "tool_use" /\ OwnCalls(m) => e.ref[1] = m.id
                 /\ dropped = {} => ~e.blocked
                 /\ \A f \in ToSet(es) : e.id = f.id => e = f
           /\ k = Len(Wire(m)) /\ dropped = {} =>
                 \A b \in ToSet(m.blocks) :
                    b.type \in {"text", "tool_use"} => \E e \in ToSet(es) : Tells(e, m.id, b)
<1> DEFINE got == AssembleSse(SubSeq(Wire(m), 1, k))
           es  == EventsFromMessage(got, dropped)
           B   == {b \in AnswerBlock : b.type \in {"text", "tool_use"}}
<1>1. m.id \in Nat /\ m.blocks \in Seq(AnswerBlock)
  BY DEF Message
<1>2. /\ got.id \in Nat /\ (got.blocks # <<>> => got.id = m.id)
      /\ got.blocks \in Seq(B)
      /\ \A b \in ToSet(got.blocks) :
            \E i \in 1 .. Len(m.blocks) : b \in {m.blocks[i], Opened(m.blocks[i])}
      /\ k = Len(Wire(m)) =>
            \A b : b \in ToSet(got.blocks) <=>
                   b \in ToSet(m.blocks) /\ b.type \in {"text", "tool_use"}
  BY <1>1, AssembledIs
<1> HIDE DEF got
<1>3. /\ es \in Seq(LogEvent) /\ Len(es) = Len(got.blocks)
      /\ \A i \in 1 .. Len(got.blocks) :
            LET b == got.blocks[i]
                e == es[i]
            IN  /\ e.id = <<"api", got.id, i>>
                /\ b.type = "text" => /\ e.kind = "assistant_text" /\ e.val = b.text
                                      /\ e.ref = <<>> /\ e.blocked = FALSE
                /\ b.type = "tool_use" => /\ e.kind = "tool_use" /\ e.val = b.call
                                          /\ e.ref = b.id
                                          /\ e.blocked = (b.call.name \in dropped)
  <2>1. got.id \in Nat /\ got.blocks \in Seq({b \in AnswerBlock : b.type \in {"text", "tool_use"}})
    BY <1>2
  <2> HIDE DEF B
  <2> QED
    BY <2>1, MessageEventsAre, ZenonT(30)
<1> HIDE DEF es
<1>4. \A e : e \in ToSet(es) <=> \E i \in 1 .. Len(got.blocks) : e = es[i]
  BY <1>3, ToSetIs
<1>5. /\ Len(got.blocks) \in Nat
      /\ \A b : b \in ToSet(got.blocks) <=> \E i \in 1 .. Len(got.blocks) : b = got.blocks[i]
  BY <1>2, ToSetIs
<1>6. \A i \in 1 .. Len(got.blocks) : got.id = m.id /\ got.blocks[i].type \in {"text", "tool_use"}
  <2>1. \A i \in 1 .. Len(got.blocks) : got.blocks[i] \in B
    BY <1>2
  <2>2. \A i \in 1 .. Len(got.blocks) : got.blocks # <<>>
    BY <1>5
  <2> QED
    BY <1>2, <2>1, <2>2
<1>7. ASSUME NEW e \in ToSet(es)
      PROVE  /\ e.id[1] = "api" /\ e.id[2] = m.id
             /\ e.kind \in {"assistant_text", "tool_use"}
             /\ e.kind = "tool_use" /\ OwnCalls(m) => e.ref[1] = m.id
             /\ dropped = {} => ~e.blocked
             /\ \A f \in ToSet(es) : e.id = f.id => e = f
  <2>1. PICK i \in 1 .. Len(got.blocks) : e = es[i]
    BY <1>4
  <2>2. e.id = <<"api", m.id, i>>
    BY <1>3, <1>6, <2>1
  <2>3. /\ e.kind \in {"assistant_text", "tool_use"}
        /\ e.kind = "tool_use" => got.blocks[i].type = "tool_use" /\ e.ref = got.blocks[i].id
        /\ dropped = {} => ~e.blocked
    BY <1>3, <1>6, <2>1
  <2>4. e.kind = "tool_use" /\ OwnCalls(m) => e.ref[1] = m.id
    <3> SUFFICES ASSUME e.kind = "tool_use", OwnCalls(m) PROVE e.ref[1] = m.id
      OBVIOUS
    <3>1. PICK j \in 1 .. Len(m.blocks) : got.blocks[i] \in {m.blocks[j], Opened(m.blocks[j])}
      BY <1>2, <1>5
    <3>2. m.blocks[j] \in AnswerBlock /\ m.blocks[j] \in ToSet(m.blocks)
      BY <1>1, ToSetIs
    <3>3. m.blocks[j].type = "tool_use" /\ got.blocks[i].id = m.blocks[j].id
      BY <2>3, <3>1, <3>2, OpenedIs
    <3> QED
      BY <2>3, <3>2, <3>3 DEF OwnCalls
  <2>5. ASSUME NEW f \in ToSet(es), e.id = f.id PROVE e = f
    <3>1. PICK j \in 1 .. Len(got.blocks) : f = es[j]
      BY <1>4
    <3>2. f.id = <<"api", m.id, j>>
      BY <1>3, <1>6, <3>1
    <3>3. i = j
      BY <2>2, <2>5, <3>2
    <3> QED
      BY <2>1, <3>1, <3>3
  <2> QED
    BY <2>2, <2>3, <2>4, <2>5
<1>8. ASSUME k = Len(Wire(m)), dropped = {}, NEW b \in ToSet(m.blocks),
             b.type \in {"text", "tool_use"}
      PROVE  \E e \in ToSet(es) : Tells(e, m.id, b)
  <2>1. b \in ToSet(got.blocks)
    BY <1>2, <1>8
  <2>2. PICK i \in 1 .. Len(got.blocks) : b = got.blocks[i]
    BY <1>5, <2>1
  <2>3. es[i] \in ToSet(es)
    BY <1>4
  <2>4. es[i].id[1] = "api" /\ es[i].id[2] = m.id /\ ~es[i].blocked
    <3>1. es[i].id = <<"api", m.id, i>>
      BY <1>3, <1>6
    <3> QED
      BY <1>7, <1>8, <2>3
  <2>5. Tells(es[i], m.id, b)
    BY <1>3, <1>8, <2>2, <2>4 DEF Tells
  <2> QED
    BY <2>3, <2>5
<1> QED
  BY <1>3, <1>7, <1>8 DEF es, got

\* The events es of a thread's answer m.
AnswerEvents(es, m) ==
    /\ es \in Seq(LogEvent)
    /\ \A e \in ToSet(es) :
          /\ e.id[1] = "api" /\ e.id[2] = m.id
          /\ e.kind \in {"assistant_text", "tool_use"}
          /\ e.kind = "tool_use" /\ OwnCalls(m) => e.ref[1] = m.id
          /\ \A f \in ToSet(es) : e.id = f.id => e = f

\* The answer a of thread h is sent; it counts when Claude still waits for it.
Delivered(h, a) ==
    /\ a \in AssistantMessage /\ Adds(a)
    /\ cur # h => conv' = conv /\ cur' = cur /\ executed' = executed
    /\ cur = h => /\ cur' = None
                  /\ Len(conv) + 1 \in 1 .. Len(conv') /\ conv'[Len(conv) + 1] = a
                  /\ executed' = executed \cup Runs(a)

\* A thread comes to the end of its answer: it has sent it on, or what the gate
\* has put in its place, or could not.
SentBy(h, es, by) ==
    LET m == hs[h].msg IN
    /\ Delivered(h, Assistant(by, m.id, hs[h].pol, m.blocks)) /\ m.status = 200
    /\ hs[h].pc = "gate" /\ by = "model" =>
          \A b \in ToSet(m.blocks) : b.type = "tool_use" => b.call \notin hs[h].pol.tools
    /\ \A e \in ToSet(es) : ~e.blocked
    /\ by # "unread" =>
          \A b \in ToSet(m.blocks) :
              b.type \in {"text", "tool_use"} => \E e \in ToSet(es) : Tells(e, m.id, b)

\* Whose answers are sent on as they came.
Passed == {"model", "unread", "unmatched"}

SentOn(h, es) == \E by \in Passed : SentBy(h, es, by)

Replaced(h) ==
    \E a : a.by = "gate" /\ a.pol = hs[h].pol /\ Runs(a) = {} /\ Delivered(h, a)

NotSent(h, es) ==
    /\ Aside /\ executed' = executed
    /\ cur = h => cur' = None
    /\ cur # h => conv' = conv /\ cur' = cur
    /\ \A e \in ToSet(es) : ~e.blocked

AnswerEnds(h) ==
    \E es :
        /\ AnswerEvents(es, hs[h].msg)
        /\ ToSet(hs'[h].evs) = ToSet(hs[h].evs) \cup ToSet(es)
        /\ ToSet(es) = {} \/ hs[h].msg.status = 200
        /\ SentOn(h, es) \/ (hs[h].pc = "gate" /\ Replaced(h)) \/ NotSent(h, es)

\* What both ends have in common.
LEMMA EndTyped ==
    ASSUME TypeOK, NEW h \in Handler, hs[h].pc \in {"relay", "gate"}, NEW es \in Seq(LogEvent),
           hs' = [hs EXCEPT ![h] = [@ EXCEPT !.pc = "log", !.evs = hs[h].evs \o es]]
    PROVE  /\ ThreadsTyped' /\ \A g \in Handler : g # h => hs'[g] = hs[g]
           /\ hs'[h].pc = "log" /\ ToSet(hs'[h].evs) = ToSet(hs[h].evs) \cup ToSet(es)
<1>1. ThreadsTyped /\ hs[h] \in Thread /\ hs[h].evs \in Seq(LogEvent)
  BY TypeParts, ThreadIs
<1> DEFINE both == hs[h].evs \o es
           t    == [hs[h] EXCEPT !.pc = "log", !.evs = both]
<1>2. hs' = [hs EXCEPT ![h] = t]
  BY <1>1 DEF ThreadsTyped
<1>3. t \in Thread /\ t.pc = "log" /\ t.evs = hs[h].evs \o es
  <2>1. both \in Seq(LogEvent)
    BY <1>1
  <2> HIDE DEF both
  <2>2. t \in Thread /\ t.pc = "log" /\ t.evs = both
    BY <1>1, <2>1 DEF Thread, Pc
  <2> QED
    BY <2>2 DEF both
<1> HIDE DEF t
<1>4. ThreadsTyped' /\ OnlyThread(h, t)
  BY <1>1, <1>2, <1>3, ThreadMoves
<1>5. ToSet(hs[h].evs \o es) = ToSet(hs[h].evs) \cup ToSet(es)
  BY <1>1, ToSetConcat
<1> QED
  BY <1>3, <1>4, <1>5 DEF OnlyThread

LEMMA DeliveredIs ==
    ASSUME TypeOK, NEW h \in Handler, NEW a \in AssistantMessage, Deliver(h, a)
    PROVE  Delivered(h, a) /\ DialogTyped' /\ executed' \subseteq Execution
BY DeliverIs, TypeParts DEF Delivered, SettingsTyped, RestTyped

LEMMA RelayEndsStep ==
    ASSUME TypeOK, NEW h \in Handler, RelayEnds(h)
    PROVE  /\ TypeOK' /\ AnswerEnds(h) /\ hs'[h].pc = "log"
           /\ \A g \in Handler : g # h => hs'[g] = hs[g]
<1> DEFINE m  == hs[h].msg
           es == IF m.status = 200 THEN EventsFromMessage(AssembleSse(Wire(m)), {}) ELSE <<>>
<1>1. /\ ThreadsTyped /\ hs[h] \in Thread /\ m \in Message /\ hs[h].pol \in Policies
      /\ m.id \in Nat /\ m.blocks \in Seq(AnswerBlock)
  BY TypeParts, ThreadIs
<1>2. hs[h].pc = "relay" /\ hs' = [hs EXCEPT ![h] = [@ EXCEPT !.pc = "log", !.evs = hs[h].evs \o es]]
  BY DEF RelayEnds
<1>3. SettingsTyped' /\ LogTyped' /\ (executed' \subseteq Execution => RestTyped')
  BY TypeParts DEF RelayEnds, settings, log, SettingsTyped, LogTyped, RestTyped
<1>4. CASE m.status = 200
  <2> DEFINE a == Assistant("model", m.id, hs[h].pol, m.blocks)
  <2>1. Deliver(h, a)
    BY <1>4 DEF RelayEnds
  <2>2. AnswerEvents(es, m) /\ (\A e \in ToSet(es) : ~e.blocked)
        /\ \A b \in ToSet(m.blocks) :
              b.type \in {"text", "tool_use"} => \E e \in ToSet(es) : Tells(e, m.id, b)
    <3> DEFINE k  == Len(Wire(m))
               ev == EventsFromMessage(AssembleSse(SubSeq(Wire(m), 1, k)), {})
    <3>1. k \in 0 .. Len(Wire(m)) /\ k = Len(Wire(m)) /\ es = ev
      BY <1>1, <1>4, WireWhole
    <3>2. /\ ev \in Seq(LogEvent)
          /\ \A e \in ToSet(ev) :
                 /\ e.id[1] = "api" /\ e.id[2] = m.id
                 /\ e.kind \in {"assistant_text", "tool_use"}
                 /\ e.kind = "tool_use" /\ OwnCalls(m) => e.ref[1] = m.id
                 /\ ~e.blocked
                 /\ \A f \in ToSet(ev) : e.id = f.id => e = f
          /\ \A b \in ToSet(m.blocks) :
                    b.type \in {"text", "tool_use"} => \E e \in ToSet(ev) : Tells(e, m.id, b)
      <4> HIDE DEF k, m
      <4> QED
        BY <1>1, <3>1, AnswerEventsAre
    <3> HIDE DEF ev, k, es, m
    <3> QED
      BY <3>1, <3>2 DEF AnswerEvents
  <2>3. a \in AssistantMessage
    <3>1. "model" \in Writer
      BY DEF Writer
    <3> QED
      BY <1>1, <3>1, AssistantIs
  <2>4. Delivered(h, a) /\ DialogTyped' /\ executed' \subseteq Execution
    <3> HIDE DEF a
    <3> QED
      BY <2>1, <2>3, DeliveredIs
  <2>5. SentOn(h, es)
    <3> HIDE DEF es
    <3> QED
      BY <1>2, <1>4, <2>2, <2>4 DEF SentOn, SentBy, Passed
  <2>6. /\ ThreadsTyped' /\ \A g \in Handler : g # h => hs'[g] = hs[g]
        /\ hs'[h].pc = "log" /\ ToSet(hs'[h].evs) = ToSet(hs[h].evs) \cup ToSet(es)
    <3>1. es \in Seq(LogEvent)
      BY <2>2 DEF AnswerEvents
    <3> HIDE DEF es
    <3> QED
      BY <1>2, <3>1, EndTyped
  <2> HIDE DEF es
  <2> QED
    BY <1>3, <1>4, <2>2, <2>4, <2>5, <2>6, TypeParts, TypeNext DEF AnswerEnds
<1>5. CASE m.status # 200
  <2>1. es = <<>> /\ Fails(h, FALSE) /\ executed' = executed
    BY <1>5 DEF RelayEnds
  <2>2. es \in Seq(LogEvent) /\ ToSet(es) = {}
    <3>1. <<>> \in Seq(LogEvent) /\ ToSet(<<>>) = {}
      BY DEF ToSet
    <3> QED
      BY <2>1, <3>1
  <2>3. /\ DialogTyped' /\ Aside
        /\ cur = h => cur' = None
        /\ cur # h => conv' = conv /\ cur' = cur
    BY <2>1, FailsAside, TypeParts
  <2> HIDE DEF es
  <2>4. /\ ThreadsTyped' /\ \A g \in Handler : g # h => hs'[g] = hs[g]
        /\ hs'[h].pc = "log" /\ ToSet(hs'[h].evs) = ToSet(hs[h].evs) \cup ToSet(es)
    BY <1>2, <2>2, EndTyped
  <2>5. NotSent(h, es) /\ AnswerEvents(es, m)
    BY <2>1, <2>2, <2>3 DEF NotSent, AnswerEvents
  <2>6. executed' \subseteq Execution
    BY <2>1, TypeParts DEF RestTyped
  <2> QED
    BY <1>3, <2>2, <2>3, <2>4, <2>5, <2>6, TypeParts, TypeNext DEF AnswerEnds
<1> QED
  BY <1>4, <1>5

\* What the gate leaves of an answer: its texts and a notice.
LEMMA NoticeIs ==
    ASSUME NEW blocks \in Seq(AnswerBlock), NEW p \in Policies
    PROVE  LET text == FlattenSeq([i \in DOMAIN blocks |->
                          LET b == blocks[i]
                          IN  IF b.type = "text" /\ b.text # EmptyText THEN <<b>> ELSE <<>>])
               a == Assistant("gate", 0, p, text \o <<TextBlock("notice")>>)
           IN  a \in AssistantMessage /\ a.by = "gate" /\ a.pol = p /\ Runs(a) = {}
<1> DEFINE T  == {b \in AnswerBlock : b.type = "text"}
           ss == [i \in DOMAIN blocks |->
                     LET b == blocks[i]
                     IN  IF b.type = "text" /\ b.text # EmptyText THEN <<b>> ELSE <<>>]
           text == FlattenSeq(ss)
           out  == text \o <<TextBlock("notice")>>
           a    == Assistant("gate", 0, p, out)
<1>1. DOMAIN blocks = 1 .. Len(blocks) /\ Len(blocks) \in Nat
  OBVIOUS
<1>2. ss \in Seq(Seq(T))
  <2>1. \A b \in T : <<b>> \in Seq(T)
    OBVIOUS
  <2>2. <<>> \in Seq(T)
    OBVIOUS
  <2>3. \A i \in 1 .. Len(blocks) : blocks[i] \in AnswerBlock
    OBVIOUS
  <2>4. \A i \in 1 .. Len(blocks) : ss[i] \in Seq(T)
    <3> SUFFICES ASSUME NEW i \in 1 .. Len(blocks)
                 PROVE  ss[i] \in Seq(T)
      OBVIOUS
    <3>1. CASE blocks[i].type = "text" /\ blocks[i].text # EmptyText
      <4>1. blocks[i] \in T
        BY <2>3, <3>1
      <4>2. ss[i] = <<blocks[i]>>
        BY <1>1, <3>1
      <4> HIDE DEF T, ss
      <4> QED
        BY <2>1, <4>1, <4>2
    <3>2. CASE ~(blocks[i].type = "text" /\ blocks[i].text # EmptyText)
      <4>1. ss[i] = <<>>
        BY <1>1, <3>2, Zenon
      <4> HIDE DEF T, ss
      <4> QED
        BY <2>2, <4>1
    <3> QED
      BY <3>1, <3>2
  <2>5. ss \in [1 .. Len(blocks) -> Seq(T)]
    <3>1. ss = [i \in 1 .. Len(blocks) |-> ss[i]]
      BY <1>1
    <3> HIDE DEF ss, T
    <3> QED
      BY <2>4, <3>1
  <2> HIDE DEF ss, T
  <2> QED
    BY <1>1, <2>5
<1>3. text \in Seq(T)
  <2> HIDE DEF ss, T
  <2> QED
    BY <1>2, Flattened
<1>4. TextBlock("notice") \in T
  BY Literals DEF TextBlock, AnswerBlock
<1> HIDE DEF text
<1>5. out \in Seq(T)
  <2> DEFINE note == TextBlock("notice")
  <2>1. note \in T
    BY <1>4
  <2> HIDE DEF note, T
  <2>2. text \o <<note>> \in Seq(T)
    BY <1>3, <2>1
  <2> QED
    BY <2>2 DEF note
<1> HIDE DEF out
<1>6. out \in Seq(AnswerBlock) /\ \A b \in ToSet(out) : b.type = "text"
  <2>1. T \subseteq AnswerBlock /\ \A b \in T : b.type = "text"
    OBVIOUS
  <2> HIDE DEF T
  <2>2. ToSet(out) \subseteq T
    BY <1>5, ToSetIs
  <2>3. out \in Seq(AnswerBlock)
    BY <1>5, <2>1
  <2> QED
    BY <2>1, <2>2, <2>3
<1>7. a \in AssistantMessage /\ a.by = "gate" /\ a.pol = p /\ a.blocks = out
  <2>1. 0 \in Nat /\ "gate" \in Writer
    BY DEF Writer
  <2> QED
    BY <1>6, <2>1, AssistantIs
<1>8. Runs(a) = {}
  <2> HIDE DEF a
  <2>1. \A c \in ToSet(a.blocks) : c.type # "tool_use"
    <3>1. "text" # "tool_use"
      OBVIOUS
    <3> QED
      BY <1>6, <1>7, <3>1
  <2> QED
    BY <2>1 DEF Runs
<1> QED
  BY <1>7, <1>8 DEF text, out

LEMMA GateStep ==
    ASSUME TypeOK, NEW h \in Handler, NEW n \in 0 .. Len(Wire(hs[h].msg)),
           NEW sees \in Sight, Gate(h, n, sees), hs[h].msg.status = 200
    PROVE  /\ TypeOK' /\ AnswerEnds(h) /\ hs'[h].pc = "log"
           /\ \A g \in Handler : g # h => hs'[g] = hs[g]
<1> DEFINE m    == hs[h].msg
           p    == hs[h].pol
           seen == AssembleSse(SubSeq(Wire(m), 1, n))
           hits == IF sees = "read" THEN MatchBlockedTools(p, seen.blocks) ELSE {}
           dropped == {seen.blocks[i].call.name : i \in hits}
           got  == EventsFromMessage(seen, dropped)
           es   == IF sees = "unread" THEN <<>> ELSE got
           by   == IF sees = "read" THEN "model" ELSE sees
<1>1. /\ ThreadsTyped /\ hs[h] \in Thread /\ m \in Message /\ p \in Policies
      /\ m.id \in Nat /\ m.blocks \in Seq(AnswerBlock)
  BY TypeParts, ThreadIs
<1>2. /\ hs[h].pc = "gate" /\ hs' = [hs EXCEPT ![h] = [@ EXCEPT !.pc = "log", !.evs = hs[h].evs \o es]]
      /\ UNCHANGED <<settings, log, msgs>> /\ (Fault \/ UNCHANGED faults)
  BY DEF Gate
<1>3. SettingsTyped' /\ LogTyped' /\ (executed' \subseteq Execution => RestTyped')
  BY <1>2, Faulted, TypeParts DEF settings, log, SettingsTyped, LogTyped, RestTyped
<1>11. /\ got \in Seq(LogEvent)
       /\ \A e \in ToSet(got) :
             /\ e.id[1] = "api" /\ e.id[2] = m.id
             /\ e.kind \in {"assistant_text", "tool_use"}
             /\ e.kind = "tool_use" /\ OwnCalls(m) => e.ref[1] = m.id
             /\ dropped = {} => ~e.blocked
             /\ \A f \in ToSet(got) : e.id = f.id => e = f
       /\ n = Len(Wire(m)) /\ dropped = {} =>
             \A b \in ToSet(m.blocks) :
                b.type \in {"text", "tool_use"} => \E e \in ToSet(got) : Tells(e, m.id, b)
  <2>1. n \in 0 .. Len(Wire(m))
    OBVIOUS
  <2>2. m \in Message
    BY <1>1
  <2> HIDE DEF dropped, m
  <2> QED
    BY <2>1, <2>2, AnswerEventsAre, ZenonT(60)
<1>4. /\ es \in Seq(LogEvent)
      /\ \A e \in ToSet(es) :
            /\ e.id[1] = "api" /\ e.id[2] = m.id
            /\ e.kind \in {"assistant_text", "tool_use"}
            /\ e.kind = "tool_use" /\ OwnCalls(m) => e.ref[1] = m.id
            /\ dropped = {} => ~e.blocked
            /\ \A f \in ToSet(es) : e.id = f.id => e = f
      /\ n = Len(Wire(m)) /\ dropped = {} /\ sees # "unread" =>
            \A b \in ToSet(m.blocks) :
               b.type \in {"text", "tool_use"} => \E e \in ToSet(es) : Tells(e, m.id, b)
  <2> HIDE DEF got, dropped, m
  <2>1. CASE sees = "unread"
    <3>1. es = <<>> /\ <<>> \in Seq(LogEvent) /\ ToSet(<<>>) = {}
      BY <2>1 DEF ToSet
    <3> HIDE DEF es
    <3> QED
      BY <2>1, <3>1
  <2>2. CASE sees # "unread"
    <3>1. es = got
      BY <2>2
    <3> HIDE DEF es
    <3> QED
      BY <1>11, <3>1
  <2> QED
    BY <2>1, <2>2
<1>5. AnswerEvents(es, m)
  <2> HIDE DEF es, dropped, m
  <2> QED
    BY <1>4 DEF AnswerEvents
<1>6. /\ ThreadsTyped' /\ \A g \in Handler : g # h => hs'[g] = hs[g]
      /\ hs'[h].pc = "log" /\ ToSet(hs'[h].evs) = ToSet(hs[h].evs) \cup ToSet(es)
  <2> HIDE DEF es
  <2> QED
    BY <1>2, <1>4, EndTyped
<1>7. /\ seen.blocks \in Seq({b \in AnswerBlock : b.type \in {"text", "tool_use"}})
      /\ n = Len(Wire(m)) =>
            \A b : b \in ToSet(seen.blocks) <=>
                   b \in ToSet(m.blocks) /\ b.type \in {"text", "tool_use"}
  <2>1. n \in 0 .. Len(Wire(m))
    OBVIOUS
  <2> HIDE DEF m
  <2> QED
    BY <1>1, <2>1, AssembledIs, ZenonT(30)
<1>8. CASE hits # {}
  <2> DEFINE text == FlattenSeq([i \in DOMAIN seen.blocks |->
                        LET b == seen.blocks[i]
                        IN  IF b.type = "text" /\ b.text # EmptyText THEN <<b>> ELSE <<>>])
             a == Assistant("gate", 0, p, text \o <<TextBlock("notice")>>)
  <2>1. Deliver(h, a)
    BY <1>8 DEF Gate
  <2>2. a \in AssistantMessage /\ a.by = "gate" /\ a.pol = p /\ Runs(a) = {}
    <3>1. seen.blocks \in Seq(AnswerBlock)
      <4> HIDE DEF seen
      <4> QED
        BY <1>7
    <3> HIDE DEF seen, p
    <3> QED
      BY <1>1, <3>1, NoticeIs
  <2> HIDE DEF a
  <2>3. Delivered(h, a) /\ DialogTyped' /\ executed' \subseteq Execution
    BY <2>1, <2>2, DeliveredIs
  <2>4. Replaced(h)
    BY <2>2, <2>3 DEF Replaced
  <2> HIDE DEF es
  <2> QED
    BY <1>2, <1>3, <1>5, <1>6, <2>3, <2>4, TypeParts, TypeNext DEF AnswerEnds
<1>9. CASE hits = {} /\ n = Len(Wire(m))
  <2> DEFINE a == Assistant(by, m.id, p, m.blocks)
  <2>1. Deliver(h, a) /\ dropped = {}
    BY <1>9 DEF Gate
  <2>6. by \in Passed /\ by \in Writer /\ (by = "model" => sees = "read")
        /\ (by # "unread" => sees # "unread")
    BY DEF Sight, Passed, Writer
  <2>2. a \in AssistantMessage
    BY <1>1, <2>6, AssistantIs
  <2>3. Delivered(h, a) /\ DialogTyped' /\ executed' \subseteq Execution
    <3> HIDE DEF a
    <3> QED
      BY <2>1, <2>2, DeliveredIs
  <2>4. ASSUME NEW b \in ToSet(m.blocks), b.type = "tool_use", by = "model"
        PROVE  b.call \notin p.tools
    <3> HIDE DEF seen
    <3>1. b \in ToSet(seen.blocks)
      BY <1>7, <1>9, <2>4
    <3>2. PICK i \in 1 .. Len(seen.blocks) : b = seen.blocks[i]
      BY <1>7, <3>1, ToSetIs
    <3>3. i \in DOMAIN seen.blocks
      BY <1>7, <3>2
    <3> QED
      BY <1>9, <2>4, <2>6, <3>2, <3>3 DEF MatchBlockedTools
  <2>5. SentOn(h, es)
    <3> HIDE DEF es, dropped, by
    <3> QED
      BY <1>4, <1>9, <2>1, <2>3, <2>4, <2>6 DEF SentOn, SentBy
  <2> HIDE DEF es
  <2> QED
    BY <1>3, <1>5, <1>6, <2>3, <2>5, TypeParts, TypeNext DEF AnswerEnds
<1>10. CASE hits = {} /\ n # Len(Wire(m))
  <2>1. Fails(h, TRUE) /\ executed' = executed /\ dropped = {}
    <3>1. Fails(h, TRUE) /\ executed' = executed
      BY <1>10 DEF Gate
    <3>2. dropped = {}
      BY <1>10
    <3> QED
      BY <3>1, <3>2
  <2>2. /\ DialogTyped' /\ Aside
        /\ cur = h => cur' = None
        /\ cur # h => conv' = conv /\ cur' = cur
    BY <2>1, FailsAside, TypeParts
  <2>3. NotSent(h, es)
    <3> HIDE DEF es, dropped
    <3> QED
      BY <1>4, <2>1, <2>2 DEF NotSent
  <2>4. executed' \subseteq Execution
    BY <2>1, TypeParts DEF RestTyped
  <2> HIDE DEF es
  <2> QED
    BY <1>3, <1>5, <1>6, <2>2, <2>3, <2>4, TypeParts, TypeNext DEF AnswerEnds
<1> QED
  BY <1>8, <1>9, <1>10

LEMMA WholeIs ==
    ASSUME NEW evs \in Seq(LogEvent)
    PROVE  /\ Whole(evs) \subseteq ToSet(evs)
           /\ \A n \in 0 .. Len(evs) - 1 : Whole(SubSeq(evs, 1, n)) \subseteq ToSet(evs)
<1>1. ASSUME NEW s \in Seq(LogEvent) PROVE Whole(s) \subseteq ToSet(s)
  <2>1. CASE torn /\ s # <<>>
    <3>1. Tail(s) \in Seq(LogEvent) /\ Len(Tail(s)) = Len(s) - 1
          /\ \A i \in 1 .. Len(Tail(s)) : Tail(s)[i] = s[i + 1] /\ i + 1 \in 1 .. Len(s)
      BY <2>1
    <3>2. \A e \in ToSet(Tail(s)) : \E i \in 1 .. Len(Tail(s)) : e = Tail(s)[i]
      <4> DEFINE tl == Tail(s)
      <4>1. tl \in Seq(LogEvent)
        BY <3>1
      <4> HIDE DEF tl
      <4>2. \A e \in ToSet(tl) : \E i \in 1 .. Len(tl) : e = tl[i]
        BY <4>1, ToSetIs
      <4> QED
        BY <4>2 DEF tl
    <3>3. \A i \in 1 .. Len(s) : s[i] \in ToSet(s)
      BY ToSetIs
    <3> QED
      BY <2>1, <3>1, <3>2, <3>3 DEF Whole
  <2>2. CASE ~(torn /\ s # <<>>)
    BY <2>2 DEF Whole
  <2> QED
    BY <2>1, <2>2
<1>2. ASSUME NEW n \in 0 .. Len(evs) - 1
      PROVE  /\ SubSeq(evs, 1, n) \in Seq(LogEvent)
             /\ ToSet(SubSeq(evs, 1, n)) \subseteq ToSet(evs)
  <2> DEFINE s == SubSeq(evs, 1, n)
  <2>1. s \in Seq(LogEvent) /\ Len(s) = n /\ \A i \in 1 .. n : s[i] = evs[i] /\ i \in 1 .. Len(evs)
    OBVIOUS
  <2> HIDE DEF s
  <2>2. \A e \in ToSet(s) : \E i \in 1 .. n : e = s[i]
    BY <2>1, ToSetIs
  <2>3. \A i \in 1 .. Len(evs) : evs[i] \in ToSet(evs)
    BY ToSetIs
  <2>4. ToSet(s) \subseteq ToSet(evs)
    BY <2>1, <2>2, <2>3
  <2> QED
    BY <2>1, <2>4 DEF s
<1>3. ASSUME NEW n \in 0 .. Len(evs) - 1 PROVE Whole(SubSeq(evs, 1, n)) \subseteq ToSet(evs)
  <2> DEFINE s == SubSeq(evs, 1, n)
  <2>1. s \in Seq(LogEvent) /\ ToSet(s) \subseteq ToSet(evs)
    BY <1>2
  <2> HIDE DEF s
  <2>2. Whole(s) \subseteq ToSet(evs)
    BY <1>1, <2>1
  <2> QED
    BY <2>2 DEF s
<1> QED
  BY <1>1, <1>3

LEMMA LogStep ==
    ASSUME TypeOK, NEW h \in Handler, Log(h)
    PROVE  LET new == ToSet(hs[h].evs) IN
           /\ TypeOK' /\ OnlyThread(h, Free) /\ hs[h].pc = "log"
           /\ conv' = conv /\ cur' = cur /\ routed' = routed
           /\ msgs' = msgs /\ executed' = executed
           /\ spool \subseteq spool' /\ spool' \subseteq spool \cup new
           /\ lost \subseteq lost' /\ new \subseteq spool' \cup lost'
<1> DEFINE evs == hs[h].evs
<1>1. ThreadsTyped /\ evs \in Seq(LogEvent) /\ ToSet(evs) \subseteq LogEvent
  <2>1. evs \in Seq(LogEvent)
    BY TypeParts, ThreadIs
  <2> HIDE DEF evs
  <2> QED
    BY <2>1, ToSetIs, TypeParts
<1>2. /\ hs[h].pc = "log" /\ hs' = [hs EXCEPT ![h] = Free]
      /\ UNCHANGED <<dialog, settings, msgs, executed>>
  BY DEF Log
<1>3. ThreadsTyped' /\ OnlyThread(h, Free)
  BY <1>1, <1>2, FreeIs, ThreadMoves
<1>4. /\ spool \subseteq spool' /\ spool' \subseteq spool \cup ToSet(evs)
      /\ lost \subseteq lost' /\ lost' \subseteq lost \cup ToSet(evs)
      /\ ToSet(evs) \subseteq spool' \cup lost'
      /\ torn' \in BOOLEAN /\ (Fault \/ UNCHANGED faults)
  <2>1. /\ Whole(evs) \subseteq ToSet(evs)
        /\ \A n \in 0 .. Len(evs) - 1 : Whole(SubSeq(evs, 1, n)) \subseteq ToSet(evs)
    <3> HIDE DEF evs
    <3> QED
      BY <1>1, WholeIs
  <2>2. torn \in BOOLEAN
    BY TypeParts DEF LogTyped
  <2>3. CASE /\ spool' = spool \cup Whole(evs) /\ UNCHANGED faults
             /\ lost' = lost \cup (ToSet(evs) \ Whole(evs))
             /\ torn' = (torn /\ evs = <<>>)
    <3>1. torn' \in BOOLEAN
      BY <2>3
    <3> HIDE DEF evs
    <3> QED
      BY <2>1, <2>3, <3>1
  <2>4. CASE /\ Fault /\ lost' = lost \cup ToSet(evs)
             /\ \E n \in 0 .. Len(evs) - 1 :
                   /\ spool' = spool \cup Whole(SubSeq(evs, 1, n))
                   /\ torn' \in {TRUE, torn /\ n = 0}
    <3> HIDE DEF evs
    <3>1. PICK n \in 0 .. Len(evs) - 1 : /\ spool' = spool \cup Whole(SubSeq(evs, 1, n))
                                         /\ torn' \in {TRUE, torn /\ n = 0}
      BY <2>4
    <3>2. torn' \in BOOLEAN
      BY <3>1
    <3>3. Whole(SubSeq(evs, 1, n)) \subseteq ToSet(evs)
      BY <2>1
    <3> QED
      BY <2>4, <3>1, <3>2, <3>3
  <2> QED
    BY <2>3, <2>4 DEF Log
<1>5. LogTyped'
  BY <1>1, <1>4, TypeParts DEF LogTyped
<1>6. DialogTyped' /\ SettingsTyped' /\ RestTyped'
  BY <1>2, <1>4, Faulted, TypeParts DEF dialog, settings, DialogTyped, SettingsTyped, RestTyped
<1> QED
  BY <1>2, <1>3, <1>4, <1>5, <1>6, TypeParts, TypeNext DEF dialog, settings

LEMMA CrashStep ==
    ASSUME TypeOK, Crash
    PROVE  /\ TypeOK' /\ Aside /\ cur' = None
           /\ \A g \in Handler : hs'[g] = Free
           /\ routed' = routed /\ spool' = spool /\ msgs' = msgs /\ executed' = executed
           /\ lost' = lost \cup UNION {ToSet(hs[g].evs) : g \in Handler}
<1>1. /\ hs' = [h \in Handler |-> Free] /\ Fault
      /\ UNCHANGED <<settings, spool, torn, msgs, executed>>
      /\ lost' = lost \cup UNION {ToSet(hs[g].evs) : g \in Handler}
  BY DEF Crash
<1>2. ThreadsTyped' /\ \A g \in Handler : hs'[g] = Free
  BY <1>1, FreeIs DEF ThreadsTyped
<1>3. DialogTyped' /\ Aside /\ cur' = None
  <2>1. CASE cur = None
    BY <2>1, StaysAside, TypeParts DEF Crash, dialog, DialogTyped
  <2>2. CASE cur # None
    <3>1. cur \in Handler
      BY <2>2, TypeParts DEF DialogTyped
    <3>2. \E begun : Fails(cur, begun)
      BY <2>2 DEF Crash
    <3> QED
      BY <3>1, <3>2, FailsAside, TypeParts
  <2> QED
    BY <2>1, <2>2
<1>4. LogTyped'
  <2>1. \A g \in Handler : ToSet(hs[g].evs) \subseteq LogEvent
    <3>1. \A g \in Handler : hs[g].evs \in Seq(LogEvent)
      BY TypeParts, ThreadIs
    <3> QED
      BY <3>1, ToSetIs
  <2> QED
    BY <1>1, <2>1, TypeParts DEF LogTyped
<1>5. SettingsTyped' /\ RestTyped'
  BY <1>1, Faulted, TypeParts DEF settings, SettingsTyped, RestTyped
<1> QED
  BY <1>1, <1>2, <1>3, <1>4, <1>5, TypeParts, TypeNext DEF settings

-----------------------------------------------------------------------------
(* What the threads know                                                   *)

\* A thread that has let a request through has read it; the gate holds answers
\* of the model, never errors.
Decided ==
    \A h \in Handler : /\ hs[h].pc = "upstream" => ~Blocks(hs[h].pol, hs[h].body)
                       /\ hs[h].pc = "gate" => hs[h].msg.status = 200

\* The thread that serves the request Claude waits for has what Claude has,
\* decides by it, and keeps the events of what is new in it.
Serves(t) ==
    /\ t.pc \in {"request", "refuse", "upstream", "relay", "gate"}
    /\ t.pc \in {"request", "refuse", "upstream"} => t.body = conv
    /\ t.pc = "refuse" => Blocks(t.pol, conv)
    /\ t.pc \in {"upstream", "relay", "gate"} => ~Blocks(t.pol, conv)
    /\ t.pc # "request" =>
          \A b \in News(conv) : RequestEvent(b, t.pc = "refuse") \in ToSet(t.evs)

Serving == cur # None => Serves(hs[cur])

LEMMA DecidedKept ==
    ASSUME Decided,
           \A g \in Handler : hs'[g] = hs[g] \/ hs'[g].pc \in {"free", "request", "refuse", "log"}
    PROVE  Decided'
  BY DEF Decided

LEMMA ServingKept ==
    ASSUME Serving, cur' = None \/ (cur' = cur /\ conv' = conv /\ hs'[cur] = hs[cur])
    PROVE  Serving'
<1>1. CASE cur' = None
  BY <1>1 DEF Serving
<1>2. CASE cur' # None
  <2>1. cur' = cur /\ conv' = conv /\ hs'[cur] = hs[cur] /\ Serves(hs[cur])
    BY <1>2 DEF Serving
  <2>2. Serves(hs[cur])'
    BY <2>1 DEF Serves
  <2> QED
    BY <2>2 DEF Serving
<1> QED
  BY <1>1, <1>2

\* A request that is refused has something new.
LEMMA RefusedHasNews ==
    ASSUME NEW p, NEW body \in Conversation, Blocks(p, body)
    PROVE  News(body) # {}
  BY NewsIs DEF Blocks

LEMMA HandleRequestDecides ==
    ASSUME TypeOK, Decided, Serving, NEW h \in Handler, HandleRequest(h)
    PROVE  /\ Decided' /\ Serving'
           /\ \A e : e \in ToSet(hs'[h].evs) =>
                     \E b \in News(hs[h].body), blocked \in BOOLEAN : e = RequestEvent(b, blocked)
<1> DEFINE p  == hs'[h].pol
           no == Blocks(p, hs[h].body)
<1>1. /\ ThreadsTyped /\ hs[h].body \in Conversation /\ hs[h].pc = "request"
      /\ conv' = conv /\ cur' = cur
  BY TypeParts, ThreadIs DEF HandleRequest, dialog
<1>2. /\ \A g \in Handler : g # h => hs'[g] = hs[g]
      /\ hs'[h].pc = IF no THEN "refuse" ELSE "upstream"
      /\ hs'[h].body = hs[h].body /\ hs'[h].pol = p
      /\ hs'[h].evs = EventsFromRequest(hs[h].body, no)
  BY HandleRequestStep
<1> HIDE DEF p
<1>3. \A e : e \in ToSet(hs'[h].evs) <=> \E b \in News(hs[h].body) : e = RequestEvent(b, no)
  <2>1. no => News(hs[h].body) # {}
    BY <1>1, RefusedHasNews
  <2>2. no \in BOOLEAN
    BY DEF Blocks
  <2> HIDE DEF no
  <2> QED
    BY <1>1, <1>2, <2>1, <2>2, RequestEventsAre
<1>4. Decided'
  <2>1. hs'[h].pc = "upstream" => ~Blocks(hs'[h].pol, hs'[h].body)
    BY <1>2
  <2>2. hs'[h].pc # "gate"
    BY <1>2
  <2> QED
    BY <1>2, <2>1, <2>2 DEF Decided
<1>5. Serving'
  <2>1. CASE cur = h
    <3>1. hs[h].body = conv /\ cur # None
      BY <1>1, <2>1, ProxyAssumption DEF Serving, Serves
    <3>2. (hs'[h].pc = "refuse") <=> no
      BY <1>2
    <3>3. \A b \in News(conv) : RequestEvent(b, no) \in ToSet(hs'[h].evs)
      BY <1>3, <3>1
    <3>4. \A b \in News(conv) : RequestEvent(b, hs'[h].pc = "refuse") \in ToSet(hs'[h].evs)
      <4>1. CASE no
        <5>1. no = TRUE /\ (hs'[h].pc = "refuse") = TRUE
          BY <3>2, <4>1
        <5> QED
          BY <3>3, <5>1
      <4>2. CASE ~no
        <5>1. no = FALSE /\ (hs'[h].pc = "refuse") = FALSE
          BY <3>2, <4>2 DEF Blocks
        <5> QED
          BY <3>3, <5>1
      <4> QED
        BY <4>1, <4>2
    <3>5. Serves(hs[h])'
      <4>1. hs'[h].pc = "refuse" => Blocks(hs'[h].pol, conv)
        BY <1>2, <3>1
      <4>2. hs'[h].pc = "upstream" => ~Blocks(hs'[h].pol, conv)
        BY <1>2, <3>1
      <4>3. hs'[h].pc \in {"refuse", "upstream"} /\ hs'[h].body = conv
        BY <1>2, <3>1
      <4> QED
        BY <1>1, <3>4, <4>1, <4>2, <4>3 DEF Serves
    <3> QED
      BY <1>1, <2>1, <3>5 DEF Serving
  <2>2. CASE cur # h
    <3>1. cur' = None \/ (cur' = cur /\ conv' = conv /\ hs'[cur] = hs[cur])
      <4>1. cur \in Handler \cup {None}
        BY TypeParts DEF DialogTyped
      <4> QED
        BY <1>1, <1>2, <2>2, <4>1
    <3> QED
      BY <3>1, ServingKept
  <2> QED
    BY <2>1, <2>2
<1> QED
  BY <1>3, <1>4, <1>5 DEF Blocks

LEMMA SendDecides ==
    ASSUME TypeOK, Decided, Serving, NEW h \in Handler, Send(h)
    PROVE  Decided' /\ Serving'
<1> DEFINE t == [Free EXCEPT !.pc = "request", !.body = conv]
<1>1. /\ cur' = h /\ OnlyThread(h, t) /\ conv' = conv
  BY SendStep DEF Send
<1>2. t.pc = "request" /\ t.body = conv
  BY DEF Free
<1> HIDE DEF t
<1>3. hs'[h] = t /\ \A g \in Handler : g # h => hs'[g] = hs[g]
  BY <1>1 DEF OnlyThread
<1>4. Decided'
  BY <1>2, <1>3, DecidedKept
<1>5. Serves(hs[h])'
  BY <1>1, <1>2, <1>3 DEF Serves
<1> QED
  BY <1>1, <1>4, <1>5 DEF Serving

LEMMA UpstreamAnswersDecides ==
    ASSUME TypeOK, Decided, Serving, NEW h \in Handler, UpstreamAnswers(h)
    PROVE  Decided' /\ Serving'
<1>1. /\ conv' = conv /\ cur' = cur
      /\ \A g \in Handler : g # h => hs'[g] = hs[g]
      /\ hs'[h].evs = hs[h].evs /\ hs'[h].pol = hs[h].pol /\ hs'[h].pc \in {"relay", "gate"}
      /\ hs'[h].pc = "gate" => hs'[h].msg.status = 200
  BY UpstreamAnswersStep
<1>2. hs[h].pc = "upstream"
  BY DEF UpstreamAnswers
<1>3. Decided'
  BY <1>1 DEF Decided
<1>4. CASE cur = h
  <2>1. Serves(hs[h])
    BY <1>4, ProxyAssumption DEF Serving
  <2>2. Serves(hs[h])'
    <3>1. ~Blocks(hs[h].pol, conv)
          /\ \A b \in News(conv) : RequestEvent(b, hs[h].pc = "refuse") \in ToSet(hs[h].evs)
      BY <1>2, <2>1 DEF Serves
    <3>2. (hs[h].pc = "refuse") = FALSE /\ (hs'[h].pc = "refuse") = FALSE
      BY <1>1, <1>2
    <3>3. \A b \in News(conv) : RequestEvent(b, hs'[h].pc = "refuse") \in ToSet(hs'[h].evs)
      BY <1>1, <3>1, <3>2
    <3> QED
      BY <1>1, <3>1, <3>3 DEF Serves
  <2> QED
    BY <1>1, <1>3, <1>4, <2>2 DEF Serving
<1>5. CASE cur # h
  <2>1. cur \in Handler \cup {None}
    BY TypeParts DEF DialogTyped
  <2> QED
    BY <1>1, <1>3, <1>5, <2>1, ServingKept
<1> QED
  BY <1>3, <1>4, <1>5

\* A thread of which the request is over does not serve the one Claude waits for.
LEMMA ServedOnly ==
    ASSUME DialogTyped, Serving, NEW h \in Handler, hs[h].pc \in {"free", "log"}
    PROVE  cur # h
  BY ProxyAssumption DEF Serving, Serves

\* The gate's step, and the end of a relay, as the lemmas below take them.
LEMMA AnswerStep ==
    ASSUME TypeOK, Decided, NEW h \in Handler,
           RelayEnds(h) \/ \E n \in 0 .. Len(Wire(hs[h].msg)), sees \in Sight : Gate(h, n, sees)
    PROVE  /\ TypeOK'
           /\ hs[h].pc \in {"relay", "gate"} /\ hs'[h].pc = "log" /\ AnswerEnds(h)
           /\ \A g \in Handler : g # h => hs'[g] = hs[g]
           /\ routed' = routed /\ spool' = spool /\ lost' = lost /\ msgs' = msgs
<1>1. CASE RelayEnds(h)
  BY <1>1, RelayEndsStep DEF RelayEnds, settings, log
<1>2. CASE \E n \in 0 .. Len(Wire(hs[h].msg)), sees \in Sight : Gate(h, n, sees)
  <2>1. PICK n \in 0 .. Len(Wire(hs[h].msg)), sees \in Sight : Gate(h, n, sees)
    BY <1>2
  <2>2. hs[h].msg.status = 200
    <3>1. hs[h].pc = "gate"
      BY <2>1 DEF Gate
    <3> QED
      BY <3>1 DEF Decided
  <2>3. TypeOK' /\ AnswerEnds(h) /\ hs'[h].pc = "log" /\ \A g \in Handler : g # h => hs'[g] = hs[g]
    BY <2>1, <2>2, GateStep
  <2>4. /\ hs[h].pc = "gate"
        /\ routed' = routed /\ spool' = spool /\ lost' = lost /\ msgs' = msgs
    BY <2>1 DEF Gate, settings, log
  <2> QED
    BY <2>3, <2>4
<1> QED
  BY <1>1, <1>2

LEMMA KnowledgeInit == Init => TypeOK /\ Decided /\ Serving
<1> SUFFICES ASSUME Init PROVE TypeOK /\ Decided /\ Serving
  OBVIOUS
<1>1. ThreadsTyped /\ \A h \in Handler : hs[h] = Free
  BY FreeIs DEF Init, ThreadsTyped
<1>2. DialogTyped /\ cur = None
  BY ProxyAssumption DEF Init, DialogTyped, Conversation
<1>3. SettingsTyped /\ LogTyped /\ RestTyped
  <2>1. 0 \in 0 .. MaxToggle /\ 0 \in 0 .. MaxEdit /\ 0 \in 0 .. MaxMsg /\ 0 \in 0 .. MaxFault
    BY ProxyAssumption
  <2>2. SettingsTyped
    BY <2>1 DEF Init, SettingsTyped
  <2>3. LogTyped
    BY DEF Init, LogTyped
  <2>4. RestTyped
    BY <2>1 DEF Init, RestTyped
  <2> QED
    BY <2>2, <2>3, <2>4
<1>4. Decided
  BY <1>1, FreeIs DEF Decided
<1> QED
  BY <1>1, <1>2, <1>3, <1>4, TypeParts DEF Serving

LEMMA KnowledgeStep ==
    ASSUME TypeOK, Decided, Serving, [Next]_vars
    PROVE  TypeOK' /\ Decided' /\ Serving'
<1>1. ThreadsTyped /\ DialogTyped
  BY TypeParts
<1>2. ASSUME NEW t \in Text, Type(t) PROVE TypeOK' /\ Decided' /\ Serving'
  <2>1. hs' = hs /\ cur' = None
    BY <1>1, <1>2 DEF Type, DialogTyped
  <2> QED
    BY <1>2, <2>1, TypeStep, DecidedKept, ServingKept
<1>3. CASE Direct
  <2>1. hs' = hs
    BY <1>3 DEF Direct
  <2> QED
    BY <1>3, <2>1, DirectStep, DecidedKept, ServingKept
<1>4. CASE Esc
  <2>1. hs' = hs
    BY <1>4 DEF Esc
  <2> QED
    BY <1>4, <2>1, EscStep, DecidedKept, ServingKept
<1>5. CASE Toggle
  <2>1. hs' = hs
    BY <1>5 DEF Toggle
  <2> QED
    BY <1>5, <2>1, ToggleStep, DecidedKept, ServingKept
<1>6. CASE EditPolicy
  <2>1. hs' = hs /\ conv' = conv /\ cur' = cur
    BY <1>6 DEF EditPolicy, dialog
  <2> QED
    BY <1>6, <2>1, EditPolicyStep, DecidedKept, ServingKept
<1>7. CASE Crash
  <2>1. TypeOK' /\ cur' = None /\ \A g \in Handler : hs'[g].pc = "free"
    BY <1>7, CrashStep, FreeIs
  <2> QED
    BY <2>1, DecidedKept, ServingKept
<1>8. ASSUME NEW h \in Handler, Send(h) PROVE TypeOK' /\ Decided' /\ Serving'
  BY <1>8, SendStep, SendDecides
<1>9. ASSUME NEW h \in Handler, HandleRequest(h) PROVE TypeOK' /\ Decided' /\ Serving'
  <2>1. TypeOK'
    BY <1>9, HandleRequestStep
  <2> QED
    BY <1>9, <2>1, HandleRequestDecides
<1>10. ASSUME NEW h \in Handler, UpstreamAnswers(h) PROVE TypeOK' /\ Decided' /\ Serving'
  <2>1. TypeOK'
    BY <1>10, UpstreamAnswersStep
  <2> QED
    BY <1>10, <2>1, UpstreamAnswersDecides
<1>11. ASSUME NEW h \in Handler,
              TypeOK', hs'[h].pc \in {"free", "log"},
              \A g \in Handler : g # h => hs'[g] = hs[g],
              cur = h => cur' = None, cur # h => conv' = conv /\ cur' = cur
       PROVE  TypeOK' /\ Decided' /\ Serving'
  <2>1. Decided'
    BY <1>11, DecidedKept
  <2>2. cur' = None \/ (cur' = cur /\ conv' = conv /\ hs'[cur] = hs[cur])
    <3>1. cur \in Handler \cup {None}
      BY <1>1 DEF DialogTyped
    <3> QED
      BY <1>11, <3>1
  <2> QED
    BY <1>11, <2>1, <2>2, ServingKept
<1>12. ASSUME NEW h \in Handler, Refuse(h) PROVE TypeOK' /\ Decided' /\ Serving'
  <2>1. /\ TypeOK' /\ hs'[h].pc = "log" /\ \A g \in Handler : g # h => hs'[g] = hs[g]
        /\ cur = h => cur' = None
        /\ cur # h => conv' = conv /\ cur' = cur
    BY <1>12, RefuseStep
  <2> QED
    BY <1>11, <2>1
<1>13. ASSUME NEW h \in Handler, UpstreamFails(h) \/ RelayBreaks(h)
       PROVE  TypeOK' /\ Decided' /\ Serving'
  <2>1. /\ TypeOK' /\ hs'[h].pc = "free" /\ \A g \in Handler : g # h => hs'[g] = hs[g]
        /\ cur = h => cur' = None
        /\ cur # h => conv' = conv /\ cur' = cur
    BY <1>13, ThreadEnds, FreeIs DEF OnlyThread
  <2> QED
    BY <1>11, <2>1
<1>14. ASSUME NEW h \in Handler,
              RelayEnds(h) \/ \E n \in 0 .. Len(Wire(hs[h].msg)), sees \in Sight : Gate(h, n, sees)
       PROVE  TypeOK' /\ Decided' /\ Serving'
  <2>1. TypeOK' /\ AnswerEnds(h) /\ hs'[h].pc = "log" /\ \A g \in Handler : g # h => hs'[g] = hs[g]
    BY <1>14, AnswerStep
  <2>2. /\ cur = h => cur' = None
        /\ cur # h => conv' = conv /\ cur' = cur
    BY <2>1 DEF AnswerEnds, SentOn, SentBy, Replaced, NotSent, Delivered
  <2> QED
    BY <1>11, <2>1, <2>2
<1>15. ASSUME NEW h \in Handler, Log(h) PROVE TypeOK' /\ Decided' /\ Serving'
  <2>1. /\ TypeOK' /\ hs'[h].pc = "free" /\ hs[h].pc = "log"
        /\ \A g \in Handler : g # h => hs'[g] = hs[g]
        /\ conv' = conv /\ cur' = cur
    BY <1>15, LogStep, FreeIs DEF OnlyThread
  <2>2. cur # h
    BY <1>1, <2>1, ServedOnly
  <2> QED
    BY <1>11, <2>1, <2>2
<1>16. CASE UNCHANGED vars
  <2>1. hs' = hs /\ conv' = conv /\ cur' = cur
    BY <1>16 DEF vars, dialog
  <2>2. TypeOK'
    BY <1>16 DEF vars, dialog, settings, log, TypeOK
  <2> QED
    BY <2>1, <2>2, DecidedKept, ServingKept
<1> QED
  BY <1>2, <1>3, <1>4, <1>5, <1>6, <1>7, <1>8, <1>9, <1>10, <1>12, <1>13, <1>14, <1>15, <1>16
     DEF Next

-----------------------------------------------------------------------------
(* What an answer answers                                                  *)

\* NewBlocks, of any conversation.
Before(c, j) ==
    {b \in UNION {ToSet(c[i].blocks) :
                  i \in {i \in 1 .. j - 1 : \A k \in i .. j - 1 : c[k].role = "user"}} :
     ~IsContext(b)}

LEMMA BeforeIs == ASSUME NEW j PROVE NewBlocks(j) = Before(conv, j)
  BY DEF NewBlocks, AnsweredBy, Before

\* A message that comes later does not change what an answer has answered.
LEMMA BeforeGrown ==
    ASSUME NEW c \in Conversation, NEW d \in Conversation, Grown(c, d),
           NEW j \in 1 .. Len(c) + 1
    PROVE  Before(d, j) = Before(c, j)
<1>1. Len(c) \in Nat
  BY MessageIs
<1>2. \A k \in 1 .. j - 1 : d[k].role = c[k].role /\ d[k].blocks = c[k].blocks
  BY <1>1 DEF Grown
<1>3. {i \in 1 .. j - 1 : \A k \in i .. j - 1 : d[k].role = "user"}
      = {i \in 1 .. j - 1 : \A k \in i .. j - 1 : c[k].role = "user"}
  <2>1. \A i \in 1 .. j - 1 : \A k \in i .. j - 1 : k \in 1 .. j - 1
    BY <1>1
  <2> QED
    BY <1>2, <2>1
<1> QED
  BY <1>2, <1>3 DEF Before

\* What the next message answers is what is new now.
LEMMA BeforeNext ==
    ASSUME NEW c \in Conversation
    PROVE  Before(c, Len(c) + 1) = News(c)
<1>1. Len(c) \in Nat
  BY MessageIs
<1>2. Len(c) + 1 - 1 = Len(c)
  BY <1>1
<1>3. Trailing(c) = {i \in 1 .. Len(c) : \A k \in i .. Len(c) : c[k].role = "user"}
  BY TrailingIs
<1> QED
  BY <1>2, <1>3 DEF Before, News

Answer(m) == m.role = "assistant" /\ m.by \in Passed \cup {"gate", "proxy"}

\* The messages of the proxy are new, or were there and have answered the same.
LEMMA AnswerIsNew ==
    ASSUME NEW a, Adds(a), DialogTyped, NEW j \in 1 .. Len(conv'), Answer(conv'[j])
    PROVE  \/ /\ j \in 1 .. Len(conv) /\ conv'[j] = conv[j] /\ Answer(conv[j])
              /\ Before(conv', j) = Before(conv, j)
           \/ j = Len(conv) + 1 /\ conv'[j] = a /\ Before(conv', j) = News(conv)
<1>1. /\ conv \in Conversation /\ conv' \in Conversation /\ Grown(conv, conv')
      /\ Len(conv) \in Nat
  BY MessageIs DEF Adds, DialogTyped
<1>2. CASE j \in 1 .. Len(conv)
  <2>1. conv[j].role = conv'[j].role
    BY <1>1, <1>2 DEF Grown
  <2>2. conv'[j] = conv[j]
    BY <1>1, <1>2, <2>1 DEF Grown, Answer
  <2>3. j \in 1 .. Len(conv) + 1
    BY <1>1, <1>2
  <2> QED
    BY <1>1, <1>2, <2>2, <2>3, BeforeGrown
<1>3. CASE j \notin 1 .. Len(conv)
  <2>1. j > Len(conv)
    <3>1. Len(conv') \in Nat
      BY <1>1, MessageIs
    <3> QED
      BY <1>1, <1>3, <3>1
  <2>2. j = Len(conv) + 1 /\ conv'[j] = a
    BY <2>1 DEF Adds, Answer
  <2>3. Before(conv', j) = News(conv)
    <3>1. j \in 1 .. Len(conv) + 1
      BY <1>1, <2>2
    <3> QED
      BY <1>1, <2>2, <3>1, BeforeGrown, BeforeNext
  <2> QED
    BY <2>2, <2>3
<1> QED
  BY <1>2, <1>3

\* RefusesTheNew, message by message.
RefusedRight(m, new) ==
    (m.by = "proxy") <=> (m.pol.enabled /\ \E b \in new : b.text \in m.pol.block)

Refused == \A j \in 1 .. Len(conv) : Answer(conv[j]) => RefusedRight(conv[j], Before(conv, j))

LEMMA RefusedIs == DialogTyped => (Refused <=> RefusesTheNew)
<1> SUFFICES ASSUME DialogTyped PROVE Refused <=> RefusesTheNew
  OBVIOUS
<1>1. DOMAIN conv = 1 .. Len(conv)
  BY MessageIs DEF DialogTyped
<1>2. \A j : NewBlocks(j) = Before(conv, j)
  BY BeforeIs
<1> QED
  BY <1>1, <1>2 DEF Refused, RefusesTheNew, RefusedRight, Answer, OfProxy, Passed

\* A message that is no answer, or one that is right, keeps them right.
LEMMA RefusedKept ==
    ASSUME DialogTyped, Refused, NEW a, Adds(a),
           conv' # conv /\ Answer(a) => RefusedRight(a, News(conv))
    PROVE  Refused'
<1>1. CASE conv' = conv
  BY <1>1 DEF Refused
<1>2. CASE conv' # conv
  <2> SUFFICES ASSUME NEW j \in 1 .. Len(conv'), Answer(conv'[j])
               PROVE  RefusedRight(conv'[j], Before(conv', j))
    BY DEF Refused
  <2> QED
    BY <1>2, AnswerIsNew DEF Refused
<1> QED
  BY <1>1, <1>2

LEMMA RefusedKeptAside ==
    ASSUME DialogTyped, Refused, Aside
    PROVE  Refused'
<1>1. PICK a : a.by \in {"direct", "cut"} /\ Adds(a)
  BY DEF Aside
<1>2. ~Answer(a)
  BY <1>1 DEF Answer, Passed
<1> QED
  BY <1>1, <1>2, RefusedKept

\* What a policy decides of a conversation is what RefusesTheNew asks.
LEMMA BlocksIs ==
    ASSUME NEW p, NEW body \in Conversation
    PROVE  Blocks(p, body) <=> (p.enabled /\ \E b \in News(body) : b.text \in p.block)
  BY NewsIs DEF Blocks

LEMMA DeliveredRight ==
    ASSUME TypeOK, Serving, Refused, NEW h \in Handler, NEW a, Delivered(h, a),
           a.pol = hs[h].pol,
           \/ a.by = "proxy" /\ hs[h].pc = "refuse"
           \/ a.by \in Passed \cup {"gate"} /\ hs[h].pc \in {"relay", "gate"}
    PROVE  Refused'
<1>1. DialogTyped /\ conv \in Conversation
  BY TypeParts DEF DialogTyped
<1>2. ASSUME conv' # conv PROVE RefusedRight(a, News(conv))
  <2>1. cur = h /\ cur # None
    BY <1>2, ProxyAssumption DEF Delivered
  <2>2. Serves(hs[h])
    BY <2>1 DEF Serving
  <2>3. (a.by = "proxy") <=> Blocks(a.pol, conv)
    BY <2>2 DEF Serves, Passed
  <2> QED
    BY <1>1, <2>3, BlocksIs DEF RefusedRight
<1> QED
  BY <1>1, <1>2, RefusedKept DEF Delivered

LEMMA StepsAside ==
    ASSUME TypeOK, Decided, [Next]_vars
    PROVE  \/ Aside
           \/ \E h \in Handler :
                 \/ Refuse(h)
                 \/ RelayEnds(h) \/ \E n \in 0 .. Len(Wire(hs[h].msg)), sees \in Sight : Gate(h, n, sees)
<1>1. DialogTyped
  BY TypeParts
<1>2. ASSUME conv' = conv PROVE Aside
  BY <1>1, <1>2, StaysAside
<1>3. CASE Toggle
  <2>1. conv' \in Conversation /\ Grown(conv, conv') /\ Len(conv') = Len(conv)
    BY <1>3, ToggleStep, TypeParts, TypeNext DEF DialogTyped
  <2>2. Len(conv) \in Nat
    BY <1>1, MessageIs DEF DialogTyped
  <2>3. Adds(Cut)
    BY <2>1, <2>2 DEF Adds
  <2> QED
    BY <2>3, CutIs DEF Aside
<1>4. \A h \in Handler : Send(h) \/ HandleRequest(h) \/ UpstreamAnswers(h) \/ Log(h) => conv' = conv
  BY DEF Send, HandleRequest, UpstreamAnswers, Log, dialog
<1>5. EditPolicy => conv' = conv
  BY DEF EditPolicy, dialog
<1>6. \A h \in Handler : UpstreamFails(h) \/ RelayBreaks(h) => Aside
  BY ThreadEnds
<1>7. (\E t \in Text : Type(t)) \/ Direct \/ Esc \/ Crash => Aside
  BY TypeStep, DirectStep, EscStep, CrashStep
<1>8. UNCHANGED vars => conv' = conv
  BY DEF vars, dialog
<1> QED
  BY <1>2, <1>3, <1>4, <1>5, <1>6, <1>7, <1>8 DEF Next

LEMMA RefusedStep ==
    ASSUME TypeOK, Decided, Serving, Refused, [Next]_vars
    PROVE  Refused'
<1>1. DialogTyped
  BY TypeParts
<1>2. CASE Aside
  BY <1>1, <1>2, RefusedKeptAside
<1>3. ASSUME NEW h \in Handler, Refuse(h) PROVE Refused'
  <2> DEFINE a == Assistant("proxy", 0, hs[h].pol, <<TextBlock("cancel")>>)
  <2>1. a.by = "proxy" /\ a.pol = hs[h].pol /\ hs[h].pc = "refuse"
    BY <1>3 DEF Assistant, Refuse
  <2>2. /\ a \in AssistantMessage /\ Adds(a) /\ Runs(a) = {}
        /\ cur # h => conv' = conv /\ cur' = cur /\ executed' = executed
        /\ cur = h => /\ cur' = None
                      /\ Len(conv) + 1 \in 1 .. Len(conv') /\ conv'[Len(conv) + 1] = a
                      /\ executed' = executed
    BY <1>3, RefuseStep
  <2> HIDE DEF a
  <2>3. Delivered(h, a)
    BY <2>2 DEF Delivered
  <2> QED
    BY <2>1, <2>3, DeliveredRight
<1>4. ASSUME NEW h \in Handler,
             RelayEnds(h) \/ \E n \in 0 .. Len(Wire(hs[h].msg)), sees \in Sight : Gate(h, n, sees)
      PROVE  Refused'
  <2>1. AnswerEnds(h) /\ hs[h].pc \in {"relay", "gate"}
    BY <1>4, AnswerStep
  <2>2. PICK es : SentOn(h, es) \/ Replaced(h) \/ NotSent(h, es)
    BY <2>1 DEF AnswerEnds
  <2>3. CASE SentOn(h, es)
    <3>0. PICK by \in Passed : SentBy(h, es, by)
      BY <2>3 DEF SentOn
    <3> DEFINE a == Assistant(by, hs[h].msg.id, hs[h].pol, hs[h].msg.blocks)
    <3>1. Delivered(h, a) /\ a.by = by /\ a.pol = hs[h].pol
      BY <3>0 DEF SentBy, Assistant
    <3> HIDE DEF a
    <3> QED
      BY <2>1, <3>1, DeliveredRight
  <2>4. CASE Replaced(h)
    BY <2>1, <2>4, DeliveredRight DEF Replaced
  <2>5. CASE NotSent(h, es)
    BY <1>1, <2>5, RefusedKeptAside DEF NotSent
  <2> QED
    BY <2>2, <2>3, <2>4, <2>5
<1> QED
  BY <1>2, <1>3, <1>4, StepsAside

-----------------------------------------------------------------------------
(* What the log may tell                                                   *)

\* The event e tells of a message that was unanswered while the proxy was on.
FromOn(c, e) ==
    \E i \in 1 .. Len(c) :
        /\ c[i].role = "user" /\ c[i].on
        /\ \E b \in ToSet(c[i].blocks) : RequestEvent(b, e.blocked) = e

RequestKind(e) == e.kind \in {"user_prompt", "tool_result"}

\* What is told, or will be.
Written == spool \cup UNION {ToSet(hs[h].evs) : h \in Handler}

\* What is new in a request that has not been read yet is part of the conversation,
\* and the proxy was on for it.
Asked(c, body) ==
    \A i \in Trailing(body) :
        /\ i \in 1 .. Len(c) /\ c[i].role = "user" /\ c[i].on
        /\ c[i].blocks = body[i].blocks

OnlyOn ==
    /\ routed => \A i \in Trailing(conv) : conv[i].on
    /\ \A h \in Handler : hs[h].pc = "request" => Asked(conv, hs[h].body)
    /\ \A e \in Written : RequestKind(e) => FromOn(conv, e)

LEMMA OnlyOnImplies == DialogTyped /\ OnlyOn => OffStaysOff
<1> SUFFICES ASSUME DialogTyped, OnlyOn PROVE OffStaysOff
  OBVIOUS
<1>1. DOMAIN conv = 1 .. Len(conv)
  BY MessageIs DEF DialogTyped
<1> QED
  BY <1>1 DEF OnlyOn, OffStaysOff, Written, RequestKind, FromOn

LEMMA OnGrown ==
    ASSUME NEW c \in Conversation, NEW d \in Conversation, Grown(c, d)
    PROVE  /\ \A e : FromOn(c, e) => FromOn(d, e)
           /\ \A body : Asked(c, body) => Asked(d, body)
<1>1. Len(c) \in Nat /\ Len(d) \in Nat
  BY MessageIs
<1>2. \A i \in 1 .. Len(c) : /\ i \in 1 .. Len(d) /\ d[i].role = c[i].role /\ d[i].blocks = c[i].blocks
                             /\ c[i].role = "user" /\ c[i].on => d[i].on
  BY <1>1 DEF Grown
<1> QED
  BY <1>2 DEF FromOn, Asked

LEMMA TrailingGrown ==
    ASSUME NEW c \in Conversation, NEW d \in Conversation, Grown(c, d),
           NEW i \in Trailing(d), i \in 1 .. Len(c)
    PROVE  i \in Trailing(c)
<1>1. Len(c) \in Nat /\ Len(d) \in Nat /\ Len(c) <= Len(d)
  BY MessageIs DEF Grown
<1>2. \A k \in i .. Len(d) : d[k].role = "user"
  BY TrailingIs
<1>3. \A k \in i .. Len(c) : c[k].role = "user"
  <2>1. \A k \in i .. Len(c) : k \in i .. Len(d) /\ k \in 1 .. Len(c)
    BY <1>1
  <2> QED
    BY <1>2, <2>1 DEF Grown
<1> QED
  BY <1>3, TrailingIs

\* What is new stays what the proxy was on for while it is on.
LEMMA RoutedKept ==
    ASSUME DialogTyped, OnlyOn, routed' = routed, NEW a \in AssistantMessage, Adds(a)
    PROVE  routed' => \A i \in Trailing(conv') : conv'[i].on
<1> SUFFICES ASSUME routed, NEW i \in Trailing(conv')
             PROVE  conv'[i].on
  OBVIOUS
<1>1. /\ conv \in Conversation /\ conv' \in Conversation /\ Grown(conv, conv')
      /\ Len(conv) \in Nat
  BY MessageIs DEF DialogTyped, Adds
<1>2. /\ i \in 1 .. Len(conv') /\ conv'[i].role = "user"
  <2>1. i \in 1 .. Len(conv') /\ \A k \in i .. Len(conv') : conv'[k].role = "user"
    BY <1>1, TrailingIs
  <2>2. i \in i .. Len(conv')
    BY <1>1, <2>1, MessageIs
  <2> QED
    BY <2>1, <2>2
<1>3. CASE i \in 1 .. Len(conv)
  <2>1. i \in Trailing(conv)
    BY <1>1, <1>3, TrailingGrown
  <2>2. conv[i].on /\ conv[i].role = "user"
    BY <1>1, <1>2, <1>3, <2>1 DEF OnlyOn, Grown
  <2> QED
    BY <1>1, <1>3, <2>2 DEF Grown
<1>4. CASE i \notin 1 .. Len(conv)
  <2>1. i > Len(conv)
    BY <1>1, <1>2, <1>4, MessageIs
  <2>2. conv'[i] # a
    BY <1>2 DEF AssistantMessage
  <2> QED
    BY <1>2, <2>1, <2>2 DEF Adds
<1> QED
  BY <1>3, <1>4

\* Nobody has sent a request, and what is written anew is of other kinds.
LEMMA OnlyOnKept ==
    ASSUME DialogTyped, DialogTyped', OnlyOn, Grown(conv, conv'),
           routed' => \A i \in Trailing(conv') : conv'[i].on,
           \A h \in Handler : hs'[h].pc = "request" => hs'[h] = hs[h],
           \A e \in Written' : RequestKind(e) => e \in Written
    PROVE  OnlyOn'
<1>1. conv \in Conversation /\ conv' \in Conversation
  BY DEF DialogTyped
<1>2. \A e \in Written' : RequestKind(e) => FromOn(conv', e)
  BY <1>1, OnGrown DEF OnlyOn
<1>3. \A h \in Handler : hs'[h].pc = "request" => Asked(conv', hs'[h].body)
  BY <1>1, OnGrown DEF OnlyOn
<1> QED
  BY <1>2, <1>3 DEF OnlyOn, RequestKind

\* Where something is written anew, and where a request begins.
LEMMA StepsWrite ==
    ASSUME TypeOK, Decided, [Next]_vars
    PROVE  /\ \/ Written' \subseteq Written
              \/ \E h \in Handler :
                    \/ HandleRequest(h)
                    \/ RelayEnds(h) \/ \E n \in 0 .. Len(Wire(hs[h].msg)), sees \in Sight : Gate(h, n, sees)
           /\ \/ \A h \in Handler : hs'[h].pc = "request" => hs'[h] = hs[h]
              \/ \E h \in Handler : Send(h)
<1> DEFINE Same == \A h \in Handler : hs'[h].pc = "request" => hs'[h] = hs[h]
<1>1. ASSUME hs' = hs, spool' = spool PROVE Written' \subseteq Written /\ Same
  BY <1>1 DEF Written
<1>2. ASSUME NEW h \in Handler, hs'[h].pc # "request", \A g \in Handler : g # h => hs'[g] = hs[g]
      PROVE  /\ Same
             /\ ToSet(hs'[h].evs) \subseteq ToSet(hs[h].evs) /\ spool' \subseteq Written =>
                    Written' \subseteq Written
  <2>1. Same
    BY <1>2
  <2>2. ASSUME ToSet(hs'[h].evs) \subseteq ToSet(hs[h].evs), spool' \subseteq Written,
               NEW e \in Written'
        PROVE  e \in Written
    <3>1. e \in spool' \/ \E g \in Handler : e \in ToSet(hs'[g].evs)
      BY DEF Written
    <3>2. ASSUME NEW g \in Handler, e \in ToSet(hs'[g].evs) PROVE e \in Written
      <4>1. e \in ToSet(hs[g].evs)
        BY <1>2, <2>2, <3>2
      <4> QED
        BY <4>1 DEF Written
    <3> QED
      BY <2>2, <3>1, <3>2
  <2> QED
    BY <2>1, <2>2
<1>3. (\E t \in Text : Type(t)) \/ Direct \/ Esc \/ Toggle \/ EditPolicy \/ UNCHANGED vars =>
          hs' = hs /\ spool' = spool
  BY DEF Type, Direct, Esc, Toggle, EditPolicy, log, vars
<1>4. ToSet(Free.evs) = {} /\ Free.pc # "request"
  BY FreeIs DEF ToSet
<1>5. CASE Crash
  <2>1. spool' = spool /\ \A g \in Handler : hs'[g] = Free
    BY <1>5, CrashStep
  <2> QED
    BY <1>4, <2>1 DEF Written
<1>6. ASSUME NEW h \in Handler, UpstreamFails(h) \/ RelayBreaks(h) \/ Log(h)
      PROVE  Written' \subseteq Written /\ Same
  <2>1. /\ hs'[h] = Free /\ \A g \in Handler : g # h => hs'[g] = hs[g]
        /\ spool' \subseteq spool \cup ToSet(hs[h].evs)
    BY <1>6, ThreadEnds, LogStep DEF OnlyThread
  <2>2. spool' \subseteq Written
    BY <2>1 DEF Written
  <2> QED
    BY <1>2, <1>4, <2>1, <2>2
<1>7. ASSUME NEW h \in Handler, Refuse(h) \/ UpstreamAnswers(h)
      PROVE  Written' \subseteq Written /\ Same
  <2>1. /\ hs'[h].evs = hs[h].evs /\ hs'[h].pc # "request" /\ spool' = spool
        /\ \A g \in Handler : g # h => hs'[g] = hs[g]
    <3>1. CASE Refuse(h)
      <4>1. spool' = spool
        BY <3>1 DEF Refuse, log
      <4>2. /\ hs'[h].evs = hs[h].evs /\ hs'[h].pc = "log"
            /\ \A g \in Handler : g # h => hs'[g] = hs[g]
        BY <3>1, RefuseStep
      <4> QED
        BY <4>1, <4>2
    <3>2. CASE UpstreamAnswers(h)
      BY <3>2, UpstreamAnswersStep
    <3> QED
      BY <1>7, <3>1, <3>2
  <2>2. spool' \subseteq Written
    BY <2>1 DEF Written
  <2> QED
    BY <1>2, <2>1, <2>2
<1>8. ASSUME NEW h \in Handler, Send(h)
      PROVE  Written' \subseteq Written
  <2>1. /\ ToSet(hs'[h].evs) = {} /\ spool' = spool
        /\ \A g \in Handler : g # h => hs'[g] = hs[g]
    <3>1. spool' = spool
      BY <1>8 DEF Send, log
    <3>2. OnlyThread(h, [Free EXCEPT !.pc = "request", !.body = conv])
      BY <1>8, SendStep
    <3>3. [Free EXCEPT !.pc = "request", !.body = conv].evs = Free.evs
      BY DEF Free
    <3> QED
      BY <1>4, <3>1, <3>2, <3>3 DEF OnlyThread
  <2> QED
    BY <2>1 DEF Written
<1>9. ASSUME NEW h \in Handler, HandleRequest(h) PROVE Same
  <2>1. hs'[h].pc # "request" /\ \A g \in Handler : g # h => hs'[g] = hs[g]
    BY <1>9, HandleRequestStep
  <2> QED
    BY <1>2, <2>1
<1>10. ASSUME NEW h \in Handler,
              RelayEnds(h) \/ \E n \in 0 .. Len(Wire(hs[h].msg)), sees \in Sight : Gate(h, n, sees)
       PROVE  Same
  <2>1. hs'[h].pc # "request" /\ \A g \in Handler : g # h => hs'[g] = hs[g]
    BY <1>10, AnswerStep
  <2> QED
    BY <1>2, <2>1
<1> HIDE DEF Same
<1> QED
  BY <1>1, <1>3, <1>5, <1>6, <1>7, <1>8, <1>9, <1>10 DEF Next, Same

LEMMA HandleRequestTells ==
    ASSUME TypeOK, Decided, Serving, OnlyOn, NEW h \in Handler, HandleRequest(h),
           NEW e \in Written', e \notin Written
    PROVE  /\ RequestKind(e) /\ FromOn(conv, e)
           /\ \E b \in UserBlock, blocked \in BOOLEAN : e = RequestEvent(b, blocked)
<1>1. ThreadsTyped /\ hs[h].body \in Conversation /\ conv \in Conversation
  BY TypeParts, ThreadIs DEF DialogTyped
<1>2. /\ \A g \in Handler : g # h => hs'[g] = hs[g]
      /\ \A f : f \in ToSet(hs'[h].evs) =>
                \E b \in News(hs[h].body), blocked \in BOOLEAN : f = RequestEvent(b, blocked)
  BY HandleRequestStep, HandleRequestDecides
<1>3. spool' = spool /\ hs[h].pc = "request"
  BY DEF HandleRequest, log
<1>4. e \in ToSet(hs'[h].evs)
  BY <1>2, <1>3 DEF Written
<1>5. PICK b \in News(hs[h].body), blocked \in BOOLEAN : e = RequestEvent(b, blocked)
  BY <1>2, <1>4
<1>6. b \in UserBlock
  BY <1>1, NewsIs
<1>7. RequestEvent(b, e.blocked) = e
  <2>1. CASE b.type = "tool_result"
    BY <1>5, <2>1 DEF RequestEvent
  <2>2. CASE b.type # "tool_result"
    BY <1>5, <2>2 DEF RequestEvent, Event
  <2> QED
    BY <2>1, <2>2
<1>8. PICK i \in Trailing(hs[h].body) : b \in ToSet(hs[h].body[i].blocks)
  BY DEF News
<1>9. i \in 1 .. Len(conv) /\ conv[i].role = "user" /\ conv[i].on /\ conv[i].blocks = hs[h].body[i].blocks
  BY <1>3 DEF OnlyOn, Asked
<1>10. FromOn(conv, e)
  BY <1>7, <1>8, <1>9 DEF FromOn
<1>11. RequestKind(e)
  BY <1>5, <1>6, UserBlockIs DEF RequestKind
<1> QED
  BY <1>5, <1>6, <1>10, <1>11

\* What an answer's end writes anew.
LEMMA AnswerWrites ==
    ASSUME TypeOK, Decided, NEW h \in Handler,
           RelayEnds(h) \/ \E n \in 0 .. Len(Wire(hs[h].msg)), sees \in Sight : Gate(h, n, sees),
           NEW es, ToSet(hs'[h].evs) = ToSet(hs[h].evs) \cup ToSet(es)
    PROVE  Written' = Written \cup ToSet(es)
<1>1. spool' = spool /\ \A g \in Handler : g # h => hs'[g] = hs[g]
  BY AnswerStep
<1> QED
  BY <1>1 DEF Written

LEMMA OnlyOnStep ==
    ASSUME TypeOK, Decided, Serving, OnlyOn, [Next]_vars
    PROVE  OnlyOn'
<1>1. DialogTyped /\ DialogTyped' /\ conv \in Conversation /\ conv' \in Conversation
  BY KnowledgeStep, TypeParts, TypeNext DEF DialogTyped
<1>2. Grown(conv, conv')
  <2>1. CASE Aside
    BY <2>1 DEF Aside, Adds
  <2>2. ASSUME NEW h \in Handler, Refuse(h) PROVE Grown(conv, conv')
    BY <2>2, RefuseStep DEF Adds
  <2>3. ASSUME NEW h \in Handler,
               RelayEnds(h) \/ \E n \in 0 .. Len(Wire(hs[h].msg)), sees \in Sight : Gate(h, n, sees)
        PROVE  Grown(conv, conv')
    BY <2>3, AnswerStep DEF AnswerEnds, SentOn, SentBy, Replaced, NotSent, Delivered, Aside, Adds
  <2> QED
    BY <2>1, <2>2, <2>3, StepsAside
<1>3. routed' => \A i \in Trailing(conv') : conv'[i].on
  <2>1. CASE Toggle
    <3>1. Trailing(conv') \subseteq Trailing(conv)
      <4>1. Len(conv') = Len(conv)
        BY <2>1, ToggleStep
      <4>2. \A i \in Trailing(conv') : i \in 1 .. Len(conv)
        BY <1>1, <4>1, TrailingIs
      <4> QED
        BY <1>1, <1>2, <4>2, TrailingGrown
    <3> QED
      BY <2>1, <3>1, ToggleStep
  <2>2. CASE ~Toggle
    <3>1. routed' = routed
      <4>1. ASSUME NEW h \in Handler,
                   \/ Send(h) \/ HandleRequest(h) \/ Refuse(h) \/ UpstreamFails(h)
                   \/ UpstreamAnswers(h) \/ RelayEnds(h) \/ RelayBreaks(h)
                   \/ \E n \in 0 .. Len(Wire(hs[h].msg)), sees \in Sight : Gate(h, n, sees)
                   \/ Log(h)
            PROVE  routed' = routed
        BY <4>1 DEF Send, HandleRequest, Refuse, UpstreamFails, UpstreamAnswers, RelayEnds,
               RelayBreaks, Gate, Log, settings
      <4>2. (\E t \in Text : Type(t)) \/ Direct \/ Esc \/ EditPolicy \/ Crash \/ UNCHANGED vars =>
                routed' = routed
        BY DEF Type, Direct, Esc, EditPolicy, Crash, settings, vars
      <4>3. UNCHANGED vars => routed' = routed
        BY <4>2
      <4>4. Next => routed' = routed
        BY <2>2, <4>1, <4>2 DEF Next
      <4> QED
        BY <4>3, <4>4
    <3>2. \E a \in AssistantMessage : Adds(a)
      <4>1. CASE Aside
        BY <4>1 DEF Aside
      <4>2. ASSUME NEW h \in Handler, Refuse(h) PROVE \E a \in AssistantMessage : Adds(a)
        BY <4>2, RefuseStep
      <4>3. ASSUME NEW h \in Handler,
                   RelayEnds(h) \/ \E n \in 0 .. Len(Wire(hs[h].msg)), sees \in Sight : Gate(h, n, sees)
            PROVE  \E a \in AssistantMessage : Adds(a)
        BY <4>3, AnswerStep DEF AnswerEnds, SentOn, SentBy, Replaced, NotSent, Delivered, Aside
      <4> QED
        BY <4>1, <4>2, <4>3, StepsAside
    <3> QED
      BY <1>1, <3>1, <3>2, RoutedKept
  <2> QED
    BY <2>1, <2>2
<1>4. ASSUME NEW h \in Handler, Send(h) PROVE OnlyOn'
  <2>1. /\ conv' = conv /\ routed' = routed /\ routed /\ spool' = spool
    BY <1>4 DEF Send, settings, log
  <2>2. OnlyThread(h, [Free EXCEPT !.pc = "request", !.body = conv])
    BY <1>4, SendStep
  <2>3. hs'[h].body = conv /\ ToSet(hs'[h].evs) = {} /\ \A g \in Handler : g # h => hs'[g] = hs[g]
    <3>1. ToSet(Free.evs) = {}
      BY FreeIs DEF ToSet
    <3>2. /\ [Free EXCEPT !.pc = "request", !.body = conv].evs = Free.evs
          /\ [Free EXCEPT !.pc = "request", !.body = conv].body = conv
      BY DEF Free
    <3> QED
      BY <2>2, <3>1, <3>2 DEF OnlyThread
  <2>4. Asked(conv, conv)
    <3>1. \A i \in Trailing(conv) : i \in 1 .. Len(conv) /\ conv[i].role = "user"
      BY <1>1, TrailingIs, MessageIs DEF UserMessage
    <3> QED
      BY <2>1, <3>1 DEF OnlyOn, Asked
  <2>5. \A g \in Handler : hs'[g].pc = "request" => Asked(conv, hs'[g].body)
    BY <2>3, <2>4 DEF OnlyOn
  <2>6. Written' \subseteq Written
    BY <2>1, <2>3 DEF Written
  <2> QED
    BY <1>3, <2>1, <2>5, <2>6 DEF OnlyOn
<1>5. ASSUME NEW h \in Handler, HandleRequest(h) PROVE OnlyOn'
  <2>1. conv' = conv /\ hs'[h].pc # "request" /\ \A g \in Handler : g # h => hs'[g] = hs[g]
    <3>1. conv' = conv
      BY <1>5 DEF HandleRequest, dialog
    <3>2. hs'[h].pc \in {"refuse", "upstream"} /\ \A g \in Handler : g # h => hs'[g] = hs[g]
      BY <1>5, HandleRequestStep
    <3> QED
      BY <3>1, <3>2
  <2>2. \A e \in Written' : RequestKind(e) => FromOn(conv, e)
    BY <1>5, HandleRequestTells DEF OnlyOn
  <2>3. \A g \in Handler : hs'[g].pc = "request" => Asked(conv, hs'[g].body)
    BY <2>1 DEF OnlyOn
  <2> QED
    BY <1>3, <2>1, <2>2, <2>3 DEF OnlyOn, RequestKind
<1>6. ASSUME \A h \in Handler : hs'[h].pc = "request" => hs'[h] = hs[h]
      PROVE  OnlyOn'
  <2>1. CASE Written' \subseteq Written
    BY <1>1, <1>2, <1>3, <1>6, <2>1, OnlyOnKept
  <2>2. ASSUME NEW h \in Handler,
               RelayEnds(h) \/ \E n \in 0 .. Len(Wire(hs[h].msg)), sees \in Sight : Gate(h, n, sees)
        PROVE  OnlyOn'
    <3>1. PICK es : /\ AnswerEvents(es, hs[h].msg)
                    /\ ToSet(hs'[h].evs) = ToSet(hs[h].evs) \cup ToSet(es)
      BY <2>2, AnswerStep DEF AnswerEnds
    <3>2. Written' = Written \cup ToSet(es)
      BY <2>2, <3>1, AnswerWrites
    <3>3. \A e \in ToSet(es) : ~RequestKind(e)
      BY <3>1 DEF AnswerEvents, RequestKind
    <3> QED
      BY <1>1, <1>2, <1>3, <1>6, <3>2, <3>3, OnlyOnKept
  <2> QED
    BY <1>5, <2>1, <2>2, StepsWrite
<1> QED
  BY <1>4, <1>6, StepsWrite

-----------------------------------------------------------------------------
(* What the log must tell                                                  *)

\* What a thread that has answered is about to write, and what is told or lost.
Pending == UNION {ToSet(hs[h].evs) : h \in {g \in Handler : hs[g].pc = "log"}}
Told == spool \cup lost \cup Pending

\* LogComplete, message by message: t has all of what m answers, and of m.
AllTold(m, new, t) ==
    /\ \A b \in new : RequestEvent(b, m.by = "proxy") \in t
    /\ m.by \in {"model", "unmatched"} =>
          \A b \in ToSet(m.blocks) :
              b.type \in {"text", "tool_use"} => \E e \in t : Tells(e, m.id, b)

Complete ==
    \A j \in 1 .. Len(conv) : Answer(conv[j]) => AllTold(conv[j], Before(conv, j), Told)

LEMMA CompleteIs == TypeOK /\ Complete => LogComplete
<1> SUFFICES ASSUME TypeOK, Complete, Quiet PROVE
        \A j \in {k \in DOMAIN conv : OfProxy(conv[k])} :
            /\ \A b \in NewBlocks(j) :
                  RequestEvent(b, conv[j].by = "proxy") \in spool \cup lost
            /\ conv[j].by \in {"model", "unmatched"} =>
                  \A b \in ToSet(conv[j].blocks) :
                      b.type \in {"text", "tool_use"} =>
                          \E e \in spool \cup lost :
                              /\ e.id[1] = "api" /\ e.id[2] = conv[j].id /\ ~e.blocked
                              /\ IF b.type = "text" THEN e.kind = "assistant_text" /\ e.val = b.text
                                 ELSE e.kind = "tool_use" /\ e.ref = b.id /\ e.val = b.call
  BY DEF LogComplete
<1>1. DOMAIN conv = 1 .. Len(conv)
  BY MessageIs, TypeParts DEF DialogTyped
<1>2. Told = spool \cup lost
  BY DEF Quiet, Told, Pending
<1>3. \A j : NewBlocks(j) = Before(conv, j)
  BY BeforeIs
<1> SUFFICES ASSUME NEW j \in 1 .. Len(conv), Answer(conv[j])
             PROVE  /\ \A b \in Before(conv, j) :
                          RequestEvent(b, conv[j].by = "proxy") \in spool \cup lost
                    /\ conv[j].by \in {"model", "unmatched"} =>
                          \A b \in ToSet(conv[j].blocks) :
                              b.type \in {"text", "tool_use"} =>
                                  \E e \in spool \cup lost : Tells(e, conv[j].id, b)
  BY <1>1, <1>3 DEF Answer, Tells, OfProxy, Passed
<1>4. AllTold(conv[j], Before(conv, j), spool \cup lost)
  BY <1>2 DEF Complete
<1> QED
  BY <1>4 DEF AllTold

\* Nothing that is told or about to be is forgotten.
LEMMA StepsTell ==
    ASSUME TypeOK, Decided, [Next]_vars
    PROVE  Told \subseteq Told'
<1>1. ASSUME NEW h \in Handler, \A g \in Handler : g # h => hs'[g] = hs[g],
             hs[h].pc # "log", spool' = spool, lost' = lost
      PROVE  Told \subseteq Told'
  <2>1. Pending \subseteq Pending'
    <3> SUFFICES ASSUME NEW g \in Handler, hs[g].pc = "log", NEW e \in ToSet(hs[g].evs)
                 PROVE  e \in Pending'
      BY DEF Pending
    <3>1. g # h
      BY <1>1
    <3> QED
      BY <1>1, <3>1 DEF Pending
  <2> QED
    BY <1>1, <2>1 DEF Told
<1>2. (\E t \in Text : Type(t)) \/ Direct \/ Esc \/ Toggle \/ EditPolicy \/ UNCHANGED vars =>
          hs' = hs /\ spool' = spool /\ lost' = lost
  BY DEF Type, Direct, Esc, Toggle, EditPolicy, log, vars
<1>3. ASSUME hs' = hs, spool' = spool, lost' = lost PROVE Told \subseteq Told'
  BY <1>3 DEF Told, Pending
<1>4. CASE Crash
  <2>1. spool' = spool /\ lost' = lost \cup UNION {ToSet(hs[g].evs) : g \in Handler}
    BY <1>4, CrashStep
  <2>2. Pending \subseteq UNION {ToSet(hs[g].evs) : g \in Handler}
    BY DEF Pending
  <2> QED
    BY <2>1, <2>2 DEF Told
<1>5. ASSUME NEW h \in Handler, Log(h) PROVE Told \subseteq Told'
  <2>1. /\ \A g \in Handler : g # h => hs'[g] = hs[g]
        /\ spool \subseteq spool' /\ lost \subseteq lost' /\ ToSet(hs[h].evs) \subseteq spool' \cup lost'
    BY <1>5, LogStep DEF OnlyThread
  <2> SUFFICES ASSUME NEW g \in Handler, hs[g].pc = "log", NEW e \in ToSet(hs[g].evs)
               PROVE  e \in Told'
    BY <2>1 DEF Told, Pending
  <2>2. CASE g = h
    BY <2>1, <2>2 DEF Told
  <2>3. CASE g # h
    <3>1. e \in Pending'
      BY <2>1, <2>3 DEF Pending
    <3> QED
      BY <3>1 DEF Told
  <2> QED
    BY <2>2, <2>3
<1>6. ASSUME NEW h \in Handler, Send(h) PROVE Told \subseteq Told'
  BY <1>1, <1>6, SendStep DEF Send, log, OnlyThread
<1>7. ASSUME NEW h \in Handler, HandleRequest(h) PROVE Told \subseteq Told'
  <2>1. \A g \in Handler : g # h => hs'[g] = hs[g]
    BY <1>7, HandleRequestStep
  <2>2. spool' = spool /\ lost' = lost /\ hs[h].pc # "log"
    BY <1>7 DEF HandleRequest, log
  <2> QED
    BY <1>1, <2>1, <2>2
<1>8. ASSUME NEW h \in Handler, Refuse(h) PROVE Told \subseteq Told'
  <2>1. \A g \in Handler : g # h => hs'[g] = hs[g]
    BY <1>8, RefuseStep
  <2>2. spool' = spool /\ lost' = lost /\ hs[h].pc # "log"
    BY <1>8 DEF Refuse, log
  <2> QED
    BY <1>1, <2>1, <2>2
<1>9. ASSUME NEW h \in Handler, UpstreamFails(h) \/ RelayBreaks(h) PROVE Told \subseteq Told'
  <2>1. hs[h].pc # "log"
    BY <1>9 DEF UpstreamFails, RelayBreaks
  <2> QED
    BY <1>1, <1>9, <2>1, ThreadEnds DEF OnlyThread
<1>10. ASSUME NEW h \in Handler, UpstreamAnswers(h) PROVE Told \subseteq Told'
  <2>1. /\ spool' = spool /\ lost' = lost
        /\ \A g \in Handler : g # h => hs'[g] = hs[g]
    BY <1>10, UpstreamAnswersStep
  <2>2. hs[h].pc # "log"
    BY <1>10 DEF UpstreamAnswers
  <2> QED
    BY <1>1, <2>1, <2>2
<1>11. ASSUME NEW h \in Handler,
              RelayEnds(h) \/ \E n \in 0 .. Len(Wire(hs[h].msg)), sees \in Sight : Gate(h, n, sees)
       PROVE  Told \subseteq Told'
  <2>1. /\ spool' = spool /\ lost' = lost /\ hs[h].pc \in {"relay", "gate"}
        /\ \A g \in Handler : g # h => hs'[g] = hs[g]
    BY <1>11, AnswerStep
  <2> QED
    BY <1>1, <2>1
<1> QED
  BY <1>2, <1>3, <1>4, <1>5, <1>6, <1>7, <1>8, <1>9, <1>10, <1>11 DEF Next

LEMMA CompleteKept ==
    ASSUME DialogTyped, Complete, Told \subseteq Told', NEW a, Adds(a),
           conv' # conv /\ Answer(a) => AllTold(a, News(conv), Told')
    PROVE  Complete'
<1> SUFFICES ASSUME NEW j \in 1 .. Len(conv'), Answer(conv'[j])
             PROVE  AllTold(conv'[j], Before(conv', j), Told')
  BY DEF Complete
<1>1. ASSUME NEW m, NEW new, AllTold(m, new, Told) PROVE AllTold(m, new, Told')
  BY <1>1 DEF AllTold
<1>2. CASE conv' = conv
  BY <1>1, <1>2 DEF Complete
<1>3. CASE conv' # conv
  BY <1>1, <1>3, AnswerIsNew DEF Complete
<1> QED
  BY <1>2, <1>3

LEMMA CompleteKeptAside ==
    ASSUME DialogTyped, Complete, Told \subseteq Told', Aside
    PROVE  Complete'
<1>1. PICK a : a.by \in {"direct", "cut"} /\ Adds(a)
  BY DEF Aside
<1>2. ~Answer(a)
  BY <1>1 DEF Answer, Passed
<1> QED
  BY <1>1, <1>2, CompleteKept

LEMMA DeliveredTold ==
    ASSUME TypeOK, Serving, Complete, Told \subseteq Told', NEW h \in Handler, NEW a,
           Delivered(h, a), hs'[h].pc = "log", ToSet(hs[h].evs) \subseteq ToSet(hs'[h].evs),
           \/ a.by = "proxy" /\ hs[h].pc = "refuse"
           \/ a.by \in Passed \cup {"gate"} /\ hs[h].pc \in {"relay", "gate"},
           a.by \in {"model", "unmatched"} =>
               \A b \in ToSet(a.blocks) :
                   b.type \in {"text", "tool_use"} =>
                       \E e \in ToSet(hs'[h].evs) : Tells(e, a.id, b)
    PROVE  Complete'
<1>1. DialogTyped
  BY TypeParts
<1>2. ToSet(hs'[h].evs) \subseteq Told'
  BY DEF Told, Pending
<1>3. ASSUME conv' # conv PROVE AllTold(a, News(conv), Told')
  <2>1. cur = h /\ cur # None
    BY <1>3, ProxyAssumption DEF Delivered
  <2>2. Serves(hs[h])
    BY <2>1 DEF Serving
  <2>3. (a.by = "proxy") = (hs[h].pc = "refuse")
    BY DEF Passed
  <2>4. \A b \in News(conv) : RequestEvent(b, a.by = "proxy") \in ToSet(hs[h].evs)
    BY <2>2, <2>3 DEF Serves
  <2> QED
    BY <1>2, <2>4 DEF AllTold
<1> QED
  BY <1>1, <1>3, CompleteKept DEF Delivered

LEMMA CompleteStep ==
    ASSUME TypeOK, Decided, Serving, Complete, [Next]_vars
    PROVE  Complete'
<1>1. DialogTyped /\ Told \subseteq Told'
  BY TypeParts, StepsTell
<1>2. CASE Aside
  BY <1>1, <1>2, CompleteKeptAside
<1>3. ASSUME NEW h \in Handler, Refuse(h) PROVE Complete'
  <2> DEFINE a == Assistant("proxy", 0, hs[h].pol, <<TextBlock("cancel")>>)
  <2>1. a.by = "proxy" /\ hs[h].pc = "refuse"
    BY <1>3 DEF Assistant, Refuse
  <2>2. /\ a \in AssistantMessage /\ Adds(a) /\ Runs(a) = {}
        /\ cur # h => conv' = conv /\ cur' = cur /\ executed' = executed
        /\ cur = h => /\ cur' = None
                      /\ Len(conv) + 1 \in 1 .. Len(conv') /\ conv'[Len(conv) + 1] = a
                      /\ executed' = executed
        /\ hs'[h].pc = "log" /\ hs'[h].evs = hs[h].evs
    BY <1>3, RefuseStep
  <2> HIDE DEF a
  <2>3. Delivered(h, a)
    BY <2>2 DEF Delivered
  <2> QED
    BY <1>1, <2>1, <2>2, <2>3, DeliveredTold
<1>4. ASSUME NEW h \in Handler,
             RelayEnds(h) \/ \E n \in 0 .. Len(Wire(hs[h].msg)), sees \in Sight : Gate(h, n, sees)
      PROVE  Complete'
  <2>1. AnswerEnds(h) /\ hs[h].pc \in {"relay", "gate"} /\ hs'[h].pc = "log"
    BY <1>4, AnswerStep
  <2>2. PICK es : /\ ToSet(hs'[h].evs) = ToSet(hs[h].evs) \cup ToSet(es)
                  /\ SentOn(h, es) \/ Replaced(h) \/ NotSent(h, es)
    BY <2>1 DEF AnswerEnds
  <2>3. CASE SentOn(h, es)
    <3>0. PICK by \in Passed : SentBy(h, es, by)
      BY <2>3 DEF SentOn
    <3> DEFINE a == Assistant(by, hs[h].msg.id, hs[h].pol, hs[h].msg.blocks)
    <3>1. /\ Delivered(h, a) /\ a.by = by /\ a.id = hs[h].msg.id
          /\ a.blocks = hs[h].msg.blocks
      BY <3>0 DEF SentBy, Assistant
    <3> HIDE DEF a
    <3>2. a.by \in {"model", "unmatched"} =>
          \A b \in ToSet(a.blocks) :
             b.type \in {"text", "tool_use"} => \E e \in ToSet(hs'[h].evs) : Tells(e, a.id, b)
      BY <2>2, <3>0, <3>1 DEF SentBy
    <3> QED
      BY <1>1, <2>1, <2>2, <3>1, <3>2, DeliveredTold
  <2>4. CASE Replaced(h)
    <3>1. PICK a : a.by = "gate" /\ Delivered(h, a)
      BY <2>4 DEF Replaced
    <3> QED
      BY <1>1, <2>1, <2>2, <3>1, DeliveredTold
  <2>5. CASE NotSent(h, es)
    BY <1>1, <2>5, CompleteKeptAside DEF NotSent
  <2> QED
    BY <2>2, <2>3, <2>4, <2>5
<1> QED
  BY <1>2, <1>3, <1>4, StepsAside

-----------------------------------------------------------------------------
(* Whose the ids are                                                       *)

Answering(h) == hs[h].pc \in {"relay", "gate"} /\ hs[h].msg.status = 200

\* The answers on their way are different messages, and their tool calls theirs.
AnswersFit ==
    /\ \A h \in Handler : Answering(h) =>
          /\ hs[h].msg.id \in 1 .. msgs /\ OwnCalls(hs[h].msg)
          /\ hs[h].pc = "relay" => ~hs[h].pol.gate
    /\ \A g, h \in Handler :
          Answering(g) /\ Answering(h) /\ hs[g].msg.id = hs[h].msg.id => g = h

\* An answer is told once, after it was on its way, and Claude has run nothing of
\* one that was blocked.
EventFits(e) ==
    /\ e.id[2] \in 1 .. msgs
    /\ \A h \in Handler : Answering(h) => e.id[2] # hs[h].msg.id
    /\ \A f \in Written : e.id = f.id => e = f
    /\ e.kind = "tool_use" => e.ref[1] = e.id[2]
    /\ e.blocked => \A x \in executed : x.id[1] # e.id[2]

EventsFit == \A e \in Written : e.id[1] = "api" => EventFits(e)

\* What Claude ran was in an answer that has come, and that its policy let through.
HasCall(c, x) ==
    \E i \in 1 .. Len(c) :
        /\ c[i].role = "assistant" /\ c[i].by = x.by
        /\ \E b \in ToSet(c[i].blocks) : b.type = "tool_use" /\ b.id = x.id /\ b.call = x.call

RunFits(x) ==
    /\ x.id[1] \in 1 .. msgs
    /\ \A h \in Handler : Answering(h) => x.id[1] # hs[h].msg.id
    /\ x.by \in Passed
    /\ x.pol.gate /\ x.call \in x.pol.tools => x.by # "model"
    /\ HasCall(conv, x)

IdsFit == AnswersFit /\ EventsFit /\ \A x \in executed : RunFits(x)

LEMMA HasCallGrown ==
    ASSUME NEW c \in Conversation, NEW d \in Conversation, Grown(c, d), NEW x, HasCall(c, x)
    PROVE  HasCall(d, x)
<1>1. Len(c) \in Nat /\ Len(d) \in Nat
  BY MessageIs
<1>2. \A i \in 1 .. Len(c) : i \in 1 .. Len(d) /\ (c[i].role = "assistant" => d[i] = c[i])
  BY <1>1 DEF Grown
<1> QED
  BY <1>2 DEF HasCall

\* No answer has come, been told or been run.
LEMMA IdsKept ==
    ASSUME TypeOK, TypeOK', IdsFit, Grown(conv, conv'), executed' = executed, msgs <= msgs',
           \A e \in Written' : e \in Written \/ e.id[1] # "api",
           \A h \in Handler : hs'[h] = hs[h] \/ hs'[h].pc \notin {"relay", "gate"}
                              \/ hs'[h].msg.status # 200
    PROVE  IdsFit'
<1>1. msgs \in Nat /\ msgs' \in Nat /\ \A n \in 1 .. msgs : n \in 1 .. msgs'
  BY ProxyAssumption, TypeParts, TypeNext DEF RestTyped
<1>2. \A h \in Handler : Answering(h)' => Answering(h) /\ hs'[h] = hs[h]
  BY DEF Answering
<1>3. AnswersFit'
  <2>1. \A h \in Handler : Answering(h)' =>
          /\ hs'[h].msg.id \in 1 .. msgs' /\ OwnCalls(hs'[h].msg)
          /\ hs'[h].pc = "relay" => ~hs'[h].pol.gate
    BY <1>1, <1>2 DEF IdsFit, AnswersFit
  <2>2. \A g, h \in Handler :
          Answering(g)' /\ Answering(h)' /\ hs'[g].msg.id = hs'[h].msg.id => g = h
    BY <1>2 DEF IdsFit, AnswersFit
  <2> QED
    BY <2>1, <2>2 DEF AnswersFit
<1>4. EventsFit'
  <2> SUFFICES ASSUME NEW e \in Written', e.id[1] = "api" PROVE EventFits(e)'
    BY DEF EventsFit
  <2>1. e \in Written /\ EventFits(e)
    BY DEF IdsFit, EventsFit
  <2>2. \A f \in Written' : e.id = f.id => e = f
    BY <2>1 DEF EventFits
  <2>3. e.id[2] \in 1 .. msgs' /\ \A h \in Handler : Answering(h)' => e.id[2] # hs'[h].msg.id
    BY <1>1, <1>2, <2>1 DEF EventFits
  <2> QED
    BY <2>1, <2>2, <2>3 DEF EventFits
<1>5. \A x \in executed' : RunFits(x)'
  <2> SUFFICES ASSUME NEW x \in executed PROVE RunFits(x)'
    OBVIOUS
  <2>1. RunFits(x)
    BY DEF IdsFit
  <2>2. HasCall(conv', x)
    BY <2>1, HasCallGrown, TypeParts, TypeNext DEF RunFits, DialogTyped
  <2>3. x.id[1] \in 1 .. msgs' /\ \A h \in Handler : Answering(h)' => x.id[1] # hs'[h].msg.id
    BY <1>1, <1>2, <2>1 DEF RunFits
  <2> QED
    BY <2>1, <2>2, <2>3 DEF RunFits
<1> QED
  BY <1>3, <1>4, <1>5 DEF IdsFit

\* A new message: its id is new.
LEMMA IdsOfNew ==
    ASSUME TypeOK, TypeOK', Decided, IdsFit, NEW h \in Handler, UpstreamAnswers(h)
    PROVE  IdsFit'
<1>1. /\ conv' = conv /\ executed' = executed /\ spool' = spool
      /\ \A g \in Handler : g # h => hs'[g] = hs[g]
      /\ hs'[h].evs = hs[h].evs /\ hs'[h].pol = hs[h].pol
      /\ \/ /\ msgs' = msgs + 1 /\ hs'[h].msg.id = msgs + 1
            /\ hs'[h].pc = IF hs[h].pol.gate THEN "gate" ELSE "relay"
            /\ \A b \in ToSet(hs'[h].msg.blocks) : b.type = "tool_use" => b.id[1] = msgs + 1
         \/ msgs' = msgs /\ hs'[h].msg.status = 500
  BY UpstreamAnswersStep
<1>2. msgs \in Nat
  BY ProxyAssumption, TypeParts DEF RestTyped
<1>3. Written' = Written
  <2>1. \A g \in Handler : hs'[g].evs = hs[g].evs
    BY <1>1
  <2> QED
    BY <1>1, <2>1 DEF Written
<1>4. Grown(conv, conv')
  BY <1>1, StaysAside, TypeParts DEF Adds
<1>5. CASE msgs' = msgs /\ hs'[h].msg.status = 500
  <2>1. \A g \in Handler : hs'[g] = hs[g] \/ hs'[g].msg.status # 200
    BY <1>1, <1>5
  <2> QED
    BY <1>1, <1>2, <1>3, <1>4, <1>5, <2>1, IdsKept
<1>6. CASE /\ msgs' = msgs + 1 /\ hs'[h].msg.id = msgs + 1
           /\ hs'[h].pc = IF hs[h].pol.gate THEN "gate" ELSE "relay"
           /\ \A b \in ToSet(hs'[h].msg.blocks) : b.type = "tool_use" => b.id[1] = msgs + 1
  <2>1. msgs + 1 \in 1 .. msgs' /\ \A n \in 1 .. msgs : n \in 1 .. msgs' /\ n # msgs + 1
    BY <1>2, <1>6
  <2>2. \A g \in Handler : g # h /\ Answering(g)' => Answering(g) /\ hs'[g] = hs[g]
    BY <1>1 DEF Answering
  <2>3. OwnCalls(hs'[h].msg) /\ (hs'[h].pc = "relay" => ~hs'[h].pol.gate)
    BY <1>1, <1>6 DEF OwnCalls
  <2>4. AnswersFit'
    <3>1. \A g \in Handler : Answering(g)' =>
            /\ hs'[g].msg.id \in 1 .. msgs' /\ OwnCalls(hs'[g].msg)
            /\ hs'[g].pc = "relay" => ~hs'[g].pol.gate
      BY <1>6, <2>1, <2>2, <2>3 DEF IdsFit, AnswersFit
    <3>2. ASSUME NEW g \in Handler, NEW k \in Handler,
                 Answering(g)', Answering(k)', hs'[g].msg.id = hs'[k].msg.id
          PROVE  g = k
      <4>1. \A f \in Handler : f # h /\ Answering(f)' => hs'[f].msg.id # msgs + 1
        BY <2>1, <2>2 DEF IdsFit, AnswersFit
      <4> QED
        BY <1>6, <2>2, <3>2, <4>1 DEF IdsFit, AnswersFit
    <3> QED
      BY <3>1, <3>2 DEF AnswersFit
  <2>5. EventsFit'
    <3> SUFFICES ASSUME NEW e \in Written, e.id[1] = "api" PROVE EventFits(e)'
      BY <1>3 DEF EventsFit
    <3>1. EventFits(e)
      BY DEF IdsFit, EventsFit
    <3>2. e.id[2] \in 1 .. msgs' /\ \A g \in Handler : Answering(g)' => e.id[2] # hs'[g].msg.id
      BY <1>6, <2>1, <2>2, <3>1 DEF EventFits
    <3> QED
      BY <1>1, <1>3, <3>1, <3>2 DEF EventFits
  <2>6. \A x \in executed' : RunFits(x)'
    <3> SUFFICES ASSUME NEW x \in executed PROVE RunFits(x)'
      BY <1>1
    <3>1. RunFits(x)
      BY DEF IdsFit
    <3>2. x.id[1] \in 1 .. msgs' /\ \A g \in Handler : Answering(g)' => x.id[1] # hs'[g].msg.id
      BY <1>6, <2>1, <2>2, <3>1 DEF RunFits
    <3> QED
      BY <1>1, <3>1, <3>2 DEF RunFits
  <2> QED
    BY <2>4, <2>5, <2>6 DEF IdsFit
<1> QED
  BY <1>1, <1>5, <1>6

\* An answer has come, or what the gate has put in its place: it is told.
LEMMA IdsOfAnswer ==
    ASSUME TypeOK, TypeOK', Decided, IdsFit, NEW h \in Handler,
           RelayEnds(h) \/ \E n \in 0 .. Len(Wire(hs[h].msg)), sees \in Sight : Gate(h, n, sees)
    PROVE  IdsFit'
<1> DEFINE m == hs[h].msg
<1>1. /\ hs[h].pc \in {"relay", "gate"} /\ hs'[h].pc = "log" /\ AnswerEnds(h) /\ msgs' = msgs
      /\ \A g \in Handler : g # h => hs'[g] = hs[g]
  BY AnswerStep
<1>2. PICK es : /\ AnswerEvents(es, m)
                /\ ToSet(hs'[h].evs) = ToSet(hs[h].evs) \cup ToSet(es)
                /\ ToSet(es) = {} \/ m.status = 200
                /\ SentOn(h, es) \/ (hs[h].pc = "gate" /\ Replaced(h)) \/ NotSent(h, es)
  BY <1>1 DEF AnswerEnds
<1>3. Written' = Written \cup ToSet(es)
  BY <1>2, AnswerWrites
<1>4. /\ conv \in Conversation /\ conv' \in Conversation /\ Grown(conv, conv')
      /\ msgs \in Nat
  <2>1. conv \in Conversation /\ conv' \in Conversation /\ msgs \in Nat
    BY TypeParts, TypeNext, ProxyAssumption DEF DialogTyped, RestTyped
  <2> QED
    BY <1>2, <2>1 DEF SentOn, SentBy, Replaced, NotSent, Delivered, Aside, Adds
<1>5. \A g \in Handler : Answering(g)' => g # h /\ Answering(g) /\ hs'[g] = hs[g]
  BY <1>1 DEF Answering
<1>6. CASE m.status # 200
  <2>1. ToSet(es) = {} /\ NotSent(h, es)
    BY <1>2, <1>6 DEF SentOn, SentBy, Decided
  <2>2. executed' = executed /\ Written' = Written
    BY <1>3, <2>1 DEF NotSent
  <2>3. \A g \in Handler : hs'[g] = hs[g] \/ hs'[g].pc \notin {"relay", "gate"}
    BY <1>1
  <2> QED
    BY <1>1, <1>4, <2>2, <2>3, IdsKept
<1>7. CASE m.status = 200
  <2>1. /\ Answering(h) /\ m.id \in 1 .. msgs /\ OwnCalls(m)
        /\ hs[h].pc = "relay" => ~hs[h].pol.gate
        /\ \A g \in Handler : Answering(g)' => hs'[g].msg.id # m.id
    BY <1>1, <1>5, <1>7 DEF Answering, IdsFit, AnswersFit
  <2>2. AnswersFit'
    <3>1. \A g \in Handler : Answering(g)' =>
            /\ hs'[g].msg.id \in 1 .. msgs' /\ OwnCalls(hs'[g].msg)
            /\ hs'[g].pc = "relay" => ~hs'[g].pol.gate
      BY <1>1, <1>5 DEF IdsFit, AnswersFit
    <3>2. \A g, k \in Handler :
            Answering(g)' /\ Answering(k)' /\ hs'[g].msg.id = hs'[k].msg.id => g = k
      BY <1>5 DEF IdsFit, AnswersFit
    <3> QED
      BY <3>1, <3>2 DEF AnswersFit
  <2>3. \A e \in ToSet(es) :
           /\ e.id[1] = "api" /\ e.id[2] = m.id /\ (e.kind = "tool_use" => e.ref[1] = m.id)
           /\ \A f \in ToSet(es) : e.id = f.id => e = f
    BY <1>2, <2>1 DEF AnswerEvents
  <2>4. \A x \in executed : RunFits(x) /\ x.id[1] # m.id
    BY <2>1 DEF IdsFit, RunFits
  <2>5. \A e \in Written : e.id[1] = "api" => EventFits(e) /\ e.id[2] # m.id
    BY <2>1 DEF IdsFit, EventsFit, EventFits
  <2>6. \A x \in executed' : x \in executed \/ (SentOn(h, es) /\ RunFits(x)' /\ x.id[1] = m.id)
    <3> SUFFICES ASSUME NEW x \in executed', x \notin executed
                 PROVE  SentOn(h, es) /\ RunFits(x)' /\ x.id[1] = m.id
      OBVIOUS
    <3>1. SentOn(h, es)
      <4>1. ~NotSent(h, es)
        BY DEF NotSent
      <4>2. ~Replaced(h)
        BY DEF Replaced, Delivered
      <4> QED
        BY <1>2, <4>1, <4>2
    <3>10. PICK by \in Passed : SentBy(h, es, by)
      BY <3>1 DEF SentOn
    <3> DEFINE a == Assistant(by, m.id, hs[h].pol, m.blocks)
    <3>2. a.role = "assistant" /\ a.blocks = m.blocks /\ a.pol = hs[h].pol /\ a.by = by
      BY DEF Assistant
    <3>3. Delivered(h, a)
      BY <3>10 DEF SentBy
    <3> HIDE DEF a
    <3>4. x \in Runs(a) /\ Len(conv) + 1 \in 1 .. Len(conv') /\ conv'[Len(conv) + 1] = a
      BY <3>3 DEF Delivered
    <3>5. PICK b \in ToSet(m.blocks) :
                /\ b.type = "tool_use"
                /\ x = [pol |-> hs[h].pol, by |-> by, id |-> b.id, call |-> b.call]
      BY <3>2, <3>4 DEF Runs
    <3>6. x.id = b.id /\ x.pol = hs[h].pol /\ x.by = by /\ x.call = b.call /\ x.id[1] = m.id
      BY <2>1, <3>5 DEF OwnCalls
    <3>7. x.by \in Passed /\ (x.pol.gate /\ x.call \in x.pol.tools => x.by # "model")
      BY <1>1, <2>1, <3>10, <3>5, <3>6 DEF SentBy
    <3>8. HasCall(conv', x)
      BY <3>2, <3>4, <3>5, <3>6 DEF HasCall
    <3>9. x.id[1] \in 1 .. msgs' /\ \A g \in Handler : Answering(g)' => x.id[1] # hs'[g].msg.id
      BY <1>1, <2>1, <3>6
    <3> QED
      BY <3>1, <3>6, <3>7, <3>8, <3>9 DEF RunFits
  <2>7. \A x \in executed' : RunFits(x)'
    <3> SUFFICES ASSUME NEW x \in executed PROVE RunFits(x)'
      BY <2>6
    <3>1. RunFits(x)
      BY <2>4
    <3>2. HasCall(conv', x)
      BY <1>4, <3>1, HasCallGrown DEF RunFits
    <3>3. x.id[1] \in 1 .. msgs' /\ \A g \in Handler : Answering(g)' => x.id[1] # hs'[g].msg.id
      BY <1>1, <1>5, <3>1 DEF RunFits
    <3> QED
      BY <3>1, <3>2, <3>3 DEF RunFits
  <2>8. ASSUME NEW e \in Written, e.id[1] = "api" PROVE EventFits(e)'
    <3>1. EventFits(e) /\ e.id[2] # m.id
      BY <2>5, <2>8
    <3>2. e.id[2] \in 1 .. msgs' /\ \A g \in Handler : Answering(g)' => e.id[2] # hs'[g].msg.id
      BY <1>1, <1>5, <3>1 DEF EventFits
    <3>3. \A f \in Written' : e.id = f.id => e = f
      BY <1>3, <2>3, <3>1 DEF EventFits
    <3>4. e.blocked => \A x \in executed' : x.id[1] # e.id[2]
      BY <2>6, <3>1 DEF EventFits
    <3> QED
      BY <3>1, <3>2, <3>3, <3>4 DEF EventFits
  <2>9. ASSUME NEW e \in ToSet(es) PROVE EventFits(e)'
    <3>1. e.id[2] \in 1 .. msgs' /\ \A g \in Handler : Answering(g)' => e.id[2] # hs'[g].msg.id
      BY <1>1, <2>1, <2>3
    <3>2. \A f \in Written' : e.id = f.id => e = f
      BY <1>3, <2>3, <2>5
    <3>3. e.blocked => \A x \in executed' : x.id[1] # e.id[2]
      <4>1. e.blocked => ~SentOn(h, es)
        BY DEF SentOn, SentBy
      <4> QED
        BY <2>3, <2>4, <2>6, <4>1
    <3> QED
      BY <2>3, <3>1, <3>2, <3>3 DEF EventFits
  <2>10. EventsFit'
    BY <1>3, <2>8, <2>9 DEF EventsFit
  <2> QED
    BY <2>2, <2>7, <2>10 DEF IdsFit
<1> QED
  BY <1>6, <1>7

LEMMA IdsInit == Init => IdsFit
<1> SUFFICES ASSUME Init PROVE IdsFit
  OBVIOUS
<1>1. \A h \in Handler : hs[h] = Free
  BY DEF Init
<1>2. \A h \in Handler : ~Answering(h) /\ ToSet(hs[h].evs) = {}
  BY <1>1, FreeIs DEF Answering, ToSet
<1>3. Written = {} /\ executed = {}
  BY <1>2 DEF Init, Written
<1> QED
  BY <1>2, <1>3 DEF IdsFit, AnswersFit, EventsFit

LEMMA IdsStep ==
    ASSUME TypeOK, Decided, Serving, OnlyOn, IdsFit, [Next]_vars
    PROVE  IdsFit'
<1>1. TypeOK' /\ TypeOK
  BY KnowledgeStep
<1>2. CASE \E h \in Handler : UpstreamAnswers(h)
  BY <1>1, <1>2, IdsOfNew
<1>3. CASE \E h \in Handler : RelayEnds(h) \/ \E n \in 0 .. Len(Wire(hs[h].msg)), sees \in Sight : Gate(h, n, sees)
  BY <1>1, <1>3, IdsOfAnswer
<1>4. CASE ~(\E h \in Handler :
                UpstreamAnswers(h) \/ RelayEnds(h)
                \/ \E n \in 0 .. Len(Wire(hs[h].msg)), sees \in Sight : Gate(h, n, sees))
  <2>1. \A e \in Written' : e \in Written \/ e.id[1] # "api"
    <3>1. CASE Written' \subseteq Written
      BY <3>1
    <3>2. ASSUME NEW h \in Handler, HandleRequest(h), NEW e \in Written', e \notin Written
          PROVE  e.id[1] # "api"
      <4>1. PICK b \in UserBlock, blocked \in BOOLEAN : e = RequestEvent(b, blocked)
        BY <3>2, HandleRequestTells
      <4> QED
        BY <4>1 DEF RequestEvent, Event
    <3> QED
      BY <1>4, <3>1, <3>2, StepsWrite
  <2>2. Grown(conv, conv')
    <3>1. CASE Aside
      BY <3>1 DEF Aside, Adds
    <3>2. ASSUME NEW h \in Handler, Refuse(h) PROVE Grown(conv, conv')
      BY <3>2, RefuseStep DEF Adds
    <3> QED
      BY <1>4, <3>1, <3>2, StepsAside
  <2>3. executed' = executed
    <3>1. \A h \in Handler : Refuse(h) => executed' = executed
      BY RefuseStep
    <3>2. \A h \in Handler : Send(h) \/ HandleRequest(h) \/ UpstreamFails(h) \/ RelayBreaks(h) \/ Log(h) =>
              executed' = executed
      BY DEF Send, HandleRequest, UpstreamFails, RelayBreaks, Log
    <3>3. (\E t \in Text : Type(t)) \/ Direct \/ Esc \/ Toggle \/ EditPolicy \/ Crash \/ UNCHANGED vars =>
              executed' = executed
      BY DEF Type, Direct, Esc, Toggle, EditPolicy, Crash, vars
    <3> QED
      BY <1>4, <3>1, <3>2, <3>3 DEF Next
  <2>4. msgs \in Nat /\ msgs' \in Nat /\ msgs <= msgs'
    <3>1. msgs \in Nat
      BY TypeParts, ProxyAssumption DEF RestTyped
    <3>2. CASE Direct
      BY <3>1, <3>2, DirectStep
    <3>3. CASE ~Direct
      <4>1. msgs' = msgs
        <5>1. \A h \in Handler : Refuse(h) \/ Send(h) \/ HandleRequest(h) \/ UpstreamFails(h)
                                 \/ RelayBreaks(h) \/ Log(h) => msgs' = msgs
          BY DEF Refuse, Send, HandleRequest, UpstreamFails, RelayBreaks, Log
        <5>2. (\E t \in Text : Type(t)) \/ Esc \/ Toggle \/ EditPolicy \/ Crash \/ UNCHANGED vars =>
                  msgs' = msgs
          BY DEF Type, Esc, Toggle, EditPolicy, Crash, vars
        <5> QED
          BY <1>4, <3>3, <5>1, <5>2 DEF Next
      <4> QED
        BY <3>1, <4>1
    <3> QED
      BY <3>2, <3>3
  <2>5. \A g \in Handler : hs'[g] = hs[g] \/ hs'[g].pc \notin {"relay", "gate"}
    <3>1. ASSUME NEW h \in Handler, \A g \in Handler : g # h => hs'[g] = hs[g],
                 hs'[h].pc \notin {"relay", "gate"}
          PROVE  \A g \in Handler : hs'[g] = hs[g] \/ hs'[g].pc \notin {"relay", "gate"}
      BY <3>1
    <3>2. ASSUME NEW h \in Handler, Refuse(h)
          PROVE  \A g \in Handler : hs'[g] = hs[g] \/ hs'[g].pc \notin {"relay", "gate"}
      <4>1. hs'[h].pc = "log" /\ \A g \in Handler : g # h => hs'[g] = hs[g]
        BY <3>2, RefuseStep
      <4> QED
        BY <3>1, <4>1
    <3>3. ASSUME NEW h \in Handler, Send(h)
          PROVE  \A g \in Handler : hs'[g] = hs[g] \/ hs'[g].pc \notin {"relay", "gate"}
      <4>1. OnlyThread(h, [Free EXCEPT !.pc = "request", !.body = conv])
        BY <3>3, SendStep
      <4>2. [Free EXCEPT !.pc = "request", !.body = conv].pc = "request"
        BY DEF Free
      <4> QED
        BY <3>1, <4>1, <4>2 DEF OnlyThread
    <3>4. ASSUME NEW h \in Handler, HandleRequest(h)
          PROVE  \A g \in Handler : hs'[g] = hs[g] \/ hs'[g].pc \notin {"relay", "gate"}
      <4>1. hs'[h].pc \in {"refuse", "upstream"} /\ \A g \in Handler : g # h => hs'[g] = hs[g]
        BY <3>4, HandleRequestStep
      <4> QED
        BY <3>1, <4>1
    <3>5. ASSUME NEW h \in Handler, UpstreamFails(h) \/ RelayBreaks(h) \/ Log(h)
          PROVE  \A g \in Handler : hs'[g] = hs[g] \/ hs'[g].pc \notin {"relay", "gate"}
      <4>1. OnlyThread(h, Free)
        BY <3>5, ThreadEnds, LogStep
      <4> QED
        BY <3>1, <4>1, FreeIs DEF OnlyThread
    <3>6. Crash => \A g \in Handler : hs'[g].pc = "free"
      BY CrashStep, FreeIs
    <3>7. (\E t \in Text : Type(t)) \/ Direct \/ Esc \/ Toggle \/ EditPolicy \/ UNCHANGED vars =>
              hs' = hs
      BY DEF Type, Direct, Esc, Toggle, EditPolicy, vars
    <3> QED
      BY <1>4, <3>2, <3>3, <3>4, <3>5, <3>6, <3>7 DEF Next
  <2> QED
    BY <1>1, <2>1, <2>2, <2>3, <2>4, <2>5, IdsKept
<1> QED
  BY <1>2, <1>3, <1>4

\* Every event is of a request, or of an answer.
LEMMA EventKinds ==
    ASSUME NEW e \in LogEvent
    PROVE  /\ RequestKind(e) \/ e.id[1] = "api"
           /\ e.kind = "tool_use" => e.id[1] = "api"
           /\ e.id[1] \in {"api-up", "api-tr", "api"}
<1>1. CASE e \in [id : {"api-up"} \X STRING, kind : {"user_prompt"}, val : STRING, ref : {<<>>},
                  blocked : BOOLEAN]
  BY <1>1 DEF RequestKind
<1>2. CASE e \in [id : {"api-up"} \X {"blk"} \X Nat, kind : {"user_prompt"}, val : STRING,
                  ref : {<<>>}, blocked : {TRUE}]
  BY <1>2 DEF RequestKind
<1>3. CASE e \in [id : {"api-tr"} \X ToolId \X STRING, kind : {"tool_result"}, val : STRING,
                  ref : ToolId, blocked : {FALSE}]
  <2>1. e.kind = "tool_result" /\ e.id \in {"api-tr"} \X ToolId \X STRING
    BY <1>3
  <2>2. e.id[1] = "api-tr"
    <3> DEFINE T == ToolId
    <3>1. e.id \in {"api-tr"} \X T \X STRING
      BY <2>1
    <3> HIDE DEF T
    <3> QED
      BY <3>1
  <2> QED
    BY <2>1, <2>2 DEF RequestKind
<1>4. CASE e \in [id : {"api"} \X Nat \X Nat, kind : {"assistant_text"}, val : STRING,
                  ref : {<<>>}, blocked : {FALSE}]
  BY <1>4
<1>5. CASE e \in [id : {"api"} \X Nat \X Nat, kind : {"tool_use"}, val : Call, ref : ToolId,
                  blocked : BOOLEAN]
  BY <1>5
<1> QED
  BY <1>1, <1>2, <1>3, <1>4, <1>5 DEF LogEvent

LEMMA GateIs == TypeOK /\ IdsFit => GateHolds
<1> SUFFICES ASSUME TypeOK, IdsFit PROVE GateHolds
  OBVIOUS
<1>1. \A x \in executed : RunFits(x)
  BY DEF IdsFit
<1>2. ASSUME NEW e \in spool, e.kind = "tool_use", e.blocked, NEW x \in executed
      PROVE  x.id # e.ref
  <2>1. e \in LogEvent /\ e \in Written
    BY TypeParts DEF LogTyped, Written
  <2>2. EventFits(e)
    BY <1>2, <2>1, EventKinds DEF IdsFit, EventsFit
  <2> QED
    BY <1>2, <2>2 DEF EventFits
<1> QED
  BY <1>1, <1>2 DEF GateHolds, RunFits, Passed

\* The rows of a line of the transcript that is not lost, and their ids.
LEMMA FinalizeIs ==
    ASSUME NEW uuid, NEW events, Len(events) \in Nat, DOMAIN events = 1 .. Len(events)
    PROVE  \A r : r \in ToSet(Finalize(uuid, events)) <=>
               \E k \in 1 .. Len(events) :
                  r = [id |-> EventId(uuid, Len(events), k), kind |-> events[k].kind,
                       val |-> events[k].val, ref |-> events[k].ref]
  BY DEF Finalize, ToSet

LEMMA FromIs ==
    ASSUME NEW S, NEW blocks \in Seq(S), NEW opt
    PROVE  /\ Len(FromAssistant(blocks, opt)) \in Nat
           /\ DOMAIN FromAssistant(blocks, opt) = 1 .. Len(FromAssistant(blocks, opt))
           /\ Len(FromUser(blocks, opt)) \in Nat
           /\ DOMAIN FromUser(blocks, opt) = 1 .. Len(FromUser(blocks, opt))
           /\ \A b \in ToSet(blocks) : b.type = "tool_use" =>
                 \E k \in 1 .. Len(FromAssistant(blocks, opt)) :
                    FromAssistant(blocks, opt)[k] = AssistantEvent(b, opt)
<1>1. ASSUME NEW types
      PROVE  /\ Len(OfType(blocks, types)) \in Nat
             /\ DOMAIN OfType(blocks, types) = 1 .. Len(OfType(blocks, types))
             /\ \A b \in ToSet(blocks) : b.type \in types =>
                   \E k \in 1 .. Len(OfType(blocks, types)) : OfType(blocks, types)[k] = b
  <2>1. /\ OfType(blocks, types) \in Seq({b \in S : b.type \in types})
        /\ \A b : b \in ToSet(OfType(blocks, types)) <=> b \in ToSet(blocks) /\ b.type \in types
    BY OfTypeIs
  <2> DEFINE kept == OfType(blocks, types)
             T == {b \in S : b.type \in types}
  <2>2. kept \in Seq(T)
    BY <2>1
  <2> HIDE DEF kept, T
  <2>3. /\ DOMAIN kept = 1 .. Len(kept) /\ Len(kept) \in Nat
        /\ \A x : x \in ToSet(kept) <=> \E i \in 1 .. Len(kept) : x = kept[i]
    BY <2>2, ToSetIs
  <2>4. \A b \in ToSet(blocks) : b.type \in types => b \in ToSet(kept)
    BY <2>1 DEF kept
  <2> QED
    BY <2>3, <2>4 DEF kept
<1>2. /\ Len(FromUser(blocks, opt)) \in Nat
      /\ DOMAIN FromUser(blocks, opt) = 1 .. Len(FromUser(blocks, opt))
  <2> DEFINE kept == OfType(blocks, {"text", "tool_result"})
  <2>1. DOMAIN kept = 1 .. Len(kept) /\ Len(kept) \in Nat
    BY <1>1
  <2>2. FromUser(blocks, opt) = [i \in DOMAIN kept |-> UserEvent(kept[i], opt)]
    BY DEF FromUser
  <2> HIDE DEF kept
  <2> QED
    BY <2>1, <2>2
<1>3. /\ Len(FromAssistant(blocks, opt)) \in Nat
      /\ DOMAIN FromAssistant(blocks, opt) = 1 .. Len(FromAssistant(blocks, opt))
      /\ \A b \in ToSet(blocks) : b.type = "tool_use" =>
            \E k \in 1 .. Len(FromAssistant(blocks, opt)) :
               FromAssistant(blocks, opt)[k] = AssistantEvent(b, opt)
  <2> DEFINE known == {"tool_use", "text"} \cup
                      (IF opt.store_thinking THEN {"thinking"} ELSE {})
             kept  == OfType(blocks, known)
  <2>1. "tool_use" \in known
    OBVIOUS
  <2>2. FromAssistant(blocks, opt) = [i \in DOMAIN kept |-> AssistantEvent(kept[i], opt)]
    BY DEF FromAssistant
  <2> HIDE DEF known
  <2>3. /\ DOMAIN kept = 1 .. Len(kept) /\ Len(kept) \in Nat
        /\ \A b \in ToSet(blocks) : b.type = "tool_use" =>
              \E k \in 1 .. Len(kept) : kept[k] = b
    BY <1>1, <2>1
  <2> HIDE DEF kept
  <2> QED
    BY <2>2, <2>3
<1> QED
  BY <1>2, <1>3

\* The transcript tells a call that is in an assistant message, unless its line is lost.
LEMMA CallInTranscript ==
    ASSUME TypeOK, NEW opt, NEW i \in 1 .. Len(conv), conv[i].role = "assistant",
           NEW b \in ToSet(conv[i].blocks), b.type = "tool_use", ~Raises(Line(i), opt)
    PROVE  \E r \in TranscriptRows(opt) :
              r.kind = "tool_use" /\ r.ref = b.id /\ r.val = RedactCall(b.call, opt)
<1>1. conv \in Conversation /\ DOMAIN conv = 1 .. Len(conv)
  BY TypeParts, MessageIs DEF DialogTyped
<1>2. conv[i].blocks \in Seq(AnswerBlock)
  BY <1>1, MessageIs DEF AssistantMessage
<1> DEFINE ev == FromAssistant(conv[i].blocks, opt)
<1>3. ParseLine(Line(i), opt) = Finalize(i, ev)
  <2>1. Line(i).type = "assistant" /\ Line(i).uuid = i /\ Line(i).blocks = conv[i].blocks
    BY DEF Line
  <2> QED
    BY <2>1 DEF ParseLine
<1>4. /\ Len(ev) \in Nat /\ DOMAIN ev = 1 .. Len(ev)
      /\ \E k \in 1 .. Len(ev) : ev[k] = AssistantEvent(b, opt)
  BY <1>2, FromIs
<1> HIDE DEF ev
<1>5. PICK k \in 1 .. Len(ev) : ev[k] = AssistantEvent(b, opt)
  BY <1>4
<1>6. ev[k].kind = "tool_use" /\ ev[k].ref = b.id /\ ev[k].val = RedactCall(b.call, opt)
  <2>1. AssistantEvent(b, opt) =
          [kind |-> "tool_use", val |-> RedactCall(b.call, opt), ref |-> b.id]
    BY DEF AssistantEvent
  <2> QED
    BY <1>5, <2>1
<1> DEFINE r == [id |-> EventId(i, Len(ev), k), kind |-> ev[k].kind,
                 val |-> ev[k].val, ref |-> ev[k].ref]
<1>7. r \in ToSet(Finalize(i, ev))
  BY <1>4, FinalizeIs
<1>8. r.kind = "tool_use" /\ r.ref = b.id /\ r.val = RedactCall(b.call, opt)
  BY <1>6
<1> HIDE DEF r
<1>9. r \in TranscriptRows(opt)
  BY <1>1, <1>3, <1>7 DEF TranscriptRows
<1> QED
  BY <1>8, <1>9

\* The rows of a line of the transcript: each has an id of its own.
LEMMA LineRows ==
    ASSUME NEW i \in 1 .. Len(conv), conv \in Conversation, NEW opt
    PROVE  /\ \A r \in ToSet(ParseLine(Line(i), opt)) :
                 r.id = <<"line", i>> \/ \E k : r.id = <<"line", i, k>>
           /\ \A r, s \in ToSet(ParseLine(Line(i), opt)) : r.id = s.id => r = s
<1> DEFINE Unique(rows) ==
              /\ \A r \in rows : r.id = <<"line", i>> \/ \E k : r.id = <<"line", i, k>>
              /\ \A r, s \in rows : r.id = s.id => r = s
<1>1. ASSUME NEW ev, Len(ev) \in Nat, DOMAIN ev = 1 .. Len(ev)
      PROVE  Unique(ToSet(Finalize(i, ev)))
  <2> DEFINE row(k) == [id |-> EventId(i, Len(ev), k), kind |-> ev[k].kind,
                        val |-> ev[k].val, ref |-> ev[k].ref]
  <2>1. \A r \in ToSet(Finalize(i, ev)) : \E k \in 1 .. Len(ev) : r = row(k)
    BY <1>1, FinalizeIs
  <2>2. \A k \in 1 .. Len(ev) : row(k).id = EventId(i, Len(ev), k)
    OBVIOUS
  <2> HIDE DEF row
  <2>3. \A k, l \in 1 .. Len(ev) : EventId(i, Len(ev), k) = EventId(i, Len(ev), l) => k = l
    <3>1. CASE Len(ev) <= 1
      BY <1>1, <3>1
    <3>2. CASE ~(Len(ev) <= 1)
      BY <3>2 DEF EventId
    <3> QED
      BY <3>1, <3>2
  <2>4. \A k \in 1 .. Len(ev) : EventId(i, Len(ev), k) \in {<<"line", i>>, <<"line", i, k>>}
    BY DEF EventId
  <2> QED
    BY <2>1, <2>2, <2>3, <2>4
<1>2. Unique(ToSet(<<>>))
  BY DEF ToSet
<1>3. conv[i].role \in {"user", "assistant"} /\ conv[i] \in UserMessage \cup AssistantMessage
  BY MessageIs
<1>4. \E S : conv[i].blocks \in Seq(S)
  BY <1>3 DEF UserMessage, AssistantMessage
<1>5. /\ Line(i).type = conv[i].role /\ Line(i).uuid = i /\ Line(i).blocks = conv[i].blocks
  BY DEF Line
<1>6. ParseLine(Line(i), opt) \in
          {<<>>, Finalize(i, FromAssistant(conv[i].blocks, opt)),
           Finalize(i, FromUser(conv[i].blocks, opt))}
  BY <1>3, <1>5 DEF ParseLine
<1>7. /\ Unique(ToSet(Finalize(i, FromAssistant(conv[i].blocks, opt))))
      /\ Unique(ToSet(Finalize(i, FromUser(conv[i].blocks, opt))))
  <2> HIDE DEF Unique
  <2> QED
    BY <1>1, <1>4, FromIs
<1>8. Unique(ToSet(ParseLine(Line(i), opt)))
  <2> HIDE DEF Unique
  <2> QED
    BY <1>2, <1>6, <1>7
<1> QED
  BY <1>8

\* The row of an event of the spool: it has its id, and the rest depends on
\* nothing but the rest of the event.
RowsOf(e, opt) == ToSet(ParseLine([type |-> "event", event |-> e], opt))

LEMMA SpoolRow ==
    ASSUME NEW e \in LogEvent, NEW f \in LogEvent, NEW opt,
           NEW r \in RowsOf(e, opt), NEW s \in RowsOf(f, opt)
    PROVE  /\ r.id = e.id /\ r.kind = e.kind /\ r.blocked = e.blocked
           /\ e.kind = f.kind /\ e.val = f.val /\ e.ref = f.ref =>
                 r.kind = s.kind /\ r.val = s.val /\ r.ref = s.ref
<1> DEFINE val(x) == IF BreaksJson(IF x.kind = "tool_use" THEN x.val.input ELSE x.val, opt)
                     THEN x.val
                     ELSE IF x.kind = "tool_use" THEN RedactCall(x.val, opt) ELSE Redact(x.val, opt)
<1>1. \A x : x \in ToSet(<<x>>) /\ \A y \in ToSet(<<x>>) : y = x
  BY DEF ToSet
<1>2. ASSUME NEW x \in LogEvent, NEW y \in RowsOf(x, opt)
      PROVE  /\ y.id = x.id /\ y.kind = x.kind /\ y.ref = x.ref /\ y.blocked = x.blocked
             /\ y.val = val(x)
  <2>1. y \in ToSet(Passthrough(x, opt))
    <3>1. ParseLine([type |-> "event", event |-> x], opt) = Passthrough(x, opt)
      BY DEF ParseLine
    <3> QED
      BY <1>2, <3>1 DEF RowsOf
  <2>2. x = [id |-> x.id, kind |-> x.kind, val |-> x.val, ref |-> x.ref, blocked |-> x.blocked]
    BY DEF LogEvent
  <2>3. CASE BreaksJson(IF x.kind = "tool_use" THEN x.val.input ELSE x.val, opt)
    <3>1. Passthrough(x, opt) = <<x>>
      BY <2>3 DEF Passthrough
    <3>2. y = x
      BY <1>1, <2>1, <3>1
    <3> QED
      BY <2>3, <3>2
  <2>4. CASE ~BreaksJson(IF x.kind = "tool_use" THEN x.val.input ELSE x.val, opt)
    <3> DEFINE v == IF x.kind = "tool_use" THEN RedactCall(x.val, opt) ELSE Redact(x.val, opt)
    <3>1. Passthrough(x, opt) = <<[x EXCEPT !.val = v]>>
      BY <2>4 DEF Passthrough
    <3>2. y = [x EXCEPT !.val = v]
      BY <1>1, <2>1, <3>1
    <3>3. v = val(x)
      BY <2>4
    <3> HIDE DEF v, val
    <3>4. y.val = v /\ y.id = x.id /\ y.kind = x.kind /\ y.ref = x.ref /\ y.blocked = x.blocked
      BY <2>2, <3>2
    <3> QED
      BY <3>3, <3>4
  <2> QED
    BY <2>3, <2>4
<1>3. e.kind = f.kind /\ e.val = f.val => val(e) = val(f)
  OBVIOUS
<1> HIDE DEF val
<1> QED
  BY <1>2, <1>3

\* The row of a tool call in the spool: masked, or as it was when that would break it.
LEMMA CallInSpool ==
    ASSUME TypeOK, NEW e \in spool, e.kind = "tool_use", NEW opt
    PROVE  \E r \in SpoolRows(opt) :
              /\ r.kind = "tool_use" /\ r.ref = e.ref
              /\ r.val = IF BreaksJson(e.val.input, opt) THEN e.val ELSE RedactCall(e.val, opt)
<1>1. /\ ParseLine([type |-> "event", event |-> e], opt) = Passthrough(e, opt)
      /\ \A x : x \in ToSet(<<x>>)
  BY DEF ParseLine, ToSet
<1>2. CASE BreaksJson(e.val.input, opt)
  <2>1. Passthrough(e, opt) = <<e>>
    BY <1>2 DEF Passthrough
  <2>2. e \in SpoolRows(opt)
    BY <1>1, <2>1 DEF SpoolRows
  <2> QED
    BY <1>2, <2>2
<1>3. CASE ~BreaksJson(e.val.input, opt)
  <2> DEFINE v == RedactCall(e.val, opt)
             r == [e EXCEPT !.val = v]
  <2>1. Passthrough(e, opt) = <<r>>
    BY <1>3 DEF Passthrough
  <2>2. r.kind = "tool_use" /\ r.ref = e.ref /\ r.val = v
    <3>1. e \in LogEvent
      BY TypeParts DEF LogTyped
    <3>2. e = [id |-> e.id, kind |-> e.kind, val |-> e.val, ref |-> e.ref, blocked |-> e.blocked]
      BY <3>1 DEF LogEvent
    <3> HIDE DEF v
    <3> QED
      BY <3>2
  <2> HIDE DEF r, v
  <2>3. r \in SpoolRows(opt)
    BY <1>1, <2>1 DEF SpoolRows
  <2> QED
    BY <1>3, <2>2, <2>3 DEF v
<1> QED
  BY <1>2, <1>3

LEMMA IdsAreTellingApart == TypeOK /\ OnlyOn /\ IdsFit => IdsTellApart
<1> SUFFICES ASSUME TypeOK, OnlyOn, IdsFit, NEW opt \in ParserOptions,
                    NEW r \in TranscriptRows(opt) \cup SpoolRows(opt),
                    NEW s \in TranscriptRows(opt) \cup SpoolRows(opt), r.id = s.id
             PROVE  /\ r.kind = s.kind /\ r.val = s.val /\ r.ref = s.ref
                    /\ r \in SpoolRows(opt) /\ s \in SpoolRows(opt) /\ r.kind # "user_prompt" =>
                          r.blocked = s.blocked
  BY DEF IdsTellApart
<1>1. conv \in Conversation /\ DOMAIN conv = 1 .. Len(conv)
  BY TypeParts, MessageIs DEF DialogTyped
<1>2. ASSUME NEW q \in TranscriptRows(opt)
      PROVE  \E i \in 1 .. Len(conv) : /\ q \in ToSet(ParseLine(Line(i), opt))
                                       /\ q.id = <<"line", i>> \/ \E k : q.id = <<"line", i, k>>
  <2>1. PICK i \in 1 .. Len(conv) : q \in ToSet(ParseLine(Line(i), opt))
    BY <1>1 DEF TranscriptRows
  <2> QED
    BY <1>1, <2>1, LineRows
<1>3. ASSUME NEW q \in SpoolRows(opt)
      PROVE  \E e \in spool : q \in RowsOf(e, opt) /\ q.id = e.id /\ e \in LogEvent
  <2>1. PICK e \in spool : q \in RowsOf(e, opt)
    BY DEF SpoolRows, RowsOf
  <2>2. e \in LogEvent
    BY TypeParts DEF LogTyped
  <2> QED
    BY <2>1, <2>2, SpoolRow
<1>4. ASSUME NEW q \in TranscriptRows(opt), NEW t \in SpoolRows(opt)
      PROVE  q.id # t.id
  <2>1. q.id[1] = "line"
    BY <1>2
  <2>2. t.id[1] \in {"api-up", "api-tr", "api"}
    BY <1>3, EventKinds
  <2> QED
    BY <2>1, <2>2
<1>5. CASE r \in TranscriptRows(opt) /\ s \in TranscriptRows(opt)
  <2>1. PICK i \in 1 .. Len(conv) : /\ r \in ToSet(ParseLine(Line(i), opt))
                                    /\ r.id = <<"line", i>> \/ \E k : r.id = <<"line", i, k>>
    BY <1>2, <1>5
  <2>2. PICK j \in 1 .. Len(conv) : /\ s \in ToSet(ParseLine(Line(j), opt))
                                    /\ s.id = <<"line", j>> \/ \E k : s.id = <<"line", j, k>>
    BY <1>2, <1>5
  <2>3. r.id[2] = i /\ s.id[2] = j
    BY <2>1, <2>2
  <2>4. i = j
    BY <2>3
  <2>5. r = s
    BY <1>1, <2>1, <2>2, <2>4, LineRows
  <2> QED
    BY <2>5
<1>6. CASE r \in SpoolRows(opt) /\ s \in SpoolRows(opt)
  <2>1. PICK e \in spool : r \in RowsOf(e, opt) /\ r.id = e.id /\ e \in LogEvent
    BY <1>3, <1>6
  <2>2. PICK f \in spool : s \in RowsOf(f, opt) /\ s.id = f.id /\ f \in LogEvent
    BY <1>3, <1>6
  <2>3. e.id = f.id /\ e \in Written /\ f \in Written
    BY <2>1, <2>2 DEF Written
  <2>4. /\ e.kind = f.kind /\ e.val = f.val /\ e.ref = f.ref
        /\ e.kind # "user_prompt" => e.blocked = f.blocked
    <3>1. CASE e.id[1] = "api"
      BY <2>3, <3>1 DEF IdsFit, EventsFit, EventFits
    <3>2. CASE e.id[1] # "api"
      <4>1. RequestKind(e) /\ RequestKind(f)
        BY <2>1, <2>2, <2>3, <3>2, EventKinds
      <4>2. FromOn(conv, e) /\ FromOn(conv, f)
        BY <2>3, <4>1 DEF OnlyOn
      <4>3. PICK b : RequestEvent(b, e.blocked) = e
        BY <4>2 DEF FromOn
      <4>4. PICK c : RequestEvent(c, f.blocked) = f
        BY <4>2 DEF FromOn
      <4>5. \/ /\ e.id = <<"api-tr", b.id, b.text>> /\ e.kind = "tool_result"
               /\ e.val = b.text /\ e.ref = b.id /\ e.blocked = FALSE
            \/ e.id = <<"api-up", b.text>> /\ e.kind = "user_prompt" /\ e.val = b.text /\ e.ref = <<>>
        <5>1. CASE b.type = "tool_result"
          BY <4>3, <5>1 DEF RequestEvent, Event
        <5>2. CASE b.type # "tool_result"
          BY <4>3, <5>2 DEF RequestEvent, Event
        <5> QED
          BY <5>1, <5>2
      <4>6. \/ /\ f.id = <<"api-tr", c.id, c.text>> /\ f.kind = "tool_result"
               /\ f.val = c.text /\ f.ref = c.id /\ f.blocked = FALSE
            \/ f.id = <<"api-up", c.text>> /\ f.kind = "user_prompt" /\ f.val = c.text /\ f.ref = <<>>
        <5>1. CASE c.type = "tool_result"
          BY <4>4, <5>1 DEF RequestEvent, Event
        <5>2. CASE c.type # "tool_result"
          BY <4>4, <5>2 DEF RequestEvent, Event
        <5> QED
          BY <5>1, <5>2
      <4>7. e.id = f.id
        BY <2>3
      <4>8. e.kind # "user_prompt" => e.blocked = FALSE /\ f.blocked = FALSE
        BY <4>5, <4>6, <4>7
      <4>9. e.kind = f.kind /\ e.val = f.val /\ e.ref = f.ref
        BY <4>5, <4>6, <4>7
      <4> QED
        BY <4>8, <4>9
    <3> QED
      BY <3>1, <3>2
  <2> QED
    BY <2>1, <2>2, <2>4, SpoolRow
<1> QED
  BY <1>4, <1>5, <1>6

LEMMA RunsAreToldBy == TypeOK /\ IdsFit /\ Complete => RunsTold
<1> SUFFICES ASSUME TypeOK, IdsFit, Complete, Quiet, NEW opt \in ParserOptions, NEW x \in executed
             PROVE  /\ \/ \E r \in TranscriptRows(opt) :
                             /\ r.kind = "tool_use" /\ r.ref = x.id
                             /\ r.val = RedactCall(x.call, opt)
                       \/ \E i \in DOMAIN conv :
                             /\ \E b \in ToSet(conv[i].blocks) : b.type = "tool_use" /\ b.id = x.id
                             /\ Raises(Line(i), opt)
                    /\ \/ x.by = "unread"
                       \/ \E r \in SpoolRows(opt) :
                             /\ r.kind = "tool_use" /\ r.ref = x.id
                             /\ r.val = IF BreaksJson(x.call.input, opt) THEN x.call
                                        ELSE RedactCall(x.call, opt)
                       \/ \E e \in lost : e.kind = "tool_use" /\ e.ref = x.id /\ e.val = x.call
  BY DEF RunsTold
<1>1. x.by \in Passed /\ HasCall(conv, x)
  BY DEF IdsFit, RunFits
<1>2. PICK i \in 1 .. Len(conv) :
              /\ conv[i].role = "assistant" /\ conv[i].by = x.by
              /\ \E b \in ToSet(conv[i].blocks) : b.type = "tool_use" /\ b.id = x.id /\ b.call = x.call
  BY <1>1 DEF HasCall
<1>3. PICK b \in ToSet(conv[i].blocks) : b.type = "tool_use" /\ b.id = x.id /\ b.call = x.call
  BY <1>2
<1>4. DOMAIN conv = 1 .. Len(conv)
  BY TypeParts, MessageIs DEF DialogTyped
<1>5. \/ \E r \in TranscriptRows(opt) :
            r.kind = "tool_use" /\ r.ref = x.id /\ r.val = RedactCall(x.call, opt)
      \/ Raises(Line(i), opt)
  <2>1. CASE ~Raises(Line(i), opt)
    <3>1. \E r \in TranscriptRows(opt) :
             r.kind = "tool_use" /\ r.ref = b.id /\ r.val = RedactCall(b.call, opt)
      BY <1>2, <1>3, <2>1, CallInTranscript
    <3> QED
      BY <1>3, <3>1
  <2> QED
    BY <2>1
<1>6. CASE x.by # "unread"
  <2>1. AllTold(conv[i], Before(conv, i), Told) /\ conv[i].by \in {"model", "unmatched"}
    BY <1>1, <1>2, <1>6 DEF Complete, Answer, Passed
  <2>2. PICK e \in Told : Tells(e, conv[i].id, b)
    BY <1>3, <2>1 DEF AllTold
  <2>3. Told = spool \cup lost
    BY DEF Quiet, Told, Pending
  <2>4. e.kind = "tool_use" /\ e.ref = x.id /\ e.val = x.call
    BY <1>3, <2>2 DEF Tells
  <2>5. CASE e \in lost
    BY <1>3, <1>4, <1>5, <2>4, <2>5
  <2>6. CASE e \in spool
    <3>1. PICK r \in SpoolRows(opt) :
             /\ r.kind = "tool_use" /\ r.ref = e.ref
             /\ r.val = IF BreaksJson(e.val.input, opt) THEN e.val ELSE RedactCall(e.val, opt)
      BY <2>4, <2>6, CallInSpool
    <3>2. /\ r.kind = "tool_use" /\ r.ref = x.id
          /\ r.val = IF BreaksJson(x.call.input, opt) THEN x.call ELSE RedactCall(x.call, opt)
      BY <2>4, <3>1
    <3> QED
      BY <1>3, <1>4, <1>5, <3>2
  <2> QED
    BY <2>2, <2>3, <2>5, <2>6
<1> QED
  BY <1>3, <1>4, <1>5, <1>6

-----------------------------------------------------------------------------
(* The theorems                                                            *)

Inv ==
    /\ TypeOK /\ Decided /\ Serving
    /\ Refused /\ OnlyOn /\ Complete /\ IdsFit

LEMMA InvHolds == Spec => []Inv
<1>1. Init => Inv
  <2> SUFFICES ASSUME Init PROVE Inv
    OBVIOUS
  <2>1. TypeOK /\ Decided /\ Serving /\ IdsFit
    BY KnowledgeInit, IdsInit
  <2>2. conv = <<>> /\ Len(conv) = 0 /\ routed = FALSE /\ \A h \in Handler : hs[h] = Free
    BY DEF Init
  <2>3. Refused /\ Complete
    BY <2>2 DEF Refused, Complete
  <2>4. OnlyOn
    <3>1. \A h \in Handler : ToSet(hs[h].evs) = {} /\ hs[h].pc # "request"
      BY <2>2, FreeIs DEF ToSet
    <3>2. Written = {}
      BY <3>1 DEF Init, Written
    <3> QED
      BY <2>2, <3>1, <3>2 DEF OnlyOn
  <2> QED
    BY <2>1, <2>3, <2>4 DEF Inv
<1>2. Inv /\ [Next]_vars => Inv'
  BY KnowledgeStep, RefusedStep, OnlyOnStep, CompleteStep, IdsStep DEF Inv
<1> QED
  BY <1>1, <1>2, PTL DEF Spec

\* Every variable of the proxy, its threads and Claude keeps to its type
\* (apiproxy.py:131-255).
THEOREM ProxyTyped == Spec => []TypeOK
<1>1. Inv => TypeOK
  BY DEF Inv
<1> QED
  BY <1>1, InvHolds, PTL

\* The log of the proxy tells nothing of what was typed, or printed by a tool,
\* and answered while the proxy was off (apilog.py:99-100).
THEOREM OffIsNeverTold == Spec => []OffStaysOff
<1>1. Inv => OffStaysOff
  BY OnlyOnImplies, TypeParts DEF Inv
<1> QED
  BY <1>1, InvHolds, PTL

\* Once the threads have ended, the log has, or a failed append or a crash has lost,
\* all of every exchange that went through the proxy and was answered whole, but not
\* the answer when the gate could not read it (apilog.py:101, apiproxy.py:315).
THEOREM ExchangesAreTold == Spec => []LogComplete
<1>1. Inv => LogComplete
  BY CompleteIs DEF Inv
<1> QED
  BY <1>1, InvHolds, PTL

\* The proxy refuses exactly the requests whose new input is named by the policy it
\* decided by, which is none when reading or applying it failed: a prompt once refused
\* does not refuse the prompts after it (proxypolicy.py:72-75).
THEOREM NewInputDecides == Spec => []RefusesTheNew
<1>1. Inv => RefusesTheNew
  BY RefusedIs, TypeParts DEF Inv
<1> QED
  BY <1>1, InvHolds, PTL

\* A tool call the policy of the request names is run by Claude only when the gate
\* could not parse or match the answer, and a call the log tells as blocked was not run
\* in any case (apiproxy.py:292-352).
THEOREM BlockedCallsDoNotRun == Spec => []GateHolds
<1>1. Inv => GateHolds
  BY GateIs DEF Inv
<1> QED
  BY <1>1, InvHolds, PTL

\* Two rows of the same event_id, from the transcript and the spool of one session,
\* have the same kind, value and tool call, and the same blocked mark unless they are
\* prompts (parser.py:8-10, apilog.py:152-161).
THEOREM RowsTellApart == Spec => []IdsTellApart
<1>1. Inv => IdsTellApart
  BY IdsAreTellingApart DEF Inv
<1> QED
  BY <1>1, InvHolds, PTL

\* A tool call that Claude ran is told as it was run, or masked, by the transcript
\* unless masking breaks a call on its own line, and by the spool unless the gate could
\* not read the answer or the event was lost with an append or a thread
\* (parser.py:88-142, apiproxy.py:335-352).
THEOREM RunsAreTold == Spec => []RunsTold
<1>1. Inv => RunsTold
  BY RunsAreToldBy DEF Inv
<1> QED
  BY <1>1, InvHolds, PTL
=============================================================================
