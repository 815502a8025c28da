-------------------------- MODULE TokenizerProofs --------------------------
(***************************************************************************)
(* The tokenizer, for every text and vocabulary: the linked list of        *)
(* encode_sentencepiece tiles its text and merges, by its queue, what      *)
(* BestMerge does; special tokens of encode_gpt2 stand alone and its words *)
(* are merged in the order of the table; and decoding gives back what      *)
(* either of the two encoded.                                              *)
(***************************************************************************)
EXTENDS GgufTokenizer, WellFoundedInduction, SequenceTheorems, TLAPS

-----------------------------------------------------------------------------
\* Induction over numbers, of a set.
LEMMA NumbersFromZero ==
    ASSUME NEW S, 0 \in S, \A n \in Nat : n \in S => n + 1 \in S
    PROVE  Nat \subseteq S
PROOF
<1> DEFINE R == OpToRel(<, Nat)
           T == Nat \ S
<1>1. IsWellFoundedOn(R, Nat)
  BY NatLessThanWellFounded
<1> SUFFICES ASSUME T # {} PROVE FALSE
  OBVIOUS
<1>2. \A x, y \in Nat : y < x => <<y, x>> \in R
  BY DEF OpToRel
<1>3. T \subseteq Nat
  OBVIOUS
<1> HIDE DEF R
<1>4. PICK x \in T : \A y \in T : ~ (<<y, x>> \in R)
  <2> HIDE DEF T
  <2> QED
    BY <1>1, <1>3, WFMin
<1>5. x \in Nat /\ x # 0
  OBVIOUS
<1>6. x - 1 \in Nat /\ x - 1 < x
  BY <1>5
<1>7. x - 1 \in S
  BY <1>2, <1>4, <1>5, <1>6
<1>8. (x - 1) + 1 \in S
  BY <1>6, <1>7
<1> QED
  BY <1>5, <1>8

\* Induction over sequences, from left to right.
LEMMA SequencesGrow ==
    ASSUME NEW T, NEW S, <<>> \in S, \A f \in Seq(T), x \in T : f \in S => Append(f, x) \in S
    PROVE  Seq(T) \subseteq S
PROOF
<1> DEFINE N == {n \in Nat : \A f \in Seq(T) : Len(f) = n => f \in S}
<1>1. 0 \in N
  <2> SUFFICES ASSUME NEW f \in Seq(T), Len(f) = 0 PROVE f \in S
    OBVIOUS
  <2>1. f = <<>>
    BY EmptySeq
  <2> QED
    BY <2>1
<1>2. ASSUME NEW n \in Nat, n \in N
      PROVE  n + 1 \in N
  <2> SUFFICES ASSUME NEW f \in Seq(T), Len(f) = n + 1 PROVE f \in S
    OBVIOUS
  <2> DEFINE g == SubSeq(f, 1, n)
             x == f[n + 1]
  <2>1. /\ g \in Seq(T) /\ Len(g) = n /\ x \in T /\ f = Append(g, x)
    OBVIOUS
  <2>2. g \in S
    BY <1>2, <2>1
  <2> HIDE DEF g, x
  <2> QED
    BY <2>1, <2>2
<1>3. Nat \subseteq N
  <2> HIDE DEF N
  <2> QED
    BY <1>1, <1>2, NumbersFromZero
<1> SUFFICES ASSUME NEW f \in Seq(T) PROVE f \in S
  OBVIOUS
<1>4. Len(f) \in N
  BY <1>3, LenProperties
<1> QED
  BY <1>4

\* The function that Concat is defined by exists.
LEMMA ConcatUnfolds ==
    ASSUME NEW f, Len(f) \in Nat
    PROVE  \E u : /\ u = [k \in 0 .. Len(f) |-> IF k = 0 THEN <<>> ELSE u[k - 1] \o f[k]]
                  /\ Concat(f) = u[Len(f)]
PROOF
<1> DEFINE F(g, n) == [k \in 0 .. n |-> IF k = 0 THEN <<>> ELSE g[k - 1] \o f[k]]
           S == {n \in Nat : \E g : g = F(g, n)}
<1>1. 0 \in S
  <2> DEFINE g == [k \in 0 .. 0 |-> <<>>]
  <2>1. g = F(g, 0)
    OBVIOUS
  <2> QED
    BY <2>1
<1>2. ASSUME NEW n \in Nat, n \in S
      PROVE  n + 1 \in S
  <2>1. PICK g : g = F(g, n)
    BY <1>2
  <2> DEFINE h == [k \in 0 .. (n + 1) |-> IF k = n + 1 THEN g[n] \o f[n + 1] ELSE g[k]]
  <2>2. ASSUME NEW k \in 0 .. (n + 1)
        PROVE  h[k] = IF k = 0 THEN <<>> ELSE h[k - 1] \o f[k]
    <3>1. CASE k = n + 1
      <4>1. k # 0 /\ k - 1 = n /\ n \in 0 .. (n + 1) /\ n # n + 1
        BY <3>1
      <4>2. h[k] = g[n] \o f[n + 1] /\ h[n] = g[n]
        BY <3>1, <4>1
      <4> QED
        BY <3>1, <4>1, <4>2
    <3>2. CASE k # n + 1 /\ k # 0
      <4>1. k \in 0 .. n /\ k - 1 \in 0 .. (n + 1) /\ k - 1 # n + 1
        BY <3>2
      <4>2. h[k] = g[k] /\ h[k - 1] = g[k - 1]
        BY <3>2, <4>1
      <4>3. g[k] = g[k - 1] \o f[k]
        BY <2>1, <3>2, <4>1
      <4> QED
        BY <3>2, <4>2, <4>3
    <3>3. CASE k = 0
      <4>1. g[0] = <<>> /\ h[0] = g[0]
        BY <2>1
      <4> QED
        BY <3>3, <4>1
    <3> QED
      BY <3>1, <3>2, <3>3
  <2>3. h = F(h, n + 1)
    BY <2>2
  <2> HIDE DEF F, h
  <2> QED
    BY <2>3
<1>3. Len(f) \in S
  <2> HIDE DEF S
  <2> QED
    BY <1>1, <1>2, NumbersFromZero
<1>4. \E g : g = F(g, Len(f))
  BY <1>3
<1> DEFINE u == CHOOSE g : g = F(g, Len(f))
<1>5. u = F(u, Len(f))
  <2> HIDE DEF F
  <2> QED
    BY <1>4, Zenon
<1>6. Concat(f) = u[Len(f)]
  BY DEF Concat
<1> QED
  BY <1>5, <1>6

LEMMA ConcatEmpty == Concat(<<>>) = <<>>
PROOF
<1> DEFINE f == <<>>
<1>1. Len(f) = 0 /\ Len(f) \in Nat
  OBVIOUS
<1> HIDE DEF f
<1>2. PICK u : /\ u = [k \in 0 .. Len(f) |-> IF k = 0 THEN <<>> ELSE u[k - 1] \o f[k]]
               /\ Concat(f) = u[Len(f)]
  BY <1>1, ConcatUnfolds, Zenon
<1>3. u[0] = <<>>
  BY <1>1, <1>2
<1> QED
  BY <1>1, <1>2, <1>3 DEF f

\* A string more.
LEMMA ConcatAppend ==
    ASSUME NEW T, NEW f \in Seq(T), NEW x \in T
    PROVE  Concat(Append(f, x)) = Concat(f) \o x
PROOF
<1> DEFINE g == Append(f, x)
           n == Len(f)
<1>1. n \in Nat /\ Len(g) = n + 1 /\ g[n + 1] = x /\ \A k \in 1 .. n : g[k] = f[k]
  OBVIOUS
<1> HIDE DEF g
<1>2. PICK u : u = [k \in 0 .. n |-> IF k = 0 THEN <<>> ELSE u[k - 1] \o f[k]] /\ Concat(f) = u[n]
  BY <1>1, ConcatUnfolds
<1>3. PICK v : /\ v = [k \in 0 .. (n + 1) |-> IF k = 0 THEN <<>> ELSE v[k - 1] \o g[k]]
               /\ Concat(g) = v[n + 1]
  <2>1. Len(g) \in Nat
    BY <1>1
  <2> QED
    BY <1>1, <2>1, ConcatUnfolds
<1> DEFINE S == {k \in Nat : k <= n => u[k] = v[k]}
<1>4. 0 \in S
  BY <1>1, <1>2, <1>3
<1>5. ASSUME NEW k \in Nat, k \in S
      PROVE  k + 1 \in S
  <2> SUFFICES ASSUME k + 1 <= n PROVE u[k + 1] = v[k + 1]
    OBVIOUS
  <2>1. /\ k <= n /\ k + 1 \in 0 .. n /\ k + 1 \in 0 .. (n + 1) /\ k + 1 # 0 /\ (k + 1) - 1 = k
        /\ k + 1 \in 1 .. n
    BY <1>1
  <2>2. u[k + 1] = u[k] \o f[k + 1]
    BY <1>2, <2>1
  <2>3. v[k + 1] = v[k] \o g[k + 1]
    BY <1>3, <2>1
  <2> QED
    BY <1>1, <1>5, <2>1, <2>2, <2>3
<1>6. n \in S
  <2> HIDE DEF S
  <2> QED
    BY <1>1, <1>4, <1>5, NumbersFromZero
<1>7. u[n] = v[n]
  BY <1>1, <1>6
<1>8. v[n + 1] = v[n] \o g[n + 1]
  <2>1. n + 1 \in 0 .. (n + 1) /\ n + 1 # 0 /\ (n + 1) - 1 = n
    BY <1>1
  <2> QED
    BY <1>3, <2>1
<1> QED
  BY <1>1, <1>2, <1>3, <1>7, <1>8 DEF g

LEMMA ConcatTyped ==
    ASSUME NEW T, NEW f \in Seq(Seq(T))
    PROVE  Concat(f) \in Seq(T)
PROOF
<1> DEFINE S == {g \in Seq(Seq(T)) : Concat(g) \in Seq(T)}
<1>1. <<>> \in S
  <2>1. <<>> \in Seq(Seq(T)) /\ <<>> \in Seq(T)
    OBVIOUS
  <2> QED
    BY <2>1, ConcatEmpty, Zenon
<1>2. ASSUME NEW g \in Seq(Seq(T)), NEW x \in Seq(T), g \in S
      PROVE  Append(g, x) \in S
  <2>1. Concat(Append(g, x)) = Concat(g) \o x
    BY ConcatAppend
  <2>2. Concat(g) \in Seq(T)
    BY <1>2
  <2>3. Concat(g) \o x \in Seq(T)
    BY <2>2
  <2>4. Append(g, x) \in Seq(Seq(T))
    OBVIOUS
  <2> QED
    BY <2>1, <2>3, <2>4, Zenon
<1>3. Seq(Seq(T)) \subseteq S
  <2> HIDE DEF S
  <2> QED
    BY <1>1, <1>2, SequencesGrow
<1> QED
  BY <1>3

LEMMA ConcatOne ==
    ASSUME NEW T, NEW x \in Seq(T)
    PROVE  Concat(<<x>>) = x
PROOF
<1>1. <<x>> = Append(<<>>, x)
  OBVIOUS
<1>2. Concat(Append(<<>>, x)) = Concat(<<>>) \o x
  <2>1. <<>> \in Seq(Seq(T))
    OBVIOUS
  <2> QED
    BY <2>1, ConcatAppend
<1> QED
  BY <1>1, <1>2, ConcatEmpty

LEMMA ThreeJoin ==
    ASSUME NEW T
    PROVE  \A a, b, c \in Seq(T) : (a \o b) \o c = a \o (b \o c)
BY ConcatAssociative

LEMMA ConcatJoins ==
    ASSUME NEW T, NEW f \in Seq(Seq(T)), NEW g \in Seq(Seq(T))
    PROVE  Concat(f \o g) = Concat(f) \o Concat(g)
PROOF
<1>a. \A u, v, w \in Seq(T) : (u \o v) \o w = u \o (v \o w)
  BY ThreeJoin
<1> DEFINE S == {h \in Seq(Seq(T)) : Concat(f \o h) = Concat(f) \o Concat(h)}
<1>0. Concat(f) \in Seq(T)
  BY ConcatTyped
<1>1. <<>> \in S
  <2>1. f \o <<>> = f /\ Concat(f) \o <<>> = Concat(f)
    BY <1>0, ConcatEmptySeq
  <2>2. <<>> \in Seq(Seq(T))
    OBVIOUS
  <2> QED
    BY <2>1, <2>2, ConcatEmpty, Zenon
<1>2. ASSUME NEW h \in Seq(Seq(T)), NEW x \in Seq(T), h \in S
      PROVE  Append(h, x) \in S
  <2>1. f \o Append(h, x) = Append(f \o h, x)
    OBVIOUS
  <2>2. f \o h \in Seq(Seq(T)) /\ Append(h, x) \in Seq(Seq(T))
    OBVIOUS
  <2>3. Concat(Append(f \o h, x)) = Concat(f \o h) \o x
    BY <2>2, ConcatAppend
  <2>4. Concat(Append(h, x)) = Concat(h) \o x
    BY ConcatAppend
  <2>5. Concat(h) \in Seq(T)
    BY ConcatTyped
  <2>6. (Concat(f) \o Concat(h)) \o x = Concat(f) \o (Concat(h) \o x)
    <3> DEFINE r == Concat(f)
               q == Concat(h)
    <3>1. r \in Seq(T) /\ q \in Seq(T) /\ x \in Seq(T)
      BY <1>0, <2>5
    <3> HIDE DEF r, q, S
    <3>2. (r \o q) \o x = r \o (q \o x)
      BY <1>a, <3>1, Zenon
    <3> QED
      BY <3>2 DEF r, q
  <2>7. Concat(f \o h) = Concat(f) \o Concat(h)
    BY <1>2
  <2> QED
    BY <2>1, <2>2, <2>3, <2>4, <2>6, <2>7, Zenon
<1>3. Seq(Seq(T)) \subseteq S
  <2> HIDE DEF S
  <2> QED
    BY <1>1, <1>2, SequencesGrow
<1> QED
  BY <1>3

-----------------------------------------------------------------------------

Node(n) == [prev : -1 .. (n - 1), next : -1 .. (n - 1), off : Nat, len : Nat]
Ends(n) == 0 .. (n - 1)

ListTypeOK ==
    /\ s \in Seq(DOMAIN Bytes)
    /\ sp \in {"idle", "merging", "merged", "done", "threw"}
    /\ sp = "idle" => s = <<>>
    /\ sp = "merging" => s # <<>>
    /\ s # <<>> => /\ symbols \in [Ends(Len(s)) -> Node(Len(s))]
                   /\ \A b \in work : b.left \in Ends(Len(s)) /\ b.right \in Ends(Len(s))

ListInv == ListTypeOK /\ ListTilesText

\* A text with its markers is a text, and no shorter.
LEMMA PreparedIsText ==
    ASSUME NEW t \in Texts \ {<<>>}, NEW prefix
    PROVE  /\ Prepared(t, prefix) \in Seq(DOMAIN Bytes)
           /\ Len(Prepared(t, prefix)) > 0
PROOF
<1> DEFINE marked == [i \in DOMAIN t |-> IF t[i] = Space THEN Marker ELSE t[i]]
           front == IF prefix THEN <<Marker>> ELSE <<>>
<1>1. t \in Seq(DOMAIN Bytes) /\ Len(t) > 0
  BY SentencePieceAssumption
<1>2. marked \in Seq(DOMAIN Bytes) /\ Len(marked) = Len(t)
  <2>1. marked \in [1 .. Len(t) -> DOMAIN Bytes]
    BY <1>1, SentencePieceAssumption
  <2> QED
    BY <1>1, <2>1
<1>3. front \in Seq(DOMAIN Bytes)
  <2>1. <<Marker>> \in Seq(DOMAIN Bytes) /\ <<>> \in Seq(DOMAIN Bytes)
    BY SentencePieceAssumption
  <2> QED
    BY <2>1
<1>4. /\ front \o marked \in Seq(DOMAIN Bytes)
      /\ Len(front \o marked) = Len(front) + Len(marked)
  <2> HIDE DEF marked, front
  <2> QED
    BY <1>2, <1>3
<1>5. Len(front) \in Nat
  <2> HIDE DEF front
  <2> QED
    BY <1>3
<1> HIDE DEF marked, front
<1>6. Len(front \o marked) > 0
  BY <1>1, <1>2, <1>4, <1>5
<1> QED
  BY <1>4, <1>6 DEF Prepared, marked, front

\* What try_add puts into the queue are nodes of the list.
LEMMA CandidateEnds ==
    ASSUME NEW y, NEW str, NEW n \in Nat, NEW l \in -1 .. (n - 1), NEW r \in -1 .. (n - 1),
           NEW b \in Candidates(y, str, l, r)
    PROVE  b.left \in Ends(n) /\ b.right \in Ends(n)
BY DEF Candidates, Linked, Ends

LEMMA ListInitially == SpInit => ListInv
BY DEF SpInit, ListInv, ListTypeOK, ListTilesText

\* A list of single characters tiles the text.
LEMMA BeginKeepsInv == ListInv /\ EncodeBegins => ListInv'
PROOF
<1> SUFFICES ASSUME EncodeBegins PROVE ListInv'
  OBVIOUS
<1> DEFINE n == Len(s')
<1>1. s' \in Seq(DOMAIN Bytes) /\ n \in Nat /\ n > 0
  BY PreparedIsText DEF EncodeBegins
<1>2. /\ symbols' = Nodes(n)
      /\ sp' = "merging"
      /\ work' = UNION {Candidates(symbols', s', i - 1, i) : i \in 1 .. (n - 1)}
  BY DEF EncodeBegins
<1>3. symbols' \in [Ends(n) -> Node(n)]
  BY <1>1, <1>2 DEF Nodes, Node, Ends
<1>4. \A b \in work' : b.left \in Ends(n) /\ b.right \in Ends(n)
  <2> SUFFICES ASSUME NEW b \in work' PROVE b.left \in Ends(n) /\ b.right \in Ends(n)
    OBVIOUS
  <2>1. PICK i \in 1 .. (n - 1) : b \in Candidates(symbols', s', i - 1, i)
    BY <1>2
  <2>2. i - 1 \in -1 .. (n - 1) /\ i \in -1 .. (n - 1)
    BY <1>1
  <2> HIDE DEF n
  <2> QED
    BY <1>1, <2>1, <2>2, CandidateEnds
<1>5. ListTypeOK'
  BY <1>1, <1>2, <1>3, <1>4 DEF ListTypeOK
<1>6. ListTilesText'
  BY <1>1, <1>2 DEF ListTilesText, Live, Nodes
<1> QED
  BY <1>5, <1>6 DEF ListInv

\* What joining a pair makes of the nodes.
LEMMA JoinedNodes ==
    ASSUME ListInv, sp = "merging", NEW b \in work, IsCurrent(b), symbols' = JoinNodes(b)
    PROVE  LET n == Len(s)
               l == b.left
               r == b.right
               q == symbols[b.right].next
           IN  /\ s \in Seq(DOMAIN Bytes) /\ s # <<>> /\ n \in Nat
               /\ symbols \in [Ends(n) -> Node(n)] /\ symbols' \in [Ends(n) -> Node(n)]
               /\ l \in Ends(n) /\ r \in Ends(n)
               /\ symbols[l].len > 0 /\ symbols[r].len > 0
               /\ symbols[l].next = r /\ symbols[r].prev = l
               /\ Live(0) /\ symbols[0].prev = -1 /\ symbols[0].off = 0
               /\ \A i \in Ends(n) : symbols[i].len > 0 =>
                     IF symbols[i].next = -1
                     THEN symbols[i].off + symbols[i].len = n
                     ELSE /\ symbols[i].next \in Ends(n) /\ symbols[symbols[i].next].len > 0
                          /\ i < symbols[i].next
                          /\ symbols[symbols[i].next].prev = i
                          /\ symbols[symbols[i].next].off = symbols[i].off + symbols[i].len
               /\ \A i \in Ends(n) : /\ symbols[i].prev \in -1 .. (n - 1) /\ symbols[i].next \in -1 .. (n - 1)
                                     /\ symbols[i].off \in Nat /\ symbols[i].len \in Nat
               /\ q \in -1 .. (n - 1)
               /\ l < r /\ r # l /\ q # l /\ q # r /\ r # 0
               /\ \A i \in Ends(n) :
                    /\ symbols'[i] \in Node(n)
                    /\ symbols'[i].off = symbols[i].off
                    /\ symbols'[i].len = IF i = l THEN symbols[l].len + symbols[r].len
                                         ELSE IF i = r THEN 0 ELSE symbols[i].len
                    /\ symbols'[i].next = IF i = l THEN q ELSE symbols[i].next
                    /\ symbols'[i].prev = IF i = q THEN l ELSE symbols[i].prev
PROOF
<1> DEFINE n == Len(s)
           l == b.left
           r == b.right
           q == symbols[r].next
<1>2. /\ s \in Seq(DOMAIN Bytes) /\ s # <<>> /\ n \in Nat
      /\ symbols \in [Ends(n) -> Node(n)]
      /\ l \in Ends(n) /\ r \in Ends(n)
  BY DEF ListInv, ListTypeOK
<1>3. /\ symbols[l].len > 0 /\ symbols[r].len > 0
      /\ symbols[l].next = r /\ symbols[r].prev = l
  BY DEF IsCurrent, Linked
<1>4. /\ Live(0) /\ symbols[0].prev = -1 /\ symbols[0].off = 0
      /\ \A i \in Ends(n) : symbols[i].len > 0 =>
            IF symbols[i].next = -1
            THEN symbols[i].off + symbols[i].len = n
            ELSE /\ symbols[i].next \in Ends(n) /\ symbols[symbols[i].next].len > 0
                 /\ i < symbols[i].next
                 /\ symbols[symbols[i].next].prev = i
                 /\ symbols[symbols[i].next].off = symbols[i].off + symbols[i].len
  BY <1>2 DEF ListInv, ListTilesText, Live
<1>5. /\ \A i \in Ends(n) : /\ symbols[i].prev \in -1 .. (n - 1) /\ symbols[i].next \in -1 .. (n - 1)
                            /\ symbols[i].off \in Nat /\ symbols[i].len \in Nat
      /\ q \in -1 .. (n - 1)
  BY <1>2 DEF Node
<1> HIDE DEF n, l, r, q
<1>6. l < r /\ r # l /\ q # l /\ q # r /\ r # 0
  <2>1. l < r
    BY <1>2, <1>3, <1>4 DEF Ends
  <2>2. q = -1 \/ r < q
    BY <1>2, <1>3, <1>4 DEF q
  <2> QED
    BY <1>2, <1>5, <2>1, <2>2 DEF Ends
<1>7. symbols' = [i \in Ends(n) |->
          CASE i = l -> [symbols[i] EXCEPT !.len = symbols[i].len + symbols[r].len, !.next = q]
            [] i = r -> [symbols[i] EXCEPT !.len = 0]
            [] i = q -> [symbols[i] EXCEPT !.prev = l]
            [] OTHER -> symbols[i]]
  BY <1>2 DEF JoinNodes, l, r, q
<1>8. \A i \in Ends(n) :
        /\ symbols'[i] \in Node(n)
        /\ symbols'[i].off = symbols[i].off
        /\ symbols'[i].len = IF i = l THEN symbols[l].len + symbols[r].len
                             ELSE IF i = r THEN 0 ELSE symbols[i].len
        /\ symbols'[i].next = IF i = l THEN q ELSE symbols[i].next
        /\ symbols'[i].prev = IF i = q THEN l ELSE symbols[i].prev
  <2> SUFFICES ASSUME NEW i \in Ends(n)
               PROVE  /\ symbols'[i] \in Node(n)
                      /\ symbols'[i].off = symbols[i].off
                      /\ symbols'[i].len = IF i = l THEN symbols[l].len + symbols[r].len
                                           ELSE IF i = r THEN 0 ELSE symbols[i].len
                      /\ symbols'[i].next = IF i = l THEN q ELSE symbols[i].next
                      /\ symbols'[i].prev = IF i = q THEN l ELSE symbols[i].prev
    OBVIOUS
  <2>1. symbols[i] \in Node(n)
    BY <1>2
  <2>2. symbols[l].len + symbols[r].len \in Nat /\ l \in -1 .. (n - 1)
    BY <1>2, <1>5 DEF Ends
  <2>3. CASE i = l
    <3>1. symbols'[i] = [symbols[i] EXCEPT !.len = symbols[i].len + symbols[r].len, !.next = q]
      <4>1. symbols'[i] =
              CASE i = l -> [symbols[i] EXCEPT !.len = symbols[i].len + symbols[r].len, !.next = q]
                [] i = r -> [symbols[i] EXCEPT !.len = 0]
                [] i = q -> [symbols[i] EXCEPT !.prev = l]
                [] OTHER -> symbols[i]
        BY <1>7
      <4> QED
        BY <1>6, <2>3, <4>1, Zenon
    <3> QED
      BY <1>5, <1>6, <2>1, <2>2, <2>3, <3>1 DEF Node
  <2>4. CASE i = r
    <3>1. symbols'[i] = [symbols[i] EXCEPT !.len = 0]
      BY <1>6, <1>7, <2>4
    <3> QED
      BY <1>5, <1>6, <2>1, <2>4, <3>1 DEF Node
  <2>5. CASE i = q
    <3>1. symbols'[i] = [symbols[i] EXCEPT !.prev = l]
      BY <1>6, <1>7, <2>5
    <3> QED
      BY <1>5, <1>6, <2>1, <2>2, <2>5, <3>1 DEF Node
  <2>6. CASE i # l /\ i # r /\ i # q
    <3>1. symbols'[i] = symbols[i]
      BY <1>7, <2>6
    <3> QED
      BY <2>1, <2>6, <3>1 DEF Node
  <2> QED
    BY <2>3, <2>4, <2>5, <2>6
<1>9. symbols' \in [Ends(n) -> Node(n)]
  BY <1>7, <1>8
<1> QED
  BY <1>2, <1>3, <1>4, <1>5, <1>6, <1>8, <1>9 DEF n, l, r, q

\* Joining two neighbours leaves a list that tiles the text.
LEMMA MergeKeepsInv == ListInv /\ MergePair => ListInv'
PROOF
<1> SUFFICES ASSUME ListInv, MergePair PROVE ListInv'
  OBVIOUS
<1> DEFINE n == Len(s)
<1>1. PICK b \in work :
        /\ IsCurrent(b)
        /\ symbols' = JoinNodes(b)
        /\ work' = (work \ {b})
              \cup Candidates(symbols', s, symbols'[b.left].prev, b.left)
              \cup Candidates(symbols', s, b.left, symbols'[b.left].next)
  BY DEF MergePair
<1> DEFINE l == b.left
           r == b.right
           q == symbols[r].next
<1>0. s' = s /\ sp' = "merging" /\ sp = "merging"
  BY DEF MergePair
<1>2. /\ s \in Seq(DOMAIN Bytes) /\ s # <<>> /\ n \in Nat
      /\ symbols \in [Ends(n) -> Node(n)] /\ symbols' \in [Ends(n) -> Node(n)]
      /\ l \in Ends(n) /\ r \in Ends(n)
  BY <1>0, <1>1, JoinedNodes
<1>3. /\ symbols[l].len > 0 /\ symbols[r].len > 0
      /\ symbols[l].next = r /\ symbols[r].prev = l
  BY <1>0, <1>1, JoinedNodes
<1>4. /\ Live(0) /\ symbols[0].prev = -1 /\ symbols[0].off = 0
      /\ \A i \in Ends(n) : symbols[i].len > 0 =>
            IF symbols[i].next = -1
            THEN symbols[i].off + symbols[i].len = n
            ELSE /\ symbols[i].next \in Ends(n) /\ symbols[symbols[i].next].len > 0
                 /\ i < symbols[i].next
                 /\ symbols[symbols[i].next].prev = i
                 /\ symbols[symbols[i].next].off = symbols[i].off + symbols[i].len
  BY <1>0, <1>1, JoinedNodes
<1>5. /\ \A i \in Ends(n) : /\ symbols[i].prev \in -1 .. (n - 1) /\ symbols[i].next \in -1 .. (n - 1)
                            /\ symbols[i].off \in Nat /\ symbols[i].len \in Nat
      /\ q \in -1 .. (n - 1)
  BY <1>0, <1>1, JoinedNodes
<1>6. l < r /\ r # l /\ q # l /\ q # r /\ r # 0
  BY <1>0, <1>1, JoinedNodes
<1>8. \A i \in Ends(n) :
        /\ symbols'[i] \in Node(n)
        /\ symbols'[i].off = symbols[i].off
        /\ symbols'[i].len = IF i = l THEN symbols[l].len + symbols[r].len
                             ELSE IF i = r THEN 0 ELSE symbols[i].len
        /\ symbols'[i].next = IF i = l THEN q ELSE symbols[i].next
        /\ symbols'[i].prev = IF i = q THEN l ELSE symbols[i].prev
  BY <1>0, <1>1, JoinedNodes
<1> HIDE DEF n, l, r, q
<1>9. ListTypeOK'
  <2> SUFFICES ASSUME NEW c \in work' PROVE c.left \in Ends(n) /\ c.right \in Ends(n)
    BY <1>0, <1>2 DEF ListTypeOK, n
  <2>2. CASE c \in work
    BY <1>2, <2>2 DEF ListInv, ListTypeOK, n
  <2>3. /\ symbols'[l].prev \in -1 .. (n - 1) /\ symbols'[l].next \in -1 .. (n - 1)
        /\ l \in -1 .. (n - 1)
    <3>1. symbols'[l] \in Node(n)
      BY <1>2, <1>8
    <3>2. l \in -1 .. (n - 1)
      BY <1>2 DEF Ends
    <3> QED
      BY <3>1, <3>2 DEF Node
  <2>4. CASE c \in Candidates(symbols', s, symbols'[l].prev, l)
    BY <1>2, <2>3, <2>4, CandidateEnds
  <2>5. CASE c \in Candidates(symbols', s, l, symbols'[l].next)
    BY <1>2, <2>3, <2>5, CandidateEnds
  <2> QED
    BY <1>1, <2>2, <2>4, <2>5 DEF l
<1>10. /\ 0 \in Ends(n) /\ symbols'[0].len > 0
       /\ symbols'[0].prev = -1 /\ symbols'[0].off = 0
  <2>1. 0 \in Ends(n) /\ symbols[0].len > 0
    BY <1>2, <1>4 DEF Live, Ends
  <2>2. q # 0
    BY <1>2, <1>3, <1>4, <1>6 DEF Ends, q
  <2>3. symbols'[0].len > 0
    <3>1. symbols[l].len + symbols[r].len > 0
      BY <1>2, <1>3, <1>5
    <3>2. symbols'[0].len \in {symbols[l].len + symbols[r].len, symbols[0].len}
      BY <1>6, <1>8, <2>1
    <3> QED
      BY <2>1, <3>1, <3>2
  <2> QED
    BY <1>4, <1>8, <2>1, <2>2, <2>3
<1>11. ASSUME NEW i \in Ends(n), symbols'[i].len > 0
       PROVE  IF symbols'[i].next = -1
              THEN symbols'[i].off + symbols'[i].len = n
              ELSE /\ symbols'[i].next \in Ends(n) /\ symbols'[symbols'[i].next].len > 0
                   /\ i < symbols'[i].next
                   /\ symbols'[symbols'[i].next].prev = i
                   /\ symbols'[symbols'[i].next].off = symbols'[i].off + symbols'[i].len
  <2>1. i # r
    BY <1>6, <1>8, <1>11
  <2>2. CASE i = l
    <3>1. symbols'[i].next = q /\ symbols'[i].len = symbols[l].len + symbols[r].len
      BY <1>8, <2>2
    <3>2. CASE q = -1
      <4>1. /\ symbols[r].off + symbols[r].len = n
            /\ symbols[r].off = symbols[l].off + symbols[l].len
        BY <1>2, <1>3, <1>4, <3>2 DEF q, Ends
      <4>2. symbols'[i].off = symbols[l].off
        BY <1>8, <2>2
      <4>3. symbols[l].off + (symbols[l].len + symbols[r].len) = n
        BY <1>2, <1>5, <4>1
      <4> QED
        BY <3>1, <3>2, <4>2, <4>3
    <3>3. CASE q # -1
      <4>1. /\ q \in Ends(n) /\ symbols[q].len > 0 /\ r < q /\ l < r
            /\ symbols[q].off = symbols[r].off + symbols[r].len
            /\ symbols[r].off = symbols[l].off + symbols[l].len
        BY <1>2, <1>3, <1>4, <3>3 DEF q, Ends
      <4>2. symbols'[q].off = symbols[q].off /\ symbols'[q].len = symbols[q].len /\ symbols'[q].prev = l
        BY <1>6, <1>8, <4>1
      <4>3. symbols'[i].off = symbols[l].off
        BY <1>8, <2>2
      <4>4. symbols[q].off = symbols[l].off + (symbols[l].len + symbols[r].len) /\ l < q
        <5>1. /\ symbols[l].off \in Nat /\ symbols[l].len \in Nat /\ symbols[r].len \in Nat
              /\ l \in Int /\ r \in Int /\ q \in Int
          BY <1>2, <1>5, <4>1 DEF Ends
        <5> QED
          BY <4>1, <5>1
      <4> QED
        BY <2>2, <3>1, <3>3, <4>1, <4>2, <4>3, <4>4
    <3> QED
      BY <3>2, <3>3
  <2>3. CASE i # l
    <3> DEFINE x == symbols[i].next
    <3>1. symbols'[i].next = x /\ symbols'[i].len = symbols[i].len /\ symbols[i].len > 0
      BY <1>8, <1>11, <2>1, <2>3
    <3>2. CASE x = -1
      BY <1>4, <1>8, <3>1, <3>2
    <3>3. CASE x # -1
      <4>1. /\ x \in Ends(n) /\ symbols[x].len > 0 /\ i < x /\ symbols[x].prev = i
            /\ symbols[x].off = symbols[i].off + symbols[i].len
        BY <1>4, <3>1, <3>3
      <4>2. x # r
        BY <1>3, <2>3, <4>1
      <4>3. x # q
        BY <1>2, <1>3, <1>4, <2>1, <4>1 DEF q, Ends
      <4>4. symbols'[x].len > 0
        <5>1. symbols[l].len + symbols[r].len > 0
          BY <1>2, <1>3, <1>5
        <5>2. symbols'[x].len \in {symbols[l].len + symbols[r].len, symbols[x].len}
          <6> HIDE DEF x
          <6> QED
            BY <1>8, <4>1, <4>2
        <5> QED
          BY <4>1, <5>1, <5>2
      <4> HIDE DEF x
      <4> QED
        BY <1>8, <3>1, <3>3, <4>1, <4>3, <4>4
    <3> QED
      BY <3>2, <3>3
  <2> QED
    BY <2>2, <2>3
<1>12. ListTilesText'
  <2>1. DOMAIN symbols' = Ends(n)
    BY <1>2
  <2> QED
    BY <1>0, <1>2, <1>10, <1>11, <2>1 DEF ListTilesText, Live, n
<1> QED
  BY <1>9, <1>12 DEF ListInv

LEMMA StepKeepsInv == ListInv /\ [SpNext]_spVars => ListInv'
PROOF
<1> SUFFICES ASSUME ListInv, [SpNext]_spVars PROVE ListInv'
  OBVIOUS
<1>1. CASE EncodeEmpty
  BY <1>1 DEF EncodeEmpty, ListInv, ListTypeOK, ListTilesText
<1>2. CASE EncodeBegins
  BY <1>2, BeginKeepsInv
<1>3. CASE DropStale
  BY <1>3 DEF DropStale, ListInv, ListTypeOK, ListTilesText, Live
<1>4. CASE MergePair
  BY <1>4, MergeKeepsInv
<1>5. CASE QueueEmpty
  BY <1>5 DEF QueueEmpty, ListInv, ListTypeOK, ListTilesText, Live
<1>6. CASE EmitTokens
  BY <1>6 DEF EmitTokens, ListInv, ListTypeOK, ListTilesText, Live
<1>7. CASE UNCHANGED spVars
  BY <1>7 DEF spVars, ListInv, ListTypeOK, ListTilesText, Live
<1> QED
  BY <1>1, <1>2, <1>3, <1>4, <1>5, <1>6, <1>7 DEF SpNext, SpReturned

(***************************************************************************)
(* Whatever the vocabulary and the scores, the list tiles the text at      *)
(* every step of encode_sentencepiece, and the queue only ever names nodes *)
(* of the list: no index is out of the array, no character is lost.        *)
(***************************************************************************)
THEOREM ListCorrect == SpSpec => []ListInv
PROOF
<1>1. SpInit => ListInv
  BY ListInitially
<1>2. ListInv /\ [SpNext]_spVars => ListInv'
  BY StepKeepsInv
<1> QED
  BY <1>1, <1>2, PTL DEF SpSpec

(***************************************************************************)
(* The tokenizer takes no other steps on the list: whatever it encodes, no *)
(* character is lost, repeated or moved by a merge.                        *)
(***************************************************************************)
THEOREM NoCharacterIsLost == TokSpec => []ListTilesText
PROOF
<1>1. TokInit => SpInit
  BY DEF TokInit
<1>2. [Encode]_tokVars => [SpNext]_spVars
  BY DEF Encode, tokVars
<1>3. ListInv => ListTilesText
  BY DEF ListInv
<1> QED
  BY <1>1, <1>2, <1>3, ListCorrect, PTL DEF TokSpec, SpSpec

-----------------------------------------------------------------------------
\* A table applied to each element.
Mapped(m, g) == [i \in DOMAIN g |-> m[g[i]]]

LEMMA SameSequence ==
    ASSUME NEW B, NEW l \in Seq(B), NEW r \in Seq(B), Len(l) = Len(r),
           \A k \in 1 .. Len(l) : l[k] = r[k]
    PROVE  l = r
OBVIOUS

LEMMA MappedTyped ==
    ASSUME NEW A, NEW B, NEW m \in [A -> B], NEW g \in Seq(A)
    PROVE  Mapped(m, g) \in Seq(B) /\ Len(Mapped(m, g)) = Len(g)
PROOF
<1>1. Mapped(m, g) \in [1 .. Len(g) -> B] /\ Len(g) \in Nat
  BY DEF Mapped
<1> QED
  BY <1>1

LEMMA MappedLength ==
    ASSUME NEW A, NEW m, NEW g \in Seq(A)
    PROVE  /\ Mapped(m, g) \in Seq({m[x] : x \in A})
           /\ Len(Mapped(m, g)) = Len(g)
PROOF
<1>1. Mapped(m, g) \in [1 .. Len(g) -> {m[x] : x \in A}] /\ Len(g) \in Nat
  BY DEF Mapped
<1> QED
  BY <1>1

LEMMA MappedJoins ==
    ASSUME NEW A, NEW m, NEW g \in Seq(A), NEW h \in Seq(A)
    PROVE  Mapped(m, g \o h) = Mapped(m, g) \o Mapped(m, h)
PROOF
<1> DEFINE B == {m[x] : x \in A}
<1>1. g \o h \in Seq(A) /\ Len(g \o h) = Len(g) + Len(h) /\ Len(g) \in Nat /\ Len(h) \in Nat
  OBVIOUS
<1>2. \A q \in Seq(A) : Mapped(m, q) \in Seq(B) /\ Len(Mapped(m, q)) = Len(q)
  BY MappedLength
<1> HIDE DEF B
<1>3. /\ Mapped(m, g) \in Seq(B) /\ Len(Mapped(m, g)) = Len(g)
      /\ Mapped(m, h) \in Seq(B) /\ Len(Mapped(m, h)) = Len(h)
      /\ Mapped(m, g \o h) \in Seq(B) /\ Len(Mapped(m, g \o h)) = Len(g) + Len(h)
  BY <1>1, <1>2
<1>4. \A q, w \in Seq(B) : /\ q \o w \in Seq(B) /\ Len(q \o w) = Len(q) + Len(w)
                           /\ \A k \in 1 .. Len(q) : (q \o w)[k] = q[k]
                           /\ \A k \in (Len(q) + 1) .. (Len(q) + Len(w)) : (q \o w)[k] = w[k - Len(q)]
  OBVIOUS
<1> DEFINE l == Mapped(m, g \o h)
           r == Mapped(m, g) \o Mapped(m, h)
<1>5. /\ r \in Seq(B) /\ Len(r) = Len(g) + Len(h)
      /\ \A k \in 1 .. Len(g) : r[k] = Mapped(m, g)[k]
      /\ \A k \in (Len(g) + 1) .. (Len(g) + Len(h)) : r[k] = Mapped(m, h)[k - Len(g)]
  BY <1>3, <1>4
<1>6. ASSUME NEW k \in 1 .. (Len(g) + Len(h))
      PROVE  l[k] = r[k]
  <2>1. l[k] = m[(g \o h)[k]]
    BY <1>1 DEF Mapped
  <2>2. k \in Int /\ Len(g) \in Int
    BY <1>1
  <2>3. CASE k <= Len(g)
    <3>1. (g \o h)[k] = g[k] /\ k \in DOMAIN g /\ k \in 1 .. Len(g)
      BY <1>1, <2>3
    <3>2. r[k] = Mapped(m, g)[k]
      <4> HIDE DEF r
      <4> QED
        BY <1>5, <3>1
    <3>3. Mapped(m, g)[k] = m[g[k]]
      BY <3>1 DEF Mapped
    <3> HIDE DEF l, r
    <3> QED
      BY <2>1, <3>1, <3>2, <3>3
  <2>4. CASE k > Len(g)
    <3>1. /\ (g \o h)[k] = h[k - Len(g)] /\ k \in (Len(g) + 1) .. (Len(g) + Len(h))
          /\ k - Len(g) \in DOMAIN h
      BY <1>1, <2>4
    <3>2. r[k] = Mapped(m, h)[k - Len(g)]
      <4> HIDE DEF r
      <4> QED
        BY <1>5, <3>1
    <3>3. Mapped(m, h)[k - Len(g)] = m[h[k - Len(g)]]
      BY <3>1 DEF Mapped
    <3> HIDE DEF l, r
    <3> QED
      BY <2>1, <3>1, <3>2, <3>3
  <2> HIDE DEF l, r
  <2> QED
    BY <2>2, <2>3, <2>4
<1>7. l \in Seq(B) /\ Len(l) = Len(g) + Len(h)
  BY <1>3
<1> HIDE DEF l, r
<1>8. l = r
  BY <1>1, <1>5, <1>6, <1>7, SameSequence
<1> QED
  BY <1>8 DEF l, r

\* Joining the images of the elements.
Image(m, g) == Concat(Mapped(m, g))

LEMMA ImageTyped ==
    ASSUME NEW A, NEW B, NEW m \in [A -> Seq(B)], NEW g \in Seq(A)
    PROVE  Image(m, g) \in Seq(B)
PROOF
<1>1. Mapped(m, g) \in Seq(Seq(B))
  BY MappedTyped
<1> QED
  BY <1>1, ConcatTyped DEF Image

LEMMA ImageJoins ==
    ASSUME NEW A, NEW B, NEW m \in [A -> Seq(B)], NEW g \in Seq(A), NEW h \in Seq(A)
    PROVE  Image(m, g \o h) = Image(m, g) \o Image(m, h)
PROOF
<1>1. Mapped(m, g) \in Seq(Seq(B)) /\ Mapped(m, h) \in Seq(Seq(B))
  BY MappedTyped
<1>2. Mapped(m, g \o h) = Mapped(m, g) \o Mapped(m, h)
  BY MappedJoins
<1>3. \A x, y \in Seq(Seq(B)) : Concat(x \o y) = Concat(x) \o Concat(y)
  BY ConcatJoins
<1> QED
  BY <1>1, <1>2, <1>3 DEF Image

LEMMA ImagesJoin ==
    ASSUME NEW A, NEW B, NEW m \in [A -> Seq(B)]
    PROVE  \A g, h \in Seq(A) : Image(m, g \o h) = Image(m, g) \o Image(m, h)
BY ImageJoins

LEMMA ImageEmpty == ASSUME NEW m PROVE Image(m, <<>>) = <<>>
PROOF
<1>1. Mapped(m, <<>>) = <<>>
  BY DEF Mapped
<1> QED
  BY <1>1, ConcatEmpty DEF Image

LEMMA ImageOne ==
    ASSUME NEW A, NEW B, NEW m \in [A -> Seq(B)], NEW x \in A
    PROVE  Image(m, <<x>>) = m[x]
PROOF
<1>1. Mapped(m, <<x>>) = <<m[x]>>
  BY DEF Mapped
<1>2. m[x] \in Seq(B)
  OBVIOUS
<1> QED
  BY <1>1, <1>2, ConcatOne DEF Image

\* Characters put together one by one.
LEMMA ConcatSingles ==
    ASSUME NEW T
    PROVE  \A z \in Seq(T) : Concat([i \in DOMAIN z |-> <<z[i]>>]) = z
PROOF
<1> DEFINE m == [x \in T |-> <<x>>]
<1>1. m \in [T -> Seq(T)]
  OBVIOUS
<1> HIDE DEF m
<1>2. \A q, r \in Seq(T) : Image(m, q \o r) = Image(m, q) \o Image(m, r)
  BY <1>1, ImagesJoin, SMTT(20)
<1>3. \A x \in T : Image(m, <<x>>) = m[x]
  BY <1>1, ImageOne
<1> DEFINE S == {w \in Seq(T) : Image(m, w) = w}
<1>4. <<>> \in S
  BY ImageEmpty
<1>5. ASSUME NEW w \in Seq(T), NEW x \in T, w \in S
      PROVE  Append(w, x) \in S
  <2>1. Append(w, x) = w \o <<x>> /\ <<x>> \in Seq(T) /\ Append(w, x) \in Seq(T)
    OBVIOUS
  <2>2. Image(m, w \o <<x>>) = Image(m, w) \o Image(m, <<x>>)
    BY <1>2, <2>1
  <2>3. Image(m, <<x>>) = <<x>>
    BY <1>3 DEF m
  <2>4. Image(m, w) = w
    BY <1>5
  <2> QED
    BY <2>1, <2>2, <2>3, <2>4
<1>6. Seq(T) \subseteq S
  <2> HIDE DEF S
  <2> QED
    BY <1>4, <1>5, SequencesGrow
<1> TAKE z \in Seq(T)
<1>7. Image(m, z) = z
  BY <1>6
<1>8. Mapped(m, z) = [i \in DOMAIN z |-> <<z[i]>>]
  BY DEF Mapped, m
<1> QED
  BY <1>7, <1>8 DEF Image

\* A sequence is what is before an element, the element and the rest.
LEMMA CutAt ==
    ASSUME NEW A, NEW g \in Seq(A), NEW j \in 1 .. Len(g)
    PROVE  /\ SubSeq(g, 1, j - 1) \in Seq(A)
           /\ SubSeq(g, j + 1, Len(g)) \in Seq(A)
           /\ g[j] \in A
           /\ g = (SubSeq(g, 1, j - 1) \o <<g[j]>>) \o SubSeq(g, j + 1, Len(g))
PROOF
<1> DEFINE a == SubSeq(g, 1, j - 1)
           b == SubSeq(g, j + 1, Len(g))
<1>1. a \in Seq(A) /\ b \in Seq(A) /\ g[j] \in A
  OBVIOUS
<1>2. Len(a) = j - 1 /\ Len(b) = Len(g) - j /\ j \in Nat /\ Len(g) \in Nat
  OBVIOUS
<1>3. \A k \in 1 .. (j - 1) : a[k] = g[k]
  OBVIOUS
<1>4. \A k \in 1 .. (Len(g) - j) : b[k] = g[j + k]
  <2> SUFFICES ASSUME NEW k \in 1 .. (Len(g) - j) PROVE b[k] = g[j + k]
    OBVIOUS
  <2>1. k \in 1 .. (Len(g) - (j + 1) + 1) /\ (j + 1) + k - 1 = j + k
    BY <1>2
  <2> QED
    BY <1>2, <2>1
<1> DEFINE c == a \o <<g[j]>>
<1>5. c \in Seq(A) /\ Len(c) = j /\ \A k \in 1 .. j : c[k] = g[k]
  <2> HIDE DEF a, b
  <2>1. c \in Seq(A) /\ Len(c) = j
    BY <1>1, <1>2
  <2>2. \A k \in 1 .. (j - 1) : c[k] = a[k]
    BY <1>1, <1>2
  <2>3. c[j] = g[j]
    BY <1>1, <1>2
  <2> HIDE DEF c
  <2>4. ASSUME NEW k \in 1 .. j PROVE c[k] = g[k]
    <3>1. k = j \/ k \in 1 .. (j - 1)
      BY <1>2
    <3> QED
      BY <1>3, <2>2, <2>3, <3>1
  <2> QED
    BY <2>1, <2>4
<1> DEFINE d == c \o b
<1> HIDE DEF a, b, c
<1>6. d \in Seq(A) /\ Len(d) = Len(g)
  BY <1>1, <1>2, <1>5
<1>7. ASSUME NEW k \in 1 .. Len(g) PROVE d[k] = g[k]
  <2>1. CASE k <= j
    <3>1. d[k] = c[k] /\ k \in 1 .. j
      BY <1>1, <1>2, <1>5, <2>1
    <3> QED
      BY <1>5, <3>1
  <2>2. CASE k > j
    <3>1. d[k] = b[k - j]
      BY <1>1, <1>2, <1>5, <2>2
    <3>2. k - j \in 1 .. (Len(g) - j) /\ j + (k - j) = k
      BY <1>2, <2>2
    <3> HIDE DEF d
    <3> QED
      BY <1>4, <3>1, <3>2
  <2>3. k \in Int /\ j \in Int
    BY <1>2
  <2> HIDE DEF d
  <2> QED
    BY <2>1, <2>2, <2>3
<1> HIDE DEF d
<1>8. d = g
  BY <1>6, <1>7, SameSequence
<1> QED
  BY <1>1, <1>8 DEF a, b, c, d

\* An element and what is before it are no longer than the whole.
LEMMA ImagePart ==
    ASSUME NEW A, NEW B, NEW m \in [A -> Seq(B)]
    PROVE  \A g \in Seq(A) : \A j \in 1 .. Len(g) :
               /\ Len(Image(m, SubSeq(g, 1, j - 1))) \in Nat
               /\ Len(m[g[j]]) \in Nat /\ Len(Image(m, g)) \in Nat
               /\ Len(Image(m, SubSeq(g, 1, j - 1))) + Len(m[g[j]]) <= Len(Image(m, g))
PROOF
<1>1. \A q, r \in Seq(A) : Image(m, q \o r) = Image(m, q) \o Image(m, r)
  BY ImagesJoin
<1>2. \A x \in A : Image(m, <<x>>) = m[x]
  BY ImageOne
<1>3. \A q \in Seq(A) : Image(m, q) \in Seq(B)
  BY ImageTyped
<1>4. \A x, y, z \in Nat : x + y <= (x + y) + z
  OBVIOUS
<1>5. \A x \in A : m[x] \in Seq(B) /\ <<x>> \in Seq(A)
  OBVIOUS
<1>6. \A q, r \in Seq(A) : q \o r \in Seq(A)
  OBVIOUS
<1>7. \A q, r \in Seq(B) : q \o r \in Seq(B) /\ Len(q \o r) = Len(q) + Len(r) /\ Len(q) \in Nat
  OBVIOUS
<1> TAKE g \in Seq(A)
<1> TAKE j \in 1 .. Len(g)
<1> DEFINE a == SubSeq(g, 1, j - 1)
           b == SubSeq(g, j + 1, Len(g))
           x == g[j]
<1>8. a \in Seq(A) /\ b \in Seq(A) /\ x \in A /\ g = (a \o <<x>>) \o b
  BY CutAt
<1> HIDE DEF a, b, x
<1>9. Image(m, g) = (Image(m, a) \o m[x]) \o Image(m, b)
  <2>1. a \o <<x>> \in Seq(A) /\ <<x>> \in Seq(A)
    BY <1>5, <1>6, <1>8
  <2>2. Image(m, (a \o <<x>>) \o b) = Image(m, a \o <<x>>) \o Image(m, b)
    BY <1>1, <1>8, <2>1
  <2>3. Image(m, a \o <<x>>) = Image(m, a) \o Image(m, <<x>>)
    BY <1>1, <1>8, <2>1
  <2> QED
    BY <1>2, <1>8, <2>2, <2>3
<1>10. Image(m, a) \in Seq(B) /\ Image(m, b) \in Seq(B) /\ m[x] \in Seq(B)
  BY <1>3, <1>5, <1>8
<1>11. /\ Len(Image(m, a)) \in Nat /\ Len(Image(m, b)) \in Nat /\ Len(m[x]) \in Nat
       /\ Len(Image(m, g)) \in Nat
       /\ Len(Image(m, g)) = (Len(Image(m, a)) + Len(m[x])) + Len(Image(m, b))
  <2> DEFINE ab == Image(m, a) \o m[x]
  <2>1. ab \in Seq(B) /\ Len(ab) = Len(Image(m, a)) + Len(m[x])
    BY <1>7, <1>10
  <2> HIDE DEF ab
  <2>2. Image(m, g) = ab \o Image(m, b)
    BY <1>9 DEF ab
  <2> QED
    BY <1>7, <1>10, <2>1, <2>2
<1>12. Len(Image(m, a)) + Len(m[x]) <= Len(Image(m, g))
  BY <1>4, <1>11
<1> QED
  BY <1>11, <1>12 DEF a, x

-----------------------------------------------------------------------------
(***************************************************************************)
(* What the tokens of encode_gpt2 decode to.                               *)
(***************************************************************************)
Chars == {Atom[b] : b \in DOMAIN Atom}
Alphabet == DOMAIN Atom \cup {"unk"}

OrdinaryTokens == {<<"unk">>} \cup ({"piece"} \X Seq(Chars))
GptTokens == OrdinaryTokens \cup ({"special", "raw"} \X Seq(DOMAIN Atom))

DecodedOf == [t \in GptTokens |-> Decoded(t)]
Back(g) == Image(DecodedOf, g)
Known(g) == \A i \in DOMAIN g : g[i] # <<"unk">>
AtomsRead(z) == [i \in DOMAIN z |-> FromAtom(z[i])]

LEMMA FromAtomTyped ==
    /\ \A c \in Chars \cup DOMAIN Atom : FromAtom(c) \in DOMAIN Atom
    /\ \A b \in DOMAIN Atom : FromAtom(Atom[b]) = b
PROOF
<1>1. ASSUME NEW c \in Chars \cup DOMAIN Atom PROVE FromAtom(c) \in DOMAIN Atom
  <2>1. CASE \E b \in DOMAIN Atom : Atom[b] = c
    <3>1. FromAtom(c) = CHOOSE b \in DOMAIN Atom : Atom[b] = c
      BY <2>1 DEF FromAtom
    <3> QED
      BY <2>1, <3>1
  <2>2. CASE ~ \E b \in DOMAIN Atom : Atom[b] = c
    BY <2>2 DEF FromAtom, Chars
  <2> QED
    BY <2>1, <2>2
<1>2. ASSUME NEW b \in DOMAIN Atom PROVE FromAtom(Atom[b]) = b
  <2>1. FromAtom(Atom[b]) = CHOOSE x \in DOMAIN Atom : Atom[x] = Atom[b]
    BY DEF FromAtom
  <2>2. \E x \in DOMAIN Atom : Atom[x] = Atom[b]
    OBVIOUS
  <2>3. FromAtom(Atom[b]) \in DOMAIN Atom /\ Atom[FromAtom(Atom[b])] = Atom[b]
    BY <2>1, <2>2
  <2> QED
    BY <2>3, BpeAssumption
<1> QED
  BY <1>1, <1>2

LEMMA DecodedTyped ==
    ASSUME NEW t \in GptTokens
    PROVE  /\ Decoded(t) \in Seq(Alphabet)
           /\ t = <<"unk">> => Decoded(t) = <<"unk">>
           /\ t # <<"unk">> => Decoded(t) = AtomsRead(t[2]) /\ Len(Decoded(t)) = Len(t[2])
PROOF
<1>1. CASE t = <<"unk">>
  <2>1. Decoded(t) = <<"unk">>
    BY <1>1 DEF Decoded
  <2>2. "unk" \in Alphabet
    BY DEF Alphabet
  <2>3. <<"unk">> \in Seq(Alphabet)
    BY <2>2
  <2> QED
    BY <1>1, <2>1, <2>3
<1>2. CASE t # <<"unk">>
  <2>1. t[1] # "unk" /\ t[2] \in Seq(Chars \cup DOMAIN Atom)
    <3>1. CASE t \in {"piece"} \X Seq(Chars)
      <4>1. Seq(Chars) \subseteq Seq(Chars \cup DOMAIN Atom)
        OBVIOUS
      <4> QED
        BY <3>1, <4>1
    <3>2. CASE t \in {"special", "raw"} \X Seq(DOMAIN Atom)
      <4>1. Seq(DOMAIN Atom) \subseteq Seq(Chars \cup DOMAIN Atom)
        OBVIOUS
      <4> QED
        BY <3>2, <4>1
    <3> QED
      BY <1>2, <3>1, <3>2 DEF GptTokens, OrdinaryTokens
  <2>2. Decoded(t) = AtomsRead(t[2])
    BY <2>1 DEF Decoded, AtomsRead
  <2>3. AtomsRead(t[2]) \in [1 .. Len(t[2]) -> Alphabet] /\ Len(t[2]) \in Nat
    BY <2>1, FromAtomTyped DEF AtomsRead, Alphabet
  <2> QED
    BY <1>2, <2>2, <2>3
<1> QED
  BY <1>1, <1>2

LEMMA DecodedOfTyped ==
    DecodedOf \in [GptTokens -> Seq(Alphabet)] /\ \A t \in GptTokens : DecodedOf[t] = Decoded(t)
PROOF
<1>1. \A t \in GptTokens : Decoded(t) \in Seq(Alphabet)
  BY DecodedTyped
<1> QED
  BY <1>1, Zenon DEF DecodedOf

LEMMA BackJoins ==
    /\ \A g, h \in Seq(GptTokens) : Back(g \o h) = Back(g) \o Back(h)
    /\ \A g \in Seq(GptTokens) : Back(g) \in Seq(Alphabet)
    /\ \A t \in GptTokens : Back(<<t>>) = Decoded(t)
    /\ Back(<<>>) = <<>>
PROOF
<1> DEFINE m == DecodedOf
<1>1. m \in [GptTokens -> Seq(Alphabet)] /\ \A t \in GptTokens : m[t] = Decoded(t)
  BY DecodedOfTyped
<1> HIDE DEF m
<1>2. \A g, h \in Seq(GptTokens) : Image(m, g \o h) = Image(m, g) \o Image(m, h)
  BY <1>1, ImagesJoin
<1>3. \A g \in Seq(GptTokens) : Image(m, g) \in Seq(Alphabet)
  BY <1>1, ImageTyped
<1>4. \A t \in GptTokens : Image(m, <<t>>) = Decoded(t)
  BY <1>1, ImageOne
<1>5. Image(m, <<>>) = <<>>
  BY ImageEmpty
<1> QED
  BY <1>2, <1>3, <1>4, <1>5, Zenon DEF Back, m

\* The tokens of a piece read as its bytes, unless one of them is unknown.
LEMMA PieceDecodes ==
    ASSUME NEW z \in Seq(Chars)
    PROVE  /\ PieceTokens(z) \in Seq(OrdinaryTokens)
           /\ Len(Back(PieceTokens(z))) = Len(z)
           /\ Known(PieceTokens(z)) => Back(PieceTokens(z)) = AtomsRead(z)
PROOF
<1>0. \A x \in Seq(Chars) : <<"piece", x>> \in OrdinaryTokens /\ <<"piece", x>> # <<"unk">>
  BY DEF OrdinaryTokens
<1>1. <<"unk">> \in OrdinaryTokens
  BY DEF OrdinaryTokens
<1>2. OrdinaryTokens \subseteq GptTokens
  BY DEF GptTokens
<1>3. Len(z) \in Nat /\ Len(AtomsRead(z)) = Len(z) /\ AtomsRead(z) \in Seq(Alphabet)
  <2>1. AtomsRead(z) \in [1 .. Len(z) -> Alphabet] /\ Len(z) \in Nat
    BY FromAtomTyped DEF AtomsRead, Alphabet
  <2> QED
    BY <2>1
<1>4. CASE z \in bpe.pieces
  <2> DEFINE t == <<"piece", z>>
  <2>1. PieceTokens(z) = <<t>>
    BY <1>4 DEF PieceTokens
  <2>2. t \in OrdinaryTokens /\ t \in GptTokens /\ t # <<"unk">> /\ t[2] = z
    BY <1>0, <1>2
  <2> HIDE DEF t
  <2>3. Back(<<t>>) = AtomsRead(z)
    BY <2>2, BackJoins, DecodedTyped
  <2>4. <<t>> \in Seq(OrdinaryTokens)
    BY <2>2
  <2> QED
    BY <1>3, <2>1, <2>3, <2>4, Zenon
<1>5. CASE z \notin bpe.pieces
  <2> DEFINE out == PieceTokens(z)
             y == [i \in 1 .. Len(z) |-> IF <<z[i]>> \in bpe.pieces THEN FromAtom(z[i]) ELSE "unk"]
  <2>1. out = [i \in 1 .. Len(z) |-> IF <<z[i]>> \in bpe.pieces THEN <<"piece", <<z[i]>> >> ELSE <<"unk">>]
    BY <1>5 DEF PieceTokens
  <2>2. \A i \in 1 .. Len(z) : z[i] \in Chars /\ <<z[i]>> \in Seq(Chars)
    OBVIOUS
  <2>3. \A i \in 1 .. Len(z) : out[i] \in OrdinaryTokens
    BY <1>0, <1>1, <2>1, <2>2
  <2>4. y \in Seq(Alphabet) /\ Len(y) = Len(z) /\ DOMAIN y = 1 .. Len(z)
    <3>1. y \in [1 .. Len(z) -> Alphabet]
      BY <2>2, FromAtomTyped DEF Alphabet
    <3> QED
      BY <1>3, <3>1
  <2>5. \A i \in 1 .. Len(z) : Decoded(out[i]) = <<y[i]>>
    <3> SUFFICES ASSUME NEW i \in 1 .. Len(z) PROVE Decoded(out[i]) = <<y[i]>>
      OBVIOUS
    <3>1. CASE <<z[i]>> \in bpe.pieces
      <4>1. out[i] = <<"piece", <<z[i]>> >> /\ y[i] = FromAtom(z[i])
        BY <2>1, <3>1
      <4>2. Decoded(<<"piece", <<z[i]>> >>) = [k \in DOMAIN <<z[i]>> |-> FromAtom(<<z[i]>>[k])]
        BY DEF Decoded
      <4>3. [k \in DOMAIN <<z[i]>> |-> FromAtom(<<z[i]>>[k])] = <<FromAtom(z[i])>>
        OBVIOUS
      <4> HIDE DEF out, y
      <4> QED
        BY <4>1, <4>2, <4>3
    <3>2. CASE <<z[i]>> \notin bpe.pieces
      <4>1. out[i] = <<"unk">> /\ y[i] = "unk"
        BY <2>1, <3>2
      <4>2. Decoded(<<"unk">>) = <<"unk">>
        BY DEF Decoded
      <4> HIDE DEF out, y
      <4> QED
        BY <4>1, <4>2
    <3> QED
      BY <3>1, <3>2
  <2>6. out \in Seq(OrdinaryTokens) /\ DOMAIN out = 1 .. Len(z)
    <3>1. out \in [1 .. Len(z) -> OrdinaryTokens]
      BY <2>1, <2>3
    <3> HIDE DEF out
    <3> QED
      BY <1>3, <3>1
  <2>7. Back(out) = y
    <3>1. Mapped(DecodedOf, out) = [i \in DOMAIN y |-> <<y[i]>>]
      <4>1. \A i \in 1 .. Len(z) : DecodedOf[out[i]] = <<y[i]>>
        <5> HIDE DEF out, y
        <5> QED
          BY <1>2, <2>3, <2>5, DecodedOfTyped
      <4> HIDE DEF out, y
      <4> QED
        BY <2>4, <2>6, <4>1 DEF Mapped
    <3>2. Concat([i \in DOMAIN y |-> <<y[i]>>]) = y
      <4> HIDE DEF y
      <4> QED
        BY <2>4, ConcatSingles
    <3> HIDE DEF out, y
    <3> QED
      BY <3>1, <3>2 DEF Back, Image
  <2>8. Known(out) => y = AtomsRead(z)
    <3> SUFFICES ASSUME Known(out) PROVE y = AtomsRead(z)
      OBVIOUS
    <3>1. \A i \in 1 .. Len(z) : <<z[i]>> \in bpe.pieces
      <4> SUFFICES ASSUME NEW i \in 1 .. Len(z), <<z[i]>> \notin bpe.pieces PROVE FALSE
        OBVIOUS
      <4>1. out[i] = <<"unk">>
        BY <2>1
      <4> HIDE DEF out
      <4> QED
        BY <2>6, <4>1 DEF Known
    <3> QED
      BY <3>1 DEF AtomsRead
  <2> HIDE DEF y
  <2> QED
    BY <2>4, <2>6, <2>7, <2>8
<1> QED
  BY <1>4, <1>5

\* The tokens of a word, before it is known whether one of them is unknown.
PieceTable == [z \in Seq(Chars) |-> PieceTokens(z)]
WordTokens(w) == Image(PieceTable, w)

LEMMA WordTokensJoin ==
    /\ \A w \in Seq(Seq(Chars)) : WordTokens(w) \in Seq(OrdinaryTokens)
    /\ \A w \in Seq(Seq(Chars)) : \A z \in Seq(Chars) :
          WordTokens(Append(w, z)) = WordTokens(w) \o PieceTokens(z)
    /\ WordTokens(<<>>) = <<>>
PROOF
<1> DEFINE A == Seq(Chars)
           m == PieceTable
<1>1. m \in [A -> Seq(OrdinaryTokens)] /\ \A z \in A : m[z] = PieceTokens(z)
  <2>1. \A z \in A : PieceTokens(z) \in Seq(OrdinaryTokens)
    BY PieceDecodes
  <2> QED
    BY <2>1, Zenon DEF PieceTable
<1>2. \A w \in Seq(A) : \A z \in A : Append(w, z) = w \o <<z>> /\ <<z>> \in Seq(A)
  <2> HIDE DEF A
  <2> QED
    OBVIOUS
<1> HIDE DEF A, m
<1>3. \A g, h \in Seq(A) : Image(m, g \o h) = Image(m, g) \o Image(m, h)
  BY <1>1, ImagesJoin
<1>4. \A g \in Seq(A) : Image(m, g) \in Seq(OrdinaryTokens)
  BY <1>1, ImageTyped
<1>5. \A z \in A : Image(m, <<z>>) = PieceTokens(z)
  BY <1>1, ImageOne
<1>6. Image(m, <<>>) = <<>>
  BY ImageEmpty
<1>7. ASSUME NEW w \in Seq(A), NEW z \in A
      PROVE  Image(m, Append(w, z)) = Image(m, w) \o PieceTokens(z)
  BY <1>2, <1>3, <1>5
<1> QED
  BY <1>4, <1>6, <1>7, Zenon DEF WordTokens, A, m

LEMMA AtomsReadJoin ==
    ASSUME NEW x \in Seq(Chars), NEW y \in Seq(Chars)
    PROVE  AtomsRead(x \o y) = AtomsRead(x) \o AtomsRead(y)
PROOF
<1> DEFINE m == [c \in Chars |-> FromAtom(c)]
<1>1. \A z \in Seq(Chars) : AtomsRead(z) = Mapped(m, z)
  BY DEF AtomsRead, Mapped
<1> HIDE DEF m
<1>2. Mapped(m, x \o y) = Mapped(m, x) \o Mapped(m, y)
  BY MappedJoins
<1>3. x \o y \in Seq(Chars)
  OBVIOUS
<1> QED
  BY <1>1, <1>2, <1>3

\* The tokens of a word read as its bytes, unless one of them is unknown.
LEMMA WordDecodes ==
    \A w \in Seq(Seq(Chars)) :
        /\ Concat(w) \in Seq(Chars)
        /\ Len(Back(WordTokens(w))) = Len(Concat(w))
        /\ Known(WordTokens(w)) => Back(WordTokens(w)) = AtomsRead(Concat(w))
PROOF
<1> DEFINE A == Seq(Chars)
           Good(w) == /\ Len(Back(WordTokens(w))) = Len(Concat(w))
                      /\ Known(WordTokens(w)) => Back(WordTokens(w)) = AtomsRead(Concat(w))
           S == {w \in Seq(A) : Good(w)}
<1>1. \A w \in Seq(A) : Concat(w) \in Seq(Chars)
  BY ConcatTyped
<1>2. <<>> \in S
  <2>1. AtomsRead(<<>>) = <<>>
    BY DEF AtomsRead
  <2>2. Back(<<>>) = <<>>
    BY BackJoins
  <2>3. WordTokens(<<>>) = <<>>
    BY WordTokensJoin
  <2>4. Good(<<>>)
    BY <2>1, <2>2, <2>3, ConcatEmpty, Zenon
  <2> HIDE DEF A, Good
  <2> QED
    BY <2>4
<1>3. ASSUME NEW w \in Seq(A), NEW z \in A, w \in S
      PROVE  Append(w, z) \in S
  <2> DEFINE o == WordTokens(w)
             q == PieceTokens(z)
  <2>1. o \in Seq(OrdinaryTokens) /\ WordTokens(Append(w, z)) = o \o q
    BY WordTokensJoin
  <2>2. /\ q \in Seq(OrdinaryTokens) /\ Len(Back(q)) = Len(z)
        /\ Known(q) => Back(q) = AtomsRead(z)
    BY PieceDecodes
  <2>3. Len(Back(o)) = Len(Concat(w)) /\ (Known(o) => Back(o) = AtomsRead(Concat(w)))
    BY <1>3
  <2>4. Concat(Append(w, z)) = Concat(w) \o z /\ Concat(w) \in Seq(Chars) /\ z \in Seq(Chars)
    BY <1>1, ConcatAppend
  <2> HIDE DEF o, q
  <2>5. o \in Seq(GptTokens) /\ q \in Seq(GptTokens)
    <3>1. Seq(OrdinaryTokens) \subseteq Seq(GptTokens)
      BY DEF GptTokens
    <3> QED
      BY <2>1, <2>2, <3>1
  <2>6. Back(o \o q) = Back(o) \o Back(q) /\ Back(o) \in Seq(Alphabet) /\ Back(q) \in Seq(Alphabet)
    BY <2>5, BackJoins
  <2>7. Len(Back(o \o q)) = Len(Concat(w) \o z)
    <3>1. Len(Back(o) \o Back(q)) = Len(Back(o)) + Len(Back(q))
      BY <2>6
    <3>2. Len(Concat(w) \o z) = Len(Concat(w)) + Len(z)
      BY <2>4
    <3> QED
      BY <2>2, <2>3, <2>6, <3>1, <3>2
  <2>8. Known(o \o q) => Known(o) /\ Known(q)
    <3> SUFFICES ASSUME Known(o \o q) PROVE Known(o) /\ Known(q)
      OBVIOUS
    <3>1. \A i \in DOMAIN o : i \in DOMAIN (o \o q) /\ (o \o q)[i] = o[i]
      BY <2>5
    <3>2. \A i \in DOMAIN q : Len(o) + i \in DOMAIN (o \o q) /\ (o \o q)[Len(o) + i] = q[i]
      BY <2>5
    <3> QED
      BY <3>1, <3>2 DEF Known
  <2>9. AtomsRead(Concat(w) \o z) = AtomsRead(Concat(w)) \o AtomsRead(z)
    BY <2>4, AtomsReadJoin
  <2>10. Good(Append(w, z))
    BY <2>1, <2>2, <2>3, <2>4, <2>6, <2>7, <2>8, <2>9, Zenon
  <2>11. Append(w, z) \in Seq(A)
    <3> HIDE DEF A
    <3> QED
      OBVIOUS
  <2> HIDE DEF A, Good
  <2> QED
    BY <2>10, <2>11
<1>4. Seq(A) \subseteq S
  <2> HIDE DEF S, A
  <2> QED
    BY <1>2, <1>3, SequencesGrow
<1> HIDE DEF A
<1> QED
  BY <1>1, <1>4, Zenon DEF A

-----------------------------------------------------------------------------
(***************************************************************************)
(* Where special tokens and words end.                                     *)
(***************************************************************************)
LEMMA LeastFound ==
    ASSUME NEW S, S \subseteq Nat, S # {}
    PROVE  Least(S) \in S /\ \A y \in S : Least(S) <= y
PROOF
<1> DEFINE R == OpToRel(<, Nat)
<1>1. IsWellFoundedOn(R, Nat)
  BY NatLessThanWellFounded
<1>2. \A x, y \in Nat : y < x => <<y, x>> \in R
  BY DEF OpToRel
<1> HIDE DEF R
<1>3. PICK x \in S : \A y \in S : ~ (<<y, x>> \in R)
  BY <1>1, WFMin
<1>4. \A y \in S : x <= y
  <2> SUFFICES ASSUME NEW y \in S PROVE x <= y
    OBVIOUS
  <2>1. x \in Nat /\ y \in Nat /\ ~(y < x)
    BY <1>2, <1>3
  <2> QED
    BY <2>1
<1> QED
  BY <1>4, Zenon DEF Least

LEMMA LongestFound ==
    ASSUME NEW T, NEW S, S \subseteq Seq(T), S # {}, NEW n \in Nat, \A t \in S : Len(t) <= n
    PROVE  Longest(S) \in S /\ \A u \in S : Len(u) <= Len(Longest(S))
PROOF
<1> DEFINE N == {k \in Nat : \E t \in S : k = n - Len(t)}
<1>1. \A t \in S : Len(t) \in Nat /\ n - Len(t) \in Nat
  OBVIOUS
<1>2. N # {} /\ N \subseteq Nat
  BY <1>1
<1>3. Least(N) \in N /\ \A k \in N : Least(N) <= k
  <2> HIDE DEF N
  <2> QED
    BY <1>2, LeastFound
<1>4. PICK t \in S : Least(N) = n - Len(t)
  BY <1>3
<1>5. \A u \in S : Len(u) <= Len(t)
  <2> SUFFICES ASSUME NEW u \in S PROVE Len(u) <= Len(t)
    OBVIOUS
  <2>1. n - Len(u) \in N
    BY <1>1
  <2>2. n - Len(t) <= n - Len(u)
    <3> HIDE DEF N
    <3> QED
      BY <1>3, <1>4, <2>1
  <2> HIDE DEF N
  <2> QED
    BY <1>1, <2>2
<1> HIDE DEF N
<1> QED
  BY <1>5, Zenon DEF Longest

\* Of the texts that start at a place there is a longest.
LEMMA LongestStarts ==
    ASSUME NEW T, NEW S, S \subseteq Seq(T), S # {}, NEW str \in Seq(T), NEW at \in Nat,
           \A t \in S : StartsAt(str, at, t)
    PROVE  Longest(S) \in S /\ \A u \in S : Len(u) <= Len(Longest(S))
PROOF
<1>1. \A t \in S : Len(t) <= Len(str) /\ Len(str) \in Nat
  <2> SUFFICES ASSUME NEW t \in S PROVE Len(t) <= Len(str) /\ Len(str) \in Nat
    OBVIOUS
  <2>1. at + Len(t) <= Len(str) /\ Len(t) \in Nat /\ Len(str) \in Nat
    BY DEF StartsAt
  <2> QED
    BY <2>1
<1>2. Len(str) \in Nat
  OBVIOUS
<1> DEFINE n == Len(str)
<1> HIDE DEF n
<1>3. n \in Nat /\ \A t \in S : Len(t) <= n
  BY <1>1, <1>2 DEF n
<1> QED
  BY <1>3, LongestFound

LEMMA RunEndInside ==
    ASSUME NEW str \in Seq(DOMAIN Atom), NEW from \in 1 .. Len(str), NEW k
    PROVE  RunEnd(str, from, k) \in from .. Len(str)
PROOF
<1> DEFINE S == {q \in from .. Len(str) : q = Len(str) \/ KindAt(str, q) # k}
<1>1. S \subseteq Nat /\ Len(str) \in S /\ S \subseteq from .. Len(str)
  OBVIOUS
<1>2. Least(S) \in S
  <2> HIDE DEF S
  <2> QED
    BY <1>1, LeastFound
<1>3. RunEnd(str, from, k) = Least(S)
  BY DEF RunEnd
<1> HIDE DEF S
<1> QED
  BY <1>1, <1>2, <1>3

\* A word takes at least one character, and no more than there are.
LEMMA WordEndInside ==
    ASSUME NEW str \in Seq(DOMAIN Atom), str # <<>>
    PROVE  WordEnd(str) \in 1 .. Len(str)
PROOF
<1>1. Len(str) \in Nat /\ Len(str) >= 1 /\ 1 \in 1 .. Len(str)
  OBVIOUS
<1>2. CASE ContractionsAt(str, 0) # {}
  <2> DEFINE C == ContractionsAt(str, 0)
  <2>1. C \subseteq Seq(DOMAIN Atom) /\ \A c \in C : StartsAt(str, 0, c) /\ c # <<>>
    BY BpeAssumption DEF ContractionsAt
  <2>2. WordEnd(str) = Len(Longest(C))
    BY <1>2 DEF WordEnd
  <2>3. C # {} /\ 0 \in Nat
    BY <1>2
  <2> HIDE DEF C
  <2>4. Longest(C) \in C
    BY <2>1, <2>3, LongestStarts
  <2> DEFINE c == Longest(C)
  <2>5. c \in Seq(DOMAIN Atom) /\ c # <<>> /\ StartsAt(str, 0, c)
    BY <2>1, <2>4
  <2> HIDE DEF c
  <2>6. Len(c) \in 1 .. Len(str)
    <3>1. Len(c) \in Nat /\ Len(c) # 0
      BY <2>5
    <3>2. Len(c) <= Len(str)
      BY <1>1, <2>5, <3>1 DEF StartsAt
    <3> QED
      BY <1>1, <3>1, <3>2
  <2> QED
    BY <2>2, <2>6 DEF c
<1>3. CASE ContractionsAt(str, 0) = {} /\ KindAt(str, 0) # "S"
  <2> DEFINE e == RunEnd(str, 1, KindAt(str, 0))
             S == {q \in 1 .. Len(str) : q = e \/ ContractionsAt(str, q) # {}}
  <2>1. e \in 1 .. Len(str)
    BY <1>1, RunEndInside
  <2>2. WordEnd(str) = Least(S)
    BY <1>3 DEF WordEnd
  <2> HIDE DEF e
  <2>3. S \subseteq Nat /\ e \in S /\ S \subseteq 1 .. Len(str)
    BY <2>1
  <2> HIDE DEF S
  <2>4. Least(S) \in S
    BY <2>3, LeastFound
  <2> QED
    BY <2>2, <2>3, <2>4
<1>4. CASE ContractionsAt(str, 0) = {} /\ KindAt(str, 0) = "S"
  <2>1. \E k : WordEnd(str) = RunEnd(str, 1, k)
    BY <1>4 DEF WordEnd
  <2> QED
    BY <1>1, <2>1, RunEndInside
<1> QED
  BY <1>2, <1>3, <1>4

-----------------------------------------------------------------------------
\* Joining two neighbours leaves the word.
LEMMA MergeKeepsWord ==
    ASSUME NEW T
    PROVE  \A w \in Seq(Seq(T)) : \A i \in 1 .. (Len(w) - 1) :
              LET v == SubSeq(w, 1, i - 1) \o <<w[i] \o w[i + 1]>> \o SubSeq(w, i + 2, Len(w))
              IN  v \in Seq(Seq(T)) /\ Concat(v) = Concat(w)
PROOF
<1> DEFINE A == Seq(T)
<1>1. \A q, r \in A : q \o r \in A
  OBVIOUS
<1>2. \A q, r, u \in A : (q \o r) \o u = q \o (r \o u)
  BY ThreeJoin
<1>3. \A q, r \in Seq(A) : Concat(q \o r) = Concat(q) \o Concat(r)
  BY ConcatJoins
<1>4. \A q \in Seq(A) : Concat(q) \in A
  BY ConcatTyped
<1>5. \A q \in A : Concat(<<q>>) = q
  BY ConcatOne
<1> HIDE DEF A
<1>6. \A q \in A : <<q>> \in Seq(A)
  OBVIOUS
<1>7. \A q, r \in Seq(A) : q \o r \in Seq(A)
  OBVIOUS
<1>8. SUFFICES ASSUME NEW w \in Seq(A), NEW i \in 1 .. (Len(w) - 1)
               PROVE  LET v == SubSeq(w, 1, i - 1) \o <<w[i] \o w[i + 1]>> \o SubSeq(w, i + 2, Len(w))
                      IN  v \in Seq(A) /\ Concat(v) = Concat(w)
  BY Zenon DEF A
<1> DEFINE a == SubSeq(w, 1, i - 1)
           b == SubSeq(w, i + 2, Len(w))
           x == w[i]
           y == w[i + 1]
<1>9. /\ a \in Seq(A) /\ b \in Seq(A) /\ x \in A /\ y \in A
      /\ w = ((a \o <<x>>) \o <<y>>) \o b
  <2>1. /\ Len(w) \in Nat /\ i \in 1 .. Len(w) /\ i + 1 \in 1 .. Len(w)
        /\ (i + 1) - 1 = i /\ (i + 1) + 1 = i + 2
    OBVIOUS
  <2>2. /\ SubSeq(w, 1, (i + 1) - 1) \in Seq(A) /\ SubSeq(w, (i + 1) + 1, Len(w)) \in Seq(A)
        /\ w[i + 1] \in A
        /\ w = (SubSeq(w, 1, (i + 1) - 1) \o <<w[i + 1]>>) \o SubSeq(w, (i + 1) + 1, Len(w))
    BY <2>1, CutAt
  <2>3. a \in Seq(A) /\ x \in A
    BY <2>1, CutAt
  <2>4. SubSeq(w, 1, i) = a \o <<x>>
    BY <2>1
  <2> QED
    BY <2>1, <2>2, <2>3, <2>4
<1> HIDE DEF a, b, x, y
<1> DEFINE sx == <<x>>
           sy == <<y>>
           xy == x \o y
           sz == <<xy>>
           ca == Concat(a)
<1>10. /\ xy \in A /\ sx \in Seq(A) /\ sy \in Seq(A) /\ sz \in Seq(A)
       /\ Concat(sx) = x /\ Concat(sy) = y /\ Concat(sz) = xy /\ ca \in A
  <2>1. xy \in A /\ ca \in A
    BY <1>1, <1>4, <1>9
  <2> HIDE DEF xy, ca
  <2> QED
    BY <1>5, <1>6, <1>9, <2>1
<1>11. (ca \o x) \o y = ca \o xy
  <2> HIDE DEF ca
  <2> QED
    BY <1>2, <1>9, <1>10
<1> HIDE DEF sx, sy, sz, xy, ca
<1> DEFINE ax == a \o sx
           axy == ax \o sy
           az == a \o sz
<1>12. ax \in Seq(A) /\ Concat(ax) = ca \o x
  BY <1>3, <1>7, <1>9, <1>10 DEF ca
<1>13. az \in Seq(A) /\ Concat(az) = ca \o xy
  BY <1>3, <1>7, <1>9, <1>10 DEF ca
<1> HIDE DEF ax, az
<1>14. axy \in Seq(A) /\ Concat(axy) = (ca \o x) \o y
  BY <1>3, <1>7, <1>9, <1>10, <1>12
<1> HIDE DEF axy
<1>15. Concat(axy \o b) = ((ca \o x) \o y) \o Concat(b)
  BY <1>3, <1>9, <1>14
<1>16. az \o b \in Seq(A) /\ Concat(az \o b) = (ca \o xy) \o Concat(b)
  BY <1>3, <1>7, <1>9, <1>13
<1>17. w = axy \o b
  BY <1>9 DEF axy, ax, sx, sy
<1>18. az \o b \in Seq(A) /\ Concat(az \o b) = Concat(w)
  BY <1>11, <1>15, <1>16, <1>17
<1> QED
  BY <1>18, Zenon DEF az, sz, xy, a, b, x, y

-----------------------------------------------------------------------------
(***************************************************************************)
(* The invariant of encode_gpt2.  Done of the text has tokens; then comes  *)
(* the word being merged, then what is left of the segment, up to p.       *)
(***************************************************************************)
Done == Len(Back(gids))

GptTypeOK ==
    /\ bpe \in Bpes /\ input \in Seq(DOMAIN Atom) /\ p \in 0 .. Len(input)
    /\ segment \in Seq(DOMAIN Atom) /\ syms \in Seq(Seq(Chars)) /\ gids \in Seq(GptTokens)
    /\ gp \in {"idle", "scan", "greedy", "words", "merge", "done", "threw"}

GptStage ==
    /\ gp \notin {"words", "merge", "threw"} => segment = <<>>
    /\ gp \notin {"merge", "threw"} => syms = <<>>
    /\ gp = "idle" => gids = <<>> /\ p = 0
    /\ gp = "done" => p = Len(input)
    /\ gp = "greedy" => ~Complete /\ bpe.merges = <<>>

GptPlace ==
    gp # "threw" =>
        /\ Done + Len(Concat(syms)) + Len(segment) = p
        /\ \A k \in 1 .. Len(Concat(syms)) : Concat(syms)[k] = Atom[input[Done + k]]
        /\ \A k \in 1 .. Len(segment) : segment[k] = input[Done + Len(Concat(syms)) + k]
        /\ \A at \in Done .. (p - 1) : SpecialsAt(at) = {}

\* Where the i-th of some tokens begins.
Before(g, i) == Len(Back(SubSeq(g, 1, i - 1)))

Apart(b, str, t, at) ==
    IF t[1] = "special"
    THEN /\ StartsAt(str, at, t[2])
         /\ \A u \in b.specials : StartsAt(str, at, u) => Len(u) <= Len(Decoded(t))
    ELSE \A x \in at .. (at + Len(Decoded(t)) - 1) : \A u \in b.specials :
            u # <<>> => ~StartsAt(str, x, u)

GptApart ==
    Complete \/ bpe.merges # <<>> =>
        \A i \in DOMAIN gids : Apart(bpe, input, gids[i], Before(gids, i))

Plain(g) ==
    /\ Known(g)
    /\ \A i \in DOMAIN g : g[i][1] \in {"special", "raw"} => AtomsRead(g[i][2]) = g[i][2]

GptReads ==
    gp # "threw" /\ Plain(gids) => \A k \in 1 .. Done : Back(gids)[k] = input[k]

GptInv == GptTypeOK /\ GptStage /\ GptPlace /\ GptApart /\ GptReads

LEMMA GptInitially == GptInit => GptInv
PROOF
<1> SUFFICES ASSUME GptInit PROVE GptInv
  OBVIOUS
<1>1. /\ bpe \in Bpes /\ input = <<>> /\ p = 0 /\ segment = <<>> /\ syms = <<>>
      /\ gp = "idle" /\ gids = <<>>
  BY DEF GptInit
<1>2. Concat(syms) = <<>> /\ Back(gids) = <<>>
  BY <1>1, ConcatEmpty, BackJoins
<1>3. Done = 0 /\ Len(Concat(syms)) = 0 /\ Len(segment) = 0
  BY <1>1, <1>2 DEF Done
<1>4. GptTypeOK
  BY <1>1 DEF GptTypeOK
<1>5. GptStage
  BY <1>1 DEF GptStage
<1>6. GptPlace
  BY <1>1, <1>3 DEF GptPlace
<1>7. GptApart
  BY <1>1 DEF GptApart
<1>8. GptReads
  BY <1>3 DEF GptReads
<1> QED
  BY <1>4, <1>5, <1>6, <1>7, <1>8 DEF GptInv

\* What every step with the text in place needs of the invariant.
LEMMA GptFacts ==
    ASSUME GptInv
    PROVE  /\ Done \in Nat /\ Len(Concat(syms)) \in Nat /\ Len(segment) \in Nat
           /\ Back(gids) \in Seq(Alphabet) /\ Concat(syms) \in Seq(Chars)
           /\ p \in Nat /\ Len(input) \in Nat /\ p <= Len(input)
PROOF
<1>1. gids \in Seq(GptTokens) /\ syms \in Seq(Seq(Chars)) /\ segment \in Seq(DOMAIN Atom)
      /\ input \in Seq(DOMAIN Atom) /\ p \in 0 .. Len(input)
  BY DEF GptInv, GptTypeOK
<1>2. Back(gids) \in Seq(Alphabet)
  BY <1>1, BackJoins
<1>3. Concat(syms) \in Seq(Chars)
  BY <1>1, ConcatTyped
<1> QED
  BY <1>1, <1>2, <1>3 DEF Done

LEMMA BeginKeepsGpt == GptInv /\ GptBegins => GptInv'
PROOF
<1> SUFFICES ASSUME GptInv, GptBegins PROVE GptInv'
  OBVIOUS
<1>1. /\ bpe' = bpe /\ input' \in Inputs /\ p' = p /\ segment' = segment /\ syms' = syms /\ gids' = gids
      /\ gp = "idle" /\ gp' \in {"greedy", "scan"}
      /\ gp' = "greedy" => ~Complete /\ bpe.merges = <<>>
  BY DEF GptBegins
<1>2. gids = <<>> /\ p = 0 /\ segment = <<>> /\ syms = <<>>
  BY <1>1 DEF GptInv, GptStage
<1>3. Concat(syms) = <<>> /\ Back(gids) = <<>>
  BY <1>2, ConcatEmpty, BackJoins
<1>4. Done = 0 /\ Len(Concat(syms)) = 0 /\ Len(segment) = 0
  BY <1>2, <1>3 DEF Done
<1>5. Done' = 0 /\ Len(Concat(syms'))= 0 /\ Len(segment') = 0
  BY <1>1, <1>4 DEF Done
<1>6. GptTypeOK'
  <2>1. input' \in Seq(DOMAIN Atom)
    BY <1>1, BpeAssumption
  <2>2. 0 \in 0 .. Len(input')
    BY <2>1
  <2> QED
    BY <1>1, <1>2, <2>1, <2>2 DEF GptInv, GptTypeOK
<1>7. GptStage'
  BY <1>1, <1>2 DEF GptStage, Complete
<1>8. GptPlace'
  BY <1>1, <1>2, <1>5 DEF GptPlace
<1>9. GptApart'
  BY <1>1, <1>2 DEF GptApart
<1>10. GptReads'
  BY <1>5 DEF GptReads
<1> QED
  BY <1>6, <1>7, <1>8, <1>9, <1>10 DEF GptInv

LEMMA EndKeepsGpt == GptInv /\ GptEnds => GptInv'
PROOF
<1> SUFFICES ASSUME GptInv, GptEnds PROVE GptInv'
  OBVIOUS
<1>1. /\ bpe' = bpe /\ input' = input /\ p' = p /\ segment' = segment /\ syms' = syms /\ gids' = gids
      /\ gp \in {"scan", "greedy"} /\ gp' = "done" /\ p = Len(input)
  BY DEF GptEnds
<1>2. Done' = Done /\ \A at : SpecialsAt(at)' = SpecialsAt(at)
  BY <1>1 DEF Done, SpecialsAt
<1>3. GptTypeOK'
  BY <1>1 DEF GptInv, GptTypeOK
<1>4. GptStage'
  BY <1>1 DEF GptInv, GptStage
<1>5. GptPlace'
  BY <1>1, <1>2 DEF GptInv, GptPlace
<1>6. GptApart'
  BY <1>1 DEF GptInv, GptApart, Complete
<1>7. GptReads'
  BY <1>1, <1>2 DEF GptInv, GptReads
<1> QED
  BY <1>3, <1>4, <1>5, <1>6, <1>7 DEF GptInv

\* What follows the tokens so far begins where they end.
LEMMA BeforeGrows ==
    \A g, h \in Seq(GptTokens) :
        /\ Back(g \o h) = Back(g) \o Back(h)
        /\ Len(Back(g)) \in Nat /\ Len(Back(h)) \in Nat
        /\ Len(Back(g \o h)) = Len(Back(g)) + Len(Back(h))
        /\ \A i \in 1 .. Len(g) : Before(g \o h, i) = Before(g, i)
        /\ \A j \in 1 .. Len(h) : Before(g \o h, Len(g) + j) = Len(Back(g)) + Before(h, j)
PROOF
<1>1. SUFFICES ASSUME NEW g \in Seq(GptTokens), NEW h \in Seq(GptTokens)
      PROVE  /\ Back(g \o h) = Back(g) \o Back(h)
             /\ Len(Back(g)) \in Nat /\ Len(Back(h)) \in Nat
             /\ Len(Back(g \o h)) = Len(Back(g)) + Len(Back(h))
             /\ \A i \in 1 .. Len(g) : Before(g \o h, i) = Before(g, i)
             /\ \A j \in 1 .. Len(h) : Before(g \o h, Len(g) + j) = Len(Back(g)) + Before(h, j)
  OBVIOUS
<1>2. /\ Back(g \o h) = Back(g) \o Back(h)
      /\ Back(g) \in Seq(Alphabet) /\ Back(h) \in Seq(Alphabet)
  BY BackJoins
<1>3. /\ Len(Back(g)) \in Nat /\ Len(Back(h)) \in Nat
      /\ Len(Back(g \o h)) = Len(Back(g)) + Len(Back(h))
  BY <1>2
<1>4. ASSUME NEW i \in 1 .. Len(g) PROVE Before(g \o h, i) = Before(g, i)
  <2>1. SubSeq(g \o h, 1, i - 1) = SubSeq(g, 1, i - 1)
    OBVIOUS
  <2> QED
    BY <2>1, Zenon DEF Before
<1>5. ASSUME NEW j \in 1 .. Len(h)
      PROVE  Before(g \o h, Len(g) + j) = Len(Back(g)) + Before(h, j)
  <2> DEFINE c == SubSeq(h, 1, j - 1)
  <2>1. SubSeq(g \o h, 1, (Len(g) + j) - 1) = g \o c
    <3>1. c \in Seq(GptTokens) /\ Len(c) = j - 1 /\ Len(g) \in Nat /\ j \in Nat /\ Len(h) \in Nat
      OBVIOUS
    <3>2. \A k \in 1 .. (j - 1) : c[k] = h[k]
      OBVIOUS
    <3> HIDE DEF c
    <3> DEFINE l == SubSeq(g \o h, 1, (Len(g) + j) - 1)
               r == g \o c
               n == Len(g) + (j - 1)
    <3>3. r \in Seq(GptTokens) /\ Len(r) = n
      BY <3>1
    <3>4. l \in Seq(GptTokens) /\ Len(l) = n
      BY <3>1
    <3>5. ASSUME NEW k \in 1 .. n PROVE l[k] = r[k]
      <4>1. l[k] = (g \o h)[k]
        BY <3>1
      <4>2. CASE k <= Len(g)
        <5>1. (g \o h)[k] = g[k] /\ r[k] = g[k]
          BY <3>1, <4>2
        <5> QED
          BY <4>1, <5>1
      <4>3. CASE k > Len(g)
        <5>1. (g \o h)[k] = h[k - Len(g)] /\ r[k] = c[k - Len(g)] /\ k - Len(g) \in 1 .. (j - 1)
          BY <3>1, <4>3
        <5> HIDE DEF l, r
        <5> QED
          BY <3>2, <4>1, <5>1
      <4>4. k \in Int /\ Len(g) \in Int
        BY <3>1
      <4> HIDE DEF l, r
      <4> QED
        BY <4>2, <4>3, <4>4
    <3> HIDE DEF l, r, n
    <3>6. l = r
      BY <3>3, <3>4, <3>5, SameSequence
    <3> QED
      BY <3>6 DEF l, r
  <2>2. c \in Seq(GptTokens)
    OBVIOUS
  <2> HIDE DEF c
  <2>3. Back(g \o c) = Back(g) \o Back(c) /\ Back(c) \in Seq(Alphabet)
    BY <2>2, BackJoins
  <2>4. Len(Back(g \o c)) = Len(Back(g)) + Len(Back(c))
    BY <1>2, <2>3
  <2>5. Before(g \o h, Len(g) + j) = Len(Back(g \o c))
    BY <2>1, Zenon DEF Before
  <2>6. Before(h, j) = Len(Back(c))
    BY DEF Before, c
  <2> QED
    BY <2>4, <2>5, <2>6
<1> QED
  BY <1>2, <1>3, <1>4, <1>5

LEMMA ElementsJoin ==
    ASSUME NEW T, NEW g \in Seq(T), NEW h \in Seq(T), NEW i \in DOMAIN (g \o h)
    PROVE  \/ i \in 1 .. Len(g) /\ (g \o h)[i] = g[i]
           \/ \E j \in 1 .. Len(h) : i = Len(g) + j /\ (g \o h)[i] = h[j]
PROOF
<1>1. /\ i \in 1 .. (Len(g) + Len(h)) /\ Len(g) \in Nat /\ Len(h) \in Nat
  OBVIOUS
<1>2. CASE i <= Len(g)
  BY <1>1, <1>2
<1>3. CASE i > Len(g)
  <2>1. i - Len(g) \in 1 .. Len(h) /\ i = Len(g) + (i - Len(g)) /\ (g \o h)[i] = h[i - Len(g)]
    BY <1>1, <1>3
  <2> QED
    BY <2>1
<1> QED
  BY <1>1, <1>2, <1>3

LEMMA ApartGrows ==
    ASSUME NEW b, NEW str, NEW g \in Seq(GptTokens), NEW h \in Seq(GptTokens),
           \A i \in DOMAIN g : Apart(b, str, g[i], Before(g, i)),
           \A j \in DOMAIN h : Apart(b, str, h[j], Len(Back(g)) + Before(h, j))
    PROVE  \A i \in DOMAIN (g \o h) : Apart(b, str, (g \o h)[i], Before(g \o h, i))
PROOF
<1> SUFFICES ASSUME NEW i \in DOMAIN (g \o h)
             PROVE  Apart(b, str, (g \o h)[i], Before(g \o h, i))
  OBVIOUS
<1>1. DOMAIN g = 1 .. Len(g) /\ DOMAIN h = 1 .. Len(h)
  OBVIOUS
<1>2. CASE i \in 1 .. Len(g) /\ (g \o h)[i] = g[i]
  <2>1. Before(g \o h, i) = Before(g, i)
    BY <1>2, BeforeGrows
  <2> QED
    BY <1>1, <1>2, <2>1, Zenon
<1>3. ASSUME NEW j \in 1 .. Len(h), i = Len(g) + j, (g \o h)[i] = h[j]
      PROVE  Apart(b, str, (g \o h)[i], Before(g \o h, i))
  <2>1. Before(g \o h, Len(g) + j) = Len(Back(g)) + Before(h, j)
    BY BeforeGrows
  <2> QED
    BY <1>1, <1>3, <2>1, Zenon
<1>4. \/ i \in 1 .. Len(g) /\ (g \o h)[i] = g[i]
      \/ \E j \in 1 .. Len(h) : i = Len(g) + j /\ (g \o h)[i] = h[j]
  BY ElementsJoin
<1> QED
  BY <1>2, <1>3, <1>4, Zenon

LEMMA ReadsGrow ==
    ASSUME NEW str, NEW g \in Seq(GptTokens), NEW h \in Seq(GptTokens),
           \A k \in 1 .. Len(Back(g)) : Back(g)[k] = str[k],
           \A k \in 1 .. Len(Back(h)) : Back(h)[k] = str[Len(Back(g)) + k]
    PROVE  \A k \in 1 .. Len(Back(g \o h)) : Back(g \o h)[k] = str[k]
PROOF
<1> DEFINE x == Back(g)
           y == Back(h)
<1>1. Back(g \o h) = x \o y /\ x \in Seq(Alphabet) /\ y \in Seq(Alphabet)
  BY BackJoins
<1>2. /\ \A k \in 1 .. Len(x) : x[k] = str[k]
      /\ \A k \in 1 .. Len(y) : y[k] = str[Len(x) + k]
  OBVIOUS
<1> HIDE DEF x, y
<1> SUFFICES ASSUME NEW k \in 1 .. Len(x \o y) PROVE (x \o y)[k] = str[k]
  BY <1>1
<1>3. k \in DOMAIN (x \o y)
  BY <1>1
<1>4. CASE k \in 1 .. Len(x) /\ (x \o y)[k] = x[k]
  BY <1>2, <1>4
<1>5. ASSUME NEW j \in 1 .. Len(y), k = Len(x) + j, (x \o y)[k] = y[j]
      PROVE  (x \o y)[k] = str[k]
  BY <1>2, <1>5
<1>6. \/ k \in 1 .. Len(x) /\ (x \o y)[k] = x[k]
      \/ \E j \in 1 .. Len(y) : k = Len(x) + j /\ (x \o y)[k] = y[j]
  BY <1>1, <1>3, ElementsJoin
<1> QED
  BY <1>4, <1>5, <1>6, Zenon

LEMMA PlainGrows ==
    ASSUME NEW g \in Seq(GptTokens), NEW h \in Seq(GptTokens), Plain(g \o h)
    PROVE  Plain(g) /\ Plain(h)
PROOF
<1>1. \A i \in DOMAIN g : i \in DOMAIN (g \o h) /\ (g \o h)[i] = g[i]
  OBVIOUS
<1>2. \A i \in DOMAIN h : Len(g) + i \in DOMAIN (g \o h) /\ (g \o h)[Len(g) + i] = h[i]
  OBVIOUS
<1> DEFINE f == g \o h
<1> HIDE DEF f
<1>3. Plain(f)
  BY DEF f
<1>4. Plain(g)
  BY <1>1, <1>3 DEF Plain, Known, f
<1>5. Plain(h)
  BY <1>2, <1>3 DEF Plain, Known, f
<1> QED
  BY <1>4, <1>5

LEMMA StartsReads ==
    ASSUME NEW T, NEW str \in Seq(T), NEW at \in Nat, NEW t \in Seq(T), StartsAt(str, at, t)
    PROVE  at + Len(t) <= Len(str) /\ \A k \in 1 .. Len(t) : t[k] = str[at + k]
PROOF
<1>1. at + Len(t) <= Len(str) /\ SubSeq(str, at + 1, at + Len(t)) = t
  BY DEF StartsAt
<1> SUFFICES ASSUME NEW k \in 1 .. Len(t) PROVE t[k] = str[at + k]
  BY <1>1
<1>2. SubSeq(str, at + 1, at + Len(t))[k] = str[(at + 1) + k - 1] /\ (at + 1) + k - 1 = at + k
  BY <1>1
<1> QED
  BY <1>1, <1>2

\* Steps that add one token: a special one, one as it is spelled, an unknown byte.
LEMMA OneTokenAdded ==
    ASSUME GptInv, gp # "threw", syms = <<>>, segment = <<>>,
           NEW t \in GptTokens, gids' = Append(gids, t),
           input' = input, bpe' = bpe,
           \/ t = <<"unk">> /\ p < Len(input)
           \/ t[1] \in {"special", "raw"} /\ t[2] \in Seq(DOMAIN Atom) /\ StartsAt(input, p, t[2])
    PROVE  /\ gids' \in Seq(GptTokens)
           /\ p = Done /\ Done' = Done + Len(Decoded(t)) /\ Done' \in 0 .. Len(input)
           /\ Len(Decoded(t)) = (IF t = <<"unk">> THEN 1 ELSE Len(t[2]))
           /\ GptReads'
           /\ GptApart /\ Apart(bpe, input, t, p) /\ (Complete \/ bpe.merges # <<>>) => GptApart'
PROOF
<1>1. /\ Done \in Nat /\ p \in Nat /\ Len(input) \in Nat /\ p <= Len(input)
      /\ gids \in Seq(GptTokens) /\ input \in Seq(DOMAIN Atom)
  BY GptFacts DEF GptInv, GptTypeOK
<1>2. p = Done
  <2>1. Len(Concat(syms)) = 0 /\ Len(segment) = 0
    BY ConcatEmpty
  <2>2. Done + Len(Concat(syms)) + Len(segment) = p
    BY DEF GptInv, GptPlace
  <2> QED
    BY <1>1, <2>1, <2>2
<1> DEFINE o == <<t>>
<1>3. gids' = gids \o o /\ o \in Seq(GptTokens) /\ Len(o) = 1 /\ o[1] = t /\ DOMAIN o = 1 .. 1
  BY <1>1
<1>4. Back(o) = Decoded(t)
  BY BackJoins
<1> HIDE DEF o
<1>5. /\ Back(gids') = Back(gids) \o Back(o) /\ Len(Back(o)) \in Nat
      /\ Done' = Done + Len(Decoded(t))
  BY <1>1, <1>3, <1>4, BeforeGrows DEF Done
<1>6. Len(Decoded(t)) = (IF t = <<"unk">> THEN 1 ELSE Len(t[2]))
  <2>1. CASE t = <<"unk">>
    BY <2>1, DecodedTyped
  <2>2. CASE t # <<"unk">>
    BY <2>2, DecodedTyped
  <2> QED
    BY <2>1, <2>2
<1>7. p + Len(Decoded(t)) <= Len(input)
  <2>1. CASE t = <<"unk">> /\ p < Len(input)
    BY <1>1, <1>6, <2>1
  <2>2. CASE t # <<"unk">> /\ t[2] \in Seq(DOMAIN Atom) /\ StartsAt(input, p, t[2])
    BY <1>1, <1>6, <2>2, StartsReads
  <2>3. t[1] \in {"special", "raw"} => t # <<"unk">>
    OBVIOUS
  <2> QED
    BY <2>1, <2>2, <2>3
<1>8. GptReads'
  <2> SUFFICES ASSUME Plain(gids') PROVE \A k \in 1 .. Done' : Back(gids')[k] = input'[k]
    BY DEF GptReads
  <2>1. Plain(gids) /\ Plain(o)
    <3>1. Plain(gids \o o)
      BY <1>3
    <3> QED
      BY <1>1, <1>3, <3>1, PlainGrows
  <2>2. t # <<"unk">>
    BY <1>3, <2>1 DEF Plain, Known
  <2>3. t[1] \in {"special", "raw"} /\ t[2] \in Seq(DOMAIN Atom) /\ StartsAt(input, p, t[2])
    BY <2>2
  <2>4. Decoded(t) = t[2]
    <3>1. Decoded(t) = AtomsRead(t[2])
      BY <2>2, DecodedTyped
    <3>2. AtomsRead(t[2]) = t[2]
      BY <1>3, <2>1, <2>3 DEF Plain
    <3> QED
      BY <3>1, <3>2
  <2>5. \A k \in 1 .. Len(Back(o)) : Back(o)[k] = input[Len(Back(gids)) + k]
    <3>1. \A k \in 1 .. Len(t[2]) : t[2][k] = input[p + k]
      BY <1>1, <2>3, StartsReads
    <3> QED
      BY <1>2, <1>4, <2>4, <3>1 DEF Done
  <2>6. \A k \in 1 .. Len(Back(gids)) : Back(gids)[k] = input[k]
    BY <2>1 DEF GptInv, GptReads, Done
  <2>7. \A k \in 1 .. Len(Back(gids \o o)) : Back(gids \o o)[k] = input[k]
    BY <1>1, <1>3, <2>5, <2>6, ReadsGrow
  <2> QED
    BY <1>3, <2>7 DEF Done
<1>9. GptApart /\ Apart(bpe, input, t, p) /\ (Complete \/ bpe.merges # <<>>) => GptApart'
  <2> SUFFICES ASSUME GptApart, Apart(bpe, input, t, p), Complete \/ bpe.merges # <<>> PROVE GptApart'
    OBVIOUS
  <2>1. \A i \in DOMAIN gids : Apart(bpe, input, gids[i], Before(gids, i))
    BY DEF GptApart
  <2>2. \A j \in DOMAIN o : Apart(bpe, input, o[j], Len(Back(gids)) + Before(o, j))
    <3>1. Before(o, 1) = 0
      <4>1. SubSeq(o, 1, 1 - 1) = <<>>
        BY <1>3
      <4>2. Len(Back(<<>>)) = 0
        BY BackJoins
      <4> QED
        BY <4>1, <4>2, Zenon DEF Before
    <3>2. Len(Back(gids)) + Before(o, 1) = p
      BY <1>1, <1>2, <3>1 DEF Done
    <3> QED
      BY <1>3, <3>2
  <2>3. \A i \in DOMAIN (gids \o o) : Apart(bpe, input, (gids \o o)[i], Before(gids \o o, i))
    BY <1>1, <1>3, <2>1, <2>2, ApartGrows
  <2> QED
    BY <1>3, <2>3 DEF GptApart
<1>10. gids' \in Seq(GptTokens)
  BY <1>1
<1>11. Done' \in 0 .. Len(input)
  <2>1. Len(Decoded(t)) \in Nat
    BY <1>4, <1>5
  <2> QED
    BY <1>1, <1>2, <1>5, <1>7, <2>1
<1> QED
  BY <1>2, <1>5, <1>6, <1>8, <1>9, <1>10, <1>11

LEMMA GreedyKeepsGpt == GptInv /\ MatchGreedily => GptInv'
PROOF
<1> SUFFICES ASSUME GptInv, MatchGreedily PROVE GptInv'
  OBVIOUS
<1>1. /\ gp = "greedy" /\ p < Len(input)
      /\ bpe' = bpe /\ input' = input /\ segment' = segment /\ syms' = syms
  BY DEF MatchGreedily
<1>2. /\ bpe \in Bpes /\ input \in Seq(DOMAIN Atom) /\ p \in Nat /\ Len(input) \in Nat /\ p <= Len(input)
      /\ segment = <<>> /\ syms = <<>> /\ ~Complete /\ bpe.merges = <<>>
  BY <1>1, GptFacts DEF GptInv, GptStage, GptTypeOK
<1>3. GptApart'
  BY <1>1, <1>2 DEF GptApart, Complete
<1> DEFINE hits == {t \in bpe.raws : t # <<>> /\ StartsAt(input, p, t)}
<1>4. CASE /\ hits # {}
           /\ gids' = Append(gids, <<"raw", Longest(hits)>>)
           /\ p' = p + Len(Longest(hits))
           /\ gp' = gp
  <2>1. hits \subseteq Seq(DOMAIN Atom) /\ \A t \in hits : StartsAt(input, p, t)
    BY <1>2, BpeAssumption
  <2> DEFINE z == Longest(hits)
  <2>2. z \in hits
    <3> HIDE DEF hits
    <3> QED
      BY <1>2, <1>4, <2>1, LongestStarts
  <2>3. z \in Seq(DOMAIN Atom) /\ StartsAt(input, p, z) /\ gids' = Append(gids, <<"raw", z>>) /\ p' = p + Len(z)
    <3> HIDE DEF hits
    <3> QED
      BY <1>4, <2>1, <2>2
  <2> HIDE DEF z, hits
  <2> DEFINE t == <<"raw", z>>
  <2>4. /\ t \in GptTokens /\ t[1] \in {"special", "raw"} /\ t[2] = z /\ t # <<"unk">>
        /\ gids' = Append(gids, t)
    BY <2>3 DEF GptTokens
  <2> HIDE DEF t
  <2>5. /\ gids' \in Seq(GptTokens)
        /\ p = Done /\ Done' = Done + Len(z) /\ Done' \in 0 .. Len(input)
        /\ GptReads'
    BY <1>1, <1>2, <2>3, <2>4, OneTokenAdded
  <2>6. p' = Done'
    BY <2>3, <2>5
  <2>7. GptTypeOK'
    BY <1>1, <1>4, <2>5, <2>6 DEF GptInv, GptTypeOK
  <2>8. GptStage'
    BY <1>1, <1>2, <1>4 DEF GptStage, Complete
  <2>9. GptPlace'
    <3>1. Len(Concat(syms')) = 0 /\ Len(segment') = 0
      BY <1>1, <1>2, ConcatEmpty
    <3> QED
      BY <2>5, <2>6, <3>1 DEF GptPlace
  <2> QED
    BY <1>3, <2>5, <2>7, <2>8, <2>9 DEF GptInv
<1>5. CASE gids' = Append(gids, <<"unk">>) /\ p' = p + 1 /\ gp' = gp
  <2> DEFINE t == <<"unk">>
  <2>1. t \in GptTokens /\ t = <<"unk">> /\ gids' = Append(gids, t)
    BY <1>5 DEF GptTokens, OrdinaryTokens
  <2> HIDE DEF t
  <2>2. /\ gids' \in Seq(GptTokens)
        /\ p = Done /\ Done' = Done + 1 /\ Done' \in 0 .. Len(input)
        /\ GptReads'
    BY <1>1, <1>2, <2>1, OneTokenAdded
  <2>3. p' = Done'
    BY <1>5, <2>2
  <2>4. GptTypeOK'
    BY <1>1, <1>5, <2>2, <2>3 DEF GptInv, GptTypeOK
  <2>5. GptStage'
    BY <1>1, <1>2, <1>5 DEF GptStage, Complete
  <2>6. GptPlace'
    <3>1. Len(Concat(syms')) = 0 /\ Len(segment') = 0
      BY <1>1, <1>2, ConcatEmpty
    <3> QED
      BY <2>2, <2>3, <3>1 DEF GptPlace
  <2> QED
    BY <1>3, <2>2, <2>4, <2>5, <2>6 DEF GptInv
<1>6. CASE gp' = "threw" /\ gids' = gids /\ p' = p
  BY <1>1, <1>2, <1>3, <1>6 DEF GptInv, GptTypeOK, GptStage, GptPlace, GptReads
<1> QED
  BY <1>4, <1>5, <1>6 DEF MatchGreedily

LEMMA SpecialKeepsGpt == GptInv /\ EmitSpecial => GptInv'
PROOF
<1> SUFFICES ASSUME GptInv, EmitSpecial PROVE GptInv'
  OBVIOUS
<1> DEFINE hits == SpecialsAt(p)
<1>1. /\ gp = "scan" /\ gp' = gp /\ p < Len(input) /\ hits # {}
      /\ gids' = Append(gids, <<"special", Longest(hits)>>)
      /\ p' = p + Len(Longest(hits))
      /\ bpe' = bpe /\ input' = input /\ segment' = segment /\ syms' = syms
  BY DEF EmitSpecial
<1>2. /\ bpe \in Bpes /\ input \in Seq(DOMAIN Atom) /\ p \in Nat /\ Len(input) \in Nat /\ p <= Len(input)
      /\ segment = <<>> /\ syms = <<>>
  BY <1>1, GptFacts DEF GptInv, GptStage, GptTypeOK
<1>3. hits \subseteq Seq(DOMAIN Atom) /\ \A t \in hits : StartsAt(input, p, t)
  BY <1>2, BpeAssumption DEF SpecialsAt
<1> DEFINE z == Longest(hits)
<1>4. z \in hits /\ \A u \in hits : Len(u) <= Len(z)
  <2> HIDE DEF hits
  <2> QED
    BY <1>1, <1>2, <1>3, LongestStarts
<1>5. z \in Seq(DOMAIN Atom) /\ StartsAt(input, p, z) /\ gids' = Append(gids, <<"special", z>>) /\ p' = p + Len(z)
  <2> HIDE DEF hits
  <2> QED
    BY <1>1, <1>3, <1>4
<1>6. \A u \in bpe.specials : StartsAt(input, p, u) => Len(u) <= Len(z)
  <2> SUFFICES ASSUME NEW u \in bpe.specials, StartsAt(input, p, u) PROVE Len(u) <= Len(z)
    OBVIOUS
  <2>1. CASE u = <<>>
    <3> HIDE DEF z
    <3> QED
      BY <1>5, <2>1
  <2>2. CASE u # <<>>
    <3>1. u \in hits
      BY <2>2 DEF SpecialsAt
    <3> HIDE DEF hits
    <3> QED
      BY <1>4, <3>1
  <2> QED
    BY <2>1, <2>2
<1> HIDE DEF z, hits
<1> DEFINE t == <<"special", z>>
<1>7. /\ t \in GptTokens /\ t[1] = "special" /\ t[1] \in {"special", "raw"} /\ t[2] = z /\ t # <<"unk">>
      /\ gids' = Append(gids, t)
  BY <1>5 DEF GptTokens
<1> HIDE DEF t
<1>8. /\ gids' \in Seq(GptTokens)
      /\ p = Done /\ Done' = Done + Len(Decoded(t)) /\ Done' \in 0 .. Len(input)
      /\ Len(Decoded(t)) = Len(z)
      /\ GptReads'
      /\ GptApart /\ Apart(bpe, input, t, p) /\ (Complete \/ bpe.merges # <<>>) => GptApart'
  BY <1>1, <1>2, <1>5, <1>7, OneTokenAdded
<1>9. Apart(bpe, input, t, p)
  BY <1>5, <1>6, <1>7, <1>8 DEF Apart
<1>10. GptApart'
  <2>1. CASE Complete \/ bpe.merges # <<>>
    BY <1>8, <1>9, <2>1 DEF GptInv
  <2>2. CASE ~(Complete \/ bpe.merges # <<>>)
    BY <1>1, <2>2 DEF GptApart, Complete
  <2> QED
    BY <2>1, <2>2
<1>11. p' = Done'
  BY <1>5, <1>8
<1>12. GptTypeOK'
  BY <1>1, <1>8, <1>11 DEF GptInv, GptTypeOK
<1>13. GptStage'
  BY <1>1, <1>2 DEF GptStage
<1>14. GptPlace'
  <2>1. Len(Concat(syms')) = 0 /\ Len(segment') = 0
    BY <1>1, <1>2, ConcatEmpty
  <2> QED
    BY <1>8, <1>11, <2>1 DEF GptPlace
<1> QED
  BY <1>8, <1>10, <1>12, <1>13, <1>14 DEF GptInv

LEMMA SegmentKeepsGpt == GptInv /\ TakeSegment => GptInv'
PROOF
<1> SUFFICES ASSUME GptInv, TakeSegment PROVE GptInv'
  OBVIOUS
<1> DEFINE S == {q \in (p + 1) .. Len(input) : q = Len(input) \/ SpecialsAt(q) # {}}
<1>1. /\ gp = "scan" /\ gp' = "words" /\ p < Len(input) /\ SpecialsAt(p) = {}
      /\ p' = Least(S) /\ segment' = SubSeq(input, p + 1, p')
      /\ bpe' = bpe /\ input' = input /\ syms' = syms /\ gids' = gids
  BY DEF TakeSegment
<1>2. /\ input \in Seq(DOMAIN Atom) /\ p \in Nat /\ Len(input) \in Nat /\ p <= Len(input)
      /\ segment = <<>> /\ syms = <<>> /\ Done \in Nat
  BY <1>1, GptFacts DEF GptInv, GptStage, GptTypeOK
<1>3. S \subseteq Nat /\ Len(input) \in S /\ S \subseteq (p + 1) .. Len(input)
  BY <1>1, <1>2
<1>4. p' \in S /\ \A y \in S : p' <= y
  <2> HIDE DEF S
  <2> QED
    BY <1>1, <1>3, LeastFound
<1>5. p' \in (p + 1) .. Len(input)
  <2> HIDE DEF S
  <2> QED
    BY <1>3, <1>4
<1>6. \A at \in p .. (p' - 1) : SpecialsAt(at) = {}
  <2> SUFFICES ASSUME NEW at \in p .. (p' - 1), SpecialsAt(at) # {} PROVE FALSE
    OBVIOUS
  <2>1. at # p
    BY <1>1
  <2>2. at \in (p + 1) .. Len(input) /\ at < p'
    <3> DEFINE e == p'
               n == Len(input)
    <3>1. e \in Int /\ n \in Int /\ p \in Int /\ e <= n
      BY <1>2, <1>5
    <3>2. at \in p .. (e - 1)
      OBVIOUS
    <3> HIDE DEF S, e, n
    <3>3. at \in (p + 1) .. n /\ at < e
      BY <2>1, <3>1, <3>2
    <3> QED
      BY <3>3 DEF e, n
  <2>3. at \in S
    BY <2>2
  <2> HIDE DEF S
  <2> QED
    BY <1>2, <1>4, <1>5, <2>2, <2>3
<1> HIDE DEF S
<1>7. /\ Len(Concat(syms)) = 0 /\ Len(segment) = 0
  BY <1>2, ConcatEmpty
<1>8. p = Done
  BY <1>1, <1>2, <1>7 DEF GptInv, GptPlace
<1>9. /\ segment' \in Seq(DOMAIN Atom) /\ Len(segment') = p' - p
      /\ \A k \in 1 .. Len(segment') : segment'[k] = input[p + k]
  <2>1. segment' \in Seq(DOMAIN Atom) /\ Len(segment') = p' - p
    BY <1>1, <1>2, <1>5
  <2>2. ASSUME NEW k \in 1 .. (p' - p) PROVE segment'[k] = input[p + k]
    <3>1. segment'[k] = input[(p + 1) + k - 1] /\ (p + 1) + k - 1 = p + k
      BY <1>1, <1>2, <1>5
    <3> QED
      BY <3>1
  <2> QED
    BY <2>1, <2>2
<1>10. Done' = Done /\ (\A at : SpecialsAt(at)' = SpecialsAt(at)) /\ Len(Concat(syms')) = 0
  BY <1>1, <1>7 DEF Done, SpecialsAt
<1>11. GptTypeOK'
  <2>1. p' \in 0 .. Len(input')
    BY <1>1, <1>2, <1>5
  <2> QED
    BY <1>1, <1>9, <2>1 DEF GptInv, GptTypeOK
<1>12. GptStage'
  BY <1>1, <1>2 DEF GptStage
<1>13. GptPlace'
  <2>1. Done' + Len(Concat(syms')) + Len(segment') = p'
    <3> DEFINE e == p'
    <3>1. e \in Int /\ Done' = p /\ Len(Concat(syms')) = 0 /\ Len(segment') = e - p
      BY <1>2, <1>5, <1>8, <1>9, <1>10
    <3> HIDE DEF e
    <3>2. p + 0 + (e - p) = e
      BY <1>2, <3>1
    <3> QED
      BY <3>1, <3>2 DEF e
  <2>2. \A k \in 1 .. Len(segment') : segment'[k] = input'[Done' + Len(Concat(syms')) + k]
    <3> SUFFICES ASSUME NEW k \in 1 .. Len(segment')
                 PROVE  segment'[k] = input'[Done' + Len(Concat(syms')) + k]
      OBVIOUS
    <3>1. Done' + Len(Concat(syms')) + k = p + k
      BY <1>2, <1>5, <1>8, <1>9, <1>10
    <3> QED
      BY <1>1, <1>9, <3>1
  <2>3. \A at \in Done' .. (p' - 1) : SpecialsAt(at)' = {}
    BY <1>6, <1>8, <1>10
  <2> QED
    BY <1>10, <2>1, <2>2, <2>3 DEF GptPlace
<1>14. GptApart'
  BY <1>1 DEF GptInv, GptApart, Complete
<1>15. GptReads'
  BY <1>1, <1>10 DEF GptInv, GptReads
<1> QED
  BY <1>11, <1>12, <1>13, <1>14, <1>15 DEF GptInv

LEMMA WordKeepsGpt == GptInv /\ NextWord => GptInv'
PROOF
<1> SUFFICES ASSUME GptInv, NextWord PROVE GptInv'
  OBVIOUS
<1>1. /\ gp = "words" /\ bpe' = bpe /\ input' = input /\ p' = p /\ gids' = gids
  BY DEF NextWord
<1>2. /\ Done \in Nat /\ segment \in Seq(DOMAIN Atom) /\ syms = <<>> /\ p \in Nat
      /\ Concat(syms) = <<>> /\ Len(Concat(syms)) = 0
  BY <1>1, GptFacts, ConcatEmpty DEF GptInv, GptStage, GptTypeOK
<1>3. Done' = Done /\ \A at : SpecialsAt(at)' = SpecialsAt(at)
  BY <1>1 DEF Done, SpecialsAt
<1>4. GptApart'
  BY <1>1 DEF GptInv, GptApart, Complete
<1>5. GptReads'
  BY <1>1, <1>3 DEF GptInv, GptReads
<1>6. CASE segment = <<>> /\ gp' = "scan" /\ segment' = segment /\ syms' = syms
  <2>1. GptTypeOK'
    BY <1>1, <1>6 DEF GptInv, GptTypeOK
  <2>2. GptStage'
    BY <1>1, <1>2, <1>6 DEF GptStage
  <2>3. GptPlace'
    BY <1>1, <1>3, <1>6 DEF GptInv, GptPlace
  <2> QED
    BY <1>4, <1>5, <2>1, <2>2, <2>3 DEF GptInv
<1>7. CASE /\ segment # <<>> /\ gp' = "merge"
           /\ syms' = [i \in 1 .. WordEnd(segment) |-> <<Atom[segment[i]]>>]
           /\ segment' = SubSeq(segment, WordEnd(segment) + 1, Len(segment))
  <2> DEFINE e == WordEnd(segment)
             n == Len(segment)
             z == [i \in 1 .. e |-> Atom[segment[i]]]
  <2>1. e \in 1 .. n /\ n \in Nat
    BY <1>2, <1>7, WordEndInside
  <2>2. syms' = [i \in 1 .. e |-> <<Atom[segment[i]]>>] /\ segment' = SubSeq(segment, e + 1, n)
    BY <1>7
  <2> HIDE DEF e
  <2>3. \A i \in 1 .. e : Atom[segment[i]] \in Chars /\ segment[i] \in DOMAIN Atom
    BY <1>2, <2>1 DEF Chars
  <2>4. z \in Seq(Chars) /\ Len(z) = e /\ DOMAIN z = 1 .. e
    <3>1. z \in [1 .. e -> Chars] /\ e \in Nat
      BY <2>1, <2>3
    <3> HIDE DEF z
    <3> QED
      BY <3>1
  <2>5. syms' \in Seq(Seq(Chars))
    <3>1. syms' \in [1 .. e -> Seq(Chars)] /\ e \in Nat
      BY <2>1, <2>2, <2>3
    <3> QED
      BY <3>1
  <2>6. syms' = [i \in DOMAIN z |-> <<z[i]>>]
    BY <2>2, <2>4
  <2>7. Concat(syms') = z
    <3> HIDE DEF z
    <3> QED
      BY <2>4, <2>6, ConcatSingles
  <2>8. /\ segment' \in Seq(DOMAIN Atom) /\ Len(segment') = n - e
        /\ \A k \in 1 .. (n - e) : segment'[k] = segment[e + k]
    <3>1. segment' \in Seq(DOMAIN Atom) /\ Len(segment') = n - e
      BY <1>2, <2>1, <2>2
    <3>2. ASSUME NEW k \in 1 .. (n - e) PROVE segment'[k] = segment[e + k]
      <4>1. segment'[k] = segment[(e + 1) + k - 1] /\ (e + 1) + k - 1 = e + k
        BY <1>2, <2>1, <2>2
      <4> QED
        BY <4>1
    <3> QED
      BY <3>1, <3>2
  <2>9. /\ Done + n = p
        /\ \A k \in 1 .. n : segment[k] = input[Done + k]
        /\ \A at \in Done .. (p - 1) : SpecialsAt(at) = {}
    <3>1. /\ Done + Len(Concat(syms)) + Len(segment) = p
          /\ \A k \in 1 .. Len(segment) : segment[k] = input[Done + Len(Concat(syms)) + k]
          /\ \A at \in Done .. (p - 1) : SpecialsAt(at) = {}
      BY <1>1 DEF GptInv, GptPlace
    <3>2. Done + Len(Concat(syms)) = Done
      BY <1>2
    <3> QED
      BY <3>1, <3>2
  <2> HIDE DEF n
  <2>10. Len(Concat(syms')) = e
    BY <2>4, <2>7
  <2>11. GptTypeOK'
    BY <1>1, <1>7, <2>5, <2>8 DEF GptInv, GptTypeOK
  <2>12. GptStage'
    BY <1>1, <1>7 DEF GptStage
  <2>13. GptPlace'
    <3>1. Done' + Len(Concat(syms')) + Len(segment') = p'
      <4>1. Done + e + (n - e) = Done + n
        BY <1>2, <2>1
      <4> QED
        BY <1>1, <1>3, <2>8, <2>9, <2>10, <4>1
    <3>2. ASSUME NEW k \in 1 .. e PROVE Concat(syms')[k] = Atom[input[Done + k]]
      <4>1. k \in 1 .. n
        BY <2>1
      <4>2. z[k] = Atom[segment[k]]
        OBVIOUS
      <4> HIDE DEF z
      <4> QED
        BY <2>7, <2>9, <4>1, <4>2
    <3>3. ASSUME NEW k \in 1 .. (n - e) PROVE segment'[k] = input[(Done + e) + k]
      <4>1. e + k \in 1 .. n /\ Done + (e + k) = (Done + e) + k
        BY <1>2, <2>1
      <4> QED
        BY <2>8, <2>9, <4>1
    <3> QED
      BY <1>1, <1>3, <2>8, <2>9, <2>10, <3>1, <3>2, <3>3 DEF GptPlace
  <2> QED
    BY <1>4, <1>5, <2>11, <2>12, <2>13 DEF GptInv
<1> QED
  BY <1>6, <1>7 DEF NextWord

LEMMA MergeKeepsGpt == GptInv /\ MergeRanked => GptInv'
PROOF
<1> SUFFICES ASSUME GptInv, MergeRanked PROVE GptInv'
  OBVIOUS
<1>1. /\ gp = "merge" /\ bpe' = bpe /\ input' = input /\ p' = p /\ segment' = segment
      /\ gp' = gp /\ gids' = gids
  BY DEF MergeRanked
<1>2. PICK i \in Ranked :
         syms' = SubSeq(syms, 1, i - 1) \o <<syms[i] \o syms[i + 1]>>
                     \o SubSeq(syms, i + 2, Len(syms))
  BY DEF MergeRanked
<1>3. syms \in Seq(Seq(Chars)) /\ i \in 1 .. (Len(syms) - 1)
  BY DEF GptInv, GptTypeOK, Ranked
<1>4. syms' \in Seq(Seq(Chars)) /\ Concat(syms') = Concat(syms)
  BY <1>2, <1>3, MergeKeepsWord
<1>5. Done' = Done /\ \A at : SpecialsAt(at)' = SpecialsAt(at)
  BY <1>1 DEF Done, SpecialsAt
<1>6. GptTypeOK'
  BY <1>1, <1>4 DEF GptInv, GptTypeOK
<1>7. GptStage'
  BY <1>1 DEF GptStage
<1>8. GptPlace'
  BY <1>1, <1>4, <1>5 DEF GptInv, GptPlace
<1>9. GptApart'
  BY <1>1 DEF GptInv, GptApart, Complete
<1>10. GptReads'
  BY <1>1, <1>5 DEF GptInv, GptReads
<1> QED
  BY <1>6, <1>7, <1>8, <1>9, <1>10 DEF GptInv

\* The tokens of a word are where its characters are.
LEMMA EmitKeepsGpt == GptInv /\ EmitWord => GptInv'
PROOF
<1> SUFFICES ASSUME GptInv, EmitWord PROVE GptInv'
  OBVIOUS
<1> DEFINE w == Concat(syms)
           out == WordTokens(syms)
<1>1. /\ gp = "merge" /\ syms' = <<>> /\ bpe' = bpe /\ input' = input /\ p' = p /\ segment' = segment
  BY DEF EmitWord
<1>2. /\ Done \in Nat /\ Len(w) \in Nat /\ Len(segment) \in Nat /\ p \in Nat /\ w \in Seq(Chars)
      /\ syms \in Seq(Seq(Chars)) /\ gids \in Seq(GptTokens) /\ Len(input) \in Nat /\ p <= Len(input)
      /\ input \in Seq(DOMAIN Atom) /\ Back(gids) \in Seq(Alphabet)
  BY GptFacts DEF GptInv, GptTypeOK
<1>3. out = Concat([i \in DOMAIN syms |-> PieceTokens(syms[i])])
  <2>1. \A i \in DOMAIN syms : syms[i] \in Seq(Chars)
    BY <1>2
  <2>2. Mapped(PieceTable, syms) = [i \in DOMAIN syms |-> PieceTokens(syms[i])]
    BY <2>1, Zenon DEF Mapped, PieceTable
  <2> QED
    BY <2>2, Zenon DEF WordTokens, Image
<1>4. \/ gp' = "threw" /\ gids' = gids
      \/ gp' = "words" /\ gids' = gids \o out
  BY <1>3 DEF EmitWord
<1>5. out \in Seq(OrdinaryTokens) /\ out \in Seq(GptTokens)
  <2>1. out \in Seq(OrdinaryTokens)
    BY <1>2, WordTokensJoin
  <2>2. Seq(OrdinaryTokens) \subseteq Seq(GptTokens)
    BY DEF GptTokens
  <2> QED
    BY <2>1, <2>2
<1>6. Len(Back(out)) = Len(w) /\ (Known(out) => Back(out) = AtomsRead(w))
  BY <1>2, WordDecodes
<1>7. /\ Done + Len(w) + Len(segment) = p
      /\ \A k \in 1 .. Len(w) : w[k] = Atom[input[Done + k]]
      /\ \A k \in 1 .. Len(segment) : segment[k] = input[Done + Len(w) + k]
      /\ \A at \in Done .. (p - 1) : SpecialsAt(at) = {}
  BY <1>1 DEF GptInv, GptPlace
<1> HIDE DEF w, out
<1>8. CASE gp' = "threw" /\ gids' = gids
  <2>1. GptTypeOK'
    BY <1>1, <1>8 DEF GptInv, GptTypeOK
  <2>2. GptStage' /\ GptPlace' /\ GptReads'
    BY <1>1, <1>8 DEF GptStage, GptPlace, GptReads
  <2>3. GptApart'
    BY <1>1, <1>8 DEF GptInv, GptApart, Complete
  <2> QED
    BY <2>1, <2>2, <2>3 DEF GptInv
<1>9. CASE gp' = "words" /\ gids' = gids \o out
  <2>1. Done' = Done + Len(w) /\ gids' \in Seq(GptTokens)
    <3>1. Len(Back(gids \o out)) = Len(Back(gids)) + Len(Back(out))
      BY <1>2, <1>5, BeforeGrows
    <3>2. gids \o out \in Seq(GptTokens)
      BY <1>2, <1>5
    <3> QED
      BY <1>6, <1>9, <3>1, <3>2 DEF Done
  <2>2. \A at : SpecialsAt(at)' = SpecialsAt(at)
    BY <1>1 DEF SpecialsAt
  <2>3. GptTypeOK'
    BY <1>1, <1>9, <2>1 DEF GptInv, GptTypeOK
  <2>4. GptStage'
    BY <1>1, <1>9 DEF GptStage
  <2>5. GptPlace'
    <3>1. Len(Concat(syms')) = 0
      BY <1>1, ConcatEmpty
    <3>2. Done' \in Nat /\ Done' + 0 = Done' /\ Done' >= Done
      BY <1>2, <2>1
    <3>3. \A k \in 1 .. Len(segment') : segment'[k] = input'[Done' + k]
      BY <1>1, <1>7, <2>1
    <3>4. Done' + Len(segment') = p'
      BY <1>1, <1>7, <2>1
    <3>5. \A at \in Done' .. (p' - 1) : SpecialsAt(at)' = {}
      <4> SUFFICES ASSUME NEW at \in Done' .. (p - 1) PROVE SpecialsAt(at) = {}
        BY <1>1, <2>2
      <4>1. at \in Done .. (p - 1)
        BY <1>2, <3>2
      <4> QED
        BY <1>7, <4>1
    <3> QED
      BY <3>1, <3>2, <3>3, <3>4, <3>5 DEF GptPlace
  <2>6. GptApart'
    <3> SUFFICES ASSUME Complete \/ bpe.merges # <<>> PROVE GptApart'
      BY <1>1 DEF GptApart, Complete
    <3>1. \A i \in DOMAIN gids : Apart(bpe, input, gids[i], Before(gids, i))
      BY DEF GptInv, GptApart
    <3>2. ASSUME NEW j \in DOMAIN out
          PROVE  Apart(bpe, input, out[j], Len(Back(gids)) + Before(out, j))
      <4> DEFINE t == out[j]
                 b == Before(out, j)
      <4>1. t \in OrdinaryTokens /\ t \in GptTokens /\ t[1] # "special" /\ j \in 1 .. Len(out)
        <5>1. t \in OrdinaryTokens /\ t \in GptTokens /\ j \in 1 .. Len(out)
          BY <1>5
        <5> HIDE DEF t
        <5> QED
          BY <5>1 DEF OrdinaryTokens
      <4>2. b \in Nat /\ Len(Decoded(t)) \in Nat /\ b + Len(Decoded(t)) <= Len(w)
        <5>1. /\ Len(Image(DecodedOf, SubSeq(out, 1, j - 1))) \in Nat
              /\ Len(DecodedOf[out[j]]) \in Nat
              /\ Len(Image(DecodedOf, SubSeq(out, 1, j - 1))) + Len(DecodedOf[out[j]]) <= Len(Image(DecodedOf, out))
          BY <1>5, <4>1, DecodedOfTyped, ImagePart
        <5>2. DecodedOf[out[j]] = Decoded(t)
          BY <4>1, DecodedOfTyped
        <5> QED
          BY <1>6, <5>1, <5>2, Zenon DEF Before, Back
      <4> HIDE DEF t, b
      <4>3. ASSUME NEW x \in (Done + b) .. (Done + b + Len(Decoded(t)) - 1), NEW u \in bpe.specials, u # <<>>
            PROVE  ~StartsAt(input, x, u)
        <5> DEFINE d == Len(Decoded(t))
                   l == Len(w)
                   q == Len(segment)
        <5>1. d \in Nat /\ l \in Nat /\ q \in Nat /\ b + d <= l /\ Done + l + q = p
          BY <1>2, <1>7, <4>2
        <5>2. x \in (Done + b) .. (Done + b + d - 1)
          OBVIOUS
        <5> HIDE DEF d, l, q
        <5>3. x \in Done .. (p - 1)
          BY <1>2, <4>2, <5>1, <5>2
        <5>4. SpecialsAt(x) = {}
          BY <1>7, <5>3
        <5> QED
          BY <4>3, <5>4 DEF SpecialsAt
      <4> QED
        BY <4>1, <4>3 DEF Apart, Done, t, b
    <3>3. \A i \in DOMAIN (gids \o out) : Apart(bpe, input, (gids \o out)[i], Before(gids \o out, i))
      BY <1>2, <1>5, <3>1, <3>2, ApartGrows
    <3> QED
      BY <1>1, <1>9, <3>3 DEF GptApart
  <2>7. GptReads'
    <3> SUFFICES ASSUME Plain(gids') PROVE \A k \in 1 .. Done' : Back(gids')[k] = input'[k]
      BY DEF GptReads
    <3>1. Plain(gids) /\ Plain(out)
      <4>1. Plain(gids \o out)
        BY <1>9
      <4> QED
        BY <1>2, <1>5, <4>1, PlainGrows
    <3>2. Back(out) = AtomsRead(w)
      BY <1>6, <3>1 DEF Plain
    <3>3. \A k \in 1 .. Len(Back(out)) : Back(out)[k] = input[Len(Back(gids)) + k]
      <4> SUFFICES ASSUME NEW k \in 1 .. Len(w) PROVE Back(out)[k] = input[Done + k]
        BY <1>6 DEF Done
      <4>1. AtomsRead(w)[k] = FromAtom(w[k])
        BY <1>2 DEF AtomsRead
      <4>2. w[k] = Atom[input[Done + k]]
        BY <1>7
      <4>3. Done + k \in 1 .. Len(input)
        <5> DEFINE l == Len(w)
                   q == Len(segment)
                   n == Len(input)
        <5>1. l \in Nat /\ q \in Nat /\ n \in Nat /\ Done + l + q = p /\ p <= n /\ k \in 1 .. l
          BY <1>2, <1>7
        <5> HIDE DEF l, q, n
        <5>2. Done + k \in 1 .. n
          BY <1>2, <5>1
        <5> QED
          BY <5>2 DEF n
      <4>4. input[Done + k] \in DOMAIN Atom
        BY <1>2, <4>3
      <4> QED
        BY <3>2, <4>1, <4>2, <4>4, FromAtomTyped
    <3>4. \A k \in 1 .. Len(Back(gids)) : Back(gids)[k] = input[k]
      BY <1>1, <3>1 DEF GptInv, GptReads, Done
    <3>5. \A k \in 1 .. Len(Back(gids \o out)) : Back(gids \o out)[k] = input[k]
      BY <1>2, <1>5, <3>3, <3>4, ReadsGrow
    <3> QED
      BY <1>1, <1>9, <3>5 DEF Done
  <2> QED
    BY <2>3, <2>4, <2>5, <2>6, <2>7 DEF GptInv
<1> QED
  BY <1>4, <1>8, <1>9

LEMMA StepKeepsGpt == GptInv /\ [GptNext]_gptVars => GptInv'
PROOF
<1> SUFFICES ASSUME GptInv, [GptNext]_gptVars PROVE GptInv'
  OBVIOUS
<1>1. CASE UNCHANGED gptVars
  <2>1. /\ bpe' = bpe /\ input' = input /\ p' = p /\ segment' = segment /\ syms' = syms
        /\ gp' = gp /\ gids' = gids
    BY <1>1 DEF gptVars
  <2>2. Done' = Done /\ \A at : SpecialsAt(at)' = SpecialsAt(at)
    BY <2>1 DEF Done, SpecialsAt
  <2>3. GptTypeOK' /\ GptStage'
    BY <2>1 DEF GptInv, GptTypeOK, GptStage, Complete
  <2>4. GptPlace' /\ GptApart' /\ GptReads'
    BY <2>1, <2>2 DEF GptInv, GptPlace, GptApart, Complete, GptReads
  <2> QED
    BY <2>3, <2>4 DEF GptInv
<1>2. CASE GptBegins
  BY <1>2, BeginKeepsGpt
<1>3. CASE GptEnds
  BY <1>3, EndKeepsGpt
<1>4. CASE MatchGreedily
  BY <1>4, GreedyKeepsGpt
<1>5. CASE EmitSpecial
  BY <1>5, SpecialKeepsGpt
<1>6. CASE TakeSegment
  BY <1>6, SegmentKeepsGpt
<1>7. CASE NextWord
  BY <1>7, WordKeepsGpt
<1>8. CASE MergeRanked
  BY <1>8, MergeKeepsGpt
<1>9. CASE EmitWord
  BY <1>9, EmitKeepsGpt
<1> QED
  BY <1>1, <1>2, <1>3, <1>4, <1>5, <1>6, <1>7, <1>8, <1>9 DEF GptNext, GptReturned

LEMMA GptCorrect == TokSpec => []GptInv
PROOF
<1>1. TokInit => GptInv
  BY GptInitially DEF TokInit
<1>2. [Encode]_tokVars => [GptNext]_gptVars
  BY DEF Encode, tokVars
<1>3. GptInv /\ [GptNext]_gptVars => GptInv'
  BY StepKeepsGpt
<1> QED
  BY <1>1, <1>2, <1>3, PTL DEF TokSpec

LEMMA TokensStandAlone == GptInv => SpecialsStandAlone
PROOF
<1> SUFFICES ASSUME GptInv, Complete \/ bpe.merges # <<>>, NEW i \in DOMAIN gids
             PROVE  IF gids[i][1] = "special"
                    THEN /\ StartsAt(input, Offset(i), gids[i][2])
                         /\ \A t \in bpe.specials : StartsAt(input, Offset(i), t) => Len(t) <= Width(gids[i])
                    ELSE \A at \in Offset(i) .. (Offset(i) + Width(gids[i]) - 1), t \in bpe.specials :
                            t # <<>> => ~StartsAt(input, at, t)
  BY DEF SpecialsStandAlone
<1>1. gids \in Seq(GptTokens)
  BY DEF GptInv, GptTypeOK
<1>2. Apart(bpe, input, gids[i], Before(gids, i))
  BY DEF GptInv, GptApart
<1>3. Offset(i) = Before(gids, i)
  <2> DEFINE a == SubSeq(gids, 1, i - 1)
  <2>1. /\ DOMAIN a = 1 .. (i - 1)
        /\ \A k \in 1 .. (i - 1) : a[k] = gids[k] /\ gids[k] \in GptTokens
    BY <1>1
  <2> HIDE DEF a
  <2>2. \A k \in 1 .. (i - 1) : DecodedOf[a[k]] = Decoded(gids[k])
    BY <2>1, DecodedOfTyped
  <2>3. Mapped(DecodedOf, a) = [k \in 1 .. (i - 1) |-> Decoded(gids[k])]
    BY <2>1, <2>2 DEF Mapped
  <2>4. Back(a) = Concat([k \in 1 .. (i - 1) |-> Decoded(gids[k])])
    BY <2>3, Zenon DEF Back, Image
  <2> QED
    BY <2>4, Zenon DEF Offset, Before, a
<1> QED
  BY <1>2, <1>3 DEF Apart, Width

(***************************************************************************)
(* Special tokens stand alone in every text, whatever the vocabulary, the  *)
(* merges and the words between them: no ordinary token reaches into one,  *)
(* and of several that start at a place the longest is taken.              *)
(***************************************************************************)
THEOREM SpecialsCorrect == TokSpec => []SpecialsStandAlone
PROOF
<1>1. GptInv => SpecialsStandAlone
  BY TokensStandAlone
<1> QED
  BY <1>1, GptCorrect, PTL

-----------------------------------------------------------------------------
(***************************************************************************)
(* Decoding.                                                               *)
(***************************************************************************)
LEMMA GptDecodes ==
    ASSUME GptInv, model = "gpt2", Spellable, ~Contains(Body, <<"unk">>)
    PROVE  Decode(Body) = input
PROOF
<1>1. /\ gids \in Seq(GptTokens) /\ input \in Seq(DOMAIN Atom) /\ gp = "done"
      /\ Body = gids /\ segment = <<>> /\ syms = <<>> /\ p = Len(input)
  BY DEF GptInv, GptTypeOK, GptStage, Spellable, Body
<1>2. Done = Len(input)
  <2>1. Done + Len(Concat(syms)) + Len(segment) = p
    BY <1>1 DEF GptInv, GptPlace
  <2>2. Len(Concat(syms)) = 0 /\ Len(segment) = 0 /\ Done \in Nat
    BY <1>1, ConcatEmpty, GptFacts
  <2> QED
    BY <1>1, <2>1, <2>2
<1>3. Plain(gids)
  <2>1. Known(gids)
    BY <1>1 DEF Contains, Known
  <2>2. ASSUME NEW i \in DOMAIN gids, gids[i][1] \in {"special", "raw"}
        PROVE  AtomsRead(gids[i][2]) = gids[i][2]
    <3> DEFINE z == gids[i][2]
    <3>1. z \in Seq(DOMAIN Atom)
      <4>1. gids[i] \in GptTokens
        BY <1>1
      <4> QED
        BY <2>2, <4>1 DEF GptTokens, OrdinaryTokens
    <3>2. \A k \in DOMAIN z : FromAtom(z[k]) = z[k]
      BY <1>1, <2>2 DEF Spellable
    <3> HIDE DEF z
    <3>3. AtomsRead(z) = [k \in DOMAIN z |-> z[k]]
      BY <3>2 DEF AtomsRead
    <3>4. AtomsRead(z) = z
      BY <3>1, <3>3
    <3> QED
      BY <3>4 DEF z
  <2> QED
    BY <2>1, <2>2 DEF Plain
<1>4. Back(gids) = input
  <2>1. \A k \in 1 .. Done : Back(gids)[k] = input[k]
    BY <1>1, <1>3 DEF GptInv, GptReads
  <2>2. Back(gids) \in Seq(Alphabet) /\ input \in Seq(Alphabet)
    <3>1. Seq(DOMAIN Atom) \subseteq Seq(Alphabet)
      BY DEF Alphabet
    <3> QED
      BY <1>1, <3>1, BackJoins
  <2>3. Len(Back(gids)) = Len(input)
    BY <1>2 DEF Done
  <2> QED
    BY <1>2, <2>1, <2>2, <2>3, SameSequence
<1>5. [i \in DOMAIN gids |-> Spelling(gids[i])] = Mapped(DecodedOf, gids)
  <2>1. ASSUME NEW i \in DOMAIN gids PROVE Spelling(gids[i]) = DecodedOf[gids[i]]
    <3> DEFINE t == gids[i]
    <3>1. t \in GptTokens
      BY <1>1
    <3> HIDE DEF t
    <3>2. t[1] # "bos"
      BY <3>1 DEF GptTokens, OrdinaryTokens
    <3>3. Spelling(t) = Decoded(t)
      BY <3>2 DEF Spelling
    <3>4. Spelling(t) = DecodedOf[t]
      BY <3>1, <3>3, DecodedOfTyped
    <3> QED
      BY <3>4 DEF t
  <2> QED
    BY <2>1, Zenon DEF Mapped
<1>6. Concat([i \in DOMAIN Body |-> Spelling(Body[i])]) = input
  BY <1>1, <1>4, <1>5, Zenon DEF Back, Image
<1> QED
  BY <1>6 DEF Decode

-----------------------------------------------------------------------------
(***************************************************************************)
(* The invariant of encode_sentencepiece: next leads forward, a node of    *)
(* more than one character is a piece of the vocabulary, and so is what a  *)
(* pair of the queue would make.                                           *)
(***************************************************************************)
SpTextOK ==
    /\ voc \in Vocabularies /\ text \in Seq(DOMAIN Bytes)
    /\ text = <<>> => s = <<>> /\ ids = <<>> /\ sp \in {"idle", "done"}
    /\ text # <<>> => s = Prepared(text, voc.prefix) /\ s # <<>> /\ sp # "idle"

NodesArePieces ==
    s # <<>> => \A i \in Ends(Len(s)) :
        /\ symbols[i].next = -1 \/ i < symbols[i].next
        /\ symbols[i].len > 1 => Substr(s, symbols[i].off, symbols[i].len) \in DOMAIN voc.score

PairsArePieces ==
    s # <<>> => \A b \in work : Substr(s, symbols[b.left].off, b.size) \in DOMAIN voc.score

SpOutOK ==
    sp = "done" /\ text # <<>> => ids = Concat([i \in DOMAIN Chain |-> TokensOf(Chain[i])])

SpInv == ListInv /\ SpTextOK /\ NodesArePieces /\ PairsArePieces /\ SpOutOK

LEMMA CandidateIsPiece ==
    ASSUME NEW y, NEW str, NEW l, NEW r, NEW b \in Candidates(y, str, l, r)
    PROVE  /\ b.left = l /\ b.right = r /\ b.size = y[l].len + y[r].len
           /\ Substr(str, y[l].off, b.size) \in DOMAIN voc.score
BY DEF Candidates

LEMMA SpInitially == SpInit => SpInv
PROOF
<1> SUFFICES ASSUME SpInit PROVE SpInv
  OBVIOUS
<1>1. SpTextOK /\ NodesArePieces /\ PairsArePieces /\ SpOutOK
  BY DEF SpInit, SpTextOK, NodesArePieces, PairsArePieces, SpOutOK
<1> QED
  BY <1>1, ListInitially DEF SpInv

LEMMA BeginKeepsSp == SpInv /\ EncodeBegins => SpInv'
PROOF
<1> SUFFICES ASSUME SpInv, EncodeBegins PROVE SpInv'
  OBVIOUS
<1> DEFINE n == Len(s')
<1>1. ListInv'
  BY BeginKeepsInv DEF SpInv
<1>2. /\ text' \in Texts \ {<<>>} /\ s' = Prepared(text', voc.prefix) /\ voc' = voc
      /\ symbols' = Nodes(n) /\ sp' = "merging" /\ ids' = ids
      /\ work' = UNION {Candidates(symbols', s', i - 1, i) : i \in 1 .. (n - 1)}
  BY DEF EncodeBegins
<1>3. s' \in Seq(DOMAIN Bytes) /\ n \in Nat /\ n > 0
  BY <1>2, PreparedIsText
<1>4. SpTextOK'
  BY <1>2, <1>3, SentencePieceAssumption DEF SpInv, SpTextOK
<1>5. NodesArePieces'
  <2> SUFFICES ASSUME NEW i \in Ends(n)
               PROVE  /\ symbols'[i].next = -1 \/ i < symbols'[i].next
                      /\ symbols'[i].len > 1 => Substr(s', symbols'[i].off, symbols'[i].len) \in DOMAIN voc'.score
    BY DEF NodesArePieces
  <2>1. symbols'[i] = [prev |-> i - 1, next |-> IF i + 1 < n THEN i + 1 ELSE -1, off |-> i, len |-> 1]
    BY <1>2 DEF Nodes, Ends
  <2> QED
    BY <1>3, <2>1 DEF Ends
<1>6. PairsArePieces'
  <2> SUFFICES ASSUME NEW b \in work'
               PROVE  Substr(s', symbols'[b.left].off, b.size) \in DOMAIN voc'.score
    BY DEF PairsArePieces
  <2>1. PICK i \in 1 .. (n - 1) : b \in Candidates(symbols', s', i - 1, i)
    BY <1>2
  <2> HIDE DEF n
  <2> QED
    BY <1>2, <2>1, CandidateIsPiece
<1>7. SpOutOK'
  BY <1>2 DEF SpOutOK
<1> QED
  BY <1>1, <1>4, <1>5, <1>6, <1>7 DEF SpInv

LEMMA MergeKeepsSp == SpInv /\ MergePair => SpInv'
PROOF
<1> SUFFICES ASSUME SpInv, MergePair PROVE SpInv'
  OBVIOUS
<1>0. ListInv /\ ListInv'
  BY MergeKeepsInv DEF SpInv
<1> DEFINE n == Len(s)
<1>1. PICK b \in work :
        /\ IsCurrent(b)
        /\ symbols' = JoinNodes(b)
        /\ work' = (work \ {b})
              \cup Candidates(symbols', s, symbols'[b.left].prev, b.left)
              \cup Candidates(symbols', s, b.left, symbols'[b.left].next)
  BY DEF MergePair
<1> DEFINE l == b.left
           r == b.right
           q == symbols[r].next
<1>2. /\ sp = "merging" /\ sp' = "merging" /\ s' = s /\ voc' = voc /\ text' = text /\ ids' = ids
  BY DEF MergePair
<1>3. /\ s # <<>> /\ n \in Nat /\ l \in Ends(n) /\ r \in Ends(n) /\ q \in -1 .. (n - 1)
      /\ symbols[r].len > 0 /\ symbols[l].len > 0 /\ l < r
  BY <1>0, <1>1, <1>2, JoinedNodes
<1>4. \A i \in Ends(n) :
        /\ symbols'[i].off = symbols[i].off
        /\ symbols'[i].len = IF i = l THEN symbols[l].len + symbols[r].len
                             ELSE IF i = r THEN 0 ELSE symbols[i].len
        /\ symbols'[i].next = IF i = l THEN q ELSE symbols[i].next
  BY <1>0, <1>1, <1>2, JoinedNodes
<1>5. symbols[l].len + symbols[r].len = b.size
  BY <1>1 DEF IsCurrent
<1>6. \A c \in work : Substr(s, symbols[c.left].off, c.size) \in DOMAIN voc.score
  BY <1>3 DEF SpInv, PairsArePieces
<1>7. \A i \in Ends(n) :
        /\ symbols[i].next = -1 \/ i < symbols[i].next
        /\ symbols[i].len > 1 => Substr(s, symbols[i].off, symbols[i].len) \in DOMAIN voc.score
  BY <1>3 DEF SpInv, NodesArePieces
<1>8. \A c \in work : c.left \in Ends(n)
  BY <1>0, <1>3 DEF ListInv, ListTypeOK
<1> HIDE DEF n, l, r, q
<1>9. q = -1 \/ l < q
  <2>1. q = -1 \/ r < q
    BY <1>3, <1>7 DEF q
  <2> QED
    BY <1>3, <2>1 DEF Ends
<1>10. NodesArePieces'
  <2> SUFFICES ASSUME NEW i \in Ends(n)
               PROVE  /\ symbols'[i].next = -1 \/ i < symbols'[i].next
                      /\ symbols'[i].len > 1 => Substr(s, symbols'[i].off, symbols'[i].len) \in DOMAIN voc.score
    BY <1>2 DEF NodesArePieces, n
  <2>1. CASE i = l
    <3>1. symbols'[i].len = b.size /\ symbols'[i].off = symbols[b.left].off /\ symbols'[i].next = q
      BY <1>4, <1>5, <2>1 DEF l
    <3> QED
      BY <1>6, <1>9, <2>1, <3>1
  <2>2. CASE i = r /\ i # l
    BY <1>4, <1>7, <2>2
  <2>3. CASE i # l /\ i # r
    BY <1>4, <1>7, <2>3
  <2> QED
    BY <2>1, <2>2, <2>3
<1>11. PairsArePieces'
  <2> SUFFICES ASSUME NEW c \in work'
               PROVE  Substr(s, symbols'[c.left].off, c.size) \in DOMAIN voc.score
    BY <1>2 DEF PairsArePieces
  <2>1. CASE c \in work
    BY <1>4, <1>6, <1>8, <2>1
  <2>2. CASE c \in Candidates(symbols', s, symbols'[b.left].prev, b.left)
    BY <2>2, CandidateIsPiece
  <2>3. CASE c \in Candidates(symbols', s, b.left, symbols'[b.left].next)
    BY <2>3, CandidateIsPiece
  <2> QED
    BY <1>1, <2>1, <2>2, <2>3
<1>12. SpTextOK' /\ SpOutOK'
  BY <1>2 DEF SpInv, SpTextOK, SpOutOK
<1> QED
  BY <1>0, <1>10, <1>11, <1>12 DEF SpInv

LEMMA StepKeepsSp == SpInv /\ [SpNext]_spVars => SpInv'
PROOF
<1> SUFFICES ASSUME SpInv, [SpNext]_spVars PROVE SpInv'
  OBVIOUS
<1>0. ListInv'
  BY StepKeepsInv DEF SpInv
<1>1. CASE UNCHANGED spVars
  <2>1. /\ voc' = voc /\ text' = text /\ s' = s /\ symbols' = symbols /\ work' = work
        /\ sp' = sp /\ ids' = ids
    BY <1>1 DEF spVars
  <2>2. SpTextOK' /\ NodesArePieces' /\ PairsArePieces'
    BY <2>1 DEF SpInv, SpTextOK, NodesArePieces, PairsArePieces
  <2>3. Chain' = Chain
    <3>1. symbols' = symbols /\ s' = s
      BY <2>1
    <3> QED
      BY <3>1 DEF Chain
  <2>4. \A z : TokensOf(z)' = TokensOf(z)
    BY <2>1 DEF TokensOf, FallbackBytes
  <2>5. SpOutOK'
    BY <2>1, <2>3, <2>4 DEF SpInv, SpOutOK
  <2> QED
    BY <1>0, <2>2, <2>5 DEF SpInv
<1>2. CASE EncodeBegins
  BY <1>2, BeginKeepsSp
<1>3. CASE MergePair
  BY <1>3, MergeKeepsSp
<1>4. CASE EncodeEmpty
  <2>1. /\ sp = "idle" /\ sp' = "done" /\ voc' = voc /\ text' = text /\ s' = s /\ symbols' = symbols
        /\ work' = work /\ ids' = ids
    BY <1>4 DEF EncodeEmpty
  <2>2. text = <<>> /\ s = <<>>
    BY <2>1 DEF SpInv, SpTextOK
  <2>3. SpTextOK' /\ NodesArePieces' /\ PairsArePieces' /\ SpOutOK'
    BY <2>1, <2>2 DEF SpInv, SpTextOK, NodesArePieces, PairsArePieces, SpOutOK
  <2> QED
    BY <1>0, <2>3 DEF SpInv
<1>5. CASE DropStale \/ QueueEmpty
  <2>1. /\ voc' = voc /\ text' = text /\ s' = s /\ symbols' = symbols
        /\ work' \subseteq work /\ ids' = ids /\ sp = "merging" /\ sp' \in {"merging", "merged"}
    BY <1>5 DEF DropStale, QueueEmpty
  <2>2. SpTextOK' /\ NodesArePieces' /\ PairsArePieces' /\ SpOutOK'
    BY <2>1 DEF SpInv, SpTextOK, NodesArePieces, PairsArePieces, SpOutOK
  <2> QED
    BY <1>0, <2>2 DEF SpInv
<1>6. CASE EmitTokens
  <2>1. /\ voc' = voc /\ text' = text /\ s' = s /\ symbols' = symbols /\ work' = work
        /\ sp = "merged" /\ sp' \in {"done", "threw"}
        /\ sp' = "done" => ids' = Concat([i \in DOMAIN Chain |-> TokensOf(Chain[i])])
    BY <1>6 DEF EmitTokens
  <2>2. SpTextOK' /\ NodesArePieces' /\ PairsArePieces'
    BY <2>1 DEF SpInv, SpTextOK, NodesArePieces, PairsArePieces
  <2>3. Chain' = Chain
    <3>1. symbols' = symbols /\ s' = s
      BY <2>1
    <3> QED
      BY <3>1 DEF Chain
  <2>4. \A z : TokensOf(z)' = TokensOf(z)
    BY <2>1 DEF TokensOf, FallbackBytes
  <2>5. SpOutOK'
    BY <2>1, <2>3, <2>4 DEF SpOutOK
  <2> QED
    BY <1>0, <2>2, <2>5 DEF SpInv
<1> QED
  BY <1>1, <1>2, <1>3, <1>4, <1>5, <1>6 DEF SpNext, SpReturned

LEMMA SpCorrect == TokSpec => []SpInv
PROOF
<1>1. TokInit => SpInv
  BY SpInitially DEF TokInit
<1>2. [Encode]_tokVars => [SpNext]_spVars
  BY DEF Encode, tokVars
<1>3. SpInv /\ [SpNext]_spVars => SpInv'
  BY StepKeepsSp
<1> QED
  BY <1>1, <1>2, <1>3, PTL DEF TokSpec

-----------------------------------------------------------------------------
(***************************************************************************)
(* The strings along the list.                                             *)
(***************************************************************************)
\* f is defined along a list of n nodes that goes on at nx: e of each node.
Follows(f, n, nx, e) ==
    /\ f = [i \in Ends(n) |-> f[i]]
    /\ \A i \in Ends(n) : f[i] = e[i] \o (IF nx[i] = -1 THEN <<>> ELSE f[nx[i]])

\* Such a function exists if the list only leads forward.
LEMMA AlongTheList ==
    ASSUME NEW n \in Nat, NEW nx, NEW e,
           \A i \in Ends(n) : nx[i] = -1 \/ (nx[i] \in Ends(n) /\ i < nx[i])
    PROVE  \E f : Follows(f, n, nx, e)
PROOF
<1> DEFINE Next1(g, i) == e[i] \o (IF nx[i] = -1 THEN <<>> ELSE g[nx[i]])
           Good(g, k) == /\ g = [i \in Ends(n) |-> g[i]]
                         /\ \A i \in Ends(n) : i >= n - k => g[i] = Next1(g, i)
           S == {k \in Nat : k <= n => \E g : Good(g, k)}
<1>1. 0 \in S
  <2> DEFINE g == [i \in Ends(n) |-> <<>>]
  <2>1. g = [i \in Ends(n) |-> g[i]]
    OBVIOUS
  <2>2. \A i \in Ends(n) : ~(i >= n - 0)
    BY DEF Ends
  <2> HIDE DEF g, Next1
  <2>3. Good(g, 0)
    BY <2>1, <2>2, Zenon
  <2> HIDE DEF Good
  <2> QED
    BY <2>3
<1>2. ASSUME NEW k \in Nat, k \in S
      PROVE  k + 1 \in S
  <2> SUFFICES ASSUME k + 1 <= n PROVE \E g : Good(g, k + 1)
    <3> HIDE DEF Good
    <3> QED
      OBVIOUS
  <2>1. PICK g : Good(g, k)
    <3> HIDE DEF Good
    <3> QED
      BY <1>2
  <2> DEFINE m == n - (k + 1)
             h == [i \in Ends(n) |-> IF i = m THEN Next1(g, m) ELSE g[i]]
  <2>2. /\ m \in Ends(n) /\ \A i \in Ends(n) : i >= m => i = m \/ i >= n - k
    BY DEF Ends
  <2>3. h = [i \in Ends(n) |-> h[i]]
    OBVIOUS
  <2>4. ASSUME NEW i \in Ends(n), i >= m PROVE h[i] = Next1(h, i)
    <3>1. nx[i] = -1 \/ (nx[i] \in Ends(n) /\ nx[i] # m /\ h[nx[i]] = g[nx[i]])
      BY <2>2, <2>4 DEF Ends
    <3>2. Next1(h, i) = Next1(g, i)
      <4> HIDE DEF h
      <4> QED
        BY <3>1
    <3>3. h[i] = Next1(g, i)
      <4>1. CASE i = m
        BY <2>2, <4>1
      <4>2. CASE i # m
        <5>1. h[i] = g[i] /\ i >= n - k
          BY <2>2, <2>4, <4>2
        <5> HIDE DEF h, Next1
        <5> QED
          BY <2>1, <5>1
      <4> QED
        BY <4>1, <4>2
    <3> QED
      BY <3>2, <3>3
  <2> HIDE DEF h, Next1
  <2>5. Good(h, k + 1)
    BY <2>3, <2>4
  <2> HIDE DEF Good
  <2> QED
    BY <2>5
<1>3. n \in S
  <2> HIDE DEF S
  <2> QED
    BY <1>1, <1>2, NumbersFromZero
<1>4. PICK g : Good(g, n)
  <2> HIDE DEF Good
  <2> QED
    BY <1>3
<1>5. \A i \in Ends(n) : i >= n - n
  BY DEF Ends
<1>6. g = [i \in Ends(n) |-> g[i]] /\ \A i \in Ends(n) : g[i] = Next1(g, i)
  <2> HIDE DEF Next1
  <2> QED
    BY <1>4, <1>5
<1>7. Follows(g, n, nx, e)
  BY <1>6 DEF Follows
<1> QED
  BY <1>7

\* What Chain is put together from.
LEMMA ChainUnfolds ==
    ASSUME SpInv, s # <<>>
    PROVE  \E f : /\ Chain = f[0]
                  /\ \A i \in Ends(Len(s)) :
                        f[i] = <<Substr(s, symbols[i].off, symbols[i].len)>>
                                  \o (IF symbols[i].next = -1 THEN <<>> ELSE f[symbols[i].next])
PROOF
<1> DEFINE n == Len(s)
           behind == [i \in Ends(n) |-> symbols[i].next]
           here == [i \in Ends(n) |-> <<Substr(s, symbols[i].off, symbols[i].len)>>]
           F(f) == [i \in DOMAIN symbols |-> <<Substr(s, symbols[i].off, symbols[i].len)>>
                        \o (IF symbols[i].next = -1 THEN <<>> ELSE f[symbols[i].next])]
<1>1. n \in Nat /\ n # 0 /\ symbols \in [Ends(n) -> Node(n)] /\ DOMAIN symbols = Ends(n)
  BY DEF SpInv, ListInv, ListTypeOK
<1>2. \A i \in Ends(n) : behind[i] = -1 \/ (behind[i] \in Ends(n) /\ i < behind[i])
  <2> SUFFICES ASSUME NEW i \in Ends(n) PROVE behind[i] = -1 \/ (behind[i] \in Ends(n) /\ i < behind[i])
    OBVIOUS
  <2>1. symbols[i].next \in -1 .. (n - 1)
    BY <1>1 DEF Node
  <2>2. symbols[i].next = -1 \/ i < symbols[i].next
    BY DEF SpInv, NodesArePieces
  <2>3. symbols[i].next = -1 \/ symbols[i].next \in Ends(n)
    BY <1>1, <2>1 DEF Ends
  <2> QED
    BY <2>2, <2>3
<1>3. \E f : Follows(f, n, behind, here)
  <2> HIDE DEF n, behind, here
  <2> QED
    BY <1>1, <1>2, AlongTheList
<1>4. PICK f : /\ f = [i \in Ends(n) |-> f[i]]
               /\ \A i \in Ends(n) : f[i] = here[i] \o (IF behind[i] = -1 THEN <<>> ELSE f[behind[i]])
  <2> HIDE DEF n, behind, here
  <2> QED
    BY <1>3 DEF Follows
<1>5. f = F(f)
  <2>1. \A i \in Ends(n) : f[i] = <<Substr(s, symbols[i].off, symbols[i].len)>>
                             \o (IF symbols[i].next = -1 THEN <<>> ELSE f[symbols[i].next])
    BY <1>4
  <2> HIDE DEF n, behind, here
  <2> QED
    BY <1>1, <1>4, <2>1
<1> HIDE DEF n, behind, here
<1> DEFINE g == CHOOSE x : x = F(x)
<1>6. g = F(g)
  <2> HIDE DEF F
  <2> QED
    BY <1>5, Zenon
<1>7. symbols # <<>>
  <2>1. 0 \in DOMAIN symbols
    BY <1>1 DEF Ends
  <2>2. DOMAIN <<>> = {}
    OBVIOUS
  <2> QED
    BY <2>1, <2>2
<1>8. Chain = g[0]
  BY <1>7 DEF Chain
<1>9. \A i \in Ends(n) : g[i] = <<Substr(s, symbols[i].off, symbols[i].len)>>
                            \o (IF symbols[i].next = -1 THEN <<>> ELSE g[symbols[i].next])
  <2> HIDE DEF g
  <2> QED
    BY <1>1, <1>6
<1> HIDE DEF g
<1> QED
  BY <1>8, <1>9 DEF n

Pieces == {z \in Seq(DOMAIN Bytes) : z \in DOMAIN voc.score \/ Len(z) = 1}

LEMMA SlicesMeet ==
    ASSUME NEW T, NEW str \in Seq(T), NEW a \in Nat, NEW b \in Nat, NEW n \in Nat,
           a <= b, b <= n, n <= Len(str)
    PROVE  /\ SubSeq(str, a + 1, b) \in Seq(T) /\ SubSeq(str, b + 1, n) \in Seq(T)
           /\ Len(SubSeq(str, a + 1, b)) = b - a
           /\ SubSeq(str, a + 1, b) \o SubSeq(str, b + 1, n) = SubSeq(str, a + 1, n)
PROOF
<1> DEFINE x == SubSeq(str, a + 1, b)
           y == SubSeq(str, b + 1, n)
           z == SubSeq(str, a + 1, n)
           xy == x \o y
<1>1. n \in Nat /\ a <= n
  OBVIOUS
<1>2. x \in Seq(T) /\ Len(x) = b - a /\ \A k \in 1 .. (b - a) : x[k] = str[a + k]
  <2>1. x \in Seq(T) /\ Len(x) = b - a
    OBVIOUS
  <2>2. ASSUME NEW k \in 1 .. (b - a) PROVE x[k] = str[a + k]
    <3>1. x[k] = str[(a + 1) + k - 1] /\ (a + 1) + k - 1 = a + k
      OBVIOUS
    <3> QED
      BY <3>1
  <2> QED
    BY <2>1, <2>2
<1>3. y \in Seq(T) /\ Len(y) = n - b /\ \A k \in 1 .. (n - b) : y[k] = str[b + k]
  <2>1. y \in Seq(T) /\ Len(y) = n - b
    OBVIOUS
  <2>2. ASSUME NEW k \in 1 .. (n - b) PROVE y[k] = str[b + k]
    <3>1. y[k] = str[(b + 1) + k - 1] /\ (b + 1) + k - 1 = b + k
      OBVIOUS
    <3> QED
      BY <3>1
  <2> QED
    BY <2>1, <2>2
<1>4. z \in Seq(T) /\ Len(z) = n - a /\ \A k \in 1 .. (n - a) : z[k] = str[a + k]
  <2>1. z \in Seq(T) /\ Len(z) = n - a
    BY <1>1
  <2>2. ASSUME NEW k \in 1 .. (n - a) PROVE z[k] = str[a + k]
    <3>1. z[k] = str[(a + 1) + k - 1] /\ (a + 1) + k - 1 = a + k
      BY <1>1
    <3> QED
      BY <3>1
  <2> QED
    BY <2>1, <2>2
<1>5. n \in Nat /\ b <= n
  OBVIOUS
<1> HIDE DEF x, y, z
<1>6. xy \in Seq(T) /\ Len(xy) = n - a
  <2>1. (b - a) + (n - b) = n - a
    BY <1>5
  <2>2. \A v, w \in Seq(T) : v \o w \in Seq(T) /\ Len(v \o w) = Len(v) + Len(w)
    OBVIOUS
  <2>3. xy \in Seq(T) /\ Len(xy) = Len(x) + Len(y)
    BY <1>2, <1>3, <2>2
  <2>4. Len(x) + Len(y) = (b - a) + (n - b)
    BY <1>2, <1>3
  <2> HIDE DEF xy
  <2> QED
    BY <2>1, <2>3, <2>4
<1>7. ASSUME NEW k \in 1 .. (n - a) PROVE xy[k] = z[k]
  <2>0. \A v, u \in Seq(T) :
           /\ \A j \in 1 .. Len(v) : (v \o u)[j] = v[j]
           /\ \A j \in (Len(v) + 1) .. (Len(v) + Len(u)) : (v \o u)[j] = u[j - Len(v)]
    OBVIOUS
  <2>4. /\ \A j \in 1 .. (b - a) : xy[j] = x[j]
        /\ \A j \in ((b - a) + 1) .. ((b - a) + (n - b)) : xy[j] = y[j - (b - a)]
    <3>1. /\ \A j \in 1 .. Len(x) : xy[j] = x[j]
          /\ \A j \in (Len(x) + 1) .. (Len(x) + Len(y)) : xy[j] = y[j - Len(x)]
      BY <1>2, <1>3, <2>0
    <3> HIDE DEF xy
    <3> QED
      BY <1>2, <1>3, <3>1
  <2> HIDE DEF xy
  <2>1. CASE k <= b - a
    <3>1. xy[k] = x[k] /\ k \in 1 .. (b - a)
      <4>1. k \in 1 .. (b - a)
        BY <1>5, <2>1
      <4> QED
        BY <2>4, <4>1
    <3> QED
      BY <1>2, <1>4, <3>1
  <2>2. CASE k > b - a
    <3>1. xy[k] = y[k - (b - a)]
      <4>1. k \in ((b - a) + 1) .. ((b - a) + (n - b))
        BY <1>5, <2>2
      <4> QED
        BY <2>4, <4>1
    <3>2. k - (b - a) \in 1 .. (n - b) /\ b + (k - (b - a)) = a + k
      BY <1>5, <2>2
    <3>3. y[k - (b - a)] = str[a + k]
      BY <1>3, <3>2
    <3> HIDE DEF xy
    <3> QED
      BY <1>4, <3>1, <3>3
  <2>3. k \in Int /\ b - a \in Int
    OBVIOUS
  <2> HIDE DEF xy
  <2> QED
    BY <2>1, <2>2, <2>3
<1> HIDE DEF xy
<1>8. xy = z
  BY <1>4, <1>6, <1>7, SameSequence
<1> QED
  BY <1>2, <1>3, <1>8 DEF xy, x, y, z

LEMMA SlicesJoin ==
    ASSUME NEW T, NEW str \in Seq(T), NEW a \in Nat, NEW b \in Nat, a <= b, b <= Len(str)
    PROVE  /\ SubSeq(str, a + 1, b) \in Seq(T) /\ SubSeq(str, b + 1, Len(str)) \in Seq(T)
           /\ Len(SubSeq(str, a + 1, b)) = b - a
           /\ SubSeq(str, a + 1, b) \o SubSeq(str, b + 1, Len(str)) = SubSeq(str, a + 1, Len(str))
PROOF
<1> DEFINE n == Len(str)
<1>1. n \in Nat /\ n <= Len(str) /\ b <= n
  OBVIOUS
<1> HIDE DEF n
<1>2. /\ SubSeq(str, a + 1, b) \in Seq(T) /\ SubSeq(str, b + 1, n) \in Seq(T)
      /\ Len(SubSeq(str, a + 1, b)) = b - a
      /\ SubSeq(str, a + 1, b) \o SubSeq(str, b + 1, n) = SubSeq(str, a + 1, n)
  BY <1>1, SlicesMeet
<1> QED
  BY <1>2 DEF n

\* The strings of the list are pieces, and together they are the text.
LEMMA ChainIsText ==
    ASSUME SpInv, s # <<>>
    PROVE  /\ Chain \in Seq(Pieces) /\ Concat(Chain) = s
           /\ \A i \in Ends(Len(s)) : symbols[i].len > 0 => symbols[i].off + symbols[i].len <= Len(s)
PROOF
<1>0. \A a, b \in Nat : a <= b /\ b <= Len(s) =>
         /\ SubSeq(s, a + 1, b) \in Seq(DOMAIN Bytes)
         /\ Len(SubSeq(s, a + 1, b)) = b - a
         /\ SubSeq(s, a + 1, b) \o SubSeq(s, b + 1, Len(s)) = SubSeq(s, a + 1, Len(s))
  <2> DEFINE T == DOMAIN Bytes
             str == s
  <2>1. str \in Seq(T)
    BY DEF SpInv, ListInv, ListTypeOK
  <2> HIDE DEF T, str
  <2>2. ASSUME NEW a \in Nat, NEW b \in Nat, a <= b, b <= Len(str)
        PROVE  /\ SubSeq(str, a + 1, b) \in Seq(T)
               /\ Len(SubSeq(str, a + 1, b)) = b - a
               /\ SubSeq(str, a + 1, b) \o SubSeq(str, b + 1, Len(str)) = SubSeq(str, a + 1, Len(str))
    BY <2>1, <2>2, SlicesJoin
  <2> QED
    BY <2>2 DEF T, str
<1> DEFINE n == Len(s)
           off(i) == symbols[i].off
           len(i) == symbols[i].len
           nx(i) == symbols[i].next
           z(i) == Substr(s, off(i), len(i))
<1>1. /\ s \in Seq(DOMAIN Bytes) /\ n \in Nat /\ symbols \in [Ends(n) -> Node(n)]
      /\ DOMAIN symbols = Ends(n) /\ n # 0 /\ 0 \in Ends(n)
  <2>1. /\ s \in Seq(DOMAIN Bytes) /\ n \in Nat /\ symbols \in [Ends(n) -> Node(n)]
        /\ DOMAIN symbols = Ends(n) /\ n # 0
    BY DEF SpInv, ListInv, ListTypeOK
  <2> QED
    BY <2>1 DEF Ends
<1>2. \A i \in Ends(n) : off(i) \in Nat /\ len(i) \in Nat
  BY <1>1 DEF Node
<1>3. /\ off(0) = 0 /\ len(0) > 0
      /\ \A i \in Ends(n) : len(i) > 0 =>
            IF nx(i) = -1 THEN off(i) + len(i) = n
            ELSE /\ nx(i) \in Ends(n) /\ len(nx(i)) > 0 /\ i < nx(i)
                 /\ off(nx(i)) = off(i) + len(i)
  <2>1. sp # "idle"
    BY DEF SpInv, SpTextOK
  <2> QED
    BY <1>1, <2>1 DEF SpInv, ListInv, ListTilesText, Live
<1>4. \A i \in Ends(n) : len(i) > 1 => z(i) \in DOMAIN voc.score
  BY DEF SpInv, NodesArePieces
<1>5. PICK f : /\ Chain = f[0]
               /\ \A i \in Ends(n) : f[i] = <<z(i)>> \o (IF nx(i) = -1 THEN <<>> ELSE f[nx(i)])
  BY ChainUnfolds
<1> HIDE DEF off, len, nx
<1> DEFINE P(i) == /\ f[i] \in Seq(Pieces) /\ off(i) + len(i) <= n
                   /\ Concat(f[i]) = SubSeq(s, off(i) + 1, n)
           S == {k \in Nat : \A i \in Ends(n) : len(i) > 0 /\ i >= n - k => P(i)}
<1>6. ASSUME NEW i \in Ends(n), len(i) > 0, off(i) + len(i) <= n
      PROVE  /\ z(i) \in Pieces
             /\ z(i) = SubSeq(s, off(i) + 1, off(i) + len(i))
             /\ z(i) \in Seq(DOMAIN Bytes)
             /\ z(i) \o SubSeq(s, (off(i) + len(i)) + 1, n) = SubSeq(s, off(i) + 1, n)
  <2> DEFINE lo == off(i)
             hi == off(i) + len(i)
  <2>1. lo \in Nat /\ hi \in Nat /\ lo <= hi /\ hi <= Len(s) /\ hi - lo = len(i)
    BY <1>1, <1>2, <1>6
  <2>2. z(i) = SubSeq(s, lo + 1, hi)
    BY DEF Substr
  <2> HIDE DEF lo, hi
  <2>3. /\ SubSeq(s, lo + 1, hi) \in Seq(DOMAIN Bytes)
        /\ Len(SubSeq(s, lo + 1, hi)) = hi - lo
        /\ SubSeq(s, lo + 1, hi) \o SubSeq(s, hi + 1, Len(s)) = SubSeq(s, lo + 1, Len(s))
    BY <1>0, <2>1
  <2>4. z(i) \in Pieces
    <3>1. len(i) > 1 \/ len(i) = 1
      BY <1>2, <1>6
    <3>2. z(i) \in Seq(DOMAIN Bytes) /\ Len(z(i)) = len(i)
      BY <2>1, <2>2, <2>3
    <3> HIDE DEF z
    <3> QED
      BY <1>4, <3>1, <3>2 DEF Pieces
  <2> HIDE DEF z
  <2> QED
    BY <2>2, <2>3, <2>4 DEF lo, hi
<1> HIDE DEF z
<1>7. 0 \in S
  BY <1>1 DEF Ends
<1>8. ASSUME NEW k \in Nat, k \in S
      PROVE  k + 1 \in S
  <2> SUFFICES ASSUME NEW i \in Ends(n), len(i) > 0, i >= n - (k + 1) PROVE P(i)
    <3> HIDE DEF P
    <3> QED
      OBVIOUS
  <2>1. CASE nx(i) = -1
    <3>1. off(i) + len(i) = n /\ f[i] = <<z(i)>> \o <<>>
      BY <1>3, <1>5, <2>1
    <3>2. /\ z(i) \in Pieces /\ z(i) \in Seq(DOMAIN Bytes) /\ z(i) = SubSeq(s, off(i) + 1, n)
          /\ off(i) + len(i) <= n
      BY <1>1, <1>6, <3>1
    <3>3. f[i] = <<z(i)>> /\ f[i] \in Seq(Pieces)
      BY <3>1, <3>2
    <3>4. Concat(f[i]) = z(i)
      BY <3>2, <3>3, ConcatOne
    <3> QED
      BY <3>2, <3>3, <3>4
  <2>2. CASE nx(i) # -1
    <3> DEFINE j == nx(i)
    <3>1. /\ j \in Ends(n) /\ len(j) > 0 /\ i < j /\ off(j) = off(i) + len(i)
          /\ f[i] = <<z(i)>> \o f[j]
      BY <1>3, <1>5, <2>2
    <3> HIDE DEF j
    <3>2. P(j)
      <4>1. j >= n - k
        BY <1>1, <3>1 DEF Ends
      <4> HIDE DEF P
      <4> QED
        BY <1>8, <3>1, <4>1
    <3>3. off(i) + len(i) <= n
      BY <1>1, <1>2, <3>1, <3>2
    <3>4. /\ z(i) \in Pieces /\ z(i) \in Seq(DOMAIN Bytes)
          /\ z(i) \o SubSeq(s, off(j) + 1, n) = SubSeq(s, off(i) + 1, n)
      BY <1>6, <3>1, <3>3
    <3>5. f[i] \in Seq(Pieces)
      BY <3>1, <3>2, <3>4
    <3>6. Concat(f[i]) = z(i) \o Concat(f[j])
      <4> DEFINE A == Seq(DOMAIN Bytes)
                 g == <<z(i)>>
      <4>1. g \in Seq(A) /\ f[j] \in Seq(A)
        <5>1. Seq(Pieces) \subseteq Seq(A)
          BY DEF Pieces
        <5>2. g \in Seq(A)
          <6>1. z(i) \in A
            BY <3>4
          <6> HIDE DEF A
          <6> QED
            BY <6>1
        <5> HIDE DEF A, g
        <5> QED
          BY <3>2, <5>1, <5>2
      <4>2. Concat(g) = z(i)
        BY <3>4, ConcatOne
      <4> HIDE DEF g
      <4>3. Concat(g \o f[j]) = Concat(g) \o Concat(f[j])
        BY <4>1, ConcatJoins
      <4> QED
        BY <3>1, <4>2, <4>3 DEF g
    <3> QED
      BY <3>2, <3>3, <3>4, <3>5, <3>6
  <2> QED
    BY <2>1, <2>2
<1>9. n \in S
  <2> HIDE DEF S
  <2> QED
    BY <1>1, <1>7, <1>8, NumbersFromZero
<1>10. P(0) /\ \A i \in Ends(n) : len(i) > 0 => P(i)
  <2>1. n - n = 0 /\ len(0) > 0 /\ \A i \in Ends(n) : i >= 0
    BY <1>1, <1>3 DEF Ends
  <2> HIDE DEF P
  <2> QED
    BY <1>1, <1>9, <2>1
<1>11. Concat(f[0]) = SubSeq(s, 1, n) /\ f[0] \in Seq(Pieces)
  <2>1. off(0) + 1 = 1
    BY <1>3
  <2> QED
    BY <1>10, <2>1
<1>12. SubSeq(s, 1, n) = s
  BY <1>1
<1>13. \A i \in Ends(n) : len(i) > 0 => off(i) + len(i) <= n
  BY <1>10
<1> HIDE DEF P
<1> QED
  BY <1>5, <1>11, <1>12, <1>13 DEF off, len, n

-----------------------------------------------------------------------------
(***************************************************************************)
(* What the tokens of encode_sentencepiece decode to.                      *)
(***************************************************************************)
ByteValues == UNION {{Bytes[c][i] : i \in DOMAIN Bytes[c]} : c \in DOMAIN Bytes}
SpTokens == {<<"unk">>} \cup ({"piece"} \X Seq(DOMAIN Bytes)) \cup ({"byte"} \X ByteValues)
SpAlphabet == ByteValues \cup {"unk"} \cup FallbackBytes
Spelled == [t \in SpTokens |-> Spelling(t)]
SpBack(g) == Image(Spelled, g)

\* Tokens that do not read as what they were made from: the unknown one, and
\* those of bytes, reached by their spelling.
ReadsBack(t) == t # <<"unk">> /\ (t[1] = "piece" => t[2] \notin DOMAIN voc.byteOf)
AllReadBack(g) == \A i \in DOMAIN g : ReadsBack(g[i])

Blanked(z) == [i \in DOMAIN z |-> IF z[i] = Marker THEN Space ELSE z[i]]

\* The markers of this vocabulary can be told from the text.
MarkersStandAlone ==
    model = "llama" /\ <<Marker>> \in DOMAIN voc.score /\ \A c \in voc.control : ~Contains(c, Marker)

LEMMA BytesJoin ==
    /\ \A z \in Seq(DOMAIN Bytes) : BytesOf(z) \in Seq(ByteValues)
    /\ \A y, z \in Seq(DOMAIN Bytes) : BytesOf(y \o z) = BytesOf(y) \o BytesOf(z)
    /\ \A c \in DOMAIN Bytes : BytesOf(<<c>>) = Bytes[c]
    /\ BytesOf(<<>>) = <<>>
PROOF
<1>1. Bytes \in [DOMAIN Bytes -> Seq(ByteValues)]
  BY SentencePieceAssumption DEF ByteValues
<1>2. \A z : BytesOf(z) = Image(Bytes, z)
  BY Zenon DEF BytesOf, Image, Mapped
<1>3. \A z \in Seq(DOMAIN Bytes) : Image(Bytes, z) \in Seq(ByteValues)
  BY <1>1, ImageTyped
<1>4. \A y, z \in Seq(DOMAIN Bytes) : Image(Bytes, y \o z) = Image(Bytes, y) \o Image(Bytes, z)
  BY <1>1, ImagesJoin
<1>5. \A c \in DOMAIN Bytes : Image(Bytes, <<c>>) = Bytes[c]
  BY <1>1, ImageOne
<1>6. Image(Bytes, <<>>) = <<>>
  BY ImageEmpty
<1> QED
  BY <1>2, <1>3, <1>4, <1>5, <1>6, Zenon

LEMMA BlankedJoin ==
    /\ \A z \in Seq(DOMAIN Bytes) : Blanked(z) \in Seq(DOMAIN Bytes) /\ Len(Blanked(z)) = Len(z)
    /\ \A y, z \in Seq(DOMAIN Bytes) : Blanked(y \o z) = Blanked(y) \o Blanked(z)
PROOF
<1> DEFINE m == [c \in DOMAIN Bytes |-> IF c = Marker THEN Space ELSE c]
<1>1. m \in [DOMAIN Bytes -> DOMAIN Bytes]
  BY SentencePieceAssumption
<1>2. \A z \in Seq(DOMAIN Bytes) : Blanked(z) = Mapped(m, z)
  BY DEF Blanked, Mapped
<1> HIDE DEF m
<1>3. \A z \in Seq(DOMAIN Bytes) : Mapped(m, z) \in Seq(DOMAIN Bytes) /\ Len(Mapped(m, z)) = Len(z)
  BY <1>1, MappedTyped
<1>4. \A y, z \in Seq(DOMAIN Bytes) : Mapped(m, y \o z) = Mapped(m, y) \o Mapped(m, z)
  BY MappedJoins
<1>5. \A y, z \in Seq(DOMAIN Bytes) : y \o z \in Seq(DOMAIN Bytes)
  OBVIOUS
<1> QED
  BY <1>2, <1>3, <1>4, <1>5, Zenon

LEMMA NothingToBlank ==
    ASSUME NEW z \in Seq(DOMAIN Bytes), ~Contains(z, Marker)
    PROVE  Blanked(z) = z
PROOF
<1>1. \A i \in DOMAIN z : z[i] # Marker
  BY DEF Contains
<1>2. Blanked(z) = [i \in DOMAIN z |-> z[i]]
  BY <1>1 DEF Blanked
<1> QED
  BY <1>2

\* How a token of a piece, a byte's and the unknown one are spelled.
LEMMA TokensSpell ==
    ASSUME MarkersStandAlone
    PROVE  /\ \A z \in Seq(DOMAIN Bytes) : z \notin DOMAIN voc.byteOf =>
                 Spelling(<<"piece", z>>) = BytesOf(Blanked(z))
           /\ \A z \in DOMAIN voc.byteOf : Spelling(<<"piece", z>>) = <<voc.byteOf[z]>>
           /\ \A b : Spelling(<<"byte", b>>) = <<b>>
           /\ Spelling(<<"unk">>) = <<"unk">>
PROOF
<1>1. ASSUME NEW z \in Seq(DOMAIN Bytes), z \notin DOMAIN voc.byteOf
      PROVE  Spelling(<<"piece", z>>) = BytesOf(Blanked(z))
  <2> DEFINE t == <<"piece", z>>
  <2>1. t[1] = "piece" /\ t[2] = z
    OBVIOUS
  <2> HIDE DEF t
  <2>2. Spelling(t) = IF z \in voc.control THEN BytesOf(z) ELSE BytesOf(Blanked(z))
    BY <1>1, <2>1 DEF Spelling, MarkersStandAlone, Blanked
  <2>3. z \in voc.control => Blanked(z) = z
    BY NothingToBlank DEF MarkersStandAlone
  <2> QED
    BY <2>2, <2>3 DEF t
<1>2. ASSUME NEW b PROVE Spelling(<<"byte", b>>) = <<b>>
  BY DEF Spelling, MarkersStandAlone
<1>3. Spelling(<<"unk">>) = <<"unk">>
  BY DEF Spelling, MarkersStandAlone
<1>4. ASSUME NEW z \in DOMAIN voc.byteOf PROVE Spelling(<<"piece", z>>) = <<voc.byteOf[z]>>
  BY DEF Spelling, MarkersStandAlone
<1> QED
  BY <1>1, <1>2, <1>3, <1>4

LEMMA SpelledTyped ==
    ASSUME MarkersStandAlone
    PROVE  /\ Spelled \in [SpTokens -> Seq(SpAlphabet)]
           /\ \A t \in SpTokens : Spelled[t] = Spelling(t)
PROOF
<1>1. ASSUME NEW t \in SpTokens PROVE Spelling(t) \in Seq(SpAlphabet)
  <2>1. CASE t = <<"unk">>
    <3>1. <<"unk">> \in Seq(SpAlphabet)
      BY DEF SpAlphabet
    <3> QED
      BY <2>1, <3>1, TokensSpell
  <2>2. CASE t \in {"piece"} \X Seq(DOMAIN Bytes)
    <3>1. PICK z \in Seq(DOMAIN Bytes) : t = <<"piece", z>>
      BY <2>2
    <3>2. CASE z \in DOMAIN voc.byteOf
      <4>1. Spelling(t) = <<voc.byteOf[z]>>
        BY <3>1, <3>2, TokensSpell
      <4>2. voc.byteOf[z] \in SpAlphabet
        BY <3>2 DEF SpAlphabet, FallbackBytes
      <4> QED
        BY <4>1, <4>2
    <3>3. CASE z \notin DOMAIN voc.byteOf
      <4>1. Spelling(t) = BytesOf(Blanked(z))
        BY <3>1, <3>3, TokensSpell
      <4>2. Blanked(z) \in Seq(DOMAIN Bytes)
        BY <3>1, BlankedJoin
      <4>3. BytesOf(Blanked(z)) \in Seq(ByteValues)
        BY <4>2, BytesJoin
      <4>4. Seq(ByteValues) \subseteq Seq(SpAlphabet)
        BY DEF SpAlphabet
      <4> QED
        BY <4>1, <4>3, <4>4
    <3> QED
      BY <3>2, <3>3
  <2>3. CASE t \in {"byte"} \X ByteValues
    <3>1. PICK b \in ByteValues : t = <<"byte", b>>
      BY <2>3
    <3>2. Spelling(t) = <<b>>
      BY <3>1, TokensSpell
    <3>3. <<b>> \in Seq(SpAlphabet)
      <4>1. b \in SpAlphabet
        BY DEF SpAlphabet
      <4> QED
        BY <4>1
    <3> QED
      BY <3>2, <3>3
  <2> QED
    BY <2>1, <2>2, <2>3 DEF SpTokens
<1> QED
  BY <1>1, Zenon DEF Spelled

\* The tokens of one string of the list.
LEMMA TokensDecode ==
    ASSUME MarkersStandAlone, NEW z \in Pieces
    PROVE  /\ TokensOf(z) \in Seq(SpTokens)
           /\ AllReadBack(TokensOf(z)) => SpBack(TokensOf(z)) = BytesOf(Blanked(z))
PROOF
<1>1. z \in Seq(DOMAIN Bytes) /\ (z \in DOMAIN voc.score \/ Len(z) = 1)
  BY DEF Pieces
<1>2. Spelled \in [SpTokens -> Seq(SpAlphabet)] /\ \A t \in SpTokens : Spelled[t] = Spelling(t)
  BY SpelledTyped
<1>3. CASE z \in DOMAIN voc.score
  <2> DEFINE t == <<"piece", z>>
  <2>1. TokensOf(z) = <<t>> /\ t \in SpTokens
    BY <1>1, <1>3 DEF TokensOf, SpTokens
  <2>2. AllReadBack(<<t>>) => Spelling(t) = BytesOf(Blanked(z))
    <3>1. AllReadBack(<<t>>) => ReadsBack(t)
      BY DEF AllReadBack
    <3>2. ReadsBack(t) => z \notin DOMAIN voc.byteOf
      BY DEF ReadsBack
    <3> QED
      BY <1>1, <3>1, <3>2, TokensSpell
  <2> HIDE DEF t
  <2>3. SpBack(<<t>>) = Spelled[t]
    BY <1>2, <2>1, ImageOne DEF SpBack
  <2>4. <<t>> \in Seq(SpTokens)
    BY <2>1
  <2> QED
    BY <1>2, <2>1, <2>2, <2>3, <2>4, Zenon
<1>4. CASE z \notin DOMAIN voc.score
  <2> DEFINE b == BytesOf(z)
             out == TokensOf(z)
  <2>1. b \in Seq(ByteValues)
    BY <1>1, BytesJoin
  <2>2. out = [i \in DOMAIN b |-> IF b[i] \in FallbackBytes THEN <<"byte", b[i]>> ELSE <<"unk">>]
    BY <1>4 DEF TokensOf
  <2> HIDE DEF b, out
  <2>3. \A i \in DOMAIN b : b[i] \in ByteValues /\ <<"byte", b[i]>> \in SpTokens
    BY <2>1 DEF SpTokens
  <2>4. <<"unk">> \in SpTokens
    BY DEF SpTokens
  <2>5. out \in Seq(SpTokens) /\ DOMAIN out = DOMAIN b
    <3>1. out \in [1 .. Len(b) -> SpTokens] /\ Len(b) \in Nat /\ DOMAIN b = 1 .. Len(b)
      BY <2>1, <2>2, <2>3, <2>4
    <3> QED
      BY <3>1
  <2>6. AllReadBack(out) => SpBack(out) = b
    <3> SUFFICES ASSUME AllReadBack(out) PROVE SpBack(out) = b
      OBVIOUS
    <3>1. \A i \in DOMAIN b : out[i] = <<"byte", b[i]>>
      BY <2>2, <2>5 DEF AllReadBack, ReadsBack
    <3>2. \A i \in DOMAIN b : Spelled[out[i]] = <<b[i]>>
      BY <1>2, <2>3, <3>1, TokensSpell
    <3>3. Mapped(Spelled, out) = [i \in DOMAIN b |-> <<b[i]>>]
      BY <2>5, <3>2, Zenon DEF Mapped
    <3>4. Concat([i \in DOMAIN b |-> <<b[i]>>]) = b
      BY <2>1, ConcatSingles
    <3> QED
      BY <3>3, <3>4 DEF SpBack, Image
  <2>7. Blanked(z) = z
    <3>1. Len(z) = 1 /\ z = <<z[1]>>
      BY <1>1, <1>4
    <3>2. z[1] # Marker
      BY <1>4, <3>1 DEF MarkersStandAlone
    <3>3. DOMAIN z = {1}
      BY <1>1, <3>1
    <3>4. ~Contains(z, Marker)
      BY <3>2, <3>3 DEF Contains
    <3> QED
      BY <1>1, <3>4, NothingToBlank
  <2> QED
    BY <2>5, <2>6, <2>7 DEF b, out
<1> QED
  BY <1>3, <1>4

TokenTable == [z \in Pieces |-> TokensOf(z)]
ListTokens(w) == Image(TokenTable, w)

\* The tokens of the list's strings read as their bytes.
LEMMA ListDecodes ==
    ASSUME MarkersStandAlone
    PROVE  \A w \in Seq(Pieces) :
              /\ Concat(w) \in Seq(DOMAIN Bytes)
              /\ ListTokens(w) \in Seq(SpTokens)
              /\ AllReadBack(ListTokens(w)) => SpBack(ListTokens(w)) = BytesOf(Blanked(Concat(w)))
PROOF
<1> DEFINE Good(w) == AllReadBack(ListTokens(w)) => SpBack(ListTokens(w)) = BytesOf(Blanked(Concat(w)))
           S == {w \in Seq(Pieces) : Good(w)}
           m == TokenTable
<1>1. m \in [Pieces -> Seq(SpTokens)] /\ \A z \in Pieces : m[z] = TokensOf(z)
  <2>1. \A z \in Pieces : TokensOf(z) \in Seq(SpTokens)
    BY TokensDecode
  <2> QED
    BY <2>1, Zenon DEF TokenTable
<1>2. \A w \in Seq(Pieces) : Concat(w) \in Seq(DOMAIN Bytes)
  <2>1. Seq(Pieces) \subseteq Seq(Seq(DOMAIN Bytes))
    BY DEF Pieces
  <2> QED
    BY <2>1, ConcatTyped
<1>3. \A w \in Seq(Pieces) : ListTokens(w) \in Seq(SpTokens)
  <2> HIDE DEF m
  <2>1. \A w \in Seq(Pieces) : Image(m, w) \in Seq(SpTokens)
    BY <1>1, ImageTyped
  <2> QED
    BY <2>1 DEF ListTokens, m
<1>4. \A w \in Seq(Pieces), z \in Pieces : ListTokens(Append(w, z)) = ListTokens(w) \o TokensOf(z)
  <2> HIDE DEF m
  <2>1. \A g, h \in Seq(Pieces) : Image(m, g \o h) = Image(m, g) \o Image(m, h)
    BY <1>1, ImagesJoin
  <2>2. \A z \in Pieces : Image(m, <<z>>) = TokensOf(z)
    BY <1>1, ImageOne
  <2>3. \A w \in Seq(Pieces), z \in Pieces : Append(w, z) = w \o <<z>> /\ <<z>> \in Seq(Pieces)
    OBVIOUS
  <2>4. \A w \in Seq(Pieces), z \in Pieces : Image(m, Append(w, z)) = Image(m, w) \o TokensOf(z)
    BY <2>1, <2>2, <2>3
  <2> QED
    BY <2>4, Zenon DEF ListTokens, m
<1> HIDE DEF m
<1>5. \A g, h \in Seq(SpTokens) : SpBack(g \o h) = SpBack(g) \o SpBack(h)
  <2> DEFINE r == Spelled
  <2>1. r \in [SpTokens -> Seq(SpAlphabet)]
    BY SpelledTyped
  <2> HIDE DEF r
  <2>2. \A g, h \in Seq(SpTokens) : Image(r, g \o h) = Image(r, g) \o Image(r, h)
    BY <2>1, ImagesJoin
  <2> QED
    BY <2>2, Zenon DEF SpBack, r
<1>6. <<>> \in S
  <2>1. ListTokens(<<>>) = <<>> /\ SpBack(<<>>) = <<>>
    BY ImageEmpty DEF ListTokens, SpBack
  <2>2. Blanked(<<>>) = <<>>
    BY DEF Blanked
  <2>3. Good(<<>>)
    BY <2>1, <2>2, ConcatEmpty, BytesJoin, Zenon
  <2> HIDE DEF Good
  <2> QED
    BY <2>3
<1>7. ASSUME NEW w \in Seq(Pieces), NEW z \in Pieces, w \in S
      PROVE  Append(w, z) \in S
  <2> DEFINE o == ListTokens(w)
             q == TokensOf(z)
             x == Concat(w)
  <2>1. o \in Seq(SpTokens) /\ ListTokens(Append(w, z)) = o \o q
    BY <1>3, <1>4
  <2>2. q \in Seq(SpTokens) /\ (AllReadBack(q) => SpBack(q) = BytesOf(Blanked(z)))
    BY TokensDecode
  <2>3. AllReadBack(o) => SpBack(o) = BytesOf(Blanked(x))
    BY <1>7
  <2>4. z \in Seq(DOMAIN Bytes) /\ x \in Seq(DOMAIN Bytes)
    BY <1>2 DEF Pieces
  <2>5. Concat(Append(w, z)) = x \o z
    <3>1. Seq(Pieces) \subseteq Seq(Seq(DOMAIN Bytes))
      BY DEF Pieces
    <3> QED
      BY <2>4, <3>1, ConcatAppend
  <2> HIDE DEF o, q, x
  <2>6. SpBack(o \o q) = SpBack(o) \o SpBack(q)
    BY <1>5, <2>1, <2>2
  <2>7. AllReadBack(o \o q) => AllReadBack(o) /\ AllReadBack(q)
    <3> SUFFICES ASSUME AllReadBack(o \o q) PROVE AllReadBack(o) /\ AllReadBack(q)
      OBVIOUS
    <3>1. \A i \in DOMAIN o : i \in DOMAIN (o \o q) /\ (o \o q)[i] = o[i]
      BY <2>1, <2>2
    <3>2. \A i \in DOMAIN q : Len(o) + i \in DOMAIN (o \o q) /\ (o \o q)[Len(o) + i] = q[i]
      BY <2>1, <2>2
    <3> QED
      BY <3>1, <3>2 DEF AllReadBack
  <2>8. BytesOf(Blanked(x \o z)) = BytesOf(Blanked(x)) \o BytesOf(Blanked(z))
    <3>1. Blanked(x \o z) = Blanked(x) \o Blanked(z)
      BY <2>4, BlankedJoin
    <3>2. Blanked(x) \in Seq(DOMAIN Bytes) /\ Blanked(z) \in Seq(DOMAIN Bytes)
      BY <2>4, BlankedJoin
    <3> QED
      BY <3>1, <3>2, BytesJoin
  <2>9. Good(Append(w, z))
    BY <2>1, <2>2, <2>3, <2>5, <2>6, <2>7, <2>8, Zenon
  <2>10. Append(w, z) \in Seq(Pieces)
    OBVIOUS
  <2> HIDE DEF Good
  <2> QED
    BY <2>9, <2>10
<1>8. Seq(Pieces) \subseteq S
  <2> HIDE DEF S
  <2> QED
    BY <1>6, <1>7, SequencesGrow
<1> QED
  BY <1>2, <1>3, <1>8

\* The markers that were put into a text become its spaces again.
LEMMA PreparedReads ==
    ASSUME NEW t \in Seq(DOMAIN Bytes), ~Contains(t, Marker), NEW prefix
    PROVE  Blanked(Prepared(t, prefix)) = (IF prefix THEN <<Space>> ELSE <<>>) \o t
PROOF
<1> DEFINE marked == [i \in DOMAIN t |-> IF t[i] = Space THEN Marker ELSE t[i]]
           front == IF prefix THEN <<Marker>> ELSE <<>>
<1>1. marked \in Seq(DOMAIN Bytes) /\ DOMAIN marked = DOMAIN t
  <2>1. marked \in [1 .. Len(t) -> DOMAIN Bytes] /\ Len(t) \in Nat
    BY SentencePieceAssumption
  <2> QED
    BY <2>1
<1>2. front \in Seq(DOMAIN Bytes)
  <2>1. <<Marker>> \in Seq(DOMAIN Bytes) /\ <<>> \in Seq(DOMAIN Bytes)
    BY SentencePieceAssumption
  <2> QED
    BY <2>1
<1>3. Blanked(marked) = t
  <2>1. \A i \in DOMAIN t : (IF marked[i] = Marker THEN Space ELSE marked[i]) = t[i]
    BY SentencePieceAssumption DEF Contains
  <2>2. Blanked(marked) = [i \in DOMAIN t |-> t[i]]
    <3> HIDE DEF marked
    <3> QED
      BY <1>1, <2>1 DEF Blanked
  <2> QED
    BY <2>2
<1>4. Blanked(front) = IF prefix THEN <<Space>> ELSE <<>>
  BY DEF Blanked
<1> HIDE DEF marked, front
<1>5. Blanked(front \o marked) = Blanked(front) \o Blanked(marked)
  BY <1>1, <1>2, BlankedJoin
<1> QED
  BY <1>3, <1>4, <1>5 DEF Prepared, marked, front

LEMMA SpDecodes ==
    ASSUME SpInv, model = "llama", Spellable, ~Contains(Body, <<"unk">>)
    PROVE  Decode(Body) = BytesOf(text)
PROOF
<1> DEFINE all == Concat([i \in DOMAIN ids |-> Spelling(ids[i])])
<1>1. /\ Body = ids /\ sp = "done" /\ ~Contains(text, Marker) /\ MarkersStandAlone
      /\ AllReadBack(ids)
  BY DEF Body, Spellable, MarkersStandAlone, Contains, AllReadBack, ReadsBack
<1>2. Decode(Body) = IF voc.prefix /\ all # <<>> /\ <<all[1]>> = Bytes[Space] THEN Tail(all) ELSE all
  BY <1>1 DEF Decode
<1>3. CASE text = <<>>
  <2>1. ids = <<>>
    BY <1>3 DEF SpInv, SpTextOK
  <2>2. all = <<>>
    <3>1. [i \in DOMAIN ids |-> Spelling(ids[i])] = <<>>
      BY <2>1
    <3> QED
      BY <3>1, ConcatEmpty
  <2> HIDE DEF all
  <2> QED
    BY <1>2, <1>3, <2>2, BytesJoin
<1>4. CASE text # <<>>
  <2> DEFINE front == IF voc.prefix THEN <<Space>> ELSE <<>>
  <2>1. /\ text \in Seq(DOMAIN Bytes) /\ s # <<>> /\ s = Prepared(text, voc.prefix)
        /\ ids = Concat([i \in DOMAIN Chain |-> TokensOf(Chain[i])])
    BY <1>1, <1>4 DEF SpInv, SpTextOK, SpOutOK
  <2>2. Chain \in Seq(Pieces) /\ Concat(Chain) = s
    BY <2>1, ChainIsText
  <2>3. ids = ListTokens(Chain)
    <3>1. \A i \in DOMAIN Chain : TokenTable[Chain[i]] = TokensOf(Chain[i])
      <4>1. \A z \in Pieces : TokenTable[z] = TokensOf(z)
        BY Zenon DEF TokenTable
      <4> QED
        BY <2>2, <4>1
    <3>2. Mapped(TokenTable, Chain) = [i \in DOMAIN Chain |-> TokensOf(Chain[i])]
      BY <3>1, Zenon DEF Mapped
    <3> QED
      BY <2>1, <3>2 DEF ListTokens, Image
  <2>4. ids \in Seq(SpTokens) /\ SpBack(ids) = BytesOf(Blanked(s))
    BY <1>1, <2>2, <2>3, ListDecodes
  <2>5. all = SpBack(ids)
    <3>1. \A i \in DOMAIN ids : Spelled[ids[i]] = Spelling(ids[i])
      BY <1>1, <2>4, SpelledTyped
    <3>2. Mapped(Spelled, ids) = [i \in DOMAIN ids |-> Spelling(ids[i])]
      BY <3>1, Zenon DEF Mapped
    <3> QED
      BY <3>2 DEF SpBack, Image
  <2>6. Blanked(s) = front \o text
    BY <1>1, <2>1, PreparedReads
  <2> HIDE DEF all
  <2>7. all = BytesOf(front \o text)
    <3> HIDE DEF front
    <3> QED
      BY <2>4, <2>5, <2>6
  <2>8. CASE voc.prefix
    <3> DEFINE blank == Bytes[Space]
               rest == BytesOf(text)
               one == <<Space>>
    <3>1. blank \in Seq(ByteValues) /\ Len(blank) = 1 /\ rest \in Seq(ByteValues)
      BY <2>1, BytesJoin, SentencePieceAssumption DEF ByteValues
    <3>2. one \in Seq(DOMAIN Bytes) /\ BytesOf(one) = blank /\ front = one
      BY <2>8, BytesJoin, SentencePieceAssumption
    <3> HIDE DEF blank, rest, one, front
    <3>3. all = blank \o rest
      BY <2>1, <2>7, <3>2, BytesJoin DEF rest
    <3>4. all # <<>> /\ <<all[1]>> = blank /\ Tail(all) = rest
      <4>1. PICK b \in ByteValues : blank = <<b>>
        BY <3>1
      <4> QED
        BY <3>1, <3>3, <4>1
    <3> QED
      BY <1>2, <2>8, <3>4 DEF blank, rest
  <2>9. CASE ~voc.prefix
    <3>1. front \o text = text
      BY <2>1, <2>9
    <3> HIDE DEF front
    <3> QED
      BY <1>2, <2>7, <2>9, <3>1
  <2> QED
    BY <2>8, <2>9
<1> QED
  BY <1>3, <1>4

(***************************************************************************)
(* What was encoded decodes to the text it came from, for every text and   *)
(* vocabulary and both algorithms, wherever Spellable holds and no unknown *)
(* token is used: the marker in front and its removal, the merges with     *)
(* their stale pairs, the fall-back to bytes, the special tokens, words    *)
(* and ranks lose and alter no byte.                                       *)
(***************************************************************************)
THEOREM DecodingCorrect == TokSpec => []DecodeInvertsEncode
PROOF
<1>1. TokInit => model \in {"llama", "gpt2"}
  BY DEF TokInit
<1>2. model \in {"llama", "gpt2"} /\ [Encode]_tokVars => (model \in {"llama", "gpt2"})'
  BY DEF Encode, tokVars
<1>3. SpInv /\ GptInv /\ model \in {"llama", "gpt2"} => DecodeInvertsEncode
  <2> SUFFICES ASSUME SpInv, GptInv, model \in {"llama", "gpt2"}, Spellable, ~Contains(Body, <<"unk">>)
               PROVE  Decode(Body) = IF model = "llama" THEN BytesOf(text) ELSE input
    BY DEF DecodeInvertsEncode
  <2>1. CASE model = "llama"
    BY <2>1, SpDecodes
  <2>2. CASE model = "gpt2"
    BY <2>2, GptDecodes
  <2> QED
    BY <2>1, <2>2
<1> QED
  BY <1>1, <1>2, <1>3, SpCorrect, GptCorrect, PTL DEF TokSpec

-----------------------------------------------------------------------------
(***************************************************************************)
(* The queue and the list against BestMerge.                               *)
(***************************************************************************)
Str(i) == Substr(s, symbols[i].off, symbols[i].len)

\* The nodes in use, in the order of the list.
OnPath(q) ==
    /\ q \in Seq(Ends(Len(s))) /\ Len(q) > 0 /\ q[1] = 0
    /\ \A k \in 1 .. Len(q) : /\ symbols[q[k]].len > 0
                              /\ symbols[q[k]].next = IF k = Len(q) THEN -1 ELSE q[k + 1]
    /\ \A j, k \in 1 .. Len(q) : j < k => q[j] < q[k]
    /\ \A i \in Ends(Len(s)) : symbols[i].len > 0 => \E k \in 1 .. Len(q) : i = q[k]

StringsAlong(q) == [k \in 1 .. Len(q) |-> Str(q[k])]

LEMMA ElementAndRest ==
    ASSUME NEW T, NEW g \in Seq(T)
    PROVE  /\ \A k \in 1 .. Len(g) :
                 <<g[k]>> \o SubSeq(g, k + 1, Len(g)) = SubSeq(g, k, Len(g))
           /\ Len(g) > 0 => <<g[Len(g)]>> = SubSeq(g, Len(g), Len(g))
           /\ SubSeq(g, 1, Len(g)) = g
PROOF
<1>1. ASSUME NEW k \in 1 .. Len(g)
      PROVE  <<g[k]>> \o SubSeq(g, k + 1, Len(g)) = SubSeq(g, k, Len(g))
  <2> DEFINE lo == k - 1
  <2>1. lo \in Nat /\ k \in Nat /\ lo <= k /\ k <= Len(g) /\ lo + 1 = k
    OBVIOUS
  <2> HIDE DEF lo
  <2>2. SubSeq(g, lo + 1, k) \o SubSeq(g, k + 1, Len(g)) = SubSeq(g, lo + 1, Len(g))
    BY <2>1, SlicesJoin
  <2>3. SubSeq(g, k, k) = <<g[k]>>
    <3>1. SubSeq(g, k, k) \in Seq(T) /\ Len(SubSeq(g, k, k)) = 1 /\ SubSeq(g, k, k)[1] = g[k]
      OBVIOUS
    <3> DEFINE y == SubSeq(g, k, k)
    <3> HIDE DEF y
    <3>2. y \in Seq(T) /\ Len(y) = 1 => y = <<y[1]>>
      OBVIOUS
    <3> QED
      BY <3>1, <3>2 DEF y
  <2> QED
    BY <2>1, <2>2, <2>3
<1>2. Len(g) > 0 => <<g[Len(g)]>> = SubSeq(g, Len(g), Len(g))
  OBVIOUS
<1>3. SubSeq(g, 1, Len(g)) = g
  OBVIOUS
<1> QED
  BY <1>1, <1>2, <1>3

LEMMA PathIsChain == \A q : SpInv /\ s # <<>> /\ OnPath(q) => Chain = StringsAlong(q)
PROOF
<1> SUFFICES ASSUME NEW q, SpInv, s # <<>>, OnPath(q) PROVE Chain = StringsAlong(q)
  OBVIOUS
<1> DEFINE m == Len(q)
           w == StringsAlong(q)
           T == {Str(i) : i \in Ends(Len(s))}
<1>1. PICK f : /\ Chain = f[0]
               /\ \A i \in Ends(Len(s)) :
                     f[i] = <<Str(i)>> \o (IF symbols[i].next = -1 THEN <<>> ELSE f[symbols[i].next])
  BY ChainUnfolds DEF Str
<1>2. /\ m \in Nat /\ m > 0 /\ q[1] = 0
      /\ \A k \in 1 .. m : /\ q[k] \in Ends(Len(s))
                           /\ symbols[q[k]].next = IF k = m THEN -1 ELSE q[k + 1]
      /\ \A k \in 1 .. m : k # m => q[k + 1] # -1
  <2>1. \A k \in 1 .. m : q[k] \in Ends(Len(s)) /\ q[k] # -1
    BY DEF OnPath, Ends
  <2>2. m \in Nat
    BY DEF OnPath
  <2>3. \A k \in 1 .. m : k # m => k + 1 \in 1 .. m
    BY <2>2
  <2>4. /\ m > 0 /\ q[1] = 0
        /\ \A k \in 1 .. m : symbols[q[k]].next = IF k = m THEN -1 ELSE q[k + 1]
    BY DEF OnPath
  <2> QED
    BY <2>1, <2>2, <2>3, <2>4
<1>3. w \in Seq(T) /\ Len(w) = m /\ \A k \in 1 .. m : w[k] = Str(q[k])
  <2>1. w \in [1 .. m -> T]
    BY <1>2 DEF StringsAlong
  <2>2. \A k \in 1 .. m : w[k] = Str(q[k])
    BY DEF StringsAlong
  <2> HIDE DEF w
  <2> QED
    BY <1>2, <2>1, <2>2
<1> HIDE DEF w, m, T
<1>4. \A k \in 1 .. m : f[q[k]] = <<w[k]>> \o (IF k = m THEN <<>> ELSE f[q[k + 1]])
  BY <1>1, <1>2, <1>3
<1>5. /\ \A k \in 1 .. m : <<w[k]>> \o SubSeq(w, k + 1, m) = SubSeq(w, k, m)
      /\ <<w[m]>> = SubSeq(w, m, m) /\ SubSeq(w, 1, m) = w
  BY <1>2, <1>3, ElementAndRest
<1> DEFINE S == {j \in Nat : j < m => f[q[m - j]] = SubSeq(w, m - j, m)}
<1>6. 0 \in S
  <2>1. f[q[m]] = <<w[m]>>
    <3> DEFINE one == <<w[m]>>
    <3>1. m \in 1 .. m
      BY <1>2
    <3>2. f[q[m]] = one \o <<>>
      BY <1>4, <3>1
    <3>3. w[m] \in T
      BY <1>3, <3>1
    <3>4. one \in Seq(T)
      BY <3>3
    <3> HIDE DEF one
    <3>5. one \o <<>> = one
      BY <3>4, ConcatEmptySeq
    <3> QED
      BY <3>2, <3>5 DEF one
  <2>2. m - 0 = m
    BY <1>2
  <2> QED
    BY <1>5, <2>1, <2>2
<1>7. ASSUME NEW j \in Nat, j \in S
      PROVE  j + 1 \in S
  <2> SUFFICES ASSUME j + 1 < m PROVE f[q[m - (j + 1)]] = SubSeq(w, m - (j + 1), m)
    OBVIOUS
  <2> DEFINE k == m - (j + 1)
  <2>1. k \in 1 .. m /\ k # m /\ k + 1 = m - j /\ j < m
    BY <1>2
  <2> HIDE DEF k
  <2>2. f[q[k]] = <<w[k]>> \o f[q[k + 1]]
    BY <1>4, <2>1
  <2>3. f[q[k + 1]] = SubSeq(w, k + 1, m)
    BY <1>7, <2>1
  <2> QED
    BY <1>5, <2>1, <2>2, <2>3 DEF k
<1>8. Nat \subseteq S
  <2> HIDE DEF S
  <2> QED
    BY <1>6, <1>7, NumbersFromZero
<1>9. f[q[1]] = w
  <2>1. m - 1 \in Nat /\ m - 1 < m /\ m - (m - 1) = 1
    BY <1>2
  <2>2. m - 1 \in S
    <3> HIDE DEF S
    <3> QED
      BY <1>8, <2>1
  <2>3. f[q[m - (m - 1)]] = SubSeq(w, m - (m - 1), m)
    BY <2>1, <2>2
  <2> QED
    BY <1>5, <2>1, <2>3
<1> QED
  BY <1>1, <1>2, <1>9 DEF w

LEMMA PathIsChainNext == (\A q : SpInv /\ s # <<>> /\ OnPath(q) => Chain = StringsAlong(q))'
BY PathIsChain, PTL

\* A sequence with one element in the place of two.
OneForTwo(g, i, x) ==
    [k \in 1 .. (Len(g) - 1) |-> IF k < i THEN g[k] ELSE IF k = i THEN x ELSE g[k + 1]]

LEMMA PairReplaced ==
    ASSUME NEW T, NEW g \in Seq(T), NEW x \in T, NEW i \in 1 .. (Len(g) - 1)
    PROVE  SubSeq(g, 1, i - 1) \o <<x>> \o SubSeq(g, i + 2, Len(g)) = OneForTwo(g, i, x)
PROOF
<1> DEFINE n == Len(g)
           a == SubSeq(g, 1, i - 1)
           b == SubSeq(g, i + 2, n)
           c == a \o <<x>>
           d == c \o b
           h == [k \in 1 .. (n - 1) |-> IF k < i THEN g[k] ELSE IF k = i THEN x ELSE g[k + 1]]
<1>1. n \in Nat /\ i \in Nat /\ 1 <= i /\ i <= n - 1
  OBVIOUS
<1>2. a \in Seq(T) /\ Len(a) = i - 1 /\ \A k \in 1 .. (i - 1) : a[k] = g[k]
  OBVIOUS
<1>3. b \in Seq(T) /\ Len(b) = n - (i + 1) /\ \A k \in 1 .. (n - (i + 1)) : b[k] = g[(i + 1) + k]
  <2>1. b \in Seq(T) /\ Len(b) = n - (i + 1)
    OBVIOUS
  <2>2. ASSUME NEW k \in 1 .. (n - (i + 1)) PROVE b[k] = g[(i + 1) + k]
    <3>1. b[k] = g[(i + 2) + k - 1] /\ (i + 2) + k - 1 = (i + 1) + k
      OBVIOUS
    <3> QED
      BY <3>1
  <2> QED
    BY <2>1, <2>2
<1>4. h \in Seq(T) /\ Len(h) = n - 1
  <2>1. h \in [1 .. (n - 1) -> T] /\ n - 1 \in Nat
    OBVIOUS
  <2> QED
    BY <2>1
<1> HIDE DEF a, b
<1>5. c \in Seq(T) /\ Len(c) = i /\ (\A k \in 1 .. (i - 1) : c[k] = a[k]) /\ c[i] = x
  BY <1>1, <1>2
<1> HIDE DEF c
<1>6. /\ d \in Seq(T) /\ Len(d) = n - 1
      /\ \A k \in 1 .. i : d[k] = c[k]
      /\ \A k \in (i + 1) .. (n - 1) : d[k] = b[k - i]
  <2>1. \A v, u \in Seq(T) :
           /\ v \o u \in Seq(T) /\ Len(v \o u) = Len(v) + Len(u)
           /\ \A k \in 1 .. Len(v) : (v \o u)[k] = v[k]
           /\ \A k \in (Len(v) + 1) .. (Len(v) + Len(u)) : (v \o u)[k] = u[k - Len(v)]
    OBVIOUS
  <2>2. i + (n - (i + 1)) = n - 1
    BY <1>1
  <2>3. /\ d \in Seq(T) /\ Len(d) = Len(c) + Len(b)
        /\ \A k \in 1 .. Len(c) : d[k] = c[k]
        /\ \A k \in (Len(c) + 1) .. (Len(c) + Len(b)) : d[k] = b[k - Len(c)]
    BY <1>3, <1>5, <2>1
  <2>4. Len(c) = i /\ Len(b) = n - (i + 1)
    BY <1>3, <1>5
  <2> HIDE DEF d
  <2> QED
    BY <2>2, <2>3, <2>4
<1> HIDE DEF d
<1>7. ASSUME NEW k \in 1 .. (n - 1) PROVE d[k] = h[k]
  <2>1. CASE k < i
    <3>1. k \in 1 .. i /\ k \in 1 .. (i - 1)
      BY <1>1, <2>1
    <3>2. d[k] = g[k]
      BY <1>2, <1>5, <1>6, <3>1
    <3> QED
      BY <2>1, <3>2
  <2>2. CASE k = i
    BY <1>1, <1>5, <1>6, <2>2
  <2>3. CASE k > i
    <3>1. /\ k \in (i + 1) .. (n - 1) /\ k - i \in 1 .. (n - (i + 1)) /\ (i + 1) + (k - i) = k + 1
          /\ ~(k < i) /\ k # i
      BY <1>1, <2>3
    <3>2. d[k] = g[k + 1]
      BY <1>3, <1>6, <3>1
    <3> QED
      BY <3>1, <3>2
  <2> QED
    BY <1>1, <2>1, <2>2, <2>3
<1> HIDE DEF h
<1>8. d = h
  BY <1>4, <1>6, <1>7, SameSequence
<1> QED
  BY <1>8 DEF a, b, c, d, h, n, OneForTwo

Joins(l) == Substr(s, symbols[l].off, symbols[l].len + symbols[symbols[l].next].len)
PairOf(l) ==
    [left |-> l, right |-> symbols[l].next,
     size |-> symbols[l].len + symbols[symbols[l].next].len, score |-> voc.score[Joins(l)]]

(***************************************************************************)
(* Whatever stale pairs the queue holds, it holds each pair of neighbours  *)
(* that makes a piece, and each pair has the score of its string.          *)
(***************************************************************************)
EveryPairQueued ==
    sp = "merging" => \A l \in Ends(Len(s)) :
        symbols[l].len > 0 /\ symbols[l].next # -1 /\ Joins(l) \in DOMAIN voc.score => PairOf(l) \in work

PairsAreScored ==
    s # <<>> => \A b \in work : b.score = voc.score[Substr(s, symbols[b.left].off, b.size)]

NodesAreOnPath == s # <<>> => \E q : OnPath(q)

QueueInv == SpInv /\ EveryPairQueued /\ PairsAreScored /\ NodesAreOnPath

LEMMA CandidateFound ==
    ASSUME NEW y, NEW str, NEW l, NEW r, Linked(y, l, r),
           Substr(str, y[l].off, y[l].len + y[r].len) \in DOMAIN voc.score
    PROVE  [left |-> l, right |-> r, size |-> y[l].len + y[r].len,
            score |-> voc.score[Substr(str, y[l].off, y[l].len + y[r].len)]]
               \in Candidates(y, str, l, r)
BY DEF Candidates

LEMMA CandidateScored ==
    ASSUME NEW y, NEW str, NEW l, NEW r, NEW b \in Candidates(y, str, l, r)
    PROVE  b.score = voc.score[Substr(str, y[b.left].off, b.size)]
BY DEF Candidates

\* What a path is without the node behind its i-th.
WithoutNext(q, i) == [k \in 1 .. (Len(q) - 1) |-> IF k <= i THEN q[k] ELSE q[k + 1]]

LEMMA PathAfterMerge ==
    ASSUME SpInv, sp = "merging", NEW b \in work, IsCurrent(b), symbols' = JoinNodes(b), s' = s,
           NEW q, OnPath(q), NEW i \in 1 .. Len(q), b.left = q[i]
    PROVE  /\ i \in 1 .. (Len(q) - 1) /\ b.right = q[i + 1]
           /\ OnPath(WithoutNext(q, i))'
PROOF
<1> DEFINE n == Len(s)
           m == Len(q)
           l == b.left
           r == b.right
           t == symbols[r].next
           w == WithoutNext(q, i)
           at(k) == IF k <= i THEN k ELSE k + 1
<1>1. /\ n \in Nat /\ l \in Ends(n) /\ r \in Ends(n)
      /\ symbols[l].len > 0 /\ symbols[r].len > 0 /\ symbols[l].next = r
      /\ \A x \in Ends(n) : symbols[x].len \in Nat
      /\ \A x \in Ends(n) : symbols'[x].len = IF x = l THEN symbols[l].len + symbols[r].len
                                              ELSE IF x = r THEN 0 ELSE symbols[x].len
      /\ \A x \in Ends(n) : symbols'[x].next = IF x = l THEN t ELSE symbols[x].next
  <2>1. ListInv
    BY DEF SpInv
  <2> QED
    BY <2>1, JoinedNodes
<1>2. /\ q \in Seq(Ends(n)) /\ m \in Nat /\ m > 0 /\ q[1] = 0
      /\ \A k \in 1 .. m : /\ q[k] \in Ends(n) /\ symbols[q[k]].len > 0
                           /\ symbols[q[k]].next = IF k = m THEN -1 ELSE q[k + 1]
      /\ \A j, k \in 1 .. m : j < k => q[j] < q[k]
      /\ \A x \in Ends(n) : symbols[x].len > 0 => \E k \in 1 .. m : x = q[k]
  BY DEF OnPath
<1>3. i # m
  <2>1. symbols[q[i]].next = r /\ r # -1
    BY <1>1 DEF Ends
  <2> HIDE DEF r, m
  <2> QED
    BY <1>2, <2>1
<1>4. i \in Nat /\ m \in Nat /\ 1 <= i /\ i < m /\ i + 1 \in 1 .. m /\ i \in 1 .. (m - 1)
  BY <1>2, <1>3
<1>5. l = q[i] /\ r = q[i + 1]
  <2>1. symbols[q[i]].next = q[i + 1]
    BY <1>2, <1>3
  <2> QED
    BY <1>1, <2>1
<1>6. \A k \in 1 .. (m - 1) : /\ at(k) \in 1 .. m /\ at(k) # i + 1 /\ w[k] = q[at(k)]
                              /\ w[k] \in Ends(n)
  <2> SUFFICES ASSUME NEW k \in 1 .. (m - 1)
               PROVE  at(k) \in 1 .. m /\ at(k) # i + 1 /\ w[k] = q[at(k)] /\ w[k] \in Ends(n)
    OBVIOUS
  <2>1. at(k) \in 1 .. m /\ at(k) # i + 1
    BY <1>2, <1>4
  <2>2. w[k] = q[at(k)]
    BY DEF WithoutNext
  <2> HIDE DEF at, w
  <2> QED
    BY <1>2, <2>1, <2>2
<1>7. w \in Seq(Ends(n)) /\ Len(w) = m - 1
  <2>1. DOMAIN w = 1 .. (m - 1) /\ m - 1 \in Nat
    BY <1>2 DEF WithoutNext
  <2>2. w = [k \in 1 .. (m - 1) |-> w[k]]
    BY DEF WithoutNext
  <2> HIDE DEF w, at
  <2>3. w \in [1 .. (m - 1) -> Ends(n)]
    BY <1>6, <2>1, <2>2
  <2> QED
    BY <2>1, <2>3
<1> HIDE DEF n, m, l, r, t, w
<1>8. w[1] = 0 /\ Len(w) > 0
  <2>1. 1 \in 1 .. (m - 1) /\ at(1) = 1
    BY <1>4
  <2> HIDE DEF at
  <2> QED
    BY <1>2, <1>4, <1>6, <1>7, <2>1
<1>9. \A j, k \in 1 .. (m - 1) : j < k => w[j] < w[k]
  <2> SUFFICES ASSUME NEW j \in 1 .. (m - 1), NEW k \in 1 .. (m - 1), j < k PROVE w[j] < w[k]
    OBVIOUS
  <2>1. at(j) < at(k)
    BY <1>4
  <2> HIDE DEF at
  <2> QED
    BY <1>2, <1>6, <2>1
<1>10. \A k \in 1 .. m : k # i + 1 => q[k] # r
  <2> SUFFICES ASSUME NEW k \in 1 .. m, k # i + 1, q[k] = q[i + 1] PROVE FALSE
    BY <1>5
  <2>1. k < i + 1 \/ i + 1 < k
    BY <1>4
  <2>2. q[k] \in Int
    BY <1>2 DEF Ends
  <2> QED
    BY <1>2, <1>4, <2>1, <2>2
<1>11. \A k \in 1 .. m : k # i => q[k] # l
  <2> SUFFICES ASSUME NEW k \in 1 .. m, k # i, q[k] = q[i] PROVE FALSE
    BY <1>5
  <2>1. k < i \/ i < k
    BY <1>4
  <2>2. q[k] \in Int
    BY <1>2 DEF Ends
  <2> QED
    BY <1>2, <1>4, <2>1, <2>2
<1>12. \A k \in 1 .. (m - 1) : symbols'[w[k]].len > 0
  <2> SUFFICES ASSUME NEW k \in 1 .. (m - 1) PROVE symbols'[w[k]].len > 0
    OBVIOUS
  <2>1. w[k] # r /\ w[k] \in Ends(n) /\ symbols[w[k]].len > 0
    <3> HIDE DEF at
    <3> QED
      BY <1>2, <1>6, <1>10
  <2>2. CASE w[k] = l
    <3>1. symbols'[w[k]].len = symbols[l].len + symbols[r].len
      BY <1>1, <2>1, <2>2
    <3>2. symbols[l].len \in Nat /\ symbols[r].len \in Nat
      BY <1>1
    <3> QED
      BY <1>1, <3>1, <3>2
  <2>3. CASE w[k] # l
    <3>1. symbols'[w[k]].len = symbols[w[k]].len
      BY <1>1, <2>1, <2>3
    <3> QED
      BY <2>1, <3>1
  <2> QED
    BY <2>2, <2>3
<1>13. \A k \in 1 .. (m - 1) : symbols'[w[k]].next = IF k = m - 1 THEN -1 ELSE w[k + 1]
  <2> SUFFICES ASSUME NEW k \in 1 .. (m - 1)
               PROVE  symbols'[w[k]].next = IF k = m - 1 THEN -1 ELSE w[k + 1]
    OBVIOUS
  <2>1. k # m - 1 => k + 1 \in 1 .. (m - 1)
    BY <1>2
  <2>2. CASE k < i
    <3>1. /\ at(k) = k /\ at(k + 1) = k + 1 /\ k # m - 1 /\ k \in 1 .. m /\ k # m /\ k # i
      BY <1>4, <2>2
    <3> HIDE DEF at
    <3>2. w[k] = q[k] /\ w[k + 1] = q[k + 1]
      BY <1>6, <2>1, <3>1
    <3>3. symbols[q[k]].next = q[k + 1] /\ q[k] # l /\ q[k] \in Ends(n)
      BY <1>2, <1>11, <3>1
    <3> QED
      BY <1>1, <3>1, <3>2, <3>3
  <2>3. CASE k = i
    <3>1. at(k) = k /\ (k # m - 1 => at(k + 1) = k + 2) /\ (i + 1 = m) = (k = m - 1) /\ i + 1 \in 1 .. m
      BY <1>4, <2>3
    <3> HIDE DEF at
    <3>2. w[k] = l /\ (k # m - 1 => w[k + 1] = q[k + 2])
      BY <1>5, <1>6, <2>1, <2>3, <3>1
    <3>3. t = IF i + 1 = m THEN -1 ELSE q[(i + 1) + 1]
      BY <1>2, <1>4, <1>5 DEF t
    <3>4. symbols'[w[k]].next = t
      BY <1>1, <3>2
    <3>5. (i + 1) + 1 = k + 2
      BY <1>4, <2>3
    <3> QED
      BY <3>1, <3>2, <3>3, <3>4, <3>5
  <2>4. CASE k > i
    <3>1. /\ at(k) = k + 1 /\ at(k + 1) = (k + 1) + 1 /\ k + 1 \in 1 .. m /\ k + 1 # i
          /\ (k + 1 = m) = (k = m - 1)
      BY <1>4, <2>4
    <3> HIDE DEF at
    <3>2. w[k] = q[k + 1] /\ (k # m - 1 => w[k + 1] = q[(k + 1) + 1])
      BY <1>6, <2>1, <3>1
    <3>3. /\ symbols[q[k + 1]].next = IF k + 1 = m THEN -1 ELSE q[(k + 1) + 1]
          /\ q[k + 1] # l /\ q[k + 1] \in Ends(n)
      BY <1>2, <1>11, <3>1
    <3>4. symbols'[w[k]].next = symbols[q[k + 1]].next
      BY <1>1, <3>2, <3>3
    <3> QED
      BY <3>1, <3>2, <3>3, <3>4
  <2>5. k \in Int /\ i \in Int
    BY <1>4
  <2> HIDE DEF at
  <2> QED
    BY <2>2, <2>3, <2>4, <2>5
<1>14. \A x \in Ends(n) : symbols'[x].len > 0 => \E k \in 1 .. (m - 1) : x = w[k]
  <2> SUFFICES ASSUME NEW x \in Ends(n), symbols'[x].len > 0 PROVE \E k \in 1 .. (m - 1) : x = w[k]
    OBVIOUS
  <2>1. x # r /\ symbols[x].len > 0
    <3>1. CASE x = l
      BY <1>1, <1>2, <1>4, <1>5, <1>10, <3>1
    <3>2. CASE x # l
      BY <1>1, <3>2
    <3> QED
      BY <3>1, <3>2
  <2>2. PICK k \in 1 .. m : x = q[k]
    BY <1>2, <2>1
  <2>3. k # i + 1
    BY <1>5, <2>1, <2>2
  <2>4. CASE k <= i
    <3>1. k \in 1 .. (m - 1) /\ at(k) = k
      BY <1>4, <2>4
    <3> HIDE DEF at
    <3> QED
      BY <1>6, <2>2, <3>1
  <2>5. CASE k > i
    <3>1. k - 1 \in 1 .. (m - 1) /\ at(k - 1) = k
      BY <1>4, <2>3, <2>5
    <3> HIDE DEF at
    <3> QED
      BY <1>6, <2>2, <3>1
  <2>6. k \in Int /\ i \in Int
    BY <1>4
  <2> QED
    BY <2>4, <2>5, <2>6
<1>15. OnPath(w)'
  <2>1. Len(s)' = n
    BY DEF n
  <2> HIDE DEF at
  <2> QED
    BY <1>7, <1>8, <1>9, <1>12, <1>13, <1>14, <2>1 DEF OnPath
<1> QED
  BY <1>4, <1>5, <1>15 DEF w, m, l, r

LEMMA QueueInitially == SpInit => QueueInv
PROOF
<1> SUFFICES ASSUME SpInit PROVE QueueInv
  OBVIOUS
<1>1. sp = "idle" /\ s = <<>>
  BY DEF SpInit
<1> QED
  BY <1>1, SpInitially DEF QueueInv, EveryPairQueued, PairsAreScored, NodesAreOnPath

\* The first list is the path of all nodes, and all its pairs are tried.
LEMMA PathAtBegin ==
    ASSUME SpInv, EncodeBegins
    PROVE  /\ Len(s') \in Nat /\ Len(s') > 0
           /\ \E q : q = [k \in 1 .. Len(s') |-> k - 1] /\ OnPath(q)'
PROOF
<1> DEFINE n == Len(s')
<1>0. PICK q : q = [k \in 1 .. n |-> k - 1]
  OBVIOUS
<1>1. n \in Nat /\ n > 0 /\ symbols' = Nodes(n)
  BY PreparedIsText DEF EncodeBegins
<1> HIDE DEF n
<1>2. q \in Seq(Ends(n)) /\ Len(q) = n /\ q[1] = 0
  <2>1. q \in [1 .. n -> Ends(n)]
    BY <1>0, <1>1 DEF Ends
  <2> QED
    BY <1>0, <1>1, <2>1
<1>3. \A k \in 1 .. n : q[k] = k - 1 /\ (k # n => q[k + 1] = k)
  BY <1>0, <1>1
<1>4. ASSUME NEW k \in 1 .. n
      PROVE  symbols'[q[k]].len > 0 /\ symbols'[q[k]].next = IF k = n THEN -1 ELSE q[k + 1]
  <2>1. symbols'[k - 1] = [prev |-> (k - 1) - 1, next |-> IF (k - 1) + 1 < n THEN (k - 1) + 1 ELSE -1,
                           off |-> k - 1, len |-> 1]
    BY <1>1 DEF Nodes
  <2>2. (k - 1) + 1 = k /\ (k < n) = (k # n)
    BY <1>1
  <2> QED
    BY <1>3, <2>1, <2>2
<1>5. \A j, k \in 1 .. n : j < k => q[j] < q[k]
  BY <1>1, <1>3
<1>6. \A i \in Ends(n) : \E k \in 1 .. n : i = q[k]
  <2> SUFFICES ASSUME NEW i \in Ends(n) PROVE \E k \in 1 .. n : i = q[k]
    OBVIOUS
  <2>1. i + 1 \in 1 .. n /\ (i + 1) - 1 = i
    BY <1>1 DEF Ends
  <2> QED
    BY <1>3, <2>1
<1>7. OnPath(q)'
  <2>1. Len(s)' = n
    BY DEF n
  <2>2. /\ q \in Seq(Ends(Len(s)')) /\ Len(q) > 0 /\ q[1] = 0
        /\ \A j, k \in 1 .. Len(q) : j < k => q[j] < q[k]
        /\ \A i \in Ends(Len(s)') : \E k \in 1 .. Len(q) : i = q[k]
    BY <1>1, <1>2, <1>5, <1>6, <2>1
  <2>3. \A k \in 1 .. Len(q) : /\ symbols'[q[k]].len > 0
                                /\ symbols'[q[k]].next = IF k = Len(q) THEN -1 ELSE q[k + 1]
    BY <1>2, <1>4
  <2> QED
    BY <2>2, <2>3 DEF OnPath
<1> QED
  BY <1>0, <1>1, <1>7 DEF n

LEMMA BeginKeepsQueue == QueueInv /\ EncodeBegins => QueueInv'
PROOF
<1> SUFFICES ASSUME QueueInv, EncodeBegins PROVE QueueInv'
  OBVIOUS
<1> DEFINE n == Len(s')
<1>1. SpInv'
  BY BeginKeepsSp DEF QueueInv
<1>2. /\ voc' = voc /\ symbols' = Nodes(n)
      /\ work' = UNION {Candidates(symbols', s', i - 1, i) : i \in 1 .. (n - 1)}
  BY DEF EncodeBegins
<1>3. n \in Nat /\ n > 0 /\ NodesAreOnPath'
  BY PathAtBegin DEF QueueInv, NodesAreOnPath
<1> HIDE DEF n
<1>4. \A i \in Ends(n) : /\ symbols'[i].len = 1 /\ symbols'[i].prev = i - 1
                         /\ symbols'[i].next = IF i + 1 < n THEN i + 1 ELSE -1
  <2> SUFFICES ASSUME NEW i \in Ends(n)
               PROVE  /\ symbols'[i].len = 1 /\ symbols'[i].prev = i - 1
                      /\ symbols'[i].next = IF i + 1 < n THEN i + 1 ELSE -1
    OBVIOUS
  <2>1. symbols'[i] = [prev |-> i - 1, next |-> IF i + 1 < n THEN i + 1 ELSE -1, off |-> i, len |-> 1]
    BY <1>2 DEF Nodes, Ends
  <2> QED
    BY <2>1
<1>5. EveryPairQueued'
  <2> SUFFICES ASSUME NEW l \in Ends(n), symbols'[l].next # -1, Joins(l)' \in DOMAIN voc'.score
               PROVE  PairOf(l)' \in work'
    BY DEF EveryPairQueued, n
  <2> DEFINE r == l + 1
  <2>0. symbols'[l].len = 1 /\ symbols'[l].next = IF r < n THEN r ELSE -1
    BY <1>4
  <2>1. r \in 1 .. (n - 1) /\ r - 1 = l /\ r \in Ends(n) /\ l \in Nat /\ symbols'[l].next = r
    <3>1. l \in Nat /\ r < n
      BY <1>3, <2>0 DEF Ends
    <3> QED
      BY <1>3, <2>0, <3>1 DEF Ends
  <2>2. Linked(symbols', l, r)
    <3>0. symbols'[r].len = 1 /\ symbols'[r].prev = r - 1
      <4> HIDE DEF r
      <4> QED
        BY <1>4, <2>1
    <3>1. symbols'[l].len = 1 /\ symbols'[r].len = 1 /\ symbols'[r].prev = r - 1
      BY <2>0, <3>0
    <3> QED
      BY <1>3, <2>1, <3>1 DEF Linked
  <2> HIDE DEF r
  <2>3. Substr(s', symbols'[l].off, symbols'[l].len + symbols'[r].len) \in DOMAIN voc.score
    BY <1>2, <2>1 DEF Joins
  <2>4. PairOf(l)' \in Candidates(symbols', s', l, r)
    <3>1. PairOf(l)' = [left |-> l, right |-> r, size |-> symbols'[l].len + symbols'[r].len,
                        score |-> voc.score[Substr(s', symbols'[l].off, symbols'[l].len + symbols'[r].len)]]
      BY <1>2, <2>1 DEF PairOf, Joins
    <3> QED
      BY <2>2, <2>3, <3>1, CandidateFound
  <2> QED
    BY <1>2, <2>1, <2>4
<1>6. PairsAreScored'
  <2> SUFFICES ASSUME NEW b \in work' PROVE b.score = voc.score[Substr(s', symbols'[b.left].off, b.size)]
    BY <1>2 DEF PairsAreScored
  <2>1. PICK i \in 1 .. (n - 1) : b \in Candidates(symbols', s', i - 1, i)
    BY <1>2
  <2> QED
    BY <2>1, CandidateScored
<1> QED
  BY <1>1, <1>3, <1>5, <1>6 DEF QueueInv

LEMMA MergeKeepsQueue == QueueInv /\ MergePair => QueueInv'
PROOF
<1> SUFFICES ASSUME QueueInv, MergePair PROVE QueueInv'
  OBVIOUS
<1>0. SpInv /\ SpInv' /\ ListInv /\ ListInv'
  BY MergeKeepsSp DEF QueueInv, SpInv
<1> DEFINE n == Len(s)
<1>1. PICK b \in work :
        /\ IsCurrent(b)
        /\ symbols' = JoinNodes(b)
        /\ work' = (work \ {b})
              \cup Candidates(symbols', s, symbols'[b.left].prev, b.left)
              \cup Candidates(symbols', s, b.left, symbols'[b.left].next)
  BY DEF MergePair
<1> DEFINE l == b.left
           r == b.right
           t == symbols[r].next
<1>2. /\ sp = "merging" /\ sp' = "merging" /\ s' = s /\ voc' = voc
  BY DEF MergePair
<1>3. /\ s # <<>> /\ n \in Nat /\ l \in Ends(n) /\ r \in Ends(n) /\ symbols[l].next = r /\ r # l
      /\ \A i \in Ends(n) : /\ symbols'[i].off = symbols[i].off
                            /\ symbols'[i].len = IF i = l THEN symbols[l].len + symbols[r].len
                                                 ELSE IF i = r THEN 0 ELSE symbols[i].len
                            /\ symbols'[i].next = IF i = l THEN t ELSE symbols[i].next
  BY <1>0, <1>1, <1>2, JoinedNodes
<1>4. \A i \in Ends(n) : symbols'[i].len > 0 /\ symbols'[i].next # -1 =>
         /\ symbols'[i].next \in Ends(n) /\ symbols'[symbols'[i].next].len > 0
         /\ symbols'[symbols'[i].next].prev = i
  <2>1. symbols' \in [Ends(n) -> Node(n)]
    BY <1>0, <1>2, <1>3 DEF ListInv, ListTypeOK
  <2>2. DOMAIN symbols' = Ends(n)
    BY <2>1
  <2> QED
    BY <1>0, <1>2, <1>3, <2>2 DEF ListInv, ListTilesText, Live
<1>5. NodesAreOnPath'
  <2>1. PICK q : OnPath(q)
    BY <1>3 DEF QueueInv, NodesAreOnPath
  <2>2. PICK i \in 1 .. Len(q) : b.left = q[i]
    <3>1. symbols[b.left].len > 0 /\ b.left \in Ends(Len(s))
      BY <1>1, <1>3 DEF IsCurrent, Linked
    <3> QED
      BY <2>1, <3>1 DEF OnPath
  <2>3. OnPath(WithoutNext(q, i))'
    BY <1>0, <1>1, <1>2, <2>1, <2>2, PathAfterMerge
  <2> QED
    BY <2>3 DEF NodesAreOnPath
<1>6. PairsAreScored'
  <2> SUFFICES ASSUME NEW c \in work' PROVE c.score = voc.score[Substr(s, symbols'[c.left].off, c.size)]
    BY <1>2 DEF PairsAreScored
  <2>1. CASE c \in work
    <3>1. c.left \in Ends(n)
      BY <1>0, <1>3, <2>1 DEF ListInv, ListTypeOK
    <3>2. c.score = voc.score[Substr(s, symbols[c.left].off, c.size)]
      BY <1>3, <2>1 DEF QueueInv, PairsAreScored
    <3> QED
      BY <1>3, <3>1, <3>2
  <2>2. CASE c \in Candidates(symbols', s, symbols'[b.left].prev, b.left)
    BY <2>2, CandidateScored
  <2>3. CASE c \in Candidates(symbols', s, b.left, symbols'[b.left].next)
    BY <2>3, CandidateScored
  <2> QED
    BY <1>1, <2>1, <2>2, <2>3
<1>7. EveryPairQueued'
  <2> SUFFICES ASSUME NEW i \in Ends(n), symbols'[i].len > 0, symbols'[i].next # -1,
                      Joins(i)' \in DOMAIN voc.score
               PROVE  PairOf(i)' \in work'
    BY <1>2 DEF EveryPairQueued
  <2> DEFINE j == symbols'[i].next
  <2>1. j \in Ends(n) /\ symbols'[j].len > 0 /\ symbols'[j].prev = i
    BY <1>4
  <2>2. Linked(symbols', i, j)
    BY <1>3, <2>1 DEF Linked, Ends
  <2>3. PairOf(i)' \in Candidates(symbols', s, i, j)
    <3>1. Substr(s, symbols'[i].off, symbols'[i].len + symbols'[j].len) \in DOMAIN voc.score
      BY <1>2 DEF Joins
    <3>2. PairOf(i)' = [left |-> i, right |-> j, size |-> symbols'[i].len + symbols'[j].len,
                        score |-> voc.score[Substr(s, symbols'[i].off, symbols'[i].len + symbols'[j].len)]]
      BY <1>2 DEF PairOf, Joins
    <3> HIDE DEF j
    <3> QED
      BY <2>2, <3>1, <3>2, CandidateFound
  <2>4. CASE i = l
    BY <1>1, <2>3, <2>4
  <2>5. CASE j = l
    BY <1>1, <2>1, <2>3, <2>5
  <2>6. CASE i # l /\ j # l
    <3>1. i # r /\ j # r
      BY <1>3, <2>1, <2>6
    <3>2. /\ symbols'[i].off = symbols[i].off /\ symbols'[i].len = symbols[i].len
          /\ symbols[i].next = j /\ symbols'[j].len = symbols[j].len
      BY <1>3, <2>1, <2>6, <3>1
    <3>3. PairOf(i)' = PairOf(i) /\ Joins(i)' = Joins(i)
      BY <1>2, <3>2 DEF PairOf, Joins
    <3>4. symbols[i].len > 0 /\ symbols[i].next # -1 /\ Joins(i) \in DOMAIN voc.score
      BY <3>2, <3>3
    <3>5. PairOf(i) \in work
      BY <1>2, <3>4 DEF QueueInv, EveryPairQueued
    <3>6. PairOf(i) # b
      BY <2>6 DEF PairOf
    <3> QED
      BY <1>1, <3>3, <3>5, <3>6
  <2> QED
    BY <2>4, <2>5, <2>6
<1> QED
  BY <1>0, <1>5, <1>6, <1>7 DEF QueueInv

\* What is dropped is no pair of neighbours.
LEMMA DropKeepsQueue == QueueInv /\ DropStale => QueueInv'
PROOF
<1> SUFFICES ASSUME QueueInv, DropStale PROVE QueueInv'
  OBVIOUS
<1>0. SpInv'
  BY StepKeepsSp DEF QueueInv, SpNext
<1>1. PICK b \in work : ~IsCurrent(b) /\ work' = work \ {b}
  BY DEF DropStale
<1>2. /\ sp = "merging" /\ sp' = sp /\ s' = s /\ voc' = voc /\ symbols' = symbols
  BY DEF DropStale
<1>3. ListInv /\ s # <<>> /\ symbols \in [Ends(Len(s)) -> Node(Len(s))]
  BY <1>2 DEF QueueInv, SpInv, ListInv, ListTypeOK
<1>4. EveryPairQueued'
  <2> SUFFICES ASSUME NEW l \in Ends(Len(s)), symbols[l].len > 0, symbols[l].next # -1,
                      Joins(l) \in DOMAIN voc.score
               PROVE  PairOf(l) \in work \ {b}
    BY <1>1, <1>2 DEF EveryPairQueued, PairOf, Joins
  <2>1. PairOf(l) \in work
    BY <1>2 DEF QueueInv, EveryPairQueued
  <2>2. IsCurrent(PairOf(l))
    <3> DEFINE r == symbols[l].next
    <3>1. r \in Ends(Len(s)) /\ symbols[r].len > 0 /\ symbols[r].prev = l
      BY <1>2, <1>3 DEF ListInv, ListTilesText, Live
    <3>2. Linked(symbols, l, r)
      BY <3>1 DEF Linked, Ends
    <3>3. PairOf(l).left = l /\ PairOf(l).right = r /\ PairOf(l).size = symbols[l].len + symbols[r].len
      BY DEF PairOf
    <3> HIDE DEF r
    <3> QED
      BY <3>2, <3>3 DEF IsCurrent
  <2> QED
    BY <1>1, <2>1, <2>2
<1>5. PairsAreScored'
  BY <1>1, <1>2, <1>3 DEF QueueInv, PairsAreScored
<1>6. NodesAreOnPath'
  BY <1>2 DEF QueueInv, NodesAreOnPath, OnPath
<1> QED
  BY <1>0, <1>4, <1>5, <1>6 DEF QueueInv

LEMMA StepKeepsQueue == QueueInv /\ [SpNext]_spVars => QueueInv'
PROOF
<1> SUFFICES ASSUME QueueInv, [SpNext]_spVars PROVE QueueInv'
  OBVIOUS
<1>0. SpInv'
  BY StepKeepsSp DEF QueueInv
<1>1. CASE EncodeBegins
  BY <1>1, BeginKeepsQueue
<1>2. CASE MergePair
  BY <1>2, MergeKeepsQueue
<1>3. CASE DropStale
  BY <1>3, DropKeepsQueue
<1>4. CASE EncodeEmpty \/ QueueEmpty \/ EmitTokens \/ SpReturned \/ UNCHANGED spVars
  <2>1. /\ s' = s /\ voc' = voc /\ symbols' = symbols /\ work' = work
        /\ sp' = "merging" => sp = "merging"
    BY <1>4 DEF EncodeEmpty, QueueEmpty, EmitTokens, SpReturned, spVars
  <2>2. EveryPairQueued'
    BY <2>1 DEF QueueInv, EveryPairQueued, PairOf, Joins
  <2>3. PairsAreScored'
    BY <2>1 DEF QueueInv, PairsAreScored
  <2>4. NodesAreOnPath'
    BY <2>1 DEF QueueInv, NodesAreOnPath, OnPath
  <2> QED
    BY <1>0, <2>2, <2>3, <2>4 DEF QueueInv
<1> QED
  BY <1>1, <1>2, <1>3, <1>4 DEF SpNext

LEMMA QueueCorrect == TokSpec => []QueueInv
PROOF
<1>1. TokInit => QueueInv
  BY QueueInitially DEF TokInit
<1>2. [Encode]_tokVars => [SpNext]_spVars
  BY DEF Encode, tokVars
<1>3. QueueInv /\ [SpNext]_spVars => QueueInv'
  BY StepKeepsQueue
<1> QED
  BY <1>1, <1>2, <1>3, PTL DEF TokSpec

\* Two neighbours' strings together are the string over both.
LEMMA NeighboursJoin ==
    ASSUME SpInv, s # <<>>, NEW q, OnPath(q), NEW k \in 1 .. (Len(q) - 1)
    PROVE  Str(q[k]) \o Str(q[k + 1]) = Joins(q[k])
PROOF
<1> DEFINE x == q[k]
           y == q[k + 1]
           lo == symbols[x].off
           mid == symbols[y].off
           hi == mid + symbols[y].len
<1>1. /\ x \in Ends(Len(s)) /\ y \in Ends(Len(s)) /\ symbols[x].next = y
      /\ symbols[x].len > 0 /\ symbols[y].len > 0
  <2>1. k \in 1 .. Len(q) /\ k + 1 \in 1 .. Len(q) /\ k # Len(q)
    BY DEF OnPath
  <2> QED
    BY <2>1 DEF OnPath
<1>2. ListInv /\ sp # "idle" /\ symbols \in [Ends(Len(s)) -> Node(Len(s))] /\ s \in Seq(DOMAIN Bytes)
  BY DEF SpInv, ListInv, ListTypeOK, SpTextOK
<1>3. /\ symbols[x].off \in Nat /\ symbols[x].len \in Nat
      /\ symbols[y].off \in Nat /\ symbols[y].len \in Nat
  BY <1>1, <1>2 DEF Node
<1>4. mid = lo + symbols[x].len
  <2>1. y # -1
    BY <1>1 DEF Ends
  <2>2. DOMAIN symbols = Ends(Len(s))
    BY <1>2
  <2> HIDE DEF x, y
  <2> QED
    BY <1>1, <1>2, <2>1, <2>2 DEF ListInv, ListTilesText, Live
<1>5. hi <= Len(s)
  <2>1. \A i \in Ends(Len(s)) : symbols[i].len > 0 => symbols[i].off + symbols[i].len <= Len(s)
    BY ChainIsText
  <2> HIDE DEF x, y
  <2> QED
    BY <1>1, <2>1
<1>6. /\ Str(x) = SubSeq(s, lo + 1, mid) /\ Str(y) = SubSeq(s, mid + 1, hi)
      /\ Joins(x) = SubSeq(s, lo + 1, hi)
  <2>1. lo + (symbols[x].len + symbols[y].len) = hi
    BY <1>3, <1>4
  <2> HIDE DEF x, y
  <2> QED
    BY <1>1, <1>4, <2>1 DEF Str, Joins, Substr
<1>7. lo \in Nat /\ mid \in Nat /\ hi \in Nat /\ lo <= mid /\ mid <= hi
  <2>1. lo \in Nat /\ mid \in Nat /\ symbols[x].len \in Nat /\ symbols[y].len \in Nat
    BY <1>3
  <2> DEFINE cx == symbols[x].len
             cy == symbols[y].len
  <2>2. cx \in Nat /\ cy \in Nat /\ mid = lo + cx /\ hi = mid + cy
    BY <1>4, <2>1
  <2> HIDE DEF lo, mid, hi, x, y, cx, cy
  <2> QED
    BY <2>1, <2>2
<1> HIDE DEF x, y, lo, mid, hi
<1>8. SubSeq(s, lo + 1, mid) \o SubSeq(s, mid + 1, hi) = SubSeq(s, lo + 1, hi)
  BY <1>2, <1>5, <1>7, SlicesMeet
<1> QED
  BY <1>6, <1>8 DEF x, y

\* Splitting a text into characters.
LEMMA BeginSplits == QueueInv /\ EncodeBegins => Merging!Split
PROOF
<1> SUFFICES ASSUME QueueInv, EncodeBegins PROVE Merging!Split
  OBVIOUS
<1> DEFINE n == Len(s')
<1>1. SpInv'
  BY BeginKeepsSp DEF QueueInv
<1>2. /\ sp = "idle" /\ sp' = "merging" /\ voc' = voc /\ symbols' = Nodes(n)
      /\ text' \in Texts \ {<<>>} /\ s' = Prepared(text', voc.prefix)
  BY DEF EncodeBegins
<1>3. n \in Nat /\ n > 0 /\ s' \in Seq(DOMAIN Bytes)
  BY <1>2, PreparedIsText
<1>4. PICK q : q = [k \in 1 .. n |-> k - 1] /\ OnPath(q)'
  BY PathAtBegin DEF QueueInv
<1>5. Chain' = StringsAlong(q)'
  <2>1. s' # <<>>
    BY <1>3
  <2> QED
    BY <1>1, <1>4, <2>1, PathIsChainNext
<1>6. StringsAlong(q)' = [k \in DOMAIN s' |-> <<s'[k]>>]
  <2>1. Len(q) = n /\ DOMAIN s' = 1 .. n
    BY <1>3, <1>4
  <2>2. ASSUME NEW k \in 1 .. n PROVE Str(q[k])' = <<s'[k]>>
    <3> DEFINE i == k - 1
    <3>1. q[k] = i /\ i \in 0 .. (n - 1) /\ i + 1 = k
      BY <1>3, <1>4
    <3> HIDE DEF i, n
    <3>2. symbols'[i] = [prev |-> i - 1, next |-> IF i + 1 < n THEN i + 1 ELSE -1, off |-> i, len |-> 1]
      BY <1>2, <3>1 DEF Nodes
    <3>3. Str(q[k])' = SubSeq(s', k, k)
      BY <3>1, <3>2 DEF Str, Substr
    <3>4. SubSeq(s', k, k) = <<s'[k]>>
      <4> DEFINE one == SubSeq(s', k, k)
      <4>1. one \in Seq(DOMAIN Bytes) /\ Len(one) = 1 /\ one[1] = s'[k]
        BY <1>3 DEF n
      <4> HIDE DEF one
      <4>2. one = <<one[1]>>
        BY <4>1
      <4> QED
        BY <4>1, <4>2 DEF one
    <3> QED
      BY <3>3, <3>4
  <2> HIDE DEF n
  <2> QED
    BY <2>1, <2>2, Zenon DEF StringsAlong
<1>7. voc.prefix \in BOOLEAN
  BY SentencePieceAssumption DEF QueueInv, SpInv, SpTextOK
<1> QED
  BY <1>2, <1>5, <1>6, <1>7 DEF Merging!Split

\* The strings along the path of a merge.
LEMMA StringsMerge ==
    ASSUME QueueInv, sp = "merging", s # <<>>, NEW b \in work, IsCurrent(b), symbols' = JoinNodes(b),
           s' = s, NEW q, OnPath(q), NEW i \in 1 .. (Len(q) - 1), b.left = q[i], b.right = q[i + 1]
    PROVE  \A k \in 1 .. (Len(q) - 1) :
              Str(WithoutNext(q, i)[k])' = IF k < i THEN Str(q[k])
                                           ELSE IF k = i THEN Joins(q[i]) ELSE Str(q[k + 1])
PROOF
<1> DEFINE m == Len(q)
           l == q[i]
           r == q[i + 1]
<1> SUFFICES ASSUME NEW k \in 1 .. (m - 1)
             PROVE  Str(WithoutNext(q, i)[k])' = IF k < i THEN Str(q[k])
                                                 ELSE IF k = i THEN Joins(q[i]) ELSE Str(q[k + 1])
  OBVIOUS
<1>1. /\ symbols[l].next = r /\ l \in Ends(Len(s))
      /\ \A x \in Ends(Len(s)) :
            /\ symbols'[x].off = symbols[x].off
            /\ symbols'[x].len = IF x = l THEN symbols[l].len + symbols[r].len
                                 ELSE IF x = r THEN 0 ELSE symbols[x].len
  <2>1. ListInv
    BY DEF QueueInv, SpInv
  <2> QED
    BY <2>1, JoinedNodes
<1>2. /\ m \in Nat /\ \A j \in 1 .. m : q[j] \in Ends(Len(s))
      /\ \A j, h \in 1 .. m : j < h => q[j] < q[h]
  BY DEF OnPath
<1>3. i \in Nat /\ 1 <= i /\ i < m /\ i + 1 \in 1 .. m /\ i \in 1 .. m
  BY <1>2
<1>4. \A j \in 1 .. m : q[j] \in Int
  BY <1>2 DEF Ends
<1>5. WithoutNext(q, i)[k] = IF k <= i THEN q[k] ELSE q[k + 1]
  BY DEF WithoutNext
<1> HIDE DEF m
<1>6. ASSUME NEW x \in Ends(Len(s)), x # l, x # r PROVE Str(x)' = Str(x)
  BY <1>1, <1>6 DEF Str
<1>7. CASE k < i
  <2>1. k \in 1 .. m /\ k < i + 1 /\ k <= i
    BY <1>2, <1>3, <1>7
  <2>2. q[k] < l /\ q[k] < r
    BY <1>2, <1>3, <1>7, <2>1
  <2>3. q[k] # l /\ q[k] # r /\ q[k] \in Ends(Len(s))
    BY <1>2, <1>3, <1>4, <2>1, <2>2
  <2>4. Str(q[k])' = Str(q[k])
    BY <1>6, <2>3
  <2> QED
    BY <1>5, <1>7, <2>1, <2>4
<1>8. CASE k = i
  <2>1. WithoutNext(q, i)[k] = l /\ ~(k < i)
    BY <1>3, <1>5, <1>8
  <2>2. Str(l)' = Joins(l)
    BY <1>1 DEF Str, Joins
  <2> QED
    BY <1>8, <2>1, <2>2
<1>9. CASE k > i
  <2>1. k + 1 \in 1 .. m /\ i < k + 1 /\ i + 1 < k + 1 /\ ~(k <= i) /\ ~(k < i) /\ k # i
    BY <1>2, <1>3, <1>9
  <2>2. l < q[k + 1] /\ r < q[k + 1]
    BY <1>2, <1>3, <2>1
  <2>3. q[k + 1] # l /\ q[k + 1] # r /\ q[k + 1] \in Ends(Len(s))
    BY <1>2, <1>3, <1>4, <2>1, <2>2
  <2>4. Str(q[k + 1])' = Str(q[k + 1])
    BY <1>6, <2>3
  <2> QED
    BY <1>5, <2>1, <2>4
<1>10. k \in Int /\ i \in Int
  BY <1>2, <1>3
<1> QED
  BY <1>7, <1>8, <1>9, <1>10

\* A current pair at the top of the queue is the best of the whole text.
LEMMA MergeJoins == QueueInv /\ MergePair => Merging!Join
PROOF
<1> SUFFICES ASSUME QueueInv, MergePair PROVE Merging!Join
  OBVIOUS
<1>1. PICK b \in work : Top(b) /\ IsCurrent(b) /\ symbols' = JoinNodes(b)
  BY DEF MergePair
<1>2. /\ sp = "merging" /\ sp' = "merging" /\ s' = s /\ voc' = voc
      /\ SpInv /\ SpInv' /\ s # <<>>
  <2>1. SpInv /\ SpInv'
    BY MergeKeepsSp DEF QueueInv
  <2>2. sp = "merging" /\ sp' = "merging" /\ s' = s /\ voc' = voc
    BY DEF MergePair
  <2> QED
    BY <2>1, <2>2 DEF SpInv, ListInv, ListTypeOK
<1>3. PICK q : OnPath(q)
  BY <1>2 DEF QueueInv, NodesAreOnPath
<1> DEFINE m == Len(q)
<1>4. /\ q \in Seq(Ends(Len(s))) /\ m \in Nat
      /\ \A k \in 1 .. m : /\ q[k] \in Ends(Len(s)) /\ symbols[q[k]].len > 0
                           /\ symbols[q[k]].next = IF k = m THEN -1 ELSE q[k + 1]
      /\ \A j, k \in 1 .. m : j < k => q[j] < q[k]
  BY <1>3 DEF OnPath
<1>5. PICK i \in 1 .. m : b.left = q[i]
  <2>1. symbols[b.left].len > 0 /\ b.left \in Ends(Len(s))
    BY <1>1, <1>2 DEF IsCurrent, Linked, SpInv, ListInv, ListTypeOK
  <2> QED
    BY <1>3, <2>1 DEF OnPath
<1>6. i \in 1 .. (m - 1) /\ b.right = q[i + 1] /\ OnPath(WithoutNext(q, i))'
  BY <1>1, <1>2, <1>3, <1>5, PathAfterMerge
<1>7. Chain = StringsAlong(q) /\ Chain' = StringsAlong(WithoutNext(q, i))'
  BY <1>2, <1>3, <1>6, PathIsChain, PathIsChainNext
<1> DEFINE T == {Str(x) : x \in Ends(Len(s))} \cup {Joins(q[i])}
<1>8. /\ Chain \in Seq(T) /\ Len(Chain) = m /\ \A k \in 1 .. m : Chain[k] = Str(q[k])
  <2>1. Chain = [k \in 1 .. m |-> Str(q[k])]
    BY <1>7 DEF StringsAlong
  <2>2. Chain \in [1 .. m -> T]
    BY <1>4, <2>1
  <2> HIDE DEF T
  <2> QED
    BY <1>4, <2>1, <2>2
<1>9. \A k \in 1 .. (m - 1) : Chain[k] \o Chain[k + 1] = Joins(q[k])
  <2> SUFFICES ASSUME NEW k \in 1 .. (m - 1) PROVE Chain[k] \o Chain[k + 1] = Joins(q[k])
    OBVIOUS
  <2>1. k \in 1 .. m /\ k + 1 \in 1 .. m
    BY <1>4
  <2>2. Str(q[k]) \o Str(q[k + 1]) = Joins(q[k])
    BY <1>2, <1>3, NeighboursJoin
  <2> QED
    BY <1>8, <2>1, <2>2
<1>10. Joins(q[i]) \in DOMAIN voc.score /\ b.score = voc.score[Joins(q[i])]
  <2>1. Joins(q[i]) = Substr(s, symbols[b.left].off, b.size)
    BY <1>1, <1>5 DEF IsCurrent, Linked, Joins
  <2> QED
    BY <1>2, <2>1 DEF QueueInv, SpInv, PairsArePieces, PairsAreScored
<1>11. ASSUME NEW j \in 1 .. (m - 1), Joins(q[j]) \in DOMAIN voc.score
       PROVE  \/ voc.score[Joins(q[j])] < voc.score[Joins(q[i])]
              \/ voc.score[Joins(q[j])] = voc.score[Joins(q[i])] /\ i <= j
  <2> DEFINE c == PairOf(q[j])
  <2>1. j \in 1 .. m /\ j # m /\ j + 1 \in 1 .. m
    BY <1>4
  <2>2. symbols[q[j]].next # -1
    BY <1>4, <2>1 DEF Ends
  <2>3. c \in work
    BY <1>2, <1>4, <1>11, <2>1, <2>2 DEF QueueInv, EveryPairQueued
  <2>4. c.score = voc.score[Joins(q[j])] /\ c.left = q[j]
    BY DEF PairOf
  <2> HIDE DEF c
  <2>5. c.score < b.score \/ (c.score = b.score /\ b.left <= c.left)
    BY <1>1, <2>3 DEF Top
  <2>6. q[i] <= q[j] => i <= j
    <3> SUFFICES ASSUME q[i] <= q[j], ~(i <= j) PROVE FALSE
      OBVIOUS
    <3>1. q[j] < q[i]
      BY <1>4, <2>1
    <3>2. q[i] \in Int /\ q[j] \in Int
      BY <1>4, <2>1 DEF Ends
    <3> QED
      BY <3>1, <3>2
  <2> QED
    BY <1>5, <1>10, <2>4, <2>5, <2>6
<1>12. Chain' = SubSeq(Chain, 1, i - 1) \o <<Joins(q[i])>> \o SubSeq(Chain, i + 2, Len(Chain))
  <2> DEFINE w == WithoutNext(q, i)
  <2>1. Len(w) = m - 1
    <3>1. DOMAIN w = 1 .. (m - 1) /\ m - 1 \in Nat
      BY <1>4, <1>6 DEF WithoutNext
    <3>2. w \in Seq(Ends(Len(s)'))
      BY <1>6 DEF OnPath
    <3> HIDE DEF w, m
    <3>3. Len(w) \in Nat /\ 1 .. Len(w) = 1 .. (m - 1)
      BY <3>1, <3>2
    <3> QED
      BY <3>1, <3>3
  <2>2. \A k \in 1 .. (m - 1) : Str(w[k])' = IF k < i THEN Str(q[k])
                                            ELSE IF k = i THEN Joins(q[i]) ELSE Str(q[k + 1])
    BY <1>1, <1>2, <1>3, <1>5, <1>6, StringsMerge
  <2>3. Chain' = [k \in 1 .. (m - 1) |-> Str(w[k])']
    BY <1>7, <2>1, Zenon DEF StringsAlong
  <2>4. \A k \in 1 .. (m - 1) : k \in 1 .. m /\ k + 1 \in 1 .. m
    BY <1>4
  <2>5. \A k \in 1 .. (m - 1) : Str(w[k])' = IF k < i THEN Chain[k]
                                            ELSE IF k = i THEN Joins(q[i]) ELSE Chain[k + 1]
    BY <1>8, <2>2, <2>4
  <2>6. Chain' = [k \in 1 .. (m - 1) |-> IF k < i THEN Chain[k]
                                         ELSE IF k = i THEN Joins(q[i]) ELSE Chain[k + 1]]
    BY <2>3, <2>5, Zenon
  <2>7. Joins(q[i]) \in T
    OBVIOUS
  <2> HIDE DEF T, w
  <2>8. SubSeq(Chain, 1, i - 1) \o <<Joins(q[i])>> \o SubSeq(Chain, i + 2, Len(Chain))
           = OneForTwo(Chain, i, Joins(q[i]))
    <3> DEFINE g == Chain
               x == Joins(q[i])
    <3>1. g \in Seq(T) /\ x \in T /\ i \in 1 .. (Len(g) - 1)
      BY <1>6, <1>8, <2>7
    <3> HIDE DEF g, x
    <3>2. SubSeq(g, 1, i - 1) \o <<x>> \o SubSeq(g, i + 2, Len(g)) = OneForTwo(g, i, x)
      BY <3>1, PairReplaced
    <3> QED
      BY <3>2 DEF g, x
  <2> QED
    BY <1>8, <2>6, <2>8, Zenon DEF OneForTwo
<1> HIDE DEF T, m
<1>13. Merging!Best(i) /\ i \in Merging!Pairs /\ Merging!Joined(i) = Joins(q[i])
  <2>1. \A k \in 1 .. (m - 1) : Merging!Joined(k) = Joins(q[k])
    BY <1>9 DEF Merging!Joined
  <2>2. i \in Merging!Pairs
    BY <1>6, <1>8, <1>10, <2>1 DEF Merging!Pairs
  <2>3. ASSUME NEW j \in Merging!Pairs
        PROVE  \/ voc.score[Merging!Joined(j)] < voc.score[Merging!Joined(i)]
               \/ voc.score[Merging!Joined(j)] = voc.score[Merging!Joined(i)] /\ i <= j
    <3>1. j \in 1 .. (m - 1) /\ Merging!Joined(j) \in DOMAIN voc.score
      BY <1>8 DEF Merging!Pairs
    <3> QED
      BY <1>6, <1>11, <2>1, <3>1
  <2> QED
    BY <1>6, <2>1, <2>2, <2>3 DEF Merging!Best
<1> QED
  BY <1>2, <1>12, <1>13 DEF Merging!Join

\* When the queue is empty no two neighbours make a piece.
LEMMA EmptyQueueStops == QueueInv /\ QueueEmpty => Merging!Stop
PROOF
<1> SUFFICES ASSUME QueueInv, QueueEmpty PROVE Merging!Stop
  OBVIOUS
<1>1. /\ sp = "merging" /\ work = {} /\ sp' = "merged" /\ s' = s /\ voc' = voc /\ symbols' = symbols
      /\ SpInv
  BY DEF QueueEmpty, QueueInv
<1>2. s # <<>>
  BY <1>1 DEF SpInv, ListInv, ListTypeOK
<1>3. PICK q : OnPath(q)
  BY <1>2 DEF QueueInv, NodesAreOnPath
<1>4. Chain = StringsAlong(q)
  BY <1>1, <1>2, <1>3, PathIsChain
<1>5. /\ Len(q) \in Nat
      /\ \A k \in 1 .. Len(q) : /\ q[k] \in Ends(Len(s)) /\ symbols[q[k]].len > 0
                                /\ symbols[q[k]].next = IF k = Len(q) THEN -1 ELSE q[k + 1]
  BY <1>3 DEF OnPath
<1>6. Len(Chain) = Len(q) /\ \A k \in 1 .. Len(q) : Chain[k] = Str(q[k])
  <2> DEFINE T == {Str(x) : x \in Ends(Len(s))}
  <2>1. Chain = [k \in 1 .. Len(q) |-> Str(q[k])]
    BY <1>4 DEF StringsAlong
  <2>2. Chain \in [1 .. Len(q) -> T]
    BY <1>5, <2>1
  <2> HIDE DEF T
  <2> QED
    BY <1>5, <2>1, <2>2
<1>7. ASSUME NEW k \in Merging!Pairs PROVE FALSE
  <2>1. k \in 1 .. (Len(q) - 1) /\ Chain[k] \o Chain[k + 1] \in DOMAIN voc.score
    BY <1>6 DEF Merging!Pairs, Merging!Joined
  <2>2. k \in 1 .. Len(q) /\ k + 1 \in 1 .. Len(q) /\ k # Len(q)
    BY <1>5, <2>1
  <2>3. Joins(q[k]) \in DOMAIN voc.score
    <3>1. Str(q[k]) \o Str(q[k + 1]) = Joins(q[k])
      BY <1>1, <1>2, <1>3, <2>1, NeighboursJoin
    <3> QED
      BY <1>6, <2>1, <2>2, <3>1
  <2>4. symbols[q[k]].next # -1
    BY <1>5, <2>2 DEF Ends
  <2> QED
    BY <1>1, <1>5, <2>2, <2>3, <2>4 DEF QueueInv, EveryPairQueued
<1>8. Chain' = Chain
  BY <1>1 DEF Chain
<1> QED
  BY <1>1, <1>2, <1>7, <1>8 DEF Merging!Stop

LEMMA MergeStepRefines ==
    QueueInv /\ [SpNext]_spVars
        => [Merging!Split \/ Merging!Join \/ Merging!Stop]_(Merging!mergeVars)
PROOF
<1> SUFFICES ASSUME QueueInv, [SpNext]_spVars
             PROVE  [Merging!Split \/ Merging!Join \/ Merging!Stop]_(Merging!mergeVars)
  OBVIOUS
<1>1. CASE EncodeBegins
  BY <1>1, BeginSplits
<1>2. CASE MergePair
  BY <1>2, MergeJoins
<1>3. CASE QueueEmpty
  BY <1>3, EmptyQueueStops
<1>4. CASE EncodeEmpty \/ DropStale \/ EmitTokens \/ SpReturned \/ UNCHANGED spVars
  <2>1. s' = s /\ voc' = voc /\ symbols' = symbols
    BY <1>4 DEF EncodeEmpty, DropStale, EmitTokens, SpReturned, spVars
  <2>2. Chain' = Chain
    BY <2>1 DEF Chain
  <2>3. \/ sp' = sp
        \/ sp = "idle" /\ sp' = "done" /\ s = <<>>
        \/ sp = "merged" /\ sp' \in {"done", "threw"}
    BY <1>4 DEF EncodeEmpty, DropStale, EmitTokens, SpReturned, spVars, QueueInv, SpInv, ListInv, ListTypeOK
  <2> QED
    BY <2>1, <2>2, <2>3 DEF Merging!mergeVars
<1> QED
  BY <1>1, <1>2, <1>3, <1>4 DEF SpNext

(***************************************************************************)
(* For every text and vocabulary the list and the queue of                 *)
(* encode_sentencepiece implement BestMerge: each merge is of the pair     *)
(* with the best score in the whole text, the first of several, and none   *)
(* is left when it stops.  What makes it true is EveryPairQueued.          *)
(***************************************************************************)
THEOREM MergingCorrect == TokSpec => ImplementsBestMerge
PROOF
<1>1. TokInit => Merging!MergeInit
  BY DEF TokInit, SpInit, Merging!MergeInit, Chain
<1>2. [Encode]_tokVars => [SpNext]_spVars
  BY DEF Encode, tokVars
<1>3. QueueInv /\ [SpNext]_spVars => [Merging!Split \/ Merging!Join \/ Merging!Stop]_(Merging!mergeVars)
  BY MergeStepRefines
<1> QED
  BY <1>1, <1>2, <1>3, QueueCorrect, PTL DEF TokSpec, ImplementsBestMerge, Merging!MergeSpec

-----------------------------------------------------------------------------
(***************************************************************************)
(* The order of the merge table.  MergeAll by the function it is defined   *)
(* with, from right to left.                                               *)
(***************************************************************************)
ScanAt(f, w, pair, i) ==
    IF i > Len(w) THEN <<>>
    ELSE IF i < Len(w) /\ <<w[i], w[i + 1]>> = pair
    THEN <<Concat(pair)>> \o f[i + 2]
    ELSE <<w[i]>> \o f[i + 1]

Scans(f, w, pair) == f = [i \in 1 .. (Len(w) + 1) |-> ScanAt(f, w, pair, i)]

LEMMA MergeAllUnfolds ==
    ASSUME NEW w, NEW pair, Len(w) \in Nat
    PROVE  \E f : Scans(f, w, pair) /\ MergeAll(w, pair) = f[1]
PROOF
<1> DEFINE n == Len(w)
           F(g, lo) == [i \in lo .. (n + 1) |-> ScanAt(g, w, pair, i)]
           S == {d \in Nat : d <= n => \E g : g = F(g, n + 1 - d)}
<1>1. 0 \in S
  <2> DEFINE g == [i \in (n + 1) .. (n + 1) |-> <<>>]
  <2>1. \A i \in (n + 1) .. (n + 1) : ScanAt(g, w, pair, i) = <<>>
    BY DEF ScanAt
  <2>2. g = F(g, n + 1)
    BY <2>1
  <2>3. n + 1 - 0 = n + 1
    OBVIOUS
  <2> HIDE DEF F, g
  <2> QED
    BY <2>2, <2>3
<1>2. ASSUME NEW d \in Nat, d \in S
      PROVE  d + 1 \in S
  <2> SUFFICES ASSUME d + 1 <= n PROVE \E g : g = F(g, n + 1 - (d + 1))
    OBVIOUS
  <2> DEFINE lo == n - d
  <2>1. lo \in Nat /\ 1 <= lo /\ lo <= n /\ n + 1 - (d + 1) = lo /\ n + 1 - d = lo + 1 /\ d <= n
    OBVIOUS
  <2> HIDE DEF lo
  <2>2. PICK g : g = F(g, lo + 1)
    BY <1>2, <2>1
  <2> DEFINE h == [i \in lo .. (n + 1) |-> IF i = lo THEN ScanAt(g, w, pair, lo) ELSE g[i]]
  <2>3. \A i \in (lo + 1) .. (n + 1) : h[i] = g[i] /\ i \in lo .. (n + 1) /\ i # lo
    BY <2>1
  <2>4. ASSUME NEW i \in lo .. (n + 1)
        PROVE  h[i] = ScanAt(h, w, pair, i)
    <3>1. h[i] = ScanAt(g, w, pair, i)
      <4>1. CASE i = lo
        BY <4>1
      <4>2. CASE i # lo
        <5>1. i \in (lo + 1) .. (n + 1)
          BY <2>1, <4>2
        <5> HIDE DEF h
        <5> QED
          BY <2>2, <2>3, <5>1
      <4> QED
        BY <4>1, <4>2
    <3>2. /\ i <= n => i + 1 \in (lo + 1) .. (n + 1)
          /\ i < n => i + 2 \in (lo + 1) .. (n + 1)
      BY <2>1
    <3>3. /\ i <= n => h[i + 1] = g[i + 1]
          /\ i < n => h[i + 2] = g[i + 2]
      <4> HIDE DEF h
      <4> QED
        BY <2>3, <3>2
    <3>4. ~(i > n) => i <= n
      BY <2>1
    <3>5. ScanAt(h, w, pair, i) = ScanAt(g, w, pair, i)
      <4> HIDE DEF h
      <4> QED
        BY <3>3, <3>4 DEF ScanAt
    <3> QED
      BY <3>1, <3>5
  <2>5. h = F(h, lo)
    BY <2>4
  <2> HIDE DEF F, h
  <2> QED
    BY <2>1, <2>5
<1>3. n \in S
  <2> HIDE DEF S
  <2> QED
    BY <1>1, <1>2, NumbersFromZero
<1>4. \E g : g = F(g, 1)
  <2>1. n + 1 - n = 1
    OBVIOUS
  <2> HIDE DEF F
  <2> QED
    BY <1>3, <2>1
<1> DEFINE u == CHOOSE g : g = F(g, 1)
<1>5. u = F(u, 1)
  <2> HIDE DEF F
  <2> QED
    BY <1>4, Zenon
<1>6. MergeAll(w, pair) = u[1]
  BY DEF MergeAll, ScanAt
<1> QED
  BY <1>5, <1>6 DEF Scans

\* Its values, one after the other.
Steps(f, w, pair, n) ==
    /\ f[n + 1] = <<>>
    /\ \A i \in 1 .. n : f[i] = IF i < n /\ <<w[i], w[i + 1]>> = pair
                                 THEN <<Concat(pair)>> \o f[i + 2] ELSE <<w[i]>> \o f[i + 1]

LEMMA ScanStep ==
    ASSUME NEW w, NEW pair, NEW f, NEW n \in Nat, Len(w) = n, Scans(f, w, pair)
    PROVE  Steps(f, w, pair, n)
PROOF
<1>1. ASSUME NEW i \in 1 .. (n + 1) PROVE f[i] = ScanAt(f, w, pair, i)
  BY DEF Scans
<1>2. n + 1 \in 1 .. (n + 1) /\ n + 1 > n
  OBVIOUS
<1>3. f[n + 1] = <<>>
  BY <1>1, <1>2 DEF ScanAt
<1>4. \A i \in 1 .. n : i \in 1 .. (n + 1) /\ ~(i > n)
  OBVIOUS
<1> QED
  BY <1>1, <1>3, <1>4 DEF ScanAt, Steps

\* A word without the pair stays.
LEMMA NothingMerges ==
    ASSUME NEW T, NEW w \in Seq(T), NEW pair,
           \A i \in 1 .. (Len(w) - 1) : <<w[i], w[i + 1]>> # pair
    PROVE  MergeAll(w, pair) = w
PROOF
<1> DEFINE n == Len(w)
<1>1. n \in Nat
  OBVIOUS
<1>2. PICK f : Scans(f, w, pair) /\ MergeAll(w, pair) = f[1]
  BY <1>1, MergeAllUnfolds
<1>a. /\ f[n + 1] = <<>>
      /\ \A i \in 1 .. n : f[i] = IF i < n /\ <<w[i], w[i + 1]>> = pair
                                   THEN <<Concat(pair)>> \o f[i + 2] ELSE <<w[i]>> \o f[i + 1]
  <2>1. Steps(f, w, pair, n)
    BY <1>1, <1>2, ScanStep
  <2> QED
    BY <2>1 DEF Steps
<1> DEFINE S == {d \in Nat : d <= n => f[n + 1 - d] = SubSeq(w, n + 1 - d, n)}
<1>3. 0 \in S
  <2>1. f[n + 1] = <<>>
    BY <1>a
  <2>2. SubSeq(w, n + 1, n) = <<>> /\ n + 1 - 0 = n + 1
    OBVIOUS
  <2> QED
    BY <2>1, <2>2
<1>4. ASSUME NEW d \in Nat, d \in S
      PROVE  d + 1 \in S
  <2> DEFINE i == n - d
  <2> SUFFICES ASSUME d + 1 <= n PROVE f[i] = SubSeq(w, i, n)
    <3>1. n + 1 - (d + 1) = n - d
      BY <1>1
    <3> QED
      BY <3>1
  <2>1. i \in 1 .. n /\ i \in 1 .. (n + 1) /\ n + 1 - d = i + 1 /\ i <= n /\ (i < n => i \in 1 .. (n - 1))
    BY <1>1
  <2>2. f[i + 1] = SubSeq(w, i + 1, n)
    BY <1>4, <2>1
  <2> HIDE DEF i
  <2>3. f[i] = <<w[i]>> \o f[i + 1]
    BY <1>1, <1>a, <2>1
  <2>4. <<w[i]>> \o SubSeq(w, i + 1, n) = SubSeq(w, i, n)
    BY <2>1, ElementAndRest
  <2> QED
    BY <2>2, <2>3, <2>4
<1>5. n \in S
  <2> HIDE DEF S
  <2> QED
    BY <1>1, <1>3, <1>4, NumbersFromZero
<1>6. f[1] = SubSeq(w, 1, n)
  <2>1. n + 1 - n = 1
    BY <1>1
  <2> QED
    BY <1>5, <2>1
<1>7. SubSeq(w, 1, n) = w
  OBVIOUS
<1> QED
  BY <1>2, <1>6, <1>7

\* Merging the first occurrence beforehand changes nothing.
LEMMA FirstMerges ==
    ASSUME NEW T, NEW w \in Seq(T), NEW pair, NEW z \in T, z = Concat(pair),
           NEW i \in 1 .. (Len(w) - 1), <<w[i], w[i + 1]>> = pair, z # w[i], z # w[i + 1],
           \A j \in 1 .. (i - 1) : <<w[j], w[j + 1]>> # pair
    PROVE  MergeAll(OneForTwo(w, i, z), pair) = MergeAll(w, pair)
PROOF
<1> DEFINE n == Len(w)
           v == OneForTwo(w, i, z)
<1>1. n \in Nat /\ i \in Nat /\ 1 <= i /\ i <= n - 1
  OBVIOUS
<1>2. /\ Len(v) = n - 1 /\ n - 1 \in Nat
      /\ \A j \in 1 .. (n - 1) : v[j] = IF j < i THEN w[j] ELSE IF j = i THEN z ELSE w[j + 1]
  <2>1. DOMAIN v = 1 .. (n - 1) /\ n - 1 \in Nat
    BY <1>1 DEF OneForTwo
  <2>2. v \in Seq({v[j] : j \in 1 .. (n - 1)})
    <3>1. v = [j \in 1 .. (n - 1) |-> v[j]]
      BY <2>1 DEF OneForTwo
    <3> DEFINE R == {v[j] : j \in 1 .. (n - 1)}
               m == n - 1
    <3> HIDE DEF v
    <3>2. v \in [1 .. m -> R] /\ m \in Nat
      BY <2>1, <3>1
    <3> HIDE DEF R, m
    <3>3. v \in Seq(R)
      BY <3>2
    <3> QED
      BY <3>3 DEF R
  <2>3. Len(v) = n - 1
    <3> HIDE DEF v
    <3> QED
      BY <2>1, <2>2
  <2> QED
    BY <2>1, <2>3 DEF OneForTwo
<1>3. PICK f : Scans(f, w, pair) /\ MergeAll(w, pair) = f[1]
  BY <1>1, MergeAllUnfolds
<1>4. PICK g : Scans(g, v, pair) /\ MergeAll(v, pair) = g[1]
  <2> HIDE DEF v
  <2> QED
    BY <1>2, MergeAllUnfolds
<1>5. pair = <<w[i], w[i + 1]>> /\ \A x : <<z, x>> # pair /\ <<x, z>> # pair
  OBVIOUS
<1> HIDE DEF v, n
<1>f. /\ f[n + 1] = <<>>
      /\ \A j \in 1 .. n : f[j] = IF j < n /\ <<w[j], w[j + 1]>> = pair
                                   THEN <<Concat(pair)>> \o f[j + 2] ELSE <<w[j]>> \o f[j + 1]
  <2>1. Len(w) = n
    BY DEF n
  <2>2. Steps(f, w, pair, n)
    BY <1>1, <1>3, <2>1, ScanStep
  <2> QED
    BY <2>2 DEF Steps
<1>g. /\ g[n] = <<>>
      /\ \A j \in 1 .. (n - 1) : g[j] = IF j < n - 1 /\ <<v[j], v[j + 1]>> = pair
                                         THEN <<Concat(pair)>> \o g[j + 2] ELSE <<v[j]>> \o g[j + 1]
  <2> DEFINE m == n - 1
  <2>1. m + 1 = n /\ m \in Nat /\ Len(v) = m
    BY <1>1, <1>2
  <2> HIDE DEF m
  <2>2. /\ g[m + 1] = <<>>
        /\ \A j \in 1 .. m : g[j] = IF j < m /\ <<v[j], v[j + 1]>> = pair
                                     THEN <<Concat(pair)>> \o g[j + 2] ELSE <<v[j]>> \o g[j + 1]
    <3>1. Steps(g, v, pair, m)
      BY <1>4, <2>1, ScanStep
    <3> QED
      BY <3>1 DEF Steps
  <2>3. g[n] = <<>>
    BY <2>1, <2>2
  <2> QED
    BY <2>2, <2>3 DEF m
<1>6. \A j \in (i + 1) .. n : g[j] = f[j + 1]
  <2> DEFINE S == {d \in Nat : \A e \in 0 .. d : e < n - i => g[n - e] = f[n - e + 1]}
  <2>1. 0 \in S
    <3>1. g[n] = <<>> /\ f[n + 1] = <<>>
      BY <1>1, <1>f, <1>g
    <3>2. \A e \in 0 .. 0 : n - e = n
      BY <1>1
    <3> QED
      BY <3>1, <3>2
  <2>2. ASSUME NEW d \in Nat, d \in S
        PROVE  d + 1 \in S
    <3> DEFINE j == n - (d + 1)
    <3> SUFFICES ASSUME d + 1 < n - i PROVE g[j] = f[j + 1]
      <4>1. \A e \in 0 .. (d + 1) : e \in 0 .. d \/ e = d + 1
        OBVIOUS
      <4> QED
        BY <2>2, <4>1
    <3>1. /\ j \in Nat /\ i + 1 <= j /\ j <= n - 1 /\ j + 1 = n - d /\ d \in 0 .. d /\ d < n - i
          /\ j < n - 1 => d - 1 \in 0 .. d /\ d - 1 < n - i /\ j + 2 = n - (d - 1)
      BY <1>1
    <3>2. g[j + 1] = f[j + 2]
      <4>1. g[n - d] = f[n - d + 1]
        BY <2>2, <3>1
      <4>2. (j + 1) + 1 = j + 2
        BY <3>1
      <4> QED
        BY <3>1, <4>1, <4>2
    <3>3. j < n - 1 => g[j + 2] = f[j + 3]
      <4> SUFFICES ASSUME j < n - 1 PROVE g[j + 2] = f[j + 3]
        OBVIOUS
      <4>1. g[n - (d - 1)] = f[n - (d - 1) + 1]
        BY <2>2, <3>1
      <4>2. (j + 2) + 1 = j + 3
        BY <3>1
      <4> QED
        BY <3>1, <4>1, <4>2
    <3> HIDE DEF j
    <3>4. v[j] = w[j + 1] /\ (j < n - 1 => v[j + 1] = w[j + 2])
      <4>1. /\ j \in 1 .. (n - 1) /\ ~(j < i) /\ j # i
            /\ j < n - 1 => j + 1 \in 1 .. (n - 1) /\ ~(j + 1 < i) /\ j + 1 # i /\ (j + 1) + 1 = j + 2
        BY <1>1, <3>1
      <4> QED
        BY <1>2, <4>1
    <3>5. g[j] = IF j < n - 1 /\ <<v[j], v[j + 1]>> = pair
                 THEN <<Concat(pair)>> \o g[j + 2] ELSE <<v[j]>> \o g[j + 1]
      <4>1. j \in 1 .. (n - 1)
        BY <1>1, <3>1
      <4> QED
        BY <1>g, <3>1, <4>1
    <3>6. f[j + 1] = IF j < n - 1 /\ <<w[j + 1], w[j + 2]>> = pair
                     THEN <<Concat(pair)>> \o f[j + 3] ELSE <<w[j + 1]>> \o f[j + 2]
      <4>1. /\ j + 1 \in 1 .. n /\ (j + 1 < n <=> j < n - 1)
            /\ (j + 1) + 1 = j + 2 /\ (j + 1) + 2 = j + 3
        BY <1>1, <3>1
      <4> QED
        BY <1>f, <4>1
    <3> QED
      BY <3>2, <3>3, <3>4, <3>5, <3>6
  <2>3. Nat \subseteq S
    <3> HIDE DEF S
    <3> QED
      BY <2>1, <2>2, NumbersFromZero
  <2> TAKE j \in (i + 1) .. n
  <2>4. n - j \in Nat /\ n - j \in 0 .. (n - j) /\ n - j < n - i /\ n - (n - j) = j
    BY <1>1
  <2>5. n - j \in S
    BY <2>3, <2>4
  <2> QED
    BY <2>4, <2>5
<1>7. g[i] = f[i]
  <2>1. f[i] = <<z>> \o f[i + 2]
    <3>1. i \in 1 .. n /\ i < n
      BY <1>1
    <3> QED
      BY <1>f, <3>1
  <2>2. g[i] = <<z>> \o g[i + 1]
    <3>1. i \in 1 .. (n - 1) /\ ~(i < i)
      BY <1>1
    <3>2. v[i] = z
      BY <1>2, <3>1
    <3> QED
      BY <1>5, <1>g, <3>1, <3>2
  <2>3. g[i + 1] = f[i + 2]
    <3>1. i + 1 \in (i + 1) .. n /\ (i + 1) + 1 = i + 2
      BY <1>1
    <3> QED
      BY <1>6, <3>1
  <2> QED
    BY <2>1, <2>2, <2>3
<1>8. g[1] = f[1]
  <2> DEFINE S == {d \in Nat : d < i => g[i - d] = f[i - d]}
  <2>1. 0 \in S
    BY <1>1, <1>7
  <2>2. ASSUME NEW d \in Nat, d \in S
        PROVE  d + 1 \in S
    <3> DEFINE j == i - (d + 1)
    <3> SUFFICES ASSUME d + 1 < i PROVE g[j] = f[j]
      OBVIOUS
    <3>1. j \in 1 .. (i - 1) /\ j + 1 = i - d /\ j < i /\ d < i /\ j + 1 <= i
      BY <1>1
    <3>2. g[j + 1] = f[j + 1]
      BY <2>2, <3>1
    <3> HIDE DEF j
    <3>3. f[j] = <<w[j]>> \o f[j + 1]
      <4>1. j \in 1 .. n
        BY <1>1, <3>1
      <4> QED
        BY <1>f, <3>1, <4>1
    <3>4. v[j] = w[j] /\ v[j + 1] = IF j + 1 = i THEN z ELSE w[j + 1]
      <4>1. /\ j \in 1 .. (n - 1) /\ j + 1 \in 1 .. (n - 1) /\ (j + 1 = i \/ j + 1 < i)
            /\ (j + 1 < i => j + 1 # i)
        BY <1>1, <3>1
      <4> QED
        BY <1>2, <3>1, <4>1
    <3>5. <<v[j], v[j + 1]>> # pair
      BY <1>5, <3>1, <3>4
    <3>6. g[j] = <<v[j]>> \o g[j + 1]
      <4>1. j \in 1 .. (n - 1)
        BY <1>1, <3>1
      <4> QED
        BY <1>g, <3>5, <4>1
    <3> QED
      BY <3>2, <3>3, <3>4, <3>6
  <2>3. i - 1 \in S
    <3>1. i - 1 \in Nat
      BY <1>1
    <3> HIDE DEF S
    <3> QED
      BY <2>1, <2>2, <3>1, NumbersFromZero
  <2>4. i - (i - 1) = 1 /\ i - 1 < i
    BY <1>1
  <2> QED
    BY <2>3, <2>4
<1> QED
  BY <1>3, <1>4, <1>8 DEF v

-----------------------------------------------------------------------------
(***************************************************************************)
(* The rows of the table: what InTableOrder has made of a word after each  *)
(* entry.  The word being merged is at a row when that entry, applied to   *)
(* all of it, gives the row; and nothing before the entry applies to it.   *)
(***************************************************************************)
Rows(table, w) ==
    CHOOSE h : h = [k \in 0 .. Len(table) |->
                       IF k = 0 THEN w ELSE MergeAll(h[k - 1], table[k])]

MergesTo(k) ==
    IF k = 0 THEN syms = Rows(bpe.merges, Atoms(syms))[0]
             ELSE MergeAll(syms, bpe.merges[k]) = Rows(bpe.merges, Atoms(syms))[k]

NoneBelow(k) == \A i \in Ranked : k <= RankAt(i)

TableInv ==
    gp = "merge" =>
        /\ \A i \in DOMAIN syms : syms[i] # <<>>
        /\ Trained => \E k \in 0 .. Len(bpe.merges) : MergesTo(k) /\ NoneBelow(k)

LEMMA RowsUnfold ==
    ASSUME NEW w, Len(bpe.merges) \in Nat
    PROVE  /\ Rows(bpe.merges, w) = [k \in 0 .. Len(bpe.merges) |->
                            IF k = 0 THEN w ELSE MergeAll(Rows(bpe.merges, w)[k - 1], bpe.merges[k])]
           /\ InTableOrder(w) = Rows(bpe.merges, w)[Len(bpe.merges)]
PROOF
<1> DEFINE N == Len(bpe.merges)
           F(g, n) == [k \in 0 .. n |-> IF k = 0 THEN w ELSE MergeAll(g[k - 1], bpe.merges[k])]
           S == {n \in Nat : \E g : g = F(g, n)}
<1>1. 0 \in S
  <2> DEFINE g == [k \in 0 .. 0 |-> w]
  <2>1. g = F(g, 0)
    OBVIOUS
  <2> QED
    BY <2>1
<1>2. ASSUME NEW n \in Nat, n \in S
      PROVE  n + 1 \in S
  <2>1. PICK g : g = F(g, n)
    BY <1>2
  <2> DEFINE h == [k \in 0 .. (n + 1) |-> IF k = n + 1 THEN MergeAll(g[n], bpe.merges[n + 1]) ELSE g[k]]
  <2>2. ASSUME NEW k \in 0 .. (n + 1)
        PROVE  h[k] = IF k = 0 THEN w ELSE MergeAll(h[k - 1], bpe.merges[k])
    <3>1. CASE k = n + 1
      <4>1. k # 0 /\ k - 1 = n /\ n \in 0 .. (n + 1) /\ n # n + 1
        BY <3>1
      <4>2. h[k] = MergeAll(g[n], bpe.merges[n + 1]) /\ h[n] = g[n]
        BY <3>1, <4>1
      <4> QED
        BY <3>1, <4>1, <4>2
    <3>2. CASE k # n + 1 /\ k # 0
      <4>1. k \in 0 .. n /\ k - 1 \in 0 .. (n + 1) /\ k - 1 # n + 1
        BY <3>2
      <4>2. h[k] = g[k] /\ h[k - 1] = g[k - 1]
        BY <3>2, <4>1
      <4>3. g[k] = MergeAll(g[k - 1], bpe.merges[k])
        BY <2>1, <3>2, <4>1
      <4> QED
        BY <3>2, <4>2, <4>3
    <3>3. CASE k = 0
      <4>1. g[0] = w /\ h[0] = g[0]
        BY <2>1
      <4> QED
        BY <3>3, <4>1
    <3> QED
      BY <3>1, <3>2, <3>3
  <2>3. h = F(h, n + 1)
    BY <2>2
  <2> HIDE DEF F, h
  <2> QED
    BY <2>3
<1>3. N \in S
  <2> HIDE DEF S
  <2> QED
    BY <1>1, <1>2, NumbersFromZero
<1>4. \E g : g = F(g, N)
  BY <1>3
<1> DEFINE u == CHOOSE g : g = F(g, N)
<1>5. u = F(u, N)
  <2> HIDE DEF F
  <2> QED
    BY <1>4, Zenon
<1>6. u = Rows(bpe.merges, w)
  BY DEF Rows
<1>7. InTableOrder(w) = u[N]
  BY DEF InTableOrder
<1> QED
  BY <1>5, <1>6, <1>7

LEMMA RowAfter ==
    ASSUME NEW w, Len(bpe.merges) \in Nat
    PROVE  /\ Rows(bpe.merges, w)[0] = w
           /\ \A k \in 1 .. Len(bpe.merges) : Rows(bpe.merges, w)[k] = MergeAll(Rows(bpe.merges, w)[k - 1], bpe.merges[k])
           /\ InTableOrder(w) = Rows(bpe.merges, w)[Len(bpe.merges)]
PROOF
<1> DEFINE h == Rows(bpe.merges, w)
<1>1. /\ h = [k \in 0 .. Len(bpe.merges) |-> IF k = 0 THEN w ELSE MergeAll(h[k - 1], bpe.merges[k])]
      /\ InTableOrder(w) = h[Len(bpe.merges)]
  BY RowsUnfold
<1> HIDE DEF h
<1>2. h[0] = w
  BY <1>1
<1>3. \A k \in 1 .. Len(bpe.merges) : h[k] = MergeAll(h[k - 1], bpe.merges[k])
  BY <1>1
<1> QED
  BY <1>1, <1>2, <1>3 DEF h

-----------------------------------------------------------------------------
(***************************************************************************)
(* Of a trained table, a pair has one place, and the pair of a place makes *)
(* a token that only later entries take as a part.                         *)
(***************************************************************************)
LEMMA TableIsSequence ==
    ASSUME bpe \in Bpes
    PROVE  Len(bpe.merges) \in Nat /\ DOMAIN bpe.merges = 1 .. Len(bpe.merges)
BY BpeAssumption

LEMMA RankIsPlace ==
    ASSUME bpe \in Bpes, Trained, NEW l, NEW r
    PROVE  /\ \A k \in 1 .. Len(bpe.merges) :
                 bpe.merges[k] = <<l, r>> => Places(l, r) # {} /\ Rank(l, r) = k
           /\ Places(l, r) # {} => /\ Rank(l, r) \in 1 .. Len(bpe.merges)
                                   /\ bpe.merges[Rank(l, r)] = <<l, r>>
PROOF
<1>1. Len(bpe.merges) \in Nat /\ DOMAIN bpe.merges = 1 .. Len(bpe.merges)
  BY TableIsSequence
<1>2. ASSUME NEW k \in 1 .. Len(bpe.merges), bpe.merges[k] = <<l, r>>
      PROVE  Places(l, r) = {k} /\ Rank(l, r) = k
  <2>1. \A j \in DOMAIN bpe.merges : bpe.merges[j] = bpe.merges[k] => j = k
    <3>1. \A j \in DOMAIN bpe.merges : Concat(bpe.merges[j]) = Concat(bpe.merges[k]) => j = k
      BY <1>1 DEF Trained
    <3> QED
      BY <3>1
  <2>2. Places(l, r) = {k}
    BY <1>1, <1>2, <2>1 DEF Places
  <2>3. k <= k
    OBVIOUS
  <2> QED
    BY <2>2, <2>3 DEF Rank
<1>3. Places(l, r) # {} => \E k \in 1 .. Len(bpe.merges) : bpe.merges[k] = <<l, r>>
  BY <1>1 DEF Places
<1> QED
  BY <1>2, <1>3

LEMMA PartsAreEarlier ==
    ASSUME bpe \in Bpes, Trained, NEW q \in 1 .. Len(bpe.merges), NEW m \in 1 .. Len(bpe.merges),
           NEW x \in 1 .. 2, bpe.merges[q][x] = Concat(bpe.merges[m]), Len(Concat(bpe.merges[m])) > 1
    PROVE  m < q
PROOF
<1>1. Len(bpe.merges) \in Nat /\ DOMAIN bpe.merges = 1 .. Len(bpe.merges)
  BY TableIsSequence
<1>2. PICK j \in 1 .. (q - 1) : Concat(bpe.merges[j]) = bpe.merges[q][x]
  BY <1>1 DEF Trained
<1>3. j \in 1 .. Len(bpe.merges) /\ j < q
  BY <1>1
<1>4. j = m
  <2>1. \A a \in DOMAIN bpe.merges : Concat(bpe.merges[a]) = Concat(bpe.merges[m]) => a = m
    BY <1>1 DEF Trained
  <2> QED
    BY <1>1, <1>2, <1>3, <2>1
<1> QED
  BY <1>3, <1>4

-----------------------------------------------------------------------------
LEMMA RowReached ==
    ASSUME bpe \in Bpes, Trained, syms \in Seq(Seq(Chars)),
           NEW k \in 0 .. Len(bpe.merges), MergesTo(k), \A i \in Ranked : RankAt(i) # k
    PROVE  syms = Rows(bpe.merges, Atoms(syms))[k]
PROOF
<1>1. CASE k = 0
  BY <1>1 DEF MergesTo
<1>2. CASE k # 0
  <2>1. k \in 1 .. Len(bpe.merges)
    BY <1>2, TableIsSequence
  <2>2. \A i \in 1 .. (Len(syms) - 1) : <<syms[i], syms[i + 1]>> # bpe.merges[k]
    <3> SUFFICES ASSUME NEW i \in 1 .. (Len(syms) - 1), <<syms[i], syms[i + 1]>> = bpe.merges[k]
                 PROVE  FALSE
      OBVIOUS
    <3>1. Places(syms[i], syms[i + 1]) # {} /\ Rank(syms[i], syms[i + 1]) = k
      BY <2>1, RankIsPlace
    <3> QED
      BY <3>1 DEF Ranked, RankAt
  <2>3. MergeAll(syms, bpe.merges[k]) = syms
    BY <2>2, NothingMerges
  <2> QED
    BY <1>2, <2>3 DEF MergesTo
<1> QED
  BY <1>1, <1>2

\* Entries that do not apply may be passed.
LEMMA RowsPassed ==
    ASSUME bpe \in Bpes, Trained, syms \in Seq(Seq(Chars)),
           NEW k \in 0 .. Len(bpe.merges), MergesTo(k),
           NEW m \in k .. Len(bpe.merges), NoneBelow(m)
    PROVE  MergesTo(m)
PROOF
<1> DEFINE N == Len(bpe.merges)
           S == {d \in Nat : k + d <= m => MergesTo(k + d)}
<1>1. N \in Nat /\ k \in Nat /\ m \in Nat /\ k <= m /\ m <= N
  BY TableIsSequence
<1>2. 0 \in S
  <2>1. k + 0 = k
    BY <1>1
  <2> QED
    BY <2>1
<1>3. ASSUME NEW d \in Nat, d \in S
      PROVE  d + 1 \in S
  <2> DEFINE j == k + d
  <2> SUFFICES ASSUME k + (d + 1) <= m PROVE MergesTo(k + (d + 1))
    OBVIOUS
  <2>1. /\ k + (d + 1) = j + 1 /\ j \in 0 .. N /\ j < m /\ j <= m /\ j + 1 \in 1 .. N /\ j + 1 # 0
        /\ (j + 1) - 1 = j
    BY <1>1
  <2>2. MergesTo(j)
    BY <1>3, <2>1
  <2> HIDE DEF j
  <2>3. \A i \in Ranked : RankAt(i) # j
    <3> SUFFICES ASSUME NEW i \in Ranked, RankAt(i) = j PROVE FALSE
      OBVIOUS
    <3>1. m <= j
      BY DEF NoneBelow
    <3> QED
      BY <1>1, <2>1, <3>1
  <2>4. syms = Rows(bpe.merges, Atoms(syms))[j]
    BY <2>1, <2>2, <2>3, RowReached
  <2>5. Rows(bpe.merges, Atoms(syms))[j + 1] = MergeAll(Rows(bpe.merges, Atoms(syms))[j], bpe.merges[j + 1])
    BY <1>1, <2>1, RowAfter
  <2>6. MergesTo(j + 1)
    BY <2>1, <2>4, <2>5 DEF MergesTo
  <2> QED
    BY <2>1, <2>6
<1>4. m - k \in S
  <2>1. m - k \in Nat
    BY <1>1
  <2> HIDE DEF S
  <2> QED
    BY <1>2, <1>3, <2>1, NumbersFromZero
<1>5. k + (m - k) = m /\ m <= m
  BY <1>1
<1> QED
  BY <1>4, <1>5

-----------------------------------------------------------------------------
LEMMA RanksArePlaces ==
    ASSUME bpe \in Bpes, Trained, NEW i \in Ranked
    PROVE  /\ i \in 1 .. (Len(syms) - 1) /\ RankAt(i) \in 1 .. Len(bpe.merges)
           /\ bpe.merges[RankAt(i)] = <<syms[i], syms[i + 1]>>
BY RankIsPlace DEF Ranked, RankAt

\* A word starts at the first row.
LEMMA WordKeepsTable == GptInv /\ NextWord => TableInv'
PROOF
<1> SUFFICES ASSUME GptInv, NextWord, gp' = "merge" PROVE TableInv'
  BY DEF TableInv
<1> DEFINE e == WordEnd(segment)
           z == [i \in 1 .. e |-> Atom[segment[i]]]
<1>1. /\ gp = "words" /\ bpe' = bpe /\ segment # <<>>
      /\ syms' = [i \in 1 .. e |-> <<Atom[segment[i]]>>]
  BY DEF NextWord
<1>2. segment \in Seq(DOMAIN Atom) /\ bpe \in Bpes
  BY DEF GptInv, GptTypeOK
<1>3. e \in 1 .. Len(segment) /\ Len(segment) \in Nat
  BY <1>1, <1>2, WordEndInside
<1> HIDE DEF e
<1>4. \A i \in 1 .. e : Atom[segment[i]] \in Chars
  BY <1>2, <1>3 DEF Chars
<1>5. z \in Seq(Chars) /\ Len(z) = e /\ DOMAIN z = 1 .. e
  <2>1. z \in [1 .. e -> Chars] /\ e \in Nat
    BY <1>3, <1>4
  <2> HIDE DEF z
  <2> QED
    BY <2>1
<1>6. syms' = [i \in DOMAIN z |-> <<z[i]>>]
  BY <1>1, <1>5
<1>7. \A i \in DOMAIN syms' : syms'[i] # <<>>
  BY <1>1
<1> HIDE DEF z
<1>8. Concat(syms') = z
  BY <1>5, <1>6, ConcatSingles
<1>9. Atoms(syms') = syms'
  BY <1>6, <1>8 DEF Atoms
<1>10. ASSUME Trained' PROVE MergesTo(0)' /\ NoneBelow(0)' /\ Len(bpe.merges) \in Nat
  <2>1. Len(bpe.merges) \in Nat
    BY <1>2, TableIsSequence
  <2>2. Rows(bpe.merges, Atoms(syms'))[0] = Atoms(syms')
    BY <2>1, RowAfter
  <2>4. syms' = Rows(bpe'.merges, Atoms(syms'))[0]
    BY <1>1, <1>9, <2>2
  <2>5. Trained
    BY <1>1, <1>10 DEF Trained
  <2>6. ASSUME NEW i \in Ranked' PROVE 0 <= RankAt(i)'
    <3> DEFINE l == syms'[i]
               r == syms'[i + 1]
    <3>1. Places(l, r) # {} /\ RankAt(i)' = Rank(l, r)
      BY <1>1, <2>6 DEF Ranked, RankAt, Rank, Places
    <3>2. Rank(l, r) \in 1 .. Len(bpe.merges)
      BY <1>2, <2>5, <3>1, RankIsPlace
    <3> QED
      BY <2>1, <3>1, <3>2
  <2> QED
    BY <2>1, <2>4, <2>6 DEF MergesTo, NoneBelow
<1>11. Trained' => \E k \in 0 .. Len(bpe'.merges) : MergesTo(k)' /\ NoneBelow(k)'
  <2> SUFFICES ASSUME Trained' PROVE \E k \in 0 .. Len(bpe'.merges) : MergesTo(k)' /\ NoneBelow(k)'
    OBVIOUS
  <2>1. 0 \in 0 .. Len(bpe'.merges)
    BY <1>1, <1>10
  <2> QED
    BY <1>10, <2>1
<1> QED
  BY <1>7, <1>11 DEF TableInv

LEMMA PairJoins ==
    ASSUME NEW T
    PROVE  \A l, r \in Seq(T) : Concat(<<l, r>>) = l \o r
PROOF
<1> TAKE l \in Seq(T), r \in Seq(T)
<1>1. <<l, r>> = Append(<<l>>, r) /\ <<l>> \in Seq(Seq(T))
  OBVIOUS
<1>2. Concat(Append(<<l>>, r)) = Concat(<<l>>) \o r
  BY <1>1, ConcatAppend
<1>3. Concat(<<l>>) = l
  BY ConcatOne
<1> QED
  BY <1>1, <1>2, <1>3

\* What a pair makes is longer than either of its parts.
LEMMA PairGrows ==
    ASSUME NEW T, NEW l \in Seq(T), NEW r \in Seq(T), l # <<>>, r # <<>>
    PROVE  /\ l \o r \in Seq(T) /\ Len(l \o r) > 1
           /\ l \o r # l /\ l \o r # r /\ l \o r # <<>>
PROOF
<1>1. /\ l \o r \in Seq(T) /\ Len(l \o r) = Len(l) + Len(r)
      /\ Len(l) \in Nat /\ Len(r) \in Nat /\ Len(l) # 0 /\ Len(r) # 0
  OBVIOUS
<1> DEFINE lr == l \o r
<1> HIDE DEF lr
<1>3. Len(lr) > 1 /\ lr # l /\ lr # r /\ lr # <<>>
  <2>1. Len(lr) = Len(l) + Len(r)
    BY <1>1 DEF lr
  <2>2. Len(lr) > 1 /\ Len(lr) # Len(l) /\ Len(lr) # Len(r) /\ Len(lr) # 0
    BY <1>1, <2>1
  <2> QED
    BY <2>2
<1> QED
  BY <1>1, <1>3 DEF lr

\* One merge stays at the row of its rank.
LEMMA MergeKeepsTable == GptInv /\ TableInv /\ MergeRanked => TableInv'
PROOF
<1> SUFFICES ASSUME GptInv, TableInv, MergeRanked PROVE TableInv'
  OBVIOUS
<1> DEFINE N == Len(bpe.merges)
           n == Len(syms)
<1>1. gp = "merge" /\ bpe' = bpe
  BY DEF MergeRanked
<1>2. PICK i \in Ranked :
         /\ Lowest(i)
         /\ syms' = SubSeq(syms, 1, i - 1) \o <<syms[i] \o syms[i + 1]>>
                        \o SubSeq(syms, i + 2, Len(syms))
  BY DEF MergeRanked
<1>3. /\ syms \in Seq(Seq(Chars)) /\ bpe \in Bpes /\ n \in Nat
      /\ i \in 1 .. (n - 1) /\ i \in 1 .. n /\ i + 1 \in 1 .. n
      /\ \A j \in 1 .. n : syms[j] \in Seq(Chars) /\ syms[j] # <<>>
  BY <1>1 DEF GptInv, GptTypeOK, Ranked, TableInv
<1> DEFINE l == syms[i]
           r == syms[i + 1]
           z == l \o r
<1>4. /\ Concat(<<l, r>>) = z /\ z \in Seq(Chars) /\ Len(z) > 1
      /\ z # l /\ z # r /\ z # <<>>
  <2>1. l \in Seq(Chars) /\ r \in Seq(Chars) /\ l # <<>> /\ r # <<>>
    BY <1>3
  <2> HIDE DEF l, r
  <2>2. Concat(<<l, r>>) = z
    <3>1. \A u, v \in Seq(Chars) : Concat(<<u, v>>) = u \o v
      BY PairJoins
    <3> QED
      BY <2>1, <3>1, Zenon
  <2>3. z \in Seq(Chars) /\ Len(z) > 1
    BY <2>1, PairGrows
  <2>4. z # l /\ z # r /\ z # <<>>
    BY <2>1, PairGrows
  <2> QED
    BY <2>2, <2>3, <2>4
<1>5. syms' \in Seq(Seq(Chars)) /\ Concat(syms') = Concat(syms)
  BY <1>2, <1>3, MergeKeepsWord
<1>6. syms' = OneForTwo(syms, i, z)
  BY <1>2, <1>3, <1>4, PairReplaced
<1>7. /\ DOMAIN syms' = 1 .. (n - 1)
      /\ \A j \in 1 .. (n - 1) : syms'[j] = IF j < i THEN syms[j] ELSE IF j = i THEN z ELSE syms[j + 1]
  BY <1>3, <1>6 DEF OneForTwo
<1> HIDE DEF z, l, r, n, N
<1>8. Len(syms') = n - 1
  BY <1>3, <1>5, <1>7
<1>9. \A j \in DOMAIN syms' : syms'[j] # <<>>
  <2> SUFFICES ASSUME NEW j \in 1 .. (n - 1) PROVE syms'[j] # <<>>
    BY <1>7
  <2>1. j \in 1 .. n /\ j + 1 \in 1 .. n
    BY <1>3
  <2> QED
    BY <1>3, <1>4, <1>7, <2>1
<1>11. Atoms(syms') = Atoms(syms)
  BY <1>5 DEF Atoms
<1>12. ASSUME Trained'
       PROVE  \E k \in 0 .. N : MergesTo(k)' /\ NoneBelow(k)'
  <2>1. Trained
    BY <1>1, <1>12 DEF Trained
  <2>2. N \in Nat
    BY <1>3, TableIsSequence DEF N
  <2>3. PICK m \in 1 .. N : m = RankAt(i) /\ bpe.merges[m] = <<l, r>>
    BY <1>3, <2>1, RanksArePlaces DEF N, l, r
  <2>4. \A j \in Ranked : RankAt(j) \in 1 .. N /\ (m < RankAt(j) \/ (m = RankAt(j) /\ i <= j))
    BY <1>2, <1>3, <2>1, <2>3, RanksArePlaces DEF Lowest, N
  <2>5. PICK k \in 0 .. N : MergesTo(k) /\ NoneBelow(k)
    BY <1>1, <2>1 DEF TableInv, N
  <2>6. m \in k .. N
    BY <2>2, <2>3, <2>5 DEF NoneBelow
  <2>7. NoneBelow(m)
    BY <2>2, <2>3, <2>4 DEF NoneBelow
  <2>8. MergesTo(m)
    BY <1>3, <2>1, <2>5, <2>6, <2>7, RowsPassed DEF N
  <2>9. MergeAll(syms, bpe.merges[m]) = Rows(bpe.merges, Atoms(syms))[m]
    BY <2>3, <2>8 DEF MergesTo
  <2>10. \A j \in 1 .. (i - 1) : <<syms[j], syms[j + 1]>> # bpe.merges[m]
    <3> SUFFICES ASSUME NEW j \in 1 .. (i - 1), <<syms[j], syms[j + 1]>> = bpe.merges[m] PROVE FALSE
      OBVIOUS
    <3>1. j \in 1 .. (n - 1) /\ j < i
      BY <1>3
    <3>2. Places(syms[j], syms[j + 1]) # {} /\ Rank(syms[j], syms[j + 1]) = m
      BY <1>3, <2>1, <2>3, RankIsPlace DEF N
    <3>3. j \in Ranked /\ RankAt(j) = m
      BY <3>1, <3>2 DEF Ranked, RankAt, n
    <3> QED
      BY <1>3, <2>2, <2>3, <2>4, <3>1, <3>3
  <2>11. MergeAll(syms', bpe.merges[m]) = MergeAll(syms, bpe.merges[m])
    <3>1. z = Concat(bpe.merges[m]) /\ <<syms[i], syms[i + 1]>> = bpe.merges[m]
          /\ z # syms[i] /\ z # syms[i + 1]
      BY <1>4, <2>3 DEF l, r
    <3>2. i \in 1 .. (Len(syms) - 1)
      BY <1>3 DEF n
    <3> DEFINE w == syms
               pair == bpe.merges[m]
    <3>4. /\ w \in Seq(Seq(Chars)) /\ z \in Seq(Chars) /\ z = Concat(pair)
          /\ i \in 1 .. (Len(w) - 1) /\ <<w[i], w[i + 1]>> = pair /\ z # w[i] /\ z # w[i + 1]
          /\ \A j \in 1 .. (i - 1) : <<w[j], w[j + 1]>> # pair
      BY <1>3, <1>4, <2>10, <3>1, <3>2
    <3> HIDE DEF w, pair
    <3>3. MergeAll(OneForTwo(w, i, z), pair) = MergeAll(w, pair)
      BY <3>4, FirstMerges
    <3> QED
      BY <1>6, <3>3 DEF w, pair
  <2>12. MergesTo(m)'
    <3>1. MergeAll(syms', bpe'.merges[m]) = Rows(bpe'.merges, Atoms(syms'))[m]
      BY <1>1, <1>11, <2>9, <2>11
    <3>2. m # 0
      BY <2>2, <2>3
    <3> QED
      BY <3>1, <3>2 DEF MergesTo
  <2>13. ASSUME NEW j \in Ranked' PROVE m <= RankAt(j)'
    <3> DEFINE x == syms'[j]
               y == syms'[j + 1]
    <3>1. /\ j \in 1 .. (n - 2) /\ Places(x, y) # {} /\ RankAt(j)' = Rank(x, y)
      <4>1. j \in 1 .. (Len(syms') - 1) /\ Places(x, y) # {} /\ RankAt(j)' = Rank(x, y)
        BY <1>1, <2>13 DEF Ranked, RankAt, Rank, Places
      <4> HIDE DEF x, y
      <4> QED
        BY <1>3, <1>8, <4>1
    <3>2. PICK q \in 1 .. N : q = Rank(x, y) /\ bpe.merges[q] = <<x, y>>
      BY <1>3, <2>1, <3>1, RankIsPlace DEF N
    <3>3. /\ j \in 1 .. (n - 1) /\ j + 1 \in 1 .. (n - 1) /\ (j + 1) + 1 = j + 2
          /\ j + 1 < i \/ j + 1 = i \/ j = i \/ i < j
      BY <1>3, <3>1
    <3>4. CASE j = i \/ j + 1 = i
      <4>1. x = z \/ y = z
        BY <1>3, <1>7, <3>3, <3>4
      <4>2. \E h \in 1 .. 2 : bpe.merges[q][h] = z
        BY <3>2, <4>1
      <4>3. z = Concat(bpe.merges[m])
        BY <1>4, <2>3
      <4>4. m < q
        BY <1>3, <1>4, <2>1, <4>2, <4>3, PartsAreEarlier DEF N
      <4> QED
        BY <2>2, <2>3, <3>1, <3>2, <4>4
    <3>5. CASE j + 1 < i
      <4>1. x = syms[j] /\ y = syms[j + 1]
        <5>1. j < i /\ j + 1 < i
          BY <1>3, <3>3, <3>5
        <5> QED
          BY <1>7, <3>3, <5>1
      <4>2. j \in Ranked /\ RankAt(j) = q
        BY <3>1, <3>2, <3>3, <4>1 DEF Ranked, RankAt, n
      <4> QED
        BY <2>2, <2>3, <2>4, <3>1, <3>2, <4>2
    <3>6. CASE i < j
      <4>1. x = syms[j + 1] /\ y = syms[(j + 1) + 1]
        <5>1. ~(j < i) /\ j # i /\ ~(j + 1 < i) /\ j + 1 # i
          BY <1>3, <3>3, <3>6
        <5> QED
          BY <1>7, <3>3, <5>1
      <4>2. j + 1 \in Ranked /\ RankAt(j + 1) = q
        BY <3>1, <3>2, <3>3, <4>1 DEF Ranked, RankAt, n
      <4> QED
        BY <2>2, <2>3, <2>4, <3>1, <3>2, <4>2
    <3> QED
      BY <3>3, <3>4, <3>5, <3>6
  <2>14. NoneBelow(m)'
    BY <2>13 DEF NoneBelow
  <2> QED
    BY <2>2, <2>3, <2>12, <2>14
<1> QED
  BY <1>1, <1>9, <1>12 DEF TableInv, N

LEMMA StepKeepsTable == GptInv /\ TableInv /\ [GptNext]_gptVars => TableInv'
PROOF
<1> SUFFICES ASSUME GptInv, TableInv, [GptNext]_gptVars PROVE TableInv'
  OBVIOUS
<1>1. CASE UNCHANGED gptVars
  <2>1. bpe' = bpe /\ syms' = syms /\ gp' = gp
    BY <1>1 DEF gptVars
  <2>2. Trained' = Trained /\ Ranked' = Ranked /\ \A i : RankAt(i)' = RankAt(i)
    BY <2>1 DEF Trained, Ranked, RankAt, Rank, Places
  <2>3. \A k : MergesTo(k)' = MergesTo(k) /\ NoneBelow(k)' = NoneBelow(k)
    BY <2>1, <2>2 DEF MergesTo, NoneBelow
  <2> QED
    BY <2>1, <2>2, <2>3 DEF TableInv
<1>2. CASE GptBegins \/ GptEnds \/ MatchGreedily \/ EmitSpecial \/ TakeSegment \/ EmitWord
  <2>1. gp' # "merge"
    BY <1>2 DEF GptBegins, GptEnds, MatchGreedily, EmitSpecial, TakeSegment, EmitWord
  <2> QED
    BY <2>1 DEF TableInv
<1>3. CASE NextWord
  BY <1>3, WordKeepsTable
<1>4. CASE MergeRanked
  BY <1>4, MergeKeepsTable
<1> QED
  BY <1>1, <1>2, <1>3, <1>4 DEF GptNext, GptReturned

LEMMA TableCorrect == TokSpec => []TableInv
PROOF
<1>1. TokInit => TableInv
  BY DEF TokInit, GptInit, TableInv
<1>2. [Encode]_tokVars => [GptNext]_gptVars
  BY DEF Encode, tokVars
<1>3. GptInv /\ TableInv /\ [GptNext]_gptVars => TableInv'
  BY StepKeepsTable
<1> QED
  BY <1>1, <1>2, <1>3, GptCorrect, PTL DEF TokSpec

\* A word to which no entry applies is at the last row.
LEMMA LastRow == GptInv /\ TableInv => MergesFollowTable
PROOF
<1> SUFFICES ASSUME GptInv, TableInv, gp = "merge", Ranked = {}, Trained
             PROVE  syms = InTableOrder(Atoms(syms))
  BY DEF MergesFollowTable
<1>1. syms \in Seq(Seq(Chars)) /\ bpe \in Bpes
  BY DEF GptInv, GptTypeOK
<1>2. Len(bpe.merges) \in Nat
  BY <1>1, TableIsSequence
<1>3. PICK k \in 0 .. Len(bpe.merges) : MergesTo(k)
  BY DEF TableInv
<1>4. Len(bpe.merges) \in k .. Len(bpe.merges) /\ Len(bpe.merges) \in 0 .. Len(bpe.merges)
  BY <1>2
<1>5. MergesTo(Len(bpe.merges))
  <2>1. NoneBelow(Len(bpe.merges))
    BY DEF NoneBelow
  <2> QED
    BY <1>1, <1>3, <1>4, <2>1, RowsPassed
<1>6. syms = Rows(bpe.merges, Atoms(syms))[Len(bpe.merges)]
  BY <1>1, <1>4, <1>5, RowReached
<1> QED
  BY <1>2, <1>6, RowAfter

(***************************************************************************)
(* Every word, merged one occurrence at a time in the order of rank, ends  *)
(* as a pass through the whole table would leave it, for every table that  *)
(* training can produce.                                                   *)
(***************************************************************************)
THEOREM TableFollowed == TokSpec => []MergesFollowTable
PROOF
<1>1. GptInv /\ TableInv => MergesFollowTable
  BY LastRow
<1> QED
  BY <1>1, GptCorrect, TableCorrect, PTL
=============================================================================
