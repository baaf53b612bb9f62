-------------------------- MODULE MerkleTrieProofs --------------------------
(***************************************************************************)
(* Proofs about MerkleTrie, for keys of any length, any values and any     *)
(* number of readers, if one goroutine inserts at a time: trie and map     *)
(* hold the same, the root hash is a function of the content, an Insert    *)
(* disturbs no other key, and a Get returns a value its key had meanwhile. *)
(*                                                                         *)
(* The recursive definitions Walk and ContentHash are shown to have one    *)
(* solution by induction on a set of naturals (NatSet).                    *)
(***************************************************************************)
EXTENDS MerkleTrie, SequenceTheorems, FiniteSetTheorems, TLAPS

-----------------------------------------------------------------------------
(* Induction, keys and places *)

\* Induction over the naturals, for the members of a set.
LEMMA NatSet ==
    ASSUME NEW T, 0 \in T, \A n \in Nat : n \in T => n + 1 \in T
    PROVE  \A n \in Nat : n \in T
<1> SUFFICES ASSUME NEW k \in Nat, k \notin T PROVE FALSE
  OBVIOUS
<1> DEFINE U == {n \in Nat : n \notin T}
           R == OpToRel(<, Nat)
<1>1. U \subseteq Nat /\ U # {}
  OBVIOUS
<1>2. IsWellFoundedOn(R, Nat)
  BY NatLessThanWellFounded
<1> HIDE DEF U, R
<1>3. PICK x \in U : \A y \in U : ~ (<<y, x>> \in R)
  BY <1>1, <1>2, WFMin
<1>4. x \in Nat /\ x # 0
  BY <1>3 DEF U
<1>5. x - 1 \in Nat /\ x - 1 < x
  BY <1>4
<1>6. <<x - 1, x>> \in R
  BY <1>4, <1>5 DEF R, OpToRel
<1>7. x - 1 \in T
  BY <1>3, <1>5, <1>6 DEF U
<1>8. x \in T
  BY <1>4, <1>5, <1>7
<1> QED
  BY <1>3, <1>8 DEF U

\* A place is a sequence of at most Depth bits.
LEMMA PlaceShape ==
    ASSUME NEW p \in Place
    PROVE  Len(p) \in 0..Depth /\ p \in [1..Len(p) -> Bit] /\ p \in Seq(Bit)
<1>1. PICK d \in 0..Depth : p \in [1..d -> Bit]
  BY DEF Place
<1>2. d \in Nat
  BY TrieAssumption
<1>3. Len(p) = d
  BY <1>1, <1>2
<1> QED
  BY <1>1, <1>2, <1>3

\* The first bits of a place are a place.
LEMMA PrefixShape ==
    ASSUME NEW p \in Place, NEW d \in 0..Len(p)
    PROVE  /\ Prefix(p, d) \in Place /\ Len(Prefix(p, d)) = d
           /\ \A i \in 1..d : Prefix(p, d)[i] = p[i]
           /\ \A i \in 0..d : Prefix(Prefix(p, d), i) = Prefix(p, i)
<1>1. Len(p) \in 0..Depth /\ p \in [1..Len(p) -> Bit] /\ Depth \in Nat
  BY PlaceShape, TrieAssumption
<1>2. d \in 0..Depth /\ d \in Nat
  BY <1>1
<1>3. Prefix(p, d) \in [1..d -> Bit]
  BY <1>1 DEF Prefix
<1>4. Prefix(p, d) \in Place /\ Len(Prefix(p, d)) = d
  BY <1>2, <1>3 DEF Place
<1>5. \A i \in 1..d : Prefix(p, d)[i] = p[i]
  BY DEF Prefix
<1>6. ASSUME NEW i \in 0..d PROVE Prefix(Prefix(p, d), i) = Prefix(p, i)
  <2>1. \A j \in 1..i : j \in 1..d
    BY <1>2
  <2> QED
    BY <1>5, <2>1 DEF Prefix
<1> QED
  BY <1>4, <1>5, <1>6

\* The whole place is its own longest prefix, the root its shortest.
LEMMA PrefixEnds ==
    ASSUME NEW p \in Place
    PROVE  Prefix(p, Len(p)) = p /\ Prefix(p, 0) = <<>> /\ <<>> \in Place
<1>1. Len(p) \in 0..Depth /\ p \in [1..Len(p) -> Bit] /\ Depth \in Nat
  BY PlaceShape, TrieAssumption
<1>2. Prefix(p, Len(p)) = p
  BY <1>1 DEF Prefix
<1>3. Prefix(p, 0) = <<>>
  BY DEF Prefix
<1>4. 0 \in 0..Len(p)
  BY <1>1
<1>5. Prefix(p, 0) \in Place
  BY <1>4, PrefixShape
<1> QED
  BY <1>2, <1>3, <1>5

\* One bit more.
LEMMA PrefixGrows ==
    ASSUME NEW p \in Place, NEW d \in 1..Len(p)
    PROVE  Append(Prefix(p, d - 1), p[d]) = Prefix(p, d)
<1>1. Len(p) \in 0..Depth /\ p \in [1..Len(p) -> Bit] /\ Depth \in Nat
  BY PlaceShape, TrieAssumption
<1>2. d \in Nat /\ d - 1 \in Nat /\ p[d] \in Bit
  BY <1>1
<1>3. Prefix(p, d - 1) \in [1..(d - 1) -> Bit]
  BY <1>1 DEF Prefix
<1>4. Prefix(p, d) \in [1..d -> Bit]
  BY <1>1 DEF Prefix
<1> DEFINE q == Prefix(p, d - 1)
<1>5. q \in Seq(Bit) /\ Len(q) = d - 1
  BY <1>2, <1>3
<1>6. Append(q, p[d]) \in [1..d -> Bit]
  <2> DEFINE r == Append(q, p[d])
  <2>1. r \in Seq(Bit) /\ Len(r) = d
    BY <1>2, <1>5
  <2> HIDE DEF r
  <2>2. r \in [1..Len(r) -> Bit]
    BY <2>1, LenProperties
  <2> QED
    BY <2>1, <2>2 DEF r
<1>7. ASSUME NEW i \in 1..d PROVE Append(q, p[d])[i] = p[i]
  BY <1>2, <1>5, <1>7 DEF Prefix
<1> QED
  BY <1>4, <1>6, <1>7 DEF Prefix

\* A key is a place at the bottom.
LEMMA KeyShape ==
    ASSUME NEW k \in Key
    PROVE  k \in Place /\ Len(k) = Depth /\ Prefix(k, Depth) = k
<1>1. Depth \in Nat /\ k \in [1..Depth -> Bit]
  BY TrieAssumption DEF Key
<1>2. k \in Place
  BY <1>1 DEF Place
<1>3. Len(k) = Depth
  BY <1>1
<1> QED
  BY <1>2, <1>3, PrefixEnds

\* A place has a child for each bit, unless it is at the bottom.
LEMMA AppendShape ==
    ASSUME NEW p \in Place, NEW b \in Bit
    PROVE  /\ Len(p) < Depth <=> Append(p, b) \in Place
           /\ Len(Append(p, b)) = Len(p) + 1
           /\ Append(p, b)[Len(p) + 1] = b
           /\ \A i \in 1..Len(p) : Append(p, b)[i] = p[i]
           /\ \A d \in 0..Len(p) : Prefix(Append(p, b), d) = Prefix(p, d)
<1> DEFINE q == Append(p, b)
           n == Len(p)
<1>1. n \in 0..Depth /\ p \in [1..n -> Bit] /\ p \in Seq(Bit) /\ Depth \in Nat /\ n \in Nat
  BY PlaceShape, TrieAssumption
<1>2. /\ q \in Seq(Bit) /\ Len(q) = n + 1 /\ q[n + 1] = b
      /\ \A i \in 1..n : q[i] = p[i]
  BY <1>1
<1> HIDE DEF q, n
<1>3. q \in [1..(n + 1) -> Bit]
  BY <1>2, LenProperties
<1>4. ASSUME n < Depth PROVE q \in Place
  <2>1. n + 1 \in 0..Depth
    BY <1>1, <1>4
  <2> QED
    BY <1>3, <2>1 DEF Place
<1>5. ASSUME q \in Place PROVE n < Depth
  <2>1. Len(q) \in 0..Depth
    BY <1>5, PlaceShape
  <2> QED
    BY <1>1, <1>2, <2>1
<1>6. ASSUME NEW d \in 0..n PROVE Prefix(q, d) = Prefix(p, d)
  <2>1. \A i \in 1..d : i \in 1..n
    BY <1>1
  <2> QED
    BY <1>2, <2>1 DEF Prefix
<1> QED
  BY <1>2, <1>4, <1>5, <1>6 DEF q, n

\* Nodes of different places are different, and none of them is Nil.
LEMMA AtShape ==
    /\ \A p \in Place : At(p) \in Node /\ At(p) # Nil
    /\ \A p, q : At(p) = At(q) => p = q
    /\ \A p : At(p).place = p /\ At(p).copy = 0
    /\ Root = At(<<>>) /\ Nil \notin Node
    /\ \A n \in Node : n.copy = 0 => n = At(n.place)
<1>1. MaxCopies \in Nat \ {0} /\ 0 \in 0..MaxCopies - 1 /\ MaxCopies \notin 0..MaxCopies - 1
  BY TrieAssumption
<1>2. \A p \in Place : At(p) \in Node
  BY <1>1 DEF At, Node
<1>3. Nil \notin Node
  BY <1>1 DEF Nil, Node
<1>4. \A n \in Node : n.copy = 0 => n = At(n.place)
  BY DEF Node, At
<1>5. \A p : At(p).place = p /\ At(p).copy = 0
  BY DEF At
<1>6. Root = At(<<>>)
  BY DEF Root, At
<1> QED
  BY <1>2, <1>3, <1>4, <1>5, <1>6

-----------------------------------------------------------------------------
(* What the recursive definitions compute *)

\* The recursion of Walk has a solution and only one: the node of each prefix of
\* the key as long as the links are there.
LEMMA WalkIs ==
    ASSUME TypeOK, TreeInv, NEW k \in Key
    PROVE  Walk(k) = [d \in 0..Depth |-> IF \A i \in 1..d : LinkedAt(k, i)
                                         THEN At(Prefix(k, d)) ELSE Nil]
<1> DEFINE F(g) == [d \in 0..Depth |->
                        IF d = 0 THEN Root
                        ELSE IF g[d - 1] = Nil THEN Nil ELSE child[g[d - 1]][k[d]]]
           W == [d \in 0..Depth |-> IF \A i \in 1..d : LinkedAt(k, i)
                                    THEN At(Prefix(k, d)) ELSE Nil]
<1>1. /\ Depth \in Nat \ {0} /\ k \in Place /\ Len(k) = Depth /\ k \in [1..Depth -> Bit]
  BY TrieAssumption, KeyShape DEF Key
<1>2. \A d \in 0..Depth : /\ Prefix(k, d) \in Place /\ At(Prefix(k, d)) # Nil
                          /\ At(Prefix(k, d)) \in Node
  BY <1>1, PrefixShape, AtShape
<1>3. ASSUME NEW d \in 1..Depth
      PROVE  W[d] = IF W[d - 1] = Nil THEN Nil ELSE child[W[d - 1]][k[d]]
  <2>1. d - 1 \in 0..Depth /\ d \in 0..Depth /\ k[d] \in Bit
    BY <1>1
  <2>2. (\A i \in 1..d : LinkedAt(k, i)) <=>
            (\A i \in 1..(d - 1) : LinkedAt(k, i)) /\ LinkedAt(k, d)
    BY <1>1
  <2>3. CASE ~ \A i \in 1..(d - 1) : LinkedAt(k, i)
    BY <2>1, <2>2, <2>3
  <2>4. CASE \A i \in 1..(d - 1) : LinkedAt(k, i)
    <3>1. W[d - 1] = At(Prefix(k, d - 1)) /\ W[d - 1] # Nil
      BY <1>2, <2>1, <2>4
    <3>2. LinkedAt(k, d) <=> child[At(Prefix(k, d - 1))][k[d]] # Nil
      BY DEF LinkedAt
    <3>3. LinkedAt(k, d) => child[At(Prefix(k, d - 1))][k[d]] = At(Prefix(k, d))
      <4>1. d \in 1..Len(k)
        BY <1>1
      <4>2. Append(Prefix(k, d - 1), k[d]) = Prefix(k, d)
        BY <1>1, <4>1, PrefixGrows
      <4> QED
        BY <1>2, <2>1, <3>2, <4>2 DEF TreeInv
    <3> QED
      BY <2>1, <2>2, <2>4, <3>1, <3>2, <3>3
  <2> QED
    BY <2>3, <2>4
<1>4. W[0] = Root
  BY <1>1, PrefixEnds, AtShape
<1>5. W = F(W)
  <2>1. \A d \in 0..Depth : d = 0 \/ d \in 1..Depth
    BY <1>1
  <2> HIDE DEF W
  <2>2. \A d \in 0..Depth : W[d] = F(W)[d]
    BY <1>3, <1>4, <2>1
  <2> QED
    BY <2>2 DEF W
<1> HIDE DEF W
<1>6. Walk(k) = CHOOSE g : g = F(g)
  BY DEF Walk
<1>7. Walk(k) = F(Walk(k))
  <2> HIDE DEF F
  <2> QED
    BY <1>5, <1>6
<1> DEFINE T == {n \in Nat : n <= Depth => Walk(k)[n] = W[n]}
<1>8. 0 \in T
  BY <1>1, <1>4, <1>7
<1>9. ASSUME NEW n \in Nat, n \in T PROVE n + 1 \in T
  <2>1. SUFFICES ASSUME n + 1 <= Depth PROVE Walk(k)[n + 1] = W[n + 1]
    BY <1>9
  <2>2. n + 1 \in 1..Depth /\ (n + 1) - 1 = n /\ n <= Depth
    BY <1>1, <2>1
  <2>3. Walk(k)[n] = W[n]
    BY <1>9, <2>2
  <2>4. Walk(k)[n + 1] = IF Walk(k)[n] = Nil THEN Nil ELSE child[Walk(k)[n]][k[n + 1]]
    BY <1>1, <1>7, <2>2
  <2> QED
    BY <1>3, <2>2, <2>3, <2>4
<1> HIDE DEF T
<1>10. \A n \in Nat : n \in T
  BY <1>8, <1>9, NatSet
<1>11. \A d \in 0..Depth : Walk(k)[d] = W[d]
  BY <1>1, <1>10 DEF T
<1>12. Walk(k) = [d \in 0..Depth |-> Walk(k)[d]]
  BY <1>7
<1>13. W = [d \in 0..Depth |-> W[d]]
  BY DEF W
<1>14. Walk(k) = W
  BY <1>11, <1>12, <1>13
<1> QED
  BY <1>14 DEF W

\* What Get finds, without recursion.
Held(k) == IF \A i \in 1..Depth : LinkedAt(k, i) THEN value[At(k)] ELSE None

LEMMA LookupIsHeld == TypeOK /\ TreeInv => \A k \in Key : Lookup(k) = Held(k)
<1> SUFFICES ASSUME TypeOK, TreeInv, NEW k \in Key PROVE Lookup(k) = Held(k)
  OBVIOUS
<1>1. Depth \in 0..Depth /\ k \in Place /\ Prefix(k, Depth) = k
  BY TrieAssumption, KeyShape
<1>2. Walk(k)[Depth] = IF \A i \in 1..Depth : LinkedAt(k, i) THEN At(k) ELSE Nil
  BY <1>1, WalkIs
<1>3. At(k) # Nil
  BY <1>1, AtShape
<1> QED
  BY <1>2, <1>3 DEF Lookup, Held

\* The recursion of ContentHash has a solution: made level by level from the
\* leaves up.
LEMMA ContentHashIs ==
    ASSUME NEW map, NEW q \in Place
    PROVE  ContentHash(map)[q] =
              IF Below(map, q) = {} THEN ZeroHash
              ELSE IF Len(q) = Depth THEN Sum256(map[q])
              ELSE <<ContentHash(map)[Append(q, 0)], ContentHash(map)[Append(q, 1)]>>
<1> DEFINE V(g, p) == IF Below(map, p) = {} THEN ZeroHash
                      ELSE IF Len(p) = Depth THEN Sum256(map[p])
                      ELSE <<g[Append(p, 0)], g[Append(p, 1)]>>
           F(g) == [p \in Place |-> V(g, p)]
           T == {n \in Nat : \E g : \A p \in Place : Depth - Len(p) <= n => g[p] = V(g, p)}
<1>1. Depth \in Nat /\ \A p \in Place : Len(p) \in 0..Depth
  BY TrieAssumption, PlaceShape
<1>2. ASSUME NEW p \in Place, Len(p) # Depth, NEW b \in Bit
      PROVE  Append(p, b) \in Place /\ Len(Append(p, b)) = Len(p) + 1
  <2>1. Len(p) < Depth
    BY <1>1, <1>2
  <2> QED
    BY <2>1, AppendShape
<1>3. ASSUME NEW p \in Place, NEW g, NEW h,
             \A b \in Bit : Len(p) # Depth => g[Append(p, b)] = h[Append(p, b)]
      PROVE  V(g, p) = V(h, p)
  <2>1. 0 \in Bit /\ 1 \in Bit
    BY DEF Bit
  <2> QED
    BY <1>3, <2>1
<1> HIDE DEF V
<1>4. 0 \in T
  <2> DEFINE g == F([p \in Place |-> ZeroHash])
  <2>1. ASSUME NEW p \in Place, Depth - Len(p) <= 0 PROVE g[p] = V(g, p)
    <3>1. Len(p) = Depth
      BY <1>1, <2>1
    <3>2. V(g, p) = V([o \in Place |-> ZeroHash], p)
      BY <1>3, <3>1
    <3> QED
      BY <3>2
  <2> HIDE DEF g
  <2> QED
    BY <2>1
<1>5. ASSUME NEW n \in Nat, n \in T PROVE n + 1 \in T
  <2>1. PICK g : \A p \in Place : Depth - Len(p) <= n => g[p] = V(g, p)
    BY <1>5
  <2> DEFINE h == F(g)
  <2>2. ASSUME NEW p \in Place, Depth - Len(p) <= n + 1 PROVE h[p] = V(h, p)
    <3>1. ASSUME NEW b \in Bit, Len(p) # Depth PROVE g[Append(p, b)] = h[Append(p, b)]
      <4>1. Append(p, b) \in Place /\ Len(Append(p, b)) = Len(p) + 1
        BY <1>2, <3>1
      <4>2. Depth - Len(Append(p, b)) <= n
        BY <1>1, <2>2, <4>1
      <4> QED
        BY <2>1, <4>1, <4>2
    <3> HIDE DEF h
    <3>2. V(g, p) = V(h, p)
      BY <1>3, <3>1
    <3> QED
      BY <3>2 DEF h
  <2> HIDE DEF h
  <2> QED
    BY <2>2
<1>6. Depth \in T
  <2> HIDE DEF T
  <2> QED
    BY <1>1, <1>4, <1>5, NatSet
<1>7. PICK g : \A p \in Place : Depth - Len(p) <= Depth => g[p] = V(g, p)
  BY <1>6
<1>8. \A p \in Place : g[p] = V(g, p)
  BY <1>1, <1>7
<1> DEFINE h == [p \in Place |-> g[p]]
<1>9. h = F(h)
  <2>1. ASSUME NEW p \in Place PROVE V(g, p) = V(h, p)
    <3>1. \A b \in Bit : Len(p) # Depth => g[Append(p, b)] = h[Append(p, b)]
      BY <1>2
    <3> HIDE DEF h
    <3> QED
      BY <1>3, <3>1
  <2> QED
    BY <1>8, <2>1
<1>10. ContentHash(map) = CHOOSE f : f = F(f)
  BY DEF ContentHash, V
<1>11. ContentHash(map) = F(ContentHash(map))
  <2> HIDE DEF F, h
  <2> QED
    BY <1>9, <1>10
<1>12. ContentHash(map)[q] = V(ContentHash(map), q)
  BY <1>11
<1> QED
  BY <1>12 DEF V

\* The hash below a place depends on the keys below it only.
LEMMA ContentHashLocal ==
    ASSUME NEW map, NEW other, NEW q \in Place,
           \A k \in Key : Prefix(k, Len(q)) = q => map[k] = other[k]
    PROVE  ContentHash(map)[q] = ContentHash(other)[q]
<1> DEFINE Same(p) == \A k \in Key : Prefix(k, Len(p)) = p => map[k] = other[k]
           T == {n \in Nat : \A p \in Place : Depth - Len(p) <= n /\ Same(p) =>
                                 ContentHash(map)[p] = ContentHash(other)[p]}
<1>1. Depth \in Nat /\ \A p \in Place : Len(p) \in 0..Depth
  BY TrieAssumption, PlaceShape
<1>2. ASSUME NEW p \in Place, Same(p)
      PROVE  /\ Below(map, p) = Below(other, p)
             /\ Len(p) = Depth => map[p] = other[p]
  <2>1. Below(map, p) = Below(other, p)
    BY <1>2 DEF Below
  <2>2. ASSUME Len(p) = Depth PROVE map[p] = other[p]
    <3>1. p \in Key
      BY <2>2, PlaceShape DEF Key
    <3> QED
      BY <1>2, <2>2, <3>1, KeyShape
  <2> QED
    BY <2>1, <2>2
<1>3. ASSUME NEW p \in Place, Len(p) # Depth, Same(p), NEW b \in Bit
      PROVE  Append(p, b) \in Place /\ Len(Append(p, b)) = Len(p) + 1 /\ Same(Append(p, b))
  <2>1. Len(p) < Depth
    BY <1>1, <1>3
  <2>2. Append(p, b) \in Place /\ Len(Append(p, b)) = Len(p) + 1
    BY <2>1, AppendShape
  <2>3. ASSUME NEW k \in Key, Prefix(k, Len(p) + 1) = Append(p, b)
        PROVE  Prefix(k, Len(p)) = p
    <3>1. k \in Place /\ Len(k) = Depth
      BY KeyShape
    <3>2. Len(p) \in 0..(Len(p) + 1) /\ Len(p) + 1 \in 0..Len(k) /\ Len(p) \in 0..Len(p)
      BY <1>1, <2>1, <3>1
    <3>3. Prefix(Prefix(k, Len(p) + 1), Len(p)) = Prefix(k, Len(p))
      BY <3>1, <3>2, PrefixShape
    <3>4. Prefix(Append(p, b), Len(p)) = Prefix(p, Len(p))
      BY <3>2, AppendShape
    <3> QED
      BY <2>3, <3>3, <3>4, PrefixEnds
  <2>4. Same(Append(p, b))
    BY <1>3, <2>2, <2>3
  <2> QED
    BY <2>2, <2>4
<1> HIDE DEF Same
<1>4. ASSUME NEW p \in Place, Same(p),
             Len(p) # Depth => \A b \in Bit :
                ContentHash(map)[Append(p, b)] = ContentHash(other)[Append(p, b)]
      PROVE  ContentHash(map)[p] = ContentHash(other)[p]
  <2>1. 0 \in Bit /\ 1 \in Bit
    BY DEF Bit
  <2> QED
    BY <1>2, <1>4, <2>1, ContentHashIs
<1>5. 0 \in T
  BY <1>1, <1>4
<1>6. ASSUME NEW n \in Nat, n \in T PROVE n + 1 \in T
  <2>1. SUFFICES ASSUME NEW p \in Place, Depth - Len(p) <= n + 1, Same(p)
                 PROVE  ContentHash(map)[p] = ContentHash(other)[p]
    OBVIOUS
  <2>2. ASSUME Len(p) # Depth, NEW b \in Bit
        PROVE  ContentHash(map)[Append(p, b)] = ContentHash(other)[Append(p, b)]
    <3>1. /\ Append(p, b) \in Place /\ Len(Append(p, b)) = Len(p) + 1
          /\ Same(Append(p, b))
      BY <1>3, <2>1, <2>2
    <3>2. Depth - Len(Append(p, b)) <= n
      BY <1>1, <2>1, <3>1
    <3> QED
      BY <1>6, <3>1, <3>2
  <2> QED
    BY <1>4, <2>1, <2>2
<1>7. Depth \in T
  <2> HIDE DEF T
  <2> QED
    BY <1>1, <1>5, <1>6, NatSet
<1>8. Same(q) /\ Depth - Len(q) <= Depth
  BY <1>1 DEF Same
<1> QED
  BY <1>7, <1>8

-----------------------------------------------------------------------------
(* The invariant: Get *)

\* The empty trie.
LEMMA TrieInvInit == Init => TrieInv
<1> SUFFICES ASSUME Init PROVE TrieInv
  OBVIOUS
<1>1. Root \in Node /\ Root.copy = 0 /\ Root.place = <<>> /\ <<>> \in Place
  <2>1. [i \in 1..Depth |-> 0] \in Key
    BY DEF Key, Bit
  <2>2. <<>> \in Place
    BY <2>1, KeyShape, PrefixEnds
  <2> QED
    BY <2>2, AtShape
<1>2. /\ ins = [w \in Writer |-> None] /\ rising = {} /\ made = {Root}
      /\ \A w \in Writer : ins[w] = None /\ stack[w] = <<>>
      /\ \A n \in Node : \A b \in Bit : child[n][b] = Nil
      /\ \A k \in Key : kvMap[k] = None
      /\ \A r \in Reader : get[r] = None
      /\ \A n \in Node : hash[n] = ZeroHash /\ value[n] = None
  BY DEF Init
<1>3. TypeOK
  <2>1. <<>> \in Seq(Node)
    OBVIOUS
  <2>2. stack \in [Writer -> Seq(Node)]
    BY <2>1 DEF Init
  <2>3. legal \in [Reader -> SUBSET (Value \cup {None, Torn})]
    BY DEF Init
  <2> QED
    BY <1>1, <1>2, <2>2, <2>3 DEF Init, TypeOK
<1>4. TreeInv
  BY <1>1, <1>2, AtShape DEF TreeInv
<1>5. StackInv
  BY <1>2 DEF StackInv
<1>6. ReachInv
  <2>1. \A n \in made : Len(n.place) = 0
    BY <1>1, <1>2
  <2> QED
    BY <2>1 DEF ReachInv
<1>7. ValueInv
  <2>1. \A k \in Key : value[At(k)] = None /\ kvMap[k] = None
    BY <1>2, KeyShape, AtShape
  <2> QED
    BY <1>2, <2>1 DEF ValueInv, Inserting
<1>8. HashInv
  <2>1. Below(kvMap, <<>>) = {}
    BY <1>2 DEF Below
  <2>2. ContentHash(kvMap)[<<>>] = ZeroHash
    BY <1>1, <2>1, ContentHashIs
  <2> QED
    BY <1>1, <1>2, <2>2 DEF HashInv
<1>9. GetInv
  BY <1>2 DEF GetInv
<1> QED
  BY <1>3, <1>4, <1>5, <1>6, <1>7, <1>8, <1>9 DEF TrieInv

\* A Get changes nothing of the trie.
LEMMA GetUndisturbing ==
    ASSUME TrieInv, UNCHANGED <<trieVars, kvMap, ins, stack, rising>>
    PROVE  /\ TreeInv' /\ StackInv' /\ ReachInv' /\ ValueInv' /\ HashInv'
           /\ \A p, i : LinkedAt(p, i)' <=> LinkedAt(p, i)
<1>1. /\ made' = made /\ child' = child /\ value' = value /\ hash' = hash
      /\ kvMap' = kvMap /\ ins' = ins /\ stack' = stack /\ rising' = rising
  BY DEF trieVars
<1>2. TreeInv'
  BY <1>1 DEF TrieInv, TreeInv
<1>3. StackInv'
  BY <1>1 DEF TrieInv, StackInv, LinkedAt
<1>4. ReachInv'
  BY <1>1 DEF TrieInv, ReachInv, LinkedAt
<1>5. ValueInv'
  BY <1>1 DEF TrieInv, ValueInv, LinkedAt, Inserting
<1>6. HashInv'
  BY <1>1 DEF TrieInv, HashInv, OnWay, Inserted
<1> QED
  BY <1>1, <1>2, <1>3, <1>4, <1>5, <1>6 DEF LinkedAt

LEMMA StartGetStep ==
    ASSUME TrieInv, NEW r \in Reader, NEW k \in Key, StartGet(r, k)
    PROVE  TrieInv'
<1>1. /\ UNCHANGED <<trieVars, kvMap, ins, stack, rising>>
      /\ made' = made /\ child' = child /\ value' = value /\ hash' = hash
      /\ kvMap' = kvMap /\ ins' = ins /\ stack' = stack /\ rising' = rising
  BY DEF StartGet, trieVars
<1>2. TreeInv' /\ StackInv' /\ ReachInv' /\ ValueInv' /\ HashInv'
  BY <1>1, GetUndisturbing
<1> DEFINE new == {kvMap[k]} \cup UNION {{ins[w].value, Torn} : w \in Inserting(k)}
           g == [key |-> k, node |-> Root, depth |-> 0]
<1>t. TypeOK
  BY DEF TrieInv
<1>3. g \in GetCall
  BY <1>t, TrieAssumption DEF TypeOK, GetCall
<1>4. new \subseteq Value \cup {None, Torn}
  <2>1. kvMap[k] \in Value \cup {None}
    BY <1>t DEF TypeOK
  <2>2. \A w \in Inserting(k) : ins[w].value \in Value
    BY <1>t DEF TypeOK, Inserting, InsertCall
  <2> QED
    BY <2>1, <2>2
<1>5. /\ get' = [get EXCEPT ![r] = g] /\ legal' = [legal EXCEPT ![r] = new]
      /\ g.key = k /\ g.node = Root /\ g.depth = 0
  BY DEF StartGet
<1>6. /\ kvMap[k] \in new
      /\ \A w \in Inserting(k) : {ins[w].value, Torn} \subseteq new
  OBVIOUS
<1>7. Root # Nil /\ Root = At(Prefix(k, 0))
  BY KeyShape, PrefixEnds, AtShape
<1> HIDE DEF new, g
<1>8. TypeOK'
  BY <1>t, <1>1, <1>3, <1>4, <1>5 DEF TypeOK
<1>9. GetInv'
  <2>1. \A j : Inserting(j)' = Inserting(j)
    BY <1>1 DEF Inserting
  <2>2. \A p, i : LinkedAt(p, i)' <=> LinkedAt(p, i)
    BY <1>1, GetUndisturbing
  <2>3. get'[r] = g /\ legal'[r] = new
    BY <1>t, <1>5 DEF TypeOK
  <2>4. ASSUME NEW s \in Reader, s # r PROVE get'[s] = get[s] /\ legal'[s] = legal[s]
    BY <1>t, <1>5, <2>4 DEF TypeOK
  <2>5. SUFFICES ASSUME NEW s \in Reader, get'[s] # None
        PROVE  /\ kvMap[get'[s].key] \in legal'[s]
               /\ \A w \in Inserting(get'[s].key) : {ins[w].value, Torn} \subseteq legal'[s]
               /\ get'[s].node = Nil => None \in legal'[s]
               /\ get'[s].node # Nil =>
                     /\ get'[s].node = At(Prefix(get'[s].key, get'[s].depth))
                     /\ \A i \in 1..get'[s].depth : LinkedAt(get'[s].key, i)
    BY <1>1, <2>1, <2>2 DEF GetInv
  <2>6. CASE s = r
    BY <1>5, <1>6, <1>7, <2>3, <2>6
  <2>7. CASE s # r
    BY <2>4, <2>5, <2>7 DEF TrieInv, GetInv
  <2> QED
    BY <2>6, <2>7
<1> QED
  BY <1>2, <1>8, <1>9 DEF TrieInv

LEMMA StepGetStep ==
    ASSUME TrieInv, NEW r \in Reader, StepGet(r)
    PROVE  TrieInv'
<1>1. /\ UNCHANGED <<trieVars, kvMap, ins, stack, rising>>
      /\ made' = made /\ child' = child /\ value' = value /\ hash' = hash
      /\ kvMap' = kvMap /\ ins' = ins /\ stack' = stack /\ rising' = rising
      /\ legal' = legal
  BY DEF StepGet, trieVars
<1>2. TreeInv' /\ StackInv' /\ ReachInv' /\ ValueInv' /\ HashInv'
  BY <1>1, GetUndisturbing
<1>t. TypeOK
  BY DEF TrieInv
<1> DEFINE k == get[r].key
           d == get[r].depth
           n == child[get[r].node][k[d + 1]]
           g == [key |-> k, node |-> n, depth |-> d + 1]
<1>3. /\ get[r] \in GetCall /\ k \in Key /\ d \in 0..Depth /\ d < Depth
      /\ get[r].node \in Node \cup {Nil} /\ get[r].node # Nil /\ get[r] # None
  BY <1>t DEF StepGet, TypeOK, GetCall
<1>4. Depth \in Nat /\ d \in Nat /\ d + 1 \in 1..Depth /\ k[d + 1] \in Bit
  BY <1>3, TrieAssumption DEF Key
<1>5. get[r].node = At(Prefix(k, d)) /\ \A i \in 1..d : LinkedAt(k, i)
  BY <1>3 DEF TrieInv, GetInv
<1>6. n \in Node \cup {Nil} /\ g \in GetCall
  <2>1. n \in Node \cup {Nil}
    BY <1>t, <1>3, <1>4 DEF TypeOK
  <2> QED
    BY <1>3, <1>4, <2>1 DEF GetCall
<1>7. get' = [get EXCEPT ![r] = g]
  BY DEF StepGet
<1>8. n = Nil => None \in legal[r]
  <2>1. SUFFICES ASSUME n = Nil PROVE None \in legal[r]
    OBVIOUS
  <2>2. ~ LinkedAt(k, d + 1)
    BY <1>4, <1>5, <2>1 DEF LinkedAt
  <2>3. kvMap[k] = None
    BY <1>3, <1>4, <2>2 DEF TrieInv, ValueInv
  <2> QED
    BY <1>3, <2>3 DEF TrieInv, GetInv
<1>9. n # Nil => n = At(Prefix(k, d + 1)) /\ \A i \in 1..(d + 1) : LinkedAt(k, i)
  <2>1. SUFFICES ASSUME n # Nil
                 PROVE  n = At(Prefix(k, d + 1)) /\ \A i \in 1..(d + 1) : LinkedAt(k, i)
    OBVIOUS
  <2>2. LinkedAt(k, d + 1)
    BY <1>4, <1>5, <2>1 DEF LinkedAt
  <2>3. \A i \in 1..(d + 1) : i \in 1..d \/ i = d + 1
    BY <1>4
  <2>4. /\ k \in Place /\ Len(k) = Depth /\ d + 1 \in 1..Len(k) /\ (d + 1) - 1 = d
        /\ d \in 0..Len(k)
    BY <1>3, <1>4, KeyShape
  <2>5. Append(Prefix(k, d), k[d + 1]) = Prefix(k, d + 1)
    BY <2>4, PrefixGrows
  <2>6. Prefix(k, d) \in Place
    BY <2>4, PrefixShape
  <2>7. n = At(Append(Prefix(k, d), k[d + 1]))
    BY <1>4, <1>5, <2>1, <2>6 DEF TrieInv, TreeInv
  <2> QED
    BY <1>5, <2>2, <2>3, <2>5, <2>7
<1>10. g.key = k /\ g.node = n /\ g.depth = d + 1
  OBVIOUS
<1> HIDE DEF g, n
<1>11. TypeOK'
  BY <1>t, <1>1, <1>6, <1>7 DEF TypeOK
<1>12. GetInv'
  <2>1. \A j : Inserting(j)' = Inserting(j)
    BY <1>1 DEF Inserting
  <2>2. \A p, i : LinkedAt(p, i)' <=> LinkedAt(p, i)
    BY <1>1, GetUndisturbing
  <2>3. get'[r] = g
    BY <1>t, <1>7 DEF TypeOK
  <2>4. \A s \in Reader : s # r => get'[s] = get[s]
    BY <1>t, <1>7 DEF TypeOK
  <2>5. SUFFICES ASSUME NEW s \in Reader, get'[s] # None
        PROVE  /\ kvMap[get'[s].key] \in legal[s]
               /\ \A w \in Inserting(get'[s].key) : {ins[w].value, Torn} \subseteq legal[s]
               /\ get'[s].node = Nil => None \in legal[s]
               /\ get'[s].node # Nil =>
                     /\ get'[s].node = At(Prefix(get'[s].key, get'[s].depth))
                     /\ \A i \in 1..get'[s].depth : LinkedAt(get'[s].key, i)
    BY <1>1, <2>1, <2>2 DEF GetInv
  <2>6. CASE s = r
    <3>1. /\ kvMap[k] \in legal[r]
          /\ \A w \in Inserting(k) : {ins[w].value, Torn} \subseteq legal[r]
      BY <1>3 DEF TrieInv, GetInv
    <3> HIDE DEF k, d
    <3> QED
      BY <1>8, <1>9, <1>10, <2>3, <2>6, <3>1
  <2>7. CASE s # r
    BY <2>4, <2>5, <2>7 DEF TrieInv, GetInv
  <2> QED
    BY <2>6, <2>7
<1> QED
  BY <1>2, <1>11, <1>12 DEF TrieInv

LEMMA GetReturnsStep ==
    ASSUME TrieInv, NEW r \in Reader, GetReturns(r)
    PROVE  TrieInv'
<1>1. /\ UNCHANGED <<trieVars, kvMap, ins, stack, rising>>
      /\ made' = made /\ child' = child /\ value' = value /\ hash' = hash
      /\ kvMap' = kvMap /\ ins' = ins /\ stack' = stack /\ rising' = rising
      /\ get' = [get EXCEPT ![r] = None] /\ legal' = [legal EXCEPT ![r] = {}]
  BY DEF GetReturns, trieVars
<1>2. TreeInv' /\ StackInv' /\ ReachInv' /\ ValueInv' /\ HashInv'
  BY <1>1, GetUndisturbing
<1>t. TypeOK
  BY DEF TrieInv
<1>3. TypeOK'
  BY <1>t, <1>1 DEF TypeOK
<1>4. GetInv'
  <2>1. \A j : Inserting(j)' = Inserting(j)
    BY <1>1 DEF Inserting
  <2>2. \A p, i : LinkedAt(p, i)' <=> LinkedAt(p, i)
    BY <1>1, GetUndisturbing
  <2>3. get'[r] = None
    BY <1>t, <1>1 DEF TypeOK
  <2>4. \A s \in Reader : s # r => get'[s] = get[s] /\ legal'[s] = legal[s]
    BY <1>t, <1>1 DEF TypeOK
  <2> QED
    BY <1>1, <2>1, <2>2, <2>3, <2>4 DEF TrieInv, GetInv
<1> QED
  BY <1>2, <1>3, <1>4 DEF TrieInv

-----------------------------------------------------------------------------
(* The invariant: Insert *)

\* Where an Insert is.
LEMMA Inside ==
    ASSUME TrieInv, NEW w \in Writer, ins[w] # None
    PROVE  /\ ins[w] \in InsertCall /\ ins[w].key \in Key /\ ins[w].value \in Value
           /\ stack[w] \in Seq(Node) /\ Len(stack[w]) \in 1..(Depth + 1)
           /\ Len(stack[w]) \in Nat \ {0}
           /\ \A i \in 1..Len(stack[w]) :
                  stack[w][i] = At(Prefix(ins[w].key, i - 1)) /\ stack[w][i] \in made
           /\ Top(w) = At(Prefix(ins[w].key, Len(stack[w]) - 1))
           /\ Top(w) \in made
<1>1. ins[w] \in InsertCall /\ ins[w].key \in Key /\ ins[w].value \in Value
  BY DEF TrieInv, TypeOK, InsertCall
<1>2. stack[w] \in Seq(Node)
  BY DEF TrieInv, TypeOK
<1>3. /\ Len(stack[w]) \in 1..(Depth + 1)
      /\ \A i \in 1..Len(stack[w]) :
             stack[w][i] = At(Prefix(ins[w].key, i - 1)) /\ stack[w][i] \in made
  BY DEF TrieInv, StackInv
<1>4. Len(stack[w]) \in Nat \ {0} /\ Len(stack[w]) \in 1..Len(stack[w])
  BY <1>3, TrieAssumption
<1> QED
  BY <1>1, <1>2, <1>3, <1>4 DEF Top

LEMMA InsertStep ==
    ASSUME TrieInv, OneWriter, NEW w \in Writer, NEW k \in Key, NEW v \in Value,
           Insert(w, k, v)
    PROVE  TrieInv'
<1> DEFINE c == [key |-> k, value |-> v]
<1>t. TypeOK
  BY DEF TrieInv
<1>1. c \in InsertCall /\ c # None /\ c.key = k /\ c.value = v
  BY TrieAssumption DEF InsertCall
<1>2. /\ made' = made /\ child' = child /\ value' = value /\ hash' = hash
      /\ kvMap' = kvMap /\ rising' = rising /\ get' = get
      /\ ins' = [ins EXCEPT ![w] = c] /\ stack' = [stack EXCEPT ![w] = <<Root>>]
  BY DEF Insert, trieVars
<1> HIDE DEF c
<1>3. \A u \in Writer : u = w
  BY DEF OneWriter
<1>4. ins[w] = None /\ rising = {}
  BY <1>t, <1>3 DEF Insert, TrieInv, StackInv, TypeOK
<1>5. ins'[w] = c /\ stack'[w] = <<Root>>
  BY <1>t, <1>2 DEF TypeOK
<1>6. legal' = [r \in Reader |-> IF get[r] # None /\ get[r].key = k
                                 THEN legal[r] \cup {v, Torn} ELSE legal[r]]
  BY DEF Insert
<1>7. \A r \in Reader : /\ legal[r] \subseteq legal'[r]
                        /\ get[r] # None /\ get[r].key = k => {v, Torn} \subseteq legal'[r]
  BY <1>6
<1>8. TypeOK'
  <2>1. <<Root>> \in Seq(Node)
    BY <1>t DEF TypeOK
  <2>2. legal' \in [Reader -> SUBSET (Value \cup {None, Torn})]
    BY <1>t, <1>6 DEF TypeOK
  <2> QED
    BY <1>t, <1>1, <1>2, <2>1, <2>2 DEF TypeOK
<1>9. TreeInv'
  BY <1>2 DEF TrieInv, TreeInv
<1>10. StackInv'
  <2>1. Root = At(Prefix(k, 0)) /\ Root \in made
    BY <1>t, KeyShape, PrefixEnds, AtShape DEF TypeOK
  <2>2. Len(<<Root>>) = 1 /\ <<Root>>[1] = Root /\ 1 \in 1..(Depth + 1)
    BY TrieAssumption
  <2>3. \A i \in 1..1 : i = 1 /\ i - 1 = 0
    OBVIOUS
  <2>4. /\ Len(stack'[w]) \in 1..(Depth + 1)
        /\ \A i \in 1..Len(stack'[w]) :
               stack'[w][i] = At(Prefix(k, i - 1)) /\ stack'[w][i] \in made
    BY <1>5, <2>1, <2>2, <2>3
  <2>5. ins'[w] # None /\ ins'[w].key = k /\ w \notin rising'
    BY <1>1, <1>2, <1>4, <1>5
  <2> QED
    BY <1>2, <1>3, <2>4, <2>5 DEF StackInv
<1>11. ReachInv'
  <2>1. \A n \in made : \A i \in 1..Len(n.place) : LinkedAt(n.place, i)
    BY <1>3, <1>4 DEF TrieInv, ReachInv
  <2> QED
    BY <1>2, <2>1 DEF ReachInv, LinkedAt
<1>12. ValueInv'
  <2>1. \A j \in Key : value[At(j)] = kvMap[j]
    BY <1>3, <1>4 DEF TrieInv, ValueInv, Inserting
  <2> QED
    BY <1>2, <1>4, <2>1 DEF TrieInv, ValueInv, LinkedAt
<1>13. HashInv'
  <2>1. \A n \in made : hash[n] = ContentHash(kvMap)[n.place]
    BY <1>3, <1>4 DEF TrieInv, HashInv, OnWay
  <2> QED
    BY <1>2, <1>4, <2>1 DEF HashInv
<1>14. GetInv'
  <2>1. ASSUME NEW r \in Reader, get[r] # None, NEW u \in Inserting(get[r].key)'
        PROVE  {ins'[u].value, Torn} \subseteq legal'[r]
    <3>1. u = w /\ get[r].key = k
      BY <1>1, <1>2, <1>3, <1>5, <2>1 DEF Inserting
    <3> QED
      BY <1>1, <1>5, <1>7, <2>1, <3>1
  <2> QED
    BY <1>2, <1>7, <2>1 DEF TrieInv, GetInv, LinkedAt
<1> QED
  BY <1>8, <1>9, <1>10, <1>11, <1>12, <1>13, <1>14 DEF TrieInv

\* A step of an Insert that leaves the values, the map and the readers alone and
\* takes no link away disturbs no Get.
LEMMA ReadersUndisturbed ==
    ASSUME TrieInv, kvMap' = kvMap, ins' = ins, get' = get, legal' = legal,
           \A p, i : LinkedAt(p, i) => LinkedAt(p, i)'
    PROVE  GetInv'
<1>1. \A j : Inserting(j)' = Inserting(j)
  BY DEF Inserting
<1> QED
  BY <1>1 DEF TrieInv, GetInv

LEMMA DescendStep ==
    ASSUME TrieInv, OneWriter, NEW w \in Writer, Descend(w)
    PROVE  TrieInv'
<1> DEFINE k == ins[w].key
           d == Len(stack[w])
           n == At(Prefix(k, d))
<1>t. TypeOK
  BY DEF TrieInv
<1>1. /\ child' = child /\ value' = value /\ hash' = hash
      /\ kvMap' = kvMap /\ ins' = ins /\ rising' = rising /\ get' = get /\ legal' = legal
      /\ ins[w] # None /\ w \notin rising /\ d <= Depth
  BY DEF Descend
<1>2. \A u \in Writer : u = w
  BY DEF OneWriter
<1>3. /\ k \in Key /\ stack[w] \in Seq(Node) /\ d \in 1..(Depth + 1) /\ d \in Nat \ {0}
      /\ \A i \in 1..d : stack[w][i] = At(Prefix(k, i - 1)) /\ stack[w][i] \in made
      /\ Top(w) = At(Prefix(k, d - 1))
  BY <1>1, Inside
<1>4. /\ Depth \in Nat /\ k \in Place /\ Len(k) = Depth /\ d \in 1..Len(k)
      /\ d \in 0..Len(k) /\ d - 1 \in 0..Len(k) /\ k[d] \in Bit
  BY <1>1, <1>3, TrieAssumption, KeyShape DEF Key
<1>5. /\ Prefix(k, d) \in Place /\ Prefix(k, d - 1) \in Place
      /\ Append(Prefix(k, d - 1), k[d]) = Prefix(k, d)
      /\ Len(Prefix(k, d)) = d
  BY <1>4, PrefixShape, PrefixGrows
<1>6. n \in Node /\ n.place = Prefix(k, d) /\ n.copy = 0 /\ Top(w).place = Prefix(k, d - 1)
  BY <1>3, <1>5, AtShape
<1>7. /\ made \subseteq made' /\ made' \subseteq made \cup {n} /\ n \in made'
      /\ stack' = [stack EXCEPT ![w] = Append(stack[w], n)]
  <2> DEFINE next == child[Top(w)][k[d]]
             place == Append(Top(w).place, k[d])
  <2>1. place = Prefix(k, d)
    BY <1>5, <1>6
  <2>2. CASE next # Nil
    <3>1. next = n /\ next \in made
      <4> DEFINE P == Prefix(k, d - 1)
                 b == k[d]
      <4>1. next = child[At(P)][b]
        BY <1>3
      <4>2. P \in Place /\ b \in Bit /\ n = At(Append(P, b))
        BY <1>4, <1>5
      <4> HIDE DEF P, b
      <4>3. child[At(P)][b] # Nil =>
                child[At(P)][b] = At(Append(P, b)) /\ At(Append(P, b)) \in made
        BY <4>2 DEF TrieInv, TreeInv
      <4> HIDE DEF next, n
      <4> QED
        BY <2>2, <4>1, <4>2, <4>3
    <3>2. stack' = [stack EXCEPT ![w] = Append(stack[w], next)] /\ made' = made
      BY <2>2 DEF Descend
    <3> QED
      BY <3>1, <3>2
  <2>3. CASE next = Nil
    <3>1. PICK c \in 0..MaxCopies - 1 :
              LET m == [place |-> place, copy |-> c] IN
              /\ m \notin made
              /\ \A e \in 0..c - 1 : [m EXCEPT !.copy = e] \in made
              /\ made' = made \cup {m}
              /\ stack' = [stack EXCEPT ![w] = Append(stack[w], m)]
      BY <2>3 DEF Descend
    <3>2. n \notin made
      <4>1. SUFFICES ASSUME n \in made PROVE FALSE
        OBVIOUS
      <4>2. d \in 1..Len(n.place) /\ Prefix(n.place, d - 1) = Prefix(k, d - 1)
            /\ n.place[d] = k[d]
        <5>1. d - 1 \in 0..d /\ d \in 1..d
          BY <1>3
        <5> QED
          BY <1>4, <1>5, <1>6, <5>1, PrefixShape
      <4>3. ~ LinkedAt(n.place, d)
        BY <1>3, <2>3, <4>2 DEF LinkedAt
      <4>4. \E u \in Writer : d < Len(stack[u])
        BY <4>1, <4>2, <4>3 DEF TrieInv, ReachInv
      <4> QED
        BY <1>2, <1>3, <4>4
    <3>3. c = 0
      <4>1. SUFFICES ASSUME c # 0 PROVE FALSE
        OBVIOUS
      <4>2. 0 \in 0..c - 1
        BY <3>1, <4>1, TrieAssumption
      <4>3. [[place |-> place, copy |-> c] EXCEPT !.copy = 0] = n
        BY <2>1 DEF At
      <4> QED
        BY <3>1, <3>2, <4>2, <4>3
    <3>4. [place |-> place, copy |-> c] = n
      BY <2>1, <3>3 DEF At
    <3> QED
      BY <3>1, <3>4
  <2> QED
    BY <2>2, <2>3
<1> HIDE DEF n
<1>8. /\ stack'[w] = Append(stack[w], n) /\ stack'[w] \in Seq(Node)
      /\ Len(stack'[w]) = d + 1 /\ stack'[w][d + 1] = n
      /\ \A i \in 1..d : stack'[w][i] = stack[w][i]
  <2>1. stack'[w] = Append(stack[w], n)
    BY <1>t, <1>7 DEF TypeOK
  <2> QED
    BY <1>3, <1>6, <2>1
<1>9. TypeOK'
  <2>1. made' \subseteq Node /\ Root \in made'
    BY <1>t, <1>6, <1>7 DEF TypeOK
  <2>2. stack' \in [Writer -> Seq(Node)]
    BY <1>t, <1>7, <1>8 DEF TypeOK
  <2> QED
    BY <1>t, <1>1, <2>1, <2>2 DEF TypeOK
<1>10. TreeInv'
  BY <1>1, <1>6, <1>7 DEF TrieInv, TreeInv
<1>11. StackInv'
  <2>1. \A i \in 1..(d + 1) : i \in 1..d \/ (i = d + 1 /\ i - 1 = d)
    BY <1>3
  <2>2. d + 1 \in 1..(Depth + 1)
    BY <1>1, <1>3, <1>4
  <2>3. \A i \in 1..(d + 1) : stack'[w][i] = At(Prefix(k, i - 1)) /\ stack'[w][i] \in made'
    BY <1>3, <1>7, <1>8, <2>1 DEF n
  <2> HIDE DEF d
  <2> QED
    BY <1>1, <1>2, <1>8, <2>2, <2>3 DEF StackInv
<1>12. ReachInv'
  <2>1. SUFFICES ASSUME NEW m \in made', NEW i \in 1..Len(m.place), ~ LinkedAt(m.place, i)
                 PROVE  i < d + 1 /\ m.place = Prefix(k, Len(m.place))
    BY <1>1, <1>8 DEF ReachInv, LinkedAt
  <2>2. CASE m \in made
    <3>1. i < d /\ m.place = Prefix(k, Len(m.place))
      BY <1>2, <2>1, <2>2 DEF TrieInv, ReachInv
    <3>2. i \in Int
      BY <2>1
    <3> QED
      BY <1>3, <3>1, <3>2
  <2>3. CASE m = n
    <3>1. Len(m.place) = d
      BY <1>5, <1>6, <2>3
    <3> QED
      BY <1>3, <1>6, <2>3, <3>1
  <2> QED
    BY <1>7, <2>2, <2>3
<1>13. ValueInv'
  BY <1>1 DEF TrieInv, ValueInv, LinkedAt, Inserting
<1>14. HashInv'
  <2>1. rising' = {}
    BY <1>t, <1>1, <1>2 DEF TypeOK
  <2>2. OnWay(n.place, w)
    BY <1>1, <1>5, <1>6 DEF OnWay
  <2> QED
    BY <1>1, <1>7, <2>1, <2>2 DEF TrieInv, HashInv, OnWay
<1>15. GetInv'
  BY <1>1, ReadersUndisturbed DEF LinkedAt
<1> QED
  BY <1>9, <1>10, <1>11, <1>12, <1>13, <1>14, <1>15 DEF TrieInv

\* The two steps at the leaf.
LEMMA AtLeaf ==
    ASSUME TrieInv, OneWriter, NEW w \in Writer, Len(stack[w]) = Depth + 1, w \notin rising
    PROVE  /\ ins[w] # None /\ ins[w].key \in Key /\ ins[w].value \in Value
           /\ Top(w) = At(ins[w].key) /\ Top(w) \in made
           /\ rising = {} /\ \A u \in Writer : u = w
           /\ \A j \in Key : At(j) \in Node /\ (j # ins[w].key => At(j) # Top(w))
<1>1. \A u \in Writer : u = w
  BY DEF OneWriter
<1>2. rising = {}
  BY <1>1 DEF TrieInv, TypeOK
<1>3. ins[w] # None
  <2>1. SUFFICES ASSUME ins[w] = None PROVE FALSE
    OBVIOUS
  <2>2. Len(stack[w]) = 0
    BY <2>1 DEF TrieInv, StackInv
  <2> QED
    BY <2>2, TrieAssumption
<1>4. /\ ins[w].key \in Key /\ ins[w].value \in Value
      /\ Top(w) = At(Prefix(ins[w].key, Len(stack[w]) - 1)) /\ Top(w) \in made
  BY <1>3, Inside
<1>5. Len(stack[w]) - 1 = Depth
  BY TrieAssumption
<1>6. Top(w) = At(ins[w].key)
  BY <1>4, <1>5, KeyShape
<1>7. \A j \in Key : At(j) \in Node /\ (j # ins[w].key => At(j) # Top(w))
  BY <1>6, KeyShape, AtShape
<1> QED
  BY <1>1, <1>2, <1>3, <1>4, <1>6, <1>7

LEMMA TouchLeafStep ==
    ASSUME TrieInv, OneWriter, NEW w \in Writer, TouchLeaf(w)
    PROVE  TrieInv'
<1> DEFINE n == Top(w)
<1>t. TypeOK
  BY DEF TrieInv
<1>1. /\ made' = made /\ child' = child /\ hash' = hash /\ kvMap' = kvMap /\ ins' = ins
      /\ stack' = stack /\ rising' = rising /\ get' = get /\ legal' = legal
      /\ value' = [value EXCEPT ![n] = Torn]
      /\ Len(stack[w]) = Depth + 1 /\ w \notin rising
  BY DEF TouchLeaf
<1>2. /\ ins[w] # None /\ ins[w].key \in Key /\ n = At(ins[w].key) /\ n \in made
      /\ rising = {} /\ \A u \in Writer : u = w
      /\ \A j \in Key : At(j) \in Node /\ (j # ins[w].key => At(j) # n)
  BY <1>1, AtLeaf
<1> HIDE DEF n
<1>3. value'[n] = Torn /\ \A m \in Node : m # n => value'[m] = value[m]
  BY <1>t, <1>1, <1>2 DEF TypeOK
<1>4. TypeOK'
  BY <1>t, <1>1 DEF TypeOK
<1>5. TreeInv' /\ StackInv' /\ ReachInv'
  BY <1>1 DEF TrieInv, TreeInv, StackInv, ReachInv, LinkedAt
<1>6. ValueInv'
  <2>1. \A j : Inserting(j)' = Inserting(j)
    BY <1>1 DEF Inserting
  <2>2. w \in Inserting(ins[w].key)
    BY <1>2 DEF Inserting
  <2>3. \A p, i : LinkedAt(p, i)' <=> LinkedAt(p, i)
    BY <1>1 DEF LinkedAt
  <2>4. SUFFICES ASSUME NEW j \in Key
                 PROVE  /\ kvMap[j] # None => \A i \in 1..Depth : LinkedAt(j, i)
                        /\ value'[At(j)] # kvMap[j] =>
                              \E u \in Inserting(j) : value'[At(j)] \in {ins[u].value, Torn}
    BY <1>1, <1>2, <2>1, <2>3 DEF ValueInv
  <2>5. CASE j = ins[w].key
    BY <1>2, <1>3, <2>2, <2>5 DEF TrieInv, ValueInv
  <2>6. CASE j # ins[w].key
    BY <1>2, <1>3, <2>6 DEF TrieInv, ValueInv
  <2> QED
    BY <2>5, <2>6
<1>7. HashInv'
  BY <1>1 DEF TrieInv, HashInv, OnWay, Inserted
<1>8. GetInv'
  BY <1>1, ReadersUndisturbed DEF LinkedAt
<1> QED
  BY <1>4, <1>5, <1>6, <1>7, <1>8 DEF TrieInv

\* The map an Insert leaves has its value for its key and the old ones elsewhere.
LEMMA InsertedIs ==
    ASSUME TrieInv, NEW w \in Writer, ins[w] # None
    PROVE  /\ Inserted(w)[ins[w].key] = ins[w].value
           /\ \A j \in Key : j # ins[w].key => Inserted(w)[j] = kvMap[j]
           /\ \A d \in 0..Depth :
                  Below(Inserted(w), Prefix(ins[w].key, d)) # {}
<1>1. ins[w].key \in Key /\ ins[w].value \in Value
  BY Inside
<1>2. kvMap \in [Key -> Value \cup {None}]
  BY DEF TrieInv, TypeOK
<1>3. /\ Inserted(w)[ins[w].key] = ins[w].value
      /\ \A j \in Key : j # ins[w].key => Inserted(w)[j] = kvMap[j]
  BY <1>1, <1>2 DEF Inserted
<1>4. ASSUME NEW d \in 0..Depth
      PROVE  ins[w].key \in Below(Inserted(w), Prefix(ins[w].key, d))
  <2>1. Len(Prefix(ins[w].key, d)) = d
    BY <1>1, KeyShape, PrefixShape
  <2>2. ins[w].value # None
    BY <1>1, TrieAssumption
  <2> QED
    BY <1>1, <1>3, <2>1, <2>2 DEF Below
<1> QED
  BY <1>3, <1>4

\* Off the way of an Insert it does not change the content.
LEMMA OffWay ==
    ASSUME TrieInv, NEW w \in Writer, ins[w] # None, NEW p \in Place, ~ OnWay(p, w)
    PROVE  ContentHash(Inserted(w))[p] = ContentHash(kvMap)[p]
<1>1. p # Prefix(ins[w].key, Len(p))
  BY DEF OnWay
<1>2. \A j \in Key : Prefix(j, Len(p)) = p => Inserted(w)[j] = kvMap[j]
  BY <1>1, InsertedIs
<1> QED
  BY <1>2, ContentHashLocal

LEMMA SetLeafStep ==
    ASSUME TrieInv, OneWriter, NEW w \in Writer, SetLeaf(w)
    PROVE  TrieInv'
<1> DEFINE n == Top(w)
           k == ins[w].key
           v == ins[w].value
<1>t. TypeOK
  BY DEF TrieInv
<1>1. /\ made' = made /\ child' = child /\ kvMap' = kvMap /\ ins' = ins
      /\ stack' = stack /\ rising' = rising \cup {w} /\ get' = get /\ legal' = legal
      /\ value' = [value EXCEPT ![n] = v] /\ hash' = [hash EXCEPT ![n] = Sum256(v)]
      /\ Len(stack[w]) = Depth + 1 /\ w \notin rising
  BY DEF SetLeaf
<1>2. /\ ins[w] # None /\ k \in Key /\ v \in Value /\ n = At(k) /\ n \in made
      /\ rising = {} /\ \A u \in Writer : u = w
      /\ \A j \in Key : At(j) \in Node /\ (j # k => At(j) # n)
  BY <1>1, AtLeaf
<1> HIDE DEF n
<1>3. /\ value'[n] = v /\ \A m \in Node : m # n => value'[m] = value[m]
      /\ hash'[n] = Sum256(v) /\ \A m \in Node : m # n => hash'[m] = hash[m]
  BY <1>t, <1>1, <1>2 DEF TypeOK
<1>4. TypeOK'
  <2>1. DOMAIN hash' = Node /\ hash' = [m \in Node |-> hash'[m]]
    BY <1>t, <1>1 DEF TypeOK
  <2> QED
    BY <1>t, <1>1, <1>2, <2>1 DEF TypeOK
<1>5. TreeInv' /\ ReachInv'
  BY <1>1 DEF TrieInv, TreeInv, ReachInv, LinkedAt
<1>6. StackInv'
  <2>1. \A i \in 1..Depth : ~ (i >= Depth + 1)
    BY TrieAssumption
  <2> QED
    BY <1>1, <1>2, <2>1 DEF TrieInv, StackInv, LinkedAt
<1>7. ValueInv'
  <2>1. \A j : Inserting(j)' = Inserting(j)
    BY <1>1 DEF Inserting
  <2>2. w \in Inserting(k) /\ \A j : \A u \in Inserting(j) : u = w /\ j = k
    BY <1>2 DEF Inserting
  <2>3. \A p, i : LinkedAt(p, i)' <=> LinkedAt(p, i)
    BY <1>1 DEF LinkedAt
  <2>4. SUFFICES ASSUME NEW j \in Key
                 PROVE  /\ kvMap[j] # None => \A i \in 1..Depth : LinkedAt(j, i)
                        /\ value'[At(j)] # kvMap[j] =>
                              \E u \in Inserting(j) : value'[At(j)] \in {ins[u].value, Torn}
                        /\ \A u \in Inserting(j) : value'[At(j)] = ins[u].value
    BY <1>1, <2>1, <2>3 DEF ValueInv
  <2>5. CASE j = k
    BY <1>2, <1>3, <2>2, <2>5 DEF TrieInv, ValueInv
  <2>6. CASE j # k
    BY <1>2, <1>3, <2>2, <2>6 DEF TrieInv, ValueInv
  <2> QED
    BY <2>5, <2>6
<1>8. HashInv'
  <2>1. \A p, u : OnWay(p, u)' <=> OnWay(p, u)
    BY <1>1 DEF OnWay
  <2>2. \A u : Inserted(u)' = Inserted(u)
    BY <1>1 DEF Inserted
  <2>3. ContentHash(Inserted(w))[k] = Sum256(v)
    <3>1. k \in Place /\ Len(k) = Depth /\ Prefix(k, Depth) = k /\ Depth \in 0..Depth
      BY <1>2, KeyShape, TrieAssumption
    <3>2. Below(Inserted(w), k) # {} /\ Inserted(w)[k] = v
      BY <1>2, <3>1, InsertedIs
    <3> QED
      BY <3>1, <3>2, ContentHashIs
  <2>4. SUFFICES ASSUME NEW m \in made
        PROVE  /\ (\A u \in Writer : ~ OnWay(m.place, u)) =>
                      hash'[m] = ContentHash(kvMap)[m.place]
               /\ OnWay(m.place, w) /\ Len(m.place) >= Depth =>
                      hash'[m] = ContentHash(Inserted(w))[m.place]
    <3>1. (Depth + 1) - 1 = Depth
      BY TrieAssumption
    <3> QED
      BY <1>1, <1>2, <2>1, <2>2, <2>4, <3>1 DEF HashInv
  <2>5. m \in Node /\ m = At(m.place) /\ m.place \in Place
    BY <1>t, AtShape DEF TrieInv, TreeInv, TypeOK, Node
  <2>6. ASSUME \A u \in Writer : ~ OnWay(m.place, u)
        PROVE  hash'[m] = ContentHash(kvMap)[m.place]
    <3>1. m.place # k
      BY <1>2, <2>6, KeyShape DEF OnWay
    <3>2. m # n
      BY <1>2, <3>1, AtShape
    <3> QED
      BY <1>3, <2>5, <2>6, <3>2 DEF TrieInv, HashInv
  <2>7. ASSUME OnWay(m.place, w), Len(m.place) >= Depth
        PROVE  hash'[m] = ContentHash(Inserted(w))[m.place]
    <3>1. Len(m.place) = Depth
      BY <2>5, <2>7, PlaceShape, TrieAssumption
    <3>2. m.place = k
      BY <1>2, <2>7, <3>1, KeyShape DEF OnWay
    <3> QED
      BY <1>2, <1>3, <2>3, <2>5, <3>2
  <2> QED
    BY <2>6, <2>7
<1>9. GetInv'
  BY <1>1, ReadersUndisturbed DEF LinkedAt
<1> QED
  BY <1>4, <1>5, <1>6, <1>7, <1>8, <1>9 DEF TrieInv

LEMMA InsertReturnsStep ==
    ASSUME TrieInv, OneWriter, NEW w \in Writer, InsertReturns(w)
    PROVE  TrieInv'
<1> DEFINE k == ins[w].key
           v == ins[w].value
<1>t. TypeOK
  BY DEF TrieInv
<1>1. /\ made' = made /\ child' = child /\ value' = value /\ hash' = hash
      /\ get' = get /\ legal' = legal
      /\ kvMap' = [kvMap EXCEPT ![k] = v] /\ ins' = [ins EXCEPT ![w] = None]
      /\ stack' = [stack EXCEPT ![w] = <<>>] /\ rising' = rising \ {w}
      /\ w \in rising /\ Len(stack[w]) = 1
  BY DEF InsertReturns, trieVars
<1>2. \A u \in Writer : u = w
  BY DEF OneWriter
<1>3. /\ ins[w] # None /\ rising' = {} /\ ins'[w] = None /\ stack'[w] = <<>>
      /\ kvMap' = Inserted(w)
  BY <1>t, <1>1, <1>2 DEF TrieInv, StackInv, TypeOK, Inserted
<1>4. k \in Key /\ v \in Value
  BY <1>3, Inside
<1>5. kvMap'[k] = v /\ \A j \in Key : j # k => kvMap'[j] = kvMap[j]
  BY <1>3, InsertedIs
<1>6. \A i \in 1..Depth : LinkedAt(k, i)
  <2>1. \A i \in 1..Depth : i >= Len(stack[w])
    BY <1>1, TrieAssumption
  <2> QED
    BY <1>1, <1>3, <2>1 DEF TrieInv, StackInv
<1>7. TypeOK'
  <2>1. <<>> \in Seq(Node)
    OBVIOUS
  <2> QED
    BY <1>t, <1>1, <1>4, <2>1 DEF TypeOK
<1>8. TreeInv'
  BY <1>1 DEF TrieInv, TreeInv
<1>9. StackInv'
  BY <1>2, <1>3 DEF StackInv
<1>10. ReachInv'
  <2>1. ASSUME NEW n \in made, NEW i \in 1..Len(n.place), ~ LinkedAt(n.place, i) PROVE FALSE
    <3>1. i < 1
      BY <1>1, <1>2, <2>1 DEF TrieInv, ReachInv
    <3> QED
      BY <2>1, <3>1
  <2> QED
    BY <1>1, <2>1 DEF ReachInv, LinkedAt
<1>11. ValueInv'
  <2>1. w \in Inserting(k) /\ \A j : \A u \in Inserting(j) : j = k
    BY <1>2, <1>3 DEF Inserting
  <2>2. value[At(k)] = v
    BY <1>1, <1>4, <2>1 DEF TrieInv, ValueInv
  <2>3. SUFFICES ASSUME NEW j \in Key
                 PROVE  /\ kvMap'[j] # None => \A i \in 1..Depth : LinkedAt(j, i)
                        /\ value[At(j)] = kvMap'[j]
    BY <1>1, <1>3 DEF ValueInv, LinkedAt
  <2>4. CASE j = k
    BY <1>5, <1>6, <2>2, <2>4
  <2>5. CASE j # k
    BY <1>5, <2>1, <2>5 DEF TrieInv, ValueInv
  <2> QED
    BY <2>4, <2>5
<1>12. HashInv'
  <2>1. SUFFICES ASSUME NEW n \in made PROVE hash[n] = ContentHash(Inserted(w))[n.place]
    BY <1>1, <1>3 DEF HashInv
  <2>2. n.place \in Place
    BY <1>t DEF TypeOK, Node
  <2>3. CASE OnWay(n.place, w)
    <3>1. Len(n.place) >= 1 - 1
      BY <2>2, PlaceShape
    <3> QED
      BY <1>1, <2>3, <3>1 DEF TrieInv, HashInv
  <2>4. CASE ~ OnWay(n.place, w)
    <3>1. hash[n] = ContentHash(kvMap)[n.place]
      BY <1>2, <2>4 DEF TrieInv, HashInv
    <3> QED
      BY <1>3, <2>2, <2>4, <3>1, OffWay
  <2> QED
    BY <2>3, <2>4
<1>13. GetInv'
  <2>1. \A j : Inserting(j)' = {}
    BY <1>2, <1>3 DEF Inserting
  <2>2. ASSUME NEW r \in Reader, get[r] # None PROVE kvMap'[get[r].key] \in legal[r]
    <3>1. get[r].key \in Key
      BY <1>t, <2>2 DEF TypeOK, GetCall
    <3>2. CASE get[r].key = k
      <4>1. w \in Inserting(get[r].key)
        BY <1>3, <3>2 DEF Inserting
      <4> QED
        BY <1>5, <2>2, <3>2, <4>1 DEF TrieInv, GetInv
    <3>3. CASE get[r].key # k
      BY <1>5, <2>2, <3>1, <3>3 DEF TrieInv, GetInv
    <3> QED
      BY <3>2, <3>3
  <2> QED
    BY <1>1, <2>1, <2>2 DEF TrieInv, GetInv, LinkedAt
<1> QED
  BY <1>7, <1>8, <1>9, <1>10, <1>11, <1>12, <1>13 DEF TrieInv

\* The hash a caller computes is the one of its content once the child's is.
LEMMA LinkHash ==
    ASSUME TrieInv, OneWriter, NEW w \in rising, ins[w] # None, NEW d \in 1..Depth,
           Len(stack[w]) = d + 1, NEW children,
           children = [child[At(Prefix(ins[w].key, d - 1))]
                          EXCEPT ![ins[w].key[d]] = At(Prefix(ins[w].key, d))]
    PROVE  RecalculateHash(children) = ContentHash(Inserted(w))[Prefix(ins[w].key, d - 1)]
<1> DEFINE k == ins[w].key
           P == Prefix(k, d - 1)
           h(n) == IF n = Nil THEN ZeroHash ELSE hash[n]
<1>t. TypeOK
  BY DEF TrieInv
<1>1. /\ w \in Writer /\ \A u \in Writer : u = w
  BY <1>t DEF OneWriter, TypeOK
<1>2. /\ k \in Key /\ k \in Place /\ Len(k) = Depth /\ Depth \in Nat /\ d \in Nat \ {0}
      /\ d \in 1..Len(k) /\ d \in 0..Len(k) /\ d - 1 \in 0..Len(k) /\ k[d] \in Bit
      /\ d - 1 \in 0..Depth
  <2>1. k \in Key
    BY <1>1, Inside
  <2>2. k \in Place /\ Len(k) = Depth /\ Depth \in Nat
    BY <2>1, KeyShape, TrieAssumption
  <2> HIDE DEF k
  <2> QED
    BY <2>1, <2>2 DEF Key
<1>3. /\ P \in Place /\ Len(P) = d - 1 /\ Append(P, k[d]) = Prefix(k, d)
      /\ Prefix(k, d) \in Place /\ Len(Prefix(k, d)) = d
  BY <1>2, PrefixShape, PrefixGrows
<1>4. /\ At(P) \in Node /\ child[At(P)] \in [Bit -> Node \cup {Nil}]
      /\ At(Prefix(k, d)) # Nil
  BY <1>t, <1>3, AtShape DEF TypeOK
<1>5. /\ children[k[d]] = At(Prefix(k, d))
      /\ \A b \in Bit : b # k[d] => children[b] = child[At(P)][b]
  BY <1>2, <1>4
<1>6. h(children[k[d]]) = ContentHash(Inserted(w))[Append(P, k[d])]
  <2> DEFINE c == At(Prefix(k, d))
  <2>1. c \in made /\ c.place = Prefix(k, d)
    <3>1. d + 1 \in 1..Len(stack[w]) /\ (d + 1) - 1 = d
      BY <1>2
    <3> QED
      BY <1>1, <3>1, Inside, AtShape
  <2>2. OnWay(c.place, w) /\ Len(c.place) >= Len(stack[w]) - 1
    BY <1>2, <1>3, <2>1 DEF OnWay
  <2>3. hash[c] = ContentHash(Inserted(w))[c.place]
    BY <2>1, <2>2 DEF TrieInv, HashInv
  <2> QED
    BY <1>3, <1>4, <1>5, <2>1, <2>3
<1>7. ASSUME NEW b \in Bit, b # k[d]
      PROVE  h(children[b]) = ContentHash(Inserted(w))[Append(P, b)]
  <2> DEFINE q == Append(P, b)
             c == child[At(P)][b]
  <2>1. Len(P) < Depth
    BY <1>2, <1>3
  <2>2. /\ q \in Place /\ Len(q) = d /\ q[d] = b
        /\ Prefix(q, d - 1) = P
    <3>1. Len(P) + 1 = d /\ d - 1 \in 0..Len(P)
      BY <1>2, <1>3
    <3>2. Prefix(q, d - 1) = Prefix(P, d - 1)
      BY <1>3, <3>1, AppendShape
    <3>3. Prefix(P, d - 1) = P
      BY <1>3, PrefixEnds
    <3> QED
      BY <1>3, <2>1, <3>1, <3>2, <3>3, AppendShape
  <2>3. children[b] = c
    BY <1>5, <1>7
  <2> HIDE DEF q, P, c
  <2>4. ASSUME NEW j \in Key, Prefix(j, d) = q
        PROVE  j # k /\ Prefix(j, d - 1) = P /\ j[d] = b
    <3>1. j \in Place /\ Len(j) = Depth /\ d \in 0..Len(j) /\ d \in 1..d /\ d - 1 \in 0..d
      BY <1>2, KeyShape
    <3>2. Prefix(j, d)[d] = j[d] /\ Prefix(Prefix(j, d), d - 1) = Prefix(j, d - 1)
      BY <3>1, PrefixShape
    <3> QED
      BY <1>7, <2>2, <2>4, <3>2
  <2>5. CASE c = Nil
    <3>1. ASSUME NEW j \in Key, Prefix(j, Len(q)) = q PROVE Inserted(w)[j] = None
      <4>1. j # k /\ Prefix(j, d - 1) = P /\ j[d] = b
        BY <2>2, <2>4, <3>1
      <4>2. ~ LinkedAt(j, d)
        BY <2>5, <4>1 DEF LinkedAt, c
      <4>3. kvMap[j] = None
        BY <4>2 DEF TrieInv, ValueInv
      <4> QED
        BY <1>1, <4>1, <4>3, InsertedIs
    <3>2. Below(Inserted(w), q) = {}
      BY <3>1 DEF Below
    <3> QED
      BY <2>2, <2>3, <2>5, <3>2, ContentHashIs DEF q
  <2>6. CASE c # Nil
    <3>1. c = At(q) /\ c \in made
      BY <1>3, <2>6 DEF TrieInv, TreeInv, q, c
    <3>2. ~ OnWay(q, w)
      BY <1>2, <2>2, <2>4 DEF OnWay
    <3>3. c.place = q
      BY <3>1, AtShape
    <3>4. hash[c] = ContentHash(kvMap)[q]
      BY <1>1, <3>1, <3>2, <3>3 DEF TrieInv, HashInv
    <3>5. ContentHash(Inserted(w))[q] = ContentHash(kvMap)[q]
      BY <1>1, <2>2, <3>2, OffWay
    <3> QED
      BY <2>3, <2>6, <3>4, <3>5 DEF q
  <2> QED
    BY <2>5, <2>6
<1>8. /\ h(children[0]) = ContentHash(Inserted(w))[Append(P, 0)]
      /\ h(children[1]) = ContentHash(Inserted(w))[Append(P, 1)]
  <2>1. 0 \in Bit /\ 1 \in Bit
    BY DEF Bit
  <2> HIDE DEF h, P
  <2> QED
    BY <1>6, <1>7, <2>1
<1>9. RecalculateHash(children) = <<h(children[0]), h(children[1])>>
  BY DEF RecalculateHash
<1>10. Below(Inserted(w), P) # {} /\ Len(P) # Depth
  <2>1. Below(Inserted(w), P) # {}
    BY <1>1, <1>2, InsertedIs
  <2> QED
    BY <1>2, <1>3, <2>1
<1> HIDE DEF h, P
<1>11. ContentHash(Inserted(w))[P] = <<ContentHash(Inserted(w))[Append(P, 0)],
                                       ContentHash(Inserted(w))[Append(P, 1)]>>
  BY <1>3, <1>10, ContentHashIs
<1> QED
  BY <1>8, <1>9, <1>11 DEF P

LEMMA LinkStep ==
    ASSUME TrieInv, OneWriter, NEW w \in Writer, Link(w)
    PROVE  TrieInv'
<1> DEFINE k == ins[w].key
           d == Len(stack[w]) - 1
           P == Prefix(k, d - 1)
           n == At(P)
           c == At(Prefix(k, d))
           children == [child[n] EXCEPT ![k[d]] = c]
           Then(p, i) == child'[At(Prefix(p, i - 1))][p[i]] # Nil
<1>t. TypeOK
  BY DEF TrieInv
<1>1. w \in rising /\ Len(stack[w]) > 1 /\ ins[w] # None /\ \A u \in Writer : u = w
  BY DEF Link, TrieInv, StackInv, OneWriter
<1>2. /\ k \in Key /\ stack[w] \in Seq(Node) /\ Len(stack[w]) \in 1..(Depth + 1)
      /\ \A i \in 1..Len(stack[w]) :
             stack[w][i] = At(Prefix(k, i - 1)) /\ stack[w][i] \in made
      /\ Top(w) = c /\ c \in made
  BY <1>1, Inside
<1>3. /\ k \in Place /\ Len(k) = Depth /\ Depth \in Nat /\ d \in Nat \ {0} /\ d \in 1..Depth
      /\ Len(stack[w]) = d + 1
      /\ d \in 1..Len(k) /\ d \in 0..Len(k) /\ d - 1 \in 0..Len(k) /\ k[d] \in Bit
  BY <1>1, <1>2, KeyShape, TrieAssumption DEF Key
<1>4. /\ P \in Place /\ Len(P) = d - 1 /\ Append(P, k[d]) = Prefix(k, d)
      /\ Prefix(k, d) \in Place /\ Len(Prefix(k, d)) = d
  BY <1>3, PrefixShape, PrefixGrows
<1>5. /\ Pop(w) \in Seq(Node) /\ Len(Pop(w)) = d
      /\ \A i \in 1..d : Pop(w)[i] = stack[w][i]
  <2>1. Pop(w) = SubSeq(stack[w], 1, d)
    BY DEF Pop
  <2> HIDE DEF d
  <2> QED
    BY <1>2, <1>3, <2>1
<1>6. Pop(w)[Len(Pop(w))] = n /\ n \in made
  <2>1. d \in 1..d /\ d \in 1..Len(stack[w])
    BY <1>3
  <2> QED
    BY <1>2, <1>5, <2>1
<1>7. /\ made' = made /\ value' = value /\ kvMap' = kvMap /\ ins' = ins
      /\ rising' = rising /\ get' = get /\ legal' = legal
      /\ child' = [child EXCEPT ![n] = children]
      /\ hash' = [hash EXCEPT ![n] = RecalculateHash(children)]
      /\ stack' = [stack EXCEPT ![w] = Pop(w)]
  BY <1>2, <1>5, <1>6 DEF Link
<1>8. n \in Node /\ c \in Node /\ c # Nil /\ n.place = P
  BY <1>4, AtShape
<1>9. /\ children \in [Bit -> Node \cup {Nil}] /\ children[k[d]] = c
      /\ \A b \in Bit : b # k[d] => children[b] = child[n][b]
  BY <1>t, <1>3, <1>8 DEF TypeOK
<1>10. RecalculateHash(children) = ContentHash(Inserted(w))[P]
  BY <1>1, <1>3, LinkHash
<1> HIDE DEF children, n, c, P, d
<1>11. /\ child'[n] = children /\ \A m \in Node : m # n => child'[m] = child[m]
       /\ hash'[n] = RecalculateHash(children)
       /\ \A m \in Node : m # n => hash'[m] = hash[m]
       /\ stack'[w] = Pop(w)
  BY <1>t, <1>7, <1>8 DEF TypeOK
<1>12. \A p \in Place, b \in Bit :
           \/ child'[At(p)][b] = child[At(p)][b]
           \/ p = P /\ b = k[d] /\ child'[At(p)][b] = c
  <2>1. SUFFICES ASSUME NEW p \in Place, NEW b \in Bit,
                        child'[At(p)][b] # child[At(p)][b]
                 PROVE  p = P /\ b = k[d] /\ child'[At(p)][b] = c
    OBVIOUS
  <2>2. At(p) \in Node
    BY AtShape
  <2>3. At(p) = n
    BY <1>11, <2>1, <2>2
  <2>4. p = P
    BY <2>3, AtShape DEF n
  <2> QED
    BY <1>9, <1>11, <2>1, <2>3, <2>4
<1>13. ASSUME NEW p \in Place, NEW i \in 1..Len(p), LinkedAt(p, i) PROVE Then(p, i)
  <2>1. i - 1 \in 0..Len(p) /\ p[i] \in Bit
    BY PlaceShape
  <2>2. Prefix(p, i - 1) \in Place
    BY <2>1, PrefixShape
  <2> QED
    BY <1>8, <1>12, <1>13, <2>1, <2>2 DEF LinkedAt
<1>14. ASSUME NEW p \in Place, d \in 1..Len(p), Prefix(p, d - 1) = P, p[d] = k[d]
       PROVE  Then(p, d)
  <2>1. child'[At(P)][k[d]] = c
    BY <1>9, <1>11 DEF n
  <2> QED
    BY <1>8, <1>14, <2>1 DEF LinkedAt
<1>15. TypeOK'
  <2>1. DOMAIN hash' = Node /\ hash' = [m \in Node |-> hash'[m]]
    BY <1>t, <1>7 DEF TypeOK
  <2>2. child' \in [Node -> [Bit -> Node \cup {Nil}]]
    BY <1>t, <1>7, <1>9 DEF TypeOK
  <2>3. stack' \in [Writer -> Seq(Node)]
    BY <1>t, <1>5, <1>7 DEF TypeOK
  <2> QED
    BY <1>t, <1>7, <2>1, <2>2, <2>3 DEF TypeOK
<1>16. TreeInv'
  <2>1. ASSUME NEW p \in Place, NEW b \in Bit, child'[At(p)][b] # Nil
        PROVE  child'[At(p)][b] = At(Append(p, b)) /\ At(Append(p, b)) \in made
    <3>1. CASE child'[At(p)][b] = child[At(p)][b]
      BY <2>1, <3>1 DEF TrieInv, TreeInv
    <3>2. CASE p = P /\ b = k[d] /\ child'[At(p)][b] = c
      BY <1>2, <1>4, <3>2 DEF c
    <3> QED
      BY <1>12, <3>1, <3>2
  <2> QED
    BY <1>7, <2>1 DEF TrieInv, TreeInv
<1>17. StackInv'
  <2>1. Len(stack'[w]) = d /\ d \in 1..(Depth + 1)
    BY <1>3, <1>5, <1>11
  <2>2. \A i \in 1..d : stack'[w][i] = At(Prefix(k, i - 1)) /\ stack'[w][i] \in made'
    <3>1. \A i \in 1..d : i \in 1..Len(stack[w])
      BY <1>3
    <3> QED
      BY <1>2, <1>5, <1>7, <1>11, <3>1
  <2>3. ASSUME NEW i \in 1..Depth, i >= d PROVE Then(k, i)
    <3>1. CASE i = d
      BY <1>3, <1>14, <3>1 DEF P
    <3>2. CASE i # d
      <4>1. i >= Len(stack[w]) /\ i \in 1..Len(k)
        BY <1>3, <2>3, <3>2
      <4>2. LinkedAt(k, i)
        BY <1>1, <2>3, <4>1 DEF TrieInv, StackInv
      <4> QED
        BY <1>3, <1>13, <4>1, <4>2
    <3> QED
      BY <3>1, <3>2
  <2>4. ins'[w] # None /\ ins'[w].key = k
    BY <1>1, <1>7
  <2> QED
    BY <1>1, <2>1, <2>2, <2>3, <2>4 DEF StackInv, LinkedAt
<1>18. ReachInv'
  <2>1. ASSUME NEW m \in made, NEW i \in 1..Len(m.place), ~ Then(m.place, i)
        PROVE  i < d /\ m.place = Prefix(k, Len(m.place))
    <3>1. m.place \in Place /\ Len(m.place) \in 0..Depth
      BY <1>t, PlaceShape DEF TypeOK, Node
    <3>2. ~ LinkedAt(m.place, i)
      BY <1>13, <2>1, <3>1
    <3>3. i < d + 1 /\ m.place = Prefix(k, Len(m.place))
      BY <1>1, <1>3, <2>1, <3>2 DEF TrieInv, ReachInv
    <3>4. i # d
      <4>1. SUFFICES ASSUME i = d PROVE FALSE
        OBVIOUS
      <4> DEFINE l == Len(m.place)
      <4>2. /\ l \in 0..Len(k) /\ d \in 1..l /\ d - 1 \in 0..l
        BY <1>3, <2>1, <3>1, <4>1
      <4>3. Prefix(k, l)[d] = k[d] /\ Prefix(Prefix(k, l), d - 1) = Prefix(k, d - 1)
        BY <1>3, <4>2, PrefixShape
      <4>4. Then(m.place, d)
        BY <1>14, <3>1, <3>3, <4>2, <4>3 DEF P
      <4> QED
        BY <2>1, <4>1, <4>4
    <3> QED
      BY <1>3, <2>1, <3>3, <3>4
  <2>2. Len(stack'[w]) = d /\ ins'[w] # None /\ ins'[w].key = k
    BY <1>1, <1>5, <1>7, <1>11
  <2> QED
    BY <1>7, <2>1, <2>2 DEF ReachInv, LinkedAt
<1>19. ValueInv'
  <2>1. \A j : Inserting(j)' = Inserting(j)
    BY <1>7 DEF Inserting
  <2>2. ASSUME NEW j \in Key, kvMap[j] # None, NEW i \in 1..Depth PROVE Then(j, i)
    <3>1. j \in Place /\ i \in 1..Len(j)
      BY KeyShape
    <3>2. LinkedAt(j, i)
      BY <2>2 DEF TrieInv, ValueInv
    <3> QED
      BY <1>13, <3>1, <3>2
  <2> QED
    BY <1>7, <2>1, <2>2 DEF TrieInv, ValueInv, LinkedAt
<1>20. HashInv'
  <2>1. \A p, u : OnWay(p, u)' <=> OnWay(p, u)
    BY <1>7 DEF OnWay
  <2>2. Inserted(w)' = Inserted(w)
    BY <1>7 DEF Inserted
  <2>3. \A u \in rising : u = w
    BY <1>t, <1>1 DEF TypeOK
  <2>4. Len(stack'[w]) = d
    BY <1>5, <1>11
  <2>5. SUFFICES ASSUME NEW m \in made
        PROVE  /\ (\A u \in Writer : ~ OnWay(m.place, u)) =>
                      hash'[m] = ContentHash(kvMap)[m.place]
               /\ OnWay(m.place, w) /\ Len(m.place) >= d - 1 =>
                      hash'[m] = ContentHash(Inserted(w))[m.place]
    BY <1>7, <2>1, <2>2, <2>3, <2>4, <2>5 DEF HashInv
  <2>6. m \in Node /\ m = At(m.place) /\ m.place \in Place
    BY <1>t, AtShape DEF TrieInv, TreeInv, TypeOK, Node
  <2>7. OnWay(P, w)
    BY <1>1, <1>4 DEF OnWay, P
  <2>8. ASSUME \A u \in Writer : ~ OnWay(m.place, u)
        PROVE  hash'[m] = ContentHash(kvMap)[m.place]
    <3>1. m # n
      BY <1>8, <2>7, <2>8
    <3> QED
      BY <1>11, <2>6, <2>8, <3>1 DEF TrieInv, HashInv
  <2>9. ASSUME OnWay(m.place, w), Len(m.place) >= d - 1
        PROVE  hash'[m] = ContentHash(Inserted(w))[m.place]
    <3>1. CASE m = n
      BY <1>8, <1>10, <1>11, <3>1
    <3>2. CASE m # n
      <4>1. Len(m.place) # d - 1
        BY <2>6, <2>9, <3>2 DEF OnWay, n, P
      <4>2. Len(m.place) >= Len(stack[w]) - 1
        BY <1>3, <2>6, <2>9, <4>1, PlaceShape
      <4>3. hash[m] = ContentHash(Inserted(w))[m.place]
        BY <1>1, <2>9, <4>2 DEF TrieInv, HashInv
      <4> QED
        BY <1>11, <2>6, <3>2, <4>3
    <3> QED
      BY <3>1, <3>2
  <2> QED
    BY <2>8, <2>9
<1>21. GetInv'
  <2>1. \A j : Inserting(j)' = Inserting(j)
    BY <1>7 DEF Inserting
  <2>2. ASSUME NEW r \in Reader, get[r] # None, NEW i \in 1..get[r].depth,
               LinkedAt(get[r].key, i)
        PROVE  Then(get[r].key, i)
    <3>1. get[r].key \in Key /\ get[r].depth \in 0..Depth
      BY <1>t, <2>2 DEF TypeOK, GetCall
    <3>2. get[r].key \in Place /\ i \in 1..Len(get[r].key)
      BY <2>2, <3>1, KeyShape, TrieAssumption
    <3> QED
      BY <1>13, <2>2, <3>2
  <2> QED
    BY <1>7, <2>1, <2>2 DEF TrieInv, GetInv, LinkedAt
<1> QED
  BY <1>15, <1>16, <1>17, <1>18, <1>19, <1>20, <1>21 DEF TrieInv

-----------------------------------------------------------------------------
(* Theorems about the trie *)

LEMMA TrieInvStep ==
    ASSUME OneWriter
    PROVE  TrieInv /\ [Next]_vars => TrieInv'
<1> SUFFICES ASSUME TrieInv, [Next]_vars PROVE TrieInv'
  OBVIOUS
<1>1. CASE UNCHANGED vars
  <2>1. /\ UNCHANGED <<trieVars, kvMap, ins, stack, rising>>
        /\ made' = made /\ child' = child /\ value' = value /\ hash' = hash
        /\ kvMap' = kvMap /\ ins' = ins /\ stack' = stack /\ rising' = rising
        /\ get' = get /\ legal' = legal
    BY <1>1 DEF vars, trieVars
  <2>2. TreeInv' /\ StackInv' /\ ReachInv' /\ ValueInv' /\ HashInv'
    BY <2>1, GetUndisturbing
  <2>3. TypeOK'
    BY <2>1 DEF TrieInv, TypeOK
  <2>4. GetInv'
    BY <2>1, ReadersUndisturbed DEF LinkedAt
  <2> QED
    BY <2>2, <2>3, <2>4 DEF TrieInv
<1> QED
  BY <1>1, InsertStep, DescendStep, TouchLeafStep, SetLeafStep, LinkStep,
     InsertReturnsStep, StartGetStep, StepGetStep, GetReturnsStep DEF Next

\* For any length of the keys, if one goroutine inserts at a time: between
\* inserts, the trie finds for every key what the map beside it holds.
THEOREM TrieMapCorrect ==
    ASSUME OneWriter
    PROVE  Spec => []TrieIsMap
<1>1. TrieInv => TrieIsMap
  <2> SUFFICES ASSUME TrieInv, Quiet, NEW k \in Key PROVE Lookup(k) = kvMap[k]
    BY DEF TrieIsMap
  <2>1. value[At(k)] = kvMap[k]
    BY DEF TrieInv, ValueInv, Quiet, Inserting
  <2>2. kvMap[k] # None => \A i \in 1..Depth : LinkedAt(k, i)
    BY DEF TrieInv, ValueInv
  <2>3. Lookup(k) = Held(k)
    BY LookupIsHeld DEF TrieInv
  <2> QED
    BY <2>1, <2>2, <2>3 DEF Held
<1> QED
  BY <1>1, TrieInvInit, TrieInvStep, PTL DEF Spec

\* For any length of the keys, if one goroutine inserts at a time: the root hash
\* is a function of the content alone, whatever was inserted or overwritten and
\* in whatever order.
THEOREM RootCorrect ==
    ASSUME OneWriter
    PROVE  Spec => []RootIsContent
<1>1. TrieInv => RootIsContent
  <2> SUFFICES ASSUME TrieInv, Quiet
               PROVE  hash[Root] = ContentHash(kvMap)[<<>>]
    BY DEF RootIsContent
  <2>1. Root \in made /\ Root.place = <<>>
    BY AtShape DEF TrieInv, TypeOK
  <2>2. \A w \in Writer : ~ OnWay(Root.place, w)
    BY DEF Quiet, OnWay
  <2> QED
    BY <2>1, <2>2 DEF TrieInv, HashInv
<1> QED
  BY <1>1, TrieInvInit, TrieInvStep, PTL DEF Spec

\* For any number of readers, without any lock between them and the one
\* inserting goroutine: a Get returns a value that its key had since the Get
\* began, or the torn value if its own key was inserted meanwhile.
THEOREM ReadsCorrect ==
    ASSUME OneWriter
    PROVE  Spec => []ReadsCurrent
<1>1. TrieInv => ReadsCurrent
  <2> SUFFICES ASSUME TrieInv, NEW r \in Reader, GetEnds(r)
               PROVE  GetResult(r) \in legal[r]
    BY DEF ReadsCurrent
  <2> DEFINE k == get[r].key
  <2>1. /\ get[r] # None /\ get[r] \in GetCall /\ k \in Key
        /\ get[r].node = Nil \/ get[r].depth = Depth
    BY DEF GetEnds, TrieInv, TypeOK, GetCall
  <2>2. /\ kvMap[k] \in legal[r]
        /\ \A w \in Inserting(k) : {ins[w].value, Torn} \subseteq legal[r]
        /\ get[r].node = Nil => None \in legal[r]
        /\ get[r].node # Nil => get[r].node = At(Prefix(k, get[r].depth))
    BY <2>1 DEF TrieInv, GetInv
  <2>3. CASE get[r].node = Nil
    BY <2>2, <2>3 DEF GetResult
  <2>4. CASE get[r].node # Nil
    <3>1. GetResult(r) = value[At(k)]
      BY <2>1, <2>2, <2>4, KeyShape DEF GetResult
    <3>2. value[At(k)] # kvMap[k] =>
              \E w \in Inserting(k) : value[At(k)] \in {ins[w].value, Torn}
      BY <2>1 DEF TrieInv, ValueInv
    <3> QED
      BY <2>2, <3>1, <3>2
  <2> QED
    BY <2>3, <2>4
<1> QED
  BY <1>1, TrieInvInit, TrieInvStep, PTL DEF Spec

\* Linking a child takes no link away.
LEMMA LinksKept ==
    ASSUME TrieInv, NEW w \in Writer, Link(w), NEW p \in Place, NEW i \in 1..Len(p),
           LinkedAt(p, i)
    PROVE  LinkedAt(p, i)'
<1> DEFINE up == Pop(w)
           n == up[Len(up)]
           b == ins[w].key[Len(up)]
           m == At(Prefix(p, i - 1))
<1>1. child' = [child EXCEPT ![n] = [child[n] EXCEPT ![b] = Top(w)]]
  BY DEF Link
<1>2. ins[w] # None
  BY DEF Link, TrieInv, StackInv
<1>3. Top(w) # Nil
  BY <1>2, Inside, AtShape DEF TrieInv, TypeOK
<1>4. child \in [Node -> [Bit -> Node \cup {Nil}]]
  BY DEF TrieInv, TypeOK
<1>5. i - 1 \in 0..Len(p) /\ p[i] \in Bit
  BY PlaceShape
<1>6. m \in Node
  BY <1>5, PrefixShape, AtShape
<1>7. child[m][p[i]] # Nil
  BY DEF LinkedAt
<1> HIDE DEF n, b, m
<1>8. child'[m][p[i]] # Nil
  BY <1>1, <1>3, <1>4, <1>5, <1>6, <1>7
<1> QED
  BY <1>8 DEF LinkedAt, m

\* What the trie holds for a key, in the next state.
LEMMA LookupNext == TrieInv' => \A k \in Key : Lookup(k)' = Held(k)'
<1> DEFINE Same == \A k \in Key : Lookup(k) = Held(k)
<1>1. TrieInv => Same
  BY LookupIsHeld DEF TrieInv
<1>2. TrieInv' => Same'
  <2> HIDE DEF Same
  <2> QED
    BY <1>1, PTL
<1> QED
  BY <1>2

\* For any length of the keys, if one goroutine inserts at a time: no step of an
\* Insert changes what the trie holds for another key, nor its own key's value
\* to anything but the inserted or the torn one.
THEOREM LocalCorrect ==
    ASSUME OneWriter
    PROVE  Spec => InsertLocal
<1>1. TrieInv /\ TrieInv' /\ [Next]_vars =>
          [\A k \in Key : Lookup(k)' # Lookup(k) =>
              \E w \in Inserting(k) : Lookup(k)' \in {ins[w].value, Torn}]_vars
  <2> SUFFICES ASSUME TrieInv, TrieInv', Next, NEW k \in Key, Lookup(k)' # Lookup(k)
               PROVE  \E w \in Inserting(k) : Lookup(k)' \in {ins[w].value, Torn}
    OBVIOUS
  <2>1. Lookup(k) = Held(k)
    BY LookupIsHeld DEF TrieInv
  <2>2. Lookup(k)' = Held(k)'
    BY LookupNext
  <2> DEFINE Full == \A i \in 1..Depth : LinkedAt(k, i)
  <2>3. /\ Held(k) = IF Full THEN value[At(k)] ELSE None
        /\ Held(k)' = IF Full' THEN value'[At(k)] ELSE None
    BY DEF Held
  <2>4. ASSUME child' = child, value' = value PROVE FALSE
    <3>1. Full' <=> Full
      BY <2>4 DEF LinkedAt
    <3> QED
      BY <2>1, <2>2, <2>3, <2>4, <3>1
  <2>5. ASSUME NEW w \in Writer, Len(stack[w]) = Depth + 1, w \notin rising,
               child' = child, NEW x, value' = [value EXCEPT ![Top(w)] = x],
               x \in {ins[w].value, Torn}
        PROVE  \E u \in Inserting(k) : Lookup(k)' \in {ins[u].value, Torn}
    <3>1. /\ ins[w] # None /\ Top(w) = At(ins[w].key)
          /\ At(k) \in Node /\ (k # ins[w].key => At(k) # Top(w))
      BY <2>5, AtLeaf
    <3>2. Full' <=> Full
      BY <2>5 DEF LinkedAt
    <3>3. value'[At(k)] # value[At(k)] /\ Full'
      BY <2>1, <2>2, <2>3, <3>2
    <3>4. value \in [Node -> Value \cup {None, Torn}]
      BY DEF TrieInv, TypeOK
    <3>5. At(k) = Top(w) /\ k = ins[w].key
      BY <2>5, <3>1, <3>3, <3>4
    <3>6. Lookup(k)' = x
      BY <2>2, <2>3, <2>5, <3>1, <3>3, <3>4, <3>5
    <3>7. w \in Inserting(k)
      BY <3>1, <3>5 DEF Inserting
    <3> QED
      BY <2>5, <3>6, <3>7
  <2>6. ASSUME NEW w \in Writer, Link(w)
        PROVE  \E u \in Inserting(k) : Lookup(k)' \in {ins[u].value, Torn}
    <3>1. /\ value' = value /\ kvMap' = kvMap /\ ins' = ins /\ rising' = rising
          /\ w \in rising /\ ins[w] # None /\ \A u \in Writer : u = w
      BY <2>6 DEF Link, TrieInv, StackInv, OneWriter
    <3>2. Lookup(k) # kvMap[k] => \E u \in Inserting(k) : TRUE
      BY <2>1, <2>3 DEF TrieInv, ValueInv
    <3>3. (\A u \in Inserting(k) : FALSE) => Held(k)' = kvMap[k]
      <4>1. SUFFICES ASSUME \A u \in Inserting(k) : FALSE PROVE Held(k)' = kvMap[k]
        OBVIOUS
      <4>2. value[At(k)] = kvMap[k]
        BY <4>1 DEF TrieInv, ValueInv
      <4>3. kvMap'[k] # None => Full'
        BY DEF TrieInv, ValueInv
      <4> QED
        BY <2>3, <3>1, <4>2, <4>3
    <3>4. w \in Inserting(k)
      BY <2>2, <3>1, <3>2, <3>3 DEF Inserting
    <3>5. value[At(k)] = ins[w].value
      BY <3>1, <3>4 DEF TrieInv, ValueInv
    <3>6. Full'
      <4>1. SUFFICES ASSUME ~ Full' PROVE FALSE
        OBVIOUS
      <4>2. Held(k)' = None /\ kvMap[k] = None
        BY <2>3, <3>1, <4>1 DEF TrieInv, ValueInv
      <4>3. Full
        BY <2>1, <2>2, <2>3, <4>2
      <4>4. k \in Place /\ Len(k) = Depth
        BY KeyShape
      <4>5. ASSUME NEW i \in 1..Depth, LinkedAt(k, i) PROVE LinkedAt(k, i)'
        BY <2>6, <4>4, <4>5, LinksKept
      <4> QED
        BY <4>1, <4>3, <4>5
    <3> QED
      BY <2>2, <2>3, <3>1, <3>4, <3>5, <3>6
  <2>7. ASSUME NEW w \in Writer, NEW j \in Key, NEW v \in Value, Insert(w, j, v)
        PROVE  FALSE
    BY <2>4, <2>7 DEF Insert, trieVars
  <2>8. ASSUME NEW w \in Writer, Descend(w) PROVE FALSE
    BY <2>4, <2>8 DEF Descend
  <2>9. ASSUME NEW w \in Writer, InsertReturns(w) PROVE FALSE
    BY <2>4, <2>9 DEF InsertReturns, trieVars
  <2>10. ASSUME NEW r \in Reader, NEW j \in Key, StartGet(r, j) PROVE FALSE
    BY <2>4, <2>10 DEF StartGet, trieVars
  <2>11. ASSUME NEW r \in Reader, StepGet(r) \/ GetReturns(r) PROVE FALSE
    BY <2>4, <2>11 DEF StepGet, GetReturns, trieVars
  <2>12. ASSUME NEW w \in Writer, TouchLeaf(w)
         PROVE  \E u \in Inserting(k) : Lookup(k)' \in {ins[u].value, Torn}
    BY <2>5, <2>12 DEF TouchLeaf
  <2>13. ASSUME NEW w \in Writer, SetLeaf(w)
         PROVE  \E u \in Inserting(k) : Lookup(k)' \in {ins[u].value, Torn}
    BY <2>5, <2>13 DEF SetLeaf
  <2> HIDE DEF Full
  <2> QED
    BY <2>6, <2>7, <2>8, <2>9, <2>10, <2>11, <2>12, <2>13 DEF Next
<1> QED
  BY <1>1, TrieInvInit, TrieInvStep, PTL DEF Spec, InsertLocal
=============================================================================
