----------------------------- MODULE MerkleTrie -----------------------------
(***************************************************************************)
(* The trie under the accounts (merkle_trie.go): Insert as the steps of    *)
(* its recursion on a heap of nodes, Get walking the same nodes without a  *)
(* lock, and the key-value map beside them.  An address is a key of Depth  *)
(* bits.  SHA3 is taken to be free of collisions: a hash is the term it is *)
(* computed from.  A value is a slice, assigned word by word: a Get that   *)
(* reads it meanwhile finds neither the old nor the new one but Torn, a    *)
(* pointer and a length that do not belong together.                       *)
(*                                                                         *)
(* A node of the heap is named by its place in the trie and the number of  *)
(* nodes made for that place before it.                                    *)
(***************************************************************************)
EXTENDS Integers, Sequences

CONSTANTS
    Depth,      \* bits of a key, 160 in the code
    Value,      \* account data
    None,       \* "no value", Go's nil
    Torn,       \* a slice half assigned
    Writer,     \* goroutines that may be in Insert at the same time
    Reader,     \* goroutines that may be in Get
    MaxCopies   \* bound: nodes made for one place

Bit == {0, 1}
Key == [1..Depth -> Bit]
Place == UNION {[1..d -> Bit] : d \in 0..Depth}
Node == [place : Place, copy : 0..MaxCopies - 1]
Nil == [place |-> <<>>, copy |-> MaxCopies]
Root == [place |-> <<>>, copy |-> 0]

InsertCall == [key : Key, value : Value]
GetCall == [key : Key, node : Node \cup {Nil}, depth : 0..Depth]

ASSUME TrieAssumption ==
    /\ Depth \in Nat \ {0}
    /\ None \notin Value /\ Torn \notin Value \cup {None}
    /\ None \notin InsertCall \cup GetCall
    /\ MaxCopies \in Nat \ {0}

VARIABLES
    made,      \* the nodes allocated
    child,     \* [Node -> [Bit -> Left and Right: a node or Nil]]
    value,     \* [Node -> Value, None or Torn]
    hash,      \* [Node -> its Hash]
    kvMap,     \* [Key -> Value or None]
    ins,       \* [Writer -> the key and value of its Insert, or None]
    stack,     \* [Writer -> the nodes of the calls of insert, outermost first]
    rising,    \* the writers whose innermost call has returned
    get,       \* [Reader -> the key, node and result of its Get, or None]
    legal      \* [Reader -> the values the key had since the Get began, Torn if
               \* an Insert of the key was under way]

trieVars == <<made, child, value, hash>>
vars == <<trieVars, kvMap, ins, stack, rising, get, legal>>

ZeroHash == <<>>
Sum256(v) == <<v>>

\* recalculateHash, of a node with these children.
RecalculateHash(children) ==
    LET h(n) == IF n = Nil THEN ZeroHash ELSE hash[n]
    IN  <<h(children[0]), h(children[1])>>

Init ==
    /\ made = {Root}
    /\ child = [n \in Node |-> [b \in Bit |-> Nil]]
    /\ value = [n \in Node |-> None]
    /\ hash = [n \in Node |-> ZeroHash]
    /\ kvMap = [k \in Key |-> None]
    /\ ins = [w \in Writer |-> None]
    /\ stack = [w \in Writer |-> <<>>]
    /\ rising = {}
    /\ get = [r \in Reader |-> None]
    /\ legal = [r \in Reader |-> {}]

-----------------------------------------------------------------------------
(* Insert *)

Top(w) == stack[w][Len(stack[w])]
Pop(w) == SubSeq(stack[w], 1, Len(stack[w]) - 1)

\* The nodes on the way to k, by depth.
Walk(k) ==
    LET at[d \in 0..Depth] ==
            IF d = 0 THEN Root
            ELSE IF at[d - 1] = Nil THEN Nil ELSE child[at[d - 1]][k[d]]
    IN  at

\* What Get(k) would find now.
Lookup(k) == IF Walk(k)[Depth] = Nil THEN None ELSE value[Walk(k)[Depth]]

Insert(w, k, v) ==
    /\ ins[w] = None
    /\ ins' = [ins EXCEPT ![w] = [key |-> k, value |-> v]]
    /\ stack' = [stack EXCEPT ![w] = <<Root>>]
    /\ legal' = [r \in Reader |->
           IF get[r] # None /\ get[r].key = k
           THEN legal[r] \cup {v, Torn} ELSE legal[r]]
    /\ UNCHANGED <<trieVars, kvMap, rising, get>>

\* Mutant: a node is made although there is one.
DescendAnew(w) ==
    LET depth == Len(stack[w])
        n == [place |-> Append(Top(w).place, ins[w].key[depth]), copy |-> 0] IN
    /\ ins[w] # None /\ w \notin rising
    /\ depth <= Depth
    /\ made' = made \cup {n}
    /\ child' = [child EXCEPT ![n] = [b \in Bit |-> Nil]]
    /\ value' = [value EXCEPT ![n] = None]
    /\ stack' = [stack EXCEPT ![w] = Append(@, n)]
    /\ UNCHANGED <<hash, kvMap, ins, rising, get, legal>>

\* The recursive call; a missing child is made, and linked on the way back.
Descend(w) ==
    LET depth == Len(stack[w])
        next == child[Top(w)][ins[w].key[depth]]
        place == Append(Top(w).place, ins[w].key[depth]) IN
    /\ ins[w] # None /\ w \notin rising
    /\ depth <= Depth
    /\ \/ /\ next # Nil
          /\ stack' = [stack EXCEPT ![w] = Append(@, next)]
          /\ UNCHANGED made
       \/ /\ next = Nil
          /\ \E c \in 0..MaxCopies - 1 :
                LET n == [place |-> place, copy |-> c] IN
                /\ n \notin made
                /\ \A d \in 0..c - 1 : [n EXCEPT !.copy = d] \in made
                /\ made' = made \cup {n}
                /\ stack' = [stack EXCEPT ![w] = Append(@, n)]
    /\ UNCHANGED <<child, value, hash, kvMap, ins, rising, get, legal>>

\* The innermost call begins to assign the value.
TouchLeaf(w) ==
    /\ Len(stack[w]) = Depth + 1 /\ w \notin rising
    /\ value[Top(w)] # Torn
    /\ value' = [value EXCEPT ![Top(w)] = Torn]
    /\ UNCHANGED <<made, child, hash, kvMap, ins, stack, rising, get, legal>>

SetLeaf(w) ==
    /\ Len(stack[w]) = Depth + 1 /\ w \notin rising
    /\ value[Top(w)] = Torn
    /\ value' = [value EXCEPT ![Top(w)] = ins[w].value]
    /\ hash' = [hash EXCEPT ![Top(w)] = Sum256(ins[w].value)]
    /\ rising' = rising \cup {w}
    /\ UNCHANGED <<made, child, kvMap, ins, stack, get, legal>>

\* Mutant: a node that had the child keeps its hash.
LinkNewOnly(w) ==
    LET up == Pop(w)
        n == up[Len(up)]
        children == [child[n] EXCEPT ![ins[w].key[Len(up)]] = Top(w)] IN
    /\ w \in rising /\ Len(stack[w]) > 1
    /\ child' = [child EXCEPT ![n] = children]
    /\ hash' = [hash EXCEPT ![n] = IF child[n] = children /\ n # Root THEN @
                                   ELSE RecalculateHash(children)]
    /\ stack' = [stack EXCEPT ![w] = up]
    /\ UNCHANGED <<made, value, kvMap, ins, rising, get, legal>>

\* The return to the caller, which links the child and updates its hash.
Link(w) ==
    LET up == Pop(w)
        n == up[Len(up)]
        children == [child[n] EXCEPT ![ins[w].key[Len(up)]] = Top(w)] IN
    /\ w \in rising /\ Len(stack[w]) > 1
    /\ child' = [child EXCEPT ![n] = children]
    /\ hash' = [hash EXCEPT ![n] = RecalculateHash(children)]
    /\ stack' = [stack EXCEPT ![w] = up]
    /\ UNCHANGED <<made, value, kvMap, ins, rising, get, legal>>

\* Mutant: a key that is in the map keeps its value there.
InsertReturnsNewOnly(w) ==
    /\ w \in rising /\ Len(stack[w]) = 1
    /\ kvMap' = [kvMap EXCEPT ![ins[w].key] = IF @ = None THEN ins[w].value ELSE @]
    /\ ins' = [ins EXCEPT ![w] = None]
    /\ stack' = [stack EXCEPT ![w] = <<>>]
    /\ rising' = rising \ {w}
    /\ UNCHANGED <<trieVars, get, legal>>

\* t.Root is assigned the node it was; then the map is updated.
InsertReturns(w) ==
    /\ w \in rising /\ Len(stack[w]) = 1
    /\ kvMap' = [kvMap EXCEPT ![ins[w].key] = ins[w].value]
    /\ ins' = [ins EXCEPT ![w] = None]
    /\ stack' = [stack EXCEPT ![w] = <<>>]
    /\ rising' = rising \ {w}
    /\ UNCHANGED <<trieVars, get, legal>>

-----------------------------------------------------------------------------
(* Get *)

Inserting(k) == {w \in Writer : ins[w] # None /\ ins[w].key = k}

StartGet(r, k) ==
    /\ get[r] = None
    /\ get' = [get EXCEPT ![r] = [key |-> k, node |-> Root, depth |-> 0]]
    /\ legal' = [legal EXCEPT ![r] =
           {kvMap[k]} \cup UNION {{ins[w].value, Torn} : w \in Inserting(k)}]
    /\ UNCHANGED <<trieVars, kvMap, ins, stack, rising>>

\* Mutant: the bits are read from the other end.
StepGetReversed(r) ==
    /\ get[r] # None /\ get[r].depth < Depth
    /\ get[r].node # Nil
    /\ get' = [get EXCEPT ![r].node = child[@][get[r].key[Depth - get[r].depth]],
                          ![r].depth = @ + 1]
    /\ UNCHANGED <<trieVars, kvMap, ins, stack, rising, legal>>

StepGet(r) ==
    LET g == get[r] IN
    /\ g # None /\ g.depth < Depth
    /\ g.node # Nil
    /\ get' = [get EXCEPT ![r] = [key |-> g.key, depth |-> g.depth + 1,
                                  node |-> child[g.node][g.key[g.depth + 1]]]]
    /\ UNCHANGED <<trieVars, kvMap, ins, stack, rising, legal>>

GetEnds(r) ==
    get[r] # None /\ (get[r].node = Nil \/ get[r].depth = Depth)

\* The value is read when the walk ends.
GetResult(r) == IF get[r].node = Nil THEN None ELSE value[get[r].node]

GetReturns(r) ==
    /\ GetEnds(r)
    /\ get' = [get EXCEPT ![r] = None]
    /\ legal' = [legal EXCEPT ![r] = {}]
    /\ UNCHANGED <<trieVars, kvMap, ins, stack, rising>>

Next ==
    \/ \E w \in Writer, k \in Key, v \in Value : Insert(w, k, v)
    \/ \E w \in Writer : Descend(w)
    \/ \E w \in Writer : TouchLeaf(w)
    \/ \E w \in Writer : SetLeaf(w)
    \/ \E w \in Writer : Link(w)
    \/ \E w \in Writer : InsertReturns(w)
    \/ \E r \in Reader, k \in Key : StartGet(r, k)
    \/ \E r \in Reader : StepGet(r)
    \/ \E r \in Reader : GetReturns(r)

Spec == Init /\ [][Next]_vars

-----------------------------------------------------------------------------
(* Properties *)

Prefix(k, d) == [i \in 1..d |-> k[i]]

\* The keys that a map holds below a place.
Below(map, p) == {k \in Key : Prefix(k, Len(p)) = p /\ map[k] # None}

\* The hash of a trie that holds the pairs of a map below a place: what the
\* content alone determines.
ContentHash(map) ==
    LET h[p \in Place] ==
            IF Below(map, p) = {} THEN ZeroHash
            ELSE IF Len(p) = Depth THEN Sum256(map[p])
            ELSE <<h[Append(p, 0)], h[Append(p, 1)]>>
    IN  h

Quiet == \A w \in Writer : ins[w] = None

\* Whatever was inserted in whatever order, the root hash is the one its content
\* determines: two nodes with the same accounts, or one that imported another's
\* snapshot, have the same root.
RootIsContent == Quiet => hash[Root] = ContentHash(kvMap)[<<>>]

\* Between inserts the trie and the map, which Get and ExportSnapshot read, hold
\* the same.
TrieIsMap == Quiet => \A k \in Key : Lookup(k) = kvMap[k]

\* A step of Insert changes what the trie holds for no key but its own, and in
\* the end to no value but its own: other accounts never flicker while the path
\* of one is being made and linked.
InsertLocal ==
    [][\A k \in Key : Lookup(k)' # Lookup(k) =>
          \E w \in Inserting(k) : Lookup(k)' \in {ins[w].value, Torn}]_vars

\* A Get returns a value its key had since the Get began, whatever is inserted
\* meanwhile; only an Insert of the same key can spoil it.
ReadsCurrent == \A r \in Reader : GetEnds(r) => GetResult(r) \in legal[r]

(* What has to hold besides for these to be inductive, if one goroutine    *)
(* inserts at a time.                                                      *)

OneWriter == \A u, w \in Writer : u = w

TypeOK ==
    /\ made \subseteq Node /\ Root \in made
    /\ child \in [Node -> [Bit -> Node \cup {Nil}]]
    /\ value \in [Node -> Value \cup {None, Torn}]
    /\ DOMAIN hash = Node /\ hash = [n \in Node |-> hash[n]]
    /\ kvMap \in [Key -> Value \cup {None}]
    /\ ins \in [Writer -> InsertCall \cup {None}]
    /\ stack \in [Writer -> Seq(Node)]
    /\ rising \subseteq Writer
    /\ get \in [Reader -> GetCall \cup {None}]
    /\ legal \in [Reader -> SUBSET (Value \cup {None, Torn})]

\* The one node a place has.
At(p) == [place |-> p, copy |-> 0]

\* The parent of the node at depth i on the way to p has it as a child.
LinkedAt(p, i) == child[At(Prefix(p, i - 1))][p[i]] # Nil

\* A place has one node, and a child is the node of the next place.
TreeInv ==
    /\ \A n \in made : n.copy = 0
    /\ \A p \in Place, b \in Bit :
           child[At(p)][b] # Nil =>
               child[At(p)][b] = At(Append(p, b)) /\ At(Append(p, b)) \in made

\* The calls of insert are at the nodes on the way to the key.
StackInv ==
    \A w \in Writer :
        /\ ins[w] = None => stack[w] = <<>> /\ w \notin rising
        /\ ins[w] # None =>
              /\ Len(stack[w]) \in 1..(Depth + 1)
              /\ \A i \in 1..Len(stack[w]) :
                     stack[w][i] = At(Prefix(ins[w].key, i - 1)) /\ stack[w][i] \in made
              /\ w \in rising =>
                     \A i \in 1..Depth : i >= Len(stack[w]) => LinkedAt(ins[w].key, i)

\* A node is reachable but for the ones a call of insert still has to link.
ReachInv ==
    \A n \in made : \A i \in 1..Len(n.place) :
        ~ LinkedAt(n.place, i) =>
            \E w \in Writer : /\ ins[w] # None /\ i < Len(stack[w])
                              /\ n.place = Prefix(ins[w].key, Len(n.place))

\* Leaves hold what the map holds, but for a key being inserted.
ValueInv ==
    \A k \in Key :
        /\ kvMap[k] # None => \A i \in 1..Depth : LinkedAt(k, i)
        /\ value[At(k)] # kvMap[k] =>
              \E w \in Inserting(k) : value[At(k)] \in {ins[w].value, Torn}
        /\ \A w \in Inserting(k) : w \in rising => value[At(k)] = ins[w].value

\* The map as the Insert of w will leave it.
Inserted(w) == [kvMap EXCEPT ![ins[w].key] = ins[w].value]

OnWay(p, w) == ins[w] # None /\ p = Prefix(ins[w].key, Len(p))

\* A node has the hash of its content: off the way of an Insert the old one, on
\* the part of it that has returned the new one.
HashInv ==
    \A n \in made :
        /\ (\A w \in Writer : ~ OnWay(n.place, w)) =>
              hash[n] = ContentHash(kvMap)[n.place]
        /\ \A w \in rising : OnWay(n.place, w) /\ Len(n.place) >= Len(stack[w]) - 1 =>
              hash[n] = ContentHash(Inserted(w))[n.place]

\* A Get stands on the way to its key, or has seen that the key had no value.
GetInv ==
    \A r \in Reader : get[r] # None =>
        /\ kvMap[get[r].key] \in legal[r]
        /\ \A w \in Inserting(get[r].key) : {ins[w].value, Torn} \subseteq legal[r]
        /\ get[r].node = Nil => None \in legal[r]
        /\ get[r].node # Nil =>
              /\ get[r].node = At(Prefix(get[r].key, get[r].depth))
              /\ \A i \in 1..get[r].depth : LinkedAt(get[r].key, i)

TrieInv ==
    TypeOK /\ TreeInv /\ StackInv /\ ReachInv /\ ValueInv /\ HashInv /\ GetInv

(* What holds only if State had a lock: TLC refutes this (README.md,       *)
(* section 6).                                                             *)

\* docs/TECHNICAL_SPEC.md: "Double Spending: Prevented by nonce validation and
\* state consistency": an account that is read is one that was written.
ReadsWhole == \A r \in Reader : GetEnds(r) => GetResult(r) # Torn
=============================================================================
