--------------------------- MODULE PeerBookProofs ---------------------------
(***************************************************************************)
(* Proofs about the two users of the peer books of BARNetwork.  Handshake: *)
(* type correctness, that trust is mutual (a node running this code is     *)
(* whitelisted only by peers it whitelisted first), and that the three     *)
(* lists stay apart and bans are final.  InactivityMonitor: type           *)
(* correctness, and that a peer is taken off a whitelist only with the     *)
(* reports for it.                                                         *)
(***************************************************************************)
EXTENDS Handshake, InactivityMonitor, FiniteSetTheorems, TLAPS

-----------------------------------------------------------------------------
(* Handshake *)

\* The books stay well typed when a sender is charged.
LEMMA ChargeTyped ==
    ASSUME BookTypeOK, NEW n \in Node, NEW p \in Node, NEW r \in Nat,
           UpdatePOMScore(n, p, 1, r), UNCHANGED round
    PROVE  BookTypeOK'
<1> USE HandshakeAssumption
<1> DEFINE score == pom[n][p] + 1
<1>1. CASE /\ p \notin white[n] \cup grey[n]
           /\ UNCHANGED <<white, grey, banned, pom, record>>
  BY <1>1 DEF BookTypeOK
<1>2. CASE /\ pom' = [pom EXCEPT ![n][p] = score]
           /\ DemoteToGreylist(n, p)
  <2>1. pom' \in [Node -> [Peer -> Nat]]
    BY <1>2 DEF BookTypeOK
  <2> QED BY <1>2, <2>1 DEF BookTypeOK, DemoteToGreylist, Include, Exclude
<1>3. CASE /\ pom' = [pom EXCEPT ![n][p] = score]
           /\ BanPeer(n, p, r)
  <2>1. pom' \in [Node -> [Peer -> Nat]]
    BY <1>3 DEF BookTypeOK
  <2>2. record' \in [Node -> [Peer -> Nat \cup {-1}]]
    BY <1>3 DEF BookTypeOK, BanPeer
  <2> QED BY <1>3, <2>1, <2>2 DEF BookTypeOK, BanPeer, Include, Exclude
<1>4. CASE /\ pom' = [pom EXCEPT ![n][p] = score]
           /\ UNCHANGED <<white, grey, banned, record>>
  <2>1. pom' \in [Node -> [Peer -> Nat]]
    BY <1>4 DEF BookTypeOK
  <2> QED BY <1>4, <2>1 DEF BookTypeOK
<1> QED BY <1>1, <1>2, <1>3, <1>4 DEF UpdatePOMScore

\* Charging a peer whitelists nobody.
LEMMA ChargeShrinks ==
    ASSUME BookTypeOK, NEW n \in Node, NEW p \in Node, NEW k, NEW r,
           UpdatePOMScore(n, p, k, r)
    PROVE  \A x \in Node : white'[x] \subseteq white[x]
<1>1. white' = white \/ white' = Exclude(white, n, p)
  BY DEF UpdatePOMScore, DemoteToGreylist, BanPeer
<1> QED BY <1>1 DEF BookTypeOK, Exclude

\* The same two facts for a handler that charges the sender of m.
LEMMA ChargeSender ==
    ASSUME TypeOK, NEW m \in Message, Charge(m)
    PROVE  BookTypeOK' /\ \A x \in Node : white'[x] \subseteq white[x]
<1>1. BookTypeOK /\ m.to \in Node /\ m.from \in Node /\ round[m.to] \in Nat
  BY DEF TypeOK, BookTypeOK, Message
<1>2. UpdatePOMScore(m.to, m.from, 1, round[m.to]) /\ UNCHANGED round
  BY DEF Charge
<1>3. BookTypeOK'
  BY <1>1, <1>2, ChargeTyped
<1>4. \A x \in Node : white'[x] \subseteq white[x]
  BY <1>1, <1>2, ChargeShrinks
<1> QED BY <1>3, <1>4

\* The answers to a ping are messages.
LEMMA ReplyTyped ==
    ASSUME NEW m \in Message
    PROVE  Reply(m.to, m) \subseteq Message
BY DEF Reply, Msg, Message

-----------------------------------------------------------------------------
(* Type correctness *)

\* The initial books, rounds and message sets are well typed.
LEMMA TypeInit == Init => TypeOK
BY HandshakeAssumption, BookAssumption
   DEF Init, BookInit, TypeOK, BookTypeOK

\* Every step of the node, of the network and of the clean-up keeps the types.
LEMMA TypeStep == TypeOK /\ [Next]_vars => TypeOK'
<1> SUFFICES ASSUME TypeOK, [Next]_vars PROVE TypeOK'
  OBVIOUS
<1> USE HandshakeAssumption, BookAssumption
<1>1. ASSUME NEW n \in Node, NEW p \in Node, Connect(n, p) PROVE TypeOK'
  <2>1. BookTypeOK'
    BY <1>1 DEF Connect, AddPeer, Include, TypeOK, BookTypeOK
  <2> QED BY <1>1, <2>1 DEF Connect, TypeOK
<1>2. ASSUME NEW n \in Node, ProducerRound(n) PROVE TypeOK'
  <2>1. hround' \in [Node -> 0..MaxRound]
    BY <1>2 DEF ProducerRound, TypeOK
  <2>2. BookTypeOK'
    BY <1>2 DEF ProducerRound, FindNodes, TypeOK, BookTypeOK
  <2> QED BY <1>2, <2>1, <2>2 DEF ProducerRound, TypeOK
<1>3. ASSUME NEW n \in Node, Cleanup(n) PROVE TypeOK'
  <2>1. record' \in [Node -> [Peer -> Nat \cup {-1}]]
    BY <1>3 DEF Cleanup, CleanupReputationRecords, TypeOK, BookTypeOK
  <2>2. BookTypeOK'
    BY <1>3, <2>1 DEF Cleanup, CleanupReputationRecords, TypeOK, BookTypeOK
  <2> QED BY <1>3, <2>2 DEF Cleanup, TypeOK
<1>4. ASSUME NEW n \in Node, NEW p \in Node, SendPing(n, p) PROVE TypeOK'
  <2>1. nPings' \in 0..MaxPings
    BY <1>4 DEF SendPing, TypeOK
  <2>2. CASE net' = net \cup {Msg("ping", n, p, hround[n])} /\ UNCHANGED bookVars
    <3>1. Msg("ping", n, p, hround[n]) \in Message
      BY DEF Msg, Message, TypeOK
    <3>2. BookTypeOK'
      BY <2>2 DEF TypeOK, BookTypeOK, bookVars
    <3> QED BY <1>4, <2>1, <2>2, <3>1, <3>2 DEF SendPing, TypeOK
  <2>3. CASE UpdatePOMScore(n, p, 1, round[n]) /\ UNCHANGED <<net, round>>
    <3>1. BookTypeOK /\ round[n] \in Nat
      BY DEF TypeOK, BookTypeOK
    <3>2. BookTypeOK'
      BY <2>3, <3>1, ChargeTyped
    <3> QED BY <1>4, <2>1, <2>3, <3>2 DEF SendPing, TypeOK
  <2> QED BY <1>4, <2>2, <2>3 DEF SendPing
<1>5. ASSUME NEW m \in net, HandlePing(m) PROVE TypeOK'
  <2>0. m \in Message
    BY DEF TypeOK
  <2>1. CASE BadSeed(m) /\ UNCHANGED judged
    BY <1>5, <2>0, <2>1, ChargeSender DEF BadSeed, HandlePing, TypeOK
  <2>2. CASE /\ FindNodes(m.to, m.round)
             /\ UNCHANGED <<white, grey, banned, pom, record>>
             /\ net' = (net \ {m}) \cup Reply(m.to, m) \/ net' = net \ {m}
             /\ judged' \in {judged, judged \cup {m}}
    <3>1. BookTypeOK'
      BY <2>0, <2>2 DEF FindNodes, Message, TypeOK, BookTypeOK
    <3>2. net' \subseteq Message /\ judged' \subseteq Message
      BY <2>0, <2>2, ReplyTyped DEF TypeOK
    <3> QED BY <1>5, <3>1, <3>2 DEF HandlePing, TypeOK
  <2> QED BY <1>5, <2>1, <2>2 DEF HandlePing
<1>6. ASSUME NEW m \in judged, ChargeUnselected(m) PROVE TypeOK'
  <2>0. m \in Message
    BY DEF TypeOK
  <2> QED BY <1>6, <2>0, ChargeSender DEF ChargeUnselected, TypeOK
<1>7. ASSUME NEW m \in net, HandlePong(m) PROVE TypeOK'
  <2>0. m \in Message /\ m.to \in Node /\ m.from \in Node
    BY DEF TypeOK, Message
  <2>1. CASE BadSeed(m) /\ UNCHANGED trusted
    BY <1>7, <2>0, <2>1, ChargeSender DEF BadSeed, HandlePong, TypeOK
  <2>2. CASE /\ PromoteToWhitelist(m.to, m.from)
             /\ trusted' = Include(trusted, m.to, m.from)
             /\ net' = net \ {m}
    <3>1. BookTypeOK'
      BY <2>0, <2>2 DEF PromoteToWhitelist, Include, Exclude, TypeOK, BookTypeOK
    <3>2. trusted' \in [Node -> SUBSET Node]
      BY <2>0, <2>2 DEF Include, TypeOK
    <3> QED BY <1>7, <2>2, <3>1, <3>2 DEF HandlePong, TypeOK
  <2>3. CASE UNCHANGED <<bookVars, trusted>> /\ net' = net \ {m}
    BY <1>7, <2>3 DEF HandlePong, TypeOK, BookTypeOK, bookVars
  <2> QED BY <1>7, <2>1, <2>2, <2>3 DEF HandlePong
<1>8. ASSUME NEW m \in net, HandleAck(m) PROVE TypeOK'
  <2>0. m \in Message
    BY DEF TypeOK
  <2>1. CASE BadSeed(m)
    BY <1>8, <2>0, <2>1, ChargeSender DEF BadSeed, HandleAck, TypeOK
  <2>2. CASE UNCHANGED bookVars /\ net' = net \ {m}
    BY <1>8, <2>2 DEF HandleAck, TypeOK, BookTypeOK, bookVars
  <2> QED BY <1>8, <2>1, <2>2 DEF HandleAck
<1>9. ASSUME NEW m \in net, Lose(m) PROVE TypeOK'
  BY <1>9 DEF Lose, TypeOK, BookTypeOK, bookVars
<1>10. CASE UNCHANGED vars
  BY <1>10 DEF vars, bookVars, TypeOK, BookTypeOK
<1> QED
  BY <1>1, <1>2, <1>3, <1>4, <1>5, <1>6, <1>7, <1>8, <1>9, <1>10 DEF Next, Handle

\* The handlers of handshake.go and the books of bar_network.go keep the shape
\* of their state in every network.
THEOREM TypeCorrect == Spec => []TypeOK
BY TypeInit, TypeStep, PTL DEF Spec

-----------------------------------------------------------------------------
(* Trust *)

\* A step that whitelists nobody, forgets no trust and sends no answer keeps
\* the trust invariant.
LEMMA TrustKept ==
    ASSUME TypeOK, TrustInv, UNCHANGED trusted,
           \A x \in Node : white'[x] \subseteq white[x],
           \A m \in net' : m \in net \/ m.type # "pong"
    PROVE  TrustInv'
BY DEF TrustInv, WhiteTrusted, TrustNeedsTrust, AnswersNeedTrust

\* Every step keeps the trust invariant: only handlePing's reply and
\* handlePong's promotion are not steps of the kind above.
LEMMA TrustStep == TypeOK /\ TrustInv /\ [Next]_vars => TrustInv'
<1> SUFFICES ASSUME TypeOK, TrustInv, [Next]_vars PROVE TrustInv'
  OBVIOUS
<1> USE HandshakeAssumption
<1>1. ASSUME NEW n \in Node, NEW p \in Node, Connect(n, p) PROVE TrustInv'
  BY <1>1, TrustKept DEF Connect, AddPeer
<1>2. ASSUME NEW n \in Node, ProducerRound(n) PROVE TrustInv'
  BY <1>2, TrustKept DEF ProducerRound
<1>3. ASSUME NEW n \in Node, Cleanup(n) PROVE TrustInv'
  BY <1>3, TrustKept DEF Cleanup, CleanupReputationRecords
<1>4. ASSUME NEW n \in Node, NEW p \in Node, SendPing(n, p) PROVE TrustInv'
  <2>1. \A m \in net' : m \in net \/ m.type # "pong"
    BY <1>4 DEF SendPing, Msg
  <2>2. BookTypeOK
    BY DEF TypeOK
  <2>3. \A x \in Node : white'[x] \subseteq white[x]
    BY <1>4, <2>2, ChargeShrinks DEF SendPing, bookVars
  <2> QED BY <1>4, <2>1, <2>3, TrustKept DEF SendPing
<1>5. ASSUME NEW m \in net, HandlePing(m) PROVE TrustInv'
  <2>0. m \in Message /\ m.to \in Node /\ m.from \in Node
    BY DEF TypeOK, Message
  <2>1. CASE BadSeed(m) /\ UNCHANGED judged
    BY <1>5, <2>0, <2>1, ChargeSender, TrustKept DEF BadSeed, HandlePing
  <2>2. CASE UNCHANGED white /\ net' = net \ {m}
    BY <1>5, <2>2, TrustKept DEF HandlePing
  <2>3. ASSUME NEW selected \in Selections(m.to),
               m.from \in selected \/ m.to \in Lenient,
               net' = (net \ {m}) \cup Reply(m.to, m), UNCHANGED white
        PROVE  TrustInv'
    <3>1. m.to \in Lenient \/ m.from \in trusted[m.to]
      BY <2>0, <2>3 DEF Selections, TrustInv, WhiteTrusted
    <3>2. \A a \in Reply(m.to, m) :
             a.type = "pong" => a.from = m.to /\ a.to = m.from
      BY DEF Reply, Msg
    <3>3. UNCHANGED trusted
      BY <1>5 DEF HandlePing
    <3>4. AnswersNeedTrust'
      BY <2>3, <3>1, <3>2, <3>3 DEF TrustInv, AnswersNeedTrust
    <3> QED BY <2>3, <3>3, <3>4 DEF TrustInv, WhiteTrusted, TrustNeedsTrust
  <2> QED BY <1>5, <2>1, <2>2, <2>3 DEF HandlePing
<1>6. ASSUME NEW m \in judged, ChargeUnselected(m) PROVE TrustInv'
  <2>0. m \in Message
    BY DEF TypeOK
  <2> QED BY <1>6, <2>0, ChargeSender, TrustKept DEF ChargeUnselected
<1>7. ASSUME NEW m \in net, HandlePong(m) PROVE TrustInv'
  <2>0. m \in Message /\ m.to \in Node /\ m.from \in Node
    BY DEF TypeOK, Message
  <2>1. CASE BadSeed(m) /\ UNCHANGED trusted
    BY <1>7, <2>0, <2>1, ChargeSender, TrustKept DEF BadSeed, HandlePong
  <2>2. CASE /\ PromoteToWhitelist(m.to, m.from)
             /\ trusted' = Include(trusted, m.to, m.from)
             /\ net' = net \ {m}
    <3>1. m.from \in Lenient \/ m.to \in trusted[m.from]
      BY <1>7 DEF HandlePong, Deliver, TrustInv, AnswersNeedTrust
    <3>2. \A x \in Node : trusted[x] \subseteq trusted'[x]
      BY <2>0, <2>2 DEF Include, TypeOK
    <3>3. \A x \in Node : \A y \in white'[x] :
             y \in white[x] \/ (x = m.to /\ y = m.from)
      BY <2>0, <2>2 DEF PromoteToWhitelist, Include, TypeOK, BookTypeOK
    <3>4. m.from \in trusted'[m.to]
      BY <2>0, <2>2 DEF Include, TypeOK
    <3>5. WhiteTrusted'
      BY <3>2, <3>3, <3>4 DEF TrustInv, WhiteTrusted
    <3>6. TrustNeedsTrust'
      <4> SUFFICES ASSUME NEW x \in Node, NEW y \in white'[x]
                   PROVE  y \in Lenient \/ x \in trusted'[y]
        BY DEF TrustNeedsTrust
      <4>1. y \in Node
        BY <2>0, <3>3 DEF TypeOK, BookTypeOK
      <4>2. y \in Lenient \/ x \in trusted[y]
        BY <3>1, <3>3 DEF TrustInv, TrustNeedsTrust
      <4> QED BY <4>1, <4>2, <3>2
    <3>7. AnswersNeedTrust'
      <4> SUFFICES ASSUME NEW a \in net', a.type = "pong"
                   PROVE  a.from \in Lenient \/ a.to \in trusted'[a.from]
        BY DEF AnswersNeedTrust
      <4>1. a \in net /\ a.from \in Node
        BY <2>2 DEF TypeOK, Message
      <4>2. a.from \in Lenient \/ a.to \in trusted[a.from]
        BY <4>1 DEF TrustInv, AnswersNeedTrust
      <4> QED BY <4>1, <4>2, <3>2
    <3> QED BY <3>5, <3>6, <3>7 DEF TrustInv
  <2>3. CASE UNCHANGED <<bookVars, trusted>> /\ net' = net \ {m}
    BY <2>3, TrustKept DEF bookVars
  <2> QED BY <1>7, <2>1, <2>2, <2>3 DEF HandlePong
<1>8. ASSUME NEW m \in net, HandleAck(m) PROVE TrustInv'
  <2>0. m \in Message
    BY DEF TypeOK
  <2>1. CASE BadSeed(m)
    BY <1>8, <2>0, <2>1, ChargeSender, TrustKept DEF BadSeed, HandleAck
  <2>2. CASE UNCHANGED bookVars /\ net' = net \ {m}
    BY <1>8, <2>2, TrustKept DEF HandleAck, bookVars
  <2> QED BY <1>8, <2>1, <2>2 DEF HandleAck
<1>9. ASSUME NEW m \in net, Lose(m) PROVE TrustInv'
  BY <1>9, TrustKept DEF Lose, bookVars
<1>10. CASE UNCHANGED vars
  BY <1>10, TrustKept DEF vars, bookVars
<1> QED
  BY <1>1, <1>2, <1>3, <1>4, <1>5, <1>6, <1>7, <1>8, <1>9, <1>10 DEF Next, Handle

\* A peer that runs handlePing as it is written gets onto a whitelist only of
\* nodes it has itself whitelisted, in a network of any size.
THEOREM TrustCorrect == Spec => []TrustNeedsTrust
<1>1. Init => TrustInv
  BY HandshakeAssumption
     DEF Init, BookInit, TrustInv, WhiteTrusted, TrustNeedsTrust, AnswersNeedTrust
<1>2. TypeOK /\ TrustInv /\ [Next]_vars => TrustInv'
  BY TrustStep
<1>3. TrustInv => TrustNeedsTrust
  BY DEF TrustInv
<1> QED BY <1>1, <1>2, <1>3, TypeCorrect, PTL DEF Spec

-----------------------------------------------------------------------------
(* The books *)

\* The four kinds of steps that handlers and producerLoop make on the books.
BookStep ==
    \/ UNCHANGED <<white, grey, banned, pom>>
    \/ \E n, p \in Node : AddPeer(n, p)
    \/ \E n, p \in Node : PromoteToWhitelist(n, p)
    \/ \E n, p \in Node : UpdatePOMScore(n, p, 1, round[n])

\* OneList is inductive with the finiteness of the whitelists; that banned peers
\* have the score for it is what the steps of a ban leave behind.
BannedScored ==
    \A n \in Node : \A p \in banned[n] : pom[n][p] >= POMBanThreshold

BookInv ==
    /\ OneList
    /\ \A n \in Node : IsFiniteSet(white[n])
    /\ BannedScored

\* Charging the sender of a message is a step of the fourth kind.
LEMMA ChargeIsBookStep ==
    ASSUME NEW m \in Message, Charge(m)
    PROVE  BookStep
<1>1. m.to \in Node /\ m.from \in Node
  BY DEF Message
<1> QED BY <1>1 DEF Charge, BookStep

\* Every step of the specification is one of these four on the books.
LEMMA NextIsBookStep == TypeOK /\ [Next]_vars => BookStep
<1> SUFFICES ASSUME TypeOK, [Next]_vars PROVE BookStep
  OBVIOUS
<1>m. net \subseteq Message /\ judged \subseteq Message
  BY DEF TypeOK
<1>1. ASSUME NEW n \in Node, NEW p \in Node, Connect(n, p) PROVE BookStep
  BY <1>1 DEF Connect, BookStep
<1>2. ASSUME NEW n \in Node, ProducerRound(n) PROVE BookStep
  BY <1>2 DEF ProducerRound, BookStep
<1>3. ASSUME NEW n \in Node, Cleanup(n) PROVE BookStep
  BY <1>3 DEF Cleanup, CleanupReputationRecords, BookStep
<1>4. ASSUME NEW n \in Node, NEW p \in Node, SendPing(n, p) PROVE BookStep
  BY <1>4 DEF SendPing, bookVars, BookStep
<1>5. ASSUME NEW m \in net, HandlePing(m) PROVE BookStep
  <2>1. BadSeed(m) => BookStep
    BY <1>m, ChargeIsBookStep DEF BadSeed
  <2> QED BY <1>5, <2>1 DEF HandlePing, BookStep
<1>6. ASSUME NEW m \in judged, ChargeUnselected(m) PROVE BookStep
  BY <1>m, <1>6, ChargeIsBookStep DEF ChargeUnselected
<1>7. ASSUME NEW m \in net, HandlePong(m) PROVE BookStep
  <2>1. BadSeed(m) => BookStep
    BY <1>m, ChargeIsBookStep DEF BadSeed
  <2>2. m.to \in Node /\ m.from \in Node
    BY <1>m DEF Message
  <2> QED BY <1>7, <2>1, <2>2 DEF HandlePong, bookVars, BookStep
<1>8. ASSUME NEW m \in net, HandleAck(m) PROVE BookStep
  <2>1. BadSeed(m) => BookStep
    BY <1>m, ChargeIsBookStep DEF BadSeed
  <2> QED BY <1>8, <2>1 DEF HandleAck, bookVars, BookStep
<1>9. ASSUME NEW m \in net, Lose(m) PROVE BookStep
  BY <1>9 DEF Lose, bookVars, BookStep
<1>10. CASE UNCHANGED vars
  BY <1>10 DEF vars, bookVars, BookStep
<1> QED
  BY <1>1, <1>2, <1>3, <1>4, <1>5, <1>6, <1>7, <1>8, <1>9, <1>10 DEF Next, Handle

\* A charge leaves the lists alone, demotes a whitelisted peer, or bans one that
\* has the score for it.
LEMMA ChargeKinds ==
    ASSUME BookTypeOK, NEW n \in Node, NEW p \in Node,
           UpdatePOMScore(n, p, 1, round[n])
    PROVE  \/ UNCHANGED <<white, grey, banned, pom>>
           \/ /\ p \in white[n] \cup grey[n]
              /\ pom' = [pom EXCEPT ![n][p] = pom[n][p] + 1]
              /\ \/ /\ p \in white[n]
                    /\ white' = Exclude(white, n, p) /\ grey' = Include(grey, n, p)
                    /\ UNCHANGED banned
                 \/ /\ pom[n][p] + 1 >= POMBanThreshold
                    /\ white' = Exclude(white, n, p) /\ grey' = Exclude(grey, n, p)
                    /\ banned' = Include(banned, n, p)
                 \/ UNCHANGED <<white, grey, banned>>
BY DEF UpdatePOMScore, DemoteToGreylist, BanPeer

\* A step that leaves the whitelists within what they were, and the books apart,
\* keeps their limit.
LEMMA WhiteLimit ==
    ASSUME NEW n \in Node, IsFiniteSet(white[n]), BookAssumption,
           Cardinality(white[n]) <= IncomingConnections,
           white'[n] \subseteq white[n]
    PROVE  IsFiniteSet(white'[n]) /\ Cardinality(white'[n]) <= IncomingConnections
<1>1. IsFiniteSet(white'[n]) /\ Cardinality(white'[n]) <= Cardinality(white[n])
  BY FS_Subset
<1>2. Cardinality(white'[n]) \in Nat /\ Cardinality(white[n]) \in Nat
  BY <1>1, FS_CardinalityType
<1> QED BY <1>1, <1>2 DEF BookAssumption

\* The three lists of every book stay apart and within their limit.
LEMMA ListsStep ==
    ASSUME BookTypeOK, BookInv, BookStep
    PROVE  OneList' /\ \A n \in Node : IsFiniteSet(white'[n])
<1> USE HandshakeAssumption, BookAssumption
<1> DEFINE Apart(n) == /\ white'[n] \cap grey'[n] = {}
                       /\ (white'[n] \cup grey'[n]) \cap banned'[n] = {}
           Within(n) == /\ IsFiniteSet(white'[n])
                        /\ Cardinality(white'[n]) <= IncomingConnections
<1> SUFFICES ASSUME NEW x \in Node PROVE Apart(x) /\ Within(x)
  BY DEF OneList
<1>0. /\ white[x] \cap grey[x] = {} /\ (white[x] \cup grey[x]) \cap banned[x] = {}
      /\ IsFiniteSet(white[x]) /\ Cardinality(white[x]) <= IncomingConnections
  BY DEF BookInv, OneList
<1>1. CASE UNCHANGED <<white, grey, banned, pom>>
  BY <1>0, <1>1
<1>2. ASSUME NEW n \in Node, NEW p \in Node, AddPeer(n, p) PROVE Apart(x) /\ Within(x)
  BY <1>0, <1>2 DEF AddPeer, Known, Include, BookTypeOK
<1>3. ASSUME NEW n \in Node, NEW p \in Node, PromoteToWhitelist(n, p)
      PROVE  Apart(x) /\ Within(x)
  <2>1. Apart(x)
    BY <1>0, <1>3 DEF PromoteToWhitelist, CanPromote, Include, Exclude, BookTypeOK
  <2>2. CASE x # n
    BY <1>0, <1>3, <2>1, <2>2 DEF PromoteToWhitelist, Include, BookTypeOK
  <2>3. CASE x = n
    <3>1. white'[x] = white[x] \cup {p} /\ p \notin white[x]
      BY <1>0, <1>3, <2>3 DEF PromoteToWhitelist, CanPromote, Include, BookTypeOK
    <3>2. /\ IsFiniteSet(white[x] \cup {p})
          /\ Cardinality(white[x] \cup {p}) = Cardinality(white[x]) + 1
      BY <1>0, <3>1, FS_AddElement
    <3>3. Cardinality(white[x]) < IncomingConnections /\ Cardinality(white[x]) \in Nat
      BY <1>0, <1>3, <2>3, FS_CardinalityType DEF PromoteToWhitelist, CanPromote
    <3>4. IncomingConnections \in Nat
      BY DEF BookAssumption
    <3>5. Cardinality(white[x]) + 1 <= IncomingConnections
      BY <3>3, <3>4
    <3> QED BY <2>1, <3>1, <3>2, <3>5
  <2> QED BY <2>2, <2>3
<1>4. ASSUME NEW n \in Node, NEW p \in Node, UpdatePOMScore(n, p, 1, round[n])
      PROVE  Apart(x) /\ Within(x)
  <2>1. white'[x] \subseteq white[x]
    BY <1>4, ChargeShrinks
  <2>2. Within(x)
    BY <1>0, <2>1, WhiteLimit
  <2>3. Apart(x)
    <3>1. CASE UNCHANGED <<white, grey, banned>>
      BY <1>0, <3>1
    <3>2. CASE /\ p \in white[n]
               /\ white' = Exclude(white, n, p) /\ grey' = Include(grey, n, p)
               /\ UNCHANGED banned
      BY <1>0, <3>2 DEF Include, Exclude, BookTypeOK
    <3>3. CASE /\ white' = Exclude(white, n, p) /\ grey' = Exclude(grey, n, p)
               /\ banned' = Include(banned, n, p)
      BY <1>0, <3>3 DEF Include, Exclude, BookTypeOK
    <3> QED BY <1>4, <3>1, <3>2, <3>3, ChargeKinds
  <2> QED BY <2>2, <2>3
<1> QED BY <1>1, <1>2, <1>3, <1>4 DEF BookStep

\* A banned peer stays banned with its score, and a peer is banned only with the
\* score for it.
LEMMA BanStep ==
    ASSUME BookTypeOK, BookInv, BookStep, NEW x \in Node, NEW y \in Node
    PROVE  /\ y \in banned[x] => y \in banned'[x] /\ pom'[x][y] = pom[x][y]
           /\ y \in banned'[x] => pom'[x][y] >= POMBanThreshold
<1> USE HandshakeAssumption
<1>0. /\ y \in banned[x] => y \notin white[x] \cup grey[x]
      /\ y \in banned[x] => pom[x][y] >= POMBanThreshold
  BY DEF BookInv, OneList, BannedScored
<1>1. CASE UNCHANGED <<banned, pom>>
  BY <1>0, <1>1
<1>2. ASSUME NEW n \in Node, NEW p \in Node, UpdatePOMScore(n, p, 1, round[n])
      PROVE  /\ y \in banned[x] => y \in banned'[x] /\ pom'[x][y] = pom[x][y]
             /\ y \in banned'[x] => pom'[x][y] >= POMBanThreshold
  <2>1. CASE UNCHANGED <<white, grey, banned, pom>>
    BY <1>1, <2>1
  <2>2. CASE ~ UNCHANGED <<white, grey, banned, pom>>
    <3>1. /\ p \in white[n] \cup grey[n]
          /\ pom' = [pom EXCEPT ![n][p] = pom[n][p] + 1]
          /\ \/ UNCHANGED banned
             \/ pom[n][p] + 1 >= POMBanThreshold /\ banned' = Include(banned, n, p)
      BY <1>2, <2>2, ChargeKinds
    <3>2. /\ x = n /\ y = p => pom'[x][y] = pom[n][p] + 1
          /\ ~ (x = n /\ y = p) => pom'[x][y] = pom[x][y]
      BY <3>1 DEF BookTypeOK
    <3>3. /\ y \in banned[x] => y \in banned'[x]
          /\ y \in banned'[x] => \/ y \in banned[x]
                                 \/ x = n /\ y = p /\ pom[n][p] + 1 >= POMBanThreshold
      BY <3>1 DEF Include, BookTypeOK
    <3>4. y \in banned[x] => ~ (x = n /\ y = p)
      BY <1>0, <3>1
    <3> QED BY <1>0, <3>2, <3>3, <3>4
  <2> QED BY <2>1, <2>2
<1> QED BY <1>1, <1>2 DEF BookStep, AddPeer, PromoteToWhitelist

\* Every step keeps the invariant of the books.
LEMMA BookInvStep == TypeOK /\ BookInv /\ [Next]_vars => BookInv'
<1> SUFFICES ASSUME TypeOK, BookInv, [Next]_vars PROVE BookInv'
  OBVIOUS
<1>1. BookStep /\ BookTypeOK /\ BookTypeOK'
  BY NextIsBookStep, TypeStep DEF TypeOK
<1>2. OneList' /\ \A n \in Node : IsFiniteSet(white'[n])
  BY <1>1, ListsStep
<1>3. BannedScored'
  <2> SUFFICES ASSUME NEW x \in Node, NEW y \in banned'[x]
               PROVE  pom'[x][y] >= POMBanThreshold
    BY DEF BannedScored
  <2>1. y \in Node
    BY <1>1, HandshakeAssumption DEF BookTypeOK
  <2> QED BY <1>1, <2>1, BanStep
<1> QED BY <1>2, <1>3 DEF BookInv

\* The invariant of the books holds throughout.
LEMMA BookInvariant == Spec => []BookInv
<1>1. Init => BookInv
  <2> SUFFICES ASSUME Init PROVE BookInv
    OBVIOUS
  <2>1. \A n \in Node : white[n] = {} /\ grey[n] = {} /\ banned[n] = {}
    BY DEF Init, BookInit
  <2>2. IsFiniteSet({}) /\ Cardinality({}) = 0
    BY FS_EmptySet
  <2>3. 0 <= IncomingConnections
    BY BookAssumption DEF BookAssumption
  <2> QED BY <2>1, <2>2, <2>3 DEF BookInv, OneList, BannedScored
<1> QED BY <1>1, BookInvStep, TypeCorrect, PTL DEF Spec

\* bar_network.go: whatever the handshake, the rounds and lost messages do to the
\* books, a peer is on one list at most and the whitelist within its limit.
THEOREM OneListCorrect == Spec => []OneList
<1>1. BookInv => OneList
  BY DEF BookInv
<1> QED BY <1>1, BookInvariant, PTL

\* bar_network.go: no step of the network frees a banned peer or changes its
\* score, and none is banned below the threshold.
THEOREM BanCorrect == Spec => BanIsFinal
<1>1. TypeOK /\ BookInv /\ [Next]_vars =>
        [\A n \in Node, p \in Peer :
            /\ p \in banned[n] => p \in banned'[n] /\ pom'[n][p] = pom[n][p]
            /\ p \in banned'[n] => pom'[n][p] >= POMBanThreshold]_bookVars
  <2> SUFFICES ASSUME TypeOK, BookInv, [Next]_vars, NEW n \in Node, NEW p \in Peer
               PROVE  /\ p \in banned[n] => p \in banned'[n] /\ pom'[n][p] = pom[n][p]
                      /\ p \in banned'[n] => pom'[n][p] >= POMBanThreshold
    OBVIOUS
  <2>1. BookStep /\ BookTypeOK /\ p \in Node
    BY NextIsBookStep, HandshakeAssumption DEF TypeOK
  <2> QED BY <2>1, BanStep
<1> QED BY <1>1, BookInvariant, TypeCorrect, PTL DEF Spec, BanIsFinal

-----------------------------------------------------------------------------
(* InactivityMonitor *)

\* The operations on a book keep its types.
LEMMA BooksTyped ==
    ASSUME BookTypeOK, NEW n \in Node, NEW p \in Node,
           \/ PromoteToWhitelist(n, p)
           \/ DemoteToGreylist(n, p) /\ UNCHANGED <<pom, round>>
           \/ UpdatePOMScore(n, p, 1, round[n]) /\ UNCHANGED round
    PROVE  BookTypeOK'
<1> USE MonitorAssumption DEF Include, Exclude
<1>1. CASE PromoteToWhitelist(n, p)
  BY <1>1 DEF BookTypeOK, PromoteToWhitelist
<1>2. CASE DemoteToGreylist(n, p) /\ UNCHANGED <<pom, round>>
  BY <1>2 DEF BookTypeOK, DemoteToGreylist
<1>3. CASE UpdatePOMScore(n, p, 1, round[n]) /\ UNCHANGED round
  <2>1. pom' \in [Node -> [Peer -> Nat]]
    BY <1>3 DEF UpdatePOMScore, BookTypeOK
  <2>2. \/ UNCHANGED <<white, grey, banned, record>>
        \/ DemoteToGreylist(n, p)
        \/ BanPeer(n, p, round[n])
    BY <1>3 DEF UpdatePOMScore
  <2>3. CASE DemoteToGreylist(n, p)
    BY <1>3, <2>1, <2>3 DEF BookTypeOK, DemoteToGreylist
  <2>4. CASE BanPeer(n, p, round[n])
    BY <1>3, <2>1, <2>4 DEF BookTypeOK, BanPeer
  <2> QED
    BY <1>3, <2>1, <2>2, <2>3, <2>4 DEF BookTypeOK
<1> QED
  BY <1>1, <1>2, <1>3

\* The reports of a seed are marks.
LEMMA ReportsTyped ==
    ASSUME NEW n \in Seed, NEW p \in Node, NEW to \in SUBSET Node
    PROVE  Reports(n, p, to) \subseteq Mark
BY DEF Reports, Mark

\* Recording a report keeps the types of the records.
LEMMA RecordsTyped ==
    ASSUME MonitorTypeOK, NEW n \in Node, NEW p \in Node, NEW from \in Seed,
           RecordInactivity(n, p, from)
    PROVE  /\ count' \in [Node -> [Node -> 0..LongCount]]
           /\ reporters' \in [Node -> [Node -> SUBSET Seed]]
           /\ UNCHANGED aged
<1>1. count' \in [Node -> [Node -> 0..LongCount]]
  BY MonitorAssumption DEF MonitorTypeOK, RecordInactivity
<1>2. reporters' \in [Node -> [Node -> SUBSET Seed]]
  BY DEF MonitorTypeOK, RecordInactivity
<1> QED
  BY <1>1, <1>2 DEF RecordInactivity

\* Marking keeps the types of books and broadcasts.
LEMMA MarkTyped ==
    ASSUME MonitorTypeOK, NEW n \in Node, NEW p \in Node, MarkPeerAsInactive(n, p)
    PROVE  BookTypeOK' /\ broadcasts' \subseteq Forward
<1>1. BookTypeOK'
  <2>1. CASE DemoteToGreylist(n, p) /\ UNCHANGED <<pom, round>>
    BY <2>1, BooksTyped DEF MonitorTypeOK
  <2>2. CASE UNCHANGED bookVars
    BY <2>2 DEF MonitorTypeOK, BookTypeOK, bookVars
  <2> QED
    BY <2>1, <2>2 DEF MarkPeerAsInactive
<1> QED
  BY <1>1 DEF MarkPeerAsInactive, MonitorTypeOK

\* The books and records of the monitors keep their types.
LEMMA MonitorTypeStep == MonitorTypeOK /\ [MonitorNext]_monitorVars => MonitorTypeOK'
<1> SUFFICES ASSUME MonitorTypeOK, [MonitorNext]_monitorVars PROVE MonitorTypeOK'
  OBVIOUS
<1> USE MonitorAssumption
<1>0. /\ BookTypeOK /\ white \in [Node -> SUBSET Node]
      /\ \A f \in Forward : f[1] \in Node /\ f[2] \in Node
      /\ \A m \in marks : m.from \in Seed /\ m.from \in Node
                        /\ m.to \in Node /\ m.target \in Node
  BY DEF MonitorTypeOK, BookTypeOK, Mark
<1>1. CASE UNCHANGED monitorVars
  BY <1>1 DEF monitorVars, MonitorTypeOK, BookTypeOK, bookVars, recordVars
<1>2. ASSUME NEW n \in Node, NEW p \in Node, Promote(n, p) PROVE MonitorTypeOK'
  BY <1>0, <1>2, BooksTyped DEF Promote, MonitorTypeOK, recordVars
<1>3. ASSUME NEW n \in Node, NEW p \in Node, TimePasses(n, p) PROVE MonitorTypeOK'
  BY <1>3 DEF TimePasses, MonitorTypeOK, BookTypeOK, bookVars
<1>4. ASSUME NEW m \in marks, LoseMark(m) PROVE MonitorTypeOK'
  BY <1>4 DEF LoseMark, MonitorTypeOK, BookTypeOK, bookVars, recordVars
<1>5. ASSUME NEW b \in broadcasts, LoseBroadcast(b) PROVE MonitorTypeOK'
  BY <1>5 DEF LoseBroadcast, MonitorTypeOK, BookTypeOK, bookVars, recordVars
<1>6. ASSUME NEW n \in Node, NEW p \in Node, ReportInactivity(n, p) PROVE MonitorTypeOK'
  <2>1. marks' \subseteq Mark
    BY <1>0, <1>6, ReportsTyped DEF ReportInactivity, Send, MonitorTypeOK
  <2>2. saw' \in [Node -> SUBSET Node]
    BY <1>6 DEF ReportInactivity, MonitorTypeOK
  <2> QED
    BY <1>6, <2>1, <2>2 DEF ReportInactivity, MonitorTypeOK, BookTypeOK, bookVars, recordVars
<1>7. ASSUME NEW n \in Node, NEW p \in Node, ReportPromoted(n, p) PROVE MonitorTypeOK'
  <2>1. BookTypeOK'
    BY <1>0, <1>7, BooksTyped DEF ReportPromoted
  <2>2. marks' \subseteq Mark
    BY <1>7, <2>1, ReportsTyped DEF ReportPromoted, Send, MonitorTypeOK, BookTypeOK
  <2>3. saw' \in [Node -> SUBSET Node]
    BY <1>7 DEF ReportPromoted, MonitorTypeOK
  <2> QED
    BY <1>7, <2>1, <2>2, <2>3 DEF ReportPromoted, MonitorTypeOK, recordVars
<1>8. ASSUME NEW m \in marks, HandleMarkInactive(m) PROVE MonitorTypeOK'
  <2>1. marks' \subseteq Mark /\ UNCHANGED <<nPromotions, nLosses, saw>>
    BY <1>8 DEF HandleMarkInactive, MonitorTypeOK
  <2>2. CASE /\ UpdatePOMScore(m.to, m.from, 1, round[m.to])
             /\ UNCHANGED <<round, broadcasts, recordVars>>
    <3>1. BookTypeOK'
      BY <1>0, <2>2, BooksTyped
    <3> QED
      BY <2>1, <2>2, <3>1 DEF MonitorTypeOK, recordVars
  <2>3. CASE /\ RecordInactivity(m.to, m.target, m.from)
             /\ MarkPeerAsInactive(m.to, m.target)
    <3>1. BookTypeOK' /\ broadcasts' \subseteq Forward
      BY <1>0, <2>3, MarkTyped
    <3>2. /\ count' \in [Node -> [Node -> 0..LongCount]]
          /\ reporters' \in [Node -> [Node -> SUBSET Seed]]
          /\ UNCHANGED aged
      BY <1>0, <2>3, RecordsTyped
    <3> QED
      BY <2>1, <3>1, <3>2 DEF MonitorTypeOK
  <2>4. CASE /\ RecordInactivity(m.to, m.target, m.from)
             /\ UNCHANGED <<bookVars, broadcasts>>
    <3>1. /\ count' \in [Node -> [Node -> 0..LongCount]]
          /\ reporters' \in [Node -> [Node -> SUBSET Seed]]
          /\ UNCHANGED aged
      BY <1>0, <2>4, RecordsTyped
    <3>2. BookTypeOK'
      BY <1>0, <2>4 DEF BookTypeOK, bookVars
    <3> QED
      BY <2>1, <2>4, <3>1, <3>2 DEF MonitorTypeOK
  <2> QED
    BY <1>8, <2>2, <2>3, <2>4 DEF HandleMarkInactive
<1>9. ASSUME NEW b \in broadcasts, HandleMalformed(b) PROVE MonitorTypeOK'
  <2>1. b[1] \in Node /\ b[2] \in Node
    BY <1>0 DEF MonitorTypeOK
  <2>2. BookTypeOK'
    BY <1>0, <1>9, <2>1, BooksTyped DEF HandleMalformed
  <2> QED
    BY <1>9, <2>2 DEF HandleMalformed, MonitorTypeOK, recordVars
<1> QED
  BY <1>1, <1>2, <1>3, <1>4, <1>5, <1>6, <1>7, <1>8, <1>9 DEF MonitorNext

\* The books, records and messages of any number of monitors are well typed.
THEOREM MonitorTypeCorrect == MonitorSpec => []MonitorTypeOK
<1>1. MonitorInit => MonitorTypeOK
  BY MonitorAssumption DEF MonitorInit, MonitorTypeOK, BookTypeOK
<1> QED
  BY <1>1, MonitorTypeStep, PTL DEF MonitorSpec

-----------------------------------------------------------------------------

\* What a seed once found inactive it has found inactive for ever.
LEMMA SawGrows ==
    ASSUME MonitorTypeOK, [MonitorNext]_monitorVars, NEW r \in Node
    PROVE  saw[r] \subseteq saw'[r]
<1>1. CASE UNCHANGED saw
  BY <1>1
<1>2. ASSUME NEW n \in Node, NEW p \in Node,
             saw' = [saw EXCEPT ![n] = @ \cup {p}]
      PROVE  saw[r] \subseteq saw'[r]
  BY <1>2 DEF MonitorTypeOK
<1> QED
  BY <1>1, <1>2 DEF MonitorNext, monitorVars, Promote, TimePasses, LoseMark, LoseBroadcast,
     ReportInactivity, ReportPromoted, HandleMarkInactive, HandleMalformed

\* New reports are of a peer the sender has seen, and go to others.
LEMMA NewReports ==
    ASSUME MonitorTypeOK, ReportsSeen, NEW n \in Node, NEW p \in Node,
           NEW to \in SUBSET Node, Send(Reports(n, p, to)),
           saw' = [saw EXCEPT ![n] = @ \cup {p}],
           NEW m \in marks'
    PROVE  m.target \in saw'[m.from] /\ m.from # m.to
<1>1. CASE m \in marks
  <2>1. m.from \in Node
    BY <1>1, MonitorAssumption DEF MonitorTypeOK, Mark
  <2> QED
    BY <1>1, <2>1 DEF ReportsSeen, MonitorTypeOK
<1>2. CASE m \in Reports(n, p, to)
  BY <1>2 DEF Reports, MonitorTypeOK
<1> QED
  BY <1>1, <1>2 DEF Send

\* A report that is recorded was one under way.
LEMMA SeenStep == MonitorTypeOK /\ ReportsSeen /\ [MonitorNext]_monitorVars => ReportsSeen'
<1> SUFFICES ASSUME MonitorTypeOK, ReportsSeen, [MonitorNext]_monitorVars PROVE ReportsSeen'
  OBVIOUS
<1> USE MonitorAssumption
<1>0. /\ MonitorTypeOK' /\ \A r \in Node : saw[r] \subseteq saw'[r]
      /\ \A m \in marks : m.from \in Node /\ m.to \in Node /\ m.target \in Node
      /\ \A n, p \in Node : reporters[n][p] \subseteq Node
  BY MonitorTypeStep, SawGrows DEF MonitorTypeOK, Mark
<1>n. ASSUME marks' \subseteq marks
      PROVE  \A m \in marks' : m.target \in saw'[m.from] /\ m.from # m.to
  BY <1>0, <1>n DEF ReportsSeen
<1>r. ASSUME UNCHANGED reporters
      PROVE  \A n, p \in Node : \A r \in reporters'[n][p] : r # n /\ p \in saw'[r]
  BY <1>0, <1>r DEF ReportsSeen
<1>1. CASE marks' \subseteq marks /\ UNCHANGED reporters
  BY <1>1, <1>n, <1>r DEF ReportsSeen
<1>2. ASSUME NEW n \in Node, NEW p \in Node, ReportInactivity(n, p)
      PROVE  ReportsSeen'
  <2>1. white[n] \in SUBSET Node
    BY DEF MonitorTypeOK, BookTypeOK
  <2>2. \A m \in marks' : m.target \in saw'[m.from] /\ m.from # m.to
    BY <1>2, <2>1, NewReports DEF ReportInactivity
  <2> QED
    BY <1>2, <1>r, <2>2 DEF ReportInactivity, recordVars, ReportsSeen
<1>3. ASSUME NEW n \in Node, NEW p \in Node, ReportPromoted(n, p)
      PROVE  ReportsSeen'
  <2>1. white'[n] \in SUBSET Node
    BY <1>0 DEF MonitorTypeOK, BookTypeOK
  <2>2. \A m \in marks' : m.target \in saw'[m.from] /\ m.from # m.to
    BY <1>3, <2>1, NewReports DEF ReportPromoted
  <2> QED
    BY <1>3, <1>r, <2>2 DEF ReportPromoted, recordVars, ReportsSeen
<1>4. ASSUME NEW m \in marks, HandleMarkInactive(m) PROVE ReportsSeen'
  <2>1. marks' \subseteq marks /\ UNCHANGED saw
    BY <1>4 DEF HandleMarkInactive
  <2>2. CASE UNCHANGED reporters
    BY <1>1, <2>1, <2>2
  <2>3. CASE RecordInactivity(m.to, m.target, m.from)
    <3>1. ASSUME NEW n \in Node, NEW p \in Node, NEW r \in reporters'[n][p]
          PROVE  \/ r \in reporters[n][p]
                 \/ n = m.to /\ p = m.target /\ r = m.from
      BY <1>0, <2>3, <3>1 DEF RecordInactivity, MonitorTypeOK
    <3>2. m.target \in saw[m.from] /\ m.from # m.to
      BY DEF ReportsSeen
    <3>3. \A n, p \in Node : \A r \in reporters'[n][p] : r # n /\ p \in saw'[r]
      BY <2>1, <3>1, <3>2 DEF ReportsSeen
    <3> QED
      BY <1>n, <2>1, <3>3 DEF ReportsSeen
  <2> QED
    BY <1>4, <2>2, <2>3 DEF HandleMarkInactive, recordVars
<1> QED
  BY <1>1, <1>2, <1>3, <1>4 DEF MonitorNext, monitorVars, recordVars, Promote, TimePasses, LoseMark,
     LoseBroadcast, HandleMalformed

\* A charge raises the score of whoever it takes off the whitelist.
LEMMA ChargeScores ==
    ASSUME MonitorTypeOK, NEW n \in Node, NEW q \in Node,
           UpdatePOMScore(n, q, 1, round[n]),
           NEW x \in Node, NEW p \in Node, p \in white[x], p \in grey'[x],
           pom'[x][p] = pom[x][p]
    PROVE  p \in grey[x]
<1> USE MonitorAssumption
<1>1. CASE UNCHANGED grey
  BY <1>1
<1>2. CASE ~ UNCHANGED grey
  <2>1. /\ pom' = [pom EXCEPT ![n][q] = pom[n][q] + 1]
        /\ grey' = Include(grey, n, q) \/ grey' = Exclude(grey, n, q)
    BY <1>2 DEF UpdatePOMScore, DemoteToGreylist, BanPeer
  <2>2. ~ (x = n /\ p = q)
    BY <2>1 DEF MonitorTypeOK, BookTypeOK
  <2> QED
    BY <2>1, <2>2 DEF Include, Exclude, MonitorTypeOK, BookTypeOK
<1> QED
  BY <1>1, <1>2

\* Whitelist and greylist stay apart.
ListsApart == \A n \in Node : white[n] \cap grey[n] = {}

\* What a step may do to the lists of a book.
MonitorBookStep ==
    \/ UNCHANGED <<white, grey, pom>>
    \/ \E n, p \in Node : PromoteToWhitelist(n, p)
    \/ \E n, p \in Node : UpdatePOMScore(n, p, 1, round[n])
    \/ \E m \in marks : /\ RecordInactivity(m.to, m.target, m.from)
                      /\ ShouldMarkAsInactive(m.to, m.target)
                      /\ DemoteToGreylist(m.to, m.target)
                      /\ UNCHANGED <<saw, pom>>

\* Every step of the monitors is one of these.
LEMMA MonitorStepIsBookStep == MonitorTypeOK /\ [MonitorNext]_monitorVars => MonitorBookStep
<1> SUFFICES ASSUME MonitorTypeOK, [MonitorNext]_monitorVars PROVE MonitorBookStep
  OBVIOUS
<1>0. /\ \A m \in marks : m.from \in Node /\ m.to \in Node
      /\ \A b \in broadcasts : b[1] \in Node /\ b[2] \in Node
  BY MonitorAssumption DEF MonitorTypeOK, Mark
<1>1. ASSUME NEW n \in Node, NEW p \in Node,
             Promote(n, p) \/ ReportPromoted(n, p)
      PROVE  MonitorBookStep
  BY <1>1 DEF Promote, ReportPromoted, MonitorBookStep
<1>2. ASSUME NEW b \in broadcasts, HandleMalformed(b) PROVE MonitorBookStep
  BY <1>0, <1>2 DEF HandleMalformed, MonitorBookStep
<1>3. ASSUME NEW m \in marks, HandleMarkInactive(m) PROVE MonitorBookStep
  <2>1. CASE UpdatePOMScore(m.to, m.from, 1, round[m.to])
    BY <1>0, <2>1 DEF MonitorBookStep
  <2>2. CASE UNCHANGED bookVars
    BY <2>2 DEF bookVars, MonitorBookStep
  <2>3. CASE /\ RecordInactivity(m.to, m.target, m.from)
             /\ ShouldMarkAsInactive(m.to, m.target)
             /\ DemoteToGreylist(m.to, m.target)
             /\ UNCHANGED <<saw, pom>>
    BY <2>3 DEF MonitorBookStep
  <2> QED
    BY <1>3, <2>1, <2>2, <2>3 DEF HandleMarkInactive, MarkPeerAsInactive
<1>4. CASE UNCHANGED bookVars
  BY <1>4 DEF bookVars, MonitorBookStep
<1> QED
  BY <1>1, <1>2, <1>3, <1>4 DEF MonitorNext, monitorVars, TimePasses, LoseMark, LoseBroadcast,
     ReportInactivity

\* No step puts a peer on both lists.
LEMMA ApartStep == MonitorTypeOK /\ ListsApart /\ [MonitorNext]_monitorVars => ListsApart'
<1> SUFFICES ASSUME MonitorTypeOK, ListsApart, [MonitorNext]_monitorVars, NEW x \in Node
             PROVE  white'[x] \cap grey'[x] = {}
  BY DEF ListsApart
<1> USE MonitorAssumption DEF Include, Exclude, MonitorTypeOK, BookTypeOK, ListsApart
<1>1. CASE UNCHANGED <<white, grey>>
  BY <1>1
<1>2. ASSUME NEW n \in Node, NEW p \in Node, PromoteToWhitelist(n, p)
      PROVE  white'[x] \cap grey'[x] = {}
  BY <1>2 DEF PromoteToWhitelist
<1>3. ASSUME NEW n \in Node, NEW p \in Node, DemoteToGreylist(n, p)
      PROVE  white'[x] \cap grey'[x] = {}
  BY <1>3 DEF DemoteToGreylist
<1>4. ASSUME NEW n \in Node, NEW p \in Node, BanPeer(n, p, round[n])
      PROVE  white'[x] \cap grey'[x] = {}
  BY <1>4 DEF BanPeer
<1>5. \A m \in marks : m.to \in Node /\ m.target \in Node
  BY DEF Mark
<1> QED
  BY <1>1, <1>2, <1>3, <1>4, <1>5, MonitorStepIsBookStep DEF MonitorBookStep, UpdatePOMScore

\* A demotion without a charge has its reports.
LEMMA DemotionBacked ==
    ASSUME MonitorTypeOK, ReportsSeen, ListsApart, [MonitorNext]_monitorVars,
           NEW n \in Node, NEW p \in Node,
           p \in white[n], p \in grey'[n], pom'[n][p] = pom[n][p]
    PROVE  \/ Cardinality({r \in Seed \ {n} : p \in saw[r]}) >= SeedThreshold
           \/ count'[n][p] >= LongCount /\ <<n, p>> \in aged
<1> USE MonitorAssumption
<1>0. p \notin grey[n]
  BY DEF ListsApart
<1>1. PICK m \in marks : /\ RecordInactivity(m.to, m.target, m.from)
                       /\ ShouldMarkAsInactive(m.to, m.target)
                       /\ DemoteToGreylist(m.to, m.target)
                       /\ UNCHANGED saw
  <2>1. ~ UNCHANGED grey
    BY <1>0
  <2>2. ASSUME NEW x \in Node, NEW y \in Node, PromoteToWhitelist(x, y)
        PROVE  FALSE
    BY <1>0, <2>2 DEF PromoteToWhitelist, Exclude, MonitorTypeOK, BookTypeOK
  <2>3. ASSUME NEW x \in Node, NEW y \in Node, UpdatePOMScore(x, y, 1, round[x])
        PROVE  FALSE
    BY <1>0, <2>3, ChargeScores
  <2> QED
    BY <2>1, <2>2, <2>3, MonitorStepIsBookStep DEF MonitorBookStep
<1>2. m.to = n /\ m.target = p
  BY <1>0, <1>1 DEF DemoteToGreylist, Include, MonitorTypeOK, BookTypeOK, Mark
<1>3. CASE count'[n][p] >= LongCount /\ <<n, p>> \in aged
  BY <1>3
<1>4. CASE Cardinality(reporters'[n][p]) >= SeedThreshold
  <2> DEFINE Seers == {r \in Seed \ {n} : p \in saw[r]}
  <2>1. ReportsSeen' /\ MonitorTypeOK'
    BY SeenStep, MonitorTypeStep
  <2>2. reporters'[n][p] \subseteq Seers
    BY <1>1, <2>1 DEF ReportsSeen, MonitorTypeOK
  <2>3. IsFiniteSet(Seers)
    BY FS_Subset
  <2>4. /\ Cardinality(reporters'[n][p]) <= Cardinality(Seers)
        /\ Cardinality(reporters'[n][p]) \in Nat /\ Cardinality(Seers) \in Nat
    BY <2>2, <2>3, FS_Subset, FS_CardinalityType
  <2> QED
    BY <1>4, <2>4
<1> QED
  BY <1>1, <1>2, <1>3, <1>4 DEF ShouldMarkAsInactive

\* inactivity_monitor.go: for any number of seeds and nodes, whatever is lost,
\* repeated or late, a seed takes a peer it did not charge off its whitelist
\* only with the reports its threshold asks for.
THEOREM MarkCorrect == MonitorSpec => MarkBacked
<1>1. MonitorInit => ReportsSeen /\ ListsApart
  BY DEF MonitorInit, ReportsSeen, ListsApart
<1>2. MonitorTypeOK /\ ReportsSeen /\ ListsApart /\ [MonitorNext]_monitorVars =>
        [\A n, p \in Node :
            p \in white[n] /\ p \in grey'[n] /\ pom'[n][p] = pom[n][p] =>
                \/ Cardinality({r \in Seed \ {n} : p \in saw[r]}) >= SeedThreshold
                \/ count'[n][p] >= LongCount /\ <<n, p>> \in aged]_monitorVars
  BY DemotionBacked
<1> QED
  BY <1>1, <1>2, SeenStep, ApartStep, MonitorTypeCorrect, PTL DEF MonitorSpec, MarkBacked
=============================================================================
