------------------------- MODULE MPSCFreeListProofs -------------------------
(***************************************************************************)
(* Proofs about MPSCFreeList, for every set of producers and of items.     *)
(***************************************************************************)
EXTENDS MPSCFreeList, SequenceTheorems, TLAPS

(* What Append does to a sequence, element by element.                      *)
LEMMA AppendElements ==
    ASSUME NEW S, NEW s \in Seq(S), NEW e \in S
    PROVE  /\ Append(s, e) \in Seq(S)
           /\ Len(Append(s, e)) = Len(s) + 1
           /\ Append(s, e) # <<>>
           /\ \A k \in 1..Len(s) : Append(s, e)[k] = s[k]
           /\ Append(s, e)[Len(s) + 1] = e
           /\ NodesIn(Append(s, e)) = NodesIn(s) \cup {e}
<1>1. /\ Append(s, e) \in Seq(S)
      /\ Len(s) \in Nat
      /\ Len(Append(s, e)) = Len(s) + 1
      /\ \A k \in 1..Len(s) : Append(s, e)[k] = s[k]
      /\ Append(s, e)[Len(s) + 1] = e
  OBVIOUS
<1>2. NodesIn(Append(s, e)) \subseteq NodesIn(s) \cup {e}
  <2>1. SUFFICES ASSUME NEW k \in 1..(Len(s) + 1)
                 PROVE  Append(s, e)[k] \in NodesIn(s) \cup {e}
    BY <1>1 DEF NodesIn
  <2>2. k \in 1..Len(s) \/ k = Len(s) + 1
    BY <1>1
  <2>3. QED
    BY <1>1, <2>2 DEF NodesIn
<1>3. NodesIn(s) \cup {e} \subseteq NodesIn(Append(s, e))
  BY <1>1 DEF NodesIn
<1>4. QED
  BY <1>1, <1>2, <1>3

(* What Tail does to a sequence without repetitions, element by element.    *)
LEMMA TailElements ==
    ASSUME NEW S, NEW s \in Seq(S), s # <<>>,
           \A j, k \in 1..Len(s) : s[j] = s[k] => j = k
    PROVE  /\ Tail(s) \in Seq(S)
           /\ Len(s) \in Nat \ {0}
           /\ Len(Tail(s)) = Len(s) - 1
           /\ \A k \in 1..(Len(s) - 1) : Tail(s)[k] = s[k + 1]
           /\ NodesIn(Tail(s)) = NodesIn(s) \ {s[1]}
           /\ s[1] \in S
           /\ s[1] \in NodesIn(s)
<1>1. /\ Tail(s) \in Seq(S)
      /\ Len(s) \in Nat \ {0}
      /\ Len(Tail(s)) = Len(s) - 1
      /\ \A k \in 1..(Len(s) - 1) : Tail(s)[k] = s[k + 1]
      /\ s[1] \in S
  OBVIOUS
<1>2. NodesIn(Tail(s)) \subseteq NodesIn(s) \ {s[1]}
  <2>1. SUFFICES ASSUME NEW k \in 1..(Len(s) - 1)
                 PROVE  s[k + 1] \in NodesIn(s) \ {s[1]}
    BY <1>1 DEF NodesIn
  <2>2. k + 1 \in 1..Len(s) /\ k + 1 # 1 /\ 1 \in 1..Len(s)
    BY <1>1
  <2>3. QED
    BY <2>2 DEF NodesIn
<1>3. NodesIn(s) \ {s[1]} \subseteq NodesIn(Tail(s))
  <2>1. SUFFICES ASSUME NEW k \in 1..Len(s), s[k] # s[1]
                 PROVE  s[k] \in NodesIn(Tail(s))
    BY DEF NodesIn
  <2>2. k - 1 \in 1..(Len(s) - 1) /\ (k - 1) + 1 = k
    BY <1>1, <2>1
  <2>3. QED
    BY <1>1, <2>2 DEF NodesIn
<1>4. s[1] \in NodesIn(s)
  BY <1>1 DEF NodesIn
<1>5. QED
  BY <1>1, <1>2, <1>3, <1>4

-----------------------------------------------------------------------------
(* InitMPSCFreeList on a zeroed structure establishes the invariant.        *)
LEMMA InitEstablishes ==
    ASSUME ZeroedStub, Init
    PROVE  IInv
<1> USE ConstantsAssumption
<1>1. /\ Len(chain) = 1
      /\ chain[1] = Stub
      /\ NodesIn(chain) = {Stub}
      /\ chain \in Seq(Nodes)
      /\ chain # <<>>
  BY DEF Init, NodesIn, Nodes
<1>2. \A t \in Threads : pc[t] = "idle"
  BY DEF Init
<1>3. TypeOK
  BY <1>1, <1>2 DEF Init, InitMPSCFreeList, TypeOK, Nodes
<1>4. ChainEnds
  BY <1>1 DEF Init, InitMPSCFreeList, ChainEnds
<1>5. ChainLinked
  BY <1>1 DEF Init, InitMPSCFreeList, ChainLinked, ZeroedStub
<1>6. LinkTargetQueued
  BY <1>2 DEF LinkTargetQueued
<1>7. OneOwner
  BY <1>1, <1>2 DEF Init, OneOwner, Holding, PushStates
<1>8. CallsInOrder
  BY <1>2 DEF CallsInOrder, PushStates, PopStates
<1>9. QuietPop
  BY <1>2 DEF QuietPop, InPop, PushStates, PopStates, Threads
<1>10. QED
  BY <1>3, <1>4, <1>5, <1>6, <1>7, <1>8, <1>9 DEF IInv

-----------------------------------------------------------------------------
(* The queue always holds a node.                                           *)
LEMMA ChainNonEmpty ==
    ASSUME IInv
    PROVE  /\ chain \in Seq(Nodes)
           /\ Len(chain) \in Nat \ {0}
           /\ 1 \in 1..Len(chain)
           /\ Len(chain) \in 1..Len(chain)
BY DEF IInv, TypeOK, ChainEnds

(* One lemma per action: the step preserves the invariant.                  *)

(* A push starts with an item that is the application's.                    *)
LEMMA PushCallPreserves ==
    ASSUME IInv, NEW t \in Threads, NEW i \in Items, PushCall(t, i)
    PROVE  IInv'
<1> USE ConstantsAssumption
<1>1. TypeOK'
  BY DEF IInv, TypeOK, PushCall, Nodes, PushStates
<1>2. ChainEnds'
  BY DEF IInv, ChainEnds, PushCall
<1>3. \A u \in Threads : pc'[u] = "link" <=> pc[u] = "link"
  BY DEF IInv, TypeOK, PushCall
<1>4. \A u \in Threads : u # t => pc'[u] = pc[u] /\ Node'[u] = Node[u]
  BY DEF IInv, TypeOK, PushCall
<1>5. pc'[t] = "clear" /\ Node'[t] = i /\ pc[t] = "idle"
  BY DEF IInv, TypeOK, PushCall
<1>6. \A u \in Threads : \A a, b : Linking(u, a, b) <=> Linking(u, a, b)'
  BY <1>3, <1>4, <1>5 DEF Linking, PushCall
<1>7. ChainLinked'
  BY <1>6 DEF IInv, ChainLinked, PushCall
<1>8. LinkTargetQueued'
  BY <1>3, <1>6 DEF IInv, LinkTargetQueued, PushCall
<1>9. OneOwner'
  <2>1. free' = free \ {i} /\ i \in free /\ chain' = chain
    BY DEF PushCall
  <2>2. (free \cap NodesIn(chain) = {})'
    BY <2>1 DEF IInv, OneOwner
  <2>3. (\A u \in Threads : Holding(u) => Node[u] \notin free \cup NodesIn(chain))'
    BY <1>4, <1>5, <2>1 DEF IInv, OneOwner, Holding
  <2>4. (\A j \in Items : j \in free \/ j \in NodesIn(chain)
                             \/ \E u \in Threads : Holding(u) /\ Node[u] = j)'
    BY <1>4, <1>5, <2>1 DEF IInv, OneOwner, Holding
  <2>5. \A u \in Threads : pc[u] \in PushStates => Node[u] # i
    <3>1. SUFFICES ASSUME NEW u \in Threads, pc[u] = "link", Node[u] = i
                   PROVE  FALSE
      BY <2>1 DEF IInv, OneOwner, Holding, PushStates
    <3>2. i \in NodesIn(chain)
      BY <3>1 DEF IInv, LinkTargetQueued, Linking, NodesIn, TypeOK
    <3>3. QED
      BY <2>1, <3>2 DEF IInv, OneOwner
  <2>6. (\A u, v \in Threads :
          pc[u] \in PushStates /\ pc[v] \in PushStates /\ Node[u] = Node[v] => u = v)'
    BY <1>4, <1>5, <2>5 DEF IInv, OneOwner, PushStates
  <2>7. QED
    BY <2>2, <2>3, <2>4, <2>6 DEF OneOwner
<1>10. CallsInOrder'
  BY <1>4, <1>5 DEF IInv, CallsInOrder, PushCall, PushStates, PopStates, Nodes
<1>11. QuietPop'
  BY <1>3, <1>4, <1>5 DEF IInv, QuietPop, InPop, PushCall, PushStates, PopStates, Threads
<1>12. QED
  BY <1>1, <1>2, <1>7, <1>8, <1>9, <1>10, <1>11 DEF IInv

(* Clearing Next of a node outside the list changes no link in it.          *)
LEMMA PushClearPreserves ==
    ASSUME IInv, NEW t \in Threads, PushClear(t)
    PROVE  IInv'
<1> USE ConstantsAssumption
<1>1. Node[t] \in Nodes /\ Node[t] \notin NodesIn(chain) /\ pc[t] = "clear"
  BY DEF IInv, CallsInOrder, OneOwner, Holding, PushClear, PushStates
<1>2. \A k \in 1..Len(chain) : Next'[chain[k]] = Next[chain[k]]
  BY <1>1 DEF IInv, TypeOK, PushClear, NodesIn
<1>3. \A u \in Threads : u # t => pc'[u] = pc[u]
  BY DEF IInv, TypeOK, PushClear
<1>4. pc'[t] = "exchange"
  BY DEF IInv, TypeOK, PushClear
<1>5. \A u \in Threads : \A a, b : Linking(u, a, b) <=> Linking(u, a, b)'
  BY <1>1, <1>3, <1>4 DEF Linking, PushClear
<1>6. TypeOK'
  BY DEF IInv, TypeOK, PushClear, PushStates
<1>7. ChainEnds'
  BY DEF IInv, ChainEnds, PushClear
<1>8. chain \in Seq(Nodes) /\ Len(chain) \in Nat \ {0} /\ chain' = chain
  BY DEF IInv, TypeOK, ChainEnds, PushClear
<1>9. ChainLinked'
  BY <1>2, <1>5, <1>8 DEF IInv, ChainLinked
<1>10. LinkTargetQueued'
  BY <1>1, <1>2, <1>3, <1>4, <1>5, <1>8 DEF IInv, LinkTargetQueued
<1>11. OneOwner'
  BY <1>1, <1>3, <1>4 DEF IInv, OneOwner, Holding, PushClear, PushStates
<1>12. CallsInOrder'
  <2>1. Next'[Node[t]] = NULL /\ \A n \in Nodes : n # Node[t] => Next'[n] = Next[n]
    BY <1>1 DEF IInv, TypeOK, PushClear
  <2>2. \A u \in Threads : u # t /\ pc[u] \in PushStates => Node[u] # Node[t]
    BY <1>1 DEF IInv, OneOwner, PushStates
  <2>3. QED
    BY <1>1, <1>3, <1>4, <2>1, <2>2 DEF IInv, CallsInOrder, PushClear, PushStates, PopStates
<1>13. QuietPop'
  BY <1>1, <1>3, <1>4 DEF IInv, QuietPop, InPop, PushClear, PushStates, PopStates, Threads
<1>14. QED
  BY <1>6, <1>7, <1>9, <1>10, <1>11, <1>12, <1>13 DEF IInv
(* The exchange puts the node behind the last one, with a gap before it.    *)
LEMMA PushExchangePreserves ==
    ASSUME IInv, NEW t \in Threads, PushExchange(t)
    PROVE  IInv'
<1> USE ConstantsAssumption
<1> DEFINE n == Node[t]
           L == Len(chain)
<1>1. n \in Nodes /\ n \notin NodesIn(chain) /\ n \notin free /\ pc[t] = "exchange" /\ Next[n] = NULL
  BY DEF IInv, CallsInOrder, OneOwner, Holding, PushExchange, PushStates
<1>2. chain \in Seq(Nodes) /\ L \in Nat \ {0} /\ chain' = Append(chain, n)
  BY DEF IInv, TypeOK, ChainEnds, PushExchange
<1>3. /\ chain' \in Seq(Nodes)
      /\ Len(chain') = L + 1
      /\ chain' # <<>>
      /\ \A k \in 1..L : chain'[k] = chain[k]
      /\ chain'[L + 1] = n
      /\ NodesIn(chain') = NodesIn(chain) \cup {n}
  BY <1>1, <1>2, AppendElements
<1>4. \A u \in Threads : u # t => pc'[u] = pc[u] /\ Prev'[u] = Prev[u]
  BY DEF IInv, TypeOK, PushExchange
<1>5. pc'[t] = "link" /\ Prev'[t] = chain[L] /\ Node' = Node /\ Next' = Next
  BY DEF IInv, TypeOK, ChainEnds, PushExchange
<1>6. \A u \in Threads : \A a, b : Linking(u, a, b) => Linking(u, a, b)'
  BY <1>1, <1>4, <1>5 DEF Linking
<1>7. \A a, b : a = chain[L] /\ b = n => Linking(t, a, b)'
  BY <1>5 DEF Linking
<1>8. TypeOK'
  <2>1. chain[L] \in Nodes
    BY <1>2
  <2>2. QED
    BY <1>1, <1>3, <2>1 DEF IInv, TypeOK, ChainEnds, PushExchange, PushStates
<1>9. ChainEnds'
  <2>1. \A j, k \in 1..(L + 1) : chain'[j] = chain'[k] => j = k
    <3>1. SUFFICES ASSUME NEW j \in 1..(L + 1), NEW k \in 1..(L + 1), chain'[j] = chain'[k]
                   PROVE  j = k
      OBVIOUS
    <3>2. \A m \in 1..L : chain[m] # n
      BY <1>1 DEF NodesIn
    <3>3. (j \in 1..L \/ j = L + 1) /\ (k \in 1..L \/ k = L + 1)
      BY <1>2
    <3>4. QED
      BY <1>3, <3>1, <3>2, <3>3 DEF IInv, ChainEnds
  <2>2. QTail' = chain'[1] /\ QHead' = chain'[L + 1]
    BY <1>2, <1>3 DEF IInv, ChainEnds, PushExchange
  <2>3. QED
    BY <1>3, <2>1, <2>2 DEF ChainEnds
<1>10. ChainLinked'
  <2>1. Next'[chain'[L + 1]] = NULL
    BY <1>1, <1>3, <1>5
  <2>2. SUFFICES ASSUME NEW k \in 1..L
                 PROVE  (\/ Next[chain[k]] = chain[k + 1]
                         \/ /\ Next[chain[k]] = NULL
                            /\ \E u \in Threads : Linking(u, chain[k], chain[k + 1]))'
    BY <1>2, <1>3, <2>1 DEF ChainLinked
  <2>3. CASE k \in 1..(L - 1)
    <3>1. chain'[k] = chain[k] /\ chain'[k + 1] = chain[k + 1]
      BY <1>2, <1>3, <2>3
    <3>2. QED
      BY <1>5, <1>6, <2>3, <3>1 DEF IInv, ChainLinked
  <2>4. CASE k = L
    BY <1>2, <1>3, <1>5, <1>7, <2>4 DEF IInv, ChainLinked
  <2>5. QED
    BY <1>2, <2>3, <2>4
<1>11. LinkTargetQueued'
  <2>1. SUFFICES ASSUME NEW u \in Threads, pc'[u] = "link"
                 PROVE  \E k \in 1..L : /\ Linking(u, chain[k], chain[k + 1])'
                                        /\ Next'[chain'[k]] = NULL
    BY <1>2, <1>3 DEF LinkTargetQueued
  <2>2. CASE u = t
    BY <1>2, <1>3, <1>5, <1>7, <2>2 DEF IInv, ChainLinked
  <2>3. CASE u # t
    <3>1. PICK k \in 1..(L - 1) : Linking(u, chain[k], chain[k + 1]) /\ Next[chain[k]] = NULL
      BY <1>4, <2>1, <2>3 DEF IInv, LinkTargetQueued
    <3>2. k \in 1..L /\ chain'[k] = chain[k] /\ chain'[k + 1] = chain[k + 1]
      BY <1>2, <1>3, <3>1
    <3>3. QED
      BY <1>5, <1>6, <3>1, <3>2
  <2>4. QED
    BY <2>2, <2>3
<1>12. OneOwner'
  <2>1. free' = free
    BY DEF PushExchange
  <2>2. (free \cap NodesIn(chain) = {})'
    BY <1>1, <1>3, <2>1 DEF IInv, OneOwner
  <2>3. \A u \in Threads : u # t /\ pc[u] \in PushStates => Node[u] # n
    BY <1>1 DEF IInv, OneOwner, PushStates
  <2>4. (\A u \in Threads : Holding(u) => Node[u] \notin free \cup NodesIn(chain))'
    BY <1>1, <1>3, <1>4, <1>5, <2>1, <2>3 DEF IInv, OneOwner, Holding, PushStates
  <2>5. (\A j \in Items : j \in free \/ j \in NodesIn(chain)
                             \/ \E u \in Threads : Holding(u) /\ Node[u] = j)'
    BY <1>1, <1>3, <1>4, <1>5, <2>1 DEF IInv, OneOwner, Holding
  <2>6. (\A u, v \in Threads :
          pc[u] \in PushStates /\ pc[v] \in PushStates /\ Node[u] = Node[v] => u = v)'
    BY <1>1, <1>4, <1>5 DEF IInv, OneOwner, PushStates
  <2>7. QED
    BY <2>2, <2>4, <2>5, <2>6 DEF OneOwner
<1>13. CallsInOrder'
  BY <1>1, <1>3, <1>4, <1>5 DEF IInv, CallsInOrder, PushExchange, PushStates, PopStates
<1>14. QuietPop'
  <2>1. CASE t = Consumer
    BY <1>1, <1>4, <1>5, <2>1 DEF IInv, QuietPop, InPop, PushExchange, PushStates, PopStates, Threads
  <2>2. CASE t # Consumer
    BY <1>4, <1>5, <2>2 DEF IInv, QuietPop, InPop, PushExchange, PushStates, PopStates, Threads
  <2>3. QED
    BY <2>1, <2>2
<1>15. QED
  BY <1>8, <1>9, <1>10, <1>11, <1>12, <1>13, <1>14 DEF IInv

(* The link of a push closes the gap that its exchange has left.            *)
LEMMA PushLinkPreserves ==
    ASSUME IInv, NEW t \in Threads, PushLink(t)
    PROVE  IInv'
<1> USE ConstantsAssumption
<1>1. chain \in Seq(Nodes) /\ Len(chain) \in Nat \ {0} /\ chain' = chain
  BY DEF IInv, TypeOK, ChainEnds, PushLink
<1>2. PICK k \in 1..(Len(chain) - 1) :
        /\ Prev[t] = chain[k] /\ Node[t] = chain[k + 1] /\ Next[chain[k]] = NULL
        /\ pc[t] = "link"
  BY DEF IInv, LinkTargetQueued, Linking, PushLink
<1>3. k \in 1..Len(chain) /\ k + 1 \in 1..Len(chain) /\ chain[k] \in Nodes /\ chain[k + 1] \in Nodes
  BY <1>1, <1>2
<1>4. /\ Next'[chain[k]] = chain[k + 1]
      /\ \A n \in Nodes : n # chain[k] => Next'[n] = Next[n]
  BY <1>2, <1>3 DEF IInv, TypeOK, PushLink
<1>5. \A u \in Threads : u # t => pc'[u] = pc[u] /\ Node'[u] = Node[u] /\ Prev'[u] = Prev[u]
  BY DEF IInv, TypeOK, PushLink
<1>6. pc'[t] = IF Node[t] = Stub THEN "popRetry" ELSE "idle"
  BY DEF IInv, TypeOK, PushLink
<1>7. \A j \in 1..Len(chain) : j # k => Next'[chain[j]] = Next[chain[j]]
  BY <1>1, <1>3, <1>4 DEF IInv, ChainEnds
<1>8. TypeOK'
  BY <1>2, <1>3 DEF IInv, TypeOK, PushLink, PushStates, PopStates
<1>9. ChainEnds'
  BY DEF IInv, ChainEnds, PushLink
<1>10. ChainLinked'
  <2>1. Next'[chain[Len(chain)]] = NULL
    BY <1>1, <1>2, <1>7 DEF IInv, ChainLinked
  <2>2. SUFFICES ASSUME NEW j \in 1..(Len(chain) - 1)
                 PROVE  (\/ Next[chain[j]] = chain[j + 1]
                         \/ /\ Next[chain[j]] = NULL
                            /\ \E u \in Threads : Linking(u, chain[j], chain[j + 1]))'
    BY <1>1, <2>1 DEF ChainLinked
  <2>3. CASE j = k
    BY <1>1, <1>4, <2>3
  <2>4. CASE j # k
    <3>1. j \in 1..Len(chain) /\ Next'[chain[j]] = Next[chain[j]] /\ chain[j] # chain[k]
      BY <1>1, <1>3, <1>7, <2>4 DEF IInv, ChainEnds
    <3>2. \A u \in Threads : Linking(u, chain[j], chain[j + 1]) => Linking(u, chain[j], chain[j + 1])'
      BY <1>1, <1>2, <1>5, <3>1 DEF Linking
    <3>3. QED
      BY <1>1, <3>1, <3>2 DEF IInv, ChainLinked
  <2>5. QED
    BY <2>3, <2>4
<1>11. LinkTargetQueued'
  <2>1. SUFFICES ASSUME NEW u \in Threads, pc'[u] = "link"
                 PROVE  \E j \in 1..(Len(chain) - 1) : /\ Linking(u, chain[j], chain[j + 1])'
                                                       /\ Next'[chain[j]] = NULL
    BY <1>1 DEF LinkTargetQueued
  <2>2. u # t /\ pc[u] = "link"
    BY <1>5, <1>6, <2>1
  <2>3. PICK j \in 1..(Len(chain) - 1) : Linking(u, chain[j], chain[j + 1]) /\ Next[chain[j]] = NULL
    BY <2>2 DEF IInv, LinkTargetQueued
  <2>4. j # k
    BY <1>2, <2>2, <2>3 DEF Linking, IInv, OneOwner, PushStates
  <2>5. QED
    BY <1>1, <1>5, <1>7, <2>2, <2>3, <2>4 DEF Linking
<1>12. OneOwner'
  BY <1>2, <1>5, <1>6 DEF IInv, OneOwner, Holding, PushLink, PushStates
<1>13. CallsInOrder'
  <2>1. \A u \in Threads : pc[u] = "exchange" => Next'[Node[u]] = NULL
    BY <1>3, <1>4 DEF IInv, OneOwner, CallsInOrder, Holding, NodesIn, PushStates
  <2>2. Node[t] = Stub => t = Consumer /\ QTail # Stub
    BY <1>2 DEF IInv, CallsInOrder, PushStates
  <2>3. Node[t] = Stub => Stub \in NodesIn(chain)
    BY <1>2, <1>3 DEF NodesIn
  <2>4. QED
    BY <1>1, <1>5, <1>6, <2>1, <2>2, <2>3 DEF IInv, CallsInOrder, PushLink, PushStates, PopStates
<1>14. QuietPop'
  <2>1. Node[t] = Stub => t = Consumer
    BY <1>2 DEF IInv, CallsInOrder, PushStates
  <2>2. QED
    BY <1>2, <1>5, <1>6, <2>1 DEF IInv, QuietPop, InPop, PushLink, PushStates, PopStates, Threads
<1>15. QED
  BY <1>8, <1>9, <1>10, <1>11, <1>12, <1>13, <1>14 DEF IInv
-----------------------------------------------------------------------------
(* Pop: steps that leave the list alone and steps that advance Tail.        *)

\* The steps of Pop that only change where the consumer is, what it returned
\* and which node it is about to push.
QuietStep ==
    /\ UNCHANGED <<QHead, QTail, Next, Prev, free, chain>>
    /\ \A u \in Producers : pc'[u] = pc[u] /\ Node'[u] = Node[u]
    /\ pc[Consumer] \notin PushStates

(* A step of Pop that leaves the list alone leaves its shape alone.         *)
LEMMA QuietKeepsChain ==
    ASSUME IInv, TypeOK', QuietStep, pc'[Consumer] # "link"
    PROVE  ChainEnds' /\ ChainLinked' /\ LinkTargetQueued'
<1> USE ConstantsAssumption
<1>1. \A u \in Threads : \A a, b : Linking(u, a, b) <=> Linking(u, a, b)'
  BY DEF QuietStep, Linking, Threads, PushStates
<1>2. \A u \in Threads : pc'[u] = "link" => pc[u] = "link"
  BY DEF QuietStep, Threads
<1>3. QED
  BY <1>1, <1>2 DEF IInv, ChainEnds, ChainLinked, LinkTargetQueued, QuietStep

(* PopCall, the returns of NULL and the moves to another read of Pop.       *)
LEMMA PopIdlePreserves ==
    ASSUME IInv,
           \/ PopCall \/ PopEmpty \/ PopNoNext \/ PopHeadMoved \/ PopRetryNull
    PROVE  IInv'
<1> USE ConstantsAssumption
<1>1. /\ QuietStep
      /\ Node' = Node
      /\ pc'[Consumer] \in {"idle", "popFirst", "popHead"}
      /\ pc[Consumer] \in {"idle"} \cup PopStates
      /\ pc' = [pc EXCEPT ![Consumer] = pc'[Consumer]]
  BY DEF IInv, TypeOK, QuietStep, PopCall, PopEmpty, PopNoNext, PopHeadMoved, PopRetryNull,
         ReturnNull, GoTo, ReadsItemNext, Threads, PushStates, PopStates
<1>2. TypeOK'
  <2>1. disturbed' \in BOOLEAN /\ ret' \in Items \cup {NULL}
    BY DEF IInv, TypeOK, PopCall, PopEmpty, PopNoNext, PopHeadMoved, PopRetryNull,
           ReturnNull, GoTo
  <2>2. QED
    BY <1>1, <2>1 DEF IInv, TypeOK, QuietStep, PopStates
<1>3. ChainEnds' /\ ChainLinked' /\ LinkTargetQueued'
  BY <1>1, <1>2, QuietKeepsChain
<1>4. OneOwner'
  <2>1. \A u \in Threads : Holding(u)' <=> Holding(u)
    BY <1>1 DEF Holding, QuietStep, Threads, PopStates
  <2>2. \A u \in Threads : pc'[u] \in PushStates <=> pc[u] \in PushStates
    BY <1>1 DEF QuietStep, Threads, PushStates, PopStates
  <2>3. QED
    BY <1>1, <2>1, <2>2 DEF IInv, OneOwner, QuietStep
<1>5. CallsInOrder'
  <2>1. pc'[Consumer] = "popHead" => QTail # Stub
    BY <1>1 DEF IInv, TypeOK, CallsInOrder, PopCall, PopEmpty, PopNoNext, PopHeadMoved,
                PopRetryNull, ReturnNull, GoTo, ReadsItemNext, Threads
  <2>2. \A u \in Threads : u # Consumer => pc'[u] = pc[u]
    BY <1>1 DEF QuietStep, Threads
  <2>3. QED
    BY <1>1, <2>1, <2>2 DEF IInv, CallsInOrder, QuietStep, PushStates, PopStates
<1>6. QuietPop'
  <2>1. SUFFICES ASSUME InPop', ~disturbed'
                 PROVE  /\ \A p \in Producers : pc'[p] # "link"
                        /\ pc'[Consumer] = "popHead" => QTail' = QHead'
    BY DEF QuietPop
  <2>2. CASE PopCall
    BY <1>1, <2>1, <2>2 DEF PopCall, QuietStep, IInv, TypeOK, Threads
  <2>3. CASE PopNoNext
    <3>1. InPop /\ ~disturbed /\ QTail' = QTail /\ QHead' = QHead /\ Next[QTail] = NULL
      BY <2>1, <2>3 DEF PopNoNext, ReadsItemNext, GoTo, InPop, PopStates
    <3>2. \A p \in Threads : pc[p] # "link"
      BY <1>1, <3>1 DEF IInv, QuietPop, Threads, PopStates
    <3>3. Len(chain) = 1
      <4>1. ASSUME 1 \in 1..(Len(chain) - 1)
            PROVE  FALSE
        <5>1. \/ Next[chain[1]] = chain[1 + 1]
              \/ \E t \in Threads : Linking(t, chain[1], chain[1 + 1])
          BY <4>1 DEF IInv, ChainLinked
        <5>2. chain[1 + 1] # NULL
          BY <4>1 DEF IInv, TypeOK
        <5>3. QED
          BY <3>1, <3>2, <5>1, <5>2 DEF IInv, ChainEnds, Linking
      <4>2. \A m \in Nat \ {0} : 1 \in 1..(m - 1) \/ m = 1
        OBVIOUS
      <4>3. QED
        BY <4>1, <4>2, ChainNonEmpty
    <3>4. QED
      BY <1>1, <3>1, <3>2, <3>3 DEF IInv, ChainEnds, QuietStep, Threads
  <2>4. CASE PopEmpty \/ PopHeadMoved \/ PopRetryNull
    <3>1. pc'[Consumer] = "idle"
      BY <2>4 DEF PopEmpty, PopHeadMoved, PopRetryNull, ReturnNull, IInv, TypeOK, Threads
    <3>2. QED
      BY <2>1, <3>1 DEF InPop, PushStates, PopStates
  <2>5. QED
    BY <2>2, <2>3, <2>4
<1>7. QED
  BY <1>2, <1>3, <1>4, <1>5, <1>6 DEF IInv

(* Pop hands the stub to Push only when the stub is nowhere in the queue.   *)
LEMMA PopPushStubPreserves ==
    ASSUME IInv, PopPushStub
    PROVE  IInv'
<1> USE ConstantsAssumption
<1>1. /\ QuietStep
      /\ Node'[Consumer] = Stub
      /\ pc'[Consumer] = "clear"
      /\ pc[Consumer] = "popHead"
      /\ QTail # Stub
      /\ QTail = QHead
  BY DEF IInv, TypeOK, CallsInOrder, QuietStep, PopPushStub, Threads, PushStates
<1>2. TypeOK'
  BY DEF IInv, TypeOK, PopPushStub, Nodes, PushStates
<1>3. ChainEnds' /\ ChainLinked' /\ LinkTargetQueued'
  BY <1>1, <1>2, QuietKeepsChain
<1>4. Stub \notin NodesIn(chain)
  <2>1. Len(chain) = 1 /\ chain[1] = QTail
    BY <1>1, ChainNonEmpty DEF IInv, ChainEnds
  <2>2. QED
    BY <1>1, <2>1 DEF NodesIn
<1>5. \A u \in Producers : pc[u] \in PushStates => Node[u] # Stub
  BY DEF IInv, CallsInOrder, Threads
<1>6. OneOwner'
  <2>1. Stub \notin free /\ free' = free /\ chain' = chain
    BY <1>1 DEF IInv, TypeOK, QuietStep
  <2>2. (free \cap NodesIn(chain) = {})'
    BY <2>1 DEF IInv, OneOwner
  <2>3. (\A u \in Threads : Holding(u) => Node[u] \notin free \cup NodesIn(chain))'
    BY <1>1, <1>4, <2>1 DEF IInv, OneOwner, Holding, QuietStep, Threads
  <2>4. \A u \in Threads : Holding(u) => Holding(u)' /\ Node'[u] = Node[u]
    BY <1>1 DEF Holding, QuietStep, Threads
  <2>5. (\A j \in Items : j \in free \/ j \in NodesIn(chain)
                             \/ \E u \in Threads : Holding(u) /\ Node[u] = j)'
    BY <2>1, <2>4 DEF IInv, OneOwner
  <2>6. (\A u, v \in Threads :
          pc[u] \in PushStates /\ pc[v] \in PushStates /\ Node[u] = Node[v] => u = v)'
    BY <1>1, <1>5 DEF IInv, OneOwner, QuietStep, Threads
  <2>7. QED
    BY <2>2, <2>3, <2>5, <2>6 DEF OneOwner
<1>7. CallsInOrder'
  BY <1>1, <1>5 DEF IInv, CallsInOrder, QuietStep, Threads, Nodes, PushStates, PopStates
<1>8. QuietPop'
  BY <1>1 DEF IInv, QuietPop, InPop, QuietStep, PopPushStub, PushStates, PopStates
<1>9. QED
  BY <1>2, <1>3, <1>6, <1>7, <1>8 DEF IInv
\* The steps of Pop that move Tail to the successor of the node it points to.
TailStep ==
    /\ QTail' = Next[QTail]
    /\ Next[QTail] # NULL
    /\ chain' = Tail(chain)
    /\ UNCHANGED <<QHead, Next, Node, Prev>>
    /\ \A u \in Producers : pc'[u] = pc[u]
    /\ pc[Consumer] \in PopStates
    /\ pc'[Consumer] \in {"idle", "popSecond"}

(* Moving Tail takes the oldest node off the queue and leaves the rest as a
   well-formed queue; the node is not one that a producer is about to link to. *)
LEMMA TailStepKeepsChain ==
    ASSUME IInv, TailStep
    PROVE  /\ chain' \in Seq(Nodes)
           /\ QTail' \in Nodes
           /\ QTail' # QTail
           /\ NodesIn(chain') = NodesIn(chain) \ {QTail}
           /\ QTail \in NodesIn(chain)
           /\ ChainEnds' /\ ChainLinked' /\ LinkTargetQueued'
<1> USE ConstantsAssumption
<1> DEFINE L == Len(chain)
<1>1. /\ chain' \in Seq(Nodes)
      /\ L \in Nat \ {0}
      /\ Len(chain') = L - 1
      /\ \A k \in 1..(L - 1) : chain'[k] = chain[k + 1]
      /\ NodesIn(chain') = NodesIn(chain) \ {chain[1]}
      /\ chain[1] \in NodesIn(chain)
  BY TailElements, ChainNonEmpty DEF IInv, ChainEnds, TailStep
<1>2. QTail = chain[1] /\ QHead = chain[L]
  BY DEF IInv, ChainEnds
<1>3. 1 \in 1..(L - 1)
  BY <1>1, <1>2 DEF IInv, ChainLinked, TailStep
<1>4. Next[QTail] = chain[2] /\ chain[2] \in Nodes /\ chain[2] # chain[1]
  <2>1. Next[chain[1]] = chain[1 + 1]
    BY <1>2, <1>3 DEF IInv, ChainLinked, TailStep
  <2>2. 1 \in 1..L /\ 2 \in 1..L
    BY <1>1, <1>3
  <2>3. QED
    BY <1>2, <2>1, <2>2 DEF IInv, TypeOK, ChainEnds
<1>5. \A u \in Threads : \A a, b : Linking(u, a, b) <=> Linking(u, a, b)'
  BY DEF TailStep, Linking, Threads, PopStates
<1>6. ChainEnds'
  <2>1. chain' # <<>>
    BY <1>1, <1>3
  <2>2. QTail' = chain'[1]
    BY <1>1, <1>3, <1>4 DEF TailStep
  <2>3. L - 1 \in 1..(L - 1) /\ (L - 1) + 1 = L
    BY <1>1, <1>3
  <2>4. QHead' = chain'[L - 1]
    BY <1>1, <1>2, <2>3 DEF TailStep
  <2>5. \A j, k \in 1..(L - 1) : chain'[j] = chain'[k] => j = k
    <3>1. SUFFICES ASSUME NEW j \in 1..(L - 1), NEW k \in 1..(L - 1), chain[j + 1] = chain[k + 1]
                   PROVE  j = k
      BY <1>1
    <3>2. j + 1 \in 1..L /\ k + 1 \in 1..L
      BY <1>1
    <3>3. j + 1 = k + 1
      BY <3>1, <3>2 DEF IInv, ChainEnds
    <3>4. QED
      BY <3>3
  <2>6. QED
    BY <1>1, <2>1, <2>2, <2>4, <2>5 DEF ChainEnds
<1>7. ChainLinked'
  <2>1. L - 1 \in 1..(L - 1) /\ (L - 1) + 1 = L
    BY <1>1, <1>3
  <2>2. Next'[chain'[Len(chain')]] = NULL
    BY <1>1, <2>1 DEF IInv, ChainLinked, TailStep
  <2>3. SUFFICES ASSUME NEW k \in 1..(L - 2)
                 PROVE  (\/ Next[chain[k]] = chain[k + 1]
                         \/ /\ Next[chain[k]] = NULL
                            /\ \E u \in Threads : Linking(u, chain[k], chain[k + 1]))'
    BY <1>1, <2>2 DEF ChainLinked
  <2>4. k \in 1..(L - 1) /\ k + 1 \in 1..(L - 1)
    BY <1>1
  <2>5. chain'[k] = chain[k + 1] /\ chain'[k + 1] = chain[(k + 1) + 1]
    BY <1>1, <2>4
  <2>6. QED
    BY <1>5, <2>4, <2>5 DEF IInv, ChainLinked, TailStep
<1>8. LinkTargetQueued'
  <2>1. SUFFICES ASSUME NEW u \in Threads, pc'[u] = "link"
                 PROVE  \E k \in 1..(L - 2) : /\ Linking(u, chain[k], chain[k + 1])'
                                              /\ Next'[chain'[k]] = NULL
    BY <1>1 DEF LinkTargetQueued
  <2>2. pc[u] = "link"
    BY <2>1 DEF TailStep, Threads
  <2>3. PICK k \in 1..(L - 1) : Linking(u, chain[k], chain[k + 1]) /\ Next[chain[k]] = NULL
    BY <2>2 DEF IInv, LinkTargetQueued
  <2>4. k # 1
    BY <1>2, <2>3 DEF TailStep
  <2>5. k - 1 \in 1..(L - 2) /\ (k - 1) + 1 = k /\ k - 1 \in 1..(L - 1)
    BY <1>1, <2>4
  <2>6. chain'[k - 1] = chain[k] /\ chain'[(k - 1) + 1] = chain[k + 1]
    BY <1>1, <2>5
  <2>7. QED
    BY <1>5, <2>3, <2>5, <2>6 DEF TailStep
<1>9. QED
  BY <1>1, <1>2, <1>4, <1>6, <1>7, <1>8 DEF TailStep
(* PopTake, PopRetryTake and PopSkipStub.                                   *)
LEMMA PopAdvancePreserves ==
    ASSUME IInv, PopTake \/ PopRetryTake \/ PopSkipStub
    PROVE  IInv'
<1> USE ConstantsAssumption
<1>1. TailStep
  BY DEF IInv, TypeOK, TailStep, PopTake, PopRetryTake, PopSkipStub, ReturnTail, ReadsItemNext,
         PopStates, Threads
<1>2. /\ chain' \in Seq(Nodes)
      /\ QTail' \in Nodes
      /\ QTail' # QTail
      /\ NodesIn(chain') = NodesIn(chain) \ {QTail}
      /\ QTail \in NodesIn(chain)
      /\ ChainEnds' /\ ChainLinked' /\ LinkTargetQueued'
  BY <1>1, TailStepKeepsChain
<1>3. \/ free' = free \cup {QTail} /\ QTail \in Items /\ ret' = QTail /\ pc'[Consumer] = "idle"
          /\ disturbed' = FALSE
      \/ free' = free /\ QTail = Stub /\ UNCHANGED <<ret, disturbed>>
          /\ pc'[Consumer] = "popSecond" /\ pc[Consumer] = "popFirst"
  BY DEF IInv, TypeOK, CallsInOrder, PopTake, PopRetryTake, PopSkipStub, ReturnTail,
         ReadsItemNext, Nodes, Threads
<1>4. pc' = [pc EXCEPT ![Consumer] = pc'[Consumer]] /\ pc[Consumer] \in PopStates
  BY <1>1 DEF IInv, TypeOK, TailStep, PopTake, PopRetryTake, PopSkipStub, ReturnTail, Threads
<1>5. TypeOK'
  BY <1>1, <1>2, <1>3, <1>4 DEF IInv, TypeOK, TailStep, PopStates
<1>6. \A u \in Threads : pc'[u] \in PushStates <=> pc[u] \in PushStates
  BY <1>1 DEF TailStep, Threads, PushStates, PopStates
<1>7. \A u \in Threads : Holding(u)' <=> Holding(u)
  BY <1>1 DEF TailStep, Threads, Holding, PopStates
<1>8. OneOwner'
  <2>1. Node' = Node
    BY <1>1 DEF TailStep
  <2>2. (free \cap NodesIn(chain) = {})'
    BY <1>2, <1>3 DEF IInv, OneOwner
  <2>3. (\A u \in Threads : Holding(u) => Node[u] \notin free \cup NodesIn(chain))'
    BY <1>2, <1>3, <1>7, <2>1 DEF IInv, OneOwner
  <2>4. (\A j \in Items : j \in free \/ j \in NodesIn(chain)
                             \/ \E u \in Threads : Holding(u) /\ Node[u] = j)'
    BY <1>2, <1>3, <1>7, <2>1 DEF IInv, OneOwner
  <2>5. (\A u, v \in Threads :
          pc[u] \in PushStates /\ pc[v] \in PushStates /\ Node[u] = Node[v] => u = v)'
    BY <1>6, <2>1 DEF IInv, OneOwner
  <2>6. QED
    BY <2>2, <2>3, <2>4, <2>5 DEF OneOwner
<1>9. CallsInOrder'
  <2>1. \A u \in Threads : u # Consumer => pc'[u] = pc[u]
    BY <1>1 DEF TailStep, Threads
  <2>2. \A u \in Threads : u # Consumer => pc[u] \notin PopStates
    BY DEF IInv, CallsInOrder
  <2>3. \A u \in Threads : pc[u] \in PushStates => Node[u] # Stub
    BY <1>4, <2>2 DEF IInv, CallsInOrder, PushStates, PopStates
  <2>4. pc'[Consumer] = "popSecond" => QTail' # Stub
    BY <1>2, <1>3
  <2>5. QED
    BY <1>1, <2>1, <2>2, <2>3, <2>4 DEF IInv, CallsInOrder, TailStep, PushStates, PopStates
<1>10. QuietPop'
  BY <1>1, <1>3 DEF IInv, QuietPop, InPop, TailStep, PushStates, PopStates
<1>11. QED
  BY <1>2, <1>5, <1>8, <1>9, <1>10 DEF IInv

-----------------------------------------------------------------------------
(* Every step of Push or Pop preserves the invariant.                       *)
LEMMA StepPreserves ==
    ASSUME IInv, [NextStep]_vars
    PROVE  IInv'
<1>1. CASE \E t \in Threads, i \in Items : PushCall(t, i)
  BY <1>1, PushCallPreserves
<1>2. CASE \E t \in Threads : MPSCFreeListPush(t)
  BY <1>2, PushClearPreserves, PushExchangePreserves, PushLinkPreserves DEF MPSCFreeListPush
<1>3. CASE MPSCFreeListPop
  BY <1>3, PopIdlePreserves, PopPushStubPreserves, PopAdvancePreserves DEF MPSCFreeListPop
<1>4. CASE UNCHANGED vars
  BY <1>4 DEF vars, IInv, TypeOK, ChainEnds, ChainLinked, LinkTargetQueued, OneOwner, Holding,
              CallsInOrder, QuietPop, InPop, Linking
<1>5. QED
  BY <1>1, <1>2, <1>3, <1>4 DEF NextStep

(* For any number of producers and items, a queue whose stub was zeroed keeps
   the whole invariant: the Next fields spell the exchange order from Tail to
   Head, with gaps only where a push has not linked yet.                    *)
THEOREM Invariant == ZeroedStub => (Spec => []IInv)
<1>1. ZeroedStub /\ Init => IInv
  BY InitEstablishes
<1>2. IInv /\ [NextStep]_vars => IInv'
  BY StepPreserves
<1>3. QED
  BY <1>1, <1>2, PTL DEF Spec

(* Every variable keeps its type; in particular Tail is never NULL, so Pop
   never dereferences NULL.                                                 *)
THEOREM TypeCorrect == ZeroedStub => (Spec => []TypeOK)
<1>1. IInv => TypeOK
  BY DEF IInv
<1>2. QED
  BY <1>1, Invariant, PTL

(* A producer between its exchange and its link writes to a node that is in
   the queue, which neither the application nor a later push owns.          *)
THEOREM LinkTargetSafe == ZeroedStub => (Spec => []LinkTargetQueued)
<1>1. IInv => LinkTargetQueued
  BY DEF IInv
<1>2. QED
  BY <1>1, Invariant, PTL

(* No item is lost, duplicated or owned by two parties.                     *)
THEOREM Ownership == ZeroedStub => (Spec => []OneOwner)
<1>1. IInv => OneOwner
  BY DEF IInv
<1>2. QED
  BY <1>1, Invariant, PTL

(* The step that ends a Pop is one of the returns of MPSCFreeListPop.       *)
LEMMA PopReturnSteps ==
    ASSUME IInv, NextStep, PopReturns
    PROVE  PopEmpty \/ PopTake \/ PopHeadMoved \/ PopRetryTake \/ PopRetryNull
<1>1. Consumer \in Threads /\ pc[Consumer] \in PopStates /\ pc'[Consumer] = "idle"
  BY DEF PopReturns, Threads
<1>2. ASSUME NEW t \in Threads, NEW i \in Items, PushCall(t, i)
      PROVE  FALSE
  BY <1>1, <1>2 DEF IInv, TypeOK, PushCall, PopStates
<1>3. ASSUME NEW t \in Threads, MPSCFreeListPush(t)
      PROVE  FALSE
  BY <1>1, <1>3 DEF IInv, TypeOK, MPSCFreeListPush, PushClear, PushExchange, PushLink, PopStates
<1>4. MPSCFreeListPop
  BY <1>2, <1>3 DEF NextStep
<1>5. ~PopCall /\ ~PopSkipStub /\ ~PopNoNext /\ ~PopPushStub
  BY <1>1 DEF IInv, TypeOK, PopCall, PopSkipStub, PopNoNext, PopPushStub, GoTo, PopStates
<1>6. QED
  BY <1>4, <1>5 DEF MPSCFreeListPop

(* Pop returns the items in the order in which their pushes exchanged Head. *)
THEOREM PopReturnsOldest == ZeroedStub => (Spec => PopOldest)
<1>1. IInv /\ [NextStep]_vars =>
        [PopReturns /\ ret' # NULL => chain # <<>> /\ ret' = chain[1] /\ ret' \in Items]_vars
  <2>1. SUFFICES ASSUME IInv, NextStep, PopReturns, ret' # NULL
                 PROVE  chain # <<>> /\ ret' = chain[1] /\ ret' \in Items
    OBVIOUS
  <2>2. PopTake \/ PopRetryTake
    BY <2>1, PopReturnSteps DEF PopEmpty, PopHeadMoved, PopRetryNull, ReturnNull
  <2>3. QTail \in Items /\ ret' = QTail
    BY <2>1, <2>2 DEF IInv, TypeOK, CallsInOrder, PopTake, PopRetryTake, ReadsItemNext,
                      ReturnTail, Nodes, Threads
  <2>4. QED
    BY <2>1, <2>3 DEF IInv, ChainEnds
<1>2. QED
  BY <1>1, Invariant, PTL DEF Spec, PopOldest

(* A NULL from Pop means that nothing is queued or that some push was between
   its exchange and its link while Pop ran: it never hides an item from a
   consumer that no producer disturbs.                                      *)
THEOREM PopNullOnlyWhenDisturbed == ZeroedStub => (Spec => PopNullJustified)
<1> USE ConstantsAssumption
<1>1. IInv /\ [NextStep]_vars => [PopReturns /\ ret' = NULL => Queued = {} \/ disturbed]_vars
  <2>1. SUFFICES ASSUME IInv, NextStep, PopReturns, ret' = NULL, ~disturbed
                 PROVE  Queued = {}
    OBVIOUS
  <2>2. PopEmpty \/ PopHeadMoved \/ PopRetryNull
    BY <2>1, PopReturnSteps DEF PopTake, PopRetryTake, ReturnTail, IInv, TypeOK, Nodes
  <2>3. pc[Consumer] \in PopStates /\ \A t \in Threads : pc[t] # "link"
    BY <2>1 DEF IInv, QuietPop, InPop, PopReturns, Threads, PopStates
  <2>4. ~PopHeadMoved
    BY <2>1, <2>3 DEF IInv, QuietPop, InPop, PopHeadMoved
  <2>5. Next[chain[1]] = NULL /\ QTail = chain[1]
    BY <2>1, <2>2, <2>4 DEF IInv, ChainEnds, PopEmpty, PopRetryNull
  <2>6. Len(chain) = 1
    <3>1. ASSUME 1 \in 1..(Len(chain) - 1)
          PROVE  FALSE
      <4>1. \/ Next[chain[1]] = chain[1 + 1]
            \/ \E t \in Threads : Linking(t, chain[1], chain[1 + 1])
        BY <2>1, <3>1 DEF IInv, ChainLinked
      <4>2. chain[1 + 1] # NULL
        BY <2>1, <3>1 DEF IInv, TypeOK
      <4>3. QED
        BY <2>3, <2>5, <4>1, <4>2 DEF Linking
    <3>2. \A m \in Nat \ {0} : 1 \in 1..(m - 1) \/ m = 1
      OBVIOUS
    <3>3. QED
      BY <2>1, <3>1, <3>2, ChainNonEmpty
  <2>7. NodesIn(chain) = {QTail}
    BY <2>5, <2>6 DEF NodesIn
  <2>8. CASE PopEmpty
    BY <2>7, <2>8 DEF Queued, PopEmpty
  <2>9. CASE PopRetryNull
    <3>1. Consumer \in Threads /\ pc[Consumer] = "popRetry"
      BY <2>9 DEF PopRetryNull, Threads
    <3>2. Stub \in NodesIn(chain) /\ QTail # Stub
      BY <2>1, <3>1 DEF IInv, CallsInOrder
    <3>3. QED
      BY <2>7, <3>2
  <2>10. QED
    BY <2>2, <2>4, <2>8, <2>9
<1>2. QED
  BY <1>1, Invariant, PTL DEF Spec, PopNullJustified
-----------------------------------------------------------------------------
(* The refinement: the queue without its stub.                              *)

\* The sequence s, in which no node is twice, with the stub left out.
HasStub(s, k) == \E j \in 1..k : s[j] = Stub
WithoutStub(s) ==
    [k \in 1..(Len(s) - IF HasStub(s, Len(s)) THEN 1 ELSE 0) |->
        s[IF HasStub(s, k) THEN k + 1 ELSE k]]

NoRepeats(s) == \A j, k \in 1..Len(s) : s[j] = s[k] => j = k

(* Without the stub the sequence holds items, in the same order.            *)
LEMMA WithoutStubType ==
    ASSUME NEW s \in Seq(Nodes), NoRepeats(s)
    PROVE  /\ WithoutStub(s) \in Seq(Items)
           /\ Len(WithoutStub(s)) = Len(s) - IF HasStub(s, Len(s)) THEN 1 ELSE 0
           /\ \A k \in 1..Len(WithoutStub(s)) :
                 WithoutStub(s)[k] = s[IF HasStub(s, k) THEN k + 1 ELSE k]
<1> DEFINE n == Len(s) - IF HasStub(s, Len(s)) THEN 1 ELSE 0
           e(k) == s[IF HasStub(s, k) THEN k + 1 ELSE k]
<1>1. n \in Nat
  BY DEF HasStub
<1>2. ASSUME NEW k \in 1..n
      PROVE  e(k) \in Items
  <2>1. CASE HasStub(s, k)
    <3>1. PICK j \in 1..k : s[j] = Stub
      BY <2>1 DEF HasStub
    <3>2. j \in 1..Len(s) /\ k + 1 \in 1..Len(s) /\ j # k + 1
      BY <1>1, <3>1 DEF HasStub
    <3>3. s[k + 1] \in Nodes /\ s[k + 1] # Stub
      BY <3>1, <3>2 DEF NoRepeats
    <3>4. QED
      BY <2>1, <3>3 DEF Nodes
  <2>2. CASE ~HasStub(s, k)
    <3>1. k \in 1..Len(s) /\ k \in 1..k
      BY <1>1
    <3>2. s[k] \in Nodes /\ s[k] # Stub
      BY <2>2, <3>1 DEF HasStub
    <3>3. QED
      BY <2>2, <3>2 DEF Nodes
  <2>3. QED
    BY <2>1, <2>2
<1>3. WithoutStub(s) = [k \in 1..n |-> e(k)]
  BY DEF WithoutStub
<1>4. QED
  BY <1>1, <1>2, <1>3

(* An item appended to the sequence is appended to what is left of it.      *)
LEMMA WithoutStubAppendItem ==
    ASSUME NEW s \in Seq(Nodes), NoRepeats(s), NEW i \in Items, i \notin NodesIn(s)
    PROVE  WithoutStub(Append(s, i)) = Append(WithoutStub(s), i)
<1> DEFINE a == Append(s, i)
           w == WithoutStub(s)
<1> USE ConstantsAssumption
<1>1. i \in Nodes /\ i # Stub
  BY DEF Nodes
<1>2. /\ a \in Seq(Nodes)
      /\ Len(a) = Len(s) + 1
      /\ \A k \in 1..Len(s) : a[k] = s[k]
      /\ a[Len(s) + 1] = i
      /\ Len(s) \in Nat
  BY <1>1, AppendElements
<1>3. NoRepeats(a)
  <2>1. SUFFICES ASSUME NEW j \in 1..(Len(s) + 1), NEW k \in 1..(Len(s) + 1), a[j] = a[k]
                 PROVE  j = k
    BY <1>2 DEF NoRepeats
  <2>2. \A m \in 1..Len(s) : s[m] # i
    BY DEF NodesIn
  <2>3. (j \in 1..Len(s) \/ j = Len(s) + 1) /\ (k \in 1..Len(s) \/ k = Len(s) + 1)
    BY <1>2
  <2>4. QED
    BY <1>2, <2>1, <2>2, <2>3 DEF NoRepeats
<1>4. \A k \in 1..Len(s) : HasStub(a, k) <=> HasStub(s, k)
  BY <1>2 DEF HasStub
<1>5. HasStub(a, Len(s) + 1) <=> HasStub(s, Len(s))
  <2>1. \A j \in 1..(Len(s) + 1) : j \in 1..Len(s) \/ j = Len(s) + 1
    BY <1>2
  <2>2. \A j \in 1..Len(s) : j \in 1..(Len(s) + 1)
    BY <1>2
  <2>3. QED
    BY <1>1, <1>2, <2>1, <2>2 DEF HasStub
<1>6. /\ w \in Seq(Items)
      /\ Len(w) = Len(s) - IF HasStub(s, Len(s)) THEN 1 ELSE 0
      /\ \A k \in 1..Len(w) : w[k] = s[IF HasStub(s, k) THEN k + 1 ELSE k]
  BY WithoutStubType
<1>7. /\ WithoutStub(a) \in Seq(Items)
      /\ Len(WithoutStub(a)) = Len(a) - IF HasStub(a, Len(a)) THEN 1 ELSE 0
      /\ \A k \in 1..Len(WithoutStub(a)) :
            WithoutStub(a)[k] = a[IF HasStub(a, k) THEN k + 1 ELSE k]
  BY <1>2, <1>3, WithoutStubType
<1>8. Len(WithoutStub(a)) = Len(w) + 1
  BY <1>2, <1>5, <1>6, <1>7
<1>9. /\ Append(w, i) \in Seq(Items)
      /\ Len(Append(w, i)) = Len(w) + 1
      /\ \A k \in 1..Len(w) : Append(w, i)[k] = w[k]
      /\ Append(w, i)[Len(w) + 1] = i
  BY <1>6, AppendElements
<1>10. ASSUME NEW k \in 1..(Len(w) + 1)
       PROVE  WithoutStub(a)[k] = Append(w, i)[k]
  <2>1. CASE k = Len(w) + 1
    <3>1. CASE HasStub(s, Len(s))
      <4>1. k = Len(s) /\ HasStub(a, k)
        BY <1>2, <1>4, <1>6, <2>1, <3>1 DEF HasStub
      <4>2. QED
        BY <1>2, <1>7, <1>8, <1>9, <2>1, <4>1
    <3>2. CASE ~HasStub(s, Len(s))
      <4>1. k = Len(s) + 1 /\ ~HasStub(a, k)
        BY <1>2, <1>5, <1>6, <2>1, <3>2
      <4>2. QED
        BY <1>2, <1>7, <1>8, <1>9, <2>1, <4>1
    <3>3. QED
      BY <3>1, <3>2
  <2>2. CASE k \in 1..Len(w)
    <3>1. k \in 1..Len(s)
      BY <1>2, <1>6, <2>2
    <3>2. WithoutStub(a)[k] = a[IF HasStub(s, k) THEN k + 1 ELSE k]
      BY <1>4, <1>7, <1>8, <3>1
    <3>3. HasStub(s, k) => k + 1 \in 1..Len(s)
      BY <1>2, <1>6, <2>2 DEF HasStub
    <3>4. QED
      BY <1>2, <1>6, <1>9, <2>2, <3>1, <3>2, <3>3
  <2>3. QED
    BY <1>6, <2>1, <2>2
<1>11. QED
  BY <1>7, <1>8, <1>9, <1>10, SeqEqual

(* The stub appended to a sequence that has none is left out again.         *)
LEMMA WithoutStubAppendStub ==
    ASSUME NEW s \in Seq(Nodes), Stub \notin NodesIn(s)
    PROVE  WithoutStub(Append(s, Stub)) = WithoutStub(s)
<1>1. Stub \in Nodes
  BY DEF Nodes
<1>2. /\ Len(Append(s, Stub)) = Len(s) + 1
      /\ \A k \in 1..Len(s) : Append(s, Stub)[k] = s[k]
      /\ Append(s, Stub)[Len(s) + 1] = Stub
      /\ Len(s) \in Nat
  BY <1>1, AppendElements
<1>3. \A k \in 1..Len(s) : ~HasStub(s, k) /\ ~HasStub(Append(s, Stub), k)
  BY <1>2 DEF HasStub, NodesIn
<1>4. HasStub(Append(s, Stub), Len(s) + 1) /\ ~HasStub(s, Len(s))
  BY <1>2 DEF HasStub, NodesIn
<1>5. QED
  BY <1>2, <1>3, <1>4 DEF WithoutStub

(* The first node, when it is an item, is the first that is left, and what
   follows it is what is left of the rest.                                  *)
LEMMA WithoutStubTailItem ==
    ASSUME NEW s \in Seq(Nodes), NoRepeats(s), s # <<>>, s[1] # Stub
    PROVE  /\ WithoutStub(s) # <<>>
           /\ Head(WithoutStub(s)) = s[1]
           /\ WithoutStub(Tail(s)) = Tail(WithoutStub(s))
<1> DEFINE r == Tail(s)
           w == WithoutStub(s)
<1>1. /\ r \in Seq(Nodes)
      /\ Len(s) \in Nat \ {0}
      /\ Len(r) = Len(s) - 1
      /\ \A k \in 1..(Len(s) - 1) : r[k] = s[k + 1]
  BY TailElements DEF NoRepeats
<1>2. NoRepeats(r)
  <2>1. \A k \in 1..(Len(s) - 1) : k + 1 \in 1..Len(s)
    BY <1>1
  <2>2. QED
    BY <1>1, <2>1 DEF NoRepeats
<1>3. \A k \in 0..(Len(s) - 1) : HasStub(r, k) <=> HasStub(s, k + 1)
  <2>1. SUFFICES ASSUME NEW k \in 0..(Len(s) - 1)
                 PROVE  HasStub(r, k) <=> HasStub(s, k + 1)
    OBVIOUS
  <2>2. ASSUME NEW j \in 1..k, r[j] = Stub
        PROVE  HasStub(s, k + 1)
    <3>1. j + 1 \in 1..(k + 1) /\ s[j + 1] = Stub
      BY <1>1, <2>2
    <3>2. QED
      BY <3>1 DEF HasStub
  <2>3. ASSUME NEW j \in 1..(k + 1), s[j] = Stub
        PROVE  HasStub(r, k)
    <3>1. j - 1 \in 1..k /\ (j - 1) + 1 = j
      BY <2>3
    <3>2. r[j - 1] = Stub
      BY <1>1, <2>3, <3>1
    <3>3. QED
      BY <3>1, <3>2 DEF HasStub
  <2>4. QED
    BY <2>2, <2>3 DEF HasStub
<1>4. /\ w \in Seq(Items)
      /\ Len(w) = Len(s) - IF HasStub(s, Len(s)) THEN 1 ELSE 0
      /\ \A k \in 1..Len(w) : w[k] = s[IF HasStub(s, k) THEN k + 1 ELSE k]
  BY WithoutStubType
<1>5. /\ WithoutStub(r) \in Seq(Items)
      /\ Len(WithoutStub(r)) = Len(r) - IF HasStub(r, Len(r)) THEN 1 ELSE 0
      /\ \A k \in 1..Len(WithoutStub(r)) :
            WithoutStub(r)[k] = r[IF HasStub(r, k) THEN k + 1 ELSE k]
  BY <1>1, <1>2, WithoutStubType
<1>6. ~HasStub(s, 1)
  BY DEF HasStub
<1>7. Len(w) \in Nat \ {0} /\ Len(w) <= Len(s)
  <2>1. Len(s) = 1 => Len(w) = 1
    BY <1>4, <1>6
  <2>2. Len(s) \in Nat \ {0} /\ (Len(w) = Len(s) - 0 \/ Len(w) = Len(s) - 1)
    <3>1. Len(s) \in Nat \ {0}
      BY <1>1
    <3>2. CASE HasStub(s, Len(s))
      BY <1>4, <3>1, <3>2
    <3>3. CASE ~HasStub(s, Len(s))
      BY <1>4, <3>1, <3>3
    <3>4. QED
      BY <3>1, <3>2, <3>3
  <2>3. \A l \in Nat \ {0}, n \in Int :
          (l = 1 => n = 1) /\ (n = l - 0 \/ n = l - 1) => n \in Nat \ {0} /\ n <= l
    OBVIOUS
  <2>4. Len(w) \in Int
    BY <1>4
  <2>5. QED
    BY <2>1, <2>2, <2>3, <2>4
<1>8. w # <<>> /\ Head(w) = s[1]
  BY <1>4, <1>6, <1>7
<1>9. Len(r) \in 0..(Len(s) - 1) /\ Len(r) + 1 = Len(s)
  BY <1>1
<1>10. Len(WithoutStub(r)) = Len(w) - 1
  <2>1. HasStub(r, Len(r)) <=> HasStub(s, Len(s))
    BY <1>3, <1>9
  <2>2. CASE HasStub(s, Len(s))
    BY <1>4, <1>5, <1>9, <2>1, <2>2
  <2>3. CASE ~HasStub(s, Len(s))
    BY <1>4, <1>5, <1>9, <2>1, <2>3
  <2>4. QED
    BY <2>2, <2>3
<1>11. /\ Tail(w) \in Seq(Items)
       /\ Len(Tail(w)) = Len(w) - 1
       /\ \A k \in 1..(Len(w) - 1) : Tail(w)[k] = w[k + 1]
  BY <1>4, <1>8
<1>12. ASSUME NEW k \in 1..(Len(w) - 1)
       PROVE  WithoutStub(r)[k] = Tail(w)[k]
  <2>1. k \in 0..(Len(s) - 1) /\ k + 1 \in 1..Len(w) /\ k \in 1..(Len(s) - 1)
    BY <1>1, <1>7
  <2>2. WithoutStub(r)[k] = r[IF HasStub(s, k + 1) THEN k + 1 ELSE k]
    BY <1>3, <1>5, <1>10, <2>1
  <2>3. HasStub(s, k + 1) => k + 1 \in 1..(Len(s) - 1)
    <3>1. HasStub(s, k + 1) => HasStub(s, Len(s))
      BY <1>1, <2>1 DEF HasStub
    <3>2. QED
      BY <1>1, <1>4, <2>1, <3>1
  <2>4. WithoutStub(r)[k] = s[IF HasStub(s, k + 1) THEN (k + 1) + 1 ELSE k + 1]
    BY <1>1, <2>1, <2>2, <2>3
  <2>5. QED
    BY <1>4, <1>11, <2>1, <2>4
<1>13. QED
  BY <1>5, <1>8, <1>10, <1>11, <1>12, SeqEqual

(* The stub in front of a sequence is left out already.                     *)
LEMMA WithoutStubTailStub ==
    ASSUME NEW s \in Seq(Nodes), NoRepeats(s), s # <<>>, s[1] = Stub
    PROVE  WithoutStub(Tail(s)) = WithoutStub(s)
<1>1. /\ Len(s) \in Nat \ {0}
      /\ Len(Tail(s)) = Len(s) - 1
      /\ \A k \in 1..(Len(s) - 1) : Tail(s)[k] = s[k + 1]
  BY TailElements DEF NoRepeats
<1>2. \A k \in 1..Len(s) : HasStub(s, k)
  BY <1>1 DEF HasStub
<1>3. \A k \in 0..(Len(s) - 1) : ~HasStub(Tail(s), k)
  BY <1>1 DEF HasStub, NoRepeats
<1>4. Len(s) \in 1..Len(s) /\ Len(s) - 1 \in 0..(Len(s) - 1)
  BY <1>1
<1>5. WithoutStub(s) = [k \in 1..(Len(s) - 1) |-> s[k + 1]]
  <2>1. \A k \in 1..(Len(s) - 1) : k \in 1..Len(s)
    BY <1>1
  <2>2. QED
    BY <1>2, <1>4, <2>1 DEF WithoutStub
<1>6. WithoutStub(Tail(s)) = [k \in 1..(Len(s) - 1) |-> Tail(s)[k]]
  <2>1. \A k \in 1..(Len(s) - 1) : k \in 0..(Len(s) - 1)
    BY <1>1
  <2>2. Len(Tail(s)) - 0 = Len(s) - 1
    BY <1>1
  <2>3. QED
    BY <1>1, <1>3, <1>4, <2>1, <2>2 DEF WithoutStub
<1>7. QED
  BY <1>1, <1>5, <1>6

(* What the application sees of the queue is the chain without the stub.    *)
LEMMA ContentsOfChain ==
    ASSUME IInv
    PROVE  Contents = WithoutStub(chain) /\ NoRepeats(chain)
BY DEF Contents, StubUpTo, WithoutStub, HasStub, IInv, ChainEnds, NoRepeats

(* The exchange of Head is the moment an item enters the FIFO; the exchange
   that puts the stub back changes nothing the application sees.            *)
LEMMA PushExchangeEnqueues ==
    ASSUME IInv, IInv', NEW t \in Threads, PushExchange(t)
    PROVE  [FIFO!Next]_<<Contents, ret>>
<1>1. /\ Node[t] \in Nodes /\ Node[t] \notin NodesIn(chain)
      /\ chain' = Append(chain, Node[t]) /\ ret' = ret /\ chain \in Seq(Nodes)
  BY DEF IInv, TypeOK, CallsInOrder, OneOwner, Holding, PushExchange, PushStates
<1>2. Contents = WithoutStub(chain) /\ NoRepeats(chain) /\ Contents' = WithoutStub(chain')
  <2>1. Contents' = WithoutStub(chain)'
    BY DEF Contents, StubUpTo, WithoutStub, HasStub
  <2>2. QED
    BY <2>1, ContentsOfChain DEF WithoutStub, HasStub
<1>3. CASE Node[t] = Stub
  BY <1>1, <1>2, <1>3, WithoutStubAppendStub
<1>4. CASE Node[t] \in Items
  BY <1>1, <1>2, <1>4, WithoutStubAppendItem DEF FIFO!Next, FIFO!Enqueue
<1>5. QED
  BY <1>1, <1>3, <1>4 DEF Nodes

(* The step that moves Tail over an item is the moment the item leaves the
   FIFO, and it is the one Pop returns; stepping over the stub is invisible. *)
LEMMA PopAdvanceDequeues ==
    ASSUME IInv, PopTake \/ PopRetryTake \/ PopSkipStub
    PROVE  [FIFO!Next]_<<Contents, ret>>
<1>1. /\ chain \in Seq(Nodes) /\ chain # <<>> /\ QTail = chain[1]
      /\ chain' = Tail(chain)
  BY DEF IInv, TypeOK, ChainEnds, PopTake, PopRetryTake, PopSkipStub, ReturnTail
<1>2. Contents = WithoutStub(chain) /\ NoRepeats(chain) /\ Contents' = WithoutStub(chain')
  <2>1. Contents' = WithoutStub(chain)'
    BY DEF Contents, StubUpTo, WithoutStub, HasStub
  <2>2. QED
    BY <2>1, ContentsOfChain DEF WithoutStub, HasStub
<1>3. CASE PopSkipStub
  BY <1>1, <1>2, <1>3, WithoutStubTailStub DEF PopSkipStub
<1>4. CASE PopTake \/ PopRetryTake
  <2>1. ret' = QTail /\ QTail # Stub
    BY <1>4 DEF IInv, CallsInOrder, PopTake, PopRetryTake, ReadsItemNext, ReturnTail, Threads
  <2>2. QED
    BY <1>1, <1>2, <2>1, WithoutStubTailItem DEF FIFO!Next, FIFO!Dequeue
<1>5. QED
  BY <1>3, <1>4

(* For any producers and items, a free list whose stub was zeroed implements
   the unbounded FIFO queue that tinybase-queues.h promises, step by step: an
   item enters at its exchange of Head and leaves at the assignment of Tail
   that returns it, and every other step changes nothing the application sees,
   apart from a Pop that answers NULL.                                      *)
THEOREM Refinement == ZeroedStub => (Spec => ImplementsFIFO)
<1> USE ConstantsAssumption
<1>1. ZeroedStub /\ Init => FIFO!Init
  <2>1. SUFFICES ASSUME ZeroedStub, Init
                 PROVE  Contents = <<>> /\ ret = NULL
    BY DEF FIFO!Init
  <2>2. Len(chain) = 1 /\ chain[1] = Stub
    BY <2>1 DEF Init
  <2>3. StubUpTo(1)
    BY <2>2 DEF StubUpTo
  <2>4. Contents = <<>>
    BY <2>2, <2>3 DEF Contents
  <2>5. QED
    BY <2>1, <2>4 DEF Init
<1>2. IInv /\ IInv' /\ [NextStep]_vars => [FIFO!Next]_<<Contents, ret>>
  <2> SUFFICES ASSUME IInv, IInv', [NextStep]_vars
               PROVE  [FIFO!Next]_<<Contents, ret>>
    OBVIOUS
  <2>1. ASSUME chain' = chain
        PROVE  Contents' = Contents
    BY <2>1 DEF Contents, StubUpTo
  <2>2. CASE \E t \in Threads, i \in Items : PushCall(t, i)
    BY <2>1, <2>2 DEF PushCall
  <2>3. CASE \E t \in Threads : PushClear(t) \/ PushLink(t)
    BY <2>1, <2>3 DEF PushClear, PushLink
  <2>4. CASE \E t \in Threads : PushExchange(t)
    BY <2>4, PushExchangeEnqueues
  <2>5. CASE PopCall \/ PopNoNext \/ PopPushStub
    BY <2>1, <2>5 DEF PopCall, PopNoNext, PopPushStub, GoTo
  <2>6. CASE PopEmpty \/ PopHeadMoved \/ PopRetryNull
    BY <2>1, <2>6 DEF PopEmpty, PopHeadMoved, PopRetryNull, ReturnNull, FIFO!Next, FIFO!SpuriousMiss
  <2>7. CASE PopTake \/ PopRetryTake \/ PopSkipStub
    BY <2>7, PopAdvanceDequeues
  <2>8. CASE UNCHANGED vars
    BY <2>1, <2>8 DEF vars
  <2>9. QED
    BY <2>2, <2>3, <2>4, <2>5, <2>6, <2>7, <2>8 DEF NextStep, MPSCFreeListPush, MPSCFreeListPop
<1>3. QED
  BY <1>1, <1>2, Invariant, PTL DEF Spec, ImplementsFIFO, FIFO!Spec
=============================================================================
