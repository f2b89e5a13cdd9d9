---------------------------- MODULE MPSCFreeList ----------------------------
(***************************************************************************)
(* The intrusive multiple-producer single-consumer queue of                *)
(* tinybase-queues.c: MPSCFreeListPush, run by any number of threads, and  *)
(* MPSCFreeListPop, run by one consumer.                                   *)
(*                                                                         *)
(* A step makes at most one access to memory that another thread may touch *)
(* at the same time (Queue->Head, or the Next field of a node).            *)
(* Queue->Tail is read and written by the consumer alone, so the local     *)
(* computation around a shared access is folded into that access's step.   *)
(***************************************************************************)
EXTENDS Naturals, Sequences

CONSTANTS
    Producers,        \* the threads that only call MPSCFreeListPush
    Consumer,         \* the one thread that calls MPSCFreeListPop
    Items,            \* the application's nodes
    Stub,             \* &Queue->Stub
    NULL,
    StubNextAtInit    \* what Stub.Next may hold when InitMPSCFreeList returns

Nodes == Items \cup {Stub}
Threads == Producers \cup {Consumer}

ASSUME ConstantsAssumption ==
    /\ Consumer \notin Producers
    /\ Stub \notin Items
    /\ NULL \notin Nodes
    /\ StubNextAtInit \subseteq Nodes \cup {NULL}

\* The owner zeroed the structure before InitMPSCFreeList.
ZeroedStub == StubNextAtInit = {NULL}

VARIABLES
    QHead,            \* Queue->Head
    QTail,            \* Queue->Tail
    Next,             \* the Next field of every node, the stub included
    pc,               \* where each thread is in Push or Pop
    Node, Prev,       \* the locals of each thread's MPSCFreeListPush
    free,             \* the items the application owns and may push
    ret,              \* what the last finished Pop returned
    chain,            \* history: the queued nodes in the order of their exchanges
    disturbed         \* history: during the current Pop, some push has been
                      \* between its exchange and its link

vars == <<QHead, QTail, Next, pc, Node, Prev, free, ret, chain, disturbed>>

NodesIn(s) == {s[k] : k \in 1..Len(s)}

\* What the application waits for: everything in the chain except the stub.
Queued == NodesIn(chain) \ {Stub}

PushStates == {"clear", "exchange", "link"}
PopStates == {"popFirst", "popSecond", "popHead", "popRetry"}

-----------------------------------------------------------------------------
(* InitMPSCFreeList sets Head and Tail and leaves Stub.Next as it was.  An
   item holds anything in its Next field before its first push.             *)
InitMPSCFreeList ==
    /\ QHead = Stub
    /\ QTail = Stub
    /\ Next \in [Nodes -> Nodes \cup {NULL}]
    /\ Next[Stub] \in StubNextAtInit

Init ==
    /\ InitMPSCFreeList
    /\ pc = [t \in Threads |-> "idle"]
    /\ Node = [t \in Threads |-> NULL]
    /\ Prev = [t \in Threads |-> NULL]
    /\ free = Items
    /\ ret = NULL
    /\ chain = <<Stub>>
    /\ disturbed = FALSE

-----------------------------------------------------------------------------
(* MPSCFreeListPush, called by the application with an item it owns or by
   MPSCFreeListPop with the stub.                                           *)

\* The application hands item i to the queue and gives up its ownership.
PushCall(t, i) ==
    /\ pc[t] = "idle"
    /\ i \in free
    /\ Node' = [Node EXCEPT ![t] = i]
    /\ free' = free \ {i}
    /\ pc' = [pc EXCEPT ![t] = "clear"]
    /\ UNCHANGED <<QHead, QTail, Next, Prev, ret, chain, disturbed>>

\* Mutant: Node->Next = NULL is missing.
PushClearMissing(t) ==
    /\ pc[t] = "clear"
    /\ pc' = [pc EXCEPT ![t] = "exchange"]
    /\ UNCHANGED <<QHead, QTail, Next, Node, Prev, free, ret, chain, disturbed>>

\* Node->Next = NULL
PushClear(t) ==
    /\ pc[t] = "clear"
    /\ Next' = [Next EXCEPT ![Node[t]] = NULL]
    /\ pc' = [pc EXCEPT ![t] = "exchange"]
    /\ UNCHANGED <<QHead, QTail, Node, Prev, free, ret, chain, disturbed>>

\* Prev = AtomicExchangePtr(&Queue->Head, Node)
PushExchange(t) ==
    /\ pc[t] = "exchange"
    /\ Prev' = [Prev EXCEPT ![t] = QHead]
    /\ QHead' = Node[t]
    /\ chain' = Append(chain, Node[t])
    /\ disturbed' = (disturbed \/ (t # Consumer /\ pc[Consumer] # "idle"))
    /\ pc' = [pc EXCEPT ![t] = "link"]
    /\ UNCHANGED <<QTail, Next, Node, free, ret>>

\* Prev->Next = Node, and the return: to the application, or into Pop.
PushLink(t) ==
    /\ pc[t] = "link"
    /\ Next' = [Next EXCEPT ![Prev[t]] = Node[t]]
    /\ pc' = [pc EXCEPT ![t] = IF Node[t] = Stub THEN "popRetry" ELSE "idle"]
    /\ Node' = [Node EXCEPT ![t] = NULL]
    /\ Prev' = [Prev EXCEPT ![t] = NULL]
    /\ UNCHANGED <<QHead, QTail, free, ret, chain, disturbed>>

MPSCFreeListPush(t) == PushClear(t) \/ PushExchange(t) \/ PushLink(t)

-----------------------------------------------------------------------------
(* MPSCFreeListPop.                                                         *)

PopCall ==
    /\ pc[Consumer] = "idle"
    /\ disturbed' = (\E p \in Producers : pc[p] = "link")
    /\ pc' = [pc EXCEPT ![Consumer] = "popFirst"]
    /\ UNCHANGED <<QHead, QTail, Next, Node, Prev, free, ret, chain>>

\* return NULL
ReturnNull ==
    /\ ret' = NULL
    /\ disturbed' = FALSE
    /\ pc' = [pc EXCEPT ![Consumer] = "idle"]
    /\ UNCHANGED <<QHead, QTail, Next, Node, Prev, free, chain>>

\* Queue->Tail = Next; return Tail.  The caller owns the node from here on.
ReturnTail ==
    /\ QTail' = Next[QTail]
    /\ chain' = Tail(chain)
    /\ ret' = QTail
    /\ free' = free \cup {QTail}
    /\ disturbed' = FALSE
    /\ pc' = [pc EXCEPT ![Consumer] = "idle"]
    /\ UNCHANGED <<QHead, Next, Node, Prev>>

GoTo(label) ==
    /\ pc' = [pc EXCEPT ![Consumer] = label]
    /\ UNCHANGED <<QHead, QTail, Next, Node, Prev, free, ret, chain, disturbed>>

\* Next = Tail->Next: the stub is at the tail and nothing is linked to it.
PopEmpty ==
    /\ pc[Consumer] = "popFirst"
    /\ QTail = Stub
    /\ Next[QTail] = NULL
    /\ ReturnNull

\* Next = Tail->Next: the stub is at the tail and is stepped over.
PopSkipStub ==
    /\ pc[Consumer] = "popFirst"
    /\ QTail = Stub
    /\ Next[QTail] # NULL
    /\ QTail' = Next[QTail]
    /\ chain' = Tail(chain)
    /\ pc' = [pc EXCEPT ![Consumer] = "popSecond"]
    /\ UNCHANGED <<QHead, Next, Node, Prev, free, ret, disturbed>>

\* Mutant: if (Tail == &Queue->Stub) is not tested and the stub is an item.
ReadsItemNextAlways == pc[Consumer] \in {"popFirst", "popSecond"}

\* The first read of Next is of an item, or this is the read after the stub.
ReadsItemNext ==
    \/ pc[Consumer] = "popFirst" /\ QTail # Stub
    \/ pc[Consumer] = "popSecond"

\* if (Next) { Queue->Tail = Next; return Tail; }
PopTake == ReadsItemNext /\ Next[QTail] # NULL /\ ReturnTail

\* Mutant: a missing successor ends the call, the stub is never pushed back.
PopNoNextGivesUp == ReadsItemNext /\ Next[QTail] = NULL /\ ReturnNull

\* Next is NULL: go on to read Head.
PopNoNext == ReadsItemNext /\ Next[QTail] = NULL /\ GoTo("popHead")

\* Head = Queue->Head; if (Tail != Head) return NULL;
PopHeadMoved == pc[Consumer] = "popHead" /\ QTail # QHead /\ ReturnNull

\* Mutant: if (Tail != Head) is not tested before the stub is pushed.
PopPushStubAlways ==
    /\ pc[Consumer] = "popHead"
    /\ Node' = [Node EXCEPT ![Consumer] = Stub]
    /\ pc' = [pc EXCEPT ![Consumer] = "clear"]
    /\ UNCHANGED <<QHead, QTail, Next, Prev, free, ret, chain, disturbed>>

\* Tail is the last node: MPSCFreeListPush(Queue, &Queue->Stub)
PopPushStub ==
    /\ pc[Consumer] = "popHead"
    /\ QTail = QHead
    /\ Node' = [Node EXCEPT ![Consumer] = Stub]
    /\ pc' = [pc EXCEPT ![Consumer] = "clear"]
    /\ UNCHANGED <<QHead, QTail, Next, Prev, free, ret, chain, disturbed>>

\* Next = Tail->Next; if (Next) { Queue->Tail = Next; return Tail; }
PopRetryTake == pc[Consumer] = "popRetry" /\ Next[QTail] # NULL /\ ReturnTail

\* Mutant: the last item is returned although its successor is not linked yet.
PopRetryNullTakes ==
    /\ pc[Consumer] = "popRetry"
    /\ Next[QTail] = NULL
    /\ ret' = QTail
    /\ free' = free \cup {QTail}
    /\ disturbed' = FALSE
    /\ pc' = [pc EXCEPT ![Consumer] = "idle"]
    /\ UNCHANGED <<QHead, QTail, Next, Node, Prev, chain>>

\* return NULL: a producer exchanged Head before the stub and has not linked.
PopRetryNull == pc[Consumer] = "popRetry" /\ Next[QTail] = NULL /\ ReturnNull

MPSCFreeListPop ==
    \/ PopCall \/ PopEmpty \/ PopSkipStub \/ PopTake \/ PopNoNext
    \/ PopHeadMoved \/ PopPushStub \/ PopRetryTake \/ PopRetryNull

-----------------------------------------------------------------------------
NextStep ==
    \/ \E t \in Threads, i \in Items : PushCall(t, i)
    \/ \E t \in Threads : MPSCFreeListPush(t)
    \/ MPSCFreeListPop

Spec == Init /\ [][NextStep]_vars

(* A push that has begun is finished by its thread, and the consumer keeps
   polling: the operating system schedules both, and neither function waits
   for a condition.  That anybody keeps calling Push is not assumed.        *)
Fairness ==
    /\ \A t \in Threads : WF_vars(MPSCFreeListPush(t))
    /\ WF_vars(MPSCFreeListPop)

FairSpec == Spec /\ Fairness

-----------------------------------------------------------------------------
(* Properties.                                                              *)

\* Every field, local and history variable stays within its type.
TypeOK ==
    /\ QHead \in Nodes
    /\ QTail \in Nodes
    /\ Next \in [Nodes -> Nodes \cup {NULL}]
    /\ pc \in [Threads -> {"idle"} \cup PushStates \cup PopStates]
    /\ Node \in [Threads -> Nodes \cup {NULL}]
    /\ Prev \in [Threads -> Nodes \cup {NULL}]
    /\ free \subseteq Items
    /\ ret \in Items \cup {NULL}
    /\ chain \in Seq(Nodes)
    /\ disturbed \in BOOLEAN

\* Thread t has exchanged Head for its node and still has to link it behind a.
Linking(t, a, b) == pc[t] = "link" /\ Prev[t] = a /\ Node[t] = b

\* No node is in the queue twice; Tail and Head are its two ends.
ChainEnds ==
    /\ chain # <<>>
    /\ QTail = chain[1]
    /\ QHead = chain[Len(chain)]
    /\ \A j, k \in 1..Len(chain) : chain[j] = chain[k] => j = k

(* Walking the Next fields from Tail meets the nodes in the order of their
   exchanges; the walk breaks only where the push of the next node has not
   linked it yet, and ends at Head.                                         *)
ChainLinked ==
    /\ Next[chain[Len(chain)]] = NULL
    /\ \A k \in 1..(Len(chain) - 1) :
          \/ Next[chain[k]] = chain[k + 1]
          \/ /\ Next[chain[k]] = NULL
             /\ \E t \in Threads : Linking(t, chain[k], chain[k + 1])

(* A push writes only to its own node and, after the exchange, to the Next
   field of the node in front of its own, which is still in the queue and
   still unlinked: MPSCFreeListPop never returns a node that a producer is
   about to write to.                                                       *)
LinkTargetQueued ==
    \A t \in Threads : pc[t] = "link" =>
        \E k \in 1..(Len(chain) - 1) :
            /\ Linking(t, chain[k], chain[k + 1])
            /\ Next[chain[k]] = NULL

\* Thread t has taken its node for a push and not yet put it in the queue.
Holding(t) == pc[t] \in {"clear", "exchange"}

(* Each item is in exactly one place: with the application, in the hands of
   one push that has not reached its exchange, or in the queue.             *)
OneOwner ==
    /\ free \cap NodesIn(chain) = {}
    /\ \A t \in Threads : Holding(t) => Node[t] \notin free \cup NodesIn(chain)
    /\ \A i \in Items :
          i \in free \/ i \in NodesIn(chain) \/ \E t \in Threads : Holding(t) /\ Node[t] = i
    /\ \A t, u \in Threads :
          pc[t] \in PushStates /\ pc[u] \in PushStates /\ Node[t] = Node[u] => t = u

(* Where each thread may be: a node is cleared before it is exchanged in, only
   the consumer pops or pushes the stub, from the moment Pop has decided that
   the stub is not at the tail it is not, and Pop's second try finds the stub
   that it has just pushed still queued.                                    *)
CallsInOrder ==
    \A t \in Threads :
        /\ pc[t] \in PushStates => Node[t] \in Nodes
        /\ pc[t] = "exchange" => Next[Node[t]] = NULL
        /\ pc[t] \in PushStates /\ Node[t] = Stub => t = Consumer /\ QTail # Stub
        /\ pc[t] \in PopStates => t = Consumer
        /\ pc[t] \in {"popSecond", "popHead", "popRetry"} => QTail # Stub
        /\ pc[t] = "popRetry" => Stub \in NodesIn(chain)

\* The consumer is somewhere inside MPSCFreeListPop.
InPop == pc[Consumer] \in PopStates \/ (pc[Consumer] \in PushStates /\ Node[Consumer] = Stub)

(* While a Pop is undisturbed no producer is between its exchange and its
   link, and once Pop has seen no successor of the tail, Head is the tail.  *)
QuietPop ==
    InPop /\ ~disturbed =>
        /\ \A p \in Producers : pc[p] # "link"
        /\ pc[Consumer] = "popHead" => QTail = QHead

\* The inductive invariant: what every step preserves.
IInv ==
    /\ TypeOK
    /\ ChainEnds
    /\ ChainLinked
    /\ LinkTargetQueued
    /\ OneOwner
    /\ CallsInOrder
    /\ QuietPop

PopReturns == pc[Consumer] \in PopStates /\ pc'[Consumer] = "idle"

(* What a Pop returns to the application is the item whose push exchanged
   Head first among all that are queued; it is never the stub.              *)
PopOldest ==
    [][PopReturns /\ ret' # NULL => chain # <<>> /\ ret' = chain[1] /\ ret' \in Items]_vars

(* A Pop that returns NULL either finds nothing queued or ran while some
   push was between its exchange and its link.                              *)
PopNullJustified ==
    [][PopReturns /\ ret' = NULL => Queued = {} \/ disturbed]_vars

\* Every item that enters the queue is eventually handed to the consumer.
EveryItemPopped == \A i \in Items : i \in Queued ~> ret = i

-----------------------------------------------------------------------------
(* The queue the application sees: a FIFO of items to which the exchange
   appends and from which Pop removes the oldest.                           *)
StubUpTo(k) == \E j \in 1..k : chain[j] = Stub

Contents ==
    [k \in 1..(Len(chain) - IF StubUpTo(Len(chain)) THEN 1 ELSE 0) |->
        chain[IF StubUpTo(k) THEN k + 1 ELSE k]]

FIFO == INSTANCE FIFOQueue WITH q <- Contents, out <- ret

(* Through Head, Tail and the Next fields the calls implement an unbounded
   queue: what Pop returns is what was pushed, once each and in the order of
   the exchanges of Head.                                                   *)
ImplementsFIFO == FIFO!Spec
=============================================================================
