----------------------------- MODULE AvdProofs -----------------------------
(***************************************************************************)
(* Proofs about the threads of the daemon, for any number of workers,      *)
(* clients and requests and for any limits: each request is handled once,  *)
(* the slots of the control socket are counted exactly, and the drain      *)
(* abandons nothing.                                                       *)
(***************************************************************************)
EXTENDS Avd, FiniteSetTheorems, SequenceTheorems, TLAPS

(* Counting the occurrences of a value in a sequence.                      *)
Occ(s, r) == {i \in DOMAIN s : s[i] = r}

\* A value occurs finitely often.
LEMMA OccFinite ==
  ASSUME NEW S, NEW s \in Seq(S), NEW r
  PROVE  IsFiniteSet(Occ(s, r)) /\ Cardinality(Occ(s, r)) \in Nat
<1>1. Occ(s, r) \in SUBSET (1 .. Len(s)) /\ Len(s) \in Nat
  BY LenProperties DEF Occ
<1>2. IsFiniteSet(1 .. Len(s))
  BY <1>1, FS_Interval
<1> QED  BY <1>1, <1>2, FS_Subset, FS_CardinalityType

\* Append adds one occurrence of what it appends.
LEMMA OccAppend ==
  ASSUME NEW S, NEW s \in Seq(S), NEW e \in S, NEW r
  PROVE  Cardinality(Occ(Append(s, e), r))
           = Cardinality(Occ(s, r)) + (IF e = r THEN 1 ELSE 0)
<1> DEFINE n == Len(s) + 1
<1>1. /\ Len(s) \in Nat /\ DOMAIN s = 1 .. Len(s)
      /\ DOMAIN Append(s, e) = 1 .. n
      /\ \A i \in 1 .. Len(s) : Append(s, e)[i] = s[i]
      /\ Append(s, e)[n] = e
  BY LenProperties, AppendProperties
<1>2. IsFiniteSet(Occ(s, r)) /\ Cardinality(Occ(s, r)) \in Nat
  BY OccFinite
<1>3. n \notin Occ(s, r)
  BY <1>1 DEF Occ
<1>4. CASE e = r
  <2>1. Occ(Append(s, e), r) = Occ(s, r) \cup {n}
    BY <1>1, <1>4 DEF Occ
  <2> QED  BY <2>1, <1>2, <1>3, <1>4, FS_AddElement
<1>5. CASE e # r
  <2>1. Occ(Append(s, e), r) = Occ(s, r)
    BY <1>1, <1>5 DEF Occ
  <2> QED  BY <2>1, <1>2, <1>5
<1> QED  BY <1>4, <1>5

\* Tail takes away the occurrence at the head.
LEMMA OccTail ==
  ASSUME NEW S, NEW s \in Seq(S), s # <<>>, NEW r
  PROVE  Cardinality(Occ(Tail(s), r))
           = Cardinality(Occ(s, r)) - (IF Head(s) = r THEN 1 ELSE 0)
<1> DEFINE T == Occ(Tail(s), r)
           H == Occ(s, r) \ {1}
           f == [i \in T |-> i + 1]
<1>1. /\ Len(s) \in Nat \ {0} /\ DOMAIN s = 1 .. Len(s) /\ Head(s) = s[1]
      /\ DOMAIN Tail(s) = 1 .. Len(s) - 1
      /\ \A i \in 1 .. Len(s) - 1 : Tail(s)[i] = s[i + 1]
      /\ Tail(s) \in Seq(S)
  BY LenProperties, HeadTailProperties, EmptySeq
<1>2. \A i \in T : i \in Nat /\ i + 1 \in H
  BY <1>1 DEF Occ
<1>3. \A k \in H : k \in Nat /\ k - 1 \in T /\ (k - 1) + 1 = k
  BY <1>1 DEF Occ
<1>4. f \in Bijection(T, H)
  <2>1. f \in [T -> H]
    BY <1>2
  <2>2. \A a, b \in T : f[a] = f[b] => a = b
    BY <1>2
  <2>3. \A k \in H : \E i \in T : f[i] = k
    BY <1>3
  <2> QED  BY <2>1, <2>2, <2>3 DEF Bijection, Injection, Surjection, IsInjective
<1>5. IsFiniteSet(T) /\ IsFiniteSet(Occ(s, r)) /\ Cardinality(Occ(s, r)) \in Nat
  BY <1>1, OccFinite
<1>6. Cardinality(H) = Cardinality(T)
  BY <1>4, <1>5, FS_Bijection DEF ExistsBijection
<1>7. 1 \in Occ(s, r) <=> Head(s) = r
  BY <1>1 DEF Occ
<1>8. Cardinality(H) = IF 1 \in Occ(s, r) THEN Cardinality(Occ(s, r)) - 1
                       ELSE Cardinality(Occ(s, r))
  BY <1>5, FS_RemoveElement
<1> QED  BY <1>5, <1>6, <1>7, <1>8

\* A queue with room for one more keeps its bound.
LEMMA AppendBounded ==
  ASSUME NEW S, NEW s \in Seq(S), NEW e \in S, NEW n \in Nat, Len(s) < n
  PROVE  Append(s, e) \in Seq(S) /\ Len(Append(s, e)) <= n
<1>1. Len(s) \in Nat /\ Len(Append(s, e)) = Len(s) + 1
  BY LenProperties, AppendProperties
<1>2. Append(s, e) \in Seq(S)
  BY AppendProperties
<1> QED  BY <1>1, <1>2

-----------------------------------------------------------------------------
(* Types, hands, drain and the connection of main().                       *)

PlainInv == TypeOK /\ HandsInv /\ DrainInv /\ WakeInv

\* The environment and the receive loop.
LEMMA ReceivePlain ==
  ASSUME IInv,
         KernelRequest \/ StrayMessage \/ Sigterm \/ LoopTest \/ RecvError \/ Recv
           \/ AllocFails \/ Enqueue
  PROVE  PlainInv'
<1> USE BoundsAssumption, NoTaskAssumption, QueueAssumption
<1> USE DEF IInv, PlainInv, TypeOK, HandsInv, DrainInv, WakeInv, Reqids, Drained,
            scanVars, controlVars
<1>1. CASE KernelRequest
  <2>1. sent' \in Reqids /\ sent' \in 0 .. MaxReqid
    BY <1>1 DEF KernelRequest
  <2>2. inbox' \in Seq(Reqids \cup {NoTask}) /\ Len(inbox') <= RcvBuf
    <3>1. CASE inbox' = inbox
      BY <3>1
    <3>2. CASE inbox' = Append(inbox, sent + 1) /\ Len(inbox) < RcvBuf
      BY <1>1, <2>1, <3>2, AppendBounded DEF KernelRequest
    <3> QED  BY <1>1, <3>1, <3>2 DEF KernelRequest, Deliver
  <2> QED  BY <1>1, <2>1, <2>2 DEF KernelRequest, Deliver
<1>2. CASE StrayMessage
  <2>1. inbox' \in Seq(Reqids \cup {NoTask}) /\ Len(inbox') <= RcvBuf
    <3>1. CASE inbox' = inbox
      BY <3>1
    <3>2. CASE inbox' = Append(inbox, NoTask) /\ Len(inbox) < RcvBuf
      BY <3>2, AppendBounded
    <3> QED  BY <1>2, <3>1, <3>2 DEF StrayMessage, Deliver
  <2> QED  BY <1>2, <2>1 DEF StrayMessage, Deliver
<1>3. CASE Sigterm
  BY <1>3 DEF Sigterm
<1>4. CASE LoopTest
  BY <1>4 DEF LoopTest
<1>5. CASE RecvError
  BY <1>5 DEF RecvError
<1>6. CASE Recv
  <2>1. /\ Head(inbox) \in Reqids \cup {NoTask}
        /\ Tail(inbox) \in Seq(Reqids \cup {NoTask}) /\ Len(Tail(inbox)) <= RcvBuf
    BY <1>6, HeadTailProperties, LenProperties DEF Recv
  <2> QED  BY <1>6, <2>1 DEF Recv, msg_handler
<1>7. CASE AllocFails
  BY <1>7 DEF AllocFails
<1>8. CASE Enqueue
  <2>1. task \in Reqids
    BY <1>8 DEF Enqueue
  <2>2. queue' \in Seq(Reqids) /\ Len(queue') <= QueueMax
    <3>1. CASE queue' = queue
      BY <3>1
    <3>2. CASE queue' = Append(queue, task) /\ ~(Len(queue) >= QueueMax)
      <4>1. Len(queue) < QueueMax
        BY <3>2, LenProperties
      <4> QED  BY <2>1, <3>2, <4>1, AppendBounded
    <3> QED  BY <1>8, <3>1, <3>2 DEF Enqueue
  <2>3. /\ workerPc' \in [Workers -> {"lock", "notEmpty", "scan", "exited"}]
        /\ \A w \in Workers : workerPc'[w] = "scan" <=> workerPc[w] = "scan"
        /\ \A w \in Workers : workerPc'[w] = "exited" <=> workerPc[w] = "exited"
    BY <1>8 DEF Enqueue, SignalNotEmpty
  <2> QED  BY <1>8, <2>1, <2>2, <2>3 DEF Enqueue
<1> QED  BY <1>1, <1>2, <1>3, <1>4, <1>5, <1>6, <1>7, <1>8

\* The workers and the end of main().
LEMMA WorkerPlain ==
  ASSUME IInv,
         \/ \E w \in Workers : Worker(w)
         \/ SpuriousWakeup \/ Drain \/ JoinWorkers \/ JoinAccept \/ FreeRules
  PROVE  PlainInv'
<1> USE BoundsAssumption, NoTaskAssumption, QueueAssumption, WorkersAssumption
<1> USE DEF IInv, PlainInv, TypeOK, HandsInv, DrainInv, WakeInv, Reqids, Drained,
            scanVars, controlVars
<1>1. ASSUME NEW w \in Workers, WorkerWaits(w) PROVE PlainInv'
  BY <1>1 DEF WorkerWaits
<1>2. ASSUME NEW w \in Workers, WorkerLeaves(w) PROVE PlainInv'
  BY <1>2 DEF WorkerLeaves, MayLeave
<1>3. ASSUME NEW w \in Workers, Dequeue(w) PROVE PlainInv'
  <2>1. /\ Head(queue) \in Reqids
        /\ Tail(queue) \in Seq(Reqids) /\ Len(Tail(queue)) <= QueueMax
    BY <1>3, HeadTailProperties, LenProperties DEF Dequeue
  <2>2. workerPc'[w] # "exited"
    BY <1>3 DEF Dequeue
  <2>3. mainPc \notin Drained
    BY <1>3 DEF Dequeue
  <2> QED  BY <1>3, <2>1, <2>2, <2>3 DEF Dequeue
<1>4. ASSUME NEW w \in Workers, handle_scan_request(w) PROVE PlainInv'
  <2>1. scanning[w] \in Reqids
    BY <1>4 DEF handle_scan_request
  <2>2. handled' \in [Reqids -> Nat]
    BY <1>4, <2>1 DEF handle_scan_request
  <2> QED  BY <1>4, <2>1, <2>2 DEF handle_scan_request
<1>5. CASE SpuriousWakeup
  BY <1>5 DEF SpuriousWakeup
<1>6. CASE Drain
  BY <1>6 DEF Drain
<1>7. CASE JoinWorkers
  BY <1>7 DEF JoinWorkers
<1>8. CASE JoinAccept
  BY <1>8 DEF JoinAccept
<1>9. CASE FreeRules
  BY <1>9 DEF FreeRules
<1> QED  BY <1>1, <1>2, <1>3, <1>4, <1>5, <1>6, <1>7, <1>8, <1>9 DEF Worker

\* The control socket.
LEMMA ControlPlain ==
  ASSUME IInv,
         \/ AcceptThread \/ AcceptFails \/ WakeAccept \/ WakeFails \/ Return
         \/ UNCHANGED vars
         \/ \E c \in Clients : Connect(c)
         \/ \E c \in Peers : StartCommand(c) \/ ConnThread(c)
  PROVE  PlainInv'
<1> USE ClientsAssumption, QueueAssumption
<1> USE DEF IInv, PlainInv, TypeOK, HandsInv, DrainInv, WakeInv, Peers, Drained,
            scanVars, controlVars
<1>1. CASE AcceptTest
  BY <1>1 DEF AcceptTest
<1>2. ASSUME NEW c \in Peers, Accept(c) PROVE PlainInv'
  <2>1. conn' \in [Peers -> {"none", "pending", "reserved", "reading", "scan", "closed"}]
    BY <1>2 DEF Accept
  <2>2. connCount' \in Int /\ acceptPc' \in {"test", "accept", "spawn", "exited"}
    BY <1>2 DEF Accept
  <2>3. TypeOK'
    BY <1>2, <2>1, <2>2 DEF Accept
  <2>4. HandsInv' /\ DrainInv' /\ WakeInv'
    BY <1>2 DEF Accept
  <2> QED  BY <2>3, <2>4
<1>3. ASSUME NEW c \in Peers, Spawn(c) \/ SpawnFails(c) PROVE PlainInv'
  <2>1. CASE Spawn(c)
    BY <2>1 DEF Spawn
  <2>2. CASE SpawnFails(c)
    BY <2>2 DEF SpawnFails
  <2> QED  BY <1>3, <2>1, <2>2
<1>4. CASE AcceptFails
  BY <1>4 DEF AcceptFails
<1>5. CASE WakeAccept \/ WakeFails
  BY <1>5 DEF WakeAccept, WakeFails
<1>6. CASE Return
  BY <1>6 DEF Return
<1>7. CASE UNCHANGED vars
  BY <1>7 DEF vars
<1>8. ASSUME NEW c \in Clients, Connect(c) PROVE PlainInv'
  BY <1>8 DEF Connect
<1>9. ASSUME NEW c \in Peers, StartCommand(c) \/ Close(c) \/ GiveSlotBack(c) PROVE PlainInv'
  <2>1. CASE StartCommand(c)
    BY <2>1 DEF StartCommand
  <2>2. CASE Close(c)
    BY <2>2 DEF Close
  <2>3. CASE GiveSlotBack(c)
    BY <2>3 DEF GiveSlotBack
  <2> QED  BY <1>9, <2>1, <2>2, <2>3
<1> QED
  BY <1>1, <1>2, <1>3, <1>4, <1>5, <1>6, <1>7, <1>8, <1>9 DEF AcceptThread, ConnThread

-----------------------------------------------------------------------------
(* Each request is handled once.                                           *)

Scanners(r) == {w \in Workers : scanning[w] = r}
InHand(r) == IF task = r THEN 1 ELSE 0
Load(r) == Places(r) + handled[r]

\* Where a request can be, as four natural numbers.
Parts(r) ==
    /\ Places(r) = Cardinality(Occ(inbox, r)) + InHand(r)
                      + Cardinality(Occ(queue, r)) + Cardinality(Scanners(r))
    /\ Cardinality(Occ(inbox, r)) \in Nat /\ Cardinality(Occ(queue, r)) \in Nat
    /\ IsFiniteSet(Scanners(r)) /\ Cardinality(Scanners(r)) \in Nat
    /\ InHand(r) \in Nat /\ handled[r] \in Nat

\* They are what Places adds up.
LEMMA LoadParts == TypeOK => \A r \in Reqids : Parts(r)
<1> SUFFICES ASSUME TypeOK, NEW r \in Reqids PROVE Parts(r)
  OBVIOUS
<1>1. Scanners(r) \in SUBSET Workers
  BY DEF Scanners
<1>2. IsFiniteSet(Scanners(r)) /\ Cardinality(Scanners(r)) \in Nat
  BY <1>1, WorkersAssumption, FS_Subset, FS_CardinalityType
<1>3. Cardinality(Occ(inbox, r)) \in Nat /\ Cardinality(Occ(queue, r)) \in Nat
  BY OccFinite DEF TypeOK
<1>4. handled[r] \in Nat /\ InHand(r) \in Nat
  BY DEF TypeOK, InHand
<1> QED  BY <1>2, <1>3, <1>4 DEF Parts, Places, Occ, Scanners, InHand

\* ... after a step too.
LEMMA LoadPartsNext == TypeOK' => (\A r \in Reqids : Parts(r))'
  BY LoadParts, PTL

\* The properties survive a step that makes no request and brings no request to
\* one more place.
LEMMA LoadKept ==
  ASSUME IInv, TypeOK', sent' = sent, \A r \in Reqids : Load(r)' <= Load(r)
  PROVE  (FreshInv /\ HandledOnce)'
<1> SUFFICES ASSUME NEW r \in Reqids
             PROVE  /\ r > sent => Places(r)' = 0 /\ handled'[r] = 0
                    /\ Load(r)' <= 1
  BY DEF FreshInv, HandledOnce, Load
<1>1. Places(r) \in Nat /\ handled[r] \in Nat
  BY LoadParts DEF IInv, Parts
<1>2. Places(r)' \in Nat /\ handled'[r] \in Nat
  BY LoadPartsNext DEF Parts
<1>3. Load(r) <= 1 /\ (r > sent => Load(r) = 0)
  BY <1>1 DEF IInv, FreshInv, HandledOnce, Load
<1> QED  BY <1>1, <1>2, <1>3 DEF Load

\* A message is taken from the socket, dropped, or put on the queue.
LEMMA MainLoad ==
  ASSUME IInv, TypeOK', StrayMessage \/ Recv \/ AllocFails \/ Enqueue, NEW r \in Reqids
  PROVE  Load(r)' <= Load(r)
<1>0. Parts(r) /\ Parts(r)'
  BY LoadParts, LoadPartsNext DEF IInv
<1>1. /\ inbox \in Seq(Reqids \cup {NoTask}) /\ queue \in Seq(Reqids) /\ r # NoTask
      /\ task \in Reqids <=> mainPc \in {"enqueue", "notFull"}
  BY NoTaskAssumption DEF IInv, TypeOK, HandsInv, Reqids
<1>2. CASE StrayMessage
  <2>1. inbox' = inbox \/ inbox' = Append(inbox, NoTask)
    BY <1>2 DEF StrayMessage, Deliver
  <2>2. Cardinality(Occ(Append(inbox, NoTask), r)) = Cardinality(Occ(inbox, r))
    <3>1. Cardinality(Occ(Append(inbox, NoTask), r))
            = Cardinality(Occ(inbox, r)) + (IF NoTask = r THEN 1 ELSE 0)
      BY <1>1, OccAppend
    <3> QED  BY <1>0, <1>1, <3>1 DEF Parts
  <2>3. Cardinality(Occ(inbox, r))' = Cardinality(Occ(inbox, r))
    BY <2>1, <2>2
  <2>4. UNCHANGED <<InHand(r), Occ(queue, r), Scanners(r), handled>>
    BY <1>2 DEF StrayMessage, InHand, Scanners
  <2> QED  BY <1>0, <2>3, <2>4 DEF Parts, Load
<1>3. CASE Recv
  <2>1. Cardinality(Occ(inbox, r))'
          = Cardinality(Occ(inbox, r)) - (IF Head(inbox) = r THEN 1 ELSE 0)
    BY <1>1, <1>3, OccTail DEF Recv
  <2>2. InHand(r) = 0 /\ InHand(r)' = IF Head(inbox) = r THEN 1 ELSE 0
    BY <1>1, <1>3 DEF Recv, InHand
  <2>3. UNCHANGED <<Occ(queue, r), Scanners(r), handled>>
    BY <1>3 DEF Recv, Scanners
  <2> QED  BY <1>0, <2>1, <2>2, <2>3 DEF Parts, Load
<1>4. CASE AllocFails
  <2>1. InHand(r)' = 0 /\ UNCHANGED <<Occ(inbox, r), Occ(queue, r), Scanners(r), handled>>
    BY <1>1, <1>4 DEF AllocFails, scanVars, InHand, Scanners
  <2> QED  BY <1>0, <2>1 DEF Parts, Load
<1>5. CASE Enqueue
  <2>1. UNCHANGED <<Occ(inbox, r), Scanners(r), handled>>
    BY <1>5 DEF Enqueue, Scanners
  <2>2. CASE UNCHANGED <<task, queue>>
    <3>1. UNCHANGED <<InHand(r), Occ(queue, r)>>
      BY <2>2 DEF InHand
    <3> QED  BY <1>0, <2>1, <3>1 DEF Parts, Load
  <2>3. CASE task' = NoTask /\ queue' = queue
    <3>1. InHand(r)' = 0 /\ UNCHANGED Occ(queue, r)
      BY <1>1, <2>3 DEF InHand
    <3> QED  BY <1>0, <2>1, <3>1 DEF Parts, Load
  <2>4. CASE task' = NoTask /\ queue' = Append(queue, task)
    <3>1. task \in Reqids
      BY <1>1, <1>5 DEF Enqueue
    <3>2. Cardinality(Occ(queue, r))' = Cardinality(Occ(queue, r)) + InHand(r)
      BY <1>1, <2>4, <3>1, OccAppend DEF InHand
    <3>3. InHand(r)' = 0
      BY <1>1, <2>4 DEF InHand
    <3> QED  BY <1>0, <2>1, <3>2, <3>3 DEF Parts, Load
  <2> QED  BY <1>5, <2>2, <2>3, <2>4 DEF Enqueue
<1> QED  BY <1>2, <1>3, <1>4, <1>5

\* A worker takes the head of the queue, or ends its scan.
LEMMA WorkerLoad ==
  ASSUME IInv, TypeOK', NEW w \in Workers, Dequeue(w) \/ handle_scan_request(w),
         NEW r \in Reqids
  PROVE  Load(r)' <= Load(r)
<1>0. Parts(r) /\ Parts(r)'
  BY LoadParts, LoadPartsNext DEF IInv
<1>1. /\ queue \in Seq(Reqids) /\ r # NoTask
      /\ scanning \in [Workers -> Reqids \cup {NoTask}] /\ handled \in [Reqids -> Nat]
      /\ scanning[w] \in Reqids <=> workerPc[w] = "scan"
  BY NoTaskAssumption DEF IInv, TypeOK, HandsInv, Reqids
<1>2. CASE Dequeue(w)
  <2>1. Cardinality(Occ(queue, r))'
          = Cardinality(Occ(queue, r)) - (IF Head(queue) = r THEN 1 ELSE 0)
    BY <1>1, <1>2, OccTail DEF Dequeue
  <2>2. w \notin Scanners(r)
    BY <1>1, <1>2 DEF Dequeue, Scanners
  <2>3. Scanners(r)' = IF Head(queue) = r THEN Scanners(r) \cup {w} ELSE Scanners(r)
    BY <1>1, <1>2, <2>2 DEF Dequeue, Scanners
  <2>4. Cardinality(Scanners(r))'
          = Cardinality(Scanners(r)) + (IF Head(queue) = r THEN 1 ELSE 0)
    BY <1>0, <2>2, <2>3, FS_AddElement DEF Parts
  <2>5. UNCHANGED <<Occ(inbox, r), InHand(r), handled>>
    BY <1>2 DEF Dequeue, InHand
  <2> QED  BY <1>0, <2>1, <2>4, <2>5 DEF Parts, Load
<1>3. CASE handle_scan_request(w)
  <2>1. UNCHANGED <<Occ(inbox, r), InHand(r), Occ(queue, r)>>
    BY <1>3 DEF handle_scan_request, InHand
  <2>2. CASE scanning[w] = r
    <3>1. w \in Scanners(r) /\ Scanners(r)' = Scanners(r) \ {w}
      BY <1>1, <1>3, <2>2 DEF handle_scan_request, Scanners
    <3>2. Cardinality(Scanners(r))' = Cardinality(Scanners(r)) - 1
      BY <1>0, <3>1, FS_RemoveElement DEF Parts
    <3>3. handled'[r] = handled[r] + 1
      BY <1>1, <1>3, <2>2 DEF handle_scan_request
    <3> QED  BY <1>0, <2>1, <3>2, <3>3 DEF Parts, Load
  <2>3. CASE scanning[w] # r
    <3>1. Scanners(r)' = Scanners(r)
      BY <1>1, <1>3, <2>3 DEF handle_scan_request, Scanners
    <3>2. handled'[r] = handled[r]
      BY <1>1, <1>3, <2>3 DEF handle_scan_request
    <3> QED  BY <1>0, <2>1, <3>1, <3>2 DEF Parts, Load
  <2> QED  BY <2>2, <2>3
<1> QED  BY <1>2, <1>3

\* A new request has a number that was nowhere.
LEMMA RequestLoad ==
  ASSUME IInv, TypeOK', KernelRequest
  PROVE  (FreshInv /\ HandledOnce)'
<1> DEFINE n == sent + 1
<1>1. /\ inbox \in Seq(Reqids \cup {NoTask})
      /\ sent \in Nat /\ n \in Reqids /\ sent' = n
  BY BoundsAssumption DEF IInv, TypeOK, KernelRequest, Reqids
<1> SUFFICES ASSUME NEW r \in Reqids
             PROVE  /\ r > n => Places(r)' = 0 /\ handled'[r] = 0
                    /\ Load(r)' <= 1
  BY <1>1 DEF FreshInv, HandledOnce, Load
<1>2. Parts(r) /\ Parts(r)'
  BY LoadParts, LoadPartsNext DEF IInv
<1>3. r \in Nat /\ Load(r) <= 1 /\ (r > sent => Load(r) = 0)
  BY <1>2, BoundsAssumption DEF IInv, FreshInv, HandledOnce, Load, Parts, Reqids
<1>4. UNCHANGED <<InHand(r), Occ(queue, r), Scanners(r), handled>>
  BY DEF KernelRequest, InHand, Scanners
<1>5. Cardinality(Occ(inbox, r))' <= Cardinality(Occ(inbox, r)) + (IF n = r THEN 1 ELSE 0)
  <2>1. inbox' = inbox \/ inbox' = Append(inbox, n)
    BY DEF KernelRequest, Deliver
  <2>2. Cardinality(Occ(Append(inbox, n), r))
          = Cardinality(Occ(inbox, r)) + (IF n = r THEN 1 ELSE 0)
    BY <1>1, OccAppend
  <2>3. CASE inbox' = inbox
    BY <1>2, <2>3 DEF Parts
  <2>4. CASE inbox' = Append(inbox, n)
    BY <1>2, <2>2, <2>4 DEF Parts
  <2> QED  BY <2>1, <2>3, <2>4
<1>6. Load(r)' <= Load(r) + (IF n = r THEN 1 ELSE 0)
  BY <1>2, <1>4, <1>5 DEF Parts, Load
<1>7. CASE r = n
  <2>1. Load(r) = 0
    BY <1>1, <1>3, <1>7
  <2>2. Load(r)' <= 1
    BY <1>6, <1>7, <2>1
  <2>3. ~(r > n)
    BY <1>1, <1>7
  <2> QED  BY <2>2, <2>3
<1>8. CASE r # n
  <2>1. Load(r)' <= Load(r) /\ Load(r) \in Nat /\ Load(r)' \in Nat
    BY <1>2, <1>6, <1>8 DEF Load, Parts
  <2>2. r > n => r > sent
    BY <1>1, <1>3
  <2>3. r > n => Load(r)' = 0
    BY <1>3, <2>1, <2>2
  <2>4. Places(r)' \in Nat /\ handled'[r] \in Nat
    BY <1>2 DEF Parts
  <2>5. r > n => Places(r)' = 0 /\ handled'[r] = 0
    BY <2>3, <2>4 DEF Load
  <2>6. Load(r)' <= 1
    BY <1>3, <2>1
  <2> QED  BY <2>5, <2>6
<1> QED  BY <1>7, <1>8

-----------------------------------------------------------------------------
(* The slots of the control socket.                                        *)

\* Connections that hold a slot are finitely many.
LEMMA HoldingFinite == IsFiniteSet(Holding) /\ Cardinality(Holding) \in Nat
<1>1. IsFiniteSet(Peers)
  BY ClientsAssumption, FS_AddElement DEF Peers
<1>2. Holding \in SUBSET Peers
  BY DEF Holding
<1> QED  BY <1>1, <1>2, FS_Subset, FS_CardinalityType

\* The counter follows each step of the accept thread, of a connection and of
\* main().
LEMMA ControlSlots ==
  ASSUME IInv,
         \/ AcceptThread \/ AcceptFails \/ WakeAccept \/ Return
         \/ \E c \in Clients : Connect(c)
         \/ \E c \in Peers : StartCommand(c) \/ ConnThread(c)
  PROVE  SlotsAreExact'
<1> USE DEF Holding
<1>0. /\ connCount = Cardinality(Holding) /\ connCount <= MaxConns
      /\ IsFiniteSet(Holding) /\ connCount \in Nat
      /\ conn \in [Peers -> {"none", "pending", "reserved", "reading", "scan", "closed"}]
      /\ MaxConns \in Nat
  BY HoldingFinite, QueueAssumption DEF IInv, SlotsAreExact, TypeOK
<1>s. ASSUME connCount' = Cardinality(Holding'), connCount' <= MaxConns PROVE SlotsAreExact'
  BY <1>s DEF SlotsAreExact
<1>1. ASSUME Holding' = Holding, connCount' = connCount PROVE SlotsAreExact'
  BY <1>0, <1>1, <1>s
<1>2. ASSUME NEW c \in Peers, c \in Holding, Holding' = Holding \ {c}, connCount' = connCount - 1
      PROVE  SlotsAreExact'
  <2>1. Cardinality(Holding \ {c}) = Cardinality(Holding) - 1
    BY <1>0, <1>2, FS_RemoveElement
  <2> QED  BY <1>0, <1>2, <1>s, <2>1
<1>3. CASE AcceptTest \/ AcceptFails
  BY <1>1, <1>3 DEF AcceptTest, AcceptFails
<1>4. ASSUME NEW c \in Peers, Accept(c) PROVE SlotsAreExact'
  <2>1. CASE connCount < MaxConns
    <3>1. c \notin Holding /\ Holding' = Holding \cup {c} /\ connCount' = connCount + 1
      BY <1>0, <1>4, <2>1 DEF Accept
    <3>2. Cardinality(Holding \cup {c}) = Cardinality(Holding) + 1
      BY <1>0, <3>1, FS_AddElement
    <3> QED  BY <1>0, <1>s, <2>1, <3>1, <3>2
  <2>2. CASE ~(connCount < MaxConns)
    BY <1>0, <1>1, <1>4, <2>2 DEF Accept
  <2> QED  BY <2>1, <2>2
<1>5. ASSUME NEW c \in Peers, Spawn(c) PROVE SlotsAreExact'
  BY <1>0, <1>1, <1>5 DEF Spawn
<1>6. ASSUME NEW c \in Peers, SpawnFails(c) PROVE SlotsAreExact'
  BY <1>0, <1>2, <1>6 DEF SpawnFails
<1>7. CASE WakeAccept
  <2>1. conn[Wake] = "none"
    BY <1>7 DEF WakeAccept, IInv, WakeInv, Drained
  <2> QED  BY <1>0, <1>1, <1>7, <2>1 DEF WakeAccept
<1>8. CASE Return
  <2>1. Holding' = {} /\ connCount' = 0
    BY <1>8 DEF Return
  <2> QED  BY <1>0, <1>s, <2>1, FS_EmptySet
<1>9. ASSUME NEW c \in Clients, Connect(c) PROVE SlotsAreExact'
  BY <1>0, <1>1, <1>9 DEF Connect
<1>10. ASSUME NEW c \in Peers, StartCommand(c) PROVE SlotsAreExact'
  BY <1>0, <1>1, <1>10 DEF StartCommand
<1>11. ASSUME NEW c \in Peers, Close(c) PROVE SlotsAreExact'
  BY <1>0, <1>1, <1>11 DEF Close
<1>12. ASSUME NEW c \in Peers, GiveSlotBack(c) PROVE SlotsAreExact'
  BY <1>0, <1>2, <1>12 DEF GiveSlotBack
<1> QED
  BY <1>3, <1>4, <1>5, <1>6, <1>7, <1>8, <1>9, <1>10, <1>11, <1>12
  DEF AcceptThread, ConnThread

-----------------------------------------------------------------------------
(* The invariant, and what follows from it.                                *)

\* Initially nothing has been received and at least one worker runs.
LEMMA InitIInv == Init => IInv
<1> SUFFICES ASSUME Init PROVE IInv
  OBVIOUS
<1>1. TypeOK
  <2>1. /\ workerPc \in [Workers -> {"lock", "notEmpty", "scan", "exited"}]
        /\ scanning \in [Workers -> Reqids \cup {NoTask}] /\ handled \in [Reqids -> Nat]
        /\ conn \in [Peers -> {"none", "pending", "reserved", "reading", "scan", "closed"}]
    BY DEF Init
  <2>2. /\ inbox \in Seq(Reqids \cup {NoTask}) /\ Len(inbox) <= RcvBuf
        /\ queue \in Seq(Reqids) /\ Len(queue) <= QueueMax
    BY EmptySeq, BoundsAssumption, QueueAssumption DEF Init
  <2>3. {overrun, running, shutdown, control, rules} \subseteq BOOLEAN
    BY DEF Init
  <2> QED  BY <2>1, <2>2, <2>3, BoundsAssumption DEF Init, TypeOK
<1>2. HandsInv /\ DrainInv /\ WakeInv
  BY NoTaskAssumption DEF Init, HandsInv, DrainInv, WakeInv, Drained, Reqids, Peers
<1>3. ASSUME NEW r \in Reqids PROVE Places(r) = 0 /\ handled[r] = 0
  <2>1. Occ(inbox, r) = {} /\ Occ(queue, r) = {} /\ Scanners(r) = {} /\ InHand(r) = 0
    BY NoTaskAssumption DEF Init, Occ, Scanners, InHand, Reqids
  <2>2. handled[r] = 0
    BY DEF Init
  <2>3. /\ Cardinality(Occ(inbox, r)) = 0 /\ Cardinality(Occ(queue, r)) = 0
        /\ Cardinality(Scanners(r)) = 0
    BY <2>1, FS_EmptySet
  <2> QED  BY <1>1, <2>1, <2>2, <2>3, LoadParts DEF Parts
<1>4. FreshInv /\ HandledOnce
  BY <1>3 DEF FreshInv, HandledOnce
<1>5. Holding = {}
  BY DEF Init, Holding
<1>6. SlotsAreExact
  <2>1. connCount = Cardinality(Holding)
    BY <1>5, FS_EmptySet DEF Init
  <2> QED  BY <2>1, QueueAssumption DEF Init, SlotsAreExact, Holding
<1> QED  BY <1>1, <1>2, <1>4, <1>6 DEF IInv

\* Every step preserves the invariant.
LEMMA NextIInv == ASSUME IInv, [Next]_vars PROVE IInv'
<1>1. PlainInv'
  BY ReceivePlain, WorkerPlain, ControlPlain DEF Next, Environment, Main
<1>2. SlotsAreExact'
  <2>1. ASSUME UNCHANGED <<conn, connCount>> PROVE SlotsAreExact'
    BY <2>1 DEF IInv, SlotsAreExact
  <2>2. CASE \/ AcceptThread \/ AcceptFails \/ WakeAccept \/ Return
             \/ \E c \in Clients : Connect(c)
             \/ \E c \in Peers : StartCommand(c) \/ ConnThread(c)
    BY <2>2, ControlSlots
  <2>3. CASE Environment
    BY <2>1, <2>3 DEF Environment, KernelRequest, StrayMessage, Sigterm, SpuriousWakeup,
       controlVars
  <2>4. CASE LoopTest \/ RecvError \/ Recv \/ AllocFails \/ Enqueue \/ Drain \/ JoinWorkers
             \/ WakeFails \/ JoinAccept \/ FreeRules
    BY <2>1, <2>4 DEF LoopTest, RecvError, Recv, AllocFails, Enqueue, Drain, JoinWorkers,
       WakeFails, JoinAccept, FreeRules, controlVars
  <2>5. ASSUME NEW w \in Workers, Worker(w) PROVE SlotsAreExact'
    BY <2>1, <2>5 DEF Worker, WorkerWaits, WorkerLeaves, Dequeue, handle_scan_request,
       controlVars
  <2>6. CASE UNCHANGED vars
    BY <2>1, <2>6 DEF vars, controlVars
  <2> QED  BY <2>2, <2>3, <2>4, <2>5, <2>6 DEF Next, Main
<1>3. (FreshInv /\ HandledOnce)'
  <2>0. TypeOK'
    BY <1>1 DEF PlainInv
  <2>1. ASSUME UNCHANGED <<sent, inbox, task, queue, scanning, handled>>
        PROVE  (FreshInv /\ HandledOnce)'
    BY <2>1 DEF IInv, FreshInv, HandledOnce, Places
  <2>2. CASE KernelRequest
    BY <2>0, <2>2, RequestLoad
  <2>3. CASE StrayMessage \/ Recv \/ AllocFails \/ Enqueue
    <3>1. sent' = sent
      BY <2>3 DEF StrayMessage, Recv, AllocFails, Enqueue, scanVars
    <3>2. \A r \in Reqids : Load(r)' <= Load(r)
      BY <2>0, <2>3, MainLoad
    <3> QED  BY <2>0, <3>1, <3>2, LoadKept
  <2>4. ASSUME NEW w \in Workers, Dequeue(w) \/ handle_scan_request(w)
        PROVE  (FreshInv /\ HandledOnce)'
    <3>1. sent' = sent
      BY <2>4 DEF Dequeue, handle_scan_request
    <3>2. \A r \in Reqids : Load(r)' <= Load(r)
      BY <2>0, <2>4, WorkerLoad
    <3> QED  BY <2>0, <3>1, <3>2, LoadKept
  <2>5. ASSUME NEW w \in Workers, WorkerWaits(w) \/ WorkerLeaves(w)
        PROVE  (FreshInv /\ HandledOnce)'
    BY <2>1, <2>5 DEF WorkerWaits, WorkerLeaves
  <2>6. CASE Sigterm \/ SpuriousWakeup \/ LoopTest \/ RecvError \/ Drain \/ JoinWorkers
             \/ WakeAccept \/ WakeFails \/ JoinAccept \/ FreeRules \/ Return
    BY <2>1, <2>6 DEF Sigterm, SpuriousWakeup, LoopTest, RecvError, Drain, JoinWorkers,
       WakeAccept, WakeFails, JoinAccept, FreeRules, Return, scanVars
  <2>7. CASE AcceptThread \/ AcceptFails \/ UNCHANGED vars
    BY <2>1, <2>7 DEF AcceptThread, AcceptTest, Accept, Spawn, SpawnFails, AcceptFails, vars,
       scanVars
  <2>8. ASSUME NEW c \in Peers, Connect(c) \/ StartCommand(c) \/ ConnThread(c)
        PROVE  (FreshInv /\ HandledOnce)'
    BY <2>1, <2>8 DEF Connect, StartCommand, ConnThread, Close, GiveSlotBack, scanVars
  <2> QED
    BY <2>2, <2>3, <2>4, <2>5, <2>6, <2>7, <2>8 DEF Next, Environment, Main, Worker, Peers
<1> QED  BY <1>1, <1>2, <1>3 DEF IInv, PlainInv

\* The invariant holds in every reachable state.
THEOREM InvariantHolds == Spec => []IInv
<1>1. Init => IInv
  BY InitIInv
<1>2. IInv /\ [Next]_vars => IInv'
  BY NextIInv
<1> QED  BY <1>1, <1>2, PTL DEF Spec

\* A request that reaches avd is in one place at a time and is scanned at most
\* once, however the receive loop, the workers, spurious wake-ups and the
\* shutdown interleave.
THEOREM EachHandledOnce == Spec => []HandledOnce
<1>1. IInv => HandledOnce
  BY DEF IInv
<1> QED  BY <1>1, InvariantHolds, PTL

\* control_conn_count is the number of connections that hold a slot, over
\* refused connections, failed thread creation and the end of main().
THEOREM SlotsExact == Spec => []SlotsAreExact
<1>1. IInv => SlotsAreExact
  BY DEF IInv
<1> QED  BY <1>1, InvariantHolds, PTL

\* When main() goes on to free the rules, the workers have left an empty queue
\* behind, whichever of them were started and in whatever order they leave.
THEOREM DrainIsComplete == Spec => []NothingAbandoned
<1>1. ASSUME IInv PROVE NothingAbandoned
  <2> SUFFICES ASSUME mainPc \in Drained
               PROVE  queue = <<>> /\ \A w \in Workers : scanning[w] = NoTask
                                                       /\ workerPc[w] = "exited"
    BY DEF NothingAbandoned, Drained
  <2>1. queue = <<>> /\ \A w \in Workers : workerPc[w] = "exited"
    BY <1>1 DEF IInv, DrainInv
  <2>2. \A w \in Workers : scanning[w] = NoTask
    BY <1>1, <2>1 DEF IInv, HandsInv, TypeOK
  <2> QED  BY <2>1, <2>2
<1> QED  BY <1>1, InvariantHolds, PTL
=============================================================================
