-------------------------------- MODULE Avd --------------------------------
(***************************************************************************)
(* The threads of the daemon, userspace/avd/avd.c: the main thread that    *)
(* receives scan requests and puts them on the bounded queue, the scan     *)
(* workers, the accept thread of the control socket with its detached      *)
(* connection threads, and the shutdown that main() drives.                *)
(*                                                                         *)
(* A step is what a thread does under queue_lock or                        *)
(* control_conn_count_lock, or one blocking call.  A thread that waits on  *)
(* a condition variable runs again only when it is signalled, or for no    *)
(* reason (POSIX allows it).  A scan is one step here: its verdict is the  *)
(* business of ExecPipeline, the fate of the file of quarantine_file().    *)
(*                                                                         *)
(* External behaviour assumed: the kernel queues a request on the socket   *)
(* if there is room and otherwise marks the socket, which the next         *)
(* recvmsg() reports (ENOBUFS) before any message; a recvmsg() that is     *)
(* blocked when the signal is handled is interrupted, one that is about to *)
(* block is not.                                                           *)
(***************************************************************************)
EXTENDS Integers, Sequences, FiniteSets

CONSTANTS
    Workers,    \* avd_scan_threads
    QueueMax,   \* avd_scan_queue_max
    Clients,    \* users of the control socket
    Wake,       \* main()'s own connection to it
    MaxConns,   \* AVD_CONTROL_MAX_CONNS
    RcvBuf,     \* messages the netlink socket has room for
    MaxReqid,   \* bound: requests the kernel makes
    NoTask      \* no request in hand; also a message that is not one

ASSUME WorkersAssumption == IsFiniteSet(Workers) /\ Workers # {}
ASSUME ClientsAssumption == IsFiniteSet(Clients) /\ Wake \notin Clients
ASSUME QueueAssumption == QueueMax \in Nat \ {0} /\ MaxConns \in Nat \ {0}
ASSUME BoundsAssumption == RcvBuf \in Nat /\ MaxReqid \in Nat
ASSUME NoTaskAssumption == NoTask \notin 1 .. MaxReqid

Reqids == 1 .. MaxReqid
Peers == Clients \cup {Wake}

VARIABLES
    sent, inbox, overrun,  \* requests made, messages on the socket, ENOBUFS due
    running, shutdown,     \* running, shutting_down
    mainPc, task,          \* the main thread and the request in its hands
    queue,                 \* queue_head .. queue_tail
    workerPc, scanning,    \* per worker: its place and its request
    handled,               \* history: how often each request was scanned
    control,               \* the control socket is there
    acceptPc, conn,        \* the accept thread; per peer: its connection
    connCount,             \* control_conn_count
    rules                  \* compiled_rules and the corpora are allocated

scanVars == <<sent, inbox, overrun, queue, workerPc, scanning, handled>>
controlVars == <<control, acceptPc, conn, connCount>>
vars == <<scanVars, controlVars, running, shutdown, mainPc, task, rules>>

\* main() has loaded its rules, registered and started its threads.  It goes
\* on with fewer workers (not none) and without a control socket if it must.
Init ==
    /\ sent = 0 /\ inbox = <<>> /\ overrun = FALSE
    /\ running = TRUE /\ shutdown = FALSE
    /\ mainPc = "test" /\ task = NoTask
    /\ queue = <<>>
    /\ \E S \in SUBSET Workers :
          /\ S # {}
          /\ workerPc = [w \in Workers |-> IF w \in S THEN "lock" ELSE "exited"]
    /\ scanning = [w \in Workers |-> NoTask]
    /\ handled = [r \in Reqids |-> 0]
    /\ control \in BOOLEAN
    /\ acceptPc = IF control THEN "test" ELSE "exited"
    /\ conn = [c \in Peers |-> "none"]
    /\ connCount = 0
    /\ rules = TRUE

-----------------------------------------------------------------------------
(* The kernel, other senders, and SIGTERM.                                 *)

\* A request, or a message from somebody else (NoTask).
Deliver(m) ==
    /\ mainPc # "exited"
    /\ IF Len(inbox) < RcvBuf
       THEN inbox' = Append(inbox, m) /\ UNCHANGED overrun
       ELSE overrun' = TRUE /\ UNCHANGED inbox

KernelRequest ==
    /\ sent < MaxReqid
    /\ sent' = sent + 1
    /\ Deliver(sent + 1)
    /\ UNCHANGED <<controlVars, running, shutdown, mainPc, task, queue, workerPc,
                   scanning, handled, rules>>

StrayMessage ==
    /\ Deliver(NoTask)
    /\ UNCHANGED <<controlVars, running, shutdown, mainPc, task, sent, queue,
                   workerPc, scanning, handled, rules>>

\* handle_sigint() runs on the main thread.  A blocked nl_recvmsgs_default()
\* ends with -NLE_INTR; one that `running` was tested for but that has not
\* blocked yet does not notice, and a condition wait goes on.
Sigterm ==
    /\ running /\ mainPc # "exited"
    /\ running' = FALSE
    /\ \/ mainPc = "recv" /\ mainPc' = "test"
       \/ UNCHANGED mainPc
    /\ UNCHANGED <<scanVars, controlVars, shutdown, task, rules>>

-----------------------------------------------------------------------------
(* The main thread: the receive loop, msg_handler(), enqueue_scan_task().  *)

LoopTest ==
    /\ mainPc = "test"
    /\ mainPc' = IF running THEN "recv" ELSE "drain"
    /\ UNCHANGED <<scanVars, controlVars, running, shutdown, task, rules>>

\* Any error but -NLE_INTR ends the loop.
RecvError ==
    /\ mainPc = "recv" /\ overrun
    /\ overrun' = FALSE
    /\ mainPc' = "drain"
    /\ UNCHANGED <<controlVars, running, shutdown, task, sent, inbox, queue,
                   workerPc, scanning, handled, rules>>

\* msg_handler(): only a request that comes from the kernel is kept.
msg_handler(m) == IF m \in Reqids THEN "enqueue" ELSE "test"

Recv ==
    /\ mainPc = "recv" /\ ~overrun /\ inbox # <<>>
    /\ inbox' = Tail(inbox)
    /\ mainPc' = msg_handler(Head(inbox))
    /\ task' = Head(inbox)
    /\ UNCHANGED <<controlVars, running, shutdown, sent, overrun, queue, workerPc,
                   scanning, handled, rules>>

\* malloc() fails: the request is dropped.
AllocFails ==
    /\ mainPc = "enqueue"
    /\ mainPc' = "test"
    /\ task' = NoTask
    /\ UNCHANGED <<scanVars, controlVars, running, shutdown, rules>>

\* pthread_cond_signal(&queue_not_empty): one waiting worker runs again.
SignalNotEmpty ==
    LET W == {w \in Workers : workerPc[w] = "notEmpty"} IN
    IF W = {} THEN UNCHANGED workerPc
    ELSE \E w \in W : workerPc' = [workerPc EXCEPT ![w] = "lock"]

\* Faulty variant: nobody is signalled.
EnqueueUnsignalled ==
    /\ mainPc = "enqueue"
    /\ IF Len(queue) >= QueueMax /\ ~shutdown
       THEN mainPc' = "notFull" /\ UNCHANGED <<task, queue>>
       ELSE mainPc' = "test" /\ task' = NoTask /\ queue' = Append(queue, task)
    /\ UNCHANGED <<controlVars, running, shutdown, sent, inbox, overrun, workerPc,
                   scanning, handled, rules>>

\* Under queue_lock: wait for room, or append and signal.  A request that
\* meets shutting_down is dropped.
Enqueue ==
    /\ mainPc = "enqueue"
    /\ IF Len(queue) >= QueueMax /\ ~shutdown
       THEN mainPc' = "notFull" /\ UNCHANGED <<task, queue, workerPc>>
       ELSE /\ mainPc' = "test"
            /\ task' = NoTask
            /\ IF shutdown THEN UNCHANGED <<queue, workerPc>>
               ELSE queue' = Append(queue, task) /\ SignalNotEmpty
    /\ UNCHANGED <<controlVars, running, shutdown, sent, inbox, overrun, scanning,
                   handled, rules>>

-----------------------------------------------------------------------------
(* scan_worker_main() and handle_scan_request().                           *)

\* Faulty variant: a worker leaves when it sees shutting_down.
LeaveAtOnce == shutdown

\* The worker leaves only when the queue has drained too.
MayLeave == queue = <<>> /\ shutdown

WorkerWaits(w) ==
    /\ workerPc[w] = "lock"
    /\ queue = <<>> /\ ~shutdown
    /\ workerPc' = [workerPc EXCEPT ![w] = "notEmpty"]
    /\ UNCHANGED <<controlVars, running, shutdown, mainPc, task, sent, inbox,
                   overrun, queue, scanning, handled, rules>>

WorkerLeaves(w) ==
    /\ workerPc[w] = "lock"
    /\ MayLeave
    /\ workerPc' = [workerPc EXCEPT ![w] = "exited"]
    /\ UNCHANGED <<controlVars, running, shutdown, mainPc, task, sent, inbox,
                   overrun, queue, scanning, handled, rules>>

\* Faulty variant: the task is looked at under the lock but not removed.
DequeuePeeks(w) ==
    /\ workerPc[w] = "lock" /\ queue # <<>>
    /\ workerPc' = [workerPc EXCEPT ![w] = "scan"]
    /\ scanning' = [scanning EXCEPT ![w] = Head(queue)]
    /\ queue' = IF Len(queue) > 1 THEN Tail(queue) ELSE queue
    /\ mainPc' = IF mainPc = "notFull" THEN "enqueue" ELSE mainPc
    /\ UNCHANGED <<controlVars, running, shutdown, task, sent, inbox, overrun,
                   handled, rules>>

\* The head of the queue is taken and queue_not_full signalled.
Dequeue(w) ==
    /\ workerPc[w] = "lock" /\ queue # <<>>
    /\ workerPc' = [workerPc EXCEPT ![w] = "scan"]
    /\ scanning' = [scanning EXCEPT ![w] = Head(queue)]
    /\ queue' = Tail(queue)
    /\ mainPc' = IF mainPc = "notFull" THEN "enqueue" ELSE mainPc
    /\ UNCHANGED <<controlVars, running, shutdown, task, sent, inbox, overrun,
                   handled, rules>>

\* The scan and send_verdict(): a request that is handled is answered, CLEAN
\* if its file cannot be opened, and not again if the send fails.
handle_scan_request(w) ==
    /\ workerPc[w] = "scan"
    /\ handled' = [handled EXCEPT ![scanning[w]] = @ + 1]
    /\ scanning' = [scanning EXCEPT ![w] = NoTask]
    /\ workerPc' = [workerPc EXCEPT ![w] = "lock"]
    /\ UNCHANGED <<controlVars, running, shutdown, mainPc, task, sent, inbox,
                   overrun, queue, rules>>

\* pthread_cond_wait() may return unasked.
SpuriousWakeup ==
    /\ \/ /\ mainPc = "notFull"
          /\ mainPc' = "enqueue"
          /\ UNCHANGED workerPc
       \/ \E w \in Workers :
             /\ workerPc[w] = "notEmpty"
             /\ workerPc' = [workerPc EXCEPT ![w] = "lock"]
             /\ UNCHANGED mainPc
    /\ UNCHANGED <<controlVars, running, shutdown, task, sent, inbox, overrun,
                   queue, scanning, handled, rules>>

-----------------------------------------------------------------------------
(* control_accept_main() and control_conn_main().                          *)

Connect(c) ==
    /\ control /\ mainPc # "exited"
    /\ conn[c] = "none"
    /\ conn' = [conn EXCEPT ![c] = "pending"]
    /\ UNCHANGED <<scanVars, control, acceptPc, connCount, running, shutdown,
                   mainPc, task, rules>>

AcceptTest ==
    /\ acceptPc = "test"
    /\ acceptPc' = IF running THEN "accept" ELSE "exited"
    /\ UNCHANGED <<scanVars, control, conn, connCount, running, shutdown, mainPc,
                   task, rules>>

\* accept() fails: the loop starts again.
AcceptFails ==
    /\ acceptPc = "accept"
    /\ acceptPc' = "test"
    /\ UNCHANGED <<scanVars, control, conn, connCount, running, shutdown, mainPc,
                   task, rules>>

\* A slot is reserved under control_conn_count_lock, or the peer is told off.
Accept(c) ==
    /\ acceptPc = "accept"
    /\ conn[c] = "pending"
    /\ IF connCount < MaxConns
       THEN /\ connCount' = connCount + 1
            /\ conn' = [conn EXCEPT ![c] = "reserved"]
            /\ acceptPc' = "spawn"
       ELSE /\ conn' = [conn EXCEPT ![c] = "none"]
            /\ acceptPc' = "test"
            /\ UNCHANGED connCount
    /\ UNCHANGED <<scanVars, control, running, shutdown, mainPc, task, rules>>

Spawn(c) ==
    /\ acceptPc = "spawn" /\ conn[c] = "reserved"
    /\ conn' = [conn EXCEPT ![c] = "reading"]
    /\ acceptPc' = "test"
    /\ UNCHANGED <<scanVars, control, connCount, running, shutdown, mainPc, task,
                   rules>>

\* Faulty variant: the slot of a connection without a thread stays taken.
SpawnFailsKeepsSlot(c) ==
    /\ acceptPc = "spawn" /\ conn[c] = "reserved"
    /\ conn' = [conn EXCEPT ![c] = "none"]
    /\ acceptPc' = "test"
    /\ UNCHANGED <<scanVars, control, connCount, running, shutdown, mainPc, task,
                   rules>>

\* malloc() or pthread_create() fails.
SpawnFails(c) ==
    /\ acceptPc = "spawn" /\ conn[c] = "reserved"
    /\ conn' = [conn EXCEPT ![c] = "none"]
    /\ connCount' = connCount - 1
    /\ acceptPc' = "test"
    /\ UNCHANGED <<scanVars, control, running, shutdown, mainPc, task, rules>>

\* The command line arrived: SCAN runs perform_scan(), the others do not
\* touch the rules.  main()'s own connection sends nothing.
StartCommand(c) ==
    /\ conn[c] = "reading" /\ c # Wake
    /\ conn' = [conn EXCEPT ![c] = "scan"]
    /\ UNCHANGED <<scanVars, control, acceptPc, connCount, running, shutdown,
                   mainPc, task, rules>>

\* The command ends, or read_line() did not get one in time; close().
Close(c) ==
    /\ conn[c] \in {"reading", "scan"}
    /\ conn' = [conn EXCEPT ![c] = "closed"]
    /\ UNCHANGED <<scanVars, control, acceptPc, connCount, running, shutdown,
                   mainPc, task, rules>>

GiveSlotBack(c) ==
    /\ conn[c] = "closed"
    /\ conn' = [conn EXCEPT ![c] = "none"]
    /\ connCount' = connCount - 1
    /\ UNCHANGED <<scanVars, control, acceptPc, running, shutdown, mainPc, task,
                   rules>>

-----------------------------------------------------------------------------
(* main() after the receive loop.                                          *)


\* shutting_down and both broadcasts, under queue_lock.
Drain ==
    /\ mainPc = "drain"
    /\ shutdown' = TRUE
    /\ workerPc' = [w \in Workers |-> IF workerPc[w] = "notEmpty" THEN "lock"
                                      ELSE workerPc[w]]
    /\ mainPc' = "joinWorkers"
    /\ UNCHANGED <<controlVars, running, task, sent, inbox, overrun, queue,
                   scanning, handled, rules>>

JoinWorkers ==
    /\ mainPc = "joinWorkers"
    /\ \A w \in Workers : workerPc[w] = "exited"
    /\ mainPc' = IF control THEN "wake" ELSE "free"
    /\ UNCHANGED <<scanVars, controlVars, running, shutdown, task, rules>>

\* A connection to the own socket gets accept() to return.
WakeAccept ==
    /\ mainPc = "wake"
    /\ conn' = [conn EXCEPT ![Wake] = "pending"]
    /\ mainPc' = "joinAccept"
    /\ UNCHANGED <<scanVars, control, acceptPc, connCount, running, shutdown,
                   task, rules>>

\* socket() or connect() fails, which is not looked at.
WakeFails ==
    /\ mainPc = "wake"
    /\ mainPc' = "joinUnwoken"
    /\ UNCHANGED <<scanVars, controlVars, running, shutdown, task, rules>>

JoinAccept ==
    /\ mainPc \in {"joinAccept", "joinUnwoken"}
    /\ acceptPc = "exited"
    /\ mainPc' = "free"
    /\ UNCHANGED <<scanVars, controlVars, running, shutdown, task, rules>>

FreeRules ==
    /\ mainPc = "free"
    /\ rules' = FALSE
    /\ mainPc' = "return"
    /\ UNCHANGED <<scanVars, controlVars, running, shutdown, task>>

\* main() returns: the process and its detached threads end.
Return ==
    /\ mainPc = "return"
    /\ mainPc' = "exited"
    /\ conn' = [c \in Peers |-> "none"]
    /\ connCount' = 0
    /\ UNCHANGED <<scanVars, control, acceptPc, running, shutdown, task, rules>>

-----------------------------------------------------------------------------
Environment == KernelRequest \/ StrayMessage \/ Sigterm \/ SpuriousWakeup

Main ==
    \/ LoopTest \/ RecvError \/ Recv \/ AllocFails \/ Enqueue
    \/ Drain \/ JoinWorkers \/ WakeAccept \/ WakeFails \/ JoinAccept
    \/ FreeRules \/ Return

Worker(w) ==
    WorkerWaits(w) \/ WorkerLeaves(w) \/ Dequeue(w) \/ handle_scan_request(w)

AcceptThread ==
    AcceptTest \/ \E c \in Peers : Accept(c) \/ Spawn(c) \/ SpawnFails(c)

ConnThread(c) == Close(c) \/ GiveSlotBack(c)

Next ==
    \/ Environment \/ Main
    \/ \E w \in Workers : Worker(w)
    \/ AcceptThread \/ AcceptFails
    \/ \E c \in Clients : Connect(c)
    \/ \E c \in Peers : StartCommand(c) \/ ConnThread(c)

Spec == Init /\ [][Next]_vars

\* Every thread that can run does: a scan ends (SCAN_TIMEOUT_SECS; assumed also
\* of open(), which a FIFO put at the path could block) and read_line() has a
\* deadline.  Nobody has to send a request, a signal or a command.
Fairness ==
    /\ WF_vars(Main)
    /\ \A w \in Workers : WF_vars(Worker(w))
    /\ WF_vars(AcceptThread)
    /\ \A c \in Peers : WF_vars(ConnThread(c))

FairSpec == Spec /\ Fairness

-----------------------------------------------------------------------------
(* Properties.                                                             *)

\* Every variable has its type; the queue holds avd_scan_queue_max requests at
\* most, and nothing but requests.
TypeOK ==
    /\ sent \in 0 .. MaxReqid
    /\ inbox \in Seq(Reqids \cup {NoTask}) /\ Len(inbox) <= RcvBuf
    /\ {overrun, running, shutdown, control, rules} \subseteq BOOLEAN
    /\ mainPc \in {"test", "recv", "enqueue", "notFull", "drain", "joinWorkers",
                   "wake", "joinAccept", "joinUnwoken", "free", "return", "exited"}
    /\ task \in Reqids \cup {NoTask}
    /\ queue \in Seq(Reqids) /\ Len(queue) <= QueueMax
    /\ workerPc \in [Workers -> {"lock", "notEmpty", "scan", "exited"}]
    /\ scanning \in [Workers -> Reqids \cup {NoTask}]
    /\ handled \in [Reqids -> Nat]
    /\ acceptPc \in {"test", "accept", "spawn", "exited"}
    /\ conn \in [Peers -> {"none", "pending", "reserved", "reading", "scan", "closed"}]
    /\ connCount \in Int

\* Each request is scanned once: it is on its way in one place only, and not
\* any more once it has been handled.
Places(r) ==
    Cardinality({i \in DOMAIN inbox : inbox[i] = r})
        + (IF task = r THEN 1 ELSE 0)
        + Cardinality({i \in DOMAIN queue : queue[i] = r})
        + Cardinality({w \in Workers : scanning[w] = r})
HandledOnce == \A r \in Reqids : Places(r) + handled[r] <= 1

\* A slot of the control socket is taken exactly as long as there is a
\* connection that holds it, and never more than AVD_CONTROL_MAX_CONNS.
SlotsAreExact ==
    /\ connCount = Cardinality({c \in Peers :
                                  conn[c] \in {"reserved", "reading", "scan", "closed"}})
    /\ connCount <= MaxConns

\* Nothing that was queued is abandoned: when main() goes on to release what
\* the workers use, they have all left and the queue is empty.
NothingAbandoned ==
    mainPc \in {"wake", "joinAccept", "joinUnwoken", "free", "return", "exited"}
        => queue = <<>> /\ \A w \in Workers : scanning[w] = NoTask /\ workerPc[w] = "exited"

\* No wake-up is lost: a request on the queue is scanned and answered, in
\* normal operation and while the daemon drains.
QueuedIsHandled ==
    \A r \in Reqids : (\E i \in DOMAIN queue : queue[i] = r) ~> handled[r] > 0

\* main() could not connect to its own socket and waits for an accept thread
\* that waits for a connection.
Deaf ==
    /\ mainPc = "joinUnwoken" /\ acceptPc = "accept"
    /\ \A c \in Peers : conn[c] # "pending"


\* The comment at the self-connection (avd.c:3347, "wakes the loop up so it can
\* observe `running == 0` and exit on its own"): once the receive loop is left,
\* for whatever reason, the daemon exits, if only that connection is made.
DrainEnds == (mainPc = "drain") ~> mainPc \in {"exited", "joinUnwoken"}

\* The comment at sigaction() (avd.c:3092, "the shutdown path observes
\* `running == 0` instead of hanging past it"): a SIGTERM that was handled
\* starts the shutdown.
TermIsNoticed == ~running ~> shutdown

-----------------------------------------------------------------------------
(* The inductive invariant.                                                *)

Drained == {"wake", "joinAccept", "joinUnwoken", "free", "return", "exited"}
Holding == {c \in Peers : conn[c] \in {"reserved", "reading", "scan", "closed"}}

\* The main thread has a request in its hands just while it enqueues it, a
\* worker just while it scans.
HandsInv ==
    /\ task \in Reqids <=> mainPc \in {"enqueue", "notFull"}
    /\ \A w \in Workers : scanning[w] \in Reqids <=> workerPc[w] = "scan"

\* A request the kernel has not made yet is nowhere.
FreshInv == \A r \in Reqids : r > sent => Places(r) = 0 /\ handled[r] = 0

\* Some worker started; the last one to leave sees the queue drained, and
\* nothing is queued from then on.
DrainInv ==
    /\ (\A w \in Workers : workerPc[w] = "exited") => shutdown /\ queue = <<>>
    /\ mainPc \in Drained => \A w \in Workers : workerPc[w] = "exited"

\* main() connects to its own socket once, at the end.
WakeInv == mainPc \notin Drained \ {"wake"} => conn[Wake] = "none"

IInv ==
    /\ TypeOK /\ HandsInv /\ FreshInv /\ HandledOnce
    /\ SlotsAreExact /\ DrainInv /\ WakeInv
=============================================================================
