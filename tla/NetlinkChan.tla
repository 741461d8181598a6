----------------------------- MODULE NetlinkChan -----------------------------
(***************************************************************************)
(* The kernel side of the Generic Netlink channel to the avd daemon:       *)
(* av/netlink_chan.c.                                                      *)
(*                                                                         *)
(* Workers are the workqueue threads that call av_netlink_scan_request()   *)
(* and sleep on a completion; the verdict handler av_nl_verdict_doit()     *)
(* runs in the context of the sending daemon; the notifier runs when a     *)
(* netlink socket is released.  A worker gives up after a timeout, so the  *)
(* handler and the worker race for the list node of the request.           *)
(*                                                                         *)
(* Every critical section of the code (daemon_lock, pending_lock) is one   *)
(* atomic step; what the code does between two of them is another step.    *)
(*                                                                         *)
(* External behaviour assumed of the kernel and of avd:                    *)
(*  - genl_mutex serialises the .doit handlers (the family does not set    *)
(*    parallel_ops), and genl_unregister_family() waits for it;            *)
(*  - a socket is not released while its owner is inside sendmsg(), which  *)
(*    is where the handler of its message runs;                            *)
(*  - releasing a socket first unbinds its port, which another process may *)
(*    bind at once, and only then calls the notifier chain;                *)
(*  - whoever holds the registered port answers only REQIDs it was sent,   *)
(*    any number of times and at any later moment, or never (msg_handler() *)
(*    in avd.c echoes AV_A_REQID); any other port may send any verdict.    *)
(***************************************************************************)
EXTENDS Integers, FiniteSets

CONSTANTS
    Workers,      \* workqueue threads inside av_work_fn()
    NoWorker,     \* NULL, for the node the handler has not found
    Ports,        \* netlink port ids that may be bound by a daemon
    NoPort,       \* portid 0, the kernel's own
    MaxReqid,     \* bound on reqid_counter
    MaxReleasing, \* bound on the notifications a port may have pending
    DrainedExit   \* TRUE: av_exit() (destroy_workqueue, then av_netlink_exit);
                  \* FALSE: the error path of av_init(), in the other order

ASSUME WorkersAssumption == NoWorker \notin Workers
ASSUME PortsAssumption == NoPort \notin Ports
ASSUME MaxReqidAssumption == MaxReqid \in Nat
ASSUME MaxReleasingAssumption == MaxReleasing \in Nat
ASSUME DrainedExitAssumption == DrainedExit \in BOOLEAN

CLEAN == 0          \* AV_VERDICT_CLEAN
MALICIOUS == 1      \* AV_VERDICT_MALICIOUS
NoVerdict == -1     \* av_pending_scan.verdict "until a verdict arrives"

Reqids == 1 .. MaxReqid
Verdicts == {CLEAN, MALICIOUS}
U8Verdicts == Verdicts \cup {2}   \* 2 stands for every undefined value

VARIABLES
    life,          \* how far av_netlink_init() / av_netlink_exit() got
    sock,          \* per port: "closed" or "open" (bound)
    releasing,     \* per port: released sockets whose URELEASE notification
                   \* is still to come
    got,           \* per port: REQIDs delivered to the socket's owner
    enrolled,      \* history, per port: the open socket sent AV_C_REGISTER
    registered,    \* daemon_registered
    daemonPort,    \* daemon_portid
    reqidCounter,  \* reqid_counter
    pc, port,      \* per worker: place in av_netlink_scan_request(), its portid
    ret, vout,     \* per worker: last return code and *verdict_out
    live, reqid, link, done, verdict,  \* the worker's struct av_pending_scan
    hpc, hport, hreqid, hverdict, hnode  \* the verdict handler's locals

chanVars == <<registered, daemonPort>>
sockVars == <<sock, releasing, got, enrolled>>
nodeVars == <<live, reqid, link, done, verdict>>
callVars == <<pc, port, ret, vout>>
handlerVars == <<hpc, hport, hreqid, hverdict, hnode>>
vars == <<life, sockVars, chanVars, reqidCounter, callVars, nodeVars,
          handlerVars>>

\* Error codes of av_netlink_scan_request(); EBUILD stands for -EMSGSIZE and
\* for the -ENOMEM of genlmsg_new(), ESEND for a genlmsg_unicast() failure.
Errors == {"ENOTCONN", "ENOMEM", "EBUILD", "ESEND", "ETIMEDOUT"}

\* list_head states: "on" the list, "off" (list_del_init, self-linked) or
\* "poison" (list_del).  list_empty() is true of "off" only.
Links == {"on", "off", "poison"}

-----------------------------------------------------------------------------
Init ==
    /\ life = "off"
    /\ sock = [p \in Ports |-> "closed"]
    /\ releasing = [p \in Ports |-> 0]
    /\ got = [p \in Ports |-> {}]
    /\ enrolled = [p \in Ports |-> FALSE]
    /\ registered = FALSE
    /\ daemonPort = NoPort
    /\ reqidCounter = 0
    /\ pc = [w \in Workers |-> "idle"]
    /\ port = [w \in Workers |-> NoPort]
    /\ ret = [w \in Workers |-> "none"]
    /\ vout = [w \in Workers |-> NoVerdict]
    /\ live = [w \in Workers |-> FALSE]
    /\ reqid = [w \in Workers |-> 0]
    /\ link = [w \in Workers |-> "off"]
    /\ done = [w \in Workers |-> FALSE]
    /\ verdict = [w \in Workers |-> NoVerdict]
    /\ hpc = "idle"
    /\ hport = NoPort
    /\ hreqid = 0
    /\ hverdict = CLEAN
    /\ hnode = NoWorker

-----------------------------------------------------------------------------
(* av_netlink_init() and av_netlink_exit().                                *)

\* The notifier is registered before the family; genl_register_family() may
\* fail, and then the notifier goes again.
InitNotifier ==
    /\ life = "off"
    /\ life' = "watching"
    /\ UNCHANGED <<sockVars, chanVars, reqidCounter, callVars, nodeVars,
                   handlerVars>>

InitFamily ==
    /\ life = "watching"
    /\ life' \in {"up", "off"}
    /\ UNCHANGED <<sockVars, chanVars, reqidCounter, callVars, nodeVars,
                   handlerVars>>

\* av_exit() runs this after destroy_workqueue(), so no worker is left; the
\* error path of av_init() runs it while queued work items still run.
ExitFamily ==
    /\ life = "up"
    /\ hpc = "idle"
    /\ DrainedExit => \A w \in Workers : pc[w] = "idle"
    /\ life' = "familyGone"
    /\ UNCHANGED <<sockVars, chanVars, reqidCounter, callVars, nodeVars,
                   handlerVars>>

ExitNotifier ==
    /\ life = "familyGone"
    /\ life' = "unwatched"
    /\ UNCHANGED <<sockVars, chanVars, reqidCounter, callVars, nodeVars,
                   handlerVars>>

\* Every request still on the list is unlinked with list_del() (not _init)
\* and completed, its verdict left at -1.
ExitDrain ==
    /\ life = "unwatched"
    /\ life' = "drained"
    /\ link' = [w \in Workers |-> IF link[w] = "on" THEN "poison" ELSE link[w]]
    /\ done' = [w \in Workers |-> link[w] = "on" \/ done[w]]
    /\ UNCHANGED <<sockVars, chanVars, reqidCounter, callVars, live, reqid,
                   verdict, handlerVars>>

-----------------------------------------------------------------------------
(* Daemon sockets (external), av_netlink_notify() and                      *)
(* av_nl_register_doit().                                                  *)

\* Any process may bind a port that nobody has, even if the notification of
\* its last owner's release has not been delivered yet.
Connect(p) ==
    /\ sock[p] = "closed"
    /\ sock' = [sock EXCEPT ![p] = "open"]
    /\ UNCHANGED <<life, releasing, got, enrolled, chanVars, reqidCounter,
                   callVars, nodeVars, handlerVars>>

\* The daemon exits, crashes or is killed: the port is unbound, and what was
\* queued on the socket or held by the process is lost.
Release(p) ==
    /\ sock[p] = "open"
    /\ ~(hpc # "idle" /\ hport = p)
    /\ releasing[p] < MaxReleasing
    /\ sock' = [sock EXCEPT ![p] = "closed"]
    /\ releasing' = [releasing EXCEPT ![p] = @ + 1]
    /\ got' = [got EXCEPT ![p] = {}]
    /\ enrolled' = [enrolled EXCEPT ![p] = FALSE]
    /\ UNCHANGED <<life, chanVars, reqidCounter, callVars, nodeVars,
                   handlerVars>>

\* Faulty variant: the notifier takes a port that is bound again for a sign
\* that the daemon is alive.
NotifySkipsBound(p) ==
    /\ releasing[p] > 0
    /\ releasing' = [releasing EXCEPT ![p] = @ - 1]
    /\ registered' = (registered /\ ~(/\ life \in {"watching", "up", "familyGone"}
                                      /\ daemonPort = p
                                      /\ sock[p] = "closed"))
    /\ UNCHANGED <<life, sock, got, enrolled, daemonPort, reqidCounter, callVars,
                   nodeVars, handlerVars>>

\* NETLINK_URELEASE reaches the notifier chain; the module's own notifier is
\* on it between av_netlink_init() and av_netlink_exit().  It knows the port
\* number only.
Notify(p) ==
    /\ releasing[p] > 0
    /\ releasing' = [releasing EXCEPT ![p] = @ - 1]
    /\ registered' = (registered /\ ~(/\ life \in {"watching", "up", "familyGone"}
                                      /\ daemonPort = p))
    /\ UNCHANGED <<life, sock, got, enrolled, daemonPort, reqidCounter, callVars,
                   nodeVars, handlerVars>>

Register(p) ==
    /\ life = "up"
    /\ hpc = "idle"
    /\ sock[p] = "open"
    /\ daemonPort' = p
    /\ registered' = TRUE
    /\ enrolled' = [enrolled EXCEPT ![p] = TRUE]
    /\ UNCHANGED <<life, sock, releasing, got, reqidCounter, callVars, nodeVars,
                   handlerVars>>

-----------------------------------------------------------------------------
(* av_nl_verdict_doit(): check the sender, dequeue the node, fill it in.   *)

\* The handler returns; its locals go with its stack frame.
HandlerReturns ==
    /\ hpc' = "idle"
    /\ hport' = NoPort
    /\ hreqid' = 0
    /\ hverdict' = CLEAN
    /\ hnode' = NoWorker

\* What the environment may send (see the head of the module).
CanSendVerdict(p, id) ==
    /\ sock[p] = "open"
    /\ (registered /\ daemonPort = p) => id \in got[p]

\* A message that fails these checks is answered with -EINVAL or -EPERM and
\* changes nothing, which is a stuttering step.
VerdictCheck(p, id, v) ==
    /\ life = "up"
    /\ hpc = "idle"
    /\ CanSendVerdict(p, id)
    /\ registered /\ p = daemonPort
    /\ v \in Verdicts
    /\ hpc' = "checked"
    /\ hport' = p
    /\ hreqid' = id
    /\ hverdict' = v
    /\ UNCHANGED <<life, sockVars, chanVars, reqidCounter, callVars, nodeVars,
                   hnode>>

\* Faulty variant: list_del() instead of list_del_init(), after which the
\* timeout path takes the node for one that is still on the list.
VerdictPoisons ==
    /\ hpc = "checked"
    /\ \/ \E w \in Workers :
             /\ link[w] = "on"
             /\ reqid[w] = hreqid
             /\ link' = [link EXCEPT ![w] = "poison"]
             /\ hnode' = w
             /\ hpc' = "found"
             /\ UNCHANGED <<hport, hreqid, hverdict>>
       \/ /\ \A w \in Workers : ~(link[w] = "on" /\ reqid[w] = hreqid)
          /\ HandlerReturns
          /\ UNCHANGED link
    /\ UNCHANGED <<life, sockVars, chanVars, reqidCounter, callVars, live,
                   reqid, done, verdict>>

\* Under pending_lock: the node with this REQID leaves the list.  An unknown
\* REQID (expired or answered before) ends the handler.
VerdictDequeue ==
    /\ hpc = "checked"
    /\ \/ \E w \in Workers :
             /\ link[w] = "on"
             /\ reqid[w] = hreqid
             /\ link' = [link EXCEPT ![w] = "off"]
             /\ hnode' = w
             /\ hpc' = "found"
             /\ UNCHANGED <<hport, hreqid, hverdict>>
       \/ /\ \A w \in Workers : ~(link[w] = "on" /\ reqid[w] = hreqid)
          /\ HandlerReturns
          /\ UNCHANGED link
    /\ UNCHANGED <<life, sockVars, chanVars, reqidCounter, callVars, live,
                   reqid, done, verdict>>

\* Faulty variant: the verdict is stored but nobody is woken.
VerdictNotSignalled ==
    /\ hpc = "found"
    /\ verdict' = [verdict EXCEPT ![hnode] = hverdict]
    /\ HandlerReturns
    /\ UNCHANGED <<life, sockVars, chanVars, reqidCounter, callVars, live,
                   reqid, link, done>>

\* Outside the lock: the handler writes into the node and wakes its waiter.
VerdictComplete ==
    /\ hpc = "found"
    /\ verdict' = [verdict EXCEPT ![hnode] = hverdict]
    /\ done' = [done EXCEPT ![hnode] = TRUE]
    /\ HandlerReturns
    /\ UNCHANGED <<life, sockVars, chanVars, reqidCounter, callVars, live,
                   reqid, link>>

-----------------------------------------------------------------------------
(* av_netlink_scan_request().                                              *)

\* kfree(): nothing may look at the node any more.
FreeNode(w) ==
    /\ live' = [live EXCEPT ![w] = FALSE]
    /\ reqid' = [reqid EXCEPT ![w] = 0]
    /\ link' = [link EXCEPT ![w] = "off"]
    /\ done' = [done EXCEPT ![w] = FALSE]
    /\ verdict' = [verdict EXCEPT ![w] = NoVerdict]

\* The call returns code e; its locals go with its stack frame.
ReturnCode(w, e) ==
    /\ pc' = [pc EXCEPT ![w] = "idle"]
    /\ port' = [port EXCEPT ![w] = NoPort]
    /\ ret' = [ret EXCEPT ![w] = e]

\* A work item runs between register_kprobe() and destroy_workqueue().
MayStart == IF DrainedExit THEN life = "up" ELSE life \notin {"off", "watching"}

Begin(w) ==
    /\ pc[w] = "idle"
    /\ MayStart
    /\ vout' = [vout EXCEPT ![w] = NoVerdict]
    /\ IF registered
       THEN /\ pc' = [pc EXCEPT ![w] = "alloc"]
            /\ port' = [port EXCEPT ![w] = daemonPort]
            /\ ret' = [ret EXCEPT ![w] = "none"]
       ELSE /\ ret' = [ret EXCEPT ![w] = "ENOTCONN"]
            /\ UNCHANGED <<pc, port>>
    /\ UNCHANGED <<life, sockVars, chanVars, reqidCounter, nodeVars,
                   handlerVars>>

AllocFails(w) ==
    /\ pc[w] = "alloc"
    /\ ReturnCode(w, "ENOMEM")
    /\ UNCHANGED <<life, sockVars, chanVars, reqidCounter, vout, nodeVars,
                   handlerVars>>

\* kzalloc(), a fresh REQID, list_add() under pending_lock.
Enqueue(w) ==
    /\ pc[w] = "alloc"
    /\ reqidCounter < MaxReqid
    /\ reqidCounter' = reqidCounter + 1
    /\ pc' = [pc EXCEPT ![w] = "queued"]
    /\ live' = [live EXCEPT ![w] = TRUE]
    /\ reqid' = [reqid EXCEPT ![w] = reqidCounter + 1]
    /\ link' = [link EXCEPT ![w] = "on"]
    /\ done' = [done EXCEPT ![w] = FALSE]
    /\ verdict' = [verdict EXCEPT ![w] = NoVerdict]
    /\ UNCHANGED <<life, sockVars, chanVars, port, ret, vout, handlerVars>>

\* genlmsg_unicast() succeeds only if the port read earlier is still bound.
Send(w) ==
    /\ pc[w] = "queued"
    /\ sock[port[w]] = "open"
    /\ got' = [got EXCEPT ![port[w]] = @ \cup {reqid[w]}]
    /\ pc' = [pc EXCEPT ![w] = "waiting"]
    /\ UNCHANGED <<life, sock, releasing, enrolled, chanVars, reqidCounter, port,
                   ret, vout, nodeVars, handlerVars>>

\* The message cannot be built, or the unicast fails (always, once the port
\* is gone; when the receive buffer is full, otherwise).
SendFails(w) ==
    /\ pc[w] = "queued"
    /\ \E e \in {"EBUILD", "ESEND"} : ret' = [ret EXCEPT ![w] = e]
    /\ pc' = [pc EXCEPT ![w] = "errRemove"]
    /\ UNCHANGED <<life, sockVars, chanVars, reqidCounter, port, vout,
                   nodeVars, handlerVars>>

\* err_remove_pending: list_del() under the lock, kfree().
ErrRemove(w) ==
    /\ pc[w] = "errRemove"
    /\ FreeNode(w)
    /\ ReturnCode(w, ret[w])
    /\ UNCHANGED <<life, sockVars, chanVars, reqidCounter, vout, handlerVars>>

\* wait_for_completion_timeout() returns 0: nothing completed in time.
Timeout(w) ==
    /\ pc[w] = "waiting"
    /\ ~done[w]
    /\ pc' = [pc EXCEPT ![w] = "timedOut"]
    /\ UNCHANGED <<life, sockVars, chanVars, reqidCounter, port, ret, vout,
                   nodeVars, handlerVars>>

\* Faulty variant: the timed-out waiter always takes the node.
AlwaysPending(w) == TRUE

\* Under pending_lock, list_empty(&p->list) decides who owns the node: this
\* waiter, which then unlinks and frees it, or the handler.
StillPending(w) == link[w] # "off"

Expire(w) ==
    /\ pc[w] = "timedOut"
    /\ StillPending(w)
    /\ FreeNode(w)
    /\ ReturnCode(w, "ETIMEDOUT")
    /\ UNCHANGED <<life, sockVars, chanVars, reqidCounter, vout, handlerVars>>

WaitForHandler(w) ==
    /\ pc[w] = "timedOut"
    /\ ~StillPending(w)
    /\ pc' = [pc EXCEPT ![w] = "lateWait"]
    /\ UNCHANGED <<life, sockVars, chanVars, reqidCounter, port, ret, vout,
                   nodeVars, handlerVars>>

\* Faulty variant: the waiter that lost the race does not wait.
TakeVerdictEarly(w) ==
    /\ pc[w] = "lateWait" \/ (pc[w] = "waiting" /\ done[w])
    /\ vout' = [vout EXCEPT ![w] = verdict[w]]
    /\ FreeNode(w)
    /\ ReturnCode(w, "ok")
    /\ UNCHANGED <<life, sockVars, chanVars, reqidCounter, handlerVars>>

\* The completion was signalled: copy the verdict out and free the node.
TakeVerdict(w) ==
    /\ pc[w] \in {"waiting", "lateWait"}
    /\ done[w]
    /\ vout' = [vout EXCEPT ![w] = verdict[w]]
    /\ FreeNode(w)
    /\ ReturnCode(w, "ok")
    /\ UNCHANGED <<life, sockVars, chanVars, reqidCounter, handlerVars>>

-----------------------------------------------------------------------------
Lifecycle == InitNotifier \/ InitFamily \/ ExitFamily \/ ExitNotifier \/ ExitDrain

Daemon(p) ==
    \/ Connect(p)
    \/ Release(p)
    \/ Notify(p)
    \/ Register(p)
    \/ \E id \in Reqids, v \in U8Verdicts : VerdictCheck(p, id, v)

Handler == VerdictDequeue \/ VerdictComplete

\* The steps of a call once it has begun.
Call(w) ==
    \/ AllocFails(w) \/ Enqueue(w)
    \/ Send(w) \/ SendFails(w) \/ ErrRemove(w)
    \/ Timeout(w) \/ Expire(w) \/ WaitForHandler(w) \/ TakeVerdict(w)

Next ==
    \/ Lifecycle
    \/ \E p \in Ports : Daemon(p)
    \/ Handler
    \/ \E w \in Workers : Begin(w) \/ Call(w)

\* The scheduler runs a thread that can run, and the timer of a waiter fires.
\* Nothing makes a daemon connect, register or answer, a notification arrive,
\* nor the module load or unload.
Fairness ==
    /\ \A w \in Workers : WF_vars(Call(w))
    /\ WF_vars(Handler)

Spec == Init /\ [][Next]_vars
FairSpec == Spec /\ Fairness

-----------------------------------------------------------------------------
(* Properties.                                                             *)

PCs == {"idle", "alloc", "queued", "waiting", "errRemove", "timedOut", "lateWait"}

\* Every variable has its type.
TypeOK ==
    /\ life \in {"off", "watching", "up", "familyGone", "unwatched", "drained"}
    /\ sock \in [Ports -> {"closed", "open"}]
    /\ releasing \in [Ports -> 0 .. MaxReleasing]
    /\ enrolled \in [Ports -> BOOLEAN]
    /\ got \in [Ports -> SUBSET Reqids]
    /\ registered \in BOOLEAN
    /\ daemonPort \in Ports \cup {NoPort}
    /\ reqidCounter \in 0 .. MaxReqid
    /\ pc \in [Workers -> PCs]
    /\ port \in [Workers -> Ports \cup {NoPort}]
    /\ ret \in [Workers -> {"none", "ok"} \cup Errors]
    /\ vout \in [Workers -> Verdicts \cup {NoVerdict}]
    /\ live \in [Workers -> BOOLEAN]
    /\ reqid \in [Workers -> 0 .. MaxReqid]
    /\ link \in [Workers -> Links]
    /\ done \in [Workers -> BOOLEAN]
    /\ verdict \in [Workers -> Verdicts \cup {NoVerdict}]
    /\ hpc \in {"idle", "checked", "found"}
    /\ hport \in Ports \cup {NoPort}
    /\ hreqid \in 0 .. MaxReqid
    /\ hverdict \in Verdicts
    /\ hnode \in Workers \cup {NoWorker}

\* Memory safety of the race between the verdict handler and the timeout:
\* the node the handler dequeued is still allocated, still belongs to the
\* request the verdict names and has not been completed, and every node on
\* pending_list is allocated.
NoUseAfterFree ==
    /\ hpc = "found" => /\ live[hnode]
                        /\ reqid[hnode] = hreqid
                        /\ ~done[hnode]
    /\ \A w \in Workers : link[w] = "on" => live[w]

\* A node is unlinked by exactly one side: whoever is about to unlink it (the
\* error path, or the timeout path that saw a non-empty list_head) finds it
\* on the list, never poisoned by an earlier list_del().
NoDoubleUnlink ==
    \A w \in Workers :
        (pc[w] = "errRemove" \/ (pc[w] = "timedOut" /\ StillPending(w)))
            => link[w] = "on"

\* A waiter that lost the race waits without a timeout.  It is never stuck:
\* its completion is signalled already or the handler holds its node.
LateWaitIsOwned ==
    \A w \in Workers :
        pc[w] = "lateWait" => done[w] \/ (hpc = "found" /\ hnode = w)

\* Return code 0 means a verdict was received: *verdict_out is valid
\* (netlink_chan.h).
OkMeansVerdict ==
    \A w \in Workers : ret[w] = "ok" => vout[w] \in Verdicts

\* While the notifier is installed, the port that is registered belongs to a
\* socket that registered itself, or a notification that will clear the
\* registration is on its way: a process that binds the port of a dead daemon
\* never takes over its registration for good (av_netlink_notify()).
RegistrationIsFresh ==
    (registered /\ life \in {"watching", "up", "familyGone"})
        => \/ sock[daemonPort] = "open" /\ enrolled[daemonPort]
           \/ releasing[daemonPort] > 0

\* The daemon that registered last stays registered as long as its socket is
\* open: av_netlink_notify() says "disconnected" of a daemon that is gone.
DaemonStaysRegistered ==
    (life = "up" /\ daemonPort # NoPort)
        => (sock[daemonPort] = "open" /\ enrolled[daemonPort] => registered)

\* A verdict is accepted for a call only from the port that was registered
\* when the message was checked and has not been replaced since, and only if
\* its owner was sent the call's REQID.
OnlyRegisteredDaemonAnswers ==
    [][\A w \in Workers :
          (hnode' = w /\ hnode # w) => /\ hport = daemonPort
                                      /\ sock[hport] = "open"
                                      /\ reqid[w] \in got[hport]]_vars

\* Every call returns, whatever the daemon does (wait with timeout, then an
\* unbounded wait only for a handler that is already past the list).
EveryCallReturns ==
    \A w \in Workers : pc[w] # "idle" ~> pc[w] = "idle"

\* The inductive invariant behind the safety properties (for DrainedExit).
Busy(w) == pc[w] \in {"queued", "waiting", "errRemove", "timedOut", "lateWait"}
Sent(w) == pc[w] \in {"waiting", "timedOut", "lateWait"}
HandlerHolds(w) == hpc = "found" /\ hnode = w

\* A node is allocated while its call is past kzalloc(); off the list it has
\* been completed with a verdict or is in the handler's hands.
NodeInv ==
    \A w \in Workers :
        /\ live[w] <=> Busy(w)
        /\ pc[w] # "idle" => port[w] \in Ports
        /\ link[w] # "poison"
        /\ link[w] = "on" => live[w] /\ ~done[w]
        /\ (live[w] /\ link[w] = "off") => Sent(w) /\ (done[w] \/ HandlerHolds(w))
        /\ done[w] => live[w] /\ verdict[w] \in Verdicts
        /\ pc[w] = "lateWait" => link[w] = "off"
        /\ ret[w] = "ok" => vout[w] \in Verdicts
        /\ pc[w] = "errRemove" => ret[w] \in Errors

\* REQIDs are handed out once, and a daemon knows one only after the unicast.
ReqidInv ==
    /\ \A w \in Workers : live[w] => reqid[w] \in 1 .. reqidCounter
    /\ \A v, w \in Workers : live[v] /\ live[w] /\ reqid[v] = reqid[w] => v = w
    /\ \A p \in Ports : \A id \in got[p] :
          /\ id <= reqidCounter
          /\ \A w \in Workers : pc[w] \in {"queued", "errRemove"} => reqid[w] # id

\* While the handler runs, its sender keeps its socket and no other port is
\* registered; a late notification may clear daemon_registered meanwhile.
HandlerInv ==
    /\ hpc # "idle" => /\ life = "up"
                       /\ hport = daemonPort
                       /\ hport \in Ports
                       /\ sock[hport] = "open"
                       /\ hreqid \in got[hport]
    /\ hpc = "found" => /\ hnode \in Workers
                        /\ live[hnode]
                        /\ link[hnode] = "off"
                        /\ ~done[hnode]
                        /\ reqid[hnode] = hreqid
    /\ hpc # "found" => hnode = NoWorker

LifeInv ==
    /\ life \in {"off", "watching"} => ~registered
    /\ life # "up" => \A w \in Workers : pc[w] = "idle"
    /\ registered => daemonPort \in Ports

IInv == /\ TypeOK
        /\ NodeInv
        /\ ReqidInv
        /\ HandlerInv
        /\ LifeInv
        /\ RegistrationIsFresh

\* The daemon's verdict for a call that is accepted is what that call
\* returns: the channel implements ScanService.  The verdict counts from the
\* instant the handler takes the node off the list.
Decided(w) == live[w] /\ (done[w] \/ (hpc = "found" /\ hnode = w))
AnswerName(v) ==
    IF v = CLEAN THEN "clean" ELSE IF v = MALICIOUS THEN "malicious" ELSE "none"
ResultName(w) ==
    IF ret[w] = "ok" THEN AnswerName(vout[w])
    ELSE IF ret[w] = "none" THEN "none" ELSE "failed"

daemonView == IF registered THEN daemonPort ELSE NoPort
callView == [w \in Workers |-> IF pc[w] = "idle" THEN "idle"
                               ELSE IF Decided(w) THEN "decided" ELSE "open"]
outcomeView == [w \in Workers |-> IF ~Decided(w) THEN "none"
                                  ELSE AnswerName(IF done[w] THEN verdict[w]
                                                  ELSE hverdict)]
resultView == [w \in Workers |-> IF pc[w] = "idle" THEN ResultName(w) ELSE "none"]

\* The sender of the message whose verdict the handler is about to look up.
senderView == IF hpc = "checked" THEN hport ELSE NoPort

Service == INSTANCE ScanService
               WITH daemon <- daemonView, sender <- senderView, call <- callView,
                    outcome <- outcomeView, result <- resultView

ImplementsService == Service!Spec
=============================================================================
