-------------------------- MODULE NetlinkChanProofs --------------------------
(***************************************************************************)
(* The safety of the netlink channel for any number of workers, ports and  *)
(* requests, when the module is torn down by av_exit() (DrainedExit).      *)
(***************************************************************************)
EXTENDS NetlinkChan, TLAPS

USE DEF CLEAN, MALICIOUS, NoVerdict, Verdicts, U8Verdicts, Reqids, Errors,
        Links, PCs, chanVars, sockVars, nodeVars, callVars, handlerVars

\* The initial state satisfies the inductive invariant.
LEMMA InitIInv == Init => IInv
<1> SUFFICES ASSUME Init PROVE IInv
  OBVIOUS
<1> USE DEF Init
<1>1. TypeOK
  <2>1. /\ got \in [Ports -> SUBSET Reqids]
        /\ live \in [Workers -> BOOLEAN]
        /\ done \in [Workers -> BOOLEAN]
        /\ enrolled \in [Ports -> BOOLEAN]
    BY Zenon
  <2>2. registered \in BOOLEAN
    OBVIOUS
  <2>3. /\ reqidCounter \in 0 .. MaxReqid
        /\ reqid \in [Workers -> 0 .. MaxReqid]
    BY MaxReqidAssumption
  <2>4. /\ vout \in [Workers -> Verdicts \cup {NoVerdict}]
        /\ verdict \in [Workers -> Verdicts \cup {NoVerdict}]
    OBVIOUS
  <2>5. /\ sock \in [Ports -> {"closed", "open"}]
        /\ pc \in [Workers -> PCs]
        /\ ret \in [Workers -> {"none", "ok"} \cup Errors]
    OBVIOUS
  <2>6. releasing \in [Ports -> 0 .. MaxReleasing]
    BY MaxReleasingAssumption
  <2> QED
    BY <2>1, <2>2, <2>3, <2>4, <2>5, <2>6, MaxReqidAssumption DEF TypeOK
<1>2. NodeInv /\ ReqidInv
  BY DEF NodeInv, ReqidInv, Busy, Sent, HandlerHolds
<1>3. HandlerInv /\ LifeInv /\ RegistrationIsFresh
  BY DEF HandlerInv, LifeInv, RegistrationIsFresh
<1> QED  BY <1>1, <1>2, <1>3 DEF IInv

\* Every step preserves it.
LEMMA NextIInv == ASSUME DrainedExit, IInv, [Next]_vars PROVE IInv'
<1> USE MaxReqidAssumption, MaxReleasingAssumption, WorkersAssumption,
        PortsAssumption
    DEF IInv, TypeOK, NodeInv, ReqidInv, HandlerInv, LifeInv,
        RegistrationIsFresh, Busy, Sent, HandlerHolds
<1>1. CASE InitNotifier
  BY <1>1 DEF InitNotifier
<1>2. CASE InitFamily
  BY <1>2 DEF InitFamily
<1>3. CASE ExitFamily
  BY <1>3 DEF ExitFamily
<1>4. CASE ExitNotifier
  BY <1>4 DEF ExitNotifier
<1>5. CASE ExitDrain
  BY <1>5 DEF ExitDrain
<1>6. CASE VerdictDequeue
  BY <1>6 DEF VerdictDequeue, HandlerReturns
<1>7. CASE VerdictComplete
  BY <1>7 DEF VerdictComplete, HandlerReturns
<1>8. ASSUME NEW p \in Ports, Connect(p) PROVE IInv'
  BY <1>8 DEF Connect
<1>9. ASSUME NEW p \in Ports, Release(p) PROVE IInv'
  <2>1. /\ got' \in [Ports -> SUBSET Reqids]
        /\ enrolled' \in [Ports -> BOOLEAN]
        /\ releasing' \in [Ports -> 0 .. MaxReleasing]
    BY <1>9 DEF Release
  <2>2. TypeOK' /\ NodeInv'
    BY <1>9, <2>1 DEF Release
  <2>3. ReqidInv' /\ HandlerInv' /\ LifeInv'
    BY <1>9, <2>1 DEF Release
  <2>4. RegistrationIsFresh'
    BY <1>9, <2>1 DEF Release
  <2> QED  BY <2>2, <2>3, <2>4
<1>10. ASSUME NEW p \in Ports, Notify(p) PROVE IInv'
  <2>1. registered' \in BOOLEAN /\ releasing' \in [Ports -> 0 .. MaxReleasing]
    BY <1>10 DEF Notify
  <2>2. TypeOK'
    BY <1>10, <2>1 DEF Notify
  <2>3. NodeInv'
    BY <1>10, <2>1 DEF Notify
  <2>4. ReqidInv'
    BY <1>10, <2>1 DEF Notify
  <2>5. HandlerInv'
    BY <1>10, <2>1 DEF Notify
  <2>6. LifeInv'
    BY <1>10, <2>1 DEF Notify
  <2>7. RegistrationIsFresh'
    BY <1>10, <2>1 DEF Notify
  <2> QED  BY <2>2, <2>3, <2>4, <2>5, <2>6, <2>7
<1>11. ASSUME NEW p \in Ports, Register(p) PROVE IInv'
  <2>1. enrolled' \in [Ports -> BOOLEAN] /\ enrolled'[p]
    BY <1>11, Zenon DEF Register
  <2>2. TypeOK' /\ NodeInv' /\ ReqidInv'
    BY <1>11, <2>1 DEF Register
  <2>3. HandlerInv' /\ LifeInv' /\ RegistrationIsFresh'
    BY <1>11, <2>1 DEF Register
  <2> QED  BY <2>2, <2>3
<1>12. ASSUME NEW p \in Ports, NEW id \in Reqids, NEW v \in U8Verdicts,
            VerdictCheck(p, id, v)
     PROVE  IInv'
  BY <1>12 DEF VerdictCheck, CanSendVerdict
<1>13. ASSUME NEW w \in Workers, Begin(w) PROVE IInv'
  <2>0. /\ pc' \in [Workers -> PCs]
        /\ port' \in [Workers -> Ports \cup {NoPort}]
        /\ ret' \in [Workers -> {"none", "ok"} \cup Errors]
        /\ vout' \in [Workers -> Verdicts \cup {NoVerdict}]
    BY <1>13 DEF Begin
  <2>1. TypeOK'
    BY <1>13, <2>0 DEF Begin
  <2>2. NodeInv' /\ ReqidInv'
    BY <1>13 DEF Begin, MayStart
  <2>3. HandlerInv' /\ LifeInv' /\ RegistrationIsFresh'
    BY <1>13 DEF Begin, MayStart
  <2> QED  BY <2>1, <2>2, <2>3
<1>14. ASSUME NEW w \in Workers, AllocFails(w) PROVE IInv'
  BY <1>14 DEF AllocFails, ReturnCode
<1>15. ASSUME NEW w \in Workers, Enqueue(w) PROVE IInv'
  BY <1>15 DEF Enqueue
<1>16. ASSUME NEW w \in Workers, Send(w) PROVE IInv'
  BY <1>16 DEF Send
<1>17. ASSUME NEW w \in Workers, SendFails(w) PROVE IInv'
  BY <1>17 DEF SendFails
<1>18. ASSUME NEW w \in Workers, ErrRemove(w) PROVE IInv'
  BY <1>18 DEF ErrRemove, FreeNode, ReturnCode
<1>19. ASSUME NEW w \in Workers, Timeout(w) PROVE IInv'
  BY <1>19 DEF Timeout
<1>20. ASSUME NEW w \in Workers, Expire(w) PROVE IInv'
  BY <1>20 DEF Expire, StillPending, FreeNode, ReturnCode
<1>21. ASSUME NEW w \in Workers, WaitForHandler(w) PROVE IInv'
  BY <1>21 DEF WaitForHandler, StillPending
<1>22. ASSUME NEW w \in Workers, TakeVerdict(w) PROVE IInv'
  BY <1>22 DEF TakeVerdict, FreeNode, ReturnCode
<1>23. CASE UNCHANGED vars
  BY <1>23 DEF vars
<1> HIDE DEF IInv, TypeOK, NodeInv, ReqidInv, HandlerInv, LifeInv,
             RegistrationIsFresh, Busy, Sent, HandlerHolds
<1>. QED
  BY <1>1, <1>2, <1>3, <1>4, <1>5, <1>6, <1>7, <1>8, <1>9, <1>10,
     <1>11, <1>12, <1>13, <1>14, <1>15, <1>16, <1>17, <1>18, <1>19,
     <1>20, <1>21, <1>22, <1>23
  DEF Next, Lifecycle, Daemon, Handler, Call

\* The invariant implies the safety properties the runs check.
LEMMA IInvImplies ==
    IInv => /\ NoUseAfterFree
            /\ NoDoubleUnlink
            /\ LateWaitIsOwned
            /\ OkMeansVerdict
  BY DEF IInv, TypeOK, NodeInv, HandlerInv, Busy, Sent, HandlerHolds,
         NoUseAfterFree, NoDoubleUnlink, LateWaitIsOwned, OkMeansVerdict,
         StillPending

\* The inductive invariant holds in every reachable state.
THEOREM InvariantHolds == DrainedExit => (Spec => []IInv)
<1> SUFFICES ASSUME DrainedExit PROVE Spec => []IInv
  OBVIOUS
<1>1. IInv /\ [Next]_vars => IInv'
  BY NextIInv
<1> QED  BY InitIInv, <1>1, PTL DEF Spec

\* Every variable of the channel keeps its type.
THEOREM TypeCorrect == DrainedExit => (Spec => []TypeOK)
  BY InvariantHolds, PTL DEF IInv

\* However many workers time out while the verdict handler runs, the handler
\* never writes to a freed node, and pending_list holds no freed node.
THEOREM MemorySafe == DrainedExit => (Spec => []NoUseAfterFree)
  BY InvariantHolds, IInvImplies, PTL

\* No list node is unlinked twice.
THEOREM UnlinkedOnce == DrainedExit => (Spec => []NoDoubleUnlink)
  BY InvariantHolds, IInvImplies, PTL

\* The unbounded second wait always has somebody to end it.
THEOREM LateWaitOwned == DrainedExit => (Spec => []LateWaitIsOwned)
  BY InvariantHolds, IInvImplies, PTL

\* av_netlink_scan_request() returns 0 only with a defined verdict.
THEOREM OkIsVerdict == DrainedExit => (Spec => []OkMeansVerdict)
  BY InvariantHolds, IInvImplies, PTL

\* However the ports are used again before a release is notified, nobody
\* inherits a registration for longer than that notification is under way.
THEOREM FreshRegistration == DrainedExit => (Spec => []RegistrationIsFresh)
  BY InvariantHolds, PTL DEF IInv

-----------------------------------------------------------------------------
(* Only the registered daemon's verdicts are accepted.                     *)

\* hnode changes to a worker in one action only, VerdictDequeue.
LEMMA AcceptStep ==
    ASSUME IInv, [Next]_vars, NEW w \in Workers, hnode' = w, hnode # w
    PROVE  /\ hport = daemonPort
           /\ sock[hport] = "open"
           /\ reqid[w] \in got[hport]
<1>1. VerdictDequeue
  BY WorkersAssumption
  DEF vars, Next, Lifecycle, Daemon, Handler, Call, InitNotifier, InitFamily,
      ExitFamily, ExitNotifier, ExitDrain, Connect, Release, Notify, Register,
      VerdictCheck, VerdictComplete, HandlerReturns, Begin, AllocFails, Enqueue,
      Send, SendFails, ErrRemove, Timeout, Expire, WaitForHandler, TakeVerdict
<1>2. link[w] = "on" /\ reqid[w] = hreqid
  BY <1>1, WorkersAssumption DEF VerdictDequeue, HandlerReturns
<1> QED  BY <1>1, <1>2 DEF VerdictDequeue, IInv, HandlerInv

\* A verdict that reaches a call comes from the port that was registered when
\* the message was checked, to whose owner the call's REQID had been sent.
THEOREM AnsweredByDaemon ==
    DrainedExit => (Spec => OnlyRegisteredDaemonAnswers)
<1> SUFFICES ASSUME DrainedExit PROVE Spec => OnlyRegisteredDaemonAnswers
  OBVIOUS
<1>1. IInv /\ [Next]_vars
        => [\A w \in Workers :
              (hnode' = w /\ hnode # w) => /\ hport = daemonPort
                                          /\ sock[hport] = "open"
                                          /\ reqid[w] \in got[hport]]_vars
  BY AcceptStep
<1> QED  BY <1>1, InvariantHolds, PTL DEF Spec, OnlyRegisteredDaemonAnswers

-----------------------------------------------------------------------------
(* The channel implements ScanService.                                     *)

\* The views that a step leaving the calls, or the registration, alone keeps.
LEMMA CallsUnchanged ==
    ASSUME UNCHANGED <<callVars, nodeVars, handlerVars>>
    PROVE  UNCHANGED <<callView, outcomeView, resultView, senderView>>
  BY DEF senderView, callView, outcomeView, resultView, Decided, ResultName, AnswerName

\* What the service sees of the registration depends on the channel's own
\* variables only.
LEMMA DaemonUnchanged ==
    ASSUME UNCHANGED chanVars
    PROVE  UNCHANGED daemonView
  BY DEF daemonView

\* Every step of the channel is a step of the service or changes nothing the
\* service can see.
LEMMA NextRefines ==
    ASSUME DrainedExit, IInv, IInv', [Next]_vars
    PROVE  [Service!Next]_(Service!svars)
<1> USE WorkersAssumption, PortsAssumption
    DEF Service!svars
<1>0. /\ pc \in [Workers -> PCs]
      /\ ret \in [Workers -> {"none", "ok"} \cup Errors]
      /\ vout \in [Workers -> Verdicts \cup {NoVerdict}]
      /\ live \in [Workers -> BOOLEAN]
      /\ done \in [Workers -> BOOLEAN]
      /\ verdict \in [Workers -> Verdicts \cup {NoVerdict}]
  BY DEF IInv, TypeOK
<1>1. CASE UNCHANGED vars
  BY <1>1, CallsUnchanged, DaemonUnchanged DEF vars
<1>2. CASE InitNotifier \/ InitFamily \/ ExitFamily \/ ExitNotifier
  BY <1>2, CallsUnchanged, DaemonUnchanged
  DEF InitNotifier, InitFamily, ExitFamily, ExitNotifier
<1>3. CASE ExitDrain
  <2>1. \A w \in Workers : pc[w] = "idle" /\ ~live[w]
    BY <1>3 DEF ExitDrain, IInv, LifeInv, NodeInv, Busy
  <2> QED
    BY <1>3, <2>1, DaemonUnchanged
    DEF ExitDrain, callView, outcomeView, resultView, senderView, Decided,
        ResultName, AnswerName
<1>4. ASSUME NEW p \in Ports, Connect(p) \/ Release(p)
      PROVE  UNCHANGED Service!svars
  BY <1>4, CallsUnchanged, DaemonUnchanged DEF Connect, Release
<1>5. ASSUME NEW p \in Ports, Notify(p)
      PROVE  Service!Leave \/ UNCHANGED Service!svars
  BY <1>5, CallsUnchanged
  DEF Notify, Service!Leave, daemonView, chanVars, IInv, TypeOK
<1>6. ASSUME NEW p \in Ports, Register(p)
      PROVE  Service!Join(p)
  BY <1>6, CallsUnchanged DEF Register, Service!Join, daemonView, senderView
<1>7. ASSUME NEW p \in Ports, NEW id \in Reqids, NEW v \in U8Verdicts,
             VerdictCheck(p, id, v)
      PROVE  Service!Hear
  <2>1. UNCHANGED <<callView, outcomeView, resultView>>
    BY <1>7
    DEF VerdictCheck, callView, outcomeView, resultView, Decided, ResultName,
        AnswerName
  <2>2. daemonView = p /\ senderView = NoPort /\ senderView' = p
    BY <1>7 DEF VerdictCheck, daemonView, senderView
  <2> QED  BY <1>7, <2>1, <2>2, DaemonUnchanged DEF VerdictCheck, Service!Hear
<1>8. CASE VerdictDequeue
  <2>0. senderView # NoPort
    BY <1>8 DEF VerdictDequeue, senderView, IInv, HandlerInv
  <2>1. ASSUME HandlerReturns, UNCHANGED link
        PROVE  Service!Dismiss
    <3>1. UNCHANGED <<callView, outcomeView, resultView>>
      BY <1>8, <2>1
      DEF VerdictDequeue, HandlerReturns, callView, outcomeView, resultView,
          Decided, ResultName, AnswerName
    <3>2. senderView' = NoPort
      BY <2>1 DEF HandlerReturns, senderView
    <3>3. UNCHANGED daemonView
      BY <1>8 DEF VerdictDequeue, daemonView
    <3> QED  BY <2>0, <3>1, <3>2, <3>3 DEF Service!Dismiss
  <2>2. ASSUME NEW w \in Workers, link[w] = "on", reqid[w] = hreqid,
               link' = [link EXCEPT ![w] = "off"], hnode' = w, hpc' = "found",
               UNCHANGED <<hport, hreqid, hverdict>>
        PROVE  Service!Accept(w)
    <3>1. live[w] /\ ~done[w] /\ pc[w] # "idle" /\ hverdict \in Verdicts
      BY <2>2 DEF IInv, NodeInv, TypeOK, Busy
    <3>2. callView[w] = "open" /\ senderView' = NoPort
      BY <1>8, <2>2, <3>1
      DEF VerdictDequeue, callView, senderView, Decided, IInv, HandlerInv
    <3>3. callView' = [callView EXCEPT ![w] = "decided"]
      BY <1>8, <2>2, <3>1 DEF VerdictDequeue, callView, Decided
    <3>4. /\ AnswerName(hverdict) \in Service!Answers
          /\ outcomeView' = [outcomeView EXCEPT ![w] = AnswerName(hverdict)]
      BY <1>8, <2>2, <3>1
      DEF VerdictDequeue, outcomeView, Decided, AnswerName, Service!Answers
    <3>5. UNCHANGED <<daemonView, resultView>>
      BY <1>8 DEF VerdictDequeue, daemonView, resultView, ResultName, AnswerName
    <3> QED  BY <2>0, <3>2, <3>3, <3>4, <3>5 DEF Service!Accept
  <2> QED  BY <1>8, <2>1, <2>2 DEF VerdictDequeue, Service!Next, Service!Finish
<1>9. CASE VerdictComplete
  <2>1. hnode \in Workers /\ live[hnode] /\ ~done[hnode]
    BY <1>9 DEF VerdictComplete, IInv, HandlerInv
  <2> QED
    BY <1>9, <2>1, DaemonUnchanged
    DEF VerdictComplete, HandlerReturns, callView, outcomeView, resultView,
        senderView, Decided, ResultName, AnswerName, IInv, TypeOK
<1>10. ASSUME NEW w \in Workers, Begin(w)
       PROVE  Service!Refuse(w) \/ Service!Open(w)
  <2>1. ~live[w] /\ ~Decided(w) /\ callView[w] = "idle"
    BY <1>10 DEF Begin, IInv, NodeInv, Busy, Decided, callView
  <2>2. UNCHANGED <<outcomeView, daemonView, senderView>>
    BY <1>10 DEF Begin, senderView, outcomeView, Decided, AnswerName, daemonView
  <2>3. CASE registered
    <3>1. daemonView # NoPort
      BY <2>3 DEF daemonView, IInv, LifeInv
    <3>2. callView' = [callView EXCEPT ![w] = "open"]
      BY <1>0, <1>10, <2>1, <2>3 DEF Begin, callView, Decided
    <3>3. resultView' = [resultView EXCEPT ![w] = "none"]
      BY <1>0, <1>10, <2>3 DEF Begin, resultView, ResultName
    <3> QED  BY <2>1, <2>2, <3>1, <3>2, <3>3 DEF Service!Open
  <2>4. CASE ~registered
    <3>1. daemonView = NoPort
      BY <2>4 DEF daemonView
    <3>2. UNCHANGED callView
      BY <1>10, <2>1, <2>4 DEF Begin, callView, Decided
    <3>3. resultView' = [resultView EXCEPT ![w] = "failed"]
      BY <1>0, <1>10, <2>4 DEF Begin, resultView, ResultName, Errors
    <3> QED  BY <2>1, <2>2, <3>1, <3>2, <3>3 DEF Service!Refuse
  <2> QED  BY <2>3, <2>4
<1>11. ASSUME NEW w \in Workers, AllocFails(w) \/ ErrRemove(w) \/ Expire(w)
       PROVE  Service!Fail(w)
  <2>1. ~Decided(w) /\ pc[w] # "idle"
    BY <1>11
    DEF AllocFails, ErrRemove, Expire, StillPending, IInv, NodeInv, HandlerInv,
        Busy, Sent, TypeOK, Decided
  <2>2. /\ \E e \in Errors : ReturnCode(w, e)
        /\ FreeNode(w) \/ UNCHANGED nodeVars
        /\ UNCHANGED <<chanVars, handlerVars, vout>>
    BY <1>11
    DEF AllocFails, ErrRemove, Expire, IInv, NodeInv
  <2>3. \A x \in Workers : x # w => Decided(x)' = Decided(x)
    BY <2>2 DEF FreeNode, Decided, IInv, TypeOK
  <2>4. ~Decided(w)'
    BY <2>1, <2>2 DEF FreeNode, Decided, IInv, TypeOK
  <2>5. callView[w] = "open" /\ callView' = [callView EXCEPT ![w] = "idle"]
    BY <1>0, <2>1, <2>2, <2>3 DEF ReturnCode, callView
  <2>6. UNCHANGED <<daemonView, senderView, outcomeView>>
    BY <1>0, <2>1, <2>2, <2>3, <2>4
    DEF FreeNode, outcomeView, daemonView, senderView
  <2>7. resultView' = [resultView EXCEPT ![w] = "failed"]
    BY <1>0, <2>2 DEF ReturnCode, resultView, ResultName
  <2> QED  BY <2>5, <2>6, <2>7 DEF Service!Fail
<1>12. ASSUME NEW w \in Workers,
              Enqueue(w) \/ Send(w) \/ SendFails(w) \/ Timeout(w)
              \/ WaitForHandler(w)
       PROVE  UNCHANGED Service!svars
  <2>1. pc[w] # "idle" /\ pc'[w] # "idle"
    BY <1>12
    DEF Enqueue, Send, SendFails, Timeout, WaitForHandler, IInv, TypeOK
  <2>2. \A x \in Workers : x # w => pc'[x] = pc[x] /\ ret'[x] = ret[x]
    BY <1>12
    DEF Enqueue, Send, SendFails, Timeout, WaitForHandler, IInv, TypeOK
  <2>3. \A x \in Workers : Decided(x)' = Decided(x)
    BY <1>12
    DEF Enqueue, Send, SendFails, Timeout, WaitForHandler, Decided, IInv, TypeOK,
        NodeInv, HandlerInv, Busy
  <2>4. UNCHANGED outcomeView
    BY <1>12, <2>3
    DEF Enqueue, Send, SendFails, Timeout, WaitForHandler, outcomeView,
        AnswerName, Decided, IInv, TypeOK, NodeInv, HandlerInv, Busy
  <2>5. UNCHANGED <<daemonView, senderView, callView, resultView>>
    BY <1>12, <2>1, <2>2, <2>3
    DEF Enqueue, Send, SendFails, Timeout, WaitForHandler, daemonView,
        senderView, callView, resultView, ResultName, AnswerName
  <2> QED  BY <2>4, <2>5
<1>13. ASSUME NEW w \in Workers, TakeVerdict(w)
       PROVE  Service!Return(w)
  <2>1. Decided(w) /\ done[w] /\ pc[w] # "idle" /\ verdict[w] \in Verdicts
    BY <1>13 DEF TakeVerdict, IInv, NodeInv, Decided
  <2>2. \A x \in Workers : x # w => Decided(x)' = Decided(x)
    BY <1>13 DEF TakeVerdict, FreeNode, Decided, IInv, TypeOK
  <2>3. ~Decided(w)'
    BY <1>13 DEF TakeVerdict, FreeNode, Decided, IInv, TypeOK
  <2>4. callView[w] = "decided" /\ callView' = [callView EXCEPT ![w] = "idle"]
    BY <1>0, <1>13, <2>1, <2>2 DEF TakeVerdict, ReturnCode, callView
  <2>5. outcomeView' = [outcomeView EXCEPT ![w] = "none"]
    BY <1>0, <1>13, <2>2, <2>3 DEF TakeVerdict, FreeNode, outcomeView
  <2>6. resultView' = [resultView EXCEPT ![w] = outcomeView[w]]
    BY <1>0, <1>13, <2>1
    DEF TakeVerdict, ReturnCode, resultView, outcomeView, ResultName
  <2>7. UNCHANGED <<daemonView, senderView>>
    BY <1>13 DEF TakeVerdict, daemonView, senderView
  <2> QED  BY <2>4, <2>5, <2>6, <2>7 DEF Service!Return
<1> QED
  BY <1>1, <1>2, <1>3, <1>4, <1>5, <1>6, <1>7, <1>8, <1>9, <1>10, <1>11, <1>12,
     <1>13
  DEF Next, Lifecycle, Daemon, Handler, Call, Service!Next, Service!Finish

\* The channel gives its callers the service of ScanService: the verdict the
\* daemon's reply carried is the one returned, to the call it was meant for.
THEOREM Refinement == DrainedExit => (Spec => ImplementsService)
<1> SUFFICES ASSUME DrainedExit PROVE Spec => ImplementsService
  OBVIOUS
<1>1. Init => Service!Init
  BY DEF Init, Service!Init, daemonView, senderView, callView, outcomeView, resultView,
         Decided, ResultName
<1>2. IInv /\ IInv' /\ [Next]_vars => [Service!Next]_(Service!svars)
  BY NextRefines
<1> QED
  BY <1>1, <1>2, InvariantHolds, PTL DEF Spec, ImplementsService, Service!Spec
=============================================================================
