------------------------ MODULE SettingsApply_proofs ------------------------
(***************************************************************************)
(* Proofs about SettingsApply for every set of requests, variables, values *)
(* and any number of crashes.                                              *)
(***************************************************************************)
EXTENDS SettingsApply, TLAPS

-----------------------------------------------------------------------------
(* The inductive invariant. *)

Critical == {"read", "replace", "restart", "start"}

\* The lock says who is between Acquire and the end of the with-block.
LockInv == \A r \in Requests : pc[r] \in Critical <=> lock = r

\* What a thread is about to rename into place is the file as it is now with
\* its own update: nobody replaced the file since it was read.
BufferInv ==
  \A r \in Requests :
    pc[r] = "replace" => Valid(update[r]) /\ buffer[r] = Merge(update[r], file)

Unlanded == {"idle", "authorize", "lock", "read", "replace"}

\* Which renames have happened, and in which order.
LandedInv ==
  \A r \in Requests :
    /\ landed[r] <= version
    /\ pc[r] \in Unlanded => landed[r] = 0
    /\ pc[r] \in {"restart", "start"} => landed[r] = version
    /\ pc[r] \in {"restart", "start", "report"} => landed[r] # 0
    /\ landed[r] # 0 => Valid(update[r])
    /\ \A q \in Requests : landed[r] = landed[q] /\ landed[r] # 0 => r = q

\* A thread is unanswered exactly until it is done.
StatusInv ==
  \A r \in Requests : pc[r] # "done" <=> status[r] = "none"

\* What the proxy has read by each phase of its start.
ReadBy(phase) ==
  CASE phase = "exported" -> {"exported"}
    [] phase = "rendered" -> {"exported", "rendered"}
    [] phase \in {"routed", "ready"} -> {"exported", "rendered", "routed"}
    [] OTHER -> {}

\* A start that follows a request's restart reads its rename or a later one.
BootInv ==
  \A r \in Requests :
    pc[r] = "report" =>
      \A f \in ReadBy(proxy.phase) : proxy.reads[f] >= landed[r]

\* The last rename was followed, or is still to be followed, by a start.
Undisturbed ==
  \A r \in Requests :
    landed[r] = version /\ version # 0 =>
      status[r] \notin {"500", "lost"} /\ pc[r] \notin {"restart", "start"}

CurrentInv ==
  Undisturbed => \A f \in ReadBy(proxy.phase) : proxy.reads[f] = version

-----------------------------------------------------------------------------
(* Facts about updates. *)

\* A valid body writes only variables of the file, and only real values.
LEMMA MergeType ==
  ASSUME NEW u \in Updates \union {NoUpdate}, NEW f \in [Vars -> Values], Valid(u)
  PROVE  Merge(u, f) \in [Vars -> Values]
<1>1. ASSUME NEW v \in DOMAIN u PROVE u[v] \in Values
  <2>1. CASE u \in Updates
    BY <1>1, <2>1, UpdatesAssumption DEF Valid
  <2>2. CASE u = NoUpdate
    BY <1>1, <2>2 DEF NoUpdate
  <2>3. QED BY <2>1, <2>2
<1>2. QED BY <1>1 DEF Merge

\* The variables a valid body names have its values afterwards, and no other
\* variable has changed.
LEMMA MergeValues ==
  ASSUME NEW u, NEW f \in [Vars -> Values], Valid(u), NEW v
  PROVE  /\ v \in DOMAIN u => Merge(u, f)[v] = u[v]
         /\ v \in Vars \ DOMAIN u => Merge(u, f)[v] = f[v]
BY DEF Merge, Valid, Vars

-----------------------------------------------------------------------------
(* Types. *)

LEMMA InitType == Init => TypeOK
<1> SUFFICES ASSUME Init PROVE TypeOK
  OBVIOUS
<1>1. NoValue \in Values /\ NothingServed \in Served
  BY ValuesAssumption DEF NothingServed, Served
<1>2. QED
  BY <1>1 DEF Init, TypeOK, Stages, ProxyPhases, Store!Statuses, Store!Phases

LEMMA NextType == TypeOK /\ [Next]_vars => TypeOK'
<1> SUFFICES ASSUME TypeOK, [Next]_vars PROVE TypeOK'
  OBVIOUS
<1> USE DEF TypeOK, Stages, ProxyPhases, Served, Store!Statuses, Goto, Answer
<1>1. ASSUME NEW r \in Requests, NEW u \in Updates, NEW t \in Values, Receive(r, u, t)
      PROVE  TypeOK'
  BY <1>1 DEF Receive
<1>2. ASSUME NEW r \in Requests, Thread(r) PROVE TypeOK'
  <2>1. CASE Authorize(r) BY <2>1 DEF Authorize
  <2>2. CASE Acquire(r) BY <2>2 DEF Acquire
  <2>3. CASE Reject(r) BY <2>3 DEF Reject
  <2>4. CASE ReadLines(r)
    <3>1. Merge(update[r], file) \in [Vars -> Values]
      BY <2>4, MergeType DEF ReadLines
    <3>2. QED BY <2>4, <3>1 DEF ReadLines
  <2>5. CASE Replace(r) BY <2>5 DEF Replace
  <2>6. CASE WriteFails(r) BY <2>6 DEF WriteFails, FailureAnswers
  <2>7. CASE StopProxy(r) BY <2>7 DEF StopProxy
  <2>8. CASE StartProxy(r) BY <2>8 DEF StartProxy
  <2>9. CASE RestartFails(r) BY <2>9 DEF RestartFails
  <2>10. CASE SeeReady(r) BY <2>10 DEF SeeReady
  <2>11. CASE ReportFails(r) BY <2>11 DEF ReportFails, FailureAnswers
  <2>12. CASE GiveUp(r) BY <2>12 DEF GiveUp
  <2>13. QED
    BY <1>2, <2>1, <2>2, <2>3, <2>4, <2>5, <2>6, <2>7, <2>8, <2>9, <2>10, <2>11,
       <2>12 DEF Thread
<1>3. CASE Proxy
  <2>1. proxy.reads \in Served /\ version \in Nat
    OBVIOUS
  <2>2. /\ [proxy.reads EXCEPT !.exported = version] \in Served
        /\ [proxy.reads EXCEPT !.rendered = version] \in Served
        /\ [proxy.reads EXCEPT !.routed = version] \in Served
    BY <2>1
  <2>3. CASE BootExports BY <2>2, <2>3 DEF BootExports, Boot
  <2>4. CASE BootRender BY <2>2, <2>4 DEF BootRender, Boot
  <2>5. CASE BootRoutes BY <2>2, <2>5 DEF BootRoutes, Boot
  <2>6. CASE BootListen BY <2>1, <2>6 DEF BootListen, Boot
  <2>7. QED BY <1>3, <2>3, <2>4, <2>5, <2>6 DEF Proxy
<1>4. CASE ProxyCrash
  <2>1. crashes' \in Nat BY <1>4 DEF ProxyCrash
  <2>2. QED BY <1>4, <2>1 DEF ProxyCrash
<1>5. CASE PageCrash
  <2>1. crashes' \in Nat BY <1>5 DEF PageCrash
  <2>2. proxy' \in [phase : ProxyPhases, reads : Served] BY <1>5 DEF PageCrash
  <2>3. pc' \in [Requests -> Stages] /\ status' \in [Requests -> Store!Statuses]
    BY <1>5 DEF PageCrash
  <2>4. QED BY <1>5, <2>1, <2>2, <2>3 DEF PageCrash
<1>6. CASE UNCHANGED vars
  BY <1>6 DEF vars
<1>7. QED
  BY <1>1, <1>2, <1>3, <1>4, <1>5, <1>6 DEF Next

\* Every variable keeps its type, for any requests, bodies and crashes: in
\* particular no value VALUE_RE refuses ever reaches .env.
THEOREM TypeCorrect == Spec => []TypeOK
<1>1. QED BY InitType, NextType, PTL DEF Spec

-----------------------------------------------------------------------------
(* The lock. *)

LEMMA NextLock == TypeOK /\ LockInv /\ [Next]_vars => LockInv'
<1> SUFFICES ASSUME TypeOK, LockInv, [Next]_vars,
                    NEW q \in Requests
             PROVE  pc'[q] \in Critical <=> lock' = q
  BY DEF LockInv
<1>1. pc[q] \in Critical <=> lock = q
  BY DEF LockInv
<1>2. /\ pc \in [Requests -> Stages]
      /\ NoThread \notin Requests
  BY ThreadAssumption DEF TypeOK
<1> USE <1>1, <1>2 DEF Critical, Goto, Answer
<1>3. ASSUME NEW r \in Requests, NEW u \in Updates, NEW t \in Values, Receive(r, u, t)
      PROVE  pc'[q] \in Critical <=> lock' = q
  BY <1>3 DEF Receive
<1>4. ASSUME NEW r \in Requests, Thread(r) PROVE pc'[q] \in Critical <=> lock' = q
  <2>1. CASE Authorize(r) BY <2>1 DEF Authorize
  <2>2. CASE Acquire(r) BY <2>2 DEF Acquire
  <2> HIDE <1>1
  <2>0. pc[r] \in Critical => lock = r
    BY DEF LockInv
  <2> USE <1>1, <2>0
  <2>3. CASE Reject(r) BY <2>3 DEF Reject
  <2>4. CASE ReadLines(r) BY <2>4 DEF ReadLines
  <2>5. CASE Replace(r) BY <2>5 DEF Replace
  <2>6. CASE WriteFails(r) BY <2>6 DEF WriteFails, FailureAnswers
  <2>7. CASE StopProxy(r) BY <2>7 DEF StopProxy
  <2>8. CASE StartProxy(r) BY <2>8 DEF StartProxy
  <2>9. CASE RestartFails(r) BY <2>9 DEF RestartFails
  <2>10. CASE SeeReady(r) BY <2>10 DEF SeeReady
  <2>11. CASE ReportFails(r) BY <2>11 DEF ReportFails, FailureAnswers
  <2>12. CASE GiveUp(r) BY <2>12 DEF GiveUp
  <2>13. QED
    BY <1>4, <2>1, <2>2, <2>3, <2>4, <2>5, <2>6, <2>7, <2>8, <2>9, <2>10, <2>11,
       <2>12 DEF Thread
<1>5. CASE Proxy
  BY <1>5 DEF Proxy, BootExports, BootRender, BootRoutes, BootListen, Boot
<1>6. CASE ProxyCrash BY <1>6 DEF ProxyCrash
<1>7. CASE PageCrash BY <1>7 DEF PageCrash, Idle
<1>8. CASE UNCHANGED vars BY <1>8 DEF vars
<1>9. QED BY <1>3, <1>4, <1>5, <1>6, <1>7, <1>8 DEF Next

LEMMA NextStatus == TypeOK /\ StatusInv /\ [Next]_vars => StatusInv'
<1> SUFFICES ASSUME TypeOK, StatusInv, [Next]_vars,
                    NEW q \in Requests
             PROVE  pc'[q] # "done" <=> status'[q] = "none"
  BY DEF StatusInv
<1>1. pc[q] # "done" <=> status[q] = "none"
  BY DEF StatusInv
<1>2. /\ pc \in [Requests -> Stages]
      /\ status \in [Requests -> Store!Statuses]
  BY DEF TypeOK
<1> USE <1>1, <1>2 DEF Goto, Answer
<1>3. ASSUME NEW r \in Requests, NEW u \in Updates, NEW t \in Values, Receive(r, u, t)
      PROVE  pc'[q] # "done" <=> status'[q] = "none"
  BY <1>3 DEF Receive
<1>4. ASSUME NEW r \in Requests, Thread(r) PROVE pc'[q] # "done" <=> status'[q] = "none"
  <2>1. CASE Authorize(r) BY <2>1 DEF Authorize
  <2>2. CASE Acquire(r) BY <2>2 DEF Acquire
  <2>3. CASE Reject(r) BY <2>3 DEF Reject
  <2>4. CASE ReadLines(r) BY <2>4 DEF ReadLines
  <2>5. CASE Replace(r) BY <2>5 DEF Replace
  <2>6. CASE WriteFails(r) BY <2>6 DEF WriteFails, FailureAnswers
  <2>7. CASE StopProxy(r) BY <2>7 DEF StopProxy
  <2>8. CASE StartProxy(r) BY <2>8 DEF StartProxy
  <2>9. CASE RestartFails(r) BY <2>9 DEF RestartFails
  <2>10. CASE SeeReady(r) BY <2>10 DEF SeeReady
  <2>11. CASE ReportFails(r) BY <2>11 DEF ReportFails, FailureAnswers
  <2>12. CASE GiveUp(r) BY <2>12 DEF GiveUp
  <2>13. QED
    BY <1>4, <2>1, <2>2, <2>3, <2>4, <2>5, <2>6, <2>7, <2>8, <2>9, <2>10, <2>11,
       <2>12 DEF Thread
<1>5. CASE Proxy
  BY <1>5 DEF Proxy, BootExports, BootRender, BootRoutes, BootListen, Boot
<1>6. CASE ProxyCrash BY <1>6 DEF ProxyCrash
<1>7. CASE PageCrash BY <1>7 DEF PageCrash, Idle
<1>8. CASE UNCHANGED vars BY <1>8 DEF vars
<1>9. QED BY <1>3, <1>4, <1>5, <1>6, <1>7, <1>8 DEF Next

-----------------------------------------------------------------------------
(* The rename: what it is computed from, and the order of renames. *)

\* Only the holder of the lock can be at the rename, so a second reader of
\* .env never has a buffer that the first one's rename makes stale.
LEMMA NextBuffer == TypeOK /\ LockInv /\ BufferInv /\ [Next]_vars => BufferInv'
<1> SUFFICES ASSUME TypeOK, LockInv, BufferInv, [Next]_vars,
                    NEW q \in Requests, pc'[q] = "replace"
             PROVE  Valid(update'[q]) /\ buffer'[q] = Merge(update'[q], file')
  BY DEF BufferInv, Valid, Merge
<1> DEFINE Goal == Valid(update'[q]) /\ buffer'[q] = Merge(update'[q], file')
<1> SUFFICES Goal
  OBVIOUS
<1>1. ASSUME pc[q] = "replace", UNCHANGED file, update'[q] = update[q],
             buffer'[q] = buffer[q]
      PROVE  Goal
  <2>1. Valid(update[q]) /\ buffer[q] = Merge(update[q], file)
    BY <1>1 DEF BufferInv
  <2>2. QED BY <1>1, <2>1
<1>2. /\ pc \in [Requests -> Stages]
      /\ update \in [Requests -> Updates \union {NoUpdate}]
      /\ buffer \in [Requests -> [Vars -> Values]]
  BY DEF TypeOK
<1> HIDE DEF Goal
<1> USE <1>2 DEF Goto, Answer
<1>3. ASSUME NEW r \in Requests, NEW u \in Updates, NEW t \in Values, Receive(r, u, t)
      PROVE  Goal
  BY <1>1, <1>3 DEF Receive
<1>4. ASSUME NEW r \in Requests, Thread(r) PROVE Goal
  <2>1. CASE Authorize(r) BY <1>1, <2>1 DEF Authorize
  <2>2. CASE Acquire(r) BY <1>1, <2>2 DEF Acquire
  <2>3. CASE Reject(r) BY <1>1, <2>3 DEF Reject
  <2>4. CASE ReadLines(r)
    <3>1. CASE q = r
      <4>1. /\ Valid(update[r]) /\ update' = update /\ file' = file
            /\ buffer'[r] = Merge(update[r], file)
        BY <2>4 DEF ReadLines
      <4>2. QED BY <3>1, <4>1 DEF Goal
    <3>2. CASE q # r BY <1>1, <2>4, <3>2 DEF ReadLines
    <3>3. QED BY <3>1, <3>2
  <2>5. CASE Replace(r)
    <3>1. pc[r] = "replace" /\ pc[q] = "replace" /\ q # r
      BY <2>5 DEF Replace
    <3>2. lock = r /\ lock = q
      BY <3>1 DEF LockInv, Critical
    <3>3. QED BY <3>1, <3>2
  <2>6. CASE WriteFails(r) BY <1>1, <2>6 DEF WriteFails, FailureAnswers
  <2>7. CASE StopProxy(r) BY <1>1, <2>7 DEF StopProxy
  <2>8. CASE StartProxy(r) BY <1>1, <2>8 DEF StartProxy
  <2>9. CASE RestartFails(r) BY <1>1, <2>9 DEF RestartFails
  <2>10. CASE SeeReady(r) BY <1>1, <2>10 DEF SeeReady
  <2>11. CASE ReportFails(r) BY <1>1, <2>11 DEF ReportFails, FailureAnswers
  <2>12. CASE GiveUp(r) BY <1>1, <2>12 DEF GiveUp
  <2>13. QED
    BY <1>4, <2>1, <2>2, <2>3, <2>4, <2>5, <2>6, <2>7, <2>8, <2>9, <2>10, <2>11,
       <2>12 DEF Thread
<1>5. CASE Proxy
  BY <1>1, <1>5 DEF Proxy, BootExports, BootRender, BootRoutes, BootListen, Boot
<1>6. CASE ProxyCrash BY <1>1, <1>6 DEF ProxyCrash
<1>7. CASE PageCrash BY <1>1, <1>7 DEF PageCrash, Idle
<1>8. CASE UNCHANGED vars BY <1>1, <1>8 DEF vars
<1>9. QED BY <1>3, <1>4, <1>5, <1>6, <1>7, <1>8 DEF Next

\* A step that renames nothing and moves thread q as the stages allow.
KeepsLanded(q) ==
  /\ UNCHANGED <<version, landed>>
  /\ landed[q] # 0 => update'[q] = update[q]
  /\ pc'[q] \in Unlanded => pc[q] \in Unlanded
  /\ pc'[q] \in {"restart", "start"} => pc[q] \in {"restart", "start"}
  /\ pc'[q] = "report" => pc[q] \in {"start", "report"}

LEMMA StepLanded ==
  ASSUME TypeOK, LockInv, LandedInv, [Next]_vars, NEW q \in Requests
  PROVE  KeepsLanded(q) \/ \E r \in Requests : Replace(r)
<1>1. /\ pc \in [Requests -> Stages]
      /\ update \in [Requests -> Updates \union {NoUpdate}]
      /\ landed[q] # 0 => pc[q] \notin Unlanded
  BY DEF TypeOK, LandedInv
<1> USE <1>1 DEF KeepsLanded, Unlanded, Goto, Answer
<1>2. ASSUME NEW r \in Requests, NEW u \in Updates, NEW t \in Values, Receive(r, u, t)
      PROVE  KeepsLanded(q)
  BY <1>2 DEF Receive
<1>3. ASSUME NEW r \in Requests, Thread(r), ~Replace(r) PROVE KeepsLanded(q)
  <2>1. CASE Authorize(r) BY <2>1 DEF Authorize
  <2>2. CASE Acquire(r) BY <2>2 DEF Acquire
  <2>3. CASE Reject(r) BY <2>3 DEF Reject
  <2>4. CASE ReadLines(r) BY <2>4 DEF ReadLines
  <2>6. CASE WriteFails(r) BY <2>6 DEF WriteFails, FailureAnswers
  <2>7. CASE StopProxy(r) BY <2>7 DEF StopProxy
  <2>8. CASE StartProxy(r) BY <2>8 DEF StartProxy
  <2>9. CASE RestartFails(r) BY <2>9 DEF RestartFails
  <2>10. CASE SeeReady(r) BY <2>10 DEF SeeReady
  <2>11. CASE ReportFails(r) BY <2>11 DEF ReportFails, FailureAnswers
  <2>12. CASE GiveUp(r) BY <2>12 DEF GiveUp
  <2>13. QED
    BY <1>3, <2>1, <2>2, <2>3, <2>4, <2>6, <2>7, <2>8, <2>9, <2>10, <2>11,
       <2>12 DEF Thread
<1>4. CASE Proxy
  BY <1>4 DEF Proxy, BootExports, BootRender, BootRoutes, BootListen, Boot
<1>5. CASE ProxyCrash BY <1>5 DEF ProxyCrash
<1>6. CASE PageCrash BY <1>6 DEF PageCrash, Idle
<1>7. CASE UNCHANGED vars BY <1>7 DEF vars
<1>8. QED BY <1>2, <1>3, <1>4, <1>5, <1>6, <1>7 DEF Next

LEMMA NextLanded ==
  TypeOK /\ LockInv /\ BufferInv /\ LandedInv /\ [Next]_vars => LandedInv'
<1> SUFFICES ASSUME TypeOK, LockInv, BufferInv, LandedInv, [Next]_vars
             PROVE  LandedInv'
  OBVIOUS
<1>1. /\ version \in Nat
      /\ landed \in [Requests -> Nat]
      /\ pc \in [Requests -> Stages]
  BY DEF TypeOK
<1>2. CASE \A q \in Requests : KeepsLanded(q)
  <2>1. ASSUME NEW r \in Requests
        PROVE  /\ landed'[r] <= version'
               /\ pc'[r] \in Unlanded => landed'[r] = 0
               /\ pc'[r] \in {"restart", "start"} => landed'[r] = version'
               /\ pc'[r] \in {"restart", "start", "report"} => landed'[r] # 0
    BY <1>1, <1>2 DEF LandedInv, KeepsLanded
  <2>2. ASSUME NEW r \in Requests, landed'[r] # 0 PROVE Valid(update'[r])
    <3>1. KeepsLanded(r) BY <1>2
    <3>2. landed[r] # 0 /\ update'[r] = update[r] BY <2>2, <3>1 DEF KeepsLanded
    <3>3. Valid(update[r]) BY <3>2 DEF LandedInv
    <3>4. QED BY <3>2, <3>3
  <2>3. ASSUME NEW r \in Requests, NEW q \in Requests,
               landed'[r] = landed'[q], landed'[r] # 0
        PROVE  r = q
    BY <1>2, <2>3 DEF LandedInv, KeepsLanded
  <2>4. QED BY <2>1, <2>2, <2>3 DEF LandedInv, Valid
<1>3. ASSUME NEW p \in Requests, Replace(p) PROVE LandedInv'
  <2>1. /\ pc[p] = "replace" /\ version' = version + 1 /\ update' = update
        /\ landed' = [landed EXCEPT ![p] = version + 1]
        /\ pc' = [pc EXCEPT ![p] = "restart"]
    BY <1>3 DEF Replace, Goto
  <2>2. Valid(update[p])
    BY <2>1 DEF BufferInv
  <2>3. \A q \in Requests \ {p} : pc[q] \notin {"restart", "start"}
    BY <2>1 DEF LockInv, Critical
  <2>4. ASSUME NEW r \in Requests
        PROVE  /\ landed'[r] <= version'
               /\ pc'[r] \in Unlanded => landed'[r] = 0
               /\ pc'[r] \in {"restart", "start"} => landed'[r] = version'
               /\ pc'[r] \in {"restart", "start", "report"} => landed'[r] # 0
    BY <1>1, <2>1, <2>3 DEF LandedInv, Unlanded
  <2>5. ASSUME NEW r \in Requests, landed'[r] # 0 PROVE Valid(update'[r])
    <3>1. CASE r = p BY <2>1, <2>2, <3>1
    <3>2. CASE r # p
      <4>1. landed[r] # 0 BY <1>1, <2>1, <2>5, <3>2
      <4>2. Valid(update[r]) BY <4>1 DEF LandedInv
      <4>3. QED BY <2>1, <4>2
    <3>3. QED BY <3>1, <3>2
  <2>6. ASSUME NEW r \in Requests, NEW q \in Requests,
               landed'[r] = landed'[q], landed'[r] # 0
        PROVE  r = q
    BY <1>1, <2>1, <2>6 DEF LandedInv
  <2>7. QED BY <2>4, <2>5, <2>6 DEF LandedInv, Valid
<1>4. QED BY <1>2, <1>3, StepLanded

-----------------------------------------------------------------------------
(* No lost update. *)

\* At a rename every variable either is the renaming thread's, or keeps its
\* value; between renames the file does not change.
LEMMA NextKept ==
  TypeOK /\ LockInv /\ BufferInv /\ LandedInv /\ LandedUpdatesKept /\ [Next]_vars
    => LandedUpdatesKept'
<1> SUFFICES ASSUME TypeOK, LockInv, BufferInv, LandedInv, LandedUpdatesKept, [Next]_vars,
                    NEW r \in Requests, landed'[r] # 0,
                    NEW v \in DOMAIN update'[r]
             PROVE  \/ file'[v] = update'[r][v]
                    \/ \E q \in Requests \ {r} :
                         landed'[q] > landed'[r] /\ v \in DOMAIN update'[q]
  BY DEF LandedUpdatesKept
<1>1. /\ version \in Nat
      /\ landed \in [Requests -> Nat]
      /\ file \in [Vars -> Values]
      /\ update \in [Requests -> Updates \union {NoUpdate}]
  BY DEF TypeOK
<1>2. CASE \A q \in Requests : ~Replace(q)
  <2>1. \A q \in Requests : KeepsLanded(q)
    BY <1>2, StepLanded
  <2>2. /\ landed' = landed
        /\ \A q \in Requests : landed[q] # 0 => update'[q] = update[q]
    BY <2>1 DEF KeepsLanded
  <2>3. file' = file
    BY <1>2 DEF Next, Thread, Receive, Authorize, Acquire, Reject, ReadLines, WriteFails,
       StopProxy, StartProxy, RestartFails, SeeReady, ReportFails, GiveUp, Proxy,
       BootExports, BootRender, BootRoutes, BootListen, Boot, ProxyCrash, PageCrash, vars
  <2>4. \/ file[v] = update[r][v]
        \/ \E q \in Requests \ {r} : landed[q] > landed[r] /\ v \in DOMAIN update[q]
    BY <2>2 DEF LandedUpdatesKept
  <2>5. CASE file[v] = update[r][v] BY <2>2, <2>3, <2>5
  <2>6. ASSUME NEW q \in Requests \ {r}, landed[q] > landed[r], v \in DOMAIN update[q]
        PROVE  landed'[q] > landed'[r] /\ v \in DOMAIN update'[q]
    BY <1>1, <2>2, <2>6
  <2>7. QED BY <2>4, <2>5, <2>6
<1>3. ASSUME NEW p \in Requests, Replace(p)
      PROVE  \/ file'[v] = update'[r][v]
             \/ \E q \in Requests \ {r} :
                  landed'[q] > landed'[r] /\ v \in DOMAIN update'[q]
  <2>1. /\ pc[p] = "replace" /\ update' = update /\ file' = buffer[p]
        /\ landed' = [landed EXCEPT ![p] = version + 1]
    BY <1>3 DEF Replace
  <2>2. Valid(update[p]) /\ file' = Merge(update[p], file)
    BY <2>1 DEF BufferInv
  <2>3. CASE r = p
    BY <1>1, <2>1, <2>2, <2>3, MergeValues
  <2>4. CASE r # p /\ v \in DOMAIN update[p]
    <3>1. landed'[p] = version + 1 /\ landed'[r] = landed[r] /\ landed[r] <= version
      BY <1>1, <2>1, <2>4 DEF LandedInv
    <3>2. landed'[p] > landed'[r]
      BY <1>1, <3>1
    <3>3. QED BY <2>1, <2>4, <3>2
  <2>5. CASE r # p /\ v \notin DOMAIN update[p]
    <3>1. landed[r] # 0 /\ landed'[r] = landed[r] /\ v \in DOMAIN update[r]
      BY <1>1, <2>1, <2>5
    <3>2. Valid(update[r])
      BY <3>1 DEF LandedInv
    <3>3. v \in Vars \ DOMAIN update[p]
      BY <2>5, <3>1, <3>2 DEF Valid, Vars
    <3>4. file'[v] = file[v]
      BY <1>1, <2>2, <3>3, MergeValues
    <3>5. CASE file[v] = update[r][v] BY <2>1, <3>4, <3>5
    <3>6. ASSUME NEW q \in Requests \ {r}, landed[q] > landed[r], v \in DOMAIN update[q]
          PROVE  landed'[q] > landed'[r] /\ v \in DOMAIN update'[q]
      <4>1. q # p BY <2>5, <3>6
      <4>2. QED BY <1>1, <2>1, <3>1, <3>6, <4>1
    <3>7. QED BY <3>1, <3>5, <3>6 DEF LandedUpdatesKept
  <2>6. QED BY <2>3, <2>4, <2>5
<1>4. QED BY <1>2, <1>3

-----------------------------------------------------------------------------
(* Together. *)

WriteInv == TypeOK /\ LockInv /\ StatusInv /\ BufferInv /\ LandedInv /\ LandedUpdatesKept

LEMMA WriteInvariant == Spec => []WriteInv
<1>1. Init => WriteInv
  <2> SUFFICES ASSUME Init PROVE WriteInv
    OBVIOUS
  <2>1. TypeOK BY InitType
  <2>2. LockInv /\ StatusInv /\ BufferInv
    BY ThreadAssumption DEF Init, LockInv, StatusInv, BufferInv, Critical
  <2>3. LandedInv /\ LandedUpdatesKept
    BY DEF Init, LandedInv, LandedUpdatesKept, Unlanded
  <2>4. QED BY <2>1, <2>2, <2>3 DEF WriteInv
<1>2. WriteInv /\ [Next]_vars => WriteInv'
  BY NextType, NextLock, NextStatus, NextBuffer, NextLanded, NextKept DEF WriteInv
<1>3. QED BY <1>1, <1>2, PTL DEF Spec

\* No lost update, for any number of concurrent applies and crashes: because
\* write_env runs under App._write_lock, a value that reached .env leaves it
\* only through a later apply of the same variable.
THEOREM NoLostUpdate == Spec => []LandedUpdatesKept
<1>1. WriteInv => LandedUpdatesKept
  BY DEF WriteInv
<1>2. QED BY <1>1, WriteInvariant, PTL

-----------------------------------------------------------------------------
(* What a started proxy has read. *)

Fields == {"exported", "rendered", "routed"}

\* Every read returned a version that exists.
ReadsInv == \A f \in Fields : proxy.reads[f] \in 0 .. version

\* A step that leaves the proxy's reads alone and lets it get no further.
KeepsReads ==
  /\ proxy'.reads = proxy.reads
  /\ proxy'.phase \in {proxy.phase, "boot", "exited"}

\* A step of the proxy's start: the one new read returns the version there is.
Advances ==
  /\ UNCHANGED <<version, pc, landed, status, seen>>
  /\ \A f \in ReadBy(proxy'.phase) :
       \/ f \in ReadBy(proxy.phase) /\ proxy'.reads[f] = proxy.reads[f]
       \/ proxy'.reads[f] = version
  /\ \A f \in Fields : proxy'.reads[f] \in {proxy.reads[f], version}

LEMMA ReadByFields == \A phase \in ProxyPhases : ReadBy(phase) \subseteq Fields
BY DEF ReadBy, Fields, ProxyPhases

LEMMA BootAdvances == ASSUME TypeOK, Proxy PROVE Advances
<1>1. /\ proxy = [phase |-> proxy.phase, reads |-> proxy.reads]
      /\ proxy.reads = [exported |-> proxy.reads.exported, rendered |-> proxy.reads.rendered,
                        routed |-> proxy.reads.routed]
  BY DEF TypeOK, Served
<1> DEFINE e == proxy.reads.exported
           n == proxy.reads.rendered
           t == proxy.reads.routed
<1>2. CASE BootExports
  <2>1. proxy' = [phase |-> "exported",
                  reads |-> [exported |-> version, rendered |-> n, routed |-> t]]
    BY <1>1, <1>2 DEF BootExports, Boot
  <2>2. QED BY <1>1, <1>2, <2>1 DEF BootExports, Boot, Advances, ReadBy, Fields
<1>3. CASE BootRender
  <2>1. proxy' = [phase |-> "rendered",
                  reads |-> [exported |-> e, rendered |-> version, routed |-> t]]
    BY <1>1, <1>3 DEF BootRender, Boot
  <2>2. QED BY <1>1, <1>3, <2>1 DEF BootRender, Boot, Advances, ReadBy, Fields
<1>4. CASE BootRoutes
  <2>1. proxy' = [phase |-> "routed",
                  reads |-> [exported |-> e, rendered |-> n, routed |-> version]]
    BY <1>1, <1>4 DEF BootRoutes, Boot
  <2>2. QED BY <1>1, <1>4, <2>1 DEF BootRoutes, Boot, Advances, ReadBy, Fields
<1>5. CASE BootListen
  BY <1>5 DEF BootListen, Boot, Advances, ReadBy, Fields
<1>6. QED BY <1>2, <1>3, <1>4, <1>5 DEF Proxy

LEMMA StepProxy == ASSUME TypeOK, [Next]_vars PROVE KeepsReads \/ Proxy
<1>1. proxy \in [phase : ProxyPhases, reads : Served]
  BY DEF TypeOK
<1> USE <1>1 DEF KeepsReads
<1>2. ASSUME NEW r \in Requests, Thread(r) PROVE KeepsReads
  <2>1. CASE StopProxy(r) BY <2>1 DEF StopProxy
  <2>2. CASE StartProxy(r) BY <2>2 DEF StartProxy
  <2>3. CASE RestartFails(r) BY <2>3 DEF RestartFails
  <2>4. CASE UNCHANGED proxy BY <2>4
  <2>5. QED
    BY <1>2, <2>1, <2>2, <2>3, <2>4 DEF Thread, Authorize, Acquire, Reject, ReadLines,
       Replace, WriteFails, SeeReady, ReportFails, GiveUp
<1>3. ASSUME NEW r \in Requests, NEW u \in Updates, NEW t \in Values, Receive(r, u, t)
      PROVE  KeepsReads
  BY <1>3 DEF Receive
<1>4. CASE ProxyCrash BY <1>4 DEF ProxyCrash
<1>5. CASE PageCrash BY <1>5 DEF PageCrash
<1>6. CASE UNCHANGED vars BY <1>6 DEF vars
<1>7. QED BY <1>2, <1>3, <1>4, <1>5, <1>6 DEF Next

\* A thread that is polling either was before, or has just had the proxy started.
Polls(q) ==
  pc'[q] = "report" =>
    \/ pc[q] = "report" /\ landed'[q] = landed[q]
    \/ proxy'.phase = "boot"

LEMMA StepPolls == ASSUME TypeOK, [Next]_vars, NEW q \in Requests PROVE Polls(q)
<1>1. /\ pc \in [Requests -> Stages]
      /\ landed \in [Requests -> Nat]
      /\ proxy \in [phase : ProxyPhases, reads : Served]
  BY DEF TypeOK
<1> USE <1>1 DEF Polls, Goto, Answer
<1>3. ASSUME NEW r \in Requests, NEW u \in Updates, NEW t \in Values, Receive(r, u, t)
      PROVE  Polls(q)
  BY <1>3 DEF Receive
<1>4. ASSUME NEW r \in Requests, Thread(r) PROVE Polls(q)
  <2>1. CASE Authorize(r) BY <2>1 DEF Authorize
  <2>2. CASE Acquire(r) BY <2>2 DEF Acquire
  <2>3. CASE Reject(r) BY <2>3 DEF Reject
  <2>4. CASE ReadLines(r) BY <2>4 DEF ReadLines
  <2>5. CASE Replace(r) BY <2>5 DEF Replace
  <2>6. CASE WriteFails(r) BY <2>6 DEF WriteFails, FailureAnswers
  <2>7. CASE StopProxy(r) BY <2>7 DEF StopProxy
  <2>8. CASE StartProxy(r) BY <2>8 DEF StartProxy
  <2>9. CASE RestartFails(r) BY <2>9 DEF RestartFails
  <2>10. CASE SeeReady(r) BY <2>10 DEF SeeReady
  <2>11. CASE ReportFails(r) BY <2>11 DEF ReportFails, FailureAnswers
  <2>12. CASE GiveUp(r) BY <2>12 DEF GiveUp
  <2>13. QED
    BY <1>4, <2>1, <2>2, <2>3, <2>4, <2>5, <2>6, <2>7, <2>8, <2>9, <2>10, <2>11,
       <2>12 DEF Thread
<1>5. CASE Proxy
  BY <1>5 DEF Proxy, BootExports, BootRender, BootRoutes, BootListen, Boot
<1>6. CASE ProxyCrash BY <1>6 DEF ProxyCrash
<1>7. CASE PageCrash BY <1>7 DEF PageCrash, Idle
<1>8. CASE UNCHANGED vars BY <1>8 DEF vars
<1>9. QED BY <1>3, <1>4, <1>5, <1>6, <1>7, <1>8 DEF Next

\* An answered thread keeps its answer, what it saw and what it landed.
KeepsAnswer(q) ==
  /\ pc[q] = "done" =>
       /\ pc'[q] = "done"
       /\ status'[q] = status[q]
       /\ seen'[q] = seen[q]
       /\ landed'[q] = landed[q]
  /\ pc[q] # "done" /\ status'[q] = "ready" => SeeReady(q)

LEMMA StepAnswer ==
  ASSUME TypeOK, StatusInv, [Next]_vars, NEW q \in Requests PROVE KeepsAnswer(q)
<1>1. /\ pc \in [Requests -> Stages]
      /\ landed \in [Requests -> Nat]
      /\ status \in [Requests -> Store!Statuses]
      /\ seen \in [Requests -> Served]
      /\ pc[q] # "done" => status[q] = "none"
  BY DEF TypeOK, StatusInv
<1> USE <1>1 DEF KeepsAnswer, Goto, Answer
<1>3. ASSUME NEW r \in Requests, NEW u \in Updates, NEW t \in Values, Receive(r, u, t)
      PROVE  KeepsAnswer(q)
  BY <1>3 DEF Receive
<1>4. ASSUME NEW r \in Requests, Thread(r) PROVE KeepsAnswer(q)
  <2>1. CASE Authorize(r) BY <2>1 DEF Authorize
  <2>2. CASE Acquire(r) BY <2>2 DEF Acquire
  <2>3. CASE Reject(r) BY <2>3 DEF Reject
  <2>4. CASE ReadLines(r) BY <2>4 DEF ReadLines
  <2>5. CASE Replace(r) BY <2>5 DEF Replace
  <2>6. CASE WriteFails(r) BY <2>6 DEF WriteFails, FailureAnswers
  <2>7. CASE StopProxy(r) BY <2>7 DEF StopProxy
  <2>8. CASE StartProxy(r) BY <2>8 DEF StartProxy
  <2>9. CASE RestartFails(r) BY <2>9 DEF RestartFails
  <2>10. CASE SeeReady(r) BY <2>10 DEF SeeReady
  <2>11. CASE ReportFails(r) BY <2>11 DEF ReportFails, FailureAnswers
  <2>12. CASE GiveUp(r) BY <2>12 DEF GiveUp
  <2>13. QED
    BY <1>4, <2>1, <2>2, <2>3, <2>4, <2>5, <2>6, <2>7, <2>8, <2>9, <2>10, <2>11,
       <2>12 DEF Thread
<1>5. CASE Proxy
  BY <1>5 DEF Proxy, BootExports, BootRender, BootRoutes, BootListen, Boot
<1>6. CASE ProxyCrash BY <1>6 DEF ProxyCrash
<1>7. CASE PageCrash BY <1>7 DEF PageCrash, Idle
<1>8. CASE UNCHANGED vars BY <1>8 DEF vars
<1>9. QED BY <1>3, <1>4, <1>5, <1>6, <1>7, <1>8 DEF Next

\* A thread inside the restart stays there, fails, or starts the proxy.
Restarts(q) ==
  pc[q] \in {"restart", "start"} =>
    \/ pc'[q] \in {"restart", "start"}
    \/ status'[q] \in {"500", "lost"}
    \/ proxy'.phase = "boot"

LEMMA StepRestarts == ASSUME TypeOK, [Next]_vars, NEW q \in Requests PROVE Restarts(q)
<1>1. /\ pc \in [Requests -> Stages]
      /\ status \in [Requests -> Store!Statuses]
      /\ proxy \in [phase : ProxyPhases, reads : Served]
  BY DEF TypeOK
<1> USE <1>1 DEF Restarts, Goto, Answer
<1>3. ASSUME NEW r \in Requests, NEW u \in Updates, NEW t \in Values, Receive(r, u, t)
      PROVE  Restarts(q)
  BY <1>3 DEF Receive
<1>4. ASSUME NEW r \in Requests, Thread(r) PROVE Restarts(q)
  <2>1. CASE Authorize(r) BY <2>1 DEF Authorize
  <2>2. CASE Acquire(r) BY <2>2 DEF Acquire
  <2>3. CASE Reject(r) BY <2>3 DEF Reject
  <2>4. CASE ReadLines(r) BY <2>4 DEF ReadLines
  <2>5. CASE Replace(r) BY <2>5 DEF Replace
  <2>6. CASE WriteFails(r) BY <2>6 DEF WriteFails, FailureAnswers
  <2>7. CASE StopProxy(r) BY <2>7 DEF StopProxy
  <2>8. CASE StartProxy(r) BY <2>8 DEF StartProxy
  <2>9. CASE RestartFails(r) BY <2>9 DEF RestartFails
  <2>10. CASE SeeReady(r) BY <2>10 DEF SeeReady
  <2>11. CASE ReportFails(r) BY <2>11 DEF ReportFails, FailureAnswers
  <2>12. CASE GiveUp(r) BY <2>12 DEF GiveUp
  <2>13. QED
    BY <1>4, <2>1, <2>2, <2>3, <2>4, <2>5, <2>6, <2>7, <2>8, <2>9, <2>10, <2>11,
       <2>12 DEF Thread
<1>5. CASE Proxy
  BY <1>5 DEF Proxy, BootExports, BootRender, BootRoutes, BootListen, Boot
<1>6. CASE ProxyCrash BY <1>6 DEF ProxyCrash
<1>7. CASE PageCrash BY <1>7 DEF PageCrash, Idle
<1>8. CASE UNCHANGED vars BY <1>8 DEF vars
<1>9. QED BY <1>3, <1>4, <1>5, <1>6, <1>7, <1>8 DEF Next

\* How the versions move in one step.
LEMMA StepVersion ==
  ASSUME TypeOK, LockInv, LandedInv, [Next]_vars
  PROVE  \/ version' = version /\ landed' = landed
         \/ \E p \in Requests :
              /\ Replace(p)
              /\ version' = version + 1
              /\ landed' = [landed EXCEPT ![p] = version + 1]
              /\ pc'[p] = "restart"
              /\ proxy' = proxy
<1>1. CASE \E p \in Requests : Replace(p)
  <2>1. PICK p \in Requests : Replace(p) BY <1>1
  <2>2. pc \in [Requests -> Stages] BY DEF TypeOK
  <2>3. QED BY <2>1, <2>2 DEF Replace, Goto
<1>2. CASE ~\E p \in Requests : Replace(p)
  <2> USE DEF Goto, Answer
  <2>1. ASSUME NEW r \in Requests, Thread(r) PROVE version' = version /\ landed' = landed
    BY <1>2, <2>1 DEF Thread, Authorize, Acquire, Reject, ReadLines, WriteFails,
       StopProxy, StartProxy, RestartFails, SeeReady, ReportFails, GiveUp
  <2>2. QED
    BY <2>1 DEF Next, Receive, Proxy, BootExports, BootRender, BootRoutes, BootListen,
       Boot, ProxyCrash, PageCrash, vars
<1>3. QED BY <1>1, <1>2

LEMMA NextReads ==
  TypeOK /\ LockInv /\ LandedInv /\ ReadsInv /\ [Next]_vars => ReadsInv'
<1> SUFFICES ASSUME TypeOK, LockInv, LandedInv, ReadsInv, [Next]_vars, NEW f \in Fields
             PROVE  proxy'.reads[f] \in 0 .. version'
  BY DEF ReadsInv
<1>1. version \in Nat /\ version' \in Nat /\ version <= version'
  BY StepVersion DEF TypeOK
<1>2. proxy.reads[f] \in 0 .. version
  BY DEF ReadsInv
<1>3. proxy'.reads[f] \in {proxy.reads[f], version}
  BY StepProxy, BootAdvances DEF KeepsReads, Advances
<1>4. QED BY <1>1, <1>2, <1>3

LEMMA NextBoot ==
  TypeOK /\ LockInv /\ LandedInv /\ ReadsInv /\ BootInv /\ [Next]_vars => BootInv'
<1> SUFFICES ASSUME TypeOK, LockInv, LandedInv, ReadsInv, BootInv, [Next]_vars,
                    NEW q \in Requests, pc'[q] = "report",
                    NEW f \in ReadBy(proxy'.phase)
             PROVE  proxy'.reads[f] >= landed'[q]
  BY DEF BootInv
<1>1. proxy'.phase # "boot"
  BY DEF ReadBy
<1>2. pc[q] = "report" /\ landed'[q] = landed[q]
  BY <1>1, StepPolls DEF Polls
<1>3. /\ version >= landed[q]
      /\ \A g \in ReadBy(proxy.phase) : proxy.reads[g] >= landed[q]
  BY <1>2 DEF LandedInv, BootInv, TypeOK
<1>4. CASE KeepsReads
  <2>1. f \in ReadBy(proxy.phase)
    BY <1>4 DEF KeepsReads, ReadBy
  <2>2. QED BY <1>2, <1>3, <1>4, <2>1 DEF KeepsReads
<1>5. CASE Proxy
  <2>1. \/ f \in ReadBy(proxy.phase) /\ proxy'.reads[f] = proxy.reads[f]
        \/ proxy'.reads[f] = version
    BY <1>5, BootAdvances DEF Advances
  <2>2. QED BY <1>2, <1>3, <2>1
<1>6. QED BY <1>4, <1>5, StepProxy

LEMMA NextReady ==
  TypeOK /\ StatusInv /\ BootInv /\ ReadyMeansApplied /\ [Next]_vars
    => ReadyMeansApplied'
<1> SUFFICES ASSUME TypeOK, StatusInv, BootInv, ReadyMeansApplied, [Next]_vars,
                    NEW q \in Requests, status'[q] = "ready"
             PROVE  /\ seen'[q].exported >= landed'[q]
                    /\ seen'[q].rendered >= landed'[q]
                    /\ seen'[q].routed >= landed'[q]
  BY DEF ReadyMeansApplied
<1>1. CASE pc[q] = "done"
  BY <1>1, StepAnswer DEF KeepsAnswer, ReadyMeansApplied
<1>2. CASE pc[q] # "done"
  <2>1. SeeReady(q)
    BY <1>2, StepAnswer DEF KeepsAnswer
  <2>2. /\ pc[q] = "report" /\ proxy.phase = "ready"
        /\ seen'[q] = proxy.reads /\ landed' = landed
    BY <2>1 DEF SeeReady, TypeOK
  <2>3. \A f \in Fields : proxy.reads[f] >= landed[q]
    BY <2>2 DEF BootInv, ReadBy, Fields
  <2>4. QED BY <2>2, <2>3 DEF Fields
<1>3. QED BY <1>1, <1>2

\* Once the last rename has lost its restart, only the next start makes up for it.
LEMMA StepUndisturbed ==
  ASSUME TypeOK, LockInv, StatusInv, LandedInv, [Next]_vars, Undisturbed'
  PROVE  version' = version /\ (Undisturbed \/ proxy'.phase = "boot")
<1>1. version' = version /\ landed' = landed
  <2>1. ASSUME NEW p \in Requests, version' = version + 1,
               landed' = [landed EXCEPT ![p] = version + 1], pc'[p] = "restart"
        PROVE  FALSE
    BY <2>1 DEF Undisturbed, TypeOK
  <2>2. QED BY <2>1, StepVersion
<1>2. ASSUME proxy'.phase # "boot", NEW r \in Requests, landed[r] = version, version # 0
      PROVE  status[r] \notin {"500", "lost"} /\ pc[r] \notin {"restart", "start"}
  <2>1. status'[r] \notin {"500", "lost"} /\ pc'[r] \notin {"restart", "start"}
    BY <1>1, <1>2 DEF Undisturbed
  <2>2. pc[r] \notin {"restart", "start"}
    BY <1>2, <2>1, StepRestarts DEF Restarts
  <2>3. CASE pc[r] = "done"
    BY <2>1, <2>2, <2>3, StepAnswer DEF KeepsAnswer
  <2>4. CASE pc[r] # "done"
    BY <2>2, <2>4 DEF StatusInv
  <2>5. QED BY <2>3, <2>4
<1>3. QED BY <1>1, <1>2 DEF Undisturbed

LEMMA NextCurrent ==
  TypeOK /\ LockInv /\ StatusInv /\ LandedInv /\ CurrentInv /\ [Next]_vars => CurrentInv'
<1> SUFFICES ASSUME TypeOK, LockInv, StatusInv, LandedInv, CurrentInv, [Next]_vars,
                    Undisturbed', NEW f \in ReadBy(proxy'.phase)
             PROVE  proxy'.reads[f] = version'
  BY DEF CurrentInv
<1>1. proxy'.phase # "boot"
  BY DEF ReadBy
<1>2. version' = version /\ Undisturbed
  BY <1>1, StepUndisturbed
<1>3. \A g \in ReadBy(proxy.phase) : proxy.reads[g] = version
  BY <1>2 DEF CurrentInv
<1>4. CASE KeepsReads
  <2>1. f \in ReadBy(proxy.phase)
    BY <1>4 DEF KeepsReads, ReadBy
  <2>2. QED BY <1>2, <1>3, <1>4, <2>1 DEF KeepsReads
<1>5. CASE Proxy
  BY <1>2, <1>3, <1>5, BootAdvances DEF Advances
<1>6. QED BY <1>4, <1>5, StepProxy

ServeInv == WriteInv /\ ReadsInv /\ BootInv /\ ReadyMeansApplied /\ CurrentInv

LEMMA ServeInvariant == Spec => []ServeInv
<1>1. Init => ReadsInv /\ BootInv /\ ReadyMeansApplied /\ CurrentInv
  <2> SUFFICES ASSUME Init PROVE ReadsInv /\ BootInv /\ ReadyMeansApplied /\ CurrentInv
    OBVIOUS
  <2>1. /\ version = 0
        /\ proxy = [phase |-> "ready", reads |-> NothingServed]
        /\ \A r \in Requests : pc[r] = "idle" /\ status[r] = "none"
    BY DEF Init
  <2>2. \A f \in Fields : proxy.reads[f] = 0
    BY <2>1 DEF Fields, NothingServed
  <2>3. \A f \in ReadBy(proxy.phase) : proxy.reads[f] = 0
    BY <2>1, <2>2, ReadByFields DEF ProxyPhases
  <2>4. QED
    BY <2>1, <2>2, <2>3 DEF ReadsInv, BootInv, ReadyMeansApplied, CurrentInv
<1>2. WriteInv /\ ReadsInv /\ BootInv /\ ReadyMeansApplied /\ CurrentInv /\ [Next]_vars
        => ReadsInv' /\ BootInv' /\ ReadyMeansApplied' /\ CurrentInv'
  BY NextReads, NextBoot, NextReady, NextCurrent DEF WriteInv
<1>3. QED BY <1>1, <1>2, WriteInvariant, PTL DEF Spec, ServeInv

\* "ready" in an answer is about a process started after the request's own
\* rename, however many other applies, failures and crashes interleave.
THEOREM ReadyIsApplied == Spec => []ReadyMeansApplied
<1>1. ServeInv => ReadyMeansApplied
  BY DEF ServeInv
<1>2. QED BY <1>1, ServeInvariant, PTL

\* The three unsynchronised reads of one start never leave a proxy serving a
\* mixture of two versions of .env, unless an apply said it failed.
THEOREM ReadyIsCurrent == Spec => []ReadyServesCurrentFile
<1>1. ServeInv => ReadyServesCurrentFile
  <2> SUFFICES ASSUME ServeInv, lock = NoThread, proxy.phase = "ready",
                      \A r \in Requests :
                        landed[r] = version /\ version > 0 =>
                          status[r] \notin {"500", "lost"}
               PROVE  proxy.reads =
                        [exported |-> version, rendered |-> version, routed |-> version]
    BY DEF ReadyServesCurrentFile
  <2>1. \A r \in Requests : pc[r] \notin {"restart", "start"}
    BY ThreadAssumption DEF ServeInv, WriteInv, LockInv, Critical
  <2>2. Undisturbed
    BY <2>1 DEF Undisturbed, ServeInv, WriteInv, TypeOK
  <2>3. \A f \in Fields : proxy.reads[f] = version
    BY <2>2 DEF ServeInv, CurrentInv, ReadBy, Fields
  <2>4. proxy.reads \in Served
    BY DEF ServeInv, WriteInv, TypeOK
  <2>5. QED BY <2>3, <2>4 DEF Served, Fields
<1>2. QED BY <1>1, ServeInvariant, PTL

-----------------------------------------------------------------------------
(* SettingsApply implements EnvStore. *)

Bar == [r \in Requests |-> PhaseOf(pc[r])]

LEMMA BarStep ==
  ASSUME NEW r \in Requests, NEW s \in Stages, TypeOK, pc' = [pc EXCEPT ![r] = s]
  PROVE  Bar' = [Bar EXCEPT ![r] = PhaseOf(s)]
BY DEF Bar, TypeOK

LEMMA BarStutter ==
  ASSUME NEW r \in Requests, NEW s \in Stages, TypeOK, pc' = [pc EXCEPT ![r] = s],
         PhaseOf(pc[r]) = PhaseOf(s)
  PROVE  Bar' = Bar
BY DEF Bar, TypeOK

StoreStep == [Store!StoreNext]_(Store!storeVars)

\* Each thread step is the abstract step its comment in SettingsApply names, or
\* none at all.  The rename is the commit: BufferInv says it merges into the
\* file as it is, not as it was when write_env read it.
LEMMA ThreadImplements ==
  ASSUME TypeOK, LockInv, StatusInv, BufferInv, NEW r \in Requests, Thread(r)
  PROVE  StoreStep
<1> USE DEF Goto, Answer, Stages
<1>1. CASE UNCHANGED <<file, update, status, Bar>>
  BY <1>1 DEF StoreStep, Store!storeVars, Bar
<1>2. ASSUME NEW s \in Store!Statuses, Store!Refuse(r, s) \/ Store!Acknowledge(r, s)
      PROVE  StoreStep
  BY <1>2 DEF StoreStep, Store!StoreNext
<1>3. Bar[r] = PhaseOf(pc[r])
  BY DEF Bar
<1>4. CASE Authorize(r)
  <2>1. CASE Authorized(token[r])
    <3>1. /\ pc' = [pc EXCEPT ![r] = "lock"]
          /\ PhaseOf(pc[r]) = PhaseOf("lock")
      BY <1>4, <2>1 DEF Authorize, PhaseOf
    <3>2. QED BY <1>1, <1>4, <2>1, <3>1, BarStutter DEF Authorize
  <2>2. CASE ~Authorized(token[r])
    <3>1. Bar[r] = "open" /\ Bar' = [Bar EXCEPT ![r] = "closed"]
      BY <1>3, <1>4, <2>2, BarStep DEF Authorize, PhaseOf
    <3>2. Store!Refuse(r, "401")
      BY <1>4, <2>2, <3>1 DEF Authorize, Store!Refuse, Bar
    <3>3. QED BY <1>2, <3>2 DEF Store!Statuses
  <2>3. QED BY <2>1, <2>2
<1>5. CASE Acquire(r)
  <2>1. PhaseOf(pc[r]) = PhaseOf("read") BY <1>5 DEF Acquire, PhaseOf
  <2>2. QED BY <1>1, <1>5, <2>1, BarStutter DEF Acquire
<1>6. CASE Reject(r)
  <2>1. Bar[r] = "open" /\ Bar' = [Bar EXCEPT ![r] = "closed"]
    BY <1>3, <1>6, BarStep DEF Reject, PhaseOf
  <2>2. ~Store!Valid(update[r])
    BY <1>6 DEF Reject, Valid, Store!Valid
  <2>3. Store!Refuse(r, "400")
    BY <1>6, <2>1, <2>2 DEF Reject, Store!Refuse, Bar
  <2>4. QED BY <1>2, <2>3 DEF Store!Statuses
<1>7. CASE ReadLines(r)
  <2>1. PhaseOf(pc[r]) = PhaseOf("replace") BY <1>7 DEF ReadLines, PhaseOf
  <2>2. QED BY <1>1, <1>7, <2>1, BarStutter DEF ReadLines
<1>8. CASE Replace(r)
  <2>1. Bar[r] = "open" /\ Bar' = [Bar EXCEPT ![r] = "committed"]
    BY <1>3, <1>8, BarStep DEF Replace, PhaseOf
  <2>2. Valid(update[r]) /\ file' = Merge(update[r], file)
    BY <1>8 DEF Replace, BufferInv
  <2>3. Store!Valid(update[r]) /\ file' = Store!Merge(update[r], file)
    BY <2>2 DEF Valid, Store!Valid, Merge, Store!Merge
  <2>4. Store!Commit(r)
    BY <1>8, <2>1, <2>3 DEF Replace, Store!Commit, Bar
  <2>5. QED BY <2>4 DEF StoreStep, Store!StoreNext
<1>9. CASE WriteFails(r)
  <2>1. Bar[r] = "open" /\ Bar' = [Bar EXCEPT ![r] = "closed"]
    BY <1>3, <1>9, BarStep DEF WriteFails, PhaseOf
  <2>2. PICK s \in FailureAnswers : Answer(r, s)
    BY <1>9 DEF WriteFails, FailureAnswers
  <2>3. Store!Refuse(r, s)
    BY <1>9, <2>1, <2>2 DEF WriteFails, Store!Refuse, Bar, FailureAnswers
  <2>4. QED BY <1>2, <2>2, <2>3 DEF Store!Statuses, FailureAnswers
<1>10. CASE StopProxy(r)
  <2>1. PhaseOf(pc[r]) = PhaseOf("start") BY <1>10 DEF StopProxy, PhaseOf
  <2>2. QED BY <1>1, <1>10, <2>1, BarStutter DEF StopProxy
<1>11. CASE StartProxy(r)
  <2>1. PhaseOf(pc[r]) = PhaseOf("report") BY <1>11 DEF StartProxy, PhaseOf
  <2>2. QED BY <1>1, <1>11, <2>1, BarStutter DEF StartProxy
<1>12. ASSUME NEW s \in {"400", "500", "ready", "not_ready"},
              pc[r] \in {"restart", "start", "report"}, Answer(r, s),
              UNCHANGED <<file, update>>
       PROVE  StoreStep
  <2>1. Bar[r] = "committed" /\ Bar' = [Bar EXCEPT ![r] = "closed"]
    BY <1>3, <1>12, BarStep DEF PhaseOf
  <2>2. Store!Acknowledge(r, s)
    BY <1>12, <2>1 DEF Store!Acknowledge, Bar
  <2>3. QED BY <1>2, <2>2 DEF Store!Statuses
<1>13. CASE RestartFails(r) BY <1>12, <1>13 DEF RestartFails
<1>14. CASE SeeReady(r) BY <1>12, <1>14 DEF SeeReady
<1>15. CASE ReportFails(r) BY <1>12, <1>15 DEF ReportFails, FailureAnswers
<1>16. CASE GiveUp(r) BY <1>12, <1>16 DEF GiveUp
<1>17. QED
  BY <1>4, <1>5, <1>6, <1>7, <1>8, <1>9, <1>10, <1>11, <1>13, <1>14, <1>15, <1>16 DEF Thread

LEMMA StepImplements == WriteInv /\ [Next]_vars => StoreStep
<1> SUFFICES ASSUME WriteInv, [Next]_vars PROVE StoreStep
  OBVIOUS
<1>1. TypeOK /\ LockInv /\ StatusInv /\ BufferInv
  BY DEF WriteInv
<1>2. ASSUME NEW r \in Requests, NEW u \in Updates, NEW t \in Values, Receive(r, u, t)
      PROVE  StoreStep
  <2>1. Bar[r] = "idle" /\ Bar' = [Bar EXCEPT ![r] = "open"]
    BY <1>1, <1>2, BarStep DEF Receive, Goto, Bar, PhaseOf, Stages
  <2>2. Store!Receive(r, u)
    BY <1>2, <2>1 DEF Receive, Store!Receive, Bar
  <2>3. QED BY <2>2 DEF StoreStep, Store!StoreNext
<1>3. ASSUME NEW r \in Requests, Thread(r) PROVE StoreStep
  BY <1>1, <1>3, ThreadImplements
<1>4. CASE UNCHANGED <<file, update, status, pc>>
  BY <1>4 DEF StoreStep, Store!storeVars
<1>5. CASE Proxy
  BY <1>4, <1>5 DEF Proxy, BootExports, BootRender, BootRoutes, BootListen, Boot
<1>6. CASE ProxyCrash BY <1>4, <1>6 DEF ProxyCrash
<1>7. CASE UNCHANGED vars BY <1>4, <1>7 DEF vars
<1>8. CASE PageCrash
  <2>1. pc \in [Requests -> Stages] BY <1>1 DEF TypeOK
  <2>2. \A r \in Requests : Idle(r) <=> PhaseOf(pc[r]) \in {"idle", "closed"}
    BY <2>1 DEF Idle, PhaseOf, Stages
  <2>3. \A r \in Requests : PhaseOf(pc[r]) \in {"idle", "open", "committed", "closed"}
    BY DEF PhaseOf
  <2>4. ASSUME NEW r \in Requests
        PROVE  PhaseOf(pc'[r]) = IF PhaseOf(pc[r]) = "idle" THEN "idle" ELSE "closed"
    BY <1>8, <2>1 DEF PageCrash, Idle, PhaseOf, Stages
  <2>5. Bar' = [r \in Requests |-> IF Bar[r] = "idle" THEN "idle" ELSE "closed"]
    BY <2>4 DEF Bar
  <2>6. status' = [r \in Requests |->
                     IF Bar[r] \in {"open", "committed"} THEN "lost" ELSE status[r]]
    BY <1>8, <2>2, <2>3 DEF PageCrash, Bar
  <2>7. Store!Abort
    BY <1>8, <2>5, <2>6 DEF PageCrash, Store!Abort, Bar
  <2>8. QED BY <2>7 DEF StoreStep, Store!StoreNext
<1>9. QED BY <1>2, <1>3, <1>5, <1>6, <1>7, <1>8 DEF Next

\* Refinement: whatever threads, proxy and crashes do, a client sees .env change
\* as EnvStore promises.
THEOREM Implementation == Spec => ImplementsStore
<1>1. Init => Store!StoreInit
  BY DEF Init, Store!StoreInit, PhaseOf, Vars, Store!Vars, NoUpdate, Store!NoUpdate
<1>2. QED
  BY <1>1, StepImplements, WriteInvariant, PTL
  DEF Spec, ImplementsStore, Store!StoreSpec, StoreStep

=============================================================================
