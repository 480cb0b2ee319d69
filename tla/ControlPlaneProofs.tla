-------------------------- MODULE ControlPlaneProofs --------------------------
(***************************************************************************)
(* The guards of the control plane, for every set of jobs, of runners and  *)
(* of requests.                                                            *)
(*                                                                         *)
(* The first part is about requests that interleave, with a daemon that    *)
(* may fail: nothing that runs is removed, and an outcome only for who     *)
(* acknowledges it. The second is about requests served one after the      *)
(* other: there the answers a request got from Docker still hold when it   *)
(* acts on them, and the guards exclude what they are meant to.            *)
(***************************************************************************)
EXTENDS MCControlPlane, SequenceTheorems, TLAPS

-----------------------------------------------------------------------------
(* A request, in both parts: R is the set of runners.                      *)

Statuses == {"absent", "created", "running", "exited"}

RequestRecords(R) ==
    [op : Ops \cup {"none"}, phase : {"idle", "list", "inspect", "remove", "run", "confirm"},
     todo : Seq(Kinds), listed : SUBSET R, blocked : BOOLEAN,
     victim : R \cup {NoRunner}, name : R \cup {NoRunner}]

\* A request that looks for runners has a kind to look for, lists runners of that kind only, and
\* removes one only for a stack action, which then is a stack runner, or for an acknowledgement.
RequestOK(R, q) ==
    /\ q \in RequestRecords(R)
    /\ q.phase \in {"list", "inspect"} => q.todo # <<>>
    /\ q.phase = "inspect" => \A n \in q.listed : n.kind = Head(q.todo)
    /\ q.phase \in {"list", "inspect"} /\ q.op = "stack" /\ q.victim = NoRunner =>
          q.todo \in {<<"upgrade", "stack">>, <<"stack">>}
    /\ q.victim # NoRunner => q.op = "clear" \/ (q.op = "stack" /\ q.victim.kind = "stack")
    /\ q.phase = "remove" => q.victim # NoRunner

Looks(q) == q.phase \in {"list", "inspect"}

\* The invariant of requests that interleave.
PlaneInv ==
    /\ status \in [Runners -> Statuses]
    /\ req \in [Requests -> RequestRecords(Runners)]
    /\ \A r \in Requests : RequestOK(Runners, req[r])

PlaneInvUnlessInTurn == ~inTurn => PlaneInv

\* The records a handler goes through.
LEMMA RequestMoves ==
    ASSUME NEW R, NoRunner \notin R, \A n \in R : n.kind \in Kinds, NEW q, RequestOK(R, q)
    PROVE  /\ \A phase \in {"run", "remove", "confirm"} :
                 (phase = "remove" => q.victim # NoRunner) =>
                    /\ RequestOK(R, [q EXCEPT !.phase = phase])
                    /\ RequestOK(R, [q EXCEPT !.phase = phase, !.todo = <<>>, !.listed = {}])
           /\ Looks(q) /\ Len(q.todo) > 1 => \A b \in BOOLEAN :
                 RequestOK(R, [q EXCEPT !.phase = "list", !.todo = Tail(@), !.listed = {}, !.blocked = b])
           /\ \A n \in R : (q.op = "clear" \/ (q.op = "stack" /\ n.kind = "stack")) =>
                 RequestOK(R, [q EXCEPT !.phase = "list", !.todo = <<n.kind>>, !.listed = {}, !.victim = n])
           /\ q.phase = "list" => \A ids \in SUBSET R : (\A n \in ids : n.kind = Head(q.todo)) =>
                 RequestOK(R, [q EXCEPT !.phase = "inspect", !.listed = ids])
           /\ RequestOK(R, [q EXCEPT !.phase = "run", !.victim = NoRunner])
<1> USE DEF RequestOK, RequestRecords, Looks
<1>1. ASSUME NEW phase \in {"run", "remove", "confirm"}, phase = "remove" => q.victim # NoRunner
      PROVE  /\ RequestOK(R, [q EXCEPT !.phase = phase])
             /\ RequestOK(R, [q EXCEPT !.phase = phase, !.todo = <<>>, !.listed = {}])
  <2> DEFINE p == [q EXCEPT !.phase = phase, !.todo = <<>>, !.listed = {}]
  <2>1. <<>> \in Seq(Kinds) /\ {} \in SUBSET R
    OBVIOUS
  <2>2. p \in RequestRecords(R)
    BY <2>1
  <2>3. p.phase = phase /\ p.op = q.op /\ p.victim = q.victim
    OBVIOUS
  <2>4. RequestOK(R, p)
    <3> HIDE DEF p
    <3>1. QED
      BY <1>1, <2>2, <2>3
  <2>5. RequestOK(R, [q EXCEPT !.phase = phase])
    BY <1>1
  <2>6. QED
    BY <2>4, <2>5
<1>2. ASSUME Looks(q), Len(q.todo) > 1, NEW b \in BOOLEAN
      PROVE  RequestOK(R, [q EXCEPT !.phase = "list", !.todo = Tail(@), !.listed = {}, !.blocked = b])
  <2> DEFINE p == [q EXCEPT !.phase = "list", !.todo = Tail(@), !.listed = {}, !.blocked = b]
  <2>1. Tail(q.todo) \in Seq(Kinds) /\ Tail(q.todo) # <<>> /\ {} \in SUBSET R
    <3>1. Len(Tail(q.todo)) = Len(q.todo) - 1 /\ Len(q.todo) \in Nat /\ Len(<<>>) = 0
      BY <1>2
    <3>2. Tail(q.todo) # <<>>
      <4>1. Len(Tail(q.todo)) # 0
        <5>1. Len(q.todo) > 1
          BY <1>2
        <5>2. \A k \in Nat : k > 1 => k - 1 # 0
          OBVIOUS
        <5>3. QED
          BY <3>1, <5>1, <5>2, Zenon
      <4>2. QED
        BY <3>1, <4>1, Zenon
    <3>3. Tail(q.todo) \in Seq(Kinds)
      BY <1>2
    <3>4. QED
      BY <3>2, <3>3
  <2>2. p \in RequestRecords(R)
    BY <2>1
  <2>3. p.phase = "list" /\ p.op = q.op /\ p.victim = q.victim /\ p.todo = Tail(q.todo)
    OBVIOUS
  <2>4. Tail(<<"upgrade", "stack">>) = <<"stack">> /\ Len(<<"stack">>) = 1
    OBVIOUS
  <2>5. q.op = "stack" /\ q.victim = NoRunner => Tail(q.todo) = <<"stack">>
    <3>1. SUFFICES ASSUME q.op = "stack", q.victim = NoRunner PROVE Tail(q.todo) = <<"stack">>
      OBVIOUS
    <3>2. q.todo \in {<<"upgrade", "stack">>, <<"stack">>}
      BY <1>2, <3>1
    <3>3. q.todo = <<"upgrade", "stack">>
      BY ONLY <1>2, <2>4, <3>2
    <3>4. QED
      BY <2>4, <3>3, Zenon
  <2> HIDE DEF p
  <2>6. QED
    BY <1>2, <2>1, <2>2, <2>3, <2>5
<1>3. ASSUME NEW n \in R, q.op = "clear" \/ (q.op = "stack" /\ n.kind = "stack")
      PROVE  RequestOK(R, [q EXCEPT !.phase = "list", !.todo = <<n.kind>>, !.listed = {}, !.victim = n])
  <2> DEFINE p == [q EXCEPT !.phase = "list", !.todo = <<n.kind>>, !.listed = {}, !.victim = n]
  <2>1. <<n.kind>> \in Seq(Kinds) /\ <<n.kind>> # <<>> /\ {} \in SUBSET R /\ n # NoRunner
    BY <1>3
  <2>2. p \in RequestRecords(R)
    BY <2>1
  <2>3. p.phase = "list" /\ p.op = q.op /\ p.victim = n /\ p.todo = <<n.kind>>
    OBVIOUS
  <2> HIDE DEF p
  <2>4. QED
    BY <1>3, <2>1, <2>2, <2>3
<1>4. ASSUME q.phase = "list", NEW ids \in SUBSET R, \A n \in ids : n.kind = Head(q.todo)
      PROVE  RequestOK(R, [q EXCEPT !.phase = "inspect", !.listed = ids])
  BY <1>4
<1>5. RequestOK(R, [q EXCEPT !.phase = "run", !.victim = NoRunner])
  OBVIOUS
<1>6. QED
  BY <1>1, <1>2, <1>3, <1>4, <1>5

LEMMA RequestStarts ==
    ASSUME NEW R
    PROVE  /\ RequestOK(R, NoRequest)
           /\ \A op \in Ops, todo \in Seq(Kinds) \ {<<>>}, name \in R \cup {NoRunner} :
                 (op = "stack" => todo = <<"upgrade", "stack">>) =>
                    RequestOK(R, [NoRequest EXCEPT !.op = op, !.phase = "list", !.todo = todo,
                                                   !.name = name])
<1> USE DEF RequestOK, RequestRecords
<1>1. NoRequest \in RequestRecords(R) /\ NoRequest.phase = "idle" /\ NoRequest.victim = NoRunner
      /\ NoRequest.listed = {}
  BY DEF NoRequest
<1>2. ASSUME NEW op \in Ops, NEW todo \in Seq(Kinds) \ {<<>>}, NEW name \in R \cup {NoRunner},
             op = "stack" => todo = <<"upgrade", "stack">>
      PROVE  RequestOK(R, [NoRequest EXCEPT !.op = op, !.phase = "list", !.todo = todo, !.name = name])
  BY <1>1, <1>2
<1>3. QED
  BY <1>1, <1>2

-----------------------------------------------------------------------------
(* Requests that interleave.                                               *)

\* A step of one request.
LEMMA PlaneStep ==
    ASSUME PlaneInv, NEW r \in Requests, NEW q, req' = [req EXCEPT ![r] = q], RequestOK(Runners, q),
           status' \in [Runners -> Statuses]
    PROVE  PlaneInv'
BY DEF PlaneInv, RequestOK

LEMMA ArriveKeeps ==
    ASSUME PlaneInv, NEW r \in Requests, NEW op \in Ops, NEW todo \in Seq(Kinds) \ {<<>>},
           NEW name \in Runners \cup {NoRunner}, op = "stack" => todo = <<"upgrade", "stack">>,
           Arrive(r, op, todo, name)
    PROVE  PlaneInv'
<1>1. RequestOK(Runners, [NoRequest EXCEPT !.op = op, !.phase = "list", !.todo = todo, !.name = name])
  BY RequestStarts
<1>2. QED
  BY <1>1, PlaneStep DEF Arrive, PlaneInv

\* What the handlers do when they have an answer, or none.
LEMMA FinishKeeps ==
    ASSUME PlaneInv, NEW r \in Requests, Finish(r), status' \in [Runners -> Statuses]
    PROVE  PlaneInv'
BY RequestStarts, PlaneStep DEF Finish

LEMMA AnswerKeeps ==
    ASSUME PlaneInv, NEW r \in Requests, NEW found, Looks(req[r]),
           found = NoRunner \/ (found \in Runners /\ found.kind = Head(req[r].todo)),
           Answer(r, found)
    PROVE  PlaneInv'
<1> DEFINE q == req[r]
<1>1. /\ RequestOK(Runners, q) /\ q.todo \in Seq(Kinds) /\ q.todo # <<>>
      /\ q \in RequestRecords(Runners) /\ status \in [Runners -> Statuses]
      /\ req \in [Requests -> RequestRecords(Runners)]
  BY DEF PlaneInv, RequestOK, RequestRecords, Looks
<1> DEFINE blocked == q.blocked \/ (q.op = "backup" /\ found # NoRunner /\ IsRunning(found))
<1>2. CASE status' = status /\ Finish(r)
  BY <1>1, <1>2, FinishKeeps
<1>3. CASE /\ Len(q.todo) > 1 /\ Keep
           /\ req' = [req EXCEPT ![r].phase = "list", ![r].todo = Tail(@), ![r].listed = {},
                                 ![r].blocked = blocked]
  <2>1. blocked \in BOOLEAN
    BY <1>1 DEF RequestRecords
  <2>2. RequestOK(Runners, [q EXCEPT !.phase = "list", !.todo = Tail(@), !.listed = {}, !.blocked = blocked])
    BY <1>1, <1>3, <2>1, RequestMoves, RunnersAssumption
  <2>3. req' = [req EXCEPT ![r] =
                   [q EXCEPT !.phase = "list", !.todo = Tail(@), !.listed = {}, !.blocked = blocked]]
    BY <1>1, <1>3
  <2>4. QED
    BY <1>1, <1>3, <2>2, <2>3, PlaneStep DEF Keep
<1>4. CASE Decide(r, found, blocked) /\ Len(q.todo) = 1
  <2>1. CASE q.op \in Guarded /\ EnqueueGuarded(r, blocked)
    BY <1>1, <2>1, <1>2 DEF EnqueueGuarded
  <2>2. CASE Refuse(r)
    BY <1>2, <2>2 DEF Refuse, Keep
  <2>3. ASSUME NEW phase \in {"run", "remove"}, phase = "remove" => q.victim # NoRunner,
               Go(r, phase, <<>>)
        PROVE  PlaneInv'
    <3>1. RequestOK(Runners, [q EXCEPT !.phase = phase, !.todo = <<>>, !.listed = {}])
      BY <1>1, <2>3, RequestMoves, RunnersAssumption
    <3>2. req' = [req EXCEPT ![r] = [q EXCEPT !.phase = phase, !.todo = <<>>, !.listed = {}]]
      BY <1>1, <2>3 DEF Go
    <3>3. QED
      BY <1>1, <2>3, <3>1, <3>2, PlaneStep DEF Go, Keep
  <2>4. CASE q.op \in {"stack", "clear"} /\ q.victim = NoRunner /\ found # NoRunner /\ Clear(r, found)
    <3>1. q.op = "stack" => found.kind = "stack"
      <4>1. Len(<<"upgrade", "stack">>) = 2 /\ Head(<<"stack">>) = "stack"
      OBVIOUS
    <4>2. q.op = "stack" => q.todo \in {<<"upgrade", "stack">>, <<"stack">>}
      BY <1>1, <2>4 DEF RequestOK, Looks
    <4>3. q.op = "stack" => q.todo = <<"stack">>
      <5> HIDE DEF q
      <5>1. QED
        BY <1>4, <4>1, <4>2
    <4>4. QED
      BY <2>4, <4>1, <4>3
    <3>2. RequestOK(Runners, [q EXCEPT !.phase = "list", !.todo = <<found.kind>>, !.listed = {}, !.victim = found])
      BY <1>1, <2>4, <3>1, RequestMoves, RunnersAssumption
    <3>3. req' = [req EXCEPT ![r] =
                     [q EXCEPT !.phase = "list", !.todo = <<found.kind>>, !.listed = {}, !.victim = found]]
      BY <1>1, <2>4 DEF Clear
    <3>4. QED
      BY <1>1, <2>4, <3>2, <3>3, PlaneStep DEF Clear, Keep
  <2>5. QED
    BY <1>4, <2>1, <2>2, <2>3, <2>4 DEF Decide
<1>5. Len(q.todo) > 1 \/ Len(q.todo) = 1
  <2>1. Len(q.todo) \in Nat \ {0}
    BY <1>1, EmptySeq
  <2>2. \A k \in Nat \ {0} : k > 1 \/ k = 1
    OBVIOUS
  <2>3. QED
    BY <2>1, <2>2, Zenon
<1>6. QED
  BY <1>2, <1>3, <1>4, <1>5 DEF Answer, Refuse, Keep

LEMMA AnswerFailedKeeps ==
    ASSUME PlaneInv, NEW r \in Requests, AnswerFailed(r)
    PROVE  PlaneInv'
BY FinishKeeps DEF AnswerFailed, EnqueueGuarded, Refuse, Keep, PlaneInv

\* A step changes no container, starts one, or removes one that has ended.
StatusStep ==
    \/ UNCHANGED status
    \/ \E n \in Runners, s \in Statuses \ {"absent"} : status' = [status EXCEPT ![n] = s]
    \/ \E r \in Requests :
          /\ req[r].phase = "remove"
          /\ status[req[r].victim] = "exited"
          /\ status' = [status EXCEPT ![req[r].victim] = "absent"]

LEMMA StatusNext == PlaneInv /\ [Next]_vars => StatusStep
<1> SUFFICES ASSUME PlaneInv, [Next]_vars PROVE StatusStep
  OBVIOUS
<1> USE DEF StatusStep, Statuses
<1>1. ASSUME NEW r \in Requests, NEW found, Answer(r, found) PROVE UNCHANGED status
  BY <1>1 DEF Answer, Decide, Refuse, Keep, Go, Clear, EnqueueGuarded
<1>2. ASSUME NEW r \in Requests, AnswerFailed(r) PROVE UNCHANGED status
  BY <1>2 DEF AnswerFailed, Refuse, Keep, EnqueueGuarded
<1>3. ASSUME NEW r \in Requests, List(r) \/ Inspect(r) \/ FindFails(r) PROVE UNCHANGED status
  BY <1>1, <1>2, <1>3 DEF List, Inspect, FindFails, Keep
<1>4. ASSUME NEW r \in Requests, RemoveRunner(r) PROVE StatusStep
  BY <1>4 DEF RemoveRunner
<1>5. ASSUME NEW r \in Requests, Run(r) \/ RunFails(r) PROVE StatusStep
  <2>1. \/ status' = status
        \/ \E s \in Statuses \ {"absent"} : status' = [status EXCEPT ![req[r].name] = s]
    BY <1>5 DEF Run, RunFails
  <2>2. ASSUME NEW n, n \notin Runners, NEW s PROVE [status EXCEPT ![n] = s] = status
    BY <2>2 DEF PlaneInv
  <2>3. QED
    BY <2>1, <2>2
<1>6. QED
  BY <1>3, <1>4, <1>5 DEF Next, vars, CreateBackup, DeleteRestorePoints, StartScopedRestore, RequireNoRunner,
     ConfigRequest, StackRequest, RestoreRequest, UpgradeRequest, ClearRequest, Arrive, FreeRequest,
     CheckUpgrade, Confirm, JobBegins, JobEnds, RunnerExits, ManagerDies, ManagerStarts

LEMMA StatusType ==
    ASSUME PlaneInv, [Next]_vars
    PROVE  status' \in [Runners -> Statuses]
BY StatusNext DEF StatusStep, PlaneInv, Statuses

LEMMA PlaneInvInit == Init => PlaneInv
<1>1. RequestOK(Runners, NoRequest) /\ NoRequest \in RequestRecords(Runners)
  BY RequestStarts DEF RequestOK
<1>2. QED
  BY <1>1 DEF Init, PlaneInv, Statuses

LEMMA PlaneInvNext == PlaneInv /\ [Next]_vars => PlaneInv'
<1> SUFFICES ASSUME PlaneInv, [Next]_vars PROVE PlaneInv'
  OBVIOUS
<1>1. /\ status' \in [Runners -> Statuses] /\ req \in [Requests -> RequestRecords(Runners)]
      /\ \A r \in Requests : RequestOK(Runners, req[r])
  BY StatusType DEF PlaneInv
<1>2. ASSUME UNCHANGED req PROVE PlaneInv'
  BY <1>1, <1>2 DEF PlaneInv
<1>3. ASSUME NEW r \in Requests,
             CreateBackup(r) \/ DeleteRestorePoints(r) \/ StartScopedRestore(r) \/ ConfigRequest(r)
      PROVE  PlaneInv'
  <2>1. /\ <<"restore", "upgrade">> \in Seq(Kinds) \ {<<>>}
        /\ <<"restore", "upgrade", "stack">> \in Seq(Kinds) \ {<<>>}
        /\ {"backup", "config"} \subseteq Ops \ {"stack"}
    BY DEF Kinds, Ops, Guarded
  <2>2. QED
    BY <1>3, <2>1, ArriveKeeps DEF CreateBackup, DeleteRestorePoints, StartScopedRestore, RequireNoRunner,
       ConfigRequest
<1>4. ASSUME NEW r \in Requests, NEW n \in Runners, StackRequest(r, n) \/ RestoreRequest(r, n) \/ UpgradeRequest(r, n)
      PROVE  PlaneInv'
  <2>1. /\ <<"upgrade", "stack">> \in Seq(Kinds) \ {<<>>} /\ <<"restore", "upgrade">> \in Seq(Kinds) \ {<<>>}
        /\ <<"upgrade", "restore", "stack">> \in Seq(Kinds) \ {<<>>}
        /\ {"stack", "restore", "upgrade"} \subseteq Ops
    BY DEF Kinds, Ops
  <2>2. QED
    BY <1>4, <2>1, ArriveKeeps DEF StackRequest, RestoreRequest, UpgradeRequest
<1>5. ASSUME NEW r \in Requests, NEW kind \in Kinds, ClearRequest(r, kind) PROVE PlaneInv'
  <2>1. <<kind>> \in Seq(Kinds) \ {<<>>} /\ "clear" \in Ops
    BY DEF Ops
  <2>2. QED
    BY <1>5, <2>1, ArriveKeeps DEF ClearRequest
<1>6. ASSUME NEW r \in Requests, List(r) PROVE PlaneInv'
  <2> DEFINE ids == {n \in Runners : n.kind = Head(req[r].todo) /\ Exists(n)}
  <2>1. CASE ids = {} /\ Answer(r, NoRunner)
    BY <1>6, <2>1, AnswerKeeps DEF List, Looks
  <2>2. CASE req' = [req EXCEPT ![r].phase = "inspect", ![r].listed = ids]
    <3>1. req' = [req EXCEPT ![r] = [req[r] EXCEPT !.phase = "inspect", !.listed = ids]]
      BY <1>1, <2>2
    <3>2. req[r].phase = "list"
      BY <1>6 DEF List
    <3>3. RequestOK(Runners, [req[r] EXCEPT !.phase = "inspect", !.listed = ids])
      BY <1>1, <3>2, RequestMoves, RunnersAssumption
    <3>4. QED
      BY <1>1, <3>1, <3>3, PlaneStep
  <2>3. QED
    BY <1>6, <2>1, <2>2 DEF List
<1>7. ASSUME NEW r \in Requests, Inspect(r) PROVE PlaneInv'
  <2>1. CASE AnswerFailed(r)
    BY <2>1, AnswerFailedKeeps
  <2>2. ASSUME NEW n \in req[r].listed, Answer(r, n), req[r].phase = "inspect" PROVE PlaneInv'
    <3>1. n \in Runners /\ n.kind = Head(req[r].todo) /\ Looks(req[r])
      BY <1>1, <2>2 DEF RequestOK, RequestRecords, Looks
    <3>2. QED
      BY <2>2, <3>1, AnswerKeeps
  <2>3. QED
    BY <1>7, <2>1, <2>2 DEF Inspect
<1>8. ASSUME NEW r \in Requests, FindFails(r) PROVE PlaneInv'
  BY <1>8, AnswerFailedKeeps DEF FindFails
<1>9. ASSUME NEW r \in Requests, RemoveRunner(r) PROVE PlaneInv'
  <2>1. CASE Finish(r)
    BY <1>1, <2>1, FinishKeeps
  <2>2. CASE req' = [req EXCEPT ![r].phase = "run", ![r].victim = NoRunner]
    <3>1. req' = [req EXCEPT ![r] = [req[r] EXCEPT !.phase = "run", !.victim = NoRunner]]
      BY <1>1, <2>2
    <3>2. RequestOK(Runners, [req[r] EXCEPT !.phase = "run", !.victim = NoRunner])
      BY <1>1, RequestMoves, RunnersAssumption
    <3>3. QED
      BY <1>1, <3>1, <3>2, PlaneStep
  <2>3. QED
    BY <1>9, <2>1, <2>2 DEF RemoveRunner
<1>10. ASSUME NEW r \in Requests, Run(r) \/ RunFails(r) PROVE PlaneInv'
  <2>1. CASE Finish(r)
    BY <1>1, <2>1, FinishKeeps
  <2>2. CASE req' = [req EXCEPT ![r].phase = "confirm"]
    <3>1. req' = [req EXCEPT ![r] = [req[r] EXCEPT !.phase = "confirm"]]
      BY <1>1, <2>2
    <3>2. RequestOK(Runners, [req[r] EXCEPT !.phase = "confirm"])
      BY <1>1, RequestMoves, RunnersAssumption
    <3>3. QED
      BY <1>1, <3>1, <3>2, PlaneStep
  <2>3. QED
    BY <1>10, <2>1, <2>2 DEF Run, RunFails
<1>11. ASSUME NEW r \in Requests, Confirm(r) PROVE PlaneInv'
  BY <1>1, <1>11, FinishKeeps DEF Confirm
<1>12. CASE ManagerDies
  BY <1>1, <1>12, RequestStarts DEF ManagerDies, PlaneInv, RequestOK
<1>13. ASSUME NEW r \in Requests, (\E j \in Jobs : FreeRequest(r, j)) \/ \E n \in Runners : CheckUpgrade(r, n)
       PROVE  PlaneInv'
  BY <1>2, <1>13 DEF FreeRequest, CheckUpgrade
<1>14. CASE (\E n \in Runners : RunnerExits(n)) \/ JobBegins \/ JobEnds \/ ManagerStarts \/ UNCHANGED vars
  BY <1>2, <1>14 DEF RunnerExits, JobBegins, JobEnds, ManagerStarts, vars
<1>15. QED
  BY <1>3, <1>4, <1>5, <1>6, <1>7, <1>8, <1>9, <1>10, <1>11, <1>12, <1>13, <1>14 DEF Next

LEMMA PlaneInvAlways == Spec => []PlaneInv
BY PlaneInvInit, PlaneInvNext, PTL DEF Spec

\* Whatever the requests do to each other between two questions, and whatever the daemon fails to do,
\* no request removes a container that runs (clear_runner and docker rm without --force).
THEOREM RunningIsNeverRemovedAlways == Spec => RunningIsNeverRemoved
<1>1. PlaneInv /\ [Next]_vars =>
         [\A n \in Runners : status[n] = "running" => status'[n] # "absent"]_vars
  BY StatusNext DEF StatusStep, PlaneInv, Statuses
<1>2. QED
  BY <1>1, PlaneInvAlways, PTL DEF Spec, RunningIsNeverRemoved

\* The outcome of an upgrade or of a restore goes only to who acknowledges it (clear_restore,
\* clear_upgrade_runner; stack_action clears its own kind).
THEOREM OutcomeNeedsAcknowledgementAlways == Spec => OutcomeNeedsAcknowledgement
<1>1. PlaneInv /\ [Next]_vars =>
         [\A n \in Runners : status[n] = "exited" /\ status'[n] = "absent" /\ n.kind # "stack" =>
             \E r \in DOMAIN req : req[r].op = "clear" /\ req[r].victim = n]_vars
  <2> SUFFICES ASSUME PlaneInv, [Next]_vars, NEW n \in Runners,
                      status[n] = "exited", status'[n] = "absent", n.kind # "stack"
               PROVE  \E r \in DOMAIN req : req[r].op = "clear" /\ req[r].victim = n
    OBVIOUS
  <2>1. PICK r \in Requests : /\ req[r].phase = "remove"
                              /\ status' = [status EXCEPT ![req[r].victim] = "absent"]
    BY StatusNext DEF StatusStep, PlaneInv, Statuses
  <2>2. req[r].victim = n
    BY <2>1 DEF PlaneInv
  <2>3. req[r].op = "clear" /\ r \in DOMAIN req
    BY <2>1, <2>2, RunnersAssumption DEF PlaneInv, RequestOK
  <2>4. QED
    BY <2>2, <2>3
<1>2. QED
  BY <1>1, PlaneInvAlways, PTL DEF Spec, OutcomeNeedsAcknowledgement

-----------------------------------------------------------------------------
(* Served in turn.                                                         *)

\* What a handler looks for before it starts something.
LooksFor(op) ==
    CASE op \in {"backup", "restore"} -> {"restore", "upgrade"}
      [] op \in {"config", "upgrade"} -> Kinds
      [] op = "stack" -> {"upgrade", "stack"}
      [] OTHER -> {}

\* The kinds it has still to ask for.
Unasked(q) == IF Looks(q) /\ q.victim = NoRunner THEN {q.todo[i] : i \in DOMAIN q.todo} ELSE {}

Acts(q) == q.phase \in {"list", "inspect", "remove", "run"}

\* What the request has been told still holds.
Answered(q) ==
    /\ Acts(q) /\ q.op \notin {"none", "clear"} /\ ~q.blocked =>
          \A n \in TurnRunners : n.kind \in LooksFor(q.op) \ Unasked(q) => ~InTurn!IsRunning(n)
    /\ Acts(q) /\ q.op \in {"restore", "upgrade"} /\ q.op \notin Unasked(q) =>
          \A n \in TurnRunners : n.kind = q.op => ~InTurn!Exists(n)
    /\ q.phase = "inspect" =>
          q.listed # {} /\ q.listed = {n \in TurnRunners : n.kind = Head(q.todo) /\ InTurn!Exists(n)}
    /\ q.blocked => q.op = "backup"

\* A handler that starts a container starts it with nothing in the queue.
QueueAsked(q) ==
    /\ q.phase = "run" => q.op \in {"restore", "stack", "upgrade"} /\ q.name \in TurnRunners
    /\ Acts(q) /\ q.op \in {"restore", "stack", "upgrade"} => q.name.kind = q.op /\ q.name \in TurnRunners
    /\ Acts(q) /\ q.op = "stack" => pending = <<>>
    /\ q.phase = "run" => pending = <<>>

TurnInv ==
    /\ pending \in Seq(TurnJobs)
    /\ jobOp \in [TurnJobs -> JobOps]
    /\ busy => pending # <<>>
    /\ status \in [TurnRunners -> Statuses]
    /\ req \in [TurnRequests -> RequestRecords(TurnRunners)]
    /\ \A r \in TurnRequests :
          RequestOK(TurnRunners, req[r]) /\ Answered(req[r]) /\ QueueAsked(req[r])
    /\ InTurn!UpgradeRunsAlone /\ InTurn!GuardedJobsRunAlone /\ InTurn!UnreadOutcomeBlocks

LEMMA SameWords ==
    /\ InTurn!Kinds = Kinds /\ InTurn!Guarded = Guarded /\ InTurn!Ops = Ops /\ InTurn!JobOps = JobOps
    /\ InTurn!NoRequest = NoRequest
BY DEF InTurn!Kinds, Kinds, InTurn!Guarded, Guarded, InTurn!Ops, Ops, InTurn!JobOps, JobOps,
       InTurn!NoRequest, NoRequest

\* Queue and containers stay as they are, and the request moves on.
LEMMA TurnStep ==
    ASSUME TurnInv, NEW r \in TurnRequests, TurnRequests = {r}, NEW q, req' = [req EXCEPT ![r] = q],
           RequestOK(TurnRunners, q), Answered(q), QueueAsked(q),
           UNCHANGED <<pending, busy, jobOp, status>>
    PROVE  TurnInv'
<1>1. req' \in [TurnRequests -> RequestRecords(TurnRunners)] /\ req'[r] = q
  BY DEF TurnInv, RequestOK
<1>2. Answered(q)' /\ QueueAsked(q)'
  BY DEF Answered, QueueAsked, InTurn!IsRunning, InTurn!Exists
<1>3. (InTurn!UpgradeRunsAlone /\ InTurn!GuardedJobsRunAlone /\ InTurn!UnreadOutcomeBlocks)'
  BY DEF TurnInv, InTurn!UpgradeRunsAlone, InTurn!GuardedJobsRunAlone, InTurn!UnreadOutcomeBlocks,
         InTurn!RunningOf, InTurn!IsRunning, InTurn!Exists
<1>4. (RequestOK(TurnRunners, req[r]) /\ Answered(req[r]) /\ QueueAsked(req[r]))'
  BY <1>1, <1>2
<1>5. QED
  BY <1>1, <1>3, <1>4 DEF TurnInv

LEMMA NoRequestOK == RequestOK(TurnRunners, NoRequest) /\ Answered(NoRequest) /\ QueueAsked(NoRequest)
BY RequestStarts DEF Answered, QueueAsked, Acts, NoRequest

LEMMA TurnFinish ==
    ASSUME TurnInv, NEW r \in TurnRequests, TurnRequests = {r}, InTurn!Finish(r),
           UNCHANGED <<pending, busy, jobOp, status>>
    PROVE  TurnInv'
BY TurnStep, NoRequestOK, SameWords DEF InTurn!Finish

\* A job is accepted. A guarded one only when the runners it must not meet do not run.
LEMMA TurnSubmit ==
    ASSUME TurnInv, NEW r \in TurnRequests, TurnRequests = {r},
           req' = [req EXCEPT ![r] = NoRequest] \/ (req' = req /\ req[r].phase = "idle"),
           UNCHANGED status, NEW j \in TurnJobs, InTurn!Submit(j),
           NEW op \in JobOps, jobOp' = [jobOp EXCEPT ![j] = op],
           op \in Guarded => \A n \in TurnRunners : n.kind \in {"restore", "upgrade"} => ~InTurn!IsRunning(n),
           op = "config" => \A n \in TurnRunners : n.kind = "stack" => ~InTurn!IsRunning(n)
    PROVE  TurnInv'
<1>1. /\ pending' = Append(pending, j) /\ UNCHANGED busy /\ pending \in Seq(TurnJobs)
      /\ \A i \in DOMAIN pending : pending[i] # j
  BY DEF InTurn!Submit, TurnInv
<1>2. /\ pending' \in Seq(TurnJobs) /\ pending' # <<>>
      /\ \A i \in DOMAIN pending' : (i \in DOMAIN pending /\ pending'[i] = pending[i] /\ pending[i] # j) \/ pending'[i] = j
  BY <1>1
<1>3. jobOp' \in [TurnJobs -> JobOps]
  BY DEF TurnInv
<1>4. InTurn!GuardedJobsRunAlone'
  <2>1. \A i \in DOMAIN pending' : pending'[i] \in TurnJobs
    BY <1>2
  <2>2. ASSUME NEW i \in DOMAIN pending', pending'[i] = j
        PROVE  /\ jobOp'[pending'[i]] \in Guarded =>
                     InTurn!RunningOf("restore")' \cup InTurn!RunningOf("upgrade")' = {}
               /\ jobOp'[pending'[i]] = "config" => InTurn!RunningOf("stack")' = {}
    BY <2>2 DEF TurnInv, InTurn!RunningOf, InTurn!IsRunning
  <2>3. ASSUME NEW i \in DOMAIN pending, pending'[i] = pending[i], pending[i] # j
        PROVE  /\ jobOp'[pending'[i]] \in Guarded =>
                     InTurn!RunningOf("restore")' \cup InTurn!RunningOf("upgrade")' = {}
               /\ jobOp'[pending'[i]] = "config" => InTurn!RunningOf("stack")' = {}
    <3>1. jobOp'[pending'[i]] = jobOp[pending[i]]
      BY <1>1, <2>3 DEF TurnInv
    <3>2. QED
      BY <2>3, <3>1, SameWords DEF TurnInv, InTurn!GuardedJobsRunAlone, InTurn!RunningOf, InTurn!IsRunning
  <2>4. QED
    BY <1>2, <2>2, <2>3, SameWords DEF InTurn!GuardedJobsRunAlone
<1>5. (InTurn!UpgradeRunsAlone /\ InTurn!UnreadOutcomeBlocks)'
  BY DEF TurnInv, InTurn!UpgradeRunsAlone, InTurn!UnreadOutcomeBlocks, InTurn!IsRunning, InTurn!Exists
<1>6. /\ req' \in [TurnRequests -> RequestRecords(TurnRunners)]
      /\ (RequestOK(TurnRunners, req[r]) /\ Answered(req[r]) /\ QueueAsked(req[r]))'
  <2>1. /\ req'[r] = NoRequest \/ (req'[r] = req[r] /\ req[r].phase = "idle")
        /\ req' \in [TurnRequests -> RequestRecords(TurnRunners)]
    BY NoRequestOK DEF TurnInv, RequestOK
  <2>2. /\ RequestOK(TurnRunners, req'[r]) /\ req'[r].phase = "idle"
        /\ req'[r].blocked => req'[r].op = "backup"
    <3>1. NoRequest.phase = "idle" /\ NoRequest.blocked = FALSE
      BY DEF NoRequest
    <3>2. RequestOK(TurnRunners, req[r]) /\ (req[r].blocked => req[r].op = "backup")
      BY DEF TurnInv, Answered
    <3>3. QED
      BY <2>1, <3>1, <3>2, NoRequestOK
  <2>3. QED
    BY <2>1, <2>2 DEF Answered, QueueAsked, Acts
<1>7. QED
  BY <1>1, <1>2, <1>3, <1>4, <1>5, <1>6 DEF TurnInv

\* What docker said about the kind at the head of todo.
Reported(q, found) ==
    \/ found = NoRunner /\ \A n \in TurnRunners : n.kind = Head(q.todo) => ~InTurn!Exists(n)
    \/ /\ found \in TurnRunners /\ found.kind = Head(q.todo)
       /\ ~InTurn!IsRunning(found) =>
             \A n \in TurnRunners : n.kind = Head(q.todo) => ~InTurn!IsRunning(n)

\* What a handler that does not refuse then knows of that kind.
LEMMA NotRefused ==
    ASSUME NEW q, NEW found, Reported(q, found), q.op \in Ops \cup {"none"}, q.op \notin {"none", "clear"},
           q.op = "backup" \/ ~InTurn!Refuses(q.op, Head(q.todo), found)
    PROVE  /\ (q.op # "backup" \/ found = NoRunner \/ ~InTurn!IsRunning(found)) =>
                 \A n \in TurnRunners : n.kind = Head(q.todo) => ~InTurn!IsRunning(n)
           /\ q.op \in {"restore", "upgrade"} /\ q.op = Head(q.todo) =>
                 \A n \in TurnRunners : n.kind = q.op => ~InTurn!Exists(n)
BY TurnRunnersAssumption DEF Reported, InTurn!Refuses, InTurn!IsRunning, InTurn!Exists

\* The kinds of a list are its head and those of its tail.
LEMMA HeadOrTail ==
    ASSUME NEW S, NEW s \in Seq(S), s # <<>>
    PROVE  /\ {s[i] : i \in DOMAIN s} \subseteq {Head(s)} \cup {Tail(s)[i] : i \in DOMAIN Tail(s)}
           /\ Len(s) = 1 => {s[i] : i \in DOMAIN s} = {Head(s)}
<1>1. Len(s) \in Nat \ {0} /\ DOMAIN s = 1 .. Len(s) /\ Head(s) = s[1]
  BY EmptySeq
<1>2. ASSUME NEW i \in DOMAIN s, i # 1 PROVE i - 1 \in DOMAIN Tail(s) /\ s[i] = Tail(s)[i - 1]
  <2>1. DOMAIN Tail(s) = 1 .. (Len(s) - 1) /\ i - 1 \in 1 .. (Len(s) - 1)
    BY <1>1, <1>2
  <2>2. QED
    BY <1>1, <1>2, <2>1
<1>3. Len(s) = 1 => \A i \in DOMAIN s : i = 1
  BY <1>1
<1>4. 1 \in DOMAIN s
  BY <1>1
<1>5. QED
  BY <1>1, <1>2, <1>3, <1>4

LEMMA TurnAnswer ==
    ASSUME TurnInv, NEW r \in TurnRequests, TurnRequests = {r}, NEW found, Looks(req[r]),
           Reported(req[r], found), InTurn!Answer(r, found)
    PROVE  TurnInv'
<1> DEFINE q == req[r]
           blocked == q.blocked \/ (q.op = "backup" /\ found # NoRunner /\ InTurn!IsRunning(found))
<1>1. /\ q \in RequestRecords(TurnRunners) /\ RequestOK(TurnRunners, q) /\ Answered(q) /\ QueueAsked(q)
      /\ q.todo \in Seq(Kinds) /\ q.todo # <<>> /\ Acts(q)
      /\ req \in [TurnRequests -> RequestRecords(TurnRunners)]
      /\ q.op \in Ops \cup {"none"} /\ q.blocked \in BOOLEAN /\ Reported(q, found)
  BY DEF TurnInv, RequestOK, RequestRecords, Looks, Acts
<1>2. CASE InTurn!Refuse(r)
  BY <1>2, TurnFinish DEF InTurn!Refuse, InTurn!Keep, InTurn!memory, InTurn!serviceVars
<1> DEFINE Goes == ~(q.victim = NoRunner /\ InTurn!Refuses(q.op, Head(q.todo), found))
<1>3. ASSUME q.victim = NoRunner, q.op \notin {"none", "clear"}, Goes
      PROVE  /\ ~blocked => \A n \in TurnRunners : n.kind = Head(q.todo) => ~InTurn!IsRunning(n)
             /\ q.op \in {"restore", "upgrade"} /\ q.op = Head(q.todo) =>
                   \A n \in TurnRunners : n.kind = q.op => ~InTurn!Exists(n)
  <2>1. q.op = "backup" \/ ~InTurn!Refuses(q.op, Head(q.todo), found)
    BY <1>3
  <2> HIDE DEF q
  <2>2. QED
    BY <1>1, <1>3, <2>1, NotRefused
<1>4. CASE /\ Goes /\ Len(q.todo) > 1 /\ InTurn!Keep
           /\ req' = [req EXCEPT ![r].phase = "list", ![r].todo = Tail(@), ![r].listed = {},
                                 ![r].blocked = blocked]
  <2> DEFINE p == [q EXCEPT !.phase = "list", !.todo = Tail(@), !.listed = {}, !.blocked = blocked]
  <2>1. RequestOK(TurnRunners, p)
    BY <1>1, <1>4, RequestMoves, TurnRunnersAssumption
  <2>2. /\ p.op = q.op /\ p.name = q.name /\ p.victim = q.victim /\ p.phase = "list"
        /\ p.todo = Tail(q.todo) /\ p.blocked = blocked
    BY <1>1 DEF RequestRecords
  <2>3. Unasked(q) \subseteq {Head(q.todo)} \cup Unasked(p)
    <3>1. {q.todo[i] : i \in DOMAIN q.todo}
             \subseteq {Head(q.todo)} \cup {Tail(q.todo)[i] : i \in DOMAIN Tail(q.todo)}
      BY <1>1, HeadOrTail
    <3> HIDE DEF p, q
    <3>2. QED
      BY <2>2, <3>1 DEF Unasked, Looks
  <2>4. req' = [req EXCEPT ![r] = p]
    BY <1>1, <1>4
  <2>5. q.victim # NoRunner => Unasked(q) = {} /\ q.op \in {"stack", "clear"}
    BY <1>1 DEF Unasked, RequestOK
  <2>6. ~blocked => ~q.blocked
    OBVIOUS
  <2>7. blocked => q.op = "backup"
    BY <1>1 DEF Answered
  <2> HIDE DEF p, q, blocked
  <2>8. Answered(p)
    <3>1. ASSUME q.op \notin {"none", "clear"}, ~blocked, NEW n \in TurnRunners,
                 n.kind \in LooksFor(q.op) \ Unasked(p)
          PROVE  ~InTurn!IsRunning(n)
      BY <1>1, <1>3, <1>4, <2>3, <2>5, <2>6, <3>1 DEF Answered
    <3>2. ASSUME q.op \in {"restore", "upgrade"}, q.op \notin Unasked(p), NEW n \in TurnRunners, n.kind = q.op
          PROVE  ~InTurn!Exists(n)
      BY <1>1, <1>3, <1>4, <2>3, <2>5, <3>2 DEF Answered
    <3>3. QED
      BY <2>2, <2>7, <3>1, <3>2 DEF Answered
  <2>9. QueueAsked(p)
    BY <1>1, <2>2 DEF QueueAsked, Acts
  <2>10. QED
    BY <1>4, <2>1, <2>4, <2>8, <2>9, TurnStep DEF InTurn!Keep, InTurn!memory, InTurn!serviceVars
<1>5. ASSUME Goes, Len(q.todo) = 1, q.op \notin {"none", "clear"}, ~blocked
      PROVE  /\ \A n \in TurnRunners : n.kind \in LooksFor(q.op) => ~InTurn!IsRunning(n)
             /\ q.op \in {"restore", "upgrade"} =>
                   \A n \in TurnRunners : n.kind = q.op => ~InTurn!Exists(n)
  <2>1. q.victim = NoRunner => Unasked(q) = {Head(q.todo)}
    BY <1>1, <1>5, HeadOrTail DEF Unasked
  <2>2. q.victim # NoRunner => Unasked(q) = {} /\ q.op \in {"stack", "clear"}
    BY <1>1 DEF Unasked, RequestOK
  <2>3. ~q.blocked
    BY <1>5
  <2> HIDE DEF q, blocked
  <2>4. QED
    BY <1>1, <1>3, <1>5, <2>1, <2>2, <2>3 DEF Answered
<1>6. ASSUME Goes, Len(q.todo) = 1, InTurn!EnqueueGuarded(r, blocked), q.op \in Guarded PROVE TurnInv'
  <2>1. CASE UNCHANGED <<pending, busy, ended, jobOp>>
    BY <1>6, <2>1, TurnFinish DEF InTurn!EnqueueGuarded
  <2>2. ASSUME NEW j \in TurnJobs, InTurn!Submit(j), jobOp' = [jobOp EXCEPT ![j] = q.op],
               ~(q.op = "backup" /\ (blocked \/ pending # <<>>))
        PROVE  TurnInv'
    <3>1. q.op \in JobOps /\ q.op \notin {"none", "clear"} /\ q.op \in {"backup", "config"} /\ ~blocked
      BY <1>1, <1>6, <2>2 DEF JobOps, Guarded, Answered
    <3>2. \A n \in TurnRunners : n.kind \in LooksFor(q.op) => ~InTurn!IsRunning(n)
      BY <1>5, <1>6, <3>1
    <3>3. {"restore", "upgrade"} \subseteq LooksFor(q.op) /\ (q.op = "config" => "stack" \in LooksFor(q.op))
      BY <3>1 DEF LooksFor, Kinds
    <3>4. req' = [req EXCEPT ![r] = NoRequest] /\ UNCHANGED status
      BY <1>6, SameWords DEF InTurn!EnqueueGuarded, InTurn!Finish
    <3> HIDE DEF q
    <3>5. QED
      BY <2>2, <3>1, <3>2, <3>3, <3>4, TurnSubmit
  <2>3. QED
    BY <1>6, <2>1, <2>2 DEF InTurn!EnqueueGuarded, InTurn!serviceVars
<1>7. ASSUME Goes, Len(q.todo) = 1, NEW phase \in {"run", "remove"}, InTurn!Go(r, phase, <<>>),
             IF phase = "run" THEN q.op \in {"restore", "upgrade", "stack"} /\ pending = <<>>
             ELSE q.victim # NoRunner
      PROVE  TurnInv'
  <2> DEFINE p == [q EXCEPT !.phase = phase, !.todo = <<>>, !.listed = {}]
  <2>1. RequestOK(TurnRunners, p)
    BY <1>1, <1>7, RequestMoves, TurnRunnersAssumption
  <2>2. /\ p.op = q.op /\ p.name = q.name /\ p.victim = q.victim /\ p.phase = phase
        /\ p.blocked = q.blocked
    BY <1>1 DEF RequestRecords
  <2>3. req' = [req EXCEPT ![r] = p]
    BY <1>1, <1>7 DEF InTurn!Go
  <2>4. q.op \in {"stack", "clear", "restore", "upgrade"}
    BY <1>1, <1>7 DEF RequestOK
  <2>5. ~q.blocked /\ ~blocked
    BY <1>1, <2>4 DEF Answered
  <2> HIDE DEF p, q, blocked
  <2>6. Answered(p)
    BY <1>5, <1>7, <2>2, <2>4, <2>5 DEF Answered
  <2>7. QueueAsked(p)
    BY <1>1, <1>7, <2>2 DEF QueueAsked, Acts
  <2>8. QED
    BY <1>7, <2>1, <2>3, <2>6, <2>7, TurnStep DEF InTurn!Go, InTurn!Keep, InTurn!memory, InTurn!serviceVars
<1>8. ASSUME Goes, Len(q.todo) = 1, q.op \in {"stack", "clear"}, q.victim = NoRunner, found # NoRunner,
             InTurn!Clear(r, found)
      PROVE  TurnInv'
  <2> DEFINE p == [q EXCEPT !.phase = "list", !.todo = <<found.kind>>, !.listed = {}, !.victim = found]
  <2>1. found \in TurnRunners /\ found.kind = Head(q.todo)
    BY <1>8 DEF Reported
  <2>2. q.op = "stack" => found.kind = "stack"
    <3>1. Len(<<"upgrade", "stack">>) = 2 /\ Head(<<"stack">>) = "stack"
      OBVIOUS
    <3>2. q.op = "stack" => q.todo \in {<<"upgrade", "stack">>, <<"stack">>}
      BY <1>1, <1>8 DEF RequestOK, Looks
    <3>3. q.op = "stack" => q.todo = <<"stack">>
      <4> HIDE DEF q
      <4>1. QED
        BY <1>8, <3>1, <3>2
    <3>4. QED
      BY <2>1, <3>1, <3>3
  <2>3. RequestOK(TurnRunners, p)
    BY <1>1, <1>8, <2>1, <2>2, RequestMoves, TurnRunnersAssumption
  <2>4. /\ p.op = q.op /\ p.name = q.name /\ p.victim = found /\ p.phase = "list"
        /\ p.blocked = q.blocked
    BY <1>1 DEF RequestRecords
  <2>5. req' = [req EXCEPT ![r] = p]
    BY <1>1, <1>8 DEF InTurn!Clear
  <2>6. ~q.blocked /\ ~blocked
    BY <1>1, <1>8 DEF Answered
  <2> HIDE DEF p, q, blocked
  <2>7. Answered(p)
    BY <1>5, <1>8, <2>4, <2>6 DEF Answered
  <2>8. QueueAsked(p)
    BY <1>1, <1>8, <2>4 DEF QueueAsked, Acts
  <2>9. QED
    BY <1>8, <2>3, <2>5, <2>7, <2>8, TurnStep DEF InTurn!Clear, InTurn!Keep, InTurn!memory, InTurn!serviceVars
<1>9. ASSUME Goes, Len(q.todo) = 1, InTurn!Decide(r, found, blocked) PROVE TurnInv'
  <2>1. q.op = "stack" => pending = <<>>
    BY <1>1 DEF QueueAsked
  <2>2. QED
    BY <1>2, <1>6, <1>7, <1>8, <1>9, <2>1, SameWords DEF InTurn!Decide
<1>10. Len(q.todo) > 1 \/ Len(q.todo) = 1
  <2>1. Len(q.todo) \in Nat \ {0}
    BY <1>1, EmptySeq
  <2>2. \A k \in Nat \ {0} : k > 1 \/ k = 1
    OBVIOUS
  <2>3. QED
    BY <2>1, <2>2, Zenon
<1>11. QED
  BY <1>2, <1>4, <1>9, <1>10 DEF InTurn!Answer

LEMMA TurnStutter ==
    ASSUME TurnInv, NEW r \in TurnRequests, TurnRequests = {r}, UNCHANGED <<req, pending, busy, jobOp, status>>
    PROVE  TurnInv'
<1>1. req' = [req EXCEPT ![r] = req[r]]
  BY DEF TurnInv
<1>2. RequestOK(TurnRunners, req[r]) /\ Answered(req[r]) /\ QueueAsked(req[r])
  BY DEF TurnInv
<1>3. QED
  BY <1>1, <1>2, TurnStep

LEMMA TurnArrive ==
    ASSUME TurnInv, NEW r \in TurnRequests, TurnRequests = {r}, NEW op \in Ops,
           NEW todo \in Seq(Kinds) \ {<<>>}, NEW name \in TurnRunners \cup {NoRunner},
           op = "stack" => todo = <<"upgrade", "stack">> /\ pending = <<>>,
           LooksFor(op) \subseteq {todo[i] : i \in DOMAIN todo},
           op \in {"restore", "stack", "upgrade"} =>
              op \in LooksFor(op) /\ name.kind = op /\ name \in TurnRunners,
           InTurn!Arrive(r, op, todo, name)
    PROVE  TurnInv'
<1> DEFINE p == [NoRequest EXCEPT !.op = op, !.phase = "list", !.todo = todo, !.name = name]
<1>1. RequestOK(TurnRunners, p)
  BY RequestStarts
<1>2. /\ p.op = op /\ p.phase = "list" /\ p.todo = todo /\ p.name = name /\ p.victim = NoRunner
      /\ p.blocked = FALSE
  BY DEF NoRequest
<1>3. req' = [req EXCEPT ![r] = p] /\ UNCHANGED <<pending, busy, jobOp, status>>
  BY SameWords DEF InTurn!Arrive, InTurn!memory, InTurn!serviceVars
<1> HIDE DEF p
<1>4. Unasked(p) = {todo[i] : i \in DOMAIN todo}
  BY <1>2 DEF Unasked, Looks
<1>5. Answered(p)
  BY <1>2, <1>4 DEF Answered
<1>6. QueueAsked(p)
  BY <1>2 DEF QueueAsked
<1>7. QED
  BY <1>1, <1>3, <1>5, <1>6, TurnStep

\* A container that goes, or a runner that ends, leaves what was known.
LEMMA TurnFewer ==
    ASSUME TurnInv, NEW r \in TurnRequests, TurnRequests = {r}, NEW q, req' = [req EXCEPT ![r] = q],
           RequestOK(TurnRunners, q), Answered(q)', QueueAsked(q),
           UNCHANGED <<pending, busy, jobOp>>,
           NEW n \in TurnRunners, NEW s \in {"absent", "exited"}, status[n] # "absent",
           status' = [status EXCEPT ![n] = s]
    PROVE  TurnInv'
<1>1. \A m \in TurnRunners : /\ InTurn!IsRunning(m)' => InTurn!IsRunning(m)
                             /\ InTurn!Exists(m)' => InTurn!Exists(m)
  BY DEF TurnInv, InTurn!IsRunning, InTurn!Exists
<1>2. status' \in [TurnRunners -> Statuses]
  BY DEF TurnInv, Statuses
<1>3. req' \in [TurnRequests -> RequestRecords(TurnRunners)] /\ req'[r] = q
  BY DEF TurnInv, RequestOK
<1>4. QueueAsked(q)'
  BY DEF QueueAsked
<1>5. InTurn!UpgradeRunsAlone' /\ InTurn!UnreadOutcomeBlocks'
  BY <1>1 DEF TurnInv, InTurn!UpgradeRunsAlone, InTurn!UnreadOutcomeBlocks
<1>6. InTurn!GuardedJobsRunAlone'
  BY <1>1 DEF TurnInv, InTurn!GuardedJobsRunAlone, InTurn!RunningOf
<1>7. (RequestOK(TurnRunners, req[r]) /\ Answered(req[r]) /\ QueueAsked(req[r]))'
  BY <1>3, <1>4
<1>8. QED
  BY <1>2, <1>3, <1>5, <1>6, <1>7 DEF TurnInv

LEMMA TurnList ==
    ASSUME TurnInv, NEW r \in TurnRequests, TurnRequests = {r}, InTurn!List(r)
    PROVE  TurnInv'
<1> DEFINE q == req[r]
           ids == {n \in TurnRunners : n.kind = Head(q.todo) /\ InTurn!Exists(n)}
<1>1. /\ q \in RequestRecords(TurnRunners) /\ RequestOK(TurnRunners, q) /\ Answered(q) /\ QueueAsked(q)
      /\ q.phase = "list" /\ req \in [TurnRequests -> RequestRecords(TurnRunners)]
  BY DEF TurnInv, RequestOK, InTurn!List
<1>2. CASE ids = {} /\ InTurn!Answer(r, NoRunner)
  <2>1. Reported(q, NoRunner) /\ Looks(q)
    BY <1>1, <1>2 DEF Reported, Looks
  <2>2. QED
    BY <1>2, <2>1, TurnAnswer
<1>3. CASE /\ ids # {} /\ InTurn!Keep
           /\ req' = [req EXCEPT ![r].phase = "inspect", ![r].listed = ids]
  <2> DEFINE p == [q EXCEPT !.phase = "inspect", !.listed = ids]
  <2>1. ids \in SUBSET TurnRunners /\ \A n \in ids : n.kind = Head(q.todo)
    OBVIOUS
  <2>2. RequestOK(TurnRunners, p)
    <3> HIDE DEF ids
    <3>1. QED
      BY <1>1, <2>1, RequestMoves, TurnRunnersAssumption
  <2>3. /\ p.op = q.op /\ p.name = q.name /\ p.victim = q.victim /\ p.phase = "inspect"
        /\ p.blocked = q.blocked /\ p.todo = q.todo /\ p.listed = ids
    BY <1>1 DEF RequestRecords
  <2>4. req' = [req EXCEPT ![r] = p]
    BY <1>1, <1>3
  <2>5. Unasked(p) = Unasked(q) /\ Acts(p) /\ Acts(q)
    BY <1>1, <2>3 DEF Unasked, Looks, Acts
  <2> HIDE DEF p
  <2>6. Answered(p)
    BY <1>1, <1>3, <2>3, <2>5 DEF Answered
  <2>7. QueueAsked(p)
    BY <1>1, <2>3, <2>5 DEF QueueAsked
  <2>8. QED
    BY <1>3, <2>2, <2>4, <2>6, <2>7, TurnStep DEF InTurn!Keep, InTurn!memory, InTurn!serviceVars
<1>4. QED
  BY <1>2, <1>3 DEF InTurn!List

LEMMA TurnInspect ==
    ASSUME TurnInv, NEW r \in TurnRequests, TurnRequests = {r}, InTurn!Inspect(r)
    PROVE  TurnInv'
<1> DEFINE q == req[r]
<1>1. /\ Answered(q) /\ RequestOK(TurnRunners, q) /\ q.phase = "inspect"
  BY DEF TurnInv, InTurn!Inspect
<1>2. /\ q.listed = {n \in TurnRunners : n.kind = Head(q.todo) /\ InTurn!Exists(n)}
  BY <1>1 DEF Answered
<1>3. PICK n \in q.listed : InTurn!Found(q.listed, n) /\ InTurn!Answer(r, n)
  BY <1>2 DEF InTurn!Inspect
<1>4. ASSUME ~InTurn!IsRunning(n), NEW m \in TurnRunners, m.kind = Head(q.todo) PROVE ~InTurn!IsRunning(m)
  <2>1. InTurn!IsRunning(m) => m \in q.listed
    BY <1>2, <1>4 DEF InTurn!IsRunning, InTurn!Exists
  <2>2. QED
    BY <1>3, <1>4, <2>1 DEF InTurn!Found
<1>5. Reported(q, n) /\ Looks(q)
  BY <1>1, <1>2, <1>4 DEF Reported, Looks
<1>6. QED
  BY <1>3, <1>5, TurnAnswer

LEMMA TurnRemove ==
    ASSUME TurnInv, NEW r \in TurnRequests, TurnRequests = {r}, InTurn!RemoveRunner(r)
    PROVE  TurnInv'
<1> DEFINE q == req[r]
<1>1. /\ q \in RequestRecords(TurnRunners) /\ RequestOK(TurnRunners, q) /\ Answered(q) /\ QueueAsked(q)
      /\ q.phase = "remove" /\ q.victim # NoRunner /\ q.victim \in TurnRunners
      /\ req \in [TurnRequests -> RequestRecords(TurnRunners)]
      /\ UNCHANGED <<pending, busy, jobOp>>
  BY DEF TurnInv, RequestOK, RequestRecords, InTurn!RemoveRunner, InTurn!memory, InTurn!serviceVars
<1>2. CASE InTurn!Finish(r) /\ UNCHANGED status
  BY <1>1, <1>2, TurnFinish
<1>3. ASSUME status[q.victim] = "exited", status' = [status EXCEPT ![q.victim] = "absent"] PROVE TurnInv'
  <2>1. CASE InTurn!Finish(r)
    <3>1. RequestOK(TurnRunners, NoRequest) /\ Answered(NoRequest)' /\ QueueAsked(NoRequest)
      BY NoRequestOK DEF Answered, Acts, NoRequest
    <3>2. req' = [req EXCEPT ![r] = NoRequest]
      BY <2>1, SameWords DEF InTurn!Finish
    <3>3. QED
      BY <1>1, <1>3, <3>1, <3>2, TurnFewer
  <2>2. CASE q.op = "stack" /\ req' = [req EXCEPT ![r].phase = "run", ![r].victim = NoRunner]
    <3>0. PICK p : p = [q EXCEPT !.phase = "run", !.victim = NoRunner]
      OBVIOUS
    <3>1. RequestOK(TurnRunners, p)
      BY <1>1, <3>0, RequestMoves, TurnRunnersAssumption
    <3>2. p.op = q.op /\ p.name = q.name /\ p.phase = "run" /\ p.blocked = q.blocked
      BY <1>1, <3>0 DEF RequestRecords
    <3>3. req' = [req EXCEPT ![r] = p]
      BY <1>1, <2>2, <3>0
    <3>4. \A m \in TurnRunners : InTurn!IsRunning(m)' => InTurn!IsRunning(m)
      BY <1>1, <1>3 DEF TurnInv, InTurn!IsRunning
    <3>5. Unasked(q) = {}
      BY <1>1 DEF Unasked, Looks
    <3> HIDE DEF q
    <3>6. Answered(p)'
      BY <1>1, <2>2, <3>2, <3>4, <3>5 DEF Answered, Acts
    <3>7. QueueAsked(p)
      BY <1>1, <2>2, <3>2 DEF QueueAsked, Acts
    <3>8. QED
      BY <1>1, <1>3, <3>1, <3>3, <3>6, <3>7, TurnFewer
  <2>3. QED
    BY <1>3, <2>1, <2>2 DEF InTurn!RemoveRunner
<1>4. QED
  BY <1>2, <1>3 DEF InTurn!RemoveRunner

\* The container a handler starts runs beside none of those it has looked for.
LEMMA TurnRun ==
    ASSUME TurnInv, NEW r \in TurnRequests, TurnRequests = {r}, InTurn!Run(r)
    PROVE  TurnInv'
<1> DEFINE q == req[r]
           n == q.name
<1>1. /\ q \in RequestRecords(TurnRunners) /\ RequestOK(TurnRunners, q) /\ Answered(q) /\ QueueAsked(q)
      /\ q.phase = "run" /\ req \in [TurnRequests -> RequestRecords(TurnRunners)]
      /\ UNCHANGED <<pending, busy, jobOp>>
  BY DEF TurnInv, RequestOK, InTurn!Run, InTurn!memory, InTurn!serviceVars
<1>2. /\ n \in TurnRunners /\ n.kind = q.op /\ q.op \in {"restore", "stack", "upgrade"} /\ pending = <<>>
      /\ ~q.blocked
  BY <1>1 DEF QueueAsked, Acts, Answered
<1>3. CASE InTurn!Finish(r) /\ UNCHANGED status
  BY <1>1, <1>3, TurnFinish
<1>4. ASSUME ~InTurn!Exists(n), status' = [status EXCEPT ![n] = "running"],
             req' = [req EXCEPT ![r].phase = "confirm"]
      PROVE  TurnInv'
  <2>1. /\ \A m \in TurnRunners : n.kind = "upgrade" \/ m.kind = "upgrade" => ~InTurn!IsRunning(m)
        /\ n.kind # "stack" => \A m \in TurnRunners : m.kind = n.kind => ~InTurn!Exists(m)
    <3>1. Unasked(q) = {} /\ Acts(q)
      BY <1>1 DEF Unasked, Looks, Acts
    <3>2. "upgrade" \in LooksFor(q.op) /\ (q.op = "upgrade" => LooksFor(q.op) = Kinds)
      BY <1>2 DEF LooksFor, Kinds
    <3> HIDE DEF q
    <3>3. QED
      BY <1>1, <1>2, <3>1, <3>2, TurnRunnersAssumption DEF Answered
  <2>2. \A m \in TurnRunners : m # n => /\ InTurn!IsRunning(m)' <=> InTurn!IsRunning(m)
                                        /\ InTurn!Exists(m)' <=> InTurn!Exists(m)
    BY <1>4 DEF TurnInv, InTurn!IsRunning, InTurn!Exists
  <2>3. status' \in [TurnRunners -> Statuses]
    BY <1>2, <1>4 DEF TurnInv, Statuses
  <2>4. InTurn!UpgradeRunsAlone'
    BY <1>2, <2>1, <2>2 DEF TurnInv, InTurn!UpgradeRunsAlone
  <2>5. InTurn!UnreadOutcomeBlocks'
    BY <1>2, <2>1, <2>2 DEF TurnInv, InTurn!UnreadOutcomeBlocks
  <2>6. InTurn!GuardedJobsRunAlone'
    BY <1>1, <1>2 DEF InTurn!GuardedJobsRunAlone
  <2> DEFINE p == [q EXCEPT !.phase = "confirm"]
  <2>7. RequestOK(TurnRunners, p)
    BY <1>1, RequestMoves, TurnRunnersAssumption
  <2>8. p.phase = "confirm" /\ p.blocked = q.blocked
    BY <1>1 DEF RequestRecords
  <2>9. req'[r] = p /\ req' \in [TurnRequests -> RequestRecords(TurnRunners)]
    BY <1>1, <1>4, <2>7 DEF RequestOK
  <2>10. (RequestOK(TurnRunners, req[r]) /\ Answered(req[r]) /\ QueueAsked(req[r]))'
    <3> HIDE DEF p
    <3>1. QED
      BY <1>1, <1>2, <2>7, <2>8, <2>9 DEF Answered, QueueAsked, Acts
  <2>11. QED
    BY <1>1, <2>3, <2>4, <2>5, <2>6, <2>9, <2>10 DEF TurnInv
<1>5. QED
  BY <1>3, <1>4 DEF InTurn!Run

LEMMA TurnJobEnds ==
    ASSUME TurnInv, NEW r \in TurnRequests, TurnRequests = {r}, InTurn!JobEnds
    PROVE  TurnInv'
<1>1. /\ busy /\ busy' = FALSE /\ pending' = Tail(pending) /\ UNCHANGED <<status, req>>
      /\ jobOp' = [jobOp EXCEPT ![Head(pending)] = "free"]
      /\ pending \in Seq(TurnJobs) /\ pending # <<>>
  BY DEF TurnInv, InTurn!JobEnds, InTurn!End
<1>2. /\ pending' \in Seq(TurnJobs) /\ Head(pending) \in TurnJobs
      /\ \A i \in DOMAIN pending' : i + 1 \in DOMAIN pending /\ pending'[i] = pending[i + 1]
  BY <1>1
<1>3. jobOp' \in [TurnJobs -> JobOps]
  BY <1>1 DEF TurnInv, JobOps
<1>4. InTurn!GuardedJobsRunAlone'
  <2>1. SUFFICES ASSUME NEW i \in DOMAIN pending'
                 PROVE  /\ jobOp'[pending'[i]] \in Guarded =>
                              InTurn!RunningOf("restore") \cup InTurn!RunningOf("upgrade") = {}
                        /\ jobOp'[pending'[i]] = "config" => InTurn!RunningOf("stack") = {}
    BY <1>1, SameWords DEF InTurn!GuardedJobsRunAlone, InTurn!RunningOf, InTurn!IsRunning
  <2>2. pending[i + 1] \in TurnJobs /\ pending'[i] = pending[i + 1] /\ i + 1 \in DOMAIN pending
    BY <1>1, <1>2
  <2>3. jobOp'[pending'[i]] = "free" \/ jobOp'[pending'[i]] = jobOp[pending[i + 1]]
    BY <1>1, <2>2 DEF TurnInv
  <2>4. QED
    BY <2>2, <2>3, SameWords DEF TurnInv, InTurn!GuardedJobsRunAlone, Guarded
<1>5. (InTurn!UpgradeRunsAlone /\ InTurn!UnreadOutcomeBlocks)'
  BY <1>1 DEF TurnInv, InTurn!UpgradeRunsAlone, InTurn!UnreadOutcomeBlocks, InTurn!IsRunning, InTurn!Exists
<1>6. (RequestOK(TurnRunners, req[r]) /\ Answered(req[r]) /\ QueueAsked(req[r]))'
  <2>1. RequestOK(TurnRunners, req[r]) /\ Answered(req[r]) /\ QueueAsked(req[r])
    BY DEF TurnInv
  <2>2. QED
    BY <1>1, <2>1 DEF Answered, QueueAsked, InTurn!IsRunning, InTurn!Exists
<1>7. QED
  BY <1>1, <1>2, <1>3, <1>4, <1>5, <1>6 DEF TurnInv

LEMMA TurnInvInit == InTurn!Init => TurnInv
<1> SUFFICES ASSUME InTurn!Init PROVE TurnInv
  OBVIOUS
<1> USE DEF InTurn!Init, InTurn!ServiceInit
<1>1. /\ pending = <<>> /\ busy = FALSE /\ pending \in Seq(TurnJobs)
      /\ jobOp \in [TurnJobs -> JobOps] /\ status \in [TurnRunners -> Statuses]
      /\ \A n \in TurnRunners : status[n] = "absent"
  BY DEF JobOps, Statuses
<1>2. /\ req \in [TurnRequests -> RequestRecords(TurnRunners)]
      /\ \A r \in TurnRequests : req[r] = NoRequest
  BY NoRequestOK, SameWords DEF RequestOK
<1>3. InTurn!UpgradeRunsAlone /\ InTurn!GuardedJobsRunAlone /\ InTurn!UnreadOutcomeBlocks
  BY <1>1 DEF InTurn!UpgradeRunsAlone, InTurn!GuardedJobsRunAlone, InTurn!UnreadOutcomeBlocks,
     InTurn!IsRunning, InTurn!Exists
<1>4. QED
  BY <1>1, <1>2, <1>3, NoRequestOK DEF TurnInv

\* The kinds a handler looks for, in its order, are what its operation needs looked for.
LEMMA TodoLists ==
  /\ <<"restore", "upgrade">> \in Seq(Kinds)
  /\ <<"restore", "upgrade">> # <<>>
  /\ {"restore", "upgrade"} \subseteq {<<"restore", "upgrade">>[i] : i \in DOMAIN <<"restore", "upgrade">>}
  /\ <<"upgrade", "stack">> \in Seq(Kinds)
  /\ <<"upgrade", "stack">> # <<>>
  /\ {"upgrade", "stack"} \subseteq {<<"upgrade", "stack">>[i] : i \in DOMAIN <<"upgrade", "stack">>}
  /\ <<"restore", "upgrade", "stack">> \in Seq(Kinds)
  /\ <<"restore", "upgrade", "stack">> # <<>>
  /\ {"restore", "upgrade", "stack"} \subseteq
       {<<"restore", "upgrade", "stack">>[i] : i \in DOMAIN <<"restore", "upgrade", "stack">>}
<1>1. PICK t : t = <<"restore", "upgrade">>
  OBVIOUS
<1>2. PICK u : u = <<"upgrade", "stack">>
  OBVIOUS
<1>3. PICK v : v = <<"restore", "upgrade", "stack">>
  OBVIOUS
<1>4. DOMAIN t = 1..2 /\ t[1] = "restore" /\ t[2] = "upgrade" /\ t \in Seq(Kinds) /\ t # <<>>
  BY <1>1 DEF Kinds
<1>5. DOMAIN u = 1..2 /\ u[1] = "upgrade" /\ u[2] = "stack" /\ u \in Seq(Kinds) /\ u # <<>>
  BY <1>2 DEF Kinds
<1>6. DOMAIN v = 1..3 /\ v[1] = "restore" /\ v[2] = "upgrade" /\ v[3] = "stack" /\ v \in Seq(Kinds) /\ v # <<>>
  BY <1>3 DEF Kinds
<1>7. 1 \in 1..2 /\ 2 \in 1..2 /\ 1 \in 1..3 /\ 2 \in 1..3 /\ 3 \in 1..3
  OBVIOUS
<1>8. {"restore", "upgrade"} \subseteq {t[i] : i \in DOMAIN t}
  BY <1>4, <1>7
<1>9. {"upgrade", "stack"} \subseteq {u[i] : i \in DOMAIN u}
  BY <1>5, <1>7
<1>10. {"restore", "upgrade", "stack"} \subseteq {v[i] : i \in DOMAIN v}
  BY <1>6, <1>7
<1>11. QED
  BY <1>1, <1>2, <1>3, <1>4, <1>5, <1>6, <1>8, <1>9, <1>10

LEMMA TurnInvNext == TurnInv /\ [InTurn!Next]_vars => TurnInv'
<1> SUFFICES ASSUME TurnInv, [InTurn!Next]_vars PROVE TurnInv'
  OBVIOUS
<1>1. PICK r \in TurnRequests : TurnRequests = {r}
  BY TurnAssumption
<1>2. ASSUME UNCHANGED <<req, pending, busy, jobOp, status>> PROVE TurnInv'
  BY <1>1, <1>2, TurnStutter
<1>3. CASE InTurn!CreateBackup(r) \/ InTurn!DeleteRestorePoints(r) \/ InTurn!StartScopedRestore(r)
           \/ InTurn!ConfigRequest(r)
  <2>1. ASSUME NEW op \in {"backup", "config"}, NEW todo \in Seq(Kinds), todo # <<>>,
               LooksFor(op) \subseteq {todo[i] : i \in DOMAIN todo}, InTurn!Arrive(r, op, todo, NoRunner)
        PROVE  TurnInv'
    BY <1>1, <2>1, TurnArrive DEF Ops, Guarded
  <2>2. CASE InTurn!Arrive(r, "backup", <<"restore", "upgrade">>, NoRunner)
    BY <2>1, <2>2, TodoLists DEF LooksFor
  <2>3. CASE InTurn!Arrive(r, "config", <<"restore", "upgrade", "stack">>, NoRunner)
    <3>1. LooksFor("config") = {"restore", "upgrade", "stack"}
      BY DEF LooksFor, Kinds
    <3>2. QED
      BY <2>1, <2>3, <3>1, TodoLists
  <2>4. QED
    BY <1>3, <2>2, <2>3 DEF InTurn!CreateBackup, InTurn!DeleteRestorePoints, InTurn!StartScopedRestore,
       InTurn!RequireNoRunner, InTurn!ConfigRequest
<1>4. ASSUME NEW n \in TurnRunners,
             InTurn!StackRequest(r, n) \/ InTurn!RestoreRequest(r, n) \/ InTurn!UpgradeRequest(r, n)
      PROVE  TurnInv'
  <2>1. ASSUME NEW op \in {"restore", "stack", "upgrade"}, n.kind = op, NEW todo \in Seq(Kinds), todo # <<>>,
               op = "stack" => todo = <<"upgrade", "stack">> /\ pending = <<>>,
               LooksFor(op) \subseteq {todo[i] : i \in DOMAIN todo}, InTurn!Arrive(r, op, todo, n)
        PROVE  TurnInv'
    <3>1. op \in LooksFor(op) /\ op \in Ops
      BY DEF LooksFor, Kinds, Ops
    <3>2. QED
      BY <1>1, <2>1, <3>1, TurnArrive
  <2>2. CASE n.kind = "stack" /\ pending = <<>> /\ InTurn!Arrive(r, "stack", <<"upgrade", "stack">>, n)
    BY <2>1, <2>2, TodoLists DEF LooksFor
  <2>3. CASE n.kind = "restore" /\ InTurn!Arrive(r, "restore", <<"restore", "upgrade">>, n)
    BY <2>1, <2>3, TodoLists DEF LooksFor
  <2>4. CASE n.kind = "upgrade" /\ InTurn!Arrive(r, "upgrade", <<"upgrade", "restore", "stack">>, n)
    BY <2>1, <2>4 DEF LooksFor, Kinds
  <2>5. QED
    BY <1>4, <2>2, <2>3, <2>4 DEF InTurn!StackRequest, InTurn!RestoreRequest, InTurn!UpgradeRequest
<1>5. ASSUME NEW kind \in Kinds, InTurn!ClearRequest(r, kind) PROVE TurnInv'
  <2>1. <<kind>> \in Seq(Kinds) \ {<<>>} /\ "clear" \in Ops /\ LooksFor("clear") = {}
    BY DEF Ops, LooksFor
  <2>2. QED
    BY <1>1, <1>5, <2>1, TurnArrive DEF InTurn!ClearRequest
<1>6. ASSUME NEW j \in TurnJobs, InTurn!FreeRequest(r, j) PROVE TurnInv'
  <2>1. /\ req' = req /\ req[r].phase = "idle" /\ UNCHANGED status /\ InTurn!Submit(j)
        /\ jobOp' = [jobOp EXCEPT ![j] = "free"] /\ "free" \in JobOps /\ "free" \notin Guarded
    BY <1>6 DEF InTurn!FreeRequest, JobOps, Guarded
  <2>2. QED
    BY <1>1, <2>1, TurnSubmit
<1>7. CASE InTurn!List(r) \/ InTurn!Inspect(r) \/ InTurn!RemoveRunner(r) \/ InTurn!Run(r)
  BY <1>1, <1>7, TurnList, TurnInspect, TurnRemove, TurnRun
<1>8. ~InTurn!FindFails(r) /\ ~InTurn!RunFails(r)
  BY DEF InTurn!FindFails, InTurn!RunFails
<1>9. CASE InTurn!Confirm(r)
  BY <1>1, <1>9, TurnFinish DEF InTurn!Confirm, InTurn!serviceVars
<1>10. ASSUME NEW n \in TurnRunners, InTurn!RunnerExits(n) PROVE TurnInv'
  <2>1. /\ status[n] = "running" /\ status' = [status EXCEPT ![n] = "exited"]
        /\ UNCHANGED <<req, pending, busy, jobOp>>
    BY <1>10 DEF InTurn!RunnerExits, InTurn!memory, InTurn!serviceVars
  <2>2. PICK q : q = req[r]
    OBVIOUS
  <2>3. RequestOK(TurnRunners, q) /\ Answered(q) /\ QueueAsked(q) /\ req' = [req EXCEPT ![r] = q]
    BY <2>1, <2>2 DEF TurnInv
  <2>4. \A m \in TurnRunners : /\ InTurn!IsRunning(m)' => InTurn!IsRunning(m)
                               /\ InTurn!Exists(m)' <=> InTurn!Exists(m)
    BY <2>1 DEF TurnInv, InTurn!IsRunning, InTurn!Exists
  <2>5. Answered(q)'
    BY <2>3, <2>4 DEF Answered
  <2>6. QED
    BY <1>1, <2>1, <2>3, <2>5, TurnFewer
<1>11. CASE InTurn!JobEnds
  BY <1>1, <1>11, TurnJobEnds
<1>12. CASE InTurn!JobBegins
  <2>1. pending # <<>> /\ UNCHANGED <<req, pending, jobOp, status>>
    BY <1>12 DEF InTurn!JobBegins, InTurn!Begin
  <2>2. (InTurn!UpgradeRunsAlone /\ InTurn!GuardedJobsRunAlone /\ InTurn!UnreadOutcomeBlocks)'
    BY <2>1 DEF TurnInv, InTurn!UpgradeRunsAlone, InTurn!GuardedJobsRunAlone, InTurn!UnreadOutcomeBlocks,
       InTurn!RunningOf, InTurn!IsRunning, InTurn!Exists
  <2>3. (RequestOK(TurnRunners, req[r]) /\ Answered(req[r]) /\ QueueAsked(req[r]))'
    BY <2>1 DEF TurnInv, Answered, QueueAsked, InTurn!IsRunning, InTurn!Exists
  <2>4. QED
    BY <1>1, <2>1, <2>2, <2>3 DEF TurnInv
<1>13. CASE InTurn!ManagerDies
  <2>1. /\ pending' = <<>> /\ busy' = FALSE /\ UNCHANGED status
        /\ jobOp' = [j \in TurnJobs |-> "free"] /\ req' = [k \in TurnRequests |-> NoRequest]
    BY <1>13, SameWords DEF InTurn!ManagerDies, InTurn!Forget
  <2>2. (InTurn!UpgradeRunsAlone /\ InTurn!GuardedJobsRunAlone /\ InTurn!UnreadOutcomeBlocks)'
    BY <2>1 DEF TurnInv, InTurn!UpgradeRunsAlone, InTurn!GuardedJobsRunAlone, InTurn!UnreadOutcomeBlocks,
       InTurn!IsRunning, InTurn!Exists
  <2>3. /\ (RequestOK(TurnRunners, req[r]) /\ Answered(req[r]) /\ QueueAsked(req[r]))'
        /\ req' \in [TurnRequests -> RequestRecords(TurnRunners)]
    BY <2>1, NoRequestOK DEF Answered, QueueAsked, Acts, NoRequest, RequestOK
  <2>4. pending' \in Seq(TurnJobs) /\ jobOp' \in [TurnJobs -> JobOps]
    BY <2>1 DEF JobOps
  <2>5. QED
    BY <1>1, <2>1, <2>2, <2>3, <2>4 DEF TurnInv
<1>14. CASE InTurn!ManagerStarts \/ UNCHANGED vars \/ \E n \in TurnRunners : InTurn!CheckUpgrade(r, n)
  BY <1>2, <1>14 DEF InTurn!ManagerStarts, InTurn!CheckUpgrade, vars, memory, serviceVars,
     InTurn!memory, InTurn!serviceVars
<1>15. QED
  BY <1>1, <1>3, <1>4, <1>5, <1>6, <1>7, <1>8, <1>9, <1>10, <1>11, <1>12, <1>13, <1>14, SameWords DEF InTurn!Next

\* The first state says which behaviour it is, and the invariant is that of requests in turn.
LEMMA TurnInvAlways == PlaneSpec => [](inTurn => TurnInv)
<1>1. PlaneInit => (inTurn => TurnInv)
  BY TurnInvInit DEF PlaneInit
<1>2. (inTurn => TurnInv) /\ [PlaneNext]_<<inTurn, vars>> => (inTurn => TurnInv)'
  <2> SUFFICES ASSUME inTurn => TurnInv, [PlaneNext]_<<inTurn, vars>>, inTurn' PROVE TurnInv'
    OBVIOUS
  <2>1. inTurn /\ [InTurn!Next]_vars
    BY DEF PlaneNext
  <2>2. QED
    BY <2>1, TurnInvNext
<1>3. QED
  BY <1>1, <1>2, PTL DEF PlaneSpec

\* Requests served one after the other: a running upgrade is the only runner that runs, however many
\* runners and jobs there are (_require_idle; the look for an upgrade of the other handlers).
THEOREM UpgradeRunsAloneAlways == PlaneSpec => []UpgradeRunsAloneInTurn
<1>1. (inTurn => TurnInv) => UpgradeRunsAloneInTurn
  BY DEF TurnInv, UpgradeRunsAloneInTurn
<1>2. QED
  BY <1>1, TurnInvAlways, PTL

\* A backup or scoped restore never shares its time with a restore or an upgrade, and a configuration
\* job with no runner at all (_require_no_runner, require_idle_stack, and the look at the queue of
\* the handlers that start a runner).
THEOREM GuardedJobsRunAloneAlways == PlaneSpec => []GuardedJobsRunAloneInTurn
<1>1. (inTurn => TurnInv) => GuardedJobsRunAloneInTurn
  BY DEF TurnInv, GuardedJobsRunAloneInTurn
<1>2. QED
  BY <1>1, TurnInvAlways, PTL

\* An upgrade or a restore does not start next to one whose outcome was not acknowledged.
THEOREM UnreadOutcomeBlocksAlways == PlaneSpec => []UnreadOutcomeBlocksInTurn
<1>1. (inTurn => TurnInv) => UnreadOutcomeBlocksInTurn
  BY DEF TurnInv, UnreadOutcomeBlocksInTurn
<1>2. QED
  BY <1>1, TurnInvAlways, PTL

=============================================================================
