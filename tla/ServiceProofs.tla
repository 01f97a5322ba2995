--------------------------- MODULE ServiceProofs ----------------------------
(***************************************************************************)
(* Proofs about processes that are started, watched and started again: the *)
(* service manager, for every set of services, every dependency graph with *)
(* a start order, every restart policy and every behaviour of the executor *)
(* (ServiceManager), and the supervisor of an application (Supervision).   *)
(***************************************************************************)
EXTENDS ServiceManager, Supervision, TLAPS

(* The inductive invariant: the well-formedness and loop progress of        *)
(* SmIndInv with the two invariants that are inductive together with it.    *)
Inv == SmIndInv /\ NothingLeftRunning /\ BoundedAutoRestarts

(* A primitive on s touches no other service. *)
Others(s) ==
    \A t \in Services \ {s} :
        svc'[t] = svc[t] /\ (t \in stop_err' <=> t \in stop_err)

(* What every primitive leaves well formed. *)
Kept ==
    /\ svc' \in [Services -> ManagedService]
    /\ live' \subseteq Pids
    /\ stop_err' \subseteq Services
    /\ RunningIsServed'

(* Down(s) in the next state, for an s named in this one. *)
DownNext(s) ==
    \/ s \in stop_err'
    \/ svc'[s].status = "Stopped" /\ svc'[s].handle = NoHandle

-----------------------------------------------------------------------------
(* start_one that succeeds: s is Running, nobody else changes. *)
LEMMA StartOkEffect ==
    ASSUME SmTypeOK, RunningIsServed, NEW s \in Services, StartOk(s)
    PROVE  /\ Kept
           /\ Others(s)
           /\ svc'[s].status = "Running"
           /\ svc'[s].restarts = svc[s].restarts
           /\ s \notin stop_err'
<1>1. PICK p \in FreshPids : svc' = [svc EXCEPT ![s] = Started(@, p)] /\ live' = live \cup {p}
    BY Zenon DEF StartOk
<1>2. p \in Pids /\ p # NoHandle
    BY HandleAssumption DEF FreshPids
<1>3. svc \in [Services -> ManagedService] /\ svc[s] \in ManagedService
    BY DEF SmTypeOK
<1>4. svc' = [svc EXCEPT ![s] = Started(svc[s], p)]
    BY <1>1
<1>5. Started(svc[s], p) \in ManagedService
    BY Zenon, <1>2, <1>3 DEF Started, ManagedService, HealthStatus
<1>6. svc' \in [Services -> ManagedService] /\ \A t \in Services : svc'[t] = IF t = s THEN Started(svc[s], p) ELSE svc[t]
    BY <1>3, <1>4, <1>5
<1>7. /\ Started(svc[s], p).status = "Running"
      /\ Started(svc[s], p).health = "Healthy"
      /\ Started(svc[s], p).handle = p
      /\ Started(svc[s], p).restarts = svc[s].restarts
    BY <1>3 DEF Started, ManagedService
<1>8. stop_err' = stop_err \ {s} /\ stop_err' \subseteq Services
    BY DEF StartOk, SmTypeOK
<1>9. live' \subseteq Pids
    BY Zenon, <1>1, <1>2 DEF SmTypeOK
<1>10. RunningIsServed'
    BY Zenon, <1>2, <1>6, <1>7, <1>8 DEF RunningIsServed
<1> QED BY <1>6, <1>7, <1>8, <1>9, <1>10 DEF Kept, Others

(* stop_one that succeeds: s is Stopped and has no handle. *)
LEMMA StopOkEffect ==
    ASSUME SmTypeOK, RunningIsServed, NEW s \in Services, StopOk(s)
    PROVE  /\ Kept
           /\ Others(s)
           /\ svc'[s].status = "Stopped"
           /\ svc'[s].handle = NoHandle
           /\ svc'[s].restarts = svc[s].restarts
           /\ s \notin stop_err'
<1>1. svc' = [svc EXCEPT ![s] = Stopped(svc[s])]
    BY DEF StopOk
<1>2. svc \in [Services -> ManagedService] /\ svc[s] \in ManagedService
    BY DEF SmTypeOK
<1>3. /\ Stopped(svc[s]) \in ManagedService
      /\ Stopped(svc[s]).status = "Stopped"
      /\ Stopped(svc[s]).handle = NoHandle
      /\ Stopped(svc[s]).restarts = svc[s].restarts
    BY Zenon, <1>2 DEF Stopped, ManagedService, HealthStatus
<1>4. svc' \in [Services -> ManagedService] /\ \A t \in Services : svc'[t] = IF t = s THEN Stopped(svc[s]) ELSE svc[t]
    BY <1>1, <1>2, <1>3
<1>5. stop_err' = stop_err \ {s} /\ stop_err' \subseteq Services /\ live' \subseteq Pids
    BY DEF StopOk, SmTypeOK
<1>6. RunningIsServed'
    BY <1>3, <1>4, <1>5 DEF RunningIsServed
<1> QED BY Zenon, <1>3, <1>4, <1>5, <1>6 DEF Kept, Others

(* stop_one that fails: the handle is gone and the failure is remembered. *)
LEMMA StopErrEffect ==
    ASSUME SmTypeOK, RunningIsServed, NEW s \in Services, StopErr(s)
    PROVE  /\ Kept
           /\ Others(s)
           /\ svc'[s].restarts = svc[s].restarts
           /\ s \in stop_err'
<1> DEFINE r == [svc[s] EXCEPT !.handle = NoHandle]
<1>1. svc' = [svc EXCEPT ![s] = r]
    BY DEF StopErr
<1>2. svc \in [Services -> ManagedService] /\ svc[s] \in ManagedService
    BY DEF SmTypeOK
<1>3. /\ r \in ManagedService
      /\ r.status = svc[s].status
      /\ r.health = svc[s].health
      /\ r.restarts = svc[s].restarts
    BY <1>2 DEF ManagedService
<1> HIDE DEF r
<1>4. svc' \in [Services -> ManagedService] /\ \A t \in Services : svc'[t] = IF t = s THEN r ELSE svc[t]
    BY Zenon, <1>1, <1>2, <1>3
<1>5. stop_err' = stop_err \cup {s} /\ stop_err' \subseteq Services /\ live' \subseteq Pids
    BY DEF StopErr, SmTypeOK
<1>6. RunningIsServed'
    BY Zenon, <1>3, <1>4, <1>5 DEF RunningIsServed
<1> QED BY <1>3, <1>4, <1>5, <1>6 DEF Kept, Others

(* What restart_one makes of a record before it starts the service again. *)
LEMMA RestartingEffect ==
    ASSUME NEW r \in ManagedService
    PROVE  /\ Restarting(r) \in ManagedService
           /\ Restarting(r).status = "Stopped"
           /\ Restarting(r).restarts = SaturatingInc(r.restarts)
           /\ SaturatingInc(r.restarts) >= r.restarts
           /\ r.restarts < CountMax => SaturatingInc(r.restarts) = r.restarts + 1
<1>1. r.restarts \in 0..CountMax
    BY DEF ManagedService
<1>2. /\ SaturatingInc(r.restarts) \in 0..CountMax
      /\ SaturatingInc(r.restarts) >= r.restarts
      /\ r.restarts < CountMax => SaturatingInc(r.restarts) = r.restarts + 1
    BY <1>1, PolicyAssumption DEF SaturatingInc
<1>3. Stopped(r) \in ManagedService /\ Stopped(r).status = "Stopped"
    BY Zenon DEF Stopped, ManagedService, HealthStatus
<1>4. /\ Restarting(r) \in ManagedService
      /\ Restarting(r).status = "Stopped"
      /\ Restarting(r).restarts = SaturatingInc(r.restarts)
    BY <1>2, <1>3 DEF Restarting, ManagedService
<1> QED BY <1>2, <1>4

(* What a start makes of a record. *)
LEMMA StartedEffect ==
    ASSUME NEW r \in ManagedService, NEW p \in Pids
    PROVE  /\ Started(r, p) \in ManagedService
           /\ Started(r, p).status = "Running"
           /\ Started(r, p).health = "Healthy"
           /\ Started(r, p).handle # NoHandle
           /\ Started(r, p).restarts = r.restarts
BY Zenon, HandleAssumption DEF Started, ManagedService, HealthStatus

(* restart_one, whatever its outcome: nobody else is touched and the count  *)
(* of restarts does not go down.                                            *)
LEMMA RestartEffect ==
    ASSUME SmTypeOK, RunningIsServed, NEW s \in Services, RestartOk(s) \/ RestartErr(s)
    PROVE  /\ Kept
           /\ Others(s)
           /\ svc'[s].restarts >= svc[s].restarts
<1>1. svc \in [Services -> ManagedService] /\ svc[s] \in ManagedService /\ svc[s].restarts \in Nat
    BY PolicyAssumption DEF SmTypeOK, ManagedService
<1>2. CASE StopErr(s)
    BY <1>1, <1>2, StopErrEffect
<1>3. ASSUME NEW r \in ManagedService,
             svc' = [svc EXCEPT ![s] = r],
             r.restarts = SaturatingInc(svc[s].restarts),
             r.status = "Running" => r.health = "Healthy" /\ r.handle # NoHandle,
             stop_err' = stop_err \ {s},
             live' \subseteq Pids
      PROVE  Kept /\ Others(s) /\ svc'[s].restarts >= svc[s].restarts
    <2>1. svc' \in [Services -> ManagedService] /\ \A t \in Services : svc'[t] = IF t = s THEN r ELSE svc[t]
        BY <1>1, <1>3
    <2>2. stop_err' \subseteq Services
        BY <1>3 DEF SmTypeOK
    <2>3. RunningIsServed'
        BY Zenon, <1>3, <2>1 DEF RunningIsServed
    <2>4. svc'[s].restarts >= svc[s].restarts
        BY Zenon, <1>1, <1>3, <2>1, RestartingEffect
    <2> QED BY Zenon, <1>3, <2>1, <2>2, <2>3, <2>4 DEF Kept, Others
<1>4. CASE RestartOk(s)
    <2>1. PICK p \in FreshPids : /\ svc' = [svc EXCEPT ![s] = Started(Restarting(svc[s]), p)]
                                 /\ live' = (live \ {svc[s].handle}) \cup {p}
        BY Zenon, <1>4 DEF RestartOk
    <2>2. p \in Pids /\ live' \subseteq Pids /\ stop_err' = stop_err \ {s}
        BY <1>4, <2>1 DEF FreshPids, SmTypeOK, RestartOk
    <2>3. Restarting(svc[s]) \in ManagedService /\ Restarting(svc[s]).restarts = SaturatingInc(svc[s].restarts)
        BY Zenon, <1>1, RestartingEffect
    <2>4. /\ Started(Restarting(svc[s]), p) \in ManagedService
          /\ Started(Restarting(svc[s]), p).restarts = SaturatingInc(svc[s].restarts)
          /\ Started(Restarting(svc[s]), p).health = "Healthy"
          /\ Started(Restarting(svc[s]), p).handle # NoHandle
        BY Zenon, <2>2, <2>3, StartedEffect
    <2> QED BY Zenon, <1>3, <2>1, <2>2, <2>4
<1>5. CASE /\ svc' = [svc EXCEPT ![s] = Restarting(@)]
           /\ live' = live \ {svc[s].handle}
           /\ stop_err' = stop_err \ {s}
    <2>1. /\ Restarting(svc[s]) \in ManagedService
          /\ Restarting(svc[s]).status = "Stopped"
          /\ Restarting(svc[s]).restarts = SaturatingInc(svc[s].restarts)
        BY <1>1, RestartingEffect
    <2>2. live' \subseteq Pids
        BY <1>5 DEF SmTypeOK
    <2> QED BY Zenon, <1>3, <1>5, <2>1, <2>2
<1> QED BY <1>2, <1>4, <1>5 DEF RestartErr

-----------------------------------------------------------------------------
(* The lists the loops walk, and that the stop order misses no service. *)
LEMMA Lists ==
    /\ Order \in Seq(Services)
    /\ StopOrder \in Seq(Services)
    /\ Len(StopOrder) = Len(Order)
    /\ \A i \in 1..Len(Order) : StopOrder[i] = Order[Len(Order) + 1 - i]
    /\ \A s \in Services : \E i \in 1..Len(StopOrder) : StopOrder[i] = s
<1>1. Order \in Seq(Services) /\ Len(Order) \in Nat
    BY OrderAssumption DEF IsStartOrder, Enumerates
<1>2. \A i \in 1..Len(Order) : Order[Len(Order) + 1 - i] \in Services
    BY <1>1
<1>3. StopOrder \in [1..Len(Order) -> Services]
    BY <1>1, <1>2 DEF StopOrder
<1>4. StopOrder \in Seq(Services) /\ Len(StopOrder) = Len(Order)
    BY <1>1, <1>3
<1>5. \A i \in 1..Len(Order) : StopOrder[i] = Order[Len(Order) + 1 - i]
    BY DEF StopOrder
<1>6. ASSUME NEW s \in Services PROVE \E i \in 1..Len(StopOrder) : StopOrder[i] = s
    <2>1. PICK k \in 1..Len(Order) : Order[k] = s
        BY OrderAssumption DEF IsStartOrder, Enumerates
    <2>2. Len(Order) + 1 - k \in 1..Len(Order) /\ Len(Order) + 1 - (Len(Order) + 1 - k) = k
        BY <1>1
    <2> QED BY Zenon, <1>4, <1>5, <2>1, <2>2
<1> QED BY Zenon, <1>1, <1>4, <1>5, <1>6

(* Steps that count no automatic restart keep the bound. *)
LEMMA CountsKept ==
    ASSUME SmTypeOK, BoundedAutoRestarts, NEW s \in Services, Kept, Others(s),
           svc'[s].restarts >= svc[s].restarts, UNCHANGED auto
    PROVE  BoundedAutoRestarts' /\ auto' \in [Services -> 0..CountMax]
<1>1. ASSUME NEW t \in Services
      PROVE  /\ svc[t].restarts \in Nat /\ svc'[t].restarts \in Nat /\ auto[t] \in Nat
             /\ svc'[t].restarts >= svc[t].restarts
    <2>1. svc[t] \in ManagedService /\ svc'[t] \in ManagedService /\ auto[t] \in 0..CountMax
        BY DEF SmTypeOK, Kept
    <2>2. svc[t].restarts \in Nat /\ svc'[t].restarts \in Nat /\ auto[t] \in Nat
        BY <2>1, PolicyAssumption DEF ManagedService
    <2>3. CASE t = s
        BY <2>2, <2>3
    <2>4. CASE t # s
        <3>1. svc'[t] = svc[t]
            BY <2>4 DEF Others
        <3> QED BY <2>2, <3>1
    <2> QED BY <2>3, <2>4
<1> QED BY <1>1, SMTT(60) DEF BoundedAutoRestarts, SmTypeOK

(* A call that has returned leaves nothing to show but its effect. *)
LEMMA Returned ==
    ASSUME Kept, BoundedAutoRestarts', auto' \in [Services -> 0..CountMax], Return
    PROVE  Inv'
<1>1. op' = Idle /\ reply' = NoReply
    BY DEF Return
<1>2. op'.kind = "idle" /\ op'.list = << >> /\ op'.i = 1 /\ op'.ok = TRUE
    BY <1>1 DEF Idle
<1>3. << >> \in Seq(Services) /\ Len(<< >>) = 0
    OBVIOUS
<1>4. SmTypeOK'
    BY <1>1, <1>3 DEF SmTypeOK, Kept, Idle, NoReply, OpKinds
<1>5. OpOK'
    BY <1>2, <1>3 DEF OpOK
<1>6. Progress'
    BY <1>2 DEF Progress
<1>7. NothingLeftRunning'
    BY <1>1 DEF NothingLeftRunning, NoReply
<1> QED BY <1>4, <1>5, <1>6, <1>7 DEF Inv, SmIndInv, Kept

(* A call that has begun has visited nobody. *)
LEMMA Begun ==
    ASSUME Inv, NEW kind \in OpKinds, NEW list \in Seq(Services), Begin(kind, list),
           kind \in {"start_all", "poll_health"} => list = Order,
           kind \in {"stop_all", "rollback"} => list = StopOrder
    PROVE  Inv'
<1>1. op' = [kind |-> kind, list |-> list, i |-> 1, ok |-> TRUE] /\ reply' = NoReply
    BY DEF Begin
<1>2. UNCHANGED <<svc, live, stop_err, auto>>
    BY DEF Begin
<1>3. op'.kind = kind /\ op'.list = list /\ op'.i = 1 /\ op'.ok = TRUE
    BY Zenon, <1>1
<1>4. SmTypeOK'
    BY <1>1, <1>2 DEF Inv, SmIndInv, SmTypeOK, NoReply
<1>5. OpOK'
    <2>1. Len(list) \in Nat
        OBVIOUS
    <2> QED BY <1>1, <1>3, <2>1 DEF OpOK, StopOrder
<1>6. Progress'
    BY <1>3 DEF Progress
<1>7. NothingLeftRunning'
    BY Zenon, <1>1 DEF NothingLeftRunning, NoReply
<1>8. RunningIsServed' /\ BoundedAutoRestarts'
    BY <1>2 DEF Inv, SmIndInv, RunningIsServed, BoundedAutoRestarts
<1> QED BY Zenon, <1>4, <1>5, <1>6, <1>7, <1>8 DEF Inv, SmIndInv

-----------------------------------------------------------------------------
(* handle_failure: a restart is counted only while restarts is below the    *)
(* limit, and that restart raises restarts by one as well.                  *)
LEMMA HandleFailureKeeps ==
    ASSUME Inv, NEW s \in Services, HandleFailure(s)
    PROVE  Inv'
<1>1. SmTypeOK /\ RunningIsServed /\ BoundedAutoRestarts
    BY DEF Inv, SmIndInv
<1>2. svc \in [Services -> ManagedService] /\ svc[s] \in ManagedService
    BY <1>1 DEF SmTypeOK
<1>3. /\ Failing(svc[s]) \in ManagedService
      /\ Failing(svc[s]).status = "Failed"
      /\ Failing(svc[s]).restarts = svc[s].restarts
    BY Zenon, <1>2 DEF Failing, ManagedService, HealthStatus
<1>4. \A t \in Services : svc[t].restarts \in Nat /\ auto[t] \in Nat /\ RestartLimit[t] \in 0..CountMax
    BY <1>1, PolicyAssumption DEF SmTypeOK, ManagedService
<1>5. CASE ~MayRestart(s)
    <2>1. svc' = [svc EXCEPT ![s] = Failing(svc[s])] /\ UNCHANGED <<live, stop_err, auto>> /\ Return
        BY <1>5 DEF HandleFailure
    <2>2. svc' \in [Services -> ManagedService] /\ \A t \in Services : svc'[t] = IF t = s THEN Failing(svc[s]) ELSE svc[t]
        BY <1>2, <1>3, <2>1
    <2>3. RunningIsServed'
        BY Zenon, <1>1, <1>3, <2>1, <2>2 DEF RunningIsServed
    <2>4. Kept /\ Others(s)
        BY Zenon, <1>1, <2>1, <2>2, <2>3 DEF Kept, Others, SmTypeOK
    <2>5. svc'[s].restarts >= svc[s].restarts
        BY <1>3, <1>4, <2>2
    <2> QED BY <1>1, <2>1, <2>4, <2>5, CountsKept, Returned
<1>6. CASE MayRestart(s)
    <2> DEFINE r == Restarting(Failing(svc[s]))
    <2>1. /\ auto' = [auto EXCEPT ![s] = auto[s] + 1] /\ stop_err' = stop_err \ {s} /\ Return
          /\ RestartPolicy[s] # "Never" /\ svc[s].restarts < RestartLimit[s]
        BY Zenon, <1>6 DEF HandleFailure, MayRestart
    <2>2. svc[s].restarts < CountMax
        BY <1>4, <2>1, PolicyAssumption
    <2>3. r \in ManagedService /\ r.status = "Stopped" /\ r.restarts = svc[s].restarts + 1
        BY Zenon, <1>3, <2>2, RestartingEffect
    <2>4. PICK q \in ManagedService :
            /\ svc' = [svc EXCEPT ![s] = q]
            /\ live' \subseteq Pids
            /\ q.restarts = svc[s].restarts + 1
            /\ q.status = "Running" => q.health = "Healthy" /\ q.handle # NoHandle
        <3>1. CASE svc' = [svc EXCEPT ![s] = Restarting(Failing(@))] /\ live' = live
            <4>1. svc' = [svc EXCEPT ![s] = r]
                BY <3>1
            <4>2. live' \subseteq Pids
                BY <1>1, <3>1 DEF SmTypeOK
            <4> HIDE DEF r
            <4> QED BY Zenon, <2>3, <4>1, <4>2
        <3>2. CASE \E p \in FreshPids :
                    /\ svc' = [svc EXCEPT ![s] = Started(Restarting(Failing(@)), p)]
                    /\ live' = live \cup {p}
            <4>1. PICK p \in FreshPids : svc' = [svc EXCEPT ![s] = Started(r, p)] /\ live' = live \cup {p}
                BY Zenon, <3>2
            <4>2. p \in Pids
                BY DEF FreshPids
            <4>3. live' \subseteq Pids
                BY <1>1, <4>1, <4>2 DEF SmTypeOK
            <4> HIDE DEF r
            <4>4. /\ Started(r, p) \in ManagedService
                  /\ Started(r, p).restarts = svc[s].restarts + 1
                  /\ Started(r, p).health = "Healthy"
                  /\ Started(r, p).handle # NoHandle
                BY Zenon, <2>3, <4>2, StartedEffect
            <4> QED BY Zenon, <4>1, <4>3, <4>4
        <3> QED BY Zenon, <1>6, <3>1, <3>2 DEF HandleFailure
    <2>5. svc' \in [Services -> ManagedService] /\ \A t \in Services : svc'[t] = IF t = s THEN q ELSE svc[t]
        BY Zenon, <1>2, <2>4
    <2>6. RunningIsServed'
        BY Zenon, <1>1, <2>1, <2>4, <2>5 DEF RunningIsServed
    <2>7. Kept
        BY Zenon, <1>1, <2>1, <2>4, <2>5, <2>6 DEF Kept, SmTypeOK
    <2>8. auto[s] + 1 <= RestartLimit[s] /\ auto[s] + 1 <= CountMax /\ auto[s] + 1 <= q.restarts
        <3>1. auto[s] <= svc[s].restarts
            BY Zenon, <1>1 DEF BoundedAutoRestarts
        <3> QED BY <1>4, <2>1, <2>2, <2>4, <3>1, PolicyAssumption
    <2>9. auto' \in [Services -> 0..CountMax] /\ \A t \in Services : auto'[t] = IF t = s THEN auto[s] + 1 ELSE auto[t]
        BY <1>1, <1>4, <2>1, <2>8 DEF SmTypeOK
    <2>10. BoundedAutoRestarts'
        BY Zenon, <1>1, <2>1, <2>5, <2>8, <2>9 DEF BoundedAutoRestarts
    <2> QED BY Zenon, <2>1, <2>7, <2>9, <2>10, Returned
<1> QED BY <1>5, <1>6

(* The visited service, and what every visit of a loop keeps. *)
LEMMA VisitedService ==
    ASSUME Inv, op.i <= Len(op.list)
    PROVE  /\ Visited \in Services
           /\ op.i \in Nat /\ op.i >= 1 /\ Len(op.list) \in Nat
           /\ op.i \in 1..Len(op.list)
<1>1. op.list \in Seq(Services) /\ op.i \in Nat \ {0}
    BY DEF Inv, SmIndInv, SmTypeOK
<1>2. Len(op.list) \in Nat /\ op.i \in 1..Len(op.list)
    BY <1>1
<1> QED BY <1>1, <1>2 DEF Visited

(* One visit of a loop (start_all, stop_all, poll_health) keeps what the     *)
(* loop has already done for the services visited before.                    *)
LEMMA VisitKeeps ==
    ASSUME Inv, op.kind # "idle", op.i <= Len(op.list), Kept, UNCHANGED <<reply, auto>>,
           Others(Visited), svc'[Visited].restarts >= svc[Visited].restarts,
           NEW ok \in BOOLEAN, op.kind = "start_all" => ok,
           op' = [op EXCEPT !.i = op.i + 1, !.ok = ok],
           Progress'
    PROVE  Inv'
<1>1. SmTypeOK /\ OpOK /\ BoundedAutoRestarts /\ Visited \in Services
    BY VisitedService DEF Inv, SmIndInv
<1>2. BoundedAutoRestarts' /\ auto' \in [Services -> 0..CountMax]
    BY Zenon, <1>1, CountsKept
<1>3. /\ op'.kind = op.kind /\ op'.list = op.list /\ op'.i = op.i + 1
      /\ op' \in [kind : OpKinds, list : Seq(Services), i : Nat \ {0}, ok : BOOLEAN]
    <2>1. op \in [kind : OpKinds, list : Seq(Services), i : Nat \ {0}, ok : BOOLEAN]
        BY <1>1 DEF SmTypeOK
    <2>2. op.i + 1 \in Nat \ {0}
        BY VisitedService
    <2> QED BY Zenon, <2>1, <2>2
<1>4. reply' = NoReply /\ reply' = reply
    BY <1>1 DEF OpOK
<1>5. SmTypeOK'
    BY <1>1, <1>2, <1>3, <1>4 DEF SmTypeOK, Kept
<1>6. OpOK'
    <2>1. op'.ok = ok
        BY <1>1 DEF SmTypeOK
    <2> QED BY <1>1, <1>3, <1>4, <2>1, VisitedService DEF OpOK, StopOrder
<1>7. NothingLeftRunning'
    BY <1>4 DEF NothingLeftRunning, NoReply
<1> QED BY Zenon, <1>2, <1>5, <1>6, <1>7 DEF Inv, SmIndInv, Kept

(* start_all's visit: Ok makes the visited service Running, Err turns the    *)
(* loop into the rollback (manager.rs 133-144).                              *)
LEMMA StartAllVisitKeeps ==
    ASSUME Inv, StartAllVisit
    PROVE  Inv'
<1>1. SmTypeOK /\ OpOK /\ RunningIsServed /\ Progress /\ BoundedAutoRestarts
    BY DEF Inv, SmIndInv
<1>2. op.kind = "start_all" /\ op.i <= Len(op.list) /\ UNCHANGED <<reply, auto>> /\ Visited \in Services
    BY Zenon, VisitedService DEF StartAllVisit, Advance
<1>3. CASE StartOk(Visited) /\ Advance
    <2>1. op' = [op EXCEPT !.i = op.i + 1, !.ok = op.ok] /\ op.ok \in BOOLEAN /\ op.ok
        BY Zenon, <1>1, <1>2, <1>3 DEF Advance, SmTypeOK, OpOK
    <2>2. /\ Kept /\ Others(Visited) /\ svc'[Visited].status = "Running"
          /\ svc'[Visited].restarts = svc[Visited].restarts
        BY <1>1, <1>2, <1>3, StartOkEffect
    <2>3. svc'[Visited].restarts >= svc[Visited].restarts
        BY <1>1, <1>2, <2>2, PolicyAssumption DEF SmTypeOK, ManagedService
    <2>4. Progress'
        <3>1. op'.kind = "start_all" /\ op'.list = op.list /\ op'.i = op.i + 1
            BY Zenon, <1>1, <1>2, <1>3 DEF Advance, SmTypeOK
        <3>2. ASSUME NEW j \in 1..op.i PROVE svc'[op.list[j]].status = "Running"
            <4>1. op.list[j] \in Services
                BY <1>1, <1>2, VisitedService DEF SmTypeOK
            <4>2. CASE op.list[j] = Visited
                BY Zenon, <2>2, <4>2
            <4>3. CASE op.list[j] # Visited
                <5>1. j \in 1..(op.i - 1)
                    BY <1>2, <4>3, VisitedService DEF Visited
                <5>2. svc[op.list[j]].status = "Running"
                    BY Zenon, <1>1, <1>2, <5>1 DEF Progress
                <5> QED BY Zenon, <2>2, <4>1, <4>3, <5>2 DEF Others
            <4> QED BY Zenon, <4>2, <4>3
        <3>3. op'.i - 1 = op.i
            BY <1>2, <3>1, VisitedService
        <3>4. \A j \in 1..(op'.i - 1) : svc'[op'.list[j]].status = "Running"
            BY Zenon, <3>1, <3>2, <3>3
        <3>5. op'.kind \notin {"stop_all", "rollback"} /\ op'.kind # "stop_all"
            BY <3>1
        <3> QED BY Zenon, <3>4, <3>5 DEF Progress
    <2> QED BY Zenon, <1>2, <2>1, <2>2, <2>3, <2>4, VisitKeeps
<1>4. CASE /\ StartErr(Visited)
           /\ op' = [kind |-> "rollback", list |-> StopOrder, i |-> 1, ok |-> TRUE]
    <2>1. UNCHANGED <<svc, live, stop_err, auto, reply>>
        BY Zenon, <1>2, <1>4 DEF StartErr
    <2>2. op'.kind = "rollback" /\ op'.list = StopOrder /\ op'.i = 1 /\ op'.ok = TRUE
        BY Zenon, <1>4
    <2>3. SmTypeOK'
        BY <1>1, <1>4, <2>1, Lists DEF SmTypeOK, OpKinds
    <2>4. reply' = NoReply
        BY Zenon, <1>1, <1>2, <2>1 DEF OpOK
    <2>5. OpOK'
        <3>1. Len(StopOrder) \in Nat
            BY Lists
        <3> QED BY <2>2, <2>4, <3>1 DEF OpOK, StopOrder
    <2>6. Progress' /\ NothingLeftRunning'
        BY <2>2, <2>4 DEF Progress, NothingLeftRunning, NoReply
    <2>7. RunningIsServed' /\ BoundedAutoRestarts'
        BY Zenon, <1>1, <2>1 DEF RunningIsServed, BoundedAutoRestarts
    <2> QED BY Zenon, <2>3, <2>5, <2>6, <2>7 DEF Inv, SmIndInv
<1> QED BY <1>3, <1>4 DEF StartAllVisit

(* stop_all's visit leaves the service Down and remembers an error           *)
(* (manager.rs 191-204).                                                     *)
LEMMA StopAllVisitKeeps ==
    ASSUME Inv, StopAllVisit
    PROVE  Inv'
<1>1. SmTypeOK /\ RunningIsServed /\ Progress
    BY DEF Inv, SmIndInv
<1>2. op.kind \in {"stop_all", "rollback"} /\ op.i <= Len(op.list) /\ UNCHANGED <<reply, auto>> /\ Visited \in Services
    BY Zenon, VisitedService DEF StopAllVisit, Advance
<1>3. PICK ok \in BOOLEAN :
        /\ op' = [op EXCEPT !.i = op.i + 1, !.ok = ok]
        /\ ok => op.ok
        /\ Kept /\ Others(Visited)
        /\ svc'[Visited].restarts = svc[Visited].restarts
        /\ \/ Visited \in stop_err' /\ ~ok
           \/ /\ svc'[Visited].status = "Stopped" /\ svc'[Visited].handle = NoHandle
              /\ Visited \notin stop_err'
    <2>1. CASE StopOk(Visited) /\ Advance
        <3>1. op' = [op EXCEPT !.i = op.i + 1, !.ok = op.ok] /\ op.ok \in BOOLEAN
            BY Zenon, <1>1, <2>1 DEF Advance, SmTypeOK
        <3> QED BY Zenon, <1>1, <1>2, <2>1, <3>1, StopOkEffect
    <2>2. CASE StopErr(Visited) /\ op' = [op EXCEPT !.i = @ + 1, !.ok = FALSE]
        <3>1. op' = [op EXCEPT !.i = op.i + 1, !.ok = FALSE]
            BY <2>2
        <3> QED BY Zenon, <1>1, <1>2, <2>2, <3>1, StopErrEffect
    <2> QED BY Zenon, <2>1, <2>2 DEF StopAllVisit
<1>4. op'.kind = op.kind /\ op'.list = op.list /\ op'.i = op.i + 1 /\ op'.ok = ok
    BY Zenon, <1>1, <1>3 DEF SmTypeOK
<1>5. svc'[Visited].restarts >= svc[Visited].restarts
    BY <1>1, <1>2, <1>3, PolicyAssumption DEF SmTypeOK, ManagedService
<1>6. Progress'
    <2>1. ASSUME NEW j \in 1..op.i
          PROVE  /\ DownNext(op.list[j])
                 /\ op.kind = "stop_all" /\ ok => op.list[j] \notin stop_err'
        <3>1. op.list[j] \in Services
            BY <1>1, <1>2, VisitedService DEF SmTypeOK
        <3>2. CASE op.list[j] = Visited
            BY Zenon, <1>3, <3>2 DEF DownNext
        <3>3. CASE op.list[j] # Visited
            <4>1. j \in 1..(op.i - 1)
                BY <1>2, <3>3, VisitedService DEF Visited
            <4>2. Down(op.list[j]) /\ (op.kind = "stop_all" /\ op.ok => op.list[j] \notin stop_err)
                BY <1>1, <1>2, <4>1 DEF Progress
            <4>3. svc'[op.list[j]] = svc[op.list[j]] /\ (op.list[j] \in stop_err' <=> op.list[j] \in stop_err)
                BY Zenon, <1>3, <3>1, <3>3 DEF Others
            <4> QED BY Zenon, <1>3, <4>2, <4>3 DEF Down, DownNext
        <3> QED BY Zenon, <3>2, <3>3
    <2>2. op'.i - 1 = op.i
        BY <1>2, <1>4, VisitedService
    <2>3. \A j \in 1..(op'.i - 1) :
            /\ DownNext(op'.list[j])
            /\ op'.kind = "stop_all" /\ op'.ok => op'.list[j] \notin stop_err'
        BY Zenon, <1>4, <2>1, <2>2
    <2>4. op'.kind # "start_all"
        BY Zenon, <1>2, <1>4
    <2> QED BY Zenon, <2>3, <2>4 DEF Progress, Down, DownNext
<1> QED BY Zenon, <1>2, <1>3, <1>5, <1>6, VisitKeeps

(* Loops that Progress says nothing about. *)
LEMMA OtherVisitKeeps ==
    ASSUME Inv, op.kind \in {"poll_health", "request"}, op.i <= Len(op.list), Advance,
           Kept, Others(Visited), svc'[Visited].restarts >= svc[Visited].restarts,
           UNCHANGED auto
    PROVE  Inv'
<1>1. op' = [op EXCEPT !.i = op.i + 1, !.ok = op.ok] /\ op.ok \in BOOLEAN
    BY Zenon DEF Inv, SmIndInv, Advance, SmTypeOK
<1>2. op'.kind = op.kind
    BY DEF Inv, SmIndInv, Advance, SmTypeOK
<1>3. Progress'
    BY <1>2 DEF Progress
<1>4. UNCHANGED <<reply, auto>> /\ op.kind # "idle"
    BY DEF Advance
<1> QED BY Zenon, <1>1, <1>3, <1>4, VisitKeeps

(* poll_health's visit never leaves a Running service Unhealthy              *)
(* (manager.rs 280-305).                                                     *)
LEMMA PollVisitKeeps ==
    ASSUME Inv, PollVisit
    PROVE  Inv'
<1>1. SmTypeOK /\ RunningIsServed
    BY DEF Inv, SmIndInv
<1>2. /\ op.kind = "poll_health" /\ op.i <= Len(op.list) /\ Visited \in Services
      /\ Advance /\ UNCHANGED <<live, stop_err, auto>>
    BY Zenon, VisitedService DEF PollVisit
<1>3. svc \in [Services -> ManagedService] /\ svc[Visited] \in ManagedService /\ svc[Visited].restarts \in Nat
    BY <1>1, <1>2, PolicyAssumption DEF SmTypeOK, ManagedService
<1>4. Kept /\ Others(Visited) /\ svc'[Visited].restarts >= svc[Visited].restarts
    <2>1. CASE UNCHANGED svc
        <3>1. RunningIsServed'
            BY Zenon, <1>1, <1>2, <2>1 DEF RunningIsServed
        <3> QED BY <1>1, <1>2, <1>3, <2>1, <3>1 DEF Kept, Others, SmTypeOK
    <2>2. CASE svc[Visited].handle # NoHandle
        <3>1. PICK h \in HealthStatus : svc' = [svc EXCEPT ![Visited] = Probed(svc[Visited], h)]
            BY <2>2 DEF PollVisit
        <3> DEFINE r == Probed(svc[Visited], h)
        <3>2. /\ r \in ManagedService
              /\ r.restarts = svc[Visited].restarts
              /\ r.handle = svc[Visited].handle
              /\ r.status = "Running" => r.health # "Unhealthy"
            BY Zenon, <1>3 DEF ManagedService, Probed
        <3>3. svc' = [svc EXCEPT ![Visited] = r]
            BY <3>1
        <3> HIDE DEF r
        <3>4. svc' \in [Services -> ManagedService] /\ \A t \in Services : svc'[t] = IF t = Visited THEN r ELSE svc[t]
            BY <1>2, <1>3, <3>2, <3>3
        <3>5. RunningIsServed'
            BY <1>1, <1>2, <2>2, <3>2, <3>4 DEF RunningIsServed
        <3> QED BY <1>1, <1>2, <1>3, <3>2, <3>4, <3>5 DEF Kept, Others, SmTypeOK
    <2>3. CASE svc[Visited].handle = NoHandle
        BY <2>1, <2>3 DEF PollVisit
    <2> QED BY Zenon, <2>2, <2>3
<1> QED BY <1>2, <1>4, OtherVisitKeeps

(* The daemon's start and restart requests (main.rs 644-664). *)
LEMMA RequestKeeps ==
    ASSUME Inv, RequestDependency \/ RequestRestart
    PROVE  Inv'
<1>1. SmTypeOK /\ RunningIsServed /\ BoundedAutoRestarts
    BY DEF Inv, SmIndInv
<1>2. op.kind = "request" /\ op.i <= Len(op.list) /\ Visited \in Services
    <2>1. op.i \in Nat /\ Len(op.list) \in Nat
        BY <1>1 DEF SmTypeOK
    <2>2. op.kind = "request" /\ op.i <= Len(op.list)
        BY <2>1 DEF RequestDependency, RequestRestart
    <2> QED BY Zenon, <2>2, VisitedService
<1>3. CASE RequestDependency
    <2>1. Advance /\ UNCHANGED auto
        BY Zenon, <1>3 DEF RequestDependency
    <2>2. svc[Visited].restarts \in Nat
        BY <1>1, <1>2, PolicyAssumption DEF SmTypeOK, ManagedService
    <2>3. Kept /\ Others(Visited) /\ svc'[Visited].restarts >= svc[Visited].restarts
        <3>1. CASE UNCHANGED <<svc, live, stop_err>>
            <4>1. RunningIsServed'
                BY Zenon, <1>1, <3>1 DEF RunningIsServed
            <4> QED BY <1>1, <2>2, <3>1, <4>1 DEF Kept, Others, SmTypeOK
        <3>2. CASE StartOk(Visited)
            BY <1>1, <1>2, <2>2, <3>2, StartOkEffect
        <3> QED BY Zenon, <1>3, <3>1, <3>2 DEF RequestDependency, StartErr
    <2> QED BY Zenon, <1>2, <2>1, <2>3, OtherVisitKeeps
<1>4. CASE RequestRestart
    <2>1. Return /\ UNCHANGED auto /\ (RestartOk(Visited) \/ RestartErr(Visited))
        BY Zenon, <1>4 DEF RequestRestart
    <2>2. Kept /\ Others(Visited) /\ svc'[Visited].restarts >= svc[Visited].restarts
        BY Zenon, <1>1, <1>2, <2>1, RestartEffect
    <2> QED BY Zenon, <1>1, <1>2, <2>1, <2>2, CountsKept, Returned
<1> QED BY <1>3, <1>4

(* When a loop has visited its whole list, Progress speaks of every service.*)
LEMMA FinishKeeps ==
    ASSUME Inv, FinishRequest
    PROVE  Inv'
<1>1. SmTypeOK /\ OpOK /\ RunningIsServed /\ Progress /\ BoundedAutoRestarts
    BY DEF Inv, SmIndInv
<1>2. op' = Idle /\ UNCHANGED <<svc, live, stop_err, auto>> /\ op.i > Len(op.list)
    BY Zenon DEF FinishRequest
<1>3. op'.kind = "idle" /\ op'.list = << >> /\ op'.i = 1 /\ op'.ok = TRUE /\ Len(<< >>) = 0 /\ << >> \in Seq(Services)
    BY <1>2 DEF Idle
<1>4. reply' \in [call : {"none", "start_all", "stop_all"}, ok : BOOLEAN]
    BY Zenon, <1>1 DEF FinishRequest, SmTypeOK, NoReply
<1>5. SmTypeOK'
    BY <1>1, <1>2, <1>3, <1>4 DEF SmTypeOK, Idle, OpKinds
<1>6. OpOK' /\ Progress'
    BY <1>3 DEF OpOK, Progress
<1>7. RunningIsServed' /\ BoundedAutoRestarts'
    BY Zenon, <1>1, <1>2 DEF RunningIsServed, BoundedAutoRestarts
<1>8. ASSUME op.kind \in {"stop_all", "rollback"}, NEW s \in Services
      PROVE  Down(s) /\ (op.kind = "stop_all" /\ op.ok => s \notin stop_err)
    <2>1. op.list = StopOrder
        BY Zenon, <1>1, <1>8 DEF OpOK
    <2>2. PICK k \in 1..Len(StopOrder) : StopOrder[k] = s
        BY Zenon, Lists
    <2>3. k \in 1..(op.i - 1)
        BY <1>1, <1>2, <2>1, Lists DEF SmTypeOK
    <2> QED BY Zenon, <1>1, <1>8, <2>1, <2>2, <2>3 DEF Progress
<1>9. NothingLeftRunning'
    <2>1. CASE op.kind \in {"stop_all", "rollback"}
        <3>1. /\ reply'.call = "stop_all" => op.kind = "stop_all"
              /\ reply'.call = "stop_all" /\ reply'.ok => op.ok
            BY Zenon, <2>1 DEF FinishRequest
        <3>2. \A s \in Services : Down(s)'
            BY Zenon, <1>2, <1>8, <2>1 DEF Down
        <3>3. reply'.call = "stop_all" /\ reply'.ok => stop_err' = {}
            BY Zenon, <1>1, <1>2, <1>8, <2>1, <3>1 DEF SmTypeOK
        <3> QED BY <3>2, <3>3 DEF NothingLeftRunning
    <2>2. CASE op.kind = "start_all"
        <3>1. reply' = [call |-> "start_all", ok |-> op.ok]
            BY <2>2 DEF FinishRequest
        <3>2. op.ok = TRUE
            BY <1>1, <2>2 DEF OpOK
        <3> QED BY <3>1, <3>2 DEF NothingLeftRunning
    <2>3. CASE op.kind = "poll_health"
        <3>1. reply'.call = "none"
            BY Zenon, <2>3 DEF FinishRequest, NoReply
        <3> QED BY <3>1 DEF NothingLeftRunning
    <2> QED BY Zenon, <2>1, <2>2, <2>3 DEF FinishRequest
<1> QED BY Zenon, <1>5, <1>6, <1>7, <1>9 DEF Inv, SmIndInv

(* A process that dies is nobody's record. *)
LEMMA DieKeeps ==
    ASSUME Inv, NEW p \in Pids, Die(p)
    PROVE  Inv'
<1>1. UNCHANGED <<svc, op, reply, stop_err, auto>> /\ live' = live \ {p}
    BY Zenon DEF Die
<1>2. SmTypeOK' /\ OpOK' /\ RunningIsServed'
    BY Zenon, <1>1 DEF Inv, SmIndInv, SmTypeOK, OpOK, RunningIsServed, StopOrder
<1>3. Progress' /\ NothingLeftRunning' /\ BoundedAutoRestarts'
    BY <1>1 DEF Inv, SmIndInv, Progress, NothingLeftRunning, BoundedAutoRestarts, Down
<1> QED BY Zenon, <1>2, <1>3 DEF Inv, SmIndInv

(* The invariant holds of a new manager (manager.rs 95-99). *)
LEMMA InitInv == SmInit => Inv
<1> SUFFICES ASSUME SmInit PROVE Inv
    OBVIOUS
<1>1. Fresh \in ManagedService /\ Fresh.status = "Stopped" /\ Fresh.restarts = 0
    BY PolicyAssumption DEF Fresh, ManagedService, HealthStatus
<1>2. op.kind = "idle" /\ op.i = 1 /\ op.list = << >> /\ Len(op.list) = 0 /\ << >> \in Seq(Services)
    BY DEF SmInit, Idle
<1>3. SmTypeOK
    BY <1>1, <1>2, PolicyAssumption DEF SmInit, SmTypeOK, Idle, NoReply, OpKinds
<1>4. OpOK /\ Progress
    BY <1>2 DEF OpOK, Progress
<1>5. RunningIsServed /\ NothingLeftRunning
    BY Zenon, <1>1 DEF SmInit, RunningIsServed, NothingLeftRunning, NoReply
<1>6. BoundedAutoRestarts
    BY <1>1, PolicyAssumption DEF SmInit, BoundedAutoRestarts
<1> QED BY Zenon, <1>3, <1>4, <1>5, <1>6 DEF Inv, SmIndInv

(* Every manager call, every visit of a loop, and a process death preserve   *)
(* the invariant.                                                            *)
LEMMA NextInv == Inv /\ [SmNext]_smVars => Inv'
<1> SUFFICES ASSUME Inv, [SmNext]_smVars PROVE Inv'
    OBVIOUS
<1>1. SmTypeOK /\ RunningIsServed /\ BoundedAutoRestarts
    BY Zenon DEF Inv, SmIndInv
<1>2. CASE StartAll \/ StopAll \/ PollHealth
    BY Zenon, <1>2, Begun, Lists DEF StartAll, StopAll, PollHealth, OpKinds
<1>3. ASSUME NEW s \in Services, RequestStart(s) PROVE Inv'
    <2>1. Append(Deps[s], s) \in Seq(Services)
        BY DepsAssumption
    <2> QED BY Zenon, <1>3, <2>1, Begun DEF RequestStart, OpKinds
<1>4. ASSUME NEW s \in Services, StartOne(s) \/ StopOne(s) \/ RestartOne(s) PROVE Inv'
    <2>1. Return /\ UNCHANGED auto
        BY <1>4 DEF StartOne, StopOne, RestartOne
    <2>2. svc[s].restarts \in Nat
        BY <1>1, PolicyAssumption DEF SmTypeOK, ManagedService
    <2>3. Kept /\ Others(s) /\ svc'[s].restarts >= svc[s].restarts
        <3>1. CASE StartOk(s)
            BY <1>1, <2>2, <3>1, StartOkEffect
        <3>2. CASE StartErr(s)
            <4>1. UNCHANGED <<svc, live, stop_err>>
                BY Zenon, <3>2 DEF StartErr
            <4>2. RunningIsServed'
                BY Zenon, <1>1, <4>1 DEF RunningIsServed
            <4> QED BY <1>1, <2>2, <4>1, <4>2 DEF Kept, Others, SmTypeOK
        <3>3. CASE StopOk(s)
            BY <1>1, <2>2, <3>3, StopOkEffect
        <3>4. CASE StopErr(s)
            BY <1>1, <2>2, <3>4, StopErrEffect
        <3>5. CASE RestartOk(s) \/ RestartErr(s)
            BY Zenon, <1>1, <3>5, RestartEffect
        <3> QED BY Zenon, <1>4, <3>1, <3>2, <3>3, <3>4, <3>5 DEF StartOne, StopOne, RestartOne
    <2> QED BY <1>1, <2>1, <2>3, CountsKept, Returned
<1>5. ASSUME NEW s \in Services, HandleFailure(s) PROVE Inv'
    BY Zenon, <1>5, HandleFailureKeeps
<1>6. CASE Step
    BY Zenon, <1>6, StartAllVisitKeeps, StopAllVisitKeeps, PollVisitKeeps, RequestKeeps, FinishKeeps DEF Step
<1>7. ASSUME NEW p \in Pids, Die(p) PROVE Inv'
    BY <1>7, DieKeeps
<1>8. CASE UNCHANGED smVars
    <2>1. UNCHANGED <<svc, live, op, reply, stop_err, auto>>
        BY Zenon, <1>8 DEF smVars
    <2>2. SmTypeOK' /\ OpOK' /\ RunningIsServed'
        BY Zenon, <2>1 DEF Inv, SmIndInv, SmTypeOK, OpOK, RunningIsServed, StopOrder
    <2>3. Progress' /\ NothingLeftRunning' /\ BoundedAutoRestarts'
        BY <2>1 DEF Inv, SmIndInv, Progress, NothingLeftRunning, BoundedAutoRestarts, Down
    <2> QED BY Zenon, <2>2, <2>3 DEF Inv, SmIndInv
<1> QED BY Zenon, <1>2, <1>3, <1>4, <1>5, <1>6, <1>7, <1>8 DEF SmNext, Call

(* The inductive invariant holds in every reachable state. *)
LEMMA Invariance == SmSpec => []Inv
BY InitInv, NextInv, PTL DEF SmSpec

-----------------------------------------------------------------------------
(* The state of the manager is well formed at every step, a loop over the   *)
(* services has left behind it what it is meant to, and a service reported  *)
(* Running has a process handle unless its stop failed.                     *)
THEOREM WellFormed == SmSpec => []SmIndInv
<1>1. Inv => SmIndInv
    BY Zenon DEF Inv
<1> QED BY <1>1, Invariance, PTL

(* start_all (manager.rs 133-144) is never refused by a dependency: walking *)
(* any start order, it finds the dependencies of each service Running.      *)
THEOREM StartAllIsUnblocked == SmSpec => []StartAllUnblocked
<1>1. Inv => StartAllUnblocked
    <2> SUFFICES ASSUME Inv, op.kind = "start_all", op.i <= Len(op.list), NEW n \in 1..Len(Deps[Visited])
                 PROVE  svc[Deps[Visited][n]].status = "Running"
        BY Zenon DEF StartAllUnblocked, DependenciesRunning
    <2>1. op.list = Order /\ op.i \in 1..Len(Order) /\ Visited = Order[op.i] /\ op.i \in Nat
        BY Zenon, VisitedService DEF Inv, SmIndInv, OpOK, Visited
    <2>2. Deps[Visited][n] \in Names(Deps[Order[op.i]])
        BY Zenon, <2>1 DEF Names
    <2>3. PICK k \in 1..(op.i - 1) : Order[k] = Deps[Visited][n]
        BY Zenon, <2>1, <2>2, OrderAssumption DEF IsStartOrder, DependenciesFirst
    <2> QED BY Zenon, <2>1, <2>3 DEF Inv, SmIndInv, Progress
<1> QED BY <1>1, Invariance, PTL

(* stop_all and the rollback (manager.rs 191-204, 136) never stop a service *)
(* while one that depends on it is up and could be stopped.                 *)
THEOREM StopIsDependentsFirst == SmSpec => []StopsDependentsFirst
<1>1. Inv => StopsDependentsFirst
    <2> SUFFICES ASSUME Inv, op.kind \in {"stop_all", "rollback"}, op.i <= Len(op.list),
                        NEW s \in Services, Visited \in Names(Deps[s])
                 PROVE  Down(s)
        BY Zenon DEF StopsDependentsFirst
    <2>1. /\ op.list = StopOrder /\ op.i \in 1..Len(Order) /\ op.i \in Nat /\ Len(Order) \in Nat
          /\ Visited = Order[Len(Order) + 1 - op.i]
        <3>1. op.list = StopOrder
            BY DEF Inv, SmIndInv, OpOK
        <3> QED BY Zenon, <3>1, VisitedService, Lists DEF Visited
    <2>2. PICK m \in 1..Len(Order) : Order[m] = s
        BY Zenon, OrderAssumption DEF IsStartOrder, Enumerates
    <2>3. PICK k \in 1..(m - 1) : Order[k] = Visited
        BY Zenon, <2>2, OrderAssumption DEF IsStartOrder, DependenciesFirst
    <2>4. k = Len(Order) + 1 - op.i
        <3>1. Len(Order) + 1 - op.i \in 1..Len(Order) /\ k \in 1..Len(Order)
            BY <2>1, <2>2, <2>3
        <3> QED BY Zenon, <2>1, <2>3, <3>1, OrderAssumption DEF IsStartOrder, Enumerates
    <2>5. Len(Order) + 1 - m \in 1..(op.i - 1) /\ Len(Order) + 1 - m \in 1..Len(Order)
        BY <2>1, <2>2, <2>3, <2>4
    <2>6. StopOrder[Len(Order) + 1 - m] = s
        <3>1. Len(Order) + 1 - (Len(Order) + 1 - m) = m
            BY <2>1, <2>2
        <3> QED BY Zenon, <2>2, <2>5, <3>1, Lists
    <2> QED BY Zenon, <2>1, <2>5, <2>6 DEF Inv, SmIndInv, Progress
<1> QED BY <1>1, Invariance, PTL

(* After stop_all, and after a start_all that failed, nothing is left up    *)
(* but what the executor could not stop.                                    *)
THEOREM StopIsComplete == SmSpec => []NothingLeftRunning
<1>1. Inv => NothingLeftRunning
    BY DEF Inv
<1> QED BY <1>1, Invariance, PTL

(* handle_failure (manager.rs 239-277) ends every crash loop: at most       *)
(* restart_limit automatic restarts, none under the policy Never.           *)
THEOREM RestartsAreBounded == SmSpec => []BoundedAutoRestarts
<1>1. Inv => BoundedAutoRestarts
    BY DEF Inv
<1> QED BY <1>1, Invariance, PTL

-----------------------------------------------------------------------------
(* The supervisor (Supervision), for every policy, limit and delay.         *)

(* The delay after the restart with number r, which record_failure gives.   *)
DelayAfter(r) == least(base_ms * 2 ^ least(r, 16), max_ms)

(* The powers that record_failure uses, and that they grow.                 *)
LEMMA Powers ==
    /\ \A n \in 0..16 : 2 ^ n \in Nat \ {0}
    /\ \A n \in 0..15 : 2 ^ n <= 2 ^ (n + 1)
<1>1. ASSUME NEW n \in 0..15 PROVE 2 ^ n \in Nat \ {0} /\ 2 ^ n <= 2 ^ (n + 1)
  <2>1. CASE n = 0 BY <2>1
  <2>2. CASE n = 1 BY <2>2
  <2>3. CASE n = 2 BY <2>3
  <2>4. CASE n = 3 BY <2>4
  <2>5. CASE n = 4 BY <2>5
  <2>6. CASE n = 5 BY <2>6
  <2>7. CASE n = 6 BY <2>7
  <2>8. CASE n = 7 BY <2>8
  <2>9. CASE n = 8 BY <2>9
  <2>10. CASE n = 9 BY <2>10
  <2>11. CASE n = 10 BY <2>11
  <2>12. CASE n = 11 BY <2>12
  <2>13. CASE n = 12 BY <2>13
  <2>14. CASE n = 13 BY <2>14
  <2>15. CASE n = 14 BY <2>15
  <2>16. CASE n = 15 BY <2>16
  <2> QED BY <2>1, <2>2, <2>3, <2>4, <2>5, <2>6, <2>7, <2>8, <2>9, <2>10, <2>11, <2>12, <2>13, <2>14, <2>15, <2>16
<1>2. 2 ^ 16 \in Nat \ {0}
  OBVIOUS
<1>3. \A n \in 0..16 : n = 16 \/ n \in 0..15
  OBVIOUS
<1> QED BY <1>1, <1>2, <1>3, Zenon

(* A product grows with its factor.                                         *)
LEMMA Scaled == ASSUME NEW a \in Nat, NEW b \in Nat, NEW c \in Nat, a <= b PROVE c * a <= c * b /\ c * a \in Nat
OBVIOUS

(* Delays lie between base_ms and max_ms and never shrink.                  *)
LEMMA DelayGrows ==
    ASSUME NEW r \in Nat
    PROVE  /\ DelayAfter(r) \in base_ms..max_ms
           /\ DelayAfter(r) <= DelayAfter(r + 1)
<1> DEFINE n == least(r, 16)
           m == least(r + 1, 16)
<1>1. n \in 0..16 /\ m \in 0..16 /\ (m = n \/ (n \in 0..15 /\ m = n + 1))
  BY DEF least
<1>2. 2 ^ n \in Nat \ {0} /\ 2 ^ m \in Nat \ {0} /\ (m = n \/ 2 ^ n <= 2 ^ m)
  BY <1>1, Powers, Zenon
<1>3. 2 ^ n <= 2 ^ m
  <2>1. CASE m = n
    <3>1. 2 ^ n = 2 ^ m
      BY <2>1, Zenon
    <3> QED BY <1>2, <3>1
  <2> QED BY <1>2, <2>1
<1> HIDE DEF n, m
<1>4. /\ base_ms * 2 ^ n <= base_ms * 2 ^ m /\ base_ms * 2 ^ n \in Nat /\ base_ms * 2 ^ m \in Nat
      /\ base_ms * 1 <= base_ms * 2 ^ n
  BY <1>2, <1>3, Scaled, SupervisionAssumption
<1> QED BY <1>4, SupervisionAssumption DEF DelayAfter, least, n, m

(* While the supervisor lives the next delay is not below the last one.     *)
SupInv ==
    /\ policy \in RestartPolicies
    /\ limit \in Nat /\ restarts \in Nat /\ delay \in Nat
    /\ RestartsAsPromised
    /\ sup # "gone" => delay <= DelayAfter(restarts)

(* A supervised app that has not failed yet.                                *)
LEMMA SupInitHolds == SupInit => SupInv
<1>1. DelayAfter(0) \in base_ms..max_ms
  BY DelayGrows
<1>2. 0 <= DelayAfter(0) /\ \A n \in 0..MaxLimit : n \in Nat
  BY <1>1, SupervisionAssumption
<1> QED BY <1>2 DEF SupInit, SupInv, RestartsAsPromised, RestartPolicies

(* Every step of the supervisor keeps the invariant.                        *)
LEMMA SupStepKeeps == SupInv /\ [SupNext]_supVars => SupInv'
<1> SUFFICES ASSUME SupInv, [SupNext]_supVars PROVE SupInv'
  OBVIOUS
<1>1. CASE Observe
  <2>1. /\ DelayAfter(restarts) \in base_ms..max_ms /\ DelayAfter(restarts) \in Nat
        /\ DelayAfter(restarts) <= DelayAfter(restarts + 1) /\ delay <= DelayAfter(restarts)
    BY <1>1, DelayGrows, SupervisionAssumption DEF SupInv, Observe
  <2>2. record_failure = DelayAfter(restarts)
    BY DEF record_failure, DelayAfter
  <2>3. delay' = DelayAfter(restarts) /\ ~ shorter'
    <3>1. ~ (DelayAfter(restarts) < delay)
      BY <2>1 DEF SupInv
    <3> QED BY <1>1, <2>2, <3>1, Zenon DEF Observe, SupInv, RestartsAsPromised
  <2>4. CASE decide = "Launch"
    <3>1. sup' = "backoff" /\ restarts' = restarts + 1 /\ restarts < limit
      BY <1>1, <2>4 DEF Observe, decide, SupInv
    <3> QED BY <1>1, <2>1, <2>3, <3>1 DEF Observe, SupInv, RestartsAsPromised
  <2>5. CASE decide # "Launch"
    <3>1. sup' = "gone" /\ restarts' = restarts /\ (policy = "Never" \/ restarts = limit)
      BY <1>1, <2>5 DEF Observe, decide, SupInv, RestartsAsPromised
    <3> QED BY Zenon, <1>1, <2>1, <2>3, <3>1 DEF Observe, SupInv, RestartsAsPromised
  <2> QED BY Zenon, <2>4, <2>5
<1>2. ASSUME NEW ok \in BOOLEAN, Start(ok) PROVE SupInv'
  BY Zenon, <1>2 DEF Start, launch_child, SupInv, RestartsAsPromised, DelayAfter
<1>3. ASSUME NEW ok \in BOOLEAN, Relaunch(ok) PROVE SupInv'
  BY Zenon, <1>3 DEF Relaunch, launch_child, SupInv, RestartsAsPromised, DelayAfter
<1>4. CASE ChildExits
  BY <1>4 DEF ChildExits, SupInv, RestartsAsPromised, DelayAfter
<1>5. CASE TryWaitFails
  BY Zenon, <1>5 DEF TryWaitFails, SupInv, RestartsAsPromised, DelayAfter
<1>6. CASE UNCHANGED supVars
  BY <1>6 DEF supVars, SupInv, RestartsAsPromised, DelayAfter
<1> QED BY Zenon, <1>1, <1>2, <1>3, <1>4, <1>5, <1>6 DEF SupNext

(* For every limit and every pair of delays: no restart above the limit, no *)
(* shrinking delay, and no end before the restarts are used up.             *)
THEOREM RestartsKeepThePromise == SupSpec => []RestartsAsPromised
<1>1. SupInv => RestartsAsPromised
  BY DEF SupInv
<1> QED BY <1>1, SupInitHolds, SupStepKeeps, PTL DEF SupSpec
=============================================================================
