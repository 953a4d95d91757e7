---------------------------- MODULE ServerProofs ----------------------------
(***************************************************************************)
(* Proofs about Server for every number of connections, every limit and    *)
(* every number of calls of Shutdown.                                      *)
(***************************************************************************)
EXTENDS Server, FiniteSetTheorems, TLAPS

(* The type invariant needs the accounting: a counter that is decremented  *)
(* is positive because the connection that decrements it is counted.       *)
Counted == TypeOK /\ Accounting

(* The sets that the counters count are finite.                            *)
LEMMA CountedFinite ==
  /\ IsFiniteSet(InFlight) /\ Cardinality(InFlight) \in Nat
  /\ IsFiniteSet(Holding) /\ Cardinality(Holding) \in Nat
<1>1. InFlight \in SUBSET Conns /\ Holding \in SUBSET Conns
  BY DEF InFlight, Holding
<1> QED
  BY <1>1, FiniteAssumption, FS_Subset, FS_CardinalityType

(* A step that changes neither the counters nor the counted sets.          *)
LEMMA Uncounted ==
  ASSUME Accounting, InFlight' = InFlight, Holding' = Holding,
         wg' = wg, sem' = sem
  PROVE  Accounting'
BY DEF Accounting, Unlimited

(* The counted sets after one connection changes its state.                *)
LEMMA Moved ==
  ASSUME TypeOK, NEW c \in Conns,
         NEW s \in {"absent", "backlog", "accepted", "rejected", "admitted",
                    "running", "returned", "released", "gone"},
         conn' = [conn EXCEPT ![c] = s]
  PROVE  /\ InFlight' = IF s \in {"running", "returned", "released"}
                          THEN InFlight \cup {c} ELSE InFlight \ {c}
         /\ Holding' = IF s \in {"admitted", "running", "returned"}
                         THEN Holding \cup {c} ELSE Holding \ {c}
<1>1. conn \in [Conns -> {"absent", "backlog", "accepted", "rejected",
                          "admitted", "running", "returned", "released",
                          "gone"}]
  BY DEF TypeOK
<1>2. \A d \in Conns : conn'[d] = IF d = c THEN s ELSE conn[d]
  BY <1>1
<1>3. InFlight' = {d \in Conns : conn'[d] \in {"running", "returned", "released"}}
  BY DEF InFlight
<1>4. Holding' = {d \in Conns : conn'[d] \in {"admitted", "running", "returned"}}
  BY DEF Holding
<1> QED
  BY <1>2, <1>3, <1>4 DEF InFlight, Holding

(* A connection moves between two states that count alike.                 *)
LEMMA MovedAlike ==
  ASSUME Counted, NEW c \in Conns,
         NEW s \in {"absent", "backlog", "accepted", "rejected", "admitted",
                    "running", "returned", "released", "gone"},
         conn' = [conn EXCEPT ![c] = s],
         conn[c] \in {"running", "returned", "released"}
           <=> s \in {"running", "returned", "released"},
         conn[c] \in {"admitted", "running", "returned"}
           <=> s \in {"admitted", "running", "returned"},
         wg' = wg, sem' = sem
  PROVE  Accounting'
<1>1. InFlight' = InFlight
  BY Moved DEF Counted, InFlight
<1>2. Holding' = Holding
  BY Moved DEF Counted, Holding
<1> QED
  BY <1>1, <1>2, Uncounted DEF Counted

(* The steps of the accept loop and of a session keep Counted.             *)
LEMMA CountedMoves ==
  ASSUME Counted, NEW c \in Conns,
         \/ Connect(c) \/ Accept(c) \/ Admit(c) \/ Reject(c) \/ Rejected(c)
         \/ Spawn(c) \/ SessionEnds(c) \/ ReleaseSlot(c) \/ Done(c)
  PROVE  Counted'
<1>0. TypeOK /\ wg \in Nat /\ sem \in Nat
  BY CountedFinite DEF Counted, TypeOK
<1>1. CASE Connect(c)
  <2>1. Accounting'
    BY <1>1, MovedAlike DEF Connect
  <2> QED
    BY <1>1, <2>1 DEF Connect, callVars, Counted, TypeOK
<1>2. CASE Accept(c)
  <2>1. Accounting'
    BY <1>2, MovedAlike DEF Accept
  <2> QED
    BY <1>2, <2>1 DEF Accept, callVars, Counted, TypeOK
<1>3. CASE Admit(c)
  <2>1. conn[c] = "accepted" /\ conn' = [conn EXCEPT ![c] = "admitted"]
        /\ wg' = wg /\ (~Unlimited => sem' = sem + 1)
    BY <1>3 DEF Admit
  <2>2. InFlight' = InFlight
    BY <1>0, <2>1, Moved DEF InFlight
  <2>3. Holding' = Holding \cup {c} /\ c \notin Holding
    BY <1>0, <2>1, Moved DEF Holding
  <2>4. Cardinality(Holding') = Cardinality(Holding) + 1
    BY <2>3, CountedFinite, FS_AddElement
  <2>5. Accounting'
    BY <2>1, <2>2, <2>4 DEF Counted, Accounting, Unlimited
  <2> QED
    BY <1>3, <2>5 DEF Admit, callVars, Counted, TypeOK
<1>4. CASE Reject(c)
  <2>1. Accounting'
    BY <1>4, MovedAlike DEF Reject
  <2> QED
    BY <1>4, <2>1 DEF Reject, callVars, Counted, TypeOK
<1>5. CASE Rejected(c)
  <2>1. Accounting'
    BY <1>5, MovedAlike DEF Rejected
  <2> QED
    BY <1>5, <2>1 DEF Rejected, callVars, Counted, TypeOK
<1>6. CASE Spawn(c)
  <2>1. conn[c] = "admitted" /\ conn' = [conn EXCEPT ![c] = "running"]
        /\ wg' = wg + 1 /\ sem' = sem
    BY <1>6 DEF Spawn
  <2>2. Holding' = Holding
    BY <1>0, <2>1, Moved DEF Holding
  <2>3. InFlight' = InFlight \cup {c} /\ c \notin InFlight
    BY <1>0, <2>1, Moved DEF InFlight
  <2>4. Cardinality(InFlight') = Cardinality(InFlight) + 1
    BY <2>3, CountedFinite, FS_AddElement
  <2>5. Accounting'
    BY <2>1, <2>2, <2>4 DEF Counted, Accounting, Unlimited
  <2> QED
    BY <1>6, <2>5 DEF Spawn, callVars, Counted, TypeOK
<1>7. CASE SessionEnds(c)
  <2>1. Accounting'
    BY <1>7, MovedAlike DEF SessionEnds
  <2> QED
    BY <1>7, <2>1 DEF SessionEnds, callVars, Counted, TypeOK
<1>8. CASE ReleaseSlot(c)
  <2>1. conn[c] = "returned" /\ conn' = [conn EXCEPT ![c] = "released"]
        /\ wg' = wg /\ sem' = (IF Unlimited THEN sem ELSE sem - 1)
    BY <1>8 DEF ReleaseSlot
  <2>2. InFlight' = InFlight
    BY <1>0, <2>1, Moved DEF InFlight
  <2>3. Holding' = Holding \ {c} /\ c \in Holding
    BY <1>0, <2>1, Moved DEF Holding
  <2>4. Cardinality(Holding') = Cardinality(Holding) - 1
        /\ Cardinality(Holding') \in Nat
    BY <2>3, CountedFinite, FS_RemoveElement, FS_CardinalityType
  <2>5. Accounting'
    BY <2>1, <2>2, <2>4 DEF Counted, Accounting, Unlimited
  <2>6. sem' \in Nat
    BY <1>0, <2>1, <2>4 DEF Counted, Accounting
  <2> QED
    BY <1>8, <2>5, <2>6 DEF ReleaseSlot, callVars, Counted, TypeOK
<1>9. CASE Done(c)
  <2>1. conn[c] = "released" /\ conn' = [conn EXCEPT ![c] = "gone"]
        /\ wg' = wg - 1 /\ sem' = sem
    BY <1>9 DEF Done
  <2>2. Holding' = Holding
    BY <1>0, <2>1, Moved DEF Holding
  <2>3. InFlight' = InFlight \ {c} /\ c \in InFlight
    BY <1>0, <2>1, Moved DEF InFlight
  <2>4. Cardinality(InFlight') = Cardinality(InFlight) - 1
        /\ Cardinality(InFlight') \in Nat
    BY <2>3, CountedFinite, FS_RemoveElement, FS_CardinalityType
  <2>5. Accounting'
    BY <2>1, <2>2, <2>4 DEF Counted, Accounting, Unlimited
  <2>6. wg' \in Nat
    BY <2>1, <2>4 DEF Counted, Accounting
  <2> QED
    BY <1>9, <2>5, <2>6 DEF Done, callVars, Counted, TypeOK
<1> QED
  BY <1>1, <1>2, <1>3, <1>4, <1>5, <1>6, <1>7, <1>8, <1>9

(* The other steps move no connection.                                     *)
LEMMA CountedStays ==
  ASSUME Counted,
         \/ UNCHANGED vars \/ CloseListener
         \/ SetupFails \/ Configure \/ AcceptFails \/ Drained
         \/ \E w \in Waiters : Wait(w)
         \/ \E p \in Callers : Call(p)
  PROVE  Counted'
<1>1. UNCHANGED <<conn, wg, sem>>
  BY DEF vars, serverVars, callVars, CloseListener, SetupFails, Configure,
         AcceptFails, Drained, Wait, WaitFindsZero, WaitRegisters, WaitReturns,
         WaitPanics, Call, Shutdown, ShutdownReturns, ShutdownExpires
<1>2. Accounting'
  BY <1>1, Uncounted DEF Counted, InFlight, Holding
<1>3. InFlight \in SUBSET Conns
  BY DEF InFlight
<1>4. TypeOK'
  <2>1. CASE UNCHANGED vars \/ CloseListener
    BY <2>1 DEF CloseListener, Counted, TypeOK, vars, serverVars, callVars
  <2>2. CASE SetupFails \/ Configure \/ AcceptFails \/ Drained
    BY <2>2, <1>3 DEF SetupFails, Configure, AcceptFails, Drained, Counted,
         TypeOK, callVars, Waiters
  <2>3. ASSUME NEW w \in Waiters, Wait(w)
        PROVE  TypeOK'
    BY <2>3, ZenonT(30) DEF Wait, WaitFindsZero, WaitRegisters, WaitReturns, WaitPanics,
         Counted, TypeOK, callVars
  <2>4. ASSUME NEW p \in Callers, Call(p)
        PROVE  TypeOK'
    <3>1. p \in Waiters
      BY DEF Waiters
    <3>2. CASE Shutdown(p)
      <4>1. ctx' \in {"none", "live", "cancelled"}
        BY <3>2 DEF Shutdown, Counted, TypeOK
      <4>2. owed' \in [Waiters -> SUBSET Conns]
        BY <3>1, <3>2, <1>3 DEF Shutdown, Counted, TypeOK
      <4> QED
        BY <3>1, <3>2, <4>1, <4>2 DEF Shutdown, Counted, TypeOK
    <3>3. CASE ShutdownReturns(p)
      BY <3>3 DEF ShutdownReturns, Counted, TypeOK, serverVars
    <3>4. CASE ShutdownExpires(p)
      BY <3>4 DEF ShutdownExpires, Counted, TypeOK, serverVars
    <3> QED
      BY <2>4, <3>2, <3>3, <3>4 DEF Call
  <2> QED
    BY <2>1, <2>2, <2>3, <2>4
<1> QED
  BY <1>2, <1>4 DEF Counted

(* The inductive step of Counted.                                          *)
LEMMA CountedStep == Counted /\ [Next]_vars => Counted'
<1> SUFFICES ASSUME Counted, [Next]_vars
             PROVE  Counted'
  OBVIOUS
<1> QED
  BY CountedMoves, CountedStays DEF Next, Loop, Session

LEMMA CountedInit == Init => Counted
<1> SUFFICES ASSUME Init
             PROVE  Counted
  OBVIOUS
<1>1. InFlight = {} /\ Holding = {}
  BY DEF Init, InFlight, Holding
<1> QED
  BY <1>1, FS_EmptySet DEF Init, Counted, TypeOK, Accounting

(* Serve keeps its types.                                                  *)
THEOREM TypeCorrect == Spec => []TypeOK
<1>1. Counted => TypeOK
  BY DEF Counted
<1> QED
  BY <1>1, CountedInit, CountedStep, PTL DEF Spec

(* No path leaks a slot of the semaphore or a count of the WaitGroup.      *)
THEOREM AccountingCorrect == Spec => []Accounting
<1>1. Counted => Accounting
  BY DEF Counted
<1> QED
  BY <1>1, CountedInit, CountedStep, PTL DEF Spec

-----------------------------------------------------------------------------
(* The cap, from the accounting: the semaphore admits only below it.       *)
LEMMA CapStep ==
  Counted /\ Counted' /\ CapRespected /\ [Next]_vars => CapRespected'
<1> SUFFICES ASSUME Counted, Counted', CapRespected, [Next]_vars, ~Unlimited
             PROVE  Cardinality(Holding') <= MaxConnections
  BY DEF CapRespected, Unlimited
<1>1. sem = Cardinality(Holding) /\ sem' = Cardinality(Holding')
  BY DEF Counted, Accounting, Unlimited
<1>2. sem <= MaxConnections /\ sem \in Nat /\ MaxConnections \in Nat
  BY <1>1, LimitAssumption DEF CapRespected, Counted, TypeOK
<1>3. sem' = sem \/ sem' = sem - 1 \/ (sem' = sem + 1 /\ sem < MaxConnections)
  <2>1. CASE \E c \in Conns : Admit(c)
    BY <2>1 DEF Admit
  <2>2. CASE \E c \in Conns : ReleaseSlot(c)
    BY <2>2 DEF ReleaseSlot
  <2>3. ASSUME NEW c \in Conns,
               \/ Connect(c) \/ Accept(c) \/ Reject(c) \/ Rejected(c)
               \/ Spawn(c) \/ SessionEnds(c) \/ Done(c)
        PROVE  sem' = sem
    BY <2>3 DEF Connect, Accept, Reject, Rejected, Spawn, SessionEnds, Done
  <2>4. ASSUME \/ UNCHANGED vars \/ CloseListener
               \/ SetupFails \/ Configure \/ AcceptFails \/ Drained
               \/ \E w \in Waiters : Wait(w)
               \/ \E p \in Callers : Call(p)
        PROVE  sem' = sem
    BY <2>4 DEF vars, serverVars, CloseListener, SetupFails, Configure,
       AcceptFails, Drained, Wait, WaitFindsZero, WaitRegisters, WaitReturns,
       WaitPanics, Call, Shutdown, ShutdownReturns, ShutdownExpires
  <2> QED
    BY <2>1, <2>2, <2>3, <2>4 DEF Next, Loop, Session
<1> QED
  BY <1>1, <1>2, <1>3

(* MaxConnections caps the sessions that hold a slot.                      *)
THEOREM CapCorrect == Spec => []CapRespected
<1>1. Init => CapRespected
  <2> SUFFICES ASSUME Init
               PROVE  CapRespected
    OBVIOUS
  <2>1. Holding = {}
    BY DEF Init, Holding
  <2> QED
    BY <2>1, FS_EmptySet, LimitAssumption DEF CapRespected
<1> QED
  BY <1>1, CountedInit, CountedStep, CapStep, PTL DEF Spec

-----------------------------------------------------------------------------
(* What a wait for the WaitGroup owes, as an inductive invariant: a        *)
(* goroutine that was woken, or whose Wait is over, leaves none of the     *)
(* sessions that ran when it started; and once the loop has left for its   *)
(* own wait, no session is added behind it.                                *)
OwedRan ==
  \A w \in Waiters : \A c \in owed[w] :
    conn[c] \in {"running", "returned", "released", "gone"}

OwedGone ==
  \A w \in Waiters :
    waiter[w] \in {"woken", "done"} => \A c \in owed[w] : conn[c] = "gone"

NilWaited ==
  \A p \in Callers :
    /\ caller[p] = "nil" => waiter[p] = "done"
    /\ caller[p] = "idle" => waiter[p] = "idle"

LoopWaited ==
  /\ serve \in {"drain", "nil"} => ctx = "cancelled"
  /\ serve = "nil" => waiter["Serve"] = "done"
  /\ serve \in {"drain", "nil"} /\ waiter["Serve"] = "done" => InFlight = {}
  /\ serve \notin {"drain", "nil"} => waiter["Serve"] = "idle"

WaitInv == OwedRan /\ OwedGone /\ NilWaited /\ LoopWaited

(* The counter is zero exactly when no session is in flight.               *)
LEMMA ZeroEmpty ==
  ASSUME Counted
  PROVE  wg = 0 <=> InFlight = {}
BY CountedFinite, FS_EmptySet DEF Counted, Accounting

(* The last Done leaves no session in flight.                              *)
LEMMA LastDone ==
  ASSUME Counted, NEW c \in Conns, Done(c), wg = 1
  PROVE  InFlight = {c}
<1>1. c \in InFlight
  BY DEF Done, InFlight
<1>2. Cardinality(InFlight) = 1
  BY DEF Counted, Accounting
<1>3. PICK x : InFlight = {x}
  BY <1>2, CountedFinite, FS_Singleton
<1> QED
  BY <1>1, <1>3

LEMMA WaitInvInit == Init => WaitInv
BY DEF Init, WaitInv, OwedRan, OwedGone, NilWaited, LoopWaited, Waiters, InFlight

(* The steps that move a connection, but not the last Done, keep WaitInv:  *)
(* no owed session leaves "gone", and none starts behind a draining loop.  *)
LEMMA WaitInvMoves ==
  ASSUME Counted, WaitInv, NEW c \in Conns,
         \/ Connect(c) \/ Accept(c) \/ Admit(c) \/ Reject(c) \/ Rejected(c)
         \/ Spawn(c) \/ SessionEnds(c) \/ ReleaseSlot(c)
  PROVE  WaitInv'
<1>0. \A w \in Waiters : owed[w] \in SUBSET Conns
  BY DEF Counted, TypeOK
<1>1. /\ UNCHANGED <<waiter, owed, caller, ctx>>
      /\ serve \notin {"drain", "nil"} <=> serve' \notin {"drain", "nil"}
      /\ serve = "nil" <=> serve' = "nil"
  BY DEF Connect, Accept, Admit, Reject, Rejected, Spawn, SessionEnds,
         ReleaseSlot, callVars
<1>2. \A d \in Conns :
        /\ conn[d] = "gone" => conn'[d] = "gone"
        /\ conn[d] \in {"running", "returned", "released", "gone"}
             => conn'[d] \in {"running", "returned", "released", "gone"}
        /\ /\ serve \in {"drain", "nil"}
           /\ conn'[d] \in {"running", "returned", "released"}
           => conn[d] \in {"running", "returned", "released"}
  BY DEF Connect, Accept, Admit, Reject, Rejected, Spawn, SessionEnds,
         ReleaseSlot, Counted, TypeOK
<1>3. serve \in {"drain", "nil"} /\ InFlight = {} => InFlight' = {}
  BY <1>2 DEF InFlight
<1>4. OwedRan' /\ OwedGone' /\ NilWaited'
  BY <1>0, <1>1, <1>2 DEF WaitInv, OwedRan, OwedGone, NilWaited
<1>5. LoopWaited'
  BY <1>1, <1>3 DEF WaitInv, LoopWaited
<1> QED
  BY <1>4, <1>5 DEF WaitInv

(* The last Done wakes the waiters, and then every owed session is gone.   *)
LEMMA WaitInvDone ==
  ASSUME Counted, WaitInv, NEW c \in Conns, Done(c)
  PROVE  WaitInv'
<1>0. \A w \in Waiters : owed[w] \in SUBSET Conns
  BY DEF Counted, TypeOK
<1>1. /\ UNCHANGED <<owed, caller, ctx, serve>>
      /\ \A d \in Conns : conn'[d] = IF d = c THEN "gone" ELSE conn[d]
  BY DEF Done, Counted, TypeOK, callVars
<1>2. \A w \in Waiters :
        waiter'[w] = waiter[w]
        \/ (wg = 1 /\ waiter[w] = "registered" /\ waiter'[w] = "woken")
  BY DEF Done, Counted, TypeOK
<1>3. wg = 1 => \A w \in Waiters : \A d \in owed[w] : conn'[d] = "gone"
  BY <1>0, <1>1, LastDone DEF WaitInv, OwedRan, InFlight
<1>4. "Serve" \in Waiters /\ Callers \subseteq Waiters
  BY DEF Waiters
<1>5. OwedRan'
  BY <1>0, <1>1 DEF WaitInv, OwedRan
<1>6. OwedGone'
  BY <1>0, <1>1, <1>2, <1>3 DEF WaitInv, OwedGone
<1>7. NilWaited'
  BY <1>1, <1>2, <1>4 DEF WaitInv, NilWaited
<1>8. InFlight = {} => InFlight' = {}
  BY <1>1 DEF InFlight
<1>9. LoopWaited'
  BY <1>1, <1>2, <1>4, <1>8 DEF WaitInv, LoopWaited
<1> QED
  BY <1>5, <1>6, <1>7, <1>9 DEF WaitInv

(* A wait that returns found the counter zero.                             *)
LEMMA WaitInvWait ==
  ASSUME Counted, WaitInv, NEW w \in Waiters, Wait(w)
  PROVE  WaitInv'
<1>1. /\ UNCHANGED <<owed, caller, ctx, serve, conn>>
      /\ \A v \in Waiters \ {w} : waiter'[v] = waiter[v]
      /\ waiter[w] # "done" \/ waiter' = waiter
      /\ waiter[w] # "idle" \/ waiter' = waiter
      /\ waiter'[w] # "idle" \/ waiter' = waiter
      /\ waiter'[w] = "done" => InFlight = {} \/ waiter' = waiter
      /\ waiter'[w] = "woken" => waiter' = waiter
  BY ZeroEmpty DEF Wait, WaitFindsZero, WaitRegisters, WaitReturns, WaitPanics,
         Counted, TypeOK, callVars
<1>2. InFlight' = InFlight
  BY <1>1 DEF InFlight
<1>3. OwedRan'
  BY <1>1 DEF WaitInv, OwedRan
<1>4. "Serve" \in Waiters /\ Callers \subseteq Waiters
  BY DEF Waiters
<1>5. OwedGone'
  <2>1. InFlight = {} => \A v \in Waiters : \A d \in owed[v] : conn[d] = "gone"
    BY DEF WaitInv, OwedRan, InFlight, Counted, TypeOK
  <2> QED
    BY <1>1, <2>1 DEF WaitInv, OwedGone
<1>6. NilWaited'
  BY <1>1, <1>4 DEF WaitInv, NilWaited
<1>7. LoopWaited'
  BY <1>1, <1>2, <1>4 DEF WaitInv, LoopWaited
<1> QED
  BY <1>3, <1>5, <1>6, <1>7 DEF WaitInv

(* A call of Shutdown starts a wait that owes the sessions in flight.      *)
LEMMA WaitInvCall ==
  ASSUME Counted, WaitInv, NEW p \in Callers, Call(p)
  PROVE  WaitInv'
<1>0. p \in Waiters /\ p # "Serve" /\ Callers \subseteq Waiters /\ "Serve" \in Waiters
  BY CallerAssumption DEF Waiters
<1>1. UNCHANGED <<conn, serve>> /\ (ctx = "cancelled" => ctx' = "cancelled")
  BY DEF Call, Shutdown, ShutdownReturns, ShutdownExpires, serverVars
<1>2. InFlight' = InFlight
  BY <1>1 DEF InFlight
<1>3. CASE Shutdown(p)
  <2>1. /\ \A w \in Waiters \ {p} : waiter'[w] = waiter[w] /\ owed'[w] = owed[w]
        /\ waiter'[p] = "started" /\ owed'[p] = InFlight
        /\ \A q \in Callers \ {p} : caller'[q] = caller[q]
        /\ caller'[p] = "waiting"
    BY <1>0, <1>3 DEF Shutdown, Counted, TypeOK
  <2>2. OwedRan'
    BY <1>1, <2>1 DEF WaitInv, OwedRan, InFlight
  <2>3. OwedGone'
    BY <1>1, <2>1 DEF WaitInv, OwedGone
  <2>4. NilWaited'
    BY <1>0, <2>1 DEF WaitInv, NilWaited
  <2>5. LoopWaited'
    BY <1>0, <1>1, <1>2, <2>1 DEF WaitInv, LoopWaited
  <2> QED
    BY <2>2, <2>3, <2>4, <2>5 DEF WaitInv
<1>4. CASE ShutdownReturns(p) \/ ShutdownExpires(p)
  <2>1. /\ UNCHANGED <<waiter, owed>>
        /\ \A q \in Callers \ {p} : caller'[q] = caller[q]
        /\ caller'[p] = "nil" => waiter[p] = "done"
        /\ caller'[p] # "idle"
    BY <1>4 DEF ShutdownReturns, ShutdownExpires, serverVars, Counted, TypeOK
  <2>2. OwedRan' /\ OwedGone'
    BY <1>1, <2>1 DEF WaitInv, OwedRan, OwedGone
  <2>3. NilWaited'
    BY <2>1 DEF WaitInv, NilWaited
  <2>4. LoopWaited'
    BY <1>1, <1>2, <2>1 DEF WaitInv, LoopWaited
  <2> QED
    BY <2>2, <2>3, <2>4 DEF WaitInv
<1> QED
  BY <1>3, <1>4 DEF Call

(* The loop enters its own wait, and leaves it.                            *)
LEMMA WaitInvLoop ==
  ASSUME Counted, WaitInv,
         \/ UNCHANGED vars \/ CloseListener
         \/ SetupFails \/ Configure \/ AcceptFails \/ Drained
  PROVE  WaitInv'
<1>0. Callers \subseteq Waiters /\ "Serve" \in Waiters /\ "Serve" \notin Callers
  BY CallerAssumption DEF Waiters
<1>1. UNCHANGED <<conn, caller>>
  BY DEF vars, serverVars, callVars, CloseListener, SetupFails, Configure,
         AcceptFails, Drained
<1>2. InFlight' = InFlight
  BY <1>1 DEF InFlight
<1>3. CASE UNCHANGED vars \/ CloseListener \/ SetupFails \/ Configure \/ Drained
  <2>1. UNCHANGED <<waiter, owed>>
    BY <1>3 DEF vars, serverVars, CloseListener, SetupFails, Configure, Drained
  <2>2. OwedRan' /\ OwedGone' /\ NilWaited'
    BY <1>1, <2>1 DEF WaitInv, OwedRan, OwedGone, NilWaited
  <2>3. \/ UNCHANGED <<serve, ctx>>
        \/ serve = "idle" /\ serve' \in {"accept", "error"}
        \/ /\ serve = "drain" /\ waiter["Serve"] = "done" /\ serve' = "nil"
           /\ ctx' = ctx
    BY <1>3 DEF vars, serverVars, CloseListener, SetupFails, Configure, Drained
  <2>4. LoopWaited'
    BY <1>2, <2>1, <2>3 DEF WaitInv, LoopWaited
  <2> QED
    BY <2>2, <2>4 DEF WaitInv
<1>4. CASE AcceptFails /\ ctx = "cancelled"
  <2>1. /\ \A w \in Waiters \ {"Serve"} : waiter'[w] = waiter[w] /\ owed'[w] = owed[w]
        /\ waiter'["Serve"] = "started" /\ owed'["Serve"] = InFlight
        /\ serve' = "drain" /\ ctx' = "cancelled"
    BY <1>0, <1>4 DEF AcceptFails, Counted, TypeOK
  <2>2. OwedRan' /\ OwedGone'
    BY <1>1, <2>1 DEF WaitInv, OwedRan, OwedGone, InFlight
  <2>3. NilWaited'
    BY <1>0, <1>1, <2>1 DEF WaitInv, NilWaited
  <2>4. LoopWaited'
    BY <2>1 DEF LoopWaited
  <2> QED
    BY <2>2, <2>3, <2>4 DEF WaitInv
<1>5. CASE AcceptFails /\ ctx # "cancelled"
  <2>1. UNCHANGED <<waiter, owed, ctx>> /\ serve = "accept" /\ serve' = "error"
    BY <1>5 DEF AcceptFails
  <2> QED
    BY <1>1, <1>2, <2>1
       DEF WaitInv, OwedRan, OwedGone, NilWaited, LoopWaited
<1> QED
  BY <1>3, <1>4, <1>5

LEMMA WaitInvStep == Counted /\ WaitInv /\ [Next]_vars => WaitInv'
<1> SUFFICES ASSUME Counted, WaitInv, [Next]_vars
             PROVE  WaitInv'
  OBVIOUS
<1> QED
  BY WaitInvMoves, WaitInvDone, WaitInvWait, WaitInvCall, WaitInvLoop
     DEF Next, Loop, Session

(* A Shutdown that returns nil leaves none of the sessions it found.       *)
THEOREM ShutdownNilDrainedCorrect == Spec => []ShutdownNilDrained
<1>1. WaitInv => ShutdownNilDrained
  BY DEF WaitInv, OwedGone, NilWaited, ShutdownNilDrained, Waiters
<1> QED
  BY <1>1, CountedInit, CountedStep, WaitInvInit, WaitInvStep, PTL DEF Spec

(* A Serve that returns nil leaves no session at all.                      *)
THEOREM ServeNilDrainedCorrect == Spec => []ServeNilDrained
<1>1. WaitInv => ServeNilDrained
  BY DEF WaitInv, LoopWaited, ServeNilDrained
<1> QED
  BY <1>1, CountedInit, CountedStep, WaitInvInit, WaitInvStep, PTL DEF Spec

=============================================================================
