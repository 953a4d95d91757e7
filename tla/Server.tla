------------------------------- MODULE Server -------------------------------
(***************************************************************************)
(* Server.Serve and Server.Shutdown of src/gateway.go: the accept loop,    *)
(* the semaphore that caps connections, the WaitGroup that counts them,    *)
(* and any number of concurrent calls of Shutdown.  A session (handleConn) *)
(* is one process that runs and ends; what it does is module Connection.   *)
(***************************************************************************)
EXTENDS Integers, FiniteSets

CONSTANTS
  Conns,          \* bound: the connections clients ever open
  MaxConnections, \* Server.MaxConnections, 0 for no limit
  Callers         \* bound: the calls of Shutdown

ASSUME LimitAssumption == MaxConnections \in Nat
ASSUME FiniteAssumption == IsFiniteSet(Conns) /\ IsFiniteSet(Callers)
ASSUME CallerAssumption == "Serve" \notin Callers

VARIABLES
  kind,     \* "plain", or "tls" when Serve got a tls.Listener
  listener, \* "open", until its owner closes it
  serve,    \* where the accept loop is
  ctx,      \* s.ctx: not created, live or cancelled
  once,     \* shutdownOnce has run
  conn,     \* the life of each connection
  sem,      \* len(s.connSem)
  wg,       \* the counter of s.wg
  waiter,   \* each goroutine that calls s.wg.Wait
  caller,   \* each call of Shutdown
  crashed,  \* a WaitGroup misuse panicked: the process is dead
  owed      \* history: sessions that ran when each Wait was called

serverVars == <<serve, ctx, conn, sem, wg, waiter, crashed, owed>>
callVars == <<once, caller>>
vars == <<kind, listener, serverVars, callVars>>

Waiters == Callers \cup {"Serve"}

Unlimited == MaxConnections = 0

InFlight == {c \in Conns : conn[c] \in {"running", "returned", "released"}}
Holding == {c \in Conns : conn[c] \in {"admitted", "running", "returned"}}

-----------------------------------------------------------------------------
(* Clients and the owner of the listener.                                  *)

(* A TCP connection waits in the backlog of the listener.                  *)
Connect(c) ==
  /\ listener = "open" /\ conn[c] = "absent"
  /\ conn' = [conn EXCEPT ![c] = "backlog"]
  /\ UNCHANGED <<kind, listener, serve, ctx, sem, wg, waiter, crashed, owed,
                 callVars>>

CloseListener ==
  /\ listener = "open"
  /\ listener' = "closed"
  /\ UNCHANGED <<kind, serverVars, callVars>>

-----------------------------------------------------------------------------
(* Serve.                                                                  *)

(* A nil Handler, RequireTLS without TLSConfig, a negative limit, or a     *)
(* PostcatDir that cannot be made.                                         *)
SetupFails ==
  /\ ~crashed /\ serve = "idle"
  /\ serve' = "error"
  /\ UNCHANGED <<kind, listener, ctx, conn, sem, wg, waiter, crashed, owed,
                 callVars>>

(* The context is created here, and not by NewServer.                      *)
Configure ==
  /\ ~crashed /\ serve = "idle"
  /\ serve' = "accept"
  /\ ctx' = "live"
  /\ UNCHANGED <<kind, listener, conn, sem, wg, waiter, crashed, owed,
                 callVars>>

Accept(c) ==
  /\ ~crashed /\ serve = "accept" /\ listener = "open" /\ conn[c] = "backlog"
  /\ serve' = "decide"
  /\ conn' = [conn EXCEPT ![c] = "accepted"]
  /\ UNCHANGED <<kind, listener, ctx, sem, wg, waiter, crashed, owed, callVars>>

(* Mutant: after Shutdown, Serve returns without waiting for sessions.     *)
AcceptFailsNoWait ==
  /\ ~crashed /\ serve = "accept"
  /\ serve' = IF ctx = "cancelled" THEN "nil" ELSE "error"
  /\ UNCHANGED <<kind, listener, ctx, conn, sem, wg, waiter, crashed, owed,
                 callVars>>

(* The listener is closed or reports an error of its own.                  *)
AcceptFails ==
  /\ ~crashed /\ serve = "accept"
  /\ IF ctx = "cancelled"
       THEN /\ serve' = "drain"
            /\ waiter' = [waiter EXCEPT !["Serve"] = "started"]
            /\ owed' = [owed EXCEPT !["Serve"] = InFlight]
       ELSE serve' = "error" /\ UNCHANGED <<waiter, owed>>
  /\ UNCHANGED <<kind, listener, ctx, conn, sem, wg, crashed, callVars>>

(* Mutant: the comparison with the capacity is off by one.                 *)
AdmitOneMore(c) ==
  /\ ~crashed /\ serve = "decide" /\ conn[c] = "accepted"
  /\ ~Unlimited => sem <= MaxConnections
  /\ serve' = "add"
  /\ conn' = [conn EXCEPT ![c] = "admitted"]
  /\ sem' = IF Unlimited THEN sem ELSE sem + 1
  /\ UNCHANGED <<kind, listener, ctx, wg, waiter, crashed, owed, callVars>>

Admit(c) ==
  /\ ~crashed /\ serve = "decide" /\ conn[c] = "accepted"
  /\ ~Unlimited => sem < MaxConnections
  /\ serve' = "add"
  /\ conn' = [conn EXCEPT ![c] = "admitted"]
  /\ sem' = IF Unlimited THEN sem ELSE sem + 1
  /\ UNCHANGED <<kind, listener, ctx, wg, waiter, crashed, owed, callVars>>

Reject(c) ==
  /\ ~crashed /\ serve = "decide" /\ conn[c] = "accepted"
  /\ ~Unlimited /\ sem = MaxConnections
  /\ serve' = "reject"
  /\ conn' = [conn EXCEPT ![c] = "rejected"]
  /\ UNCHANGED <<kind, listener, ctx, sem, wg, waiter, crashed, owed, callVars>>

(* Mutant: the branch of the full server falls out of the loop.            *)
RejectedStops(c) ==
  /\ ~crashed /\ serve = "reject" /\ conn[c] = "rejected"
  /\ conn' = [conn EXCEPT ![c] = "gone"]
  /\ UNCHANGED <<kind, listener, serve, ctx, sem, wg, waiter, crashed, owed,
                 callVars>>

(* The 421 is written, within a second on a plain connection.  The write   *)
(* of a tls.Conn runs the handshake first, and its read has no deadline:   *)
(* it ends when the client sends its hello or goes away.                   *)
Rejected(c) ==
  /\ ~crashed /\ serve = "reject" /\ conn[c] = "rejected"
  /\ serve' = "accept"
  /\ conn' = [conn EXCEPT ![c] = "gone"]
  /\ UNCHANGED <<kind, listener, ctx, sem, wg, waiter, crashed, owed, callVars>>

(* Mutant: the connection is not added to the WaitGroup.                   *)
SpawnUncounted(c) ==
  /\ ~crashed /\ serve = "add" /\ conn[c] = "admitted"
  /\ serve' = "accept"
  /\ conn' = [conn EXCEPT ![c] = "running"]
  /\ UNCHANGED <<kind, listener, ctx, sem, wg, waiter, crashed, owed, callVars>>

(* wg.Add(1) and the go statement.                                         *)
Spawn(c) ==
  /\ ~crashed /\ serve = "add" /\ conn[c] = "admitted"
  /\ serve' = "accept"
  /\ conn' = [conn EXCEPT ![c] = "running"]
  /\ wg' = wg + 1
  /\ UNCHANGED <<kind, listener, ctx, sem, waiter, crashed, owed, callVars>>

(* The wait for wg that ends Serve.                                        *)
Drained ==
  /\ ~crashed /\ serve = "drain" /\ waiter["Serve"] = "done"
  /\ serve' = "nil"
  /\ UNCHANGED <<kind, listener, ctx, conn, sem, wg, waiter, crashed, owed,
                 callVars>>

-----------------------------------------------------------------------------
(* The goroutine of a session.  Its deferred calls run last to first.      *)

SessionEnds(c) ==
  /\ ~crashed /\ conn[c] = "running"
  /\ conn' = [conn EXCEPT ![c] = "returned"]
  /\ UNCHANGED <<kind, listener, serve, ctx, sem, wg, waiter, crashed, owed,
                 callVars>>

(* Mutant: a session that is shut down keeps its slot.                     *)
ReleaseSlotWhileLive(c) ==
  /\ ~crashed /\ conn[c] = "returned"
  /\ conn' = [conn EXCEPT ![c] = "released"]
  /\ sem' = IF Unlimited \/ ctx = "cancelled" THEN sem ELSE sem - 1
  /\ UNCHANGED <<kind, listener, serve, ctx, wg, waiter, crashed, owed, callVars>>

ReleaseSlot(c) ==
  /\ ~crashed /\ conn[c] = "returned"
  /\ conn' = [conn EXCEPT ![c] = "released"]
  /\ sem' = IF Unlimited THEN sem ELSE sem - 1
  /\ UNCHANGED <<kind, listener, serve, ctx, wg, waiter, crashed, owed, callVars>>

(* Mutant: the last Done wakes one waiter only.                            *)
DoneWakesOne(c) ==
  /\ ~crashed /\ conn[c] = "released"
  /\ conn' = [conn EXCEPT ![c] = "gone"]
  /\ wg' = wg - 1
  /\ IF wg = 1 /\ \E w \in Waiters : waiter[w] = "registered"
       THEN \E w \in Waiters : waiter[w] = "registered" /\
              waiter' = [waiter EXCEPT ![w] = "woken"]
       ELSE UNCHANGED waiter
  /\ UNCHANGED <<kind, listener, serve, ctx, sem, crashed, owed, callVars>>

(* wg.Done: the last one wakes every goroutine inside Wait.                *)
Done(c) ==
  /\ ~crashed /\ conn[c] = "released"
  /\ conn' = [conn EXCEPT ![c] = "gone"]
  /\ wg' = wg - 1
  /\ waiter' = IF wg = 1
                 THEN [w \in Waiters |-> IF waiter[w] = "registered"
                                           THEN "woken" ELSE waiter[w]]
                 ELSE waiter
  /\ UNCHANGED <<kind, listener, serve, ctx, sem, crashed, owed, callVars>>

-----------------------------------------------------------------------------
(* sync.WaitGroup.Wait: it returns when it finds the counter zero, and     *)
(* otherwise registers, sleeps, and after the wake-up panics when the      *)
(* counter is not zero any more ("WaitGroup is reused before previous Wait *)
(* has returned").                                                         *)

WaitFindsZero(w) ==
  /\ ~crashed /\ waiter[w] = "started" /\ wg = 0
  /\ waiter' = [waiter EXCEPT ![w] = "done"]
  /\ UNCHANGED <<kind, listener, serve, ctx, conn, sem, wg, crashed, owed,
                 callVars>>

WaitRegisters(w) ==
  /\ ~crashed /\ waiter[w] = "started" /\ wg # 0
  /\ waiter' = [waiter EXCEPT ![w] = "registered"]
  /\ UNCHANGED <<kind, listener, serve, ctx, conn, sem, wg, crashed, owed,
                 callVars>>

WaitReturns(w) ==
  /\ ~crashed /\ waiter[w] = "woken" /\ wg = 0
  /\ waiter' = [waiter EXCEPT ![w] = "done"]
  /\ UNCHANGED <<kind, listener, serve, ctx, conn, sem, wg, crashed, owed,
                 callVars>>

WaitPanics(w) ==
  /\ ~crashed /\ waiter[w] = "woken" /\ wg # 0
  /\ crashed' = TRUE
  /\ UNCHANGED <<kind, listener, serve, ctx, conn, sem, wg, waiter, owed,
                 callVars>>

-----------------------------------------------------------------------------
(* Shutdown.                                                               *)

(* Mutant: every call but the first returns at once.                       *)
ShutdownFirstOnly(p) ==
  /\ ~crashed /\ caller[p] = "idle"
  /\ once' = TRUE
  /\ ctx' = IF ~once /\ ctx = "live" THEN "cancelled" ELSE ctx
  /\ caller' = [caller EXCEPT ![p] = IF once THEN "nil" ELSE "waiting"]
  /\ waiter' = [waiter EXCEPT ![p] = IF once THEN "done" ELSE "started"]
  /\ owed' = [owed EXCEPT ![p] = InFlight]
  /\ UNCHANGED <<kind, listener, serve, conn, sem, wg, crashed>>

(* once.Do: the first call cancels the context, if Serve has created it;   *)
(* s.cancel is read without a lock, so the call sees it set or not.  Then  *)
(* a goroutine waits for wg.                                               *)
Shutdown(p) ==
  /\ ~crashed /\ caller[p] = "idle"
  /\ once' = TRUE
  /\ ctx' = IF ~once /\ ctx = "live" THEN "cancelled" ELSE ctx
  /\ caller' = [caller EXCEPT ![p] = "waiting"]
  /\ waiter' = [waiter EXCEPT ![p] = "started"]
  /\ owed' = [owed EXCEPT ![p] = InFlight]
  /\ UNCHANGED <<kind, listener, serve, conn, sem, wg, crashed>>

ShutdownReturns(p) ==
  /\ ~crashed /\ caller[p] = "waiting" /\ waiter[p] = "done"
  /\ caller' = [caller EXCEPT ![p] = "nil"]
  /\ UNCHANGED <<kind, listener, serverVars, once>>

(* The caller's context ends; the goroutine that waits stays behind.       *)
ShutdownExpires(p) ==
  /\ ~crashed /\ caller[p] = "waiting"
  /\ caller' = [caller EXCEPT ![p] = "expired"]
  /\ UNCHANGED <<kind, listener, serverVars, once>>

-----------------------------------------------------------------------------
Init ==
  /\ kind \in {"plain", "tls"}
  /\ listener = "open"
  /\ serve = "idle"
  /\ ctx = "none"
  /\ once = FALSE
  /\ conn = [c \in Conns |-> "absent"]
  /\ sem = 0
  /\ wg = 0
  /\ waiter = [w \in Waiters |-> "idle"]
  /\ caller = [p \in Callers |-> "idle"]
  /\ crashed = FALSE
  /\ owed = [w \in Waiters |-> {}]

Loop ==
  \/ SetupFails \/ Configure \/ AcceptFails \/ Drained
  \/ \E c \in Conns :
       Accept(c) \/ Admit(c) \/ Reject(c) \/ Rejected(c) \/ Spawn(c)

Session(c) == SessionEnds(c) \/ ReleaseSlot(c) \/ Done(c)

Wait(w) ==
  WaitFindsZero(w) \/ WaitRegisters(w) \/ WaitReturns(w) \/ WaitPanics(w)

Call(p) == Shutdown(p) \/ ShutdownReturns(p) \/ ShutdownExpires(p)

Next ==
  \/ Loop
  \/ CloseListener
  \/ \E c \in Conns : Connect(c) \/ Session(c)
  \/ \E w \in Waiters : Wait(w)
  \/ \E p \in Callers : Call(p)

(* The scheduler runs every goroutine that can run, a plain write meets    *)
(* its deadline, and a session whose context is cancelled ends             *)
(* (Connection!ShutdownDrains).  Accept returns once the listener is       *)
(* closed.  Nothing is assumed of clients, nor of the owner.               *)
Fairness ==
  /\ WF_vars(listener = "closed" /\ AcceptFails)
  /\ WF_vars(Drained)
  /\ \A c \in Conns :
       /\ WF_vars(Admit(c))
       /\ WF_vars(Reject(c))
       /\ WF_vars(kind = "plain" /\ Rejected(c))
       /\ WF_vars(Spawn(c))
       /\ WF_vars(ctx = "cancelled" /\ SessionEnds(c))
       /\ WF_vars(ReleaseSlot(c))
       /\ WF_vars(Done(c))
  /\ \A w \in Waiters : WF_vars(Wait(w))
  /\ \A p \in Callers : WF_vars(ShutdownReturns(p))

Spec == Init /\ [][Next]_vars /\ Fairness

-----------------------------------------------------------------------------
(* Properties.                                                             *)

(* Every variable stays in its type.  How far the semaphore goes is        *)
(* Accounting's and CapRespected's.                                        *)
TypeOK ==
  /\ kind \in {"plain", "tls"}
  /\ listener \in {"open", "closed"}
  /\ serve \in {"idle", "accept", "decide", "reject", "add", "drain",
                "nil", "error"}
  /\ ctx \in {"none", "live", "cancelled"}
  /\ once \in BOOLEAN
  /\ conn \in [Conns -> {"absent", "backlog", "accepted", "rejected",
                         "admitted", "running", "returned", "released",
                         "gone"}]
  /\ sem \in Nat
  /\ wg \in Nat
  /\ waiter \in [Waiters -> {"idle", "started", "registered", "woken", "done"}]
  /\ caller \in [Callers -> {"idle", "waiting", "nil", "expired"}]
  /\ crashed \in BOOLEAN
  /\ owed \in [Waiters -> SUBSET Conns]

(* The two counters agree with the connections they count: no path through *)
(* the loop and the deferred calls leaks a slot or a count, the ones of a  *)
(* shutdown included.                                                      *)
Accounting ==
  /\ wg = Cardinality(InFlight)
  /\ ~Unlimited => sem = Cardinality(Holding)

(* MaxConnections caps the sessions that run (spec.md S6).                 *)
CapRespected ==
  ~Unlimited => Cardinality(Holding) <= MaxConnections

(* Serve returns nil only when no session is left (spec.md S8;             *)
(* architecture.md "Shutdown").                                            *)
ServeNilDrained ==
  serve = "nil" => ctx = "cancelled" /\ InFlight = {}

(* A Shutdown that returns nil, the first or a later one, has waited for   *)
(* every session that ran when it was called (spec.md S9, S13).            *)
ShutdownNilDrained ==
  \A p \in Callers :
    caller[p] = "nil" => \A c \in owed[p] : conn[c] = "gone"

(* Once the context is cancelled and the listener closed, Serve returns,   *)
(* unless a rejected TLS client keeps the loop in its handshake            *)
(* (spec.md S8, S10).                                                      *)
ServeReturns ==
  (ctx = "cancelled" /\ listener = "closed" /\ kind = "plain")
    ~> (serve \in {"nil", "error"} \/ crashed)

(* Every call of Shutdown comes back when nothing new is accepted, even if *)
(* its own context never expires (spec.md S9).                             *)
ShutdownEnds ==
  \A p \in Callers :
    (caller[p] = "waiting" /\ ctx = "cancelled" /\ listener = "closed")
      ~> (caller[p] # "waiting" \/ crashed)

(* Shutdown waits for handlers to return or for its context to expire      *)
(* (spec.md S9): waiting does not end the process.                         *)
WaitNeverPanics == ~crashed

=============================================================================
