------------------------------ MODULE Program -------------------------------
(***************************************************************************)
(* The programs that embed the server: run in cmd/test-server/main.go, in  *)
(* examples/s3/main.go and in examples/postcat-only/main.go.  main ends    *)
(* with "return srv.Serve(ln)"; a goroutine waits for SIGTERM, closes the  *)
(* listener and calls Shutdown, or (postcat-only) the other way round.     *)
(* When main returns the process exits, whatever else still runs in it.    *)
(***************************************************************************)
EXTENDS Server

CONSTANT CloseFirst \* the listener is closed before Shutdown is called

VARIABLES
  process, \* "runs" or "exited"
  sig      \* the signal goroutine: "waits", "signalled", "closed" (before
           \* Shutdown), "shutdown" (in or after the call), "over"

programVars == <<process, sig, vars>>

ProgramInit ==
  /\ Init
  /\ kind = "plain"
  /\ process = "runs"
  /\ sig = "waits"

(* The server and its clients; only the signal goroutine closes the        *)
(* listener or calls Shutdown.  The configuration is valid, and Accept     *)
(* fails only because the listener is closed.                              *)
ServerStep ==
  /\ process = "runs"
  /\ \/ Loop
     \/ \E c \in Conns : Connect(c) \/ Session(c)
     \/ \E w \in Waiters : Wait(w)
     \/ \E p \in Callers : ShutdownReturns(p) \/ ShutdownExpires(p)
  /\ serve' = "error" => listener = "closed"
  /\ UNCHANGED <<process, sig>>

(* SIGTERM or SIGINT.                                                      *)
Signal ==
  /\ process = "runs" /\ sig = "waits"
  /\ sig' = "signalled"
  /\ UNCHANGED <<process, vars>>

SignalCloses ==
  /\ process = "runs"
  /\ IF CloseFirst
       THEN sig = "signalled" /\ sig' = "closed"
       ELSE /\ sig = "shutdown" /\ \A p \in Callers : caller[p] # "waiting"
            /\ sig' = "over"
  /\ CloseListener
  /\ UNCHANGED process

SignalShutsDown ==
  /\ process = "runs"
  /\ sig = IF CloseFirst THEN "closed" ELSE "signalled"
  /\ sig' = "shutdown"
  /\ \E p \in Callers : Shutdown(p)
  /\ UNCHANGED process

(* Serve has returned, and main with it.                                   *)
Exit ==
  /\ process = "runs" /\ serve \in {"nil", "error"}
  /\ process' = "exited"
  /\ UNCHANGED <<sig, vars>>

ProgramNext ==
  \/ ServerStep
  \/ Signal
  \/ SignalCloses
  \/ SignalShutsDown
  \/ Exit

ProgramSpec == ProgramInit /\ [][ProgramNext]_programVars

(* The programs call it a graceful shutdown: when a signal ends the        *)
(* process, the sessions in flight have ended or the deadline of Shutdown  *)
(* has passed (examples/s3/main.go:110, README.md "Graceful shutdown").    *)
GracefulShutdown ==
  process = "exited" /\ sig # "waits" =>
    \/ InFlight = {}
    \/ \E p \in Callers : caller[p] = "expired"

=============================================================================
