----------------------------- MODULE SocksCheck -----------------------------
(***************************************************************************)
(* Health checks against the engine: the SOCKS client of Checker with its  *)
(* attempts, its fallback endpoint and its deadline, several of them at    *)
(* the same time (a scan that was superseded goes on), next to other       *)
(* clients that may hold the slots of a listener.                          *)
(***************************************************************************)
EXTENDS Engine

CONSTANTS
  Checking,    \* the goroutines that check proxies
  Attempts,    \* of the Checker: 3 in NewChecker, 1 in NewLoopbackChecker
  Fallback     \* whether the Checker has a fallback endpoint

ASSUME CheckAssumption ==
  Attempts \in Nat \ {0} /\ Fallback \in BOOLEAN /\ Conn # {}

VARIABLES
  chk,         \* the checks, and the result of the last one
  blamed       \* history: proxies failed although nothing went wrong on the way

checkVars == <<chk, blamed>>
vars == <<engineVars, checkVars>>

Check == [pc : {"idle", "dial", "auth", "connect", "get", "pause"},
          p : Proxy, c : Conn, attempt : 1..Attempts, fb : BOOLEAN,
          res : {"none", "ok", "err"}]

Idle == [pc |-> "idle", p |-> 1, c |-> CHOOSE c \in Conn : TRUE,
         attempt |-> 1, fb |-> FALSE, res |-> "none"]

Init ==
  /\ EngineInit
  /\ chk = [k \in Checking |-> Idle]
  /\ blamed = {}

(***************************************************************************)
(* Check, checkOnce, checkEndpoint                                         *)
(***************************************************************************)
checkFrame == <<runVars, slots>>

\* The result is known; what the check was made with is forgotten.
Reported(k, res) == [chk EXCEPT ![k] = [Idle EXCEPT !.p = chk[k].p, !.res = res]]

\* Mutant of AfterFailure: the last attempt is followed by another pause.
AfterFailureForever(k) ==
  IF Fallback /\ ~chk[k].fb
  THEN [chk EXCEPT ![k].pc = "dial", ![k].fb = TRUE, ![k].c = Idle.c]
  ELSE [chk EXCEPT ![k].pc = "pause", ![k].fb = FALSE, ![k].c = Idle.c]

\* The fallback endpoint, then the next attempt after a pause, then the error.
AfterFailure(k) ==
  IF Fallback /\ ~chk[k].fb
  THEN [chk EXCEPT ![k].pc = "dial", ![k].fb = TRUE, ![k].c = Idle.c]
  ELSE IF chk[k].attempt < Attempts
       THEN [chk EXCEPT ![k].pc = "pause", ![k].fb = FALSE, ![k].c = Idle.c,
                        ![k].attempt = @ + 1]
       ELSE Reported(k, "err")

\* checkEndpoint returns an error and closes its connection, if it has one.
Blame(k, excused) == blamed' = IF excused THEN blamed ELSE blamed \union {chk[k].p}

\* Mutant of Close: the deferred Close is missing.
CloseForgotten(c) == conn' = conn

Close(c) == Put(c, [conn[c] EXCEPT !.cli = "gone"])

\* A worker is handed a proxy of the scan's snapshot.
Begin(k) ==
  /\ chk[k].pc = "idle"
  /\ \E p \in Proxy : chk' = [chk EXCEPT ![k] = [Idle EXCEPT !.pc = "dial", !.p = p]]
  /\ UNCHANGED <<checkFrame, conn, blamed>>

\* The port is dialled, if it is open, and the credentials follow at once; or the
\* dial fails, as it does when the scan has been cancelled.
Dial(k) ==
  /\ chk[k].pc = "dial"
  /\ \/ /\ chk[k].p \in opened /\ Free # {}
        /\ LET c == CHOOSE c \in Free : TRUE IN
           /\ Put(c, Dialled(chk[k].p, "check", "creds"))
           /\ chk' = [chk EXCEPT ![k].pc = "auth", ![k].c = c]
        /\ UNCHANGED blamed
     \/ /\ chk' = AfterFailure(k)
        /\ UNCHANGED <<conn, blamed>>
  /\ UNCHANGED checkFrame

\* What the client waits for, and what it says when it has got it.
Awaited == [auth |-> "welcome", connect |-> "granted", get |-> "right"]
Turn == [auth |-> [pc |-> "connect", says |-> "connect"],
         connect |-> [pc |-> "get", says |-> "get"]]

Waiting(k) == chk[k].pc \in {"auth", "connect", "get"}

AtEOF(c) == conn[c].srv \in {"release", "done"} \/ conn[c].down
Readable(c) == conn[c].reply # "none" \/ AtEOF(c)

Speak(k) ==
  /\ Waiting(k) /\ chk[k].pc # "get"
  /\ LET c == chk[k].c  t == Turn[chk[k].pc] IN
     /\ conn[c].reply = Awaited[chk[k].pc]
     /\ Put(c, [conn[c] EXCEPT !.reply = "none", !.said = t.says])
     /\ chk' = [chk EXCEPT ![k].pc = t.pc]
  /\ UNCHANGED <<checkFrame, blamed>>

\* Mutant of Succeed: any address the reflector reports will do.
SucceedUnchecked(k) ==
  /\ chk[k].pc = "get" /\ conn[chk[k].c].reply \in {"right", "wrong"}
  /\ Close(chk[k].c)
  /\ chk' = Reported(k, "ok")
  /\ UNCHANGED <<checkFrame, blamed>>

\* The reflector has reported the proxy's own address.
Succeed(k) ==
  /\ chk[k].pc = "get" /\ conn[chk[k].c].reply = "right"
  /\ Close(chk[k].c)
  /\ chk' = Reported(k, "ok")
  /\ UNCHANGED <<checkFrame, blamed>>

\* An unexpected answer, or the end of the stream.
Fail(k) ==
  /\ Waiting(k) /\ Readable(chk[k].c)
  /\ conn[chk[k].c].reply # Awaited[chk[k].pc]
  /\ Close(chk[k].c)
  /\ chk' = AfterFailure(k)
  /\ Blame(k, conn[chk[k].c].why # "none" \/ served[chk[k].p] # "same")
  /\ UNCHANGED checkFrame

\* The deadline of the check; cancelling the scan does not interrupt a read.
Timeout(k) ==
  /\ Waiting(k)
  /\ Close(chk[k].c)
  /\ chk' = AfterFailure(k)
  /\ UNCHANGED <<checkFrame, blamed>>

\* RetryDelay, or the error of a cancelled scan.
Pause(k) ==
  /\ chk[k].pc = "pause"
  /\ \/ chk' = [chk EXCEPT ![k].pc = "dial"]
     \/ chk' = Reported(k, "err")
  /\ UNCHANGED <<checkFrame, conn, blamed>>

CheckStep(k) == Dial(k) \/ Speak(k) \/ Succeed(k) \/ Fail(k) \/ Timeout(k) \/ Pause(k)

EngineOnly == RunStep \/ EngineFault \/ GuestStep
              \/ \E c \in Conn : ConnStep(c) \/ UpstreamStep(c)

Next ==
  \/ EngineOnly /\ UNCHANGED checkVars
  \/ \E k \in Checking : Begin(k) \/ CheckStep(k)

Spec == Init /\ [][Next]_vars

\* Checkings run; deadlines pass; the endpoint of the checks answers or closes
\* (the reflector of NewLoopbackChecker has read, write and idle timeouts).
Fairness ==
  /\ WF_vars(RunStep /\ UNCHANGED checkVars)
  /\ \A c \in Conn :
       /\ WF_vars(ConnStep(c) /\ UNCHANGED checkVars)
       /\ WF_vars(conn[c].by = "check" /\ UpstreamStep(c) /\ UNCHANGED checkVars)
  /\ \A k \in Checking : WF_vars(CheckStep(k))

FairSpec == Spec /\ Fairness

(***************************************************************************)
(* Properties                                                              *)
(***************************************************************************)
Served == {"auth", "request", "dial", "relay", "release"}

\* Every variable keeps its type; a goroutine that waits has a connection of its
\* own to the listener it dialled, until the engine has taken it down.
TypeOK ==
  /\ EngineTypeOK
  /\ chk \in [Checking -> Check]
  /\ blamed \subseteq Proxy
  /\ \A k, l \in Checking :
       Waiting(k) => /\ conn[chk[k].c].by = "check" /\ conn[chk[k].c].cli = "open"
                     /\ conn[chk[k].c].at = chk[k].p /\ conn[chk[k].c].srv # "free"
                     /\ Waiting(l) /\ chk[k].c = chk[l].c => k = l

\* A listener's taken slots are the connections it serves, however they ended
\* and whenever the engine stopped, and never more than maxConnections.
SlotsAccounted ==
  \A p \in Proxy :
    /\ slots[p] = Cardinality({c \in Conn : conn[c].at = p /\ conn[c].srv \in Served})
    /\ slots[p] <= MaxConns

\* A check succeeds only if the engine serves the proxy with the credentials
\* and from the address that the scan was started with.
LiveMeansServed == \A k \in Checking : chk[k].res = "ok" => served[chk[k].p] = "same"

\* A proxy served as saved is not failed by the program itself: behind every
\* check of it that was answered badly or cut off there is a full listener, a
\* stopping engine, a deadline, or the network.
FailureExplained == \A p \in blamed : served[p] # "same"

\* Every check comes to a result, cancelled or not.
CheckEnds == \A k \in Checking : chk[k].pc # "idle" ~> chk[k].pc = "idle"

\* A slot is held for a reason: a relay with an end that is still open.  Without
\* one, in a handshake with whatever client, or when both peers have closed their
\* halves, the connection gets there or gives its slot back.
Overdue(c) ==
  /\ conn[c].srv \in Served
  /\ Relaying(c) => conn[c].cli # "open" /\ conn[c].ups = "closed"

SlotReturns == \A c \in Conn : Overdue(c) ~> ~Overdue(c)

\* A check, whatever becomes of it, does not leave a connection behind.
ChecksLeaveNoConnection ==
  \A c \in Conn : (conn[c].by = "check" /\ conn[c].srv # "free") ~> conn[c].srv = "free"

\* On SIGTERM, and when a listener breaks, Run closes the others and returns.
EngineStops == (run = "closing" \/ failed) ~> run = "returned"
=============================================================================
