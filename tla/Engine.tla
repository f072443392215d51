------------------------------- MODULE Engine -------------------------------
(***************************************************************************)
(* The proxy engine (proxy-manager engine): one listener per enabled       *)
(* proxy, a limited number of connection slots behind each, and for every  *)
(* connection the SOCKS handshake followed by a relay of two directions.   *)
(*                                                                         *)
(* A connection is one record with both of its ends.  What one side has    *)
(* written and the other has not read yet is a single message per          *)
(* direction, since the handshake takes turns.  Deadlines may pass at any  *)
(* time; failures of the network and of accept are free choices.           *)
(***************************************************************************)
EXTENDS Naturals, FiniteSets

CONSTANTS
  N,        \* the proxies are 1..N, in the order of the saved list
  Conn,     \* bound: connections that exist at the same time
  MaxConns, \* connections one listener serves (maxConnections, 16 in the code)
  MaxGuests \* bound: connections other clients have at the same time

ASSUME EngineAssumption ==
  {N, MaxConns} \subseteq Nat \ {0} /\ MaxGuests \in Nat /\ IsFiniteSet(Conn)

VARIABLES
  served,   \* how the engine's loaded proxies differ from those a client knows
  run,      \* where Run stands
  opened,   \* proxies whose listener is open
  looping,  \* proxies whose acceptLoop runs
  failed,   \* errCh holds an error
  slots,    \* taken slots of every listener (the channel connections)
  conn      \* the connections

engineVars == <<served, run, opened, looping, failed, slots, conn>>

Proxy == 1..N

\* same: as the client knows it; creds, addr: another password or outgoing
\* address; off: not enabled when the engine loaded the state.
Serving == {"same", "creds", "addr", "off"}
Active == {p \in Proxy : served[p] # "off"}

ConnRecord ==
  [at    : Proxy,
   by    : {"check", "guest"},
   srv   : {"free", "backlog", "auth", "request", "dial", "relay", "release", "done"},
   said  : {"none", "creds", "connect", "get"},         \* client to engine
   reply : {"none", "welcome", "refused", "granted", "right", "wrong"}, \* engine to client
   cli   : {"open", "shut", "gone"},      \* the client's end; shut: half closed
   ups   : {"none", "open", "asked", "right", "wrong", "closed"},  \* the upstream's end
   up    : BOOLEAN,                       \* copying client to upstream has ended
   down  : BOOLEAN,                       \* copying upstream to client has ended
   why   : {"none", "full", "late", "route", "closed"}]  \* history: what ended it

FreeConn == [at |-> 1, by |-> "check", srv |-> "free", said |-> "none", reply |-> "none",
             cli |-> "open", ups |-> "none", up |-> FALSE, down |-> FALSE, why |-> "none"]

EngineTypeOK ==
  /\ served \in [Proxy -> Serving]
  /\ run \in {"opening", "serving", "closing", "returned"}
  /\ opened \subseteq Active /\ looping \subseteq Active
  /\ failed \in BOOLEAN
  /\ slots \in [Proxy -> 0..MaxConns]
  /\ conn \in [Conn -> ConnRecord]

EngineInit ==
  /\ served \in [Proxy -> Serving]
  /\ run = "opening" /\ opened = {} /\ looping = {}
  /\ failed = FALSE
  /\ slots = [p \in Proxy |-> 0]
  /\ conn = [c \in Conn |-> FreeConn]

(***************************************************************************)
(* Run: listen on every port in turn, serve, close, wait for the loops.    *)
(***************************************************************************)
\* Nobody reads what a client that has left would have read; a connection both
\* ends have closed is free again.
Settle(r) == IF r.cli # "gone" THEN [r EXCEPT !.why = IF r.by = "guest" THEN "none" ELSE @]
             ELSE IF r.srv = "done" THEN FreeConn
             ELSE [r EXCEPT !.reply = "none", !.why = "none"]

\* The kernel ends the connections of C; the clients see them closed.
Killed(C) ==
  [c \in Conn |-> IF c \in C /\ conn[c].srv \notin {"free", "done"}
                  THEN Settle([conn[c] EXCEPT !.srv = "done", !.ups = "none",
                                              !.why = "closed"])
                  ELSE conn[c]]

\* The process ends, and with it the listeners, the loops and the connections.
Exit ==
  /\ run' = "returned" /\ opened' = {} /\ looping' = {}
  /\ conn' = Killed(Conn) /\ slots' = [p \in Proxy |-> 0]

\* The next port is opened, or all that are open are closed again.  Without an
\* active proxy it is the keepalive port that cannot be opened.
Listen ==
  /\ run = "opening"
  /\ \/ \E p \in Active \ opened :
          /\ \A q \in Active \ opened : p <= q
          /\ opened' = opened \union {p}
          /\ UNCHANGED <<run, looping, conn, slots>>
     \/ (Active = {} \/ opened # Active) /\ Exit
  /\ UNCHANGED <<served, failed>>

StartLoops ==
  /\ run = "opening" /\ opened = Active
  /\ run' = "serving" /\ looping' = Active
  /\ UNCHANGED <<served, opened, failed, slots, conn>>

\* Accept fails for good: the loop ends and reports it.
LoopBreaks(p) ==
  /\ p \in looping \cap opened
  /\ looping' = looping \ {p} /\ failed' = TRUE
  /\ UNCHANGED <<served, run, opened, slots, conn>>

\* Mutant of CloseListeners: the loops are awaited with their listeners open.
CloseNothing ==
  /\ run = "serving" /\ run' = "closing"
  /\ UNCHANGED <<served, opened, looping, failed, slots, conn>>

\* closeListeners: a listener that closes resets what it has not accepted.
CloseListeners ==
  /\ run = "serving"
  /\ run' = "closing" /\ opened' = {}
  /\ conn' = Killed({c \in Conn : conn[c].srv = "backlog"})
  /\ UNCHANGED <<served, looping, failed, slots>>

\* Run leaves its select on an error of a loop, or on SIGTERM.
RunNotices == failed /\ CloseListeners
Terminated == CloseListeners

LoopEnds(p) ==
  /\ run = "closing" /\ p \in looping \ opened
  /\ looping' = looping \ {p}
  /\ UNCHANGED <<served, run, opened, failed, slots, conn>>

\* wg.Wait is over: Run returns and the process ends; connections are not awaited.
RunReturns ==
  /\ run = "closing" /\ looping = {}
  /\ Exit
  /\ UNCHANGED <<served, failed>>

(***************************************************************************)
(* acceptLoop and serveConnection                                          *)
(***************************************************************************)
runVars == <<served, run, opened, looping, failed>>

Put(c, r) == conn' = [conn EXCEPT ![c] = Settle(r)]

\* Mutant of Accept: a listener serves any number of connections.
AcceptUnlimited(c) ==
  LET p == conn[c].at IN
  /\ conn[c].srv = "backlog" /\ p \in looping \cap opened
  /\ slots' = [slots EXCEPT ![p] = @ + 1]
  /\ Put(c, [conn[c] EXCEPT !.srv = "auth"])
  /\ UNCHANGED runVars

\* A connection takes a slot, or is closed at once when there is none.
Accept(c) ==
  LET p == conn[c].at IN
  /\ conn[c].srv = "backlog" /\ p \in looping \cap opened
  /\ IF slots[p] < MaxConns
     THEN /\ slots' = [slots EXCEPT ![p] = @ + 1]
          /\ Put(c, [conn[c] EXCEPT !.srv = "auth"])
     ELSE /\ Put(c, [conn[c] EXCEPT !.srv = "done", !.why = "full"])
          /\ UNCHANGED slots
  /\ UNCHANGED runVars

\* serveConnection returns: the deferred calls close the upstream and the client.
Ending(c) == [conn[c] EXCEPT !.srv = "release", !.said = "none", !.ups = "none"]

ServeStep(c, r) == Put(c, r) /\ UNCHANGED <<runVars, slots>>

\* authenticate: the client's greeting and credentials, answered.
Authenticate(c) ==
  /\ conn[c].srv = "auth" /\ conn[c].said = "creds"
  /\ ServeStep(c, IF served[conn[c].at] # "creds"
                  THEN [conn[c] EXCEPT !.srv = "request", !.said = "none",
                                       !.reply = "welcome"]
                  ELSE [Ending(c) EXCEPT !.reply = "refused"])

\* readConnectRequest: where to.
ReadRequest(c) ==
  /\ conn[c].srv = "request" /\ conn[c].said = "connect"
  /\ ServeStep(c, [conn[c] EXCEPT !.srv = "dial", !.said = "none"])

\* The upstream connection, from the proxy's own address, succeeds or fails.
DialUpstream(c) ==
  /\ conn[c].srv = "dial"
  /\ \/ ServeStep(c, [conn[c] EXCEPT !.srv = "relay", !.reply = "granted", !.ups = "open"])
     \/ ServeStep(c, [Ending(c) EXCEPT !.reply = "refused", !.why = "route"])

\* Mutant of HandshakeFails: the client's connection has no deadline.
HandshakeFailsOnClose(c) ==
  /\ conn[c].srv \in {"auth", "request", "dial"}
  /\ conn[c].cli # "open"
  /\ ServeStep(c, [Ending(c) EXCEPT !.why = "late"])

\* Mutant of HandshakeFails: the deadline is not lifted before the relay.
HandshakeFailsLate(c) ==
  /\ conn[c].srv \in {"auth", "request", "dial", "relay"}
  /\ conn[c].by = "guest" \/ conn[c].cli = "gone" \/ conn[c].srv = "relay"
  /\ ServeStep(c, [Ending(c) EXCEPT !.why = IF conn[c].srv = "relay" THEN "none"
                                            ELSE "late"])

\* The deadline of the handshake has passed, or the client has left it.  A check
\* has a shorter deadline than the engine and always leaves first.
HandshakeFails(c) ==
  /\ conn[c].srv \in {"auth", "request", "dial"}
  /\ conn[c].by = "guest" \/ conn[c].cli = "gone"
  /\ ServeStep(c, [Ending(c) EXCEPT !.why = "late"])

(***************************************************************************)
(* relay: two copying goroutines without deadlines, and the upstream.      *)
(***************************************************************************)
Relaying(c) == conn[c].srv = "relay"

UpCopies(c) ==
  /\ Relaying(c) /\ ~conn[c].up /\ conn[c].said # "none" /\ conn[c].ups # "closed"
  /\ ServeStep(c, [conn[c] EXCEPT !.said = "none", !.ups = "asked"])

\* The client has closed its half, or the upstream takes no more.
UpEnds(c) ==
  /\ Relaying(c) /\ ~conn[c].up
  /\ IF conn[c].said = "none" THEN conn[c].cli # "open" ELSE conn[c].ups = "closed"
  /\ ServeStep(c, [conn[c] EXCEPT !.said = "none", !.up = TRUE])

DownCopies(c) ==
  /\ Relaying(c) /\ ~conn[c].down /\ conn[c].ups \in {"right", "wrong"}
  /\ ServeStep(c, [conn[c] EXCEPT !.reply = conn[c].ups, !.ups = "closed"])

\* The upstream has closed: the client is told (CloseWrite).
DownEnds(c) ==
  /\ Relaying(c) /\ ~conn[c].down /\ conn[c].ups = "closed"
  /\ ServeStep(c, [conn[c] EXCEPT !.down = TRUE])

RelayEnds(c) ==
  /\ Relaying(c) /\ conn[c].up /\ conn[c].down
  /\ ServeStep(c, Ending(c))

\* Mutant of Release: the slot is given back on the regular way out only.
ReleaseAfterRelay(c) ==
  /\ conn[c].srv = "release"
  /\ slots' = IF conn[c].up THEN [slots EXCEPT ![conn[c].at] = @ - 1] ELSE slots
  /\ Put(c, [conn[c] EXCEPT !.srv = "done"])
  /\ UNCHANGED runVars

\* The deferred receive of acceptLoop's goroutine, after the sockets are closed.
Release(c) ==
  /\ conn[c].srv = "release"
  /\ slots' = [slots EXCEPT ![conn[c].at] = @ - 1]
  /\ Put(c, [conn[c] EXCEPT !.srv = "done"])
  /\ UNCHANGED runVars

\* The reflector reports the address it was called from.
Reflects(c) ==
  /\ conn[c].ups = "asked"
  /\ ServeStep(c, [conn[c] EXCEPT !.ups = IF served[conn[c].at] = "addr" THEN "wrong"
                                          ELSE "right"])

\* The upstream closes without an answer; one without an address is as good as none.
UpstreamGivesUp(c) ==
  /\ conn[c].ups \in {"open", "asked"}
  /\ ServeStep(c, [conn[c] EXCEPT !.ups = "closed", !.why = "route"])

(***************************************************************************)
(* Clients.  Other clients know the credentials a check knows; they may    *)
(* fall silent, close one half or leave at any time.  One that says        *)
(* something else is sent away like one whose handshake fails; what they   *)
(* relay is of no interest here.                                           *)
(***************************************************************************)
\* A dialled connection: the kernel accepts it for an open listener.
Dialled(p, by, said) == [FreeConn EXCEPT !.at = p, !.by = by, !.srv = "backlog",
                                         !.said = said]

Free == {c \in Conn : conn[c].srv = "free"}

Guests == {c \in Conn : conn[c].srv # "free" /\ conn[c].by = "guest"}

GuestDials ==
  /\ Cardinality(Guests) < MaxGuests /\ Free # {}
  /\ \E p \in opened : ServeStep(CHOOSE c \in Free : TRUE, Dialled(p, "guest", "none"))

GuestSpeaks(c) ==
  /\ c \in Guests /\ conn[c].cli = "open" /\ conn[c].said = "none"
  /\ \/ /\ conn[c].srv \in {"backlog", "auth"}
        /\ ServeStep(c, [conn[c] EXCEPT !.said = "creds"])
     \/ /\ conn[c].reply = "welcome"
        /\ ServeStep(c, [conn[c] EXCEPT !.reply = "none", !.said = "connect"])

GuestCloses(c) ==
  /\ c \in Guests
  /\ \E end \in {"shut", "gone"} :
       /\ conn[c].cli \notin {end, "gone"}
       /\ ServeStep(c, [conn[c] EXCEPT !.cli = end])

GuestStep == GuestDials \/ \E c \in Conn : GuestSpeaks(c) \/ GuestCloses(c)

RunStep == Listen \/ StartLoops \/ RunNotices \/ RunReturns \/ \E p \in Proxy : LoopEnds(p)

ConnStep(c) ==
  \/ Accept(c) \/ Authenticate(c) \/ ReadRequest(c) \/ DialUpstream(c) \/ HandshakeFails(c)
  \/ UpCopies(c) \/ UpEnds(c) \/ DownCopies(c) \/ DownEnds(c) \/ RelayEnds(c) \/ Release(c)

UpstreamStep(c) == Reflects(c) \/ UpstreamGivesUp(c)

EngineFault == Terminated \/ \E p \in Proxy : LoopBreaks(p)
=============================================================================
