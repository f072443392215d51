-------------------------- MODULE SocksCheckProofs --------------------------
(***************************************************************************)
(* Proofs about SocksCheck, for any number of listeners, slots,            *)
(* connections, checks and attempts: the taken slots are the connections   *)
(* served, and a check succeeds only on evidence.                          *)
(***************************************************************************)
EXTENDS SocksCheck, FiniteSetTheorems, TLAPS

Typed ==
  /\ EngineTypeOK
  /\ chk \in [Checking -> Check]
  /\ blamed \subseteq Proxy

\* A goroutine that waits has a live connection that nobody else waits on.
Waited ==
  \A k \in Checking : Waiting(k) =>
    LET r == conn[chk[k].c] IN
    /\ r.by = "check" /\ r.cli = "open" /\ r.at = chk[k].p /\ r.srv # "free"
    /\ \A l \in Checking : Waiting(l) /\ chk[k].c = chk[l].c => k = l

\* The connections that a listener serves.
Held(p) == {c \in Conn : conn[c].at = p /\ conn[c].srv \in Served}

Counted == \A p \in Proxy : slots[p] = Cardinality(Held(p))

\* What a connection shows of the proxy the engine serves: it exists only for an
\* active one, is past the handshake only with the right credentials, and the
\* reflector sees the address.
Evident(r) ==
  /\ r.srv # "free" => served[r.at] # "off"
  /\ \/ r.srv \in {"request", "dial", "relay"}
     \/ r.reply \in {"welcome", "granted", "right", "wrong"}
     \/ r.ups # "none"
     => served[r.at] \notin {"off", "creds"}
  /\ r.ups = "right" \/ r.reply = "right" => served[r.at] = "same"

Evidence == (\A c \in Conn : Evident(conn[c])) /\ LiveMeansServed

CheckInv == Typed /\ Waited /\ Counted /\ Evidence

LEMMA Constants ==
  /\ N \in Nat /\ 1 \in Proxy /\ MaxConns \in Nat \ {0} /\ IsFiniteSet(Conn)
  /\ Attempts \in Nat \ {0}
  /\ FreeConn \in ConnRecord /\ Idle \in Check
BY EngineAssumption, CheckAssumption DEF Proxy, FreeConn, ConnRecord, Idle, Check

(***************************************************************************)
(* What a change of one connection does.                                   *)
(***************************************************************************)
LEMMA SetField ==
  ASSUME NEW r \in ConnRecord
  PROVE  /\ \A v \in {"free", "backlog", "auth", "request", "dial", "relay", "release", "done"} :
              [r EXCEPT !.srv = v] \in ConnRecord
         /\ \A v \in {"none", "creds", "connect", "get"} : [r EXCEPT !.said = v] \in ConnRecord
         /\ \A v \in {"none", "welcome", "refused", "granted", "right", "wrong"} :
              [r EXCEPT !.reply = v] \in ConnRecord
         /\ \A v \in {"open", "shut", "gone"} : [r EXCEPT !.cli = v] \in ConnRecord
         /\ \A v \in {"none", "open", "asked", "right", "wrong", "closed"} :
              [r EXCEPT !.ups = v] \in ConnRecord
         /\ [r EXCEPT !.up = TRUE] \in ConnRecord
         /\ [r EXCEPT !.down = TRUE] \in ConnRecord
         /\ \A v \in {"none", "full", "late", "route", "closed"} :
              [r EXCEPT !.why = v] \in ConnRecord
<1>1. /\ \A v \in {"free", "backlog", "auth", "request", "dial", "relay", "release", "done"} :
           [r EXCEPT !.srv = v] \in ConnRecord
      /\ \A v \in {"none", "creds", "connect", "get"} : [r EXCEPT !.said = v] \in ConnRecord
  BY DEF ConnRecord
<1>2. /\ \A v \in {"none", "welcome", "refused", "granted", "right", "wrong"} :
           [r EXCEPT !.reply = v] \in ConnRecord
      /\ \A v \in {"open", "shut", "gone"} : [r EXCEPT !.cli = v] \in ConnRecord
  BY DEF ConnRecord
<1>3. \A v \in {"none", "open", "asked", "right", "wrong", "closed"} :
        [r EXCEPT !.ups = v] \in ConnRecord
  BY DEF ConnRecord
<1>4. [r EXCEPT !.up = TRUE] \in ConnRecord /\ [r EXCEPT !.down = TRUE] \in ConnRecord
  BY DEF ConnRecord
<1>5. \A v \in {"none", "full", "late", "route", "closed"} : [r EXCEPT !.why = v] \in ConnRecord
  BY DEF ConnRecord
<1> QED BY <1>1, <1>2, <1>3, <1>4, <1>5

LEMMA SettleRecord ==
  ASSUME NEW r \in ConnRecord
  PROVE  /\ Settle(r) \in ConnRecord
         /\ Settle(r).srv \in Served <=> r.srv \in Served
         /\ r.srv \in Served => Settle(r).at = r.at
         /\ r.cli # "gone" => /\ Settle(r).at = r.at /\ Settle(r).by = r.by
                              /\ Settle(r).cli = r.cli /\ Settle(r).srv = r.srv
         /\ Evident(r) => Evident(Settle(r))
<1>1. CASE r.cli # "gone"
  <2>1. Settle(r) = [r EXCEPT !.why = IF r.by = "guest" THEN "none" ELSE @]
    BY <1>1 DEF Settle
  <2> QED BY <1>1, <2>1 DEF ConnRecord, Evident
<1>2. CASE r.cli = "gone" /\ r.srv = "done"
  <2>1. Settle(r) = FreeConn
    BY <1>2 DEF Settle
  <2> QED BY <1>2, <2>1, Constants DEF FreeConn, Evident, Served
<1>3. CASE r.cli = "gone" /\ r.srv # "done"
  <2>1. Settle(r) = [r EXCEPT !.reply = "none", !.why = "none"]
    BY <1>3 DEF Settle
  <2>2. Settle(r) \in ConnRecord
    BY <2>1, SetField
  <2>3. /\ Settle(r).srv = r.srv /\ Settle(r).at = r.at /\ Settle(r).ups = r.ups
        /\ Settle(r).reply = "none"
    BY <2>1 DEF ConnRecord
  <2>4. Evident(r) => Evident(Settle(r))
    BY <2>3 DEF Evident
  <2> QED BY <1>3, <2>2, <2>3, <2>4
<1> QED BY <1>1, <1>2, <1>3

\* The other connections are as they were, and this one still counts the same.
LEMMA PutKeeps ==
  ASSUME Typed, Counted, \A d \in Conn : Evident(conn[d]),
         NEW c \in Conn, NEW r \in ConnRecord, Put(c, r),
         served' = served, slots' = slots, Evident(r),
         r.srv \in Served <=> conn[c].srv \in Served,
         r.srv \in Served => r.at = conn[c].at
  PROVE  /\ conn' \in [Conn -> ConnRecord]
         /\ conn' = [conn EXCEPT ![c] = Settle(r)]
         /\ Counted'
         /\ \A d \in Conn : Evident(conn[d])'
<1>1. conn' \in [Conn -> ConnRecord] /\ conn' = [conn EXCEPT ![c] = Settle(r)]
  BY SettleRecord DEF Put, Typed, EngineTypeOK
<1>2. conn'[c] = Settle(r) /\ \A d \in Conn \ {c} : conn'[d] = conn[d]
  BY <1>1 DEF Typed, EngineTypeOK
<1>3. \A d \in Conn : /\ conn'[d].srv \in Served <=> conn[d].srv \in Served
                      /\ conn'[d].srv \in Served => conn'[d].at = conn[d].at
  BY <1>2, SettleRecord
<1>4. \A p \in Proxy : Held(p)' = Held(p)
  BY <1>3 DEF Held
<1>5. ASSUME NEW d \in Conn PROVE Evident(conn[d])'
  BY <1>2, SettleRecord DEF Evident
<1> QED BY <1>1, <1>4, <1>5 DEF Counted

LEMMA WaitedKept ==
  ASSUME Typed, Waited, chk' = chk,
         \A d \in Conn : conn[d].by = "check" /\ conn[d].cli = "open" /\ conn[d].srv # "free" =>
           /\ conn'[d].by = "check" /\ conn'[d].cli = "open" /\ conn'[d].at = conn[d].at
           /\ conn'[d].srv # "free"
  PROVE  Waited'
<1>1. \A k \in Checking : chk[k].c \in Conn
  BY DEF Typed, Check
<1> QED BY <1>1 DEF Waited, Waiting

\* A step of the engine, the upstream or another client at one connection.
LEMMA ServeInv ==
  ASSUME CheckInv, NEW c \in Conn, NEW r \in ConnRecord, ServeStep(c, r),
         UNCHANGED checkVars, Evident(r),
         r.srv \in Served <=> conn[c].srv \in Served,
         r.srv \in Served => r.at = conn[c].at,
         conn[c].by = "check" /\ conn[c].srv # "free" =>
           r.by = "check" /\ r.cli = conn[c].cli /\ r.at = conn[c].at /\ r.srv # "free"
  PROVE  CheckInv'
<1> USE DEF CheckInv, Evidence
<1>1. /\ Put(c, r) /\ served' = served /\ slots' = slots /\ chk' = chk /\ blamed' = blamed
      /\ run' = run /\ opened' = opened /\ looping' = looping /\ failed' = failed
  BY DEF ServeStep, runVars, checkVars
<1>2. /\ conn' \in [Conn -> ConnRecord] /\ Counted'
      /\ conn' = [conn EXCEPT ![c] = Settle(r)]
      /\ \A d \in Conn : Evident(conn[d])'
  BY <1>1, PutKeeps
<1>3. Waited'
  <2>1. conn'[c] = Settle(r) /\ \A d \in Conn \ {c} : conn'[d] = conn[d]
    BY <1>2 DEF Typed, EngineTypeOK
  <2> QED BY <1>1, <2>1, SettleRecord, WaitedKept
<1>4. Typed' /\ LiveMeansServed'
  BY <1>1, <1>2 DEF Typed, EngineTypeOK, Active, LiveMeansServed
<1> QED BY <1>2, <1>3, <1>4

LEMMA StepInv ==
  ASSUME CheckInv, NEW c \in Conn, NEW r \in ConnRecord, ServeStep(c, r),
         UNCHANGED checkVars, Evident(r),
         r.at = conn[c].at, r.by = conn[c].by, r.cli = conn[c].cli,
         r.srv = conn[c].srv \/ {r.srv, conn[c].srv} \subseteq Served
  PROVE  CheckInv'
<1>1. r.srv # "free" <=> conn[c].srv # "free"
  BY DEF Served
<1> QED BY <1>1, ServeInv

(***************************************************************************)
(* The handshake and the relay.                                            *)
(***************************************************************************)
LEMMA EndingRecord ==
  ASSUME CheckInv, NEW c \in Conn, conn[c].srv \in Served
  PROVE  /\ Ending(c) \in ConnRecord
         /\ Ending(c).at = conn[c].at /\ Ending(c).by = conn[c].by
         /\ Ending(c).cli = conn[c].cli /\ Ending(c).srv = "release"
         /\ Ending(c).ups = "none" /\ Ending(c).reply = conn[c].reply
         /\ Evident(Ending(c))
<1>1. conn[c] \in ConnRecord /\ Evident(conn[c])
  BY DEF CheckInv, Typed, EngineTypeOK, Evidence
<1>2. Ending(c) \in ConnRecord
  BY <1>1, SetField DEF Ending
<1>3. /\ Ending(c).at = conn[c].at /\ Ending(c).by = conn[c].by
      /\ Ending(c).cli = conn[c].cli /\ Ending(c).srv = "release"
      /\ Ending(c).ups = "none" /\ Ending(c).reply = conn[c].reply
  BY <1>1 DEF Ending, ConnRecord
<1> QED BY <1>1, <1>2, <1>3 DEF Evident, Served

LEMMA HandshakeInv ==
  ASSUME CheckInv, NEW c \in Conn, UNCHANGED checkVars,
         Authenticate(c) \/ ReadRequest(c) \/ DialUpstream(c) \/ HandshakeFails(c)
  PROVE  CheckInv'
<1> DEFINE s == conn[c]
<1>1. s \in ConnRecord /\ Evident(s)
  BY DEF CheckInv, Typed, EngineTypeOK, Evidence
<1>2. CASE Authenticate(c) /\ served[s.at] # "creds"
  <2> DEFINE r == [s EXCEPT !.srv = "request", !.said = "none", !.reply = "welcome"]
  <2>1. r \in ConnRecord
    BY <1>1, SetField
  <2>2. /\ r.at = s.at /\ r.by = s.by /\ r.cli = s.cli /\ r.srv = "request"
        /\ r.reply = "welcome" /\ r.ups = s.ups
    BY <1>1 DEF ConnRecord
  <2>3. s.srv = "auth" /\ ServeStep(c, r)
    BY <1>2 DEF Authenticate
  <2>4. Evident(r)
    BY <1>1, <1>2, <2>2, <2>3 DEF Evident
  <2> HIDE DEF r
  <2> QED BY <2>1, <2>2, <2>3, <2>4, StepInv DEF Served
<1>3. CASE Authenticate(c) /\ served[s.at] = "creds"
  <2> DEFINE r == [Ending(c) EXCEPT !.reply = "refused"]
  <2>1. s.srv = "auth" /\ ServeStep(c, r)
    BY <1>3 DEF Authenticate
  <2>2. r \in ConnRecord
    BY <2>1, EndingRecord, SetField DEF Served
  <2>3. /\ r.at = s.at /\ r.by = s.by /\ r.cli = s.cli /\ r.srv = "release"
        /\ r.reply = "refused" /\ r.ups = "none"
    BY <2>1, EndingRecord DEF ConnRecord, Served
  <2>4. Evident(r)
    BY <1>1, <2>1, <2>3 DEF Evident
  <2> HIDE DEF r
  <2> QED BY <2>1, <2>2, <2>3, <2>4, StepInv DEF Served
<1>4. CASE ReadRequest(c)
  <2> DEFINE r == [s EXCEPT !.srv = "dial", !.said = "none"]
  <2>1. r \in ConnRecord
    BY <1>1, SetField
  <2>2. /\ r.at = s.at /\ r.by = s.by /\ r.cli = s.cli /\ r.srv = "dial"
        /\ r.reply = s.reply /\ r.ups = s.ups
    BY <1>1 DEF ConnRecord
  <2>3. s.srv = "request" /\ ServeStep(c, r)
    BY <1>4 DEF ReadRequest
  <2>4. Evident(r)
    BY <1>1, <2>2, <2>3 DEF Evident
  <2> HIDE DEF r
  <2> QED BY <2>1, <2>2, <2>3, <2>4, StepInv DEF Served
<1>5. CASE DialUpstream(c)
  <2> DEFINE r == [s EXCEPT !.srv = "relay", !.reply = "granted", !.ups = "open"]
             q == [Ending(c) EXCEPT !.reply = "refused", !.why = "route"]
  <2>1. s.srv = "dial" /\ (ServeStep(c, r) \/ ServeStep(c, q))
    BY <1>5 DEF DialUpstream
  <2>2. r \in ConnRecord /\ q \in ConnRecord
    BY <1>1, <2>1, EndingRecord, SetField DEF Served
  <2>3. /\ r.at = s.at /\ r.by = s.by /\ r.cli = s.cli /\ r.srv = "relay"
        /\ r.reply = "granted" /\ r.ups = "open"
    BY <1>1 DEF ConnRecord
  <2>4. /\ q.at = s.at /\ q.by = s.by /\ q.cli = s.cli /\ q.srv = "release"
        /\ q.reply = "refused" /\ q.ups = "none"
    BY <2>1, EndingRecord DEF ConnRecord, Served
  <2>5. Evident(r) /\ Evident(q)
    BY <1>1, <2>1, <2>3, <2>4 DEF Evident
  <2> HIDE DEF r, q
  <2>6. CASE ServeStep(c, r)
    BY <2>1, <2>2, <2>3, <2>5, <2>6, StepInv DEF Served
  <2>7. CASE ServeStep(c, q)
    BY <2>1, <2>2, <2>4, <2>5, <2>7, StepInv DEF Served
  <2> QED BY <2>1, <2>6, <2>7
<1>6. CASE HandshakeFails(c)
  <2> DEFINE r == [Ending(c) EXCEPT !.why = "late"]
  <2>1. s.srv \in {"auth", "request", "dial"} /\ ServeStep(c, r)
    BY <1>6 DEF HandshakeFails
  <2>2. r \in ConnRecord
    BY <2>1, EndingRecord, SetField DEF Served
  <2>3. /\ r.at = s.at /\ r.by = s.by /\ r.cli = s.cli /\ r.srv = "release"
        /\ r.reply = s.reply /\ r.ups = "none"
    BY <2>1, EndingRecord DEF ConnRecord, Served
  <2>4. Evident(r)
    BY <1>1, <2>1, <2>3 DEF Evident
  <2> HIDE DEF r
  <2> QED BY <2>1, <2>2, <2>3, <2>4, StepInv DEF Served
<1> QED BY <1>2, <1>3, <1>4, <1>5, <1>6

LEMMA RelayInv ==
  ASSUME CheckInv, NEW c \in Conn, UNCHANGED checkVars,
         UpCopies(c) \/ UpEnds(c) \/ DownCopies(c) \/ DownEnds(c) \/ RelayEnds(c)
  PROVE  CheckInv'
<1> DEFINE s == conn[c]
<1>1. s \in ConnRecord /\ Evident(s) /\ s.srv = "relay"
  BY DEF CheckInv, Typed, EngineTypeOK, Evidence, UpCopies, UpEnds, DownCopies,
         DownEnds, RelayEnds, Relaying
<1>2. CASE UpCopies(c)
  <2> DEFINE r == [s EXCEPT !.said = "none", !.ups = "asked"]
  <2>1. r \in ConnRecord /\ ServeStep(c, r)
    BY <1>1, <1>2, SetField DEF UpCopies
  <2>2. /\ r.at = s.at /\ r.by = s.by /\ r.cli = s.cli /\ r.srv = s.srv
        /\ r.reply = s.reply /\ r.ups = "asked"
    BY <1>1 DEF ConnRecord
  <2>3. Evident(r)
    BY <1>1, <2>2 DEF Evident
  <2> HIDE DEF r
  <2> QED BY <2>1, <2>2, <2>3, StepInv
<1>3. CASE UpEnds(c)
  <2> DEFINE r == [s EXCEPT !.said = "none", !.up = TRUE]
  <2>1. r \in ConnRecord /\ ServeStep(c, r)
    BY <1>1, <1>3, SetField DEF UpEnds
  <2>2. /\ r.at = s.at /\ r.by = s.by /\ r.cli = s.cli /\ r.srv = s.srv
        /\ r.reply = s.reply /\ r.ups = s.ups
    BY <1>1 DEF ConnRecord
  <2>3. Evident(r)
    BY <1>1, <2>2 DEF Evident
  <2> HIDE DEF r
  <2> QED BY <2>1, <2>2, <2>3, StepInv
<1>4. CASE DownCopies(c)
  <2> DEFINE r == [s EXCEPT !.reply = s.ups, !.ups = "closed"]
  <2>1. r \in ConnRecord /\ ServeStep(c, r) /\ s.ups \in {"right", "wrong"}
    BY <1>1, <1>4, SetField DEF DownCopies
  <2>2. /\ r.at = s.at /\ r.by = s.by /\ r.cli = s.cli /\ r.srv = s.srv
        /\ r.reply = s.ups /\ r.ups = "closed"
    BY <1>1 DEF ConnRecord
  <2>3. Evident(r)
    BY <1>1, <2>1, <2>2 DEF Evident
  <2> HIDE DEF r
  <2> QED BY <2>1, <2>2, <2>3, StepInv
<1>5. CASE DownEnds(c)
  <2> DEFINE r == [s EXCEPT !.down = TRUE]
  <2>1. r \in ConnRecord /\ ServeStep(c, r)
    BY <1>1, <1>5, SetField DEF DownEnds
  <2>2. /\ r.at = s.at /\ r.by = s.by /\ r.cli = s.cli /\ r.srv = s.srv
        /\ r.reply = s.reply /\ r.ups = s.ups
    BY <1>1 DEF ConnRecord
  <2>3. Evident(r)
    BY <1>1, <2>2 DEF Evident
  <2> HIDE DEF r
  <2> QED BY <2>1, <2>2, <2>3, StepInv
<1>6. CASE RelayEnds(c)
  <2>1. ServeStep(c, Ending(c))
    BY <1>6 DEF RelayEnds
  <2> QED BY <1>1, <2>1, EndingRecord, StepInv DEF Served
<1> QED BY <1>2, <1>3, <1>4, <1>5, <1>6

LEMMA UpstreamInv ==
  ASSUME CheckInv, NEW c \in Conn, UNCHANGED checkVars, UpstreamStep(c)
  PROVE  CheckInv'
<1> DEFINE s == conn[c]
           r == [s EXCEPT !.ups = IF served[s.at] = "addr" THEN "wrong" ELSE "right"]
           q == [s EXCEPT !.ups = "closed", !.why = "route"]
<1>1. s \in ConnRecord /\ Evident(s) /\ served[s.at] \in Serving
  BY DEF CheckInv, Typed, EngineTypeOK, Evidence, ConnRecord
<1>2. r \in ConnRecord /\ q \in ConnRecord
  BY <1>1, SetField
<1>3. /\ r.at = s.at /\ r.by = s.by /\ r.cli = s.cli /\ r.srv = s.srv
      /\ r.reply = s.reply /\ r.ups = IF served[s.at] = "addr" THEN "wrong" ELSE "right"
  BY <1>1 DEF ConnRecord
<1>4. /\ q.at = s.at /\ q.by = s.by /\ q.cli = s.cli /\ q.srv = s.srv
      /\ q.reply = s.reply /\ q.ups = "closed"
  BY <1>1 DEF ConnRecord
<1>5. s.ups # "none" /\ (ServeStep(c, r) \/ ServeStep(c, q))
  BY DEF UpstreamStep, Reflects, UpstreamGivesUp
<1>6. Evident(r) /\ Evident(q)
  BY <1>1, <1>3, <1>4, <1>5 DEF Evident, Serving
<1> HIDE DEF r, q
<1> QED BY <1>2, <1>3, <1>4, <1>5, <1>6, StepInv

(***************************************************************************)
(* Slots.                                                                  *)
(***************************************************************************)
\* The connection c and the slots of its listener are all that changes.
LEMMA SlotInv ==
  ASSUME CheckInv, NEW c \in Conn, NEW r \in ConnRecord, Put(c, r),
         UNCHANGED <<runVars, checkVars>>, Evident(r),
         r.at = conn[c].at, r.by = conn[c].by, r.cli = conn[c].cli,
         r.srv # "free", slots' \in [Proxy -> 0..MaxConns], Counted'
  PROVE  CheckInv'
<1> USE DEF CheckInv, Evidence
<1>1. /\ conn' \in [Conn -> ConnRecord] /\ conn'[c] = Settle(r)
      /\ \A d \in Conn \ {c} : conn'[d] = conn[d]
  BY SettleRecord DEF Put, Typed, EngineTypeOK
<1>2. /\ run' = run /\ opened' = opened /\ looping' = looping /\ failed' = failed
      /\ served' = served /\ chk' = chk /\ blamed' = blamed
  BY DEF runVars, checkVars
<1>3. Waited'
  BY <1>1, <1>2, SettleRecord, WaitedKept
<1>4. ASSUME NEW d \in Conn PROVE Evident(conn[d])'
  BY <1>1, <1>2, SettleRecord DEF Evident
<1>5. Typed' /\ LiveMeansServed'
  BY <1>1, <1>2 DEF Typed, EngineTypeOK, Active, LiveMeansServed
<1> QED BY <1>3, <1>4, <1>5

LEMMA AcceptInv ==
  ASSUME CheckInv, NEW c \in Conn, UNCHANGED checkVars, Accept(c)
  PROVE  CheckInv'
<1> DEFINE s == conn[c]
           r == [s EXCEPT !.srv = "auth"]
           q == [s EXCEPT !.srv = "done", !.why = "full"]
<1>1. s \in ConnRecord /\ Evident(s) /\ s.srv = "backlog"
  BY DEF CheckInv, Typed, EngineTypeOK, Evidence, Accept
<1>p. PICK p \in Proxy : p = s.at
  BY <1>1 DEF ConnRecord
<1>2. r \in ConnRecord /\ q \in ConnRecord
  BY <1>1, SetField
<1>3. /\ r.at = s.at /\ r.by = s.by /\ r.cli = s.cli /\ r.srv = "auth"
      /\ r.reply = s.reply /\ r.ups = s.ups
  BY <1>1 DEF ConnRecord
<1>4. /\ q.at = s.at /\ q.by = s.by /\ q.cli = s.cli /\ q.srv = "done"
      /\ q.reply = s.reply /\ q.ups = s.ups
  BY <1>1 DEF ConnRecord
<1>5. Evident(r) /\ Evident(q)
  BY <1>1, <1>3, <1>4 DEF Evident
<1>6. CASE slots[p] < MaxConns
  <2>1. /\ slots' = [slots EXCEPT ![p] = @ + 1] /\ Put(c, r)
        /\ UNCHANGED <<runVars, checkVars>>
    BY <1>6, <1>p DEF Accept
  <2>2. slots' \in [Proxy -> 0..MaxConns]
    BY <1>6, <2>1, Constants DEF CheckInv, Typed, EngineTypeOK
  <2> HIDE DEF r
  <2>3. conn'[c] = Settle(r) /\ \A d \in Conn \ {c} : conn'[d] = conn[d]
    BY <1>2, <2>1, SettleRecord DEF Put, CheckInv, Typed, EngineTypeOK
  <2>a. r.srv \in Served /\ s.srv \notin Served
    BY <1>1, <1>3 DEF Served
  <2>4. conn'[c].at = p /\ conn'[c].srv \in Served
    BY <1>2, <1>3, <1>p, <2>3, <2>a, SettleRecord
  <2>5. Held(p)' = Held(p) \union {c} /\ c \notin Held(p)
    BY <2>a, <2>3, <2>4 DEF Held
  <2>6. IsFiniteSet(Held(p))
    BY Constants, FS_Subset DEF Held
  <2>7. Cardinality(Held(p)') = Cardinality(Held(p)) + 1
    BY <2>5, <2>6, FS_AddElement
  <2>8. \A x \in Proxy \ {p} : Held(x)' = Held(x)
    BY <1>p, <2>a, <2>3, <2>4 DEF Held
  <2>9. \A x \in Proxy : slots'[x] = Cardinality(Held(x)')
    BY <2>1, <2>7, <2>8 DEF CheckInv, Typed, EngineTypeOK, Counted
  <2> QED BY <1>2, <1>3, <1>5, <2>1, <2>2, <2>9, SlotInv DEF Counted
<1>7. CASE ~(slots[p] < MaxConns)
  <2>1. ServeStep(c, q)
    BY <1>7, <1>p DEF Accept, ServeStep
  <2> HIDE DEF q
  <2> QED BY <1>1, <1>2, <1>4, <1>5, <2>1, ServeInv DEF Served
<1> QED BY <1>6, <1>7

LEMMA ReleaseInv ==
  ASSUME CheckInv, NEW c \in Conn, UNCHANGED checkVars, Release(c)
  PROVE  CheckInv'
<1> DEFINE s == conn[c]
           r == [s EXCEPT !.srv = "done"]
<1>1. s \in ConnRecord /\ Evident(s) /\ s.srv = "release"
  BY DEF CheckInv, Typed, EngineTypeOK, Evidence, Release
<1>p. PICK p \in Proxy : p = s.at
  BY <1>1 DEF ConnRecord
<1>2. r \in ConnRecord
  BY <1>1, SetField
<1>3. /\ r.at = s.at /\ r.by = s.by /\ r.cli = s.cli /\ r.srv = "done"
      /\ r.reply = s.reply /\ r.ups = s.ups
  BY <1>1 DEF ConnRecord
<1>4. Evident(r)
  BY <1>1, <1>3 DEF Evident
<1>5. /\ slots' = [slots EXCEPT ![p] = @ - 1] /\ Put(c, r)
      /\ UNCHANGED <<runVars, checkVars>>
  BY <1>p DEF Release
<1> HIDE DEF r
<1>6. conn'[c] = Settle(r) /\ \A d \in Conn \ {c} : conn'[d] = conn[d]
  BY <1>2, <1>5, SettleRecord DEF Put, CheckInv, Typed, EngineTypeOK
<1>a. r.srv \notin Served /\ s.srv \in Served
  BY <1>1, <1>3 DEF Served
<1>7. conn'[c].srv \notin Served /\ c \in Held(p)
  BY <1>2, <1>p, <1>6, <1>a, SettleRecord DEF Held
<1>8. Held(p)' = Held(p) \ {c}
  BY <1>6, <1>7 DEF Held
<1>b. \A x \in Proxy \ {p} : Held(x)' = Held(x)
  BY <1>p, <1>6, <1>7 DEF Held
<1>9. IsFiniteSet(Held(p))
  BY Constants, FS_Subset DEF Held
<1>10. Cardinality(Held(p)') = Cardinality(Held(p)) - 1 /\ Cardinality(Held(p)) \in Nat \ {0}
  BY <1>7, <1>8, <1>9, FS_RemoveElement, FS_CardinalityType, FS_EmptySet
<1>11. slots[p] = Cardinality(Held(p)) /\ slots[p] \in 0..MaxConns
  BY DEF CheckInv, Counted, Typed, EngineTypeOK
<1>12. slots' \in [Proxy -> 0..MaxConns]
  BY <1>5, <1>10, <1>11, Constants DEF CheckInv, Typed, EngineTypeOK
<1>13. \A x \in Proxy : slots'[x] = Cardinality(Held(x)')
  BY <1>5, <1>b, <1>10, <1>11 DEF CheckInv, Typed, EngineTypeOK, Counted
<1> QED BY <1>2, <1>3, <1>4, <1>5, <1>12, <1>13, SlotInv DEF Counted

(***************************************************************************)
(* Run and its listeners.                                                  *)
(***************************************************************************)
LEMMA KilledRecords ==
  ASSUME CheckInv, NEW C, conn' = Killed(C), served' = served, chk' = chk
  PROVE  /\ conn' \in [Conn -> ConnRecord]
         /\ \A d \in Conn : conn'[d] = conn[d] \/ (d \in C /\ conn'[d].srv \notin Served)
         /\ \A d \in Conn : d \in C => conn'[d].srv \notin Served
         /\ (\A d \in Conn : Evident(conn[d]))'
         /\ Waited'
<1> DEFINE q(d) == [conn[d] EXCEPT !.srv = "done", !.ups = "none", !.why = "closed"]
<1>1. ASSUME NEW d \in Conn
      PROVE  /\ q(d) \in ConnRecord
             /\ q(d).at = conn[d].at /\ q(d).by = conn[d].by /\ q(d).cli = conn[d].cli
             /\ q(d).srv = "done" /\ q(d).ups = "none" /\ q(d).reply = conn[d].reply
  <2>1. conn[d] \in ConnRecord
    BY DEF CheckInv, Typed, EngineTypeOK
  <2>2. q(d) \in ConnRecord
    BY <2>1, SetField
  <2>3. /\ q(d).at = conn[d].at /\ q(d).by = conn[d].by /\ q(d).cli = conn[d].cli
        /\ q(d).srv = "done" /\ q(d).ups = "none" /\ q(d).reply = conn[d].reply
    BY <2>1 DEF ConnRecord
  <2> QED BY <2>2, <2>3
<1>2. /\ conn' = [d \in Conn |-> IF d \in C /\ conn[d].srv \notin {"free", "done"}
                                 THEN Settle(q(d)) ELSE conn[d]]
      /\ \A d \in Conn : conn[d] \in ConnRecord /\ Evident(conn[d])
  BY DEF Killed, CheckInv, Typed, EngineTypeOK, Evidence
<1> HIDE DEF q
<1>3. ASSUME NEW d \in Conn
      PROVE  /\ conn'[d] \in ConnRecord
             /\ conn'[d] = conn[d] \/ (d \in C /\ conn'[d].srv \notin Served)
             /\ d \in C => conn'[d].srv \notin Served
             /\ Evident(conn'[d])
             /\ conn[d].cli = "open" /\ conn[d].srv # "free" =>
                  /\ conn'[d].by = conn[d].by /\ conn'[d].cli = "open"
                  /\ conn'[d].at = conn[d].at /\ conn'[d].srv # "free"
  <2>1. CASE d \in C /\ conn[d].srv \notin {"free", "done"}
    <3>1. conn'[d] = Settle(q(d))
      BY <1>2, <2>1
    <3>2. Evident(q(d))
      BY <1>1, <1>2, <2>1 DEF Evident
    <3>3. q(d).srv \notin Served
      BY <1>1 DEF Served
    <3> QED BY <1>1, <2>1, <3>1, <3>2, <3>3, SettleRecord
  <2>2. CASE ~(d \in C /\ conn[d].srv \notin {"free", "done"})
    <3>1. conn'[d] = conn[d]
      BY <1>2, <2>2
    <3>2. d \in C => conn[d].srv \notin Served
      BY <2>2 DEF Served
    <3> QED BY <1>2, <3>1, <3>2
  <2> QED BY <2>1, <2>2
<1>4. conn' \in [Conn -> ConnRecord]
  BY <1>2, <1>3
<1>5. \A d \in Conn : Evident(conn[d])'
  BY <1>3 DEF Evident
<1>6. Waited'
  BY <1>3, WaitedKept DEF CheckInv
<1> QED BY <1>3, <1>4, <1>5, <1>6

LEMMA ExitInv ==
  ASSUME CheckInv, Exit, UNCHANGED <<served, failed>>, UNCHANGED checkVars
  PROVE  CheckInv'
<1>1. /\ conn' = Killed(Conn) /\ slots' = [p \in Proxy |-> 0]
      /\ run' = "returned" /\ opened' = {} /\ looping' = {}
      /\ served' = served /\ failed' = failed /\ chk' = chk /\ blamed' = blamed
  BY DEF Exit, checkVars
<1>2. /\ conn' \in [Conn -> ConnRecord]
      /\ \A d \in Conn : conn'[d].srv \notin Served
      /\ (\A d \in Conn : Evident(conn[d]))' /\ Waited'
  BY <1>1, KilledRecords
<1>3. \A p \in Proxy : Held(p)' = {}
  BY <1>2 DEF Held
<1>4. Counted'
  BY <1>1, <1>3, FS_EmptySet DEF Counted
<1>5. Typed' /\ LiveMeansServed'
  BY <1>1, <1>2, Constants DEF CheckInv, Evidence, Typed, EngineTypeOK, LiveMeansServed
<1> QED BY <1>2, <1>4, <1>5 DEF CheckInv, Evidence

LEMMA CloseInv ==
  ASSUME CheckInv, CloseListeners, UNCHANGED checkVars
  PROVE  CheckInv'
<1> DEFINE C == {c \in Conn : conn[c].srv = "backlog"}
<1>1. /\ conn' = Killed(C) /\ slots' = slots
      /\ run' = "closing" /\ opened' = {} /\ looping' = looping
      /\ served' = served /\ failed' = failed /\ chk' = chk /\ blamed' = blamed
  BY DEF CloseListeners, checkVars
<1>2. \A d \in C : conn[d].srv \notin Served
  BY DEF Served
<1> HIDE DEF C
<1>3. /\ conn' \in [Conn -> ConnRecord]
      /\ \A d \in Conn : conn'[d] = conn[d] \/ (d \in C /\ conn'[d].srv \notin Served)
      /\ (\A d \in Conn : Evident(conn[d]))' /\ Waited'
  BY <1>1, KilledRecords
<1>4. \A p \in Proxy : Held(p)' = Held(p)
  BY <1>2, <1>3 DEF Held
<1>5. Counted'
  BY <1>1, <1>4 DEF CheckInv, Counted
<1>6. Typed' /\ LiveMeansServed'
  BY <1>1, <1>3 DEF CheckInv, Evidence, Typed, EngineTypeOK, Active, LiveMeansServed
<1> QED BY <1>3, <1>5, <1>6 DEF CheckInv, Evidence

\* The steps that leave the connections alone.
LEMMA LoopInv ==
  ASSUME CheckInv, UNCHANGED <<served, slots, conn, chk, blamed>>,
         run' \in {run, "serving"}, opened' \subseteq Active, looping' \subseteq Active,
         failed' \in BOOLEAN
  PROVE  CheckInv'
<1>1. Waited'
  BY DEF CheckInv, Waited, Waiting
<1>2. Counted'
  BY DEF CheckInv, Counted, Held
<1>3. Evidence'
  BY DEF CheckInv, Evidence, Evident, LiveMeansServed
<1>4. Typed'
  BY DEF CheckInv, Typed, EngineTypeOK, Active
<1> QED BY <1>1, <1>2, <1>3, <1>4 DEF CheckInv

LEMMA RunInv ==
  ASSUME CheckInv, RunStep \/ EngineFault, UNCHANGED checkVars
  PROVE  CheckInv'
<1> USE DEF checkVars
<1>1. opened \subseteq Active /\ looping \subseteq Active /\ failed \in BOOLEAN
  BY DEF CheckInv, Typed, EngineTypeOK
<1>2. CASE Listen
  <2>1. CASE Exit
    BY <1>2, <2>1, ExitInv DEF Listen
  <2>2. CASE ~Exit
    BY <1>1, <1>2, <2>2, LoopInv DEF Listen
  <2> QED BY <2>1, <2>2
<1>3. CASE StartLoops
  BY <1>1, <1>3, LoopInv DEF StartLoops
<1>4. CASE RunNotices \/ Terminated
  BY <1>4, CloseInv DEF RunNotices, Terminated
<1>5. CASE RunReturns
  BY <1>5, ExitInv DEF RunReturns
<1>6. ASSUME NEW p \in Proxy, LoopEnds(p) \/ LoopBreaks(p) PROVE CheckInv'
  BY <1>1, <1>6, LoopInv DEF LoopEnds, LoopBreaks
<1> QED BY <1>2, <1>3, <1>4, <1>5, <1>6 DEF RunStep, EngineFault

(***************************************************************************)
(* Other clients.                                                          *)
(***************************************************************************)
LEMMA DialledRecord ==
  ASSUME CheckInv, NEW p \in opened, NEW by \in {"check", "guest"},
         NEW said \in {"none", "creds"}
  PROVE  LET r == Dialled(p, by, said) IN
         /\ p \in Proxy /\ r \in ConnRecord /\ Evident(r)
         /\ r.at = p /\ r.by = by /\ r.cli = "open" /\ r.srv = "backlog"
<1>1. p \in Proxy /\ served[p] # "off"
  BY DEF CheckInv, Typed, EngineTypeOK, Active
<1>2. LET r == Dialled(p, by, said) IN
        /\ r.at = p /\ r.by = by /\ r.cli = "open" /\ r.srv = "backlog"
        /\ r.ups = "none" /\ r.reply = "none"
  BY DEF Dialled, FreeConn
<1>3. Dialled(p, by, said) \in ConnRecord
  <2> DEFINE q == [FreeConn EXCEPT !.at = p]
             r == [q EXCEPT !.by = by]
             t == [r EXCEPT !.srv = "backlog"]
  <2>1. q \in ConnRecord
    BY <1>1, Constants DEF ConnRecord
  <2>2. r \in ConnRecord
    BY <2>1 DEF ConnRecord
  <2>3. t \in ConnRecord
    <3> HIDE DEF r
    <3> QED BY <2>2, SetField
  <2>4. Dialled(p, by, said) = [t EXCEPT !.said = said]
    BY DEF Dialled
  <2>5. said \in {"none", "creds", "connect", "get"}
    OBVIOUS
  <2> HIDE DEF t
  <2>6. [t EXCEPT !.said = said] \in ConnRecord
    BY <2>3, <2>5, SetField
  <2> QED BY <2>4, <2>6
<1> QED BY <1>1, <1>2, <1>3 DEF Evident

LEMMA GuestInv ==
  ASSUME CheckInv, GuestStep, UNCHANGED checkVars
  PROVE  CheckInv'
<1>1. CASE GuestDials
  <2>1. PICK p \in opened : ServeStep(CHOOSE c \in Free : TRUE, Dialled(p, "guest", "none"))
    BY <1>1 DEF GuestDials
  <2>2. PICK c \in Free : c = CHOOSE x \in Free : TRUE
    BY <1>1 DEF GuestDials
  <2>3. c \in Conn /\ conn[c].srv = "free"
    BY DEF Free
  <2> DEFINE r == Dialled(p, "guest", "none")
  <2>4. /\ r \in ConnRecord /\ Evident(r) /\ r.srv = "backlog"
    BY DialledRecord
  <2> HIDE DEF r
  <2>5. ServeStep(c, r)
    BY <2>1, <2>2 DEF r
  <2> QED BY <2>3, <2>4, <2>5, ServeInv DEF Served
<1>2. ASSUME NEW c \in Conn, GuestSpeaks(c) PROVE CheckInv'
  <2> DEFINE s == conn[c]
             r == [s EXCEPT !.said = "creds"]
             q == [s EXCEPT !.reply = "none", !.said = "connect"]
  <2>1. s \in ConnRecord /\ Evident(s) /\ (ServeStep(c, r) \/ ServeStep(c, q))
    BY <1>2 DEF CheckInv, Typed, EngineTypeOK, Evidence, GuestSpeaks
  <2>2. r \in ConnRecord /\ q \in ConnRecord
    BY <2>1, SetField
  <2>3. /\ r.at = s.at /\ r.by = s.by /\ r.cli = s.cli /\ r.srv = s.srv
        /\ r.reply = s.reply /\ r.ups = s.ups
    BY <2>1 DEF ConnRecord
  <2>4. /\ q.at = s.at /\ q.by = s.by /\ q.cli = s.cli /\ q.srv = s.srv
        /\ q.reply = "none" /\ q.ups = s.ups
    BY <2>1 DEF ConnRecord
  <2>5. Evident(r) /\ Evident(q)
    BY <2>1, <2>3, <2>4 DEF Evident
  <2> HIDE DEF r, q
  <2> QED BY <2>1, <2>2, <2>3, <2>4, <2>5, StepInv
<1>3. ASSUME NEW c \in Conn, GuestCloses(c) PROVE CheckInv'
  <2> DEFINE s == conn[c]
  <2>1. PICK end \in {"shut", "gone"} : ServeStep(c, [s EXCEPT !.cli = end])
    BY <1>3 DEF GuestCloses
  <2> DEFINE r == [s EXCEPT !.cli = end]
  <2>2. s \in ConnRecord /\ Evident(s) /\ s.by = "guest"
    BY <1>3 DEF CheckInv, Typed, EngineTypeOK, Evidence, GuestCloses, Guests
  <2>3. r \in ConnRecord
    BY <2>2, SetField
  <2>4. r.at = s.at /\ r.srv = s.srv /\ r.reply = s.reply /\ r.ups = s.ups
    BY <2>2 DEF ConnRecord
  <2>5. Evident(r)
    BY <2>2, <2>4 DEF Evident
  <2> HIDE DEF r
  <2>6. ServeStep(c, r)
    BY <2>1 DEF r
  <2> QED BY <2>2, <2>3, <2>4, <2>5, <2>6, ServeInv
<1> QED BY <1>1, <1>2, <1>3 DEF GuestStep

(***************************************************************************)
(* Checks.                                                                 *)
(***************************************************************************)
LEMMA CheckRecord ==
  ASSUME CheckInv, NEW k \in Checking
  PROVE  /\ chk[k] \in Check /\ chk[k].p \in Proxy /\ chk[k].c \in Conn
         /\ Waiting(k) => conn[chk[k].c] \in ConnRecord /\ Evident(conn[chk[k].c])
BY DEF CheckInv, Typed, EngineTypeOK, Evidence, Check

LEMMA SetCheck ==
  ASSUME NEW r \in Check
  PROVE  /\ \A v \in {"idle", "dial", "auth", "connect", "get", "pause"} :
              [r EXCEPT !.pc = v] \in Check
         /\ \A v \in Proxy : [r EXCEPT !.p = v] \in Check
         /\ \A v \in Conn : [r EXCEPT !.c = v] \in Check
         /\ \A v \in 1..Attempts : [r EXCEPT !.attempt = v] \in Check
         /\ \A v \in BOOLEAN : [r EXCEPT !.fb = v] \in Check
         /\ \A v \in {"none", "ok", "err"} : [r EXCEPT !.res = v] \in Check
BY DEF Check

\* The record of one check is all that changes among the checks.
LEMMA CheckMoves ==
  ASSUME CheckInv, NEW k \in Checking, NEW r \in Check, chk' = [chk EXCEPT ![k] = r]
  PROVE  /\ chk' \in [Checking -> Check]
         /\ chk'[k] = r
         /\ \A l \in Checking \ {k} : chk'[l] = chk[l]
BY DEF CheckInv, Typed

LEMMA ReportedRecord ==
  ASSUME CheckInv, NEW k \in Checking, NEW res \in {"ok", "err"}, chk' = Reported(k, res)
  PROVE  /\ chk' \in [Checking -> Check]
         /\ \A l \in Checking \ {k} : chk'[l] = chk[l]
         /\ chk'[k].pc = "idle" /\ chk'[k].res = res /\ chk'[k].p = chk[k].p
<1> DEFINE r == [Idle EXCEPT !.p = chk[k].p, !.res = res]
<1>1. r \in Check
  BY Constants, CheckRecord, SetCheck
<1>2. r.p = chk[k].p /\ r.res = res /\ r.pc = "idle"
  BY DEF Idle
<1>3. chk' = [chk EXCEPT ![k] = r]
  BY DEF Reported
<1> HIDE DEF r
<1> QED BY <1>1, <1>2, <1>3, CheckMoves

\* A check that failed is not waiting any more, and has not succeeded.
LEMMA FailureRecord ==
  ASSUME CheckInv, NEW k \in Checking, chk' = AfterFailure(k)
  PROVE  /\ chk' \in [Checking -> Check]
         /\ \A l \in Checking \ {k} : chk'[l] = chk[l]
         /\ chk'[k].pc \in {"dial", "pause", "idle"}
         /\ chk'[k].res = "ok" => chk[k].res = "ok" /\ chk'[k].p = chk[k].p
<1> DEFINE s == chk[k]
           r == [s EXCEPT !.pc = "dial", !.fb = TRUE, !.c = Idle.c]
           q == [s EXCEPT !.pc = "pause", !.fb = FALSE, !.c = Idle.c, !.attempt = @ + 1]
<1>1. chk \in [Checking -> Check] /\ s \in Check /\ Idle.c \in Conn
  BY Constants DEF CheckInv, Typed, Check
<1>2. CASE Fallback /\ ~s.fb
  <2>1. chk' = [chk EXCEPT ![k] = r]
    BY <1>1, <1>2 DEF AfterFailure
  <2>2. r \in Check
    BY <1>1, SetCheck
  <2>3. r.pc = "dial" /\ r.res = s.res /\ r.p = s.p
    BY <1>1 DEF Check
  <2> HIDE DEF r
  <2> QED BY <2>1, <2>2, <2>3, CheckMoves
<1>3. CASE ~(Fallback /\ ~s.fb) /\ s.attempt < Attempts
  <2>1. chk' = [chk EXCEPT ![k] = q]
    BY <1>1, <1>3 DEF AfterFailure
  <2>2. s.attempt + 1 \in 1..Attempts
    BY <1>1, <1>3, Constants DEF Check
  <2> DEFINE t == [[[s EXCEPT !.pc = "pause"] EXCEPT !.fb = FALSE] EXCEPT !.c = Idle.c]
  <2>5. t \in Check /\ t.attempt = s.attempt
    <3>1. t \in Check
      BY <1>1, SetCheck
    <3>2. t.attempt = s.attempt
      BY <1>1 DEF Check
    <3> QED BY <3>1, <3>2
  <2>6. q = [t EXCEPT !.attempt = t.attempt + 1]
    OBVIOUS
  <2> HIDE DEF t
  <2>3. q \in Check
    BY <2>2, <2>5, <2>6, SetCheck
  <2>4. q.pc = "pause" /\ q.res = s.res /\ q.p = s.p
    BY <1>1 DEF Check
  <2> HIDE DEF q
  <2> QED BY <2>1, <2>3, <2>4, CheckMoves
<1>4. CASE ~(Fallback /\ ~s.fb) /\ ~(s.attempt < Attempts)
  <2>1. chk' = Reported(k, "err")
    BY <1>4 DEF AfterFailure
  <2> QED BY <2>1, ReportedRecord
<1> QED BY <1>2, <1>3, <1>4

\* A check closes its connection, with whatever result.
LEMMA CheckClosesInv ==
  ASSUME CheckInv, NEW k \in Checking, Waiting(k), Close(chk[k].c), UNCHANGED checkFrame,
         chk' \in [Checking -> Check],
         \A l \in Checking \ {k} : chk'[l] = chk[l],
         chk'[k].pc \in {"dial", "pause", "idle"},
         chk'[k].res = "ok" => served[chk'[k].p] = "same",
         blamed' \subseteq Proxy
  PROVE  CheckInv'
<1> DEFINE s == conn[chk[k].c]
           r == [s EXCEPT !.cli = "gone"]
<1> USE DEF CheckInv, Evidence
<1>1. chk[k].c \in Conn /\ s \in ConnRecord /\ Evident(s)
  BY CheckRecord
<1>2. r \in ConnRecord
  BY <1>1, SetField
<1>3. r.at = s.at /\ r.srv = s.srv /\ r.reply = s.reply /\ r.ups = s.ups
  BY <1>1 DEF ConnRecord
<1>4. Evident(r)
  BY <1>1, <1>3 DEF Evident
<1>5. /\ Put(chk[k].c, r) /\ served' = served /\ slots' = slots
      /\ run' = run /\ opened' = opened /\ looping' = looping /\ failed' = failed
  BY DEF Close, checkFrame, runVars
<1> HIDE DEF r
<1>6. /\ conn' \in [Conn -> ConnRecord] /\ Counted'
      /\ conn' = [conn EXCEPT ![chk[k].c] = Settle(r)]
      /\ \A d \in Conn : Evident(conn[d])'
  BY <1>1, <1>2, <1>3, <1>4, <1>5, PutKeeps
<1>7. \A d \in Conn \ {chk[k].c} : conn'[d] = conn[d]
  BY <1>6 DEF Typed, EngineTypeOK
<1>8. \A l \in Checking : Waiting(l)' => l # k /\ Waiting(l) /\ chk'[l] = chk[l]
  BY DEF Waiting
<1>9. \A l \in Checking : Waiting(l)' =>
        chk[l].c \in Conn /\ chk[l].c # chk[k].c /\ conn'[chk[l].c] = conn[chk[l].c]
  BY <1>7, <1>8, CheckRecord DEF Waited
<1>10. Waited'
  BY <1>8, <1>9 DEF Waited
<1>11. LiveMeansServed'
  BY <1>5 DEF LiveMeansServed
<1>12. Typed'
  BY <1>5, <1>6 DEF Typed, EngineTypeOK, Active
<1> QED BY <1>6, <1>10, <1>11, <1>12

LEMMA FailInv ==
  ASSUME CheckInv, NEW k \in Checking, Succeed(k) \/ Fail(k) \/ Timeout(k)
  PROVE  CheckInv'
<1>1. Waiting(k) /\ Close(chk[k].c) /\ UNCHANGED checkFrame
  BY DEF Succeed, Fail, Timeout, Waiting
<1>2. chk[k].p \in Proxy /\ chk[k].res = "ok" => served[chk[k].p] = "same"
  BY DEF CheckInv, Evidence, LiveMeansServed
<1>3. blamed' \subseteq Proxy
  BY CheckRecord DEF CheckInv, Typed, Succeed, Fail, Timeout, Blame
<1>4. CASE Succeed(k)
  <2>1. served[chk[k].p] = "same" /\ served' = served
    BY <1>4, CheckRecord DEF Succeed, Evident, CheckInv, Waited, Waiting, checkFrame, runVars
  <2>2. chk' = Reported(k, "ok")
    BY <1>4 DEF Succeed
  <2> QED BY <1>1, <1>3, <2>1, <2>2, ReportedRecord, CheckClosesInv
<1>5. CASE Fail(k) \/ Timeout(k)
  <2>1. chk' = AfterFailure(k)
    BY <1>5 DEF Fail, Timeout
  <2> QED BY <1>1, <1>2, <1>3, <2>1, CheckRecord, FailureRecord, CheckClosesInv
<1> QED BY <1>4, <1>5

\* A check goes on without its connection, or has none yet.
LEMMA QuietInv ==
  ASSUME CheckInv, NEW k \in Checking, UNCHANGED <<checkFrame, conn, blamed>>,
         chk' \in [Checking -> Check],
         \A l \in Checking \ {k} : chk'[l] = chk[l],
         chk'[k].pc \in {"dial", "pause", "idle"},
         chk'[k].res = "ok" => served[chk'[k].p] = "same"
  PROVE  CheckInv'
<1>1. /\ conn' = conn /\ served' = served /\ slots' = slots /\ blamed' = blamed
      /\ run' = run /\ opened' = opened /\ looping' = looping /\ failed' = failed
  BY DEF checkFrame, runVars
<1>2. \A l \in Checking : Waiting(l)' => l # k /\ Waiting(l) /\ chk'[l] = chk[l]
  BY DEF Waiting
<1>3. Waited'
  BY <1>1, <1>2 DEF CheckInv, Waited
<1>4. Counted'
  BY <1>1 DEF CheckInv, Counted, Held
<1>5. Evidence'
  BY <1>1 DEF CheckInv, Evidence, Evident, LiveMeansServed
<1>6. Typed'
  BY <1>1 DEF CheckInv, Typed, EngineTypeOK, Active
<1> QED BY <1>3, <1>4, <1>5, <1>6 DEF CheckInv

LEMMA BeginPauseInv ==
  ASSUME CheckInv, NEW k \in Checking, Begin(k) \/ Pause(k)
  PROVE  CheckInv'
<1>1. chk[k] \in Check /\ (chk[k].res = "ok" => served[chk[k].p] = "same")
  BY CheckRecord DEF CheckInv, Evidence, LiveMeansServed
<1>2. CASE Begin(k)
  <2>1. PICK p \in Proxy : chk' = [chk EXCEPT ![k] = [Idle EXCEPT !.pc = "dial", !.p = p]]
    BY <1>2 DEF Begin
  <2> DEFINE r == [Idle EXCEPT !.pc = "dial", !.p = p]
  <2>2. r \in Check
    BY Constants, SetCheck
  <2>3. r.pc = "dial" /\ r.res = "none"
    BY DEF Idle
  <2>4. chk' = [chk EXCEPT ![k] = r]
    BY <2>1
  <2> HIDE DEF r
  <2> QED BY <1>2, <2>2, <2>3, <2>4, CheckMoves, QuietInv DEF Begin
<1>3. CASE Pause(k) /\ chk' = [chk EXCEPT ![k].pc = "dial"]
  <2> DEFINE r == [chk[k] EXCEPT !.pc = "dial"]
  <2>1. r \in Check
    BY <1>1, SetCheck
  <2>2. r.pc = "dial" /\ r.res = chk[k].res /\ r.p = chk[k].p
    BY <1>1 DEF Check
  <2>3. chk' = [chk EXCEPT ![k] = r]
    BY <1>3
  <2>4. UNCHANGED <<checkFrame, conn, blamed>>
    BY <1>3 DEF Pause
  <2> HIDE DEF r
  <2>5. /\ chk' \in [Checking -> Check] /\ chk'[k] = r
        /\ \A l \in Checking \ {k} : chk'[l] = chk[l]
    BY <2>1, <2>3, CheckMoves
  <2> QED BY <1>1, <2>2, <2>4, <2>5, QuietInv
<1>4. CASE Pause(k) /\ chk' = Reported(k, "err")
  BY <1>4, ReportedRecord, QuietInv DEF Pause
<1> QED BY <1>2, <1>3, <1>4 DEF Pause

LEMMA DialInv ==
  ASSUME CheckInv, NEW k \in Checking, Dial(k)
  PROVE  CheckInv'
<1> USE DEF CheckInv, Evidence
<1>1. chk[k] \in Check /\ (chk[k].res = "ok" => served[chk[k].p] = "same")
  BY CheckRecord DEF LiveMeansServed
<1>2. CASE chk' = AfterFailure(k) /\ UNCHANGED <<conn, blamed>>
  BY <1>1, <1>2, FailureRecord, QuietInv DEF Dial, checkFrame
<1>3. CASE ~(chk' = AfterFailure(k) /\ UNCHANGED <<conn, blamed>>)
  <2>1. PICK c \in Free : /\ chk[k].p \in opened
                          /\ Put(c, Dialled(chk[k].p, "check", "creds"))
                          /\ chk' = [chk EXCEPT ![k].pc = "auth", ![k].c = c]
    BY <1>3 DEF Dial
  <2>2. /\ served' = served /\ slots' = slots /\ blamed' = blamed
        /\ run' = run /\ opened' = opened /\ looping' = looping /\ failed' = failed
    BY <1>3 DEF Dial, checkFrame, runVars
  <2>3. c \in Conn /\ conn[c].srv = "free"
    BY <2>1 DEF Free
  <2> DEFINE r == Dialled(chk[k].p, "check", "creds")
             t == [chk[k] EXCEPT !.pc = "auth", !.c = c]
  <2>4. t \in Check /\ chk' = [chk EXCEPT ![k] = t]
    BY <1>1, <2>1, <2>3, SetCheck
  <2>5. t.pc = "auth" /\ t.c = c /\ t.p = chk[k].p /\ t.res = chk[k].res
    BY <1>1 DEF Check
  <2>6. /\ r \in ConnRecord /\ Evident(r) /\ r.srv = "backlog"
        /\ r.at = chk[k].p /\ r.by = "check" /\ r.cli = "open"
    BY <2>1, DialledRecord
  <2>7. Put(c, r)
    BY <2>1
  <2> HIDE DEF r, t
  <2>8. /\ chk' \in [Checking -> Check] /\ chk'[k] = t
        /\ \A l \in Checking \ {k} : chk'[l] = chk[l]
    BY <2>4, CheckMoves
  <2>9. /\ conn' \in [Conn -> ConnRecord] /\ Counted'
        /\ conn' = [conn EXCEPT ![c] = Settle(r)]
        /\ \A d \in Conn : Evident(conn[d])'
    BY <2>2, <2>3, <2>6, <2>7, PutKeeps DEF Served
  <2>10. conn'[c] = Settle(r) /\ \A d \in Conn \ {c} : conn'[d] = conn[d]
    BY <2>3, <2>9 DEF Typed, EngineTypeOK
  <2>11. /\ conn'[c].by = "check" /\ conn'[c].cli = "open" /\ conn'[c].at = chk[k].p
         /\ conn'[c].srv # "free"
    BY <2>6, <2>10, SettleRecord
  <2>12. \A l \in Checking \ {k} : Waiting(l)' =>
           /\ Waiting(l) /\ chk'[l] = chk[l]
           /\ chk[l].c \in Conn /\ chk[l].c # c /\ conn'[chk[l].c] = conn[chk[l].c]
    BY <2>3, <2>8, <2>10, CheckRecord DEF Waited, Waiting
  <2>13. Waited'
    <3>1. ASSUME NEW l \in Checking \ {k}, Waiting(l)'
          PROVE  LET d == chk'[l].c IN
                 /\ conn'[d].by = "check" /\ conn'[d].cli = "open"
                 /\ conn'[d].at = chk'[l].p /\ conn'[d].srv # "free"
                 /\ \A m \in Checking : Waiting(m)' /\ d = chk'[m].c => l = m
      BY <3>1, <2>5, <2>8, <2>12 DEF Waited
    <3>2. \A m \in Checking : Waiting(m)' /\ c = chk'[m].c => k = m
      BY <2>12
    <3> QED BY <3>1, <3>2, <2>5, <2>8, <2>11 DEF Waited
  <2>14. LiveMeansServed'
    BY <1>1, <2>2, <2>5, <2>8 DEF LiveMeansServed
  <2>15. Typed'
    BY <2>2, <2>8, <2>9 DEF Typed, EngineTypeOK, Active
  <2> QED BY <2>9, <2>13, <2>14, <2>15
<1> QED BY <1>2, <1>3

LEMMA SpeakInv ==
  ASSUME CheckInv, NEW k \in Checking, Speak(k)
  PROVE  CheckInv'
<1> USE DEF CheckInv, Evidence
<1> DEFINE c == chk[k].c
           s == conn[c]
           t == Turn[chk[k].pc]
           r == [s EXCEPT !.reply = "none", !.said = t.says]
           q == [chk[k] EXCEPT !.pc = t.pc]
<1>1. /\ chk[k] \in Check /\ c \in Conn /\ s \in ConnRecord /\ Evident(s)
      /\ (chk[k].res = "ok" => served[chk[k].p] = "same")
      /\ Waiting(k) /\ s.by = "check" /\ s.cli = "open" /\ s.at = chk[k].p /\ s.srv # "free"
  BY CheckRecord DEF LiveMeansServed, Waited, Speak
<1>2. t.pc \in {"connect", "get"} /\ t.says \in {"connect", "get"}
  BY DEF Speak, Waiting, Turn
<1>3. /\ Put(c, r) /\ chk' = [chk EXCEPT ![k] = q]
      /\ served' = served /\ slots' = slots /\ blamed' = blamed
      /\ run' = run /\ opened' = opened /\ looping' = looping /\ failed' = failed
  BY DEF Speak, checkFrame, runVars
<1> HIDE DEF t
<1>4. r \in ConnRecord
  BY <1>1, <1>2, SetField
<1>5. /\ r.at = s.at /\ r.by = s.by /\ r.cli = s.cli /\ r.srv = s.srv /\ r.ups = s.ups
      /\ r.reply = "none"
  BY <1>1 DEF ConnRecord
<1>6. Evident(r)
  BY <1>1, <1>5 DEF Evident
<1>7. q \in Check
  BY <1>1, <1>2, SetCheck
<1>8. q.pc = t.pc /\ q.c = c /\ q.p = chk[k].p /\ q.res = chk[k].res
  BY <1>1 DEF Check
<1> HIDE DEF r, q
<1>9. /\ chk' \in [Checking -> Check] /\ chk'[k] = q
      /\ \A l \in Checking \ {k} : chk'[l] = chk[l]
  BY <1>3, <1>7, CheckMoves
<1>10. /\ conn' \in [Conn -> ConnRecord] /\ Counted'
       /\ conn' = [conn EXCEPT ![c] = Settle(r)]
       /\ \A d \in Conn : Evident(conn[d])'
  BY <1>1, <1>3, <1>4, <1>5, <1>6, PutKeeps
<1>11. conn'[c] = Settle(r) /\ \A d \in Conn \ {c} : conn'[d] = conn[d]
  BY <1>1, <1>10 DEF Typed, EngineTypeOK
<1>12. /\ conn'[c].by = "check" /\ conn'[c].cli = "open" /\ conn'[c].at = chk[k].p
       /\ conn'[c].srv # "free"
  BY <1>1, <1>4, <1>5, <1>11, SettleRecord
<1>13. \A l \in Checking : chk'[l].c = chk[l].c /\ chk'[l].p = chk[l].p
  BY <1>8, <1>9
<1>14. \A l \in Checking : Waiting(l)' => Waiting(l)
  BY <1>1, <1>9 DEF Waiting
<1>15. \A l \in Checking \ {k} : Waiting(l) =>
         chk[l].c \in Conn /\ chk[l].c # c /\ conn'[chk[l].c] = conn[chk[l].c]
  BY <1>1, <1>11, CheckRecord DEF Waited
<1>16. Waited'
  <2>1. ASSUME NEW l \in Checking \ {k}, Waiting(l)'
        PROVE  LET d == chk'[l].c IN
               /\ conn'[d].by = "check" /\ conn'[d].cli = "open"
               /\ conn'[d].at = chk'[l].p /\ conn'[d].srv # "free"
               /\ \A m \in Checking : Waiting(m)' /\ d = chk'[m].c => l = m
    BY <2>1, <1>13, <1>14, <1>15 DEF Waited
  <2>2. \A m \in Checking : Waiting(m)' /\ c = chk'[m].c => k = m
    BY <1>13, <1>14, <1>15
  <2> QED BY <2>1, <2>2, <1>12, <1>13 DEF Waited
<1>17. LiveMeansServed'
  BY <1>1, <1>3, <1>8, <1>9 DEF LiveMeansServed
<1>18. Typed'
  BY <1>3, <1>9, <1>10 DEF Typed, EngineTypeOK, Active
<1> QED BY <1>10, <1>16, <1>17, <1>18

(***************************************************************************)
(* The specification.                                                      *)
(***************************************************************************)
LEMMA InitInv == Init => CheckInv
<1> SUFFICES ASSUME Init PROVE CheckInv
  OBVIOUS
<1>1. Typed
  <2>1. chk \in [Checking -> Check] /\ conn \in [Conn -> ConnRecord]
    BY Constants DEF Init, EngineInit
  <2>2. slots \in [Proxy -> 0..MaxConns]
    BY Constants DEF Init, EngineInit
  <2> QED BY <2>1, <2>2 DEF Init, EngineInit, Typed, EngineTypeOK
<1>2. Waited
  BY DEF Init, Waited, Waiting, Idle
<1>3. \A p \in Proxy : Held(p) = {}
  BY DEF Init, EngineInit, Held, FreeConn, Served
<1>4. Counted
  BY <1>3, FS_EmptySet DEF Init, EngineInit, Counted
<1>5. Evidence
  BY DEF Init, EngineInit, Evidence, Evident, LiveMeansServed, FreeConn, Idle
<1> QED BY <1>1, <1>2, <1>4, <1>5 DEF CheckInv

LEMMA NextInv == CheckInv /\ [Next]_vars => CheckInv'
<1> SUFFICES ASSUME CheckInv, [Next]_vars PROVE CheckInv'
  OBVIOUS
<1>1. CASE (RunStep \/ EngineFault) /\ UNCHANGED checkVars
  BY <1>1, RunInv
<1>2. CASE GuestStep /\ UNCHANGED checkVars
  BY <1>2, GuestInv
<1>3. ASSUME NEW c \in Conn, ConnStep(c), UNCHANGED checkVars PROVE CheckInv'
  BY <1>3, HandshakeInv, RelayInv, AcceptInv, ReleaseInv DEF ConnStep
<1>4. ASSUME NEW c \in Conn, UpstreamStep(c), UNCHANGED checkVars PROVE CheckInv'
  BY <1>4, UpstreamInv
<1>5. ASSUME NEW k \in Checking, Begin(k) \/ CheckStep(k) PROVE CheckInv'
  BY <1>5, BeginPauseInv, DialInv, SpeakInv, FailInv DEF CheckStep
<1>6. CASE UNCHANGED vars
  <2>1. /\ UNCHANGED <<served, slots, conn, chk, blamed, run, opened, looping, failed>>
    BY <1>6 DEF vars, engineVars, checkVars
  <2> QED BY <2>1, LoopInv DEF CheckInv, Typed, EngineTypeOK
<1> QED BY <1>1, <1>2, <1>3, <1>4, <1>5, <1>6 DEF Next, EngineOnly

LEMMA Inductive == Spec => []CheckInv
<1> QED BY InitInv, NextInv, PTL DEF Spec

\* Every variable keeps its type and no two checks ever wait on one connection.
THEOREM TypeCorrect == Spec => []TypeOK
<1>1. CheckInv => TypeOK
  BY DEF CheckInv, Typed, Waited, TypeOK
<1> QED BY <1>1, Inductive, PTL

\* acceptLoop's slots: taken ones are exactly the connections served, never more
\* than maxConnections, whichever way handshake, relay or engine end.
THEOREM SlotsAreAccounted == Spec => []SlotsAccounted
<1>1. CheckInv => SlotsAccounted
  BY Constants DEF CheckInv, Typed, EngineTypeOK, Counted, Held, SlotsAccounted
<1> QED BY <1>1, Inductive, PTL

\* Checker.Check reports success only for a proxy that the engine serves as saved.
THEOREM LiveIsServed == Spec => []LiveMeansServed
<1>1. CheckInv => LiveMeansServed
  BY DEF CheckInv, Evidence
<1> QED BY <1>1, Inductive, PTL

(***************************************************************************)
(* A proxy served as saved is not blamed.  A check that waits for such a   *)
(* proxy and its connection take turns until something else goes wrong:    *)
(* what the connection holds is then always the next thing to expect.      *)
(***************************************************************************)
Turns == {"auth", "connect", "get"}

OnTrack(r, pc) ==
  /\ ~r.up /\ (r.down => r.reply = "right")
  /\ \/ /\ pc = "auth" /\ r.ups = "none"
        /\ \/ r.srv \in {"backlog", "auth"} /\ r.said = "creds" /\ r.reply = "none"
           \/ r.srv = "request" /\ r.said = "none" /\ r.reply = "welcome"
     \/ /\ pc = "connect"
        /\ \/ r.srv = "request" /\ r.said = "connect" /\ r.reply = "none" /\ r.ups = "none"
           \/ r.srv = "dial" /\ r.said = "none" /\ r.reply = "none" /\ r.ups = "none"
           \/ r.srv = "relay" /\ r.said = "none" /\ r.reply = "granted" /\ r.ups = "open"
     \/ /\ pc = "get" /\ r.srv = "relay"
        /\ \/ r.said = "get" /\ r.reply = "none" /\ r.ups = "open"
           \/ r.said = "none" /\ r.reply = "none" /\ r.ups \in {"asked", "right"}
           \/ r.said = "none" /\ r.reply = "right" /\ r.ups = "closed"

\* Either it goes as it should or it is known why not.
Fine(r, pc) == r.why # "none" \/ OnTrack(r, pc)

Tracked ==
  \A k \in Checking : Waiting(k) /\ served[chk[k].p] = "same" => Fine(conn[chk[k].c], chk[k].pc)

LEMMA SettleFine ==
  ASSUME NEW r \in ConnRecord, r.by = "check", r.cli = "open", NEW pc, Fine(r, pc)
  PROVE  Fine(Settle(r), pc)
<1>1. Settle(r) = [r EXCEPT !.why = r.why]
  BY DEF Settle
<1>2. /\ Settle(r).srv = r.srv /\ Settle(r).said = r.said /\ Settle(r).reply = r.reply
      /\ Settle(r).ups = r.ups /\ Settle(r).up = r.up /\ Settle(r).down = r.down
      /\ Settle(r).why = r.why
  BY <1>1 DEF ConnRecord
<1> HIDE DEF Settle
<1> QED BY <1>2 DEF Fine, OnTrack

\* The connection's step is a change to a record that is still as it should be.
LEMMA PutFine ==
  ASSUME CheckInv, NEW c \in Conn, NEW r \in ConnRecord, Put(c, r),
         r.by = "check", r.cli = "open", NEW pc, Fine(r, pc)
  PROVE  Fine(conn'[c], pc)
<1>1. conn'[c] = Settle(r)
  BY DEF Put, CheckInv, Typed, EngineTypeOK
<1> QED BY <1>1, SettleFine

LEMMA EndingFine ==
  ASSUME CheckInv, NEW c \in Conn, conn[c].srv \in Served, conn[c].by = "check",
         conn[c].cli = "open", NEW pc,
         NEW reply \in {"none", "welcome", "refused", "granted", "right", "wrong"},
         NEW why \in {"late", "route"},
         Put(c, [Ending(c) EXCEPT !.reply = reply, !.why = why])
  PROVE  Fine(conn'[c], pc)
<1> DEFINE q == [Ending(c) EXCEPT !.reply = reply]
           r == [q EXCEPT !.why = why]
<1>1. q \in ConnRecord /\ q.by = "check" /\ q.cli = "open"
  <2>1. Ending(c) \in ConnRecord /\ Ending(c).by = "check" /\ Ending(c).cli = "open"
    BY EndingRecord
  <2>2. q \in ConnRecord
    BY <2>1, SetField
  <2> QED BY <2>1, <2>2 DEF ConnRecord
<1>2. Put(c, r)
  OBVIOUS
<1> HIDE DEF q
<1>3. r \in ConnRecord
  BY <1>1, SetField
<1>4. r.by = "check" /\ r.cli = "open" /\ r.why = why
  BY <1>1 DEF ConnRecord
<1> HIDE DEF r
<1> QED BY <1>2, <1>3, <1>4, PutFine DEF Fine

LEMMA HandshakeFine ==
  ASSUME CheckInv, NEW c \in Conn, conn[c].by = "check", conn[c].cli = "open",
         served[conn[c].at] = "same", NEW pc \in Turns, Fine(conn[c], pc),
         Authenticate(c) \/ ReadRequest(c) \/ DialUpstream(c) \/ HandshakeFails(c)
  PROVE  Fine(conn'[c], pc)
<1> DEFINE s == conn[c]
<1>1. s \in ConnRecord
  BY DEF CheckInv, Typed, EngineTypeOK
<1>2. CASE Authenticate(c)
  <2> DEFINE r == [s EXCEPT !.srv = "request", !.said = "none", !.reply = "welcome"]
  <2>1. r \in ConnRecord
    BY <1>1, SetField
  <2>2. /\ r.by = s.by /\ r.cli = s.cli /\ r.srv = "request" /\ r.said = "none"
        /\ r.reply = "welcome" /\ r.ups = s.ups /\ r.up = s.up /\ r.down = s.down
        /\ r.why = s.why
    BY <1>1 DEF ConnRecord
  <2>3. s.srv = "auth" /\ Put(c, r)
    BY <1>2 DEF Authenticate, ServeStep
  <2> HIDE DEF r
  <2>4. Fine(r, pc)
    BY <2>2, <2>3 DEF Fine, OnTrack
  <2> QED BY <2>1, <2>2, <2>3, <2>4, PutFine
<1>3. CASE ReadRequest(c)
  <2> DEFINE r == [s EXCEPT !.srv = "dial", !.said = "none"]
  <2>1. r \in ConnRecord
    BY <1>1, SetField
  <2>2. /\ r.by = s.by /\ r.cli = s.cli /\ r.srv = "dial" /\ r.said = "none"
        /\ r.reply = s.reply /\ r.ups = s.ups /\ r.up = s.up /\ r.down = s.down
        /\ r.why = s.why
    BY <1>1 DEF ConnRecord
  <2>3. s.srv = "request" /\ s.said = "connect" /\ Put(c, r)
    BY <1>3 DEF ReadRequest, ServeStep
  <2> HIDE DEF r
  <2>4. Fine(r, pc)
    BY <2>2, <2>3 DEF Fine, OnTrack
  <2> QED BY <2>1, <2>2, <2>3, <2>4, PutFine
<1>4. CASE DialUpstream(c)
  <2> DEFINE r == [s EXCEPT !.srv = "relay", !.reply = "granted", !.ups = "open"]
  <2>1. r \in ConnRecord
    BY <1>1, SetField
  <2>2. /\ r.by = s.by /\ r.cli = s.cli /\ r.srv = "relay" /\ r.said = s.said
        /\ r.reply = "granted" /\ r.ups = "open" /\ r.up = s.up /\ r.down = s.down
        /\ r.why = s.why
    BY <1>1 DEF ConnRecord
  <2>3. s.srv = "dial" /\ (Put(c, r) \/ Put(c, [Ending(c) EXCEPT !.reply = "refused", !.why = "route"]))
    BY <1>4 DEF DialUpstream, ServeStep
  <2> HIDE DEF r
  <2>4. Fine(r, pc)
    BY <2>2, <2>3 DEF Fine, OnTrack
  <2> QED BY <2>1, <2>2, <2>3, <2>4, PutFine, EndingFine DEF Served
<1>5. CASE HandshakeFails(c)
  BY <1>5 DEF HandshakeFails
<1> QED BY <1>2, <1>3, <1>4, <1>5

LEMMA RelayFine ==
  ASSUME CheckInv, NEW c \in Conn, conn[c].by = "check", conn[c].cli = "open",
         NEW pc \in Turns, Fine(conn[c], pc),
         UpCopies(c) \/ UpEnds(c) \/ DownCopies(c) \/ DownEnds(c) \/ RelayEnds(c)
  PROVE  Fine(conn'[c], pc)
<1> DEFINE s == conn[c]
<1>1. s \in ConnRecord /\ s.srv = "relay"
  BY DEF CheckInv, Typed, EngineTypeOK, UpCopies, UpEnds, DownCopies, DownEnds, RelayEnds, Relaying
<1>2. CASE UpCopies(c)
  <2> DEFINE r == [s EXCEPT !.said = "none", !.ups = "asked"]
  <2>1. r \in ConnRecord /\ Put(c, r) /\ s.said # "none"
    BY <1>1, <1>2, SetField DEF UpCopies, ServeStep
  <2>2. /\ r.by = s.by /\ r.cli = s.cli /\ r.srv = s.srv /\ r.said = "none"
        /\ r.reply = s.reply /\ r.ups = "asked" /\ r.up = s.up /\ r.down = s.down
        /\ r.why = s.why
    BY <1>1 DEF ConnRecord
  <2> HIDE DEF r
  <2>3. Fine(r, pc)
    BY <1>1, <2>1, <2>2 DEF Fine, OnTrack
  <2> QED BY <2>1, <2>2, <2>3, PutFine
<1>3. CASE UpEnds(c)
  <2> DEFINE r == [s EXCEPT !.said = "none", !.up = TRUE]
  <2>1. r \in ConnRecord /\ Put(c, r) /\ s.said # "none" /\ s.ups = "closed"
    BY <1>1, <1>3, SetField DEF UpEnds, ServeStep
  <2>2. r.by = s.by /\ r.cli = s.cli /\ r.why = s.why
    BY <1>1 DEF ConnRecord
  <2> HIDE DEF r
  <2>3. Fine(r, pc)
    BY <1>1, <2>1, <2>2 DEF Fine, OnTrack
  <2> QED BY <2>1, <2>2, <2>3, PutFine
<1>4. CASE DownCopies(c)
  <2> DEFINE r == [s EXCEPT !.reply = s.ups, !.ups = "closed"]
  <2>1. r \in ConnRecord /\ Put(c, r) /\ s.ups \in {"right", "wrong"}
    BY <1>1, <1>4, SetField DEF DownCopies, ServeStep
  <2>2. /\ r.by = s.by /\ r.cli = s.cli /\ r.srv = s.srv /\ r.said = s.said
        /\ r.reply = s.ups /\ r.ups = "closed" /\ r.up = s.up /\ r.down = s.down
        /\ r.why = s.why
    BY <1>1 DEF ConnRecord
  <2> HIDE DEF r
  <2>3. Fine(r, pc)
    BY <1>1, <2>1, <2>2 DEF Fine, OnTrack
  <2> QED BY <2>1, <2>2, <2>3, PutFine
<1>5. CASE DownEnds(c)
  <2> DEFINE r == [s EXCEPT !.down = TRUE]
  <2>1. r \in ConnRecord /\ Put(c, r) /\ s.ups = "closed"
    BY <1>1, <1>5, SetField DEF DownEnds, ServeStep
  <2>2. /\ r.by = s.by /\ r.cli = s.cli /\ r.srv = s.srv /\ r.said = s.said
        /\ r.reply = s.reply /\ r.ups = s.ups /\ r.up = s.up /\ r.why = s.why
    BY <1>1 DEF ConnRecord
  <2> HIDE DEF r
  <2>3. Fine(r, pc)
    BY <1>1, <2>1, <2>2 DEF Fine, OnTrack
  <2> QED BY <2>1, <2>2, <2>3, PutFine
<1>6. CASE RelayEnds(c)
  <2>1. /\ Put(c, Ending(c)) /\ s.up
    BY <1>6 DEF RelayEnds, ServeStep
  <2>2. Ending(c) \in ConnRecord /\ Ending(c).by = "check" /\ Ending(c).cli = "open"
    BY <1>1, EndingRecord DEF Served
  <2>3. Ending(c).why = s.why
    BY <1>1 DEF Ending, ConnRecord
  <2>4. Fine(Ending(c), pc)
    BY <2>1, <2>3 DEF Fine, OnTrack
  <2> QED BY <2>1, <2>2, <2>4, PutFine
<1> QED BY <1>2, <1>3, <1>4, <1>5, <1>6

LEMMA AcceptFine ==
  ASSUME CheckInv, NEW c \in Conn, conn[c].by = "check", conn[c].cli = "open",
         NEW pc \in Turns, Fine(conn[c], pc), Accept(c) \/ Release(c)
  PROVE  Fine(conn'[c], pc)
<1> DEFINE s == conn[c]
           r == [s EXCEPT !.srv = "auth"]
           q == [s EXCEPT !.srv = "done", !.why = "full"]
           t == [s EXCEPT !.srv = "done"]
<1>1. s \in ConnRecord
  BY DEF CheckInv, Typed, EngineTypeOK
<1>2. r \in ConnRecord /\ q \in ConnRecord /\ t \in ConnRecord
  BY <1>1, SetField
<1>3. /\ r.by = s.by /\ r.cli = s.cli /\ r.srv = "auth" /\ r.said = s.said
      /\ r.reply = s.reply /\ r.ups = s.ups /\ r.up = s.up /\ r.down = s.down /\ r.why = s.why
  BY <1>1 DEF ConnRecord
<1>4. /\ q.by = s.by /\ q.cli = s.cli /\ q.why = "full"
      /\ t.by = s.by /\ t.cli = s.cli /\ t.why = s.why
  BY <1>1 DEF ConnRecord
<1>5. \/ s.srv = "backlog" /\ (Put(c, r) \/ Put(c, q))
      \/ s.srv = "release" /\ Put(c, t)
  BY DEF Accept, Release
<1> HIDE DEF r, q, t
<1>6. Fine(q, pc) /\ (s.srv = "backlog" => Fine(r, pc)) /\ (s.srv = "release" => Fine(t, pc))
  BY <1>3, <1>4 DEF Fine, OnTrack
<1> QED BY <1>2, <1>3, <1>4, <1>5, <1>6, PutFine

LEMMA UpstreamFine ==
  ASSUME CheckInv, NEW c \in Conn, conn[c].by = "check", conn[c].cli = "open",
         served[conn[c].at] = "same", NEW pc \in Turns, Fine(conn[c], pc), UpstreamStep(c)
  PROVE  Fine(conn'[c], pc)
<1> DEFINE s == conn[c]
           r == [s EXCEPT !.ups = "right"]
           q == [s EXCEPT !.ups = "closed", !.why = "route"]
<1>1. s \in ConnRecord
  BY DEF CheckInv, Typed, EngineTypeOK
<1>2. r \in ConnRecord /\ q \in ConnRecord
  BY <1>1, SetField
<1>3. /\ r.by = s.by /\ r.cli = s.cli /\ r.srv = s.srv /\ r.said = s.said
      /\ r.reply = s.reply /\ r.ups = "right" /\ r.up = s.up /\ r.down = s.down /\ r.why = s.why
  BY <1>1 DEF ConnRecord
<1>4. q.by = s.by /\ q.cli = s.cli /\ q.why = "route"
  BY <1>1 DEF ConnRecord
<1>5. (s.ups = "asked" /\ Put(c, r)) \/ Put(c, q)
  BY DEF UpstreamStep, Reflects, UpstreamGivesUp, ServeStep
<1> HIDE DEF r, q
<1>6. Fine(q, pc) /\ (s.ups = "asked" => Fine(r, pc))
  BY <1>3, <1>4 DEF Fine, OnTrack
<1> QED BY <1>2, <1>3, <1>4, <1>5, <1>6, PutFine

\* A step that is nobody's check disturbs no connection but the one it is at.
LEMMA OthersFine ==
  ASSUME CheckInv, Tracked, UNCHANGED checkVars, served' = served,
         \A d \in Conn : conn[d].by = "check" /\ conn[d].cli = "open" /\ conn[d].srv # "free" =>
           \A pc \in Turns : Fine(conn[d], pc) /\ served[conn[d].at] = "same" => Fine(conn'[d], pc)
  PROVE  Tracked'
<1>1. chk' = chk
  BY DEF checkVars
<1>2. \A k \in Checking : Waiting(k) =>
        /\ chk[k].c \in Conn /\ chk[k].pc \in Turns
        /\ conn[chk[k].c].by = "check" /\ conn[chk[k].c].cli = "open"
        /\ conn[chk[k].c].at = chk[k].p /\ conn[chk[k].c].srv # "free"
  BY CheckRecord DEF CheckInv, Waited, Waiting, Turns
<1> QED BY <1>1, <1>2 DEF Tracked, Waiting

\* At one connection.
LEMMA ConnTracked ==
  ASSUME CheckInv, Tracked, UNCHANGED checkVars, NEW c \in Conn, ConnStep(c) \/ UpstreamStep(c)
  PROVE  Tracked'
<1>1. served' = served
  BY DEF ConnStep, UpstreamStep, Accept, Authenticate, ReadRequest, DialUpstream, HandshakeFails,
         UpCopies, UpEnds, DownCopies, DownEnds, RelayEnds, Release, Reflects, UpstreamGivesUp,
         ServeStep, runVars
<1>2. PICK r : Put(c, r)
  BY DEF ConnStep, UpstreamStep, Accept, Authenticate, ReadRequest, DialUpstream, HandshakeFails,
         UpCopies, UpEnds, DownCopies, DownEnds, RelayEnds, Release, Reflects, UpstreamGivesUp,
         ServeStep
<1>3. \A d \in Conn \ {c} : conn'[d] = conn[d]
  BY <1>2 DEF Put, CheckInv, Typed, EngineTypeOK
<1>4. ASSUME conn[c].by = "check", conn[c].cli = "open", NEW pc \in Turns,
             Fine(conn[c], pc), served[conn[c].at] = "same"
      PROVE  Fine(conn'[c], pc)
  BY <1>4, HandshakeFine, RelayFine, AcceptFine, UpstreamFine DEF ConnStep
<1> QED BY <1>1, <1>3, <1>4, OthersFine

LEMMA KilledTracked ==
  ASSUME CheckInv, Tracked, UNCHANGED checkVars, served' = served, NEW C, conn' = Killed(C)
  PROVE  Tracked'
<1>1. ASSUME NEW d \in Conn, conn[d].by = "check", conn[d].cli = "open", NEW pc, Fine(conn[d], pc)
      PROVE  Fine(conn'[d], pc)
  <2> DEFINE q == [conn[d] EXCEPT !.srv = "done", !.ups = "none", !.why = "closed"]
  <2>1. conn'[d] = conn[d] \/ conn'[d] = Settle(q)
    BY DEF Killed
  <2>2. conn[d] \in ConnRecord
    BY DEF CheckInv, Typed, EngineTypeOK
  <2>3. q \in ConnRecord
    BY <2>2, SetField
  <2>4. q.by = "check" /\ q.cli = "open" /\ q.why = "closed"
    BY <1>1, <2>2 DEF ConnRecord
  <2> HIDE DEF q
  <2>5. Fine(Settle(q), pc)
    BY <2>3, <2>4, SettleFine DEF Fine
  <2> QED BY <1>1, <2>1, <2>5
<1> QED BY <1>1, OthersFine

LEMMA RunTracked ==
  ASSUME CheckInv, Tracked, RunStep \/ EngineFault, UNCHANGED checkVars
  PROVE  Tracked'
<1>1. served' = served /\ (conn' = conn \/ \E C : conn' = Killed(C))
  BY DEF RunStep, EngineFault, Listen, Exit, StartLoops, RunNotices, Terminated, CloseListeners,
         RunReturns, LoopEnds, LoopBreaks
<1>2. CASE conn' = conn
  BY <1>1, <1>2, OthersFine
<1> QED BY <1>1, <1>2, KilledTracked

\* Other clients have connections of their own.
LEMMA GuestTracked ==
  ASSUME CheckInv, Tracked, GuestStep, UNCHANGED checkVars
  PROVE  Tracked'
<1>1. PICK c \in Conn : (\E r : ServeStep(c, r)) /\ (conn[c].srv = "free" \/ conn[c].by = "guest")
  <2>1. CASE GuestDials
    <3>1. PICK c \in Free : c = CHOOSE x \in Free : TRUE
      BY <2>1 DEF GuestDials
    <3> QED BY <2>1, <3>1 DEF GuestDials, Free
  <2>2. CASE \E c \in Conn : GuestSpeaks(c) \/ GuestCloses(c)
    BY <2>2 DEF GuestSpeaks, GuestCloses, Guests
  <2> QED BY <2>1, <2>2 DEF GuestStep
<1>2. served' = served /\ \A d \in Conn \ {c} : conn'[d] = conn[d]
  BY <1>1 DEF ServeStep, runVars, Put, CheckInv, Typed, EngineTypeOK
<1> QED BY <1>1, <1>2, OthersFine

\* A step of check k at the connection c, which is no other check's.
LEMMA CheckTracked ==
  ASSUME CheckInv, Tracked, NEW k \in Checking, served' = served,
         \A l \in Checking \ {k} : chk'[l] = chk[l],
         \A l \in Checking \ {k} : Waiting(l) => conn'[chk[l].c] = conn[chk[l].c],
         Waiting(k)' /\ served[chk'[k].p] = "same" => Fine(conn'[chk'[k].c], chk'[k].pc)
  PROVE  Tracked'
BY DEF Tracked, Waiting

LEMMA DialTracked ==
  ASSUME CheckInv, Tracked, NEW k \in Checking, Dial(k)
  PROVE  Tracked' /\ blamed' = blamed
<1>0. served' = served /\ blamed' = blamed
  BY DEF Dial, checkFrame, runVars
<1>1. CASE chk' = AfterFailure(k) /\ conn' = conn
  BY <1>0, <1>1, FailureRecord, CheckTracked DEF Waiting
<1>2. CASE ~(chk' = AfterFailure(k) /\ conn' = conn)
  <2>1. PICK c \in Free : /\ chk[k].p \in opened
                          /\ Put(c, Dialled(chk[k].p, "check", "creds"))
                          /\ chk' = [chk EXCEPT ![k].pc = "auth", ![k].c = c]
    BY <1>2 DEF Dial
  <2>2. c \in Conn /\ conn[c].srv = "free"
    BY DEF Free
  <2> DEFINE r == Dialled(chk[k].p, "check", "creds")
  <2>3. r \in ConnRecord
    BY <2>1, DialledRecord
  <2>4. Put(c, r)
    BY <2>1
  <2>5. r.by = "check" /\ r.cli = "open" /\ Fine(r, "auth")
    BY DEF Dialled, FreeConn, Fine, OnTrack
  <2> HIDE DEF r
  <2>6. Fine(conn'[c], "auth") /\ \A d \in Conn \ {c} : conn'[d] = conn[d]
    <3>1. Fine(conn'[c], "auth")
      BY <2>2, <2>3, <2>4, <2>5, PutFine
    <3> QED BY <2>4, <3>1 DEF Put, CheckInv, Typed, EngineTypeOK
  <2>7. \A l \in Checking \ {k} : Waiting(l) => chk[l].c \in Conn /\ chk[l].c # c
    BY <2>2, CheckRecord DEF CheckInv, Waited
  <2>8. /\ chk'[k].pc = "auth" /\ chk'[k].c = c
        /\ \A l \in Checking \ {k} : chk'[l] = chk[l]
    BY <2>1, CheckRecord DEF CheckInv, Typed, Check
  <2>9. Fine(conn'[chk'[k].c], chk'[k].pc)
    BY <2>6, <2>8
  <2>10. \A l \in Checking \ {k} : Waiting(l) => conn'[chk[l].c] = conn[chk[l].c]
    BY <2>6, <2>7
  <2> QED BY <1>0, <2>8, <2>9, <2>10, CheckTracked
<1> QED BY <1>0, <1>1, <1>2

LEMMA SpeakTracked ==
  ASSUME CheckInv, Tracked, NEW k \in Checking, Speak(k)
  PROVE  Tracked' /\ blamed' = blamed
<1> DEFINE c == chk[k].c
           s == conn[c]
           t == Turn[chk[k].pc]
           r == [s EXCEPT !.reply = "none", !.said = t.says]
           q == [chk[k] EXCEPT !.pc = t.pc]
<1>1. /\ chk[k] \in Check /\ c \in Conn /\ s \in ConnRecord /\ Waiting(k)
      /\ s.by = "check" /\ s.cli = "open" /\ s.reply = Awaited[chk[k].pc]
      /\ served[chk[k].p] = "same" => Fine(s, chk[k].pc)
  BY CheckRecord DEF CheckInv, Waited, Speak, Tracked
<1>2. /\ t.pc \in {"connect", "get"} /\ t.says = t.pc
      /\ chk[k].pc = IF t.pc = "connect" THEN "auth" ELSE "connect"
  BY DEF Speak, Waiting, Turn
<1>3. /\ Put(c, r) /\ chk' = [chk EXCEPT ![k] = q]
      /\ served' = served /\ blamed' = blamed
  BY DEF Speak, checkFrame, runVars
<1>4. s.reply = IF t.pc = "connect" THEN "welcome" ELSE "granted"
  BY <1>1, <1>2 DEF Awaited
<1> HIDE DEF t
<1>5. r \in ConnRecord
  BY <1>1, <1>2, SetField
<1>6. /\ r.by = "check" /\ r.cli = "open" /\ r.srv = s.srv /\ r.ups = s.ups /\ r.up = s.up
      /\ r.down = s.down /\ r.why = s.why /\ r.reply = "none" /\ r.said = t.pc
  BY <1>1, <1>2 DEF ConnRecord
<1>7. q \in Check /\ q.pc = t.pc /\ q.c = c /\ q.p = chk[k].p
  <2>1. q \in Check
    BY <1>1, <1>2, SetCheck
  <2> QED BY <1>1, <2>1 DEF Check
<1> HIDE DEF r, q
<1>8. ASSUME served[chk[k].p] = "same" PROVE Fine(conn'[c], t.pc)
  <2>1. Fine(r, t.pc)
    BY <1>1, <1>2, <1>4, <1>6, <1>8 DEF Fine, OnTrack
  <2> QED BY <1>1, <1>3, <1>5, <1>6, <2>1, PutFine
<1>9. chk'[k] = q /\ \A l \in Checking \ {k} : chk'[l] = chk[l]
  BY <1>3, <1>7, CheckMoves
<1>10. \A l \in Checking \ {k} : Waiting(l) => chk[l].c \in Conn /\ chk[l].c # c
  BY <1>1, CheckRecord DEF CheckInv, Waited
<1>11. \A d \in Conn \ {c} : conn'[d] = conn[d]
  BY <1>3 DEF Put, CheckInv, Typed, EngineTypeOK
<1>12. \A l \in Checking \ {k} : Waiting(l) => conn'[chk[l].c] = conn[chk[l].c]
  BY <1>10, <1>11
<1>13. served[chk'[k].p] = "same" => Fine(conn'[chk'[k].c], chk'[k].pc)
  BY <1>7, <1>8, <1>9
<1> QED BY <1>3, <1>9, <1>12, <1>13, CheckTracked

LEMMA EndTracked ==
  ASSUME CheckInv, Tracked, FailureExplained, NEW k \in Checking, Succeed(k) \/ Fail(k) \/ Timeout(k)
  PROVE  Tracked' /\ FailureExplained'
<1> DEFINE c == chk[k].c
           r == [conn[c] EXCEPT !.cli = "gone"]
<1>1. Waiting(k) /\ Put(c, r) /\ served' = served /\ chk[k].p \in Proxy
  BY CheckRecord DEF Succeed, Fail, Timeout, Waiting, Close, checkFrame, runVars
<1>2. c \in Conn /\ \A d \in Conn \ {c} : conn'[d] = conn[d]
  BY <1>1, CheckRecord DEF Put, CheckInv, Typed, EngineTypeOK
<1>3. \A l \in Checking \ {k} : Waiting(l) => chk[l].c \in Conn /\ chk[l].c # c
  BY <1>1, CheckRecord DEF CheckInv, Waited
<1>4. chk'[k].pc \in {"dial", "pause", "idle"} /\ \A l \in Checking \ {k} : chk'[l] = chk[l]
  BY ReportedRecord, FailureRecord DEF Succeed, Fail, Timeout
<1>5. Tracked'
  BY <1>1, <1>2, <1>3, <1>4, CheckTracked DEF Waiting
<1>6. CASE blamed' = blamed
  BY <1>1, <1>5, <1>6 DEF FailureExplained
<1>7. CASE blamed' # blamed
  <2>1. /\ Fail(k) /\ conn[c].why = "none" /\ served[chk[k].p] = "same"
        /\ Readable(c) /\ conn[c].reply # Awaited[chk[k].pc]
    BY <1>7 DEF Succeed, Fail, Timeout, Blame
  <2>2. OnTrack(conn[c], chk[k].pc)
    BY <1>1, <2>1 DEF Tracked, Fine
  <2>3. FALSE
    BY <2>1, <2>2 DEF OnTrack, Readable, AtEOF, Awaited
  <2> QED BY <2>3
<1> QED BY <1>6, <1>7

LEMMA BeginPauseTracked ==
  ASSUME CheckInv, Tracked, NEW k \in Checking, Begin(k) \/ Pause(k)
  PROVE  Tracked' /\ blamed' = blamed
<1>1. served' = served /\ conn' = conn /\ blamed' = blamed
  BY DEF Begin, Pause, checkFrame, runVars
<1>2. chk'[k].pc \in {"dial", "idle"} /\ \A l \in Checking \ {k} : chk'[l] = chk[l]
  <2>1. CASE Begin(k)
    <3>1. PICK p \in Proxy : chk' = [chk EXCEPT ![k] = [Idle EXCEPT !.pc = "dial", !.p = p]]
      BY <2>1 DEF Begin
    <3>2. [Idle EXCEPT !.pc = "dial", !.p = p].pc = "dial"
      BY DEF Idle
    <3> QED BY <3>1, <3>2 DEF CheckInv, Typed
  <2>2. CASE Pause(k)
    <3>1. CASE chk' = [chk EXCEPT ![k].pc = "dial"]
      BY <3>1, CheckRecord DEF CheckInv, Typed, Check
    <3>2. CASE chk' = Reported(k, "err")
      BY <3>2, ReportedRecord
    <3> QED BY <2>2, <3>1, <3>2 DEF Pause
  <2> QED BY <2>1, <2>2
<1> QED BY <1>1, <1>2, CheckTracked DEF Waiting

LEMMA TrackedStep ==
  CheckInv /\ Tracked /\ FailureExplained /\ [Next]_vars => Tracked' /\ FailureExplained'
<1> SUFFICES ASSUME CheckInv, Tracked, FailureExplained, [Next]_vars
             PROVE  Tracked' /\ FailureExplained'
  OBVIOUS
<1>0. served' = served /\ blamed' = blamed => FailureExplained'
  BY DEF FailureExplained
<1>1. CASE EngineOnly /\ UNCHANGED checkVars
  <2>1. Tracked'
    BY <1>1, RunTracked, GuestTracked, ConnTracked DEF EngineOnly
  <2>2. served' = served
    <3>1. CASE RunStep \/ EngineFault
      BY <3>1 DEF RunStep, EngineFault, Listen, Exit, StartLoops, RunNotices, Terminated,
                  CloseListeners, RunReturns, LoopEnds, LoopBreaks
    <3>2. CASE GuestStep
      BY <3>2 DEF GuestStep, GuestDials, GuestSpeaks, GuestCloses, ServeStep, runVars
    <3>3. ASSUME NEW c \in Conn, ConnStep(c) \/ UpstreamStep(c) PROVE served' = served
      BY <3>3 DEF ConnStep, UpstreamStep, Accept, Authenticate, ReadRequest, DialUpstream,
                  HandshakeFails, UpCopies, UpEnds, DownCopies, DownEnds, RelayEnds, Release,
                  Reflects, UpstreamGivesUp, ServeStep, runVars
    <3> QED BY <1>1, <3>1, <3>2, <3>3 DEF EngineOnly
  <2> QED BY <1>0, <1>1, <2>1, <2>2 DEF checkVars
<1>2. ASSUME NEW k \in Checking, Begin(k) \/ CheckStep(k) PROVE Tracked' /\ FailureExplained'
  <2>1. CASE Succeed(k) \/ Fail(k) \/ Timeout(k)
    BY <2>1, EndTracked
  <2>2. CASE ~(Succeed(k) \/ Fail(k) \/ Timeout(k))
    <3>1. Tracked' /\ blamed' = blamed
      BY <1>2, <2>2, BeginPauseTracked, DialTracked, SpeakTracked DEF CheckStep
    <3>2. served' = served
      BY <1>2, <2>2 DEF CheckStep, Begin, Dial, Speak, Pause, checkFrame, runVars
    <3> QED BY <1>0, <3>1, <3>2
  <2> QED BY <2>1, <2>2
<1>3. CASE UNCHANGED vars
  <2>1. UNCHANGED <<served, conn, chk, blamed>>
    BY <1>3 DEF vars, engineVars, checkVars
  <2> QED BY <1>0, <2>1 DEF Tracked, Waiting
<1> QED BY <1>1, <1>2, <1>3 DEF Next

\* A proxy that the engine serves as saved is failed only for a reason outside
\* the handshake: a full listener, a stopping engine, a deadline, the network.
THEOREM FailuresAreExplained == Spec => []FailureExplained
<1>1. Init => Tracked /\ FailureExplained
  BY DEF Init, Tracked, Waiting, Idle, FailureExplained
<1> QED BY <1>1, TrackedStep, Inductive, PTL DEF Spec
=============================================================================
