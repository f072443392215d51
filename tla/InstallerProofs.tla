-------------------------- MODULE InstallerProofs --------------------------
(***************************************************************************)
(* Proofs about Installer, for anything the first run may find and any     *)
(* number of runs, requests, rotations and scans.                          *)
(***************************************************************************)
EXTENDS Installer, AllocationProofs

(***************************************************************************)
(* What a request or an import makes of a state.  Each proxy of the new    *)
(* state is one of the old state, enabled or not, or it is new (index 0).  *)
(***************************************************************************)
Routes == SUBSET [lo : Address, hi : Address]

Same(p, q) == p.port = q.port /\ p.text = q.text /\ p.cred = q.cred

Traced(f, s, c) ==
  /\ f \in [DOMAIN c.proxies -> 0..Len(s.proxies)]
  /\ \A i \in DOMAIN c.proxies :
       /\ f[i] # 0 => Same(c.proxies[i], s.proxies[f[i]])
       /\ f[i] = 0 => /\ c.proxies[i].port \in s.nextPort..LastPort
                      /\ c.proxies[i].port < c.nextPort
                      /\ c.proxies[i].text.canonical /\ c.proxies[i].text \notin Texts(s.proxies)
  /\ \A i, j \in DOMAIN c.proxies : i # j /\ f[i] = f[j] =>
       /\ f[i] = 0
       /\ c.proxies[i].port # c.proxies[j].port /\ c.proxies[i].text.ip # c.proxies[j].text.ip

Derived(routes, s, c) ==
  /\ c \in State(routes) /\ c.prefix = s.prefix /\ c.token = s.token
  /\ s.nextPort <= c.nextPort
  /\ \E f : Traced(f, s, c)

LEMMA StateType ==
  ASSUME NEW routes \in Routes, NEW s \in State(routes)
  PROVE  /\ s.proxies \in Seq(Proxy) /\ s.token \in Nat
         /\ s.nextPort \in FirstPort..(LastPort + 2) /\ s.nextPort \in Nat \ {0}
         /\ s.nextOffset \in Nat
         /\ s.prefix.lo \in Address /\ s.prefix.hi \in Address
<1>1. /\ s.proxies \in Seq(Proxy) /\ s.token \in Nat /\ s.nextPort \in FirstPort..(LastPort + 2)
      /\ s.nextOffset \in 1..(Space + 1) /\ s.prefix \in routes \union {NoPrefix}
  BY DEF State
<1>2. NoPrefix.lo \in Address /\ NoPrefix.hi \in Address
  BY SpaceType DEF NoPrefix, Address
<1>3. s.prefix.lo \in Address /\ s.prefix.hi \in Address
  BY <1>1, <1>2 DEF Routes
<1> QED BY <1>1, <1>3, SpaceType, AllocationAssumption

LEMMA AllocateDerives ==
  ASSUME NEW routes \in Routes, NEW s \in State(routes),
         NEW n \in Nat \ {0}, CanAllocate(s, n), NEW pass \in Nat
  PROVE  Derived(routes, s, Allocate(s, n, pass))
<1>1. PICK created, nextPort, nextOffset :
           /\ Allocate(s, n, pass) = [s EXCEPT !.proxies = s.proxies \o created,
                                               !.nextPort = nextPort, !.nextOffset = nextOffset]
           /\ Created(s, created, nextPort)
           /\ nextPort \in s.nextPort..(LastPort + 1) /\ nextOffset \in 1..(Space + 1)
  BY StateType, AllocateCreates
<1> DEFINE all == s.proxies \o created
           old == Len(s.proxies)
           c == [s EXCEPT !.proxies = all, !.nextPort = nextPort, !.nextOffset = nextOffset]
           f == [i \in DOMAIN all |-> IF i <= old THEN i ELSE 0]
<1>2. s.proxies \in Seq(Proxy) /\ created \in Seq(Proxy) /\ s.nextPort \in FirstPort..(LastPort + 2)
  BY <1>1, StateType DEF Created
<1>3. /\ all \in Seq(Proxy) /\ old \in Nat /\ Len(created) \in Nat
      /\ DOMAIN all = 1..(old + Len(created)) /\ DOMAIN created = 1..Len(created)
      /\ \A i \in DOMAIN all : IF i <= old THEN all[i] = s.proxies[i]
                               ELSE i - old \in DOMAIN created /\ all[i] = created[i - old]
  BY <1>2
<1> HIDE DEF all, old
<1>4. /\ c \in State(routes) /\ c.prefix = s.prefix /\ c.token = s.token
      /\ c.proxies = all /\ c.nextPort = nextPort
  <2>1. nextPort \in FirstPort..(LastPort + 2)
    BY <1>1, <1>2, AllocationAssumption
  <2> QED BY <1>1, <1>3, <2>1 DEF State
<1>5. s.nextPort <= nextPort
  BY <1>1, <1>2, AllocationAssumption
<1> HIDE DEF c
<1>6. Traced(f, s, c)
  <2>1. f \in [DOMAIN c.proxies -> 0..Len(s.proxies)]
    BY <1>3, <1>4 DEF old
  <2>2. ASSUME NEW i \in DOMAIN all
        PROVE  /\ f[i] # 0 => Same(all[i], s.proxies[f[i]])
               /\ f[i] = 0 => /\ all[i].port \in s.nextPort..LastPort
                              /\ all[i].port < nextPort
                              /\ all[i].text.canonical /\ all[i].text \notin Texts(s.proxies)
    <3>1. CASE i <= old
      BY <1>3, <3>1 DEF Same
    <3>2. CASE ~(i <= old)
      <4>1. f[i] = 0 /\ i - old \in DOMAIN created /\ all[i] = created[i - old]
        BY <1>3, <3>2
      <4> QED BY <1>1, <4>1 DEF Created
    <3> QED BY <3>1, <3>2
  <2>3. ASSUME NEW i \in DOMAIN all, NEW j \in DOMAIN all, i # j, f[i] = f[j]
        PROVE  f[i] = 0 /\ all[i].port # all[j].port /\ all[i].text.ip # all[j].text.ip
    <3>1. ~(i <= old) /\ ~(j <= old) /\ f[i] = 0
      BY <1>3, <2>3
    <3>2. /\ i - old \in DOMAIN created /\ all[i] = created[i - old]
          /\ j - old \in DOMAIN created /\ all[j] = created[j - old] /\ i - old # j - old
      BY <1>3, <2>3, <3>1
    <3> QED BY <1>1, <3>1, <3>2 DEF Created
  <2> HIDE DEF f
  <2> QED BY <1>4, <2>1, <2>2, <2>3 DEF Traced
<1> QED BY <1>1, <1>4, <1>5, <1>6 DEF Derived, c, all

LEMMA ListActionDerives ==
  ASSUME NEW routes \in Routes, NEW s \in State(routes), NEW entries, NEW action
  PROVE  Derived(routes, s, ListAction(s, entries, action))
<1> DEFINE old == s.proxies
           M == Matched(old, entries)
           marked == [i \in DOMAIN old |-> IF i \in M THEN [old[i] EXCEPT !.enabled = action = "enable"]
                                                      ELSE old[i]]
           a == IF action = "delete" THEN Without(old, M) ELSE marked
           c == [s EXCEPT !.proxies = a]
<1>1. ListAction(s, entries, action) = c
  BY DEF ListAction
<1>2. old \in Seq(Proxy) /\ DOMAIN old = 1..Len(old) /\ Len(old) \in Nat /\ s.nextPort \in Nat
  BY StateType
<1> HIDE DEF M
<1>3. \E f : /\ a \in Seq(Proxy)
             /\ f \in [DOMAIN a -> DOMAIN old]
             /\ \A i \in DOMAIN a : Same(a[i], old[f[i]])
             /\ \A i, j \in DOMAIN a : i # j => f[i] # f[j]
  <2>1. CASE action = "delete"
    <3>1. a \in Seq(Proxy) /\ \E f : Keeps(f, a, old, M)
      BY <1>2, <2>1, WithoutKeeps
    <3> HIDE DEF a, old
    <3>2. PICK f : Keeps(f, a, old, M)
      BY <3>1
    <3>3. DOMAIN a = 1..Len(a) /\ Len(a) \in Nat
      BY <3>1
    <3>4. \A i, j \in DOMAIN a : i # j => f[i] # f[j]
      <4>1. \A i \in DOMAIN a : f[i] \in Nat
        BY <1>2, <3>2 DEF Keeps
      <4> QED BY <3>2, <3>3, <4>1 DEF Keeps
    <3> QED BY <3>1, <3>2, <3>4 DEF Keeps, Same
  <2>2. CASE action # "delete"
    <3> DEFINE f == [i \in DOMAIN old |-> i]
    <3>1. a = marked
      BY <2>2
    <3>2. \A i \in DOMAIN old : old[i] \in Proxy
      BY <1>2
    <3>3. \A p \in Proxy : LET q == [p EXCEPT !.enabled = action = "enable"]
                           IN  q \in Proxy /\ Same(q, p) /\ Same(p, p)
      BY DEF Proxy, Same
    <3>4. \A i \in DOMAIN old : marked[i] \in Proxy /\ Same(marked[i], old[i])
      BY <3>2, <3>3
    <3>5. marked \in Seq(Proxy) /\ DOMAIN marked = DOMAIN old
      <4>1. marked \in [1..Len(old) -> Proxy]
        BY <1>2, <3>4
      <4> HIDE DEF marked
      <4> QED BY <1>2, <4>1
    <3> HIDE DEF marked, a, old
    <3>6. /\ a \in Seq(Proxy) /\ f \in [DOMAIN a -> DOMAIN old]
          /\ \A i \in DOMAIN a : Same(a[i], old[f[i]])
          /\ \A i, j \in DOMAIN a : i # j => f[i] # f[j]
      BY <3>1, <3>4, <3>5
    <3> HIDE DEF f
    <3> QED BY <3>6, Zenon
  <2> QED BY <2>1, <2>2
<1> HIDE DEF a
<1>4. PICK f : /\ a \in Seq(Proxy)
               /\ f \in [DOMAIN a -> DOMAIN old]
               /\ \A i \in DOMAIN a : Same(a[i], old[f[i]])
               /\ \A i, j \in DOMAIN a : i # j => f[i] # f[j]
  BY <1>3
<1>5. /\ c \in State(routes) /\ c.prefix = s.prefix /\ c.token = s.token
      /\ c.proxies = a /\ c.nextPort = s.nextPort
  BY <1>4 DEF State
<1> HIDE DEF c
<1>6. Traced(f, s, c)
  <2>1. \A i \in DOMAIN a : f[i] \in 1..Len(old) /\ f[i] # 0 /\ f[i] \in 0..Len(old)
    BY <1>2, <1>4
  <2> QED BY <1>4, <1>5, <2>1 DEF Traced
<1> QED BY <1>1, <1>2, <1>5, <1>6 DEF Derived

LEMMA ImportedState ==
  ASSUME NEW routes \in Routes, NEW s \in State(routes), NEW entries \in Seq(ListEntry), NEW services,
         \A port \in DOMAIN services : services[port] \in Text
  PROVE  LET c == Imported(s, entries, services) IN
         /\ c \in State(routes) /\ c.prefix = s.prefix /\ c.token = s.token
         /\ s.nextPort <= c.nextPort
         /\ \A i \in DOMAIN c.proxies :
              c.proxies[i].port < c.nextPort /\ FromSetup(c.proxies[i], entries, services)
         /\ c.proxies = Imported(NewState, entries, services).proxies
<1> DEFINE c == Imported(s, entries, services)
           found == Imported(NewState, entries, services)
<1>0. s.nextPort \in FirstPort..(LastPort + 2)
  BY StateType
<1>1. PICK a, b :
           /\ c = [s EXCEPT !.proxies = a, !.nextPort = b]
           /\ \A t : \E d : Imported(t, entries, services) = [t EXCEPT !.proxies = a, !.nextPort = d]
           /\ a \in Seq(Proxy) /\ b \in s.nextPort..(LastPort + 2)
           /\ \A i \in DOMAIN a : a[i].port < b /\ FromSetup(a[i], entries, services)
  BY <1>0, ImportedList
<1>2. PICK d : found = [NewState EXCEPT !.proxies = a, !.nextPort = d]
  BY <1>1
<1> HIDE DEF c, found
<1>3. found.proxies = a
  BY <1>2 DEF NewState
<1>4. b \in FirstPort..(LastPort + 2) /\ s.nextPort <= b
  <2>1. b \in s.nextPort..(LastPort + 2)
    BY <1>1
  <2> QED BY <1>0, <2>1, AllocationAssumption
<1>5. /\ c \in State(routes) /\ c.prefix = s.prefix /\ c.token = s.token
      /\ c.proxies = a /\ c.nextPort = b
  BY <1>1, <1>4 DEF State
<1> QED BY <1>1, <1>3, <1>4, <1>5 DEF c, found

\* The ports of proxies and of lists: handed out, or found by the first run.
Known(found, port) == port \in FirstPort..LastPort \/ \E j \in DOMAIN found : port = found[j].port
AllKnown(found, items) == \A i \in DOMAIN items : Known(found, items[i].port)

LEMMA DerivedKnown ==
  ASSUME NEW routes \in Routes, NEW s \in State(routes), NEW c, Derived(routes, s, c),
         NEW found, AllKnown(found, s.proxies)
  PROVE  AllKnown(found, c.proxies)
<1>1. PICK f : Traced(f, s, c)
  BY DEF Derived
<1> SUFFICES ASSUME NEW i \in DOMAIN c.proxies PROVE Known(found, c.proxies[i].port)
  BY DEF AllKnown
<1>2. CASE f[i] = 0
  <2>1. c.proxies[i].port \in s.nextPort..LastPort /\ s.nextPort \in FirstPort..(LastPort + 2)
    BY <1>1, <1>2, StateType DEF Traced
  <2>2. c.proxies[i].port \in FirstPort..LastPort
    BY <2>1, AllocationAssumption
  <2> QED BY <2>2 DEF Known
<1>3. CASE f[i] # 0
  <2>1. DOMAIN s.proxies = 1..Len(s.proxies) /\ Len(s.proxies) \in Nat
    BY StateType
  <2>2. f[i] \in DOMAIN s.proxies /\ c.proxies[i].port = s.proxies[f[i]].port
    BY <1>1, <1>3, <2>1 DEF Traced, Same
  <2> QED BY <2>2 DEF AllKnown
<1> QED BY <1>2, <1>3

LEMMA FormatListKnown ==
  ASSUME NEW proxies \in Seq(Proxy), NEW found, AllKnown(found, proxies)
  PROVE  AllKnown(found, FormatList(proxies))
<1> SUFFICES ASSUME NEW k \in DOMAIN FormatList(proxies)
             PROVE  Known(found, FormatList(proxies)[k].port)
  BY DEF AllKnown
<1>1. PICK i \in DOMAIN proxies : FormatList(proxies)[k] = Entry(proxies[i])
  BY FormatListEntries
<1>2. FormatList(proxies)[k].port = proxies[i].port
  BY <1>1 DEF Entry
<1> QED BY <1>2 DEF AllKnown

(***************************************************************************)
(* What is true of every state that is saved or held: ports below the next *)
(* one, and, as far as the older setup was like that, texts as netip       *)
(* spells them, nothing shared, and nothing that does not render.          *)
(***************************************************************************)
Was(found, p) == \E i \in DOMAIN found : found[i] = [p EXCEPT !.enabled = TRUE]

Apart(found, canon, proxies) ==
  \A i, j \in DOMAIN proxies :
    i # j /\ ~(Was(found, proxies[i]) /\ Was(found, proxies[j])) =>
      /\ proxies[i].port # proxies[j].port
      /\ canon => proxies[i].text.ip # proxies[j].text.ip

Sound(found, canon, again, s) ==
  /\ \A i \in DOMAIN s.proxies : s.proxies[i].port < s.nextPort
  /\ canon => \A i \in DOMAIN s.proxies : s.proxies[i].text.canonical
  /\ ~again => /\ Apart(found, canon, s.proxies)
               /\ Renders(found) => Renders(s.proxies)

LEMMA SoundDerived ==
  ASSUME NEW routes \in Routes, NEW s \in State(routes), NEW c, Derived(routes, s, c),
         NEW found, NEW canon \in BOOLEAN, NEW again \in BOOLEAN,
         Sound(found, canon, again, s), Renders(c.proxies)
  PROVE  Sound(found, canon, again, c)
<1> DEFINE old == s.proxies
           new == c.proxies
<1>1. PICK f : Traced(f, s, c)
  BY DEF Derived
<1>2. /\ old \in Seq(Proxy) /\ new \in Seq(Proxy) /\ DOMAIN old = 1..Len(old)
      /\ s.nextPort \in Nat /\ c.nextPort \in Nat /\ s.nextPort <= c.nextPort
  BY StateType DEF Derived
<1>3. \A i \in DOMAIN new : new[i] \in Proxy /\ new[i].port \in Nat /\ new[i].text \in Text
  <2>1. \A i \in DOMAIN new : new[i] \in Proxy
    BY <1>2
  <2>2. \A p \in Proxy : p.port \in Nat /\ p.text \in Text
    BY AllocationAssumption DEF Proxy, Port
  <2> QED BY <2>1, <2>2
<1>4. \A i \in DOMAIN old : old[i] \in Proxy /\ old[i].port \in Nat /\ old[i].text \in Text
  <2>1. \A i \in DOMAIN old : old[i] \in Proxy
    BY <1>2
  <2>2. \A p \in Proxy : p.port \in Nat /\ p.text \in Text
    BY AllocationAssumption DEF Proxy, Port
  <2> QED BY <2>1, <2>2
<1>5. \A i \in DOMAIN new : f[i] # 0 => f[i] \in DOMAIN old /\ Same(new[i], old[f[i]])
  BY <1>1, <1>2 DEF Traced
<1>6. \A i \in DOMAIN new : f[i] = 0 =>
        /\ s.nextPort <= new[i].port /\ new[i].port < c.nextPort
        /\ new[i].text.canonical /\ new[i].text \notin Texts(old)
  BY <1>1, <1>2, <1>3, AllocationAssumption DEF Traced
<1>7. \A i, j \in DOMAIN new : i # j /\ f[i] = f[j] =>
        f[i] = 0 /\ new[i].port # new[j].port /\ new[i].text.ip # new[j].text.ip
  BY <1>1 DEF Traced
<1>8. /\ \A i \in DOMAIN old : old[i].port < s.nextPort
      /\ canon => \A i \in DOMAIN old : old[i].text.canonical
      /\ ~again => Apart(found, canon, old)
  BY DEF Sound
<1>9. \A i \in DOMAIN new : new[i].port < c.nextPort
  <2> HIDE DEF old, new
  <2> QED BY <1>2, <1>3, <1>4, <1>5, <1>6, <1>8 DEF Same
<1>10. ASSUME canon PROVE \A i \in DOMAIN new : new[i].text.canonical
  <2> HIDE DEF old, new
  <2> QED BY <1>5, <1>6, <1>8, <1>10 DEF Same
<1>11. ASSUME ~again, NEW i \in DOMAIN new, NEW j \in DOMAIN new, i # j,
              ~(Was(found, new[i]) /\ Was(found, new[j]))
       PROVE  new[i].port # new[j].port /\ (canon => new[i].text.ip # new[j].text.ip)
  <2> HIDE DEF old, new
  <2>1. ASSUME NEW h \in DOMAIN new, NEW k \in DOMAIN new, f[h] = 0, f[k] # 0
        PROVE  new[h].port # new[k].port /\ (canon => new[h].text.ip # new[k].text.ip)
    <3>1. /\ f[k] \in DOMAIN old /\ new[k].port = old[f[k]].port /\ new[k].text = old[f[k]].text
      BY <1>5, <2>1 DEF Same
    <3>2. new[h].port # new[k].port
      BY <1>2, <1>3, <1>6, <1>8, <2>1, <3>1
    <3>3. new[h].text # new[k].text
      BY <1>6, <2>1, <3>1 DEF Texts
    <3>4. \A t, u \in Text : t.ip = u.ip /\ t.canonical = u.canonical => t = u
      BY DEF Text
    <3>5. \A t \in Text : t.canonical \in BOOLEAN
      BY DEF Text
    <3>6. canon => new[h].text.canonical /\ new[k].text.canonical
      BY <1>10
    <3>7. canon => new[h].text.canonical = new[k].text.canonical
      BY <1>3, <3>5, <3>6
    <3>8. canon => new[h].text.ip # new[k].text.ip
      BY <1>3, <3>3, <3>4, <3>7
    <3> QED BY <3>2, <3>8
  <2>2. CASE f[i] = f[j]
    BY <1>7, <1>11, <2>2
  <2>3. CASE f[i] # f[j] /\ (f[i] = 0 \/ f[j] = 0)
    BY <2>1, <2>3
  <2>4. CASE f[i] # f[j] /\ f[i] # 0 /\ f[j] # 0
    <3>1. \A p, q \in Proxy : Same(p, q) => [p EXCEPT !.enabled = TRUE] = [q EXCEPT !.enabled = TRUE]
      BY DEF Same, Proxy
    <3>2. /\ f[i] \in DOMAIN old /\ Same(new[i], old[f[i]])
          /\ f[j] \in DOMAIN old /\ Same(new[j], old[f[j]])
      BY <1>5, <2>4
    <3>3. Was(found, new[i]) = Was(found, old[f[i]]) /\ Was(found, new[j]) = Was(found, old[f[j]])
      BY <1>3, <1>4, <3>1, <3>2 DEF Was
    <3>4. ~(Was(found, old[f[i]]) /\ Was(found, old[f[j]]))
      BY <1>11, <3>3
    <3>5. /\ old[f[i]].port # old[f[j]].port
          /\ canon => old[f[i]].text.ip # old[f[j]].text.ip
      BY <1>8, <1>11, <2>4, <3>2, <3>4 DEF Apart
    <3> QED BY <3>2, <3>5 DEF Same
  <2> QED BY <2>2, <2>3, <2>4
<1>12. ~again => Apart(found, canon, new)
  BY <1>11 DEF Apart
<1> HIDE DEF old
<1> QED BY <1>9, <1>10, <1>12 DEF Sound

LEMMA SoundImported ==
  ASSUME NEW c, NEW found, NEW canon \in BOOLEAN, NEW again \in BOOLEAN,
         NEW entries, NEW services,
         \A i \in DOMAIN c.proxies :
           c.proxies[i].port < c.nextPort /\ FromSetup(c.proxies[i], entries, services),
         canon => \A port \in DOMAIN services : services[port].canonical,
         c.proxies \in Seq(Proxy),
         ~again => c.proxies = found
  PROVE  Sound(found, canon, again, c)
<1>1. canon => \A i \in DOMAIN c.proxies : c.proxies[i].text.canonical
  BY DEF FromSetup
<1>2. ASSUME ~again PROVE Apart(found, canon, c.proxies)
  <2>1. \A p \in Proxy : p.enabled = TRUE => [p EXCEPT !.enabled = TRUE] = p
    BY DEF Proxy
  <2>2. \A i \in DOMAIN c.proxies : c.proxies[i] \in Proxy /\ c.proxies[i].enabled = TRUE
    BY DEF FromSetup
  <2>3. \A i \in DOMAIN c.proxies : Was(found, c.proxies[i])
    BY <1>2, <2>1, <2>2 DEF Was
  <2> QED BY <2>3 DEF Apart
<1> QED BY <1>1, <1>2 DEF Sound

-----------------------------------------------------------------------------
(***************************************************************************)
(* Types.  With them, the ports of the lists are known: a later import     *)
(* takes its ports from there.                                             *)
(***************************************************************************)
InstRecord == [pc : Steps, loc : State(setup.routes), temp : Address \union {NoAddress},
               added : SUBSET Address, runs : 0..MaxRuns]
ReqRecord == [pc : {"none", "scan", "save", "restart", "undo"}, orig : State(setup.routes),
              cand : State(setup.routes), added : SUBSET Address]
HistRecord == [acked : Seq(Proxy), given : SUBSET Port, token : Nat, ops : 0..MaxOps,
               overlap : BOOLEAN, raced : BOOLEAN, lost : BOOLEAN, behind : BOOLEAN,
               again : BOOLEAN, held : SUBSET Address]

Held == {st, inst.loc, req.orig, req.cand}

TypeInv ==
  /\ setup \in Setups /\ addrs \subseteq Address /\ dash \in BOOLEAN
  /\ list \in Seq(ListEntry) /\ late \subseteq Seq(Proxy) /\ prep \subseteq Seq(Proxy)
  /\ st \in State(setup.routes)
  /\ inst \in InstRecord /\ req \in ReqRecord /\ hist \in HistRecord
  /\ \A s \in Held : AllKnown(setup.list, s.proxies)
  /\ AllKnown(setup.list, list)
  /\ \A proxies \in late \union prep : AllKnown(setup.list, proxies)

LEMMA TypeInvIsType == TypeInv => TypeOK
BY DEF TypeInv, TypeOK, InstRecord, ReqRecord, HistRecord, Held, AllKnown, Known

LEMMA SetupType ==
  ASSUME setup \in Setups
  PROVE  /\ setup.routes \in Routes /\ setup.list \in Seq(ListEntry) /\ setup.addrs \subseteq Address
         /\ \A port \in DOMAIN setup.services : setup.services[port] \in Text
BY InstallerAssumption DEF Routes

LEMMA NewStateType ==
  ASSUME NEW routes
  PROVE  NewState \in State(routes) /\ NewState.proxies = <<>> /\ NewState.token = 0
         /\ NewState.nextPort = FirstPort /\ NewState.prefix = NoPrefix
BY SpaceType, AllocationAssumption DEF NewState, State

LEMMA CandidateDerives ==
  ASSUME TypeInv, NEW cand \in Candidates
  PROVE  Derived(setup.routes, st, cand)
<1>1. setup.routes \in Routes /\ st \in State(setup.routes)
  BY SetupType DEF TypeInv
<1>2. CASE cand \in {Allocate(st, n, pass) : n \in {k \in 1..MaxBatch : CanAllocate(st, k)},
                                            pass \in {0, 1}}
  <2>1. PICK n \in {k \in 1..MaxBatch : CanAllocate(st, k)}, pass \in {0, 1} :
          cand = Allocate(st, n, pass)
    BY <1>2
  <2>2. n \in Nat \ {0} /\ CanAllocate(st, n) /\ pass \in Nat
    BY InstallerAssumption
  <2> QED BY <1>1, <2>1, <2>2, AllocateDerives
<1>3. CASE \E entries, action : cand = ListAction(st, entries, action)
  BY <1>1, <1>3, ListActionDerives
<1>4. CASE cand \in {ListAction(st, entries, action) :
                      entries \in Submitted, action \in {"enable", "disable", "delete"}}
  <2>1. \E entries, action : cand = ListAction(st, entries, action)
    BY <1>4
  <2> QED BY <1>3, <2>1
<1> QED BY <1>2, <1>4 DEF Candidates

LEMMA BoundType ==
  ASSUME NEW routes \in Routes, NEW s \in State(routes)
  PROVE  Bound(s) \subseteq Address /\ Added(s) \subseteq Bound(s)
<1>1. \A i \in DOMAIN s.proxies : s.proxies[i].text.ip \in Address
  <2>1. \A i \in DOMAIN s.proxies : s.proxies[i] \in Proxy
    BY StateType
  <2> QED BY <2>1 DEF Proxy, Text
<1> QED BY <1>1 DEF Bound, Added, Bindable, EnabledIn

Looked(prefix) == (prefix.lo + 1)..(prefix.lo + ProbeLimit)

\* The address that is tried: one of those looked at, and free if one of them is.
LEMMA TestAddressFree ==
  ASSUME NEW prefix, prefix.lo \in Nat
  PROVE  LET a == TestAddress(prefix) IN
         /\ a \in Looked(prefix)
         /\ (\E b \in Looked(prefix) : b \notin addrs) => a \notin addrs
<1> DEFINE last == prefix.lo + ProbeLimit
           S == {a \in Looked(prefix) : a \notin addrs \/ a = last}
<1>1. last \in Looked(prefix) /\ Looked(prefix) \subseteq Nat
  BY InstallerAssumption DEF Looked
<1>2. PICK a \in S : \A b \in S : a <= b
  <2>1. S \in SUBSET Nat /\ S # {}
    BY <1>1
  <2> HIDE DEF S
  <2> QED BY <2>1, Least
<1>3. \A b \in (prefix.lo + 1)..(a - 1) : b \in addrs
  BY <1>1, <1>2, InstallerAssumption DEF Looked
<1>4. \E x \in Looked(prefix) :
        /\ x \notin addrs \/ x = last
        /\ \A b \in (prefix.lo + 1)..(x - 1) : b \in addrs
  BY <1>2, <1>3
<1>5. LET x == TestAddress(prefix) IN
        /\ x \in Looked(prefix) /\ (x \notin addrs \/ x = last)
        /\ \A b \in (prefix.lo + 1)..(x - 1) : b \in addrs
  BY <1>4 DEF TestAddress, Looked
<1> QED BY <1>1, <1>5, InstallerAssumption DEF Looked

LEMMA InitType == Init => TypeInv
<1> SUFFICES ASSUME Init PROVE TypeInv
  OBVIOUS
<1>1. /\ setup \in Setups /\ st = NewState /\ addrs = setup.addrs /\ list = setup.list
      /\ dash = FALSE /\ inst = Idle /\ req = NoReq /\ late = {} /\ prep = {} /\ hist = HistInit
  BY DEF Init
<1>2. setup.list \in Seq(ListEntry) /\ setup.addrs \subseteq Address
  BY <1>1, SetupType
<1>3. NewState \in State(setup.routes) /\ NewState.proxies = <<>>
  BY NewStateType
<1> HIDE DEF NewState
<1>4. inst \in InstRecord /\ inst.loc = NewState
  BY <1>1, <1>3, InstallerAssumption DEF Idle, InstRecord, Steps
<1>5. req \in ReqRecord /\ req.orig = NewState /\ req.cand = NewState
  BY <1>1, <1>3 DEF NoReq, ReqRecord
<1>6. hist \in HistRecord
  BY <1>1, InstallerAssumption DEF HistInit, HistRecord
<1>7. AllKnown(setup.list, <<>>) /\ AllKnown(setup.list, setup.list)
  BY DEF AllKnown, Known
<1> QED BY <1>1, <1>2, <1>3, <1>4, <1>5, <1>6, <1>7 DEF TypeInv, Held

(***************************************************************************)
(* What each action does to the fields of the records.                     *)
(***************************************************************************)
InstBecomes(pc, loc, temp, added) ==
  /\ inst' \in InstRecord
  /\ inst'.pc = pc /\ inst'.loc = loc /\ inst'.temp = temp /\ inst'.added = added

\* The installer goes on to pc with what it has.
InstAt(pc) == InstBecomes(pc, inst.loc, inst.temp, inst.added)

\* What is acknowledged and announced, and the marks.
HistBecomes(acked, given, token, held) ==
  /\ hist' \in HistRecord
  /\ hist'.acked = acked /\ hist'.given = given /\ hist'.token = token /\ hist'.held = held

MarksBecome(overlap, raced, lost, behind, again) ==
  /\ hist'.overlap = overlap /\ hist'.raced = raced /\ hist'.lost = lost
  /\ hist'.behind = behind /\ hist'.again = again

HistKept == HistBecomes(hist.acked, hist.given, hist.token, hist.held)

ReqBecomes(pc, orig, cand, added) ==
  /\ req' \in ReqRecord /\ req'.pc = pc
  /\ req'.orig = orig /\ req'.cand = cand /\ req'.added = added

ReqEnds == ReqBecomes("none", NewState, NewState, {})

LEMMA GotoFields ==
  ASSUME TypeInv, NEW pc \in Steps, Goto(pc)
  PROVE  InstAt(pc)
<1>1. inst \in InstRecord
  BY DEF TypeInv
<1> QED BY <1>1 DEF InstRecord, InstAt, InstBecomes, Goto

LEMMA NoReqFields ==
  ASSUME req' = NoReq
  PROVE  ReqEnds
<1>1. NewState \in State(setup.routes)
  BY NewStateType
<1> HIDE DEF NewState
<1> QED BY <1>1 DEF NoReq, ReqEnds, ReqBecomes, ReqRecord

LEMMA BootLoadFields ==
  ASSUME TypeInv, BootLoad
  PROVE  /\ InstBecomes(IF Detected(st) THEN "import" ELSE "detect", st, inst.temp, inst.added)
         /\ HistKept
         /\ MarksBecome(hist.overlap \/ req.pc # "none", hist.raced, hist.lost,
                        hist.behind, hist.again)
<1>1. inst \in InstRecord /\ hist \in HistRecord /\ st \in State(setup.routes)
  BY DEF TypeInv
<1> DEFINE pc == IF Detected(st) THEN "import" ELSE "detect"
<1>2. /\ inst' = [inst EXCEPT !.pc = pc, !.loc = st, !.runs = @ + 1] /\ inst.runs < MaxRuns
      /\ hist' = [hist EXCEPT !.overlap = @ \/ req.pc # "none"]
  BY DEF BootLoad
<1>3. pc \in Steps
  BY DEF Steps
<1> HIDE DEF pc
<1>4. inst.runs + 1 \in 0..MaxRuns
  BY <1>1, <1>2, InstallerAssumption DEF InstRecord
<1>5. InstBecomes(pc, st, inst.temp, inst.added)
  BY <1>1, <1>2, <1>3, <1>4 DEF InstRecord, InstBecomes
<1>6. HistKept /\ MarksBecome(hist.overlap \/ req.pc # "none", hist.raced, hist.lost,
                              hist.behind, hist.again)
  BY <1>1, <1>2 DEF HistRecord, HistKept, HistBecomes, MarksBecome
<1> QED BY <1>5, <1>6 DEF pc

LEMMA DetectFields ==
  ASSUME TypeInv, Detect
  PROVE  \E r \in setup.routes, loc \in State(setup.routes) :
           /\ InstBecomes("probe", loc, inst.temp, inst.added)
           /\ loc.prefix = r /\ loc.proxies = inst.loc.proxies /\ loc.token = inst.loc.token
           /\ loc.nextPort = inst.loc.nextPort
<1>1. PICK r \in setup.routes : inst' = [inst EXCEPT !.pc = "probe", !.loc.prefix = r]
  BY DEF Detect
<1> DEFINE loc == [inst.loc EXCEPT !.prefix = r]
<1>2. inst \in InstRecord /\ inst.loc \in State(setup.routes)
  BY DEF TypeInv, InstRecord
<1>3. /\ loc \in State(setup.routes) /\ loc.prefix = r /\ loc.proxies = inst.loc.proxies
      /\ loc.token = inst.loc.token /\ loc.nextPort = inst.loc.nextPort
  BY <1>2 DEF State
<1>4. inst' = [inst EXCEPT !.pc = "probe", !.loc = loc]
  BY <1>1, <1>2 DEF InstRecord
<1> HIDE DEF loc
<1>5. InstBecomes("probe", loc, inst.temp, inst.added)
  BY <1>2, <1>3, <1>4 DEF InstRecord, InstBecomes, Steps
<1> QED BY <1>3, <1>5

LEMMA ProbeAddFields ==
  ASSUME TypeInv, ProbeAdd
  PROVE  /\ InstBecomes("probing", inst.loc, TestAddress(inst.loc.prefix), inst.added)
         /\ HistBecomes(hist.acked, hist.given, hist.token, addrs)
         /\ MarksBecome(hist.overlap, hist.raced, hist.lost, hist.behind, hist.again)
         /\ addrs' = addrs \union {TestAddress(inst.loc.prefix)}
         /\ TestAddress(inst.loc.prefix) \in Address
<1> DEFINE a == TestAddress(inst.loc.prefix)
<1>1. /\ inst \in InstRecord /\ hist \in HistRecord /\ inst.loc \in State(setup.routes)
      /\ addrs \subseteq Address
  BY DEF TypeInv, InstRecord
<1>2. inst.loc.prefix.lo \in Address /\ inst.loc.prefix.hi \in Address
  BY <1>1, SetupType, StateType DEF TypeInv
<1>3. a \in Address
  <2>1. inst.loc.prefix.lo <= a /\ a <= inst.loc.prefix.hi
    BY DEF ProbeAdd, In
  <2>2. a \in (inst.loc.prefix.lo + 1)..(inst.loc.prefix.lo + ProbeLimit)
    BY <1>2, TestAddressFree, SpaceType DEF Address, Looked
  <2> HIDE DEF a
  <2> QED BY <1>2, <2>1, <2>2, SpaceType, InstallerAssumption DEF Address
<1>4. /\ inst' = [inst EXCEPT !.pc = "probing", !.temp = a]
      /\ addrs' = addrs \union {inst'.temp} /\ hist' = [hist EXCEPT !.held = addrs]
  BY DEF ProbeAdd
<1> HIDE DEF a
<1>5. InstBecomes("probing", inst.loc, a, inst.added)
  BY <1>1, <1>3, <1>4 DEF InstRecord, InstBecomes, Steps
<1>6. /\ HistBecomes(hist.acked, hist.given, hist.token, addrs)
      /\ MarksBecome(hist.overlap, hist.raced, hist.lost, hist.behind, hist.again)
  BY <1>1, <1>4 DEF HistRecord, HistBecomes, MarksBecome
<1> QED BY <1>3, <1>4, <1>5, <1>6 DEF a, InstBecomes

LEMMA ProbeEndFields ==
  ASSUME TypeInv, ProbeEnd
  PROVE  \E pc \in {"import", "failed"} : InstBecomes(pc, inst.loc, NoAddress, inst.added)
<1>1. PICK pc \in {"import", "failed"} : inst' = [inst EXCEPT !.pc = pc, !.temp = NoAddress]
  BY DEF ProbeEnd
<1>2. inst \in InstRecord
  BY DEF TypeInv
<1>3. InstBecomes(pc, inst.loc, NoAddress, inst.added)
  BY <1>1, <1>2 DEF InstRecord, InstBecomes, Steps
<1> QED BY <1>3

\* Either nothing is imported, or into a state without proxies.
LEMMA ImportFields ==
  ASSUME TypeInv, Import
  PROVE  /\ \/ /\ ~MayImport(inst.loc) \/ list = <<>>
               /\ InstAt("save")
            \/ InstAt("failed")
            \/ /\ inst.loc.proxies = <<>> /\ list # <<>>
               /\ InstBecomes("save", Imported(inst.loc, list, setup.services), inst.temp, inst.added)
         /\ HistKept
         /\ MarksBecome(hist.overlap, hist.raced, hist.lost, hist.behind,
                        hist.again \/ (hist.token # 0 /\ inst'.loc # inst.loc))
<1>1. inst \in InstRecord /\ hist \in HistRecord /\ inst.loc \in State(setup.routes)
  BY DEF TypeInv, InstRecord
<1>2. HistKept /\ MarksBecome(hist.overlap, hist.raced, hist.lost, hist.behind,
                              hist.again \/ (hist.token # 0 /\ inst'.loc # inst.loc))
  <2>1. hist' = [hist EXCEPT !.again = @ \/ (hist.token # 0 /\ inst'.loc # inst.loc)]
    BY DEF Import
  <2> QED BY <1>1, <2>1 DEF HistRecord, HistKept, HistBecomes, MarksBecome
<1>3. CASE (~MayImport(inst.loc) \/ list = <<>>) /\ Goto("save")
  <2>1. InstAt("save")
    BY <1>3, GotoFields DEF Steps
  <2> QED BY <1>2, <1>3, <2>1
<1>4. CASE Goto("failed")
  <2>1. InstAt("failed")
    BY <1>4, GotoFields DEF Steps
  <2> QED BY <1>2, <2>1
<1>5. CASE /\ MayImport(inst.loc) /\ list # <<>>
           /\ inst' = [inst EXCEPT !.pc = "save", !.loc = Imported(@, list, setup.services)]
  <2> DEFINE loc == Imported(inst.loc, list, setup.services)
  <2>1. inst.loc.proxies = <<>>
    BY <1>5 DEF MayImport
  <2>2. loc \in State(setup.routes)
    BY <1>1, SetupType, ImportedState DEF TypeInv
  <2>3. inst' = [inst EXCEPT !.pc = "save", !.loc = loc]
    BY <1>1, <1>5 DEF InstRecord
  <2> HIDE DEF loc
  <2>4. InstBecomes("save", loc, inst.temp, inst.added)
    BY <1>1, <2>2, <2>3 DEF InstRecord, InstBecomes, Steps
  <2> QED BY <1>2, <1>5, <2>1, <2>4 DEF loc
<1> QED BY <1>3, <1>4, <1>5 DEF Import

LEMMA PortsType ==
  ASSUME NEW routes \in Routes, NEW s \in State(routes)
  PROVE  Ports(s.proxies) \subseteq Port
<1>1. \A i \in DOMAIN s.proxies : s.proxies[i] \in Proxy
  BY StateType
<1> QED BY <1>1 DEF Ports, Proxy

LEMMA BootSaveFields ==
  ASSUME TypeInv, BootSave
  PROVE  /\ InstAt("lists") /\ inst.pc = "save"
         /\ HistBecomes(IF hist.token = 0 THEN inst.loc.proxies ELSE hist.acked,
                        hist.given \union Ports(inst.loc.proxies), hist.token, hist.held)
         /\ MarksBecome(hist.overlap, hist.raced, hist.lost, hist.behind, hist.again)
<1>1. /\ hist \in HistRecord /\ inst.loc \in State(setup.routes)
      /\ inst.loc.proxies \in Seq(Proxy) /\ Ports(inst.loc.proxies) \subseteq Port
  BY SetupType, StateType, PortsType DEF TypeInv, InstRecord
<1>2. hist' = [hist EXCEPT !.acked = IF hist.token = 0 THEN inst.loc.proxies ELSE @,
                           !.given = @ \union Ports(inst.loc.proxies)]
  BY DEF BootSave
<1>3. /\ HistBecomes(IF hist.token = 0 THEN inst.loc.proxies ELSE hist.acked,
                     hist.given \union Ports(inst.loc.proxies), hist.token, hist.held)
      /\ MarksBecome(hist.overlap, hist.raced, hist.lost, hist.behind, hist.again)
  BY <1>1, <1>2 DEF HistRecord, HistBecomes, MarksBecome
<1> QED BY <1>3, GotoFields DEF BootSave, Steps, At

\* The list is behind from now on, or it was before.
LEMMA BehindFields ==
  ASSUME TypeInv, NEW q \in BOOLEAN, hist' = [hist EXCEPT !.behind = @ \/ q]
  PROVE  /\ HistKept
         /\ MarksBecome(hist.overlap, hist.raced, hist.lost, hist.behind \/ q, hist.again)
<1>1. hist \in HistRecord
  BY DEF TypeInv
<1> QED BY <1>1 DEF HistRecord, HistKept, HistBecomes, MarksBecome

LEMMA BootListsFields ==
  ASSUME TypeInv, BootLists
  PROVE  /\ InstAt("stop") /\ HistKept
         /\ MarksBecome(hist.overlap, hist.raced, hist.lost,
                        hist.behind \/ (AtRest /\ Differs(list', st)), hist.again)
<1> DEFINE q == AtRest /\ Differs(list', st)
<1>1. q \in BOOLEAN /\ hist' = [hist EXCEPT !.behind = @ \/ q]
  BY DEF BootLists, AtRest, Differs
<1> HIDE DEF q
<1>2. HistKept /\ MarksBecome(hist.overlap, hist.raced, hist.lost, hist.behind \/ q, hist.again)
  BY <1>1, BehindFields
<1> QED BY <1>2, GotoFields DEF BootLists, Steps, q

LEMMA KilledFields ==
  ASSUME TypeInv, Killed
  PROVE  /\ ReqEnds
         /\ HistBecomes(IF req.pc = "none" THEN hist.acked ELSE st.proxies, hist.given, hist.token,
                        hist.held)
         /\ MarksBecome(hist.overlap, hist.raced, hist.lost, hist.behind \/ Differs(list, st),
                        hist.again)
<1> DEFINE q == Differs(list, st)
<1>1. hist \in HistRecord /\ st.proxies \in Seq(Proxy) /\ q \in BOOLEAN
  BY SetupType, StateType DEF TypeInv, Differs
<1>2. hist' = [hist EXCEPT !.acked = IF req.pc = "none" THEN @ ELSE st.proxies, !.behind = @ \/ q]
  BY DEF Killed
<1> HIDE DEF q
<1>3. /\ HistBecomes(IF req.pc = "none" THEN hist.acked ELSE st.proxies, hist.given, hist.token,
                     hist.held)
      /\ MarksBecome(hist.overlap, hist.raced, hist.lost, hist.behind \/ q, hist.again)
  BY <1>1, <1>2 DEF HistRecord, HistBecomes, MarksBecome
<1> QED BY <1>3, NoReqFields DEF Killed, q

LEMMA PrepareWritesFields ==
  ASSUME TypeInv, PrepareWrites
  PROVE  /\ \E proxies \in prep : list' = FormatList(proxies)
         /\ prep' = {} /\ HistKept
         /\ MarksBecome(hist.overlap, hist.raced, hist.lost,
                        hist.behind \/ (AtRest /\ Differs(list', st)), hist.again)
<1> DEFINE q == AtRest /\ Differs(list', st)
<1>1. /\ \E proxies \in prep : list' = FormatList(proxies)
      /\ prep' = {} /\ q \in BOOLEAN /\ hist' = [hist EXCEPT !.behind = @ \/ q]
  BY DEF PrepareWrites, AtRest, Differs
<1> HIDE DEF q
<1>2. HistKept /\ MarksBecome(hist.overlap, hist.raced, hist.lost, hist.behind \/ q, hist.again)
  BY <1>1, BehindFields
<1> QED BY <1>1, <1>2 DEF q

LEMMA RepairStartsFields ==
  ASSUME TypeInv, RepairStarts
  PROVE  /\ InstBecomes("repairing", st, inst.temp, Added(st)) /\ HistKept
         /\ MarksBecome(hist.overlap \/ req.pc # "none", hist.raced, hist.lost,
                        hist.behind, hist.again)
<1>1. inst \in InstRecord /\ hist \in HistRecord /\ st \in State(setup.routes)
  BY DEF TypeInv
<1>2. Added(st) \in SUBSET Address
  BY <1>1, SetupType, BoundType DEF TypeInv
<1>3. /\ inst' = [inst EXCEPT !.pc = "repairing", !.loc = st, !.added = Added(st)]
      /\ hist' = [hist EXCEPT !.overlap = @ \/ req.pc # "none"]
  BY DEF RepairStarts
<1>4. InstBecomes("repairing", st, inst.temp, Added(st))
  BY <1>1, <1>2, <1>3 DEF InstRecord, InstBecomes, Steps
<1>5. HistKept /\ MarksBecome(hist.overlap \/ req.pc # "none", hist.raced, hist.lost,
                              hist.behind, hist.again)
  BY <1>1, <1>3 DEF HistRecord, HistKept, HistBecomes, MarksBecome
<1> QED BY <1>4, <1>5

LEMMA TokenFields ==
  ASSUME TypeInv, SetToken
  PROVE  /\ st' \in State(setup.routes) /\ st'.token = hist.token + 1 /\ st'.prefix = st.prefix
         /\ st'.proxies = st.proxies /\ st'.nextPort = st.nextPort
<1>1. hist.token \in Nat /\ st \in State(setup.routes)
  BY DEF TypeInv, HistRecord
<1> QED BY <1>1 DEF SetToken, State

LEMMA OneMoreOp ==
  ASSUME TypeInv, hist.ops < MaxOps
  PROVE  hist \in HistRecord /\ hist.ops + 1 \in 0..MaxOps
<1>1. hist \in HistRecord
  BY DEF TypeInv
<1>2. hist.ops \in 0..MaxOps
  BY <1>1 DEF HistRecord
<1> QED BY <1>1, <1>2, InstallerAssumption

\* Both rotations: by the installer, and by hand.
LEMMA RotationFields ==
  ASSUME TypeInv, RotateToken \/ RotateByHand
  PROVE  /\ SetToken
         /\ (InstAt("start") /\ inst.pc = "rotate") \/ (inst' = inst /\ dash)
         /\ HistBecomes(hist.acked, hist.given, hist.token + 1, hist.held)
         /\ MarksBecome(hist.overlap \/ ~Quiet, ~Quiet, hist.lost, hist.behind, hist.again)
<1> DEFINE q == ~Quiet
<1>1. q \in BOOLEAN
  BY DEF Quiet
<1>2. PICK ops \in 0..MaxOps :
        hist' = [hist EXCEPT !.token = @ + 1, !.ops = ops, !.overlap = @ \/ q, !.raced = q]
  <2>1. hist \in HistRecord /\ hist.ops \in 0..MaxOps
    BY DEF TypeInv, HistRecord
  <2>2. CASE RotateToken
    <3>1. hist' = [hist EXCEPT !.token = @ + 1, !.overlap = @ \/ q, !.raced = q]
      BY <2>2 DEF RotateToken
    <3> HIDE DEF q
    <3>2. hist' = [hist EXCEPT !.token = @ + 1, !.ops = hist.ops, !.overlap = @ \/ q, !.raced = q]
      BY <2>1, <3>1 DEF HistRecord
    <3> QED BY <2>1, <3>2
  <2>3. CASE RotateByHand
    <3>1. hist.ops + 1 \in 0..MaxOps
      BY <2>3, OneMoreOp DEF RotateByHand
    <3> QED BY <2>3, <3>1 DEF RotateByHand
  <2> QED BY <2>2, <2>3
<1> HIDE DEF q
<1>3. /\ HistBecomes(hist.acked, hist.given, hist.token + 1, hist.held)
      /\ MarksBecome(hist.overlap \/ q, q, hist.lost, hist.behind, hist.again)
  <2> DEFINE token == hist.token + 1
             overlap == hist.overlap \/ q
  <2>1. hist \in HistRecord /\ token \in Nat /\ overlap \in BOOLEAN
    BY <1>1 DEF TypeInv, HistRecord
  <2>2. hist' = [hist EXCEPT !.token = token, !.ops = ops, !.overlap = overlap, !.raced = q]
    BY <1>2
  <2> HIDE DEF token, overlap
  <2>3. /\ HistBecomes(hist.acked, hist.given, token, hist.held)
        /\ MarksBecome(overlap, q, hist.lost, hist.behind, hist.again)
    BY <1>1, <1>2, <2>1, <2>2 DEF HistRecord, HistBecomes, MarksBecome
  <2> QED BY <2>3 DEF token, overlap
<1>4. (InstAt("start") /\ inst.pc = "rotate") \/ (inst' = inst /\ dash)
  BY GotoFields DEF RotateToken, RotateByHand, Steps, At
<1> QED BY <1>3, <1>4 DEF RotateToken, RotateByHand, q

\* The candidate is refused, or the request goes on with it.
LEMMA RequestStartsFields ==
  ASSUME TypeInv, RequestStarts
  PROVE  /\ HistKept
         /\ MarksBecome(hist.overlap \/ Saving, hist.raced, hist.lost, hist.behind, hist.again)
         /\ \E cand \in Candidates :
              /\ Derived(setup.routes, st, cand) /\ Renders(cand.proxies)
              /\ addrs' = addrs \union Bound(cand)
              /\ ReqEnds \/ ReqBecomes("save", st, cand, Added(cand))
<1>1. hist \in HistRecord /\ hist.ops + 1 \in 0..MaxOps
  BY OneMoreOp DEF RequestStarts
<1>2. HistKept /\ MarksBecome(hist.overlap \/ Saving, hist.raced, hist.lost, hist.behind, hist.again)
  <2> DEFINE q == Saving
  <2>1. q \in BOOLEAN
    BY DEF Saving
  <2>2. hist' = [hist EXCEPT !.ops = @ + 1, !.overlap = @ \/ q]
    BY DEF RequestStarts
  <2> HIDE DEF q
  <2>3. HistKept /\ MarksBecome(hist.overlap \/ q, hist.raced, hist.lost, hist.behind, hist.again)
    BY <1>1, <2>1, <2>2 DEF HistRecord, HistKept, HistBecomes, MarksBecome
  <2> QED BY <2>3 DEF q
<1>3. PICK cand \in Candidates :
        /\ Renders(cand.proxies) /\ addrs' = addrs \union Bound(cand)
        /\ req' = IF Routed(cand.proxies, cand.prefix)
                  THEN [pc |-> "save", orig |-> st, cand |-> cand, added |-> Added(cand)]
                  ELSE NoReq
  BY DEF RequestStarts
<1>4. Derived(setup.routes, st, cand)
  BY CandidateDerives
<1>5. st \in State(setup.routes) /\ cand \in State(setup.routes)
  BY <1>4 DEF TypeInv, Derived
<1>6. Added(cand) \in SUBSET Address
  BY <1>5, SetupType, BoundType DEF TypeInv
<1>7. CASE Routed(cand.proxies, cand.prefix)
  <2>1. ReqBecomes("save", st, cand, Added(cand))
    BY <1>3, <1>5, <1>6, <1>7 DEF ReqBecomes, ReqRecord
  <2> QED BY <1>2, <1>3, <1>4, <2>1
<1>8. CASE ~Routed(cand.proxies, cand.prefix)
  <2>1. ReqEnds
    BY <1>3, <1>8, NoReqFields
  <2> QED BY <1>2, <1>3, <1>4, <2>1
<1> QED BY <1>7, <1>8

LEMMA RequestSavesFields ==
  ASSUME TypeInv, RequestSaves
  PROVE  ReqBecomes("restart", req.orig, req.cand, req.added)
<1>1. req \in ReqRecord /\ req' = [req EXCEPT !.pc = "restart"]
  BY DEF TypeInv, RequestSaves
<1> QED BY <1>1 DEF ReqRecord, ReqBecomes

LEMMA RequestSucceedsFields ==
  ASSUME TypeInv, RequestSucceeds
  PROVE  /\ ReqEnds
         /\ HistBecomes(req.cand.proxies, hist.given \union Ports(req.cand.proxies), hist.token,
                        hist.held)
         /\ MarksBecome(hist.overlap, hist.raced, hist.lost, hist.behind, hist.again)
<1>1. /\ hist \in HistRecord /\ req.cand \in State(setup.routes)
      /\ req.cand.proxies \in Seq(Proxy) /\ Ports(req.cand.proxies) \subseteq Port
  BY SetupType, StateType, PortsType DEF TypeInv, ReqRecord
<1>2. /\ hist' = [hist EXCEPT !.acked = req.cand.proxies,
                              !.given = @ \union Ports(req.cand.proxies)]
      /\ req' = NoReq
  BY DEF RequestSucceeds
<1>3. /\ HistBecomes(req.cand.proxies, hist.given \union Ports(req.cand.proxies), hist.token,
                     hist.held)
      /\ MarksBecome(hist.overlap, hist.raced, hist.lost, hist.behind, hist.again)
  BY <1>1, <1>2 DEF HistRecord, HistBecomes, MarksBecome
<1> QED BY <1>2, <1>3, NoReqFields

\* Nothing was saved; or it was, and the original is saved again, or lost.
LEMMA RequestFailsFields ==
  ASSUME TypeInv, RequestFails
  PROVE  /\ ReqBecomes("undo", req.orig, req.cand, req.added) /\ HistKept
         /\ \E lost \in BOOLEAN :
              /\ MarksBecome(hist.overlap, hist.raced, hist.lost \/ lost, hist.behind, hist.again)
              /\ \/ req.pc = "save" /\ st' = st
                 \/ req.pc = "restart" /\ st' = req.orig
                 \/ req.pc = "restart" /\ st' = st /\ lost
<1>1. /\ req \in ReqRecord /\ hist \in HistRecord
      /\ req.pc \in {"save", "restart"} /\ req' = [req EXCEPT !.pc = "undo"]
  BY DEF TypeInv, RequestFails
<1>2. ReqBecomes("undo", req.orig, req.cand, req.added)
  BY <1>1 DEF ReqRecord, ReqBecomes
<1>3. CASE hist' = hist
  <2>1. HistKept /\ MarksBecome(hist.overlap, hist.raced, hist.lost \/ FALSE, hist.behind, hist.again)
    BY <1>1, <1>3 DEF HistRecord, HistKept, HistBecomes, MarksBecome
  <2>2. \/ req.pc = "save" /\ st' = st
        \/ req.pc = "restart" /\ st' = req.orig
        \/ req.pc = "restart" /\ st' = st /\ hist.lost
    BY <1>1, <1>3 DEF RequestFails, HistRecord
  <2>3. CASE hist.lost
    <3>1. MarksBecome(hist.overlap, hist.raced, hist.lost \/ TRUE, hist.behind, hist.again)
      BY <2>1, <2>3 DEF MarksBecome
    <3> QED BY <1>2, <2>1, <2>2, <3>1
  <2> QED BY <1>2, <2>1, <2>2, <2>3
<1>4. CASE req.pc = "restart" /\ hist' = [hist EXCEPT !.lost = TRUE] /\ st' = st
  <2>1. HistKept /\ MarksBecome(hist.overlap, hist.raced, hist.lost \/ TRUE, hist.behind, hist.again)
    BY <1>1, <1>4 DEF HistRecord, HistKept, HistBecomes, MarksBecome
  <2> QED BY <1>2, <1>4, <2>1
<1> QED BY <1>3, <1>4 DEF RequestFails

LEMMA RequestUndoneFields ==
  ASSUME TypeInv, RequestUndone
  PROVE  /\ ReqEnds /\ HistKept
         /\ MarksBecome(hist.overlap, hist.raced, hist.lost, hist.behind \/ Differs(list', st),
                        hist.again)
<1> DEFINE q == Differs(list', st)
<1>1. req' = NoReq /\ q \in BOOLEAN /\ hist' = [hist EXCEPT !.behind = @ \/ q]
  BY DEF RequestUndone, Differs
<1> HIDE DEF q
<1>2. HistKept /\ MarksBecome(hist.overlap, hist.raced, hist.lost, hist.behind \/ q, hist.again)
  BY <1>1, BehindFields
<1> QED BY <1>1, <1>2, NoReqFields DEF q

LEMMA ScanLoadsFields ==
  ASSUME TypeInv, ScanLoads
  PROVE  /\ ReqBecomes("scan", st, st, {}) /\ HistKept
         /\ MarksBecome(hist.overlap \/ Saving, hist.raced, hist.lost, hist.behind, hist.again)
<1>1. hist \in HistRecord /\ st \in State(setup.routes)
  BY DEF TypeInv
<1>2. req' = [pc |-> "scan", orig |-> st, cand |-> st, added |-> {}]
  BY DEF ScanLoads
<1>3. ReqBecomes("scan", st, st, {})
  BY <1>1, <1>2 DEF ReqRecord, ReqBecomes
<1>4. HistKept /\ MarksBecome(hist.overlap \/ Saving, hist.raced, hist.lost, hist.behind, hist.again)
  <2> DEFINE q == Saving
  <2>1. q \in BOOLEAN /\ hist' = [hist EXCEPT !.overlap = @ \/ q]
    BY DEF Saving, ScanLoads
  <2> HIDE DEF q
  <2>2. HistKept /\ MarksBecome(hist.overlap \/ q, hist.raced, hist.lost, hist.behind, hist.again)
    BY <1>1, <2>1 DEF HistRecord, HistKept, HistBecomes, MarksBecome
  <2> QED BY <2>2 DEF q
<1> QED BY <1>3, <1>4

LEMMA ScanWritesFields ==
  ASSUME TypeInv, ScanWrites
  PROVE  /\ \E proxies \in late : late' = late \ {proxies} /\ list' = FormatList(proxies)
         /\ HistKept
         /\ MarksBecome(hist.overlap, hist.raced, hist.lost,
                        hist.behind \/ (AtRest /\ Differs(list', st)), hist.again)
<1> DEFINE q == AtRest /\ Differs(list', st)
<1>1. /\ \E proxies \in late : late' = late \ {proxies} /\ list' = FormatList(proxies)
      /\ q \in BOOLEAN /\ hist' = [hist EXCEPT !.behind = @ \/ q]
  BY DEF ScanWrites, AtRest, Differs
<1> HIDE DEF q
<1>2. HistKept /\ MarksBecome(hist.overlap, hist.raced, hist.lost, hist.behind \/ q, hist.again)
  BY <1>1, BehindFields
<1> QED BY <1>1, <1>2 DEF q

LEMMA TypeStep ==
  ASSUME setup' = setup, setup \in Setups, addrs' \subseteq Address, dash' \in BOOLEAN,
         list' \in Seq(ListEntry), AllKnown(setup.list, list'),
         late' \subseteq Seq(Proxy), \A proxies \in late' : AllKnown(setup.list, proxies),
         prep' \subseteq Seq(Proxy), \A proxies \in prep' : AllKnown(setup.list, proxies),
         st' \in State(setup.routes), AllKnown(setup.list, st'.proxies),
         inst' \in InstRecord, AllKnown(setup.list, inst'.loc.proxies),
         req' \in ReqRecord, AllKnown(setup.list, req'.orig.proxies),
         AllKnown(setup.list, req'.cand.proxies),
         hist' \in HistRecord
  PROVE  TypeInv'
<1>1. \A s \in Held' : AllKnown(setup.list, s.proxies)
  BY DEF Held
<1> QED BY <1>1 DEF TypeInv, InstRecord, ReqRecord, HistRecord

\* The facts of TypeInv in the form in which the steps use them.
LEMMA TypeFacts ==
  ASSUME TypeInv
  PROVE  /\ setup \in Setups /\ addrs \subseteq Address /\ dash \in BOOLEAN
         /\ list \in Seq(ListEntry) /\ AllKnown(setup.list, list)
         /\ late \subseteq Seq(Proxy) /\ \A proxies \in late : AllKnown(setup.list, proxies)
         /\ prep \subseteq Seq(Proxy) /\ \A proxies \in prep : AllKnown(setup.list, proxies)
         /\ st \in State(setup.routes) /\ AllKnown(setup.list, st.proxies)
         /\ inst \in InstRecord /\ AllKnown(setup.list, inst.loc.proxies)
         /\ inst.loc \in State(setup.routes)
         /\ req \in ReqRecord /\ req.orig \in State(setup.routes) /\ req.cand \in State(setup.routes)
         /\ AllKnown(setup.list, req.orig.proxies) /\ AllKnown(setup.list, req.cand.proxies)
         /\ hist \in HistRecord
         /\ setup.routes \in Routes
BY SetupType DEF TypeInv, Held, InstRecord, ReqRecord

\* The list that is written for a state.
LEMMA ListWritten ==
  ASSUME TypeInv, NEW s \in State(setup.routes), AllKnown(setup.list, s.proxies)
  PROVE  FormatList(s.proxies) \in Seq(ListEntry) /\ AllKnown(setup.list, FormatList(s.proxies))
<1>1. s.proxies \in Seq(Proxy)
  BY SetupType, StateType DEF TypeInv
<1> QED BY <1>1, FormatListEntries, FormatListKnown

LEMMA NewStateKnown == ASSUME NEW found PROVE AllKnown(found, NewState.proxies)
BY DEF NewState, AllKnown

\* The end of what held mu, in the form in which TypeStep uses it.
LEMMA EndsType ==
  ASSUME TypeInv, ReqEnds
  PROVE  /\ req' \in ReqRecord /\ AllKnown(setup.list, req'.orig.proxies)
         /\ AllKnown(setup.list, req'.cand.proxies)
BY NewStateKnown DEF ReqEnds, ReqBecomes

LEMMA BootstrapType ==
  ASSUME TypeInv,
         BootLoad \/ Detect \/ ProbeAdd \/ ProbeEnd \/ Import \/ BootSave \/ BootLists
  PROVE  TypeInv'
<1> USE TypeFacts DEF InstAt, InstBecomes, HistKept, HistBecomes
<1>1. CASE BootLoad
  BY <1>1, BootLoadFields, TypeStep DEF BootLoad
<1>2. CASE Detect
  <2>1. inst' \in InstRecord /\ inst'.loc.proxies = inst.loc.proxies
    BY <1>2, DetectFields
  <2> QED BY <1>2, <2>1, TypeStep DEF Detect
<1>3. CASE ProbeAdd
  BY <1>3, ProbeAddFields, TypeStep DEF ProbeAdd
<1>4. CASE ProbeEnd
  <2>1. inst' \in InstRecord /\ inst'.loc = inst.loc
    BY <1>4, ProbeEndFields
  <2> QED BY <1>4, <2>1, TypeStep DEF ProbeEnd
<1>5. CASE Import
  <2>1. inst' \in InstRecord /\ hist' \in HistRecord
    BY <1>5, ImportFields
  <2>2. AllKnown(setup.list, inst'.loc.proxies)
    <3> DEFINE c == Imported(inst.loc, list, setup.services)
    <3>1. inst'.loc = inst.loc \/ inst'.loc = c
      BY <1>5, ImportFields
    <3>2. \A i \in DOMAIN c.proxies : FromSetup(c.proxies[i], list, setup.services)
      BY SetupType, ImportedState
    <3> HIDE DEF c
    <3>3. AllKnown(setup.list, c.proxies)
      BY <3>2 DEF FromSetup, AllKnown
    <3> QED BY <3>1, <3>3
  <2> QED BY <1>5, <2>1, <2>2, TypeStep DEF Import
<1>6. CASE BootSave
  BY <1>6, BootSaveFields, TypeStep DEF BootSave
<1>7. CASE BootLists
  BY <1>7, BootListsFields, ListWritten, TypeStep DEF BootLists
<1> QED BY <1>1, <1>2, <1>3, <1>4, <1>5, <1>6, <1>7

LEMMA InstallType ==
  ASSUME TypeInv,
         \/ StopDashboard \/ RestartEngine \/ RepairStarts \/ RepairEnds \/ RotateToken
         \/ StartDashboard \/ Fail
  PROVE  TypeInv'
<1> USE TypeFacts DEF InstAt, InstBecomes, HistKept, HistBecomes
<1>0. Bound(st) \subseteq Address /\ Bound(inst.loc) \subseteq Address
  BY BoundType
<1>1. CASE StopDashboard
  <2>1. inst' \in InstRecord /\ inst'.loc = inst.loc
    BY <1>1, GotoFields DEF StopDashboard, Steps
  <2>2. CASE dash' = FALSE /\ Killed
    BY <1>1, <2>1, <2>2, KilledFields, EndsType, TypeStep DEF StopDashboard, Killed
  <2>3. CASE UNCHANGED <<dash, req, late, hist>>
    BY <1>1, <2>1, <2>3, TypeStep DEF StopDashboard
  <2> QED BY <1>1, <2>2, <2>3 DEF StopDashboard
<1>2. CASE RestartEngine
  <2>1. inst' \in InstRecord /\ inst'.loc = inst.loc
    BY <1>2, GotoFields DEF RestartEngine, Steps
  <2>2. list' = list \/ list' = FormatList(st.proxies)
    BY <1>2 DEF RestartEngine
  <2>3. list' \in Seq(ListEntry) /\ AllKnown(setup.list, list')
    BY <2>2, ListWritten
  <2> QED BY <1>0, <1>2, <2>1, <2>3, TypeStep DEF RestartEngine
<1>3. CASE RepairStarts
  BY <1>0, <1>3, RepairStartsFields, TypeStep DEF RepairStarts
<1>4. CASE RepairEnds
  <2>1. inst' \in InstRecord /\ inst'.loc = inst.loc
    BY <1>4, GotoFields DEF RepairEnds, Steps
  <2>2. /\ list' = list \/ list' = FormatList(inst.loc.proxies)
        /\ st' = st \/ st' = inst.loc
        /\ prep' = prep \/ prep' = {}
        /\ UNCHANGED <<setup, dash, req, late, hist>>
    BY <1>4 DEF RepairEnds
  <2>3. list' \in Seq(ListEntry) /\ AllKnown(setup.list, list')
    BY <2>2, ListWritten
  <2>4. addrs' \subseteq Address
    BY <1>0, <1>4 DEF RepairEnds
  <2>5. /\ prep' \subseteq Seq(Proxy) /\ \A proxies \in prep' : AllKnown(setup.list, proxies)
        /\ st' \in State(setup.routes) /\ AllKnown(setup.list, st'.proxies)
    BY <2>2
  <2> QED BY <2>1, <2>2, <2>3, <2>4, <2>5, TypeStep
<1>5. CASE RotateToken
  BY <1>5, RotationFields, TokenFields, TypeStep DEF SetToken
<1>6. CASE StartDashboard
  <2>1. inst' \in InstRecord /\ inst'.loc = inst.loc
    BY <1>6, GotoFields DEF StartDashboard, Steps
  <2> QED BY <1>6, <2>1, KilledFields, EndsType, TypeStep DEF StartDashboard, Killed
<1>7. CASE Fail
  BY <1>7, GotoFields, TypeStep DEF Fail, Steps
<1> QED BY <1>1, <1>2, <1>3, <1>4, <1>5, <1>6, <1>7

LEMMA EngineType ==
  ASSUME TypeInv, EngineStarts \/ PrepareWrites
  PROVE  TypeInv'
<1> USE TypeFacts
<1>1. CASE EngineStarts
  <2>1. Bound(st) \subseteq Address /\ st.proxies \in Seq(Proxy)
    BY BoundType, StateType
  <2>2. addrs' \subseteq Address
    BY <1>1, <2>1 DEF EngineStarts
  <2>3. prep' \subseteq Seq(Proxy) /\ \A proxies \in prep' : AllKnown(setup.list, proxies)
    BY <1>1, <2>1 DEF EngineStarts
  <2> QED BY <1>1, <2>2, <2>3, TypeStep DEF EngineStarts
<1>2. CASE PrepareWrites
  <2>1. list' \in Seq(ListEntry) /\ AllKnown(setup.list, list')
    <3>1. PICK proxies \in prep : list' = FormatList(proxies)
      BY <1>2, PrepareWritesFields
    <3> QED BY <3>1, FormatListEntries, FormatListKnown
  <2>2. hist' \in HistRecord /\ prep' = {}
    BY <1>2, PrepareWritesFields DEF HistKept, HistBecomes
  <2> QED BY <1>2, <2>1, <2>2, TypeStep DEF PrepareWrites
<1> QED BY <1>1, <1>2

LEMMA RequestType ==
  ASSUME TypeInv, \/ RequestStarts \/ RequestSaves \/ RequestSucceeds \/ RequestGivesUp
                  \/ RequestFails \/ RequestUndone
  PROVE  TypeInv'
<1> USE TypeFacts DEF HistKept, HistBecomes
<1>0. Bound(st) \subseteq Address
  BY BoundType
<1>1. CASE RequestStarts
  <2>1. PICK cand \in Candidates :
          /\ Derived(setup.routes, st, cand) /\ addrs' = addrs \union Bound(cand)
          /\ ReqEnds \/ ReqBecomes("save", st, cand, Added(cand))
    BY <1>1, RequestStartsFields
  <2>2. cand \in State(setup.routes) /\ AllKnown(setup.list, cand.proxies)
    BY <2>1, DerivedKnown DEF Derived
  <2>3. Bound(cand) \subseteq Address
    BY <2>2, BoundType
  <2>4. /\ req' \in ReqRecord /\ AllKnown(setup.list, req'.orig.proxies)
        /\ AllKnown(setup.list, req'.cand.proxies)
    BY <2>1, <2>2, EndsType DEF ReqBecomes
  <2>5. hist' \in HistRecord
    BY <1>1, RequestStartsFields
  <2> QED BY <1>1, <2>1, <2>3, <2>4, <2>5, TypeStep DEF RequestStarts
<1>2. CASE RequestSaves
  BY <1>2, RequestSavesFields, TypeStep DEF RequestSaves, ReqBecomes
<1>3. CASE RequestSucceeds
  <2>1. addrs' \subseteq Address
    BY <1>0, <1>3 DEF RequestSucceeds
  <2>2. list' \in Seq(ListEntry) /\ AllKnown(setup.list, list') /\ prep' = {}
    BY <1>3, ListWritten DEF RequestSucceeds
  <2> QED BY <1>3, <2>1, <2>2, RequestSucceedsFields, EndsType, TypeStep DEF RequestSucceeds
<1>4. CASE RequestGivesUp
  BY <1>4, NoReqFields, EndsType, TypeStep DEF RequestGivesUp
<1>5. CASE RequestFails
  <2>1. st' = st \/ st' = req.orig
    BY <1>5 DEF RequestFails
  <2>2. st' \in State(setup.routes) /\ AllKnown(setup.list, st'.proxies)
    BY <2>1
  <2> QED BY <1>5, <2>2, RequestFailsFields, TypeStep DEF RequestFails, ReqBecomes
<1>6. CASE RequestUndone
  <2>1. list' = list \/ list' = FormatList(req.orig.proxies)
    BY <1>6 DEF RequestUndone
  <2>2. list' \in Seq(ListEntry) /\ AllKnown(setup.list, list')
    BY <2>1, ListWritten
  <2>3. addrs' \subseteq Address /\ prep' \in {prep, {}}
    BY <1>6 DEF RequestUndone
  <2>4. prep' \subseteq Seq(Proxy) /\ \A proxies \in prep' : AllKnown(setup.list, proxies)
    BY <2>3
  <2> QED BY <1>6, <2>2, <2>3, <2>4, RequestUndoneFields, EndsType, TypeStep DEF RequestUndone
<1> QED BY <1>1, <1>2, <1>3, <1>4, <1>5, <1>6

LEMMA DashboardType ==
  ASSUME TypeInv, RotateByHand \/ DashboardDies \/ ScanLoads \/ ScanSaves \/ ScanWrites
  PROVE  TypeInv'
<1> USE TypeFacts DEF HistKept, HistBecomes
<1>1. CASE RotateByHand
  <2>1. inst' = inst
    BY <1>1 DEF RotateByHand
  <2> QED BY <1>1, <2>1, RotationFields, TokenFields, TypeStep DEF SetToken
<1>2. CASE DashboardDies
  BY <1>2, KilledFields, EndsType, TypeStep DEF DashboardDies, Killed
<1>3. CASE ScanLoads
  BY <1>3, ScanLoadsFields, TypeStep DEF ScanLoads, ReqBecomes
<1>4. CASE ScanSaves
  <2>1. req.cand.proxies \in Seq(Proxy) /\ st' = req.cand
    BY <1>4, StateType DEF ScanSaves
  <2>2. late' \subseteq Seq(Proxy) /\ \A proxies \in late' : AllKnown(setup.list, proxies)
    BY <1>4, <2>1 DEF ScanSaves
  <2> QED BY <1>4, <2>1, <2>2, NoReqFields, EndsType, TypeStep DEF ScanSaves
<1>5. CASE ScanWrites
  <2>1. PICK proxies \in late : late' = late \ {proxies} /\ list' = FormatList(proxies)
    BY <1>5, ScanWritesFields
  <2>2. hist' \in HistRecord
    BY <1>5, ScanWritesFields
  <2>3. list' \in Seq(ListEntry) /\ AllKnown(setup.list, list')
    BY <2>1, FormatListEntries, FormatListKnown
  <2> QED BY <1>5, <2>1, <2>2, <2>3, TypeStep DEF ScanWrites
<1> QED BY <1>1, <1>2, <1>3, <1>4, <1>5

LEMMA Typing == Spec => []TypeInv
<1>1. TypeInv /\ [Next \/ Rest]_vars => TypeInv'
  <2> SUFFICES ASSUME TypeInv, [Next \/ Rest]_vars PROVE TypeInv'
    OBVIOUS
  <2>1. CASE Next
    BY <2>1, BootstrapType, InstallType, EngineType, RequestType, DashboardType DEF Next
  <2>2. CASE UNCHANGED vars
    BY <2>2 DEF vars, TypeInv, Held, InstRecord, ReqRecord, HistRecord
  <2> QED BY <2>1, <2>2 DEF Rest
<1> QED BY <1>1, InitType, PTL DEF Spec
-----------------------------------------------------------------------------
(***************************************************************************)
(* The order of the steps.  The dashboard serves, and the engine starts,   *)
(* only with an installed state, one that has a prefix; and it has a token *)
(* when it serves.                                                         *)
(***************************************************************************)
Flow ==
  /\ req.pc # "none" \/ late # {} => dash
  /\ dash \/ inst.pc = "start" => hist.token # 0
  /\ dash \/ prep # {} => Detected(st)
  /\ req.pc # "none" => Detected(req.orig) /\ Detected(req.cand)
  /\ inst.pc \in {"detect", "probe", "probing"} => ~Detected(st)
  /\ inst.pc \in {"probing", "import", "save", "repairing"} => Detected(inst.loc)
  /\ inst.pc \in {"lists", "stop", "restart", "repair", "repairing", "rotate", "start"} => Detected(st)

LEMMA InitFlow == Init => Flow
BY DEF Init, Flow, NoReq, Idle

LEMMA BootstrapFlow ==
  ASSUME TypeInv, Flow,
         BootLoad \/ Detect \/ ProbeAdd \/ ProbeEnd \/ Import \/ BootSave \/ BootLists
  PROVE  Flow'
<1> USE DEF At, InstAt, InstBecomes, HistKept, HistBecomes, Flow, Detected
<1>1. CASE BootLoad
  BY <1>1, BootLoadFields DEF BootLoad
<1>2. CASE Detect
  <2>1. inst'.pc = "probe"
    BY <1>2, DetectFields
  <2> QED BY <1>2, <2>1 DEF Detect
<1>3. CASE ProbeAdd
  <2> DEFINE a == TestAddress(inst.loc.prefix)
  <2>1. a \in Nat /\ In(a, inst.loc.prefix)
    BY <1>3, ProbeAddFields, SpaceType DEF ProbeAdd, Address
  <2> HIDE DEF a
  <2>2. Detected(inst.loc)
    BY <2>1 DEF In, NoPrefix
  <2> QED BY <1>3, <2>2, ProbeAddFields DEF ProbeAdd
<1>4. CASE ProbeEnd
  <2>1. inst'.pc \in {"import", "failed"} /\ inst'.loc = inst.loc
    BY <1>4, ProbeEndFields
  <2> QED BY <1>4, <2>1 DEF ProbeEnd
<1>5. CASE Import
  <2>1. inst'.loc = inst.loc \/ inst'.loc = Imported(inst.loc, list, setup.services)
    BY <1>5, ImportFields
  <2>2. inst'.loc.prefix = inst.loc.prefix
    <3>1. Imported(inst.loc, list, setup.services).prefix = inst.loc.prefix
      BY TypeFacts, SetupType, ImportedState
    <3> QED BY <2>1, <3>1
  <2>3. inst'.pc \in {"save", "failed"} /\ hist'.token = hist.token
    BY <1>5, ImportFields
  <2> QED BY <1>5, <2>2, <2>3 DEF Import
<1>6. CASE BootSave
  BY <1>6, BootSaveFields DEF BootSave
<1>7. CASE BootLists
  BY <1>7, BootListsFields DEF BootLists
<1> QED BY <1>1, <1>2, <1>3, <1>4, <1>5, <1>6, <1>7

LEMMA InstallFlow ==
  ASSUME TypeInv, Flow,
         \/ StopDashboard \/ RestartEngine \/ RepairStarts \/ RepairEnds \/ StartDashboard \/ Fail
  PROVE  Flow'
<1> USE DEF At, InstAt, InstBecomes, HistKept, HistBecomes, Flow, Detected
<1>1. CASE StopDashboard
  <2>1. inst'.pc = "restart" /\ inst'.loc = inst.loc /\ UNCHANGED <<st, prep>>
    BY <1>1, GotoFields DEF StopDashboard, Steps
  <2>2. CASE dash' = FALSE /\ Killed
    BY <1>1, <2>1, <2>2, KilledFields DEF StopDashboard, Killed, ReqEnds, ReqBecomes
  <2>3. CASE UNCHANGED <<dash, req, late, hist>>
    BY <1>1, <2>1, <2>3 DEF StopDashboard
  <2> QED BY <1>1, <2>2, <2>3 DEF StopDashboard
<1>2. CASE RestartEngine
  <2>1. inst'.pc \in {"repair", "failed"} /\ inst'.loc = inst.loc
    BY <1>2, GotoFields DEF RestartEngine, Steps
  <2> QED BY <1>2, <2>1 DEF RestartEngine
<1>3. CASE RepairStarts
  BY <1>3, RepairStartsFields DEF RepairStarts
<1>4. CASE RepairEnds
  <2>1. inst'.pc \in {"rotate", "failed"} /\ inst'.loc = inst.loc
    BY <1>4, GotoFields DEF RepairEnds, Steps
  <2>2. /\ st' = st \/ st' = inst.loc
        /\ UNCHANGED <<setup, dash, req, late, hist>> /\ inst.pc = "repairing"
    BY <1>4 DEF RepairEnds
  <2> QED BY <2>1, <2>2
<1>5. CASE StartDashboard
  <2>1. inst'.pc = "ready" /\ inst'.loc = inst.loc
    BY <1>5, GotoFields DEF StartDashboard, Steps
  <2> QED BY <1>5, <2>1, KilledFields DEF StartDashboard, Killed, ReqEnds, ReqBecomes
<1>6. CASE Fail
  BY <1>6, GotoFields DEF Fail, Steps
<1> QED BY <1>1, <1>2, <1>3, <1>4, <1>5, <1>6

LEMMA DashboardFlow ==
  ASSUME TypeInv, Flow,
         \/ RotateToken \/ RotateByHand \/ EngineStarts \/ PrepareWrites \/ DashboardDies
         \/ ScanLoads \/ ScanSaves \/ ScanWrites
  PROVE  Flow'
<1> USE DEF HistKept, HistBecomes, ReqEnds, ReqBecomes, Flow, Detected
<1>1. CASE RotateToken \/ RotateByHand
  <2>1. /\ (InstAt("start") /\ inst.pc = "rotate") \/ inst' = inst
        /\ hist'.token = hist.token + 1 /\ st'.prefix = st.prefix /\ SetToken
    BY <1>1, RotationFields, TokenFields
  <2>2. hist'.token # 0
    BY <2>1, TypeFacts DEF HistRecord
  <2> QED BY <2>1, <2>2 DEF SetToken, InstAt, InstBecomes
<1>2. CASE EngineStarts
  BY <1>2 DEF EngineStarts
<1>3. CASE PrepareWrites
  <2>1. prep' = {} /\ hist'.token = hist.token
    BY <1>3, PrepareWritesFields
  <2> QED BY <1>3, <2>1 DEF PrepareWrites
<1>4. CASE DashboardDies
  BY <1>4, KilledFields DEF DashboardDies, Killed
<1>5. CASE ScanLoads
  BY <1>5, ScanLoadsFields DEF ScanLoads
<1>6. CASE ScanSaves
  BY <1>6, NoReqFields DEF ScanSaves
<1>7. CASE ScanWrites
  <2>1. late # {} /\ hist'.token = hist.token
    BY <1>7, ScanWritesFields
  <2> QED BY <1>7, <2>1 DEF ScanWrites
<1> QED BY <1>1, <1>2, <1>3, <1>4, <1>5, <1>6, <1>7

LEMMA RequestFlow ==
  ASSUME TypeInv, Flow, \/ RequestStarts \/ RequestSaves \/ RequestSucceeds \/ RequestGivesUp
                        \/ RequestFails \/ RequestUndone
  PROVE  Flow'
<1> USE DEF HistKept, HistBecomes, ReqEnds, ReqBecomes, Flow, Detected
<1>1. CASE RequestStarts
  <2>1. PICK cand \in Candidates :
          /\ Derived(setup.routes, st, cand)
          /\ ReqEnds \/ ReqBecomes("save", st, cand, Added(cand))
    BY <1>1, RequestStartsFields
  <2>2. cand.prefix = st.prefix
    BY <2>1 DEF Derived
  <2>3. hist'.token = hist.token
    BY <1>1, RequestStartsFields
  <2> QED BY <1>1, <2>1, <2>2, <2>3 DEF RequestStarts
<1>2. CASE RequestSaves
  BY <1>2, RequestSavesFields DEF RequestSaves
<1>3. CASE RequestSucceeds
  BY <1>3, RequestSucceedsFields DEF RequestSucceeds
<1>4. CASE RequestGivesUp
  BY <1>4, NoReqFields DEF RequestGivesUp
<1>5. CASE RequestFails
  <2>1. st' = st \/ st' = req.orig
    BY <1>5 DEF RequestFails
  <2> QED BY <1>5, <2>1, RequestFailsFields DEF RequestFails
<1>6. CASE RequestUndone
  <2>1. prep' = prep \/ prep' = {}
    BY <1>6 DEF RequestUndone
  <2> QED BY <1>6, <2>1, RequestUndoneFields DEF RequestUndone
<1> QED BY <1>1, <1>2, <1>3, <1>4, <1>5, <1>6

LEMMA FlowStep == TypeInv /\ Flow /\ [Next \/ Rest]_vars => Flow'
<1>1. TypeInv /\ Flow /\ Next => Flow'
  BY BootstrapFlow, InstallFlow, DashboardFlow, RequestFlow DEF Next
<1>2. Flow /\ UNCHANGED vars => Flow'
  BY DEF vars, Flow, Detected
<1> QED BY <1>1, <1>2 DEF Rest
-----------------------------------------------------------------------------
(***************************************************************************)
(* As long as no two processes were between a load and a save at the same  *)
(* time, every copy of the state agrees with the saved one: those of       *)
(* bootstrap, but for a first import, and of repair, and what the request  *)
(* or the scan has loaded, until it saves its own.                         *)
(***************************************************************************)
Agreed ==
  ~hist.overlap =>
    /\ Saving => /\ req.pc = "none"
                 /\ Detected(st) => inst.loc.prefix = st.prefix
                 /\ hist.token # 0 /\ ~hist.again => inst.loc.proxies = st.proxies
    /\ inst.pc = "repairing" => inst.loc = st
    /\ req.pc \in {"scan", "save"} => st = req.orig
    /\ req.pc = "undo" /\ ~hist.lost => st = req.orig
    /\ req.pc \in {"scan", "restart"} => st = req.cand

LEMMA InitAgreed == Init => Agreed
BY DEF Init, Agreed, NoReq, Idle, HistInit, Saving

LEMMA BootstrapAgreed ==
  ASSUME TypeInv, Flow, Agreed,
         BootLoad \/ Detect \/ ProbeAdd \/ ProbeEnd \/ Import \/ BootSave \/ BootLists
  PROVE  Agreed'
<1> USE DEF At, InstAt, InstBecomes, HistKept, HistBecomes, MarksBecome, Agreed, Saving, Detected
<1>1. CASE BootLoad
  BY <1>1, BootLoadFields DEF BootLoad
<1>2. CASE Detect
  <2>1. inst'.pc = "probe" /\ inst'.loc.proxies = inst.loc.proxies
    BY <1>2, DetectFields
  <2>2. ~Detected(st)
    BY <1>2 DEF Detect, Flow
  <2> QED BY <1>2, <2>1, <2>2 DEF Detect
<1>3. CASE ProbeAdd
  BY <1>3, ProbeAddFields DEF ProbeAdd
<1>4. CASE ProbeEnd
  <2>1. inst'.pc \in {"import", "failed"} /\ inst'.loc = inst.loc
    BY <1>4, ProbeEndFields
  <2> QED BY <1>4, <2>1 DEF ProbeEnd
<1>5. CASE Import
  <2> DEFINE c == Imported(inst.loc, list, setup.services)
  <2>1. c.prefix = inst.loc.prefix
    BY TypeFacts, SetupType, ImportedState
  <2> HIDE DEF c
  <2>2. inst'.loc = inst.loc \/ inst'.loc = c
    BY <1>5, ImportFields DEF c
  <2>3. inst'.loc.prefix = inst.loc.prefix /\ inst'.pc \in {"save", "failed"}
    BY <1>5, <2>1, <2>2, ImportFields
  <2>4. /\ hist'.token = hist.token /\ hist'.overlap = hist.overlap /\ hist'.lost = hist.lost
        /\ hist'.again = (hist.again \/ (hist.token # 0 /\ inst'.loc # inst.loc))
    BY <1>5, ImportFields
  <2>5. hist'.token # 0 /\ ~hist'.again => ~hist.again /\ inst'.loc = inst.loc
    BY <2>4
  <2> QED BY <1>5, <2>3, <2>4, <2>5 DEF Import
<1>6. CASE BootSave
  BY <1>6, BootSaveFields DEF BootSave
<1>7. CASE BootLists
  BY <1>7, BootListsFields DEF BootLists
<1> QED BY <1>1, <1>2, <1>3, <1>4, <1>5, <1>6, <1>7

LEMMA InstallAgreed ==
  ASSUME TypeInv, Flow, Agreed,
         \/ StopDashboard \/ RestartEngine \/ RepairStarts \/ RepairEnds \/ StartDashboard \/ Fail
  PROVE  Agreed'
<1> USE DEF At, InstAt, InstBecomes, HistKept, HistBecomes, MarksBecome, Agreed, Saving, Detected
<1>1. CASE StopDashboard
  <2>1. inst'.pc = "restart" /\ inst'.loc = inst.loc /\ UNCHANGED st
    BY <1>1, GotoFields DEF StopDashboard, Steps
  <2>2. CASE dash' = FALSE /\ Killed
    BY <2>1, <2>2, KilledFields DEF ReqEnds, ReqBecomes
  <2>3. CASE UNCHANGED <<dash, req, late, hist>>
    BY <2>1, <2>3
  <2> QED BY <1>1, <2>2, <2>3 DEF StopDashboard
<1>2. CASE RestartEngine
  <2>1. inst'.pc \in {"repair", "failed"} /\ inst'.loc = inst.loc
    BY <1>2, GotoFields DEF RestartEngine, Steps
  <2> QED BY <1>2, <2>1 DEF RestartEngine
<1>3. CASE RepairStarts
  BY <1>3, RepairStartsFields DEF RepairStarts
<1>4. CASE RepairEnds
  <2>1. inst'.pc \in {"rotate", "failed"} /\ inst'.loc = inst.loc
    BY <1>4, GotoFields DEF RepairEnds, Steps
  <2>2. /\ st' = st \/ st' = inst.loc
        /\ UNCHANGED <<req, hist>> /\ inst.pc = "repairing"
    BY <1>4 DEF RepairEnds
  <2> QED BY <2>1, <2>2
<1>5. CASE StartDashboard
  <2>1. inst'.pc = "ready" /\ inst'.loc = inst.loc
    BY <1>5, GotoFields DEF StartDashboard, Steps
  <2> QED BY <1>5, <2>1, KilledFields DEF StartDashboard, ReqEnds, ReqBecomes
<1>6. CASE Fail
  BY <1>6, GotoFields DEF Fail, Steps
<1> QED BY <1>1, <1>2, <1>3, <1>4, <1>5, <1>6

LEMMA DashboardAgreed ==
  ASSUME TypeInv, Flow, Agreed,
         \/ RotateToken \/ RotateByHand \/ EngineStarts \/ PrepareWrites \/ DashboardDies
         \/ ScanLoads \/ ScanSaves \/ ScanWrites
  PROVE  Agreed'
<1> USE DEF HistKept, HistBecomes, MarksBecome, ReqEnds, ReqBecomes, Agreed, Saving, Detected
<1>1. CASE RotateToken \/ RotateByHand
  <2>1. (InstAt("start") /\ inst.pc = "rotate") \/ inst' = inst
    BY <1>1, RotationFields
  <2>2. hist'.overlap = (hist.overlap \/ ~Quiet)
    BY <1>1, RotationFields
  <2> QED BY <1>1, <2>1, <2>2, RotationFields DEF SetToken, InstAt, InstBecomes, Quiet
<1>2. CASE EngineStarts
  BY <1>2 DEF EngineStarts
<1>3. CASE PrepareWrites
  BY <1>3, PrepareWritesFields DEF PrepareWrites
<1>4. CASE DashboardDies
  BY <1>4, KilledFields DEF DashboardDies
<1>5. CASE ScanLoads
  BY <1>5, ScanLoadsFields DEF ScanLoads
<1>6. CASE ScanSaves
  BY <1>6, NoReqFields DEF ScanSaves
<1>7. CASE ScanWrites
  BY <1>7, ScanWritesFields DEF ScanWrites
<1> QED BY <1>1, <1>2, <1>3, <1>4, <1>5, <1>6, <1>7

LEMMA RequestAgreed ==
  ASSUME TypeInv, Flow, Agreed,
         \/ RequestStarts \/ RequestSaves \/ RequestSucceeds \/ RequestGivesUp
         \/ RequestFails \/ RequestUndone
  PROVE  Agreed'
<1> USE DEF HistKept, HistBecomes, MarksBecome, ReqEnds, ReqBecomes, Agreed, Saving, Detected
<1>1. CASE RequestStarts
  <2>1. PICK cand \in Candidates : ReqEnds \/ ReqBecomes("save", st, cand, Added(cand))
    BY <1>1, RequestStartsFields
  <2>2. MarksBecome(hist.overlap \/ Saving, hist.raced, hist.lost, hist.behind, hist.again)
    BY <1>1, RequestStartsFields
  <2> QED BY <1>1, <2>1, <2>2 DEF RequestStarts
<1>2. CASE RequestSaves
  BY <1>2, RequestSavesFields DEF RequestSaves
<1>3. CASE RequestSucceeds
  BY <1>3, RequestSucceedsFields DEF RequestSucceeds
<1>4. CASE RequestGivesUp
  BY <1>4, NoReqFields DEF RequestGivesUp
<1>5. CASE RequestFails
  <2>1. PICK lost \in BOOLEAN :
          /\ MarksBecome(hist.overlap, hist.raced, hist.lost \/ lost, hist.behind, hist.again)
          /\ \/ req.pc = "save" /\ st' = st
             \/ req.pc = "restart" /\ st' = req.orig
             \/ req.pc = "restart" /\ st' = st /\ lost
    BY <1>5, RequestFailsFields
  <2> QED BY <1>5, <2>1, RequestFailsFields DEF RequestFails
<1>6. CASE RequestUndone
  BY <1>6, RequestUndoneFields DEF RequestUndone
<1> QED BY <1>1, <1>2, <1>3, <1>4, <1>5, <1>6

LEMMA AgreedStep == TypeInv /\ Flow /\ Agreed /\ [Next \/ Rest]_vars => Agreed'
<1>1. TypeInv /\ Flow /\ Agreed /\ Next => Agreed'
  BY BootstrapAgreed, InstallAgreed, DashboardAgreed, RequestAgreed DEF Next
<1>2. Agreed /\ UNCHANGED vars => Agreed'
  BY DEF vars, Agreed, Saving, Detected
<1> QED BY <1>1, <1>2 DEF Rest
-----------------------------------------------------------------------------
(***************************************************************************)
(* Nothing lost: the proxies of the last acknowledged change are saved, or *)
(* they are what a request would restore.                                  *)
(***************************************************************************)
Acked ==
  ~hist.overlap /\ ~hist.again /\ ~hist.lost =>
    IF req.pc = "none" THEN st.proxies = hist.acked ELSE req.orig.proxies = hist.acked

LEMMA InitAcked == Init => Acked
BY NewStateType DEF Init, Acked, NoReq, HistInit

LEMMA BootstrapAcked ==
  ASSUME TypeInv, Agreed, Acked,
         BootLoad \/ Detect \/ ProbeAdd \/ ProbeEnd \/ Import \/ BootSave \/ BootLists
  PROVE  Acked'
<1> USE DEF HistKept, HistBecomes, MarksBecome, Acked
<1>1. CASE BootLoad
  BY <1>1, BootLoadFields DEF BootLoad
<1>2. CASE Detect \/ ProbeEnd
  BY <1>2 DEF Detect, ProbeEnd
<1>3. CASE ProbeAdd
  BY <1>3, ProbeAddFields DEF ProbeAdd
<1>4. CASE Import
  BY <1>4, ImportFields DEF Import
<1>5. CASE BootSave
  BY <1>5, BootSaveFields DEF BootSave, Agreed, Saving
<1>6. CASE BootLists
  BY <1>6, BootListsFields DEF BootLists
<1> QED BY <1>1, <1>2, <1>3, <1>4, <1>5, <1>6

LEMMA InstallAcked ==
  ASSUME TypeInv, Agreed, Acked,
         \/ StopDashboard \/ RestartEngine \/ RepairStarts \/ RepairEnds \/ StartDashboard \/ Fail
  PROVE  Acked'
<1> USE DEF HistKept, HistBecomes, MarksBecome, ReqEnds, ReqBecomes, Acked
<1>1. CASE StopDashboard
  <2>1. CASE Killed
    BY <1>1, <2>1, KilledFields DEF StopDashboard
  <2>2. CASE UNCHANGED <<dash, req, late, hist>>
    BY <1>1, <2>2 DEF StopDashboard
  <2> QED BY <1>1, <2>1, <2>2 DEF StopDashboard
<1>2. CASE RestartEngine \/ Fail
  BY <1>2 DEF RestartEngine, Fail
<1>3. CASE RepairStarts
  BY <1>3, RepairStartsFields DEF RepairStarts
<1>4. CASE RepairEnds
  <2>1. /\ st' = st \/ st' = inst.loc
        /\ UNCHANGED <<req, hist>> /\ inst.pc = "repairing"
    BY <1>4 DEF RepairEnds, At
  <2> QED BY <2>1 DEF Agreed
<1>5. CASE StartDashboard
  BY <1>5, KilledFields DEF StartDashboard
<1> QED BY <1>1, <1>2, <1>3, <1>4, <1>5

LEMMA DashboardAcked ==
  ASSUME TypeInv, Agreed, Acked,
         \/ RotateToken \/ RotateByHand \/ EngineStarts \/ PrepareWrites \/ DashboardDies
         \/ ScanLoads \/ ScanSaves \/ ScanWrites
  PROVE  Acked'
<1> USE DEF HistKept, HistBecomes, MarksBecome, ReqEnds, ReqBecomes, Acked
<1>1. CASE RotateToken \/ RotateByHand
  BY <1>1, RotationFields, TokenFields DEF SetToken
<1>2. CASE EngineStarts
  BY <1>2 DEF EngineStarts
<1>3. CASE PrepareWrites
  BY <1>3, PrepareWritesFields DEF PrepareWrites
<1>4. CASE DashboardDies
  BY <1>4, KilledFields DEF DashboardDies
<1>5. CASE ScanLoads
  BY <1>5, ScanLoadsFields DEF ScanLoads
<1>6. CASE ScanSaves
  BY <1>6, NoReqFields DEF ScanSaves, Agreed
<1>7. CASE ScanWrites
  BY <1>7, ScanWritesFields DEF ScanWrites
<1> QED BY <1>1, <1>2, <1>3, <1>4, <1>5, <1>6, <1>7

LEMMA RequestAcked ==
  ASSUME TypeInv, Agreed, Acked, \/ RequestStarts \/ RequestSaves \/ RequestSucceeds
                                 \/ RequestGivesUp \/ RequestFails \/ RequestUndone
  PROVE  Acked'
<1> USE DEF HistKept, HistBecomes, MarksBecome, ReqEnds, ReqBecomes, Acked
<1>1. CASE RequestStarts
  <2>1. PICK cand \in Candidates : ReqEnds \/ ReqBecomes("save", st, cand, Added(cand))
    BY <1>1, RequestStartsFields
  <2> QED BY <1>1, <2>1, RequestStartsFields DEF RequestStarts
<1>2. CASE RequestSaves
  BY <1>2, RequestSavesFields DEF RequestSaves
<1>3. CASE RequestSucceeds
  BY <1>3, RequestSucceedsFields DEF RequestSucceeds, Agreed
<1>4. CASE RequestGivesUp
  BY <1>4, NoReqFields DEF RequestGivesUp, Agreed
<1>5. CASE RequestFails
  <2>1. PICK lost \in BOOLEAN :
          MarksBecome(hist.overlap, hist.raced, hist.lost \/ lost, hist.behind, hist.again)
    BY <1>5, RequestFailsFields
  <2> QED BY <1>5, <2>1, RequestFailsFields DEF RequestFails
<1>6. CASE RequestUndone
  BY <1>6, RequestUndoneFields DEF RequestUndone, Agreed
<1> QED BY <1>1, <1>2, <1>3, <1>4, <1>5, <1>6

LEMMA AckedStep == TypeInv /\ Agreed /\ Acked /\ [Next \/ Rest]_vars => Acked'
<1>1. TypeInv /\ Agreed /\ Acked /\ Next => Acked'
  BY BootstrapAcked, InstallAcked, DashboardAcked, RequestAcked DEF Next
<1>2. Acked /\ UNCHANGED vars => Acked'
  BY DEF vars, Acked
<1> QED BY <1>1, <1>2 DEF Rest
-----------------------------------------------------------------------------
(***************************************************************************)
(* Until a first token is set, nothing but the installer and prepare has   *)
(* been at work, and the proxies, once saved, are those the first run      *)
(* found: so a run after one that failed imports nothing else.             *)
(***************************************************************************)
First ==
  hist.token = 0 =>
    /\ ~hist.again
    /\ prep \subseteq {Found.proxies} /\ list \in {setup.list, FormatList(Found.proxies)}
    /\ IF Detected(st) THEN st.proxies = Found.proxies ELSE st.proxies = <<>> /\ list = setup.list
    /\ Saving => inst.loc.proxies = IF Detected(st) \/ inst.pc = "save" THEN Found.proxies ELSE <<>>
    /\ inst.pc = "lists" => inst.loc.proxies = Found.proxies

LEMMA InitFirst == Init => First
BY NewStateType DEF Init, First, Idle, HistInit, Saving, Detected

LEMMA FormatEmpty == FormatList(<<>>) = <<>>
<1>1. <<>> \in Seq(Proxy)
  OBVIOUS
<1> QED BY <1>1, FormatListEntries

\* An empty list imports nothing.
LEMMA FoundEmpty ==
  ASSUME TypeInv, setup.list = <<>>
  PROVE  Found.proxies = <<>>
<1> DEFINE c == Imported(NewState, <<>>, setup.services)
<1>1. c \in State(setup.routes) /\ \A i \in DOMAIN c.proxies : FromSetup(c.proxies[i], <<>>, setup.services)
  <2>1. <<>> \in Seq(ListEntry) /\ NewState \in State(setup.routes)
    BY NewStateType
  <2> HIDE DEF NewState
  <2> QED BY <2>1, TypeFacts, SetupType, ImportedState
<1>2. Found = c
  BY DEF Found
<1> HIDE DEF c
<1>3. DOMAIN c.proxies = {}
  BY <1>1 DEF FromSetup
<1>4. c.proxies \in Seq(Proxy)
  BY <1>1, TypeFacts, StateType
<1>5. \A s \in Seq(Proxy) : DOMAIN s = {} => s = <<>>
  <2>1. \A s \in Seq(Proxy) : DOMAIN s = 1..Len(s) /\ Len(s) \in Nat
    OBVIOUS
  <2>2. \A s \in Seq(Proxy) : DOMAIN s = {} => Len(s) = 0
    BY <2>1
  <2> QED BY <2>2
<1> QED BY <1>2, <1>3, <1>4, <1>5

\* What is imported while there is no token is what the first run found.
LEMMA ImportsFound ==
  ASSUME TypeInv, First, hist.token = 0, inst.loc.proxies = <<>>, list # <<>>, Saving,
         inst.pc # "save"
  PROVE  list = setup.list
BY FormatEmpty DEF First

LEMMA SetupKept == ASSUME [Next \/ Rest]_vars PROVE setup' = setup
BY DEF Next, Rest, vars, BootLoad, Detect, ProbeAdd, ProbeEnd, Import, BootSave, BootLists,
   StopDashboard, EngineStarts, PrepareWrites, RestartEngine, RepairStarts, RepairEnds, RotateToken,
   SetToken, StartDashboard, Fail, RotateByHand, DashboardDies, RequestStarts, RequestSaves,
   RequestSucceeds, RequestGivesUp, RequestFails, RequestUndone, ScanLoads, ScanSaves, ScanWrites

LEMMA FoundKept == ASSUME setup' = setup PROVE Found' = Found
BY DEF Found

LEMMA BootstrapFirst ==
  ASSUME TypeInv, Flow, First, setup' = setup, Found' = Found,
         BootLoad \/ Detect \/ ProbeAdd \/ ProbeEnd \/ Import \/ BootSave \/ BootLists
  PROVE  First'
<1> USE DEF At, InstAt, InstBecomes, HistKept, HistBecomes, MarksBecome, First, Saving, Detected
<1> HIDE DEF Found
<1>1. CASE BootLoad
  BY <1>1, BootLoadFields DEF BootLoad
<1>2. CASE Detect
  <2>1. inst'.pc = "probe" /\ inst'.loc.proxies = inst.loc.proxies
    BY <1>2, DetectFields
  <2> QED BY <1>2, <2>1 DEF Detect
<1>3. CASE ProbeAdd
  BY <1>3, ProbeAddFields DEF ProbeAdd
<1>4. CASE ProbeEnd
  <2>1. inst'.pc \in {"import", "failed"} /\ inst'.loc = inst.loc
    BY <1>4, ProbeEndFields
  <2> QED BY <1>4, <2>1 DEF ProbeEnd
<1>5. CASE Import
  <2>1. /\ hist'.token = hist.token
        /\ hist'.again = (hist.again \/ (hist.token # 0 /\ inst'.loc # inst.loc))
    BY <1>5, ImportFields
  <2>2. inst.pc = "import" /\ UNCHANGED <<st, list, prep>>
    BY <1>5 DEF Import
  <2>3. ASSUME hist.token = 0, inst'.pc # "failed"
        PROVE  inst'.pc = "save" /\ inst'.loc.proxies = Found.proxies
    <3>1. CASE inst'.loc = inst.loc /\ inst'.pc = "save" /\ (~MayImport(inst.loc) \/ list = <<>>)
      BY <2>2, <2>3, <3>1, FoundEmpty DEF MayImport
    <3>2. CASE /\ inst.loc.proxies = <<>> /\ list # <<>> /\ inst'.pc = "save"
               /\ inst'.loc = Imported(inst.loc, list, setup.services)
      <4>1. list = setup.list
        BY <2>2, <2>3, <3>2, ImportsFound
      <4>2. Imported(inst.loc, list, setup.services).proxies
              = Imported(NewState, list, setup.services).proxies
        BY TypeFacts, SetupType, ImportedState
      <4> QED BY <3>2, <4>1, <4>2 DEF Found
    <3> QED BY <1>5, <2>3, <3>1, <3>2, ImportFields
  <2>4. inst'.pc \in {"save", "failed"}
    BY <1>5, ImportFields
  <2> QED BY <2>1, <2>2, <2>3, <2>4
<1>6. CASE BootSave
  BY <1>6, BootSaveFields DEF BootSave, Flow
<1>7. CASE BootLists
  BY <1>7, BootListsFields DEF BootLists, Flow
<1> QED BY <1>1, <1>2, <1>3, <1>4, <1>5, <1>6, <1>7

LEMMA InstallFirst ==
  ASSUME TypeInv, Flow, First, setup' = setup, Found' = Found,
         \/ StopDashboard \/ RestartEngine \/ RepairStarts \/ RepairEnds \/ StartDashboard \/ Fail
  PROVE  First'
<1> USE DEF At, InstAt, InstBecomes, HistKept, HistBecomes, MarksBecome, First, Saving, Detected
<1> HIDE DEF Found
<1>1. CASE StopDashboard
  <2>1. inst'.pc = "restart" /\ UNCHANGED <<st, list, prep>>
    BY <1>1, GotoFields DEF StopDashboard, Steps
  <2>2. hist'.token = hist.token /\ hist'.again = hist.again
    BY <1>1, KilledFields DEF StopDashboard
  <2> QED BY <2>1, <2>2
<1>2. CASE RestartEngine
  <2>1. inst'.pc \in {"repair", "failed"}
    BY <1>2, GotoFields DEF RestartEngine, Steps
  <2>2. /\ list' = list \/ list' = FormatList(st.proxies)
        /\ prep' = {} /\ UNCHANGED <<st, hist>> /\ inst.pc = "restart"
    BY <1>2 DEF RestartEngine
  <2> QED BY <2>1, <2>2 DEF Flow
<1>3. CASE RepairStarts
  BY <1>3, RepairStartsFields DEF RepairStarts, Flow
<1>4. CASE RepairEnds
  <2>1. inst'.pc \in {"rotate", "failed"}
    BY <1>4, GotoFields DEF RepairEnds, Steps
  <2>2. /\ list' = list \/ list' = FormatList(inst.loc.proxies)
        /\ st' = st \/ st' = inst.loc
        /\ prep' = prep \/ prep' = {}
        /\ UNCHANGED hist /\ inst.pc = "repairing"
    BY <1>4 DEF RepairEnds
  <2> QED BY <2>1, <2>2 DEF Flow
<1>5. CASE StartDashboard
  BY <1>5, KilledFields DEF StartDashboard, Flow
<1>6. CASE Fail
  BY <1>6, GotoFields DEF Fail, Steps
<1> QED BY <1>1, <1>2, <1>3, <1>4, <1>5, <1>6

LEMMA DashboardFirst ==
  ASSUME TypeInv, Flow, First, setup' = setup, Found' = Found,
         \/ RotateToken \/ RotateByHand \/ EngineStarts \/ PrepareWrites \/ DashboardDies
         \/ ScanLoads \/ ScanSaves \/ ScanWrites
         \/ RequestStarts \/ RequestSaves \/ RequestSucceeds \/ RequestGivesUp
         \/ RequestFails \/ RequestUndone
  PROVE  First'
<1> USE DEF HistKept, HistBecomes, MarksBecome, First, Saving, Detected
<1> HIDE DEF Found
<1>1. CASE RotateToken \/ RotateByHand
  <2>1. hist'.token # 0
    BY <1>1, RotationFields, TypeFacts DEF HistRecord
  <2> QED BY <2>1
<1>2. CASE EngineStarts
  BY <1>2 DEF EngineStarts
<1>3. CASE PrepareWrites
  <2>1. PICK proxies \in prep : list' = FormatList(proxies)
    BY <1>3, PrepareWritesFields
  <2> QED BY <1>3, <2>1, PrepareWritesFields DEF PrepareWrites, Flow
<1>4. CASE /\ hist.token # 0
           /\ ~(RotateToken \/ RotateByHand \/ EngineStarts \/ PrepareWrites)
  <2>1. \/ DashboardDies \/ ScanLoads \/ ScanSaves \/ ScanWrites
        \/ RequestStarts \/ RequestSaves \/ RequestSucceeds \/ RequestGivesUp
        \/ RequestFails \/ RequestUndone
    BY <1>4
  <2>2. hist'.token = hist.token
    BY <2>1, KilledFields, ScanLoadsFields, ScanWritesFields, RequestStartsFields,
       RequestSucceedsFields, RequestFailsFields, RequestUndoneFields
       DEF DashboardDies, ScanSaves, RequestSaves, RequestGivesUp
  <2> QED BY <1>4, <2>2
<1>5. CASE /\ hist.token = 0
           /\ ~(RotateToken \/ RotateByHand \/ EngineStarts \/ PrepareWrites)
  <2>1. dash
    BY <1>5 DEF DashboardDies, ScanLoads, ScanSaves, ScanWrites, RequestStarts, RequestSaves,
       RequestSucceeds, RequestGivesUp, RequestFails, RequestUndone, Flow
  <2> QED BY <1>5, <2>1 DEF Flow
<1> QED BY <1>1, <1>2, <1>3, <1>4, <1>5

LEMMA FirstStep == TypeInv /\ Flow /\ First /\ [Next \/ Rest]_vars => First'
<1>1. ASSUME [Next \/ Rest]_vars PROVE setup' = setup /\ Found' = Found
  BY <1>1, SetupKept, FoundKept
<1>2. ASSUME TypeInv, Flow, First, Next PROVE First'
  BY <1>1, <1>2, BootstrapFirst, InstallFirst, DashboardFirst DEF Next
<1>3. ASSUME First, UNCHANGED vars PROVE First'
  BY <1>1, <1>3 DEF vars, First, Saving, Detected
<1> QED BY <1>2, <1>3 DEF Rest
-----------------------------------------------------------------------------
(***************************************************************************)
(* Every copy of the state is sound: nothing is shared, nothing stops      *)
(* rendering, and no port is above the next one to be handed out.          *)
(***************************************************************************)
Safe(again, s) == Sound(Found.proxies, CanonicalSetup, again, s)
Good == \A s \in Held : Safe(hist.again, s)

LEMMA SoundLater ==
  ASSUME NEW found, NEW canon, NEW again \in BOOLEAN, NEW later \in BOOLEAN, again => later,
         NEW s, NEW t, Sound(found, canon, again, s),
         t.proxies = s.proxies, t.nextPort = s.nextPort
  PROVE  Sound(found, canon, later, t)
BY DEF Sound

LEMMA SafeLater ==
  ASSUME NEW again \in BOOLEAN, NEW later \in BOOLEAN, again => later,
         NEW s, NEW t, Safe(again, s), t.proxies = s.proxies, t.nextPort = s.nextPort
  PROVE  Safe(later, t)
BY SoundLater DEF Safe

LEMMA SafeNew == ASSUME NEW again \in BOOLEAN PROVE Safe(again, NewState)
<1>1. NewState.proxies = <<>>
  BY DEF NewState
<1> HIDE DEF NewState
<1> QED BY <1>1 DEF Safe, Sound, Apart, Renders, EnabledIn

LEMMA InitGood == Init => Good
<1> SUFFICES ASSUME Init PROVE Good
  OBVIOUS
<1>1. st = NewState /\ inst.loc = NewState /\ req.orig = NewState /\ req.cand = NewState
  BY DEF Init, Idle, NoReq
<1>2. hist.again = FALSE
  BY DEF Init, HistInit
<1>3. Safe(hist.again, NewState)
  BY <1>2, SafeNew
<1> QED BY <1>1, <1>3 DEF Good, Held

LEMMA GoodKept ==
  ASSUME setup' = setup, Safe(hist'.again, st'), Safe(hist'.again, inst'.loc),
         Safe(hist'.again, req'.orig), Safe(hist'.again, req'.cand)
  PROVE  Good'
<1>1. Found' = Found /\ CanonicalSetup' = CanonicalSetup
  BY DEF Found, CanonicalSetup
<1>2. \A s \in Held' : Safe(hist'.again, s)
  BY DEF Held
<1> QED BY <1>1, <1>2 DEF Good, Safe

\* The facts of Good in the form in which the steps use them.
LEMMA GoodFacts ==
  ASSUME TypeInv, Good
  PROVE  /\ Safe(hist.again, st) /\ Safe(hist.again, inst.loc)
         /\ Safe(hist.again, req.orig) /\ Safe(hist.again, req.cand)
         /\ hist.again \in BOOLEAN
BY DEF TypeInv, HistRecord, Good, Held

LEMMA GoodImport ==
  ASSUME TypeInv, First, Good, Import
  PROVE  Good'
<1> USE GoodFacts DEF At
<1> DEFINE c == Imported(inst.loc, list, setup.services)
<1>1. /\ hist'.again \in BOOLEAN /\ UNCHANGED <<setup, st, req>>
      /\ hist'.again = (hist.again \/ (hist.token # 0 /\ inst'.loc # inst.loc))
  BY ImportFields DEF Import, HistKept, HistBecomes, MarksBecome, HistRecord
<1>2. Safe(hist'.again, st) /\ Safe(hist'.again, req.orig) /\ Safe(hist'.again, req.cand)
  BY <1>1, SafeLater
<1>3. Safe(hist'.again, inst'.loc)
  <2>1. CASE inst'.loc = inst.loc
    BY <1>1, <2>1, SafeLater
  <2>2. CASE inst'.loc # inst.loc
    <3>1. /\ inst'.loc = c /\ inst.loc.proxies = <<>> /\ list # <<>>
          /\ Saving /\ inst.pc = "import"
      BY <2>2, ImportFields DEF InstAt, InstBecomes, Import, Saving
    <3>2. /\ \A i \in DOMAIN c.proxies :
               c.proxies[i].port < c.nextPort /\ FromSetup(c.proxies[i], list, setup.services)
          /\ c.proxies = Imported(NewState, list, setup.services).proxies
          /\ c \in State(setup.routes)
      BY TypeFacts, SetupType, ImportedState
    <3>3. c.proxies \in Seq(Proxy)
      BY <3>2, TypeFacts, StateType
    <3> HIDE DEF c
    <3>4. ASSUME ~hist'.again PROVE c.proxies = Found.proxies
      <4>1. hist.token = 0
        BY <1>1, <2>2, <3>4
      <4>2. list = setup.list
        BY <3>1, <4>1, ImportsFound
      <4> QED BY <3>2, <4>2 DEF Found
    <3>5. CanonicalSetup \in BOOLEAN
      BY DEF CanonicalSetup
    <3>6. CanonicalSetup => \A port \in DOMAIN setup.services : setup.services[port].canonical
      BY DEF CanonicalSetup
    <3> HIDE DEF CanonicalSetup, Found
    <3>7. Sound(Found.proxies, CanonicalSetup, hist'.again, c)
      BY <1>1, <3>2, <3>3, <3>4, <3>5, <3>6, SoundImported
    <3> QED BY <3>1, <3>7 DEF Safe
  <2> QED BY <2>1, <2>2
<1> QED BY <1>1, <1>2, <1>3, GoodKept

LEMMA BootstrapGood ==
  ASSUME TypeInv, First, Good,
         BootLoad \/ Detect \/ ProbeAdd \/ ProbeEnd \/ Import \/ BootSave \/ BootLists
  PROVE  Good'
<1> USE GoodFacts DEF InstAt, InstBecomes, MarksBecome
<1>1. CASE BootLoad
  BY <1>1, BootLoadFields, GoodKept DEF BootLoad
<1>2. CASE Detect
  <2>1. inst'.loc.proxies = inst.loc.proxies /\ inst'.loc.nextPort = inst.loc.nextPort
    BY <1>2, DetectFields
  <2>2. Safe(hist.again, inst'.loc)
    BY <2>1, SafeLater
  <2> QED BY <1>2, <2>2, GoodKept DEF Detect
<1>3. CASE ProbeAdd
  BY <1>3, ProbeAddFields, GoodKept DEF ProbeAdd
<1>4. CASE ProbeEnd
  <2>1. inst'.loc = inst.loc
    BY <1>4, ProbeEndFields
  <2> QED BY <1>4, <2>1, GoodKept DEF ProbeEnd
<1>5. CASE Import
  BY <1>5, GoodImport
<1>6. CASE BootSave
  BY <1>6, BootSaveFields, GoodKept DEF BootSave
<1>7. CASE BootLists
  BY <1>7, BootListsFields, GoodKept DEF BootLists
<1> QED BY <1>1, <1>2, <1>3, <1>4, <1>5, <1>6, <1>7

LEMMA InstallGood ==
  ASSUME TypeInv, Good,
         \/ StopDashboard \/ RestartEngine \/ RepairStarts \/ RepairEnds \/ StartDashboard \/ Fail
  PROVE  Good'
<1> USE GoodFacts DEF InstAt, InstBecomes, MarksBecome, ReqEnds, ReqBecomes
<1>1. CASE StopDashboard
  <2>1. inst'.loc = inst.loc /\ UNCHANGED <<setup, st>>
    BY <1>1, GotoFields DEF StopDashboard, Steps
  <2>2. CASE Killed
    BY <2>1, <2>2, KilledFields, SafeNew, GoodKept
  <2>3. CASE UNCHANGED <<dash, req, late, hist>>
    BY <2>1, <2>3, GoodKept
  <2> QED BY <1>1, <2>2, <2>3 DEF StopDashboard
<1>2. CASE RestartEngine \/ Fail
  <2>1. inst'.loc = inst.loc
    BY <1>2, GotoFields DEF RestartEngine, Fail, Steps
  <2> QED BY <1>2, <2>1, GoodKept DEF RestartEngine, Fail
<1>3. CASE RepairStarts
  BY <1>3, RepairStartsFields, GoodKept DEF RepairStarts
<1>4. CASE RepairEnds
  <2>1. inst'.loc = inst.loc
    BY <1>4, GotoFields DEF RepairEnds, Steps
  <2>2. (st' = st \/ st' = inst.loc) /\ UNCHANGED <<setup, req, hist>>
    BY <1>4 DEF RepairEnds
  <2> QED BY <2>1, <2>2, GoodKept
<1>5. CASE StartDashboard
  <2>1. inst'.loc = inst.loc
    BY <1>5, GotoFields DEF StartDashboard, Steps
  <2> QED BY <1>5, <2>1, KilledFields, SafeNew, GoodKept DEF StartDashboard
<1> QED BY <1>1, <1>2, <1>3, <1>4, <1>5

LEMMA DashboardGood ==
  ASSUME TypeInv, Good,
         \/ RotateToken \/ RotateByHand \/ EngineStarts \/ PrepareWrites \/ DashboardDies
         \/ ScanLoads \/ ScanSaves \/ ScanWrites
  PROVE  Good'
<1> USE GoodFacts DEF MarksBecome, ReqEnds, ReqBecomes
<1>1. CASE RotateToken \/ RotateByHand
  <2>1. /\ SetToken /\ hist'.again = hist.again /\ inst'.loc = inst.loc
    BY <1>1, RotationFields DEF InstAt, InstBecomes
  <2>2. st'.proxies = st.proxies /\ st'.nextPort = st.nextPort
    BY <2>1, TokenFields
  <2>3. Safe(hist.again, st')
    BY <2>2, SafeLater
  <2> QED BY <2>1, <2>3, GoodKept DEF SetToken
<1>2. CASE EngineStarts
  BY <1>2, GoodKept DEF EngineStarts
<1>3. CASE PrepareWrites
  <2>1. hist'.again = hist.again
    BY <1>3, PrepareWritesFields
  <2> QED BY <1>3, <2>1, GoodKept DEF PrepareWrites
<1>4. CASE DashboardDies
  BY <1>4, KilledFields, SafeNew, GoodKept DEF DashboardDies
<1>5. CASE ScanLoads
  BY <1>5, ScanLoadsFields, GoodKept DEF ScanLoads
<1>6. CASE ScanSaves
  BY <1>6, NoReqFields, SafeNew, GoodKept DEF ScanSaves
<1>7. CASE ScanWrites
  <2>1. hist'.again = hist.again
    BY <1>7, ScanWritesFields
  <2> QED BY <1>7, <2>1, GoodKept DEF ScanWrites
<1> QED BY <1>1, <1>2, <1>3, <1>4, <1>5, <1>6, <1>7

\* A candidate is as sound as the state it is made of.
LEMMA CandidateSafe ==
  ASSUME TypeInv, Good, NEW cand, Derived(setup.routes, st, cand), Renders(cand.proxies)
  PROVE  Safe(hist.again, cand)
<1>1. CanonicalSetup \in BOOLEAN
  BY DEF CanonicalSetup
<1> HIDE DEF CanonicalSetup
<1> QED BY <1>1, GoodFacts, TypeFacts, SoundDerived DEF Safe

LEMMA RequestGood ==
  ASSUME TypeInv, Good, \/ RequestStarts \/ RequestSaves \/ RequestSucceeds \/ RequestGivesUp
                        \/ RequestFails \/ RequestUndone
  PROVE  Good'
<1> USE GoodFacts DEF MarksBecome, ReqEnds, ReqBecomes
<1>1. CASE RequestStarts
  <2>1. PICK cand \in Candidates :
          /\ Derived(setup.routes, st, cand) /\ Renders(cand.proxies)
          /\ ReqEnds \/ ReqBecomes("save", st, cand, Added(cand))
    BY <1>1, RequestStartsFields
  <2>2. hist'.again = hist.again
    BY <1>1, RequestStartsFields
  <2>3. Safe(hist.again, cand)
    BY <2>1, CandidateSafe
  <2> QED BY <1>1, <2>1, <2>2, <2>3, SafeNew, GoodKept DEF RequestStarts
<1>2. CASE RequestSaves
  BY <1>2, RequestSavesFields, GoodKept DEF RequestSaves
<1>3. CASE RequestSucceeds
  BY <1>3, RequestSucceedsFields, SafeNew, GoodKept DEF RequestSucceeds
<1>4. CASE RequestGivesUp
  BY <1>4, NoReqFields, SafeNew, GoodKept DEF RequestGivesUp
<1>5. CASE RequestFails
  <2>1. hist'.again = hist.again /\ (st' = st \/ st' = req.orig)
    BY <1>5, RequestFailsFields DEF RequestFails
  <2> QED BY <1>5, <2>1, RequestFailsFields, GoodKept DEF RequestFails
<1>6. CASE RequestUndone
  BY <1>6, RequestUndoneFields, SafeNew, GoodKept DEF RequestUndone
<1> QED BY <1>1, <1>2, <1>3, <1>4, <1>5, <1>6

LEMMA GoodStep == TypeInv /\ First /\ Good /\ [Next \/ Rest]_vars => Good'
<1>1. TypeInv /\ First /\ Good /\ Next => Good'
  BY BootstrapGood, InstallGood, DashboardGood, RequestGood DEF Next
<1>2. TypeInv /\ Good /\ UNCHANGED vars => Good'
  BY GoodFacts, GoodKept DEF vars
<1> QED BY <1>1, <1>2 DEF Rest
-----------------------------------------------------------------------------
(***************************************************************************)
(* The text list.  Once there is a token, it lists what is saved, unless a *)
(* request has yet to write it: so a later bootstrap has nothing to import *)
(* when there are no proxies.                                              *)
(***************************************************************************)
Synced ==
  ~hist.overlap /\ ~hist.behind =>
    /\ ~hist.again
    /\ (hist.token # 0 \/ inst.pc = "rotate") /\ AtRest => list = FormatList(st.proxies)

LEMMA InitSynced == Init => Synced
BY DEF Init, Synced, HistInit, Idle

LEMMA BootstrapSynced ==
  ASSUME TypeInv, Agreed, Synced,
         BootLoad \/ Detect \/ ProbeAdd \/ ProbeEnd \/ Import \/ BootSave \/ BootLists
  PROVE  Synced'
<1> USE DEF InstAt, InstBecomes, HistKept, HistBecomes, MarksBecome, Synced, AtRest, Differs
<1>1. CASE BootLoad
  <2>1. /\ inst'.pc # "rotate" /\ UNCHANGED <<list, st, req>>
        /\ HistKept /\ MarksBecome(hist.overlap \/ req.pc # "none", hist.raced, hist.lost,
                                   hist.behind, hist.again)
    BY <1>1, BootLoadFields DEF BootLoad
  <2> QED BY <2>1
<1>2. CASE Detect \/ ProbeEnd
  <2>1. inst'.pc # "rotate" /\ UNCHANGED <<list, st, req, hist>>
    BY <1>2, DetectFields, ProbeEndFields DEF Detect, ProbeEnd
  <2> QED BY <2>1
<1>3. CASE ProbeAdd
  BY <1>3, ProbeAddFields DEF ProbeAdd
<1>4. CASE Import
  <2>1. /\ hist'.token = hist.token /\ hist'.overlap = hist.overlap /\ hist'.behind = hist.behind
        /\ hist'.again = (hist.again \/ (hist.token # 0 /\ inst'.loc # inst.loc))
        /\ inst'.pc # "rotate" /\ Saving /\ UNCHANGED <<list, st, req>>
    BY <1>4, ImportFields DEF Import, At, Saving
  <2>2. inst'.loc = inst.loc \/ (inst.loc.proxies = <<>> /\ list # <<>>)
    BY <1>4, ImportFields
  <2>3. ASSUME ~hist.overlap, ~hist.behind, hist.token # 0 PROVE inst'.loc = inst.loc
    <3>1. req.pc = "none" /\ inst.loc.proxies = st.proxies /\ list = FormatList(st.proxies)
      BY <2>1, <2>3 DEF Agreed
    <3> QED BY <2>2, <3>1, FormatEmpty
  <2> QED BY <2>1, <2>3
<1>5. CASE BootSave
  <2>1. Saving
    BY <1>5 DEF BootSave, At, Saving
  <2> QED BY <1>5, <2>1, BootSaveFields DEF BootSave, Agreed
<1>6. CASE BootLists
  BY <1>6, BootListsFields DEF BootLists
<1> QED BY <1>1, <1>2, <1>3, <1>4, <1>5, <1>6

LEMMA InstallSynced ==
  ASSUME TypeInv, Agreed, Synced,
         \/ StopDashboard \/ RestartEngine \/ RepairStarts \/ RepairEnds \/ StartDashboard \/ Fail
  PROVE  Synced'
<1> USE DEF InstAt, InstBecomes, HistKept, HistBecomes, MarksBecome, ReqEnds, ReqBecomes,
            Synced, AtRest, Differs
<1>1. CASE StopDashboard
  <2>1. inst'.pc = "restart" /\ UNCHANGED <<st, list>>
    BY <1>1, GotoFields DEF StopDashboard, Steps
  <2>2. CASE Killed
    BY <2>1, <2>2, KilledFields
  <2>3. CASE UNCHANGED <<dash, req, late, hist>>
    BY <2>1, <2>3
  <2> QED BY <1>1, <2>2, <2>3 DEF StopDashboard
<1>2. CASE RestartEngine
  <2>1. inst'.pc \in {"repair", "failed"}
    BY <1>2, GotoFields DEF RestartEngine, Steps
  <2> QED BY <1>2, <2>1 DEF RestartEngine
<1>3. CASE RepairStarts
  BY <1>3, RepairStartsFields DEF RepairStarts
<1>4. CASE RepairEnds
  <2>1. /\ \/ inst'.pc = "rotate" /\ st' = inst.loc /\ list' = FormatList(inst.loc.proxies)
           \/ /\ inst'.pc = "failed" /\ (st' = st \/ st' = inst.loc)
              /\ list' = list \/ list' = FormatList(inst.loc.proxies)
        /\ UNCHANGED <<req, hist>> /\ inst.pc = "repairing"
    BY <1>4, GotoFields DEF RepairEnds, Steps, At
  <2> QED BY <2>1 DEF Agreed
<1>5. CASE StartDashboard
  BY <1>5, KilledFields DEF StartDashboard
<1>6. CASE Fail
  BY <1>6, GotoFields DEF Fail, Steps
<1> QED BY <1>1, <1>2, <1>3, <1>4, <1>5, <1>6

LEMMA DashboardSynced ==
  ASSUME TypeInv, Flow, Agreed, Synced,
         \/ RotateToken \/ RotateByHand \/ EngineStarts \/ PrepareWrites \/ DashboardDies
         \/ ScanLoads \/ ScanSaves \/ ScanWrites
  PROVE  Synced'
<1> USE DEF HistKept, HistBecomes, MarksBecome, ReqEnds, ReqBecomes, Synced, AtRest, Differs
<1>1. CASE RotateToken \/ RotateByHand
  <2>1. /\ SetToken /\ hist'.behind = hist.behind /\ hist'.again = hist.again
        /\ hist'.overlap = (hist.overlap \/ ~Quiet)
        /\ hist.token # 0 \/ inst.pc = "rotate"
    BY <1>1, RotationFields DEF Flow
  <2> QED BY <2>1, TokenFields DEF SetToken
<1>2. CASE EngineStarts
  BY <1>2 DEF EngineStarts
<1>3. CASE PrepareWrites
  BY <1>3, PrepareWritesFields DEF PrepareWrites
<1>4. CASE DashboardDies
  BY <1>4, KilledFields DEF DashboardDies
<1>5. CASE ScanLoads
  BY <1>5, ScanLoadsFields DEF ScanLoads
<1>6. CASE ScanSaves
  BY <1>6, NoReqFields DEF ScanSaves, Agreed
<1>7. CASE ScanWrites
  BY <1>7, ScanWritesFields DEF ScanWrites
<1> QED BY <1>1, <1>2, <1>3, <1>4, <1>5, <1>6, <1>7

LEMMA RequestSynced ==
  ASSUME TypeInv, Agreed, Synced, \/ RequestStarts \/ RequestSaves \/ RequestSucceeds
                                  \/ RequestGivesUp \/ RequestFails \/ RequestUndone
  PROVE  Synced'
<1> USE DEF HistKept, HistBecomes, MarksBecome, ReqEnds, ReqBecomes, Synced, AtRest, Differs
<1>1. CASE RequestStarts
  <2>1. PICK cand \in Candidates : ReqEnds \/ ReqBecomes("save", st, cand, Added(cand))
    BY <1>1, RequestStartsFields
  <2> QED BY <1>1, <2>1, RequestStartsFields DEF RequestStarts
<1>2. CASE RequestSaves
  BY <1>2, RequestSavesFields DEF RequestSaves
<1>3. CASE RequestSucceeds
  BY <1>3, RequestSucceedsFields DEF RequestSucceeds, Agreed
<1>4. CASE RequestGivesUp
  BY <1>4, NoReqFields DEF RequestGivesUp
<1>5. CASE RequestFails
  <2>1. PICK lost \in BOOLEAN :
          MarksBecome(hist.overlap, hist.raced, hist.lost \/ lost, hist.behind, hist.again)
    BY <1>5, RequestFailsFields
  <2> QED BY <1>5, <2>1, RequestFailsFields DEF RequestFails
<1>6. CASE RequestUndone
  BY <1>6, RequestUndoneFields DEF RequestUndone
<1> QED BY <1>1, <1>2, <1>3, <1>4, <1>5, <1>6

LEMMA SyncedStep == TypeInv /\ Flow /\ Agreed /\ Synced /\ [Next \/ Rest]_vars => Synced'
<1>1. TypeInv /\ Flow /\ Agreed /\ Synced /\ Next => Synced'
  BY BootstrapSynced, InstallSynced, DashboardSynced, RequestSynced DEF Next
<1>2. Synced /\ UNCHANGED vars => Synced'
  BY DEF vars, Synced, AtRest
<1> QED BY <1>1, <1>2 DEF Rest
-----------------------------------------------------------------------------
(***************************************************************************)
(* Ports.  Every port ever acknowledged is below the next port, in every   *)
(* copy of the state that may be saved.                                    *)
(***************************************************************************)
Below(ports, s) == \A port \in ports : port < s.nextPort

Handed ==
  ~hist.overlap =>
    /\ Below(hist.given, st)
    /\ Saving => Below(hist.given, inst.loc)
    /\ req.pc # "none" => Below(hist.given, req.orig) /\ Below(hist.given, req.cand)

LEMMA InitHanded == Init => Handed
BY DEF Init, Handed, Below, HistInit

LEMMA BelowLater ==
  ASSUME NEW ports \in SUBSET Port, NEW s, s.nextPort \in Nat, NEW t, t.nextPort \in Nat,
         s.nextPort <= t.nextPort, Below(ports, s)
  PROVE  Below(ports, t)
<1>1. \A port \in ports : port \in Nat
  BY AllocationAssumption DEF Port
<1> QED BY <1>1 DEF Below

LEMMA BelowAlike ==
  ASSUME NEW ports, NEW s, NEW t, s.nextPort = t.nextPort, Below(ports, s)
  PROVE  Below(ports, t)
BY DEF Below

LEMMA BelowOwn ==
  ASSUME NEW ports, NEW s, NEW again, Safe(again, s), Below(ports, s)
  PROVE  Below(ports \union Ports(s.proxies), s)
BY DEF Safe, Sound, Below, Ports

LEMMA BootstrapHanded ==
  ASSUME TypeInv, Agreed, Good, Handed,
         BootLoad \/ Detect \/ ProbeAdd \/ ProbeEnd \/ Import \/ BootSave \/ BootLists
  PROVE  Handed'
<1> USE DEF InstAt, InstBecomes, HistKept, HistBecomes, MarksBecome, Handed, At
<1>0. hist.given \in SUBSET Port
  BY DEF TypeInv, HistRecord
<1>1. CASE BootLoad
  BY <1>1, BootLoadFields DEF BootLoad
<1>2. CASE Detect
  <2>1. inst'.loc.nextPort = inst.loc.nextPort
    BY <1>2, DetectFields
  <2>2. Below(hist.given, inst.loc) => Below(hist.given, inst'.loc)
    BY <2>1, BelowAlike
  <2> QED BY <1>2, <2>2 DEF Detect, Saving
<1>3. CASE ProbeAdd
  BY <1>3, ProbeAddFields DEF ProbeAdd, Saving
<1>4. CASE ProbeEnd
  <2>1. inst'.loc = inst.loc
    BY <1>4, ProbeEndFields
  <2> QED BY <1>4, <2>1 DEF ProbeEnd, Saving
<1>5. CASE Import
  <2> DEFINE c == Imported(inst.loc, list, setup.services)
  <2>1. inst.loc.nextPort <= c.nextPort /\ c \in State(setup.routes)
    BY TypeFacts, SetupType, ImportedState
  <2> HIDE DEF c
  <2>2. c.nextPort \in Nat /\ inst.loc.nextPort \in Nat
    BY <2>1, TypeFacts, StateType
  <2>3. Below(hist.given, inst.loc) => Below(hist.given, c)
    BY <1>0, <2>1, <2>2, BelowLater
  <2>4. /\ inst'.loc = inst.loc \/ inst'.loc = c
        /\ hist'.overlap = hist.overlap /\ hist'.given = hist.given
    BY <1>5, ImportFields DEF c
  <2> QED BY <1>5, <2>3, <2>4 DEF Import, Saving
<1>6. CASE BootSave
  <2>1. /\ hist'.given = hist.given \union Ports(inst.loc.proxies)
        /\ hist'.overlap = hist.overlap /\ st' = inst.loc /\ req' = req
        /\ inst'.pc = "lists" /\ Saving
    BY <1>6, BootSaveFields DEF BootSave, Saving
  <2>2. Below(hist.given, inst.loc) =>
          Below(hist.given \union Ports(inst.loc.proxies), inst.loc)
    BY GoodFacts, BelowOwn
  <2> QED BY <2>1, <2>2 DEF Agreed, Saving
<1>7. CASE BootLists
  BY <1>7, BootListsFields DEF BootLists, Saving
<1> QED BY <1>1, <1>2, <1>3, <1>4, <1>5, <1>6, <1>7

LEMMA InstallHanded ==
  ASSUME TypeInv, Handed,
         \/ StopDashboard \/ RestartEngine \/ RepairStarts \/ RepairEnds \/ StartDashboard \/ Fail
  PROVE  Handed'
<1> USE DEF InstAt, InstBecomes, HistKept, HistBecomes, MarksBecome, ReqEnds, ReqBecomes, Handed,
            Saving, At
<1>1. CASE StopDashboard
  <2>1. inst'.pc = "restart" /\ UNCHANGED st
    BY <1>1, GotoFields DEF StopDashboard, Steps
  <2>2. CASE Killed
    BY <2>1, <2>2, KilledFields
  <2>3. CASE UNCHANGED <<dash, req, late, hist>>
    BY <2>1, <2>3
  <2> QED BY <1>1, <2>2, <2>3 DEF StopDashboard
<1>2. CASE RestartEngine \/ Fail
  <2>1. inst'.pc \in {"repair", "failed"} /\ UNCHANGED <<st, req, hist>>
    BY <1>2, GotoFields DEF RestartEngine, Fail, Steps
  <2> QED BY <2>1
<1>3. CASE RepairStarts
  BY <1>3, RepairStartsFields DEF RepairStarts
<1>4. CASE RepairEnds
  <2>1. /\ inst'.pc \in {"rotate", "failed"} /\ (st' = st \/ st' = inst.loc)
        /\ UNCHANGED <<req, hist>> /\ inst.pc = "repairing"
    BY <1>4, GotoFields DEF RepairEnds, Steps
  <2> QED BY <2>1
<1>5. CASE StartDashboard
  BY <1>5, KilledFields, GotoFields DEF StartDashboard, Steps
<1> QED BY <1>1, <1>2, <1>3, <1>4, <1>5

LEMMA DashboardHanded ==
  ASSUME TypeInv, Handed,
         \/ RotateToken \/ RotateByHand \/ EngineStarts \/ PrepareWrites \/ DashboardDies
         \/ ScanLoads \/ ScanSaves \/ ScanWrites
  PROVE  Handed'
<1> USE DEF HistKept, HistBecomes, MarksBecome, ReqEnds, ReqBecomes, Handed, Saving
<1>1. CASE RotateToken \/ RotateByHand
  <2>1. /\ SetToken /\ hist'.given = hist.given /\ hist'.overlap = (hist.overlap \/ ~Quiet)
        /\ inst'.loc = inst.loc /\ (Saving' => Saving)
    BY <1>1, RotationFields DEF InstAt, InstBecomes
  <2>2. st'.nextPort = st.nextPort /\ req' = req
    BY <2>1, TokenFields DEF SetToken
  <2>3. Below(hist.given, st) => Below(hist.given, st')
    BY <2>2, BelowAlike
  <2> QED BY <2>1, <2>2, <2>3
<1>2. CASE EngineStarts
  BY <1>2 DEF EngineStarts
<1>3. CASE PrepareWrites
  BY <1>3, PrepareWritesFields DEF PrepareWrites
<1>4. CASE DashboardDies
  BY <1>4, KilledFields DEF DashboardDies
<1>5. CASE ScanLoads
  BY <1>5, ScanLoadsFields DEF ScanLoads
<1>6. CASE ScanSaves
  BY <1>6, NoReqFields DEF ScanSaves
<1>7. CASE ScanWrites
  BY <1>7, ScanWritesFields DEF ScanWrites
<1> QED BY <1>1, <1>2, <1>3, <1>4, <1>5, <1>6, <1>7

LEMMA RequestHanded ==
  ASSUME TypeInv, Agreed, Good, Handed, \/ RequestStarts \/ RequestSaves \/ RequestSucceeds
                                        \/ RequestGivesUp \/ RequestFails \/ RequestUndone
  PROVE  Handed'
<1> USE DEF HistKept, HistBecomes, MarksBecome, ReqEnds, ReqBecomes, Handed, Saving
<1>0. hist.given \in SUBSET Port
  BY DEF TypeInv, HistRecord
<1>1. CASE RequestStarts
  <2>1. PICK cand \in Candidates :
          /\ Derived(setup.routes, st, cand)
          /\ ReqEnds \/ ReqBecomes("save", st, cand, Added(cand))
    BY <1>1, RequestStartsFields
  <2>2. hist'.given = hist.given /\ hist'.overlap = (hist.overlap \/ Saving)
    BY <1>1, RequestStartsFields
  <2>3. st.nextPort <= cand.nextPort /\ st.nextPort \in Nat /\ cand.nextPort \in Nat
    BY <2>1, TypeFacts, StateType DEF Derived
  <2>4. Below(hist.given, st) => Below(hist.given, cand)
    BY <1>0, <2>3, BelowLater
  <2> QED BY <1>1, <2>1, <2>2, <2>4 DEF RequestStarts
<1>2. CASE RequestSaves
  BY <1>2, RequestSavesFields DEF RequestSaves
<1>3. CASE RequestSucceeds
  <2>1. /\ hist'.given = hist.given \union Ports(req.cand.proxies) /\ hist'.overlap = hist.overlap
        /\ req'.pc = "none" /\ UNCHANGED <<st, inst>> /\ req.pc = "restart"
    BY <1>3, RequestSucceedsFields DEF RequestSucceeds
  <2>2. Below(hist.given, req.cand) =>
          Below(hist.given \union Ports(req.cand.proxies), req.cand)
    BY GoodFacts, BelowOwn
  <2> QED BY <2>1, <2>2 DEF Agreed
<1>4. CASE RequestGivesUp
  BY <1>4, NoReqFields DEF RequestGivesUp
<1>5. CASE RequestFails
  <2>1. PICK lost \in BOOLEAN :
          MarksBecome(hist.overlap, hist.raced, hist.lost \/ lost, hist.behind, hist.again)
    BY <1>5, RequestFailsFields
  <2>2. (st' = st \/ st' = req.orig) /\ UNCHANGED inst /\ req.pc # "none"
    BY <1>5 DEF RequestFails
  <2> QED BY <1>5, <2>1, <2>2, RequestFailsFields
<1>6. CASE RequestUndone
  BY <1>6, RequestUndoneFields DEF RequestUndone
<1> QED BY <1>1, <1>2, <1>3, <1>4, <1>5, <1>6

LEMMA HandedStep == TypeInv /\ Agreed /\ Good /\ Handed /\ [Next \/ Rest]_vars => Handed'
<1>1. TypeInv /\ Agreed /\ Good /\ Handed /\ Next => Handed'
  BY BootstrapHanded, InstallHanded, DashboardHanded, RequestHanded DEF Next
<1>2. Handed /\ UNCHANGED vars => Handed'
  BY DEF vars, Handed, Saving
<1> QED BY <1>1, <1>2 DEF Rest
-----------------------------------------------------------------------------
(***************************************************************************)
(* Addresses.  While the dashboard serves, and from the restart of the     *)
(* engine by the installer on, those of the enabled proxies are bound;     *)
(* those of a candidate are until its request is undone; and a request, or *)
(* repair, takes none of those that must stay for added.                   *)
(***************************************************************************)
Serving ==
  ~hist.overlap /\ ~hist.again /\ ~hist.lost /\ CanonicalSetup =>
    /\ (dash \/ inst.pc \in {"repair", "repairing", "rotate", "start"}) /\ req.pc = "none"
         => Bound(st) \subseteq addrs
    /\ inst.pc = "repairing" => inst.added \intersect Bound(st) = {}
    /\ req.pc # "none" => Bound(req.orig) \subseteq addrs \ req.added
    /\ req.pc \in {"save", "restart"} => Bound(req.cand) \subseteq addrs

LEMMA InitServing == Init => Serving
BY DEF Init, Serving, Idle, NoReq

\* The operators depend on nothing that changes.
SameBound ==
  /\ CanonicalSetup' = CanonicalSetup
  /\ Bound(st)' = Bound(st') /\ Bound(req.orig)' = Bound(req'.orig)
  /\ Bound(req.cand)' = Bound(req'.cand)

LEMMA BoundIsConstant == ASSUME setup' = setup PROVE SameBound
BY DEF SameBound, CanonicalSetup, Bound

\* A request or a scan that dies, wherever it stands, leaves what is saved bound.
LEMMA StaysBound ==
  ASSUME TypeInv, Agreed, Serving, dash \/ inst.pc = "start",
         ~hist.overlap, ~hist.again, ~hist.lost, CanonicalSetup
  PROVE  Bound(st) \subseteq addrs
<1> HIDE DEF CanonicalSetup, Bound
<1>1. req.pc \in {"none", "scan", "save", "restart", "undo"}
  BY TypeFacts DEF ReqRecord
<1>2. req.pc # "none" => Bound(req.orig) \subseteq addrs
  BY DEF Serving
<1>3. req.pc \in {"scan", "save", "undo"} => st = req.orig
  BY DEF Agreed
<1>4. req.pc = "restart" => st = req.cand
  BY DEF Agreed
<1> QED BY <1>1, <1>2, <1>3, <1>4 DEF Serving

\* What is added was not bound before, as all addresses are spelled alike.
LEMMA AddedIsNew ==
  ASSUME NEW again, NEW s, Safe(again, s), CanonicalSetup
  PROVE  Added(s) \intersect addrs = {} /\ Added(s) \subseteq Bound(s)
<1>1. \A i \in DOMAIN s.proxies : s.proxies[i].text.canonical
  BY DEF Safe, Sound
<1> QED BY <1>1 DEF Added, Bound, Bindable, EnabledIn

\* A delete unbinds no address that a remaining proxy has.
LEMMA UnboundIsUnused ==
  ASSUME NEW again, NEW s \in State(setup.routes), NEW t \in State(setup.routes), Safe(again, s),
         Safe(again, t), CanonicalSetup, setup \in Setups
  PROVE  Bound(t) \intersect {x.ip : x \in Texts(s.proxies) \ Texts(t.proxies)} = {}
<1>1. \A i \in DOMAIN s.proxies : s.proxies[i].text \in Text /\ s.proxies[i].text.canonical = TRUE
  <2>1. \A i \in DOMAIN s.proxies : s.proxies[i] \in Proxy
    BY SetupType, StateType
  <2> QED BY <2>1 DEF Safe, Sound, Proxy, Text
<1>2. \A i \in DOMAIN t.proxies : t.proxies[i].text \in Text /\ t.proxies[i].text.canonical = TRUE
  <2>1. \A i \in DOMAIN t.proxies : t.proxies[i] \in Proxy
    BY SetupType, StateType
  <2> QED BY <2>1 DEF Safe, Sound, Proxy, Text
<1>3. \A x, y \in Text : x.ip = y.ip /\ x.canonical = y.canonical => x = y
  BY DEF Text
<1>4. ASSUME NEW i \in DOMAIN t.proxies, NEW x \in Texts(s.proxies) \ Texts(t.proxies)
      PROVE  t.proxies[i].text.ip # x.ip
  <2>1. x \in Text /\ x.canonical = TRUE /\ x # t.proxies[i].text
    BY <1>1, <1>4 DEF Texts
  <2> QED BY <1>2, <1>3, <2>1
<1> QED BY <1>4 DEF Bound, Bindable, EnabledIn

LEMMA BootstrapServing ==
  ASSUME TypeInv, Flow, Agreed, Serving, SameBound,
         BootLoad \/ Detect \/ ProbeAdd \/ ProbeEnd \/ Import \/ BootSave \/ BootLists
  PROVE  Serving'
<1> USE DEF InstAt, InstBecomes, HistKept, HistBecomes, MarksBecome, SameBound, Serving, At
<1> HIDE DEF CanonicalSetup, Bound
<1>1. CASE BootLoad
  <2>1. /\ inst'.pc \in {"import", "detect"} /\ UNCHANGED <<st, addrs, dash, req>>
        /\ MarksBecome(hist.overlap \/ req.pc # "none", hist.raced, hist.lost, hist.behind, hist.again)
    BY <1>1, BootLoadFields DEF BootLoad
  <2> QED BY <2>1
<1>2. CASE Detect
  <2>1. inst'.pc = "probe"
    BY <1>2, DetectFields
  <2> QED BY <1>2, <2>1 DEF Detect
<1>3. CASE ProbeAdd
  <2>1. inst'.pc = "probing" /\ addrs \subseteq addrs'
    BY <1>3, ProbeAddFields
  <2>2. ~dash /\ req.pc = "none"
    BY <1>3 DEF ProbeAdd, Flow
  <2> QED BY <1>3, <2>1, <2>2 DEF ProbeAdd
<1>4. CASE ProbeEnd
  <2>1. inst'.pc \in {"import", "failed"}
    BY <1>4, ProbeEndFields
  <2>2. ~dash /\ req.pc = "none"
    BY <1>4 DEF ProbeEnd, Flow
  <2> QED BY <1>4, <2>1, <2>2 DEF ProbeEnd
<1>5. CASE Import
  <2>1. /\ inst'.pc \in {"save", "failed"} /\ UNCHANGED <<st, addrs, dash, req>>
        /\ hist'.overlap = hist.overlap /\ hist'.lost = hist.lost
        /\ hist'.again = (hist.again \/ (hist.token # 0 /\ inst'.loc # inst.loc))
    BY <1>5, ImportFields DEF Import
  <2> QED BY <2>1
<1>6. CASE BootSave
  <2>1. /\ inst'.pc = "lists" /\ UNCHANGED <<addrs, dash, req>> /\ st' = inst.loc /\ Saving
        /\ hist'.overlap = hist.overlap /\ hist'.again = hist.again /\ hist'.lost = hist.lost
    BY <1>6, BootSaveFields DEF BootSave, Saving
  <2>2. ASSUME ~hist.overlap, ~hist.again, dash PROVE Bound(st') = Bound(st)
    <3>1. hist.token # 0 /\ Detected(st)
      BY <2>2 DEF Flow
    <3>2. st'.proxies = st.proxies /\ st'.prefix = st.prefix
      BY <2>1, <2>2, <3>1 DEF Agreed
    <3> QED BY <3>2 DEF Bound
  <2>3. ~hist.overlap => req.pc = "none"
    BY <2>1 DEF Agreed
  <2> QED BY <2>1, <2>2, <2>3
<1>7. CASE BootLists
  BY <1>7, BootListsFields DEF BootLists
<1> QED BY <1>1, <1>2, <1>3, <1>4, <1>5, <1>6, <1>7

LEMMA InstallServing ==
  ASSUME TypeInv, Agreed, Good, Serving, SameBound,
         \/ StopDashboard \/ RestartEngine \/ RepairStarts \/ RepairEnds \/ StartDashboard \/ Fail
  PROVE  Serving'
<1> USE DEF InstAt, InstBecomes, HistKept, HistBecomes, MarksBecome, ReqEnds, ReqBecomes,
            SameBound, Serving, At
<1> HIDE DEF CanonicalSetup, Bound
<1>1. CASE StopDashboard
  <2>1. inst'.pc = "restart" /\ UNCHANGED <<st, addrs>>
    BY <1>1, GotoFields DEF StopDashboard, Steps
  <2>2. CASE dash' = FALSE /\ Killed
    BY <2>1, <2>2, KilledFields
  <2>3. CASE UNCHANGED <<dash, req, late, hist>>
    BY <2>1, <2>3
  <2> QED BY <1>1, <2>2, <2>3 DEF StopDashboard
<1>2. CASE RestartEngine
  <2>1. inst'.pc \in {"repair", "failed"}
    BY <1>2, GotoFields DEF RestartEngine, Steps
  <2> QED BY <1>2, <2>1 DEF RestartEngine
<1>3. CASE RepairStarts
  <2>1. /\ inst'.pc = "repairing" /\ inst'.added = Added(st) /\ addrs' = addrs \union Bound(st)
        /\ inst.pc = "repair" /\ UNCHANGED <<st, dash, req>>
        /\ MarksBecome(hist.overlap \/ req.pc # "none", hist.raced, hist.lost, hist.behind, hist.again)
    BY <1>3, RepairStartsFields DEF RepairStarts
  <2>2. ASSUME ~hist.overlap, req.pc = "none", ~hist.again, ~hist.lost, CanonicalSetup
        PROVE  Added(st) \intersect Bound(st) = {}
    <3>1. Bound(st) \subseteq addrs
      BY <2>1, <2>2
    <3>2. Added(st) \intersect addrs = {}
      BY <2>2, GoodFacts, AddedIsNew
    <3> QED BY <3>1, <3>2
  <2> QED BY <2>1, <2>2
<1>4. CASE RepairEnds
  <2>1. /\ inst.pc = "repairing" /\ UNCHANGED <<dash, req, hist>>
        /\ \/ inst'.pc = "rotate" /\ st' = inst.loc /\ addrs' = addrs \union Bound(inst.loc)
           \/ /\ inst'.pc = "failed" /\ (st' = st \/ st' = inst.loc)
              /\ \E gone \in SUBSET inst.added : addrs' = addrs \ gone
    BY <1>4, GotoFields DEF RepairEnds, Steps
  <2>2. ASSUME ~hist.overlap PROVE st' = st /\ inst.loc = st /\ req.pc = "none"
    BY <2>1, <2>2 DEF Agreed, Saving
  <2> QED BY <2>1, <2>2
<1>5. CASE StartDashboard
  <2>1. /\ inst.pc = "start" /\ inst'.pc = "ready" /\ UNCHANGED <<st, addrs>> /\ ReqEnds
        /\ hist'.overlap = hist.overlap /\ hist'.again = hist.again /\ hist'.lost = hist.lost
    BY <1>5, KilledFields, GotoFields DEF StartDashboard, Steps
  <2> QED BY <2>1, StaysBound
<1>6. CASE Fail
  BY <1>6, GotoFields DEF Fail, Steps
<1> QED BY <1>1, <1>2, <1>3, <1>4, <1>5, <1>6

LEMMA DashboardServing ==
  ASSUME TypeInv, Agreed, Serving, SameBound,
         \/ RotateToken \/ RotateByHand \/ EngineStarts \/ PrepareWrites \/ DashboardDies
         \/ ScanLoads \/ ScanSaves \/ ScanWrites
  PROVE  Serving'
<1> USE DEF HistKept, HistBecomes, MarksBecome, ReqEnds, ReqBecomes, SameBound, Serving
<1> HIDE DEF CanonicalSetup, Bound
<1>1. CASE RotateToken \/ RotateByHand
  <2>1. /\ SetToken /\ hist'.overlap = (hist.overlap \/ ~Quiet) /\ hist'.again = hist.again
        /\ hist'.lost = hist.lost
        /\ \/ inst'.pc = "start" /\ inst.pc = "rotate"
           \/ inst' = inst
    BY <1>1, RotationFields DEF InstAt, InstBecomes
  <2>2. Bound(st') = Bound(st)
    BY <2>1, TokenFields DEF Bound
  <2> QED BY <2>1, <2>2 DEF SetToken
<1>2. CASE EngineStarts
  BY <1>2 DEF EngineStarts
<1>3. CASE PrepareWrites
  BY <1>3, PrepareWritesFields DEF PrepareWrites
<1>4. CASE DashboardDies
  BY <1>4, KilledFields, StaysBound DEF DashboardDies
<1>5. CASE ScanLoads
  BY <1>5, ScanLoadsFields DEF ScanLoads
<1>6. CASE ScanSaves
  BY <1>6, NoReqFields DEF ScanSaves, Agreed
<1>7. CASE ScanWrites
  BY <1>7, ScanWritesFields DEF ScanWrites
<1> QED BY <1>1, <1>2, <1>3, <1>4, <1>5, <1>6, <1>7

LEMMA RequestServing ==
  ASSUME TypeInv, Flow, Agreed, Good, Serving, SameBound,
         \/ RequestStarts \/ RequestSaves \/ RequestSucceeds \/ RequestGivesUp
         \/ RequestFails \/ RequestUndone
  PROVE  Serving'
<1> USE DEF HistKept, HistBecomes, MarksBecome, ReqEnds, ReqBecomes, SameBound, Serving
<1> HIDE DEF CanonicalSetup, Bound
<1>0. req.pc # "none" => dash /\ (~hist.overlap => inst.pc # "repairing")
  BY DEF Flow, Agreed, Saving
<1>1. CASE RequestStarts
  <2>1. PICK cand \in Candidates :
          /\ Derived(setup.routes, st, cand) /\ Renders(cand.proxies)
          /\ addrs' = addrs \union Bound(cand)
          /\ ReqEnds \/ ReqBecomes("save", st, cand, Added(cand))
    BY <1>1, RequestStartsFields
  <2>2. /\ UNCHANGED <<st, dash, inst>> /\ dash /\ req.pc = "none" /\ hist'.again = hist.again
        /\ hist'.overlap = (hist.overlap \/ Saving) /\ hist'.lost = hist.lost
    BY <1>1, RequestStartsFields DEF RequestStarts
  <2>3. ASSUME ~hist.overlap, ~hist.again, ~hist.lost, CanonicalSetup
        PROVE  Bound(st) \subseteq addrs /\ Added(cand) \intersect addrs = {}
    <3>1. Safe(hist.again, cand)
      BY <2>1, CandidateSafe
    <3> QED BY <2>2, <2>3, <3>1, AddedIsNew
  <2> QED BY <2>1, <2>2, <2>3
<1>2. CASE RequestSaves
  <2>1. /\ UNCHANGED <<addrs, dash, inst, hist>> /\ req'.orig = req.orig /\ req'.added = req.added
        /\ req'.cand = req.cand /\ req'.pc = "restart" /\ req.pc = "save"
    BY <1>2, RequestSavesFields DEF RequestSaves
  <2> QED BY <1>0, <2>1
<1>3. CASE RequestSucceeds
  <2>1. /\ UNCHANGED <<st, dash, inst>> /\ req'.pc = "none" /\ req.pc = "restart"
        /\ hist'.overlap = hist.overlap /\ hist'.again = hist.again /\ hist'.lost = hist.lost
        /\ addrs' = (addrs \union Bound(st)) \
                      {t.ip : t \in Texts(req.orig.proxies) \ Texts(req.cand.proxies)}
    BY <1>3, RequestSucceedsFields DEF RequestSucceeds
  <2>2. ASSUME ~hist.overlap, CanonicalSetup PROVE Bound(st) \subseteq addrs'
    <3>1. st = req.cand
      BY <2>1, <2>2 DEF Agreed
    <3>2. Bound(req.cand) \intersect
            {t.ip : t \in Texts(req.orig.proxies) \ Texts(req.cand.proxies)} = {}
      BY <2>2, GoodFacts, TypeFacts, UnboundIsUnused
    <3> QED BY <2>1, <3>1, <3>2
  <2> QED BY <1>0, <2>1, <2>2
<1>4. CASE RequestGivesUp
  BY <1>4, NoReqFields DEF RequestGivesUp, Agreed
<1>5. CASE RequestFails
  <2>1. PICK lost \in BOOLEAN :
          MarksBecome(hist.overlap, hist.raced, hist.lost \/ lost, hist.behind, hist.again)
    BY <1>5, RequestFailsFields
  <2>2. /\ req'.orig = req.orig /\ req'.added = req.added /\ req'.pc = "undo" /\ req.pc # "none"
        /\ UNCHANGED <<addrs, dash, inst>>
    BY <1>5, RequestFailsFields DEF RequestFails
  <2> QED BY <1>0, <2>1, <2>2
<1>6. CASE RequestUndone
  <2>1. /\ req'.pc = "none" /\ req.pc = "undo" /\ UNCHANGED <<st, dash, inst>>
        /\ hist'.overlap = hist.overlap /\ hist'.again = hist.again /\ hist'.lost = hist.lost
        /\ \E gone \in SUBSET req.added : addrs' = addrs \ gone
    BY <1>6, RequestUndoneFields DEF RequestUndone
  <2>2. ~hist.overlap /\ ~hist.lost => st = req.orig
    BY <2>1 DEF Agreed
  <2> QED BY <1>0, <2>1, <2>2
<1> QED BY <1>1, <1>2, <1>3, <1>4, <1>5, <1>6

LEMMA ServingStep ==
  TypeInv /\ Flow /\ Agreed /\ Good /\ Serving /\ [Next \/ Rest]_vars => Serving'
<1>1. ASSUME [Next \/ Rest]_vars PROVE SameBound
  BY <1>1, SetupKept, BoundIsConstant
<1>2. ASSUME TypeInv, Flow, Agreed, Good, Serving, Next PROVE Serving'
  BY <1>1, <1>2, BootstrapServing, InstallServing, DashboardServing, RequestServing DEF Next
<1>3. ASSUME Serving, UNCHANGED vars PROVE Serving'
  <2>1. UNCHANGED <<st, addrs, dash, inst, req, hist>>
    BY <1>3 DEF vars
  <2> QED BY <1>1, <1>3, <2>1 DEF SameBound, Serving
<1> QED BY <1>2, <1>3 DEF Rest
-----------------------------------------------------------------------------
(***************************************************************************)
(* Tokens.  Every copy of the state that may be saved holds a token that   *)
(* was announced; and the last one, unless it was made before that one was *)
(* saved, by another process.                                              *)
(***************************************************************************)
Announced(s) ==
  /\ hist.token # 0 => s.token \in 1..hist.token
  /\ ~hist.raced => s.token = hist.token

Tokens ==
  /\ Announced(st)
  /\ Saving => Announced(inst.loc)
  /\ req.pc # "none" => Announced(req.orig) /\ Announced(req.cand)

LEMMA InitTokens == Init => Tokens
<1>1. NewState.token = 0
  BY NewStateType
<1> HIDE DEF NewState
<1> QED BY <1>1 DEF Init, Tokens, Announced, Idle, NoReq, HistInit, Saving

LEMMA BootstrapTokens ==
  ASSUME TypeInv, Tokens,
         BootLoad \/ Detect \/ ProbeAdd \/ ProbeEnd \/ Import \/ BootSave \/ BootLists
  PROVE  Tokens'
<1> USE DEF InstAt, InstBecomes, HistKept, HistBecomes, MarksBecome, Tokens, Announced, Saving, At
<1>1. CASE BootLoad
  BY <1>1, BootLoadFields DEF BootLoad
<1>2. CASE Detect
  <2>1. inst'.loc.token = inst.loc.token
    BY <1>2, DetectFields
  <2> QED BY <1>2, <2>1 DEF Detect
<1>3. CASE ProbeAdd
  BY <1>3, ProbeAddFields DEF ProbeAdd
<1>4. CASE ProbeEnd
  <2>1. inst'.loc = inst.loc
    BY <1>4, ProbeEndFields
  <2> QED BY <1>4, <2>1 DEF ProbeEnd
<1>5. CASE Import
  <2> DEFINE c == Imported(inst.loc, list, setup.services)
  <2>1. c.token = inst.loc.token
    BY TypeFacts, SetupType, ImportedState
  <2> HIDE DEF c
  <2>2. /\ inst'.loc = inst.loc \/ inst'.loc = c
        /\ hist'.token = hist.token /\ hist'.raced = hist.raced
    BY <1>5, ImportFields DEF c
  <2> QED BY <1>5, <2>1, <2>2 DEF Import
<1>6. CASE BootSave
  BY <1>6, BootSaveFields DEF BootSave
<1>7. CASE BootLists
  BY <1>7, BootListsFields DEF BootLists
<1> QED BY <1>1, <1>2, <1>3, <1>4, <1>5, <1>6, <1>7

LEMMA InstallTokens ==
  ASSUME TypeInv, Tokens,
         \/ StopDashboard \/ RestartEngine \/ RepairStarts \/ RepairEnds \/ StartDashboard \/ Fail
  PROVE  Tokens'
<1> USE DEF InstAt, InstBecomes, HistKept, HistBecomes, MarksBecome, ReqEnds, ReqBecomes,
            Tokens, Announced, Saving, At
<1>1. CASE StopDashboard
  <2>1. inst'.pc = "restart" /\ UNCHANGED st
    BY <1>1, GotoFields DEF StopDashboard, Steps
  <2>2. CASE Killed
    BY <2>1, <2>2, KilledFields
  <2>3. CASE UNCHANGED <<dash, req, late, hist>>
    BY <2>1, <2>3
  <2> QED BY <1>1, <2>2, <2>3 DEF StopDashboard
<1>2. CASE RestartEngine \/ Fail
  <2>1. inst'.pc \in {"repair", "failed"} /\ UNCHANGED <<st, req, hist>>
    BY <1>2, GotoFields DEF RestartEngine, Fail, Steps
  <2> QED BY <2>1
<1>3. CASE RepairStarts
  BY <1>3, RepairStartsFields DEF RepairStarts
<1>4. CASE RepairEnds
  <2>1. /\ inst'.pc \in {"rotate", "failed"} /\ (st' = st \/ st' = inst.loc)
        /\ UNCHANGED <<req, hist>> /\ inst.pc = "repairing"
    BY <1>4, GotoFields DEF RepairEnds, Steps
  <2> QED BY <2>1
<1>5. CASE StartDashboard
  BY <1>5, KilledFields, GotoFields DEF StartDashboard, Steps
<1> QED BY <1>1, <1>2, <1>3, <1>4, <1>5

\* A copy made before a rotation holds an earlier token, and the rotation is raced.
LEMMA RotationTokens ==
  ASSUME TypeInv, Flow, Tokens, RotateToken \/ RotateByHand
  PROVE  Tokens'
<1>1. /\ hist'.token = hist.token + 1 /\ hist'.raced = ~Quiet
      /\ req' = req /\ st'.token = hist.token + 1 /\ inst'.loc = inst.loc
      /\ (InstAt("start") /\ inst.pc = "rotate") \/ (inst' = inst /\ dash)
  BY RotationFields, TokenFields DEF SetToken, HistBecomes, MarksBecome, InstAt, InstBecomes
<1>2. hist.token \in Nat /\ hist'.token \in Nat
  BY <1>1, TypeFacts DEF HistRecord
<1>3. hist'.token # 0 /\ st'.token \in 1..hist'.token /\ st'.token = hist'.token
  BY <1>1, <1>2
<1>4. ASSUME NEW s, Announced(s), hist.token # 0, hist'.raced
      PROVE  s.token \in 1..hist'.token
  <2>1. s.token \in 1..hist.token
    BY <1>4 DEF Announced
  <2> QED BY <1>1, <1>2, <2>1
<1>5. Saving' => Saving /\ dash
  BY <1>1 DEF Saving, InstAt, InstBecomes
<1>6. dash => hist.token # 0
  BY DEF Flow
<1>7. req.pc # "none" => dash
  BY DEF Flow
<1>8. ASSUME Saving' PROVE hist'.raced /\ inst'.loc.token \in 1..hist'.token
  <2>1. hist'.raced
    BY <1>1, <1>5, <1>8 DEF Quiet
  <2> QED BY <1>1, <1>4, <1>5, <1>6, <1>8, <2>1 DEF Tokens
<1>9. ASSUME req.pc # "none"
      PROVE  hist'.raced /\ req.orig.token \in 1..hist'.token /\ req.cand.token \in 1..hist'.token
  <2>1. hist'.raced
    BY <1>1, <1>9 DEF Quiet
  <2> QED BY <1>4, <1>6, <1>7, <1>9, <2>1 DEF Tokens
<1>10. Announced(st)'
  BY <1>3 DEF Announced
<1>11. Saving' => Announced(inst.loc)'
  BY <1>8 DEF Announced
<1>12. req'.pc # "none" => Announced(req.orig)' /\ Announced(req.cand)'
  BY <1>1, <1>9 DEF Announced
<1> QED BY <1>10, <1>11, <1>12 DEF Tokens

LEMMA DashboardTokens ==
  ASSUME TypeInv, Tokens,
         \/ EngineStarts \/ PrepareWrites \/ DashboardDies \/ ScanLoads \/ ScanSaves \/ ScanWrites
  PROVE  Tokens'
<1> USE DEF HistKept, HistBecomes, MarksBecome, ReqEnds, ReqBecomes, Tokens, Announced, Saving
<1>1. CASE EngineStarts
  BY <1>1 DEF EngineStarts
<1>2. CASE PrepareWrites
  BY <1>2, PrepareWritesFields DEF PrepareWrites
<1>3. CASE DashboardDies
  BY <1>3, KilledFields DEF DashboardDies
<1>4. CASE ScanLoads
  BY <1>4, ScanLoadsFields DEF ScanLoads
<1>5. CASE ScanSaves
  BY <1>5, NoReqFields DEF ScanSaves
<1>6. CASE ScanWrites
  BY <1>6, ScanWritesFields DEF ScanWrites
<1> QED BY <1>1, <1>2, <1>3, <1>4, <1>5, <1>6

LEMMA RequestTokens ==
  ASSUME TypeInv, Tokens, \/ RequestStarts \/ RequestSaves \/ RequestSucceeds
                          \/ RequestGivesUp \/ RequestFails \/ RequestUndone
  PROVE  Tokens'
<1> USE DEF HistKept, HistBecomes, MarksBecome, ReqEnds, ReqBecomes, Tokens, Announced, Saving
<1>1. CASE RequestStarts
  <2>1. PICK cand \in Candidates :
          /\ Derived(setup.routes, st, cand)
          /\ ReqEnds \/ ReqBecomes("save", st, cand, Added(cand))
    BY <1>1, RequestStartsFields
  <2>2. cand.token = st.token
    BY <2>1 DEF Derived
  <2> QED BY <1>1, <2>1, <2>2, RequestStartsFields DEF RequestStarts
<1>2. CASE RequestSaves
  BY <1>2, RequestSavesFields DEF RequestSaves
<1>3. CASE RequestSucceeds
  BY <1>3, RequestSucceedsFields DEF RequestSucceeds
<1>4. CASE RequestGivesUp
  BY <1>4, NoReqFields DEF RequestGivesUp
<1>5. CASE RequestFails
  <2>1. PICK lost \in BOOLEAN :
          MarksBecome(hist.overlap, hist.raced, hist.lost \/ lost, hist.behind, hist.again)
    BY <1>5, RequestFailsFields
  <2>2. (st' = st \/ st' = req.orig) /\ UNCHANGED inst /\ req.pc # "none"
    BY <1>5 DEF RequestFails
  <2> QED BY <1>5, <2>1, <2>2, RequestFailsFields
<1>6. CASE RequestUndone
  BY <1>6, RequestUndoneFields DEF RequestUndone
<1> QED BY <1>1, <1>2, <1>3, <1>4, <1>5, <1>6

LEMMA TokensStep == TypeInv /\ Flow /\ Tokens /\ [Next \/ Rest]_vars => Tokens'
<1>1. TypeInv /\ Flow /\ Tokens /\ Next => Tokens'
  BY BootstrapTokens, InstallTokens, RotationTokens, DashboardTokens, RequestTokens DEF Next
<1>2. Tokens /\ UNCHANGED vars => Tokens'
  BY DEF vars, Tokens, Announced, Saving
<1> QED BY <1>1, <1>2 DEF Rest
-----------------------------------------------------------------------------
(***************************************************************************)
(* The probe: the test address comes on top of what was bound before, and  *)
(* nothing else changes the interface meanwhile.                           *)
(***************************************************************************)
Probed ==
  inst.pc = "probing" =>
    /\ addrs = hist.held \union {inst.temp}
    /\ (\E a \in Looked(inst.loc.prefix) : a \notin hist.held) => inst.temp \notin hist.held

LEMMA InitProbed == Init => Probed
BY DEF Init, Probed, Idle

\* Nobody else is at work during the probe: nothing is installed yet.
LEMMA ProbesAlone ==
  ASSUME Flow, inst.pc = "probing", Next
  PROVE  ProbeEnd \/ Fail
<1>1. ~dash /\ req.pc = "none" /\ late = {} /\ prep = {} /\ ~Detected(st)
  BY DEF Flow
<1> QED BY <1>1 DEF Next, At, BootLoad, Detect, ProbeAdd, Import, BootSave, BootLists,
   StopDashboard, EngineStarts, PrepareWrites, RestartEngine, RepairStarts, RepairEnds, RotateToken,
   StartDashboard, RotateByHand, DashboardDies, RequestStarts, RequestSaves, RequestSucceeds,
   RequestGivesUp, RequestFails, RequestUndone, ScanLoads, ScanSaves, ScanWrites

\* No other step leads into the probe.
LEMMA ProbesOnce ==
  ASSUME TypeInv, Next, inst.pc # "probing", ~ProbeAdd
  PROVE  inst'.pc # "probing"
<1> USE DEF InstAt, InstBecomes
<1>1. CASE inst' = inst
  BY <1>1
<1>2. CASE BootLoad \/ Detect \/ ProbeEnd \/ Import \/ BootSave \/ BootLists
  BY <1>2, BootLoadFields, DetectFields, ProbeEndFields, ImportFields, BootSaveFields,
     BootListsFields
<1>3. CASE \/ StopDashboard \/ RestartEngine \/ RepairStarts \/ RepairEnds \/ RotateToken
           \/ StartDashboard \/ Fail
  BY <1>3, RepairStartsFields, GotoFields
     DEF StopDashboard, RestartEngine, RepairEnds, RotateToken, StartDashboard, Fail, Steps
<1> QED BY <1>1, <1>2, <1>3
        DEF Next, EngineStarts, PrepareWrites, RotateByHand, DashboardDies, RequestStarts,
        RequestSaves, RequestSucceeds, RequestGivesUp, RequestFails, RequestUndone, ScanLoads,
        ScanSaves, ScanWrites

LEMMA ProbedStep == TypeInv /\ Flow /\ Probed /\ [Next \/ Rest]_vars => Probed'
<1> SUFFICES ASSUME TypeInv, Flow, Probed, [Next \/ Rest]_vars PROVE Probed'
  OBVIOUS
<1>1. CASE ProbeAdd
  <2>1. /\ inst'.loc = inst.loc /\ inst'.temp = TestAddress(inst.loc.prefix) /\ hist'.held = addrs
        /\ addrs' = addrs \union {TestAddress(inst.loc.prefix)}
    BY <1>1, ProbeAddFields DEF InstBecomes, HistBecomes
  <2>2. inst.loc.prefix.lo \in Nat
    BY TypeFacts, StateType, SpaceType DEF Address
  <2>3. (\E b \in Looked(inst.loc.prefix) : b \notin addrs) => TestAddress(inst.loc.prefix) \notin addrs
    BY <2>2, TestAddressFree
  <2> QED BY <2>1, <2>3 DEF Probed, Looked
<1>2. CASE Next /\ ~ProbeAdd
  <2>1. CASE inst.pc = "probing"
    <3>1. inst'.pc \in {"import", "failed"}
      BY <1>2, <2>1, ProbesAlone, ProbeEndFields, GotoFields DEF Fail, Steps, InstAt, InstBecomes
    <3> QED BY <3>1 DEF Probed
  <2>2. CASE inst.pc # "probing"
    BY <1>2, <2>2, ProbesOnce DEF Probed
  <2> QED BY <2>1, <2>2
<1>3. CASE UNCHANGED vars
  BY <1>3 DEF vars, Probed, Looked
<1> QED BY <1>1, <1>2, <1>3 DEF Rest
-----------------------------------------------------------------------------
(***************************************************************************)
(* The invariant, and what follows from it.                                *)
(***************************************************************************)
IInv ==
  /\ TypeInv /\ Flow /\ Agreed /\ Acked /\ First /\ Good /\ Synced /\ Handed
  /\ Serving /\ Tokens /\ Probed

LEMMA Invariance == Spec => []IInv
<1>1. Init => Flow /\ Agreed /\ Acked /\ First /\ Good /\ Synced /\ Handed
              /\ Serving /\ Tokens /\ Probed
  BY InitFlow, InitAgreed, InitAcked, InitFirst, InitGood, InitSynced, InitHanded, InitServing,
     InitTokens, InitProbed
<1>2. TypeInv /\ TypeInv' /\ Flow /\ Agreed /\ Acked /\ First /\ Good /\ Synced /\ Handed
      /\ Serving /\ Tokens /\ Probed /\ [Next \/ Rest]_vars
      => (Flow /\ Agreed /\ Acked /\ First /\ Good /\ Synced /\ Handed
          /\ Serving /\ Tokens /\ Probed)'
  BY FlowStep, AgreedStep, AckedStep, FirstStep, GoodStep, SyncedStep, HandedStep, ServingStep,
     TokensStep, ProbedStep
<1> QED BY <1>1, <1>2, Typing, PTL DEF Spec, IInv

\* Every variable of the installer and the dashboard keeps its type, and every
\* port is one that Allocate may hand out or that the first run found (State,
\* Proxy in model.go).
THEOREM TypeCorrect == Spec => []TypeOK
<1>1. IInv => TypeOK
  BY TypeInvIsType DEF IInv
<1> QED BY <1>1, Invariance, PTL

\* AddOffset adds, for addresses of any radix and width, and returns no address
\* when the sum does not fit.
THEOREM OffsetsAreAdded == Spec => []AddOffsetAdds
<1>1. AddOffsetAdds
  BY AddOffsetIsAddition, SpaceType DEF AddOffsetAdds
<1> QED BY <1>1, PTL

\* Runs of the installer, failed requests and kills lose no acknowledged proxy
\* ("without deleting saved proxies", install.sh), and bring no deleted one back.
\* Excepted are two processes that load and save at the same time, a rollback that
\* could not save the original (applyCandidate ignores that), and an import after the
\* first installation from a text list that was left behind (service.go, Bootstrap).
THEOREM NothingIsLost == Spec => []NothingLost
<1>1. IInv => NothingLost
  BY DEF IInv, TypeInv, HistRecord, Acked, Synced, NothingLost, Quiet
<1> QED BY <1>1, Invariance, PTL

\* Allocate gives no port and no address to two proxies, after any sequence of
\* creates, deletes, imports, rollbacks and runs of the installer.
THEOREM NothingIsShared == Spec => []NotShared
<1>1. IInv => NotShared
  <2> SUFFICES ASSUME IInv, ~hist.again PROVE NotShared
    BY DEF NotShared
  <2>1. Apart(Found.proxies, CanonicalSetup, st.proxies)
    BY GoodFacts DEF IInv, Safe, Sound
  <2>2. \A p : WasFound(p) = Was(Found.proxies, p)
    BY DEF WasFound, Was
  <2> HIDE DEF Found, CanonicalSetup
  <2> QED BY <2>1, <2>2 DEF NotShared, Apart
<1> QED BY <1>1, Invariance, PTL

\* NextPort stays above every port that was ever acknowledged, so that a deleted
\* proxy's port is given to no other (Allocate, importExisting).
THEOREM PortsAreGivenOnce == Spec => []PortsGivenOnce
<1>1. IInv => PortsGivenOnce
  BY DEF IInv, Handed, Below, PortsGivenOnce
<1> QED BY <1>1, Invariance, PTL

\* What is saved can always be rendered again, unless the older setup could not
\* (RenderConfig's checks of ports and of passwords of one user).
THEOREM StateStaysRenderable == Spec => []StaysRenderable
<1>1. IInv => StaysRenderable
  <2> SUFFICES ASSUME IInv, ~hist.again, Renders(Found.proxies) PROVE StaysRenderable
    BY DEF StaysRenderable
  <2>1. Renders(st.proxies)
    BY GoodFacts DEF IInv, Safe, Sound
  <2> HIDE DEF Found
  <2> QED BY <2>1 DEF StaysRenderable, Renders
<1> QED BY <1>1, Invariance, PTL

\* While the dashboard serves and nothing is under way, the address of every
\* enabled proxy is bound: rollbacks and deletes remove only what nobody else
\* needs (applyCandidate, cleanupAdded); but for a rollback that could not save
\* the original.
THEOREM AddressesAreServed == Spec => []ServedWhileUp
<1>1. IInv => ServedWhileUp
  BY DEF IInv, Serving, ServedWhileUp, Quiet
<1> QED BY <1>1, Invariance, PTL

\* A URL that was announced opens the dashboard, whatever is rolled back, killed or
\* run again; and the last one does, unless another process, such as a request,
\* was between its load and its save when its token was saved (RotateToken,
\* applyCandidate): that one may save the token it had loaded.
THEOREM LastTokenOpens == Spec => []TokenOpens
<1>1. IInv => TokenOpens
  <2> SUFFICES ASSUME IInv, dash PROVE TokenOpens
    BY DEF TokenOpens
  <2>1. hist.token \in Nat /\ hist.token # 0 /\ Announced(st)
    BY DEF IInv, TypeInv, HistRecord, Flow, Tokens
  <2>2. st.token \in 1..hist.token /\ (~hist.raced => st.token = hist.token)
    BY <2>1 DEF Announced
  <2> QED BY <2>1, <2>2 DEF TokenOpens, TokenValid
<1> QED BY <1>1, Invariance, PTL

\* The probe of the routed prefix leaves the interface as it was, if one of the
\* addresses it looked at was free (ProbeRoutedPrefix, its deferred removal).
THEOREM ProbeLeavesNoTrace == Spec => ProbeHarmless
<1>1. IInv /\ [Next \/ Rest]_vars =>
        [/\ At("probing") /\ addrs' # addrs
         /\ \E a \in (inst.loc.prefix.lo + 1)..(inst.loc.prefix.lo + ProbeLimit) : a \notin hist.held
         => addrs' = hist.held]_vars
  <2> SUFFICES ASSUME IInv, Next, inst.pc = "probing", addrs' # addrs,
                      \E a \in Looked(inst.loc.prefix) : a \notin hist.held
               PROVE  addrs' = hist.held
    BY DEF At, Looked, Rest
  <2>1. ProbeEnd
    BY ProbesAlone DEF IInv, Fail
  <2>2. addrs = hist.held \union {inst.temp} /\ inst.temp \notin hist.held
    BY DEF IInv, Probed
  <2> QED BY <2>1, <2>2 DEF ProbeEnd
<1> QED BY <1>1, Invariance, PTL DEF Spec, ProbeHarmless
=============================================================================
