----------------------------- MODULE Allocation -----------------------------
(***************************************************************************)
(* The algorithms on the list of proxies: allocation of ports, addresses   *)
(* and credentials, address arithmetic, the checks RenderConfig makes, the *)
(* text list, matching a submitted list, and the import of an older setup. *)
(*                                                                         *)
(* An address is a number of Width digits of radix Radix; an IPv6 address  *)
(* has 16 digits of radix 256.  What is stored is its text: the number,    *)
(* and whether the spelling is the one netip prints.                       *)
(***************************************************************************)
EXTENDS Naturals, Sequences, FiniteSets, TLC

CONSTANTS
  Radix, Width,   \* of an address
  FirstPort,      \* NextPort of a new state (10000)
  LastPort,       \* the last port the allocator hands out (65534)
  MinPort         \* the lowest port of an enabled proxy (1024)

ASSUME AllocationAssumption ==
  /\ Radix \in Nat /\ Radix >= 2 /\ Width \in Nat \ {0}
  /\ MinPort \in Nat \ {0} /\ FirstPort \in Nat /\ LastPort \in Nat
  /\ MinPort <= FirstPort /\ FirstPort <= LastPort

\* Radix to the power of i.
Power[i \in Nat] == IF i = 0 THEN 1 ELSE Radix * Power[i - 1]

Space   == Power[Width]
Address == 0..(Space - 1)
Text    == [ip : Address, canonical : BOOLEAN]
Spelled(ip) == [ip |-> ip, canonical |-> TRUE]     \* netip.Addr.String

NoAddress == Space     \* what an overflow returns: no address at all

Port       == 1..(LastPort + 1)   \* what ParseList accepts
Credential == [user : Nat, pass : Nat]
ListEntry  == [port : Port, cred : Credential]
Proxy      == [port : Port, text : Text, cred : Credential, enabled : BOOLEAN]

(***************************************************************************)
(* AddOffset adds digit by digit: the offset is the carry into the last    *)
(* digit, and what it leaves of itself and of the sum is carried on.       *)
(***************************************************************************)
Digit(a, i) == (a \div Power[i]) % Radix

\* Mutant of Carries: only the carry of the digit itself is passed on.
CarriesOfDigitsOnly(base, offset) ==
  LET carry[i \in 0..Width] ==
        IF i = 0 THEN offset
        ELSE (Digit(base, i - 1) + (carry[i - 1] % Radix)) \div Radix
  IN  carry

Carries(base, offset) ==
  LET carry[i \in 0..Width] ==
        IF i = 0 THEN offset
        ELSE (carry[i - 1] \div Radix)
        + (Digit(base, i - 1) + (carry[i - 1] % Radix)) \div Radix
  IN  carry

AddOffset(base, offset) ==
  LET carry == Carries(base, offset)
      sum[i \in 0..Width] ==
        IF i = 0 THEN 0
        ELSE sum[i - 1] + Power[i - 1] * ((Digit(base, i - 1) + carry[i - 1]) % Radix)
  IN  IF carry[Width] # 0 THEN NoAddress ELSE sum[Width]

(***************************************************************************)
(* Allocate: the next free ports and the next free addresses, or nothing.  *)
(***************************************************************************)
In(ip, prefix) == prefix.lo <= ip /\ ip <= prefix.hi

Ports(proxies) == {proxies[i].port : i \in DOMAIN proxies}
Texts(proxies) == {proxies[i].text : i \in DOMAIN proxies}

\* The n smallest elements of S in order; S has that many.
Smallest(n, S) ==
  [k \in 1..n |-> CHOOSE x \in S : Cardinality({y \in S : y < x}) = k - 1]

\* Mutant of FreePorts: the port of the keepalive listener is handed out as well.
FreePortsAll(st) == {p \in st.nextPort..(LastPort + 1) : p \notin Ports(st.proxies)}

FreePorts(st) == {p \in st.nextPort..LastPort : p \notin Ports(st.proxies)}

\* Mutant of FreeOffsets: addresses in use are not skipped.
FreeOffsetsUnchecked(st) ==
  {o \in st.nextOffset..Space : In(AddOffset(st.prefix.lo, o), st.prefix)}

\* Used addresses are recognised by their text.
FreeOffsets(st) ==
  {o \in st.nextOffset..Space :
     /\ In(AddOffset(st.prefix.lo, o), st.prefix)
     /\ Spelled(AddOffset(st.prefix.lo, o)) \notin Texts(st.proxies)}

\* Credentials are custom, the same for all, or random, different for all.
Custom == 1
Credentials(port, pass) == IF pass = 0 THEN [user |-> Custom + 1 + port, pass |-> port]
                                       ELSE [user |-> Custom, pass |-> pass]

CanAllocate(st, n) == Cardinality(FreePorts(st)) >= n /\ Cardinality(FreeOffsets(st)) >= n

\* Mutant of NextPort: a port that is free now, though it was handed out before.
NextPortReusing(ports, st) == FirstPort

NextPort(ports, st) == ports[Len(ports)] + 1

Allocate(st, n, pass) ==
  LET ports   == Smallest(n, FreePorts(st))
      offsets == Smallest(n, FreeOffsets(st))
      created == [k \in 1..n |->
                    [port    |-> ports[k],
                     text    |-> Spelled(AddOffset(st.prefix.lo, offsets[k])),
                     cred    |-> Credentials(ports[k], pass),
                     enabled |-> TRUE]]
  IN  [st EXCEPT !.proxies = @ \o created,
                 !.nextPort = NextPort(ports, st), !.nextOffset = offsets[n] + 1]

(***************************************************************************)
(* What can be rendered and prepared.  User 0 stands for a name, or a      *)
(* password, that is not valid.                                            *)
(***************************************************************************)
EnabledIn(proxies) == {i \in DOMAIN proxies : proxies[i].enabled}

\* Mutant of Renders: passwords of the same user are not compared.
RendersConflicts(proxies) ==
  \A i \in EnabledIn(proxies) :
    /\ proxies[i].cred.user # 0 /\ proxies[i].port \in MinPort..(LastPort + 1)
    /\ \A j \in EnabledIn(proxies) : proxies[i].port = proxies[j].port => i = j

Renders(proxies) ==
  \A i \in EnabledIn(proxies) :
    /\ proxies[i].cred.user # 0
    /\ proxies[i].port \in MinPort..(LastPort + 1)
    /\ \A j \in EnabledIn(proxies) :
         /\ proxies[i].port = proxies[j].port => i = j
         /\ proxies[i].cred.user = proxies[j].cred.user
              => proxies[i].cred.pass = proxies[j].cred.pass

Routed(proxies, prefix) == \A i \in EnabledIn(proxies) : In(proxies[i].text.ip, prefix)

\* The enabled proxies up to the first that is not routed: those whose
\* addresses get bound, in the order of the list, before an error ends it.
Bindable(proxies, prefix) ==
  {i \in EnabledIn(proxies) : \A j \in EnabledIn(proxies) : j <= i => In(proxies[j].text.ip, prefix)}

(***************************************************************************)
(* Lists: what FormatList writes, what a submitted list matches (the first *)
(* proxy with the same port and credentials), and what is imported.        *)
(***************************************************************************)
Entry(p) == [port |-> p.port, cred |-> p.cred]

\* What comes before proxy i in the list; of one port, the earlier one does.
Before(proxies, i) ==
  {j \in DOMAIN proxies : \/ proxies[j].port < proxies[i].port
                          \/ proxies[j].port = proxies[i].port /\ j < i}
FormatList(proxies) ==
  [k \in DOMAIN proxies |->
     Entry(proxies[CHOOSE i \in DOMAIN proxies : Cardinality(Before(proxies, i)) = k - 1])]

Matched(proxies, entries) ==
  {i \in DOMAIN proxies : /\ Entry(proxies[i]) \in entries
                          /\ \A j \in 1..(i - 1) : Entry(proxies[j]) # Entry(proxies[i])}

Without(proxies, S) ==
  LET kept == DOMAIN proxies \ S IN
  [k \in 1..Cardinality(kept) |-> proxies[Smallest(Cardinality(kept), kept)[k]]]

ListAction(st, entries, action) ==
  [st EXCEPT !.proxies =
     IF action = "delete" THEN Without(@, Matched(@, entries))
     ELSE [i \in DOMAIN @ |-> IF i \in Matched(@, entries)
                              THEN [@[i] EXCEPT !.enabled = action = "enable"] ELSE @[i]]]

\* importExisting: the entries whose port has a service in the old configuration.
Imported(st, entries, services) ==
  LET kept == Without(entries, {i \in DOMAIN entries : entries[i].port \notin DOMAIN services})
      ends == {st.nextPort} \union {kept[i].port + 1 : i \in DOMAIN kept}
  IN  [st EXCEPT !.proxies = [i \in DOMAIN kept |->
                                [port |-> kept[i].port, text |-> services[kept[i].port],
                                 cred |-> kept[i].cred, enabled |-> TRUE]],
                 !.nextPort = CHOOSE p \in ends : \A q \in ends : q <= p]
=============================================================================
