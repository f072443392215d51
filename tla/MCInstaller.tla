---------------------------- MODULE MCInstaller ----------------------------
(* Installer for TLC: what the first run may find. *)
EXTENDS Installer

Text1(ip) == [ip |-> ip, canonical |-> TRUE]
Line(port, user, pass) == [port |-> port, cred |-> [user |-> user, pass |-> pass]]

Wide == [lo |-> 8, hi |-> 15]
Narrow == [lo |-> 4, hi |-> 7]
Single == [lo |-> 6, hi |-> 6]
Top == [lo |-> 14, hi |-> 15]

Fresh(routes, bound) ==
  [routes |-> routes, addrs |-> bound, list |-> <<>>, services |-> <<>>]
Older(entries, services) ==
  [routes |-> {Wide, Narrow}, addrs |-> {9}, list |-> entries, services |-> services]

MCSetups ==
  {Fresh({Narrow}, {5, 6}),             \* every address the probe looks at
   Fresh({Single}, {6}),                \* a single address
   Fresh({Top}, {}),                    \* one usable address, at the end of all
   Fresh({}, {}),                       \* no route
   Older(<<Line(3, 1, 2), Line(4, 9, 9)>>, (3 :> Text1(9)) @@ (5 :> Text1(11))),
   Older(<<Line(3, 1, 2)>>, 3 :> [ip |-> 9, canonical |-> FALSE]),
   Older(<<Line(3, 9, 9)>>, 3 :> Text1(4)),                   \* outside the prefix
   Older(<<Line(3, 9, 9), Line(3, 8, 8)>>, 3 :> Text1(10)),   \* one port twice
   Older(<<Line(3, 0, 9)>>, 3 :> Text1(10)),                  \* a user that is not valid
   Older(<<Line(6, 9, 9)>>, 6 :> Text1(10)),                  \* the last port of all
   Older(<<Line(3, 9, 9)>>, <<>>)}                            \* no services to import
=============================================================================
