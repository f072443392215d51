---------------------------- MODULE DurableCell -----------------------------
(***************************************************************************)
(* What the state store promises its callers: one value that survives      *)
(* crashes, replaced as a whole by one of the writes under way, or not at  *)
(* all when the writer fails or dies.                                      *)
(***************************************************************************)
CONSTANTS
  Writer,   \* callers that write
  Value,    \* the values that can be stored
  Fresh     \* the value before anything was stored, one of Value

VARIABLES
  value,    \* the stored value
  pending   \* per writer, the value it is writing: a set of at most one

CInit == value = Fresh /\ pending = [w \in Writer |-> {}]

\* A writer decides what to write.
Propose(w) ==
  /\ pending[w] = {}
  /\ \E v \in Value : pending' = [pending EXCEPT ![w] = {v}]
  /\ UNCHANGED value

\* A write takes effect, all at once.
Write(w) ==
  /\ value' \in pending[w]
  /\ pending' = [pending EXCEPT ![w] = {}]

\* Some writers fail or die; what they were writing is lost.
Drop ==
  /\ \E W \in SUBSET Writer :
       pending' = [w \in Writer |-> IF w \in W THEN {} ELSE pending[w]]
  /\ UNCHANGED value

CNext == (\E w \in Writer : Propose(w) \/ Write(w)) \/ Drop

CSpec == CInit /\ [][CNext]_<<value, pending>>
=============================================================================
