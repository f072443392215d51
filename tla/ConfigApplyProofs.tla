-------------------------- MODULE ConfigApplyProofs --------------------------
(***************************************************************************)
(* Proofs about ConfigApply, for any number of proxies, requests, restarts *)
(* and faults of every kind: what a request that has been answered leaves  *)
(* behind, although prepare and the engine ran beside it, and that it      *)
(* implements AtomicApply.                                                 *)
(***************************************************************************)
EXTENDS ConfigRefinement, TLAPS

(***************************************************************************)
(* Types.                                                                  *)
(***************************************************************************)
EngRecord == [phase : EngPhases, loaded : Config, todo : SUBSET Proxy, snap : Config]

OpRecord == [pc : OpPCs, ctx : {"open", "cancelled"}, orig : Config, cand : Config,
             todo : SUBSET Proxy, added : SUBSET Proxy, old : SUBSET Proxy, oldRead : BOOLEAN,
             stored : BOOLEAN, again : BOOLEAN, outcome : Outcome]

\* What is still to be bound, the candidate enables.
TypeInv == TypeOK /\ (At("adding") => op.todo \subseteq On(op.cand))

LEMMA ListsType ==
  ASSUME NEW c
  PROVE  On(c) \in SUBSET Proxy /\ Present(c) \in SUBSET Proxy /\ On(c) \subseteq Present(c)
BY DEF On, Present

LEMMA TargetsType ==
  ASSUME NEW c \in Config, NEW d \in Targets(c)
  PROVE  d \in Config
BY DEF Targets, With, Config, Mode

LEMMA NothingType == Nothing \in Config
BY DEF Nothing, Config, Mode

LEMMA EngineAtType ==
  ASSUME NEW ph \in EngPhases
  PROVE  EngineAt(ph) \in EngRecord /\ EngineAt(ph).phase = ph
BY NothingType DEF EngineAt, EngRecord

LEMMA ServingType ==
  ASSUME NEW c \in Config
  PROVE  Serving(c) \in EngRecord /\ Serving(c).phase = "run" /\ Serving(c).snap = c
BY NothingType DEF Serving, EngineAt, EngRecord, EngPhases

LEMMA NoOpType ==
  ASSUME NEW c \in Config
  PROVE  NoOp(c) \in OpRecord
BY DEF NoOp, OpRecord, OpPCs, Outcome

\* The record of the request after it has been answered.
LEMMA AnswerType ==
  ASSUME op \in OpRecord, NEW said \in Outcome, Answer(said)
  PROVE  /\ op' \in OpRecord
         /\ op'.pc = "idle" /\ op'.outcome = said /\ op'.stored = FALSE
         /\ op'.orig = op.orig /\ op'.cand = op.cand /\ op'.added = op.added
BY DEF Answer, NoOp, OpRecord, OpPCs, Outcome

LEMMA ToType ==
  ASSUME op \in OpRecord, NEW pc \in OpPCs, To(pc)
  PROVE  /\ op' \in OpRecord /\ op'.pc = pc
         /\ op'.orig = op.orig /\ op'.cand = op.cand /\ op'.added = op.added
         /\ op'.todo = op.todo /\ op'.stored = op.stored /\ op'.outcome = op.outcome
         /\ op'.oldRead = op.oldRead
BY DEF To, OpRecord

LEMMA RollBackType ==
  ASSUME op \in OpRecord, NEW said \in Outcome, RollBack(said)
  PROVE  /\ op' \in OpRecord /\ op'.pc = "rbSave" /\ op'.outcome = said
         /\ op'.orig = op.orig /\ op'.cand = op.cand /\ op'.added = op.added
         /\ op'.todo = op.todo /\ op'.stored = op.stored /\ op'.oldRead = op.oldRead
BY DEF RollBack, OpRecord, OpPCs

\* A look that failed: once more from the restart, or the rollback.
LEMMA UnstableType ==
  ASSUME op \in OpRecord, Unstable
  PROVE  /\ op' \in OpRecord
         /\ op'.pc = "restart" \/ (op'.pc = "rbSave" /\ op'.outcome = "restored")
         /\ op'.orig = op.orig /\ op'.cand = op.cand /\ op'.added = op.added
         /\ op'.todo = op.todo /\ op'.stored = op.stored /\ op'.oldRead = op.oldRead
<1>1. CASE op.again
  BY <1>1, RollBackType DEF Unstable, Outcome
<1>2. CASE ~op.again
  <2>1. op' = [op EXCEPT !.pc = "restart", !.again = TRUE]
    BY <1>2 DEF Unstable
  <2> QED BY <2>1 DEF OpRecord, OpPCs
<1> QED BY <1>1, <1>2

\* The removal loop shrinks its list or answers.
LEMMA RemoveAtType ==
  ASSUME op \in OpRecord, addrs \in SUBSET Proxy, NEW pc, NEW said \in Outcome, RemoveAt(pc, said)
  PROVE  /\ op.pc = pc /\ op' \in OpRecord /\ addrs' \in SUBSET Proxy
         /\ op'.orig = op.orig /\ op'.cand = op.cand /\ op'.added = op.added
         /\ \/ /\ op'.pc = op.pc /\ op'.stored = op.stored /\ op'.outcome = op.outcome
               /\ op'.todo \subseteq op.todo
               /\ addrs' \subseteq addrs /\ addrs \ op.todo \subseteq addrs'
            \/ /\ op'.pc = "idle" /\ op'.outcome = said /\ addrs' = addrs
<1>1. At(pc)
  BY DEF RemoveAt
<1>2. CASE Answer(said) /\ UNCHANGED addrs
  BY <1>1, <1>2, AnswerType DEF At
<1>3. CASE \E a \in op.todo :
             /\ op' = [op EXCEPT !.todo = @ \ {a}]
             /\ addrs' = addrs \ {a} \/ UNCHANGED addrs
  BY <1>1, <1>3 DEF At, OpRecord
<1> QED BY <1>2, <1>3 DEF RemoveAt

LEMMA InitType == Init => TypeInv
<1> SUFFICES ASSUME Init PROVE TypeInv
  OBVIOUS
<1>1. saved \in Config /\ addrs \in SUBSET Proxy /\ cfg \in SUBSET Proxy /\ full \in SUBSET Proxy
  BY ListsType DEF Init
<1>2. eng \in EngRecord
  BY <1>1, EngineAtType, ServingType DEF Init, EngPhases
<1>3. op \in OpRecord /\ op.added \subseteq On(op.cand) /\ op.pc = "idle"
  BY <1>1, NoOpType DEF Init, NoOp
<1> QED BY <1>1, <1>2, <1>3 DEF Init, TypeInv, TypeOK, EngRecord, OpRecord, At

\* Only the engine service runs: the request, the saved state and the history
\* are left alone.
LEMMA EngineStepType ==
  ASSUME TypeInv, EngineStep \/ EngineDies
  PROVE  TypeInv' /\ UNCHANGED <<saved, op, lost>>
<1>0. /\ eng \in EngRecord /\ saved \in Config /\ ApplyAssumption
      /\ addrs \subseteq Proxy /\ faults \in Nat
  BY ApplyAssumption DEF TypeInv, TypeOK, EngRecord
<1>1. UNCHANGED <<saved, op, lost, ops>>
  BY DEF EngineStep, EngineDies, PrepLoad, PrepInspect, PrepAdd, PrepConfig, PrepLists, PrepFails,
         EngineBoots, AutoRestart, files
<1>2. eng' \in EngRecord
  <2>1. CASE PrepLoad
    BY <1>0, <2>1 DEF PrepLoad, EngRecord, EngPhases
  <2>2. CASE PrepInspect
    BY <1>0, <2>2, ListsType DEF PrepInspect, EngRecord, EngPhases
  <2>3. CASE PrepAdd
    BY <1>0, <2>3 DEF PrepAdd, EngRecord
  <2>4. CASE PrepConfig
    BY <1>0, <2>4 DEF PrepConfig, EngRecord, EngPhases
  <2>5. CASE PrepLists \/ PrepFails \/ EngineDies \/ AutoRestart
    BY <2>5, EngineAtType DEF PrepLists, PrepFails, EngineDies, AutoRestart, EngPhases
  <2>6. CASE EngineBoots
    BY <1>0, <2>6, ServingType DEF EngineBoots
  <2> QED BY <2>1, <2>2, <2>3, <2>4, <2>5, <2>6 DEF EngineStep
<1>3. addrs' \in SUBSET Proxy /\ cfg' \in SUBSET Proxy /\ full' \in SUBSET Proxy
  BY <1>0, ListsType DEF EngineStep, EngineDies, PrepLoad, PrepInspect, PrepAdd, PrepConfig,
     PrepLists, PrepFails, EngineBoots, AutoRestart, files, EngRecord, TypeInv, TypeOK
<1>4. job' \in {"none", "running", "ok", "failed"} /\ samePID' \in BOOLEAN
  BY DEF EngineStep, EngineDies, PrepLoad, PrepInspect, PrepAdd, PrepConfig, PrepLists, PrepFails,
         EngineBoots, AutoRestart, files, TypeInv, TypeOK, EndJob
<1>5. faults' \in Nat
  BY <1>0 DEF EngineStep, EngineDies, PrepLoad, PrepInspect, PrepAdd, PrepConfig, PrepLists, PrepFails,
         EngineBoots, AutoRestart, Fault, NoFault
<1> QED BY <1>1, <1>2, <1>3, <1>4, <1>5 DEF TypeInv, TypeOK, EngRecord, At

\* The request keeps its record well-formed, what it found and what it wants.
LEMMA OpRecordKept ==
  ASSUME TypeInv, OpStep
  PROVE  /\ op' \in OpRecord /\ op'.orig = op.orig /\ op'.cand = op.cand
         /\ op'.added \subseteq On(op.cand)
         /\ op'.pc = "adding" => op'.todo \subseteq On(op.cand)
<1>0. /\ op \in OpRecord /\ op.added \subseteq On(op.cand) /\ addrs \in SUBSET Proxy
      /\ cfg \in SUBSET Proxy
      /\ op.pc = "adding" => op.todo \subseteq On(op.cand)
  BY DEF TypeInv, TypeOK, OpRecord, At
<1> USE DEF Outcome
<1>1. CASE Inspect
  <2>1. CASE op' = [op EXCEPT !.pc = "adding", !.todo = On(op.cand) \ (addrs \union Outside)]
    BY <1>0, <2>1, ListsType DEF OpRecord, OpPCs
  <2> QED BY <1>0, <1>1, <2>1, AnswerType DEF Inspect
<1>2. CASE AddAddress
  <2>0. op.pc = "adding"
    BY <1>2 DEF AddAddress, At
  <2>1. PICK a \in op.todo :
          \/ op' = [op EXCEPT !.todo = @ \ {a}, !.added = @ \union {a}]
          \/ op' = [op EXCEPT !.pc = "undo", !.todo = op.added]
    BY <1>2 DEF AddAddress
  <2>2. CASE op' = [op EXCEPT !.pc = "undo", !.todo = op.added]
    BY <1>0, <2>2 DEF OpRecord, OpPCs
  <2>3. CASE op' = [op EXCEPT !.todo = @ \ {a}, !.added = @ \union {a}]
    BY <1>0, <2>0, <2>3 DEF OpRecord
  <2> QED BY <2>1, <2>2, <2>3
<1>3. CASE OutsidePrefix
  BY <1>0, <1>3, AnswerType DEF OutsidePrefix
<1>4. CASE Undo \/ Purge \/ RollbackRemove
  BY <1>0, <1>4, RemoveAtType DEF Undo, Purge, RollbackRemove, OpRecord
<1>5. CASE WriteConfig
  <2>1. CASE op' = [op EXCEPT !.pc = "save", !.old = cfg, !.oldRead = TRUE]
    BY <1>0, <2>1 DEF OpRecord, OpPCs
  <2>2. CASE To("save") \/ Answer("failed")
    BY <1>0, <2>2, ToType, AnswerType DEF OpPCs
  <2> QED BY <1>5, <2>1, <2>2 DEF WriteConfig
<1>6. CASE SaveState
  <2>1. CASE op' = [op EXCEPT !.pc = "restart", !.stored = TRUE]
    BY <1>0, <2>1 DEF OpRecord, OpPCs
  <2> QED BY <1>0, <1>6, <2>1, RollBackType DEF SaveState
<1>7. CASE Restart
  BY <1>0, <1>7, ToType, RollBackType DEF Restart, OpPCs
<1>8. CASE Wait
  BY <1>0, <1>8, ToType, RollBackType DEF Wait, OpPCs
<1>9. CASE FirstLook \/ SecondLook
  BY <1>0, <1>9, ToType, UnstableType DEF FirstLook, SecondLook, OpPCs
<1>10. CASE WriteLists
  <2>1. CASE op' = [op EXCEPT !.pc = "purge", !.todo = Present(op.orig) \ Present(op.cand)]
    BY <1>0, <2>1, ListsType DEF OpRecord, OpPCs
  <2> QED BY <1>0, <1>10, <2>1, RollBackType DEF WriteLists
<1>11. CASE RollbackSave \/ RollbackConfig \/ RollbackRestart \/ RollbackWait
  BY <1>0, <1>11, ToType DEF RollbackSave, RollbackConfig, RollbackRestart, RollbackWait, OpPCs
<1>12. CASE RollbackLists
  <2>1. op' = [op EXCEPT !.pc = "rbRemove", !.todo = op.added]
    BY <1>12 DEF RollbackLists
  <2> QED BY <1>0, <2>1 DEF OpRecord, OpPCs
<1> QED BY <1>1, <1>2, <1>3, <1>4, <1>5, <1>6, <1>7, <1>8, <1>9, <1>10, <1>11, <1>12 DEF OpStep

LEMMA RestartJobType ==
  ASSUME RestartJob
  PROVE  /\ eng' \in EngRecord /\ eng'.phase = "load" /\ job' = "running" /\ samePID' = FALSE
BY EngineAtType DEF RestartJob, EngPhases

LEMMA OpStepType ==
  ASSUME TypeInv, OpStep
  PROVE  TypeInv'
<1>0. /\ op \in OpRecord /\ addrs \in SUBSET Proxy /\ saved \in Config
      /\ cfg \in SUBSET Proxy /\ full \in SUBSET Proxy /\ faults \in Nat /\ lost \in BOOLEAN
  BY DEF TypeInv, TypeOK, OpRecord
<1>1. /\ op' \in OpRecord /\ op'.added \subseteq On(op'.cand)
      /\ op'.pc = "adding" => op'.todo \subseteq On(op'.cand)
  BY OpRecordKept
<1>2. UNCHANGED ops
  BY DEF OpStep, Inspect, AddAddress, OutsidePrefix, Undo, WriteConfig, SaveState, Restart, Wait,
         FirstLook, SecondLook, WriteLists, Purge, RollbackSave, RollbackConfig,
         RollbackRestart, RollbackWait, RollbackLists, RollbackRemove, RemoveAt
<1>3. eng' \in EngRecord
  BY RestartJobType DEF OpStep, Inspect, AddAddress, OutsidePrefix, Undo, WriteConfig, SaveState,
         Restart, Wait, FirstLook, SecondLook, WriteLists, Purge, RollbackSave,
         RollbackConfig, RollbackRestart, RollbackWait, RollbackLists, RollbackRemove, RemoveAt,
         TypeInv, TypeOK, EngRecord
<1>4. job' \in {"none", "running", "ok", "failed"}
  BY DEF OpStep, Inspect, AddAddress, OutsidePrefix, Undo, WriteConfig, SaveState, Restart, Wait,
         FirstLook, SecondLook, WriteLists, Purge, RollbackSave, RollbackConfig,
         RollbackRestart, RollbackWait, RollbackLists, RollbackRemove, RemoveAt, RestartJob, TypeInv, TypeOK
<1>5. samePID' \in BOOLEAN
  BY Zenon DEF OpStep, Inspect, AddAddress, OutsidePrefix, Undo, WriteConfig, SaveState, Restart, Wait,
         FirstLook, SecondLook, WriteLists, Purge, RollbackSave, RollbackConfig,
         RollbackRestart, RollbackWait, RollbackLists, RollbackRemove, RemoveAt, RestartJob, TypeInv, TypeOK
<1>6. lost' \in BOOLEAN
  BY <1>0 DEF OpStep, Inspect, AddAddress, OutsidePrefix, Undo, WriteConfig, SaveState, Restart,
         Wait, FirstLook, SecondLook, WriteLists, Purge, RollbackSave, RollbackConfig,
         RollbackRestart, RollbackWait, RollbackLists, RollbackRemove, RemoveAt
<1>7. faults' \in Nat
  <2>1. \A k : Fault(k) => faults' \in Nat
    BY <1>0 DEF Fault
  <2>2. NoFault \/ CommandWorks \/ CommandFails => faults' \in Nat
    BY <1>0, <2>1 DEF NoFault, CommandWorks, CommandFails
  <2> QED BY <1>0, <2>1, <2>2 DEF OpStep, Inspect, AddAddress, OutsidePrefix, Undo, WriteConfig,
         SaveState, Restart, Wait, FirstLook, SecondLook, WriteLists, Purge, RollbackSave,
         RollbackConfig, RollbackRestart, RollbackWait, RollbackLists, RollbackRemove, RemoveAt
<1>8. addrs' \in SUBSET Proxy
  <2>1. op.todo \in SUBSET Proxy
    BY <1>0 DEF OpRecord
  <2> QED BY <1>0, <2>1 DEF OpStep, Inspect, AddAddress, OutsidePrefix, Undo, WriteConfig, SaveState,
         Restart, Wait, FirstLook, SecondLook, WriteLists, Purge, RollbackSave,
         RollbackConfig, RollbackRestart, RollbackWait, RollbackLists, RollbackRemove, RemoveAt
<1>9. saved' \in Config /\ cfg' \in SUBSET Proxy /\ full' \in SUBSET Proxy
  <2>1. op.orig \in Config /\ op.cand \in Config /\ op.old \in SUBSET Proxy
    BY <1>0 DEF OpRecord
  <2> QED BY <1>0, <2>1, ListsType DEF OpStep, Inspect, AddAddress, OutsidePrefix, Undo, WriteConfig,
         SaveState, Restart, Wait, FirstLook, SecondLook, WriteLists, Purge,
         RollbackSave, RollbackConfig, RollbackRestart, RollbackWait, RollbackLists, RollbackRemove,
         RemoveAt, files
<1> QED BY <1>1, <1>2, <1>3, <1>4, <1>5, <1>6, <1>7, <1>8, <1>9 DEF TypeInv, TypeOK, OpRecord, EngRecord, At

\* A request begins, the client leaves, the process dies or the host restarts.
LEMMA OutsideStepType ==
  ASSUME TypeInv, Begin \/ ClientLeaves \/ DashboardDies \/ Reboot
  PROVE  TypeInv'
<1>0. /\ op \in OpRecord /\ op.added \subseteq On(op.cand) /\ saved \in Config /\ ops \in Nat
      /\ eng \in EngRecord /\ faults \in Nat
  BY DEF TypeInv, TypeOK, OpRecord, EngRecord
<1>1. faults' \in Nat /\ ops' \in Nat
  <2>1. \A k : Fault(k) => faults' \in Nat
    BY <1>0 DEF Fault
  <2>2. faults' \in Nat
    BY <1>0, <2>1, Zenon DEF Begin, ClientLeaves, DashboardDies, Reboot
  <2>3. ops' = ops \/ ops' = ops + 1
    BY Zenon DEF Begin, ClientLeaves, DashboardDies, Reboot
  <2> QED BY <1>0, <2>2, <2>3
<1>2. eng' \in EngRecord
  BY <1>0, EngineAtType DEF Begin, ClientLeaves, DashboardDies, Reboot, EngPhases
<1>3. /\ op' \in OpRecord /\ op'.added \subseteq On(op'.cand)
      /\ op'.pc = "adding" => op'.todo \subseteq On(op'.cand)
  <2>1. CASE Begin
    <3>1. PICK c \in Targets(saved) : op' = [NoOp(saved) EXCEPT !.pc = "inspect", !.cand = c]
      BY <2>1 DEF Begin
    <3>2. c \in Config
      BY <1>0, TargetsType
    <3> QED BY <1>0, <3>1, <3>2 DEF NoOp, OpRecord, OpPCs, Outcome
  <2>2. CASE ClientLeaves
    BY <1>0, <2>2 DEF ClientLeaves, OpRecord, TypeInv, At
  <2>3. CASE DashboardDies \/ Reboot
    BY <1>0, <2>3, AnswerType DEF DashboardDies, Reboot, Outcome, TypeInv, At
  <2> QED BY <2>1, <2>2, <2>3
<1>4. UNCHANGED files /\ addrs' \in SUBSET Proxy /\ samePID' \in BOOLEAN /\ lost' \in BOOLEAN
      /\ job' \in {"none", "running", "ok", "failed"}
  BY Zenon DEF Begin, ClientLeaves, DashboardDies, Reboot, files, TypeInv, TypeOK
<1> QED BY <1>1, <1>2, <1>3, <1>4 DEF TypeInv, TypeOK, EngRecord, OpRecord, files, At

LEMMA NextType == TypeInv /\ [Next]_vars => TypeInv'
<1> SUFFICES ASSUME TypeInv, [Next]_vars PROVE TypeInv'
  OBVIOUS
<1>1. CASE UNCHANGED vars
  BY <1>1 DEF vars, files, TypeInv, TypeOK, At
<1> QED BY <1>1, EngineStepType, OpStepType, OutsideStepType DEF Next, Rest

LEMMA TypeInvariant == Spec => []TypeInv
BY InitType, NextType, PTL DEF Spec

\* Every variable of the request, prepare and the engine keeps its type, and a
\* request has bound nothing but addresses its candidate enables, so that an
\* undo or a rollback cannot remove any other.
THEOREM TypeCorrect == Spec => []TypeOK
<1>1. TypeInv => TypeOK
  BY DEF TypeInv
<1> QED BY <1>1, TypeInvariant, PTL

-----------------------------------------------------------------------------
(***************************************************************************)
(* What each step of the request does to its record, where that is more    *)
(* than moving on.  Same says which of the fields no step touches.         *)
(***************************************************************************)
Same == op'.orig = op.orig /\ op'.cand = op.cand

LEMMA InspectMoves ==
  ASSUME op \in OpRecord, Inspect
  PROVE  /\ op.pc = "inspect" /\ Same /\ op'.added = op.added
         /\ \/ /\ op'.pc = "adding" /\ op'.stored = op.stored
               /\ op'.todo = On(op.cand) \ (addrs \union Outside)
            \/ op'.pc = "idle" /\ op'.outcome = "failed"
<1>1. CASE op' = [op EXCEPT !.pc = "adding", !.todo = On(op.cand) \ (addrs \union Outside)]
  BY <1>1 DEF Inspect, At, OpRecord, Same
<1> QED BY <1>1, AnswerType DEF Inspect, At, Outcome, Same

LEMMA AddAddressMoves ==
  ASSUME op \in OpRecord, AddAddress
  PROVE  /\ op.pc = "adding" /\ Same /\ op'.stored = op.stored
         /\ \/ /\ op'.pc = "adding"
               /\ \E a \in op.todo : /\ addrs' = addrs \union {a}
                                    /\ op'.todo = op.todo \ {a}
                                    /\ op'.added = op.added \union {a}
            \/ /\ op'.pc = "undo" /\ op'.todo = op.added /\ op'.added = op.added
               /\ addrs' = addrs
<1>1. op.pc = "adding"
  BY DEF AddAddress, At
<1>2. PICK a \in op.todo :
        \/ /\ addrs' = addrs \union {a}
           /\ op' = [op EXCEPT !.todo = @ \ {a}, !.added = @ \union {a}]
        \/ op' = [op EXCEPT !.pc = "undo", !.todo = op.added] /\ addrs' = addrs
  BY DEF AddAddress
<1>3. CASE op' = [op EXCEPT !.pc = "undo", !.todo = op.added]
  BY <1>1, <1>2, <1>3 DEF OpRecord, Same
<1>4. CASE op' = [op EXCEPT !.todo = @ \ {a}, !.added = @ \union {a}]
  <2>1. addrs' = addrs \union {a}
    BY <1>1, <1>2, <1>4 DEF OpRecord
  <2>2. /\ op'.pc = op.pc /\ Same /\ op'.stored = op.stored
        /\ op'.todo = op.todo \ {a} /\ op'.added = op.added \union {a}
    BY <1>4 DEF OpRecord, Same
  <2> QED BY <1>1, <2>1, <2>2
<1> QED BY <1>2, <1>3, <1>4

LEMMA WriteConfigMoves ==
  ASSUME op \in OpRecord, WriteConfig
  PROVE  /\ op.pc = "adding" /\ op.todo = {} /\ Same /\ op'.added = op.added
         /\ On(op.cand) \intersect Outside = {}
         /\ \/ op'.pc = "save" /\ op'.stored = op.stored
            \/ op'.pc = "idle" /\ op'.outcome = "failed"
<1>1. CASE op' = [op EXCEPT !.pc = "save", !.old = cfg, !.oldRead = TRUE]
  <2>1. op'.pc = "save" /\ Same /\ op'.added = op.added
    BY <1>1 DEF OpRecord, Same
  <2>2. op'.stored = op.stored
    BY <1>1 DEF OpRecord
  <2> QED BY <2>1, <2>2 DEF WriteConfig, At
<1>2. CASE To("save")
  BY <1>2, ToType DEF WriteConfig, At, OpPCs, Same
<1> QED BY <1>1, <1>2, AnswerType DEF WriteConfig, At, Outcome, Same

LEMMA SaveStateMoves ==
  ASSUME op \in OpRecord, SaveState
  PROVE  /\ op.pc = "save" /\ Same /\ op'.added = op.added
         /\ \/ op'.pc = "restart" /\ op'.stored = TRUE /\ saved' = op.cand
            \/ /\ op'.pc = "rbSave" /\ op'.stored = op.stored /\ op'.outcome = "failed"
               /\ saved' = saved
<1>1. CASE saved' = op.cand /\ op' = [op EXCEPT !.pc = "restart", !.stored = TRUE]
  BY <1>1 DEF SaveState, At, OpRecord, Same
<1> QED BY <1>1, RollBackType DEF SaveState, At, Outcome, Same

LEMMA WriteListsMoves ==
  ASSUME op \in OpRecord, WriteLists
  PROVE  /\ op.pc = "lists" /\ Same /\ op'.added = op.added /\ op'.stored = op.stored
         /\ \/ /\ op'.pc = "purge" /\ op'.todo = Present(op.orig) \ Present(op.cand)
               /\ full' = Present(op.cand)
            \/ op'.pc = "rbSave" /\ op'.outcome = "failed"
<1>1. CASE /\ full' = Present(op.cand)
           /\ op' = [op EXCEPT !.pc = "purge", !.todo = Present(op.orig) \ Present(op.cand)]
  BY <1>1 DEF WriteLists, At, OpRecord, Same
<1> QED BY <1>1, RollBackType DEF WriteLists, At, Outcome, Same

LEMMA RollbackListsMoves ==
  ASSUME op \in OpRecord, RollbackLists
  PROVE  /\ op.pc = "rbLists" /\ Same /\ op'.added = op.added /\ op'.stored = op.stored
         /\ op'.outcome = op.outcome /\ op'.pc = "rbRemove" /\ op'.todo = op.added
BY DEF RollbackLists, At, OpRecord, Same

LEMMA BeginMoves ==
  ASSUME saved \in Config, Begin
  PROVE  /\ op.pc = "idle" /\ op'.pc = "inspect" /\ op'.orig = saved /\ op'.cand \in Config
         /\ op'.stored = FALSE /\ op'.added = {} /\ op'.outcome = "none"
         /\ UNCHANGED <<files, addrs, eng, lost>>
<1>1. PICK c \in Targets(saved) : op' = [NoOp(saved) EXCEPT !.pc = "inspect", !.cand = c]
  BY DEF Begin
<1>2. c \in Config
  BY TargetsType
<1> QED BY <1>1, <1>2 DEF Begin, At, NoOp

LEMMA ClientLeavesMoves ==
  ASSUME op \in OpRecord, ClientLeaves
  PROVE  /\ op.pc # "idle" /\ op'.pc = op.pc /\ Same /\ op'.stored = op.stored
         /\ op'.added = op.added /\ op'.todo = op.todo /\ op'.outcome = op.outcome
         /\ UNCHANGED <<files, addrs, eng, lost>>
BY DEF ClientLeaves, At, OpRecord, Same

-----------------------------------------------------------------------------
(***************************************************************************)
(* The inductive invariant.                                                *)
(***************************************************************************)
Early   == {"inspect", "adding", "undo", "save"}
Tried   == {"wait", "first", "second", "lists", "purge"}
Undoing == {"rbConfig", "rbRestart", "rbWait", "rbLists", "rbRemove"}
Refused == {"failed", "restored"}

\* Every rollback so far, if any, was complete.
Complete == ~lost \/ "rollback" \notin FaultKinds

\* Which configuration is saved, by how far the request has come.
SavedInv ==
  /\ op.pc \in Early => saved = op.orig /\ ~op.stored
  /\ op.pc \in Tried \union {"restart"} => saved = op.cand /\ op.stored
  /\ op.pc \in {"rbSave"} \union Undoing => op.outcome \in Refused
  /\ op.pc = "rbSave" => saved = IF op.stored THEN op.cand ELSE op.orig
  /\ op.pc \in Undoing => saved \in {op.orig, op.cand}
  /\ op.pc \in Undoing /\ (Complete \/ ~op.stored) => saved = op.orig
  /\ op.pc = "idle" /\ op.outcome = "ok" => saved = op.cand
  /\ op.pc = "idle" /\ op.outcome \in Refused /\ Complete => saved = op.orig

\* The engine serves the saved configuration, or prepare has loaded it.
Follows ==
  /\ eng.phase \in {"inspect", "add", "list"} => eng.loaded = saved
  /\ eng.phase = "run" => eng.snap = saved

\* The restart on the candidate happened after it was saved, and nothing has
\* undone it since.
OnCandidate == op.pc \in Tried \/ (op.pc = "idle" /\ op.outcome = "ok")

\* What was restored in the state has been restored in the engine.
Settled ==
  \/ op.pc \in {"idle", "rbWait", "rbLists", "rbRemove"} \union Early
  \/ op.pc \in {"rbSave", "rbConfig", "rbRestart"} /\ ~op.stored

EngineInv == OnCandidate \/ (Settled /\ ~lost) => Follows

\* From the restart on, prepare redoes for the candidate what the request did.
CandidateInv ==
  /\ OnCandidate =>
       /\ eng.phase = "add" => On(saved) \ Outside \subseteq eng.todo \union addrs
       /\ eng.phase \in {"list", "boot", "run"} => cfg = On(saved) /\ On(saved) \subseteq addrs
  /\ OnCandidate /\ op.pc \in {"second", "lists", "purge", "idle"} => cfg = On(saved)
  /\ OnCandidate /\ op.pc \in {"purge", "idle"} => full = Present(saved)
  /\ op.pc = "purge" => op.todo \intersect Present(saved) = {}

\* Without a reboot the addresses of the original stay bound until the candidate
\* is in force, and those of the candidate from when they were bound.
BoundInv ==
  "reboot" \notin FaultKinds /\ ~lost =>
    /\ eng.phase = "run" => On(eng.snap) \ Outside \subseteq addrs
    /\ op.pc = "idle" => On(saved) \ Outside \subseteq addrs
    /\ op.pc \notin {"idle", "purge"} => /\ On(op.orig) \ Outside \subseteq addrs
                                        /\ op.added \intersect On(op.orig) = {}
    /\ op.pc = "adding" => /\ On(op.cand) \ Outside \subseteq op.todo \union addrs
                           /\ op.todo \intersect On(op.orig) = {}
    /\ op.pc \in {"undo", "rbRemove"} => op.todo \subseteq op.added
    /\ op.pc \notin {"idle", "inspect", "adding", "undo", "rbRemove"}
         => On(op.cand) \ Outside \subseteq addrs

(***************************************************************************)
(* What is saved.                                                          *)
(***************************************************************************)
LEMMA CompleteBefore ==
  ASSUME TypeInv, OpStep
  PROVE  Complete' => Complete
<1>1. lost \in BOOLEAN
  BY DEF TypeInv, TypeOK
<1>2. lost' = lost \/ lost' = TRUE \/ lost' = (lost \/ ~op.oldRead)
  BY Zenon DEF OpStep, Inspect, AddAddress, OutsidePrefix, Undo, WriteConfig, SaveState, Restart,
         Wait, FirstLook, SecondLook, WriteLists, Purge, RollbackSave, RollbackConfig,
         RollbackRestart, RollbackWait, RollbackLists, RollbackRemove, RemoveAt
<1> QED BY <1>1, <1>2 DEF Complete

LEMMA OpStepSaved ==
  ASSUME TypeInv, SavedInv, OpStep
  PROVE  SavedInv'
<1>0. /\ op \in OpRecord /\ addrs \in SUBSET Proxy /\ op.outcome \in Outcome
      /\ (Complete' => Complete)
  BY CompleteBefore DEF TypeInv, TypeOK, OpRecord
<1> USE DEF SavedInv, Early, Tried, Undoing, Refused, Same
<1>1. CASE Inspect
  BY <1>0, <1>1, InspectMoves DEF Inspect, files
<1>2. CASE AddAddress
  BY <1>0, <1>2, AddAddressMoves DEF AddAddress, files
<1>3. CASE OutsidePrefix
  BY <1>0, <1>3, AnswerType DEF OutsidePrefix, files, At, Outcome
<1>4. CASE Undo
  BY <1>0, <1>4, RemoveAtType DEF Undo, RemoveAt, files, Outcome
<1>5. CASE WriteConfig
  BY <1>0, <1>5, WriteConfigMoves DEF WriteConfig
<1>6. CASE SaveState
  BY <1>0, <1>6, SaveStateMoves
<1>7. CASE Restart
  BY <1>0, <1>7, ToType, RollBackType DEF Restart, files, At, Outcome, OpPCs
<1>8. CASE Wait
  BY <1>0, <1>8, ToType, RollBackType DEF Wait, files, At, Outcome, OpPCs
<1>9. CASE FirstLook \/ SecondLook
  BY <1>0, <1>9, ToType, UnstableType DEF FirstLook, SecondLook, files, At, OpPCs
<1>10. CASE WriteLists
  BY <1>0, <1>10, WriteListsMoves DEF WriteLists
<1>11. CASE Purge
  BY <1>0, <1>11, RemoveAtType DEF Purge, RemoveAt, files, Outcome
<1>12. CASE RollbackSave
  <2>1. \/ op.stored /\ saved' = op.orig
        \/ op.stored /\ "rollback" \in FaultKinds /\ lost' = TRUE /\ saved' = saved
        \/ ~op.stored /\ saved' = saved
    BY <1>12 DEF RollbackSave, Fault
  <2>2. op.pc = "rbSave" /\ op'.pc \in {"rbConfig", "rbLists"}
    BY <1>0, <1>12, ToType DEF RollbackSave, At, OpPCs
  <2>3. op'.orig = op.orig /\ op'.cand = op.cand /\ op'.stored = op.stored /\ op'.outcome = op.outcome
    BY <1>0, <1>12, ToType DEF RollbackSave, At, OpPCs
  <2> QED BY <2>1, <2>2, <2>3 DEF Complete
<1>13. CASE RollbackConfig
  BY <1>0, <1>13, ToType DEF RollbackConfig, At, OpPCs
<1>14. CASE RollbackRestart
  BY <1>0, <1>14, ToType DEF RollbackRestart, At, OpPCs, files
<1>15. CASE RollbackWait
  BY <1>0, <1>15, ToType DEF RollbackWait, At, OpPCs, files
<1>16. CASE RollbackLists
  BY <1>0, <1>16, RollbackListsMoves DEF RollbackLists
<1>17. CASE RollbackRemove
  BY <1>0, <1>17, RemoveAtType DEF RollbackRemove, RemoveAt, files
<1> QED BY <1>1, <1>2, <1>3, <1>4, <1>5, <1>6, <1>7, <1>8, <1>9, <1>10, <1>11, <1>12, <1>13,
           <1>14, <1>15, <1>16, <1>17 DEF OpStep

\* The steps of systemd, of prepare, of the engine, and of the world outside.
LEMMA OtherStepSaved ==
  ASSUME TypeInv, SavedInv,
         EngineStep \/ EngineDies \/ Begin \/ ClientLeaves \/ DashboardDies \/ Reboot
  PROVE  SavedInv'
<1>0. op \in OpRecord /\ saved \in Config
  BY DEF TypeInv, TypeOK, OpRecord
<1> USE DEF SavedInv, Early, Tried, Undoing, Refused, Same, Complete
<1>1. CASE EngineStep \/ EngineDies
  BY <1>1, EngineStepType
<1>2. CASE Begin
  BY <1>0, <1>2, BeginMoves DEF files
<1>3. CASE ClientLeaves
  BY <1>0, <1>3, ClientLeavesMoves DEF files
<1>4. CASE DashboardDies
  BY <1>0, <1>4, AnswerType DEF DashboardDies, Outcome
<1>5. CASE Reboot
  BY <1>0, <1>5, AnswerType DEF Reboot, Outcome, files
<1> QED BY <1>1, <1>2, <1>3, <1>4, <1>5

(***************************************************************************)
(* What the engine serves.                                                 *)
(***************************************************************************)
\* Whatever was true of the engine and the saved state stays true while
\* prepare and the engine go on, since both load what is saved.
LEMMA EngineStepFollows ==
  ASSUME TypeInv, Follows, EngineStep \/ EngineDies
  PROVE  Follows'
<1>0. eng \in EngRecord /\ saved \in Config /\ saved' = saved
  BY EngineStepType DEF TypeInv, TypeOK, EngRecord
<1> USE DEF Follows
<1>1. CASE PrepLoad
  BY <1>0, <1>1 DEF PrepLoad, EngRecord
<1>2. CASE PrepInspect
  BY <1>0, <1>2 DEF PrepInspect, EngRecord
<1>3. CASE PrepAdd
  BY <1>0, <1>3 DEF PrepAdd, EngRecord
<1>4. CASE PrepConfig
  BY <1>0, <1>4 DEF PrepConfig, EngRecord
<1>5. CASE PrepLists \/ PrepFails \/ EngineDies \/ AutoRestart
  BY <1>0, <1>5, EngineAtType DEF PrepLists, PrepFails, EngineDies, AutoRestart, EngPhases
<1>6. CASE EngineBoots
  BY <1>0, <1>6, ServingType DEF EngineBoots
<1> QED BY <1>1, <1>2, <1>3, <1>4, <1>5, <1>6 DEF EngineStep

\* A restart makes prepare load the saved state afresh.
LEMMA RestartFollows ==
  ASSUME RestartJob \/ eng' = EngineAt("load")
  PROVE  Follows'
BY EngineAtType DEF RestartJob, Follows, EngPhases

LEMMA OpStepEngine ==
  ASSUME TypeInv, SavedInv, EngineInv, OpStep
  PROVE  EngineInv'
<1>0. op \in OpRecord /\ addrs \in SUBSET Proxy /\ op.outcome \in Outcome /\ lost \in BOOLEAN
  BY DEF TypeInv, TypeOK, OpRecord
<1>a. ASSUME UNCHANGED <<eng, saved>> PROVE Follows' = Follows
  BY <1>a DEF Follows
<1> USE DEF EngineInv, OnCandidate, Settled, Early, Tried
<1>1. CASE Inspect
  BY <1>0, <1>a, <1>1, InspectMoves DEF Inspect, files
<1>2. CASE AddAddress
  BY <1>0, <1>a, <1>2, AddAddressMoves DEF AddAddress, files
<1>3. CASE OutsidePrefix
  BY <1>0, <1>a, <1>3, AnswerType DEF OutsidePrefix, files, At, Outcome
<1>4. CASE Undo
  BY <1>0, <1>a, <1>4, RemoveAtType DEF Undo, RemoveAt, files, Outcome
<1>5. CASE WriteConfig
  BY <1>0, <1>a, <1>5, WriteConfigMoves DEF WriteConfig
<1>6. CASE SaveState
  BY <1>0, <1>a, <1>6, SaveStateMoves DEF SaveState, SavedInv
<1>7. CASE Restart
  BY <1>0, <1>7, ToType, RollBackType, RestartFollows DEF Restart, At, Outcome, OpPCs, SavedInv
<1>8. CASE Wait
  BY <1>0, <1>a, <1>8, ToType, RollBackType DEF Wait, files, At, Outcome, OpPCs, SavedInv
<1>9. CASE FirstLook \/ SecondLook
  BY <1>0, <1>a, <1>9, ToType, UnstableType DEF FirstLook, SecondLook, files, At, OpPCs, SavedInv
<1>10. CASE WriteLists
  BY <1>0, <1>a, <1>10, WriteListsMoves DEF WriteLists, SavedInv
<1>11. CASE Purge
  BY <1>0, <1>a, <1>11, RemoveAtType DEF Purge, RemoveAt, files, Outcome
<1>12. CASE RollbackSave
  <2>1. /\ UNCHANGED eng
        /\ \/ op.stored /\ (lost' \/ op.oldRead)
           \/ ~op.stored /\ saved' = saved /\ lost' = lost
    BY <1>12 DEF RollbackSave
  <2>2. /\ op.pc = "rbSave" /\ op'.pc = IF op.oldRead THEN "rbConfig" ELSE "rbLists"
        /\ op'.stored = op.stored
    BY <1>0, <1>12, ToType DEF RollbackSave, At, OpPCs
  <2> QED BY <1>a, <2>1, <2>2
<1>13. CASE RollbackConfig
  <2>1. op.pc = "rbConfig" /\ op'.pc = "rbRestart" /\ op'.stored = op.stored
    BY <1>0, <1>13, ToType DEF RollbackConfig, At, OpPCs
  <2>2. UNCHANGED <<eng, saved>> /\ (lost' \/ lost' = lost)
    BY <1>13 DEF RollbackConfig
  <2> QED BY <1>a, <2>1, <2>2
<1>14. CASE RollbackRestart
  <2>1. op.pc = "rbRestart" /\ op'.pc \in {"rbWait", "rbLists"} /\ (op'.pc = "rbLists" => lost')
    BY <1>0, <1>14, ToType DEF RollbackRestart, At, OpPCs
  <2>2. op'.pc = "rbWait" => RestartJob
    BY <1>0, <1>14, ToType DEF RollbackRestart, At, OpPCs
  <2> QED BY <2>1, <2>2, RestartFollows
<1>15. CASE RollbackWait
  BY <1>0, <1>a, <1>15, ToType DEF RollbackWait, At, OpPCs, files
<1>16. CASE RollbackLists
  <2>1. UNCHANGED <<eng, saved>> /\ (lost' \/ lost' = lost)
    BY <1>16 DEF RollbackLists
  <2> QED BY <1>0, <1>a, <1>16, <2>1, RollbackListsMoves
<1>17. CASE RollbackRemove
  BY <1>0, <1>a, <1>17, RemoveAtType DEF RollbackRemove, RemoveAt, files, SavedInv, Undoing, Refused
<1> QED BY <1>1, <1>2, <1>3, <1>4, <1>5, <1>6, <1>7, <1>8, <1>9, <1>10, <1>11, <1>12, <1>13,
           <1>14, <1>15, <1>16, <1>17 DEF OpStep

LEMMA OtherStepEngine ==
  ASSUME TypeInv, SavedInv, EngineInv,
         EngineStep \/ EngineDies \/ Begin \/ ClientLeaves \/ DashboardDies \/ Reboot
  PROVE  EngineInv'
<1>0. op \in OpRecord /\ saved \in Config
  BY DEF TypeInv, TypeOK, OpRecord
<1>a. ASSUME UNCHANGED <<eng, saved>> PROVE Follows' = Follows
  BY <1>a DEF Follows
<1> USE DEF EngineInv, OnCandidate, Settled, Early, Tried
<1>1. CASE EngineStep \/ EngineDies
  BY <1>1, EngineStepType, EngineStepFollows
<1>2. CASE Begin
  BY <1>0, <1>2, <1>a, BeginMoves DEF files
<1>3. CASE ClientLeaves
  BY <1>0, <1>3, <1>a, ClientLeavesMoves DEF files
<1>4. CASE DashboardDies
  BY <1>0, <1>4, AnswerType DEF DashboardDies, Outcome
<1>5. CASE Reboot
  BY <1>5, RestartFollows DEF Reboot
<1> QED BY <1>1, <1>2, <1>3, <1>4, <1>5

(***************************************************************************)
(* The candidate in the generated files and on the interface.              *)
(***************************************************************************)
\* What prepare has done for the saved configuration by the phase it is in.
Prepared ==
  /\ eng.phase = "add" => On(saved) \ Outside \subseteq eng.todo \union addrs
  /\ eng.phase \in {"list", "boot", "run"} => cfg = On(saved) /\ On(saved) \subseteq addrs

LEMMA EngineStepPrepares ==
  ASSUME TypeInv, Follows, Prepared, EngineStep \/ EngineDies
  PROVE  /\ Prepared'
         /\ cfg = On(saved) => cfg' = On(saved)
         /\ full = Present(saved) => full' = Present(saved)
<1>0. eng \in EngRecord /\ saved' = saved
  BY EngineStepType DEF TypeInv, TypeOK, EngRecord
<1> USE DEF Follows, Prepared
<1>1. CASE PrepLoad
  BY <1>0, <1>1 DEF PrepLoad, EngRecord, files
<1>2. CASE PrepInspect
  BY <1>0, <1>2 DEF PrepInspect, EngRecord, files
<1>3. CASE PrepAdd
  BY <1>0, <1>3 DEF PrepAdd, EngRecord, files
<1>4. CASE PrepConfig
  <2>1. eng.phase = "add" /\ eng.todo = {} /\ eng.loaded = saved /\ cfg' = On(saved)
        /\ addrs' = addrs /\ full' = full /\ On(saved) \intersect Outside = {}
    BY <1>4 DEF PrepConfig
  <2>2. eng'.phase = "list"
    BY <1>0, <1>4 DEF PrepConfig, EngRecord
  <2> QED BY <1>0, <2>1, <2>2
<1>5. CASE PrepLists
  BY <1>0, <1>5, EngineAtType DEF PrepLists, EngPhases
<1>6. CASE PrepFails \/ EngineDies \/ AutoRestart
  BY <1>0, <1>6, EngineAtType DEF PrepFails, EngineDies, AutoRestart, EngPhases, files
<1>7. CASE EngineBoots
  BY <1>0, <1>7, ServingType DEF EngineBoots, files
<1> QED BY <1>1, <1>2, <1>3, <1>4, <1>5, <1>6, <1>7 DEF EngineStep

LEMMA OpStepCandidate ==
  ASSUME TypeInv, SavedInv, CandidateInv, OpStep
  PROVE  CandidateInv'
<1>0. op \in OpRecord /\ addrs \in SUBSET Proxy /\ op.outcome \in Outcome
      /\ On(saved) \subseteq Present(saved)
  BY ListsType DEF TypeInv, TypeOK, OpRecord
<1> USE DEF CandidateInv, OnCandidate, Tried
<1>1. CASE Inspect
  BY <1>0, <1>1, InspectMoves
<1>2. CASE AddAddress
  BY <1>0, <1>2, AddAddressMoves
<1>3. CASE OutsidePrefix
  BY <1>0, <1>3, AnswerType DEF OutsidePrefix, Outcome
<1>4. CASE Undo
  BY <1>0, <1>4, RemoveAtType DEF Undo, Outcome
<1>5. CASE WriteConfig
  BY <1>0, <1>5, WriteConfigMoves
<1>6. CASE SaveState
  BY <1>0, <1>6, SaveStateMoves
<1>7. CASE Restart
  BY <1>0, <1>7, ToType, RollBackType, RestartJobType DEF Restart, At, Outcome, OpPCs
<1>8. CASE Wait
  BY <1>0, <1>8, ToType, RollBackType DEF Wait, files, At, Outcome, OpPCs
<1>9. CASE FirstLook
  BY <1>0, <1>9, ToType, UnstableType DEF FirstLook, files, At, OpPCs
<1>10. CASE SecondLook
  BY <1>0, <1>10, ToType, UnstableType DEF SecondLook, files, At, OpPCs
<1>11. CASE WriteLists
  <2>1. UNCHANGED <<saved, cfg, addrs, eng>>
    BY <1>11 DEF WriteLists
  <2> QED BY <1>0, <1>11, <2>1, WriteListsMoves DEF SavedInv
<1>12. CASE Purge
  <2>1. UNCHANGED <<saved, cfg, full, eng>>
    BY <1>12 DEF Purge, RemoveAt, files
  <2>2. op.pc = "purge" /\ addrs \ op.todo \subseteq addrs'
        /\ \/ op'.pc = "purge" /\ op'.todo \subseteq op.todo
           \/ op'.pc = "idle" /\ op'.outcome = "ok"
    BY <1>0, <1>12, RemoveAtType DEF Purge, Outcome
  <2>3. op.todo \intersect On(saved) = {}
    BY <1>0, <2>2
  <2> QED BY <2>1, <2>2, <2>3
<1>13. CASE RollbackSave \/ RollbackConfig \/ RollbackRestart \/ RollbackWait
  BY <1>0, <1>13, ToType DEF RollbackSave, RollbackConfig, RollbackRestart, RollbackWait, OpPCs
<1>14. CASE RollbackLists
  BY <1>0, <1>14, RollbackListsMoves
<1>15. CASE RollbackRemove
  BY <1>0, <1>15, RemoveAtType DEF RollbackRemove, SavedInv, Undoing, Refused
<1> QED BY <1>1, <1>2, <1>3, <1>4, <1>5, <1>6, <1>7, <1>8, <1>9, <1>10, <1>11, <1>12, <1>13,
           <1>14, <1>15 DEF OpStep

LEMMA OtherStepCandidate ==
  ASSUME TypeInv, SavedInv, EngineInv, CandidateInv,
         EngineStep \/ EngineDies \/ Begin \/ ClientLeaves \/ DashboardDies \/ Reboot
  PROVE  CandidateInv'
<1>0. op \in OpRecord /\ saved \in Config
  BY DEF TypeInv, TypeOK, OpRecord
<1> USE DEF CandidateInv, OnCandidate, Tried
<1>1. CASE EngineStep \/ EngineDies
  <2>1. OnCandidate => Follows /\ Prepared
    BY DEF EngineInv, Prepared
  <2>2. UNCHANGED <<saved, op>>
    BY <1>1, EngineStepType
  <2> QED BY <1>1, <2>1, <2>2, EngineStepPrepares DEF Prepared
<1>2. CASE Begin
  BY <1>0, <1>2, BeginMoves
<1>3. CASE ClientLeaves
  BY <1>0, <1>3, ClientLeavesMoves DEF files
<1>4. CASE DashboardDies
  BY <1>0, <1>4, AnswerType DEF DashboardDies, Outcome
<1>5. CASE Reboot
  <2>1. eng'.phase = "load" /\ UNCHANGED files
    BY <1>5, EngineAtType DEF Reboot, EngPhases
  <2>2. \/ UNCHANGED op /\ op.pc = "idle"
        \/ op'.pc = "idle" /\ op'.outcome = "crashed"
    BY <1>0, <1>5, AnswerType DEF Reboot, Outcome, At
  <2> QED BY <2>1, <2>2 DEF files
<1> QED BY <1>1, <1>2, <1>3, <1>4, <1>5

(***************************************************************************)
(* The addresses.                                                          *)
(***************************************************************************)
LEMMA EngineStepBound ==
  ASSUME TypeInv, SavedInv, BoundInv, EngineStep \/ EngineDies
  PROVE  BoundInv'
<1>0. eng \in EngRecord /\ op \in OpRecord /\ saved \in Config
      /\ UNCHANGED <<saved, op, lost>> /\ op.pc \in OpPCs
  BY EngineStepType DEF TypeInv, TypeOK, EngRecord, OpRecord
<1>1. addrs \subseteq addrs'
  BY DEF EngineStep, EngineDies, PrepLoad, PrepInspect, PrepAdd, PrepConfig, PrepLists, PrepFails,
         EngineBoots, AutoRestart
<1>2. eng'.phase = "run" => \/ eng.phase = "run" /\ eng'.snap = eng.snap
                            \/ eng'.snap = saved /\ UNCHANGED addrs /\ eng.phase = "boot"
  <2>1. CASE EngineBoots
    BY <1>0, <2>1, ServingType DEF EngineBoots
  <2>2. CASE PrepLoad \/ PrepInspect \/ PrepConfig
    BY <1>0, <2>2 DEF PrepLoad, PrepInspect, PrepConfig, EngRecord
  <2>3. CASE PrepAdd
    BY <1>0, <2>3 DEF PrepAdd, EngRecord
  <2>4. CASE PrepLists \/ PrepFails \/ EngineDies \/ AutoRestart
    BY <2>4, EngineAtType DEF PrepLists, PrepFails, EngineDies, AutoRestart, EngPhases
  <2> QED BY <2>1, <2>2, <2>3, <2>4 DEF EngineStep
<1>3. "reboot" \notin FaultKinds /\ ~lost => On(saved) \ Outside \subseteq addrs
  <2> USE DEF SavedInv, BoundInv, Early, Tried, Undoing, Complete
  <2>1. CASE op.pc \in {"idle"} \union Early
    BY <2>1
  <2>2. CASE op.pc \in Tried \union {"restart", "rbSave"}
    BY <2>2
  <2>3. CASE op.pc \in Undoing
    BY <2>3
  <2> QED BY <1>0, <2>1, <2>2, <2>3 DEF OpPCs
<1> QED BY <1>0, <1>1, <1>2, <1>3 DEF BoundInv

\* A step of the request that neither moves addresses nor the engine's snapshot.
LEMMA BoundFrame ==
  ASSUME TypeInv, BoundInv, UNCHANGED addrs, lost => lost',
         eng' = eng \/ eng'.phase # "run",
         Same, op'.added = op.added, UNCHANGED saved \/ op'.pc # "idle",
         op.pc \notin {"idle", "inspect", "adding", "undo", "rbRemove", "purge"},
         op'.pc \notin {"idle", "inspect", "adding", "undo", "rbRemove"}
  PROVE  BoundInv'
BY DEF BoundInv, Same

LEMMA OpStepBound ==
  ASSUME TypeInv, SavedInv, EngineInv, CandidateInv, BoundInv, OpStep
  PROVE  BoundInv'
<1>0. /\ op \in OpRecord /\ addrs \in SUBSET Proxy /\ op.outcome \in Outcome /\ lost \in BOOLEAN
      /\ op.orig \in Config /\ op.cand \in Config
      /\ On(op.orig) \subseteq Present(op.orig) /\ On(op.cand) \subseteq Present(op.cand)
  BY ListsType DEF TypeInv, TypeOK, OpRecord
<1>1. CASE Inspect
  <2>1. UNCHANGED <<saved, addrs, eng, lost>>
    BY <1>1 DEF Inspect, files
  <2> QED BY <1>0, <1>1, <2>1, InspectMoves DEF BoundInv, Same, SavedInv, Early
<1>2. CASE AddAddress
  <2>1. UNCHANGED <<saved, eng, lost>>
    BY <1>2 DEF AddAddress, files
  <2>2. op.pc = "adding" /\ Same
    BY <1>0, <1>2, AddAddressMoves
  <2>3. CASE /\ op'.pc = "undo" /\ op'.todo = op.added /\ op'.added = op.added
             /\ addrs' = addrs
    BY <2>1, <2>2, <2>3 DEF BoundInv, Same
  <2>4. CASE op'.pc = "adding" /\ \E a \in op.todo : /\ addrs' = addrs \union {a}
                                                     /\ op'.todo = op.todo \ {a}
                                                     /\ op'.added = op.added \union {a}
    BY <2>1, <2>2, <2>4 DEF BoundInv, Same
  <2> QED BY <1>0, <1>2, <2>3, <2>4, AddAddressMoves
<1>3. CASE OutsidePrefix
  <2>1. UNCHANGED <<saved, addrs, eng, lost>> /\ op.pc = "adding"
    BY <1>3 DEF OutsidePrefix, files, At
  <2> QED BY <1>0, <1>3, <2>1, AnswerType DEF OutsidePrefix, Outcome, BoundInv, SavedInv, Early
<1>4. CASE Undo
  <2>1. UNCHANGED <<saved, eng, lost>>
    BY <1>4 DEF Undo, RemoveAt, files
  <2>2. /\ op.pc = "undo" /\ Same /\ op'.added = op.added
        /\ \/ op'.pc = "undo" /\ op'.todo \subseteq op.todo /\ addrs \ op.todo \subseteq addrs'
           \/ op'.pc = "idle" /\ addrs' = addrs
    BY <1>0, <1>4, RemoveAtType DEF Undo, Outcome, Same
  <2>3. saved = op.orig /\ (~lost /\ eng.phase = "run" => eng.snap = saved)
    BY <2>2 DEF SavedInv, EngineInv, Settled, Early, Follows
  <2> QED BY <2>1, <2>2, <2>3 DEF BoundInv, Same
<1>5. CASE WriteConfig
  <2>1. UNCHANGED <<saved, addrs, eng, lost>>
    BY <1>5 DEF WriteConfig
  <2> QED BY <1>0, <1>5, <2>1, WriteConfigMoves DEF BoundInv, Same, SavedInv, Early
<1>6. CASE SaveState
  <2>1. UNCHANGED <<addrs, eng, lost>>
    BY <1>6 DEF SaveState
  <2> QED BY <1>0, <1>6, <2>1, SaveStateMoves, BoundFrame
<1>7. CASE Restart
  <2>1. UNCHANGED <<saved, addrs, lost>> /\ (eng' = eng \/ eng'.phase = "load")
    BY <1>7, RestartJobType DEF Restart, files
  <2> QED BY <1>0, <1>7, <2>1, ToType, RollBackType, BoundFrame DEF Restart, At, Outcome, OpPCs, Same
<1>8. CASE Wait
  <2>1. UNCHANGED <<saved, addrs, eng, lost>>
    BY <1>8 DEF Wait, files
  <2> QED BY <1>0, <1>8, <2>1, ToType, RollBackType, BoundFrame DEF Wait, At, Outcome, OpPCs, Same
<1>9. CASE FirstLook \/ SecondLook
  <2>1. UNCHANGED <<saved, addrs, eng, lost>>
    BY <1>9 DEF FirstLook, SecondLook, files
  <2> QED BY <1>0, <1>9, <2>1, ToType, UnstableType, BoundFrame
          DEF FirstLook, SecondLook, At, OpPCs, Same
<1>10. CASE WriteLists
  <2>1. UNCHANGED <<saved, addrs, eng, lost>>
    BY <1>10 DEF WriteLists
  <2> QED BY <1>0, <1>10, <2>1, WriteListsMoves, BoundFrame
<1>11. CASE Purge
  <2>1. UNCHANGED <<saved, eng, lost>>
    BY <1>11 DEF Purge, RemoveAt, files
  <2>2. /\ op.pc = "purge" /\ Same
        /\ \/ op'.pc = "purge" /\ addrs \ op.todo \subseteq addrs'
           \/ op'.pc = "idle" /\ addrs' = addrs
    BY <1>0, <1>11, RemoveAtType DEF Purge, Outcome, Same
  <2>3. /\ saved = op.cand /\ (eng.phase = "run" => eng.snap = saved)
        /\ op.todo \intersect On(op.cand) = {}
    BY <1>0, <2>2 DEF SavedInv, EngineInv, CandidateInv, OnCandidate, Tried, Follows
  <2> QED BY <2>1, <2>2, <2>3 DEF BoundInv, Same
<1>12. CASE RollbackSave
  <2>1. UNCHANGED <<addrs, eng>> /\ (lost => lost')
    BY <1>0, <1>12 DEF RollbackSave
  <2> QED BY <1>0, <1>12, <2>1, ToType, BoundFrame DEF RollbackSave, At, OpPCs, Same
<1>13. CASE RollbackConfig
  <2>1. UNCHANGED <<addrs, eng>> /\ (lost => lost')
    BY <1>0, <1>13 DEF RollbackConfig
  <2> QED BY <1>0, <1>13, <2>1, ToType, BoundFrame DEF RollbackConfig, At, OpPCs, Same
<1>14. CASE RollbackRestart
  <2>1. (RestartJob /\ lost' = lost) \/ (eng' = eng /\ lost' = TRUE)
    BY <1>14, Zenon DEF RollbackRestart
  <2>2. UNCHANGED addrs /\ (lost => lost')
    BY <1>14, <2>1 DEF RollbackRestart
  <2>3. eng' = eng \/ eng'.phase = "load"
    BY <2>1, RestartJobType
  <2> QED BY <1>0, <1>14, <2>2, <2>3, ToType, BoundFrame DEF RollbackRestart, At, OpPCs, Same
<1>15. CASE RollbackWait
  <2>1. UNCHANGED <<addrs, eng, lost>>
    BY <1>15 DEF RollbackWait
  <2> QED BY <1>0, <1>15, <2>1, ToType, BoundFrame DEF RollbackWait, At, OpPCs, Same
<1>16. CASE RollbackLists
  <2>1. UNCHANGED <<addrs, eng>> /\ (lost => lost')
    BY <1>0, <1>16 DEF RollbackLists
  <2> QED BY <1>0, <1>16, <2>1, RollbackListsMoves DEF BoundInv, Same
<1>17. CASE RollbackRemove
  <2>1. UNCHANGED <<saved, eng, lost>>
    BY <1>17 DEF RollbackRemove, RemoveAt, files
  <2>2. /\ op.pc = "rbRemove" /\ Same /\ op'.added = op.added
        /\ \/ op'.pc = "rbRemove" /\ op'.todo \subseteq op.todo /\ addrs \ op.todo \subseteq addrs'
           \/ op'.pc = "idle" /\ addrs' = addrs
    BY <1>0, <1>17, RemoveAtType DEF RollbackRemove, Same
  <2>3. ~lost => saved = op.orig /\ (eng.phase = "run" => eng.snap = saved)
    BY <2>2 DEF SavedInv, EngineInv, Settled, Undoing, Complete, Follows
  <2> QED BY <2>1, <2>2, <2>3 DEF BoundInv, Same
<1> QED BY <1>1, <1>2, <1>3, <1>4, <1>5, <1>6, <1>7, <1>8, <1>9, <1>10, <1>11, <1>12, <1>13,
           <1>14, <1>15, <1>16, <1>17 DEF OpStep

LEMMA OutsideStepBound ==
  ASSUME TypeInv, BoundInv, Begin \/ ClientLeaves \/ DashboardDies \/ Reboot
  PROVE  BoundInv'
<1>0. op \in OpRecord /\ saved \in Config
  BY DEF TypeInv, TypeOK, OpRecord
<1>1. CASE Begin
  BY <1>0, <1>1, BeginMoves DEF BoundInv
<1>2. CASE ClientLeaves
  BY <1>0, <1>2, ClientLeavesMoves DEF BoundInv, Same, files
<1>3. CASE DashboardDies
  BY <1>3 DEF DashboardDies, BoundInv
<1>4. CASE Reboot
  BY <1>4 DEF Reboot, Fault, BoundInv
<1> QED BY <1>1, <1>2, <1>3, <1>4

-----------------------------------------------------------------------------
(***************************************************************************)
(* The invariant holds, and what it says of a request that was answered.   *)
(***************************************************************************)
ApplyInv == TypeInv /\ SavedInv /\ EngineInv /\ CandidateInv /\ BoundInv

LEMMA InitApply == Init => ApplyInv
<1> SUFFICES ASSUME Init PROVE ApplyInv
  OBVIOUS
<1>1. TypeInv
  BY InitType
<1>2. op.pc = "idle" /\ op.outcome = "none" /\ saved \in Config
  BY DEF Init, NoOp
<1>3. eng.phase = "down" \/ (eng.phase = "run" /\ eng.snap = saved)
  BY <1>2, EngineAtType, ServingType DEF Init, EngPhases
<1>4. SavedInv
  BY <1>2 DEF SavedInv, Early, Tried, Undoing, Refused
<1>5. EngineInv
  BY <1>3 DEF EngineInv, Follows
<1>6. CandidateInv
  BY <1>2 DEF CandidateInv, OnCandidate, Tried
<1>7. BoundInv
  BY <1>2, <1>3 DEF BoundInv, Init
<1> QED BY <1>1, <1>4, <1>5, <1>6, <1>7 DEF ApplyInv

LEMMA NextApply == ApplyInv /\ [Next]_vars => ApplyInv'
<1> SUFFICES ASSUME ApplyInv, [Next]_vars PROVE ApplyInv'
  OBVIOUS
<1> USE DEF ApplyInv
<1>1. TypeInv'
  BY NextType
<1>2. CASE OpStep
  BY <1>1, <1>2, OpStepSaved, OpStepEngine, OpStepCandidate, OpStepBound
<1>3. CASE EngineStep \/ EngineDies \/ Begin \/ ClientLeaves \/ DashboardDies \/ Reboot
  BY <1>1, <1>3, OtherStepSaved, OtherStepEngine, OtherStepCandidate, EngineStepBound,
     OutsideStepBound
<1>4. CASE UNCHANGED vars
  BY <1>1, <1>4 DEF vars, files, SavedInv, EngineInv, CandidateInv, BoundInv, Complete, Follows,
                    OnCandidate, Settled
<1> QED BY <1>2, <1>3, <1>4 DEF Next, Rest

LEMMA ApplyInvariant == Spec => []ApplyInv
BY InitApply, NextApply, PTL DEF Spec

\* A request that reported success has its configuration in the saved state, in
\* both generated files, in the running engine and on the interface, although
\* prepare may have rewritten the files at any moment from what it had loaded.
THEOREM SuccessIsServed == Spec => []SuccessServed
<1>1. ApplyInv => SuccessServed
  BY DEF ApplyInv, SavedInv, EngineInv, CandidateInv, OnCandidate, Follows, SuccessServed, Running, At
<1> QED BY <1>1, ApplyInvariant, PTL

\* A request that reported a failure left the original state, and an engine that
\* serves it or will, unless a step of a rollback failed or the process died.
THEOREM FailureIsRolledBack == Spec => []RolledBack
<1>1. ApplyInv => RolledBack
  BY DEF ApplyInv, SavedInv, Refused, Complete, EngineInv, Settled, Follows, RolledBack, Running, At
<1> QED BY <1>1, ApplyInvariant, PTL

\* While the interface keeps its addresses (there is no reboot) and rollbacks are
\* complete, no undo, purge or rollback removes an address in use by the engine.
THEOREM EngineStaysBound ==
  ASSUME "reboot" \notin FaultKinds
  PROVE  Spec => []BoundWhileRunning
<1>1. ApplyInv => BoundWhileRunning
  BY DEF ApplyInv, BoundInv, BoundWhileRunning, Running
<1> QED BY <1>1, ApplyInvariant, PTL

-----------------------------------------------------------------------------
(***************************************************************************)
(* The refinement.  applyCandidate, beside prepare and the engine, is one  *)
(* atomic change of the configuration, except for a rollback whose own     *)
(* steps fail.                                                             *)
(***************************************************************************)

LEMMA InitRefines == Init => Atomic!AInit
BY DEF Init, NoOp, At, Atomic!AInit

\* The state change of the refinement mapping, in the terms of ConfigApply.
LEMMA AnswerRefines ==
  ASSUME ApplyInv, ~At("idle"), NEW said \in Outcome, Answer(said),
         \/ said = "ok" /\ saved' = op.cand
         \/ said \in Refused /\ saved' = op.orig
         \/ said = "crashed" /\ saved' \in {op.orig, op.cand}
  PROVE  Atomic!ANext
<1>1. op \in OpRecord
  BY DEF ApplyInv, TypeInv, TypeOK, OpRecord
<1>2. op'.pc = "idle" /\ op'.outcome = said
  BY <1>1, AnswerType
<1>3. op.cand # NoConfig
  BY <1>1, RefinementAssumption DEF OpRecord
<1>4. CASE said = "ok" /\ saved' = op.cand
  BY <1>2, <1>3, <1>4 DEF Atomic!ANext, Atomic!Commit, At
<1>5. CASE said \in Refused /\ saved' = op.orig
  BY <1>2, <1>3, <1>5 DEF Atomic!ANext, Atomic!Abort, At, Refused
<1>6. CASE said = "crashed" /\ saved' \in {op.orig, op.cand}
  BY <1>2, <1>3, <1>6 DEF Atomic!ANext, Atomic!Crash, At
<1> QED BY <1>4, <1>5, <1>6

\* A step that AtomicApply does not see.
Stutters == UNCHANGED <<IF At("idle") THEN saved ELSE op.orig,
                        IF At("idle") THEN NoConfig ELSE op.cand,
                        IF At("idle") THEN op.outcome ELSE "none">>

\* A step in the middle of the request is not seen.
LEMMA GoesOn ==
  ASSUME op.pc # "idle", op'.pc # "idle", Same
  PROVE  Stutters
BY DEF At, Same, Stutters

\* A step of the removal loop goes on or answers.
LEMMA RemoveAtRefines ==
  ASSUME ApplyInv, NEW pc \in {"undo", "purge", "rbRemove"}, NEW said \in Outcome,
         RemoveAt(pc, said),
         \/ said = "ok" /\ saved = op.cand
         \/ said \in Refused /\ saved = op.orig
  PROVE  Stutters \/ Atomic!ANext
<1>1. op \in OpRecord /\ op.pc = pc /\ saved' = saved
  BY DEF ApplyInv, TypeInv, TypeOK, OpRecord, RemoveAt, At, files
<1>2. CASE Answer(said)
  BY <1>1, <1>2, AnswerRefines DEF At
<1>3. CASE \E a \in op.todo : op' = [op EXCEPT !.todo = @ \ {a}]
  <2>1. op'.pc = op.pc /\ Same
    BY <1>1, <1>3 DEF OpRecord, Same
  <2> QED BY <1>1, <2>1, GoesOn
<1> QED BY <1>2, <1>3 DEF RemoveAt

LEMMA OpStepRefines ==
  ASSUME ApplyInv, "rollback" \notin FaultKinds, OpStep
  PROVE  Stutters \/ Atomic!ANext
<1>0. op \in OpRecord /\ op.outcome \in Outcome
  BY DEF ApplyInv, TypeInv, TypeOK, OpRecord
<1>a. /\ op.pc \in Early => saved = op.orig
      /\ op.pc \in Tried => saved = op.cand
      /\ op.pc \in Undoing => saved = op.orig /\ op.outcome \in Refused
  BY DEF ApplyInv, SavedInv, Complete
<1>c. ASSUME op.pc \in Early, UNCHANGED saved, Answer("failed") PROVE Atomic!ANext
  BY <1>a, <1>c, AnswerRefines DEF Early, Refused, Outcome, At
<1> USE DEF Early, Tried, Undoing
<1>1. CASE Inspect
  <2>1. CASE Answer("failed")
    BY <1>1, <1>c, <2>1 DEF Inspect, At, files
  <2>2. CASE op' = [op EXCEPT !.pc = "adding", !.todo = On(op.cand) \ (addrs \union Outside)]
    <3>1. op'.pc = "adding"
      BY <1>0, <2>2 DEF OpRecord
    <3> QED BY <1>0, <1>1, <3>1, GoesOn, InspectMoves
  <2> QED BY <1>1, <2>1, <2>2 DEF Inspect
<1>2. CASE AddAddress
  BY <1>0, <1>2, GoesOn, AddAddressMoves
<1>3. CASE OutsidePrefix
  BY <1>3, <1>c DEF OutsidePrefix, At, files
<1>4. CASE Undo
  <2>1. op.pc = "undo" /\ RemoveAt("undo", "failed")
    BY <1>4 DEF Undo, RemoveAt, At
  <2> QED BY <1>a, <2>1, RemoveAtRefines DEF Outcome, Refused
<1>5. CASE WriteConfig
  <2>1. CASE Answer("failed")
    BY <1>5, <1>c, <2>1 DEF WriteConfig, At
  <2>2. CASE To("save")
    BY <1>0, <1>5, GoesOn, <2>2, ToType, WriteConfigMoves DEF OpPCs
  <2>3. CASE op' = [op EXCEPT !.pc = "save", !.old = cfg, !.oldRead = TRUE]
    <3>1. op'.pc = "save"
      BY <1>0, <2>3 DEF OpRecord
    <3> QED BY <1>0, <1>5, <3>1, GoesOn, WriteConfigMoves
  <2> QED BY <1>5, <2>1, <2>2, <2>3 DEF WriteConfig
<1>6. CASE SaveState
  BY <1>0, <1>6, GoesOn, SaveStateMoves
<1>7. CASE Restart
  BY <1>0, <1>7, GoesOn, ToType, RollBackType DEF Restart, At, Outcome, OpPCs, Same
<1>8. CASE Wait
  BY <1>0, <1>8, GoesOn, ToType, RollBackType DEF Wait, At, Outcome, OpPCs, Same
<1>9. CASE FirstLook \/ SecondLook
  BY <1>0, <1>9, GoesOn, ToType, UnstableType DEF FirstLook, SecondLook, At, OpPCs, Same
<1>10. CASE WriteLists
  BY <1>0, <1>10, GoesOn, WriteListsMoves
<1>11. CASE Purge
  <2>1. op.pc = "purge" /\ RemoveAt("purge", "ok")
    BY <1>11 DEF Purge, RemoveAt, At
  <2> QED BY <1>a, <2>1, RemoveAtRefines DEF Outcome
<1>12. CASE RollbackSave \/ RollbackConfig \/ RollbackRestart \/ RollbackWait
  BY <1>0, <1>12, GoesOn, ToType
     DEF RollbackSave, RollbackConfig, RollbackRestart, RollbackWait, At, OpPCs, Same
<1>13. CASE RollbackLists
  BY <1>0, <1>13, GoesOn, RollbackListsMoves
<1>14. CASE RollbackRemove
  <2>1. op.pc = "rbRemove" /\ RemoveAt("rbRemove", op.outcome)
    BY <1>14 DEF RollbackRemove, RemoveAt, At
  <2> QED BY <1>0, <1>a, <2>1, RemoveAtRefines
<1> QED BY <1>1, <1>2, <1>3, <1>4, <1>5, <1>6, <1>7, <1>8, <1>9, <1>10, <1>11, <1>12, <1>13,
           <1>14 DEF OpStep

\* A crash in the middle leaves one of the two configurations.
LEMMA OldOrNew ==
  ASSUME ApplyInv, ~At("idle")
  PROVE  saved \in {op.orig, op.cand}
BY DEF ApplyInv, TypeInv, TypeOK, OpPCs, SavedInv, Early, Tried, Undoing, At

LEMMA NextRefines ==
  ASSUME ApplyInv, "rollback" \notin FaultKinds, [Next]_vars
  PROVE  Stutters \/ Atomic!ANext
<1>0. op \in OpRecord /\ saved \in Config
  BY DEF ApplyInv, TypeInv, TypeOK, OpRecord
<1>1. CASE OpStep
  BY <1>1, OpStepRefines
<1>2. CASE EngineStep \/ EngineDies
  BY <1>2, EngineStepType DEF ApplyInv, Stutters, At
<1>3. CASE Begin
  <2>1. /\ op.pc = "idle" /\ op'.pc = "inspect" /\ op'.orig = saved /\ op'.cand \in Config
        /\ saved' = saved
    BY <1>0, <1>3, BeginMoves DEF files
  <2>2. Atomic!Request(op'.cand)
    BY <2>1 DEF Atomic!Request, At
  <2> QED BY <2>1, <2>2 DEF Atomic!ANext
<1>4. CASE ClientLeaves
  BY <1>0, <1>4, ClientLeavesMoves, GoesOn
<1>5. CASE DashboardDies
  BY <1>5, OldOrNew, AnswerRefines DEF DashboardDies, files, Outcome
<1>6. CASE Reboot
  <2>1. CASE At("idle")
    BY <1>6, <2>1 DEF Reboot, files, Stutters, At
  <2>2. CASE ~At("idle")
    BY <1>6, <2>2, OldOrNew, AnswerRefines DEF Reboot, files, Outcome
  <2> QED BY <2>1, <2>2
<1>7. CASE UNCHANGED vars
  BY <1>7 DEF vars, files, Stutters, At
<1> QED BY <1>1, <1>2, <1>3, <1>4, <1>5, <1>6, <1>7 DEF Next, Rest

\* Every request is all or nothing and says which: on success the configuration
\* it computed is in force, on a failure the one it found, and a crash or reboot
\* in the middle leaves one of the two; a cancelled context, failing commands and
\* writes, and an engine that keeps dying make no difference to that.
THEOREM AtomicImplemented ==
  ASSUME "rollback" \notin FaultKinds
  PROVE  Spec => ImplementsAtomicApply
<1>1. Init => Atomic!AInit
  BY InitRefines
<1>2. ApplyInv /\ [Next]_vars
        => [Atomic!ANext]_<<IF At("idle") THEN saved ELSE op.orig,
                            IF At("idle") THEN NoConfig ELSE op.cand,
                            IF At("idle") THEN op.outcome ELSE "none">>
  BY NextRefines DEF Stutters
<1> QED BY <1>1, <1>2, ApplyInvariant, PTL DEF Spec, ImplementsAtomicApply, Atomic!ASpec
=============================================================================
