-------------------------- MODULE StateStoreProofs --------------------------
(***************************************************************************)
(* Proofs about StateStore, for any number of writers, processes, crashes  *)
(* and failures: the type invariant, that the two files implement one      *)
(* durable cell, and that one process loses no update.                     *)
(***************************************************************************)
EXTENDS StateStore, TLAPS

-----------------------------------------------------------------------------
(***************************************************************************)
(* Type correctness.                                                       *)
(***************************************************************************)
LEMMA ContentType ==
  /\ Absent \in Content /\ Corrupt \in Content
  /\ \A s \in State : Bytes(s) \in Content
BY DEF Absent, Corrupt, Bytes, Content, State

LEMMA EndType ==
  ASSUME TypeOK, NEW w \in Writer, NEW pc \in PCs
  PROVE  /\ Ended(w, pc) \in WriterRecord
         /\ Ended(w, pc).pc = pc /\ Ended(w, pc).proc = writer[w].proc
<1>1. writer[w].proc \in Process \union {"none"}
  BY DEF TypeOK, WriterRecord
<1> QED BY <1>1, ContentType DEF Ended, Waiting, WriterRecord, PCs, State

LEMMA InitType == Init => TypeOK
<1> SUFFICES ASSUME Init PROVE TypeOK
  OBVIOUS
<1>1. Waiting \in WriterRecord
  BY ContentType DEF Waiting, WriterRecord, PCs, State
<1> QED BY <1>1, ContentType DEF Init, TypeOK, Waiting

\* What a writer loads is a state.
LEMMA LoadType ==
  ASSUME TypeOK
  PROVE  Load \in State
BY DEF TypeOK, Load, Content, State, NewState

LEMMA WriterStepType ==
  ASSUME TypeOK, NEW w \in Writer, WriterStep(w)
  PROVE  TypeOK'
<1> USE DEF TypeOK, At
<1>0. writer[w] \in WriterRecord
  OBVIOUS
<1>a. ASSUME NEW pc \in {"done", "failed"}, End(w, pc)
      PROVE  /\ writer' \in [Writer -> WriterRecord]
             /\ \A x \in Writer : writer'[x].pc \in {"read", "backup", "main"} => x \in writer'[x].new
  <2>1. Ended(w, pc) \in WriterRecord /\ Ended(w, pc).pc = pc
    BY EndType DEF PCs
  <2> QED BY <1>a, <2>1 DEF End
<1>1. CASE Begin(w)
  <2>1. PICK p \in Process : writer' = [writer EXCEPT ![w].pc = "load", ![w].proc = p]
    BY <1>1 DEF Begin
  <2>2. writer' \in [Writer -> WriterRecord]
    BY <1>0, <2>1 DEF WriterRecord, PCs
  <2>3. writer'[w].pc = "load" /\ \A x \in Writer \ {w} : writer'[x] = writer[x]
    BY <1>0, <2>1 DEF WriterRecord
  <2>4. \A x \in Writer : writer'[x].pc \in {"read", "backup", "main"} => x \in writer'[x].new
    BY <2>3
  <2> QED BY <1>1, <2>2, <2>4 DEF Begin, files, counts, history
<1>2. CASE LoadState(w)
  <2>0. UNCHANGED <<files, crashes, corruptions, history>> /\ failures' \in Nat
    BY <1>2 DEF LoadState, Failure
  <2>1. CASE writer' = [writer EXCEPT ![w].pc = "read", ![w].new = Load \union {w}]
    <3>1. Load \union {w} \in State
      BY LoadType DEF State
    <3>2. /\ writer' \in [Writer -> WriterRecord]
          /\ \A x \in Writer : writer'[x].pc \in {"read", "backup", "main"} => x \in writer'[x].new
      BY <1>0, <2>1, <3>1 DEF WriterRecord, PCs
    <3> QED BY <2>0, <3>2 DEF files, history
  <2>2. CASE End(w, "failed")
    BY <2>0, <2>2, <1>a DEF files, history
  <2> QED BY <1>2, <2>1, <2>2 DEF LoadState
<1>3. CASE ReadOld(w)
  <2>0. UNCHANGED <<files, crashes, corruptions, history>> /\ failures' \in Nat
    BY <1>3 DEF ReadOld, Failure
  <2>1. CASE writer' = [writer EXCEPT ![w].pc = "backup", ![w].old = main]
    BY <1>0, <1>3, <2>0, <2>1 DEF ReadOld, WriterRecord, PCs, files, history
  <2>2. CASE To(w, "main")
    BY <1>0, <1>3, <2>0, <2>2 DEF ReadOld, To, WriterRecord, PCs, files, history
  <2> QED BY <1>3, <2>1, <2>2 DEF ReadOld
<1>4. CASE WriteBackup(w)
  <2>1. CASE backup' = writer[w].old /\ To(w, "main") /\ UNCHANGED failures
    BY <1>0, <1>4, <2>1 DEF WriteBackup, To, WriterRecord, PCs, history
  <2>2. CASE Failure /\ End(w, "failed") /\ UNCHANGED backup
    BY <1>4, <2>2, <1>a DEF WriteBackup, Failure, history
  <2> QED BY <1>4, <2>1, <2>2 DEF WriteBackup
<1>5. CASE WriteMain(w)
  <2>1. Bytes(writer[w].new) \in Content
    BY <1>0, ContentType DEF WriterRecord
  <2>2. failures' \in Nat /\ skipped' \in BOOLEAN
    <3>1. CASE skipped' = (writer[w].old = Absent /\ main # Absent) /\ UNCHANGED failures
      BY <3>1
    <3>2. CASE Failure /\ UNCHANGED history
      BY <3>2 DEF Failure, history
    <3> QED BY <1>5, <3>1, <3>2 DEF WriteMain
  <2> QED BY <1>5, <1>a, <2>1, <2>2 DEF WriteMain, history
<1> QED BY <1>1, <1>2, <1>3, <1>4, <1>5 DEF WriterStep

LEMMA NextType == TypeOK /\ [Next]_vars => TypeOK'
<1> SUFFICES ASSUME TypeOK, [Next]_vars PROVE TypeOK'
  OBVIOUS
<1>1. ASSUME NEW w \in Writer, WriterStep(w) PROVE TypeOK'
  BY <1>1, WriterStepType
<1>2. ASSUME NEW p \in Process, Crash(p) PROVE TypeOK'
  <2>1. \A w \in Writer : Ended(w, "failed") \in WriterRecord /\ Ended(w, "failed").pc = "failed"
    BY <1>2, EndType DEF PCs
  <2>2. crashes' \in Nat
    BY <1>2 DEF Crash, TypeOK
  <2> QED BY <1>2, <2>1, <2>2 DEF Crash, TypeOK, files, history
<1>3. CASE CorruptMain
  BY <1>3, ContentType DEF CorruptMain, TypeOK, history
<1>4. CASE Rest
  BY <1>4 DEF Rest, TypeOK, vars, files, counts, history
<1>5. CASE UNCHANGED vars
  BY <1>5 DEF TypeOK, vars, files, counts, history
<1> QED BY <1>1, <1>2, <1>3, <1>4, <1>5 DEF Next

\* Every variable keeps its type, and a writer that is saving saves its change.
THEOREM TypeCorrect == Spec => []TypeOK
BY InitType, NextType, PTL DEF Spec

-----------------------------------------------------------------------------
(***************************************************************************)
(* Refinement.  Until it is damaged from outside, the state file parses,   *)
(* so that its content is the value that is loaded.                        *)
(***************************************************************************)
Sound == TypeOK /\ (corruptions = 0 => main.kind # "corrupt")

\* What a step does to the state file; damage is counted.
LEMMA MainStep ==
  ASSUME TypeOK, [Next]_vars
  PROVE  \/ UNCHANGED <<main, corruptions>>
         \/ (\E s : main' = Bytes(s)) /\ UNCHANGED corruptions
         \/ corruptions' # 0
<1>1. ASSUME NEW w \in Writer, WriterStep(w)
      PROVE  (main' = main \/ \E s : main' = Bytes(s)) /\ corruptions' = corruptions
  BY <1>1 DEF WriterStep, Begin, LoadState, ReadOld, WriteBackup, WriteMain, files, counts
<1>2. ASSUME NEW p \in Process, Crash(p) PROVE UNCHANGED <<main, corruptions>>
  BY <1>2 DEF Crash, files
<1>3. CASE CorruptMain
  BY <1>3 DEF CorruptMain, TypeOK
<1>4. CASE Rest \/ UNCHANGED vars
  BY <1>4 DEF Rest, vars, files, counts
<1> QED BY <1>1, <1>2, <1>3, <1>4 DEF Next

LEMMA SoundInvariant == Spec => []Sound
<1>1. Init => Sound
  BY InitType DEF Init, Sound, Absent
<1>2. Sound /\ [Next]_vars => Sound'
  <2> SUFFICES ASSUME Sound, [Next]_vars PROVE Sound'
    OBVIOUS
  <2>1. TypeOK'
    BY NextType DEF Sound
  <2>2. corruptions' = 0 => main'.kind # "corrupt"
    BY MainStep DEF Sound, Bytes
  <2> QED BY <2>1, <2>2 DEF Sound
<1> QED BY <1>1, <1>2, PTL DEF Spec

Saving == {"read", "backup", "main"}

\* Writers of W stop saving, nothing else changes: a Drop of the cell.
LEMMA Dropping ==
  ASSUME NEW W \in SUBSET Writer, UNCHANGED main,
         \A w \in Writer : IF w \in W THEN writer'[w].pc \notin Saving
                                       ELSE writer'[w] = writer[w]
  PROVE  Cell!Drop
<1>1. CellPending' = [w \in Writer |-> IF w \in W THEN {} ELSE CellPending[w]]
  BY DEF CellPending, Saving
<1>2. CellValue' = CellValue
  BY DEF CellValue
<1> QED BY <1>1, <1>2 DEF Cell!Drop

\* The step that reads the old file, or does not manage to.
LEMMA ReadOldStep ==
  ASSUME TypeOK, NEW w \in Writer, ReadOld(w)
  PROVE  /\ UNCHANGED <<files, corruptions, history>> /\ At(w, "read")
         /\ writer'[w].new = writer[w].new /\ writer'[w].proc = writer[w].proc
         /\ \A x \in Writer \ {w} : writer'[x] = writer[x]
         /\ writer'[w].pc \in {"main", "backup"}
         /\ writer'[w].pc = "backup" => writer'[w].old = main /\ main.kind # "absent"
         /\ writer'[w].pc = "main" => writer'[w].old = writer[w].old
<1>0. writer[w] \in WriterRecord /\ writer \in [Writer -> WriterRecord]
  BY DEF TypeOK
<1>1. UNCHANGED <<files, corruptions, history>> /\ At(w, "read")
  BY DEF ReadOld
<1>2. CASE main.kind # "absent" /\ writer' = [writer EXCEPT ![w].pc = "backup", ![w].old = main]
  BY <1>0, <1>1, <1>2 DEF WriterRecord
<1>3. CASE To(w, "main")
  BY <1>0, <1>1, <1>3 DEF To, WriterRecord
<1> QED BY <1>2, <1>3 DEF ReadOld

LEMMA WriterStepRefines ==
  ASSUME Sound, corruptions = 0, NEW w \in Writer, WriterStep(w)
  PROVE  Cell!CNext \/ (UNCHANGED main /\ CellPending' = CellPending)
<1> USE DEF At
<1>0. writer[w] \in WriterRecord /\ writer \in [Writer -> WriterRecord]
  BY DEF Sound, TypeOK
<1>a. ASSUME NEW pc \in {"done", "failed"}, End(w, pc)
      PROVE  /\ writer'[w].pc = pc
             /\ \A x \in Writer \ {w} : writer'[x] = writer[x]
  <2>1. writer' = [writer EXCEPT ![w] = Ended(w, pc)] /\ w \in Writer
    BY <1>a DEF End
  <2>2. Ended(w, pc).pc = pc
    BY <1>a, EndType DEF Sound, PCs
  <2> QED BY <1>0, <2>1, <2>2
<1>b. ASSUME End(w, "failed"), UNCHANGED main PROVE Cell!Drop
  <2>1. \A x \in Writer : IF x \in {w} THEN writer'[x].pc \notin Saving ELSE writer'[x] = writer[x]
    BY <1>a, <1>b DEF Saving
  <2> QED BY <1>b, <2>1, Dropping
<1>1. CASE Begin(w)
  <2>1. PICK p \in Process : writer' = [writer EXCEPT ![w].pc = "load", ![w].proc = p]
    BY <1>1 DEF Begin
  <2>2. \A x \in Writer : IF x = w THEN writer[x].pc = "idle" /\ writer'[x].pc = "load"
                                    ELSE writer'[x] = writer[x]
    BY <1>0, <1>1, <2>1 DEF Begin, WriterRecord
  <2>3. CellPending' = CellPending
    BY <2>2 DEF CellPending, Saving
  <2> QED BY <1>1, <2>3 DEF Begin, files
<1>2. CASE LoadState(w)
  <2>1. CASE End(w, "failed")
    <3>1. UNCHANGED main
      BY <1>2 DEF LoadState, files
    <3> QED BY <2>1, <3>1, <1>b DEF Cell!CNext
  <2>2. CASE writer' = [writer EXCEPT ![w].pc = "read", ![w].new = Load \union {w}]
    <3>1. Load \union {w} \in State
      BY LoadType DEF Sound, State
    <3>2. CellPending[w] = {}
      BY <1>2 DEF LoadState, CellPending, Saving
    <3>3. \A x \in Writer : IF x = w THEN /\ writer'[x].pc = "read"
                                         /\ writer'[x].new = Load \union {w}
                                    ELSE writer'[x] = writer[x]
      BY <1>0, <2>2 DEF WriterRecord
    <3>4. \A x \in Writer : CellPending'[x] = IF x = w THEN {Load \union {w}} ELSE CellPending[x]
      BY <3>3 DEF CellPending, Saving
    <3>5. CellPending' = [CellPending EXCEPT ![w] = {Load \union {w}}]
      BY <3>4 DEF CellPending
    <3>6. CellValue' = CellValue
      BY <1>2 DEF LoadState, CellValue, files
    <3>7. Cell!Propose(w)
      BY <3>1, <3>2, <3>5, <3>6 DEF Cell!Propose
    <3> QED BY <3>7 DEF Cell!CNext
  <2> QED BY <1>2, <2>1, <2>2 DEF LoadState
<1>3. CASE ReadOld(w)
  <2>1. /\ UNCHANGED files /\ writer[w].pc = "read"
        /\ writer'[w].pc \in {"main", "backup"} /\ writer'[w].new = writer[w].new
        /\ \A x \in Writer \ {w} : writer'[x] = writer[x]
    BY <1>3, ReadOldStep DEF Sound, At
  <2> QED BY <2>1 DEF CellPending, Saving, files
<1>4. CASE WriteBackup(w)
  <2>1. CASE To(w, "main")
    BY <1>0, <1>4, <2>1 DEF WriteBackup, To, CellPending, Saving, WriterRecord
  <2>2. CASE End(w, "failed")
    BY <1>4, <2>2, <1>b DEF WriteBackup, Cell!CNext
  <2> QED BY <1>4, <2>1, <2>2 DEF WriteBackup
<1>5. CASE WriteMain(w)
  <2>1. CASE main' = Bytes(writer[w].new) /\ End(w, "done")
    <3>1. CellPending[w] = {writer[w].new}
      BY <1>5 DEF WriteMain, CellPending, Saving
    <3>2. CellPending' = [CellPending EXCEPT ![w] = {}]
      BY <1>a, <2>1 DEF CellPending, Saving
    <3>3. CellValue' = writer[w].new
      BY <2>1 DEF CellValue, Bytes
    <3>4. Cell!Write(w)
      BY <3>1, <3>2, <3>3 DEF Cell!Write, CellPending, CellValue, Saving
    <3> QED BY <3>4 DEF Cell!CNext
  <2>2. CASE End(w, "failed") /\ UNCHANGED main
    BY <2>2, <1>b DEF Cell!CNext
  <2> QED BY <1>5, <2>1, <2>2 DEF WriteMain
<1> QED BY <1>1, <1>2, <1>3, <1>4, <1>5 DEF WriterStep

\* Until the file is damaged from outside, the state file and its backup, shared
\* by any number of processes that save, fail and are killed, are one durable cell.
THEOREM CellImplemented == Spec => ImplementsDurableCell
<1>1. Init => Cell!CInit
  BY DEF Init, Cell!CInit, CellValue, CellPending, Absent, Waiting, NewState
<1>2. Sound /\ [Next]_vars => [corruptions' = 0 => Cell!CNext]_<<CellValue, CellPending>>
  <2> SUFFICES ASSUME Sound, [Next]_vars, corruptions' = 0
               PROVE  Cell!CNext \/ (UNCHANGED main /\ CellPending' = CellPending)
    BY DEF CellValue
  <2>0. corruptions = 0 /\ ~CorruptMain
    BY MainStep DEF Sound, CorruptMain, TypeOK
  <2>1. ASSUME NEW w \in Writer, WriterStep(w)
        PROVE  Cell!CNext \/ (UNCHANGED main /\ CellPending' = CellPending)
    BY <2>0, <2>1, WriterStepRefines
  <2>2. ASSUME NEW p \in Process, Crash(p) PROVE Cell!CNext
    <3> DEFINE W == {w \in Writer : Busy(w) /\ writer[w].proc = p}
    <3>1. \A w \in Writer : Ended(w, "failed").pc = "failed"
      BY EndType DEF Sound, PCs
    <3>2. \A w \in Writer : IF w \in W THEN writer'[w].pc \notin Saving ELSE writer'[w] = writer[w]
      BY <2>2, <3>1 DEF Crash, Saving
    <3>3. Cell!Drop
      BY <2>2, <3>2, Dropping DEF Crash, files
    <3> QED BY <3>3 DEF Cell!CNext
  <2>3. CASE Rest \/ UNCHANGED vars
    BY <2>3 DEF Rest, vars, files, CellPending
  <2> QED BY <2>0, <2>1, <2>2, <2>3 DEF Next
<1> QED BY <1>1, <1>2, SoundInvariant, PTL DEF Spec, ImplementsDurableCell

-----------------------------------------------------------------------------
(***************************************************************************)
(* One process.  Operations of the same process exclude each other, so one *)
(* that is saving started from the state that is still in the file, unless *)
(* another process has been at work or the file was damaged.               *)
(***************************************************************************)
Exclusive ==
  \A v, w \in Writer :
    /\ Busy(v) => writer[v].proc \in Process
    /\ Busy(v) /\ Busy(w) /\ writer[v].proc = writer[w].proc => v = w

Unstarted == \A w \in Writer : At(w, "idle") => writer[w].proc = "none"

UpToDate == \A w \in Writer : writer[w].pc \in Saving => CellValue \subseteq writer[w].new

Kept == \A w \in Writer : At(w, "done") => w \in CellValue

Undisturbed == OneProcess /\ corruptions = 0

StoreInv == Exclusive /\ Unstarted /\ (Undisturbed => UpToDate /\ Kept)

LEMMA StoreInvInit == Init => StoreInv
BY DEF Init, StoreInv, Exclusive, Unstarted, UpToDate, Kept, Busy, At, Waiting, Saving

\* A process that is not forgotten: what is undisturbed after a step of w was so
\* before it.
LEMMA StillUndisturbed ==
  ASSUME NEW w \in Writer, \A x \in Writer \ {w} : writer'[x] = writer[x],
         writer[w].proc \in {"none", writer'[w].proc}, OneProcess'
  PROVE  OneProcess
BY DEF OneProcess

\* In an undisturbed store at most one operation is busy.
LEMMA AloneWhenUndisturbed ==
  ASSUME StoreInv, Undisturbed, NEW w \in Writer, Busy(w)
  PROVE  \A x \in Writer \ {w} : ~Busy(x)
BY StoreAssumption DEF StoreInv, Exclusive, Undisturbed, OneProcess

\* A step of w that leaves the state file alone and does not end in "done".
LEMMA QuietStep ==
  ASSUME Sound, StoreInv, UNCHANGED <<main, corruptions>>, NEW w \in Writer,
         \A x \in Writer \ {w} : writer'[x] = writer[x],
         writer[w].proc \in {"none", writer'[w].proc},
         ~At(w, "done")', ~At(w, "idle")',
         Busy(w)' => /\ writer'[w].proc \in Process
                     /\ \A x \in Writer \ {w} : ~(Busy(x) /\ writer[x].proc = writer'[w].proc),
         Undisturbed /\ writer'[w].pc \in Saving => CellValue \subseteq writer'[w].new
  PROVE  StoreInv'
<1>1. CellValue' = CellValue
  BY DEF CellValue
<1>2. Exclusive'
  <2>1. \A x \in Writer \ {w} : Busy(x)' = Busy(x)
    BY DEF Busy
  <2> QED BY <2>1 DEF StoreInv, Exclusive
<1>3. Unstarted'
  BY DEF StoreInv, Unstarted, At
<1>4. Undisturbed' => Undisturbed
  BY StillUndisturbed DEF Undisturbed
<1>5. Undisturbed' => UpToDate'
  BY <1>1, <1>4 DEF StoreInv, UpToDate
<1>6. Undisturbed' => Kept'
  BY <1>1, <1>4 DEF StoreInv, Kept, At
<1> QED BY <1>2, <1>3, <1>5, <1>6 DEF StoreInv

LEMMA WriterStepStoreInv ==
  ASSUME Sound, StoreInv, NEW w \in Writer, WriterStep(w)
  PROVE  StoreInv'
<1>0. writer[w] \in WriterRecord /\ writer \in [Writer -> WriterRecord]
  BY DEF Sound, TypeOK
<1>a. ASSUME NEW pc \in {"done", "failed"}, End(w, pc)
      PROVE  /\ writer'[w].pc = pc /\ writer'[w].proc = writer[w].proc
             /\ \A x \in Writer \ {w} : writer'[x] = writer[x]
  <2>1. writer' = [writer EXCEPT ![w] = Ended(w, pc)] /\ w \in Writer
    BY <1>a DEF End
  <2>2. Ended(w, pc).pc = pc /\ Ended(w, pc).proc = writer[w].proc
    BY <1>a, EndType DEF Sound, PCs
  <2> QED BY <1>0, <2>1, <2>2
<1>b. ASSUME End(w, "failed"), UNCHANGED <<main, corruptions>> PROVE StoreInv'
  <2>1. writer'[w].pc = "failed" /\ writer'[w].proc = writer[w].proc
        /\ \A x \in Writer \ {w} : writer'[x] = writer[x]
    BY <1>a, <1>b
  <2> QED BY <1>b, <2>1, QuietStep DEF At, Busy, Saving
<1>c. ASSUME Busy(w)
      PROVE  /\ writer[w].proc \in Process
             /\ \A x \in Writer \ {w} : ~(Busy(x) /\ writer[x].proc = writer[w].proc)
  BY <1>c DEF StoreInv, Exclusive
<1>1. CASE Begin(w)
  <2>1. PICK q \in Process : /\ \A x \in Writer : Busy(x) => writer[x].proc # q
                             /\ writer' = [writer EXCEPT ![w].pc = "load", ![w].proc = q]
    BY <1>1 DEF Begin
  <2>2. /\ writer'[w].pc = "load" /\ writer'[w].proc = q
        /\ \A x \in Writer \ {w} : writer'[x] = writer[x]
    BY <1>0, <2>1 DEF WriterRecord
  <2>3. writer[w].proc = "none" /\ UNCHANGED <<main, corruptions>>
    BY <1>1 DEF Begin, StoreInv, Unstarted, files, counts
  <2> QED BY <2>1, <2>2, <2>3, QuietStep DEF At, Saving
<1>2. CASE LoadState(w)
  <2>1. Busy(w) /\ UNCHANGED <<main, corruptions>>
    BY <1>2 DEF LoadState, At, Busy, files, counts
  <2>2. CASE writer' = [writer EXCEPT ![w].pc = "read", ![w].new = Load \union {w}]
    <3>2. /\ writer'[w].pc = "read" /\ writer'[w].new = Load \union {w}
          /\ writer'[w].proc = writer[w].proc
          /\ \A x \in Writer \ {w} : writer'[x] = writer[x]
      BY <1>0, <2>2 DEF WriterRecord
    <3>3. Undisturbed => Load = CellValue
      BY DEF Sound, TypeOK, Content, Undisturbed, Load, CellValue
    <3> QED BY <1>c, <2>1, <3>2, <3>3, QuietStep DEF At
  <2>3. CASE End(w, "failed")
    BY <1>b, <2>1, <2>3
  <2> QED BY <1>2, <2>2, <2>3 DEF LoadState
<1>3. CASE ReadOld(w)
  <2>1. Busy(w) /\ UNCHANGED <<main, corruptions>> /\ writer[w].pc \in Saving
    BY <1>3, ReadOldStep DEF Sound, At, Busy, Saving, files
  <2>2. /\ writer'[w].pc \in {"main", "backup"} /\ writer'[w].new = writer[w].new
        /\ writer'[w].proc = writer[w].proc
        /\ \A x \in Writer \ {w} : writer'[x] = writer[x]
    BY <1>3, ReadOldStep DEF Sound
  <2> QED BY <1>c, <2>1, <2>2, QuietStep DEF At, StoreInv, UpToDate
<1>4. CASE WriteBackup(w)
  <2>1. Busy(w) /\ UNCHANGED <<main, corruptions>> /\ writer[w].pc \in Saving
    BY <1>4 DEF WriteBackup, At, Busy, Saving
  <2>2. CASE To(w, "main")
    <3>1. /\ writer'[w].pc = "main" /\ writer'[w].new = writer[w].new
          /\ writer'[w].proc = writer[w].proc
          /\ \A x \in Writer \ {w} : writer'[x] = writer[x]
      BY <1>0, <2>2 DEF To, WriterRecord
    <3> QED BY <1>c, <2>1, <3>1, QuietStep DEF At, StoreInv, UpToDate
  <2>3. CASE End(w, "failed")
    BY <2>1, <2>3, <1>b
  <2> QED BY <1>4, <2>2, <2>3 DEF WriteBackup
<1>5. CASE WriteMain(w)
  <2>1. Busy(w) /\ writer[w].pc \in Saving /\ UNCHANGED corruptions
    BY <1>5 DEF WriteMain, At, Busy, Saving
  <2>2. CASE main' = Bytes(writer[w].new) /\ End(w, "done")
    <3>1. /\ writer'[w].pc = "done" /\ writer'[w].proc = writer[w].proc
          /\ \A x \in Writer \ {w} : writer'[x] = writer[x]
      BY <1>a, <2>2
    <3>2. Exclusive' /\ Unstarted'
      BY <3>1 DEF StoreInv, Exclusive, Unstarted, Busy, At
    <3>3. CellValue' = writer[w].new
      BY <2>2 DEF CellValue, Bytes
    <3>4. ASSUME Undisturbed' PROVE UpToDate' /\ Kept'
      <4>1. Undisturbed
        BY <2>1, <3>1, <3>4, StillUndisturbed DEF Undisturbed
      <4>2. w \in CellValue' /\ CellValue \subseteq CellValue'
        BY <2>1, <3>3, <4>1 DEF Sound, TypeOK, StoreInv, UpToDate, Saving
      <4>3. \A x \in Writer : writer'[x].pc \notin Saving
        BY <2>1, <3>1, <4>1, AloneWhenUndisturbed DEF Busy, Saving
      <4>4. Kept'
        BY <3>1, <4>1, <4>2 DEF StoreInv, Kept, At
      <4> QED BY <4>3, <4>4 DEF UpToDate
    <3> QED BY <3>2, <3>4 DEF StoreInv
  <2>3. CASE End(w, "failed") /\ UNCHANGED main
    BY <2>1, <2>3, <1>b
  <2> QED BY <1>5, <2>2, <2>3 DEF WriteMain
<1> QED BY <1>1, <1>2, <1>3, <1>4, <1>5 DEF WriterStep

LEMMA StoreInvStep == Sound /\ StoreInv /\ [Next]_vars => StoreInv'
<1> SUFFICES ASSUME Sound, StoreInv, [Next]_vars PROVE StoreInv'
  OBVIOUS
<1>1. ASSUME NEW w \in Writer, WriterStep(w) PROVE StoreInv'
  BY <1>1, WriterStepStoreInv
<1>2. ASSUME NEW q \in Process, Crash(q) PROVE StoreInv'
  <2>1. \A x \in Writer : Ended(x, "failed").pc = "failed" /\ Ended(x, "failed").proc = writer[x].proc
    BY EndType DEF Sound, PCs
  <2>2. /\ \A x \in Writer : writer'[x].proc = writer[x].proc
        /\ \A x \in Writer : writer'[x] = writer[x] \/ writer'[x].pc = "failed"
    BY <1>2, <2>1 DEF Crash
  <2>3. CellValue' = CellValue /\ corruptions' = corruptions
    BY <1>2 DEF Crash, files, CellValue
  <2>4. Undisturbed' => Undisturbed
    <3>1. OneProcess' => OneProcess
      BY <2>2 DEF OneProcess
    <3> QED BY <2>3, <3>1 DEF Undisturbed
  <2>5. Exclusive'
    <3>1. \A x \in Writer : Busy(x)' => Busy(x)
      BY <2>2 DEF Busy
    <3>2. ASSUME NEW v \in Writer, NEW w \in Writer
          PROVE  /\ Busy(v)' => writer'[v].proc \in Process
                 /\ Busy(v)' /\ Busy(w)' /\ writer'[v].proc = writer'[w].proc => v = w
      <4>1. writer'[v].proc = writer[v].proc /\ writer'[w].proc = writer[w].proc
        BY <2>2
      <4>2. (Busy(v)' => Busy(v)) /\ (Busy(w)' => Busy(w))
        BY <3>1
      <4> QED BY <4>1, <4>2 DEF StoreInv, Exclusive
    <3> QED BY <3>2 DEF Exclusive
  <2>6. Unstarted'
    BY <2>2 DEF StoreInv, Unstarted, At
  <2>7. UpToDate /\ Kept => UpToDate' /\ Kept'
    BY <2>2, <2>3 DEF UpToDate, Kept, At, Saving
  <2> QED BY <2>4, <2>5, <2>6, <2>7 DEF StoreInv
<1>3. CASE CorruptMain
  <2>1. writer' = writer /\ ~Undisturbed'
    BY <1>3 DEF CorruptMain, Undisturbed, Sound, TypeOK
  <2> QED BY <2>1 DEF StoreInv, Exclusive, Unstarted, Busy, At
<1>4. CASE Rest \/ UNCHANGED vars
  <2>1. writer' = writer /\ CellValue' = CellValue /\ Undisturbed' = Undisturbed
    BY <1>4 DEF Rest, vars, files, counts, CellValue, Undisturbed, OneProcess
  <2> QED BY <2>1 DEF StoreInv, Exclusive, Unstarted, UpToDate, Kept, Busy, At
<1> QED BY <1>1, <1>2, <1>3, <1>4 DEF Next

\* A single process, whatever fails and however often it is killed, loses no
\* saved change until the file is damaged from outside: each operation starts
\* from the state all earlier ones are in.
THEOREM NoUpdateLost == Spec => []NoLostUpdate
<1>1. Sound /\ StoreInv => NoLostUpdate
  <2> SUFFICES ASSUME Sound, StoreInv, Undisturbed
               PROVE  \A w \in Writer : At(w, "done") => Loadable /\ w \in Load
    BY DEF NoLostUpdate, Undisturbed
  <2>1. Loadable /\ Load = CellValue
    BY DEF Sound, TypeOK, Content, Undisturbed, Loadable, Load, CellValue
  <2> QED BY <2>1 DEF StoreInv, Kept
<1> QED BY <1>1, StoreInvInit, StoreInvStep, SoundInvariant, PTL DEF Spec

-----------------------------------------------------------------------------
(***************************************************************************)
(* The backup.  Between the two replacements of a save the backup is a     *)
(* copy of the state file, unless the file could not be read; outside them *)
(* it is what the file held before, if the last save kept a copy.          *)
(***************************************************************************)
Unfailed == \A w \in Writer : ~At(w, "failed")

\* No copy is damaged.
Readable ==
  /\ main.kind # "corrupt" /\ backup.kind # "corrupt" /\ previous.kind # "corrupt"
  /\ \A w \in Writer : At(w, "backup") => writer[w].old.kind # "corrupt"

Copied ==
  /\ main.kind = "absent" => main = Absent /\ backup = Absent /\ previous = Absent
  /\ \A w \in Writer : At(w, "backup") => writer[w].old = main /\ main.kind # "absent"
  /\ \A w \in Writer : At(w, "main") => backup = main \/ (writer[w].old = Absent /\ main # Absent)
  /\ (\A w \in Writer : ~At(w, "main")) /\ ~skipped => backup = previous

\* An operation that has not read the old file has no bytes of it.
Unread == \A w \in Writer : writer[w].pc \in {"idle", "load", "read"} => writer[w].old = Absent

\* Damage that came between two saves has left the backup of the last one.
Recoverable ==
  Uninterrupted /\ main.kind = "corrupt" /\ corruptions = 1 =>
    (~skipped => backup = previous) /\ backup.kind # "corrupt"

BackupInv ==
  /\ corruptions = 0 => Readable
  /\ Undisturbed /\ Unfailed => Copied
  /\ Recoverable

LEMMA BackupInvInit == Init => BackupInv
BY DEF Init, BackupInv, Readable, Copied, Recoverable, Absent, Waiting, At

LEMMA UnreadStep == TypeOK /\ Unread /\ [Next]_vars => Unread'
<1> SUFFICES ASSUME TypeOK, Unread, [Next]_vars PROVE Unread'
  OBVIOUS
<1>0. writer \in [Writer -> WriterRecord]
  BY DEF TypeOK
<1>e. \A w \in Writer, pc \in PCs : Ended(w, pc).old = Absent
  BY DEF Ended, Waiting
<1>1. ASSUME NEW w \in Writer, WriterStep(w) PROVE Unread'
  <2>0. \A pc \in {"done", "failed"} : End(w, pc) => Unread'
    BY <1>0, <1>e DEF End, Unread, PCs
  <2>1. CASE Begin(w) \/ LoadState(w)
    BY <1>0, <2>0, <2>1 DEF Begin, LoadState, Unread, At, WriterRecord
  <2>2. CASE ReadOld(w)
    BY <2>2, ReadOldStep DEF Unread
  <2>3. CASE WriteBackup(w)
    BY <1>0, <2>0, <2>3 DEF WriteBackup, To, Unread, WriterRecord
  <2>4. CASE WriteMain(w)
    BY <2>0, <2>4 DEF WriteMain
  <2> QED BY <1>1, <2>1, <2>2, <2>3, <2>4 DEF WriterStep
<1>2. ASSUME NEW q \in Process, Crash(q) PROVE Unread'
  BY <1>0, <1>2, <1>e DEF Crash, Unread, PCs
<1>3. CASE CorruptMain \/ Rest \/ UNCHANGED vars
  BY <1>3 DEF CorruptMain, Rest, vars, Unread
<1> QED BY <1>1, <1>2, <1>3 DEF Next

LEMMA UnreadInvariant == Spec => []Unread
<1>1. Init => Unread
  BY DEF Init, Unread, Waiting
<1> QED BY <1>1, UnreadStep, TypeCorrect, PTL DEF Spec

\* What has failed stays so.
LEMMA StillUnfailed ==
  ASSUME NEW w \in Writer, ~At(w, "failed"), \A x \in Writer \ {w} : writer'[x] = writer[x],
         Unfailed'
  PROVE  Unfailed
BY DEF Unfailed, At

LEMMA WriterStepBackupInv ==
  ASSUME Sound, StoreInv, BackupInv, Unread, NEW w \in Writer, WriterStep(w)
  PROVE  BackupInv'
<1> USE DEF At
<1>0. writer[w] \in WriterRecord /\ writer \in [Writer -> WriterRecord] /\ UNCHANGED corruptions
  BY DEF Sound, TypeOK, WriterStep, Begin, LoadState, ReadOld, WriteBackup, WriteMain, counts
<1>a. ASSUME NEW pc \in {"done", "failed"}, End(w, pc)
      PROVE  /\ writer'[w].pc = pc /\ writer'[w].proc = writer[w].proc
             /\ \A x \in Writer \ {w} : writer'[x] = writer[x]
  <2>1. writer' = [writer EXCEPT ![w] = Ended(w, pc)] /\ w \in Writer
    BY <1>a DEF End
  <2>2. Ended(w, pc).pc = pc /\ Ended(w, pc).proc = writer[w].proc
    BY <1>a, EndType DEF Sound, PCs
  <2> QED BY <1>0, <2>1, <2>2
<1>b. ASSUME End(w, "failed"), UNCHANGED <<main, backup, previous, skipped>> PROVE BackupInv'
  <2>1. writer'[w].pc = "failed" /\ \A x \in Writer \ {w} : writer'[x] = writer[x]
    BY <1>a, <1>b
  <2>2. ~Unfailed'
    BY <2>1 DEF Unfailed
  <2>3. Readable => Readable'
    BY <1>b, <2>1 DEF Readable
  <2> QED BY <1>0, <2>2, <2>3 DEF BackupInv, Recoverable, Uninterrupted, Unfailed
<1>c. ASSUME writer[w].proc \in {"none", writer'[w].proc}, ~At(w, "failed"),
             \A x \in Writer \ {w} : writer'[x] = writer[x],
             (Undisturbed /\ Unfailed)'
      PROVE  Undisturbed /\ Unfailed /\ Copied
  <2>1. Undisturbed
    BY <1>0, <1>c, StillUndisturbed DEF Undisturbed
  <2> QED BY <1>c, <2>1, StillUnfailed DEF BackupInv
<1>1. CASE Begin(w)
  <2>1. PICK q \in Process : writer' = [writer EXCEPT ![w].pc = "load", ![w].proc = q]
    BY <1>1 DEF Begin
  <2>2. writer'[w].pc = "load" /\ writer'[w].proc = q /\ \A x \in Writer \ {w} : writer'[x] = writer[x]
    BY <1>0, <2>1 DEF WriterRecord
  <2>3. writer[w].proc = "none" /\ UNCHANGED files /\ UNCHANGED history /\ writer[w].pc = "idle"
    BY <1>1 DEF Begin, StoreInv, Unstarted
  <2>4. ~Quiet' /\ (Readable => Readable')
    BY <2>2, <2>3 DEF Quiet, Busy, Readable, files, history
  <2>5. (Undisturbed /\ Unfailed)' => Copied'
    BY <1>c, <2>2, <2>3 DEF Copied, files, history
  <2> QED BY <1>0, <2>4, <2>5 DEF BackupInv, Recoverable, Uninterrupted
<1>2. CASE LoadState(w)
  <2>0. UNCHANGED files /\ UNCHANGED history /\ writer[w].pc = "load"
    BY <1>2 DEF LoadState
  <2>1. CASE writer' = [writer EXCEPT ![w].pc = "read", ![w].new = Load \union {w}]
    <3>2. writer'[w].pc = "read" /\ writer'[w].proc = writer[w].proc
          /\ \A x \in Writer \ {w} : writer'[x] = writer[x]
      BY <1>0, <2>1 DEF WriterRecord
    <3>3. ~Quiet' /\ (Readable => Readable')
      BY <2>0, <3>2 DEF Quiet, Busy, Readable, files, history
    <3>4. (Undisturbed /\ Unfailed)' => Copied'
      BY <1>c, <2>0, <3>2 DEF Copied, files, history
    <3> QED BY <1>0, <3>3, <3>4 DEF BackupInv, Recoverable, Uninterrupted
  <2>2. CASE End(w, "failed")
    BY <1>b, <2>0, <2>2 DEF files, history
  <2> QED BY <1>2, <2>1, <2>2 DEF LoadState
<1>3. CASE ReadOld(w)
  <2>0. UNCHANGED files /\ UNCHANGED history /\ writer[w].pc = "read"
    BY <1>3, ReadOldStep DEF Sound
  <2>1. /\ writer'[w].pc \in {"main", "backup"}
        /\ writer'[w].pc = "backup" => writer'[w].old = main /\ main.kind # "absent"
        /\ writer'[w].pc = "main" => writer'[w].old = Absent
        /\ writer'[w].proc = writer[w].proc
        /\ \A x \in Writer \ {w} : writer'[x] = writer[x]
    BY <1>3, ReadOldStep DEF Sound, Unread
  <2>2. ~Quiet' /\ (Readable => Readable')
    BY <2>0, <2>1 DEF Quiet, Busy, Readable, files, history
  <2>3. ASSUME (Undisturbed /\ Unfailed)' PROVE Copied'
    <3>1. Undisturbed /\ Copied
      BY <1>c, <2>0, <2>1, <2>3
    <3>2. \A x \in Writer \ {w} : writer'[x].pc # "main" /\ writer[x].pc # "main"
      BY <2>0, <2>1, <3>1, AloneWhenUndisturbed DEF Busy
    <3>3. ~skipped => backup = previous
      BY <2>0, <3>1, <3>2 DEF Copied
    <3>4. UNCHANGED <<main, backup, previous, skipped>>
      BY <2>0 DEF files, history
    <3>5. At(w, "main")' => backup' = main' \/ (writer'[w].old = Absent /\ main' # Absent)
      BY <2>1, <3>1, <3>4 DEF Copied, Absent
    <3>6. \A x \in Writer \ {w} : ~At(x, "backup")'
      BY <2>0, <2>1, <3>1, AloneWhenUndisturbed DEF Busy
    <3> QED BY <2>1, <3>1, <3>2, <3>3, <3>4, <3>5, <3>6 DEF Copied
  <2> QED BY <1>0, <2>2, <2>3 DEF BackupInv, Recoverable, Uninterrupted
<1>4. CASE WriteBackup(w)
  <2>0. UNCHANGED main /\ UNCHANGED history /\ writer[w].pc = "backup"
    BY <1>4 DEF WriteBackup
  <2>1. CASE backup' = writer[w].old /\ To(w, "main")
    <3>1. writer'[w].pc = "main" /\ writer'[w].proc = writer[w].proc
          /\ \A x \in Writer \ {w} : writer'[x] = writer[x]
      BY <1>0, <2>1 DEF To, WriterRecord
    <3>2. ~Quiet' /\ (Readable => Readable')
      BY <2>0, <2>1, <3>1 DEF Quiet, Busy, Readable, history
    <3>3. ASSUME (Undisturbed /\ Unfailed)' PROVE Copied'
      <4>1. Undisturbed /\ Copied
        BY <1>c, <2>0, <3>1, <3>3
      <4>2. backup' = main /\ main.kind # "absent"
        BY <2>0, <2>1, <4>1 DEF Copied
      <4> QED BY <2>0, <3>1, <4>1, <4>2 DEF Copied
    <3> QED BY <1>0, <3>2, <3>3 DEF BackupInv, Recoverable, Uninterrupted
  <2>2. CASE End(w, "failed") /\ UNCHANGED backup
    BY <1>b, <2>0, <2>2 DEF history
  <2> QED BY <1>4, <2>1, <2>2 DEF WriteBackup
<1>5. CASE WriteMain(w)
  <2>0. UNCHANGED backup /\ writer[w].pc = "main"
    BY <1>5 DEF WriteMain
  <2>1. CASE main' = Bytes(writer[w].new) /\ previous' = main /\ End(w, "done")
             /\ skipped' = (writer[w].old = Absent /\ main # Absent)
    <3>1. /\ writer'[w].pc = "done" /\ writer'[w].proc = writer[w].proc
          /\ \A x \in Writer \ {w} : writer'[x] = writer[x]
      BY <1>a, <2>1
    <3>2. main'.kind = "ok" /\ (Readable => Readable')
      BY <2>0, <2>1, <3>1 DEF Bytes, Readable
    <3>3. ASSUME (Undisturbed /\ Unfailed)' PROVE Copied'
      <4>1. Undisturbed /\ Copied
        BY <1>c, <2>0, <3>1, <3>3
      <4>2. \A x \in Writer : writer'[x].pc \notin {"main", "backup"}
        BY <2>0, <3>1, <4>1, AloneWhenUndisturbed DEF Busy
      <4>3. ~skipped' => backup' = previous'
        BY <2>0, <2>1, <4>1 DEF Copied
      <4> QED BY <3>2, <4>2, <4>3 DEF Copied
    <3> QED BY <1>0, <3>2, <3>3 DEF BackupInv, Recoverable
  <2>2. CASE End(w, "failed") /\ UNCHANGED <<main, history>>
    BY <1>b, <2>0, <2>2 DEF history
  <2> QED BY <1>5, <2>1, <2>2 DEF WriteMain
<1> QED BY <1>1, <1>2, <1>3, <1>4, <1>5 DEF WriterStep

LEMMA BackupInvStep == Sound /\ StoreInv /\ Unread /\ BackupInv /\ [Next]_vars => BackupInv'
<1> SUFFICES ASSUME Sound, StoreInv, Unread, BackupInv, [Next]_vars PROVE BackupInv'
  OBVIOUS
<1>1. ASSUME NEW w \in Writer, WriterStep(w) PROVE BackupInv'
  BY <1>1, WriterStepBackupInv
<1>2. ASSUME NEW q \in Process, Crash(q) PROVE BackupInv'
  <2>1. \A x \in Writer : Ended(x, "failed").pc = "failed"
    BY EndType DEF Sound, PCs
  <2>2. \A x \in Writer : writer'[x] = writer[x] \/ writer'[x].pc = "failed"
    BY <1>2, <2>1 DEF Crash
  <2>3. ~Unfailed'
    BY <1>2, <2>1 DEF Crash, Unfailed, At
  <2>4. (Readable => Readable') /\ UNCHANGED corruptions
    BY <1>2, <2>2 DEF Crash, Readable, At, files, history
  <2> QED BY <2>3, <2>4 DEF BackupInv, Recoverable, Uninterrupted, Unfailed
<1>3. CASE CorruptMain
  <2>1. corruptions \in Nat /\ corruptions' = corruptions + 1 /\ UNCHANGED <<backup, writer, previous, skipped>>
    BY <1>3 DEF CorruptMain, Sound, TypeOK, history
  <2>2. ~Undisturbed' /\ corruptions' # 0
    BY <2>1 DEF Undisturbed
  <2>3. ASSUME Uninterrupted', corruptions' = 1
        PROVE  (~skipped => backup = previous) /\ backup.kind # "corrupt"
    <3>1. corruptions = 0 /\ Uninterrupted
      BY <2>1, <2>3 DEF Uninterrupted, OneProcess, Quiet, Busy, At
    <3>2. Copied /\ Readable
      BY <3>1 DEF BackupInv, Undisturbed, Unfailed, Uninterrupted
    <3> QED BY <3>1, <3>2 DEF Copied, Readable, Uninterrupted, Quiet, Busy, At
  <2> QED BY <2>1, <2>2, <2>3 DEF BackupInv, Recoverable
<1>4. CASE Rest \/ UNCHANGED vars
  <2>1. UNCHANGED <<main, backup, writer, corruptions, previous, skipped>>
    BY <1>4 DEF Rest, vars, files, counts, history
  <2> QED BY <2>1 DEF BackupInv, Readable, Copied, Recoverable, Undisturbed, OneProcess,
                      Unfailed, Uninterrupted, Quiet, Busy, At
<1> QED BY <1>1, <1>2, <1>3, <1>4 DEF Next

\* Between two saves of the one process the backup is the copy of the state file
\* from before the last of them, as the README promises, unless an operation failed
\* or was killed, the file was damaged, or the last save could not read it.
THEOREM BackupKept == Spec => []BackupIsPrevious
<1>1. BackupInv => BackupIsPrevious
  BY DEF BackupInv, Copied, BackupIsPrevious, Uninterrupted, Undisturbed, Unfailed, Quiet, Busy, At
<1> QED BY <1>1, BackupInvInit, BackupInvStep, UnreadInvariant, StoreInvInit, StoreInvStep, SoundInvariant, PTL DEF Spec

\* One damage to the state file is recovered from: the load takes the backup,
\* and finds in it the state before the last save, if that save kept a copy.
THEOREM OneDamageRecovered == Spec => []RecoversOnce
<1>1. Sound /\ BackupInv => RecoversOnce
  <2> SUFFICES ASSUME Sound, Recoverable, Uninterrupted, backup.kind # "absent",
                      corruptions <= 1, main.kind = "corrupt"
               PROVE  Loadable /\ (~skipped => Load = previous.val)
    BY DEF RecoversOnce, BackupInv, Loadable
  <2>1. corruptions = 1
    BY DEF Sound, TypeOK
  <2>2. (~skipped => backup = previous) /\ backup.kind = "ok"
    BY <2>1 DEF Recoverable, Sound, TypeOK, Content
  <2> QED BY <2>2 DEF Loadable, Load
<1> QED BY <1>1, BackupInvInit, BackupInvStep, UnreadInvariant, StoreInvInit, StoreInvStep, SoundInvariant, PTL DEF Spec
=============================================================================
