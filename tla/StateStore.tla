----------------------------- MODULE StateStore -----------------------------
(***************************************************************************)
(* The state file and its backup (internal/store), written by several      *)
(* processes: the dashboard, the installer's bootstrap and repair, the     *)
(* check and rotate-token commands.  Each of them reads the state, changes *)
(* it and saves it, serialised inside a process by Service.mu and          *)
(* Store.mu; nothing serialises two processes.  A save reads the bytes of  *)
(* the state file, puts them in the backup, then replaces the state file;  *)
(* each replacement is a rename and so atomic.                             *)
(*                                                                         *)
(* The state is abstracted to the set of the changes it contains: every    *)
(* writer makes one change of its own.                                     *)
(***************************************************************************)
EXTENDS Naturals, FiniteSets

CONSTANTS
  Writer,          \* the read-modify-write operations; each runs once
  Process,         \* the processes they run in
  MaxCrashes,      \* bound: processes killed
  MaxFailures,     \* bound: failed reads and writes
  MaxCorruptions   \* bound: times the state file becomes unreadable

ASSUME StoreAssumption ==
  /\ MaxCrashes \in Nat /\ MaxFailures \in Nat /\ MaxCorruptions \in Nat
  /\ "none" \notin Process

VARIABLES
  main,         \* state.json
  backup,       \* state.json.backup
  writer,       \* the operations: where they are, and their local variables
  crashes, failures, corruptions,  \* how often so far
  previous,                        \* history: what the state file held before its last replacement
  skipped                          \* history: that replacement kept no copy of it

files  == <<main, backup>>
counts == <<crashes, failures, corruptions>>
history == <<previous, skipped>>
vars   == <<files, writer, counts, history>>

State   == SUBSET Writer
Content == [kind : {"absent", "corrupt", "ok"}, val : State]
Absent  == [kind |-> "absent", val |-> {}]
Corrupt == [kind |-> "corrupt", val |-> {}]
Bytes(s) == [kind |-> "ok", val |-> s]

\* NewState: what is loaded when there is no file.
NewState == {}

\* loadLocked: the state file, or the backup when it does not parse.
Loadable == main.kind # "corrupt" \/ backup.kind = "ok"
Load == CASE main.kind = "absent"  -> NewState
          [] main.kind = "ok"      -> main.val
          [] main.kind = "corrupt" -> backup.val

PCs == {"idle", "load", "read", "backup", "main", "done", "failed"}

Waiting == [pc |-> "idle", proc |-> "none", new |-> {}, old |-> Absent]

Init ==
  /\ main = Absent /\ backup = Absent
  /\ writer = [w \in Writer |-> Waiting]
  /\ crashes = 0 /\ failures = 0 /\ corruptions = 0
  /\ previous = Absent /\ skipped = FALSE

At(w, pc) == writer[w].pc = pc
Busy(w) == writer[w].pc \in {"load", "read", "backup", "main"}
To(w, pc) == writer' = [writer EXCEPT ![w].pc = pc]

\* An operation that has ended keeps its process and nothing else.
Ended(w, pc) == [Waiting EXCEPT !.pc = pc, !.proc = writer[w].proc]
End(w, pc) == writer' = [writer EXCEPT ![w] = Ended(w, pc)]

Failure == failures < MaxFailures /\ failures' = failures + 1

\* Mutant of Begin: the state is loaded before the lock is taken.
BeginUnlocked(w) ==
  /\ At(w, "idle")
  /\ \E p \in Process : writer' = [writer EXCEPT ![w].pc = "load", ![w].proc = p]
  /\ UNCHANGED <<files, counts, history>>

\* The operation starts in a process where no other one is running.
Begin(w) ==
  /\ At(w, "idle")
  /\ \E p \in Process :
       /\ \A x \in Writer : Busy(x) => writer[x].proc # p
       /\ writer' = [writer EXCEPT ![w].pc = "load", ![w].proc = p]
  /\ UNCHANGED <<files, counts, history>>

\* Mutant of LoadState: the state is loaded but the change is not applied.
LoadUnchanged(w) ==
  /\ At(w, "load")
  /\ Loadable
  /\ writer' = [writer EXCEPT ![w].pc = "read", ![w].new = Load]
  /\ UNCHANGED <<files, counts, history>>

\* It loads the state and computes the new one.  A file that cannot be read, other
\* than one that is not there, ends the operation.
LoadState(w) ==
  /\ At(w, "load")
  /\ \/ /\ Loadable
        /\ writer' = [writer EXCEPT ![w].pc = "read", ![w].new = Load \union {w}]
        /\ UNCHANGED failures
     \/ ~Loadable /\ End(w, "failed") /\ UNCHANGED failures
     \/ Failure /\ End(w, "failed")
  /\ UNCHANGED <<files, crashes, corruptions, history>>

\* saveLocked: the present bytes of the state file are read, whatever they are.
\* When that fails, for whatever reason, the save goes on without a backup.
ReadOld(w) ==
  /\ At(w, "read")
  /\ \/ /\ main.kind # "absent"
        /\ writer' = [writer EXCEPT ![w].pc = "backup", ![w].old = main]
        /\ UNCHANGED failures
     \/ main.kind = "absent" /\ To(w, "main") /\ UNCHANGED failures
     \/ Failure /\ To(w, "main")
  /\ UNCHANGED <<files, crashes, corruptions, history>>

\* Mutant of WriteBackup: the new state is written as the backup too.
WriteBackupNew(w) ==
  /\ At(w, "backup")
  /\ backup' = Bytes(writer[w].new)
  /\ To(w, "main")
  /\ UNCHANGED <<main, counts, history>>

\* They become the backup; when that fails the save fails.
WriteBackup(w) ==
  /\ At(w, "backup")
  /\ \/ backup' = writer[w].old /\ To(w, "main") /\ UNCHANGED failures
     \/ Failure /\ End(w, "failed") /\ UNCHANGED backup
  /\ UNCHANGED <<main, crashes, corruptions, history>>

\* Mutant of WriteMain: the file is removed before the new one is renamed.
WriteMainInPlace(w) ==
  /\ At(w, "main")
  /\ \/ /\ main' = Bytes(writer[w].new) /\ previous' = main /\ End(w, "done")
        /\ UNCHANGED <<failures, skipped>>
     \/ Failure /\ End(w, "failed") /\ main' = Absent /\ UNCHANGED history
  /\ UNCHANGED <<backup, crashes, corruptions>>

\* The state file is replaced.
WriteMain(w) ==
  /\ At(w, "main")
  /\ \/ /\ main' = Bytes(writer[w].new)
        /\ previous' = main
        /\ skipped' = (writer[w].old = Absent /\ main # Absent)
        /\ End(w, "done")
        /\ UNCHANGED failures
     \/ Failure /\ End(w, "failed") /\ UNCHANGED <<main, history>>
  /\ UNCHANGED <<backup, crashes, corruptions>>

\* A process is killed with everything it was doing.
Crash(p) ==
  /\ crashes < MaxCrashes /\ crashes' = crashes + 1
  /\ \E w \in Writer : Busy(w) /\ writer[w].proc = p
  /\ writer' = [w \in Writer |-> IF Busy(w) /\ writer[w].proc = p
                                   THEN Ended(w, "failed") ELSE writer[w]]
  /\ UNCHANGED <<files, failures, corruptions, history>>

\* The state file becomes unreadable: a bad disk, or an edit by hand.
CorruptMain ==
  /\ corruptions < MaxCorruptions /\ corruptions' = corruptions + 1
  /\ main.kind = "ok"
  /\ main' = Corrupt
  /\ UNCHANGED <<backup, writer, crashes, failures, history>>

Quiet == \A w \in Writer : ~Busy(w)

Rest == (\A w \in Writer : At(w, "done") \/ At(w, "failed")) /\ UNCHANGED vars

WriterStep(w) ==
  Begin(w) \/ LoadState(w) \/ ReadOld(w) \/ WriteBackup(w) \/ WriteMain(w)

Next == (\E w \in Writer : WriterStep(w)) \/ (\E p \in Process : Crash(p)) \/ CorruptMain \/ Rest

Spec == Init /\ [][Next]_vars

-----------------------------------------------------------------------------
(***************************************************************************)
(* Properties.                                                             *)
(***************************************************************************)
WriterRecord == [pc : PCs, proc : Process \union {"none"}, new : State, old : Content]

\* Every variable keeps its type, and what a writer is about to save contains
\* its own change.
TypeOK ==
  /\ main \in Content /\ backup \in Content /\ previous \in Content
  /\ writer \in [Writer -> WriterRecord]
  /\ crashes \in Nat /\ failures \in Nat /\ corruptions \in Nat /\ skipped \in BOOLEAN
  /\ \A w \in Writer : writer[w].pc \in {"read", "backup", "main"} => w \in writer[w].new

CellValue   == IF main.kind = "absent" THEN NewState ELSE main.val
CellPending == [w \in Writer |-> IF writer[w].pc \in {"read", "backup", "main"}
                                   THEN {writer[w].new} ELSE {}]

Cell == INSTANCE DurableCell WITH
  Value <- State, Fresh <- NewState, value <- CellValue, pending <- CellPending

\* The two files together behave as one durable value that each save replaces
\* atomically, whoever else is saving, failing or being killed, for as long as
\* nobody damages the file from outside.
ImplementsDurableCell ==
  Cell!CInit /\ [][corruptions' = 0 => Cell!CNext]_<<CellValue, CellPending>>

\* No two operations have run in different processes.
OneProcess ==
  \A v, w \in Writer : "none" \notin {writer[v].proc, writer[w].proc}
                       => writer[v].proc = writer[w].proc

\* A change whose save succeeded is in the state that is loaded from then on,
\* as the README promises of saved proxies, unless the file was damaged: the
\* load, change and save of one operation of the process overlap with those of
\* no other.  The locks are those of one process: with two, the save of one puts
\* back what it had loaded before the other saved, and the property fails.
NoLostUpdate ==
  OneProcess /\ corruptions = 0 => \A w \in Writer : At(w, "done") => Loadable /\ w \in Load

Uninterrupted == OneProcess /\ Quiet /\ \A w \in Writer : ~At(w, "failed")

\* Between operations of one process the backup is the copy before the last save,
\* unless that save could not read it (saveLocked saves all the same).
BackupIsPrevious == Uninterrupted /\ corruptions = 0 /\ ~skipped => backup = previous

\* After the state file was damaged once, and no operation of the one process has
\* failed or was killed, it can still be loaded; from the backup it is the state
\* before the last save, or an older one if that save kept no copy.
RecoversOnce ==
  Uninterrupted /\ backup.kind # "absent" /\ corruptions <= 1 =>
    Loadable /\ (main.kind = "corrupt" /\ ~skipped => Load = previous.val)

\* The README and the recovery test say that the earlier copy is kept as a
\* backup from which a damaged state is recovered.  The code does not keep this
\* when the save that follows the damage is interrupted: it has put the damaged
\* bytes over the good backup first.
BackupRecovers == backup.kind # "absent" => Loadable
=============================================================================
