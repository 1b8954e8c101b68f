---------------------------- MODULE CapabilityStore ----------------------------
(***************************************************************************)
(* JsonFileCapabilityStore: a dict in memory and a JSON file that every    *)
(* write operation rewrites from the start.  Neither is locked.            *)
(*                                                                         *)
(* A thread is one that calls the store.  A single bytecode-level dict     *)
(* operation is atomic; between two of them, and around each system call,  *)
(* other threads run, the process may be killed, the file system may refuse *)
(* (an exception _save and _load log and drop), and an operator may replace *)
(* the file.  write_text first truncates, then writes.                     *)
(*                                                                         *)
(* The dict's table matters, because _save iterates it while others change *)
(* it: a removed value leaves a hole, a new one goes behind the last entry, *)
(* and a full table is built again without its holes (when it is full is   *)
(* left open).                                                             *)
(*                                                                         *)
(* Two auxiliary variables: flushed, the contents that the last completed  *)
(* flush or load left both in memory and in the file, Unknown after a      *)
(* fault, an edit or a load that left something out; overlapped, that two  *)
(* threads of this process have been in _save or reload at once.           *)
(***************************************************************************)
EXTENDS OrderedDict, Integers, FiniteSets

CONSTANTS
  Threads,
  Capabilities,   \* descriptors, of which only the id matters here
  Bad,            \* a JSON record that model_validate refuses
  Absent,         \* no file
  Empty, Torn,    \* a truncated file; part of a write, or a mixture of two
  Edits,          \* files an operator may put in place
  Unknown,
  MaxOps,         \* bound: operations started
  MaxFaults       \* bound: refused file operations, crashes and edits together

Records == Capabilities \cup {Bad}

ASSUME StoreAssumption ==
  /\ Bad \notin Capabilities
  /\ Edits \subseteq Seq(Records)
  /\ {Absent, Empty, Torn} \cap Seq(Records) = {}
  /\ Absent \notin {Empty, Torn}
  /\ Unknown \notin Seq(Capabilities)
  /\ MaxOps \in Nat /\ MaxFaults \in Nat

Ids == {cap.id : cap \in Capabilities}

VARIABLES
  memory,    \* _store; what it last was while the process is down
  places,    \* the entry of the table that each value of memory is in
  entries,   \* entries used in the table, holes included
  file,      \* the JSON file
  up,        \* the process is running
  pc,        \* thread -> where it is inside the store
  key,       \* thread -> the id it is deleting
  cursor,    \* thread -> entries its dump has passed, or records it has loaded
  size,      \* thread -> how many values there were when its dump began
  records,   \* thread -> what it dumps into the file, or has read from it
  flushed, overlapped,
  ops, faults

table == <<places, entries>>
locals == <<key, cursor, size, records>>
vars == <<memory, table, file, up, pc, locals, flushed, overlapped, ops, faults>>

\* The steps of a _save that has begun to dump, and those of reload.
SaveSteps == {"dumping", "dumped", "writing"}
FileSteps == SaveSteps \cup {"opening", "loading"}
Steps == {"idle", "deleting", "flushing"} \cup FileSteps

Dicts == Seq(Capabilities)
Files == Seq(Records) \cup {Absent, Empty, Torn}

TypeOK ==
  /\ memory \in Dicts
  /\ places \in Seq(Nat) /\ Len(places) = Len(memory)
  /\ entries \in Nat
  /\ file \in Files
  /\ up \in BOOLEAN
  /\ pc \in [Threads -> Steps]
  /\ key \in [Threads -> Ids \cup {Unknown}]
  /\ cursor \in [Threads -> Nat]
  /\ size \in [Threads -> Nat]
  /\ records \in [Threads -> Seq(Records)]
  /\ flushed \in Dicts \cup {Unknown}
  /\ overlapped \in BOOLEAN
  /\ ops \in 0..MaxOps
  /\ faults \in 0..MaxFaults

Init ==
  /\ memory = <<>> /\ places = <<>> /\ entries = 0
  /\ file = Absent
  /\ up = TRUE
  /\ pc = [t \in Threads |-> "idle"]
  /\ key = [t \in Threads |-> Unknown]
  /\ cursor = [t \in Threads |-> 0]
  /\ size = [t \in Threads |-> 0]
  /\ records = [t \in Threads |-> <<>>]
  /\ flushed = <<>>
  /\ overlapped = FALSE
  /\ ops = 0
  /\ faults = 0

--------------------------------------------------------------------------------
(* The dict and its table.                                                  *)

InTurn(n) == [i \in 1..n |-> i]

\* _store[cap.id] = cap.  A new key of a full table has it built again.
StorePut(cap) ==
  /\ memory' = Put(memory, cap)
  /\ IF HoldsId(memory, cap.id)
       THEN UNCHANGED table
       ELSE \/ places' = Append(places, entries + 1) /\ entries' = entries + 1
            \/ places' = InTurn(Len(memory) + 1) /\ entries' = Len(memory) + 1

\* del _store[id]
StoreDelete(id) ==
  /\ memory' = Delete(memory, id)
  /\ places' = RemoveAt(places, Position(memory, id))
  /\ UNCHANGED entries

\* _store.clear()
StoreClear == memory' = <<>> /\ places' = <<>> /\ entries' = 0

--------------------------------------------------------------------------------
GoTo(t, step) == pc' = [pc EXCEPT ![t] = step]

\* Thread t leaves the store, and its local variables with it.
Return(t) ==
  /\ GoTo(t, "idle")
  /\ key' = [key EXCEPT ![t] = Unknown]
  /\ cursor' = [cursor EXCEPT ![t] = 0]
  /\ size' = [size EXCEPT ![t] = 0]
  /\ records' = [records EXCEPT ![t] = <<>>]

\* Thread t enters one of the store's methods.
Call(t) ==
  /\ up
  /\ pc[t] = "idle"
  /\ ops < MaxOps
  /\ ops' = ops + 1

\* Mutant: a thread leaves the flush to the one that is already saving.
PutUnlessSaving(t, cap) ==
  /\ Call(t)
  /\ StorePut(cap)
  /\ IF \E u \in Threads : pc[u] \in SaveSteps THEN UNCHANGED pc ELSE GoTo(t, "flushing")
  /\ UNCHANGED <<file, up, locals, flushed, overlapped, faults>>

\* put: super().put, then the flush.
PutCapability(t, cap) ==
  /\ Call(t)
  /\ StorePut(cap)
  /\ GoTo(t, "flushing")
  /\ UNCHANGED <<file, up, locals, flushed, overlapped, faults>>

\* delete: the membership test.  An absent id returns False without a flush.
BeginDelete(t, id) ==
  /\ Call(t)
  /\ IF HoldsId(memory, id)
       THEN /\ key' = [key EXCEPT ![t] = id]
            /\ GoTo(t, "deleting")
       ELSE UNCHANGED <<key, pc>>
  /\ UNCHANGED <<memory, table, file, up, cursor, size, records, flushed, overlapped, faults>>

\* del self._store[id].  When another thread was faster this is a KeyError.
EndDelete(t) ==
  /\ up
  /\ pc[t] = "deleting"
  /\ HoldsId(memory, key[t])
  /\ StoreDelete(key[t])
  /\ key' = [key EXCEPT ![t] = Unknown]
  /\ GoTo(t, "flushing")
  /\ UNCHANGED <<file, up, cursor, size, records, flushed, overlapped, ops, faults>>

RaiseKeyError(t) ==
  /\ up
  /\ pc[t] = "deleting"
  /\ ~HoldsId(memory, key[t])
  /\ Return(t)
  /\ UNCHANGED <<memory, table, file, up, flushed, overlapped, ops, faults>>

\* Mutant: clear is inherited, and does not flush.
ClearMemory(t) ==
  /\ Call(t)
  /\ StoreClear
  /\ UNCHANGED <<file, up, pc, locals, flushed, overlapped, faults>>

Clear(t) ==
  /\ Call(t)
  /\ StoreClear
  /\ GoTo(t, "flushing")
  /\ UNCHANGED <<file, up, locals, flushed, overlapped, faults>>

Save(t) ==
  /\ Call(t)
  /\ GoTo(t, "flushing")
  /\ UNCHANGED <<memory, table, file, up, locals, flushed, overlapped, faults>>

--------------------------------------------------------------------------------
(* _save.                                                                   *)

\* Another thread is at the file, or dumps what is to go there.
Shared(t) == \E u \in Threads \ {t} : pc[u] \in FileSteps

\* The comprehension takes an iterator of the dict's values.
BeginDump(t) ==
  /\ up
  /\ pc[t] = "flushing"
  /\ cursor' = [cursor EXCEPT ![t] = 0]
  /\ size' = [size EXCEPT ![t] = Len(memory)]
  /\ records' = [records EXCEPT ![t] = <<>>]
  /\ overlapped' = (overlapped \/ Shared(t))
  /\ GoTo(t, "dumping")
  /\ UNCHANGED <<memory, table, file, up, key, flushed, ops, faults>>

\* The values behind the entries that t's iterator has passed.
Unread(t) == {i \in DOMAIN places : places[i] > cursor[t]}

DumpValue(t) ==
  /\ up
  /\ pc[t] = "dumping"
  /\ Len(memory) = size[t]
  /\ Len(records[t]) # size[t]
  /\ \E i \in Unread(t) :
       /\ \A j \in Unread(t) : i <= j
       /\ records' = [records EXCEPT ![t] = Append(records[t], memory[i])]
       /\ cursor' = [cursor EXCEPT ![t] = places[i]]
  /\ UNCHANGED <<memory, table, file, up, pc, key, size, flushed, overlapped, ops, faults>>

EndDump(t) ==
  /\ up
  /\ pc[t] = "dumping"
  /\ Len(memory) = size[t]
  /\ Unread(t) = {}
  /\ GoTo(t, "dumped")
  /\ UNCHANGED <<memory, table, file, up, locals, flushed, overlapped, ops, faults>>

\* "dictionary changed size during iteration", or "keys changed": there is a value
\* after as many as there were.  _save logs it, and nothing is written.
DumpRaises(t) ==
  /\ up
  /\ pc[t] = "dumping"
  /\ Len(memory) # size[t] \/ (Unread(t) # {} /\ Len(records[t]) = size[t])
  /\ Return(t)
  /\ UNCHANGED <<memory, table, file, up, flushed, overlapped, ops, faults>>

\* write_text opens the file for writing.
Truncate(t) ==
  /\ up
  /\ pc[t] = "dumped"
  /\ file' = Empty
  /\ GoTo(t, "writing")
  /\ UNCHANGED <<memory, table, up, locals, flushed, overlapped, ops, faults>>

\* When the file is no longer empty another thread has written since: this write
\* covers it from the start, and what is longer in the other remains behind it.
Write(t) ==
  /\ up
  /\ pc[t] = "writing"
  /\ file' \in (IF file = Empty THEN {records[t]} ELSE {records[t], Torn})
  /\ flushed' = records[t]
  /\ Return(t)
  /\ UNCHANGED <<memory, table, up, overlapped, ops, faults>>

\* A write in progress that ends early may have got some way.
MaybeTorn == file' = file \/ ((\E t \in Threads : pc[t] = "writing") /\ file' = Torn)

\* mkdir, open or write fails: _save logs it, and the operation returns normally.
SaveFails(t) ==
  /\ up
  /\ pc[t] \in {"flushing", "dumped", "writing"}
  /\ faults < MaxFaults
  /\ faults' = faults + 1
  /\ IF pc[t] = "writing" THEN MaybeTorn ELSE UNCHANGED file
  /\ flushed' = Unknown
  /\ overlapped' = (overlapped \/ Shared(t))
  /\ Return(t)
  /\ UNCHANGED <<memory, table, up, ops>>

--------------------------------------------------------------------------------
(* reload and _load.                                                        *)

Readable(f) == f \notin {Absent, Empty, Torn}

\* The records before the first one that does not validate.
GoodPrefix(f) ==
  SubSeq(f, 1, CHOOSE n \in 0..Len(f) :
                 /\ \A i \in 1..n : f[i] # Bad
                 /\ n = Len(f) \/ f[n + 1] = Bad)

\* What a load of f into an empty dict leaves there.
Loaded(f) == IF Readable(f) THEN PutAll(<<>>, GoodPrefix(f)) ELSE <<>>

\* Mutant: a load is taken to be complete.
AfterAnyLoad(f) == IF f = Absent THEN <<>> ELSE f

\* What is known after a load: nothing, if the file held more than was loaded.
AfterLoad(f) ==
  IF f = Absent THEN <<>>
  ELSE IF Readable(f) /\ Loaded(f) = f THEN f
  ELSE Unknown

\* Mutant: reload merges the file into what is in memory.
MergeReload(t) ==
  /\ Call(t)
  /\ overlapped' = (overlapped \/ Shared(t))
  /\ GoTo(t, "opening")
  /\ UNCHANGED <<memory, table, file, up, locals, flushed, faults>>

\* reload: the dict is cleared first, and read again in steps of their own.
BeginReload(t) ==
  /\ Call(t)
  /\ StoreClear
  /\ overlapped' = (overlapped \/ Shared(t))
  /\ GoTo(t, "opening")
  /\ UNCHANGED <<file, up, locals, flushed, faults>>

\* exists, read_text and json.loads.
ReadFile(t) ==
  /\ up
  /\ pc[t] = "opening"
  /\ IF Readable(file)
       THEN /\ records' = [records EXCEPT ![t] = file]
            /\ cursor' = [cursor EXCEPT ![t] = 0]
            /\ GoTo(t, "loading")
            /\ UNCHANGED <<key, size, flushed>>
       ELSE /\ Return(t)
            /\ flushed' = AfterLoad(file)
  /\ UNCHANGED <<memory, table, file, up, overlapped, ops, faults>>

ReadFails(t) ==
  /\ up
  /\ pc[t] = "opening"
  /\ faults < MaxFaults
  /\ faults' = faults + 1
  /\ flushed' = Unknown
  /\ Return(t)
  /\ UNCHANGED <<memory, table, file, up, overlapped, ops>>

\* One round of the loop.
LoadRecord(t) ==
  /\ up
  /\ pc[t] = "loading"
  /\ cursor[t] < Len(records[t])
  /\ records[t][cursor[t] + 1] # Bad
  /\ StorePut(records[t][cursor[t] + 1])
  /\ cursor' = [cursor EXCEPT ![t] = cursor[t] + 1]
  /\ UNCHANGED <<file, up, pc, key, size, records, flushed, overlapped, ops, faults>>

\* The loop is over, or model_validate raises and the rest is left out.
EndLoad(t) ==
  /\ up
  /\ pc[t] = "loading"
  /\ \/ cursor[t] = Len(records[t])
     \/ cursor[t] < Len(records[t]) /\ records[t][cursor[t] + 1] = Bad
  /\ flushed' = IF file = records[t] THEN AfterLoad(file) ELSE Unknown
  /\ Return(t)
  /\ UNCHANGED <<memory, table, file, up, overlapped, ops, faults>>

--------------------------------------------------------------------------------
Crash ==
  /\ up
  /\ faults < MaxFaults
  /\ faults' = faults + 1
  /\ up' = FALSE
  /\ MaybeTorn
  /\ pc' = [t \in Threads |-> "idle"]
  /\ key' = [t \in Threads |-> Unknown]
  /\ cursor' = [t \in Threads |-> 0]
  /\ size' = [t \in Threads |-> 0]
  /\ records' = [t \in Threads |-> <<>>]
  /\ UNCHANGED <<memory, table, flushed, overlapped, ops>>

\* The constructor of the next process, which has the store to itself.  When the file
\* cannot be read it starts empty.
Restart ==
  /\ ~up
  /\ up' = TRUE
  /\ \/ memory' = Loaded(file) /\ flushed' = AfterLoad(file) /\ UNCHANGED faults
     \/ /\ faults < MaxFaults /\ faults' = faults + 1
        /\ memory' = <<>> /\ flushed' = Unknown
  /\ places' = InTurn(Len(memory')) /\ entries' = Len(memory')
  /\ overlapped' = FALSE
  /\ UNCHANGED <<file, pc, locals, ops>>

\* An operator edits the file or restores it from a backup, while nobody writes it.
Edit(f) ==
  /\ faults < MaxFaults
  /\ \A t \in Threads : pc[t] # "writing"
  /\ faults' = faults + 1
  /\ file' = f
  /\ flushed' = Unknown
  /\ UNCHANGED <<memory, table, up, pc, locals, overlapped, ops>>

Operation(t) ==
  \/ \E cap \in Capabilities : PutCapability(t, cap)
  \/ \E id \in Ids : BeginDelete(t, id)
  \/ EndDelete(t) \/ RaiseKeyError(t)
  \/ Clear(t) \/ Save(t)
  \/ BeginDump(t) \/ DumpValue(t) \/ EndDump(t) \/ DumpRaises(t)
  \/ Truncate(t) \/ Write(t) \/ SaveFails(t)
  \/ BeginReload(t) \/ ReadFile(t) \/ ReadFails(t) \/ LoadRecord(t) \/ EndLoad(t)

Next ==
  \/ \E t \in Threads : Operation(t)
  \/ Crash \/ Restart
  \/ \E f \in Edits : Edit(f)

Spec == Init /\ [][Next]_vars

--------------------------------------------------------------------------------
Quiet == up /\ \A t \in Threads : pc[t] = "idle"

\* "Every write operation (put / delete / clear) immediately flushes the current state to
\* disk" (storage.py): between operations what the memory holds is in the file, unless
\* the file system refused, someone edited the file, or a load left records out.
WritesAreFlushed ==
  Quiet /\ flushed # Unknown =>
    \A i \in DOMAIN memory : Readable(file) /\ memory[i] \in Range(file)

\* ... and the file holds nothing else ("keeping the file consistent").
FileConsistent ==
  Quiet /\ flushed # Unknown =>
    memory = flushed /\ file \in {memory} \cup (IF memory = <<>> THEN {Absent} ELSE {})

\* So it is with several threads, as long as no two of them are in _save or reload at
\* once, however the rest of their operations interleave: a lock around those two
\* would be enough for the file to stay consistent.
FileFollowsMemory == ~overlapped => FileConsistent

StoredContents == Loaded(file)

\* A reload shows what it has read, from the moment it has read it.
Contents ==
  IF ~up THEN <<>>
  ELSE IF \E t \in Threads : pc[t] = "loading"
    THEN Loaded(records[CHOOSE t \in Threads : pc[t] = "loading"])
  ELSE memory

Store == INSTANCE RegistryStore WITH
  Values       <- Capabilities,
  Replacements <- {Loaded(f) : f \in Edits},
  contents     <- Contents,
  stored       <- StoredContents

\* A store used by one thread is a persistent registry: whatever fails and
\* wherever the process dies, a restart brings back the contents of the last
\* completed flush or nothing, never a mixture.
PersistentRegistry == Store!Spec
================================================================================
