----------------------------- MODULE HistoryStore -----------------------------
(***************************************************************************)
(* The operation history and the way every document of the plugin is       *)
(* written: internal/store/history.go and writeAtomic of atomic_json.go.   *)
(* Callers (workers, the scheduler, management calls) read, change and     *)
(* replace one file under a mutex; each step of writeAtomic may fail, and  *)
(* the process or the power may go between any two.                        *)
(*                                                                         *)
(* Of a file system it is assumed (external): a rename is atomic; what was *)
(* not synced may be gone or half there after a loss of power; until a     *)
(* directory was synced the disk may hold any of the names' files.  A      *)
(* missing file reads as an empty history, and so is one here.             *)
(***************************************************************************)
EXTENDS Integers, Sequences

CONSTANTS
  Caller, Record, MaxRecords, DirSync, Null,
  MaxCalls,  \* bound on the calls
  MaxMishaps \* bound on the steps that fail and on the ends of the process

\* What the theorems suppose of them.
StoreAssumption ==
  /\ MaxRecords \in Nat
  /\ DirSync \in BOOLEAN
  /\ Null \notin Record \cup {"clear", "made"}
  /\ Record \cap {"clear", "made"} = {}
  /\ Null \notin Caller

VARIABLES
  mu,       \* HistoryRepository.mu: who holds it
  pc,       \* where each caller is
  asked,    \* what each caller was asked for
  items,    \* the records it is going to write
  temp,     \* its temporary file, which no other writer opens
  file,     \* the file that history.json names
  entries,  \* the files that it may name on the disk
  since,    \* history: the appends made after an acknowledged one
  calls, mishaps

vars == <<mu, pc, asked, items, temp, file, entries, since, calls, mishaps>>

Clearing == "clear"
Update == Record \cup {Clearing}
Never == -1
Place == {"idle", "lock", "load", "create", "write", "sync", "rename", "settle"}
File == [items : Seq(Record), full : BOOLEAN, synced : BOOLEAN]
Empty == [items |-> <<>>, full |-> TRUE, synced |-> TRUE]

\* The last records of s, as many as are kept.
Recent(s) == IF Len(s) > MaxRecords THEN SubSeq(s, Len(s) - MaxRecords + 1, Len(s)) ELSE s

Result(s, update) == IF update = Clearing THEN <<>> ELSE Recent(Append(s, update))

Init ==
  /\ mu = Null
  /\ pc = [c \in Caller |-> "idle"]
  /\ asked = [c \in Caller |-> Null]
  /\ items = [c \in Caller |-> <<>>]
  /\ temp = [c \in Caller |-> Null]
  /\ file = Empty
  /\ entries = {Empty}
  /\ since = [r \in Record |-> Never]
  /\ calls = 0
  /\ mishaps = 0

Mishap == mishaps < MaxMishaps /\ mishaps' = mishaps + 1
Goes(c, place) == pc' = [pc EXCEPT ![c] = place]

-----------------------------------------------------------------------------
\* Append and Clear.

Call(c, update) ==
  /\ pc[c] = "idle" /\ calls < MaxCalls
  /\ calls' = calls + 1
  /\ asked' = [asked EXCEPT ![c] = update]
  /\ Goes(c, "lock")
  /\ UNCHANGED <<mu, items, temp, file, entries, since, mishaps>>

Lock(c) ==
  /\ pc[c] = "lock" /\ mu = Null
  /\ mu' = c
  /\ items' = [items EXCEPT ![c] = <<>>]
  /\ Goes(c, IF asked[c] = Clearing THEN "create" ELSE "load")
  /\ UNCHANGED <<asked, temp, file, entries, since, calls, mishaps>>

\* The deferred calls: the temporary file is removed and the mutex released.
Return(c) ==
  /\ mu' = Null
  /\ temp' = [temp EXCEPT ![c] = Null]
  /\ asked' = [asked EXCEPT ![c] = Null]
  /\ Goes(c, "idle")

\* A step that reports an error ends the call.
Fails(c) ==
  /\ Mishap /\ Return(c)
  /\ UNCHANGED <<items, file, entries, since, calls>>

\* loadLocked: a file that is not whole does not parse.
Load(c) ==
  /\ pc[c] = "load"
  /\ \/ /\ file.full
        /\ items' = [items EXCEPT ![c] = Result(file.items, asked[c])]
        /\ Goes(c, "create")
        /\ UNCHANGED <<mu, asked, temp, file, entries, since, calls, mishaps>>
     \/ /\ IF file.full THEN Mishap ELSE UNCHANGED mishaps
        /\ Return(c)
        /\ UNCHANGED <<items, file, entries, since, calls>>

-----------------------------------------------------------------------------
\* writeAtomic.

\* MkdirAll, CreateTemp.
Create(c) ==
  /\ pc[c] = "create"
  /\ \/ /\ temp' = [temp EXCEPT ![c] = [items |-> items[c], full |-> FALSE, synced |-> FALSE]]
        /\ Goes(c, "write")
        /\ UNCHANGED <<mu, asked, items, file, entries, since, calls, mishaps>>
     \/ Fails(c)

\* Chmod, Write.
Write(c) ==
  /\ pc[c] = "write"
  /\ \/ /\ temp' = [temp EXCEPT ![c].full = TRUE]
        /\ Goes(c, "sync")
        /\ UNCHANGED <<mu, asked, items, file, entries, since, calls, mishaps>>
     \/ Fails(c)

\* Sync, Close.
Sync(c) ==
  /\ pc[c] = "sync"
  /\ \/ /\ temp' = [temp EXCEPT ![c].synced = TRUE]
        /\ Goes(c, "rename")
        /\ UNCHANGED <<mu, asked, items, file, entries, since, calls, mishaps>>
     \/ Fails(c)

\* From here on a reader finds the new document; what was acknowledged before
\* is one append older, or cleared.
Rename(c) ==
  /\ pc[c] = "rename"
  /\ \/ /\ file' = temp[c]
        /\ entries' = entries \cup {temp[c]}
        /\ temp' = [temp EXCEPT ![c] = Null]
        /\ since' = [r \in Record |-> IF asked[c] = Clearing \/ since[r] = Never THEN Never
                                      ELSE since[r] + 1]
        /\ Goes(c, "settle")
        /\ UNCHANGED <<mu, asked, items, calls, mishaps>>
     \/ Fails(c)

\* Open and Sync of the directory.  Where the system cannot (EINVAL), the call
\* succeeds all the same.
Settle(c) ==
  /\ pc[c] = "settle"
  /\ \/ /\ entries' = IF DirSync THEN {file} ELSE entries
        /\ since' = IF asked[c] = Clearing THEN since ELSE [since EXCEPT ![asked[c]] = 0]
        /\ Return(c)
        /\ UNCHANGED <<items, file, calls, mishaps>>
     \/ Fails(c)

-----------------------------------------------------------------------------
\* The ends of a process (its temporary file stays and is never read).

Gone ==
  /\ Mishap
  /\ mu' = Null
  /\ temp' = [c \in Caller |-> Null]
  /\ pc' = [c \in Caller |-> "idle"]
  /\ asked' = [c \in Caller |-> Null]
  /\ UNCHANGED <<items, since, calls>>

Die == Gone /\ UNCHANGED <<file, entries>>

LosePower ==
  /\ Gone
  /\ \E f \in entries : file' = [f EXCEPT !.full = @ /\ f.synced]
  /\ entries' = {file'}

Step(c) ==
  \/ Lock(c) \/ Load(c) \/ Create(c) \/ Write(c) \/ Sync(c) \/ Rename(c) \/ Settle(c)

Next ==
  \/ \E c \in Caller : (\E update \in Update : Call(c, update)) \/ Step(c)
  \/ Die \/ LosePower

Spec == Init /\ [][Next]_vars

-----------------------------------------------------------------------------
\* Properties.

\* Types; no file that may be found has more records than are kept (Append).
TypeOK ==
  /\ mu \in Caller \cup {Null}
  /\ pc \in [Caller -> Place]
  /\ asked \in [Caller -> Update \cup {Null}]
  /\ items \in [Caller -> Seq(Record)]
  /\ temp \in [Caller -> File \cup {Null}]
  /\ file \in File /\ file \in entries /\ entries \in SUBSET File
  /\ since \in [Record -> Nat \cup {Never}]
  /\ calls \in Nat /\ mishaps \in Nat
  /\ \A f \in entries : Len(f.items) <= MaxRecords

\* Where directories are synced, an acknowledged record is found by every
\* reader and after every loss of power, until the history was cleared or as
\* many later appends as it keeps have taken effect (Append, writeAtomic).
AcknowledgedFound == DirSync => \A r \in Record : since[r] # Never /\ since[r] < MaxRecords =>
  \A f \in entries : f.full /\ \E i \in DOMAIN f.items : f.items[i] = r

\* What a reader finds in a file: its records, or an error.
Found(f) == IF f.full THEN f.items ELSE Null

Log == INSTANCE DurableLog WITH
  log <- Found(file),
  perhaps <- {Found(f) : f \in entries},
  owed <- [c \in Caller |-> IF asked[c] # Null /\ pc[c] = "settle" THEN "made" ELSE asked[c]]

\* Every step keeps the promise of DurableLog, whatever fails between two steps.
KeepsLog == Log!Spec

=============================================================================
