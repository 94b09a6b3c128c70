----------------------------- MODULE StoreProofs -----------------------------
(***************************************************************************)
(* Theorems of HistoryStore for every number of callers and records, every *)
(* length of the history and every bound: types, what is acknowledged is   *)
(* found, and HistoryStore implements DurableLog.                          *)
(***************************************************************************)
EXTENDS HistoryStore, TLAPS

(***************************************************************************)
(* The records that are kept.                                              *)
(***************************************************************************)

\* A record stands at most n places before the last one.
Near(s, r, n) == \E i \in 1 .. Len(s) : s[i] = r /\ Len(s) - i <= n

LEMMA RecentKept ==
  ASSUME StoreAssumption, NEW s \in Seq(Record)
  PROVE  /\ Recent(s) \in Seq(Record) /\ Len(Recent(s)) <= MaxRecords
         /\ \A r, n : n \in Nat /\ n < MaxRecords /\ Near(s, r, n) => Near(Recent(s), r, n)
<1> DEFINE l == Len(s)
           m == MaxRecords
           t == Recent(s)
<1>1. l \in Nat /\ m \in Nat /\ s \in [1 .. l -> Record]
  BY DEF StoreAssumption
<1>2. CASE l > m
  <2>1. t = SubSeq(s, l - m + 1, l)
    BY <1>2 DEF Recent
  <2>2. l - m + 1 \in 1 .. l + 1 /\ l - m + 1 \in Nat \ {0} /\ l - (l - m + 1) + 1 = m
    BY <1>1, <1>2
  <2>3. /\ t \in Seq(Record) /\ Len(t) = m
        /\ \A j \in 1 .. m : t[j] = s[l - m + j]
    <3>1. t = [j \in 1 .. m |-> s[l - m + j]]
      BY <1>1, <2>1, <2>2
    <3>2. \A j \in 1 .. m : s[l - m + j] \in Record
      BY <1>1, <1>2
    <3> HIDE DEF t, l, m
    <3>3. t \in [1 .. m -> Record] /\ \A j \in 1 .. m : t[j] = s[l - m + j]
      BY <3>1, <3>2
    <3> QED
      BY <1>1, <3>3
  <2> HIDE DEF t
  <2>4. ASSUME NEW r, NEW n \in Nat, n < m, NEW i \in 1 .. l, s[i] = r, l - i <= n
        PROVE  Near(t, r, n)
    <3> DEFINE j == i - (l - m)
    <3>1. j \in 1 .. m /\ l - m + j = i /\ m - j = l - i
      BY <1>1, <1>2, <2>4
    <3> HIDE DEF j
    <3>2. t[j] = r /\ Len(t) - j <= n /\ j \in 1 .. Len(t)
      BY <2>3, <2>4, <3>1
    <3> QED
      BY <3>2 DEF Near
  <2> HIDE DEF l, m
  <2>5. \A r, n : n \in Nat /\ n < m /\ (\E i \in 1 .. l : s[i] = r /\ l - i <= n) => Near(t, r, n)
    BY <2>4
  <2>6. t \in Seq(Record) /\ Len(t) <= m
    BY <1>1, <2>3
  <2> QED
    BY <2>5, <2>6 DEF Near, t, l, m
<1>3. CASE ~(l > m)
  <2>1. t = s
    BY <1>3 DEF Recent
  <2>2. Len(s) <= MaxRecords
    BY <1>1, <1>3
  <2> HIDE DEF t, l, m
  <2>3. t \in Seq(Record) /\ Len(t) <= MaxRecords /\ \A r, n : Near(s, r, n) => Near(t, r, n)
    BY <2>1, <2>2
  <2> QED
    BY <2>3 DEF t
<1> QED
  BY <1>2, <1>3

LEMMA ResultKept ==
  ASSUME StoreAssumption, NEW s \in Seq(Record), NEW update \in Update
  PROVE  /\ Result(s, update) \in Seq(Record) /\ Len(Result(s, update)) <= MaxRecords
         /\ update # Clearing => \A r, n : n \in Nat /\ n + 1 < MaxRecords /\ Near(s, r, n) =>
                                   Near(Result(s, update), r, n + 1)
         /\ update # Clearing /\ MaxRecords > 0 => Near(Result(s, update), update, 0)
<1> DEFINE a == Append(s, update)
<1>1. MaxRecords \in Nat
  BY DEF StoreAssumption
<1>2. CASE update = Clearing
  BY <1>1, <1>2 DEF Result
<1>3. CASE update # Clearing
  <2>1. update \in Record
    BY <1>3 DEF Update
  <2>2. /\ a \in Seq(Record) /\ Len(a) = Len(s) + 1 /\ Len(s) \in Nat
        /\ a[Len(s) + 1] = update /\ \A i \in 1 .. Len(s) : a[i] = s[i]
    BY <2>1
  <2>3. Result(s, update) = Recent(a)
    BY <1>3 DEF Result
  <2> HIDE DEF a
  <2>4. ASSUME NEW r, NEW n \in Nat, Near(s, r, n) PROVE Near(a, r, n + 1)
    <3>1. PICK i \in 1 .. Len(s) : s[i] = r /\ Len(s) - i <= n
      BY <2>4 DEF Near
    <3>2. i \in 1 .. Len(a) /\ a[i] = r /\ Len(a) - i <= n + 1
      BY <2>2, <3>1
    <3> QED
      BY <3>2 DEF Near
  <2>5. Near(a, update, 0)
    <3>1. Len(a) \in 1 .. Len(a) /\ a[Len(a)] = update /\ Len(a) - Len(a) <= 0
      BY <2>2
    <3> QED
      BY <3>1 DEF Near
  <2>6. /\ Recent(a) \in Seq(Record) /\ Len(Recent(a)) <= MaxRecords
        /\ \A r, n : n \in Nat /\ n < MaxRecords /\ Near(a, r, n) => Near(Recent(a), r, n)
    BY <2>2, RecentKept
  <2>7. \A n \in Nat : n + 1 \in Nat
    OBVIOUS
  <2>8. 0 \in Nat
    OBVIOUS
  <2> QED
    BY <1>1, <1>3, <2>3, <2>4, <2>5, <2>6, <2>7, <2>8
<1> QED
  BY <1>2, <1>3

(***************************************************************************)
(* The invariant.                                                          *)
(***************************************************************************)

Working == {"load", "create", "write", "sync", "rename", "settle"}

\* Whoever is past the mutex holds it.
Held == \A c \in Caller : pc[c] \in Working => mu = c

\* Whoever is under way was asked for something, an append if he reads first.
Asking == \A c \in Caller : /\ pc[c] = "idle" <=> asked[c] = Null
                            /\ pc[c] = "load" => asked[c] # Clearing

\* What is about to be written is what the update makes of the file.
Prepared == \A c \in Caller : pc[c] \in {"create", "write", "sync", "rename"} =>
  items[c] = Result(file.items, asked[c])

\* The temporary file has it, whole and synced when it is to be renamed.
Filled == \A c \in Caller :
  /\ pc[c] \in {"write", "sync", "rename"} => temp[c] \in File /\ temp[c].items = items[c]
  /\ pc[c] \in {"sync", "rename"} => temp[c].full
  /\ pc[c] = "rename" => temp[c].synced

Whole == \A f \in entries : f.full /\ f.synced

\* A record that has just been appended is the last one.
JustMade == \A c \in Caller : pc[c] = "settle" /\ asked[c] # Clearing /\ MaxRecords > 0 =>
  Near(file.items, asked[c], 0)

\* An acknowledged record is as near to the end as the later appends allow.
Durable == DirSync => \A r \in Record : since[r] # Never /\ since[r] < MaxRecords =>
  \A f \in entries : Near(f.items, r, since[r])

Inv == TypeOK /\ Held /\ Asking /\ Prepared /\ Filled /\ Whole /\ JustMade /\ Durable

LEMMA InvInit ==
  ASSUME StoreAssumption
  PROVE  Init => Inv
<1> SUFFICES ASSUME Init PROVE Inv
  OBVIOUS
<1>1. Empty \in File /\ Len(Empty.items) = 0 /\ MaxRecords \in Nat
  BY DEF StoreAssumption, Empty, File
<1>2. TypeOK
  BY <1>1 DEF Init, TypeOK, Place, Never
<1>3. Held /\ Asking /\ Prepared /\ Filled /\ JustMade
  BY DEF Init, Held, Working, Asking, Prepared, Filled, JustMade
<1>4. Whole
  BY DEF Init, Whole, Empty
<1>5. Durable
  BY DEF Init, Durable
<1> QED
  BY <1>2, <1>3, <1>4, <1>5 DEF Inv

\* While one is past the mutex, the others wait for it or have nothing to do.
LEMMA Alone ==
  ASSUME Inv, NEW c \in Caller, pc[c] \in Working
  PROVE  mu = c /\ \A d \in Caller : d # c => pc[d] \in {"idle", "lock"}
<1>1. mu = c /\ \A d \in Caller : pc[d] \in Working => d = c
  BY DEF Inv, Held
<1>2. \A d \in Caller : pc[d] \in Place
  BY DEF Inv, TypeOK
<1> QED
  BY <1>1, <1>2 DEF Working, Place

\* What is asked of a caller under way is an update.
LEMMA AskedUpdate ==
  ASSUME Inv, NEW c \in Caller, pc[c] # "idle"
  PROVE  asked[c] \in Update /\ asked[c] # Null
  BY DEF Inv, TypeOK, Asking

\* A call that ends without touching the files.
LEMMA ReturnKeeps ==
  ASSUME Inv, NEW c \in Caller, pc[c] \in Working, Return(c),
         UNCHANGED <<items, file, entries, since, calls>>, mishaps' \in Nat
  PROVE  Inv'
<1>1. mu = c /\ \A d \in Caller : d # c => pc[d] \in {"idle", "lock"}
  BY Alone
<1>2. TypeOK'
  BY DEF Inv, TypeOK, Return, Goes, Place
<1>3. /\ pc'[c] = "idle" /\ asked'[c] = Null
      /\ \A d \in Caller : d # c => pc'[d] = pc[d] /\ asked'[d] = asked[d]
  BY DEF Inv, TypeOK, Return, Goes
<1>4. \A d \in Caller : pc'[d] \in {"idle", "lock"}
  BY <1>1, <1>3
<1>5. Held' /\ Prepared' /\ Filled' /\ JustMade'
  BY <1>4 DEF Held, Working, Prepared, Filled, JustMade
<1>6. Asking'
  BY <1>3, <1>4 DEF Inv, Asking
<1>7. Whole' /\ Durable'
  BY DEF Inv, Whole, Durable
<1> QED
  BY <1>2, <1>5, <1>6, <1>7 DEF Inv

LEMMA FailsKeeps ==
  ASSUME Inv, NEW c \in Caller, pc[c] \in Working, Fails(c)
  PROVE  Inv'
<1>1. mishaps' \in Nat
  BY DEF Fails, Mishap, Inv, TypeOK
<1> QED
  BY <1>1, ReturnKeeps DEF Fails

LEMMA CallKeeps ==
  ASSUME StoreAssumption, Inv, NEW c \in Caller, NEW update \in Update, Call(c, update)
  PROVE  Inv'
<1>1. /\ pc'[c] = "lock" /\ asked'[c] = update /\ update # Null
      /\ \A d \in Caller : d # c => pc'[d] = pc[d] /\ asked'[d] = asked[d]
      /\ \A d \in Caller : items'[d] = items[d]
  BY DEF StoreAssumption, Inv, TypeOK, Call, Goes, Update, Clearing
<1>2. TypeOK'
  BY DEF Inv, TypeOK, Call, Goes, Place
<1>3. Held' /\ Asking'
  BY <1>1 DEF Inv, Held, Working, Asking, Call
<1>4. Prepared' /\ Filled' /\ JustMade'
  BY <1>1 DEF Inv, Prepared, Filled, JustMade, Call
<1>5. Whole' /\ Durable'
  BY DEF Inv, Whole, Durable, Call
<1> QED
  BY <1>2, <1>3, <1>4, <1>5 DEF Inv

LEMMA LockKeeps ==
  ASSUME StoreAssumption, Inv, NEW c \in Caller, Lock(c)
  PROVE  Inv'
<1>1. \A d \in Caller : pc[d] \in {"idle", "lock"}
  <2>1. \A d \in Caller : pc[d] \notin Working /\ pc[d] \in Place
    BY DEF StoreAssumption, Inv, Held, TypeOK, Lock
  <2> QED
    BY <2>1 DEF Working, Place
<1>2. /\ mu' = c /\ items'[c] = <<>> /\ asked' = asked
      /\ pc'[c] = (IF asked[c] = Clearing THEN "create" ELSE "load")
      /\ \A d \in Caller : d # c => pc'[d] = pc[d] /\ items'[d] = items[d]
  BY DEF Inv, TypeOK, Lock, Goes
<1>3. TypeOK'
  BY DEF Inv, TypeOK, Lock, Goes, Place
<1>4. Held' /\ Filled' /\ JustMade'
  BY <1>1, <1>2 DEF Held, Working, Filled, JustMade
<1>5. Asking'
  <2>1. pc[c] = "lock" /\ asked[c] # Null
    BY DEF Lock, Inv, Asking
  <2> QED
    BY <1>1, <1>2, <2>1 DEF Inv, Asking
<1>6. Prepared'
  BY <1>1, <1>2 DEF Prepared, Result
<1>7. Whole' /\ Durable'
  BY DEF Inv, Whole, Durable, Lock
<1> QED
  BY <1>3, <1>4, <1>5, <1>6, <1>7 DEF Inv

LEMMA LoadKeeps ==
  ASSUME StoreAssumption, Inv, NEW c \in Caller, Load(c)
  PROVE  Inv'
<1> DEFINE made == Result(file.items, asked[c])
<1>1. /\ pc[c] = "load" /\ pc[c] \in Working /\ mu = c
      /\ \A d \in Caller : d # c => pc[d] \in {"idle", "lock"}
  BY Alone DEF Load, Working
<1>2. asked[c] \in Update /\ asked[c] # Null /\ file \in File /\ file.items \in Seq(Record)
  BY <1>1, AskedUpdate DEF Inv, TypeOK, File
<1>3. made \in Seq(Record)
  BY <1>2, ResultKept
<1>4. CASE /\ items' = [items EXCEPT ![c] = made]
           /\ Goes(c, "create")
           /\ UNCHANGED <<mu, asked, temp, file, entries, since, calls, mishaps>>
  <2> HIDE DEF made
  <2>1. TypeOK'
    BY <1>3, <1>4 DEF Inv, TypeOK, Goes, Place
  <2>2. /\ pc'[c] = "create" /\ items'[c] = made
        /\ \A d \in Caller : d # c => pc'[d] = pc[d] /\ items'[d] = items[d]
    BY <1>4 DEF Inv, TypeOK, Goes
  <2>3. Held' /\ Filled' /\ JustMade'
    BY <1>1, <1>4, <2>2 DEF Held, Working, Filled, JustMade
  <2>4. Asking'
    BY <1>1, <1>2, <1>4, <2>2 DEF Inv, Asking
  <2>5. Prepared'
    BY <1>1, <1>4, <2>2 DEF Prepared, made
  <2>6. Whole' /\ Durable'
    BY <1>4 DEF Inv, Whole, Durable
  <2> QED
    BY <2>1, <2>3, <2>4, <2>5, <2>6 DEF Inv
<1>5. CASE /\ IF file.full THEN Mishap ELSE UNCHANGED mishaps
           /\ Return(c)
           /\ UNCHANGED <<items, file, entries, since, calls>>
  <2>1. mishaps' \in Nat
    BY <1>5 DEF Mishap, Inv, TypeOK
  <2> QED
    BY <1>1, <1>5, <2>1, ReturnKeeps
<1> QED
  BY <1>4, <1>5 DEF Load

LEMMA CreateKeeps ==
  ASSUME Inv, NEW c \in Caller, Create(c)
  PROVE  Inv'
<1>1. /\ pc[c] = "create" /\ pc[c] \in Working /\ mu = c
      /\ \A d \in Caller : d # c => pc[d] \in {"idle", "lock"}
  BY Alone DEF Create, Working
<1>2. CASE /\ temp' = [temp EXCEPT ![c] = [items |-> items[c], full |-> FALSE, synced |-> FALSE]]
           /\ Goes(c, "write")
           /\ UNCHANGED <<mu, asked, items, file, entries, since, calls, mishaps>>
  <2>1. temp' \in [Caller -> File \cup {Null}] /\ temp'[c] \in File /\ temp'[c].items = items[c]
    BY <1>2 DEF Inv, TypeOK, File
  <2>2. TypeOK'
    BY <1>2, <2>1 DEF Inv, TypeOK, Goes, Place
  <2>3. pc'[c] = "write" /\ \A d \in Caller : d # c => pc'[d] = pc[d]
    BY <1>2 DEF Inv, TypeOK, Goes
  <2>4. Held' /\ Asking' /\ Prepared' /\ JustMade'
    BY <1>1, <1>2, <2>3 DEF Inv, Held, Working, Asking, Prepared, JustMade
  <2>5. Filled'
    BY <1>1, <1>2, <2>1, <2>3 DEF Filled
  <2>6. Whole' /\ Durable'
    BY <1>2 DEF Inv, Whole, Durable
  <2> QED
    BY <2>2, <2>4, <2>5, <2>6 DEF Inv
<1>3. CASE Fails(c)
  BY <1>1, <1>3, FailsKeeps
<1> QED
  BY <1>2, <1>3 DEF Create

LEMMA WriteKeeps ==
  ASSUME Inv, NEW c \in Caller, Write(c)
  PROVE  Inv'
<1>1. /\ pc[c] = "write" /\ pc[c] \in Working /\ mu = c
      /\ \A d \in Caller : d # c => pc[d] \in {"idle", "lock"}
  BY Alone DEF Write, Working
<1>2. CASE /\ temp' = [temp EXCEPT ![c].full = TRUE]
           /\ Goes(c, "sync")
           /\ UNCHANGED <<mu, asked, items, file, entries, since, calls, mishaps>>
  <2>a. temp[c] \in File /\ temp[c].items = items[c]
    BY <1>1 DEF Inv, Filled
  <2> DEFINE written == [temp[c] EXCEPT !.full = TRUE]
  <2>b. written \in File /\ written.items = items[c] /\ written.full
    BY <2>a DEF File
  <2>c. temp \in [Caller -> File \cup {Null}] /\ temp' = [temp EXCEPT ![c] = written]
    BY <1>2 DEF Inv, TypeOK
  <2> HIDE DEF written
  <2>1. temp' \in [Caller -> File \cup {Null}] /\ temp'[c] \in File /\ temp'[c].items = items[c]
        /\ temp'[c].full
    BY <2>b, <2>c
  <2>2. TypeOK'
    BY <1>2, <2>1 DEF Inv, TypeOK, Goes, Place
  <2>3. pc'[c] = "sync" /\ \A d \in Caller : d # c => pc'[d] = pc[d]
    BY <1>2 DEF Inv, TypeOK, Goes
  <2>4. Held' /\ Asking' /\ Prepared' /\ JustMade'
    BY <1>1, <1>2, <2>3 DEF Inv, Held, Working, Asking, Prepared, JustMade
  <2>5. Filled'
    BY <1>1, <1>2, <2>1, <2>3 DEF Filled
  <2>6. Whole' /\ Durable'
    BY <1>2 DEF Inv, Whole, Durable
  <2> QED
    BY <2>2, <2>4, <2>5, <2>6 DEF Inv
<1>3. CASE Fails(c)
  BY <1>1, <1>3, FailsKeeps
<1> QED
  BY <1>2, <1>3 DEF Write

LEMMA SyncKeeps ==
  ASSUME Inv, NEW c \in Caller, Sync(c)
  PROVE  Inv'
<1>1. /\ pc[c] = "sync" /\ pc[c] \in Working /\ mu = c
      /\ \A d \in Caller : d # c => pc[d] \in {"idle", "lock"}
  BY Alone DEF Sync, Working
<1>2. CASE /\ temp' = [temp EXCEPT ![c].synced = TRUE]
           /\ Goes(c, "rename")
           /\ UNCHANGED <<mu, asked, items, file, entries, since, calls, mishaps>>
  <2>a. temp[c] \in File /\ temp[c].items = items[c] /\ temp[c].full
    BY <1>1 DEF Inv, Filled
  <2> DEFINE written == [temp[c] EXCEPT !.synced = TRUE]
  <2>b. written \in File /\ written.items = items[c] /\ written.full /\ written.synced
    BY <2>a DEF File
  <2>c. temp \in [Caller -> File \cup {Null}] /\ temp' = [temp EXCEPT ![c] = written]
    BY <1>2 DEF Inv, TypeOK
  <2> HIDE DEF written
  <2>1. temp' \in [Caller -> File \cup {Null}] /\ temp'[c] \in File /\ temp'[c].items = items[c]
        /\ temp'[c].full /\ temp'[c].synced
    BY <2>b, <2>c
  <2>2. TypeOK'
    BY <1>2, <2>1 DEF Inv, TypeOK, Goes, Place
  <2>3. pc'[c] = "rename" /\ \A d \in Caller : d # c => pc'[d] = pc[d]
    BY <1>2 DEF Inv, TypeOK, Goes
  <2>4. Held' /\ Asking' /\ Prepared' /\ JustMade'
    BY <1>1, <1>2, <2>3 DEF Inv, Held, Working, Asking, Prepared, JustMade
  <2>5. Filled'
    BY <1>1, <1>2, <2>1, <2>3 DEF Filled
  <2>6. Whole' /\ Durable'
    BY <1>2 DEF Inv, Whole, Durable
  <2> QED
    BY <2>2, <2>4, <2>5, <2>6 DEF Inv
<1>3. CASE Fails(c)
  BY <1>1, <1>3, FailsKeeps
<1> QED
  BY <1>2, <1>3 DEF Sync

LEMMA NearFurther ==
  ASSUME NEW s \in Seq(Record), NEW r, NEW n \in Nat, Near(s, r, n)
  PROVE  Near(s, r, n + 1)
<1>1. PICK i \in 1 .. Len(s) : s[i] = r /\ Len(s) - i <= n
  BY DEF Near
<1>2. Len(s) - i <= n + 1
  BY <1>1
<1> QED
  BY <1>1, <1>2 DEF Near

LEMMA RenameKeeps ==
  ASSUME StoreAssumption, Inv, NEW c \in Caller, Rename(c)
  PROVE  Inv'
<1>1. /\ pc[c] = "rename" /\ pc[c] \in Working /\ mu = c
      /\ \A d \in Caller : d # c => pc[d] \in {"idle", "lock"}
  BY Alone DEF Rename, Working
<1>2. /\ asked[c] \in Update /\ asked[c] # Null
      /\ file \in File /\ file \in entries /\ file.items \in Seq(Record) /\ MaxRecords \in Nat
  BY <1>1, AskedUpdate DEF StoreAssumption, Inv, TypeOK, File
<1>3. /\ temp[c] \in File /\ temp[c].items = Result(file.items, asked[c])
      /\ temp[c].full /\ temp[c].synced
  BY <1>1 DEF Inv, Filled, Prepared
<1>4. /\ Len(temp[c].items) <= MaxRecords
      /\ asked[c] # Clearing => \A r, n : n \in Nat /\ n + 1 < MaxRecords /\ Near(file.items, r, n) =>
                                  Near(temp[c].items, r, n + 1)
      /\ asked[c] # Clearing /\ MaxRecords > 0 => Near(temp[c].items, asked[c], 0)
  BY <1>2, <1>3, ResultKept
<1>5. CASE /\ file' = temp[c]
           /\ entries' = entries \cup {temp[c]}
           /\ temp' = [temp EXCEPT ![c] = Null]
           /\ since' = [r \in Record |-> IF asked[c] = Clearing \/ since[r] = Never THEN Never
                                         ELSE since[r] + 1]
           /\ Goes(c, "settle")
           /\ UNCHANGED <<mu, asked, items, calls, mishaps>>
  <2>1. pc'[c] = "settle" /\ \A d \in Caller : d # c => pc'[d] = pc[d]
    BY <1>5 DEF Inv, TypeOK, Goes
  <2>2. TypeOK'
    <3>1. since' \in [Record -> Nat \cup {Never}]
      BY <1>5 DEF Inv, TypeOK, Never
    <3>2. pc' \in [Caller -> Place]
      BY <1>5 DEF Inv, TypeOK, Goes, Place
    <3>3. file' \in File /\ file' \in entries' /\ entries' \in SUBSET File
      BY <1>3, <1>5 DEF Inv, TypeOK
    <3>4. \A f \in entries' : Len(f.items) <= MaxRecords
      BY <1>4, <1>5 DEF Inv, TypeOK
    <3> QED
      BY <1>5, <3>1, <3>2, <3>3, <3>4 DEF Inv, TypeOK
  <2>3. Held' /\ Asking' /\ Prepared' /\ Filled'
    BY <1>1, <1>5, <2>1 DEF Inv, Held, Working, Asking, Prepared, Filled
  <2>4. Whole'
    BY <1>3, <1>5 DEF Inv, Whole
  <2>5. JustMade'
    BY <1>1, <1>4, <1>5, <2>1 DEF JustMade
  <2>6. Durable'
    <3>1. SUFFICES ASSUME DirSync, NEW r \in Record, since'[r] # Never, since'[r] < MaxRecords,
                          NEW f \in entries'
                   PROVE  Near(f.items, r, since'[r])
      BY DEF Durable
    <3>2. asked[c] # Clearing /\ since[r] # Never /\ since[r] \in Nat /\ since'[r] = since[r] + 1
      BY <1>5, <3>1 DEF Inv, TypeOK
    <3>3. since[r] < MaxRecords
      BY <1>2, <3>1, <3>2
    <3>4. \A g \in entries : Near(g.items, r, since[r])
      BY <3>1, <3>2, <3>3 DEF Inv, Durable
    <3>5. CASE f = temp[c]
      BY <1>2, <1>4, <3>1, <3>2, <3>4, <3>5
    <3>6. CASE f \in entries
      <4>1. f.items \in Seq(Record)
        BY <3>6 DEF Inv, TypeOK, File
      <4> QED
        BY <3>2, <3>4, <3>6, <4>1, NearFurther
    <3> QED
      BY <1>5, <3>5, <3>6
  <2> QED
    BY <2>2, <2>3, <2>4, <2>5, <2>6 DEF Inv
<1>6. CASE Fails(c)
  BY <1>1, <1>6, FailsKeeps
<1> QED
  BY <1>5, <1>6 DEF Rename

LEMMA SettleKeeps ==
  ASSUME StoreAssumption, Inv, NEW c \in Caller, Settle(c)
  PROVE  Inv'
<1>1. /\ pc[c] = "settle" /\ pc[c] \in Working /\ mu = c
      /\ \A d \in Caller : d # c => pc[d] \in {"idle", "lock"}
  BY Alone DEF Settle, Working
<1>2. asked[c] \in Update /\ asked[c] # Null /\ file \in entries /\ MaxRecords \in Nat
  BY <1>1, AskedUpdate DEF StoreAssumption, Inv, TypeOK
<1>3. CASE /\ entries' = IF DirSync THEN {file} ELSE entries
           /\ since' = IF asked[c] = Clearing THEN since ELSE [since EXCEPT ![asked[c]] = 0]
           /\ Return(c)
           /\ UNCHANGED <<items, file, calls, mishaps>>
  <2>1. /\ pc'[c] = "idle" /\ asked'[c] = Null
        /\ \A d \in Caller : d # c => pc'[d] = pc[d] /\ asked'[d] = asked[d]
    BY <1>3 DEF Inv, TypeOK, Return, Goes
  <2>2. \A d \in Caller : pc'[d] \in {"idle", "lock"}
    BY <1>1, <2>1
  <2>3. \A f \in entries' : f \in entries
    BY <1>2, <1>3
  <2>4. TypeOK'
    <3>1. since' \in [Record -> Nat \cup {Never}]
      BY <1>2, <1>3 DEF Inv, TypeOK, Update
    <3>2. /\ pc' \in [Caller -> Place] /\ asked' \in [Caller -> Update \cup {Null}]
          /\ mu' = Null /\ temp' \in [Caller -> File \cup {Null}]
      BY <1>3 DEF Inv, TypeOK, Return, Goes, Place
    <3>3. file' \in File /\ file' \in entries' /\ entries' \in SUBSET File
      BY <1>2, <1>3 DEF Inv, TypeOK
    <3>4. \A f \in entries' : Len(f.items) <= MaxRecords
      BY <2>3 DEF Inv, TypeOK
    <3> QED
      BY <1>3, <3>1, <3>2, <3>3, <3>4 DEF Inv, TypeOK
  <2>5. Held' /\ Prepared' /\ Filled' /\ JustMade'
    BY <2>2 DEF Held, Working, Prepared, Filled, JustMade
  <2>6. Asking'
    BY <2>1, <2>2 DEF Inv, Asking
  <2>7. Whole'
    BY <2>3 DEF Inv, Whole
  <2>8. Durable'
    <3>1. SUFFICES ASSUME DirSync, NEW r \in Record, since'[r] # Never, since'[r] < MaxRecords,
                          NEW f \in entries'
                   PROVE  Near(f.items, r, since'[r])
      BY DEF Durable
    <3>2. f = file
      BY <1>3, <3>1
    <3>3. CASE asked[c] # Clearing /\ r = asked[c]
      <4>1. since'[r] = 0
        BY <1>3, <3>3 DEF Inv, TypeOK
      <4>2. MaxRecords > 0
        BY <1>2, <3>1, <4>1
      <4>3. Near(file.items, asked[c], 0)
        BY <1>1, <3>3, <4>2 DEF Inv, JustMade
      <4> QED
        BY <3>2, <3>3, <4>1, <4>3
    <3>4. CASE asked[c] = Clearing \/ r # asked[c]
      <4>1. since'[r] = since[r]
        BY <1>3, <3>4 DEF Inv, TypeOK
      <4> QED
        BY <1>2, <3>1, <3>2, <4>1 DEF Inv, Durable
    <3> QED
      BY <3>3, <3>4
  <2> QED
    BY <2>4, <2>5, <2>6, <2>7, <2>8 DEF Inv
<1>4. CASE Fails(c)
  BY <1>1, <1>4, FailsKeeps
<1> QED
  BY <1>3, <1>4 DEF Settle

\* A file that was synced is found as it was.
LEMMA FoundAgain ==
  ASSUME Inv, LosePower
  PROVE  file' \in entries /\ entries' = {file'}
<1>1. PICK f \in entries : file' = [f EXCEPT !.full = f.full /\ f.synced]
  BY DEF LosePower
<1>2. f \in File /\ f.full = TRUE /\ f.synced = TRUE
  BY DEF Inv, TypeOK, Whole, File
<1>3. file' = [f EXCEPT !.full = TRUE]
  BY <1>1, <1>2
<1>4. file' = f
  BY <1>2, <1>3 DEF File
<1> QED
  BY <1>4 DEF LosePower

LEMMA GoneKeeps ==
  ASSUME Inv, Gone, file' \in entries, file' \in entries', entries' \in SUBSET entries
  PROVE  Inv'
<1>1. \A c \in Caller : pc'[c] = "idle" /\ asked'[c] = Null
  BY DEF Gone
<1>2. TypeOK'
  BY DEF Inv, TypeOK, Gone, Mishap, Place
<1>3. Held' /\ Asking' /\ Prepared' /\ Filled' /\ JustMade'
  BY <1>1 DEF Held, Working, Asking, Prepared, Filled, JustMade
<1>4. Whole'
  BY DEF Inv, Whole
<1>5. Durable'
  BY DEF Inv, Durable, Gone
<1> QED
  BY <1>2, <1>3, <1>4, <1>5 DEF Inv

LEMMA InvNext ==
  ASSUME StoreAssumption, Inv, [Next]_vars
  PROVE  Inv'
<1>1. CASE UNCHANGED vars
  BY <1>1 DEF vars, Inv, TypeOK, Held, Asking, Prepared, Filled, Whole, JustMade, Durable
<1>2. ASSUME NEW c \in Caller, NEW update \in Update, Call(c, update)
      PROVE  Inv'
  BY <1>2, CallKeeps
<1>3. ASSUME NEW c \in Caller, Step(c)
      PROVE  Inv'
  BY <1>3, LockKeeps, LoadKeeps, CreateKeeps, WriteKeeps, SyncKeeps, RenameKeeps, SettleKeeps
     DEF Step
<1>4. CASE Die
  <2>1. file \in entries
    BY DEF Inv, TypeOK
  <2> QED
    BY <1>4, <2>1, GoneKeeps DEF Die
<1>5. CASE LosePower
  <2>1. file' \in entries /\ entries' = {file'}
    BY <1>5, FoundAgain
  <2> QED
    BY <1>5, <2>1, GoneKeeps DEF LosePower
<1> QED
  BY <1>1, <1>2, <1>3, <1>4, <1>5 DEF Next

\* The invariant of every state, from which the theorems below follow.
THEOREM StoreInvariant ==
  ASSUME StoreAssumption
  PROVE  Spec => []Inv
<1>1. Init => Inv
  BY InvInit
<1>2. Inv /\ [Next]_vars => Inv'
  BY InvNext
<1> QED
  BY <1>1, <1>2, PTL DEF Spec

\* The state has its types and a history is never longer than it may be,
\* whatever the callers do (historyDocument, HistoryRepository.maxRecords).
THEOREM StoreTypeCorrect ==
  ASSUME StoreAssumption
  PROVE  Spec => []TypeOK
<1>1. Inv => TypeOK
  BY DEF Inv
<1> QED
  BY <1>1, StoreInvariant, PTL

\* An acknowledged record is found by every reader and after every loss of
\* power, until it was cleared or enough later appends took effect, for every
\* number of callers (Append, writeAtomic).
THEOREM AcknowledgedSurvives ==
  ASSUME StoreAssumption
  PROVE  Spec => []AcknowledgedFound
<1>1. Inv => AcknowledgedFound
  <2>1. SUFFICES ASSUME Inv, DirSync, NEW r \in Record, since[r] # Never, since[r] < MaxRecords,
                        NEW f \in entries
                 PROVE  f.full /\ \E i \in DOMAIN f.items : f.items[i] = r
    BY DEF AcknowledgedFound
  <2>2. f.full /\ Near(f.items, r, since[r]) /\ f.items \in Seq(Record)
    BY <2>1 DEF Inv, Whole, Durable, TypeOK, File
  <2>3. DOMAIN f.items = 1 .. Len(f.items)
    BY <2>2
  <2> QED
    BY <2>2, <2>3 DEF Near
<1> QED
  BY <1>1, StoreInvariant, PTL

(***************************************************************************)
(* HistoryStore implements DurableLog: the rename is where an update takes *)
(* effect, the end of the call where it is acknowledged.                   *)
(***************************************************************************)

\* What DurableLog is shown.
Perhaps == {Found(f) : f \in entries}
Owed == [c \in Caller |-> IF asked[c] # Null /\ pc[c] = "settle" THEN "made" ELSE asked[c]]

\* A step that DurableLog does not see.
LEMMA Unseen ==
  ASSUME UNCHANGED <<file, entries>>, Owed' = Owed
  PROVE  UNCHANGED Log!vars
<1>1. Found(file)' = Found(file) /\ Perhaps' = Perhaps
  BY DEF Found, Perhaps
<1> QED
  BY <1>1 DEF Log!vars, Perhaps, Owed

LEMMA InitShown == Init => Log!Init
<1> SUFFICES ASSUME Init PROVE Log!Init
  OBVIOUS
<1>1. Found(file) = <<>> /\ Perhaps = {<<>>}
  BY DEF Init, Found, Empty, Perhaps
<1>2. Owed = [c \in Caller |-> Null]
  BY DEF Init, Owed
<1> QED
  BY <1>1, <1>2 DEF Log!Init, Perhaps, Owed

\* A failed call.
LEMMA FailShown ==
  ASSUME StoreAssumption, Inv, NEW c \in Caller, pc[c] \in Working, Return(c), UNCHANGED <<file, entries>>
  PROVE  Log!Fail(c)
<1>1. asked[c] \in Update /\ asked[c] # Null
  BY AskedUpdate DEF Working
<1>2. Owed[c] # Null
  BY <1>1 DEF StoreAssumption, Owed
<1>3. Owed' = [Owed EXCEPT ![c] = Null]
  BY DEF Inv, TypeOK, Return, Goes, Owed
<1>4. Found(file)' = Found(file) /\ Perhaps' = Perhaps
  BY DEF Found, Perhaps
<1> QED
  BY <1>2, <1>3, <1>4 DEF Log!Fail, Perhaps, Owed

\* A step of a call from before its rename to before its rename.
LEMMA GoesUnseen ==
  ASSUME Inv, NEW c \in Caller, NEW place, place # "settle", pc[c] # "settle",
         Goes(c, place), UNCHANGED <<asked, file, entries>>
  PROVE  UNCHANGED Log!vars
<1>1. Owed' = Owed
  BY DEF Inv, TypeOK, Goes, Owed
<1> QED
  BY <1>1, Unseen

LEMMA CallShown ==
  ASSUME Inv, NEW c \in Caller, NEW update \in Update, Call(c, update)
  PROVE  Log!Ask(c, update)
<1>1. Owed[c] = Null
  BY DEF Inv, Asking, Call, Owed
<1>2. Owed' = [Owed EXCEPT ![c] = update]
  BY DEF Inv, TypeOK, Call, Goes, Owed
<1>3. Found(file)' = Found(file) /\ Perhaps' = Perhaps
  BY DEF Found, Perhaps, Call
<1> QED
  BY <1>1, <1>2, <1>3 DEF Log!Ask, Perhaps, Owed

LEMMA RenameShown ==
  ASSUME Inv, NEW c \in Caller, pc[c] = "rename",
         file' = temp[c], entries' = entries \cup {temp[c]}, Goes(c, "settle"), UNCHANGED asked
  PROVE  Log!Make(c)
<1>1. asked[c] \in Update /\ asked[c] # Null
  BY AskedUpdate
<1>2. Owed[c] = asked[c]
  BY DEF Owed
<1>3. Owed' = [Owed EXCEPT ![c] = "made"]
  BY <1>1 DEF Inv, TypeOK, Goes, Owed
<1>4. /\ file.full /\ temp[c].full
      /\ temp[c].items = Result(file.items, asked[c])
  BY DEF Inv, TypeOK, Whole, Filled, Prepared
<1>5. Found(file)' = Result(Found(file), asked[c])
  BY <1>4 DEF Found
<1>6. Perhaps' = Perhaps \cup {Found(file)'}
  BY DEF Perhaps, Found
<1>7. \A s, u : Log!Result(s, u) = Result(s, u)
  BY DEF Log!Result, Result, Log!Recent, Recent, Log!Clearing, Clearing
<1>8. Log!Update = Update /\ Log!Made = "made"
  BY DEF Log!Update, Update, Log!Clearing, Clearing, Log!Made
<1> QED
  BY <1>1, <1>2, <1>3, <1>5, <1>6, <1>7, <1>8 DEF Log!Make, Perhaps, Owed

LEMMA SettleShown ==
  ASSUME Inv, NEW c \in Caller, pc[c] = "settle", Return(c), UNCHANGED file,
         entries' = IF DirSync THEN {file} ELSE entries
  PROVE  Log!Acknowledge(c)
<1>1. asked[c] # Null
  BY AskedUpdate
<1>2. Owed[c] = "made"
  BY <1>1 DEF Owed
<1>3. Owed' = [Owed EXCEPT ![c] = Null]
  BY DEF Inv, TypeOK, Return, Goes, Owed
<1>4. Found(file)' = Found(file)
  BY DEF Found
<1>5. Perhaps' = IF DirSync THEN {Found(file)} ELSE Perhaps
  BY DEF Perhaps, Found
<1> QED
  BY <1>2, <1>3, <1>4, <1>5 DEF Log!Acknowledge, Log!Made, Perhaps, Owed

LEMMA StepShown ==
  ASSUME StoreAssumption, Inv, NEW c \in Caller, Step(c)
  PROVE  [Log!Next]_(Log!vars)
<1>1. ASSUME pc[c] \in Working, Return(c), UNCHANGED <<file, entries>>
      PROVE  Log!Next
  BY <1>1, FailShown DEF Log!Next
<1>2. ASSUME pc[c] \in Working, Fails(c)
      PROVE  Log!Next
  BY <1>1, <1>2 DEF Fails
<1>3. CASE Lock(c)
  <2> DEFINE place == IF asked[c] = Clearing THEN "create" ELSE "load"
  <2>1. place # "settle" /\ pc[c] # "settle" /\ Goes(c, place) /\ UNCHANGED <<asked, file, entries>>
    BY <1>3 DEF Lock
  <2> HIDE DEF place
  <2> QED
    BY <2>1, GoesUnseen
<1>4. CASE Load(c)
  <2>1. pc[c] = "load" /\ pc[c] \in Working
    BY <1>4 DEF Load, Working
  <2>2. \/ Goes(c, "create") /\ UNCHANGED <<asked, file, entries>>
        \/ Return(c) /\ UNCHANGED <<file, entries>>
    BY <1>4 DEF Load
  <2> QED
    BY <1>1, <2>1, <2>2, GoesUnseen
<1>5. CASE Create(c)
  <2>1. pc[c] = "create" /\ pc[c] \in Working
    BY <1>5 DEF Create, Working
  <2>2. (Goes(c, "write") /\ UNCHANGED <<asked, file, entries>>) \/ Fails(c)
    BY <1>5 DEF Create
  <2> QED
    BY <1>2, <2>1, <2>2, GoesUnseen
<1>6. CASE Write(c)
  <2>1. pc[c] = "write" /\ pc[c] \in Working
    BY <1>6 DEF Write, Working
  <2>2. (Goes(c, "sync") /\ UNCHANGED <<asked, file, entries>>) \/ Fails(c)
    BY <1>6 DEF Write
  <2> QED
    BY <1>2, <2>1, <2>2, GoesUnseen
<1>7. CASE Sync(c)
  <2>1. pc[c] = "sync" /\ pc[c] \in Working
    BY <1>7 DEF Sync, Working
  <2>2. (Goes(c, "rename") /\ UNCHANGED <<asked, file, entries>>) \/ Fails(c)
    BY <1>7 DEF Sync
  <2> QED
    BY <1>2, <2>1, <2>2, GoesUnseen
<1>8. CASE Rename(c)
  <2>1. pc[c] = "rename" /\ pc[c] \in Working
    BY <1>8 DEF Rename, Working
  <2>2. \/ /\ file' = temp[c] /\ entries' = entries \cup {temp[c]}
           /\ Goes(c, "settle") /\ UNCHANGED asked
        \/ Fails(c)
    BY <1>8 DEF Rename
  <2>3. ASSUME file' = temp[c], entries' = entries \cup {temp[c]}, Goes(c, "settle"), UNCHANGED asked
        PROVE  Log!Next
    BY <2>1, <2>3, RenameShown DEF Log!Next
  <2> QED
    BY <1>2, <2>1, <2>2, <2>3
<1>9. CASE Settle(c)
  <2>1. pc[c] = "settle" /\ pc[c] \in Working
    BY <1>9 DEF Settle, Working
  <2>2. \/ /\ entries' = IF DirSync THEN {file} ELSE entries
           /\ Return(c) /\ UNCHANGED file
        \/ Fails(c)
    BY <1>9 DEF Settle
  <2>3. ASSUME entries' = IF DirSync THEN {file} ELSE entries, Return(c), UNCHANGED file
        PROVE  Log!Next
    BY <2>1, <2>3, SettleShown DEF Log!Next
  <2> QED
    BY <1>2, <2>1, <2>2, <2>3
<1> QED
  BY <1>3, <1>4, <1>5, <1>6, <1>7, <1>8, <1>9 DEF Step

LEMMA GoneShown ==
  ASSUME Gone
  PROVE  Owed' = [c \in Caller |-> Null]
  BY DEF Gone, Owed

LEMMA LosePowerShown ==
  ASSUME Inv, LosePower
  PROVE  Log!LosePower
<1>1. file' \in entries /\ entries' = {file'}
  BY FoundAgain
<1>2. Owed' = [c \in Caller |-> Null]
  BY GoneShown DEF LosePower
<1>3. Found(file)' \in Perhaps /\ Perhaps' = {Found(file)'}
  BY <1>1 DEF Found, Perhaps
<1> QED
  BY <1>2, <1>3 DEF Log!LosePower, Perhaps, Owed

\* The history keeps what DurableLog promises: an update takes effect at once,
\* on the document as it is then, or not at all, whatever stops or fails
\* between two steps of writeAtomic, and when acknowledged it stays.
THEOREM LogKept ==
  ASSUME StoreAssumption
  PROVE  Spec => KeepsLog
<1>1. Inv /\ [Next]_vars => [Log!Next]_(Log!vars)
  <2> SUFFICES ASSUME Inv, [Next]_vars PROVE [Log!Next]_(Log!vars)
    OBVIOUS
  <2>1. CASE UNCHANGED vars
    <3>1. UNCHANGED <<file, entries>> /\ Owed' = Owed
      BY <2>1 DEF vars, Owed
    <3> QED
      BY <3>1, Unseen
  <2>2. ASSUME NEW c \in Caller, NEW update \in Update, Call(c, update)
        PROVE  Log!Next
    <3>1. update \in Log!Update
      BY DEF Log!Update, Update, Log!Clearing, Clearing
    <3>2. Log!Ask(c, update)
      BY <2>2, CallShown
    <3> QED
      BY <3>1, <3>2 DEF Log!Next
  <2>3. ASSUME NEW c \in Caller, Step(c)
        PROVE  [Log!Next]_(Log!vars)
    BY <2>3, StepShown
  <2>4. CASE Die
    <3>1. Found(file)' = Found(file) /\ Perhaps' = Perhaps
      BY <2>4 DEF Die, Found, Perhaps
    <3>2. Owed' = [c \in Caller |-> Null]
      BY <2>4, GoneShown DEF Die
    <3>3. Log!Die
      BY <3>1, <3>2 DEF Log!Die, Perhaps, Owed
    <3> QED
      BY <3>3 DEF Log!Next
  <2>5. CASE LosePower
    BY <2>5, LosePowerShown DEF Log!Next
  <2> QED
    BY <2>1, <2>2, <2>3, <2>4, <2>5 DEF Next
<1> QED
  BY <1>1, InitShown, StoreInvariant, PTL DEF Spec, KeepsLog, Log!Spec

=============================================================================
