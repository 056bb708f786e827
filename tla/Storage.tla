------------------------------ MODULE Storage -------------------------------
(***************************************************************************)
(* pkg/storage: the LSM engine (db.go, wal.go, memtable.go, merge.go,      *)
(* sstable.go).                                                            *)
(*                                                                         *)
(* DB.mu admits one writer at a time, so what interleaves with a write, a  *)
(* flush or a compaction is only a crash; each action below ends where     *)
(* something durable has just changed.  A table is a function from keys to *)
(* records, None where it has no record; the sorted file, its sparse index *)
(* and its bloom filter are the representation of that function.           *)
(***************************************************************************)
EXTENDS Integers, Sequences, FiniteSets, SequencesExt

CONSTANTS Key, Val,
          Tomb,       \* a tombstone record
          None,       \* no record
          Missing,    \* ErrNotFound
          Partial,    \* an .sst file without its footer
          NoFile,     \* no such .sst file
          CompactAt,  \* Options.CompactAt
          MaxWal,     \* bound on the records in the WAL
          MaxID,      \* bound on SSTable numbers
          MaxTorn,    \* bound on appends cut short by a crash
          MaxFaults   \* bound on I/O errors during a flush or a compaction

ASSUME StorageAssumption ==
  /\ CompactAt \in Nat /\ MaxWal \in Nat /\ MaxID \in Nat
  /\ MaxTorn \in Nat /\ MaxFaults \in Nat
  /\ Tomb \notin Val /\ None \notin Val \cup {Tomb} /\ Missing \notin Val
  /\ None \notin Key
  /\ {Partial, NoFile} \cap [Key -> Val \cup {Tomb, None}] = {}

VARIABLES
  \* on disk
  wal,       \* records of wal.log; TornRec where bytes are unreadable
  files,     \* files[id]: the table in <id>.sst, Partial, or NoFile
  manifest,  \* table numbers in MANIFEST, newest first
  \* in memory
  pc,        \* where the holder of DB.mu is; "ready" when nobody holds it
  job,       \* the call the lock is held for
  mem,       \* the memtable
  tables,    \* DB.tables, newest first
  doomed,    \* tables a compaction has still to delete
  nextID,
  walState,  \* "open"; "stuck" once a write failed (bufio keeps the error);
             \* "closed" once reset closed the file and could not reopen it
  \* the caller's side
  op,        \* the Put or Delete in progress
  torn, faults

disk == <<wal, files, manifest>>
vars == <<wal, files, manifest, pc, job, mem, tables, doomed, nextID, walState,
          op, torn, faults>>

Rec == Val \cup {Tomb}
Table == [Key -> Rec \cup {None}]
TornRec == [key |-> None, rec |-> None]
ID == 1..MaxID
NoCall == [status |-> "none"]

\* Type invariant.
TypeOK ==
  /\ wal \in Seq([key : Key, rec : Rec] \cup {TornRec})
  /\ files \in [ID -> Table \cup {Partial, NoFile}]
  /\ manifest \in Seq(ID) /\ tables \in Seq(ID)
  /\ doomed \subseteq ID
  /\ pc \in {"down", "ready", "call", "logged", "table", "manifest",
             "reset", "merge", "swap", "remove"}
  /\ job \in {"none", "write", "flush", "compact", "close"}
  /\ mem \in Table
  /\ nextID \in 1..(MaxID + 1)
  /\ walState \in {"open", "stuck", "closed"}
  /\ op \in {NoCall} \cup [status : {"called", "logged"}, key : Key,
                           val : Val \cup {Missing}]
  /\ torn \in Nat /\ faults \in Nat

Empty == [k \in Key |-> None]

-----------------------------------------------------------------------------
(* Reading. *)

\* sstable.get.  A table that cannot be opened yields nothing.
Record(id, k) == IF files[id] \in {Partial, NoFile} THEN None ELSE files[id][k]

\* The record of key k in the newest table that has one.
Newest(tabs, k) ==
  LET S == {i \in 1..Len(tabs) : Record(tabs[i], k) # None}
  IN  IF S = {} THEN None ELSE Record(tabs[Min(S)], k)

\* Get, and Scan's mergeIter under dropTombIter: memtable first, then the
\* tables; a tombstone hides everything older.
View(memtable, tabs) ==
  [k \in Key |->
     LET r == IF memtable[k] # None THEN memtable[k] ELSE Newest(tabs, k)
     IN  IF r \in {None, Tomb} THEN Missing ELSE r]

LiveView == View(mem, tables)

\* replayWAL stops at the first record it cannot read.
Readable(w) ==
  LET T == {i \in 1..Len(w) : w[i] = TornRec}
  IN  IF T = {} THEN w ELSE SubSeq(w, 1, Min(T) - 1)

\* Mutant: an older record of a key replaces a newer one.
MutReplayWAL(w) ==
  LET r == Readable(w)
  IN  [k \in Key |->
         LET S == {i \in 1..Len(r) : r[i].key = k}
         IN  IF S = {} THEN None ELSE r[Min(S)].rec]

\* The memtable the replay builds: the last record of a key stays.
replayWAL(w) ==
  LET r == Readable(w)
  IN  [k \in Key |->
         LET S == {i \in 1..Len(r) : r[i].key = k}
         IN  IF S = {} THEN None ELSE r[Max(S)].rec]

\* What Get would return if the process died and Open ran now.
DurableView == View(replayWAL(wal), manifest)

Init ==
  /\ wal = <<>> /\ files = [i \in ID |-> NoFile] /\ manifest = <<>>
  /\ pc = "ready" /\ job = "none"
  /\ mem = Empty /\ tables = <<>> /\ doomed = {} /\ nextID = 1 /\ walState = "open"
  /\ op = NoCall /\ torn = 0 /\ faults = 0

-----------------------------------------------------------------------------
(* Put and Delete. *)

\* Missing stands for Delete.
Call(k, v) ==
  /\ pc = "ready"
  /\ pc' = "call" /\ job' = "write"
  /\ op' = [status |-> "called", key |-> k, val |-> v]
  /\ UNCHANGED <<disk, mem, tables, doomed, nextID, walState, torn, faults>>

\* The lock is released and the call returns.
Return(status) ==
  /\ pc' = status /\ job' = "none"
  /\ op' = NoCall

\* wal.append, then mem.put.  Whether mem.size has reached MemtableBytes is
\* left open: sizes in bytes are not modelled.
walAppend ==
  LET r == IF op.val = Missing THEN Tomb ELSE op.val
  IN  /\ pc = "call" /\ walState = "open"
      /\ Len(wal) < MaxWal
      /\ wal' = Append(wal, [key |-> op.key, rec |-> r])
      /\ mem' = [mem EXCEPT ![op.key] = r]
      /\ op' = [op EXCEPT !.status = "logged"]
      /\ pc' = "logged"
      /\ UNCHANGED <<files, manifest, job, tables, doomed, nextID, walState, torn, faults>>

\* wal.append fails without a crash: on a handle that failed before, or now,
\* perhaps with part of the record written.  The memtable is not touched.
walAppendFails ==
  /\ pc = "call"
  /\ \/ /\ walState # "open"
        /\ UNCHANGED <<wal, walState, torn, faults>>
     \/ /\ walState = "open" /\ faults < MaxFaults
        /\ walState' = "stuck" /\ faults' = faults + 1
        /\ \/ UNCHANGED <<wal, torn>>
           \/ /\ torn < MaxTorn /\ Len(wal) < MaxWal
              /\ torn' = torn + 1 /\ wal' = Append(wal, TornRec)
  /\ Return("ready")
  /\ UNCHANGED <<files, manifest, mem, tables, doomed, nextID>>

WriteReturns ==
  /\ pc = "logged"
  /\ Return("ready")
  /\ UNCHANGED <<disk, mem, tables, doomed, nextID, walState, torn, faults>>

\* mem.size >= MemtableBytes
WriteFlushes ==
  /\ pc = "logged"
  /\ pc' = "table"
  /\ UNCHANGED <<disk, job, mem, tables, doomed, nextID, walState, op, torn, faults>>

-----------------------------------------------------------------------------
(* Flush, Compact, Close. *)

Flush ==
  /\ pc = "ready" /\ mem # Empty
  /\ pc' = "table" /\ job' = "flush"
  /\ UNCHANGED <<disk, mem, tables, doomed, nextID, walState, op, torn, faults>>

Compact ==
  /\ pc = "ready" /\ Len(tables) >= 2
  /\ pc' = "merge" /\ job' = "compact"
  /\ UNCHANGED <<disk, mem, tables, doomed, nextID, walState, op, torn, faults>>

\* Close flushes what there is; a later Open finds the files.
Close ==
  /\ pc = "ready"
  /\ IF mem = Empty THEN pc' = "down" /\ UNCHANGED job
                    ELSE pc' = "table" /\ job' = "close"
  /\ UNCHANGED <<disk, mem, tables, doomed, nextID, walState, op, torn, faults>>

\* Where the lock holder goes once flushLocked or compactLocked has returned,
\* with or without an error: Close gives the DB up either way.
Finish == Return(IF job = "close" THEN "down" ELSE "ready")

\* Mutant: the log is reset as soon as the table is written.
MutFlushWriteTable ==
  /\ pc = "table" /\ nextID <= MaxID
  /\ files' = [files EXCEPT ![nextID] = mem]
  /\ tables' = <<nextID>> \o tables
  /\ nextID' = nextID + 1
  /\ wal' = <<>>
  /\ pc' = "manifest"
  /\ UNCHANGED <<manifest, job, mem, doomed, walState, op, torn, faults>>

\* writeTable and openTable, then the new table is the first of DB.tables.
flushWriteTable ==
  /\ pc = "table" /\ nextID <= MaxID
  /\ files' = [files EXCEPT ![nextID] = mem]
  /\ tables' = <<nextID>> \o tables
  /\ nextID' = nextID + 1
  /\ pc' = "manifest"
  /\ UNCHANGED <<wal, manifest, job, mem, doomed, walState, op, torn, faults>>

writeManifestLocked ==
  /\ pc = "manifest"
  /\ manifest' = tables
  /\ pc' = "reset"
  /\ UNCHANGED <<wal, files, job, mem, tables, doomed, nextID, walState, op, torn, faults>>

\* wal.reset, a fresh memtable, and in write the test of CompactAt.
flushReset ==
  /\ pc = "reset" /\ walState # "closed"
  /\ wal' = <<>> /\ walState' = "open"
  /\ mem' = Empty
  /\ IF job = "write" /\ Len(tables) >= CompactAt /\ Len(tables) >= 2
     THEN pc' = "merge" /\ UNCHANGED <<job, op>>
     ELSE Finish
  /\ UNCHANGED <<files, manifest, tables, doomed, nextID, torn, faults>>

\* wal.reset cannot close the file a second time.
flushResetFails ==
  /\ pc = "reset" /\ walState = "closed"
  /\ Finish
  /\ UNCHANGED <<disk, mem, tables, doomed, nextID, walState, torn, faults>>

\* mergeIter over all tables, newest record first, tombstones dropped.
Merged(tabs) ==
  [k \in Key |-> LET r == Newest(tabs, k) IN IF r = Tomb THEN None ELSE r]

compactWriteTable ==
  /\ pc = "merge" /\ nextID <= MaxID
  /\ files' = [files EXCEPT ![nextID] = Merged(tables)]
  /\ doomed' = ToSet(tables)
  /\ tables' = <<nextID>>
  /\ nextID' = nextID + 1
  /\ pc' = "swap"
  /\ UNCHANGED <<wal, manifest, job, mem, walState, op, torn, faults>>

compactManifest ==
  /\ pc = "swap"
  /\ manifest' = tables
  /\ pc' = "remove"
  /\ UNCHANGED <<wal, files, job, mem, tables, doomed, nextID, walState, op, torn, faults>>

\* os.Remove, file after file.
compactRemove ==
  /\ pc = "remove"
  /\ IF doomed = {} THEN Finish /\ UNCHANGED <<files, doomed>>
     ELSE \E id \in doomed : /\ files' = [files EXCEPT ![id] = NoFile]
                             /\ doomed' = doomed \ {id}
                             /\ UNCHANGED <<pc, job, op>>
  /\ UNCHANGED <<wal, manifest, mem, tables, nextID, walState, torn, faults>>

\* An I/O error ends flushLocked or compactLocked where it stands: the caller
\* gets the error, DB.tables keeps a table MANIFEST may not list, and a failed
\* wal.reset leaves the log handle closed.
IOError ==
  /\ pc \in {"table", "manifest", "reset", "merge", "swap"}
  /\ faults < MaxFaults
  /\ faults' = faults + 1
  /\ files' = IF pc \in {"table", "merge"} /\ nextID <= MaxID
              THEN [files EXCEPT ![nextID] = Partial] ELSE files
  /\ walState' = IF pc = "reset" THEN "closed" ELSE walState
  /\ doomed' = {}
  /\ Finish
  /\ UNCHANGED <<wal, manifest, mem, tables, nextID, torn>>

-----------------------------------------------------------------------------
(* Crash and Open. *)

\* Memory is gone.
Lost ==
  /\ Return("down")
  /\ mem' = Empty /\ tables' = <<>> /\ doomed' = {} /\ nextID' = 1 /\ walState' = "open"

\* The process dies.  A file being written may be left behind half done.
Crash ==
  /\ pc # "down"
  /\ Lost
  /\ \/ UNCHANGED files
     \/ /\ pc \in {"table", "merge"} /\ nextID <= MaxID
        /\ files' = [files EXCEPT ![nextID] = Partial]
  /\ UNCHANGED <<wal, manifest, torn, faults>>

\* The process dies inside wal.append: only part of the record is written.
TornAppend ==
  /\ pc = "call" /\ walState = "open"
  /\ torn < MaxTorn /\ Len(wal) < MaxWal
  /\ torn' = torn + 1
  /\ wal' = Append(wal, TornRec)
  /\ Lost
  /\ UNCHANGED <<files, manifest, faults>>

\* nextID after Open: above every .sst file found, deleted ones included.
FirstFree(used) == IF used = {} THEN 1 ELSE Max(used) + 1

Live == ToSet(manifest)
Orphans == {id \in ID \ Live : files[id] # NoFile}

\* Open: the tables of MANIFEST, the other .sst files deleted, the WAL
\* replayed and then opened for appending as it is.  With a table missing or
\* unreadable it returns an error and changes nothing.
Open ==
  /\ pc = "down"
  /\ \A id \in Live : files[id] \notin {Partial, NoFile}
  /\ pc' = "ready"
  /\ tables' = manifest
  /\ files' = [id \in ID |-> IF id \in Orphans THEN NoFile ELSE files[id]]
  /\ nextID' = FirstFree(Live \cup Orphans)
  /\ mem' = replayWAL(wal)
  /\ doomed' = {} /\ walState' = "open"
  /\ UNCHANGED <<wal, manifest, job, op, torn, faults>>

\* The process dies inside Open, with some of the orphans already deleted.
CrashInOpen ==
  /\ pc = "down"
  /\ \E id \in Orphans : files' = [files EXCEPT ![id] = NoFile]
  /\ UNCHANGED <<wal, manifest, pc, job, mem, tables, doomed, nextID, walState, op,
                 torn, faults>>

Next ==
  \/ \E k \in Key, v \in Val \cup {Missing} : Call(k, v)
  \/ walAppend \/ walAppendFails \/ WriteReturns \/ WriteFlushes
  \/ Flush \/ Compact \/ Close
  \/ flushWriteTable \/ writeManifestLocked \/ flushReset \/ flushResetFails
  \/ compactWriteTable \/ compactManifest \/ compactRemove
  \/ IOError \/ Crash \/ TornAppend \/ Open \/ CrashInOpen

Spec == Init /\ [][Next]_vars

-----------------------------------------------------------------------------
(* Properties. *)

\* A crash has cut an append short and its bytes are still in the WAL: Open goes on
\* appending behind them, where the next Open does not look.
TornTail == TornRec \in ToSet(wal)

\* Whenever nobody holds the lock, what Get and Scan return is what a crash at
\* that moment would leave: every acknowledged write is durable ("a process
\* crash loses nothing", wal.go), and nothing deleted comes back.
ReadsAreDurable == pc = "ready" => LiveView = DurableView

\* The same of every state in which no torn record lies in the WAL, I/O errors included.
ReadsAreDurableUntorn == TornTail \/ ReadsAreDurable

\* The engine implements the durable map of KVStore.tla, I/O errors and crashes
\* included, in every step that neither finds nor leaves a torn record in the WAL.
\* (The reset that drops a torn record makes durable what was hidden behind it.)
KV == INSTANCE KVStore WITH kv <- DurableView, op <- op

Refinement == KV!Init /\ [][TornTail \/ TornTail' \/ KV!Next]_<<DurableView, op>>
=============================================================================
