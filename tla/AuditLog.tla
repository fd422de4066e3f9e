------------------------------ MODULE AuditLog ------------------------------
(***************************************************************************)
(* The audit log of xazz-server (audit_log.rs): threads of several server  *)
(* processes append to one JSONL file, each append a read-modify-write     *)
(* under a process mutex and an exclusive file lock, and readers parse it  *)
(* under a shared one.                                                     *)
(*                                                                         *)
(* The file is a sequence of what was written to it: a record's JSON text, *)
(* a newline, or the beginning of a text that was cut.  writeln! on a File *)
(* is two writes, the text and the newline.                                *)
(***************************************************************************)
EXTENDS Naturals, SequencesExt

CONSTANTS
  Threads,          \* request handlers and execution tasks that append
  Processes,        \* server instances sharing the working directory
  ProcessOf,        \* [Threads -> Processes]
  Readers,          \* requests that read the log
  MaxAppends,       \* bound on the appends of each thread
  Faults,           \* what may go wrong: a subset of FaultNames
  Digest(_, _, _),  \* compute_record_hash: injective
  Genesis,
  None

\* A process dies; the machine loses power; a write or an fsync returns an error.
FaultNames == {"crash", "power", "write", "sync"}

ASSUME AuditAssumption ==
  /\ ProcessOf \in [Threads -> Processes]
  /\ MaxAppends \in [Threads -> Nat]
  /\ Faults \subseteq FaultNames
  /\ None \notin Threads

VARIABLES
  file,     \* contents of audit.jsonl
  synced,   \* length of the prefix that survives a power failure
  mutex,    \* APPEND_LOCK of each process
  flock,    \* the thread with the exclusive file lock
  shared,   \* the readers with a shared one
  pc,       \* where each thread is in append_to_path
  record,   \* the record it built
  appends,  \* how many appends it has started
  acked,    \* records whose append returned Ok
  read      \* what each reader found: records, or an error

vars == <<file, synced, mutex, flock, shared, pc, record, appends, acked, read>>

-----------------------------------------------------------------------------

\* What is in the file beside records: a newline, and the beginning of a text.
Newline == [part |-> "newline"]
Fragment == [part |-> "fragment"]

Texts(f) ==
  LET upTo[n \in 0..Len(f)] ==
        IF n = 0 THEN <<>>
        ELSE IF f[n] \in {Fragment, Newline} THEN upTo[n - 1]
        ELSE Append(upTo[n - 1], f[n])
  IN  upTo[Len(f)]

\* parse_records: every line that is not empty is one whole record.
Parses(f) ==
  /\ \A i \in DOMAIN f : f[i] # Fragment
  /\ \A i \in 1..Len(f) - 1 : f[i] = Newline \/ f[i + 1] = Newline

Unreadable == [ok |-> FALSE, records |-> <<>>]
Found(f) == IF Parses(f) THEN [ok |-> TRUE, records |-> Texts(f)] ELSE Unreadable

Hash(r) == Digest(r.index, r.payload, r.prev)

\* records_form_valid_chain; index is checked to be the position as well.
ValidChain(log) ==
  \A i \in DOMAIN log :
    /\ log[i].index = i - 1
    /\ log[i].prev = IF i = 1 THEN Genesis ELSE Hash(log[i - 1])

Stages == {"idle", "mutex", "locked", "built", "cut", "text", "line", "synced"}

TypeOK ==
  /\ synced \in 0..Len(file)
  /\ mutex \in [Processes -> Threads \cup {None}]
  /\ flock \in Threads \cup {None}
  /\ shared \subseteq Readers
  /\ pc \in [Threads -> Stages]
  /\ \A w \in Threads : appends[w] \in 0..MaxAppends[w]
  /\ DOMAIN appends = Threads /\ DOMAIN record = Threads /\ DOMAIN read = Readers

Init ==
  /\ file = <<>>
  /\ synced = 0
  /\ mutex = [p \in Processes |-> None]
  /\ flock = None
  /\ shared = {}
  /\ pc = [w \in Threads |-> "idle"]
  /\ record = [w \in Threads |-> None]
  /\ appends = [w \in Threads |-> 0]
  /\ acked = {}
  /\ read = [r \in Readers |-> [ok |-> TRUE, records |-> <<>>]]

-----------------------------------------------------------------------------
(* append_to_path. *)

Goto(w, stage) == pc' = [pc EXCEPT ![w] = stage]

\* lock_append, waiting for the threads of this process.
LockMutex(w) ==
  /\ pc[w] = "idle"
  /\ appends[w] < MaxAppends[w]
  /\ mutex[ProcessOf[w]] = None
  /\ mutex' = [mutex EXCEPT ![ProcessOf[w]] = w]
  /\ appends' = [appends EXCEPT ![w] = @ + 1]
  /\ Goto(w, "mutex")
  /\ UNCHANGED <<file, synced, flock, shared, record, acked, read>>

\* Slip: appends take the shared lock that readers take.
SharedForWriters(w) ==
  /\ pc[w] = "mutex"
  /\ flock' = w
  /\ Goto(w, "locked")
  /\ UNCHANGED <<file, synced, mutex, shared, record, appends, acked, read>>

\* Slip: the file is opened to be rewritten, not appended to.
OpenTruncating(w) ==
  /\ pc[w] = "mutex"
  /\ flock = None /\ shared = {}
  /\ flock' = w
  /\ file' = <<>>
  /\ Goto(w, "locked")
  /\ UNCHANGED <<synced, mutex, shared, record, appends, acked, read>>

\* lock_exclusive, waiting for the other processes and the readers.
LockFile(w) ==
  /\ pc[w] = "mutex"
  /\ flock = None /\ shared = {}
  /\ flock' = w
  /\ Goto(w, "locked")
  /\ UNCHANGED <<file, synced, mutex, shared, record, appends, acked, read>>

\* Both guards go when append_to_path returns.
Return(w) ==
  /\ Goto(w, "idle")
  /\ record' = [record EXCEPT ![w] = None]
  /\ mutex' = [mutex EXCEPT ![ProcessOf[w]] = None]
  /\ flock' = IF flock = w THEN None ELSE flock

\* Slip: the index continues a counter of the thread's own appends.
OwnIndex(w) == appends[w] - 1

\* The index is the number of records read.
IndexFor(w) == Len(Texts(file))

PrevHash(log) == IF log = <<>> THEN Genesis ELSE Hash(Last(log))

\* The whole file is read and parsed, and the next record is built.
Build(w) ==
  /\ pc[w] = "locked"
  /\ Parses(file)
  /\ record' = [record EXCEPT ![w] =
       [index |-> IndexFor(w), payload |-> <<w, appends[w]>>, prev |-> PrevHash(Texts(file))]]
  /\ Goto(w, "built")
  /\ UNCHANGED <<file, synced, mutex, flock, shared, appends, acked, read>>

\* A line cannot be parsed: nothing is appended.
ParseFails(w) ==
  /\ pc[w] = "locked"
  /\ ~ Parses(file)
  /\ Return(w)
  /\ UNCHANGED <<file, synced, shared, appends, acked, read>>

\* The write of the text begins ...
WriteSome(w) ==
  /\ pc[w] = "built"
  /\ file' = Append(file, Fragment)
  /\ Goto(w, "cut")
  /\ UNCHANGED <<synced, mutex, flock, shared, record, appends, acked, read>>

\* ... and completes.
WriteText(w) ==
  /\ pc[w] = "cut"
  /\ file' = Append(Front(file), record[w])
  /\ Goto(w, "text")
  /\ UNCHANGED <<synced, mutex, flock, shared, record, appends, acked, read>>

WriteNewline(w) ==
  /\ pc[w] = "text"
  /\ file' = Append(file, Newline)
  /\ Goto(w, "line")
  /\ UNCHANGED <<synced, mutex, flock, shared, record, appends, acked, read>>

\* Slip: flush() is taken to be enough.
FlushOnly(w) ==
  /\ pc[w] = "line"
  /\ Goto(w, "synced")
  /\ UNCHANGED <<file, synced, mutex, flock, shared, record, appends, acked, read>>

\* sync_all
Sync(w) ==
  /\ pc[w] = "line"
  /\ synced' = Len(file)
  /\ Goto(w, "synced")
  /\ UNCHANGED <<file, mutex, flock, shared, record, appends, acked, read>>

Acknowledge(w) ==
  /\ pc[w] = "synced"
  /\ acked' = acked \cup {record[w]}
  /\ Return(w)
  /\ UNCHANGED <<file, synced, shared, appends, read>>

\* The text, the newline or the fsync fails: Err, with what was written left
\* in the file.
WriteFails(w) ==
  /\ \/ "write" \in Faults /\ pc[w] \in {"built", "cut", "text"}
     \/ "sync" \in Faults /\ pc[w] = "line"
  /\ Return(w)
  /\ UNCHANGED <<file, synced, shared, appends, acked, read>>

-----------------------------------------------------------------------------
(* read_all, as GET /security/audit/* call it, and failures. *)

LockShared(r) ==
  /\ r \notin shared
  /\ flock = None
  /\ shared' = shared \cup {r}
  /\ UNCHANGED <<file, synced, mutex, flock, pc, record, appends, acked, read>>

ReadAll(r) ==
  /\ r \in shared
  /\ read' = [read EXCEPT ![r] = Found(file)]
  /\ shared' = shared \ {r}
  /\ UNCHANGED <<file, synced, mutex, flock, pc, record, appends, acked>>

\* Threads of the processes P are gone, and their locks with them.
Die(P) ==
  LET dead == {w \in Threads : ProcessOf[w] \in P}
  IN  /\ pc' = [w \in Threads |-> IF w \in dead THEN "idle" ELSE pc[w]]
      /\ record' = [w \in Threads |-> IF w \in dead THEN None ELSE record[w]]
      /\ mutex' = [p \in Processes |-> IF p \in P THEN None ELSE mutex[p]]
      /\ flock' = IF flock \in dead THEN None ELSE flock

Crash(p) ==
  /\ "crash" \in Faults
  /\ \E w \in Threads : ProcessOf[w] = p /\ pc[w] # "idle"
  /\ Die({p})
  /\ UNCHANGED <<file, synced, shared, appends, acked, read>>

\* What fsync did not reach may be lost, from any byte on.
PowerLoss ==
  /\ "power" \in Faults
  /\ \E n \in synced..Len(file) :
       LET kept == SubSeq(file, 1, n)
           inText == n < Len(file) /\ file[n + 1] # Newline
       IN  \/ file' = kept
           \/ inText /\ file' = Append(kept, Fragment)
  /\ Die(Processes)
  /\ shared' = {}
  /\ UNCHANGED <<synced, appends, acked, read>>

-----------------------------------------------------------------------------

AppendStep(w) ==
  \/ LockMutex(w) \/ LockFile(w) \/ Build(w) \/ ParseFails(w)
  \/ WriteSome(w) \/ WriteText(w) \/ WriteNewline(w)
  \/ Sync(w) \/ Acknowledge(w) \/ WriteFails(w)

Next ==
  \/ \E w \in Threads : AppendStep(w)
  \/ \E r \in Readers : LockShared(r) \/ ReadAll(r)
  \/ \E p \in Processes : Crash(p)
  \/ PowerLoss

Spec == Init /\ [][Next]_vars

-----------------------------------------------------------------------------
(* Properties. *)

\* The records in the file are one hash chain with gapless indices, whoever
\* wrote them and whatever failed or crashed between the steps of an append.
ChainIntact == ValidChain(Texts(file))

\* A record whose append returned Ok is in the file, whole and at its index,
\* from then on: through crashes, power failures and failed appends of others.
AckedSurvive ==
  \A rec \in acked :
    LET kept == Texts(SubSeq(file, 1, synced))
    IN  rec.index < Len(kept) /\ kept[rec.index + 1] = rec

\* A reader "waits for a complete JSONL record" (read_all): it never meets half
\* a line of an append at work.
ReadsAreWhole == \A r \in Readers : read[r].ok

Trail == INSTANCE AuditTrail WITH
  Payloads  <- UNION {{w} \X (1..MaxAppends[w]) : w \in Threads},
  trail     <- Texts(file),
  confirmed <- Len(Texts(SubSeq(file, 1, synced)))

\* Append, with its locks and its three steps on the file, is one extension of
\* the chain.
ImplementsTrail == Trail!Spec
=============================================================================
