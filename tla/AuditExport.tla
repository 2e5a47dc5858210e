---------------------------- MODULE AuditExport -----------------------------
(***************************************************************************)
(* Export of the audit log (package audit): the store's bus subscriber     *)
(* hands each entry to the exporter configured at the time, which appends  *)
(* it to a write-ahead file and queues it for its sender.  Replacing the   *)
(* exporter, shutting down and crashing happen in between.  All exporters  *)
(* of one server use the same file.                                        *)
(***************************************************************************)
EXTENDS Naturals, Sequences, FiniteSets, Functions

CONSTANTS
  ExportCap,     \* AuditExporter.ch
  MaxEntries,    \* bound on the entries audited
  MaxExporters,  \* bound on the exporters configured in one life of the server
  MaxCrashes     \* bound on the crashes

ASSUME AuditExportAssumption ==
  {ExportCap, MaxEntries, MaxCrashes} \subseteq Nat /\ MaxExporters \in Nat \ {0}

Exporters == 1..MaxExporters

VARIABLES
  entries,       \* entries published on the bus
  fan,           \* the subscriber goroutine: the entry it exports, and where to
  exporter,      \* Store.exporter: 0 is nil
  x,             \* the exporters of this life
  walFile,       \* entries in the audit WAL file
  closing,       \* exporters in Close, by SetExporter or Store.Close
  storeClosed,   \* Store.Close has begun
  crashes,
  accepted, delivered, gaveUp, overflowed, raced,   \* history of entries
  forced         \* history: a Close gave up waiting, or truncates under a newer exporter

auditHistory == <<accepted, delivered, gaveUp, overflowed, raced, forced>>
auditVars == <<entries, fan, exporter, x, walFile, closing, storeClosed, crashes, auditHistory>>

NoExporter == [made |-> FALSE, closed |-> FALSE, done |-> FALSE, ch |-> <<>>, sending |-> 0]
FanIdle == [pc |-> "idle", on |-> 0, entry |-> 0]

\* The k-th oldest of the entries in S: they are numbered as they are published.
Oldest(S, k) == CHOOSE e \in S : Cardinality({f \in S : f <= e}) = k

\* newAuditExporter replays the file, oldest entry first, into the channel; what does
\* not fit stays in the file only.
newAuditExporter(pending) ==
  [NoExporter EXCEPT !.made = TRUE,
     !.ch = [k \in 1..(IF Cardinality(pending) < ExportCap THEN Cardinality(pending) ELSE ExportCap)
               |-> Oldest(pending, k)]]

\* What a replay leaves out of the channel.
NotReplayed(pending) == pending \ Range(newAuditExporter(pending).ch)

AuditExportInit ==
  /\ entries = 0 /\ fan = FanIdle
  /\ exporter = 1
  /\ x = [i \in Exporters |-> IF i = 1 THEN newAuditExporter({}) ELSE NoExporter]
  /\ walFile = {} /\ closing = {} /\ storeClosed = FALSE /\ crashes = 0
  /\ accepted = {} /\ delivered = {} /\ gaveUp = {} /\ overflowed = {} /\ raced = {}
  /\ forced = FALSE

-----------------------------------------------------------------------------
(* The subscriber *)

\* handleExporterFanout reads the exporter under the store's lock.
Fanout ==
  /\ fan = FanIdle /\ entries < MaxEntries /\ ~storeClosed
  /\ entries' = entries + 1
  /\ fan' = IF exporter = 0 THEN FanIdle ELSE [pc |-> "check", on |-> exporter, entry |-> entries + 1]
  /\ UNCHANGED <<exporter, x, walFile, closing, storeClosed, crashes, auditHistory>>

\* Export: nothing once closed; the entry is synced to the file, then queued.
ExportCheck ==
  /\ fan.pc = "check"
  /\ fan' = IF x[fan.on].closed THEN FanIdle ELSE [fan EXCEPT !.pc = "append"]
  /\ UNCHANGED <<entries, exporter, x, walFile, closing, storeClosed, crashes, auditHistory>>

\* Appending to a handle that Close has closed fails and is only logged.
ExportAppend_Skipped ==
  /\ fan.pc = "append"
  /\ fan' = [fan EXCEPT !.pc = "send"]
  /\ UNCHANGED <<entries, exporter, x, walFile, closing, storeClosed, crashes, auditHistory>>

ExportAppend ==
  /\ fan.pc = "append"
  /\ walFile' = IF x[fan.on].closed /\ fan.on \notin closing THEN walFile ELSE walFile \cup {fan.entry}
  /\ fan' = [fan EXCEPT !.pc = "send"]
  /\ UNCHANGED <<entries, exporter, x, closing, storeClosed, crashes, auditHistory>>

\* The non-blocking select; a full channel drops the entry, whose copy is in the file.
ExportSend ==
  /\ fan.pc = "send"
  /\ LET room == Len(x[fan.on].ch) < ExportCap
         closed == x[fan.on].closed
     IN \/ room /\ x' = [x EXCEPT ![fan.on].ch = Append(@, fan.entry)] /\ UNCHANGED overflowed
        \/ closed /\ UNCHANGED <<x, overflowed>>
        \/ ~room /\ ~closed /\ overflowed' = overflowed \cup {fan.entry} /\ UNCHANGED x
  /\ accepted' = accepted \cup {fan.entry}
  /\ raced' = IF x[fan.on].closed THEN raced \cup {fan.entry} ELSE raced
  /\ fan' = FanIdle
  /\ UNCHANGED <<entries, exporter, walFile, closing, storeClosed, crashes, delivered, gaveUp, forced>>

-----------------------------------------------------------------------------
(* The sender *)

\* run: send what is queued; once closed, drain the buffer and return.
Run(i) ==
  /\ x[i].made /\ ~x[i].done /\ x[i].sending = 0
  /\ IF x[i].ch # <<>>
     THEN x' = [x EXCEPT ![i].sending = Head(x[i].ch), ![i].ch = Tail(@)]
     ELSE x[i].closed /\ x' = [x EXCEPT ![i].done = TRUE]
  /\ UNCHANGED <<entries, fan, exporter, walFile, closing, storeClosed, crashes, auditHistory>>

\* send: three attempts; a client error or the last failure gives the entry up.
\* Nothing is removed from the file.
Send(i) ==
  /\ x[i].sending # 0
  /\ \/ delivered' = delivered \cup {x[i].sending} /\ UNCHANGED gaveUp
     \/ gaveUp' = gaveUp \cup {x[i].sending} /\ UNCHANGED delivered
  /\ x' = [x EXCEPT ![i].sending = 0]
  /\ UNCHANGED <<entries, fan, exporter, walFile, closing, storeClosed, crashes,
                 accepted, overflowed, raced, forced>>

-----------------------------------------------------------------------------
(* Replacement, shutdown, crash *)

CloseSignal(f, i) == [j \in Exporters |-> IF j = i THEN [f[j] EXCEPT !.closed = TRUE] ELSE f[j]]
MadeExporters == Cardinality({i \in Exporters : x[i].made})

\* SetExporter swaps the new exporter in under the lock, on the same file, and closes
\* the old one afterwards.
SetExporter(cfg) ==
  /\ ~storeClosed
  /\ IF cfg
     THEN /\ MadeExporters < MaxExporters
          /\ exporter' = MadeExporters + 1
          /\ x' = CloseSignal([x EXCEPT ![MadeExporters + 1] = newAuditExporter(walFile)], exporter)
     ELSE /\ exporter # 0
          /\ exporter' = 0
          /\ x' = CloseSignal(x, exporter)
  /\ closing' = closing \cup ({exporter} \ {0})
  /\ forced' = (forced \/ (cfg /\ closing' # {}))
  /\ overflowed' = IF cfg THEN overflowed \cup NotReplayed(walFile) ELSE overflowed
  /\ UNCHANGED <<entries, fan, walFile, storeClosed, crashes, accepted, delivered, gaveUp, raced>>

StoreClose ==
  /\ ~storeClosed
  /\ storeClosed' = TRUE
  /\ exporter' = 0
  /\ x' = CloseSignal(x, exporter)
  /\ closing' = closing \cup ({exporter} \ {0})
  /\ UNCHANGED <<entries, fan, walFile, crashes, auditHistory>>

\* Close waits for the drain, five seconds at most, and truncates the file either way.
CloseTruncate(i) ==
  /\ i \in closing
  /\ forced' = (forced \/ ~x[i].done)
  /\ walFile' = {}
  /\ closing' = closing \ {i}
  /\ UNCHANGED <<entries, fan, exporter, x, storeClosed, crashes,
                 accepted, delivered, gaveUp, overflowed, raced>>

\* The process ends, at any point, and starts again with the persisted configuration.
CrashAudit ==
  /\ crashes < MaxCrashes
  /\ crashes' = crashes + 1
  /\ fan' = FanIdle
  /\ exporter' = 1
  /\ x' = [i \in Exporters |-> IF i = 1 THEN newAuditExporter(walFile) ELSE NoExporter]
  /\ closing' = {} /\ storeClosed' = FALSE
  /\ overflowed' = overflowed \cup NotReplayed(walFile)
  /\ UNCHANGED <<entries, walFile, accepted, delivered, gaveUp, raced, forced>>

AuditExportNext ==
  \/ Fanout \/ ExportCheck \/ ExportAppend \/ ExportSend
  \/ \E i \in Exporters : Run(i) \/ Send(i) \/ CloseTruncate(i)
  \/ \E cfg \in BOOLEAN : SetExporter(cfg)
  \/ StoreClose
  \/ CrashAudit

AuditExportSpec == AuditExportInit /\ [][AuditExportNext]_auditVars

-----------------------------------------------------------------------------
(* Properties *)

Queued == UNION {Range(x[i].ch) \cup ({x[i].sending} \ {0}) : i \in Exporters}

\* What an exported entry may be lost to.  Unless a Close gave up waiting or
\* truncated the file under a newer exporter, every entry Export has taken has been sent, is queued or is
\* in the file that the next start replays, or else it met a full channel (when
\* exported or when replayed), was given up after its attempts, or raced with Close:
\* crashes at any point and shutdowns lose nothing else.
LostOnlyTo ==
  ~forced => accepted \subseteq delivered \cup walFile \cup Queued \cup gaveUp \cup overflowed \cup raced
=============================================================================
