----------------------------- MODULE TelemetryDb ------------------------------
(***************************************************************************)
(* The telemetry database (TelemetryDb.cpp): one SQLite connection with a  *)
(* prepared statement for each table, used by several threads under one    *)
(* mutex.  Of the three Store functions, which are alike, the rows of the  *)
(* trace's events are kept.  The rows survive the agent.                   *)
(*                                                                         *)
(* External: SQLite.  An insert may fail, as when another connection to    *)
(* the file (the scanner's, the web views') has it locked.                 *)
(***************************************************************************)
EXTENDS Naturals, Sequences

CONSTANTS Writers,   (* the threads that store                             *)
          Nobody     (* the owner of the mutex when it is free             *)

ASSUME TelemetryDbAssumption == Nobody \notin Writers

VARIABLES
  database,    (* g_TelemetryDb and its statements                         *)
  dbMutex,     (* g_TelemetryMutex                                         *)
  rows,        (* the table EtwEvents                                      *)
  lossless     (* history: each event that was to be stored was            *)

db == <<database, dbMutex, rows, lossless>>

DbInit == database = "closed" /\ dbMutex = Nobody /\ rows = <<>> /\ lossless = TRUE

(* InitializeTelemetryDb, which goes on without a database it cannot open. *)
OpenDb == /\ dbMutex = Nobody
          /\ database' \in {"open", "closed"}
          /\ UNCHANGED <<dbMutex, rows, lossless>>

(* A Store function locks, and returns at once if the database is closed.  *)
BeginStore(w) == /\ dbMutex = Nobody /\ database = "open"
                 /\ dbMutex' = w
                 /\ UNCHANGED <<database, rows, lossless>>

SkipStore == /\ dbMutex = Nobody /\ database = "closed"
             /\ lossless' = FALSE
             /\ UNCHANGED <<database, dbMutex, rows>>

(* The statement is executed, nobody looks at the result, and the lock is  *)
(* given back; the variant keeps it.                                       *)
Kept(w) == w
Returned(w) == Nobody

EndStore(w, stored) ==
  /\ dbMutex = w
  /\ \/ rows' = rows \o stored /\ UNCHANGED lossless
     \/ UNCHANGED rows /\ lossless' = (lossless /\ stored = <<>>)
  /\ dbMutex' = Returned(w)
  /\ UNCHANGED database

(* ShutdownTelemetryDb finalizes the statements and closes, with the mutex *)
(* locked; the variant does not wait for it.                               *)
AnyTime == TRUE
NobodyStores == dbMutex = Nobody

CloseDb == /\ NobodyStores
           /\ database' = "closed"
           /\ UNCHANGED <<dbMutex, rows, lossless>>

(* The process ends; what was inserted stays.                              *)
DbDies == database' = "closed" /\ dbMutex' = Nobody /\ UNCHANGED rows

-----------------------------------------------------------------------------
DbTypeOK == /\ database \in {"open", "closed"} /\ dbMutex \in Writers \cup {Nobody}
            /\ rows \in Seq(Nat) /\ lossless \in BOOLEAN

=============================================================================
