----------------------------- MODULE SignalsLog -----------------------------
(***************************************************************************)
(* logger.py: every process of the bot reconciles the header of            *)
(* signals_log.csv when it starts and appends a row per signal.  `python   *)
(* main.py --once` does so beside the running service.  A line is the      *)
(* number of its row or a header; the cells are left out.  A write that    *)
(* stops in the middle of a line is left out too.                          *)
(***************************************************************************)
EXTENDS Integers, Sequences, FiniteSets, SequencesExt, FiniteSetsExt

CONSTANTS
    Writers,         \* the processes
    LogMaxRows,      \* bound on the rows
    LogMaxStarts     \* bound on the starts

ASSUME LogAssumption == {LogMaxRows, LogMaxStarts} \subseteq Nat

Header == -1       \* config.CSV_COLUMNS
OldHeader == -2    \* what an older version wrote
OldRow == 0

VARIABLES
    disk,        \* the files there are: 0 is signals_log.csv, n is .vn.bak
    step,        \* [Writers -> where the process is]
    bak,         \* [Writers -> the name it archives under]
    row,         \* [Writers -> the row it is logging]
    newFile,     \* [Writers -> new_file]
    handle,      \* [Writers -> the file it has open]
    rows,        \* rows so far
    starts,      \* starts so far
    logged,      \* history: rows whose log_signal returned
    overlapped,  \* history: have two processes archived at the same time
    crossed      \* history: since a process last started alone, has a write
                 \* failed or has one process worked in another's way

jobVars == <<step, bak, row, newFile, handle>>
logVars == <<disk, jobVars, rows, starts, logged, overlapped, crossed>>

Names == 0..LogMaxStarts + 1
Steps == {"off", "migrating", "archive", "idle", "opening", "writing"}

LogTypeOK ==
    /\ DOMAIN disk \subseteq Names
    /\ \A n \in DOMAIN disk : \A i \in DOMAIN disk[n] :
          disk[n][i] \in OldHeader..LogMaxRows
    /\ step \in [Writers -> Steps]
    /\ bak \in [Writers -> Names]
    /\ row \in [Writers -> 0..LogMaxRows]
    /\ newFile \in [Writers -> BOOLEAN]
    /\ handle \in [Writers -> Names]
    /\ rows \in 0..LogMaxRows
    /\ starts \in 0..LogMaxStarts
    /\ logged \subseteq 0..LogMaxRows
    /\ {overlapped, crossed} \subseteq BOOLEAN

LogInit ==
    /\ \/ disk = << >> /\ logged = {}
       \/ disk = [n \in {0} |-> <<OldHeader, OldRow>>] /\ logged = {OldRow}
    /\ step = [w \in Writers |-> "off"]
    /\ bak = [w \in Writers |-> 0]
    /\ row = [w \in Writers |-> 0]
    /\ newFile = [w \in Writers |-> FALSE]
    /\ handle = [w \in Writers |-> 0]
    /\ rows = 0
    /\ starts = 0
    /\ overlapped = FALSE
    /\ crossed = FALSE

There == 0 \in DOMAIN disk

Crosses(w) == \E v \in Writers \ {w} : step[v] \in {"archive", "opening", "writing"}

Goes(w, s) == step' = [step EXCEPT ![w] = s]

-----------------------------------------------------------------------------
(* migrate_csv_header.                                                     *)

LogStart(w) ==
    /\ step[w] = "off" /\ starts < LogMaxStarts
    /\ Goes(w, "migrating")
    /\ starts' = starts + 1
    /\ crossed' = (crossed /\ \E v \in Writers : step[v] # "off")
    /\ UNCHANGED <<disk, bak, row, newFile, handle, rows, logged, overlapped>>

HeaderFits == There => disk[0] # <<>> /\ disk[0][1] = Header

FirstBak == 1

FreeBak == Min(Names \ (DOMAIN disk \cup {0}))

CheckHeader(w) ==
    /\ step[w] = "migrating"
    /\ IF HeaderFits THEN Goes(w, "idle") /\ UNCHANGED <<bak, overlapped>>
       ELSE /\ Goes(w, "archive")
            /\ bak' = [bak EXCEPT ![w] = FreeBak]
            /\ overlapped' = (overlapped \/ \E v \in Writers : step[v] = "archive")
    /\ crossed' = (crossed \/ Crosses(w))
    /\ UNCHANGED <<disk, row, newFile, handle, rows, starts, logged>>

\* Path.rename takes the place of a file of that name.  Who has the log open
\* goes on writing into the renamed file.
Archive(w) ==
    /\ step[w] = "archive" /\ There
    /\ disk' = [n \in (DOMAIN disk \cup {bak[w]}) \ {0} |->
                   IF n = bak[w] THEN disk[0] ELSE disk[n]]
    /\ handle' = [v \in Writers |->
                     IF step[v] = "writing" /\ handle[v] = 0 THEN bak[w]
                     ELSE handle[v]]
    /\ Goes(w, "idle")
    /\ crossed' = (crossed \/ Crosses(w))
    /\ UNCHANGED <<bak, row, newFile, rows, starts, logged, overlapped>>

\* An OSError, in the check or in the rename, is logged; the bot goes on.
MigrationFails(w) ==
    /\ step[w] \in {"migrating", "archive"}
    /\ Goes(w, "idle")
    /\ crossed' = TRUE
    /\ UNCHANGED <<disk, bak, row, newFile, handle, rows, starts, logged,
                   overlapped>>

-----------------------------------------------------------------------------
(* log_signal.                                                             *)

LogBegins(w) ==
    /\ step[w] = "idle" /\ rows < LogMaxRows
    /\ Goes(w, "opening")
    /\ rows' = rows + 1
    /\ row' = [row EXCEPT ![w] = rows + 1]
    /\ newFile' = [newFile EXCEPT ![w] = ~There]
    /\ crossed' = (crossed \/ Crosses(w))
    /\ UNCHANGED <<disk, bak, handle, starts, logged, overlapped>>

\* Mode "a" creates the file; what is written stays in the buffer.
Open(w) ==
    /\ step[w] = "opening"
    /\ disk' = [n \in DOMAIN disk \cup {0} |-> IF n \in DOMAIN disk THEN disk[n]
                                               ELSE <<>>]
    /\ handle' = [handle EXCEPT ![w] = 0]
    /\ Goes(w, "writing")
    /\ UNCHANGED <<bak, row, newFile, rows, starts, logged, overlapped, crossed>>

Lines(w) == (IF newFile[w] THEN <<Header>> ELSE <<>>) \o <<row[w]>>

\* Closing the file flushes the buffer to its end, wherever that is now.
Flush(w) ==
    /\ step[w] = "writing"
    /\ disk' = [disk EXCEPT ![handle[w]] = @ \o Lines(w)]
    /\ logged' = logged \cup {row[w]}
    /\ Goes(w, "idle")
    /\ UNCHANGED <<bak, row, newFile, handle, rows, starts, overlapped, crossed>>

\* An OSError, when opening or flushing, is raised to the caller.
LogFails(w) ==
    /\ step[w] \in {"opening", "writing"}
    /\ Goes(w, "idle")
    /\ crossed' = TRUE
    /\ UNCHANGED <<disk, bak, row, newFile, handle, rows, starts, logged,
                   overlapped>>

\* The process ends or is killed, with whatever is in its buffer.
LogCrash(w) ==
    /\ step[w] # "off"
    /\ Goes(w, "off")
    /\ crossed' = (crossed \/ step[w] # "idle")
    /\ UNCHANGED <<disk, bak, row, newFile, handle, rows, starts, logged,
                   overlapped>>

LogNext ==
    \E w \in Writers :
        \/ LogStart(w) \/ CheckHeader(w) \/ Archive(w) \/ MigrationFails(w)
        \/ LogBegins(w) \/ Open(w) \/ Flush(w) \/ LogFails(w) \/ LogCrash(w)

LogSpec == LogInit /\ [][LogNext]_logVars

-----------------------------------------------------------------------------
(* Properties.                                                             *)

Places(r) == {p \in UNION {{n} \X DOMAIN disk[n] : n \in DOMAIN disk} :
                 disk[p[1]][p[2]] = r}

(* "No data is lost" (logger.py:29): every row whose write returned is in  *)
(* the log or in one of its archives, and there once, through the header   *)
(* changes, crashes and failed writes, unless two processes archived at    *)
(* the same time; Path.rename then puts one archive over the other.        *)
RowsKept ==
    ~overlapped => \A r \in logged : Cardinality(Places(r)) = 1

(* The first line of the log is its header, which _daily_summary           *)
(* reads the rows by (main.py:860, logger.py:26-33), whatever a crash or   *)
(* a race left behind before the last process started alone: an empty or   *)
(* headless file does not outlive the next start.                          *)
HeaderFirst ==
    (There /\ ~crossed /\ \A w \in Writers : step[w] \in {"off", "idle"}) =>
        HeaderFits \/ starts = 0

(* The two together: what reads signals_log.csv finds the rows and can    *)
(* name their columns.                                                     *)
LogKept == RowsKept /\ HeaderFirst
=============================================================================
