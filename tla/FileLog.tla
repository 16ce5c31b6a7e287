------------------------------ MODULE FileLog ------------------------------
(***************************************************************************)
(* The file that the file subscriber of the observability subsystem writes *)
(* to (internal/observability/adapter/file_adapter.go and                  *)
(* subscriber/file_subscriber.go), without rotation, as the subscriber     *)
(* creates it.  Lines are buffered; fa.mu makes Write and Flush atomic,    *)
(* Close releases it between its two halves.                               *)
(***************************************************************************)
VARIABLES
    adapter,    \* "none", "open", "flushed": the subscriber's Close has called
                \* Flush, "marked": fa.closed is set, "closed": so is the file
    buffer,     \* lines in fa.writer
    file,       \* lines in the file
    written     \* history: lines whose Write returned no error

logVars == <<adapter, buffer, file, written>>

LogInit ==
    /\ adapter = "none"
    /\ buffer = {}
    /\ file = {}
    /\ written = {}

OpenFile ==
    /\ adapter = "none"
    /\ adapter' = "open"
    /\ UNCHANGED <<buffer, file, written>>

\* A full buffer goes to the file first.
WriteLine(line) ==
    IF adapter \in {"open", "flushed"}
    THEN /\ \/ buffer' = buffer \cup {line} /\ UNCHANGED file
            \/ buffer' = {line} /\ file' = file \cup buffer
         /\ written' = written \cup {line}
         /\ UNCHANGED adapter
    ELSE UNCHANGED logVars

Flushed == file' = file \cup buffer /\ buffer' = {}

\* The ticker fires; nothing is flushed once fa.closed is set.
PeriodicFlush ==
    /\ adapter \in {"open", "flushed"}
    /\ buffer # {}
    /\ Flushed
    /\ UNCHANGED <<adapter, written>>

\* Fault: the subscriber leaves the flush to the adapter's Close.
CloseFlushesLater ==
    /\ adapter = "open"
    /\ adapter' = "flushed"
    /\ UNCHANGED <<buffer, file, written>>

\* FileSubscriber.Close, up to its call of the adapter's Close.
FlushBeforeClose ==
    /\ adapter = "open"
    /\ Flushed
    /\ adapter' = "flushed"
    /\ UNCHANGED written

MarkClosed ==
    /\ adapter = "flushed"
    /\ adapter' = "marked"
    /\ UNCHANGED <<buffer, file, written>>

\* The ticker is stopped, and the final Flush returns at once, for fa.closed is set.
CloseFile ==
    /\ adapter = "marked"
    /\ adapter' = "closed"
    /\ UNCHANGED <<buffer, file, written>>
=============================================================================
