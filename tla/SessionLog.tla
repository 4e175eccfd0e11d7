------------------------------ MODULE SessionLog ------------------------------
(***************************************************************************)
(* The log of what went in and out of the sessions (logger.rs): a channel, *)
(* one writer task, a ring per session for the API and a compressed file   *)
(* per day.  An entry is its number within its session; its text and the   *)
(* compression are not here.                                               *)
(***************************************************************************)
EXTENDS Naturals, Sequences, FiniteSets

CONSTANTS
    LogSids,       \* sessions, by the prefix the logger keys on
    RingSize,      \* RING_BUFFER_SIZE: 1000
    LogCap,        \* the channel: 4096
    Batch,         \* entries between flushes: 100
    MaxEntries,    \* bound: entries of a session that reach the channel
    MaxLogDays     \* bound: midnights, and deaths of the server

ASSUME LogAssumption ==
    /\ {RingSize, LogCap, Batch, MaxEntries, MaxLogDays} \subseteq Nat
    /\ RingSize > 0 /\ Batch > 1

VARIABLES
    logged,    \* history: entries of each session that entered the channel
    logQueue,  \* the channel: [sid, n]
    rings,     \* the rings, <<>> without one
    writer,    \* where writer_task is; "dead" when no file could be opened
    batch,     \* batch_count
    unflushed, \* history: entries the encoder holds and the file does not
    today,
    openDay,   \* the day of the file that is open
    dropped,   \* history: the last entry before each ring was last dropped
    logDeaths

logVars == <<logged, logQueue, rings, writer, batch, unflushed, today, openDay, dropped, logDeaths>>

LogEntry == [sid: LogSids, n: 1..MaxEntries]

LogTypeOK ==
    /\ logged \in [LogSids -> 0..MaxEntries] /\ logQueue \in Seq(LogEntry)
    /\ rings \in [LogSids -> Seq(1..MaxEntries)]
    /\ writer \in {"recv", "drain", "flush", "dead"}
    /\ batch \in 0..(Batch + 1) /\ unflushed \in Nat
    /\ {today, openDay, logDeaths} \subseteq 0..MaxLogDays
    /\ dropped \in [LogSids -> 0..MaxEntries]

(* Logger::start                                                           *)
LogInit ==
    /\ logged = [s \in LogSids |-> 0] /\ logQueue = <<>> /\ rings = [s \in LogSids |-> <<>>]
    /\ writer = "recv" /\ batch = 0 /\ unflushed = 0 /\ today = 0 /\ openDay = 0
    /\ dropped = logged /\ logDeaths = 0

-----------------------------------------------------------------------------
(* log_pty_input, log_pty_output, log_acp_input, log_acp_event: try_send   *)
Log(s) ==
    /\ logged[s] < MaxEntries /\ writer # "dead" /\ Len(logQueue) < LogCap
    /\ logged' = [logged EXCEPT ![s] = @ + 1]
    /\ logQueue' = Append(logQueue, [sid |-> s, n |-> logged[s] + 1])
    /\ UNCHANGED <<rings, writer, batch, unflushed, today, openDay, dropped, logDeaths>>

PushedTooLate(ring, n) ==  \* mutant: the oldest goes when the ring is over its size
    IF Len(ring) > RingSize THEN Append(Tail(ring), n) ELSE Append(ring, n)

Pushed(ring, n) == IF Len(ring) >= RingSize THEN Append(Tail(ring), n) ELSE Append(ring, n)

(* write_entry: on a new day the old file is finished and another opened;  *)
(* each of the writes may fail and lose the entry.                         *)
WriteEntry ==
    \/ openDay = today /\ unflushed' \in {unflushed, unflushed + 1} /\ UNCHANGED openDay
    \/ openDay # today /\ openDay' = today /\ unflushed' \in {0, 1}
    \/ openDay # today /\ unflushed' \in {unflushed, 0} /\ UNCHANGED openDay

(* One entry from the channel to its ring and to the file.                 *)
Take ==
    LET e == Head(logQueue)
    IN  /\ logQueue # <<>> /\ logQueue' = Tail(logQueue)
        /\ rings' = [rings EXCEPT ![e.sid] = Pushed(@, e.n)]
        /\ WriteEntry /\ batch' = batch + 1
        /\ UNCHANGED <<logged, today, dropped, logDeaths>>

(* recv().await, then try_recv until the batch is full or nothing waits    *)
Receive == writer = "recv" /\ Take /\ writer' = "drain"
DrainLog == writer = "drain" /\ Take /\ writer' = IF batch' >= Batch THEN "flush" ELSE "drain"
DrainedLog ==
    /\ writer = "drain" /\ logQueue = <<>> /\ writer' = "flush"
    /\ UNCHANGED <<logged, logQueue, rings, batch, unflushed, today, openDay, dropped, logDeaths>>

(* mutant: the count starts again with every batch                         *)
FlushForgets ==
    /\ writer = "flush" /\ writer' = "recv" /\ batch' = 0
    /\ unflushed' = IF batch >= Batch THEN 0 ELSE unflushed
    /\ UNCHANGED <<logged, logQueue, rings, today, openDay, dropped, logDeaths>>

Flush ==
    /\ writer = "flush" /\ writer' = "recv"
    /\ IF batch >= Batch THEN batch' = 0 /\ unflushed' = 0 ELSE UNCHANGED <<batch, unflushed>>
    /\ UNCHANGED <<logged, logQueue, rings, today, openDay, dropped, logDeaths>>

(* Logger::remove_session: what is still in the channel makes a new ring.  *)
RemoveRing(s) ==
    /\ rings[s] # <<>> /\ dropped' = [dropped EXCEPT ![s] = rings[s][Len(rings[s])]]
    /\ rings' = [rings EXCEPT ![s] = <<>>]
    /\ UNCHANGED <<logged, logQueue, writer, batch, unflushed, today, openDay, logDeaths>>

(* recent_logs: a page of a ring, from its oldest entry on                 *)
RecentLogs(s, limit, offset) ==
    SubSeq(rings[s], offset + 1, IF offset + limit < Len(rings[s]) THEN offset + limit ELSE Len(rings[s]))

(* GET .../logs at its largest limit                                       *)
SessionLogs(s) == RecentLogs(s, RingSize, 0)

(* The next day, as chrono_free_date tells it.                             *)
LogMidnight ==
    /\ today < MaxLogDays /\ today' = today + 1
    /\ UNCHANGED <<logged, logQueue, rings, writer, batch, unflushed, openDay, dropped, logDeaths>>

(* The server dies: the channel, the rings and what was not flushed go.    *)
(* The next one's writer may fail to open its first file and end.          *)
LogDies ==
    /\ logDeaths < MaxLogDays /\ logDeaths' = logDeaths + 1
    /\ dropped' = logged /\ logQueue' = <<>> /\ rings' = [s \in LogSids |-> <<>>]
    /\ writer' \in {"recv", "dead"} /\ batch' = 0 /\ unflushed' = 0 /\ openDay' = today
    /\ UNCHANGED <<logged, today>>

LogNext ==
    \/ \E s \in LogSids : Log(s) \/ RemoveRing(s)
    \/ Receive \/ DrainLog \/ DrainedLog \/ Flush \/ LogMidnight \/ LogDies

-----------------------------------------------------------------------------
(* What the API shows of a session is its newest entries, without a gap    *)
(* and no more than the ring holds, whatever waits in the channel; a file  *)
(* that cannot be written takes none of them.                              *)
RecentIsRecent ==
    \A s \in LogSids :
        LET waiting == Cardinality({i \in DOMAIN logQueue : logQueue[i].sid = s})
            last == logged[s] - waiting
            since == last - dropped[s]
            ring == SessionLogs(s)
        IN  /\ Len(ring) = IF since < RingSize THEN since ELSE RingSize
            /\ \A i \in DOMAIN ring : ring[i] = last - Len(ring) + i

(* A writer at rest has less than a batch outside the file, however the    *)
(* entries came in: that is what a crash may lose of a quiet server.       *)
RestIsFlushed == writer = "recv" => unflushed < Batch

LogStands == [](RecentIsRecent /\ RestIsFlushed)
=============================================================================
