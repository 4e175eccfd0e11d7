------------------------------ MODULE RunMetrics ------------------------------
(***************************************************************************)
(* What a Claude session's turns cost: the fan-out turns the CLI's running *)
(* total into one figure for each boundary it records (run_metrics.rs),    *)
(* the session keeps the last records and its lifetime sums, a writer task *)
(* appends the records to a file.  Crew and Codex report no cost.          *)
(*                                                                         *)
(* How the CLI counts is external: a new conversation from nothing, a      *)
(* resumed one from what it had reached or from nothing.                   *)
(***************************************************************************)
EXTENDS Naturals, Sequences, SequencesExt

CONSTANTS
    RingCap,       \* records a session keeps: 50
    WriterCap,     \* the writer's channel: 256
    Verdicts,      \* a human's thumbs
    NoCost,        \* no figure
    MaxSpent,      \* bound: units of cost
    MaxRuns,       \* bound: records
    MaxProcesses   \* bound: processes of the session, and boots

ASSUME MetricsAssumption ==
    /\ {RingCap, WriterCap, MaxSpent, MaxRuns, MaxProcesses} \subseteq Nat /\ RingCap > 0
    /\ NoCost \notin Nat /\ NoCost \notin Verdicts

VARIABLES
    cost,      \* the process: is it there, is_resumed, its total, and which one it is
    prevCost,  \* prev_cost: the total at the last record
    costSeen,  \* first_cost_seen
    unsettled, \* turn_starts: turns whose boundary is still to come
    ring,      \* Session.run_metrics
    life,      \* lifetime_turns, lifetime_cost_usd
    writing,   \* run_metrics_tx: records the writer has not taken
    audit,     \* <sid>.ndjson
    runs,      \* history: records ever made
    bill,     \* history: cost since the server started
    ledger     \* history of this process: the sum before it, the first and last
               \* total that came with a record

metricsVars == <<cost, prevCost, costSeen, unsettled, ring, life, writing, audit, runs, bill, ledger>>

Costs == 0..MaxSpent
MaybeCost == Costs \cup {NoCost}

MetricsTypeOK ==
    /\ cost \in [live: BOOLEAN, resumed: BOOLEAN, total: Costs, n: 0..MaxProcesses]
    /\ prevCost \in MaybeCost /\ costSeen \in BOOLEAN /\ unsettled \in 0..2
    /\ ring \in Seq([id: 1..MaxRuns, cost: MaybeCost, verdict: Verdicts \cup {NoCost}])
    /\ life \in [turns: 0..MaxRuns, cost: Nat]
    /\ writing \in Seq(1..MaxRuns) /\ audit \in Seq(1..MaxRuns)
    /\ runs \in 0..MaxRuns /\ bill \in Costs
    /\ ledger \in [before: Nat, first: MaybeCost, last: MaybeCost]

NoLedger == [before |-> 0, first |-> NoCost, last |-> NoCost]

MetricsInit ==
    /\ cost = [live |-> FALSE, resumed |-> FALSE, total |-> 0, n |-> 0]
    /\ prevCost = NoCost /\ costSeen = FALSE /\ unsettled = 0
    /\ ring = <<>> /\ life = [turns |-> 0, cost |-> 0]
    /\ writing = <<>> /\ audit = <<>> /\ runs = 0 /\ bill = 0 /\ ledger = NoLedger

-----------------------------------------------------------------------------
(* The figure of one boundary and the next prev_cost.                      *)
DiffCost(prev, cur, isFirst, isResumed) ==
    CASE cur = NoCost -> [delta |-> NoCost, prev |-> prev]
      [] cur # NoCost /\ isFirst /\ isResumed -> [delta |-> NoCost, prev |-> cur]
      [] OTHER -> LET base == IF prev = NoCost THEN 0 ELSE prev
                  IN  [delta |-> IF cur > base THEN cur - base ELSE 0, prev |-> cur]

(* mutant: a boundary nobody records moves the base all the same           *)
AdvancedAlways(cur, records) ==
    LET d == DiffCost(prevCost, cur, ~costSeen, cost.resumed)
    IN  [delta |-> d.delta, prev |-> d.prev, seen |-> costSeen \/ cur # NoCost]

(* diff_cost_at_boundary: only what is recorded moves the base.            *)
DiffCostAtBoundary(cur, records) ==
    LET d == DiffCost(prevCost, cur, ~costSeen, cost.resumed)
    IN  IF records
        THEN [delta |-> d.delta, prev |-> d.prev, seen |-> costSeen \/ cur # NoCost]
        ELSE [delta |-> NoCost, prev |-> prevCost, seen |-> costSeen]

(* record_run_metric: the ring, the sums, and try_send to the writer.      *)
RecordRun(delta) ==
    /\ runs' = runs + 1
    /\ LET longer == Append(ring, [id |-> runs + 1, cost |-> delta, verdict |-> NoCost])
       IN  ring' = IF Len(longer) > RingCap THEN Tail(longer) ELSE longer
    /\ life' = [turns |-> life.turns + 1, cost |-> life.cost + (IF delta = NoCost THEN 0 ELSE delta)]
    /\ writing' = IF Len(writing) < WriterCap THEN Append(writing, runs + 1) ELSE writing

(* A boundary the fan-out handles: the front of turn_starts is settled and *)
(* recorded; a boundary too many finds none.  A boundary that is skipped   *)
(* (the end of a turn of the CLI's own) touches nothing of this.           *)
AtBoundary(cur) ==
    LET records == unsettled > 0
        d == DiffCostAtBoundary(cur, records)
    IN  /\ cost.live /\ runs < MaxRuns
        /\ prevCost' = d.prev /\ costSeen' = d.seen
        /\ unsettled' = IF records THEN unsettled - 1 ELSE 0
        /\ IF records THEN RecordRun(d.delta) ELSE UNCHANGED <<runs, ring, life, writing>>
        /\ ledger' = IF records /\ cur # NoCost
                     THEN [ledger EXCEPT !.last = cur, !.first = IF @ = NoCost THEN cur ELSE @]
                     ELSE ledger
        /\ UNCHANGED <<audit, bill>>

(* A result carries the total, or none; an error carries none.             *)
ResultOrError == \E cur \in {cost.total, NoCost} : AtBoundary(cur) /\ UNCHANGED cost

(* Exit is a boundary, and the fan-out's last.                             *)
ExitBoundary == AtBoundary(NoCost) /\ cost' = [cost EXCEPT !.live = FALSE]

(* spawn_acp_fanout, with or without a conversation to resume              *)
SpawnClaude ==
    /\ ~cost.live /\ cost.n < MaxProcesses
    /\ \E resumed \in {cost.n > 0, FALSE} : \E total \in IF resumed THEN {cost.total, 0} ELSE {0} :
          /\ cost' = [live |-> TRUE, resumed |-> resumed, total |-> total, n |-> cost.n + 1]
          /\ prevCost' = IF resumed THEN NoCost ELSE 0
    /\ costSeen' = FALSE /\ unsettled' = 0 /\ ledger' = [NoLedger EXCEPT !.before = life.cost]
    /\ UNCHANGED <<ring, life, writing, audit, runs, bill>>

TurnStarts ==
    /\ cost.live /\ unsettled < 2 /\ unsettled' = unsettled + 1
    /\ UNCHANGED <<cost, prevCost, costSeen, ring, life, writing, audit, runs, bill, ledger>>

ClaudeSpends ==
    /\ cost.live /\ bill < MaxSpent /\ cost.total < MaxSpent
    /\ bill' = bill + 1 /\ cost' = [cost EXCEPT !.total = @ + 1]
    /\ UNCHANGED <<prevCost, costSeen, unsettled, ring, life, writing, audit, runs, ledger>>

(* spawn_writer's task; a file that cannot be written loses the record.    *)
WriterAppends ==
    /\ writing # <<>> /\ writing' = Tail(writing)
    /\ \/ audit' = Append(audit, Head(writing))
       \/ UNCHANGED audit
    /\ UNCHANGED <<cost, prevCost, costSeen, unsettled, ring, life, runs, bill, ledger>>

(* set_human_verdict: found by id in the ring                              *)
Judged(id, v) == [i \in DOMAIN ring |-> IF ring[i].id = id THEN [ring[i] EXCEPT !.verdict = v] ELSE ring[i]]

(* POST .../runs/{run_id}/verdict; a 404 changes nothing                   *)
PostRunVerdict(id, v) ==
    /\ \E i \in DOMAIN ring : ring[i].id = id
    /\ ring' = Judged(id, v)
    /\ UNCHANGED <<cost, prevCost, costSeen, unsettled, life, writing, audit, runs, bill, ledger>>

(* runs_for_session: a page of limit records, the newest first             *)
RunsPage(limit) ==
    LET newest == Reverse(ring) IN SubSeq(newest, 1, IF limit < Len(ring) THEN limit ELSE Len(ring))

(* A boot reads none of this back; the conversation's total is the CLI's.  *)
RestartMetrics ==
    /\ cost.n < MaxProcesses
    /\ cost' = [cost EXCEPT !.live = FALSE, !.n = @ + 1]
    /\ ring' = <<>> /\ life' = [turns |-> 0, cost |-> 0] /\ writing' = <<>>
    /\ bill' = 0 /\ ledger' = NoLedger /\ unsettled' = 0
    /\ UNCHANGED <<prevCost, costSeen, audit, runs>>

MetricsNext ==
    \/ SpawnClaude \/ TurnStarts \/ ClaudeSpends \/ ResultOrError \/ ExitBoundary
    \/ WriterAppends \/ RestartMetrics
    \/ \E id \in 1..MaxRuns, v \in Verdicts : PostRunVerdict(id, v)

-----------------------------------------------------------------------------
(* The differences telescope: however boundaries are coupled, doubled,     *)
(* skipped or reported without a figure, the sum a process added is the    *)
(* last total recorded (less the first one, if it resumed a conversation   *)
(* whose history is not its own), and never more than was spent.          *)
CostsTelescope ==
    /\ life.cost <= bill
    /\ (cost.live /\ ledger.last # NoCost) =>
         life.cost - ledger.before = ledger.last - (IF cost.resumed THEN ledger.first ELSE 0)

(* A page of a session's runs is the newest of them without a gap, and the *)
(* file a subsequence of what was recorded.                                *)
RunsInOrder ==
    /\ Len(ring) = (IF life.turns < RingCap THEN life.turns ELSE RingCap)
    /\ \A limit \in 0..RingCap : \A i \in DOMAIN RunsPage(limit) : RunsPage(limit)[i].id = runs + 1 - i
    /\ LET kept == audit \o writing IN \A i, j \in DOMAIN kept : i < j => kept[i] < kept[j]

MetricsStand == [](CostsTelescope /\ RunsInOrder)
=============================================================================
