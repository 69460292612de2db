----------------------------- MODULE LoadResults -----------------------------
(***************************************************************************)
(* From the files of a load test to the charts and the printed summary:    *)
(* k6/run-tests.sh writes them, generate-charts.js and show-results.js     *)
(* read them.  Pure operators.                                             *)
(*                                                                         *)
(* An optional value (a JSON null, a NaN, a file that is missing or does   *)
(* not parse) is a sequence of at most one element.  What is collected is  *)
(* in ten-thousandths, the four decimals the database is asked for; a mean *)
(* is the pair of its sum and its count.  The runs are the domain of a     *)
(* function to their files, and the latencies of a run a function from     *)
(* what was measured to whole milliseconds: nothing depends on an order.   *)
(* Drawing and layout are left out.                                        *)
(***************************************************************************)
EXTENDS Integers, FiniteSets, Functions

Null == <<>>

One == 10000

Percentiles == {"p50", "p90", "p95", "p99"}

Share == [p50 |-> 50, p90 |-> 90, p95 |-> 95, p99 |-> 99]

\* What the prom-client Summaries keep (both metrics.service.ts): no p90.
SummaryPercentiles == {"p50", "p95", "p99"}

-----------------------------------------------------------------------------
(* What is collected.                                                      *)

\* collect_metrics: one Prometheus answer per query, "null" for no series.
MetricsFile(matches, joins, hop1, hop2, cpu, memory) ==
  LET kept(hop) == [p \in Percentiles |-> IF p \in SummaryPercentiles THEN hop[p] ELSE Null] IN
  [matchesPerSecond |-> matches, joinRequestsPerSecond |-> joins,
   hop1 |-> kept(hop1), hop2 |-> kept(hop2), cpu |-> cpu, memory |-> memory]

\* The latency that k others come before, in order of size.
Ordered(ms, k) ==
  CHOOSE v \in Range(ms) :
    /\ Cardinality({r \in DOMAIN ms : ms[r] < v}) <= k
    /\ Cardinality({r \in DOMAIN ms : ms[r] <= v}) > k

\* percentile_cont: the point that divides the latencies in the given share, between
\* its two neighbours in proportion.
Percentile(p, ms) ==
  LET at == Share[p] * (Cardinality(DOMAIN ms) - 1)
      part == at % 100
      below == Ordered(ms, at \div 100)
      above == Ordered(ms, (at + 99) \div 100) IN
  100 * ((100 - part) * below + part * above)

PercentilesOf(ms) ==
  [p \in Percentiles |-> IF DOMAIN ms = {} THEN Null ELSE <<Percentile(p, ms)>>]

\* ROUND(n / 60.0, 4), whatever the test has taken.
PerSecond(n) == (1000 * n + 3) \div 6

\* collect_db_metrics: the rows that have both latencies; without any, the
\* total is 0 and everything else null.
DbMetricsFile(hop1Ms, hop2Ms) ==
  LET rows == DOMAIN hop1Ms IN
  [totalMatches |-> Cardinality(rows),
   throughput |-> IF rows = {} THEN Null ELSE <<PerSecond(Cardinality(rows))>>,
   hop1 |-> PercentilesOf(hop1Ms),
   hop2 |-> PercentilesOf(hop2Ms)]

-----------------------------------------------------------------------------
(* Averages over the runs of one broker and one number of virtual users.   *)

Mean(vals) ==
  LET given == {r \in DOMAIN vals : vals[r] # Null} IN
  IF given = {} THEN Null
  ELSE <<[sum |-> SumFunction([r \in given |-> vals[r][1]]), n |-> Cardinality(given)]>>

Means(latencies) ==
  [p \in Percentiles |-> Mean([r \in DOMAIN latencies |-> latencies[r][p]])]

NoHops == [p \in Percentiles |-> Null]

\* averageE2E: the e2e_latency_ms of the summaries that have one.
AverageE2E(summaries) ==
  LET runs == {r \in DOMAIN summaries : summaries[r].e2e # Null} IN
  IF runs = {} THEN Null ELSE <<Means([r \in runs |-> summaries[r].e2e[1]])>>

\* Mutant: one match is not enough.
WithSeveralMatches(files) == RestrictValues(files, LAMBDA m : m.totalMatches > 1)

\* The runs that count: those with matches.
WithMatches(files) == RestrictValues(files, LAMBDA m : m.totalMatches > 0)

AverageDbRuns(files) ==
  LET runs == WithMatches(files) IN
  IF DOMAIN runs = {} THEN Null
  ELSE <<[hop1 |-> Means([r \in DOMAIN runs |-> runs[r].hop1]),
          hop2 |-> Means([r \in DOMAIN runs |-> runs[r].hop2]),
          throughput |-> Mean([r \in DOMAIN runs |-> runs[r].throughput])]>>

AveragePrometheusRuns(runs) ==
  IF DOMAIN runs = {} THEN Null
  ELSE <<[hop1 |-> Means([r \in DOMAIN runs |-> runs[r].hop1]),
          hop2 |-> Means([r \in DOMAIN runs |-> runs[r].hop2]),
          throughput |-> Mean([r \in DOMAIN runs |-> runs[r].matchesPerSecond]),
          cpu |-> Mean([r \in DOMAIN runs |-> runs[r].cpu]),
          memory |-> Mean([r \in DOMAIN runs |-> runs[r].memory])]>>

\* averageRuns: latencies and throughput from the database or, without it,
\* from Prometheus; CPU and memory from Prometheus; end to end from k6.
AverageRuns(db, prom, e2e) ==
  LET base == IF db # Null THEN db ELSE prom IN
  IF base = Null /\ e2e = Null THEN Null
  ELSE <<[hop1 |-> IF base = Null THEN NoHops ELSE base[1].hop1,
          hop2 |-> IF base = Null THEN NoHops ELSE base[1].hop2,
          throughput |-> IF base = Null THEN Null ELSE base[1].throughput,
          cpu |-> IF prom = Null THEN Null ELSE prom[1].cpu,
          memory |-> IF prom = Null THEN Null ELSE prom[1].memory,
          e2e |-> IF e2e = Null THEN NoHops ELSE e2e[1]]>>

-----------------------------------------------------------------------------
(* The charts.                                                             *)

Tiny == [sum |-> One \div 100, n |-> 1]    \* 0.01

\* The height of a bar: a zero is drawn as 0.01.
Bar(v) == IF v # Null /\ v[1].sum <= 0 THEN <<Tiny>> ELSE v

\* The table below the bars prints N/A for no value, and for 0.01.
PrintsNA(bar) == bar = Null \/ bar[1].sum = bar[1].n * Tiny.sum

\* Is there anything to draw, and what is it said to come from?
HasAnyData(dbFiles, metricsFiles) == dbFiles # <<>> \/ metricsFiles # <<>>

UsingDb(dbFiles) == dbFiles # <<>>

-----------------------------------------------------------------------------
(* The printed summary.                                                    *)

\* getHops: without a run that has matches nothing is printed.
GetHops(files) ==
  LET runs == WithMatches(files) IN
  IF DOMAIN runs = {} THEN Null
  ELSE <<[means |-> AverageDbRuns(files)[1],
          total |-> SumFunction([r \in DOMAIN runs |-> runs[r].totalMatches])]>>

\* Math.round of a mean of counts; 0 for none.
Rounded(v) == IF v = Null THEN 0 ELSE (2 * v[1].sum + v[1].n) \div (2 * v[1].n)

\* getStatus: without a summary nothing is printed.
GetStatus(summaries) ==
  LET avg(counter(_)) == Rounded(Mean([r \in DOMAIN summaries |-> counter(summaries[r])])) IN
  IF DOMAIN summaries = {} THEN Null
  ELSE <<[iterations |-> avg(LAMBDA s : s.iterations),
          timeouts |-> avg(LAMBDA s : s.matchTimeouts),
          joinErrors |-> avg(LAMBDA s : s.joinErrors)]>>

\* "Tidak ada kegagalan".
PrintsNoFailure(status) == status # Null /\ status[1].timeouts + status[1].joinErrors = 0
=============================================================================
