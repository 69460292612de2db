------------------------------ MODULE LoadTest -------------------------------
(***************************************************************************)
(* The load test against the match flow: k6's virtual users run the        *)
(* default function of k6/matchmaking-test.js over and over, one iteration *)
(* per WebSocket connection, while the services of Matchmaking.tla run and *)
(* count (apps/matching and apps/notification, metrics.service.ts).        *)
(*                                                                         *)
(* A virtual user is the user of its token.  Its JavaScript runs in one    *)
(* thread: the open handler sends register, sleeps and posts the join      *)
(* without a break, then the event loop of ws.connect handles messages and *)
(* the timer, in any order when several are ready, even once after close.  *)
(* A connection closed by the virtual user is closed for the server when   *)
(* the iteration ends.  There is no clock: the timer may fire at any time. *)
(***************************************************************************)
EXTENDS MatchmakingProps, LoadResults, FiniteSets

CONSTANTS LEVEL,
          Millis    \* what a difference of two Date.now() can be

ASSUME LevelAssumption == LEVEL \in Levels

ASSUME MillisAssumption == Millis \subseteq Int

ASSUME NoSocket == None \notin Sockets

VARIABLES
  vu,    \* user -> what its virtual user is doing
  k6,    \* what k6 has counted
  prom   \* what the services' prom-client registries have counted

loadVars == <<vars, vu, k6, prom>>

\* "open": between connect and the answer of the join; "waiting": in the event
\* loop; "closed": the socket is closed, the event loop about to end.
VirtualUser ==
  [step : {"idle", "open", "waiting", "closed"},
   ws : Sockets \cup {None},      \* None too when the server dropped it
   iteration : Nat,
   registering : BOOLEAN,         \* register is sent and not yet handled
   matchReceived : BOOLEAN,
   timer : BOOLEAN,               \* setTimeout has not fired yet
   mail : SUBSET Notice]          \* match_found messages not yet handled

Sample == [userId : Users, iteration : Nat, notice : Notice]

LoadTypeOK ==
  /\ TypeOK
  /\ vu \in [Users -> VirtualUser]
  /\ k6.samples \subseteq Sample
  /\ k6.iterations \in Nat /\ k6.matchTimeouts \in Nat /\ k6.joinErrors \in Nat
  /\ prom \in [requests : Nat, matches : Nat, hop2 : Nat]
  /\ \A u \in Users : vu[u].ws # None => owner[vu[u].ws] = u

Idle(i) == [step |-> "idle", ws |-> None, iteration |-> i, registering |-> FALSE,
            matchReceived |-> FALSE, timer |-> FALSE, mail |-> {}]

LoadInit ==
  /\ Init
  /\ vu = [u \in Users |-> Idle(0)]
  /\ k6 = [iterations |-> 0, samples |-> {}, matchTimeouts |-> 0, joinErrors |-> 0]
  /\ prom = [requests |-> 0, matches |-> 0, hop2 |-> 0]

-----------------------------------------------------------------------------
(* An iteration of a virtual user.                                         *)

FreeSockets == {ws \in Sockets : readyState[ws] = "closed"}

StartIteration(u) ==
  /\ vu[u].step = "idle"
  /\ FreeSockets # {}
  /\ LET ws == CHOOSE ws \in FreeSockets : TRUE IN
     /\ Connect(ws, u)
     /\ vu' = [vu EXCEPT ![u] = [Idle(@.iteration + 1) EXCEPT
                 !.step = "open", !.ws = ws, !.registering = TRUE, !.timer = TRUE]]
  /\ UNCHANGED <<k6, prom>>

\* No connection: the check of the status fails, no counter of the test moves.
ConnectRefused(u) ==
  /\ vu[u].step = "idle"
  /\ Crash
  /\ k6' = [k6 EXCEPT !.iterations = @ + 1]
  /\ UNCHANGED <<vu, prom, matchingVars, notificationVars, measurements,
                 brokerVars, requests, cancels, connects>>

\* The server handles the register message, at any time before the close.
HandleRegistering(u) ==
  /\ vu[u].registering
  /\ Register(vu[u].ws, LEVEL)
  /\ vu' = [vu EXCEPT ![u].registering = FALSE]
  /\ UNCHANGED <<k6, prom>>

\* POST /match/join is answered 202, even if the service could not publish.
PostJoin(u, ok) ==
  /\ vu[u].step = "open"
  /\ JoinMatch(u, LEVEL, ok)
  /\ vu' = [vu EXCEPT ![u].step = "waiting"]
  /\ UNCHANGED <<k6, prom>>

\* The join is refused, or accepted with the answer lost on its way.
PostFails(u) ==
  /\ vu[u].step = "open"
  /\ Crash
  /\ \/ UNCHANGED <<requests, toMatching>>
     \/ /\ Len(requests) < MaxJoins
        /\ requests' = Append(requests, [userId |-> u, level |-> LEVEL])
        /\ Publish("api", <<JoinEvent(u, LEVEL, Len(requests) + 1)>>)
  /\ vu' = [vu EXCEPT ![u].step = "closed"]
  /\ k6' = [k6 EXCEPT !.joinErrors = @ + 1]
  /\ UNCHANGED <<prom, matchingVars, notificationVars, measurements,
                 toNotification, cancels, connects>>

InEventLoop(u) == vu[u].step \in {"waiting", "closed"}

OnMessage(u, n) ==
  /\ InEventLoop(u)
  /\ n \in vu[u].mail
  /\ vu' = [vu EXCEPT ![u].step = "closed", ![u].matchReceived = TRUE,
                      ![u].mail = @ \ {n}]
  /\ k6' = [k6 EXCEPT !.samples =
              @ \cup {[userId |-> u, iteration |-> vu[u].iteration, notice |-> n]}]
  /\ UNCHANGED <<vars, prom>>

\* Mutant: the timer counts and leaves the socket open.
OnTimeoutKeepsOpen(u) ==
  /\ InEventLoop(u) /\ vu[u].timer
  /\ vu' = [vu EXCEPT ![u].timer = FALSE]
  /\ k6' = [k6 EXCEPT !.matchTimeouts = IF vu[u].matchReceived THEN @ ELSE @ + 1]
  /\ UNCHANGED <<vars, prom>>

\* Mutant: the timer closes the socket without counting.
OnTimeoutSilent(u) ==
  /\ InEventLoop(u) /\ vu[u].timer
  /\ vu' = [vu EXCEPT ![u].step = "closed", ![u].timer = FALSE]
  /\ UNCHANGED <<vars, k6, prom>>

OnTimeout(u) ==
  /\ InEventLoop(u) /\ vu[u].timer
  /\ vu' = [vu EXCEPT ![u].timer = FALSE,
                      ![u].step = IF vu[u].matchReceived THEN @ ELSE "closed"]
  /\ k6' = [k6 EXCEPT !.matchTimeouts = IF vu[u].matchReceived THEN @ ELSE @ + 1]
  /\ UNCHANGED <<vars, prom>>

\* The server has dropped the connection: the error handler closes.
OnError(u) ==
  /\ vu[u].step = "waiting" /\ vu[u].ws = None
  /\ vu' = [vu EXCEPT ![u].step = "closed"]
  /\ UNCHANGED <<vars, k6, prom>>

EndIteration(u) ==
  /\ vu[u].step = "closed" /\ ~vu[u].registering
  /\ IF vu[u].ws = None THEN UNCHANGED vars ELSE Close(vu[u].ws)
  /\ vu' = [vu EXCEPT ![u] = Idle(@.iteration)]
  /\ k6' = [k6 EXCEPT !.iterations = @ + 1]
  /\ UNCHANGED prom

-----------------------------------------------------------------------------
(* The services, with what they count and what reaches the virtual users.  *)

\* matchRequestsTotal and hop1 are counted before the pool is looked at.
CountJoin(p, ok) ==
  /\ OnJoin(p, ok)
  /\ prom' = [prom EXCEPT !.requests = @ + 1]
  /\ UNCHANGED <<vu, k6>>

\* matchesTotal is counted after the emit, whether or not it succeeds.
CountMatch(h, ok) ==
  /\ PublishFound(h, ok)
  /\ prom' = [prom EXCEPT !.matches = @ + 1]
  /\ UNCHANGED <<vu, k6>>

\* Mutant: hop2 is counted once per user that is told.
CountHop2PerUser ==
  /\ OnMatchFound
  /\ prom' = [prom EXCEPT !.hop2 = @ + Cardinality(inbox' \ inbox)]
  /\ vu' = [u \in Users |->
             IF vu[u].step \in {"open", "waiting"} /\ vu[u].ws # None
             THEN [vu[u] EXCEPT !.mail = @ \cup {n \in inbox' \ inbox : n.userId = u}]
             ELSE vu[u]]
  /\ UNCHANGED k6

DeliverFound ==
  /\ OnMatchFound
  /\ prom' = [prom EXCEPT !.hop2 = @ + 1]
  /\ vu' = [u \in Users |->
             IF vu[u].step \in {"open", "waiting"} /\ vu[u].ws # None
             THEN [vu[u] EXCEPT !.mail = @ \cup {n \in inbox' \ inbox : n.userId = u}]
             ELSE vu[u]]
  /\ UNCHANGED k6

MatchingLost ==
  /\ CrashMatching
  /\ prom' = [prom EXCEPT !.requests = 0, !.matches = 0]
  /\ UNCHANGED <<vu, k6>>

\* Every connection is lost; what has arrived on it can still be handled.
NotificationLost ==
  /\ CrashNotification
  /\ prom' = [prom EXCEPT !.hop2 = 0]
  /\ vu' = [u \in Users |-> [vu[u] EXCEPT !.ws = None, !.registering = FALSE]]
  /\ UNCHANGED k6

Uncounted(A) == A /\ UNCHANGED <<vu, k6, prom>>

-----------------------------------------------------------------------------
Iteration(u) ==
  \/ HandleRegistering(u)
  \/ PostJoin(u, TRUE)
  \/ \E n \in vu[u].mail : OnMessage(u, n)
  \/ OnTimeout(u)
  \/ OnError(u)
  \/ EndIteration(u)

Services(ok) ==
  \/ \E p \in Publishers : CountJoin(p, ok) \/ Uncounted(OnCancel(p, ok))
  \/ Uncounted(FinishCancel(ok))
  \/ \E h \in joining : Uncounted(WriteHop1(h, ok)) \/ CountMatch(h, ok)
  \/ \E ws \in Sockets : Uncounted(Disconnect(ws, ok))
  \/ \E c \in updating : Uncounted(WriteHop2(c, ok))

LoadNext ==
  \/ \E u \in Users :
       StartIteration(u) \/ Iteration(u)
         \/ ConnectRefused(u) \/ PostJoin(u, FALSE) \/ PostFails(u)
  \/ \E ok \in BOOLEAN : Services(ok)
  \/ DeliverFound
  \/ MatchingLost \/ NotificationLost

LoadSpec == LoadInit /\ [][LoadNext]_loadVars

\* Each virtual user's thread goes on, its register is read and its timer fires.
\* Nothing is assumed of the match flow, and no iteration has to begin.
LoadFairSpec == LoadSpec /\ \A u \in Users : WF_loadVars(Iteration(u))

-----------------------------------------------------------------------------
(* What is collected when k6 has ended.                                    *)

\* summary.json has the metrics that were used and those with a threshold, as
\* zeros when they were not; "iterations" has none.
Summary(e2eMs) ==
  [iterations |-> IF k6.iterations = 0 THEN Null ELSE <<k6.iterations>>,
   matchTimeouts |-> <<k6.matchTimeouts>>,
   joinErrors |-> <<k6.joinErrors>>,
   e2e |-> <<IF DOMAIN e2eMs = {} THEN [p \in Percentiles |-> <<0>>]
             ELSE PercentilesOf(e2eMs)>>]

MeasuredRows == {r \in measurements : r.hop2}

\* summary.json, db_metrics.json and metrics.json; each may be missing.
SummaryFiles(e2eMs) == {<<>>, <<Summary(e2eMs)>>}

DbFiles(hop1Ms, hop2Ms) == {<<>>, <<DbMetricsFile(hop1Ms, hop2Ms)>>}

\* What a rate over a minute and the quantiles of a prom-client Summary say depends on
\* when they were scraped: nothing, zero, or also more than was counted, as a rate
\* extrapolates (here to twice as much at most).
MetricsFiles ==
  LET rates == {Null} \cup {<<PerSecond(n)>> : n \in 0..2 * Cardinality(matched)}
      rising == {ms \in [SummaryPercentiles -> Millis] : ms.p50 <= ms.p95 /\ ms.p95 <= ms.p99}
      quantiles ==
        {NoHops} \cup {[p \in SummaryPercentiles |-> <<One * ms[p]>>] : ms \in rising} IN
  {<<>>} \cup
    {<<MetricsFile(rate, Null, hop1, hop2, Null, Null)>> :
       rate \in rates, hop1 \in quantiles, hop2 \in quantiles}

-----------------------------------------------------------------------------
(* What the load test must do.                                             *)

\* An iteration ends: whatever is lost, refused or late, a virtual user comes
\* back from ws.connect (the 30 s timer of matchmaking-test.js:84 sees to it).
IterationEnds == \A u \in Users : vu[u].step # "idle" ~> vu[u].step = "idle"

\* Without faults, when the summary says that there was no failure, every
\* iteration that has ended has measured an end-to-end latency.
NoSilentFailure ==
  faults = 0 =>
    \A e2eMs \in [k6.samples -> Millis] : \A summary \in SummaryFiles(e2eMs) :
      PrintsNoFailure(GetStatus(summary)) =>
        \A u \in Users : \A i \in 1..vu[u].iteration :
          (i = vu[u].iteration => vu[u].step = "idle") =>
            \E s \in k6.samples : s.userId = u /\ s.iteration = i

\* No join is measured twice: two samples are about two requests, and each is
\* about a request of the user who measured it.  (Not always the request of
\* that iteration: the match of an earlier one can come in late.)
EachJoinSampledOnce ==
  /\ \A s, t \in k6.samples : s # t => s.notice.myTopics # t.notice.myTopics
  /\ \A s \in k6.samples : requests[s.notice.myTopics].userId = s.userId

\* The test is over and the services are done (run-tests.sh:357 waits 5 s).
Settled ==
  /\ \A u \in Users : vu[u].step = "idle"
  /\ Quiescent /\ toNotification = <<>> /\ updating = {}

\* The two monitors and the database agree when no fault has happened: join
\* requests, matches, matches delivered, rows with both latencies.
MonitorsAgree ==
  faults = 0 /\ Settled =>
    /\ prom.requests = Len(requests)
    /\ prom.matches = Cardinality(matched) /\ prom.hop2 = prom.matches
    /\ Cardinality(MeasuredRows) = prom.matches

\* How a percentile of the latencies ms is shown: N/A when none was above zero, a number
\* when all took a millisecond, and then one between the fastest and the slowest.
Shows(percentile, ms) ==
  LET bar == Bar(percentile) IN
  /\ (\A r \in DOMAIN ms : ms[r] <= 0) => PrintsNA(bar)
  /\ DOMAIN ms # {} /\ (\A r \in DOMAIN ms : ms[r] >= 1) => ~PrintsNA(bar)
  /\ ~PrintsNA(bar) => \E r, s \in DOMAIN ms :
       bar[1].sum \in bar[1].n * One * ms[r] .. bar[1].n * One * ms[s]

\* Bars and printed summary show these rows: their throughput, no more than matches were
\* made, their number and the percentiles of their latencies.
ShowsRows(row, hops, hop1Ms, hop2Ms) ==
  LET n == Cardinality(DOMAIN hop1Ms)
      rate == Bar(row.throughput) IN
  /\ ~PrintsNA(rate) /\ rate[1].sum = rate[1].n * PerSecond(n)
  /\ rate[1].sum <= rate[1].n * PerSecond(Cardinality(matched))
  /\ hops[1].total = n
  /\ \A p \in Percentiles : Shows(row.hop1[p], hop1Ms) /\ Shows(row.hop2[p], hop2Ms)

ShowsSamples(row, ms) == \A p \in Percentiles : Shows(row.e2e[p], ms)

\* The charts show the rows that were collected from the database, a single one too, and
\* the percentiles of what the virtual users have measured, if there is a summary of it.
\* The rows are those up to the whole second in which k6 has ended: later ones are left out.
ChartsShowMatches ==
  LET scraped == {[file |-> metrics, means |-> AveragePrometheusRuns(metrics)] :
                    metrics \in MetricsFiles} IN
  Settled =>
    \A rows \in SUBSET MeasuredRows :
      \A hop1Ms, hop2Ms \in [rows -> Millis] : \A db \in DbFiles(hop1Ms, hop2Ms) :
        LET fromDb == AverageDbRuns(db)
            hops == GetHops(db) IN
        \A e2eMs \in [k6.samples -> Millis] : \A summary \in SummaryFiles(e2eMs) :
          LET e2e == AverageE2E(summary) IN
          \A prometheus \in scraped :
            LET drawn == AverageRuns(fromDb, prometheus.means, e2e) IN
            HasAnyData(db, prometheus.file) /\ drawn # Null =>
              /\ UsingDb(db) /\ rows # {} => ShowsRows(drawn[1], hops, hop1Ms, hop2Ms)
              /\ ShowsSamples(drawn[1], IF summary = <<>> THEN <<>> ELSE e2eMs)

-----------------------------------------------------------------------------
\* What the design document says and the code does not do: who disconnects
\* before a match is deleted from the pool (skripsi-plan.md:249).  After a test
\* in which every virtual user has disconnected, nobody would wait any more.
NoGhostWaiting == faults = 0 /\ Settled => \A l \in Levels : pool[l] = None
=============================================================================
