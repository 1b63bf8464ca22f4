------------------------------- MODULE Charts -------------------------------
(***************************************************************************)
(* What the Overview tab of the dashboard makes of GET /metrics            *)
(* (bin/artifacts-gui/metrics.rs): the scrapes of the poller, parsed, kept *)
(* for a while, and turned into rates and latencies.                       *)
(*                                                                         *)
(* Times and bounds are numbers, and Inf is above every bound.  A line of  *)
(* the exposition is a record.  A rate is a count and the time it took, a  *)
(* percentile a pair <<n, d>> for n/d, and the rounding of f64 is ignored. *)
(* A scrape is [at, obs, limited, quota], where obs[s][v] is the number of *)
(* requests of the series s that took v.                                   *)
(***************************************************************************)
EXTENDS Naturals, Sequences, SequencesExt

Bounds == {1, 3, 99}
Inf == 99
NoPoint == 0          \* None: no bucket is bounded by it
HistoryWindowSecs == 300

(* The exporter: a series is exposed once it has been observed.            *)
Total(f) == FoldFunction(LAMBDA x, y : x + y, 0, f)
UpToBound(f, le) == Total([v \in {x \in DOMAIN f : x <= le} |-> f[v]])

RenderSeries(f) ==
    IF Total(f) = 0 THEN <<>>
    ELSE <<[name |-> "requests_total", value |-> Total(f)]>>
         \o [i \in 1..3 |-> LET le == <<1, 3, Inf>>[i]
                            IN  [name |-> "bucket", le |-> le, value |-> UpToBound(f, le)]]

RenderMetrics(scrape) ==
    <<[name |-> "rate_limited_total", value |-> scrape.limited],
      [name |-> "quota_exceeded_total", value |-> scrape.quota]>>
    \o FoldFunction(LAMBDA f, lines : RenderSeries(f) \o lines, <<>>, scrape.obs)

-----------------------------------------------------------------------------

MetricsSnapshot ==
    [requests_total |-> 0, rate_limited_total |-> 0, quota_exceeded_total |-> 0,
     latency_buckets |-> <<>>]

At(buckets, le) == IF le \in DOMAIN buckets THEN buckets[le] ELSE 0

(* Requests and buckets are summed over the series.                        *)
ParseLine(out, l) ==
    CASE l.name = "rate_limited_total"   -> [out EXCEPT !.rate_limited_total = l.value]
      [] l.name = "quota_exceeded_total" -> [out EXCEPT !.quota_exceeded_total = l.value]
      [] l.name = "requests_total"       -> [out EXCEPT !.requests_total = @ + l.value]
      [] l.name = "bucket" ->
             [out EXCEPT !.latency_buckets =
                 [le \in DOMAIN @ \cup {l.le} |-> At(@, le) + IF le = l.le THEN l.value ELSE 0]]

ParseMetrics(lines) == FoldLeft(ParseLine, MetricsSnapshot, lines)

(* The poller: push the sample, drop the old ones.                         *)
Remember(history, sample) ==
    LET kept == SelectSeq(history, LAMBDA s : sample.at - s.at <= HistoryWindowSecs)
    IN  Append(kept, sample)

Sampled(scrape) == [at |-> scrape.at, metrics |-> ParseMetrics(RenderMetrics(scrape))]

SaturatingSub(a, b) == IF a > b THEN a - b ELSE 0

PercentileBetween(older, newer, p) ==
    LET total == SaturatingSub(At(newer, Inf), At(older, Inf))
        target == (total * p[1] + p[2] - 1) \div p[2]
        reached == {le \in DOMAIN newer : SaturatingSub(newer[le], At(older, le)) >= target}
    IN  IF total = 0 \/ reached = {} THEN NoPoint ELSE Min(reached)

(* From sample i - 1 to sample i.                                          *)
Interval(history, i, p) ==
    PercentileBetween(history[i - 1].metrics.latency_buckets,
                      history[i].metrics.latency_buckets, p)

Later(history) == [i \in 1..Len(history) - 1 |-> i + 1]

IntervalPercentilePoints(history, p, now) ==
    LET drawn == SelectSeq(Later(history), LAMBDA i : Interval(history, i, p) # NoPoint)
    IN  [k \in DOMAIN drawn |-> [age   |-> now - history[drawn[k]].at,
                                 value |-> Interval(history, drawn[k], p)]]

RatePoints(history, f, now) ==
    LET drawn == SelectSeq(Later(history), LAMBDA i : history[i].at > history[i - 1].at)
    IN  [k \in DOMAIN drawn |->
            LET s == history[drawn[k]]
                prev == history[drawn[k] - 1]
            IN  [age |-> now - s.at, dt |-> s.at - prev.at,
                 delta |-> SaturatingSub(s.metrics[f], prev.metrics[f])]]

P50 == <<50, 100>>
P95 == <<95, 100>>
P99 == <<99, 100>>

LastIntervalPercentiles(history) ==
    IF Len(history) < 2 THEN <<NoPoint, NoPoint, NoPoint>>
    ELSE LET n == Len(history)
         IN  <<Interval(history, n, P50), Interval(history, n, P95), Interval(history, n, P99)>>

RenderOverview(scrapes, now) ==
    LET history == FoldLeft(LAMBDA h, scrape : Remember(h, Sampled(scrape)), <<>>, scrapes)
    IN  [requests |-> history[Len(history)].metrics.requests_total,
         latest   |-> LastIntervalPercentiles(history),
         p50      |-> IntervalPercentilePoints(history, P50, now),
         p95      |-> IntervalPercentilePoints(history, P95, now),
         p99      |-> IntervalPercentilePoints(history, P99, now),
         rates    |-> RatePoints(history, "requests_total", now),
         limited  |-> RatePoints(history, "rate_limited_total", now),
         refused  |-> RatePoints(history, "quota_exceeded_total", now)]

-----------------------------------------------------------------------------

Grew(a, b) == \A s \in DOMAIN a : \A v \in DOMAIN a[s] : a[s][v] <= b[s][v]

(* How many of the requests between two scrapes took v.                    *)
Lasted(a, b, v) == Total([s \in DOMAIN a.obs |-> b.obs[s][v] - a.obs[s][v]])

(* The bound above the request that takes longest of the fastest share p.  *)
TrueBound(a, b, p) ==
    LET values == UNION {DOMAIN a.obs[s] : s \in DOMAIN a.obs}
        within(v) == Total([u \in {x \in values : x <= v} |-> Lasted(a, b, u)])
        all == within(Max(values))
        slowest == Min({v \in values : within(v) * p[2] >= all * p[1]})
    IN  IF all = 0 THEN NoPoint ELSE Min({le \in Bounds : le >= slowest})

(* While the server is not restarted, the charts show what happened: every *)
(* sample of the window but the oldest has its rate, the requests served   *)
(* since the one before; it has a latency exactly if there were any, the   *)
(* bound above the right one of them whatever series they are in; and the  *)
(* latest percentiles are those of the last interval.  A restart makes no  *)
(* rate negative and none above what was served since.                     *)
ChartsExact(scrapes, now, a) ==
    LET last == scrapes[Len(scrapes)]
        kept == SelectSeq(scrapes, LAMBDA s : last.at - s.at <= HistoryWindowSecs)
        pairs == [i \in 1..Len(kept) - 1 |-> <<kept[i], kept[i + 1]>>]
        total(s) == Total([x \in DOMAIN s.obs |-> Total(s.obs[x])])
        points(p) == SelectSeq([i \in DOMAIN pairs |->
                                   [age   |-> now - pairs[i][2].at,
                                    value |-> TrueBound(pairs[i][1], pairs[i][2], p)]],
                               LAMBDA q : q.value # NoPoint)
        restarted == \E i \in DOMAIN pairs : ~Grew(pairs[i][1].obs, pairs[i][2].obs)
    IN  /\ a.requests = total(last)
        /\ Len(a.rates) = Len(pairs)
        /\ \A i \in DOMAIN pairs : a.rates[i].delta \in 0..total(pairs[i][2])
        /\ ~restarted =>
              /\ \A i \in DOMAIN pairs :
                     LET from == pairs[i][1]
                         to == pairs[i][2]
                         rate(n) == [age |-> now - to.at, dt |-> to.at - from.at, delta |-> n]
                     IN  /\ a.rates[i] = rate(total(to) - total(from))
                         /\ a.limited[i] = rate(to.limited - from.limited)
                         /\ a.refused[i] = rate(to.quota - from.quota)
              /\ a.p50 = points(P50) /\ a.p95 = points(P95) /\ a.p99 = points(P99)
              /\ a.latest = LET of(p) == IF pairs = <<>> THEN NoPoint
                                         ELSE TrueBound(kept[Len(kept) - 1], last, p)
                            IN  <<of(P50), of(P95), of(P99)>>

=============================================================================
