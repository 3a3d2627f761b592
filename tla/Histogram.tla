------------------------------ MODULE Histogram ------------------------------
(***************************************************************************)
(* Latency histograms (quicforge-core histo.rs) and the figures derived    *)
(* from them (quicforge-types stats.rs).                                   *)
(*                                                                         *)
(* hdrhistogram is modelled by what it does with a value: it counts it in  *)
(* a bucket.  Values below SubBuckets have buckets of their own; above,    *)
(* the buckets get twice as wide every time the values double.  Recording  *)
(* saturates at Highest, the end of the last bucket.  A histogram is the   *)
(* bag of the buckets, each named by its lowest value, it counted into.    *)
(***************************************************************************)
EXTENDS Integers, FiniteSets, Bags, FiniteSetsExt

CONSTANTS
  SubBuckets,   \* 2048 for three significant figures: a power of two
  Highest       \* the bound of an hour, rounded up to the end of a bucket

ASSUME HistogramAssumption ==
  SubBuckets \in Nat \ {0} /\ SubBuckets % 2 = 0 /\ Highest \in Nat \ {0}

Width(ns) == LET width[v \in Nat] == IF v < SubBuckets THEN 1 ELSE 2 * width[v \div 2]
             IN  width[ns]

Bucket(ns)    == ns - (ns % Width(ns))
EndOf(bucket) == bucket + Width(bucket) - 1

NewHistogram == EmptyBag

Clipped(ns) == IF ns > Highest THEN Highest ELSE ns

Record_Unsaturated(hist, ns) ==
  IF ns > Highest THEN hist ELSE hist (+) SetToBag({Bucket(ns)})

\* saturating_record.
Record(hist, ns) == hist (+) SetToBag({Bucket(Clipped(ns))})

\* How many values were counted.
Recorded(bag) == SumFunction(bag)

UpTo(bag, value) == SumFunctionOnSet(bag, {v \in DOMAIN bag : v <= value})

\* Which of count values in order the quantile, in thousandths, stands for.
Position(count, quantile) == (quantile * count + 999) \div 1000

ValueAtQuantile(hist, quantile) ==
  EndOf(Min({b \in DOMAIN hist :
               UpTo(hist, b) >= Position(Recorded(hist), quantile)}))

\* Each value counts as the middle of its bucket.
Mean(hist) == SumFunction([b \in DOMAIN hist |-> (b + Width(b) \div 2) * hist[b]])
                \div Recorded(hist)

LatencyStats == [samples : Nat, min : Nat, mean : Nat,
                 p50 : Nat, p90 : Nat, p99 : Nat, p999 : Nat, max : Nat]

\* The statistics of a histogram, or none.
StatsFromHistogram(hist) ==
  IF hist = EmptyBag THEN {}
  ELSE {[samples |-> Recorded(hist),
         min  |-> Min(DOMAIN hist),
         mean |-> Mean(hist),
         p50  |-> ValueAtQuantile(hist, 500),
         p90  |-> ValueAtQuantile(hist, 900),
         p99  |-> ValueAtQuantile(hist, 990),
         p999 |-> ValueAtQuantile(hist, 999),
         max  |-> EndOf(Max(DOMAIN hist))]}
=============================================================================
