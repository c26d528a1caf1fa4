------------------------------ MODULE Sampling ------------------------------
(***************************************************************************)
(* Trace sampling (sampler.go): a counting or a percent sampler decides on  *)
(* new transactions, token buckets cap the new and the continued ones, and  *)
(* every decision is counted for the agent statistics.  A reload that       *)
(* changes a sampling option builds the sampler again; any other carries it *)
(* over with its counter and its buckets (newTraceSampler, config.go).      *)
(*                                                                          *)
(* The counters are unsigned and wrap at Wrap (2^64 in the code), which is  *)
(* no multiple of the percent scale.  A tick is the 1/tps second that       *)
(* refills one permit.                                                      *)
(***************************************************************************)
EXTENDS Naturals

CONSTANTS
  Wrap,     \* the modulus of the counters
  MaxRate,  \* samplingMaxPercentRate
  Rates,    \* sampling rates to choose from
  Tps,      \* throughputs to choose from, 0 for unlimited
  MaxNew,   \* bound on the new transactions
  MaxCont,  \* bound on the continued ones
  MaxTicks  \* bound on the ticks

VARIABLES
  kind,    \* "COUNTER" or "PERCENT"
  rate, tps,
  counter, \* the base sampler's counter
  tokens,  \* permits in each bucket
  stats,   \* statSampleNew and the others
  base,    \* since the sampler was built: decisions of the base sampler,
           \* how many it sampled, wraps of its counter
  paced    \* since the buckets were built: ticks, and permits given by each

vars == <<kind, rate, tps, counter, tokens, stats, base, paced>>

Buckets == {"new", "cont"}

\* newTokenBucket starts with one permit; rate.NewLimiter alone starts full.
FullBucket(n) == n

newTokenBucket(n) == IF n > 0 THEN 1 ELSE 0

BuildTraceSampler ==
  /\ counter' = 0
  /\ tokens' = [b \in Buckets |-> newTokenBucket(tps')]
  /\ base' = [asked |-> 0, sampled |-> 0, wraps |-> 0]
  /\ paced' = [ticks |-> 0, new |-> 0, cont |-> 0]

Init ==
  /\ kind \in {"COUNTER", "PERCENT"} /\ rate \in Rates /\ tps \in Tps
  /\ counter = 0
  /\ tokens = [b \in Buckets |-> newTokenBucket(tps)]
  /\ stats = [sampleNew |-> 0, unsampleNew |-> 0, skipNew |-> 0,
              sampleCont |-> 0, skipCont |-> 0]
  /\ base = [asked |-> 0, sampled |-> 0, wraps |-> 0]
  /\ paced = [ticks |-> 0, new |-> 0, cont |-> 0]

-----------------------------------------------------------------------------

\* rateSampler and percentSampler: rates that need no counter leave it alone.
Step == IF kind = "COUNTER" THEN 1 ELSE rate
Always == IF kind = "COUNTER" THEN rate = 1 ELSE rate >= MaxRate

\* The window is (0, rate]; HalfOpen is the [0, rate) one.
HalfOpen(count) == count % MaxRate < rate

InWindow(count) == count % MaxRate > 0 /\ count % MaxRate <= rate

isSampled ==
  IF rate = 0 THEN FALSE
  ELSE IF Always THEN TRUE
  ELSE IF kind = "COUNTER" THEN counter % rate = 0
  ELSE InWindow((counter + rate) % Wrap)

Decided ==
  LET next == counter + Step
      counts == rate > 0 /\ ~Always
  IN /\ counter' = IF counts THEN next % Wrap ELSE counter
     /\ base' = [asked |-> base.asked + 1,
                 sampled |-> base.sampled + (IF isSampled THEN 1 ELSE 0),
                 wraps |-> base.wraps + (IF counts /\ next >= Wrap THEN 1 ELSE 0)]

\* rate.Limiter.Allow, or no limiter.
Allow(b) == tps = 0 \/ tokens[b] > 0

Spend(b) ==
  IF tps > 0 /\ Allow(b)
  THEN /\ tokens' = [tokens EXCEPT ![b] = @ - 1]
       /\ paced' = [paced EXCEPT ![b] = @ + 1]
  ELSE UNCHANGED <<tokens, paced>>

isNewSampled ==
  /\ stats.sampleNew + stats.unsampleNew + stats.skipNew < MaxNew
  /\ Decided
  /\ IF ~isSampled
     THEN stats' = [stats EXCEPT !.unsampleNew = @ + 1] /\ UNCHANGED <<tokens, paced>>
     ELSE /\ Spend("new")
          /\ stats' = IF Allow("new") THEN [stats EXCEPT !.sampleNew = @ + 1]
                      ELSE [stats EXCEPT !.skipNew = @ + 1]
  /\ UNCHANGED <<kind, rate, tps>>

isContinueSampled ==
  /\ stats.sampleCont + stats.skipCont < MaxCont
  /\ Spend("cont")
  /\ stats' = IF Allow("cont") THEN [stats EXCEPT !.sampleCont = @ + 1]
              ELSE [stats EXCEPT !.skipCont = @ + 1]
  /\ UNCHANGED <<kind, rate, tps, counter, base>>

Tick ==
  /\ tps > 0 /\ paced.ticks < MaxTicks
  /\ tokens' = [b \in Buckets |-> IF tokens[b] < tps THEN tokens[b] + 1 ELSE tps]
  /\ paced' = [paced EXCEPT !.ticks = @ + 1]
  /\ UNCHANGED <<kind, rate, tps, counter, stats, base>>

\* newTraceSampler: an equal set of options keeps the sampler.
Reload(r, n) ==
  /\ rate' = r /\ tps' = n
  /\ IF r = rate /\ n = tps THEN UNCHANGED <<counter, tokens, base, paced>>
     ELSE BuildTraceSampler
  /\ UNCHANGED <<kind, stats>>

Next ==
  \/ isNewSampled
  \/ isContinueSampled
  \/ Tick
  \/ \E r \in Rates, n \in Tps : Reload(r, n)

Spec == Init /\ [][Next]_vars

-----------------------------------------------------------------------------

\* The exact share of n transactions, rounded up.
Share(n) ==
  IF rate = 0 THEN 0
  ELSE IF Always THEN n
  ELSE IF kind = "COUNTER" THEN (n + rate - 1) \div rate
  ELSE (n * rate + MaxRate - 1) \div MaxRate

(* The base sampler samples the first transaction and then exactly the      *)
(* configured share of them, rounded up, at every moment: no drift, only    *)
(* one more or one less each time the unsigned counter wraps.               *)
ExactShare ==
  /\ base.sampled <= Share(base.asked) + base.wraps
  /\ base.sampled + base.wraps >= Share(base.asked)

(* Since the sampling options last changed, a bucket gave one permit and    *)
(* one more per refill, never a burst at the start; and it never holds more *)
(* than a second's permits.                                                 *)
Paced ==
  tps > 0 => \A b \in Buckets :
    /\ paced[b] <= 1 + paced.ticks
    /\ tokens[b] <= tps
=============================================================================
