------------------------------ MODULE SamplePanel ------------------------------
(* From daily bars to supervised samples: the point-in-time universe (data/universe.py),
   the feature engine (features/engine.py), the forward-return labels
   (labels/forward_returns.py) and the exact-time join of the three (ml/dataset.py).

   Days are the calendar days 1..Days, trading or closed.  Each has three instants, in
   order: the open, the close and the evening at which its bars are published and its
   decision is made.  A bar is reduced to what the four builders look at. *)
EXTENDS Integers, FiniteSets, FiniteSetsExt

CONSTANTS
    InstrumentIds,
    Days,               \* the calendar days of the data set
    Calendars,          \* the sets of trading days looked at
    Listing, Delisting, \* per instrument; a delisting after the last day is none
    BarKinds,           \* what can be wrong with a bar
    MaxFlaws,           \* how many bars are not good
    MinimumListing,     \* UniversePolicy.minimum_listing_days
    TrailingWindow,     \* UniversePolicy.trailing_median_window
    Lookbacks,          \* minimum_observations of the features of the feature set
    LabelSpecs,         \* records [kind, horizon]
    FirstDays           \* what --start of the feature build can be

ASSUME PanelAssumption ==
    /\ Days \in Nat /\ MaxFlaws \in Nat /\ MinimumListing \in Nat
    /\ TrailingWindow \in Nat \ {0}
    /\ Calendars \subseteq SUBSET (1..Days)
    /\ Lookbacks \subseteq Nat \ {0} /\ FirstDays \subseteq 1..Days
    /\ BarKinds \subseteq
         {"missing", "late", "zero_volume", "limit_locked", "unpriced", "thin"}
    /\ \A spec \in LabelSpecs :
         /\ spec.kind \in {"open_to_open", "open_to_close", "benchmark_relative"}
         /\ spec.horizon \in Nat \ {0}

VARIABLES
    trading,    \* the days that are sessions
    bars,       \* (instrument, session) -> "good" or a kind of bar
    spec,       \* the label specification
    universe,   \* the eligible (instrument, day) pairs
    features,   \* (instrument, day, lookback) of the valid features
    labels,     \* the label rows
    samples,    \* the supervised rows
    panelStage  \* which artifact is built next

panelVars == <<trading, bars, spec, universe, features, labels, samples, panelStage>>

-----------------------------------------------------------------------------
(* The instants of a day. *)
OpenOf(day) == 3 * day
CloseOf(day) == 3 * day + 1
decision_time(day) == 3 * day + 2

Bar(i, day) == IF day \in trading THEN bars[<<i, day>>] ELSE "missing"

(* A late bar, a correction say, is published the evening after. *)
available_at(i, day) == decision_time(IF Bar(i, day) = "late" THEN day + 1 ELSE day)

(* The last n of a set of days; all of them when there are fewer. *)
LastOf(days, n) == {d \in days : Cardinality({e \in days : e > d}) < n}

Listed(i, day) == Listing[i] <= day /\ day < Delisting[i]

-----------------------------------------------------------------------------
(* The universe.  What a day adds to the history is added after the day is judged.  The
   median of the traded values reaches the minimum when no more than half of the trailing
   bars are thin: values are 0 or twice the minimum. *)
ActiveSessions(i, day) ==
    {e \in trading : e < day /\ Listed(i, e) /\ Bar(i, e) # "missing"}

Trailing(i, day) ==
    LastOf({e \in ActiveSessions(i, day) : Bar(i, e) # "unpriced"}, TrailingWindow)

Liquid(i, day) ==
    2 * Cardinality({e \in Trailing(i, day) : Bar(i, e) \in {"thin", "zero_volume"}})
        <= Cardinality(Trailing(i, day))

Eligible(i, day) ==
    /\ Listed(i, day)
    /\ Cardinality(ActiveSessions(i, day)) >= MinimumListing
    /\ Bar(i, day) \notin {"missing", "unpriced"}
    /\ Cardinality(Trailing(i, day)) = TrailingWindow
    /\ Liquid(i, day)

BuildUniverse ==
    /\ panelStage = "universe"
    /\ universe' = {key \in InstrumentIds \X trading : Eligible(key[1], key[2])}
    /\ panelStage' = "features"
    /\ UNCHANGED <<trading, bars, spec, features, labels, samples>>

-----------------------------------------------------------------------------
(* The features: a value is computed from the last sessions up to the day, if every one
   of their bars is there, is known at the decision and has a volume and a price.  The
   build may be given a first day, before which it sees neither bars nor members. *)
Window(day, lookback) == LastOf({e \in trading : e <= day}, lookback)

FeatureValid(i, day, lookback, first) ==
    /\ Cardinality(Window(day, lookback)) = lookback
    /\ \A e \in Window(day, lookback) :
         /\ e >= first /\ Bar(i, e) # "missing"
         /\ available_at(i, e) <= decision_time(day)
         /\ Bar(i, e) \notin {"zero_volume", "unpriced"}

BuildFeatures ==
    /\ panelStage = "features"
    /\ \E first \in FirstDays :
         features' = {key \in InstrumentIds \X trading \X Lookbacks :
                        /\ <<key[1], key[2]>> \in universe /\ key[2] >= first
                        /\ FeatureValid(key[1], key[2], key[3], first)}
    /\ panelStage' = "labels"
    /\ UNCHANGED <<trading, bars, spec, universe, labels, samples>>

-----------------------------------------------------------------------------
(* The labels: bought at the open of the next session and sold at an open or at the
   close.  A row whose sessions or prices are not there is kept as an invalid one; the
   benchmark has no bar on the days when no instrument has one. *)
Future(day) == {e \in trading : e > day}

Entry(day) == Min(Future(day))

(* The session n after the entry; None when the calendar ends before. *)
None == 0
ExitAt(day, n) ==
    LET exits == {e \in Future(day) : Cardinality({f \in Future(day) : f < e}) = n}
    IN  IF exits = {} THEN None ELSE CHOOSE e \in exits : TRUE

Exit(day) == ExitAt(day, IF spec.kind = "open_to_close" THEN 0 ELSE spec.horizon)

ExitInstant(day) ==
    IF spec.kind = "open_to_close" THEN CloseOf(Exit(day)) ELSE OpenOf(Exit(day))

BenchmarkKnown(day) == \E i \in InstrumentIds : Bar(i, day) # "missing"

LabelValid(i, day) ==
    /\ Exit(day) # None
    /\ Listing[i] <= Entry(day) /\ Exit(day) < Delisting[i]
    /\ Bar(i, Entry(day)) \notin {"missing", "unpriced", "zero_volume", "limit_locked"}
    /\ Bar(i, Exit(day)) \notin {"missing", "unpriced", "limit_locked"}
    /\ spec.kind = "benchmark_relative" =>
         BenchmarkKnown(Entry(day)) /\ BenchmarkKnown(Exit(day))

Label(i, day) ==
    [instrument |-> i, day |-> day, valid |-> LabelValid(i, day),
     start |-> IF Future(day) = {} THEN None ELSE OpenOf(Entry(day)),
     end |-> IF Exit(day) = None THEN None ELSE ExitInstant(day)]

BuildLabels ==
    /\ panelStage = "labels"
    /\ labels' = {Label(member[1], member[2]) : member \in universe}
    /\ panelStage' = "samples"
    /\ UNCHANGED <<trading, bars, spec, universe, features, samples>>

-----------------------------------------------------------------------------
(* The join.  Features and labels meet at one (instrument, decision time), for eligible
   keys only; a row with a missing feature or an invalid label is kept as invalid or
   dropped, and an invalid label without both instants has no interval. *)
Complete(label) ==
    /\ \A lookback \in Lookbacks : <<label.instrument, label.day, lookback>> \in features
    /\ label.valid

Interval(label) ==
    IF ~label.valid /\ None \in {label.start, label.end}
      THEN <<None, None>> ELSE <<label.start, label.end>>

Sample(label) ==
    [instrument |-> label.instrument, day |-> label.day, valid |-> Complete(label),
     start |-> Interval(label)[1], end |-> Interval(label)[2]]

BuildSamples ==
    /\ panelStage = "samples"
    /\ \E policy \in {"invalid_sample", "drop_sample"} :
         samples' = {Sample(label) : label \in
                       {l \in labels : /\ <<l.instrument, l.day>> \in universe
                                       /\ policy = "drop_sample" => Complete(l)}}
    /\ panelStage' = "done"
    /\ UNCHANGED <<trading, bars, spec, universe, features, labels>>

-----------------------------------------------------------------------------
(* The sessions that have a flawed bar, and the bars. *)
Flaws(days) ==
    UNION {kSubset(n, InstrumentIds \X days) : n \in 0..MaxFlaws}

PanelInit ==
    /\ trading \in Calendars
    /\ \E flawed \in Flaws(trading) : \E kind \in BarKinds :
         bars = [key \in InstrumentIds \X trading |-> IF key \in flawed THEN kind ELSE "good"]
    /\ spec \in LabelSpecs
    /\ universe = {} /\ features = {} /\ labels = {} /\ samples = {}
    /\ panelStage = "universe"

PanelNext == BuildUniverse \/ BuildFeatures \/ BuildLabels \/ BuildSamples
=============================================================================
