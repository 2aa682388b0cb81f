----------------------------- MODULE ReplayProofs -----------------------------
(***************************************************************************)
(* The verdict of replay_events on the journal of the backtest engine.     *)
(* The replay of the journal keeps up with the run, whatever the run does  *)
(* next: after every event it has the ledger, the reserved orders, the     *)
(* fills and the counts of the run, or was refused after a close that      *)
(* marked nothing while something was held.  First what a replay makes of  *)
(* each kind of event, then of the events of each action of the engine.    *)
(***************************************************************************)
EXTENDS TradingProofs

-----------------------------------------------------------------------------
(* Numbers. *)
\* What holds of 0 and goes from a number to the next holds up to any number.
LEMMA NumberByNumber ==
    ASSUME NEW m \in Nat, NEW P, 0 \in P, \A j \in 0 .. m - 1 : j \in P => j + 1 \in P
    PROVE  \A j \in 0 .. m : j \in P
<1> DEFINE bad == {j \in 0 .. m : j \notin P}
<1>1. SUFFICES ASSUME bad # {} PROVE FALSE
  OBVIOUS
<1>2. bad \subseteq Nat
  OBVIOUS
<1>3. PICK k \in bad : \A j \in bad : k <= j
  BY <1>1, <1>2, LeastNumber
<1>4. k # 0 /\ k - 1 \in 0 .. m - 1 /\ k - 1 \notin bad
  BY <1>3
<1> QED BY <1>3, <1>4

\* An index that is neither the last nor the one before it.
LEMMA BeforeTheLastTwo ==
    ASSUME NEW m \in Nat, NEW k \in 1 .. m, k # m, k # m - 1
    PROVE  k \in 1 .. m - 2
OBVIOUS

-----------------------------------------------------------------------------
(* Sequences of events. *)
\* s is a sequence, of whatever elements.
Entries(s) == s \in Seq({s[k] : k \in DOMAIN s})

\* A sequence is the function of its indices.
LEMMA EntriesFacts ==
    ASSUME NEW s, Entries(s)
    PROVE  Len(s) \in Nat /\ DOMAIN s = 1 .. Len(s) /\ s = [k \in 1 .. Len(s) |-> s[k]]
BY DEF Entries

\* A function on 1 .. m is a sequence of length m.
LEMMA ListedEntries ==
    ASSUME NEW m \in Nat, NEW s, s = [k \in 1 .. m |-> s[k]]
    PROVE  Entries(s) /\ Len(s) = m
<1>1. DOMAIN s = 1 .. m
  OBVIOUS
<1>2. s \in [1 .. m -> {s[k] : k \in DOMAIN s}]
  BY <1>1
<1> QED BY <1>1, <1>2 DEF Entries

\* Two sequences, one after the other.
LEMMA JoinedEntries ==
    ASSUME NEW s, Entries(s), NEW t, Entries(t)
    PROVE  /\ Entries(s \o t) /\ Len(s \o t) = Len(s) + Len(t)
           /\ \A k \in 1 .. Len(s) : (s \o t)[k] = s[k]
           /\ \A k \in 1 .. Len(t) : (s \o t)[Len(s) + k] = t[k]
           /\ \A k \in Len(s) + 1 .. Len(s) + Len(t) : (s \o t)[k] = t[k - Len(s)]
<1> DEFINE S == {s[k] : k \in DOMAIN s} \cup {t[k] : k \in DOMAIN t}
           u == s \o t
<1>1. s \in Seq(S) /\ t \in Seq(S)
  <2>1. s = [k \in 1 .. Len(s) |-> s[k]] /\ t = [k \in 1 .. Len(t) |-> t[k]]
        /\ Len(s) \in Nat /\ Len(t) \in Nat
    BY EntriesFacts
  <2> QED BY <2>1
<1> HIDE DEF S
<1>2. /\ u \in Seq(S) /\ Len(u) = Len(s) + Len(t) /\ Len(s) \in Nat /\ Len(t) \in Nat
      /\ \A k \in 1 .. Len(s) : u[k] = s[k]
      /\ \A k \in Len(s) + 1 .. Len(s) + Len(t) : u[k] = t[k - Len(s)]
  BY <1>1
<1> HIDE DEF u
<1>3. u = [k \in 1 .. Len(u) |-> u[k]] /\ Len(u) \in Nat
  BY <1>2
<1>4. Entries(u)
  BY <1>3, ListedEntries
<1>5. \A k \in 1 .. Len(t) : u[Len(s) + k] = t[k]
  <2> SUFFICES ASSUME NEW k \in 1 .. Len(t) PROVE u[Len(s) + k] = t[k]
    OBVIOUS
  <2>1. Len(s) + k \in Len(s) + 1 .. Len(s) + Len(t) /\ (Len(s) + k) - Len(s) = k
    BY <1>2
  <2> QED BY <1>2, <2>1
<1> QED BY <1>2, <1>4, <1>5 DEF u

\* u is s followed by t.
Joins(u, s, t) ==
    /\ Entries(u) /\ Len(u) = Len(s) + Len(t)
    /\ \A k \in 1 .. Len(s) : u[k] = s[k]
    /\ \A k \in 1 .. Len(t) : u[Len(s) + k] = t[k]
    /\ \A k \in Len(s) + 1 .. Len(s) + Len(t) : u[k] = t[k - Len(s)]

\* Joins says what a concatenation is, element by element.
LEMMA JoinIs ==
    ASSUME NEW s, Entries(s), NEW t, Entries(t)
    PROVE  Joins(s \o t, s, t)
<1>1. /\ Entries(s \o t) /\ Len(s \o t) = Len(s) + Len(t)
      /\ \A k \in 1 .. Len(s) : (s \o t)[k] = s[k]
      /\ \A k \in 1 .. Len(t) : (s \o t)[Len(s) + k] = t[k]
      /\ \A k \in Len(s) + 1 .. Len(s) + Len(t) : (s \o t)[k] = t[k - Len(s)]
  BY JoinedEntries, Zenon
<1> QED BY <1>1, Zenon DEF Joins

\* The tuples of events that a step writes.
LEMMA TuplesAreEntries ==
    /\ \A a : Entries(<<a>>) /\ Len(<<a>>) = 1 /\ <<a>>[1] = a
    /\ \A a, b : Entries(<<a, b>>) /\ Len(<<a, b>>) = 2
    /\ \A a, b, c, d : Entries(<<a, b, c, d>>) /\ Len(<<a, b, c, d>>) = 4
    /\ \A a, b, c, d, e : Entries(<<a, b, c, d, e>>) /\ Len(<<a, b, c, d, e>>) = 5
    /\ Entries(<<>>) /\ Len(<<>>) = 0
BY DEF Entries

-----------------------------------------------------------------------------
(* The replay of a journal. *)
\* Nothing was refused and the ledger has not failed.
Goes(r) == r.ok /\ Good(r.ledger)

\* The next event, unless the replay has stopped; full is the whole journal.
Onward(r, e, full) == IF Goes(r) THEN ReplayStep(r, e, full) ELSE r

\* f[k] is the replay after the first k events.
Replays(f, full, n) ==
    f = [k \in 1 .. n |-> IF k = 1 THEN Fresh(full) ELSE Onward(f[k - 1], full[k], full)]

\* The passes of the loop of replay_events are a function of the index.
LEMMA ReplaysExist ==
    ASSUME NEW full, NEW n \in Nat
    PROVE  \E f : Replays(f, full, n)
<1> DEFINE P == {k \in Nat : \E f : Replays(f, full, k)}
<1>1. 0 \in P
  <2> DEFINE f == [j \in 1 .. 0 |-> 0]
  <2>1. f = [j \in 1 .. 0 |-> IF j = 1 THEN Fresh(full) ELSE Onward(f[j - 1], full[j], full)]
    OBVIOUS
  <2> HIDE DEF f
  <2> QED BY <2>1 DEF Replays
<1>2. \A j \in 0 .. n - 1 : j \in P => j + 1 \in P
  <2> SUFFICES ASSUME NEW m \in 0 .. n - 1, m \in P PROVE m + 1 \in P
    OBVIOUS
  <2>1. PICK g : Replays(g, full, m)
    OBVIOUS
  <2>2. m \in Nat
    OBVIOUS
  <2> DEFINE k == m + 1
             f == [j \in 1 .. k |->
                     IF j = k THEN IF j = 1 THEN Fresh(full) ELSE Onward(g[m], full[k], full) ELSE g[j]]
  <2>3. \A j \in 1 .. m : g[j] = IF j = 1 THEN Fresh(full) ELSE Onward(g[j - 1], full[j], full)
    BY <2>1, Zenon DEF Replays
  <2>4. \A j \in 1 .. k : f[j] = IF j = 1 THEN Fresh(full) ELSE Onward(f[j - 1], full[j], full)
    <3> SUFFICES ASSUME NEW j \in 1 .. k
                 PROVE  f[j] = IF j = 1 THEN Fresh(full) ELSE Onward(f[j - 1], full[j], full)
      OBVIOUS
    <3>1. CASE j = k
      <4>1. f[j] = (IF j = 1 THEN Fresh(full) ELSE Onward(g[m], full[j], full))
            /\ (j # 1 => f[j - 1] = g[m])
        BY <2>2, <3>1
      <4> HIDE DEF f
      <4> QED BY <4>1
    <3>2. CASE j # k
      <4>1. j \in 1 .. m /\ f[j] = g[j]
        BY <2>2, <3>2
      <4>2. j # 1 => f[j - 1] = g[j - 1]
        BY <2>2, <4>1
      <4> HIDE DEF f
      <4> QED BY <2>3, <4>1, <4>2
    <3> QED BY <3>1, <3>2
  <2>5. DOMAIN f = 1 .. k /\ f = [j \in DOMAIN f |-> f[j]]
    OBVIOUS
  <2> HIDE DEF f
  <2>6. Replays(f, full, k)
    BY <2>4, <2>5 DEF Replays
  <2> QED BY <2>2, <2>6
<1> HIDE DEF P
<1>3. n \in P
  BY <1>1, <1>2, NumberByNumber
<1> QED BY <1>3 DEF P

\* Rebuilt starts afresh and goes on with every event.
LEMMA RebuiltFacts ==
    ASSUME NEW full, Len(full) \in Nat
    PROVE  /\ Len(full) >= 1 => Rebuilt(full)[1] = Fresh(full)
           /\ \A k \in 2 .. Len(full) :
                Rebuilt(full)[k] = Onward(Rebuilt(full)[k - 1], full[k], full)
<1> DEFINE f == CHOOSE f : Replays(f, full, Len(full))
<1>1. Replays(f, full, Len(full))
  BY ReplaysExist
<1>2. Rebuilt(full) = f
  BY DEF Rebuilt, Replays, Onward, Goes
<1> HIDE DEF f
<1>3. \A k \in 1 .. Len(full) :
          f[k] = IF k = 1 THEN Fresh(full) ELSE Onward(f[k - 1], full[k], full)
  BY <1>1, Zenon DEF Replays
<1> QED BY <1>2, <1>3

-----------------------------------------------------------------------------
(* A run and the replay of its journal. *)
\* The journal is in the order of time, and its closes and snapshots are of earlier days.
Chronicle ==
    /\ Entries(journal) /\ Len(journal) >= 1
    /\ \A k \in 1 .. Len(journal) : journal[k].at \in Int
    /\ \A k \in 2 .. Len(journal) : journal[k - 1].at <= journal[k].at
    /\ \A k \in 1 .. Len(journal) :
          journal[k].kind \in {"closed", "snapshotted"} => journal[k].at < Close(day)

\* full is a journal that goes on from the first events j with closes at time t or later.
Continues(full, j, t) ==
    /\ Entries(full) /\ Len(j) <= Len(full)
    /\ \A k \in 1 .. Len(j) : full[k] = j[k]
    /\ \A k \in Len(j) + 1 .. Len(full) : full[k].kind = "closed" => full[k].at \in Int /\ full[k].at >= t

\* f follows the events from the n-th on.
Replaying(f, n, events, full) ==
    \A k \in 1 .. Len(events) : f[n + k] = Onward(f[n + k - 1], events[k], full)

\* What a replay keeps.
ReplayFields ==
    {"ledger", "intents", "outcome", "orders", "fills", "actions", "aged", "tally", "ok"}

\* r has these fields and no other.
Shape(r) == r = [k \in ReplayFields |-> r[k]]

\* The replay has the ledger, the reserved orders, the fills and the tally of the run, knows its
\* intents and the verdicts on them, and no order is between its fill and the update.
Follows(r) ==
    /\ Shape(r) /\ r.ok = TRUE
    /\ r.ledger = ledger /\ r.tally = tally /\ r.actions = ledger.applied
    /\ DOMAIN r.orders = DOMAIN book
    /\ \A o \in DOMAIN book :
          r.orders[o] = [remaining |-> book[o].remaining, status |-> book[o].status]
    /\ r.fills \subseteq DOMAIN book
    /\ DOMAIN book \subseteq DOMAIN r.outcome
    /\ DOMAIN r.outcome \subseteq r.intents
    /\ \A a \in intents : a.id \in r.intents /\ a.id \notin DOMAIN r.outcome
    /\ \A o \in r.intents : o[1] \in Int /\ (o[1] < day \/ (o[1] = day /\ phase # "decide"))
    /\ \A t \in r.aged : t \in Int /\ t < Close(day)

\* However the journal goes on, the replay of what is written so far follows the run, or has stopped
\* after a close that marked nothing while something was held.
Followed ==
    \A full : Continues(full, journal, Close(day)) =>
        IF SilentClose THEN ~Goes(Rebuilt(full)[Len(journal)])
        ELSE Follows(Rebuilt(full)[Len(journal)])

\* A replay that follows the run still follows it after these events.
FollowsOn(events) ==
    \A f, n, full :
        n \in Nat /\ Follows(f[n]) /\ Replaying(f, n, events, full)
            => Follows(f[n + Len(events)])'

\* What was refused stays refused.
LEMMA RefusedStays ==
    ASSUME NEW f, NEW n \in Nat, NEW events, Entries(events), NEW full,
           Replaying(f, n, events, full), ~Goes(f[n])
    PROVE  f[n + Len(events)] = f[n]
<1> DEFINE m == Len(events)
           P == {k \in 0 .. m : f[n + k] = f[n]}
<1>1. m \in Nat
  BY EntriesFacts
<1> HIDE DEF m
<1>2. 0 \in P
  BY <1>1
<1>3. \A j \in 0 .. m - 1 : j \in P => j + 1 \in P
  <2> SUFFICES ASSUME NEW j \in 0 .. m - 1, f[n + j] = f[n] PROVE f[n + (j + 1)] = f[n]
    BY <1>1
  <2>1. j + 1 \in 1 .. m /\ n + (j + 1) - 1 = n + j
    BY <1>1
  <2>2. f[n + (j + 1)] = Onward(f[n + (j + 1) - 1], events[j + 1], full)
    BY <2>1 DEF Replaying, m
  <2>3. f[n + (j + 1)] = Onward(f[n], events[j + 1], full)
    BY <2>1, <2>2
  <2> QED BY <2>3 DEF Onward
<1> HIDE DEF P
<1>4. m \in P
  BY <1>1, <1>2, <1>3, NumberByNumber
<1> QED BY <1>4 DEF P, m

\* What continues a longer journal continues the shorter one.
LEMMA ContinuesShorter ==
    ASSUME NEW j, Entries(j), Len(j) >= 1, NEW events, Entries(events), NEW t \in Int, NEW u \in Int, t <= u,
           \A k \in 1 .. Len(events) : events[k].kind = "closed" => events[k].at \in Int /\ events[k].at >= t,
           NEW full, Continues(full, j \o events, u)
    PROVE  /\ Continues(full, j, t)
           /\ Replaying(Rebuilt(full), Len(j), events, full)
<1> DEFINE n == Len(j)
           m == Len(events)
           i == j \o events
<1>1. /\ n \in Nat /\ m \in Nat /\ n >= 1 /\ Len(i) = n + m /\ Entries(full) /\ Len(full) \in Nat
      /\ \A k \in 1 .. n : i[k] = j[k]
      /\ \A k \in 1 .. m : i[n + k] = events[k]
      /\ \A k \in n + 1 .. n + m : i[k] = events[k - n]
  <2>1. Entries(full)
    BY DEF Continues
  <2>2. n \in Nat /\ m \in Nat /\ Len(full) \in Nat
    BY <2>1, EntriesFacts
  <2> QED BY <2>1, <2>2, JoinedEntries
<1>2. /\ Len(i) <= Len(full) /\ \A k \in 1 .. Len(i) : full[k] = i[k]
      /\ \A k \in Len(i) + 1 .. Len(full) : full[k].kind = "closed" => full[k].at \in Int /\ full[k].at >= u
  BY DEF Continues
<1> HIDE DEF i, n, m
<1>3. \A k \in n + 1 .. Len(full) : full[k].kind = "closed" => full[k].at \in Int /\ full[k].at >= t
  <2> SUFFICES ASSUME NEW k \in n + 1 .. Len(full), full[k].kind = "closed"
               PROVE  full[k].at \in Int /\ full[k].at >= t
    OBVIOUS
  <2>1. CASE k <= n + m
    <3>1. k \in n + 1 .. n + m /\ k \in 1 .. Len(i) /\ k - n \in 1 .. m
      BY <1>1, <2>1
    <3>2. full[k] = events[k - n]
      BY <1>1, <1>2, <3>1
    <3> QED BY <3>1, <3>2 DEF m
  <2>2. CASE k > n + m
    <3>1. k \in Len(i) + 1 .. Len(full) /\ k \in 1 .. Len(full)
      BY <1>1, <2>2
    <3>2. full[k].at >= u /\ full[k].at \in Int
      BY <1>2, <3>1
    <3> QED BY <3>2
  <2> QED BY <1>1, <2>1, <2>2
<1>4. n <= Len(full) /\ \A k \in 1 .. n : full[k] = j[k]
  BY <1>1, <1>2
<1>5. \A k \in 1 .. m : Rebuilt(full)[n + k] = Onward(Rebuilt(full)[n + k - 1], events[k], full)
  <2> SUFFICES ASSUME NEW k \in 1 .. m
               PROVE  Rebuilt(full)[n + k] = Onward(Rebuilt(full)[n + k - 1], events[k], full)
    OBVIOUS
  <2>1. n + k \in 2 .. Len(full) /\ n + k \in 1 .. Len(i)
    BY <1>1, <1>2
  <2>2. full[n + k] = events[k]
    BY <1>1, <1>2, <2>1
  <2> QED BY <1>1, <2>1, <2>2, RebuiltFacts
<1> QED BY <1>1, <1>3, <1>4, <1>5 DEF Continues, Replaying, n, m

-----------------------------------------------------------------------------
(* Events of one time that follow the journal. *)
\* Events of one time, not before the last one, keep the journal in the order of time.
LEMMA ChronicleGrows ==
    ASSUME Chronicle, day \in Nat, day' \in Nat, day <= day', NEW at \in Int,
           NEW events, Entries(events), journal' = journal \o events,
           \A k \in 1 .. Len(events) :
              /\ events[k].at = at
              /\ events[k].kind \in {"closed", "snapshotted"} => at < Close(day'),
           Len(events) = 0 \/ LastEventAt <= at
    PROVE  /\ Chronicle'
           /\ Len(events) = 0 => LastEventAt' = LastEventAt
           /\ Len(events) # 0 => LastEventAt' = at
<1> DEFINE n == Len(journal)
           m == Len(events)
           i == journal'
<1>1. /\ n \in Nat /\ m \in Nat /\ n >= 1 /\ Entries(i) /\ Len(i) = n + m
      /\ \A k \in 1 .. n : i[k] = journal[k]
      /\ \A k \in n + 1 .. n + m : i[k] = events[k - n]
  BY EntriesFacts, JoinedEntries DEF Chronicle
<1>2. /\ \A k \in 1 .. n : journal[k].at \in Int
      /\ \A k \in 2 .. n : journal[k - 1].at <= journal[k].at
      /\ \A k \in 1 .. n : journal[k].kind \in {"closed", "snapshotted"} => journal[k].at < Close(day)
      /\ LastEventAt = journal[n].at /\ LastEventAt' = i[Len(i)].at
  BY DEF Chronicle, LastEventAt
<1>3. Close(day) \in Int /\ Close(day') \in Int /\ Close(day) <= Close(day')
  <2>1. \A d, e \in Nat : d <= e => Close(d) \in Int /\ Close(d) <= Close(e)
    BY DEF Close, At
  <2> QED BY <2>1
<1>4. /\ \A k \in 1 .. m : events[k].at = at
      /\ \A k \in 1 .. m : events[k].kind \in {"closed", "snapshotted"} => at < Close(day')
      /\ m = 0 \/ LastEventAt <= at
  OBVIOUS
<1> HIDE DEF n, m, i
<1>5. \A k \in n + 1 .. n + m : i[k].at = at /\ (i[k].kind \in {"closed", "snapshotted"} => at < Close(day'))
  <2> SUFFICES ASSUME NEW k \in n + 1 .. n + m
               PROVE  i[k].at = at /\ (i[k].kind \in {"closed", "snapshotted"} => at < Close(day'))
    OBVIOUS
  <2>1. k - n \in 1 .. m /\ i[k] = events[k - n]
    BY <1>1
  <2> QED BY <1>4, <2>1
<1>6. \A k \in 1 .. n + m : k \in 1 .. n \/ k \in n + 1 .. n + m
  BY <1>1
<1>7. \A k \in 1 .. n + m : i[k].at \in Int
  BY <1>1, <1>2, <1>5, <1>6
<1>8. \A k \in 2 .. n + m : i[k - 1].at <= i[k].at
  <2> SUFFICES ASSUME NEW k \in 2 .. n + m PROVE i[k - 1].at <= i[k].at
    OBVIOUS
  <2>1. CASE k <= n
    <3>1. k \in 2 .. n /\ k \in 1 .. n /\ k - 1 \in 1 .. n
      BY <1>1, <2>1
    <3> QED BY <1>1, <1>2, <3>1
  <2>2. CASE k = n + 1
    <3>1. k - 1 = n /\ n \in 1 .. n /\ k \in n + 1 .. n + m /\ m # 0
      BY <1>1, <2>2
    <3>2. i[k].at = at /\ i[k - 1].at = LastEventAt
      BY <1>1, <1>2, <1>5, <3>1
    <3> QED BY <1>4, <3>1, <3>2
  <2>3. CASE k > n + 1
    <3>1. k \in n + 1 .. n + m /\ k - 1 \in n + 1 .. n + m
      BY <1>1, <2>3
    <3>2. i[k].at = at /\ i[k - 1].at = at
      BY <1>5, <3>1
    <3> QED BY <3>2
  <2> QED BY <1>1, <2>1, <2>2, <2>3
<1>9. \A k \in 1 .. n + m :
          i[k].kind \in {"closed", "snapshotted"} => i[k].at < Close(day')
  <2> SUFFICES ASSUME NEW k \in 1 .. n + m, i[k].kind \in {"closed", "snapshotted"}
               PROVE  i[k].at < Close(day')
    OBVIOUS
  <2>1. CASE k \in 1 .. n
    <3>1. i[k].at \in Int /\ i[k].at < Close(day)
      BY <1>1, <1>2, <2>1
    <3> QED BY <1>3, <3>1
  <2>2. CASE k \in n + 1 .. n + m
    BY <1>5, <2>2
  <2> QED BY <1>6, <2>1, <2>2
<1>10. Chronicle'
  BY <1>1, <1>7, <1>8, <1>9 DEF Chronicle, i
<1>11. /\ m = 0 => LastEventAt' = LastEventAt
       /\ m # 0 => LastEventAt' = at
  <2>1. m = 0 => Len(i) = n /\ n \in 1 .. n
    BY <1>1
  <2>2. m # 0 => Len(i) \in n + 1 .. n + m
    BY <1>1
  <2> QED BY <1>1, <1>2, <1>5, <2>1, <2>2
<1> QED BY <1>10, <1>11 DEF m

(* Only a snapshot can show that a close was silent. *)
\* Without closes and snapshots the journal has no further silent close.
LEMMA SilentStays ==
    ASSUME Chronicle, NEW events, Entries(events), journal' = journal \o events,
           \A k \in 1 .. Len(events) :
              /\ events[k].kind # "snapshotted"
              /\ events[k].kind = "closed" => events[k].at = Close(day)
    PROVE  SilentClose' <=> SilentClose
<1> DEFINE n == Len(journal)
           m == Len(events)
           i == journal'
<1>1. /\ n \in Nat /\ m \in Nat /\ Entries(i) /\ Len(i) = n + m
      /\ DOMAIN journal = 1 .. n /\ DOMAIN i = 1 .. n + m
      /\ \A k \in 1 .. n : i[k] = journal[k]
      /\ \A k \in n + 1 .. n + m : i[k] = events[k - n]
  BY EntriesFacts, JoinedEntries DEF Chronicle
<1>2. \A k \in 1 .. n : journal[k].kind \in {"closed", "snapshotted"} =>
                          journal[k].at \in Int /\ journal[k].at < Close(day)
  BY DEF Chronicle
<1>3. /\ \A k \in 1 .. m : events[k].kind # "snapshotted"
      /\ \A k \in 1 .. m : events[k].kind = "closed" => events[k].at = Close(day)
  OBVIOUS
<1> HIDE DEF n, m, i
<1>4. \A k \in n + 1 .. n + m : i[k].kind # "snapshotted" /\ (i[k].kind = "closed" => i[k].at = Close(day))
  <2> SUFFICES ASSUME NEW k \in n + 1 .. n + m
               PROVE  i[k].kind # "snapshotted" /\ (i[k].kind = "closed" => i[k].at = Close(day))
    OBVIOUS
  <2>1. k - n \in 1 .. m /\ i[k] = events[k - n]
    BY <1>1
  <2> QED BY <1>3, <2>1
<1>5. \A k \in 1 .. n + m : k \in 1 .. n \/ k \in n + 1 .. n + m
  BY <1>1
<1>6. 1 .. n \subseteq 1 .. n + m
  BY <1>1
<1> DEFINE Quiet(s, d, k) ==
             /\ s[k].kind = "snapshotted" /\ DOMAIN s[k].snapshot.marks # {}
             /\ ~\E j \in d : s[j].kind = "closed" /\ s[j].at = s[k].at
<1>7. \A k \in 1 .. n : Quiet(journal, 1 .. n, k) <=> Quiet(i, 1 .. n + m, k)
  <2> SUFFICES ASSUME NEW k \in 1 .. n, journal[k].kind = "snapshotted"
               PROVE  (\E j \in 1 .. n : journal[j].kind = "closed" /\ journal[j].at = journal[k].at)
                        <=> (\E j \in 1 .. n + m : i[j].kind = "closed" /\ i[j].at = i[k].at)
    BY <1>1
  <2>1. i[k] = journal[k] /\ journal[k].at \in Int /\ journal[k].at < Close(day)
    BY <1>1, <1>2
  <2>2. \A j \in n + 1 .. n + m : ~(i[j].kind = "closed" /\ i[j].at = i[k].at)
    BY <1>4, <2>1
  <2> QED BY <1>1, <1>5, <1>6, <2>1, <2>2
<1>8. \A k \in n + 1 .. n + m : ~Quiet(i, 1 .. n + m, k)
  BY <1>4
<1>9. SilentClose <=> \E k \in 1 .. n : Quiet(journal, 1 .. n, k)
  BY <1>1 DEF SilentClose
<1>10. SilentClose' <=> \E k \in 1 .. n + m : Quiet(i, 1 .. n + m, k)
  BY <1>1 DEF SilentClose, i
<1> HIDE DEF Quiet
<1> QED BY <1>5, <1>6, <1>7, <1>8, <1>9, <1>10

\* Events other than closes and snapshots, when the replay follows them.
LEMMA JournalGoesOn ==
    ASSUME Chronicle, Followed, day \in Nat, day' \in Nat, day <= day', NEW at \in Int,
           NEW events, Entries(events), journal' = journal \o events,
           \A k \in 1 .. Len(events) :
              events[k].at = at /\ events[k].kind \notin {"closed", "snapshotted"},
           Len(events) = 0 \/ LastEventAt <= at,
           FollowsOn(events)
    PROVE  /\ Chronicle' /\ Followed'
           /\ Len(events) = 0 => LastEventAt' = LastEventAt
           /\ Len(events) # 0 => LastEventAt' = at
<1>1. /\ Chronicle'
      /\ Len(events) = 0 => LastEventAt' = LastEventAt
      /\ Len(events) # 0 => LastEventAt' = at
  BY ChronicleGrows
<1>2. SilentClose' <=> SilentClose
  BY SilentStays
<1>3. /\ Entries(journal) /\ Len(journal) >= 1 /\ Len(journal) \in Nat
      /\ Len(journal') = Len(journal) + Len(events)
  BY EntriesFacts, JoinedEntries DEF Chronicle
<1>4. Close(day) \in Int /\ Close(day') \in Int /\ Close(day) <= Close(day')
  <2>1. \A d, e \in Nat : d <= e => Close(d) \in Int /\ Close(d) <= Close(e)
    BY DEF Close, At
  <2> QED BY <2>1
<1>5. ASSUME NEW full, Continues(full, journal', Close(day')),
             NEW r, r = Rebuilt(full)[Len(journal')]
      PROVE  IF SilentClose' THEN ~Goes(r) ELSE Follows(r)'
  <2>1. PICK j, t, u, n, f : j = journal /\ t = Close(day) /\ u = Close(day') /\ n = Len(journal)
                             /\ f = Rebuilt(full)
    OBVIOUS
  <2>2. Continues(full, j, t) /\ Replaying(Rebuilt(full), Len(j), events, full)
    BY <1>3, <1>4, <1>5, <2>1, ContinuesShorter
  <2>3. Continues(full, journal, Close(day)) /\ Replaying(f, n, events, full)
    BY <2>1, <2>2
  <2>4. IF SilentClose THEN ~Goes(f[n]) ELSE Follows(f[n])
    BY <2>1, <2>3 DEF Followed
  <2>5. n \in Nat /\ r = f[n + Len(events)]
    BY <1>3, <1>5, <2>1
  <2>6. CASE SilentClose
    <3>1. f[n + Len(events)] = f[n]
      BY <2>3, <2>4, <2>5, <2>6, RefusedStays
    <3> QED BY <1>2, <2>4, <2>5, <2>6, <3>1
  <2>7. CASE ~SilentClose
    <3>1. Follows(f[n + Len(events)])'
      BY <2>3, <2>4, <2>5, <2>7 DEF FollowsOn
    <3> QED BY <1>2, <2>5, <2>7, <3>1
  <2> QED BY <2>6, <2>7
<1>6. Followed'
  BY <1>5 DEF Followed
<1> QED BY <1>1, <1>6

-----------------------------------------------------------------------------
(* The order of the keys. *)
\* Every instrument has a place in the order.
LEMMA KeyFacts ==
    ASSUME NEW i \in Instruments
    PROVE  Key(i) \in Nat /\ InstrumentOrder[Key(i)] = i
<1>1. DOMAIN InstrumentOrder \subseteq Nat
  BY OrderAssumption
<1>2. \E k \in DOMAIN InstrumentOrder : InstrumentOrder[k] = i
  BY OrderAssumption DEF Range
<1> QED BY <1>1, <1>2 DEF Key

\* InKeyOrder lists the members of a set, each once.
LEMMA KeyOrderFacts ==
    ASSUME NEW S, S \subseteq Instruments
    PROVE  LET s == InKeyOrder(S)
           IN /\ Entries(s)
              /\ \A k \in 1 .. Len(s) : s[k] \in S
              /\ \A k, j \in 1 .. Len(s) : s[k] = s[j] => k = j
              /\ \A i \in S : \E k \in 1 .. Len(s) : s[k] = i
<1> DEFINE s == InKeyOrder(S)
           c == Cardinality(S)
           Upto(i) == {j \in S : Key(j) <= Key(i)}
           f == [i \in S |-> Place(S, i)]
<1>1. IsFiniteSet(S) /\ c \in Nat
  BY LedgerAssumption, FS_Subset, FS_CardinalityType
<1>2. \A i \in S : Key(i) \in Nat
  BY KeyFacts
<1>3. \A i, j \in S : Key(i) = Key(j) => i = j
  BY KeyFacts
<1>4. \A i \in S : Place(S, i) \in 1 .. c
  <2> SUFFICES ASSUME NEW i \in S PROVE Cardinality(Upto(i)) \in 1 .. c
    BY DEF Place
  <2>1. i \in Upto(i) /\ Upto(i) \subseteq S
    BY <1>2
  <2> HIDE DEF Upto
  <2>2. IsFiniteSet(Upto(i)) /\ Cardinality(Upto(i)) \in Nat /\ Cardinality(Upto(i)) <= c
    BY <1>1, <2>1, FS_Subset, FS_CardinalityType
  <2>3. Cardinality(Upto(i)) # 0
    BY <2>1, <2>2, FS_EmptySet
  <2> QED BY <1>1, <2>2, <2>3
<1>5. \A i, j \in S : Key(i) < Key(j) => Place(S, i) < Place(S, j)
  <2> SUFFICES ASSUME NEW i \in S, NEW j \in S, Key(i) < Key(j)
               PROVE  Cardinality(Upto(i)) < Cardinality(Upto(j))
    BY DEF Place
  <2>1. Upto(i) \subseteq Upto(j) /\ j \in Upto(j) /\ j \notin Upto(i) /\ Upto(j) \subseteq S
    BY <1>2
  <2> HIDE DEF Upto
  <2>2. IsFiniteSet(Upto(j))
    BY <1>1, <2>1, FS_Subset
  <2> QED BY <2>1, <2>2, FS_Subset, FS_CardinalityType
<1>6. \A i, j \in S : Place(S, i) = Place(S, j) => i = j
  <2> SUFFICES ASSUME NEW i \in S, NEW j \in S, Place(S, i) = Place(S, j) PROVE i = j
    OBVIOUS
  <2>1. ~(Key(i) < Key(j)) /\ ~(Key(j) < Key(i))
    BY <1>4, <1>5
  <2> QED BY <1>2, <1>3, <2>1
<1>7. \A k \in 1 .. c : \E i \in S : Place(S, i) = k
  <2>1. f \in Injection(S, 1 .. c)
    <3>1. f \in [S -> 1 .. c] /\ \A i, j \in S : f[i] = f[j] => i = j
      BY <1>4, <1>6
    <3> HIDE DEF f
    <3> QED BY <3>1 DEF Injection, IsInjective
  <2>2. IsFiniteSet(1 .. c) /\ Cardinality(1 .. c) = c
    BY <1>1, FS_Interval
  <2>3. f \in Surjection(S, 1 .. c)
    BY <2>1, <2>2, FS_Injection
  <2>4. \A k \in 1 .. c : \E i \in S : f[i] = k
    BY <2>3 DEF Surjection
  <2> QED BY <2>4
<1>8. \A k \in 1 .. c : s[k] \in S /\ Place(S, s[k]) = k
  <2> SUFFICES ASSUME NEW k \in 1 .. c PROVE s[k] \in S /\ Place(S, s[k]) = k
    OBVIOUS
  <2>1. s[k] = CHOOSE i \in S : Place(S, i) = k
    BY DEF InKeyOrder
  <2> HIDE DEF s
  <2> QED BY <1>7, <2>1
<1>9. s = [k \in 1 .. c |-> s[k]]
  BY DEF InKeyOrder
<1> HIDE DEF s, c
<1>10. Entries(s) /\ Len(s) = c
  BY <1>1, <1>9, ListedEntries
<1>11. \A i \in S : \E k \in 1 .. c : s[k] = i
  <2> SUFFICES ASSUME NEW i \in S PROVE \E k \in 1 .. c : s[k] = i
    OBVIOUS
  <2>1. Place(S, i) \in 1 .. c
    BY <1>4
  <2>2. s[Place(S, i)] = i
    BY <1>6, <1>8, <2>1
  <2> QED BY <2>1, <2>2
<1>12. \A k, j \in 1 .. c : s[k] = s[j] => k = j
  <2> SUFFICES ASSUME NEW k \in 1 .. c, NEW j \in 1 .. c, s[k] = s[j] PROVE k = j
    OBVIOUS
  <2>1. Place(S, s[k]) = k /\ Place(S, s[j]) = j
    BY <1>8
  <2> QED BY <2>1
<1> QED BY <1>8, <1>10, <1>11, <1>12 DEF s

-----------------------------------------------------------------------------
(* What the replay makes of each kind of event. *)
\* r is a replay with this ledger, intents, verdicts, orders, fills, actions, aged days and tally.
Stands(r, l, a, c, b, f, x, g, t) ==
    /\ Shape(r) /\ r.ok = TRUE
    /\ r.ledger = l /\ r.intents = a /\ r.outcome = c /\ r.orders = b /\ r.fills = f
    /\ r.actions = x /\ r.aged = g /\ r.tally = t

\* A replay goes on when its ledger is good.
LEMMA StandsFacts ==
    ASSUME NEW r, NEW l, NEW a, NEW c, NEW b, NEW f, NEW x, NEW g, NEW t,
           Stands(r, l, a, c, b, f, x, g, t)
    PROVE  (Goes(r) <=> Good(l)) /\ DOMAIN r = ReplayFields
BY DEF Stands, Shape, Goes

\* Without a mismatch nothing is refused.
LEMMA UnlessFacts ==
    ASSUME NEW r, NEW l, NEW a, NEW c, NEW b, NEW f, NEW x, NEW g, NEW t, NEW mismatch, ~mismatch,
           Stands(r, l, a, c, b, f, x, g, t)
    PROVE  Stands(Unless(r, mismatch), l, a, c, b, f, x, g, t)
<1> DEFINE q == [r EXCEPT !.ok = r.ok /\ ~mismatch]
<1>1. DOMAIN r = ReplayFields /\ r.ok = TRUE
  BY StandsFacts DEF Stands
<1>2. q = [r EXCEPT !.ok = TRUE]
  BY <1>1
<1>3. Shape(q) /\ q.ok = TRUE
  BY <1>1, <1>2 DEF Shape, ReplayFields
<1>4. /\ q.ledger = r.ledger /\ q.intents = r.intents /\ q.outcome = r.outcome /\ q.orders = r.orders
      /\ q.fills = r.fills /\ q.actions = r.actions /\ q.aged = r.aged /\ q.tally = r.tally
  BY <1>1, <1>2
<1>5. Unless(r, mismatch) = q
  BY DEF Unless
<1> HIDE DEF q
<1> QED BY <1>3, <1>4, <1>5 DEF Stands

\* Targets and the start tell the replay nothing.
LEMMA TargetReplayed ==
    ASSUME NEW r, NEW e, e.kind \in {"target", "started"}, NEW full
    PROVE  Onward(r, e, full) = r
BY DEF Onward, ReplayStep

\* A new intent is noted.
LEMMA IntentReplayed ==
    ASSUME NEW r, NEW l, NEW a, NEW c, NEW b, NEW f, NEW x, NEW g, NEW t,
           Stands(r, l, a, c, b, f, x, g, t), Good(l), NEW full,
           NEW e, e.kind = "intent", e.order \notin a
    PROVE  Stands(Onward(r, e, full), l, a \cup {e.order}, c, b, f, x, g, t)
<1> DEFINE q == [r EXCEPT !.intents = @ \cup {e.order}]
           mismatch == e.order \in r.intents
<1>1. Goes(r) /\ DOMAIN r = ReplayFields /\ r.intents = a
  BY StandsFacts DEF Stands
<1>2. Onward(r, e, full) = Unless(q, mismatch)
  BY <1>1 DEF Onward, ReplayStep, ReplayIntent
<1>3. Stands(q, l, a \cup {e.order}, c, b, f, x, g, t)
  BY <1>1 DEF Stands, Shape, ReplayFields
<1>4. ~mismatch
  BY <1>1
<1> HIDE DEF q, mismatch
<1> QED BY <1>2, <1>3, <1>4, UnlessFacts

\* The first verdict on an intent is noted and counted.
LEMMA RiskReplayed ==
    ASSUME NEW r, NEW l, NEW a, NEW c, NEW b, NEW f, NEW x, NEW g, NEW t,
           Stands(r, l, a, c, b, f, x, g, t), Good(l), NEW full,
           t = [approved |-> t.approved, rejected |-> t.rejected, fills |-> t.fills],
           NEW e, e.kind = "risk", e.order \in a, e.order \notin DOMAIN c,
           NEW w, w = IF e.outcome = "approve" THEN [t EXCEPT !.approved = @ + 1]
                                               ELSE [t EXCEPT !.rejected = @ + 1]
    PROVE  Stands(Onward(r, e, full), l, a, Noted(c, e.order, e.outcome), b, f, x, g, w)
<1> DEFINE approved == e.outcome = "approve"
           u == IF approved THEN [t EXCEPT !.approved = @ + 1] ELSE [t EXCEPT !.rejected = @ + 1]
           q == [r EXCEPT !.outcome = Noted(@, e.order, e.outcome),
                          !.tally.approved = IF approved THEN @ + 1 ELSE @,
                          !.tally.rejected = IF approved THEN @ ELSE @ + 1]
           mismatch == e.order \notin r.intents \/ e.order \in DOMAIN r.outcome
<1>1. Goes(r) /\ DOMAIN r = ReplayFields /\ r.intents = a /\ r.outcome = c /\ r.tally = t
  BY StandsFacts DEF Stands
<1>2. Onward(r, e, full) = Unless(q, mismatch)
  BY <1>1 DEF Onward, ReplayStep, ReplayRisk
<1>3. q.tally = u
  <2>1. q.tally = [[t EXCEPT !.approved = IF approved THEN @ + 1 ELSE @]
                      EXCEPT !.rejected = IF approved THEN @ ELSE @ + 1]
    BY <1>1 DEF ReplayFields
  <2> HIDE DEF q
  <2>2. u = [[t EXCEPT !.approved = IF approved THEN @ + 1 ELSE @]
                EXCEPT !.rejected = IF approved THEN @ ELSE @ + 1]
    OBVIOUS
  <2> QED BY <2>1, <2>2
<1>4. q.outcome = Noted(c, e.order, e.outcome) /\ Shape(q)
      /\ q.ledger = r.ledger /\ q.intents = r.intents /\ q.orders = r.orders /\ q.fills = r.fills
      /\ q.actions = r.actions /\ q.aged = r.aged /\ q.ok = r.ok
  BY <1>1 DEF Shape, ReplayFields
<1> HIDE DEF q, u
<1>5. Stands(q, l, a, Noted(c, e.order, e.outcome), b, f, x, g, u)
  BY <1>3, <1>4 DEF Stands
<1>6. ~mismatch
  BY <1>1
<1> HIDE DEF mismatch
<1>7. u = w
  BY DEF u
<1> QED BY <1>2, <1>5, <1>6, <1>7, UnlessFacts

\* SetOrder changes the orders and nothing else.
LEMMA OrderSet ==
    ASSUME NEW r, NEW l, NEW a, NEW c, NEW b, NEW f, NEW x, NEW g, NEW t,
           Stands(r, l, a, c, b, f, x, g, t), NEW o, NEW m, NEW s
    PROVE  Stands(SetOrder(r, o, m, s), l, a, c,
                  Noted(b, o, [remaining |-> m, status |-> s]), f, x, g, t)
<1>1. DOMAIN r = ReplayFields
  BY StandsFacts
<1> QED BY <1>1 DEF Stands, Shape, SetOrder, ReplayFields

\* The first reservation of an approved order is noted.
LEMMA ReservedReplayed ==
    ASSUME NEW r, NEW l, NEW a, NEW c, NEW b, NEW f, NEW x, NEW g, NEW t,
           Stands(r, l, a, c, b, f, x, g, t), Good(l), NEW full,
           NEW e, e.kind = "reserved", e.order \in DOMAIN c, c[e.order] = "approve",
           e.order \notin DOMAIN b
    PROVE  Stands(Onward(r, e, full), l, a, c,
                  Noted(b, e.order, [remaining |-> e.remaining, status |-> e.status]), f, x, g, t)
<1> DEFINE q == SetOrder(r, e.order, e.remaining, e.status)
           mismatch == Outcome(r, e.order) # "approve" \/ e.order \in DOMAIN r.orders
<1>1. Goes(r) /\ r.outcome = c /\ r.orders = b
  BY StandsFacts DEF Stands
<1>2. Onward(r, e, full) = Unless(q, mismatch)
  BY <1>1 DEF Onward, ReplayStep, ReplayReserved
<1>3. Stands(q, l, a, c, Noted(b, e.order, [remaining |-> e.remaining, status |-> e.status]), f, x, g, t)
  BY OrderSet
<1>4. ~mismatch
  BY <1>1 DEF Outcome
<1> HIDE DEF q, mismatch
<1> QED BY <1>2, <1>3, <1>4, UnlessFacts

\* An approved order that is not filled changes nothing.
LEMMA UnfilledReplayed ==
    ASSUME NEW r, NEW l, NEW a, NEW c, NEW b, NEW f, NEW x, NEW g, NEW t,
           Stands(r, l, a, c, b, f, x, g, t), Good(l), NEW full,
           NEW e, e.kind = "unfilled", e.order \in DOMAIN c, c[e.order] = "approve"
    PROVE  Stands(Onward(r, e, full), l, a, c, b, f, x, g, t)
<1> DEFINE mismatch == Outcome(r, e.order) # "approve"
<1>1. Goes(r) /\ r.outcome = c
  BY StandsFacts DEF Stands
<1>2. Onward(r, e, full) = Unless(r, mismatch)
  BY <1>1 DEF Onward, ReplayStep
<1>3. ~mismatch
  BY <1>1 DEF Outcome
<1> HIDE DEF mismatch
<1> QED BY <1>2, <1>3, UnlessFacts

\* The first fill of a reserved order is applied to the ledger and counted.
LEMMA FilledReplayed ==
    ASSUME NEW r, NEW l, NEW a, NEW c, NEW b, NEW f, NEW x, NEW g, NEW t,
           Stands(r, l, a, c, b, f, x, g, t), Good(l), NEW full,
           DOMAIN t = {"approved", "rejected", "fills"},
           NEW e, e.kind = "filled", e.order \in DOMAIN c, c[e.order] = "approve",
           e.order \in DOMAIN b, b[e.order].status = "active",
           b[e.order].remaining \in Int, e.fill.quantity \in Int,
           e.fill.quantity <= b[e.order].remaining, e.fill.id \notin f,
           e.fill.at \div 10 + SettlementLag = e.due
    PROVE  Stands(Onward(r, e, full), ApplyFill(l, e.fill, e.fill.at \div 10, Horizon), a, c,
                  Noted(b, e.order, [remaining |-> b[e.order].remaining - e.fill.quantity,
                                     status |-> "awaiting_update"]),
                  f \cup {e.fill.id}, x, g, [t EXCEPT !.fills = @ + 1])
<1> DEFINE order == OrderIn(r, e.order)
           p == SetOrder(r, e.order, order.remaining - e.fill.quantity, "awaiting_update")
           q == [p EXCEPT !.ledger = ApplyFill(r.ledger, e.fill, e.fill.at \div 10, Horizon),
                          !.fills = @ \cup {e.fill.id}, !.tally.fills = @ + 1]
           mismatch == \/ Outcome(r, e.order) # "approve" \/ e.fill.id \in r.fills
                       \/ order.status # "active" \/ e.fill.quantity > order.remaining
                       \/ e.fill.at \div 10 + SettlementLag # e.due
           n == [remaining |-> b[e.order].remaining - e.fill.quantity, status |-> "awaiting_update"]
           m == ApplyFill(l, e.fill, e.fill.at \div 10, Horizon)
<1>1. Goes(r) /\ r.outcome = c /\ r.orders = b /\ r.fills = f /\ r.ledger = l
  BY StandsFacts DEF Stands
<1>2. Onward(r, e, full) = Unless(q, mismatch)
  BY <1>1 DEF Onward, ReplayStep, ReplayFill
<1>3. order = b[e.order]
  BY <1>1 DEF OrderIn
<1>4. ~mismatch
  BY <1>1, <1>3 DEF Outcome
<1>5. Stands(p, l, a, c, Noted(b, e.order, n), f, x, g, t)
  <2> HIDE DEF order
  <2> QED BY <1>3, OrderSet
<1> HIDE DEF p, mismatch, n, order
<1>6. Stands(q, m, a, c, Noted(b, e.order, n), f \cup {e.fill.id}, x, g, [t EXCEPT !.fills = @ + 1])
  <2>1. DOMAIN p = ReplayFields
    BY <1>5, StandsFacts
  <2> HIDE DEF m
  <2> QED BY <1>1, <1>5, <2>1 DEF Stands, Shape, ReplayFields, m
<1> HIDE DEF q, m
<1> QED BY <1>2, <1>4, <1>6, UnlessFacts DEF n, m

\* The reservation that a fill leaves is confirmed.
LEMMA UpdatedReplayed ==
    ASSUME NEW r, NEW l, NEW a, NEW c, NEW b, NEW f, NEW x, NEW g, NEW t,
           Stands(r, l, a, c, b, f, x, g, t), Good(l), NEW full,
           NEW e, e.kind = "updated", e.order \in DOMAIN b, b[e.order].status = "awaiting_update",
           e.remaining = b[e.order].remaining,
           e.status = IF b[e.order].remaining = 0 THEN "filled" ELSE "active"
    PROVE  Stands(Onward(r, e, full), l, a, c,
                  Noted(b, e.order, [remaining |-> e.remaining, status |-> e.status]), f, x, g, t)
<1> DEFINE order == OrderIn(r, e.order)
           expected == IF order.remaining = 0 THEN "filled" ELSE "active"
           q == SetOrder(r, e.order, order.remaining, expected)
           mismatch == \/ order.status # "awaiting_update" \/ e.remaining # order.remaining
                       \/ e.status # expected
<1>1. Goes(r) /\ r.orders = b
  BY StandsFacts DEF Stands
<1>2. Onward(r, e, full) = Unless(q, mismatch)
  BY <1>1 DEF Onward, ReplayStep, ReplayUpdate
<1>3. order = b[e.order]
  BY <1>1 DEF OrderIn
<1> HIDE DEF order
<1>4. ~mismatch /\ expected = e.status /\ order.remaining = e.remaining
  BY <1>3
<1> HIDE DEF expected, mismatch
<1>5. Stands(q, l, a, c, Noted(b, e.order, [remaining |-> e.remaining, status |-> e.status]), f, x, g, t)
  BY <1>4, OrderSet
<1> HIDE DEF q
<1> QED BY <1>2, <1>4, <1>5, UnlessFacts

\* An active reservation is released.
LEMMA ReleasedReplayed ==
    ASSUME NEW r, NEW l, NEW a, NEW c, NEW b, NEW f, NEW x, NEW g, NEW t,
           Stands(r, l, a, c, b, f, x, g, t), Good(l), NEW full,
           NEW e, e.kind = "released", e.order \in DOMAIN b, b[e.order].status = "active",
           e.status \in {"cancelled", "expired", "rejected"}
    PROVE  Stands(Onward(r, e, full), l, a, c,
                  Noted(b, e.order, [remaining |-> b[e.order].remaining, status |-> e.status]), f, x, g, t)
<1> DEFINE order == OrderIn(r, e.order)
           q == SetOrder(r, e.order, order.remaining, e.status)
           mismatch == order.status # "active" \/ e.status \notin {"cancelled", "expired", "rejected"}
<1>1. Goes(r) /\ r.orders = b
  BY StandsFacts DEF Stands
<1>2. Onward(r, e, full) = Unless(q, mismatch)
  BY <1>1 DEF Onward, ReplayStep, ReplayRelease
<1>3. order = b[e.order]
  BY <1>1 DEF OrderIn
<1> HIDE DEF order
<1>4. ~mismatch
  BY <1>3
<1> HIDE DEF mismatch
<1>5. Stands(q, l, a, c, Noted(b, e.order, [remaining |-> b[e.order].remaining, status |-> e.status]), f, x, g, t)
  BY <1>3, OrderSet
<1> HIDE DEF q
<1> QED BY <1>2, <1>4, <1>5, UnlessFacts

-----------------------------------------------------------------------------
(* The ledger of the replay is the ledger of the run, field by field. *)
Whole(l) == l = [k \in Fields |-> l[k]]

\* Postings, failures and reconciliation keep the fields.
LEMMA WholeBasics ==
    ASSUME NEW l, DOMAIN l = Fields
    PROVE  /\ \A at, postings : Whole(Post(l, at, postings))
           /\ \A reason : Whole(Fail(l, reason))
           /\ Whole(l) => Whole(Reconcile(l))
<1>1. \A b, o, t : Whole([l EXCEPT !.balance = b, !.ordered = o, !.lastAt = t])
  BY DEF Whole, Fields
<1>2. \A reason : Whole(Fail(l, reason))
  BY DEF Whole, Fail, Fields
<1>3. ASSUME NEW at, NEW postings PROVE Whole(Post(l, at, postings))
  <2> DEFINE b == [a \in DOMAIN l.balance |-> l.balance[a] + (IF a \in DOMAIN postings THEN postings[a] ELSE 0)]
             o == (l.ordered /\ l.lastAt <= at)
             m == [l EXCEPT !.balance = b, !.ordered = o, !.lastAt = at]
  <2>1. Post(l, at, postings) \in {Fail(l, "unbalanced"), m}
    BY DEF Post
  <2>2. Whole(m)
    <3> HIDE DEF b, o
    <3> QED BY <1>1
  <2> HIDE DEF m
  <2> QED BY <1>2, <2>1, <2>2
<1> QED BY <1>2, <1>3 DEF Reconcile

\* apply_fill keeps the fields.
LEMMA WholeFill ==
    ASSUME NEW l, Whole(l), NEW fill, NEW date, NEW h
    PROVE  Whole(ApplyFill(l, fill, date, h))
<1>1. DOMAIN l = Fields
  BY DEF Whole
<1>2. \A due : Whole(Bought(l, fill, due))
  BY <1>1, WholeBasics DEF Bought
<1>3. \A due : Whole(Sold(l, fill, due))
  BY <1>1, WholeBasics DEF Sold
<1>4. \A m : Whole(m) => Whole(Reconcile(m))
  BY WholeBasics DEF Whole
<1> QED BY <1>1, <1>2, <1>3, <1>4, WholeBasics DEF ApplyFill

\* process_settlements keeps the fields.
LEMMA WholeSettlements ==
    ASSUME NEW l, Whole(l), Len(l.pending) \in Nat, NEW date, NEW at
    PROVE  Whole(ProcessSettlements(l, date, at))
<1> DEFINE n == Len(l.pending)
           f == CHOOSE f : Settles(f, l, n, date, at)
           P == {k \in 0 .. n : Whole(f[k])}
<1>1. Settles(f, l, n, date, at)
  BY SettlesExist
<1>2. SettleTrades(l, date, at) = f[n]
  BY DEF SettleTrades, Settles
<1> HIDE DEF f, n
<1>3. \A k \in 0 .. n : f[k] = IF k = 0 THEN l ELSE SettleOne(f[k - 1], k, date, at)
  BY <1>1, Zenon DEF Settles
<1>4. n \in Nat
  BY DEF n
<1>5. ASSUME NEW m, Whole(m), NEW k PROVE Whole(SettleOne(m, k, date, at))
  <2>1. DOMAIN m = Fields
    BY <1>5 DEF Whole
  <2>2. \A v : DOMAIN [m EXCEPT !.settled = v, !.pending[k].done = TRUE] = Fields
    BY <2>1
  <2> QED BY <1>5, <2>1, <2>2, WholeBasics DEF SettleOne
<1>6. 0 \in P /\ \A j \in 0 .. n - 1 : j \in P => j + 1 \in P
  <2>1. 0 \in P
    BY <1>3, <1>4
  <2>2. ASSUME NEW j \in 0 .. n - 1, j \in P PROVE j + 1 \in P
    <3>1. j + 1 \in 0 .. n /\ j + 1 # 0 /\ (j + 1) - 1 = j
      BY <1>4
    <3>2. f[j + 1] = SettleOne(f[j], j + 1, date, at)
      BY <1>3, <3>1
    <3> QED BY <1>5, <2>2, <3>1, <3>2
  <2> QED BY <2>1, <2>2
<1> HIDE DEF P
<1>7. n \in P
  <2>1. \A j \in 0 .. n : j \in P
    BY <1>4, <1>6, NumberByNumber
  <2> QED BY <1>4, <2>1
<1>8. Whole(SettleTrades(l, date, at))
  BY <1>2, <1>7 DEF P
<1>9. \A m : Whole(m) => Whole(PayDividends(m, date, at)) /\ Whole(Reconcile(m))
  <2> SUFFICES ASSUME NEW m, Whole(m) PROVE Whole(PayDividends(m, date, at)) /\ Whole(Reconcile(m))
    OBVIOUS
  <2>1. DOMAIN m = Fields
    BY DEF Whole
  <2> QED BY <2>1, WholeBasics DEF PayDividends
<1> QED BY <1>8, <1>9 DEF ProcessSettlements

\* Corporate actions keep the fields.
LEMMA WholeAction ==
    ASSUME NEW l, Whole(l), NEW a, NEW at
    PROVE  Whole(ApplyAction(l, a, at))
<1>1. DOMAIN l = Fields
  BY DEF Whole
<1>2. \A m : Whole(m) => Whole(Reconcile(m))
  BY WholeBasics DEF Whole
<1>3. Whole(AccrueDividend(l, a, at))
  BY <1>1, <1>2, WholeBasics DEF AccrueDividend
<1>4. Whole(ApplySplit(l, a, at))
  BY <1>1, <1>2, WholeBasics DEF ApplySplit
<1> QED BY <1>3, <1>4 DEF ApplyAction

\* Marks and ageing keep the fields.
LEMMA WholeMarks ==
    ASSUME NEW l, Whole(l), NEW price, NEW marked
    PROVE  Whole(MarkAll(l, price)) /\ Whole(AgeUnmarked(l, marked))
BY DEF Whole, MarkAll, AgeUnmarked, Fields

\* A new ledger has them.
LEMMA WholeOpen == ASSUME NEW cash, NEW at PROVE Whole(OpenLedger(cash, at))
<1> DEFINE l == [settled |-> cash, capital |-> cash, pending |-> <<>>, receivables |-> {},
          positions |-> [i \in Instruments |-> NoPosition], applied |-> {},
          realized |-> 0, fees |-> 0, taxes |-> 0, dividends |-> 0,
          filledFees |-> 0, filledGain |-> 0,
          balance |-> [a \in Accounts \cup Instruments |-> 0],
          ordered |-> TRUE, lastAt |-> at, error |-> "none"]
<1>1. OpenLedger(cash, at) = Post(l, at, [cash |-> cash, contributed_capital |-> -cash])
  BY DEF OpenLedger
<1>2. DOMAIN l = Fields
  BY DEF Fields
<1> HIDE DEF l
<1> QED BY <1>1, <1>2, WholeBasics

\* l with the positions p.
WithPositions(l, p) == [l EXCEPT !.positions = p]

\* A ledger with other positions.
LEMMA WithPositionsFacts ==
    ASSUME NEW l, Whole(l), NEW p
    PROVE  /\ Whole(WithPositions(l, p)) /\ WithPositions(l, p).positions = p
           /\ \A k \in Fields \ {"positions"} : WithPositions(l, p)[k] = l[k]
           /\ \A q : WithPositions(WithPositions(l, p), q) = WithPositions(l, q)
           /\ WithPositions(l, l.positions) = l
<1>1. DOMAIN l = Fields /\ "positions" \in Fields
  BY DEF Whole, Fields
<1>2. \A q : /\ DOMAIN WithPositions(l, q) = Fields
             /\ WithPositions(l, q) = [k \in Fields |-> IF k = "positions" THEN q ELSE l[k]]
  BY <1>1 DEF WithPositions
<1>3. \A q : WithPositions(WithPositions(l, p), q) = WithPositions(l, q)
  <2> SUFFICES ASSUME NEW q PROVE WithPositions(WithPositions(l, p), q) = WithPositions(l, q)
    OBVIOUS
  <2> DEFINE m == WithPositions(l, p)
  <2>1. DOMAIN m = Fields /\ \A k \in Fields \ {"positions"} : m[k] = l[k]
    BY <1>2
  <2> HIDE DEF m
  <2>2. WithPositions(m, q) = [k \in Fields |-> IF k = "positions" THEN q ELSE m[k]]
    BY <1>1, <2>1 DEF WithPositions
  <2>3. [k \in Fields |-> IF k = "positions" THEN q ELSE m[k]]
          = [k \in Fields |-> IF k = "positions" THEN q ELSE l[k]]
    BY <2>1
  <2> QED BY <1>2, <2>2, <2>3 DEF m
<1>4. WithPositions(l, l.positions) = l
  <2>1. [k \in Fields |-> IF k = "positions" THEN l.positions ELSE l[k]] = [k \in Fields |-> l[k]]
    OBVIOUS
  <2> QED BY <1>2, <2>1 DEF Whole
<1>5. Whole(WithPositions(l, p))
  BY <1>2 DEF Whole
<1> QED BY <1>1, <1>2, <1>3, <1>4, <1>5

\* A position that is marked at a price.
Repriced(p, v) == IF p.known THEN [p EXCEPT !.price = v, !.stale = 0] ELSE p

\* l with the positions of T repriced.
RepricedIn(l, price, T) ==
    WithPositions(l, [i \in Instruments |->
        IF i \in T THEN Repriced(l.positions[i], price[i]) ELSE l.positions[i]])

\* A mark reprices one position.
LEMMA MarkIs ==
    ASSUME NEW l, Whole(l), Good(l), DOMAIN l.positions = Instruments,
           l.positions = [i \in Instruments |-> l.positions[i]],
           NEW i \in Instruments, NEW v
    PROVE  /\ Mark(l, i, v) = WithPositions(l, [j \in Instruments |->
                                IF j = i THEN Repriced(l.positions[j], v) ELSE l.positions[j]])
           /\ Mark(l, i, v).positions[i] = Repriced(l.positions[i], v)
<1> DEFINE p == [j \in Instruments |-> IF j = i THEN Repriced(l.positions[j], v) ELSE l.positions[j]]
<1>1. DOMAIN l = Fields /\ "positions" \in Fields
  BY DEF Whole, Fields
<1>2. Mark(l, i, v) = WithPositions(l, p)
  <2>1. CASE l.positions[i].known
    <3> DEFINE q == [l.positions EXCEPT ![i] = [@ EXCEPT !.price = v, !.stale = 0]]
    <3>1. q = p
      BY <2>1 DEF Repriced
    <3>2. Mark(l, i, v) = [l EXCEPT !.positions[i].price = v, !.positions[i].stale = 0]
      BY <2>1 DEF Mark
    <3>3. [l EXCEPT !.positions[i].price = v, !.positions[i].stale = 0]
            = [l EXCEPT !.positions = q]
      BY <1>1
    <3> HIDE DEF p, q
    <3> QED BY <3>1, <3>2, <3>3 DEF WithPositions
  <2>2. CASE ~l.positions[i].known
    <3>1. p = l.positions
      BY <2>2 DEF Repriced
    <3>2. Mark(l, i, v) = l
      BY <2>2 DEF Mark
    <3> HIDE DEF p
    <3> QED BY <3>1, <3>2, WithPositionsFacts
  <2> QED BY <2>1, <2>2
<1>3. p[i] = Repriced(l.positions[i], v)
  OBVIOUS
<1> HIDE DEF p
<1> QED BY <1>2, <1>3, WithPositionsFacts DEF p

\* The position that a mark leaves.
LEMMA MarkedPosition ==
    ASSUME NEW l, Whole(l), Good(l), DOMAIN l.positions = Instruments,
           l.positions = [i \in Instruments |-> l.positions[i]]
    PROVE  \A i \in Instruments : \A v : Mark(l, i, v).positions[i] = Repriced(l.positions[i], v)
<1> SUFFICES ASSUME NEW i \in Instruments, NEW v
             PROVE  Mark(l, i, v).positions[i] = Repriced(l.positions[i], v)
  OBVIOUS
<1>1. DOMAIN l = Fields /\ "positions" \in Fields /\ i \in DOMAIN l.positions
  BY DEF Whole, Fields
<1>2. CASE l.positions[i].known
  BY <1>1, <1>2 DEF Mark, Repriced
<1>3. CASE ~l.positions[i].known
  BY <1>3 DEF Mark, Repriced
<1> QED BY <1>2, <1>3

\* The marks of a session reprice the positions of its quotes.
LEMMA MarkAllIs ==
    ASSUME NEW l, Whole(l), Good(l), DOMAIN l.positions = Instruments,
           l.positions = [i \in Instruments |-> l.positions[i]],
           NEW price, DOMAIN price \subseteq Instruments
    PROVE  MarkAll(l, price) = RepricedIn(l, price, DOMAIN price)
<1> DEFINE p == [i \in Instruments |->
                    IF i \in DOMAIN price THEN Mark(l, i, price[i]).positions[i] ELSE l.positions[i]]
           q == [i \in Instruments |->
                    IF i \in DOMAIN price THEN Repriced(l.positions[i], price[i]) ELSE l.positions[i]]
<1>1. MarkAll(l, price) = WithPositions(l, p)
  BY DEF MarkAll, WithPositions
<1>2. \A i \in Instruments : \A v : Mark(l, i, v).positions[i] = Repriced(l.positions[i], v)
  BY MarkedPosition
<1>3. p = q
  BY <1>2
<1> HIDE DEF p
<1> QED BY <1>1, <1>3 DEF RepricedIn

\* One more instrument is marked.
LEMMA OneMoreMark ==
    ASSUME NEW l, Whole(l), Good(l), DOMAIN l.positions = Instruments,
           l.positions = [i \in Instruments |-> l.positions[i]],
           NEW price, NEW T, T \subseteq Instruments, NEW i \in Instruments, i \notin T
    PROVE  /\ Mark(RepricedIn(l, price, T), i, price[i]) = RepricedIn(l, price, T \cup {i})
           /\ Good(RepricedIn(l, price, T))
<1> DEFINE p == [j \in Instruments |-> IF j \in T THEN Repriced(l.positions[j], price[j]) ELSE l.positions[j]]
           q == [j \in Instruments |-> IF j = i THEN Repriced(p[j], price[i]) ELSE p[j]]
           s == [j \in Instruments |->
                    IF j \in T \cup {i} THEN Repriced(l.positions[j], price[j]) ELSE l.positions[j]]
           m == WithPositions(l, p)
<1>1. q = s
  OBVIOUS
<1>2. p = [j \in Instruments |-> p[j]] /\ DOMAIN p = Instruments
  OBVIOUS
<1> HIDE DEF p, s
<1>3. /\ Whole(m) /\ m.positions = p
      /\ \A x : WithPositions(m, x) = WithPositions(l, x)
      /\ m.error = l.error
  BY WithPositionsFacts DEF Fields
<1> HIDE DEF m
<1>4. Good(m)
  BY <1>3 DEF Good
<1>5. Mark(m, i, price[i]) = WithPositions(m, q)
  BY <1>2, <1>3, <1>4, MarkIs
<1>6. Mark(m, i, price[i]) = WithPositions(l, s)
  BY <1>1, <1>3, <1>5
<1> QED BY <1>4, <1>6 DEF m, p, s, RepricedIn

-----------------------------------------------------------------------------
(* Events that carry the ledger on. *)
\* A replay with another ledger.
LEMMA LedgerSet ==
    ASSUME NEW r, NEW l, NEW a, NEW c, NEW b, NEW f, NEW x, NEW g, NEW t,
           Stands(r, l, a, c, b, f, x, g, t), NEW m, NEW y, NEW h
    PROVE  /\ Stands([r EXCEPT !.ledger = m], m, a, c, b, f, x, g, t)
           /\ Stands([r EXCEPT !.ledger = m, !.actions = y], m, a, c, b, f, y, g, t)
           /\ Stands([r EXCEPT !.ledger = m, !.aged = h], m, a, c, b, f, x, h, t)
<1>1. DOMAIN r = ReplayFields
  BY StandsFacts
<1> DEFINE p == [r EXCEPT !.ledger = m]
           q == [r EXCEPT !.ledger = m, !.actions = y]
           s == [r EXCEPT !.ledger = m, !.aged = h]
<1>2. Stands(p, m, a, c, b, f, x, g, t)
  BY <1>1 DEF Stands, Shape, ReplayFields
<1>3. Stands(q, m, a, c, b, f, y, g, t)
  BY <1>1 DEF Stands, Shape, ReplayFields
<1>4. Stands(s, m, a, c, b, f, x, h, t)
  BY <1>1 DEF Stands, Shape, ReplayFields
<1> QED BY <1>2, <1>3, <1>4

\* The settlements of a day are made again.
LEMMA SettledReplayed ==
    ASSUME NEW r, NEW l, NEW a, NEW c, NEW b, NEW f, NEW x, NEW g, NEW t,
           Stands(r, l, a, c, b, f, x, g, t), Good(l), NEW full,
           NEW e, e.kind = "settled", e.processed = Processed(l, e.day)
    PROVE  Stands(Onward(r, e, full), ProcessSettlements(l, e.day, e.at), a, c, b, f, x, g, t)
<1> DEFINE m == ProcessSettlements(l, e.day, e.at)
           q == [r EXCEPT !.ledger = m]
           mismatch == Processed(l, e.day) # e.processed
<1>1. Goes(r) /\ r.ledger = l
  BY StandsFacts DEF Stands
<1>2. Onward(r, e, full) = Unless(q, mismatch)
  BY <1>1 DEF Onward, ReplayStep, ReplaySettlement
<1>3. ~mismatch
  OBVIOUS
<1> HIDE DEF m, mismatch
<1>4. Stands(q, m, a, c, b, f, x, g, t)
  BY LedgerSet
<1> HIDE DEF q
<1> QED BY <1>2, <1>3, <1>4, UnlessFacts DEF m

\* A corporate action is applied again.
LEMMA ActionReplayed ==
    ASSUME NEW r, NEW l, NEW a, NEW c, NEW b, NEW f, NEW x, NEW g, NEW t,
           Stands(r, l, a, c, b, f, x, g, t), Good(l), NEW full,
           NEW e, e.kind = "action", e.action.id \notin x,
           e.old = l.positions[e.action.instrument].quantity,
           e.new = ApplyAction(l, e.action, e.at).positions[e.action.instrument].quantity
    PROVE  Stands(Onward(r, e, full), ApplyAction(l, e.action, e.at), a, c, b, f,
                  x \cup {e.action.id}, g, t)
<1> DEFINE m == ApplyAction(l, e.action, e.at)
           i == e.action.instrument
           y == r.actions \cup {e.action.id}
           q == [r EXCEPT !.ledger = m, !.actions = y]
           mismatch == \/ e.action.id \in r.actions
                       \/ l.positions[i].quantity # e.old
                       \/ m.positions[i].quantity # e.new
<1>1. Goes(r) /\ r.ledger = l /\ r.actions = x
  BY StandsFacts DEF Stands
<1>2. Onward(r, e, full) = Unless(q, mismatch)
  BY <1>1 DEF Onward, ReplayStep, ReplayAction
<1>3. ~mismatch
  BY <1>1
<1>4. y = x \cup {e.action.id}
  BY <1>1
<1> HIDE DEF m, mismatch, y
<1>5. Stands(q, m, a, c, b, f, y, g, t)
  BY LedgerSet
<1> HIDE DEF q
<1> QED BY <1>2, <1>3, <1>4, <1>5, UnlessFacts DEF m

\* A snapshot that shows the ledger of the replay is accepted.
LEMMA SnapshotReplayed ==
    ASSUME NEW r, NEW l, NEW a, NEW c, NEW b, NEW f, NEW x, NEW g, NEW t,
           Stands(r, l, a, c, b, f, x, g, t), Good(l), Checked(l) = l, NEW full,
           NEW e, e.kind \in {"snapshotted", "reconciled"}, e.snapshot = Snapshot(l)
    PROVE  Stands(Onward(r, e, full), l, a, c, b, f, x, g, t)
<1> DEFINE q == [r EXCEPT !.ledger = l]
           mismatch == Snapshot(l) # e.snapshot
<1>1. Goes(r) /\ r.ledger = l
  BY StandsFacts DEF Stands
<1>2. Onward(r, e, full) = Unless(q, mismatch)
  BY <1>1 DEF Onward, ReplayStep, ReplaySnapshot
<1>3. ~mismatch
  OBVIOUS
<1> HIDE DEF mismatch
<1>4. Stands(q, l, a, c, b, f, x, g, t)
  BY LedgerSet
<1> HIDE DEF q
<1> QED BY <1>2, <1>3, <1>4, UnlessFacts

\* A snapshot that shows another account ends the replay.
LEMMA SnapshotRefused ==
    ASSUME NEW r, NEW l, NEW a, NEW c, NEW b, NEW f, NEW x, NEW g, NEW t,
           Stands(r, l, a, c, b, f, x, g, t), Good(l), NEW full,
           NEW e, e.kind = "snapshotted", e.snapshot # Snapshot(l)
    PROVE  ~Goes(Onward(r, e, full))
<1> DEFINE q == [r EXCEPT !.ledger = Checked(l)]
           mismatch == Snapshot(l) # e.snapshot
<1>1. Goes(r) /\ r.ledger = l /\ DOMAIN r = ReplayFields
  BY StandsFacts DEF Stands
<1>2. Onward(r, e, full) = Unless(q, mismatch)
  BY <1>1 DEF Onward, ReplayStep, ReplaySnapshot
<1>3. mismatch /\ DOMAIN q = ReplayFields
  BY <1>1
<1> HIDE DEF mismatch, q
<1>4. Unless(q, mismatch).ok = FALSE
  BY <1>3 DEF Unless, ReplayFields
<1> QED BY <1>2, <1>4 DEF Goes

\* The end is accepted exactly when no order is left reserved.
LEMMA CompletionReplayed ==
    ASSUME NEW r, NEW l, NEW a, NEW c, NEW b, NEW f, NEW x, NEW g, NEW t,
           Stands(r, l, a, c, b, f, x, g, t), Good(l), Checked(l) = l, NEW full,
           NEW e, e.kind = "completed", e.snapshot = Snapshot(l), e.tally = t
    PROVE  Goes(Onward(r, e, full))
             <=> ~\E o \in DOMAIN b : b[o].status \in {"active", "awaiting_update"}
<1> DEFINE q == [r EXCEPT !.ledger = l]
           open == \E o \in DOMAIN b : b[o].status \in {"active", "awaiting_update"}
           mismatch == open \/ Snapshot(l) # e.snapshot \/ t # e.tally
<1>1. Goes(r) /\ r.ledger = l /\ r.orders = b /\ r.tally = t /\ DOMAIN r = ReplayFields
  BY StandsFacts DEF Stands
<1>2. Onward(r, e, full) = Unless(q, mismatch)
  BY <1>1 DEF Onward, ReplayStep, ReplayCompletion
<1>3. mismatch <=> open
  OBVIOUS
<1>4. DOMAIN q = ReplayFields
  BY <1>1
<1>5. Stands(q, l, a, c, b, f, x, g, t)
  BY LedgerSet
<1> HIDE DEF mismatch, q, open
<1>6. CASE ~open
  <2>1. Stands(Unless(q, mismatch), l, a, c, b, f, x, g, t)
    BY <1>3, <1>5, <1>6, UnlessFacts
  <2>2. Goes(Unless(q, mismatch))
    BY <2>1, StandsFacts
  <2> QED BY <1>2, <1>6, <2>2 DEF open
<1>7. CASE open
  <2>1. Unless(q, mismatch).ok = FALSE
    BY <1>3, <1>4, <1>7 DEF Unless, ReplayFields
  <2> QED BY <1>2, <1>7, <2>1 DEF Goes, open
<1> QED BY <1>6, <1>7

\* The instruments that close at a time.
ClosedAt(full, t) == {e.instrument : e \in {d \in ToSet(full) : d.kind = "closed" /\ d.at = t}}

\* A mark is made again: at the open, or when the day was aged before.
LEMMA MarkReplayed ==
    ASSUME NEW r, NEW l, NEW a, NEW c, NEW b, NEW f, NEW x, NEW g, NEW t,
           Stands(r, l, a, c, b, f, x, g, t), Good(l), NEW full,
           NEW e, e.kind \in {"opened", "closed"}, e.kind = "opened" \/ e.at \in g
    PROVE  Stands(Onward(r, e, full), Mark(l, e.instrument, e.price), a, c, b, f, x, g, t)
<1> DEFINE m == Mark(l, e.instrument, e.price)
           q == [r EXCEPT !.ledger = m, !.aged = g]
<1>1. Goes(r) /\ r.ledger = l /\ r.aged = g /\ DOMAIN r = ReplayFields
  BY StandsFacts DEF Stands
<1>2. Onward(r, e, full) = ReplayMark(r, e, full)
  BY <1>1 DEF Onward, ReplayStep
<1>3. ReplayMark(r, e, full) = [r EXCEPT !.ledger = m, !.aged = @]
  BY <1>1 DEF ReplayMark
<1> HIDE DEF m
<1>4. [r EXCEPT !.ledger = m, !.aged = @] = q
  BY <1>1
<1>5. Stands(q, m, a, c, b, f, x, g, t)
  BY LedgerSet
<1> HIDE DEF q
<1> QED BY <1>2, <1>3, <1>4, <1>5 DEF m

\* The first mark of a close lets the others age.
LEMMA CloseReplayed ==
    ASSUME NEW r, NEW l, NEW a, NEW c, NEW b, NEW f, NEW x, NEW g, NEW t,
           Stands(r, l, a, c, b, f, x, g, t), Good(l), NEW full,
           NEW e, e.kind = "closed", e.at \notin g
    PROVE  Stands(Onward(r, e, full),
                  Mark(AgeUnmarked(l, ClosedAt(full, e.at)), e.instrument, e.price),
                  a, c, b, f, x, g \cup {e.at}, t)
<1> DEFINE m == Mark(AgeUnmarked(l, ClosedAt(full, e.at)), e.instrument, e.price)
           h == g \cup {e.at}
           q == [r EXCEPT !.ledger = m, !.aged = h]
<1>1. Goes(r) /\ r.ledger = l /\ r.aged = g /\ DOMAIN r = ReplayFields
  BY StandsFacts DEF Stands
<1>2. Onward(r, e, full) = ReplayMark(r, e, full)
  BY <1>1 DEF Onward, ReplayStep
<1>3. ReplayMark(r, e, full) = [r EXCEPT !.ledger = m, !.aged = @ \cup {e.at}]
  BY <1>1 DEF ReplayMark, ClosedAt
<1> HIDE DEF m
<1>4. [r EXCEPT !.ledger = m, !.aged = @ \cup {e.at}] = q
  BY <1>1
<1>5. Stands(q, m, a, c, b, f, x, h, t)
  BY LedgerSet
<1> HIDE DEF q
<1> QED BY <1>2, <1>3, <1>4, <1>5 DEF m

\* Nothing is marked yet, and everything is.
LEMMA MarkEnds ==
    ASSUME NEW l, Whole(l), Good(l), DOMAIN l.positions = Instruments,
           l.positions = [i \in Instruments |-> l.positions[i]],
           NEW price, DOMAIN price \subseteq Instruments
    PROVE  /\ RepricedIn(l, price, {}) = l
           /\ RepricedIn(l, price, DOMAIN price) = MarkAll(l, price)
<1> DEFINE p == [i \in Instruments |->
                    IF i \in {} THEN Repriced(l.positions[i], price[i]) ELSE l.positions[i]]
<1>1. p = l.positions
  <2>1. p = [i \in Instruments |-> l.positions[i]]
    OBVIOUS
  <2> QED BY <2>1
<1>2. RepricedIn(l, price, {}) = WithPositions(l, p)
  BY DEF RepricedIn
<1> HIDE DEF p
<1> QED BY <1>1, <1>2, WithPositionsFacts, MarkAllIs

\* The marks that follow the first n, when no ageing is left to do.
LEMMA MarksReplayed ==
    ASSUME NEW l, Whole(l), Good(l), DOMAIN l.positions = Instruments,
           l.positions = [i \in Instruments |-> l.positions[i]],
           NEW price, DOMAIN price \subseteq Instruments, NEW kind \in {"opened", "closed"}, NEW at,
           NEW a, NEW c, NEW b, NEW f, NEW x, NEW g, NEW t, kind = "opened" \/ at \in g,
           NEW v, NEW n \in Nat, NEW full,
           \A k \in 1 .. Len(MarkEvents(kind, price, at)) :
              v[n + k] = Onward(v[n + k - 1], MarkEvents(kind, price, at)[k], full),
           NEW k0 \in 0 .. Len(MarkEvents(kind, price, at)),
           Stands(v[n + k0], RepricedIn(l, price, {InKeyOrder(DOMAIN price)[j] : j \in 1 .. k0}),
                  a, c, b, f, x, g, t)
    PROVE  Stands(v[n + Len(MarkEvents(kind, price, at))], MarkAll(l, price), a, c, b, f, x, g, t)
<1> DEFINE s == InKeyOrder(DOMAIN price)
           events == MarkEvents(kind, price, at)
           m == Len(events)
           T(k) == {s[j] : j \in 1 .. k}
           P == {j \in 0 .. m - k0 : Stands(v[n + (k0 + j)], RepricedIn(l, price, T(k0 + j)), a, c, b, f, x, g, t)}
<1>1. /\ Entries(s) /\ \A k \in 1 .. Len(s) : s[k] \in DOMAIN price
      /\ \A k, j \in 1 .. Len(s) : s[k] = s[j] => k = j
      /\ \A i \in DOMAIN price : \E k \in 1 .. Len(s) : s[k] = i
  BY KeyOrderFacts
<1> HIDE DEF s
<1>2. /\ m = Len(s) /\ m \in Nat
      /\ \A k \in 1 .. m : events[k] = [kind |-> kind, at |-> at, instrument |-> s[k], price |-> price[s[k]]]
  <2>1. Len(s) \in Nat /\ DOMAIN s = 1 .. Len(s)
    BY <1>1, EntriesFacts
  <2>2. events = [k \in 1 .. Len(s) |->
                    [kind |-> kind, at |-> at, instrument |-> s[k], price |-> price[s[k]]]]
    BY <2>1 DEF MarkEvents, s
  <2> HIDE DEF events
  <2>3. events = [k \in 1 .. Len(s) |-> events[k]]
    BY <2>2
  <2>4. Len(events) = Len(s)
    BY <2>1, <2>3, ListedEntries
  <2> QED BY <2>1, <2>2, <2>4
<1>3. \A k \in 1 .. m : v[n + k] = Onward(v[n + k - 1], events[k], full)
  OBVIOUS
<1>4. k0 \in 0 .. m /\ Stands(v[n + k0], RepricedIn(l, price, T(k0)), a, c, b, f, x, g, t)
  BY DEF s
<1> HIDE DEF events, m
<1>5. 0 \in P
  BY <1>2, <1>4
<1>6. \A j \in 0 .. (m - k0) - 1 : j \in P => j + 1 \in P
  <2> SUFFICES ASSUME NEW j \in 0 .. (m - k0) - 1, j \in P PROVE j + 1 \in P
    OBVIOUS
  <2> DEFINE k == k0 + j
             i == s[k + 1]
  <2>1. k \in Nat /\ k + 1 \in 1 .. m /\ n + (k + 1) - 1 = n + k /\ j + 1 \in 0 .. m - k0
        /\ k0 + (j + 1) = k + 1
    BY <1>2, <1>4
  <2>2. Stands(v[n + k], RepricedIn(l, price, T(k)), a, c, b, f, x, g, t)
    OBVIOUS
  <2> HIDE DEF P, k
  <2>3. i \in Instruments /\ i \notin T(k) /\ T(k) \subseteq Instruments /\ T(k + 1) = T(k) \cup {i}
    <3>1. 1 .. k \subseteq 1 .. m /\ 1 .. k + 1 = 1 .. k \cup {k + 1} /\ k + 1 \notin 1 .. k
      BY <1>2, <2>1
    <3> QED BY <1>1, <1>2, <2>1, <3>1
  <2> HIDE DEF T
  <2>4. /\ Mark(RepricedIn(l, price, T(k)), i, price[i]) = RepricedIn(l, price, T(k) \cup {i})
        /\ Good(RepricedIn(l, price, T(k)))
    BY <2>3, OneMoreMark
  <2>5. events[k + 1] = [kind |-> kind, at |-> at, instrument |-> i, price |-> price[i]]
        /\ v[n + (k + 1)] = Onward(v[n + k], events[k + 1], full)
    BY <1>2, <1>3, <2>1
  <2> HIDE DEF i
  <2> DEFINE e == events[k + 1]
  <2>6. e.kind = kind /\ e.at = at /\ e.instrument = i /\ e.price = price[i]
    BY <2>5
  <2> HIDE DEF e
  <2>7. Stands(Onward(v[n + k], e, full), Mark(RepricedIn(l, price, T(k)), e.instrument, e.price),
               a, c, b, f, x, g, t)
    <3>1. e.kind \in {"opened", "closed"} /\ (e.kind = "opened" \/ e.at \in g)
      BY <2>6
    <3>2. PICK r, w, d : r = v[n + k] /\ w = RepricedIn(l, price, T(k)) /\ d = e
      OBVIOUS
    <3>3. Stands(r, w, a, c, b, f, x, g, t) /\ Good(w)
      BY <2>2, <2>4, <3>2
    <3>4. d.kind \in {"opened", "closed"} /\ (d.kind = "opened" \/ d.at \in g)
      BY <3>1, <3>2
    <3>5. Stands(Onward(r, d, full), Mark(w, d.instrument, d.price), a, c, b, f, x, g, t)
      BY <3>3, <3>4, MarkReplayed
    <3> QED BY <3>2, <3>5
  <2>8. Stands(v[n + (k + 1)], RepricedIn(l, price, T(k + 1)), a, c, b, f, x, g, t)
    BY <2>3, <2>4, <2>5, <2>6, <2>7 DEF e
  <2> QED BY <2>1, <2>8 DEF P
<1> HIDE DEF P
<1>7. m - k0 \in P
  <2>1. m - k0 \in Nat
    BY <1>2, <1>4
  <2>2. \A j \in 0 .. m - k0 : j \in P
    BY <1>5, <1>6, <2>1, NumberByNumber
  <2> QED BY <2>1, <2>2
<1>8. T(m) = DOMAIN price /\ k0 + (m - k0) = m
  <2>1. k0 + (m - k0) = m
    BY <1>2, <1>4
  <2>2. \A i \in DOMAIN price : i \in T(m)
    <3> SUFFICES ASSUME NEW i \in DOMAIN price PROVE \E k \in 1 .. m : i = s[k]
      OBVIOUS
    <3> QED BY <1>1, <1>2
  <2>3. \A i \in T(m) : i \in DOMAIN price
    <3> SUFFICES ASSUME NEW k \in 1 .. m PROVE s[k] \in DOMAIN price
      OBVIOUS
    <3> QED BY <1>1, <1>2
  <2>4. T(m) = DOMAIN price
    <3> HIDE DEF T
    <3> QED BY <2>2, <2>3
  <2> QED BY <2>1, <2>4
<1>9. Stands(v[n + m], RepricedIn(l, price, DOMAIN price), a, c, b, f, x, g, t)
  BY <1>7, <1>8 DEF P
<1> QED BY <1>9, MarkEnds DEF m, events

\* The marks of an open.
LEMMA OpensReplayed ==
    ASSUME NEW l, Whole(l), Good(l), DOMAIN l.positions = Instruments,
           l.positions = [i \in Instruments |-> l.positions[i]],
           NEW price, DOMAIN price \subseteq Instruments, NEW at,
           NEW a, NEW c, NEW b, NEW f, NEW x, NEW g, NEW t,
           NEW v, NEW n \in Nat, NEW full,
           \A k \in 1 .. Len(MarkEvents("opened", price, at)) :
              v[n + k] = Onward(v[n + k - 1], MarkEvents("opened", price, at)[k], full),
           Len(MarkEvents("opened", price, at)) \in Nat,
           Stands(v[n], l, a, c, b, f, x, g, t)
    PROVE  Stands(v[n + Len(MarkEvents("opened", price, at))], MarkAll(l, price), a, c, b, f, x, g, t)
<1>1. 0 \in 0 .. Len(MarkEvents("opened", price, at)) /\ n + 0 = n
  OBVIOUS
<1>2. {InKeyOrder(DOMAIN price)[j] : j \in 1 .. 0} = {}
  OBVIOUS
<1>3. RepricedIn(l, price, {}) = l
  BY MarkEnds
<1>4. Stands(v[n + 0], RepricedIn(l, price, {InKeyOrder(DOMAIN price)[j] : j \in 1 .. 0}), a, c, b, f, x, g, t)
  BY <1>1, <1>2, <1>3
<1>5. PICK kind : kind = "opened"
  OBVIOUS
<1> QED BY <1>1, <1>4, <1>5, MarksReplayed

\* The marks of a close, once the instruments without one have aged.
LEMMA ClosesReplayed ==
    ASSUME NEW l, Whole(l), Good(l), DOMAIN l.positions = Instruments,
           l.positions = [i \in Instruments |-> l.positions[i]],
           NEW price, DOMAIN price \subseteq Instruments, NEW at,
           NEW a, NEW c, NEW b, NEW f, NEW x, NEW g, NEW t, at \notin g,
           NEW v, NEW n \in Nat, NEW full, ClosedAt(full, at) = DOMAIN price,
           \A k \in 1 .. Len(MarkEvents("closed", price, at)) :
              v[n + k] = Onward(v[n + k - 1], MarkEvents("closed", price, at)[k], full),
           Len(MarkEvents("closed", price, at)) \in Nat \ {0},
           Stands(v[n], l, a, c, b, f, x, g, t)
    PROVE  Stands(v[n + Len(MarkEvents("closed", price, at))],
                  MarkAll(AgeUnmarked(l, DOMAIN price), price), a, c, b, f, x, g \cup {at}, t)
<1> DEFINE s == InKeyOrder(DOMAIN price)
           events == MarkEvents("closed", price, at)
           m == AgeUnmarked(l, DOMAIN price)
           i == s[1]
           e == events[1]
<1>1. /\ Whole(m) /\ Good(m) /\ DOMAIN m.positions = Instruments
      /\ m.positions = [j \in Instruments |-> m.positions[j]]
  <2>1. DOMAIN l = Fields /\ {"positions", "error"} \subseteq Fields
    BY DEF Whole, Fields
  <2>2. PICK p : m = [l EXCEPT !.positions = p] /\ DOMAIN p = Instruments /\ p = [j \in Instruments |-> p[j]]
    <3> DEFINE Aged(p) == [p EXCEPT !.stale = @ + 1]
               q == [j \in Instruments |->
                        IF l.positions[j].quantity # 0 /\ j \notin DOMAIN price
                        THEN Aged(l.positions[j]) ELSE l.positions[j]]
    <3>1. m = [l EXCEPT !.positions = q]
      BY DEF AgeUnmarked
    <3>2. DOMAIN q = Instruments /\ q = [j \in Instruments |-> q[j]]
      OBVIOUS
    <3> HIDE DEF q, m
    <3> QED BY <3>1, <3>2
  <2> HIDE DEF m
  <2>3. m.positions = p /\ m.error = l.error
    BY <2>1, <2>2
  <2>4. Whole(m)
    BY WholeMarks DEF m
  <2> QED BY <2>2, <2>3, <2>4 DEF Good
<1>2. /\ Entries(s) /\ \A k \in 1 .. Len(s) : s[k] \in DOMAIN price
  BY KeyOrderFacts
<1> HIDE DEF s, m
<1>3. /\ Len(events) = Len(s) /\ Len(s) \in Nat
      /\ \A k \in 1 .. Len(s) : events[k] = [kind |-> "closed", at |-> at, instrument |-> s[k], price |-> price[s[k]]]
  <2>1. Len(s) \in Nat /\ DOMAIN s = 1 .. Len(s)
    BY <1>2, EntriesFacts
  <2>2. events = [k \in 1 .. Len(s) |->
                    [kind |-> "closed", at |-> at, instrument |-> s[k], price |-> price[s[k]]]]
    BY <2>1 DEF MarkEvents, s
  <2> HIDE DEF events
  <2>3. events = [k \in 1 .. Len(s) |-> events[k]]
    BY <2>2
  <2>4. Len(events) = Len(s)
    BY <2>1, <2>3, ListedEntries
  <2> QED BY <2>1, <2>2, <2>4
<1>4. 1 \in 1 .. Len(s) /\ 1 \in 1 .. Len(events) /\ n + 1 - 1 = n /\ v[n + 1] = Onward(v[n], e, full)
  BY <1>3
<1>5. i \in Instruments /\ e = [kind |-> "closed", at |-> at, instrument |-> i, price |-> price[i]]
  BY <1>2, <1>3, <1>4
<1> HIDE DEF events, i
<1>6. e.kind = "closed" /\ e.at = at /\ e.instrument = i /\ e.price = price[i]
  BY <1>5
<1> HIDE DEF e
<1>7. Stands(v[n + 1], Mark(m, i, price[i]), a, c, b, f, x, g \cup {at}, t)
  <2>1. PICK r, d : r = v[n] /\ d = e
    OBVIOUS
  <2>2. Stands(Onward(r, d, full), Mark(AgeUnmarked(l, ClosedAt(full, d.at)), d.instrument, d.price),
               a, c, b, f, x, g \cup {d.at}, t)
    BY <1>6, <2>1, CloseReplayed
  <2> QED BY <1>4, <1>6, <2>1, <2>2 DEF m
<1>8. Mark(m, i, price[i]) = RepricedIn(m, price, {i})
  <2>1. RepricedIn(m, price, {}) = m
    BY <1>1, MarkEnds
  <2>2. PICK T : T = {}
    OBVIOUS
  <2>3. T \subseteq Instruments /\ i \notin T /\ T \cup {i} = {i} /\ i \in Instruments
    BY <1>5, <2>2
  <2>4. Mark(RepricedIn(m, price, T), i, price[i]) = RepricedIn(m, price, T \cup {i})
    BY <1>1, <2>3, OneMoreMark
  <2> QED BY <2>1, <2>2, <2>3, <2>4
<1>9. {s[j] : j \in 1 .. 1} = {i}
  BY DEF i
<1>10. PICK kind, h : kind = "closed" /\ h = g \cup {at}
  OBVIOUS
<1>11. Stands(v[n + 1], RepricedIn(m, price, {InKeyOrder(DOMAIN price)[j] : j \in 1 .. 1}), a, c, b, f, x, h, t)
  BY <1>7, <1>8, <1>9, <1>10 DEF s
<1>12. 1 \in 0 .. Len(MarkEvents(kind, price, at))
  BY <1>3, <1>4, <1>10 DEF events
<1>13. \A k \in 1 .. Len(MarkEvents(kind, price, at)) :
              v[n + k] = Onward(v[n + k - 1], MarkEvents(kind, price, at)[k], full)
  BY <1>10
<1>14. Stands(v[n + Len(MarkEvents(kind, price, at))], MarkAll(m, price), a, c, b, f, x, h, t)
  BY <1>1, <1>10, <1>11, <1>12, <1>13, MarksReplayed
<1> QED BY <1>10, <1>14 DEF m

-----------------------------------------------------------------------------
(* The replay follows the run. *)
Replayable ==
    /\ Chronicle /\ Followed /\ Whole(ledger)
    /\ tally = [approved |-> tally.approved, rejected |-> tally.rejected, fills |-> tally.fills]
    /\ \A o \in DOMAIN book : book[o].status \in {"active", "filled", "cancelled", "expired"}
    /\ LastEventAt <= FinalTime(FinalDue)
    /\ phase \in {"actions", "open"} => LastEventAt <= Accounting(day)
    /\ phase = "execute" => LastEventAt <= Execution(day)
    /\ phase # "decide" => day <= FinalDue

\* The journal of a run that goes on is followed, and the verdict on a run that is done is as stated.
ReplayInvariant == (phase \notin {"done", "failed"} => Replayable) /\ ReplayVerdict

\* A replay that follows the run, field by field.
LEMMA FollowsStands ==
    ASSUME NEW r, Follows(r)
    PROVE  Stands(r, ledger, r.intents, r.outcome, r.orders, r.fills, ledger.applied, r.aged, tally)
BY DEF Follows, Stands

\* The instants of a day, as numbers.
LEMMA ReplayTimes ==
    /\ \A d \in Nat : /\ Accounting(d) = 10 * d + 1 /\ Execution(d) = 10 * d + 2 /\ Close(d) = 10 * d + 5
                      /\ Decision(d) = 10 * d + 7 /\ FinalTime(d) = 10 * d + 6
BY DEF Accounting, Execution, Close, Decision, FinalTime, At

\* What the engine keeps, as far as the replay needs it.
LEMMA RunFacts ==
    ASSUME EngineInvariant
    PROVE  /\ day \in Nat /\ FinalDue \in Nat /\ LastSession \in Nat /\ LastSession <= FinalDue
           /\ \A d \in config.sessions : d \in Nat /\ d <= FinalDue
           /\ LedgerTyped(ledger) /\ BookOK(book)
           /\ ledger.positions = [i \in Instruments |-> ledger.positions[i]]
           /\ DOMAIN ledger.positions = Instruments
<1>1. /\ config \in {c \in Configs : ValidConfig(c)} /\ day \in Nat
      /\ LedgerTyped(ledger) /\ BookOK(book)
  BY DEF EngineInvariant, EngineTyped
<1>2. /\ LastSession \in Nat /\ \A d \in config.sessions : d <= LastSession /\ d \in Nat
      /\ FinalDue = LastSession + SettlementLag /\ FinalDue \in Nat
  BY <1>1, ConfigFacts
<1>3. SettlementLag \in Nat
  BY PolicyAssumption
<1>4. ledger.positions \in [Instruments -> Positions]
  BY <1>1 DEF LedgerTyped
<1> QED BY <1>1, <1>2, <1>3, <1>4

\* A raise ends the run without a verdict.
LEMMA RaiseReplays == ASSUME ReplayInvariant, NEW reason, Raise(reason) PROVE ReplayInvariant'
BY DEF Raise, ReplayInvariant, ReplayVerdict

\* A run that is not done has no verdict.
LEMMA NoVerdict == ASSUME Replayable', phase' # "done" PROVE ReplayInvariant'
BY DEF ReplayInvariant, ReplayVerdict

\* A run starts with an empty replay.
LEMMA ReplayStarts == ASSUME Init PROVE ReplayInvariant
<1> DEFINE start == Decision(Evening(Min(config.sessions))) - 1
<1>1. EngineInvariant /\ Executing
  BY EngineStarts, ExecutingStarts
<1>2. /\ ledger = OpenLedger(InitialCash, start) /\ journal = <<[kind |-> "started", at |-> start]>>
      /\ day = 1 /\ phase = "decide" /\ intents = {} /\ book = <<>>
      /\ tally = [approved |-> 0, rejected |-> 0, fills |-> 0]
  BY DEF Init, NoOrders
<1>3. Sound(ledger) /\ OnTime
  BY <1>1, <1>2 DEF Executing, Standing
<1>4. /\ day \in Nat /\ FinalDue \in Nat /\ FirstSession \in Nat \ {0} /\ FirstSession <= FinalDue
  BY <1>1, RunFacts, FirstFacts
<1>5. start \in Int
  <2>1. Evening(Min(config.sessions)) \in Int
    <3>1. FirstSession \in Nat /\ FirstSession \in config.sessions
          /\ \A d \in config.sessions : FirstSession <= d /\ d \in Nat
      BY <1>1, FirstFacts, RunFacts
    <3>2. CASE config.decides = "on_eve"
      BY <3>1, <3>2 DEF Evening, FirstSession
    <3>3. CASE config.decides # "on_eve"
      <4>1. {0} \cup {e \in config.sessions : e < FirstSession} = {0}
        BY <3>1
      <4>2. Max({0}) = 0
        <5>1. {0} \subseteq 0 .. 0 /\ {0} # {}
          OBVIOUS
        <5> QED BY <5>1, GreatestIsMax
      <4> QED BY <3>3, <4>1, <4>2 DEF Evening, FirstSession
    <3> QED BY <3>2, <3>3
  <2> QED BY <2>1 DEF Decision, At
<1> HIDE DEF start
<1>6. ledger.lastAt = start /\ ledger.applied = {} /\ Whole(ledger)
  <2>1. InitialCash \in Int
    BY EngineAssumption
  <2> QED BY <1>2, <1>5, <2>1, OpenLedgerSound, WholeOpen
<1>7. Entries(journal) /\ Len(journal) = 1 /\ journal[1] = [kind |-> "started", at |-> start]
      /\ DOMAIN journal = 1 .. 1
  <2>1. \A a : Entries(<<a>>) /\ Len(<<a>>) = 1 /\ <<a>>[1] = a /\ DOMAIN <<a>> = 1 .. 1
    BY TuplesAreEntries, EntriesFacts
  <2> QED BY <1>2, <2>1
<1>8. journal[1].kind = "started" /\ journal[1].at = start /\ LastEventAt = start
  BY <1>7 DEF LastEventAt
<1>9. Chronicle
  BY <1>5, <1>7, <1>8 DEF Chronicle
<1>10. ~SilentClose
  BY <1>7, <1>8 DEF SilentClose
<1>11. ASSUME NEW full, Continues(full, journal, Close(day))
       PROVE  Follows(Rebuilt(full)[Len(journal)])
  <2>1. Len(full) >= 1 /\ full[1] = journal[1] /\ Len(full) \in Nat
    BY <1>7, <1>11, EntriesFacts DEF Continues
  <2>2. Rebuilt(full)[1] = Fresh(full)
    BY <2>1, RebuiltFacts
  <2>3. full[1].at = start
    BY <1>8, <2>1
  <2> DEFINE r == Fresh(full)
  <2>4. /\ Shape(r) /\ r.ok = TRUE /\ r.ledger = ledger /\ r.intents = {} /\ r.outcome = <<>>
        /\ r.orders = <<>> /\ r.fills = {} /\ r.actions = {} /\ r.aged = {} /\ r.tally = tally
    BY <1>2, <2>3 DEF Fresh, Shape, ReplayFields
  <2> HIDE DEF r
  <2>5. DOMAIN <<>> = {}
    OBVIOUS
  <2>6. Follows(r)
    BY <1>2, <1>6, <2>4, <2>5 DEF Follows
  <2> QED BY <1>7, <2>2, <2>6 DEF r
<1>12. Followed
  BY <1>10, <1>11 DEF Followed
<1>13. LastEventAt <= FinalTime(FinalDue)
  <2>1. start <= At(FirstSession, 0)
    <3>1. CASE Early
      BY <1>6, <3>1 DEF Early
    <3>2. CASE ~Early
      <4>1. start <= At(day, 0)
        BY <1>2, <1>3, <1>6, <3>2 DEF OnTime, Now
      <4> QED BY <1>2, <1>4, <1>5, <4>1 DEF At
    <3> QED BY <3>1, <3>2
  <2>2. At(FirstSession, 0) = 10 * FirstSession + 0 /\ FinalTime(FinalDue) = 10 * FinalDue + 6
    BY Zenon DEF At, FinalTime
  <2> QED BY <1>4, <1>5, <1>8, <2>1, <2>2
<1>14. Replayable
  BY <1>2, <1>6, <1>9, <1>12, <1>13 DEF Replayable
<1> QED BY <1>2, <1>14 DEF ReplayInvariant, ReplayVerdict

\* A day without a session.
LEMMA NoSessionReplays == ASSUME EngineInvariant, ReplayInvariant, NoSession PROVE ReplayInvariant'
<1>1. /\ phase = "decide" /\ day <= FinalDue /\ phase' = "account"
      /\ UNCHANGED <<config, day, intents, ledger, book, journal, tally>>
  BY DEF NoSession
<1>2. Replayable
  BY <1>1 DEF ReplayInvariant
<1>3. Chronicle' /\ (SilentClose' <=> SilentClose) /\ LastEventAt' = LastEventAt /\ FinalDue' = FinalDue
  BY <1>1, <1>2 DEF Replayable, Chronicle, SilentClose, LastEventAt, FinalDue, LastSession
<1>4. ASSUME NEW r, Follows(r) PROVE Follows(r)'
  BY <1>1, <1>4 DEF Follows
<1>5. Followed'
  BY <1>1, <1>2, <1>3, <1>4 DEF Replayable, Followed
<1>6. Replayable'
  BY <1>1, <1>2, <1>3, <1>5 DEF Replayable, FinalTime, At
<1> QED BY <1>1, <1>6, NoVerdict

-----------------------------------------------------------------------------
(* Decisions. *)
\* v follows the first m events from the n-th on.
Steps(v, n, m, events, full) == \A k \in 1 .. m : v[n + k] = Onward(v[n + k - 1], events[k], full)

\* The first m events are targets, or the intents of o.
TargetsOnly(events, m) == \A k \in 1 .. m : events[k].kind = "target"

IntentsOnly(events, m, o) == \A k \in 1 .. m : events[k].kind = "intent" /\ events[k].order = o[k]

\* The first m of o are distinct and not in a.
FreshIds(o, m, a) == /\ \A k \in 1 .. m : o[k] \notin a
                     /\ \A k, j \in 1 .. m : o[k] = o[j] => k = j

\* The targets of a decision.
LEMMA TargetsReplayed ==
    ASSUME NEW v, NEW n \in Nat, NEW m \in Nat, NEW full, NEW events,
           Steps(v, n, m, events, full), TargetsOnly(events, m)
    PROVE  v[n + m] = v[n]
<1> DEFINE P == {k \in 0 .. m : v[n + k] = v[n]}
<1>1. 0 \in P
  OBVIOUS
<1>2. \A j \in 0 .. m - 1 : j \in P => j + 1 \in P
  <2> SUFFICES ASSUME NEW j \in 0 .. m - 1, v[n + j] = v[n] PROVE v[n + (j + 1)] = v[n]
    OBVIOUS
  <2>1. j + 1 \in 1 .. m /\ n + (j + 1) - 1 = n + j
    OBVIOUS
  <2>2. v[n + (j + 1)] = Onward(v[n + j], events[j + 1], full) /\ events[j + 1].kind = "target"
    BY <2>1 DEF Steps, TargetsOnly
  <2>3. PICK e : e = events[j + 1]
    OBVIOUS
  <2> QED BY <2>2, <2>3, TargetReplayed
<1> HIDE DEF P
<1>3. m \in P
  BY <1>1, <1>2, NumberByNumber
<1> QED BY <1>3 DEF P

\* The first m of s.
Listed(s, m) == {s[k] : k \in 1 .. m}

\* The intents of a decision, each new, are noted.
LEMMA IntentsReplayed ==
    ASSUME NEW l, Good(l), NEW a, NEW c, NEW b, NEW f, NEW x, NEW g, NEW t,
           NEW v, NEW n \in Nat, NEW m \in Nat, NEW full, NEW events, NEW s,
           Steps(v, n, m, events, full), IntentsOnly(events, m, s), FreshIds(s, m, a),
           Stands(v[n], l, a, c, b, f, x, g, t)
    PROVE  Stands(v[n + m], l, a \cup Listed(s, m), c, b, f, x, g, t)
<1> DEFINE A(k) == a \cup {s[j] : j \in 1 .. k}
           P == {k \in 0 .. m : Stands(v[n + k], l, A(k), c, b, f, x, g, t)}
<1>1. 0 \in P
  <2>1. A(0) = a /\ n + 0 = n
    OBVIOUS
  <2> HIDE DEF A
  <2> QED BY <2>1
<1>2. \A j \in 0 .. m - 1 : j \in P => j + 1 \in P
  <2> SUFFICES ASSUME NEW j \in 0 .. m - 1, j \in P PROVE j + 1 \in P
    OBVIOUS
  <2>1. j + 1 \in 1 .. m /\ n + (j + 1) - 1 = n + j
        /\ 1 .. j + 1 = 1 .. j \cup {j + 1} /\ j + 1 \notin 1 .. j /\ 1 .. j \subseteq 1 .. m
    OBVIOUS
  <2>2. PICK e : e = events[j + 1]
    OBVIOUS
  <2>3. v[n + (j + 1)] = Onward(v[n + j], e, full) /\ e.kind = "intent" /\ e.order = s[j + 1]
    BY <2>1, <2>2 DEF Steps, IntentsOnly
  <2>4. e.order \notin A(j) /\ A(j + 1) = A(j) \cup {e.order}
    BY <2>1, <2>3 DEF FreshIds
  <2> HIDE DEF A
  <2>5. PICK r, w : r = v[n + j] /\ w = A(j)
    OBVIOUS
  <2>6. Stands(r, l, w, c, b, f, x, g, t)
    BY <2>5
  <2>7. Stands(Onward(r, e, full), l, w \cup {e.order}, c, b, f, x, g, t)
    BY <2>3, <2>4, <2>5, <2>6, IntentReplayed
  <2>8. Stands(v[n + (j + 1)], l, A(j + 1), c, b, f, x, g, t)
    BY <2>3, <2>4, <2>5, <2>7
  <2> QED BY <2>1, <2>8
<1> HIDE DEF P
<1>3. m \in P
  BY <1>1, <1>2, NumberByNumber
<1> QED BY <1>3 DEF P, Listed

\* A decision is made on an earlier day.
LEMMA EveningFacts ==
    ASSUME EngineInvariant, day \in config.sessions
    PROVE  Evening(day) \in Int /\ Evening(day) <= day - 1
<1>1. day \in Nat \ {0} /\ \A d \in config.sessions : d \in Nat
  BY FirstFacts, RunFacts
<1>2. CASE config.decides = "on_eve"
  BY <1>1, <1>2 DEF Evening
<1>3. CASE config.decides # "on_eve"
  <2> DEFINE S == {0} \cup {e \in config.sessions : e < day}
  <2>1. S \subseteq 0 .. day - 1 /\ S # {}
    BY <1>1
  <2>2. Evening(day) = Max(S)
    BY <1>3 DEF Evening
  <2> HIDE DEF S
  <2>3. PICK lo \in Int, hi \in Int : lo = 0 /\ hi = day - 1
    BY <1>1
  <2>4. Max(S) \in S
    BY <2>1, <2>3, GreatestIsMax
  <2>5. Max(S) \in 0 .. day - 1
    BY <2>1, <2>4
  <2> QED BY <1>1, <2>2, <2>5
<1> QED BY <1>2, <1>3

\* A chronicle ends at some time.
LEMMA LastEventInt == ASSUME Chronicle PROVE LastEventAt \in Int /\ Len(journal) \in Nat /\ Len(journal) >= 1
<1>1. Len(journal) \in Nat /\ Len(journal) >= 1
  BY EntriesFacts DEF Chronicle
<1> QED BY <1>1 DEF Chronicle, LastEventAt

\* The new intents are noted by the replay.
LEMMA NewIntents ==
    ASSUME NEW r, Follows(r), phase = "decide", phase' = "account", day \in Nat,
           UNCHANGED <<day, ledger, book, tally>>,
           NEW s, NEW m \in Nat, \A a \in intents' : \E k \in 1 .. m : a.id = <<day, s[k]>>,
           NEW q, Stands(q, ledger, r.intents \cup {<<day, s[k]>> : k \in 1 .. m}, r.outcome, r.orders,
                         r.fills, ledger.applied, r.aged, tally)
    PROVE  Follows(q)'
<1> DEFINE new == {<<day, s[k]>> : k \in 1 .. m}
<1>1. \A o \in new : o[1] = day
  OBVIOUS
<1>2. \A a \in intents' : a.id \in new
  BY Zenon
<1>3. /\ Shape(q) /\ q.ok = TRUE /\ q.ledger = ledger /\ q.intents = r.intents \cup new
      /\ q.outcome = r.outcome /\ q.orders = r.orders /\ q.fills = r.fills
      /\ q.actions = ledger.applied /\ q.aged = r.aged /\ q.tally = tally
  BY DEF Stands
<1> HIDE DEF new
<1>4. /\ DOMAIN r.orders = DOMAIN book
      /\ \A o \in DOMAIN book :
            r.orders[o] = [remaining |-> book[o].remaining, status |-> book[o].status]
      /\ r.fills \subseteq DOMAIN book /\ DOMAIN book \subseteq DOMAIN r.outcome
      /\ DOMAIN r.outcome \subseteq r.intents
      /\ \A o \in r.intents : o[1] \in Int /\ o[1] < day
      /\ \A t \in r.aged : t \in Int /\ t < Close(day)
  BY DEF Follows
<1>5. \A a \in intents' : a.id \notin DOMAIN r.outcome
  <2> SUFFICES ASSUME NEW a \in intents', a.id \in DOMAIN r.outcome PROVE FALSE
    OBVIOUS
  <2>1. a.id[1] = day
    BY <1>1, <1>2
  <2>2. a.id \in r.intents
    BY <1>4
  <2> QED BY <1>4, <2>1, <2>2
<1> QED BY <1>1, <1>2, <1>3, <1>4, <1>5 DEF Follows

\* The events of a decision: the targets and then the intents.
DecisionEvents(p, s, d, at) ==
    [k \in DOMAIN p |-> [kind |-> "target", at |-> at]]
      \o [k \in DOMAIN s |-> [kind |-> "intent", at |-> at, order |-> <<d, s[k]>>]]

\* What DecisionEvents are, element by element.
Decided(events, p, s, d, at) ==
    /\ Entries(events) /\ Len(events) = Len(p) + Len(s)
    /\ \A k \in 1 .. Len(p) : events[k].kind = "target"
    /\ \A k \in 1 .. Len(s) : events[Len(p) + k].kind = "intent" /\ events[Len(p) + k].order = <<d, s[k]>>
    /\ \A k \in 1 .. Len(events) : events[k].at = at /\ events[k].kind \in {"target", "intent"}

\* DecisionEvents are the targets and then the intents, all of one time.
LEMMA DecisionEventsFacts ==
    ASSUME NEW p, Entries(p), NEW s, Entries(s), NEW d, NEW at
    PROVE  Decided(DecisionEvents(p, s, d, at), p, s, d, at)
<1> DEFINE first == [k \in DOMAIN p |-> [kind |-> "target", at |-> at]]
           second == [k \in DOMAIN s |-> [kind |-> "intent", at |-> at, order |-> <<d, s[k]>>]]
           events == DecisionEvents(p, s, d, at)
<1>1. Len(p) \in Nat /\ DOMAIN p = 1 .. Len(p) /\ Len(s) \in Nat /\ DOMAIN s = 1 .. Len(s)
  BY EntriesFacts
<1>2. /\ Entries(first) /\ Len(first) = Len(p) /\ Entries(second) /\ Len(second) = Len(s)
      /\ \A k \in 1 .. Len(p) : first[k].kind = "target" /\ first[k].at = at
      /\ \A k \in 1 .. Len(s) : second[k].kind = "intent" /\ second[k].at = at /\ second[k].order = <<d, s[k]>>
  <2>1. first = [k \in 1 .. Len(p) |-> first[k]] /\ second = [k \in 1 .. Len(s) |-> second[k]]
    BY <1>1
  <2>2. Entries(first) /\ Len(first) = Len(p)
    <3> HIDE DEF first
    <3> QED BY <1>1, <2>1, ListedEntries
  <2>3. Entries(second) /\ Len(second) = Len(s)
    <3> HIDE DEF second
    <3> QED BY <1>1, <2>1, ListedEntries
  <2>4. \A k \in 1 .. Len(p) : first[k].kind = "target" /\ first[k].at = at
    BY <1>1
  <2>5. \A k \in 1 .. Len(s) : second[k].kind = "intent" /\ second[k].at = at /\ second[k].order = <<d, s[k]>>
    BY <1>1
  <2> QED BY <2>2, <2>3, <2>4, <2>5
<1>3. events = first \o second
  BY DEF DecisionEvents
<1> HIDE DEF first, second, events
<1>4. /\ Entries(events) /\ Len(events) = Len(first) + Len(second)
      /\ \A k \in 1 .. Len(first) : events[k] = first[k]
      /\ \A k \in 1 .. Len(second) : events[Len(first) + k] = second[k]
      /\ \A k \in Len(first) + 1 .. Len(first) + Len(second) : events[k] = second[k - Len(first)]
  <2>1. Entries(first) /\ Entries(second)
    BY <1>2
  <2>2. Joins(events, first, second)
    BY <1>3, <2>1, JoinIs
  <2> QED BY <2>2, Zenon DEF Joins
<1>5. \A k \in 1 .. Len(events) : events[k].at = at /\ events[k].kind \in {"target", "intent"}
  <2> SUFFICES ASSUME NEW k \in 1 .. Len(events)
               PROVE  events[k].at = at /\ events[k].kind \in {"target", "intent"}
    OBVIOUS
  <2>1. CASE k <= Len(p)
    <3>1. k \in 1 .. Len(p)
      BY <1>1, <1>2, <1>4, <2>1
    <3> QED BY <1>2, <1>4, <3>1
  <2>2. CASE k > Len(p)
    <3>1. k \in Len(p) + 1 .. Len(p) + Len(s) /\ k - Len(p) \in 1 .. Len(s)
      BY <1>1, <1>2, <1>4, <2>2
    <3> QED BY <1>2, <1>4, <3>1
  <2> QED BY <1>1, <2>1, <2>2
<1>6. Decided(events, p, s, d, at)
  BY <1>2, <1>4, <1>5 DEF Decided
<1> QED BY <1>6 DEF events

\* No order of a is of the day d.
NotOf(a, d) == \A o \in a : o[1] # d

\* The orders of the day d for s.
Dated(d, s) == {<<d, s[k]>> : k \in 1 .. Len(s)}

\* The events of a decision add its intents to the replay.
LEMMA DecisionReplayed ==
    ASSUME NEW l, Good(l), NEW a, NEW c, NEW b, NEW f, NEW x, NEW g, NEW t,
           NEW p, Entries(p), NEW s, Entries(s), NEW d, NEW at,
           FreshIds(s, Len(s), {}),
           NEW v, NEW n \in Nat, NEW full, Replaying(v, n, DecisionEvents(p, s, d, at), full),
           Stands(v[n], l, a, c, b, f, x, g, t), NotOf(a, d)
    PROVE  Stands(v[n + Len(DecisionEvents(p, s, d, at))], l, a \cup Dated(d, s), c, b, f, x, g, t)
<1> DEFINE events == DecisionEvents(p, s, d, at)
           m == Len(p)
           N == n + m
           o == [k \in 1 .. Len(s) |-> <<d, s[k]>>]
           ev == [k \in 1 .. Len(s) |-> events[m + k]]
<1>1. /\ Len(events) = m + Len(s)
      /\ \A k \in 1 .. m : events[k].kind = "target"
      /\ \A k \in 1 .. Len(s) : events[m + k].kind = "intent" /\ events[m + k].order = <<d, s[k]>>
  <2>1. Decided(events, p, s, d, at)
    BY DecisionEventsFacts
  <2> HIDE DEF events
  <2> QED BY <2>1 DEF Decided
<1>2. m \in Nat /\ Len(s) \in Nat /\ N \in Nat
  BY EntriesFacts
<1>3. \A k \in 1 .. m + Len(s) : v[n + k] = Onward(v[n + k - 1], events[k], full)
  BY <1>1 DEF Replaying
<1> HIDE DEF events
<1>4. v[N] = v[n]
  <2>1. \A k \in 1 .. m : v[n + k] = Onward(v[n + k - 1], events[k], full)
    BY <1>2, <1>3
  <2>2. Steps(v, n, m, events, full) /\ TargetsOnly(events, m)
    BY <1>1, <2>1 DEF Steps, TargetsOnly
  <2>3. PICK h : h = events
    OBVIOUS
  <2> HIDE DEF m
  <2> QED BY <1>2, <2>2, TargetsReplayed DEF N
<1>5. \A k \in 1 .. Len(s) : v[N + k] = Onward(v[N + k - 1], ev[k], full)
  <2> SUFFICES ASSUME NEW k \in 1 .. Len(s) PROVE v[N + k] = Onward(v[N + k - 1], ev[k], full)
    OBVIOUS
  <2>1. m + k \in 1 .. m + Len(s) /\ n + (m + k) = N + k /\ n + (m + k) - 1 = N + k - 1
    BY <1>2
  <2>2. v[n + (m + k)] = Onward(v[n + (m + k) - 1], events[m + k], full)
    BY <1>3, <2>1
  <2>3. ev[k] = events[m + k]
    OBVIOUS
  <2> HIDE DEF ev, N, m
  <2> QED BY <2>1, <2>2, <2>3
<1>6. \A k \in 1 .. Len(s) : ev[k].kind = "intent" /\ ev[k].order = o[k] /\ o[k] \notin a
  <2> SUFFICES ASSUME NEW k \in 1 .. Len(s)
               PROVE  ev[k].kind = "intent" /\ ev[k].order = o[k] /\ o[k] \notin a
    OBVIOUS
  <2>1. ev[k] = events[m + k] /\ o[k] = <<d, s[k]>> /\ o[k][1] = d
    OBVIOUS
  <2> HIDE DEF ev, o, m
  <2> QED BY <1>1, <2>1 DEF NotOf
<1>7. \A k, j \in 1 .. Len(s) : o[k] = o[j] => k = j
  BY DEF FreshIds
<1>8. Listed(o, Len(s)) = Dated(d, s)
  BY DEF Listed, Dated
<1>9. n + Len(events) = N + Len(s)
  BY <1>1, <1>2
<1> HIDE DEF ev, o, N, m
<1>10. Stands(v[N], l, a, c, b, f, x, g, t)
  BY <1>4
<1>11. Stands(v[N + Len(s)], l, a \cup Listed(o, Len(s)), c, b, f, x, g, t)
  <2>1. Steps(v, N, Len(s), ev, full) /\ IntentsOnly(ev, Len(s), o) /\ FreshIds(o, Len(s), a)
    BY <1>5, <1>6, <1>7 DEF Steps, IntentsOnly, FreshIds
  <2> QED BY <1>2, <1>10, <2>1, IntentsReplayed
<1> QED BY <1>8, <1>9, <1>11 DEF events

\* A decision adds targets and intents of its day.
LEMMA DecideReplays ==
    ASSUME EngineInvariant, Executing, ReplayInvariant, phase = "decide", day \in config.sessions,
           NEW quoted \in SUBSET Instruments,
           NEW quotes \in [quoted -> UNION {Quotes[i] : i \in quoted}],
           NEW rows \in Rows, Decide(quotes, rows)
    PROVE  ReplayInvariant'
<1>1. CASE \E reason : Raise(reason)
  BY <1>1, RaiseReplays
<1>2. CASE ~\E reason : Raise(reason)
  <2> DEFINE nav == NetAssetValue(ledger)
             at == Decision(Evening(day))
             rebalances == day \in Scheduled(config.setup.rebalance, config.sessions)
             covered == Covered(config.setup.rebalance, rows)
             targets == IF rebalances /\ covered
                        THEN StrategyTargets(config.setup.policy, config.setup.rebalance, rows) ELSE <<>>
             Held(i) == ledger.positions[i].quantity
             Wanted(i) == TargetQuantity(targets[i], nav, quotes[i].ref, Held(i))
             changed == {i \in DOMAIN targets : Wanted(i) # Held(i)}
             made == {Intent(<<day, i>>, i, Wanted(i), Held(i)) : i \in changed}
             events == DecisionEvents(InKeyOrder(DOMAIN targets), InKeyOrder(changed), day, at)
  <2>1. /\ DOMAIN targets \subseteq DOMAIN quotes
        /\ DOMAIN targets # {} => ~(at < LastEventAt)
        /\ journal' = journal \o events /\ intents' = made
        /\ phase' = "account"
        /\ UNCHANGED <<config, day, ledger, book, tally>>
    BY <1>2 DEF Decide, Append2Journal, DecisionEvents
  <2>2. DOMAIN quotes \subseteq Instruments
    OBVIOUS
  <2>3. changed \subseteq DOMAIN targets /\ DOMAIN targets \subseteq Instruments
    BY <2>1, <2>2
  <2>4. \A a \in made : \E i \in changed : a.id = <<day, i>>
    BY DEF Intent
  <2> HIDE DEF targets, nav, Wanted, Held, made, changed
  <2>5. PICK p, s, u : p = InKeyOrder(DOMAIN targets) /\ s = InKeyOrder(changed) /\ u = at
    OBVIOUS
  <2>6. /\ Entries(p) /\ \A k \in 1 .. Len(p) : p[k] \in DOMAIN targets
        /\ Entries(s) /\ \A k \in 1 .. Len(s) : s[k] \in changed
        /\ \A k, j \in 1 .. Len(s) : s[k] = s[j] => k = j
        /\ \A i \in changed : \E k \in 1 .. Len(s) : s[k] = i
    BY <2>3, <2>5, KeyOrderFacts
  <2>7. PICK d, ev : d = day /\ ev = DecisionEvents(p, s, d, u)
    OBVIOUS
  <2>8. /\ events = ev /\ Entries(ev) /\ Len(ev) = Len(p) + Len(s) /\ Len(p) \in Nat /\ Len(s) \in Nat
        /\ \A k \in 1 .. Len(ev) : ev[k].at = u /\ ev[k].kind \notin {"closed", "snapshotted"}
    <3>1. Decided(ev, p, s, d, u) /\ events = ev /\ Len(p) \in Nat /\ Len(s) \in Nat
      BY <2>5, <2>6, <2>7, EntriesFacts, DecisionEventsFacts
    <3> HIDE DEF events
    <3> QED BY <3>1 DEF Decided
  <2> HIDE DEF events
  <2>9. Replayable /\ Chronicle /\ Followed /\ LastEventAt \in Int
    BY LastEventInt DEF ReplayInvariant, Replayable
  <2>10. day \in Nat /\ Evening(day) \in Int /\ Evening(day) <= day - 1 /\ day <= FinalDue /\ FinalDue \in Nat
    BY RunFacts, EveningFacts
  <2>11. at \in Int /\ at <= FinalTime(FinalDue)
    <3>1. at = 10 * Evening(day) + 7 /\ FinalTime(FinalDue) = 10 * FinalDue + 6
      BY Zenon DEF Decision, At, FinalTime
    <3> HIDE DEF at
    <3> QED BY <2>10, <3>1
  <2> HIDE DEF at
  <2>12. Len(ev) = 0 \/ LastEventAt <= u
    <3>1. CASE DOMAIN targets = {}
      <4>1. ~(1 \in 1 .. Len(p)) /\ ~(1 \in 1 .. Len(s))
        BY <2>3, <2>6, <3>1
      <4> QED BY <2>8, <4>1
    <3>2. CASE DOMAIN targets # {}
      BY <2>1, <2>5, <2>9, <2>11, <3>2
    <3> QED BY <3>1, <3>2
  <2>13. Good(ledger)
    BY DEF Executing, Standing, Sound, ReplayInvariant
  <2>14. \A a \in intents' : \E k \in 1 .. Len(s) : a.id = <<day, s[k]>>
    <3> SUFFICES ASSUME NEW a \in made PROVE \E k \in 1 .. Len(s) : a.id = <<day, s[k]>>
      BY <2>1
    <3>1. PICK i \in changed : a.id = <<day, i>>
      BY <2>4
    <3>2. PICK k \in 1 .. Len(s) : s[k] = i
      BY <2>6
    <3> QED BY <3>1, <3>2
  <2>15. FollowsOn(ev)
    <3> SUFFICES ASSUME NEW v, NEW n, NEW full, n \in Nat, Follows(v[n]), Replaying(v, n, ev, full)
                 PROVE  Follows(v[n + Len(ev)])'
      BY DEF FollowsOn
    <3>1. PICK q, r : q = v[n + Len(ev)] /\ r = v[n]
      OBVIOUS
    <3>2. Follows(r)
      BY <3>1
    <3>3. \A w \in r.intents : w[1] \in Int /\ w[1] < day
      BY <3>2 DEF Follows
    <3>4. PICK l, a, c, b, f, x, g, t :
                /\ l = ledger /\ a = r.intents /\ c = r.outcome /\ b = r.orders /\ f = r.fills
                /\ x = ledger.applied /\ g = r.aged /\ t = tally
      OBVIOUS
    <3>5. Stands(v[n], l, a, c, b, f, x, g, t)
      BY <3>1, <3>2, <3>4, FollowsStands
    <3>6. Good(l) /\ NotOf(a, d) /\ FreshIds(s, Len(s), {})
      BY <2>6, <2>7, <2>10, <2>13, <3>3, <3>4 DEF NotOf, FreshIds
    <3>7. Stands(v[n + Len(ev)], l, a \cup Dated(d, s), c, b, f, x, g, t)
      BY <2>6, <2>7, <3>5, <3>6, DecisionReplayed
    <3>8. Stands(q, ledger, r.intents \cup {<<day, s[k]>> : k \in 1 .. Len(s)}, r.outcome,
                 r.orders, r.fills, ledger.applied, r.aged, tally)
      BY <2>7, <3>1, <3>4, <3>7 DEF Dated
    <3>9. Follows(q)'
      BY <2>1, <2>8, <2>10, <2>14, <3>2, <3>8, NewIntents
    <3> QED BY <3>1, <3>9
  <2>16. /\ Chronicle' /\ Followed'
         /\ Len(ev) = 0 => LastEventAt' = LastEventAt
         /\ Len(ev) # 0 => LastEventAt' = u
    <3>1. day' \in Nat /\ day <= day'
      BY <2>1, <2>10
    <3>2. journal' = journal \o ev /\ u \in Int
      BY <2>1, <2>5, <2>8, <2>11
    <3> QED BY <2>8, <2>9, <2>10, <2>12, <2>15, <3>1, <3>2, JournalGoesOn
  <2>17. FinalDue' = FinalDue
    BY <2>1 DEF FinalDue, LastSession
  <2>18. LastEventAt' <= FinalTime(FinalDue)
    BY <2>5, <2>9, <2>11, <2>16 DEF Replayable
  <2>19. Replayable'
    BY <2>1, <2>9, <2>10, <2>16, <2>17, <2>18 DEF Replayable, FinalTime, At
  <2> QED BY <2>1, <2>19, NoVerdict
<1> QED BY <1>1, <1>2

-----------------------------------------------------------------------------
(* Settlements and corporate actions. *)
\* One event.
LEMMA OneEvent ==
    ASSUME NEW v, NEW n \in Nat, NEW e, NEW full, Replaying(v, n, <<e>>, full)
    PROVE  v[n + 1] = Onward(v[n], e, full)
<1>1. Len(<<e>>) = 1 /\ <<e>>[1] = e /\ 1 \in 1 .. 1 /\ n + 1 - 1 = n
  OBVIOUS
<1>2. \A k \in 1 .. Len(<<e>>) : v[n + k] = Onward(v[n + k - 1], <<e>>[k], full)
  BY DEF Replaying
<1>3. v[n + 1] = Onward(v[n + 1 - 1], <<e>>[1], full)
  BY <1>1, <1>2
<1> QED BY <1>1, <1>3

\* The event e carries a replay that follows the run to the ledger m.
Carries(e, m) ==
    \A r, full : Follows(r) =>
        Stands(Onward(r, e, full), m, r.intents, r.outcome, r.orders, r.fills, m.applied, r.aged, tally)

\* A replay that has the new ledger follows the run.
LEMMA LedgerMoves ==
    ASSUME NEW r, Follows(r), day \in Nat, day' \in Nat, day <= day', phase # "decide",
           phase' # "decide" \/ day' = day + 1, UNCHANGED <<intents, book, tally>>,
           NEW m, ledger' = m,
           NEW q, Stands(q, m, r.intents, r.outcome, r.orders, r.fills, m.applied, r.aged, tally)
    PROVE  Follows(q)'
<1>1. /\ Shape(q) /\ q.ok = TRUE /\ q.ledger = m /\ q.intents = r.intents
      /\ q.outcome = r.outcome /\ q.orders = r.orders /\ q.fills = r.fills
      /\ q.actions = m.applied /\ q.aged = r.aged /\ q.tally = tally
  BY DEF Stands
<1>2. /\ DOMAIN r.orders = DOMAIN book
      /\ \A o \in DOMAIN book :
            r.orders[o] = [remaining |-> book[o].remaining, status |-> book[o].status]
      /\ r.fills \subseteq DOMAIN book /\ DOMAIN book \subseteq DOMAIN r.outcome
      /\ DOMAIN r.outcome \subseteq r.intents
      /\ \A a \in intents : a.id \in r.intents /\ a.id \notin DOMAIN r.outcome
      /\ \A o \in r.intents : o[1] \in Int /\ o[1] <= day
      /\ \A t \in r.aged : t \in Int /\ t < Close(day)
  BY DEF Follows
<1>3. Close(day) \in Int /\ Close(day') \in Int /\ Close(day) <= Close(day')
  <2>1. \A d, e \in Nat : d <= e => Close(d) \in Int /\ Close(d) <= Close(e)
    BY DEF Close, At
  <2> QED BY <2>1
<1>4. /\ \A o \in r.intents : o[1] \in Int /\ (o[1] < day' \/ (o[1] = day' /\ phase' # "decide"))
      /\ \A t \in r.aged : t \in Int /\ t < Close(day')
  BY <1>2, <1>3
<1> QED BY <1>1, <1>2, <1>4 DEF Follows

\* A step before the open that writes one event.
LEMMA AccountingReplays ==
    ASSUME EngineInvariant, Replayable, phase \in {"account", "actions"}, NEW rest, GoOn(rest),
           UNCHANGED <<config, session, intents, book, tally>>,
           NEW e, e.at = Accounting(day), e.kind \notin {"closed", "snapshotted"},
           journal' = journal \o <<e>>, LastEventAt <= Accounting(day),
           NEW m, ledger' = m, Whole(m), Carries(e, m)
    PROVE  ReplayInvariant'
<1>1. /\ day \in Nat /\ day' \in {day, day + 1} /\ phase' \in {"actions", "decide", "open"}
      /\ phase' = "decide" <=> day' = day + 1
      /\ FinalDue \in Nat
  BY GoOnFacts, RunFacts DEF EngineInvariant
<1>2. /\ Chronicle /\ Followed /\ day <= FinalDue /\ LastEventAt <= FinalTime(FinalDue)
      /\ tally = [approved |-> tally.approved, rejected |-> tally.rejected, fills |-> tally.fills]
      /\ \A o \in DOMAIN book : book[o].status \in {"active", "filled", "cancelled", "expired"}
  BY DEF Replayable
<1>3. Accounting(day) = 10 * day + 1 /\ FinalTime(FinalDue) = 10 * FinalDue + 6
  BY <1>1, ReplayTimes
<1>4. PICK at \in Int : at = Accounting(day)
  BY <1>1, <1>3
<1>5. PICK events : events = <<e>>
  OBVIOUS
<1>6. Entries(events) /\ Len(events) = 1 /\ events[1] = e
  BY <1>5, TuplesAreEntries
<1>7. FollowsOn(events)
  <2> SUFFICES ASSUME NEW v, NEW n, NEW full, n \in Nat, Follows(v[n]), Replaying(v, n, events, full)
               PROVE  Follows(v[n + Len(events)])'
    BY DEF FollowsOn
  <2>1. PICK q, r : q = v[n + 1] /\ r = v[n]
    OBVIOUS
  <2>2. q = Onward(r, e, full)
    BY <1>5, <2>1, OneEvent
  <2>3. Follows(r)
    BY <2>1
  <2>4. Stands(q, m, r.intents, r.outcome, r.orders, r.fills, m.applied, r.aged, tally)
    BY <2>2, <2>3 DEF Carries
  <2>5. day' \in Nat /\ day <= day' /\ phase # "decide" /\ (phase' # "decide" \/ day' = day + 1)
    BY <1>1
  <2>6. Follows(q)'
    BY <1>1, <2>3, <2>4, <2>5, LedgerMoves
  <2> QED BY <1>6, <2>1, <2>6
<1>8. /\ Chronicle' /\ Followed' /\ LastEventAt' = at
  <2>1. day' \in Nat /\ day <= day' /\ journal' = journal \o events /\ LastEventAt <= at
    BY <1>1, <1>4, <1>5
  <2>2. \A k \in 1 .. Len(events) : events[k].at = at /\ events[k].kind \notin {"closed", "snapshotted"}
    BY <1>4, <1>6
  <2>3. /\ Chronicle' /\ Followed'
        /\ Len(events) # 0 => LastEventAt' = at
    BY <1>1, <1>2, <1>6, <1>7, <2>1, <2>2, JournalGoesOn
  <2> QED BY <1>6, <2>3
<1>9. FinalDue' = FinalDue /\ FinalTime(FinalDue)' = FinalTime(FinalDue)
  <2>1. FinalDue' = FinalDue
    BY DEF FinalDue, LastSession
  <2> QED BY <2>1 DEF FinalTime, At
<1>10. LastEventAt' <= FinalTime(FinalDue)
  BY <1>1, <1>2, <1>3, <1>4, <1>8
<1>11. phase' # "decide" => day' = day /\ Accounting(day)' = Accounting(day)
  BY <1>1 DEF Accounting, At
<1>12. Replayable'
  BY <1>1, <1>2, <1>4, <1>8, <1>9, <1>10, <1>11 DEF Replayable
<1> QED BY <1>1, <1>12, NoVerdict

\* Good ledgers and what is checked of them.
LEMMA AccountReplays == ASSUME EngineInvariant, Executing, ReplayInvariant, Account PROVE ReplayInvariant'
<1>1. CASE \E reason : Raise(reason)
  BY <1>1, RaiseReplays
<1>2. CASE ~\E reason : Raise(reason)
  <2> DEFINE at == Accounting(day)
             m == ProcessSettlements(ledger, day, at)
             e == [kind |-> "settled", at |-> at, day |-> day, processed |-> Processed(ledger, day)]
             today == {a \in config.setup.actions : a.effective = day}
  <2>1. /\ phase = "account" /\ Good(m) /\ InOrder(<<e>>) /\ ledger' = m /\ journal' = journal \o <<e>>
        /\ GoOn(today) /\ UNCHANGED <<config, session, intents, book, tally>>
    BY <1>2 DEF Account, Append2Journal
  <2>2. e.at = at /\ e.kind = "settled" /\ e.day = day /\ e.processed = Processed(ledger, day)
    OBVIOUS
  <2>3. Replayable /\ Chronicle /\ Whole(ledger) /\ Sound(ledger) /\ Good(ledger)
    BY <2>1 DEF ReplayInvariant, Replayable, Executing, Standing, Sound
  <2>4. day \in Nat /\ LedgerTyped(ledger) /\ at \in Int
    <3>1. day \in Nat /\ LedgerTyped(ledger)
      BY RunFacts
    <3>2. at = 10 * day + 1
      BY <3>1, ReplayTimes
    <3> QED BY <3>1, <3>2
  <2> HIDE DEF e, at, today
  <2>5. LastEventAt <= at
    <3>1. DOMAIN <<e>> = {1} /\ <<e>>[1] = e
      OBVIOUS
    <3>2. e.at >= LastEventAt
      BY <2>1, <3>1 DEF InOrder
    <3>3. LastEventAt \in Int
      BY <2>3, LastEventInt
    <3> QED BY <2>2, <2>4, <3>2, <3>3
  <2>6. m.applied = ledger.applied
    BY <2>1, <2>4, SettlementFacts DEF SettledFrom
  <2>7. Whole(m)
    <3>1. Len(ledger.pending) \in Nat
      BY <2>4, PendingFacts
    <3> QED BY <2>3, <3>1, WholeSettlements
  <2>8. Carries(e, m)
    <3> SUFFICES ASSUME NEW r, NEW full, Follows(r)
                 PROVE  Stands(Onward(r, e, full), m, r.intents, r.outcome, r.orders, r.fills, m.applied,
                               r.aged, tally)
      BY DEF Carries
    <3>1. PICK l : l = ledger
      OBVIOUS
    <3>2. Stands(r, l, r.intents, r.outcome, r.orders, r.fills, l.applied, r.aged, tally)
      BY <3>1, FollowsStands
    <3>3. Good(l) /\ e.kind = "settled" /\ e.processed = Processed(l, e.day)
      BY <2>2, <2>3, <3>1
    <3>4. Stands(Onward(r, e, full), ProcessSettlements(l, e.day, e.at), r.intents, r.outcome, r.orders,
                 r.fills, l.applied, r.aged, tally)
      BY <3>2, <3>3, SettledReplayed
    <3> QED BY <2>2, <2>6, <3>1, <3>4
  <2> HIDE DEF m
  <2> QED BY <2>1, <2>2, <2>3, <2>5, <2>7, <2>8, AccountingReplays DEF at
<1> QED BY <1>1, <1>2

\* A corporate action of the day.
LEMMA ActReplays == ASSUME EngineInvariant, Executing, ReplayInvariant, Act PROVE ReplayInvariant'
<1>1. CASE \E reason : Raise(reason)
  BY <1>1, RaiseReplays
<1>2. CASE ~\E reason : Raise(reason)
  <2> DEFINE at == Accounting(day)
  <2>1. PICK a \in pendingActions :
          /\ phase = "actions" /\ Good(ApplyAction(ledger, a, at))
          /\ ledger' = ApplyAction(ledger, a, at) /\ GoOn(pendingActions \ {a})
          /\ journal' = journal \o <<ActionEvent(a, ledger, ApplyAction(ledger, a, at), at)>>
          /\ UNCHANGED <<config, session, intents, book, tally>>
    BY <1>2 DEF Act, Append2Journal
  <2> DEFINE m == ApplyAction(ledger, a, at)
             e == ActionEvent(a, ledger, m, at)
  <2>2. /\ e.at = at /\ e.kind = "action" /\ e.action = a
        /\ e.old = ledger.positions[a.instrument].quantity /\ e.new = m.positions[a.instrument].quantity
    BY DEF ActionEvent
  <2>3. Replayable /\ Whole(ledger) /\ Sound(ledger) /\ Good(ledger) /\ LastEventAt <= at
        /\ AppliedBefore /\ OnTime
    BY <2>1 DEF ReplayInvariant, Replayable, Executing, Standing, Sound
  <2>4. /\ day \in Nat /\ a \in config.setup.actions /\ ValidAction(a)
        /\ LedgerTyped(ledger) /\ Available(ledger) >= 0 /\ ledger.lastAt \in Int
    BY <2>1, <2>3, FirstFacts, RunFacts DEF EngineInvariant, EngineTyped, Sound, BooksTyped
  <2>5. a.id \notin ledger.applied
    BY <2>1, <2>3, <2>4 DEF AppliedBefore
  <2>6. at \in Int /\ ledger.lastAt <= at
    <3>1. at = At(day, 1) /\ Now = At(day, 1) /\ ~Early
      BY <2>1 DEF Accounting, Now, Early
    <3>2. at \in Int
      BY <2>4, <3>1 DEF At
    <3> QED BY <2>3, <3>1, <3>2 DEF OnTime
  <2> HIDE DEF at
  <2>7. m.applied = ledger.applied \cup {a.id}
    <3>1. CASE a.kind = "dividend"
      <4>1. m = AccrueDividend(ledger, a, at)
        BY <3>1 DEF ApplyAction
      <4> QED BY <2>1, <2>3, <2>4, <2>5, <2>6, <4>1, AccrueSound DEF Good
    <3>2. CASE a.kind # "dividend"
      <4>1. m = ApplySplit(ledger, a, at)
        BY <3>2 DEF ApplyAction
      <4> QED BY <2>1, <2>3, <2>4, <2>5, <2>6, <4>1, SplitSound DEF Good
    <3> QED BY <3>1, <3>2
  <2>8. Whole(m)
    BY <2>3, WholeAction
  <2> HIDE DEF e
  <2>9. Carries(e, m)
    <3> SUFFICES ASSUME NEW r, NEW full, Follows(r)
                 PROVE  Stands(Onward(r, e, full), m, r.intents, r.outcome, r.orders, r.fills, m.applied,
                               r.aged, tally)
      BY DEF Carries
    <3>1. PICK l, x : l = ledger /\ x = ledger.applied
      OBVIOUS
    <3>2. Stands(r, l, r.intents, r.outcome, r.orders, r.fills, x, r.aged, tally)
      BY <3>1, FollowsStands
    <3>3. /\ Good(l) /\ e.kind = "action" /\ e.action.id \notin x
          /\ e.old = l.positions[e.action.instrument].quantity
          /\ e.new = ApplyAction(l, e.action, e.at).positions[e.action.instrument].quantity
      BY <2>2, <2>3, <2>5, <3>1
    <3>4. Stands(Onward(r, e, full), ApplyAction(l, e.action, e.at), r.intents, r.outcome, r.orders,
                 r.fills, x \cup {e.action.id}, r.aged, tally)
      BY <3>2, <3>3, ActionReplayed
    <3> QED BY <2>2, <2>7, <3>1, <3>4
  <2>10. journal' = journal \o <<e>> /\ ledger' = m /\ phase = "actions"
         /\ UNCHANGED <<config, session, intents, book, tally>>
    BY <2>1 DEF e
  <2> HIDE DEF m
  <2>11. PICK rest : rest = pendingActions \ {a} /\ GoOn(rest)
    BY <2>1
  <2> QED BY <2>2, <2>3, <2>8, <2>9, <2>10, <2>11, AccountingReplays DEF at
<1> QED BY <1>1, <1>2

-----------------------------------------------------------------------------
(* The marks at the open. *)
Marks(events, kind, price, at) ==
    /\ Entries(events) /\ Len(events) \in Nat
    /\ \A k \in 1 .. Len(events) :
          events[k].kind = kind /\ events[k].at = at /\ events[k].instrument \in DOMAIN price
    /\ \A i \in DOMAIN price : \E k \in 1 .. Len(events) : events[k].instrument = i

\* MarkEvents is one mark for each instrument with a price.
LEMMA MarkEventsFacts ==
    ASSUME NEW price, DOMAIN price \subseteq Instruments, NEW kind, NEW at
    PROVE  Marks(MarkEvents(kind, price, at), kind, price, at)
<1> DEFINE s == InKeyOrder(DOMAIN price)
           events == MarkEvents(kind, price, at)
<1>1. /\ Entries(s) /\ \A k \in 1 .. Len(s) : s[k] \in DOMAIN price
      /\ \A i \in DOMAIN price : \E k \in 1 .. Len(s) : s[k] = i
  BY KeyOrderFacts
<1> HIDE DEF s
<1>2. Len(s) \in Nat /\ DOMAIN s = 1 .. Len(s)
  BY <1>1, EntriesFacts
<1>3. events = [k \in 1 .. Len(s) |-> [kind |-> kind, at |-> at, instrument |-> s[k], price |-> price[s[k]]]]
  BY <1>2 DEF MarkEvents, s
<1> HIDE DEF events
<1>4. events = [k \in 1 .. Len(s) |-> events[k]]
  BY <1>3
<1>5. Entries(events) /\ Len(events) = Len(s)
  BY <1>2, <1>4, ListedEntries
<1>6. \A k \in 1 .. Len(s) :
          events[k].kind = kind /\ events[k].at = at /\ events[k].instrument = s[k]
  BY <1>3
<1>7. Marks(events, kind, price, at)
  BY <1>1, <1>2, <1>5, <1>6 DEF Marks
<1> QED BY <1>7 DEF events

\* OpensReplayed, of a replay that follows the run.
LEMMA OpenCarries ==
    ASSUME NEW l, Whole(l), Good(l), DOMAIN l.positions = Instruments,
           l.positions = [i \in Instruments |-> l.positions[i]],
           NEW price, DOMAIN price \subseteq Instruments, NEW at,
           NEW a, NEW c, NEW b, NEW f, NEW x, NEW g, NEW t,
           NEW v, NEW n \in Nat, NEW full,
           Replaying(v, n, MarkEvents("opened", price, at), full),
           Stands(v[n], l, a, c, b, f, x, g, t)
    PROVE  Stands(v[n + Len(MarkEvents("opened", price, at))], MarkAll(l, price), a, c, b, f, x, g, t)
<1>1. \A k \in 1 .. Len(MarkEvents("opened", price, at)) :
          v[n + k] = Onward(v[n + k - 1], MarkEvents("opened", price, at)[k], full)
  BY DEF Replaying
<1>2. Len(MarkEvents("opened", price, at)) \in Nat
  <2>1. PICK kind : kind = "opened"
    OBVIOUS
  <2>2. Marks(MarkEvents(kind, price, at), kind, price, at)
    BY MarkEventsFacts
  <2> QED BY <2>1, <2>2 DEF Marks
<1> QED BY <1>1, <1>2, OpensReplayed

\* The marks at the open.
LEMMA OpenReplays == ASSUME EngineInvariant, Executing, ReplayInvariant, Open PROVE ReplayInvariant'
<1>1. CASE \E reason : Raise(reason)
  BY <1>1, RaiseReplays
<1>2. CASE ~\E reason : Raise(reason)
  <2> DEFINE at == Execution(day)
             price == [i \in DOMAIN session.quotes |-> session.quotes[i].open]
             n == MarkAll(ledger, price)
             events == MarkEvents("opened", price, at)
  <2>1. /\ phase = "open" /\ Good(Checked(n)) /\ ledger' = Checked(n) /\ phase' = "execute"
        /\ journal' = journal \o events
        /\ UNCHANGED <<config, day, intents, book, tally>>
    BY <1>2 DEF Open, Append2Journal
  <2>2. session # <<>> /\ DOMAIN price = DOMAIN session.quotes
    BY <2>1 DEF EngineInvariant, IntentsOfToday
  <2>3. DOMAIN price \subseteq Instruments /\ \A i \in Instruments \cap DOMAIN price : price[i] \in Int
    BY <2>2, PricesFacts DEF EngineInvariant
  <2>4. Replayable /\ Chronicle /\ Followed /\ Whole(ledger) /\ Sound(ledger) /\ Good(ledger)
        /\ day <= FinalDue /\ LastEventAt <= Accounting(day)
    BY <2>1 DEF ReplayInvariant, Replayable, Executing, Standing, Sound
  <2>5. day \in Nat /\ FinalDue \in Nat /\ LastEventAt \in Int
        /\ DOMAIN ledger.positions = Instruments
        /\ ledger.positions = [i \in Instruments |-> ledger.positions[i]]
    BY <2>4, RunFacts, LastEventInt
  <2>6. at \in Int /\ LastEventAt <= at /\ at <= FinalTime(FinalDue)
    <3>1. at = 10 * day + 2 /\ Accounting(day) = 10 * day + 1 /\ FinalTime(FinalDue) = 10 * FinalDue + 6
      BY <2>5, ReplayTimes
    <3> HIDE DEF at
    <3> QED BY <2>4, <2>5, <3>1
  <2> HIDE DEF at, price
  <2>7. n.applied = ledger.applied /\ Sound(n)
    BY <2>3, <2>4, MarkSound
  <2>8. Whole(n)
    BY <2>4, WholeMarks
  <2> HIDE DEF n
  <2>9. Checked(n) = n /\ ledger' = n
    BY <2>1, <2>7, SoundChecked
  <2>10. PICK p, u, kind : p = price /\ u = at /\ kind = "opened"
    OBVIOUS
  <2>11. PICK ev : ev = MarkEvents(kind, p, u)
    OBVIOUS
  <2>12. Marks(ev, kind, p, u) /\ events = ev
    BY <2>3, <2>10, <2>11, MarkEventsFacts
  <2> HIDE DEF events
  <2>13. /\ Entries(ev) /\ Len(ev) \in Nat
         /\ \A k \in 1 .. Len(ev) : ev[k].at = u /\ ev[k].kind \notin {"closed", "snapshotted"}
    BY <2>10, <2>12 DEF Marks
  <2>14. FollowsOn(ev)
    <3> SUFFICES ASSUME NEW v, NEW k, NEW full, k \in Nat, Follows(v[k]), Replaying(v, k, ev, full)
                 PROVE  Follows(v[k + Len(ev)])'
      BY DEF FollowsOn
    <3>1. PICK q, r : q = v[k + Len(ev)] /\ r = v[k]
      OBVIOUS
    <3>2. Follows(r)
      BY <3>1
    <3>3. PICK l, a, c, b, f, x, g, t :
                /\ l = ledger /\ a = r.intents /\ c = r.outcome /\ b = r.orders /\ f = r.fills
                /\ x = ledger.applied /\ g = r.aged /\ t = tally
      OBVIOUS
    <3>4. Stands(v[k], l, a, c, b, f, x, g, t)
      BY <3>1, <3>2, <3>3, FollowsStands
    <3>5. /\ Whole(l) /\ Good(l) /\ DOMAIN l.positions = Instruments
          /\ l.positions = [i \in Instruments |-> l.positions[i]] /\ DOMAIN p \subseteq Instruments
      BY <2>3, <2>4, <2>5, <2>10, <3>3
    <3>6. ev = MarkEvents("opened", p, u)
      BY <2>10, <2>11
    <3>7. Stands(v[k + Len(ev)], MarkAll(l, p), a, c, b, f, x, g, t)
      BY <3>4, <3>5, <3>6, OpenCarries
    <3>8. PICK m : m = n
      OBVIOUS
    <3>9. Stands(q, m, r.intents, r.outcome, r.orders, r.fills, m.applied, r.aged, tally)
      BY <2>7, <2>10, <3>1, <3>3, <3>7, <3>8 DEF n
    <3>10. Follows(q)'
      BY <2>1, <2>5, <2>9, <3>2, <3>8, <3>9, LedgerMoves
    <3> QED BY <3>1, <3>10
  <2>15. /\ Chronicle' /\ Followed'
         /\ Len(ev) = 0 => LastEventAt' = LastEventAt
         /\ Len(ev) # 0 => LastEventAt' = u
    <3>1. day' \in Nat /\ day <= day' /\ journal' = journal \o ev /\ u \in Int /\ LastEventAt <= u
      BY <2>1, <2>5, <2>6, <2>10, <2>12
    <3> QED BY <2>4, <2>5, <2>13, <2>14, <3>1, JournalGoesOn
  <2>16. FinalDue' = FinalDue /\ FinalTime(FinalDue)' = FinalTime(FinalDue)
    <3>1. FinalDue' = FinalDue
      BY <2>1 DEF FinalDue, LastSession
    <3> QED BY <3>1 DEF FinalTime, At
  <2>17. LastEventAt' <= at /\ LastEventAt' <= FinalTime(FinalDue) /\ Execution(day)' = at
    <3>1. LastEventAt' <= at /\ LastEventAt' <= FinalTime(FinalDue)
      BY <2>4, <2>6, <2>10, <2>15 DEF Replayable
    <3>2. Execution(day)' = at
      BY <2>1 DEF Execution, At, at
    <3> QED BY <3>1, <3>2
  <2>18. Replayable'
    BY <2>1, <2>4, <2>8, <2>9, <2>15, <2>16, <2>17 DEF Replayable
  <2> QED BY <2>1, <2>18, NoVerdict
<1> QED BY <1>1, <1>2

-----------------------------------------------------------------------------
(* Executions. *)
\* Four events, and a fifth.
LEMMA SomeEvents ==
    ASSUME NEW a, NEW b, NEW c, NEW d, NEW e
    PROVE  <<a, b, c, d>> \o <<>> = <<a, b, c, d>> /\ <<a, b, c, d>> \o <<e>> = <<a, b, c, d, e>>
<1>1. <<a, b, c, d>> \o <<>> = <<a, b, c, d>>
  OBVIOUS
<1>2. <<a, b, c, d>> \o <<e>> = <<a, b, c, d, e>>
  <2> DEFINE s == <<a, b, c, d>>
             t == <<e>>
             w == <<a, b, c, d, e>>
  <2>1. /\ Entries(s) /\ Len(s) = 4 /\ Entries(t) /\ Len(t) = 1 /\ Entries(w) /\ Len(w) = 5
    BY TuplesAreEntries
  <2>2. /\ s[1] = a /\ s[2] = b /\ s[3] = c /\ s[4] = d /\ t[1] = e
        /\ w[1] = a /\ w[2] = b /\ w[3] = c /\ w[4] = d /\ w[5] = e
    OBVIOUS
  <2> HIDE DEF s, t, w
  <2>3. PICK u : u = s \o t
    OBVIOUS
  <2>4. Joins(u, s, t)
    BY <2>1, <2>3, JoinIs
  <2>5. Entries(u) /\ Len(u) = 5 /\ u[1] = a /\ u[2] = b /\ u[3] = c /\ u[4] = d /\ u[5] = e
    <3>1. 1 \in 1 .. 4 /\ 2 \in 1 .. 4 /\ 3 \in 1 .. 4 /\ 4 \in 1 .. 4 /\ 1 \in 1 .. 1
      OBVIOUS
    <3>2. /\ Entries(u) /\ Len(u) = 4 + 1
          /\ \A k \in 1 .. 4 : u[k] = s[k]
          /\ \A k \in 1 .. 1 : u[4 + k] = t[k]
      BY <2>1, <2>4 DEF Joins
    <3>3. u[4 + 1] = t[1]
      BY <3>1, <3>2
    <3> QED BY <2>2, <3>1, <3>2, <3>3
  <2>6. u = [k \in 1 .. 5 |-> u[k]] /\ w = [k \in 1 .. 5 |-> w[k]]
    BY <2>1, <2>5, EntriesFacts
  <2>7. \A k \in 1 .. 5 : u[k] = w[k]
    <3>1. \A k \in 1 .. 5 : k = 1 \/ k = 2 \/ k = 3 \/ k = 4 \/ k = 5
      OBVIOUS
    <3> QED BY <2>2, <2>5, <3>1
  <2>8. [k \in 1 .. 5 |-> u[k]] = [k \in 1 .. 5 |-> w[k]]
    BY <2>7
  <2>9. u = w
    BY <2>6, <2>8, Zenon
  <2> QED BY <2>3, <2>9 DEF s, t, w
<1> QED BY <1>1, <1>2

\* Four events.
LEMMA FourEvents ==
    ASSUME NEW v, NEW n \in Nat, NEW a, NEW b, NEW c, NEW d, NEW full,
           Replaying(v, n, <<a, b, c, d>>, full)
    PROVE  v[n + 4] = Onward(Onward(Onward(Onward(v[n], a, full), b, full), c, full), d, full)
<1> DEFINE s == <<a, b, c, d>>
<1>1. Len(s) = 4 /\ s[1] = a /\ s[2] = b /\ s[3] = c /\ s[4] = d
  OBVIOUS
<1>2. \A k \in 1 .. 4 : v[n + k] = Onward(v[n + k - 1], s[k], full)
  BY <1>1 DEF Replaying
<1> HIDE DEF s
<1>3. /\ 1 \in 1 .. 4 /\ 2 \in 1 .. 4 /\ 3 \in 1 .. 4 /\ 4 \in 1 .. 4
      /\ n + 1 - 1 = n /\ n + 2 - 1 = n + 1 /\ n + 3 - 1 = n + 2 /\ n + 4 - 1 = n + 3
  OBVIOUS
<1>4. /\ v[n + 1] = Onward(v[n + 1 - 1], s[1], full) /\ v[n + 2] = Onward(v[n + 2 - 1], s[2], full)
      /\ v[n + 3] = Onward(v[n + 3 - 1], s[3], full) /\ v[n + 4] = Onward(v[n + 4 - 1], s[4], full)
  BY <1>2, <1>3
<1> QED BY <1>1, <1>3, <1>4

\* Five events.
LEMMA FiveEvents ==
    ASSUME NEW v, NEW n \in Nat, NEW a, NEW b, NEW c, NEW d, NEW e, NEW full,
           Replaying(v, n, <<a, b, c, d, e>>, full)
    PROVE  v[n + 5] =
             Onward(Onward(Onward(Onward(Onward(v[n], a, full), b, full), c, full), d, full), e, full)
<1> DEFINE s == <<a, b, c, d, e>>
<1>1. Len(s) = 5 /\ s[1] = a /\ s[2] = b /\ s[3] = c /\ s[4] = d /\ s[5] = e
  OBVIOUS
<1>2. \A k \in 1 .. 5 : v[n + k] = Onward(v[n + k - 1], s[k], full)
  BY <1>1 DEF Replaying
<1> HIDE DEF s
<1>3. /\ 1 \in 1 .. 5 /\ 2 \in 1 .. 5 /\ 3 \in 1 .. 5 /\ 4 \in 1 .. 5 /\ 5 \in 1 .. 5
      /\ n + 1 - 1 = n /\ n + 2 - 1 = n + 1 /\ n + 3 - 1 = n + 2 /\ n + 4 - 1 = n + 3
      /\ n + 5 - 1 = n + 4
  OBVIOUS
<1>4. /\ v[n + 1] = Onward(v[n + 1 - 1], s[1], full) /\ v[n + 2] = Onward(v[n + 2 - 1], s[2], full)
      /\ v[n + 3] = Onward(v[n + 3 - 1], s[3], full) /\ v[n + 4] = Onward(v[n + 4 - 1], s[4], full)
      /\ v[n + 5] = Onward(v[n + 5 - 1], s[5], full)
  BY <1>2, <1>3
<1> QED BY <1>1, <1>3, <1>4

\* The orders B are the orders b with w for the order o.
Enters(B, b, o, w) ==
    /\ DOMAIN B = DOMAIN b \cup {o} /\ B[o] = w
    /\ \A y \in DOMAIN b : y # o => B[y] = b[y]

\* Noted enters an order.
LEMMA NotedFacts ==
    ASSUME NEW b, NEW o, NEW w
    PROVE  Enters(Noted(b, o, w), b, o, w)
BY DEF Noted, Enters

\* The later entry of an order stands.
LEMMA EntersTwice ==
    ASSUME NEW b, NEW o, NEW u, NEW w, NEW B, Enters(B, b, o, u), NEW C, Enters(C, B, o, w)
    PROVE  Enters(C, b, o, w)
BY DEF Enters

\* Approved and reserved.
LEMMA ApprovedReplayed ==
    ASSUME NEW r, NEW l, NEW a, NEW c, NEW b, NEW f, NEW x, NEW g, NEW t,
           Stands(r, l, a, c, b, f, x, g, t), Good(l), NEW full,
           t = [approved |-> t.approved, rejected |-> t.rejected, fills |-> t.fills],
           NEW o, o \in a, o \notin DOMAIN c, o \notin DOMAIN b,
           NEW d, d.kind = "risk", d.order = o, d.outcome = "approve",
           NEW e, e.kind = "reserved", e.order = o
    PROVE  Stands(Onward(Onward(r, d, full), e, full), l, a, Noted(c, o, "approve"),
                  Noted(b, o, [remaining |-> e.remaining, status |-> e.status]), f, x, g,
                  [t EXCEPT !.approved = @ + 1])
<1>1. PICK q, h, u : q = Onward(r, d, full) /\ h = Noted(c, o, "approve") /\ u = [t EXCEPT !.approved = @ + 1]
  OBVIOUS
<1>0. d.order \in a /\ d.order \notin DOMAIN c
  OBVIOUS
<1>2. Stands(Onward(r, d, full), l, a, Noted(c, d.order, d.outcome), b, f, x, g, u)
  <2>1. u = IF d.outcome = "approve" THEN [t EXCEPT !.approved = @ + 1] ELSE [t EXCEPT !.rejected = @ + 1]
    BY <1>1
  <2> QED BY <1>0, <2>1, RiskReplayed
<1>3. Stands(q, l, a, h, b, f, x, g, u)
  BY <1>1, <1>2
<1>4. o \in DOMAIN h /\ h[o] = "approve"
  <2>1. Enters(h, c, o, "approve")
    BY <1>1, NotedFacts
  <2> QED BY <2>1 DEF Enters
<1>5. Stands(Onward(q, e, full), l, a, h,
             Noted(b, e.order, [remaining |-> e.remaining, status |-> e.status]), f, x, g, u)
  BY <1>3, <1>4, ReservedReplayed
<1> QED BY <1>1, <1>5

\* Approved, reserved, not filled and released.
LEMMA UnfilledOrderReplayed ==
    ASSUME NEW r, NEW l, NEW a, NEW c, NEW b, NEW f, NEW x, NEW g, NEW t,
           Stands(r, l, a, c, b, f, x, g, t), Good(l), NEW full,
           t = [approved |-> t.approved, rejected |-> t.rejected, fills |-> t.fills],
           NEW o, o \in a, o \notin DOMAIN c, o \notin DOMAIN b,
           NEW d, d.kind = "risk", d.order = o, d.outcome = "approve",
           NEW e, e.kind = "reserved", e.order = o, e.status = "active",
           NEW i, i.kind = "unfilled", i.order = o,
           NEW j, j.kind = "released", j.order = o, j.status = "expired"
    PROVE  \E B : /\ Enters(B, b, o, [remaining |-> e.remaining, status |-> "expired"])
                  /\ Stands(Onward(Onward(Onward(Onward(r, d, full), e, full), i, full), j, full),
                            l, a, Noted(c, o, "approve"), B, f, x, g, [t EXCEPT !.approved = @ + 1])
<1>1. PICK q, h, u, B : /\ q = Onward(Onward(r, d, full), e, full)
                        /\ h = Noted(c, o, "approve") /\ u = [t EXCEPT !.approved = @ + 1]
                        /\ B = Noted(b, o, [remaining |-> e.remaining, status |-> e.status])
  OBVIOUS
<1>2. Stands(q, l, a, h, B, f, x, g, u)
  BY <1>1, ApprovedReplayed
<1>3. o \in DOMAIN h /\ h[o] = "approve"
  <2>1. Enters(h, c, o, "approve")
    BY <1>1, NotedFacts
  <2> QED BY <2>1 DEF Enters
<1>4. Enters(B, b, o, [remaining |-> e.remaining, status |-> e.status])
  BY <1>1, NotedFacts
<1>5. o \in DOMAIN B /\ B[o].remaining = e.remaining /\ B[o].status = "active"
  BY <1>4 DEF Enters
<1>6. Stands(Onward(q, i, full), l, a, h, B, f, x, g, u)
  BY <1>2, <1>3, UnfilledReplayed
<1>7. PICK p, C : p = Onward(q, i, full)
                  /\ C = Noted(B, j.order, [remaining |-> B[j.order].remaining, status |-> j.status])
  OBVIOUS
<1>8. Stands(p, l, a, h, B, f, x, g, u) /\ j.order \in DOMAIN B /\ B[j.order].status = "active"
      /\ j.status \in {"cancelled", "expired", "rejected"}
  BY <1>5, <1>6, <1>7
<1>9. Stands(Onward(p, j, full), l, a, h, C, f, x, g, u)
  BY <1>7, <1>8, ReleasedReplayed
<1>10. Enters(C, B, o, [remaining |-> e.remaining, status |-> "expired"])
  BY <1>5, <1>7, NotedFacts
<1>11. Enters(C, b, o, [remaining |-> e.remaining, status |-> "expired"])
  BY <1>4, <1>10, EntersTwice
<1> QED BY <1>1, <1>7, <1>9, <1>11

\* Approved, reserved, filled and updated.
LEMMA FilledOrderReplayed ==
    ASSUME NEW r, NEW l, NEW a, NEW c, NEW b, NEW f, NEW x, NEW g, NEW t,
           Stands(r, l, a, c, b, f, x, g, t), Good(l), NEW full,
           t = [approved |-> t.approved, rejected |-> t.rejected, fills |-> t.fills],
           NEW o, o \in a, o \notin DOMAIN c, o \notin DOMAIN b, o \notin f,
           NEW d, d.kind = "risk", d.order = o, d.outcome = "approve",
           NEW e, e.kind = "reserved", e.order = o, e.status = "active", e.remaining \in Int,
           NEW i, i.kind = "filled", i.order = o, i.fill.id = o, i.fill.quantity \in Int,
           i.fill.quantity <= e.remaining, i.fill.at \div 10 + SettlementLag = i.due,
           NEW m, m = ApplyFill(l, i.fill, i.fill.at \div 10, Horizon), Good(m),
           NEW j, j.kind = "updated", j.order = o, j.remaining = e.remaining - i.fill.quantity,
           j.status = IF j.remaining = 0 THEN "filled" ELSE "active"
    PROVE  \E B : /\ Enters(B, b, o, [remaining |-> j.remaining, status |-> j.status])
                  /\ Stands(Onward(Onward(Onward(Onward(r, d, full), e, full), i, full), j, full),
                            m, a, Noted(c, o, "approve"), B, f \cup {o}, x, g,
                            [t EXCEPT !.approved = @ + 1, !.fills = @ + 1])
<1>1. PICK q, h, u, B : /\ q = Onward(Onward(r, d, full), e, full)
                        /\ h = Noted(c, o, "approve") /\ u = [t EXCEPT !.approved = @ + 1]
                        /\ B = Noted(b, o, [remaining |-> e.remaining, status |-> e.status])
  OBVIOUS
<1>2. Stands(q, l, a, h, B, f, x, g, u)
  BY <1>1, ApprovedReplayed
<1>3. o \in DOMAIN h /\ h[o] = "approve" /\ DOMAIN u = {"approved", "rejected", "fills"}
  <2>1. Enters(h, c, o, "approve")
    BY <1>1, NotedFacts
  <2>2. o \in DOMAIN h /\ h[o] = "approve"
    BY <2>1 DEF Enters
  <2>3. DOMAIN u = {"approved", "rejected", "fills"}
    BY <1>1
  <2> QED BY <2>2, <2>3
<1>4. Enters(B, b, o, [remaining |-> e.remaining, status |-> e.status])
  BY <1>1, NotedFacts
<1>5. o \in DOMAIN B /\ B[o].remaining = e.remaining /\ B[o].status = "active"
  BY <1>4 DEF Enters
<1>6. PICK p, C, k, w : /\ p = Onward(q, i, full)
                        /\ C = Noted(B, i.order, [remaining |-> B[i.order].remaining - i.fill.quantity,
                                                  status |-> "awaiting_update"])
                        /\ k = f \cup {i.fill.id} /\ w = [u EXCEPT !.fills = @ + 1]
  OBVIOUS
<1>7. i.order \in DOMAIN h /\ h[i.order] = "approve" /\ i.order \in DOMAIN B /\ B[i.order].status = "active"
      /\ B[i.order].remaining \in Int /\ i.fill.quantity <= B[i.order].remaining /\ i.fill.id \notin f
  BY <1>3, <1>5
<1>8. Stands(p, m, a, h, C, k, x, g, w)
  BY <1>2, <1>3, <1>6, <1>7, FilledReplayed
<1>9. Enters(C, B, o, [remaining |-> j.remaining, status |-> "awaiting_update"])
  BY <1>5, <1>6, NotedFacts
<1>10. Enters(C, b, o, [remaining |-> j.remaining, status |-> "awaiting_update"])
  BY <1>4, <1>9, EntersTwice
<1>11. j.order \in DOMAIN C /\ C[j.order].remaining = j.remaining /\ C[j.order].status = "awaiting_update"
  BY <1>10 DEF Enters
<1>12. PICK D : D = Noted(C, j.order, [remaining |-> j.remaining, status |-> j.status])
  OBVIOUS
<1>13. Stands(Onward(p, j, full), m, a, h, D, k, x, g, w)
  BY <1>8, <1>11, <1>12, UpdatedReplayed
<1>14. Enters(D, C, o, [remaining |-> j.remaining, status |-> j.status])
  BY <1>12, NotedFacts
<1>15. Enters(D, b, o, [remaining |-> j.remaining, status |-> j.status])
  BY <1>10, <1>14, EntersTwice
<1>16. w = [t EXCEPT !.approved = @ + 1, !.fills = @ + 1] /\ k = f \cup {o}
  BY <1>1, <1>6
<1> QED BY <1>1, <1>6, <1>13, <1>15, <1>16

\* The orders b of the replay are the orders of the book k.
Matches(b, k) ==
    /\ DOMAIN b = DOMAIN k
    /\ \A y \in DOMAIN k : b[y] = [remaining |-> k[y].remaining, status |-> k[y].status]

\* An order entered in the book and in the replay.
LEMMA EntersBook ==
    ASSUME NEW b, NEW k, Matches(b, k), NEW o, NEW w, NEW m, Enters(m, k, o, w),
           NEW B, Enters(B, b, o, [remaining |-> w.remaining, status |-> w.status])
    PROVE  Matches(B, m)
BY DEF Matches, Enters

\* The replay follows what an execution does to intents, book and ledger.
LEMMA OrderTaken ==
    ASSUME NEW r, Follows(r), phase # "decide", phase' = phase, day' = day,
           NEW intent \in intents, intents' = intents \ {intent},
           \A a \in intents : a.id = intent.id => a = intent,
           NEW outcome, NEW l, ledger' = l, NEW t, tally' = t, NEW k, book' = k,
           NEW b, Matches(b, k), DOMAIN k \subseteq DOMAIN book \cup {intent.id},
           NEW f, f \subseteq DOMAIN k,
           NEW q, Stands(q, l, r.intents, Noted(r.outcome, intent.id, outcome), b, f, l.applied, r.aged, t)
    PROVE  Follows(q)'
<1> DEFINE h == Noted(r.outcome, intent.id, outcome)
<1>1. /\ Shape(q) /\ q.ok = TRUE /\ q.ledger = l /\ q.intents = r.intents
      /\ q.outcome = h /\ q.orders = b /\ q.fills = f
      /\ q.actions = l.applied /\ q.aged = r.aged /\ q.tally = t
  BY DEF Stands
<1>2. DOMAIN h = DOMAIN r.outcome \cup {intent.id}
  BY DEF Noted
<1> HIDE DEF h
<1>3. /\ DOMAIN book \subseteq DOMAIN r.outcome /\ DOMAIN r.outcome \subseteq r.intents
      /\ \A a \in intents : a.id \in r.intents /\ a.id \notin DOMAIN r.outcome
      /\ \A o \in r.intents : o[1] \in Int /\ (o[1] < day \/ (o[1] = day /\ phase # "decide"))
      /\ \A u \in r.aged : u \in Int /\ u < Close(day)
  BY DEF Follows
<1>4. /\ DOMAIN k \subseteq DOMAIN h /\ DOMAIN h \subseteq r.intents
      /\ \A a \in intents' : a.id \in r.intents /\ a.id \notin DOMAIN h
  BY <1>2, <1>3
<1>5. /\ \A o \in r.intents : o[1] \in Int /\ (o[1] < day' \/ (o[1] = day' /\ phase' # "decide"))
      /\ \A u \in r.aged : u \in Int /\ u < Close(day')
  BY <1>3
<1>6. /\ DOMAIN b = DOMAIN book' /\ f \subseteq DOMAIN book'
      /\ \A y \in DOMAIN book' : b[y] = [remaining |-> book'[y].remaining, status |-> book'[y].status]
  BY DEF Matches
<1> QED BY <1>1, <1>4, <1>5, <1>6 DEF Follows

\* What a replay that follows the run knows of an order to come.
LEMMA OrderToCome ==
    ASSUME NEW r, Follows(r), NEW intent \in intents, intent.id \notin DOMAIN book
    PROVE  /\ Stands(r, ledger, r.intents, r.outcome, r.orders, r.fills, ledger.applied, r.aged, tally)
           /\ intent.id \in r.intents /\ intent.id \notin DOMAIN r.outcome
           /\ intent.id \notin DOMAIN r.orders /\ intent.id \notin r.fills
           /\ r.fills \subseteq DOMAIN book /\ Matches(r.orders, book)
BY FollowsStands DEF Follows, Matches

\* Events of an execution, when the replay follows them.
LEMMA ExecutionReplays ==
    ASSUME EngineInvariant, Replayable, phase = "execute", phase' = "execute", UNCHANGED <<config, day>>,
           NEW events, Entries(events), journal' = journal \o events, FollowsOn(events),
           \A k \in 1 .. Len(events) :
              events[k].at = Execution(day) /\ events[k].kind \notin {"closed", "snapshotted"},
           Whole(ledger'),
           NEW t, tally' = t, t = [approved |-> t.approved, rejected |-> t.rejected, fills |-> t.fills],
           \A o \in DOMAIN book' : book'[o].status \in {"active", "filled", "cancelled", "expired"}
    PROVE  ReplayInvariant'
<1>1. day \in Nat /\ FinalDue \in Nat /\ day <= FinalDue /\ Chronicle /\ Followed
      /\ LastEventAt <= Execution(day) /\ LastEventAt <= FinalTime(FinalDue)
  BY RunFacts DEF Replayable
<1>2. Execution(day) = 10 * day + 2 /\ FinalTime(FinalDue) = 10 * FinalDue + 6
  BY <1>1, ReplayTimes
<1>3. PICK at \in Int : at = Execution(day)
  BY <1>1, <1>2
<1>4. /\ Chronicle' /\ Followed'
      /\ Len(events) = 0 => LastEventAt' = LastEventAt
      /\ Len(events) # 0 => LastEventAt' = at
  <2>1. day' \in Nat /\ day <= day' /\ LastEventAt <= at
    BY <1>1, <1>3
  <2>2. \A k \in 1 .. Len(events) : events[k].at = at /\ events[k].kind \notin {"closed", "snapshotted"}
    BY <1>3
  <2> QED BY <1>1, <2>1, <2>2, JournalGoesOn
<1>5. FinalDue' = FinalDue /\ FinalTime(FinalDue)' = FinalTime(FinalDue) /\ Execution(day)' = Execution(day)
  <2>1. FinalDue' = FinalDue
    BY DEF FinalDue, LastSession
  <2> QED BY <2>1 DEF FinalTime, Execution, At
<1>6. LastEventAt' <= FinalTime(FinalDue) /\ LastEventAt' <= Execution(day)
  BY <1>1, <1>2, <1>3, <1>4
<1>7. tally' = [approved |-> tally'.approved, rejected |-> tally'.rejected, fills |-> tally'.fills]
  OBVIOUS
<1>8. Replayable'
  BY <1>1, <1>4, <1>5, <1>6, <1>7 DEF Replayable
<1> QED BY <1>8, NoVerdict

\* The tally stays a tally when one order more is approved and filled.
LEMMA TallyFilled ==
    ASSUME NEW t, t = [approved |-> t.approved, rejected |-> t.rejected, fills |-> t.fills],
           NEW x, NEW y, NEW u, u = [t EXCEPT !.approved = x, !.fills = y]
    PROVE  u = [approved |-> u.approved, rejected |-> u.rejected, fills |-> u.fills]
<1>1. DOMAIN t = {"approved", "rejected", "fills"}
  OBVIOUS
<1>2. u = [k \in {"approved", "rejected", "fills"} |-> u[k]]
  BY <1>1
<1>3. u = [k \in {"approved", "rejected", "fills"} |->
             IF k = "approved" THEN u.approved ELSE IF k = "rejected" THEN u.rejected ELSE u.fills]
  BY <1>2
<1> QED BY <1>3

\* The tally stays a tally when one order more is rejected.
LEMMA TallyRejected ==
    ASSUME NEW t, t = [approved |-> t.approved, rejected |-> t.rejected, fills |-> t.fills],
           NEW x, NEW y, NEW u, u = [t EXCEPT !.rejected = x]
    PROVE  u = [approved |-> u.approved, rejected |-> u.rejected, fills |-> u.fills]
<1>1. DOMAIN t = {"approved", "rejected", "fills"}
  OBVIOUS
<1>2. u = [k \in {"approved", "rejected", "fills"} |-> u[k]]
  BY <1>1
<1>3. u = [k \in {"approved", "rejected", "fills"} |->
             IF k = "approved" THEN u.approved ELSE IF k = "rejected" THEN u.rejected ELSE u.fills]
  BY <1>2
<1> QED BY <1>3

\* The tally stays a tally when one order more is approved.
LEMMA TallyApproved ==
    ASSUME NEW t, t = [approved |-> t.approved, rejected |-> t.rejected, fills |-> t.fills],
           NEW x, NEW y, NEW u, u = [t EXCEPT !.approved = x]
    PROVE  u = [approved |-> u.approved, rejected |-> u.rejected, fills |-> u.fills]
<1>1. DOMAIN t = {"approved", "rejected", "fills"}
  OBVIOUS
<1>2. u = [k \in {"approved", "rejected", "fills"} |-> u[k]]
  BY <1>1
<1>3. u = [k \in {"approved", "rejected", "fills"} |->
             IF k = "approved" THEN u.approved ELSE IF k = "rejected" THEN u.rejected ELSE u.fills]
  BY <1>2
<1> QED BY <1>3

\* A rejected order.
LEMMA RejectReplays ==
    ASSUME EngineInvariant, Replayable, phase = "execute", Good(ledger),
           NEW intent \in intents, Rejected(intent)
    PROVE  ReplayInvariant'
<1> DEFINE d == DecisionEvent(intent.id, "reject", Execution(day))
<1>1. /\ journal' = journal \o <<d>> /\ tally' = [tally EXCEPT !.rejected = @ + 1]
      /\ intents' = intents \ {intent} /\ UNCHANGED <<config, day, phase, ledger, book>>
  BY DEF Rejected, Append2Journal
<1>2. d.kind = "risk" /\ d.at = Execution(day) /\ d.order = intent.id /\ d.outcome = "reject"
  BY DEF DecisionEvent
<1> HIDE DEF d
<1>3. /\ intent.id \notin DOMAIN book /\ \A a \in intents : a.id = intent.id => a = intent
  BY DEF EngineInvariant, IntentsOfToday
<1>4. /\ tally = [approved |-> tally.approved, rejected |-> tally.rejected, fills |-> tally.fills]
      /\ \A o \in DOMAIN book : book[o].status \in {"active", "filled", "cancelled", "expired"}
      /\ Whole(ledger)
  BY DEF Replayable
<1>5. PICK events, u : events = <<d>> /\ u = [tally EXCEPT !.rejected = @ + 1]
  OBVIOUS
<1>6. Entries(events) /\ Len(events) = 1 /\ events[1] = d
  BY <1>5, TuplesAreEntries
<1>7. FollowsOn(events)
  <2> SUFFICES ASSUME NEW v, NEW n, NEW full, n \in Nat, Follows(v[n]), Replaying(v, n, events, full)
               PROVE  Follows(v[n + Len(events)])'
    BY DEF FollowsOn
  <2>1. PICK q, r : q = v[n + 1] /\ r = v[n]
    OBVIOUS
  <2>2. q = Onward(r, d, full) /\ Follows(r)
    BY <1>5, <2>1, OneEvent
  <2>3. PICK l, a, c, b, f, x, g, t, o, k :
              /\ l = ledger /\ a = r.intents /\ c = r.outcome /\ b = r.orders /\ f = r.fills
              /\ x = ledger.applied /\ g = r.aged /\ t = tally /\ o = intent.id /\ k = book
    OBVIOUS
  <2>4. /\ Stands(r, ledger, r.intents, r.outcome, r.orders, r.fills, ledger.applied, r.aged, tally)
        /\ intent.id \in r.intents /\ intent.id \notin DOMAIN r.outcome
        /\ intent.id \notin DOMAIN r.orders /\ intent.id \notin r.fills
        /\ r.fills \subseteq DOMAIN book /\ Matches(r.orders, book)
    BY <1>3, <2>2, OrderToCome
  <2>5. Stands(r, l, a, c, b, f, x, g, t)
    BY <2>3, <2>4
  <2>6. d.order \in a /\ d.order \notin DOMAIN c /\ Good(l)
        /\ t = [approved |-> t.approved, rejected |-> t.rejected, fills |-> t.fills]
        /\ u = IF d.outcome = "approve" THEN [t EXCEPT !.approved = @ + 1] ELSE [t EXCEPT !.rejected = @ + 1]
    BY <1>2, <1>4, <1>5, <2>3, <2>4
  <2>7. Stands(Onward(r, d, full), l, a, Noted(c, d.order, d.outcome), b, f, x, g, u)
    BY <1>2, <2>5, <2>6, RiskReplayed
  <2>8. Stands(q, l, r.intents, Noted(r.outcome, intent.id, "reject"), b, f, l.applied, r.aged, u)
    BY <1>2, <2>2, <2>3, <2>7
  <2>9. /\ Matches(b, k) /\ DOMAIN k \subseteq DOMAIN book \cup {intent.id} /\ f \subseteq DOMAIN k
        /\ ledger' = l /\ tally' = u /\ book' = k /\ phase' = phase /\ day' = day /\ phase # "decide"
    BY <1>1, <1>5, <2>3, <2>4
  <2>10. PICK outcome : outcome = "reject"
    OBVIOUS
  <2>11. Stands(q, l, r.intents, Noted(r.outcome, intent.id, outcome), b, f, l.applied, r.aged, u)
    BY <2>8, <2>10
  <2>12. Follows(q)'
    BY <1>1, <1>3, <2>2, <2>9, <2>11, OrderTaken
  <2> QED BY <1>6, <2>1, <2>12
<1>8. u = [approved |-> u.approved, rejected |-> u.rejected, fills |-> u.fills] /\ tally' = u
  BY <1>1, <1>4, <1>5, TallyRejected
<1>9. \A k \in 1 .. Len(events) :
          events[k].at = Execution(day) /\ events[k].kind \notin {"closed", "snapshotted"}
  BY <1>2, <1>6
<1>10. /\ journal' = journal \o events /\ Whole(ledger') /\ phase' = "execute"
       /\ \A o \in DOMAIN book' : book'[o].status \in {"active", "filled", "cancelled", "expired"}
  BY <1>1, <1>4, <1>5
<1> QED BY <1>1, <1>6, <1>7, <1>8, <1>9, <1>10, ExecutionReplays

\* An approved order that is not filled.
LEMMA UnfillReplays ==
    ASSUME EngineInvariant, Replayable, phase = "execute", Good(ledger),
           NEW intent \in intents, intents' = intents \ {intent}, UNCHANGED <<config, day, phase, ledger>>,
           NEW u, u = [tally EXCEPT !.approved = @ + 1], tally' = u,
           NEW k, book' = k, NEW w, Enters(k, book, intent.id, w), w.status = "expired",
           NEW d, d.kind = "risk", d.order = intent.id, d.outcome = "approve", d.at = Execution(day),
           NEW e, e.kind = "reserved", e.order = intent.id, e.status = "active",
           e.remaining = w.remaining, e.at = Execution(day),
           NEW i, i.kind = "unfilled", i.order = intent.id, i.at = Execution(day),
           NEW j, j.kind = "released", j.order = intent.id, j.status = "expired", j.at = Execution(day),
           NEW events, events = <<d, e, i, j>>, journal' = journal \o events
    PROVE  ReplayInvariant'
<1>1. events = <<d, e, i, j>> /\ u = [tally EXCEPT !.approved = @ + 1]
  OBVIOUS
<1>2. /\ Entries(events) /\ Len(events) = 4
      /\ events[1] = d /\ events[2] = e /\ events[3] = i /\ events[4] = j
  BY <1>1, TuplesAreEntries
<1>3. /\ intent.id \notin DOMAIN book /\ \A a \in intents : a.id = intent.id => a = intent
  BY DEF EngineInvariant, IntentsOfToday
<1>4. /\ tally = [approved |-> tally.approved, rejected |-> tally.rejected, fills |-> tally.fills]
      /\ \A o \in DOMAIN book : book[o].status \in {"active", "filled", "cancelled", "expired"}
      /\ Whole(ledger)
  BY DEF Replayable
<1>5. FollowsOn(events)
  <2> SUFFICES ASSUME NEW v, NEW n, NEW full, n \in Nat, Follows(v[n]), Replaying(v, n, events, full)
               PROVE  Follows(v[n + Len(events)])'
    BY DEF FollowsOn
  <2>1. PICK q, r : q = v[n + 4] /\ r = v[n]
    OBVIOUS
  <2>2. q = Onward(Onward(Onward(Onward(r, d, full), e, full), i, full), j, full) /\ Follows(r)
    BY <1>1, <2>1, FourEvents
  <2>3. PICK l, a, c, b, f, x, g, t, o :
              /\ l = ledger /\ a = r.intents /\ c = r.outcome /\ b = r.orders /\ f = r.fills
              /\ x = ledger.applied /\ g = r.aged /\ t = tally /\ o = intent.id
    OBVIOUS
  <2>4. /\ Stands(r, ledger, r.intents, r.outcome, r.orders, r.fills, ledger.applied, r.aged, tally)
        /\ intent.id \in r.intents /\ intent.id \notin DOMAIN r.outcome
        /\ intent.id \notin DOMAIN r.orders /\ intent.id \notin r.fills
        /\ r.fills \subseteq DOMAIN book /\ Matches(r.orders, book)
    BY <1>3, <2>2, OrderToCome
  <2>5. /\ Stands(r, l, a, c, b, f, x, g, t) /\ o \in a /\ o \notin DOMAIN c /\ o \notin DOMAIN b
        /\ Good(l) /\ t = [approved |-> t.approved, rejected |-> t.rejected, fills |-> t.fills]
        /\ d.order = o /\ e.order = o /\ i.order = o /\ j.order = o
    BY <1>4, <2>3, <2>4
  <2>6. PICK B : /\ Enters(B, b, o, [remaining |-> e.remaining, status |-> "expired"])
                 /\ Stands(Onward(Onward(Onward(Onward(r, d, full), e, full), i, full), j, full),
                           l, a, Noted(c, o, "approve"), B, f, x, g, [t EXCEPT !.approved = @ + 1])
    BY <2>5, UnfilledOrderReplayed
  <2>7. PICK outcome : outcome = "approve"
    OBVIOUS
  <2>8. Stands(q, l, r.intents, Noted(r.outcome, intent.id, outcome), B, f, l.applied, r.aged, u)
    BY <1>1, <2>2, <2>3, <2>6, <2>7
  <2>9. PICK h : h = book
    OBVIOUS
  <2>10. /\ Matches(b, h) /\ Enters(k, h, o, w)
         /\ Enters(B, b, o, [remaining |-> w.remaining, status |-> w.status])
    BY <2>3, <2>4, <2>6, <2>9
  <2>11. Matches(B, k)
    BY <2>10, EntersBook
  <2>12. /\ DOMAIN k \subseteq DOMAIN book \cup {intent.id} /\ f \subseteq DOMAIN k
         /\ ledger' = l /\ tally' = u /\ phase' = phase /\ day' = day /\ phase # "decide"
    BY <1>1, <2>3, <2>4 DEF Enters
  <2>13. Follows(q)'
    BY <1>3, <2>2, <2>8, <2>11, <2>12, OrderTaken
  <2> QED BY <1>2, <2>1, <2>13
<1>6. u = [approved |-> u.approved, rejected |-> u.rejected, fills |-> u.fills] /\ tally' = u
  BY <1>1, <1>4, TallyApproved
<1>7. \A y \in 1 .. Len(events) :
          events[y].at = Execution(day) /\ events[y].kind \notin {"closed", "snapshotted"}
  BY <1>2
<1>8. /\ journal' = journal \o events /\ Whole(ledger') /\ phase' = "execute"
      /\ \A o \in DOMAIN book' : book'[o].status \in {"active", "filled", "cancelled", "expired"}
  BY <1>1, <1>4 DEF Enters
<1> QED BY <1>2, <1>5, <1>6, <1>7, <1>8, ExecutionReplays

\* A fill whose rest stays reserved, or that leaves no rest.
LEMMA FillReplays ==
    ASSUME EngineInvariant, Replayable, phase = "execute", Good(ledger),
           NEW intent \in intents, intents' = intents \ {intent}, UNCHANGED <<config, day, phase>>,
           NEW m, ledger' = m, Good(m), Whole(m), m.applied = ledger.applied,
           NEW u, u = [tally EXCEPT !.approved = @ + 1, !.fills = @ + 1], tally' = u,
           NEW k, book' = k, NEW w, Enters(k, book, intent.id, w), w.status \in {"active", "filled"},
           NEW d, d.kind = "risk", d.order = intent.id, d.outcome = "approve", d.at = Execution(day),
           NEW e, e.kind = "reserved", e.order = intent.id, e.status = "active",
           e.remaining \in Int, e.at = Execution(day),
           NEW i, i.kind = "filled", i.order = intent.id, i.fill.id = intent.id, i.fill.quantity \in Int,
           i.fill.quantity <= e.remaining, i.fill.at \div 10 + SettlementLag = i.due,
           m = ApplyFill(ledger, i.fill, i.fill.at \div 10, Horizon), i.at = Execution(day),
           NEW j, j.kind = "updated", j.order = intent.id, j.remaining = e.remaining - i.fill.quantity,
           j.status = (IF j.remaining = 0 THEN "filled" ELSE "active"),
           j.remaining = w.remaining, j.status = w.status, j.at = Execution(day),
           NEW events, events = <<d, e, i, j>>, journal' = journal \o events
    PROVE  ReplayInvariant'
<1>1. events = <<d, e, i, j>> /\ u = [tally EXCEPT !.approved = @ + 1, !.fills = @ + 1]
  OBVIOUS
<1>2. /\ Entries(events) /\ Len(events) = 4
      /\ events[1] = d /\ events[2] = e /\ events[3] = i /\ events[4] = j
  BY <1>1, TuplesAreEntries
<1>3. /\ intent.id \notin DOMAIN book /\ \A a \in intents : a.id = intent.id => a = intent
  BY DEF EngineInvariant, IntentsOfToday
<1>4. /\ tally = [approved |-> tally.approved, rejected |-> tally.rejected, fills |-> tally.fills]
      /\ \A o \in DOMAIN book : book[o].status \in {"active", "filled", "cancelled", "expired"}
  BY DEF Replayable
<1>5. FollowsOn(events)
  <2> SUFFICES ASSUME NEW v, NEW n, NEW full, n \in Nat, Follows(v[n]), Replaying(v, n, events, full)
               PROVE  Follows(v[n + Len(events)])'
    BY DEF FollowsOn
  <2>1. PICK q, r : q = v[n + 4] /\ r = v[n]
    OBVIOUS
  <2>2. q = Onward(Onward(Onward(Onward(r, d, full), e, full), i, full), j, full) /\ Follows(r)
    BY <1>1, <2>1, FourEvents
  <2>3. PICK l, a, c, b, f, x, g, t, o :
              /\ l = ledger /\ a = r.intents /\ c = r.outcome /\ b = r.orders /\ f = r.fills
              /\ x = ledger.applied /\ g = r.aged /\ t = tally /\ o = intent.id
    OBVIOUS
  <2>4. /\ Stands(r, ledger, r.intents, r.outcome, r.orders, r.fills, ledger.applied, r.aged, tally)
        /\ intent.id \in r.intents /\ intent.id \notin DOMAIN r.outcome
        /\ intent.id \notin DOMAIN r.orders /\ intent.id \notin r.fills
        /\ r.fills \subseteq DOMAIN book /\ Matches(r.orders, book)
    BY <1>3, <2>2, OrderToCome
  <2>5. /\ Stands(r, l, a, c, b, f, x, g, t) /\ o \in a /\ o \notin DOMAIN c /\ o \notin DOMAIN b
        /\ o \notin f /\ Good(l)
        /\ t = [approved |-> t.approved, rejected |-> t.rejected, fills |-> t.fills]
        /\ d.order = o /\ e.order = o /\ i.order = o /\ j.order = o /\ i.fill.id = o
        /\ m = ApplyFill(l, i.fill, i.fill.at \div 10, Horizon)
    BY <1>4, <2>3, <2>4
  <2>6. PICK B : /\ Enters(B, b, o, [remaining |-> j.remaining, status |-> j.status])
                 /\ Stands(Onward(Onward(Onward(Onward(r, d, full), e, full), i, full), j, full),
                           m, a, Noted(c, o, "approve"), B, f \cup {o}, x, g,
                           [t EXCEPT !.approved = @ + 1, !.fills = @ + 1])
    BY <2>5, FilledOrderReplayed
  <2>7. PICK outcome, F : outcome = "approve" /\ F = f \cup {o}
    OBVIOUS
  <2>8. Stands(q, m, r.intents, Noted(r.outcome, intent.id, outcome), B, F, m.applied, r.aged, u)
    BY <1>1, <2>2, <2>3, <2>6, <2>7
  <2>9. PICK h : h = book
    OBVIOUS
  <2>10. /\ Matches(b, h) /\ Enters(k, h, o, w)
         /\ Enters(B, b, o, [remaining |-> w.remaining, status |-> w.status])
    BY <2>3, <2>4, <2>6, <2>9
  <2>11. Matches(B, k)
    BY <2>10, EntersBook
  <2>12. /\ DOMAIN k \subseteq DOMAIN book \cup {intent.id} /\ F \subseteq DOMAIN k
         /\ ledger' = m /\ tally' = u /\ phase' = phase /\ day' = day /\ phase # "decide"
    BY <1>1, <2>3, <2>4, <2>7 DEF Enters
  <2>13. Follows(q)'
    BY <1>3, <2>2, <2>8, <2>11, <2>12, OrderTaken
  <2> QED BY <1>2, <2>1, <2>13
<1>6. u = [approved |-> u.approved, rejected |-> u.rejected, fills |-> u.fills] /\ tally' = u
  BY <1>1, <1>4, TallyFilled
<1>7. \A y \in 1 .. Len(events) :
          events[y].at = Execution(day) /\ events[y].kind \notin {"closed", "snapshotted"}
  BY <1>2
<1>8. /\ journal' = journal \o events /\ Whole(ledger') /\ phase' = "execute"
      /\ \A o \in DOMAIN book' : book'[o].status \in {"active", "filled", "cancelled", "expired"}
  BY <1>1, <1>4 DEF Enters
<1> QED BY <1>2, <1>5, <1>6, <1>7, <1>8, ExecutionReplays

\* A fill whose rest is cancelled.
LEMMA FillReplaysCancelled ==
    ASSUME EngineInvariant, Replayable, phase = "execute", Good(ledger),
           NEW intent \in intents, intents' = intents \ {intent}, UNCHANGED <<config, day, phase>>,
           NEW m, ledger' = m, Good(m), Whole(m), m.applied = ledger.applied,
           NEW u, u = [tally EXCEPT !.approved = @ + 1, !.fills = @ + 1], tally' = u,
           NEW k, book' = k, NEW w, Enters(k, book, intent.id, w), w.status = "cancelled",
           NEW d, d.kind = "risk", d.order = intent.id, d.outcome = "approve", d.at = Execution(day),
           NEW e, e.kind = "reserved", e.order = intent.id, e.status = "active",
           e.remaining \in Int, e.at = Execution(day),
           NEW i, i.kind = "filled", i.order = intent.id, i.fill.id = intent.id, i.fill.quantity \in Int,
           i.fill.quantity <= e.remaining, i.fill.at \div 10 + SettlementLag = i.due,
           m = ApplyFill(ledger, i.fill, i.fill.at \div 10, Horizon), i.at = Execution(day),
           NEW j, j.kind = "updated", j.order = intent.id, j.remaining = e.remaining - i.fill.quantity,
           j.status = (IF j.remaining = 0 THEN "filled" ELSE "active"),
           j.remaining = w.remaining, j.status = "active", j.at = Execution(day),
           NEW s, s.kind = "released", s.order = intent.id, s.status = "cancelled", s.at = Execution(day),
           NEW events, events = <<d, e, i, j, s>>, journal' = journal \o events
    PROVE  ReplayInvariant'
<1>1. events = <<d, e, i, j, s>> /\ u = [tally EXCEPT !.approved = @ + 1, !.fills = @ + 1]
  OBVIOUS
<1>2. /\ Entries(events) /\ Len(events) = 5
      /\ events[1] = d /\ events[2] = e /\ events[3] = i /\ events[4] = j /\ events[5] = s
  BY <1>1, TuplesAreEntries
<1>3. /\ intent.id \notin DOMAIN book /\ \A a \in intents : a.id = intent.id => a = intent
  BY DEF EngineInvariant, IntentsOfToday
<1>4. /\ tally = [approved |-> tally.approved, rejected |-> tally.rejected, fills |-> tally.fills]
      /\ \A o \in DOMAIN book : book[o].status \in {"active", "filled", "cancelled", "expired"}
  BY DEF Replayable
<1>5. FollowsOn(events)
  <2> SUFFICES ASSUME NEW v, NEW n, NEW full, n \in Nat, Follows(v[n]), Replaying(v, n, events, full)
               PROVE  Follows(v[n + Len(events)])'
    BY DEF FollowsOn
  <2>1. PICK q, r : q = v[n + 5] /\ r = v[n]
    OBVIOUS
  <2>2. q = Onward(Onward(Onward(Onward(Onward(r, d, full), e, full), i, full), j, full), s, full)
        /\ Follows(r)
    BY <1>1, <2>1, FiveEvents
  <2>3. PICK l, a, c, b, f, x, g, t, o :
              /\ l = ledger /\ a = r.intents /\ c = r.outcome /\ b = r.orders /\ f = r.fills
              /\ x = ledger.applied /\ g = r.aged /\ t = tally /\ o = intent.id
    OBVIOUS
  <2>4. /\ Stands(r, ledger, r.intents, r.outcome, r.orders, r.fills, ledger.applied, r.aged, tally)
        /\ intent.id \in r.intents /\ intent.id \notin DOMAIN r.outcome
        /\ intent.id \notin DOMAIN r.orders /\ intent.id \notin r.fills
        /\ r.fills \subseteq DOMAIN book /\ Matches(r.orders, book)
    BY <1>3, <2>2, OrderToCome
  <2>5. /\ Stands(r, l, a, c, b, f, x, g, t) /\ o \in a /\ o \notin DOMAIN c /\ o \notin DOMAIN b
        /\ o \notin f /\ Good(l)
        /\ t = [approved |-> t.approved, rejected |-> t.rejected, fills |-> t.fills]
        /\ d.order = o /\ e.order = o /\ i.order = o /\ j.order = o /\ i.fill.id = o
        /\ m = ApplyFill(l, i.fill, i.fill.at \div 10, Horizon)
    BY <1>4, <2>3, <2>4
  <2>6. PICK B : /\ Enters(B, b, o, [remaining |-> j.remaining, status |-> j.status])
                 /\ Stands(Onward(Onward(Onward(Onward(r, d, full), e, full), i, full), j, full),
                           m, a, Noted(c, o, "approve"), B, f \cup {o}, x, g,
                           [t EXCEPT !.approved = @ + 1, !.fills = @ + 1])
    BY <2>5, FilledOrderReplayed
  <2>7. PICK outcome, F, p, C : /\ outcome = "approve" /\ F = f \cup {o}
           /\ p = Onward(Onward(Onward(Onward(r, d, full), e, full), i, full), j, full)
           /\ C = Noted(B, s.order, [remaining |-> B[s.order].remaining, status |-> s.status])
    OBVIOUS
  <2>8. PICK y : y = Noted(c, o, "approve")
    OBVIOUS
  <2>9. Stands(p, m, a, y, B, F, x, g, u)
    BY <1>1, <2>3, <2>6, <2>7, <2>8
  <2>10. s.order \in DOMAIN B /\ B[s.order].status = "active" /\ B[s.order].remaining = w.remaining
    BY <2>3, <2>6 DEF Enters
  <2>11. Stands(Onward(p, s, full), m, a, y, C, F, x, g, u)
    BY <2>7, <2>9, <2>10, ReleasedReplayed
  <2>12. Stands(q, m, r.intents, Noted(r.outcome, intent.id, outcome), C, F, m.applied, r.aged, u)
    BY <2>2, <2>3, <2>7, <2>8, <2>11
  <2>13. PICK h : h = book
    OBVIOUS
  <2>14. Enters(C, B, o, [remaining |-> w.remaining, status |-> w.status])
    BY <2>3, <2>7, <2>10, NotedFacts
  <2>15. /\ Matches(b, h) /\ Enters(k, h, o, w)
         /\ Enters(C, b, o, [remaining |-> w.remaining, status |-> w.status])
    BY <2>3, <2>4, <2>6, <2>13, <2>14, EntersTwice
  <2>16. Matches(C, k)
    BY <2>15, EntersBook
  <2>17. /\ DOMAIN k \subseteq DOMAIN book \cup {intent.id} /\ F \subseteq DOMAIN k
         /\ ledger' = m /\ tally' = u /\ phase' = phase /\ day' = day /\ phase # "decide"
    BY <1>1, <2>3, <2>4, <2>7 DEF Enters
  <2>18. Follows(q)'
    BY <1>3, <2>2, <2>12, <2>16, <2>17, OrderTaken
  <2> QED BY <1>2, <2>1, <2>18
<1>6. u = [approved |-> u.approved, rejected |-> u.rejected, fills |-> u.fills] /\ tally' = u
  BY <1>1, <1>4, TallyFilled
<1>7. \A y \in 1 .. Len(events) :
          events[y].at = Execution(day) /\ events[y].kind \notin {"closed", "snapshotted"}
  BY <1>2
<1>8. /\ journal' = journal \o events /\ Whole(ledger') /\ phase' = "execute"
      /\ \A o \in DOMAIN book' : book'[o].status \in {"active", "filled", "cancelled", "expired"}
  BY <1>1, <1>4 DEF Enters
<1> QED BY <1>2, <1>5, <1>6, <1>7, <1>8, ExecutionReplays

\* What a fill and a release leave of an order.
LEMMA RestFacts ==
    ASSUME NEW item, {"remaining", "status"} \subseteq DOMAIN item, NEW fill,
           NEW u, u = FillReservation(item, fill), NEW status, NEW w, w = Release(u, status)
    PROVE  /\ u.remaining = item.remaining - fill.quantity
           /\ u.status = (IF u.remaining = 0 THEN "filled" ELSE "active")
           /\ w.remaining = u.remaining /\ w.status = status
<1>1. /\ u.remaining = item.remaining - fill.quantity
      /\ u.status = (IF item.remaining - fill.quantity = 0 THEN "filled" ELSE "active")
      /\ {"remaining", "status"} \subseteq DOMAIN u
  BY DEF FillReservation
<1>2. w.remaining = u.remaining /\ w.status = status
  BY <1>1 DEF Release
<1> QED BY <1>1, <1>2

\* The book with an order that was reserved and is replaced.
LEMMA ReservedEnters ==
    ASSUME NEW intent, NEW b, intent.id \notin DOMAIN b, NEW price, NEW w,
           NEW k, k = [Reserve(b, intent, price) EXCEPT ![intent.id] = w]
    PROVE  Enters(k, b, intent.id, w) /\ Reserve(b, intent, price)[intent.id] = EnteredOrder(intent, price)
<1> DEFINE new == EnteredOrder(intent, price)
           reserved == Reserve(b, intent, price)
<1>1. reserved = [o \in DOMAIN b \cup {intent.id} |-> IF o = intent.id THEN new ELSE b[o]]
  BY DEF Reserve, EnteredOrder
<1> HIDE DEF reserved, new
<1>2. k = [reserved EXCEPT ![intent.id] = w]
  BY DEF reserved
<1>3. Enters(k, b, intent.id, w) /\ reserved[intent.id] = new
  BY <1>1, <1>2 DEF Enters
<1> QED BY <1>3 DEF reserved, new

\* One order of the day.
LEMMA ExecuteReplays == ASSUME EngineInvariant, Executing, ReplayInvariant, Execute PROVE ReplayInvariant'
<1>1. CASE \E reason : Raise(reason)
  BY <1>1, RaiseReplays
<1>2. CASE ~\E reason : Raise(reason)
  <2>1. PICK intent \in intents :
          LET quote == session.quotes[intent.instrument]
              price == EstimatedPrice(intent.side, quote.open)
              reserved == Reserve(book, intent, price)
              quantity == FilledQuantity(intent.quantity, quote)
          IN \/ Rejected(intent)
             \/ quantity = 0 /\ Unfilled(intent, reserved)
             \/ quantity # 0 /\ Filled(intent, reserved, price, quantity)
    BY <1>2 DEF Execute
  <2>2. phase = "execute"
    BY DEF Execute
  <2>3. Replayable /\ Whole(ledger) /\ Sound(ledger) /\ Good(ledger) /\ LedgerTyped(ledger)
    BY <2>2 DEF ReplayInvariant, Replayable, Executing, Standing, Sound
  <2>4. /\ session # <<>> /\ day \in Nat /\ day \in config.sessions
        /\ IntentTyped(intent, day) /\ intent.id \notin DOMAIN book
        /\ intent.instrument \in DOMAIN session.quotes
        /\ config \in {c \in Configs : ValidConfig(c)}
    BY <2>2 DEF EngineInvariant, EngineTyped, SessionTyped, IntentsOfToday
  <2>5. intent.side \in Sides /\ intent.quantity \in Nat \ {0} /\ intent.instrument \in Instruments
    BY <2>4 DEF IntentTyped
  <2>6. ValidQuote(session.quotes[intent.instrument]) /\ session.quotes[intent.instrument].open \in Nat
    BY <2>4, PricesFacts DEF EngineInvariant
  <2>7. PICK price, quantity, new, at, o :
          /\ price = EstimatedPrice(intent.side, session.quotes[intent.instrument].open)
          /\ quantity = FilledQuantity(intent.quantity, session.quotes[intent.instrument])
          /\ new = EnteredOrder(intent, price) /\ at = Execution(day) /\ o = intent.id
    OBVIOUS
  <2>8. price \in Nat /\ quantity \in Nat /\ quantity <= intent.quantity
    BY <2>5, <2>6, <2>7, EstimatedPriceFacts, FilledQuantityFacts
  <2>9. PICK reserved : reserved = Reserve(book, intent, price)
    OBVIOUS
  <2>10. \/ Rejected(intent)
         \/ quantity = 0 /\ Unfilled(intent, reserved)
         \/ quantity # 0 /\ Filled(intent, reserved, price, quantity)
    BY <2>1, <2>7, <2>9
  <2>11. \A k, w : k = [reserved EXCEPT ![o] = w] => Enters(k, book, o, w)
    BY <2>4, <2>7, <2>9, ReservedEnters
  <2>12. reserved[o] = new
    <3>1. PICK k : k = [Reserve(book, intent, price) EXCEPT ![intent.id] = 0]
      OBVIOUS
    <3> QED BY <2>4, <2>7, <2>9, <3>1, ReservedEnters
  <2>13. new.remaining = intent.quantity /\ new.status = "active" /\ {"remaining", "status"} \subseteq DOMAIN new
         /\ "cash" \in DOMAIN new
    BY <2>7 DEF EnteredOrder
  <2>14. CASE Rejected(intent)
    BY <2>2, <2>3, <2>14, RejectReplays
  <2>15. CASE Unfilled(intent, reserved)
    <3>1. PICK w : w = Release(new, "expired")
      OBVIOUS
    <3>2. w.remaining = new.remaining /\ w.status = "expired"
      BY <2>13, <3>1 DEF Release
    <3>3. PICK d, e, i, j : /\ d = DecisionEvent(o, "approve", at)
                            /\ e = ReservationEvent("reserved", o, new, at)
                            /\ i = [kind |-> "unfilled", at |-> at, order |-> o]
                            /\ j = ReservationEvent("released", o, w, at)
      OBVIOUS
    <3>4. /\ journal' = journal \o <<d, e, i, j>> /\ book' = [reserved EXCEPT ![o] = w]
          /\ tally' = [tally EXCEPT !.approved = @ + 1] /\ intents' = intents \ {intent}
          /\ UNCHANGED <<config, day, phase, ledger>>
      BY <2>7, <2>12, <2>15, <3>1, <3>3 DEF Unfilled, Append2Journal
    <3>5. /\ d.kind = "risk" /\ d.order = intent.id /\ d.outcome = "approve" /\ d.at = Execution(day)
          /\ e.kind = "reserved" /\ e.order = intent.id /\ e.status = "active"
          /\ e.remaining = w.remaining /\ e.at = Execution(day)
          /\ i.kind = "unfilled" /\ i.order = intent.id /\ i.at = Execution(day)
          /\ j.kind = "released" /\ j.order = intent.id /\ j.status = "expired" /\ j.at = Execution(day)
      BY <2>7, <2>13, <3>2, <3>3 DEF DecisionEvent, ReservationEvent
    <3>6. PICK k : k = book'
      OBVIOUS
    <3>7. book' = k /\ Enters(k, book, intent.id, w)
      BY <2>7, <2>11, <3>4, <3>6
    <3>8. PICK t, events : t = [tally EXCEPT !.approved = @ + 1] /\ events = <<d, e, i, j>>
      OBVIOUS
    <3>9. /\ tally' = t /\ journal' = journal \o events /\ intents' = intents \ {intent}
          /\ UNCHANGED <<config, day, phase, ledger>>
      BY <3>4, <3>8
    <3> QED BY <2>2, <2>3, <3>2, <3>5, <3>7, <3>8, <3>9, UnfillReplays
  <2>16. CASE quantity # 0 /\ Filled(intent, reserved, price, quantity)
    <3>1. PICK fill : fill = [id |-> o, instrument |-> intent.instrument, side |-> intent.side,
                              quantity |-> quantity, price |-> price,
                              fee |-> IncrementalFee(0, price * quantity, 0),
                              tax |-> Tax(intent.side, price * quantity), at |-> at]
      OBVIOUS
    <3>2. PICK m, u, w : /\ m = ApplyFill(ledger, fill, day, Horizon) /\ u = FillReservation(new, fill)
                         /\ w = Release(u, "cancelled")
      OBVIOUS
    <3>3. PICK d, e, i, j, s : /\ d = DecisionEvent(o, "approve", at)
                               /\ e = ReservationEvent("reserved", o, new, at)
                               /\ i = [kind |-> "filled", at |-> at, order |-> o, fill |-> fill,
                                       due |-> DueDate(day, Horizon)]
                               /\ j = ReservationEvent("updated", o, u, at)
                               /\ s = ReservationEvent("released", o, w, at)
      OBVIOUS
    <3>4. /\ Good(m) /\ ledger' = m
          /\ journal' = journal \o (<<d, e, i, j>> \o (IF u.remaining # 0 /\ config.setup.cancel
                                                      THEN <<s>> ELSE <<>>))
          /\ book' = [reserved EXCEPT ![o] = IF u.remaining # 0 /\ config.setup.cancel THEN w ELSE u]
          /\ tally' = [tally EXCEPT !.approved = @ + 1, !.fills = @ + 1]
          /\ intents' = intents \ {intent} /\ UNCHANGED <<config, day, phase>>
      BY <1>2, <2>7, <2>12, <2>16, <3>1, <3>2, <3>3, ZenonT(30) DEF Filled, Append2Journal
    <3>5. /\ fill.id = o /\ fill.quantity = quantity /\ fill.at = at
          /\ fill.side = intent.side /\ fill.instrument = intent.instrument /\ fill.price = price
      BY <3>1
    <3>6. /\ u.remaining = intent.quantity - quantity
          /\ u.status = (IF u.remaining = 0 THEN "filled" ELSE "active")
          /\ w.remaining = u.remaining /\ w.status = "cancelled"
      BY <2>13, <3>2, <3>5, RestFacts
    <3>7. fill.at \div 10 = day /\ DueDate(day, Horizon) = day + SettlementLag
      <4>1. at = 10 * day + 2
        BY <2>4, <2>7 DEF Execution, At
      <4>2. at \div 10 = day
        BY <2>4, <4>1
      <4> QED BY <2>4, <3>5, <4>2, ConfigFacts
    <3>8. FillTyped(fill)
      <4>1. PICK gross : gross = price * quantity
        OBVIOUS
      <4>2. gross \in Nat
        BY <2>8, <4>1
      <4>3. Fee(gross) \in Nat /\ Tax(intent.side, gross) \in Nat
            /\ (intent.side = "buy" => Tax(intent.side, gross) = 0)
        BY <4>2, FeeFacts, TaxFacts DEF Tax
      <4>4. IncrementalFee(0, gross, 0) = Fee(gross)
        <5>1. \A g, f \in Nat : 0 + g = g /\ f - 0 = f
          OBVIOUS
        <5>2. 0 + gross = gross /\ Fee(gross) - 0 = Fee(gross)
          BY <4>2, <4>3, <5>1
        <5> QED BY <5>2 DEF IncrementalFee
      <4>5. fill.fee = Fee(gross) /\ fill.tax = Tax(intent.side, gross)
        BY <3>1, <4>1, <4>4
      <4>6. fill.id \in OrderIds
        BY <2>4, <2>7, <3>5 DEF IntentTyped, OrderIds
      <4> QED BY <2>5, <2>8, <2>16, <3>5, <4>3, <4>5, <4>6 DEF FillTyped
    <3>9. m.applied = ledger.applied
      BY <2>3, <2>4, <3>2, <3>4, <3>8, EngineAssumption, FillFacts
    <3>10. Whole(m)
      BY <2>3, <3>2, WholeFill
    <3>11. /\ d.kind = "risk" /\ d.order = intent.id /\ d.outcome = "approve" /\ d.at = Execution(day)
           /\ e.kind = "reserved" /\ e.order = intent.id /\ e.status = "active"
           /\ e.remaining = intent.quantity /\ e.at = Execution(day)
           /\ i.kind = "filled" /\ i.order = intent.id /\ i.fill = fill
           /\ i.due = DueDate(day, Horizon) /\ i.at = Execution(day)
           /\ j.kind = "updated" /\ j.order = intent.id /\ j.remaining = u.remaining
           /\ j.status = u.status /\ j.at = Execution(day)
           /\ s.kind = "released" /\ s.order = intent.id /\ s.status = w.status /\ s.at = Execution(day)
      BY <2>7, <2>13, <3>3 DEF DecisionEvent, ReservationEvent
    <3>12. /\ e.remaining \in Int /\ i.fill.quantity \in Int /\ i.fill.quantity <= e.remaining
           /\ i.fill.id = intent.id /\ i.fill.at \div 10 + SettlementLag = i.due
           /\ m = ApplyFill(ledger, i.fill, i.fill.at \div 10, Horizon)
           /\ j.remaining = e.remaining - i.fill.quantity
           /\ j.status = (IF j.remaining = 0 THEN "filled" ELSE "active")
      BY <2>5, <2>7, <2>8, <3>2, <3>5, <3>6, <3>7, <3>11
    <3>13. PICK k : k = book'
      OBVIOUS
    <3>14. CASE u.remaining # 0 /\ config.setup.cancel
      <4>1. book' = k /\ Enters(k, book, intent.id, w)
        BY <2>7, <2>11, <3>4, <3>13, <3>14
      <4>2. journal' = journal \o <<d, e, i, j, s>>
        BY <3>4, <3>14, SomeEvents
      <4>3. w.status = "cancelled" /\ j.status = "active" /\ j.remaining = w.remaining /\ s.status = "cancelled"
        BY <3>6, <3>11, <3>14
      <4>4. PICK t, events : t = [tally EXCEPT !.approved = @ + 1, !.fills = @ + 1] /\ events = <<d, e, i, j, s>>
        OBVIOUS
      <4>5. /\ tally' = t /\ journal' = journal \o events /\ intents' = intents \ {intent}
            /\ UNCHANGED <<config, day, phase>> /\ ledger' = m /\ Good(m)
        BY <3>4, <4>2, <4>4
      <4> QED BY <2>2, <2>3, <3>9, <3>10, <3>11, <3>12, <4>1, <4>3, <4>4, <4>5, FillReplaysCancelled
    <3>15. CASE ~(u.remaining # 0 /\ config.setup.cancel)
      <4>1. book' = k /\ Enters(k, book, intent.id, u)
        BY <2>7, <2>11, <3>4, <3>13, <3>15
      <4>2. journal' = journal \o <<d, e, i, j>>
        BY <3>4, <3>15, SomeEvents
      <4>3. u.status \in {"active", "filled"} /\ j.status = u.status /\ j.remaining = u.remaining
        BY <3>6, <3>11
      <4>4. PICK t, events : t = [tally EXCEPT !.approved = @ + 1, !.fills = @ + 1] /\ events = <<d, e, i, j>>
        OBVIOUS
      <4>5. /\ tally' = t /\ journal' = journal \o events /\ intents' = intents \ {intent}
            /\ UNCHANGED <<config, day, phase>> /\ ledger' = m /\ Good(m)
        BY <3>4, <4>2, <4>4
      <4> QED BY <2>2, <2>3, <3>9, <3>10, <3>11, <3>12, <4>1, <4>3, <4>4, <4>5, FillReplays
    <3> QED BY <3>14, <3>15
  <2> QED BY <2>10, <2>14, <2>15, <2>16
<1> QED BY <1>1, <1>2

-----------------------------------------------------------------------------
(* The close. *)

\* The marks of a close and its two snapshots.
Closes(events, price, at, snapshot) ==
    /\ Entries(events) /\ Len(events) \in Nat /\ Len(events) >= 2
    /\ \A k \in 1 .. Len(events) : events[k].at = at
    /\ \A k \in 1 .. Len(events) - 2 : events[k].kind = "closed" /\ events[k].instrument \in DOMAIN price
    /\ \A i \in DOMAIN price : \E k \in 1 .. Len(events) - 2 : events[k].instrument = i
    /\ events[Len(events) - 1].kind = "snapshotted" /\ events[Len(events)].kind = "reconciled"
    /\ events[Len(events) - 1].snapshot = snapshot /\ events[Len(events)].snapshot = snapshot

\* The events are the marks, then x and y.
MarksThen(events, marks, x, y) ==
    /\ Len(events) = Len(marks) + 2
    /\ \A k \in 1 .. Len(marks) : events[k] = marks[k]
    /\ events[Len(marks) + 1] = x /\ events[Len(marks) + 2] = y

\* The marks of a close, followed by its two snapshots.
LEMMA CloseEvents ==
    ASSUME NEW price, NEW at, NEW snapshot, NEW marks, Marks(marks, "closed", price, at),
           NEW x, x.kind = "snapshotted", x.at = at, x.snapshot = snapshot,
           NEW y, y.kind = "reconciled", y.at = at, y.snapshot = snapshot,
           NEW events, events = marks \o <<x, y>>
    PROVE  Closes(events, price, at, snapshot) /\ MarksThen(events, marks, x, y)
<1> DEFINE n == Len(marks)
           s == <<x, y>>
<1>1. /\ Entries(marks) /\ n \in Nat
      /\ \A k \in 1 .. n : marks[k].kind = "closed" /\ marks[k].at = at /\ marks[k].instrument \in DOMAIN price
      /\ \A i \in DOMAIN price : \E k \in 1 .. n : marks[k].instrument = i
  BY DEF Marks
<1>2. Entries(s) /\ Len(s) = 2 /\ s[1] = x /\ s[2] = y
  BY TuplesAreEntries
<1> HIDE DEF s
<1>3. PICK t : t = s
  OBVIOUS
<1>4. events = marks \o t /\ Entries(t)
  BY <1>2, <1>3 DEF s
<1>5. Joins(marks \o t, marks, t)
  BY <1>1, <1>4, JoinIs
<1>6. /\ Entries(events) /\ Len(events) = n + 2
      /\ \A k \in 1 .. n : events[k] = marks[k]
      /\ \A k \in 1 .. 2 : events[n + k] = t[k]
  BY <1>2, <1>3, <1>4, <1>5 DEF Joins
<1>7. events[n + 1] = x /\ events[n + 2] = y
  <2>1. 1 \in 1 .. 2 /\ 2 \in 1 .. 2
    OBVIOUS
  <2> QED BY <1>2, <1>3, <1>6, <2>1
<1> HIDE DEF n
<1>8. /\ Len(events) \in Nat /\ Len(events) >= 2 /\ Len(events) - 2 = n /\ Len(events) - 1 = n + 1
      /\ \A k \in 1 .. n + 2 : k \in 1 .. n \/ k = n + 1 \/ k = n + 2
  BY <1>1, <1>6
<1>9. \A k \in 1 .. n + 2 : events[k].at = at
  BY <1>1, <1>6, <1>7, <1>8
<1>10. Closes(events, price, at, snapshot)
  <2>1. \A k \in 1 .. Len(events) : events[k].at = at
    BY <1>6, <1>9
  <2>2. events[Len(events) - 1] = x /\ events[Len(events)] = y
    BY <1>6, <1>7, <1>8
  <2>3. \A k \in 1 .. Len(events) - 2 : events[k].kind = "closed" /\ events[k].instrument \in DOMAIN price
    BY <1>1, <1>6, <1>8
  <2>4. \A i \in DOMAIN price : \E k \in 1 .. Len(events) - 2 : events[k].instrument = i
    BY <1>1, <1>6, <1>8
  <2>5. /\ events[Len(events) - 1].kind = "snapshotted" /\ events[Len(events)].kind = "reconciled"
        /\ events[Len(events) - 1].snapshot = snapshot /\ events[Len(events)].snapshot = snapshot
    BY <2>2
  <2> QED BY <1>6, <1>8, <2>1, <2>3, <2>4, <2>5 DEF Closes
<1>11. MarksThen(events, marks, x, y)
  BY <1>6, <1>7 DEF MarksThen, n
<1> QED BY <1>10, <1>11

\* A close is silent when it marks nothing while something is held.
LEMMA SilentGrows ==
    ASSUME Chronicle, NEW price, NEW at \in Int, at = Close(day), NEW snapshot,
           NEW events, Closes(events, price, at, snapshot), journal' = journal \o events
    PROVE  SilentClose' <=> (SilentClose \/ (DOMAIN price = {} /\ DOMAIN snapshot.marks # {}))
<1> DEFINE n == Len(journal)
           m == Len(events)
           i == journal'
<1>1. Entries(events)
  BY DEF Closes
<1>2. /\ n \in Nat /\ Entries(i) /\ Len(i) = n + m
      /\ DOMAIN journal = 1 .. n /\ DOMAIN i = 1 .. n + m
      /\ \A k \in 1 .. n : i[k] = journal[k]
      /\ \A k \in 1 .. m : i[n + k] = events[k]
      /\ \A k \in n + 1 .. n + m : i[k] = events[k - n]
  <2>1. PICK j : j = journal
    OBVIOUS
  <2>2. Entries(j)
    BY <2>1 DEF Chronicle
  <2>3. Joins(j \o events, j, events)
    BY <1>1, <2>2, JoinIs
  <2>4. n = Len(j) /\ i = j \o events
    BY <2>1
  <2>5. DOMAIN j = 1 .. Len(j) /\ Len(j) \in Nat /\ Entries(i) /\ DOMAIN i = 1 .. Len(i)
    BY <2>2, <2>3, <2>4, EntriesFacts DEF Joins
  <2> HIDE DEF n, i
  <2> QED BY <2>1, <2>3, <2>4, <2>5 DEF Joins
<1>3. \A k \in 1 .. n : journal[k].kind \in {"closed", "snapshotted"} =>
                          journal[k].at \in Int /\ journal[k].at < at
  BY DEF Chronicle
<1>4. /\ m \in Nat /\ m >= 2 /\ \A k \in 1 .. m : events[k].at = at
      /\ \A k \in 1 .. m - 2 : events[k].kind = "closed" /\ events[k].instrument \in DOMAIN price
      /\ \A j \in DOMAIN price : \E k \in 1 .. m - 2 : events[k].instrument = j
      /\ events[m - 1].kind = "snapshotted" /\ events[m].kind = "reconciled"
      /\ events[m - 1].snapshot = snapshot
  BY DEF Closes
<1> HIDE DEF n, m, i
<1> DEFINE Quiet(s, d, k) ==
             /\ s[k].kind = "snapshotted" /\ DOMAIN s[k].snapshot.marks # {}
             /\ ~\E j \in d : s[j].kind = "closed" /\ s[j].at = s[k].at
<1>5. \A k \in n + 1 .. n + m : i[k].at = at /\ k - n \in 1 .. m /\ i[k] = events[k - n]
  <2> SUFFICES ASSUME NEW k \in n + 1 .. n + m PROVE i[k].at = at /\ k - n \in 1 .. m /\ i[k] = events[k - n]
    OBVIOUS
  <2>1. k - n \in 1 .. m /\ i[k] = events[k - n]
    BY <1>2, <1>4
  <2> QED BY <1>4, <2>1
<1>6. \A k \in 1 .. n + m : k \in 1 .. n \/ k \in n + 1 .. n + m
  BY <1>2, <1>4
<1>7. 1 .. n \subseteq 1 .. n + m /\ n + 1 .. n + m \subseteq 1 .. n + m
  BY <1>2, <1>4
<1>8. \A k \in 1 .. n : Quiet(journal, 1 .. n, k) <=> Quiet(i, 1 .. n + m, k)
  <2> SUFFICES ASSUME NEW k \in 1 .. n, journal[k].kind = "snapshotted"
               PROVE  (\E j \in 1 .. n : journal[j].kind = "closed" /\ journal[j].at = journal[k].at)
                        <=> (\E j \in 1 .. n + m : i[j].kind = "closed" /\ i[j].at = i[k].at)
    BY <1>2
  <2>1. i[k] = journal[k] /\ journal[k].at \in Int /\ journal[k].at < at
    BY <1>2, <1>3
  <2>2. \A j \in n + 1 .. n + m : ~(i[j].kind = "closed" /\ i[j].at = i[k].at)
    BY <1>5, <2>1
  <2> QED BY <1>2, <1>6, <1>7, <2>1, <2>2
<1>9. n + (m - 1) \in n + 1 .. n + m /\ m - 1 \in 1 .. m /\ i[n + (m - 1)] = events[m - 1]
  <2>1. m - 1 \in 1 .. m /\ n + (m - 1) \in n + 1 .. n + m
    BY <1>2, <1>4
  <2> QED BY <1>2, <2>1
<1>10. \A k \in n + 1 .. n + m : i[k].kind = "snapshotted" => k = n + (m - 1)
  <2> SUFFICES ASSUME NEW k \in n + 1 .. n + m, i[k].kind = "snapshotted" PROVE k = n + (m - 1)
    OBVIOUS
  <2>1. k - n \in 1 .. m /\ events[k - n].kind = "snapshotted"
    BY <1>5
  <2>2. k - n \notin 1 .. m - 2 /\ k - n # m
    BY <1>4, <2>1
  <2>3. \A p \in Int : p \in 1 .. m /\ p \notin 1 .. m - 2 /\ p # m => p = m - 1
    BY <1>4
  <2>4. k - n = m - 1
    BY <2>1, <2>2, <2>3
  <2> QED BY <1>2, <1>4, <2>4
<1>11. (\E j \in 1 .. n + m : i[j].kind = "closed" /\ i[j].at = at) <=> DOMAIN price # {}
  <2>1. ASSUME NEW j \in 1 .. n + m, i[j].kind = "closed", i[j].at = at PROVE DOMAIN price # {}
    <3>1. j \notin 1 .. n
      BY <1>2, <1>3, <2>1
    <3>2. j \in n + 1 .. n + m
      BY <1>6, <2>1, <3>1
    <3>3. j - n \in 1 .. m /\ events[j - n].kind = "closed"
      BY <1>5, <2>1, <3>2
    <3>4. j - n # m /\ j - n # m - 1
      BY <1>4, <3>3
    <3>5. \A p \in Int : p \in 1 .. m /\ p # m /\ p # m - 1 => p \in 1 .. m - 2
      BY <1>4
    <3>6. j - n \in 1 .. m - 2
      BY <3>3, <3>4, <3>5
    <3> QED BY <1>4, <3>6
  <2>2. ASSUME DOMAIN price # {} PROVE \E j \in 1 .. n + m : i[j].kind = "closed" /\ i[j].at = at
    <3>1. PICK k \in 1 .. m - 2 : events[k].kind = "closed"
      BY <1>4, <2>2
    <3>2. k \in 1 .. m /\ n + k \in n + 1 .. n + m
      BY <1>2, <1>4, <3>1
    <3>3. i[n + k] = events[k] /\ n + k \in 1 .. n + m /\ i[n + k].at = at
      BY <1>2, <1>5, <1>7, <3>2
    <3> QED BY <3>1, <3>3
  <2> QED BY <2>1, <2>2
<1>12. Quiet(i, 1 .. n + m, n + (m - 1)) <=> (DOMAIN price = {} /\ DOMAIN snapshot.marks # {})
  <2>1. i[n + (m - 1)].at = at /\ i[n + (m - 1)].kind = "snapshotted" /\ i[n + (m - 1)].snapshot = snapshot
    BY <1>4, <1>5, <1>9
  <2> QED BY <1>11, <2>1
<1>13. \A k \in n + 1 .. n + m : Quiet(i, 1 .. n + m, k) => k = n + (m - 1)
  BY <1>10
<1>14. SilentClose <=> \E k \in 1 .. n : Quiet(journal, 1 .. n, k)
  BY <1>2 DEF SilentClose
<1>15. SilentClose' <=> \E k \in 1 .. n + m : Quiet(i, 1 .. n + m, k)
  BY <1>2 DEF SilentClose, i
<1> HIDE DEF Quiet
<1>16. (\E k \in 1 .. n + m : Quiet(i, 1 .. n + m, k))
          <=> ((\E k \in 1 .. n : Quiet(i, 1 .. n + m, k)) \/ Quiet(i, 1 .. n + m, n + (m - 1)))
  BY <1>6, <1>7, <1>9, <1>13
<1> QED BY <1>8, <1>12, <1>14, <1>15, <1>16

\* The closes of the events j precede the time t.
ClosedBefore(j, t) == \A k \in 1 .. Len(j) : j[k].kind = "closed" => j[k].at \in Int /\ j[k].at < t

\* The closes at the time of the day are those of the session.
LEMMA ClosedHere ==
    ASSUME NEW j, Entries(j), NEW at \in Int, NEW u \in Int, at < u, NEW price, NEW snapshot,
           ClosedBefore(j, at), NEW events, Closes(events, price, at, snapshot),
           NEW full, Continues(full, j \o events, u)
    PROVE  ClosedAt(full, at) = DOMAIN price
<1> DEFINE n == Len(j)
           m == Len(events)
           i == j \o events
<1>1. /\ m \in Nat /\ m >= 2 /\ \A k \in 1 .. m : events[k].at = at
      /\ \A k \in 1 .. m - 2 : events[k].kind = "closed" /\ events[k].instrument \in DOMAIN price
      /\ \A y \in DOMAIN price : \E k \in 1 .. m - 2 : events[k].instrument = y
      /\ events[m - 1].kind = "snapshotted" /\ events[m].kind = "reconciled" /\ Entries(events)
  BY DEF Closes
<1>2. Joins(i, j, events)
  BY <1>1, JoinIs
<1>3. /\ n \in Nat /\ Len(i) = n + m
      /\ \A k \in 1 .. n : i[k] = j[k]
      /\ \A k \in 1 .. m : i[n + k] = events[k]
      /\ \A k \in n + 1 .. n + m : i[k] = events[k - n]
  BY <1>2, EntriesFacts DEF Joins
<1>4. /\ Entries(full) /\ Len(i) <= Len(full)
      /\ \A k \in 1 .. Len(i) : full[k] = i[k]
      /\ \A k \in Len(i) + 1 .. Len(full) : full[k].kind = "closed" => full[k].at \in Int /\ full[k].at >= u
  BY DEF Continues
<1>5. Len(full) \in Nat /\ DOMAIN full = 1 .. Len(full)
  BY <1>4, EntriesFacts
<1> HIDE DEF i, n, m
<1>6. ASSUME NEW k \in 1 .. Len(full), full[k].kind = "closed", full[k].at = at
      PROVE  full[k].instrument \in DOMAIN price
  <2>1. CASE k \in 1 .. n
    <3>1. k \in 1 .. Len(i) /\ full[k] = j[k]
      BY <1>1, <1>3, <1>4, <2>1
    <3>2. j[k].at < at /\ j[k].at \in Int
      BY <1>6, <2>1, <3>1 DEF n, ClosedBefore
    <3> QED BY <1>6, <3>1, <3>2
  <2>2. CASE k \in n + 1 .. n + m
    <3>1. k \in 1 .. Len(i) /\ k - n \in 1 .. m /\ full[k] = events[k - n]
      BY <1>1, <1>3, <1>4, <2>2
    <3>2. k - n # m /\ k - n # m - 1
      BY <1>1, <1>6, <3>1
    <3>3. k - n \in 1 .. m - 2
      BY <1>1, <3>1, <3>2, BeforeTheLastTwo
    <3> QED BY <1>1, <3>1, <3>3
  <2>3. CASE k \in Len(i) + 1 .. Len(full)
    <3>1. full[k].at >= u
      BY <1>4, <1>6, <2>3
    <3> QED BY <1>6, <3>1
  <2> QED BY <1>1, <1>3, <1>5, <2>1, <2>2, <2>3
<1>7. ASSUME NEW y \in DOMAIN price
      PROVE  \E k \in 1 .. Len(full) : full[k].kind = "closed" /\ full[k].at = at /\ full[k].instrument = y
  <2>1. PICK k \in 1 .. m - 2 : events[k].instrument = y
    BY <1>1
  <2>2. k \in 1 .. m /\ n + k \in 1 .. Len(i) /\ n + k \in 1 .. Len(full)
    BY <1>1, <1>3, <1>4, <1>5, <2>1
  <2>3. full[n + k] = events[k]
    BY <1>3, <1>4, <2>2
  <2> QED BY <1>1, <2>1, <2>2, <2>3
<1>8. ToSet(full) = {full[k] : k \in 1 .. Len(full)}
  BY <1>5 DEF ToSet
<1>9. \A y : y \in ClosedAt(full, at) <=>
          \E k \in 1 .. Len(full) : full[k].kind = "closed" /\ full[k].at = at /\ full[k].instrument = y
  BY <1>8 DEF ClosedAt
<1>10. \A y : y \in ClosedAt(full, at) <=> y \in DOMAIN price
  BY <1>6, <1>7, <1>9
<1> QED BY <1>10

\* A session without quotes ages what is held, and changes nothing when nothing is held.
LEMMA QuietClose ==
    ASSUME NEW l, Whole(l), Good(l), l.positions \in [Instruments -> Positions],
           NEW price, DOMAIN price = {},
           NEW n, n = MarkAll(AgeUnmarked(l, DOMAIN price), price)
    PROVE  /\ DOMAIN Snapshot(n).marks = {} => n = l
           /\ DOMAIN Snapshot(n).marks # {} => Snapshot(n) # Snapshot(l)
<1> DEFINE Aged(p) == [p EXCEPT !.stale = @ + 1]
           q == [i \in Instruments |->
                    IF l.positions[i].quantity # 0 /\ i \notin {} THEN Aged(l.positions[i]) ELSE l.positions[i]]
           m == AgeUnmarked(l, {})
<1>1. DOMAIN l = Fields /\ "positions" \in Fields
  BY DEF Whole, Fields
<1>2. m = WithPositions(l, q)
  BY DEF AgeUnmarked, WithPositions
<1>3. DOMAIN q = Instruments /\ q = [i \in Instruments |-> q[i]]
  OBVIOUS
<1>4. \A i \in Instruments :
          /\ l.positions[i].quantity = 0 => q[i] = l.positions[i]
          /\ l.positions[i].quantity # 0 =>
               q[i].quantity = l.positions[i].quantity /\ q[i].stale = l.positions[i].stale + 1
  BY DEF Positions
<1> HIDE DEF q, m
<1>5. Whole(m) /\ m.positions = q
  BY <1>2, WithPositionsFacts
<1>6. n = m
  <2>1. n = [m EXCEPT !.positions = [i \in Instruments |->
                IF i \in DOMAIN price THEN Mark(m, i, price[i]).positions[i] ELSE @[i]]]
    BY DEF MarkAll, m
  <2>2. [i \in Instruments |-> IF i \in DOMAIN price THEN Mark(m, i, price[i]).positions[i] ELSE m.positions[i]]
          = q
    BY <1>3, <1>5
  <2>3. n = WithPositions(m, q)
    BY <2>1, <2>2 DEF WithPositions
  <2> QED BY <1>5, <2>3, WithPositionsFacts
<1> DEFINE Marked(x) == [i \in {j \in Instruments : x.positions[j].quantity # 0} |->
                            <<x.positions[i].quantity, x.positions[i].price, x.positions[i].stale>>]
<1>7. \A x : Snapshot(x).marks = Marked(x)
  BY DEF Snapshot
<1>8. DOMAIN Marked(n) = {j \in Instruments : l.positions[j].quantity # 0}
  BY <1>4, <1>5, <1>6
<1>9. ASSUME DOMAIN Marked(n) = {} PROVE n = l
  <2>1. \A i \in Instruments : q[i] = l.positions[i]
    BY <1>4, <1>8, <1>9
  <2>2. q = l.positions
    BY <1>3, <2>1
  <2> QED BY <1>2, <1>6, <2>2, WithPositionsFacts
<1>10. ASSUME DOMAIN Marked(n) # {} PROVE Marked(n) # Marked(l)
  <2>1. PICK i \in Instruments : l.positions[i].quantity # 0
    BY <1>8, <1>10
  <2>2. Marked(n)[i] = <<q[i].quantity, q[i].price, q[i].stale>>
    BY <1>4, <1>5, <1>6, <2>1
  <2>3. Marked(l)[i] = <<l.positions[i].quantity, l.positions[i].price, l.positions[i].stale>>
    BY <2>1
  <2>4. q[i].stale # l.positions[i].stale
    <3>1. l.positions[i].stale \in Nat
      BY DEF Positions
    <3> QED BY <1>4, <2>1, <3>1
  <2> HIDE DEF Marked
  <2> QED BY <2>2, <2>3, <2>4
<1> HIDE DEF Marked
<1> QED BY <1>7, <1>9, <1>10

\* A replay that follows the run to the close.
LEMMA CloseMoves ==
    ASSUME NEW r, Follows(r), day \in Nat, day' = day + 1, UNCHANGED <<intents, book, tally>>,
           NEW m, ledger' = m, NEW g, \A t \in g : t \in Int /\ t < Close(day'),
           NEW q, Stands(q, m, r.intents, r.outcome, r.orders, r.fills, m.applied, g, tally)
    PROVE  Follows(q)'
<1>1. /\ Shape(q) /\ q.ok = TRUE /\ q.ledger = m /\ q.intents = r.intents
      /\ q.outcome = r.outcome /\ q.orders = r.orders /\ q.fills = r.fills
      /\ q.actions = m.applied /\ q.aged = g /\ q.tally = tally
  BY DEF Stands
<1>2. /\ DOMAIN r.orders = DOMAIN book
      /\ \A o \in DOMAIN book :
            r.orders[o] = [remaining |-> book[o].remaining, status |-> book[o].status]
      /\ r.fills \subseteq DOMAIN book /\ DOMAIN book \subseteq DOMAIN r.outcome
      /\ DOMAIN r.outcome \subseteq r.intents
      /\ \A a \in intents : a.id \in r.intents /\ a.id \notin DOMAIN r.outcome
      /\ \A o \in r.intents : o[1] \in Int /\ o[1] <= day
  BY DEF Follows
<1>3. \A o \in r.intents : o[1] \in Int /\ (o[1] < day' \/ (o[1] = day' /\ phase' # "decide"))
  BY <1>2
<1> QED BY <1>1, <1>2, <1>3 DEF Follows

\* A silent close stops the replay, which otherwise follows it.
Answers(q, price, snapshot) ==
    IF DOMAIN price = {} /\ DOMAIN snapshot.marks # {} THEN ~Goes(q) ELSE Follows(q)'

\* The events of a close, replayed from a run that the replay follows.
LEMMA CloseFollowed ==
    ASSUME EngineInvariant, Sound(ledger), Whole(ledger), day' = day + 1, UNCHANGED <<intents, book, tally>>,
           NEW at, at = Close(day), NEW price, DOMAIN price \subseteq Instruments,
           NEW m, m = MarkAll(AgeUnmarked(ledger, DOMAIN price), price), ledger' = m,
           Good(m), Checked(m) = m, m.applied = ledger.applied,
           NEW marks, marks = MarkEvents("closed", price, at), Marks(marks, "closed", price, at),
           NEW snapshot, snapshot = Snapshot(m),
           NEW x, x.kind = "snapshotted", x.at = at, x.snapshot = snapshot,
           NEW y, y.kind = "reconciled", y.at = at, y.snapshot = snapshot,
           NEW events, events = marks \o <<x, y>>,
           NEW full, ClosedAt(full, at) = DOMAIN price,
           NEW v, NEW n \in Nat, Replaying(v, n, events, full), Follows(v[n]),
           NEW q, q = v[n + Len(events)]
    PROVE  Answers(q, price, snapshot)
<1>1. /\ Entries(events) /\ Len(events) = Len(marks) + 2 /\ Len(marks) \in Nat
      /\ \A k \in 1 .. Len(marks) : events[k] = marks[k]
      /\ events[Len(marks) + 1] = x /\ events[Len(marks) + 2] = y
  <2>1. Closes(events, price, at, snapshot) /\ MarksThen(events, marks, x, y)
    BY CloseEvents
  <2> QED BY <2>1 DEF Closes, Marks, MarksThen
<1>2. \A k \in 1 .. Len(events) : v[n + k] = Onward(v[n + k - 1], events[k], full)
  BY DEF Replaying
<1>3. PICK c, p, r : c = Len(marks) /\ p = v[n + c] /\ r = v[n]
  OBVIOUS
<1>4. q = Onward(Onward(p, x, full), y, full)
  <2>1. /\ c \in Nat /\ c + 1 \in 1 .. c + 2 /\ c + 2 \in 1 .. c + 2
        /\ n + (c + 1) - 1 = n + c /\ n + (c + 2) - 1 = n + (c + 1)
    <3>1. c \in Nat
      BY <1>1, <1>3
    <3> QED BY <3>1
  <2>2. v[n + (c + 1)] = Onward(v[n + c], x, full)
    BY <1>1, <1>2, <1>3, <2>1
  <2>3. v[n + (c + 2)] = Onward(v[n + (c + 1)], y, full)
    BY <1>1, <1>2, <1>3, <2>1
  <2> QED BY <1>1, <1>3, <2>2, <2>3
<1>5. \A k \in 1 .. c : v[n + k] = Onward(v[n + k - 1], marks[k], full)
  <2>1. c \in Nat /\ 1 .. c \subseteq 1 .. Len(events)
    BY <1>1, <1>3
  <2> QED BY <1>1, <1>2, <1>3, <2>1
<1>6. /\ Follows(r) /\ day \in Nat /\ Good(ledger) /\ ledger.positions \in [Instruments -> Positions]
      /\ DOMAIN ledger.positions = Instruments
      /\ ledger.positions = [i \in Instruments |-> ledger.positions[i]]
  BY <1>3, RunFacts DEF Sound, LedgerTyped
<1>7. /\ at \in Int /\ at < Close(day') /\ at \notin r.aged
      /\ \A t \in r.aged : t \in Int /\ t < at
  <2>1. \A d \in Nat : Close(d) \in Int /\ Close(d) < Close(d + 1)
    BY DEF Close, At
  <2>2. at \in Int /\ at < Close(day')
    BY <1>6, <2>1
  <2>3. \A t \in r.aged : t \in Int /\ t < at
    BY <1>6 DEF Follows
  <2> QED BY <2>2, <2>3
<1>8. PICK l, a, o, b, f, z, g, t :
            /\ l = ledger /\ a = r.intents /\ o = r.outcome /\ b = r.orders /\ f = r.fills
            /\ z = ledger.applied /\ g = r.aged /\ t = tally
  OBVIOUS
<1>9. Stands(r, l, a, o, b, f, z, g, t)
  BY <1>6, <1>8, FollowsStands
<1>10. /\ Whole(l) /\ Good(l) /\ l.positions \in [Instruments -> Positions]
       /\ DOMAIN l.positions = Instruments
       /\ l.positions = [i \in Instruments |-> l.positions[i]]
       /\ m = MarkAll(AgeUnmarked(l, DOMAIN price), price) /\ m.applied = z
  BY <1>6, <1>8
<1>11. ASSUME NEW h, Stands(p, m, a, o, b, f, z, h, t), \A u \in h : u \in Int /\ u < Close(day')
       PROVE  Follows(q)'
  <2>1. x.kind \in {"snapshotted", "reconciled"} /\ y.kind \in {"snapshotted", "reconciled"}
    OBVIOUS
  <2>2. Stands(Onward(p, x, full), m, a, o, b, f, z, h, t)
    BY <1>11, <2>1, SnapshotReplayed
  <2>3. PICK w : w = Onward(p, x, full)
    OBVIOUS
  <2>4. Stands(w, m, a, o, b, f, z, h, t)
    BY <2>2, <2>3
  <2>5. Stands(Onward(w, y, full), m, a, o, b, f, z, h, t)
    BY <2>1, <2>4, SnapshotReplayed
  <2>6. Stands(q, m, r.intents, r.outcome, r.orders, r.fills, m.applied, h, tally)
    BY <1>4, <1>8, <1>10, <2>3, <2>5
  <2> QED BY <1>6, <1>11, <2>6, CloseMoves
<1>12. CASE DOMAIN price # {}
  <2>1. Len(MarkEvents("closed", price, at)) \in Nat \ {0}
    <3>1. \E k \in 1 .. Len(marks) : TRUE
      BY <1>12 DEF Marks
    <3>2. Len(marks) # 0
      BY <1>1, <3>1
    <3> QED BY <1>1, <3>2
  <2>2. \A k \in 1 .. Len(MarkEvents("closed", price, at)) :
              v[n + k] = Onward(v[n + k - 1], MarkEvents("closed", price, at)[k], full)
    BY <1>3, <1>5
  <2>3. Stands(v[n], l, a, o, b, f, z, g, t) /\ at \notin g
    BY <1>3, <1>7, <1>8, <1>9
  <2>4. Stands(v[n + Len(MarkEvents("closed", price, at))],
               MarkAll(AgeUnmarked(l, DOMAIN price), price), a, o, b, f, z, g \cup {at}, t)
    BY <1>10, <2>1, <2>2, <2>3, ClosesReplayed
  <2>5. PICK h : h = g \cup {at}
    OBVIOUS
  <2>6. Stands(p, m, a, o, b, f, z, h, t)
    BY <1>3, <1>10, <2>4, <2>5
  <2>7. \A u \in h : u \in Int /\ u < Close(day')
    <3>1. Close(day') \in Int
      <4>1. \A d \in Nat : Close(d + 1) \in Int
        BY DEF Close, At
      <4> QED BY <1>6, <4>1
    <3> QED BY <1>7, <1>8, <2>5, <3>1
  <2>8. Follows(q)'
    BY <1>11, <2>6, <2>7
  <2> QED BY <1>12, <2>8 DEF Answers
<1>13. CASE DOMAIN price = {}
  <2>1. c = 0 /\ p = r
    <3>1. \A k \in 1 .. Len(marks) : FALSE
      BY <1>13 DEF Marks
    <3>2. Len(marks) = 0
      <4>1. Len(marks) # 0 => 1 \in 1 .. Len(marks)
        BY <1>1
      <4> QED BY <3>1, <4>1
    <3> QED BY <1>3, <3>2
  <2>2. /\ DOMAIN Snapshot(m).marks = {} => m = l
        /\ DOMAIN Snapshot(m).marks # {} => Snapshot(m) # Snapshot(l)
    BY <1>10, <1>13, QuietClose
  <2>3. CASE DOMAIN Snapshot(m).marks = {}
    <3>1. Stands(p, m, a, o, b, f, z, g, t)
      BY <1>9, <2>1, <2>2, <2>3
    <3>2. \A u \in g : u \in Int /\ u < Close(day')
      <4>1. Close(day') \in Int
        <5>1. \A d \in Nat : Close(d + 1) \in Int
          BY DEF Close, At
        <5> QED BY <1>6, <5>1
      <4> QED BY <1>7, <1>8, <4>1
    <3>3. Follows(q)'
      BY <1>11, <3>1, <3>2
    <3> QED BY <2>3, <3>3 DEF Answers
  <2>4. CASE DOMAIN Snapshot(m).marks # {}
    <3>1. x.snapshot # Snapshot(l)
      BY <2>2, <2>4
    <3>2. Stands(p, l, a, o, b, f, z, g, t)
      BY <1>9, <2>1
    <3>3. ~Goes(Onward(p, x, full))
      BY <1>10, <3>1, <3>2, SnapshotRefused
    <3>4. ~Goes(q)
      BY <1>4, <3>3 DEF Onward
    <3> QED BY <1>13, <2>4, <3>4 DEF Answers
  <2> QED BY <2>3, <2>4
<1> QED BY <1>12, <1>13

\* The marks at the close, and the two snapshots after them.
LEMMA CloseSessionReplays ==
    ASSUME EngineInvariant, Executing, ReplayInvariant, CloseSession PROVE ReplayInvariant'
<1>1. CASE \E reason : Raise(reason)
  BY <1>1, RaiseReplays
<1>2. CASE ~\E reason : Raise(reason)
  <2> DEFINE price == [i \in DOMAIN session.quotes |-> session.quotes[i].close]
             n == MarkAll(AgeUnmarked(ledger, DOMAIN price), price)
  <2>1. PICK at, p, m, k, w : /\ at = Close(day) /\ p = price /\ m = n /\ k = Checked(n) /\ w = Snapshot(k)
    OBVIOUS
  <2>2. PICK marks, x, y : /\ marks = MarkEvents("closed", p, at)
                           /\ x = [kind |-> "snapshotted", at |-> at, snapshot |-> w]
                           /\ y = [kind |-> "reconciled", at |-> at, snapshot |-> w]
    OBVIOUS
  <2>3. /\ phase = "execute" /\ Good(k) /\ ledger' = k /\ phase' = "decide" /\ day' = day + 1
        /\ journal' = journal \o (marks \o <<x, y>>)
        /\ UNCHANGED <<config, intents, book, tally>>
    BY <1>2, <2>1, <2>2 DEF CloseSession, Append2Journal
  <2>4. session # <<>> /\ DOMAIN price = DOMAIN session.quotes
    BY <2>3 DEF EngineInvariant, IntentsOfToday
  <2>5. DOMAIN price \subseteq Instruments /\ \A i \in Instruments \cap DOMAIN price : price[i] \in Int
    BY <2>4, PricesFacts DEF EngineInvariant
  <2>6. Replayable /\ Chronicle /\ Followed /\ Whole(ledger) /\ Sound(ledger) /\ Good(ledger)
        /\ day <= FinalDue /\ LastEventAt <= Execution(day)
    BY <2>3 DEF ReplayInvariant, Replayable, Executing, Standing, Sound
  <2>7. day \in Nat /\ FinalDue \in Nat /\ LastEventAt \in Int
    BY <2>6, RunFacts, LastEventInt
  <2>8. at \in Int /\ LastEventAt <= at /\ at <= FinalTime(FinalDue) /\ at < Close(day') /\ Close(day') \in Int
    <3>1. at = 10 * day + 5 /\ Execution(day) = 10 * day + 2 /\ FinalTime(FinalDue) = 10 * FinalDue + 6
      BY <2>1, <2>7, ReplayTimes
    <3>2. Close(day') = 10 * (day + 1) + 5
      BY <2>3 DEF Close, At
    <3> QED BY <2>6, <2>7, <3>1, <3>2
  <2>9. Sound(AgeUnmarked(ledger, DOMAIN price)) /\ AgeUnmarked(ledger, DOMAIN price).applied = ledger.applied
        /\ Whole(AgeUnmarked(ledger, DOMAIN price))
    BY <2>6, AgeSound, WholeMarks
  <2> HIDE DEF price
  <2>10. Sound(n) /\ n.applied = ledger.applied /\ Whole(n)
    <3>1. PICK l : l = AgeUnmarked(ledger, DOMAIN price)
      OBVIOUS
    <3>2. Sound(l) /\ Whole(l) /\ n = MarkAll(l, price) /\ l.applied = ledger.applied
      BY <2>9, <3>1
    <3> HIDE DEF n
    <3>3. Sound(MarkAll(l, price)) /\ MarkAll(l, price).applied = l.applied /\ Whole(MarkAll(l, price))
      BY <2>5, <3>2, MarkSound, WholeMarks
    <3> QED BY <3>2, <3>3
  <2> HIDE DEF n
  <2>11. Checked(m) = m /\ k = m /\ Good(m) /\ Whole(m) /\ m.applied = ledger.applied /\ w = Snapshot(m)
    BY <2>1, <2>3, <2>10, SoundChecked
  <2>12. DOMAIN p \subseteq Instruments /\ m = MarkAll(AgeUnmarked(ledger, DOMAIN p), p)
         /\ Marks(marks, "closed", p, at)
    <3>1. PICK kind : kind = "closed"
      OBVIOUS
    <3>2. Marks(MarkEvents(kind, p, at), kind, p, at)
      BY <2>1, <2>5, MarkEventsFacts
    <3> QED BY <2>1, <2>2, <2>5, <3>1, <3>2 DEF n
  <2>13. /\ x.kind = "snapshotted" /\ x.at = at /\ x.snapshot = w
         /\ y.kind = "reconciled" /\ y.at = at /\ y.snapshot = w
    BY <2>2
  <2>14. PICK events : events = marks \o <<x, y>>
    OBVIOUS
  <2>15. Closes(events, p, at, w)
    BY <2>12, <2>13, <2>14, CloseEvents
  <2>16. journal' = journal \o events /\ day' \in Nat /\ day <= day' /\ Entries(events) /\ Len(events) # 0
    BY <2>3, <2>7, <2>14, <2>15 DEF Closes
  <2>17. \A i \in 1 .. Len(events) :
            /\ events[i].at = at
            /\ events[i].kind \in {"closed", "snapshotted"} => at < Close(day')
    BY <2>8, <2>15 DEF Closes
  <2>18. Chronicle' /\ LastEventAt' = at
    BY <2>6, <2>7, <2>8, <2>16, <2>17, ChronicleGrows
  <2>19. SilentClose' <=> (SilentClose \/ (DOMAIN p = {} /\ DOMAIN w.marks # {}))
    BY <2>1, <2>6, <2>8, <2>15, <2>16, SilentGrows
  <2>20. ASSUME NEW full, Continues(full, journal', Close(day')),
                NEW r, r = Rebuilt(full)[Len(journal')]
         PROVE  IF SilentClose' THEN ~Goes(r) ELSE Follows(r)'
    <3>1. PICK j, u, c, f : j = journal /\ u = Close(day') /\ c = Len(journal) /\ f = Rebuilt(full)
      OBVIOUS
    <3>2. Entries(j) /\ Len(j) >= 1 /\ c \in Nat /\ u \in Int /\ at < u /\ at <= u
          /\ ClosedBefore(j, at)
      BY <2>1, <2>6, <2>8, <3>1, EntriesFacts DEF Chronicle, ClosedBefore
    <3>3. Continues(full, j \o events, u)
      BY <2>16, <2>20, <3>1
    <3>4. ClosedAt(full, at) = DOMAIN p
      BY <2>8, <2>15, <3>2, <3>3, ClosedHere
    <3>5. \A i \in 1 .. Len(events) : events[i].kind = "closed" => events[i].at \in Int /\ events[i].at >= at
      BY <2>8, <2>15 DEF Closes
    <3>6. Continues(full, j, at) /\ Replaying(Rebuilt(full), Len(j), events, full)
      BY <2>8, <2>16, <3>2, <3>3, <3>5, ContinuesShorter
    <3>7. Continues(full, journal, Close(day)) /\ Replaying(f, c, events, full)
      BY <2>1, <3>1, <3>6
    <3>8. IF SilentClose THEN ~Goes(f[c]) ELSE Follows(f[c])
      BY <2>6, <3>1, <3>7 DEF Followed
    <3>9. r = f[c + Len(events)]
      <4>1. Joins(j \o events, j, events)
        BY <2>16, <3>2, JoinIs
      <4>2. Len(journal') = c + Len(events)
        BY <2>16, <3>1, <4>1 DEF Joins
      <4> QED BY <2>20, <3>1, <4>2
    <3>10. CASE SilentClose
      <4>1. f[c + Len(events)] = f[c]
        BY <2>16, <3>2, <3>7, <3>8, <3>10, RefusedStays
      <4> QED BY <2>19, <3>8, <3>9, <3>10, <4>1
    <3>11. CASE ~SilentClose
      <4>1. Follows(f[c])
        BY <3>8, <3>11
      <4>2. day' = day + 1 /\ UNCHANGED <<intents, book, tally>> /\ ledger' = m
        BY <2>3, <2>11
      <4>3. Answers(r, p, w)
        BY <2>1, <2>2, <2>6, <2>11, <2>12, <2>13, <2>14, <3>2, <3>4, <3>7, <3>9, <4>1, <4>2, CloseFollowed
      <4> QED BY <2>19, <3>11, <4>3 DEF Answers
    <3> QED BY <3>10, <3>11
  <2>21. Followed'
    BY <2>20 DEF Followed
  <2>22. FinalDue' = FinalDue /\ FinalTime(FinalDue)' = FinalTime(FinalDue)
    <3>1. FinalDue' = FinalDue
      BY <2>3 DEF FinalDue, LastSession
    <3> QED BY <3>1 DEF FinalTime, At
  <2>23. Replayable'
    BY <2>3, <2>6, <2>8, <2>11, <2>18, <2>21, <2>22 DEF Replayable
  <2> QED BY <2>3, <2>23, NoVerdict
<1> QED BY <1>1, <1>2

-----------------------------------------------------------------------------
(* The verdict. *)
\* The end of the run: the replay accepts the journal, or says why not.
LEMMA CompleteReplays ==
    ASSUME EngineInvariant, Executing, ReplayInvariant, Complete PROVE ReplayInvariant'
<1>1. CASE \E reason : Raise(reason)
  BY <1>1, RaiseReplays
<1>2. CASE ~\E reason : Raise(reason)
  <2>1. PICK at, k : at = FinalTime(FinalDue) /\ k = Checked(ledger)
    OBVIOUS
  <2>2. PICK e : e = [kind |-> "completed", at |-> at, snapshot |-> Snapshot(k), tally |-> tally]
    OBVIOUS
  <2>3. /\ phase = "decide" /\ Good(k) /\ journal' = journal \o <<e>> /\ phase' = "done"
        /\ UNCHANGED <<config, day, ledger, book, tally>>
    BY <1>2, <2>1, <2>2 DEF Complete, Append2Journal
  <2>4. Replayable /\ Chronicle /\ Followed /\ Sound(ledger) /\ Good(ledger)
        /\ LastEventAt <= FinalTime(FinalDue)
        /\ \A o \in DOMAIN book : book[o].status \in {"active", "filled", "cancelled", "expired"}
    BY <2>3 DEF ReplayInvariant, Replayable, Executing, Standing, Sound
  <2>5. day \in Nat /\ FinalDue \in Nat /\ LastEventAt \in Int
    BY <2>4, RunFacts, LastEventInt
  <2>6. at \in Int /\ LastEventAt <= at
    <3>1. FinalTime(FinalDue) = 10 * FinalDue + 6
      BY <2>5, ReplayTimes
    <3> QED BY <2>1, <2>4, <2>5, <3>1
  <2>7. k = ledger /\ Checked(ledger) = ledger
    BY <2>1, <2>3, <2>4, SoundChecked
  <2>8. e.kind = "completed" /\ e.at = at /\ e.snapshot = Snapshot(ledger) /\ e.tally = tally
    BY <2>2, <2>7
  <2>9. PICK events, full, j, n, f, r, q :
              /\ events = <<e>> /\ full = journal' /\ j = journal /\ n = Len(journal)
              /\ f = Rebuilt(full) /\ r = f[n] /\ q = f[n + 1]
    OBVIOUS
  <2>10. /\ Entries(events) /\ Len(events) = 1 /\ events[1] = e
    BY <2>9, TuplesAreEntries
  <2>11. /\ Entries(j) /\ n = Len(j) /\ n \in Nat /\ n >= 1 /\ full = j \o events
    BY <2>3, <2>4, <2>9, EntriesFacts DEF Chronicle
  <2>12. Joins(full, j, events)
    BY <2>10, <2>11, JoinIs
  <2>13. /\ Entries(full) /\ Len(full) = n + 1 /\ full[n + 1] = e
         /\ \A i \in 1 .. n : full[i] = j[i]
    BY <2>10, <2>11, <2>12 DEF Joins
  <2>14. journal' = journal \o events /\ day' \in Nat /\ day <= day'
    BY <2>3, <2>5, <2>9
  <2>15. \A i \in 1 .. Len(events) : events[i].at = at /\ events[i].kind = "completed"
    BY <2>8, <2>10
  <2>16. Chronicle'
    BY <2>4, <2>5, <2>6, <2>10, <2>14, <2>15, ChronicleGrows
  <2>17. SilentClose' <=> SilentClose
    BY <2>4, <2>10, <2>14, <2>15, SilentStays
  <2>18. \A i \in 2 .. Len(full) : full[i - 1].at <= full[i].at
    BY <2>9, <2>16 DEF Chronicle
  <2>19. Continues(full, j, Close(day))
    <3>1. \A i \in n + 1 .. Len(full) : full[i].kind # "closed"
      <4>1. \A i \in n + 1 .. n + 1 : i = n + 1
        BY <2>11
      <4> QED BY <2>8, <2>13, <4>1
    <3> QED BY <2>11, <2>13, <3>1 DEF Continues
  <2>20. IF SilentClose THEN ~Goes(r) ELSE Follows(r)
    BY <2>4, <2>9, <2>19 DEF Followed
  <2>21. q = Onward(r, e, full)
    <3>1. n + 1 \in 2 .. Len(full) /\ n + 1 - 1 = n /\ Len(full) \in Nat
      BY <2>11, <2>13
    <3> QED BY <2>9, <2>13, <3>1, RebuiltFacts
  <2>22. Accepts(full) <=> Goes(q)
    <3>1. Rebuilt(full)[Len(full)] = q /\ full[Len(full)].kind = "completed"
      BY <2>8, <2>9, <2>13
    <3> QED BY <2>18, <3>1 DEF Accepts, Goes
  <2>23. CASE SilentClose
    <3>1. ~Goes(q)
      BY <2>20, <2>21, <2>23 DEF Onward
    <3>2. ~Accepts(journal')
      BY <2>9, <2>22, <3>1
    <3> QED BY <2>3, <2>17, <2>23, <3>2 DEF ReplayInvariant, ReplayVerdict
  <2>24. CASE ~SilentClose
    <3>1. Follows(r)
      BY <2>20, <2>24
    <3>2. PICK l, a, c, b, g, x, h, t :
                /\ l = ledger /\ a = r.intents /\ c = r.outcome /\ b = r.orders /\ g = r.fills
                /\ x = ledger.applied /\ h = r.aged /\ t = tally
      OBVIOUS
    <3>3. Stands(r, l, a, c, b, g, x, h, t)
      BY <3>1, <3>2, FollowsStands
    <3>4. Good(l) /\ Checked(l) = l /\ e.snapshot = Snapshot(l) /\ e.tally = t
      BY <2>4, <2>7, <2>8, <3>2
    <3>5. Goes(Onward(r, e, full)) <=> ~\E o \in DOMAIN b : b[o].status \in {"active", "awaiting_update"}
      BY <2>8, <3>3, <3>4, CompletionReplayed
    <3>6. DOMAIN b = DOMAIN book /\ \A o \in DOMAIN book : b[o].status = book[o].status
      <4>1. /\ DOMAIN r.orders = DOMAIN book
            /\ \A o \in DOMAIN book :
                  r.orders[o] = [remaining |-> book[o].remaining, status |-> book[o].status]
        BY <3>1 DEF Follows
      <4>2. ASSUME NEW o \in DOMAIN book PROVE r.orders[o].status = book[o].status
        <5>1. PICK z, u, w : z = r.orders[o] /\ u = book[o].remaining /\ w = book[o].status
          OBVIOUS
        <5>2. z = [remaining |-> u, status |-> w]
          BY <4>1, <5>1
        <5>3. z.status = w
          BY <5>2
        <5> QED BY <5>1, <5>3
      <4> QED BY <3>2, <4>1, <4>2
    <3>7. (\E o \in DOMAIN b : b[o].status \in {"active", "awaiting_update"}) <=> Active(book) # {}
      BY <2>4, <3>6 DEF Active
    <3>8. Accepts(full) <=> Active(book) = {}
      BY <2>21, <2>22, <3>5, <3>7
    <3>9. Active(book)' = Active(book)
      BY <2>3 DEF Active
    <3>10. Accepts(journal') <=> Active(book)' = {}
      BY <2>9, <3>8, <3>9
    <3>11. ReplayVerdict'
      BY <2>17, <2>24, <3>10 DEF ReplayVerdict
    <3> QED BY <2>3, <3>11 DEF ReplayInvariant
  <2> QED BY <2>23, <2>24
<1> QED BY <1>1, <1>2

\* A stuttering step.
LEMMA StutterReplays == ASSUME ReplayInvariant, UNCHANGED vars PROVE ReplayInvariant'
<1>1. UNCHANGED <<config, day, phase, intents, ledger, book, journal, tally>>
  BY DEF vars
<1>2. FinalDue' = FinalDue /\ LastEventAt' = LastEventAt /\ (SilentClose' <=> SilentClose)
      /\ Active(book)' = Active(book)
  BY <1>1 DEF FinalDue, LastSession, LastEventAt, SilentClose, Active
<1>3. /\ FinalTime(FinalDue)' = FinalTime(FinalDue) /\ Accounting(day)' = Accounting(day)
      /\ Execution(day)' = Execution(day) /\ Close(day)' = Close(day)
  BY <1>1, <1>2 DEF FinalTime, Accounting, Execution, Close, At
<1>4. \A r : Follows(r)' <=> Follows(r)
  BY <1>1 DEF Follows, Close, At
<1>5. Chronicle' <=> Chronicle
  BY <1>1, <1>3 DEF Chronicle
<1>6. Followed' <=> Followed
  BY <1>1, <1>2, <1>3, <1>4 DEF Followed
<1>7. ReplayVerdict' <=> ReplayVerdict
  BY <1>1, <1>2 DEF ReplayVerdict
<1>8. Replayable' <=> Replayable
  BY <1>1, <1>2, <1>3, <1>5, <1>6 DEF Replayable
<1> QED BY <1>1, <1>7, <1>8 DEF ReplayInvariant

(* Every step keeps the journal replayable. *)
LEMMA ReplaySteps ==
    ASSUME EngineInvariant, Executing, ReplayInvariant, [Next]_vars PROVE ReplayInvariant'
<1>1. CASE NoSession
  BY <1>1, NoSessionReplays
<1>2. CASE DecideSession
  <2>1. /\ phase = "decide" /\ day \in config.sessions
        /\ \E quoted \in SUBSET Instruments :
             \E quotes \in [quoted -> UNION {Quotes[i] : i \in quoted}], rows \in Rows :
                Decide(quotes, rows)
    BY <1>2 DEF DecideSession
  <2> QED BY <2>1, DecideReplays
<1>3. CASE Account
  BY <1>3, AccountReplays
<1>4. CASE Act
  BY <1>4, ActReplays
<1>5. CASE Open
  BY <1>5, OpenReplays
<1>6. CASE Execute
  BY <1>6, ExecuteReplays
<1>7. CASE CloseSession
  BY <1>7, CloseSessionReplays
<1>8. CASE Complete
  BY <1>8, CompleteReplays
<1>9. CASE Ended
  BY <1>9, StutterReplays DEF Ended
<1>10. CASE UNCHANGED vars
  BY <1>10, StutterReplays
<1> QED BY <1>1, <1>2, <1>3, <1>4, <1>5, <1>6, <1>7, <1>8, <1>9, <1>10 DEF Next

(* replay_events accepts the journal of a completed run exactly when no order is left
   reserved and no close without quotes aged a position. *)
THEOREM VerdictTheorem == Spec => []ReplayVerdict
<1>1. Init => ReplayInvariant
  BY ReplayStarts
<1>2. EngineInvariant /\ Executing /\ ReplayInvariant /\ [Next]_vars => ReplayInvariant'
  BY ReplaySteps
<1>3. ReplayInvariant => ReplayVerdict
  BY DEF ReplayInvariant
<1> QED BY <1>1, <1>2, <1>3, EngineTheorem, ExecutingTheorem, PTL DEF Spec
=============================================================================
