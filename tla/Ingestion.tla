------------------------------- MODULE Ingestion -------------------------------
(* IngestionService.run (data/ingestion.py): downloads that a checkpoint per job lets a
   later run take from the raw store instead, a merge with the current datasets, the
   validation, and six datasets published one after another (DatasetStore).

   An answer of the provider is a number: what it says of the symbol or of the calendar;
   zero is an answer without rows, Invalid one whose prices the validation refuses.  A
   frame is a function from keys to the value of the row and the instant it was ingested
   at, which is a number of fetches.  A job stands for the hash of its arguments. *)
EXTENDS DatasetStore

CONSTANTS
    Jobs,           \* job -> the symbols in their order, and the days it asks for
    Answers,        \* request -> what the provider may answer
    MaxFetches, MaxDeaths,
    MaxIngestions,  \* how many runs, and
    MaxOverlapping, \* how many where two are alive at once, which are runs of one job
    KillPoints      \* where a run can be killed that has been alive with another one

Invalid == 99

JobNamesOf == DOMAIN Jobs

(* The three requests that name no symbol (instruments, delistings, trading days) are one
   request here. *)
Reference == "reference"

SymbolsOf(job) == {Jobs[job].symbols[i] : i \in DOMAIN Jobs[job].symbols}

(* sorted(set(selected)): no symbol is asked for twice. *)
ASSUME IngestionAssumption ==
    /\ \A j \in JobNamesOf :
         /\ Jobs[j].symbols \in Seq(SymbolsOf(j)) /\ SymbolsOf(j) # {}
         /\ \A i, k \in DOMAIN Jobs[j].symbols : Jobs[j].symbols[i] = Jobs[j].symbols[k] => i = k
         /\ Reference \notin SymbolsOf(j)
         /\ Jobs[j].days \subseteq Nat
    /\ {MaxFetches, MaxDeaths, MaxIngestions, MaxOverlapping} \subseteq Nat

VARIABLES
    fetched,        \* how many answers so far; the instant of the last one
    raw,            \* answer kept in the raw store -> the instant in its manifest
    jobs,           \* job -> its checkpoint
    ingestors,      \* writer -> the run it is in
    ended,          \* how many runs were begun and how many killed, and whether one of
                    \* those repeated a job that was complete
    overlapped      \* history: two runs were alive at once

ingestionVars ==
    <<temps, parquets, current, views, locks, fetched, raw, jobs, ingestors, ended, overlapped>>

-----------------------------------------------------------------------------
RequestsOf(job) == <<Reference>> \o Jobs[job].symbols

(* A price request names the symbol and the days, so it is a request of its job's range. *)
KeyOf(job, request) ==
    IF request = Reference THEN <<request, {}>> ELSE <<request, Jobs[job].days>>

\* Mutant: what comes in replaces what is there.
MergeOverwrites(old, new, keep, tie) ==
    [k \in DOMAIN old \cup DOMAIN new |-> IF k \in DOMAIN new THEN new[k] ELSE old[k]]

(* _merge: for a key in both frames, the row that was ingested first, or last; at equal
   instants the sort decides, which promises no order. *)
Merge(old, new, keep, tie) ==
    LET both == DOMAIN old \cap DOMAIN new
        Incoming(k) == \/ new[k].at < old[k].at /\ keep = "first"
                       \/ new[k].at > old[k].at /\ keep = "last"
                       \/ new[k].at = old[k].at /\ tie = "new"
    IN [k \in DOMAIN old \cup DOMAIN new |->
          IF k \in both THEN (IF Incoming(k) THEN new[k] ELSE old[k])
          ELSE IF k \in DOMAIN new THEN new[k] ELSE old[k]]

Got(run, request) == run.got[KeyOf(run.job, request)]

(* normalize_prices over the symbols of the job. *)
IncomingPrices(run) ==
    LET answered == {s \in SymbolsOf(run.job) : Got(run, s).value # 0}
    IN [k \in answered \X Jobs[run.job].days |->
          [value |-> Got(run, k[1]).value, at |-> Got(run, k[1]).at]]

IncomingCalendar(run) ==
    [d \in Jobs[run.job].days |-> Got(run, Reference)]

(* normalize_instruments: a symbol is listed on the first day that has a price; zero
   stands for none. *)
ListingDate(prices, s) ==
    LET days == {k[2] : k \in {x \in DOMAIN prices : x[1] = s}}
    IN IF days = {} THEN 0 ELSE CHOOSE d \in days : \A e \in days : d <= e

IncomingInstruments(run, prices) ==
    [s \in SymbolsOf(run.job) |->
        [value |-> <<Got(run, Reference).value, ListingDate(prices, s)>>,
         at |-> Got(run, Reference).at]]

(* validate_daily_prices: refused prices and symbols that were never priced are errors. *)
ErrorsIn(prices, instruments) ==
    {k \in DOMAIN prices : prices[k].value = Invalid}
        \cup {<<s, 0>> : s \in {x \in DOMAIN instruments : instruments[x].value[2] = 0}}

MissingDays(prices, instruments, calendar) ==
    {k \in (DOMAIN instruments) \X (DOMAIN calendar) :
        k \notin DOMAIN prices /\ instruments[k[1]].value[2] \in 1..k[2]}

LatestInstant(run) == CHOOSE t \in {run.got[k].at : k \in DOMAIN run.got} :
                          \A k \in DOMAIN run.got : run.got[k].at <= t

QualityReport(run) ==
    LET errors == ErrorsIn(run.prices, run.instruments)
        missing == MissingDays(run.prices, run.instruments, run.calendar)
    IN IF errors \cup missing = {} THEN <<>>
       ELSE <<errors, missing, LatestInstant(run)>>

-----------------------------------------------------------------------------
(* The datasets in the order in which they are published, and their versions. *)
Publications ==
    <<"quality", "prices", "instruments", "calendar", "universe", "universe_metadata">>

ASSUME DatasetsAssumption == Datasets = {Publications[k] : k \in DOMAIN Publications}

Sources(run) == {<<k, run.got[k].value>> : k \in DOMAIN run.got}

DatasetVersion(dataset, data, run) == <<dataset, Sources(run), data>>

Values(frame) == [k \in DOMAIN frame |-> frame[k].value]

(* The membership is computed from the values of the rows; the metadata name the version
   of the instruments. *)
DataOf(dataset, run) ==
    CASE dataset = "quality" -> QualityReport(run)
      [] dataset = "prices" -> run.prices
      [] dataset = "instruments" -> run.instruments
      [] dataset = "calendar" -> run.calendar
      [] dataset = "universe" ->
           <<Values(run.instruments), Values(run.prices), DOMAIN run.calendar>>
      [] dataset = "universe_metadata" ->
           <<DatasetVersion("instruments", run.instruments, run), DOMAIN run.calendar>>

Publication(run) == Publications[run.next]

Staged(run) == DatasetVersion(Publication(run), DataOf(Publication(run), run), run)

-----------------------------------------------------------------------------
NoIngestion ==
    [pc |-> "idle", job |-> "none", completed |-> <<>>, got |-> <<>>,
     prices |-> <<>>, calendar |-> <<>>, instruments |-> <<>>, next |-> 1]

IngestionInit ==
    /\ DatasetInit
    /\ fetched = 0 /\ raw = <<>>
    /\ jobs = [j \in JobNamesOf |-> [completed |-> <<>>, status |-> "open"]]
    /\ ingestors = [p \in Writers |-> NoIngestion]
    /\ ended = [begun |-> 0, killed |-> 0, repeated |-> FALSE]
    /\ overlapped = FALSE

Ingesting(p) == ingestors[p].pc # "idle"

Set(p, run) == ingestors' = [ingestors EXCEPT ![p] = run]

Goto(p, pc) == Set(p, [ingestors[p] EXCEPT !.pc = pc])

(* An exception, or a signal, ends the run. *)
EndRun(p) ==
    /\ Set(p, NoIngestion)
    /\ ReleaseAll(p)

BeginIngestion(p, j) ==
    /\ ~Ingesting(p)
    /\ overlapped' = (overlapped \/ \E r \in Writers : Ingesting(r))
    /\ \A r \in Writers : Ingesting(r) => ingestors[r].job = j
    /\ ended.begun < IF overlapped' THEN MaxOverlapping ELSE MaxIngestions
    /\ ended' = [ended EXCEPT !.begun = @ + 1]
    /\ Set(p, [NoIngestion EXCEPT !.pc = "obtain", !.job = j,
                                  !.completed = jobs[j].completed])
    /\ UNCHANGED <<datasetVars, fetched, raw, jobs>>

(* obtain: the requests in their order. *)
NextRequest(p) == RequestsOf(ingestors[p].job)[Cardinality(DOMAIN ingestors[p].got) + 1]

HasRequest(p) ==
    /\ ingestors[p].pc = "obtain"
    /\ Cardinality(DOMAIN ingestors[p].got) < Len(RequestsOf(ingestors[p].job))

HasAll(p) == ingestors[p].pc = "obtain" /\ ~HasRequest(p)

NextKey(p) == KeyOf(ingestors[p].job, NextRequest(p))

RawKey(key, answer) == <<key[1], key[2], answer>>

ObtainSaved(p) ==
    LET key == NextKey(p)
        value == ingestors[p].completed[key]
    IN /\ HasRequest(p) /\ key \in DOMAIN ingestors[p].completed
       /\ Set(p, [ingestors[p] EXCEPT
                    !.got = Put(@, key, [value |-> value, at |-> raw[RawKey(key, value)]])])
       /\ UNCHANGED <<datasetVars, fetched, raw, jobs, ended, overlapped>>

(* fetch and put_raw: an answer that is in the raw store keeps its first manifest.  (The code
   names the file by the checksum of its body, so that two requests with the same answer share
   it and its instant; the model keeps requests apart.) *)
Fetch(p, answer) ==
    LET key == NextKey(p)
    IN /\ HasRequest(p)
       /\ key \notin DOMAIN ingestors[p].completed
       /\ fetched < MaxFetches /\ fetched' = fetched + 1
       /\ raw' = IF RawKey(key, answer) \in DOMAIN raw THEN raw
                 ELSE Put(raw, RawKey(key, answer), fetched')
       /\ Set(p, [ingestors[p] EXCEPT !.pc = "save",
                    !.completed = Put(@, key, answer),
                    !.got = Put(@, key, [value |-> answer, at |-> fetched'])])
       /\ UNCHANGED <<datasetVars, jobs, ended, overlapped>>

\* Mutant: the job is complete when everything has been downloaded.
SaveObtainedComplete(p) ==
    LET run == ingestors[p]
    IN /\ run.pc = "save"
       /\ jobs' = [jobs EXCEPT ![run.job] =
                      [completed |-> run.completed,
                       status |-> IF Cardinality(DOMAIN run.got) = Len(RequestsOf(run.job))
                                  THEN "complete" ELSE "open"]]
       /\ Goto(p, "obtain")
       /\ UNCHANGED <<datasetVars, fetched, raw, ended, overlapped>>

(* save_checkpoint writes all that this run knows over whatever is there.  (The code also puts
   back the status that this run has loaded, which differs from the one that is there only
   when another run of the job has completed it meanwhile; the model keeps that status.) *)
SaveObtained(p) ==
    /\ ingestors[p].pc = "save"
    /\ jobs' = [jobs EXCEPT ![ingestors[p].job].completed = ingestors[p].completed]
    /\ Goto(p, "obtain")
    /\ UNCHANGED <<datasetVars, fetched, raw, ended, overlapped>>

Latest(dataset) == IF HasCurrent(dataset) THEN current[dataset][3] ELSE <<>>

(* The merges.  A current file that is not whole raises, and so does a frame without a
   row, which has no columns to sort by. *)
MergeDataset(p, dataset, frame, pc) ==
    /\ CurrentReadable(dataset) /\ DOMAIN frame # {}
    /\ Set(p, [ingestors[p] EXCEPT !.pc = pc, ![dataset] = frame])
    /\ UNCHANGED <<datasetVars, fetched, raw, jobs, ended, overlapped>>

MergePrices(p, tie) ==
    /\ HasAll(p)
    /\ MergeDataset(p, "prices",
                    Merge(Latest("prices"), IncomingPrices(ingestors[p]), "first", tie),
                    "calendar")

MergeCalendar(p, tie) ==
    /\ ingestors[p].pc = "calendar"
    /\ MergeDataset(p, "calendar",
                    Merge(Latest("calendar"), IncomingCalendar(ingestors[p]), "first", tie),
                    "instruments")

MergeInstruments(p, tie) ==
    /\ ingestors[p].pc = "instruments"
    /\ MergeDataset(p, "instruments",
                    Merge(Latest("instruments"),
                          IncomingInstruments(ingestors[p], ingestors[p].prices), "last", tie),
                    "stage")

MergeRaises(p) ==
    /\ \/ HasAll(p)
          /\ \/ ~CurrentReadable("prices")
             \/ DOMAIN Merge(Latest("prices"), IncomingPrices(ingestors[p]), "first", "old") = {}
       \/ ingestors[p].pc = "calendar" /\ ~CurrentReadable("calendar")
       \/ ingestors[p].pc = "instruments" /\ ~CurrentReadable("instruments")
    /\ EndRun(p)
    /\ UNCHANGED <<fetched, raw, jobs, ended, overlapped>>

-----------------------------------------------------------------------------
(* write_dataset, for the dataset that is next. *)
Outside == <<fetched, raw, jobs, ended, overlapped>>

StageExisting(p) ==
    /\ ingestors[p].pc = "stage" /\ Staged(ingestors[p]) \in DOMAIN parquets
    /\ Goto(p, "promote")
    /\ UNCHANGED <<datasetVars, Outside>>

StageMissing(p) ==
    /\ ingestors[p].pc = "stage" /\ Staged(ingestors[p]) \notin DOMAIN parquets
    /\ Goto(p, "open")
    /\ UNCHANGED <<datasetVars, Outside>>

OpenParquet(p) ==
    /\ ingestors[p].pc = "open"
    /\ OpenTemporary(p, Staged(ingestors[p]))
    /\ Goto(p, "write")
    /\ UNCHANGED Outside

WriteParquet(p) ==
    /\ ingestors[p].pc = "write"
    /\ FinishTemporary(p, Staged(ingestors[p]))
    /\ Goto(p, "rename")
    /\ UNCHANGED Outside

RenameParquet(p) ==
    /\ ingestors[p].pc = "rename"
    /\ RenameTemporary(Staged(ingestors[p]))
    /\ Goto(p, "promote")
    /\ UNCHANGED Outside

LockAndVerify(p) ==
    /\ ingestors[p].pc = "promote"
    /\ LockAndRegister(p, Publication(ingestors[p]), Staged(ingestors[p]))
    /\ Goto(p, "switch")
    /\ UNCHANGED Outside

(* os.replace without its source, or a candidate that does not verify, raises. *)
StoreRaises(p) ==
    /\ \/ ingestors[p].pc = "rename" /\ TemporaryGone(Staged(ingestors[p]))
       \/ /\ ingestors[p].pc = "promote"
          /\ PromotionRefused(Publication(ingestors[p]), Staged(ingestors[p]))
    /\ EndRun(p)
    /\ UNCHANGED Outside

Switch(p) ==
    LET run == ingestors[p]
        last == run.next = Len(Publications)
    IN /\ run.pc = "switch"
       /\ SwitchCurrent(p, Publication(run), Staged(run))
       /\ Set(p, [run EXCEPT !.next = @ + 1, !.pc = IF run.next = 1 THEN "judge"
                                                   ELSE IF last THEN "complete" ELSE "stage"])
       /\ UNCHANGED Outside

(* The report is published in any case; with an error in it the run ends. *)
Judge(p) ==
    /\ ingestors[p].pc = "judge"
    /\ IF ErrorsIn(ingestors[p].prices, ingestors[p].instruments) = {}
       THEN Goto(p, "stage") /\ UNCHANGED datasetVars
       ELSE EndRun(p)
    /\ UNCHANGED Outside

CompleteJob(p) ==
    /\ ingestors[p].pc = "complete"
    /\ jobs' = [jobs EXCEPT ![ingestors[p].job] =
                   [completed |-> ingestors[p].completed, status |-> "complete"]]
    /\ EndRun(p)
    /\ UNCHANGED <<fetched, raw, ended, overlapped>>

Killed(p) ==
    /\ Ingesting(p) /\ ended.killed < MaxDeaths
    /\ overlapped => ingestors[p].pc \in KillPoints
    /\ ended' = [ended EXCEPT !.killed = @ + 1,
                               !.repeated = @ \/ jobs[ingestors[p].job].status = "complete"]
    /\ EndRun(p)
    /\ UNCHANGED <<fetched, raw, jobs, overlapped>>

IngestionNext ==
    \E p \in Writers :
        \/ \E j \in JobNamesOf : BeginIngestion(p, j)
        \/ ObtainSaved(p) \/ SaveObtained(p)
        \/ \E answer \in UNION {Answers[r] : r \in DOMAIN Answers} :
              HasRequest(p) /\ answer \in Answers[NextRequest(p)] /\ Fetch(p, answer)
        \/ \E tie \in {"old", "new"} :
              MergePrices(p, tie) \/ MergeCalendar(p, tie) \/ MergeInstruments(p, tie)
        \/ MergeRaises(p)
        \/ StageExisting(p) \/ StageMissing(p) \/ OpenParquet(p) \/ WriteParquet(p)
        \/ RenameParquet(p) \/ LockAndVerify(p) \/ Switch(p) \/ StoreRaises(p)
        \/ Judge(p) \/ CompleteJob(p) \/ Killed(p)

IngestionSpec == IngestionInit /\ [][IngestionNext]_ingestionVars

-----------------------------------------------------------------------------
FrameOf(dataset) == current[dataset][3]

(* No pointer leads to a file that its readers refuse, although two writers of a version
   share a temporary file, one may truncate what the other is about to rename, and a
   killed one leaves it half written.  (Three writers at once can break it: README.) *)
CurrentIsReadable == \A d \in Datasets : CurrentReadable(d)

NothingUnfinished ==
    /\ \A p \in Writers : ~Ingesting(p)
    /\ \A j \in JobNamesOf : jobs[j].status = "complete" \/ jobs[j].completed = <<>>

Asked(j) ==
    {k \in SymbolsOf(j) \X Jobs[j].days : jobs[j].completed[<<k[1], Jobs[j].days>>] # 0}

(* A job is complete when what it downloaded has been published, and once every job that
   was begun is complete, the universe is the one of the current prices, instruments and
   calendar, wherever earlier runs were killed: the datasets are published one by one.
   Runs that overlap may publish over each other and are left out, and so is what follows
   the death of a run that repeats a complete job: no checkpoint tells of it. *)
PublishedWhenComplete ==
    ~overlapped =>
        /\ \A j \in JobNamesOf : jobs[j].status = "complete" =>
              HasCurrent("prices") /\ Asked(j) \subseteq DOMAIN FrameOf("prices")
        /\ NothingUnfinished /\ ~ended.repeated /\ HasCurrent("universe") =>
              FrameOf("universe") = <<Values(FrameOf("instruments")), Values(FrameOf("prices")),
                                      DOMAIN FrameOf("calendar")>>

(* Runs that do not overlap lose no price, and keep the observation that was ingested
   first: neither a later download of the same day nor a resumed job replaces it. *)
FirstObservationStays ==
    [][~overlapped' /\ HasCurrent("prices") =>
         LET now == current'["prices"][3]
         IN \A k \in DOMAIN FrameOf("prices") :
              k \in DOMAIN now /\ now[k].at <= FrameOf("prices")[k].at]_ingestionVars
=============================================================================
