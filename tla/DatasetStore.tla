----------------------------- MODULE DatasetStore -----------------------------
(* The versioned datasets of LocalArtifactStore (storage/local.py): a parquet file per
   version, written to a temporary path that every writer of the version shares, renamed,
   verified under the promotion lock of its dataset, registered as a view and named by
   current.json.

   A version stands for the checksum it is in the code: the record of what is hashed.
   The schema, the configuration and the provenance of the working tree are the same for
   all.  A manifest is written atomically, before any promotion of its version, by every
   stage that does not find it, and holds nothing that differs between them, so it is
   left out; so is the generation number, which nothing reads. *)
EXTENDS Naturals, Sequences, FiniteSets

CONSTANTS Datasets, Writers

Nobody == "none"

VARIABLES
    temps,      \* version -> the file at its temporary path
    parquets,   \* version -> the file at its final path
    current,    \* dataset -> the version that current.json names
    views,      \* dataset -> the version behind the view in the catalog
    locks       \* dataset -> the holder of the promotion lock, or Nobody

datasetVars == <<temps, parquets, current, views, locks>>

DatasetInit ==
    /\ temps = <<>> /\ parquets = <<>>
    /\ current = <<>> /\ views = <<>>
    /\ locks = [d \in Datasets |-> Nobody]

Put(f, k, x) == [y \in DOMAIN f \cup {k} |-> IF y = k THEN x ELSE f[y]]

Drop(f, k) == [y \in DOMAIN f \ {k} |-> f[y]]

(* Opening the temporary path truncates the file that is there, in whoever's hands: it is
   whole when the last one to open it has written everything, since all of them write
   the same bytes. *)
OpenTemporary(p, v) ==
    /\ temps' = Put(temps, v, [by |-> p, whole |-> FALSE])
    /\ UNCHANGED <<parquets, current, views, locks>>

Written(files, p, v) ==
    IF v \in DOMAIN files /\ files[v].by = p THEN [files EXCEPT ![v].whole = TRUE] ELSE files

(* The writer of a file may find that it has been renamed under its hands. *)
FinishTemporary(p, v) ==
    /\ temps' = Written(temps, p, v)
    /\ parquets' = Written(parquets, p, v)
    /\ UNCHANGED <<current, views, locks>>

RenameTemporary(v) ==
    /\ v \in DOMAIN temps
    /\ parquets' = Put(parquets, v, temps[v])
    /\ temps' = Drop(temps, v)
    /\ UNCHANGED <<current, views, locks>>

TemporaryGone(v) == v \notin DOMAIN temps

(* _read_verified *)
Readable(v) == v \in DOMAIN parquets /\ parquets[v].whole

HasCurrent(d) == d \in DOMAIN current

CurrentReadable(d) == HasCurrent(d) => Readable(current[d])

\* Mutant: the candidate is not read again before it is promoted.
PromotableUnread(v) == v \in DOMAIN parquets

(* What promote_dataset asks of a candidate. *)
Promotable(v) == Readable(v)

(* promote_dataset: what happens under the lock, up to and with the view ... *)
LockAndRegister(p, d, v) ==
    /\ locks[d] = Nobody /\ Promotable(v)
    /\ locks' = [locks EXCEPT ![d] = p]
    /\ views' = Put(views, d, v)
    /\ UNCHANGED <<temps, parquets, current>>

PromotionRefused(d, v) == locks[d] = Nobody /\ ~Promotable(v)

(* ... and the pointer. *)
SwitchCurrent(p, d, v) ==
    /\ locks[d] = p
    /\ current' = Put(current, d, v)
    /\ locks' = [locks EXCEPT ![d] = Nobody]
    /\ UNCHANGED <<temps, parquets, views>>

(* The end of a process: it writes no further, and the kernel frees its locks. *)
Abandoned(files, p) ==
    [v \in DOMAIN files |-> IF files[v].by = p THEN [files[v] EXCEPT !.by = Nobody] ELSE files[v]]

ReleaseAll(p) ==
    /\ temps' = Abandoned(temps, p)
    /\ parquets' = Abandoned(parquets, p)
    /\ locks' = [d \in Datasets |-> IF locks[d] = p THEN Nobody ELSE locks[d]]
    /\ UNCHANGED <<current, views>>
=============================================================================
