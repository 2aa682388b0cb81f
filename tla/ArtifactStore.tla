----------------------------- MODULE ArtifactStore -----------------------------
(* How an artifact is published: ExactArtifactStore (pipeline/artifacts.py) and
   BacktestArtifactStore (backtest/artifacts.py).  Both write a candidate directory of
   their own, file by file, verify it and rename it to the name of its version.  The
   loser of a race finds the destination taken and compares.

   A version is the hash of what it holds, so two publishers of one version hold the
   same content; creation times are left out of the hash and of the model.  What a
   process leaves of a candidate when it dies is never read and never removed. *)
EXTENDS Naturals, Sequences, FiniteSets

CONSTANTS Publishers, ExactVersions, BacktestVersions, MaxLosses

ArtifactVersions == ExactVersions \cup BacktestVersions

ASSUME StoreAssumption ==
    ExactVersions \cap BacktestVersions = {} /\ MaxLosses \in Nat

VARIABLES
    directories,    \* version -> the files that are whole in its directory
    writers,        \* publisher -> what it is writing
    returned        \* the versions that publish has returned

storeVars == <<directories, writers, returned>>

Files(v) ==
    IF v \in ExactVersions
    THEN <<"records.jsonl", "records.sha256", "manifest.json">>
    ELSE <<"artifact.json", "artifact.sha256">>

Inventory(v) == {Files(v)[k] : k \in DOMAIN Files(v)}

(* manifest() and read(): every file is there and agrees with the version. *)
Verified(v) == v \in DOMAIN directories /\ directories[v] = Inventory(v)

NoWriter == [pc |-> "idle", version |-> "none", written |-> 0]

StoreInit ==
    /\ directories = <<>>
    /\ writers = [p \in Publishers |-> NoWriter]
    /\ returned = {}

Return(p, v) ==
    /\ writers' = [writers EXCEPT ![p] = NoWriter]
    /\ returned' = returned \cup {v}

(* publish of a version whose directory exists: verified and returned, or an error. *)
PublishAgain(p, v) ==
    /\ writers[p].pc = "idle" /\ Verified(v)
    /\ Return(p, v)
    /\ UNCHANGED directories

OpenCandidate(p, v) ==
    /\ writers[p].pc = "idle" /\ v \notin DOMAIN directories
    /\ writers' = [writers EXCEPT ![p] = [pc |-> "write", version |-> v, written |-> 0]]
    /\ UNCHANGED <<directories, returned>>

WriteFile(p) ==
    /\ writers[p].pc = "write" /\ writers[p].written < Len(Files(writers[p].version))
    /\ writers' = [writers EXCEPT ![p].written = @ + 1]
    /\ UNCHANGED <<directories, returned>>

\* Mutant: the candidate is renamed before its last file is written.
CandidateAlmostComplete(w) == w.written + 1 >= Len(Files(w.version))

(* _verify_directory of the candidate: all its files are there. *)
CandidateComplete(w) == w.written = Len(Files(w.version))

VerifyCandidate(p) ==
    /\ writers[p].pc = "write" /\ CandidateComplete(writers[p])
    /\ writers' = [writers EXCEPT ![p].pc = "rename"]
    /\ UNCHANGED <<directories, returned>>

Candidate(w) == {Files(w.version)[k] : k \in 1..w.written}

(* os.rename refuses a directory that is there; the publisher then verifies that one.  (POSIX
   lets it replace an empty one; a version's directory is only empty when all of its files
   were lost, and the model refuses that one as well.) *)
RenameCandidate(p) ==
    LET v == writers[p].version
    IN /\ writers[p].pc = "rename"
       /\ IF v \notin DOMAIN directories
          THEN /\ directories' = [x \in DOMAIN directories \cup {v} |->
                                    IF x = v THEN Candidate(writers[p]) ELSE directories[x]]
               /\ writers' = [writers EXCEPT ![p].pc = "return"]
          ELSE /\ writers' = IF Verified(v) THEN [writers EXCEPT ![p].pc = "return"]
                                            ELSE [writers EXCEPT ![p] = NoWriter]
               /\ UNCHANGED directories
       /\ UNCHANGED returned

ReturnManifest(p) ==
    /\ writers[p].pc = "return"
    /\ Return(p, writers[p].version)
    /\ UNCHANGED directories

WriterDies(p) ==
    /\ writers[p].pc # "idle"
    /\ writers' = [writers EXCEPT ![p] = NoWriter]
    /\ UNCHANGED <<directories, returned>>

LoseFile(v, f) ==
    /\ Cardinality({x \in DOMAIN directories : ~Verified(x)}) < MaxLosses
    /\ f \in directories[v]
    /\ directories' = [directories EXCEPT ![v] = @ \ {f}]
    /\ UNCHANGED <<writers, returned>>

StoreNext ==
    \/ \E p \in Publishers :
        \/ \E v \in ArtifactVersions : PublishAgain(p, v) \/ OpenCandidate(p, v)
        \/ WriteFile(p) \/ VerifyCandidate(p) \/ RenameCandidate(p)
        \/ ReturnManifest(p) \/ WriterDies(p)
    \/ \E v \in DOMAIN directories : \E f \in Inventory(v) : LoseFile(v, f)

StoreSpec == StoreInit /\ [][StoreNext]_storeVars

-----------------------------------------------------------------------------
Catalog ==
    INSTANCE ArtifactCatalog
    WITH Versions <- ArtifactVersions,
         catalog <- DOMAIN directories,
         lost <- {v \in DOMAIN directories : ~Verified(v)},
         told <- returned

(* Publication is all or nothing and final: whatever publishers race or die, a version's
   directory appears with every file at once, no publisher removes or changes it, and
   publish returns a version only when it has appeared. *)
ImplementsCatalog == Catalog!Spec
=============================================================================
