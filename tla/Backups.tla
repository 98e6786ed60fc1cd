-------------------------------- MODULE Backups --------------------------------
(***************************************************************************)
(* The database backups (accounts/management/commands/backup_database.py): *)
(* dump, upload, ask the destination what it holds, then delete what is     *)
(* old.  The nightly job and the deployment may run it at once; any step    *)
(* may fail and a job may be killed between two of them.                   *)
(***************************************************************************)
EXTENDS Integers, FiniteSets, FiniteSetsExt

CONSTANTS
    Job,                  \* the runs of the command, numbered in the order of their backups' names
    MinKept,              \* MIN_BACKUPS_KEPT
    Retention,            \* BACKUP_RETENTION_DAYS
    MaxTime,              \* bound: the days of a run
    None                  \* no backup under that name, not begun

BackupConstants ==
    /\ Job \subseteq Nat /\ MinKept \in Nat /\ Retention \in Nat \ {0} /\ MaxTime \in Nat
    /\ None \notin [at : Nat, whole : BOOLEAN]

VARIABLES
    now,
    bucket,               \* the backup of each job: when it was stored, whether it is whole
    job,                  \* each job: where it is, since when, what it is about to delete
    stored,               \* history: the jobs whose upload arrived
    verified              \* history: the jobs that found their backup whole

vars == <<now, bucket, job, stored, verified>>

There == {j \in Job : bucket[j] # None}

TypeOK ==
    /\ now \in 0 .. MaxTime
    /\ \A j \in There : bucket[j].at \in 0 .. now /\ bucket[j].whole \in BOOLEAN
    /\ \A j \in Job : /\ job[j].at \in {"waiting", "dumped", "uploaded", "verified", "pruning", "over"}
                      /\ job[j].doomed \subseteq Job
    /\ verified \subseteq stored

Init ==
    /\ now = 0 /\ bucket = [j \in Job |-> None] /\ stored = {} /\ verified = {}
    /\ job = [j \in Job |-> [at |-> "waiting", since |-> None, doomed |-> {}]]

-------------------------------------------------------------------------------
Go(j, from, to) == job[j].at = from /\ job' = [job EXCEPT ![j].at = to]

\* _dump: a failure is reported, nothing has been stored.
Dump(j) ==
    /\ job[j].at = "waiting"
    /\ \E to \in {"dumped", "over"} : job' = [job EXCEPT ![j].at = to, ![j].since = now]
    /\ UNCHANGED <<now, bucket, stored, verified>>

\* _upload, before it asks: the upload may raise, lose the backup or cut it short.
Upload(j) ==
    /\ UNCHANGED <<now, verified>>
    /\ \/ Go(j, "dumped", "over") /\ UNCHANGED <<bucket, stored>>
       \/ Go(j, "dumped", "uploaded") /\ UNCHANGED <<bucket, stored>>
       \/ /\ Go(j, "dumped", "uploaded") /\ stored' = stored \cup {j}
          /\ \E whole \in BOOLEAN : bucket' = [bucket EXCEPT ![j] = [at |-> now, whole |-> whole]]

\* Mutant: an upload that did not raise is a backup.
AnyArrived(j) == TRUE

Arrived(j) == j \in There /\ bucket[j].whole

\* head_object: what is missing or has another size is a failed backup (and stays there).
Verify(j) ==
    /\ Go(j, "uploaded", IF Arrived(j) THEN "verified" ELSE "over")
    /\ verified' = IF j \in There /\ bucket[j].whole THEN verified \cup {j} ELSE verified
    /\ UNCHANGED <<now, bucket, stored>>

\* list_backups: the newest first, and those of one moment in the order of their names.
Ahead(j, k) == bucket[j].at > bucket[k].at \/ (bucket[j].at = bucket[k].at /\ j < k)

\* Mutant: everything old goes.
PositionLast(k) == MinKept

Position(k) == Cardinality({j \in There : Ahead(j, k)})

\* plan_pruning: what is old, and not among the newest MinKept.
List(j) ==
    /\ job[j].at = "verified"
    /\ job' = [job EXCEPT ![j].at = "pruning",
                 ![j].doomed = {k \in There : Position(k) >= MinKept /\ bucket[k].at < now - Retention}]
    /\ UNCHANGED <<now, bucket, stored, verified>>

Delete(j) ==
    /\ job[j].at = "pruning"
    /\ \E k \in job[j].doomed :
         /\ job' = [job EXCEPT ![j].doomed = @ \ {k}]
         /\ bucket' = [bucket EXCEPT ![k] = None]
    /\ UNCHANGED <<now, stored, verified>>

\* Pruning ends or fails; the job is killed anywhere.
End(j) ==
    /\ job[j].at \notin {"waiting", "over"}
    /\ job' = [job EXCEPT ![j].at = "over", ![j].doomed = {}]
    /\ UNCHANGED <<now, bucket, stored, verified>>

\* No job lasts as long as the retention.
Tick ==
    /\ now < MaxTime /\ now' = now + 1
    /\ \A j \in {k \in Job : job[k].at \notin {"waiting", "over"}} : now' - job[j].since < Retention
    /\ UNCHANGED <<bucket, job, stored, verified>>

Next ==
    \/ \E j \in Job : Dump(j) \/ Upload(j) \/ Verify(j) \/ List(j) \/ Delete(j) \/ End(j)
    \/ Tick

Spec == Init /\ [][Next]_vars

-------------------------------------------------------------------------------
(* Properties.                                                             *)

\* The last backup found whole is still there, however many failed ones are newer.
LastWholeKept ==
    verified # {} => \E j \in verified : j \in There /\ bucket[j].whole
                       /\ \A k \in verified : job[k].since <= job[j].since

\* Pruning never leaves fewer than MinKept of the backups that were stored.
NewestKept == Cardinality(There) >= Min({MinKept, Cardinality(stored)})
===============================================================================
