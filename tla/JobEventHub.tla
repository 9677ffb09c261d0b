---------------------------- MODULE JobEventHub ----------------------------
(***************************************************************************)
(* How the state of a job reaches the event stream (jobs/JobEventHub.cpp,  *)
(* jobs/JobTaskStatus.cpp).  A job changes its status and afterwards marks *)
(* its id dirty; one publisher thread takes a snapshot of a dirty job      *)
(* without the hub's lock and publishes it under the lock; the cleanup     *)
(* thread removes finished jobs.                                           *)
(*                                                                         *)
(* What a job reports between its start and its end (progress, response)   *)
(* is abstracted to the number of times it was changed; a failure is       *)
(* recorded before m_done and read only after it, so it is part of the end.*)
(***************************************************************************)
EXTENDS Naturals

CONSTANTS JobIds,
          MaxData    \* bound on the changes of a job before its end

ASSUME MaxDataAssumption == MaxData \in Nat

VARIABLES started,     \* m_start_time is set
          data,        \* what the job reports: m_response, m_progress
          done,        \* m_done
          job,         \* where the job is
          known,       \* m_jobs of the hub
          dirty,       \* m_dirty
          batch,       \* the publisher's local `dirty'
          publisher,   \* where the publisher is, and the job it is at
          snapshot,    \* the snapshot it is taking
          stream       \* the last event of each job handed to server::events()

jobHubVars == <<started, data, done, job, known, dirty, batch, publisher, snapshot, stream>>

status == <<started, data, done, job>>
publishing == <<batch, publisher, snapshot>>

Idle(at) == <<at>>
None == [kind |-> "none"]
Gone == [kind |-> "removed"]
Update(s, d, n) == [kind |-> "status", started |-> s, completed |-> d, data |-> n]
Updates == {Update(s, d, n) : s \in BOOLEAN, d \in BOOLEAN, n \in 0..MaxData}

JobHubInit ==
    /\ started = [j \in JobIds |-> FALSE]
    /\ data = [j \in JobIds |-> 0]
    /\ done = [j \in JobIds |-> FALSE]
    /\ job = [j \in JobIds |-> "new"]
    /\ known = {} /\ dirty = {} /\ batch = {}
    /\ publisher = Idle("waits")
    /\ snapshot = None
    /\ stream = [j \in JobIds |-> None]

-----------------------------------------------------------------------------
(* The job and the cleanup thread.                                         *)

(* enqueue() hands the status to the hub before the job can run. *)
Add(j) ==
    /\ job[j] = "new"
    /\ job' = [job EXCEPT ![j] = "queued"]
    /\ known' = known \cup {j}
    /\ dirty' = dirty \cup {j}
    /\ UNCHANGED <<started, data, done, publishing, stream>>

(* The first run() sets the start time, notifies the hub and resumes the job. *)
Start(j) ==
    /\ job[j] = "queued"
    /\ started' = [started EXCEPT ![j] = TRUE]
    /\ job' = [job EXCEPT ![j] = "changed"]
    /\ UNCHANGED <<data, done, known, dirty, publishing, stream>>

(* setProgress() and setResponse() change what the job reports ... *)
Change(j) ==
    /\ job[j] = "runs"
    /\ data[j] < MaxData
    /\ data' = [data EXCEPT ![j] = @ + 1]
    /\ job' = [job EXCEPT ![j] = "changed"]
    /\ UNCHANGED <<started, done, known, dirty, publishing, stream>>

(* ... the final awaiter says that it will not change again ... *)
Finish(j) ==
    /\ job[j] = "runs"
    /\ done' = [done EXCEPT ![j] = TRUE]
    /\ job' = [job EXCEPT ![j] = "changed"]
    /\ UNCHANGED <<started, data, known, dirty, publishing, stream>>

Notified(j) == [job EXCEPT ![j] = IF done[j] THEN "over" ELSE "runs"]

(* ... and each tells the hub afterwards. *)
Changed(j) ==
    /\ job[j] = "changed"
    /\ job' = Notified(j)
    /\ dirty' = IF j \in known THEN dirty \cup {j} ELSE dirty
    /\ UNCHANGED <<started, data, done, known, publishing, stream>>

(* cleanup() removes a job as soon as it may see m_done, which can be before
   the job has notified the hub of its end. *)
RemoveJob(j) ==
    /\ done[j]
    /\ j \in known
    /\ known' = known \ {j}
    /\ dirty' = dirty \ {j}
    /\ stream' = [stream EXCEPT ![j] = Gone]
    /\ UNCHANGED <<status, publishing>>

-----------------------------------------------------------------------------
(* The publisher thread.                                                   *)

PublisherWakes ==
    /\ publisher = Idle("waits")
    /\ dirty # {}
    /\ publisher' = Idle("gathers")
    /\ UNCHANGED <<status, known, dirty, batch, snapshot, stream>>

(* After 100 ms without the lock it takes all that is dirty by then. *)
TakeDirty ==
    /\ publisher = Idle("gathers")
    /\ batch' = dirty
    /\ dirty' = {}
    /\ publisher' = Idle("picks")
    /\ UNCHANGED <<status, known, snapshot, stream>>

PickJob(j) ==
    /\ publisher = Idle("picks")
    /\ j \in batch
    /\ batch' = batch \ {j}
    /\ publisher' = IF j \in known THEN <<"reads", j>> ELSE publisher
    /\ UNCHANGED <<status, known, dirty, snapshot, stream>>

(* Mutant: what was marked while the batch was published is cleared with it. *)
BatchClears ==
    /\ publisher = Idle("picks")
    /\ batch = {}
    /\ dirty' = {}
    /\ publisher' = Idle("waits")
    /\ UNCHANGED <<status, known, batch, snapshot, stream>>

BatchDone ==
    /\ publisher = Idle("picks")
    /\ batch = {}
    /\ publisher' = Idle("waits")
    /\ UNCHANGED <<status, known, dirty, batch, snapshot, stream>>

(* Mutant: progress and response are read before m_done. *)
SnapshotDataFirst(j) ==
    /\ \/ /\ publisher = <<"reads", j>>
          /\ snapshot' = Update(started[j], FALSE, 0)
          /\ publisher' = <<"reads done", j>>
       \/ /\ publisher = <<"reads done", j>>
          /\ snapshot' = [snapshot EXCEPT !.data = data[j]]
          /\ publisher' = <<"reads more", j>>
       \/ /\ publisher = <<"reads more", j>>
          /\ snapshot' = [snapshot EXCEPT !.completed = done[j]]
          /\ publisher' = <<"locks", j>>
    /\ UNCHANGED <<status, known, dirty, batch, stream>>

(* snapshot() reads the start time, then m_done, then the rest, with the job
   running. *)
Snapshot(j) ==
    /\ \/ /\ publisher = <<"reads", j>>
          /\ snapshot' = Update(started[j], FALSE, 0)
          /\ publisher' = <<"reads done", j>>
       \/ /\ publisher = <<"reads done", j>>
          /\ snapshot' = [snapshot EXCEPT !.completed = done[j]]
          /\ publisher' = <<"reads more", j>>
       \/ /\ publisher = <<"reads more", j>>
          /\ snapshot' = [snapshot EXCEPT !.data = data[j]]
          /\ publisher' = <<"locks", j>>
    /\ UNCHANGED <<status, known, dirty, batch, stream>>

(* Mutant: the job is not looked up again. *)
PublishBlindly(j) ==
    /\ publisher = <<"locks", j>>
    /\ stream' = [stream EXCEPT ![j] = snapshot]
    /\ publisher' = Idle("picks")
    /\ snapshot' = None
    /\ UNCHANGED <<status, known, dirty, batch>>

(* Under the lock again, it drops the snapshot of a job removed meanwhile. *)
PublishSnapshot(j) ==
    /\ publisher = <<"locks", j>>
    /\ stream' = IF j \in known THEN [stream EXCEPT ![j] = snapshot] ELSE stream
    /\ publisher' = Idle("picks")
    /\ snapshot' = None
    /\ UNCHANGED <<status, known, dirty, batch>>

-----------------------------------------------------------------------------
Publisher ==
    \/ PublisherWakes \/ TakeDirty \/ BatchDone
    \/ \E j \in JobIds : PickJob(j) \/ Snapshot(j) \/ PublishSnapshot(j)

JobHubNext ==
    \/ \E j \in JobIds : Add(j) \/ Start(j) \/ Change(j) \/ Finish(j) \/ Changed(j) \/ RemoveJob(j)
    \/ Publisher

JobHubSpec == JobHubInit /\ [][JobHubNext]_jobHubVars

(* The publisher thread runs, and a job that has changed its status goes on
   to notifyChanged(); no job need change, end or be removed. *)
JobHubFairSpec ==
    /\ JobHubSpec
    /\ WF_jobHubVars(Publisher)
    /\ \A j \in JobIds : WF_jobHubVars(Changed(j))

-----------------------------------------------------------------------------
(* A report of all that j has done is on its way: with the job, which has still
   to notify the hub, in one of the two sets, or with the publisher, which has
   not read what changed or has it in its hand. *)
Due(j) ==
    \/ job[j] = "changed" \/ j \in dirty \cup batch
    \/ publisher = <<"reads", j>>
    \/ publisher = <<"reads done", j>> /\ snapshot.started = started[j]
    \/ publisher = <<"reads more", j>> /\ snapshot.started = started[j]
                                      /\ snapshot.completed = done[j]
    \/ publisher = <<"locks", j>> /\ snapshot = Update(started[j], done[j], data[j])

(* An event that says a job has completed carries everything the job ever
   reported, although the snapshot is taken while the job runs:
   JobTaskStatus::snapshot reads m_done before progress and response.  The start
   time it reads before m_done, so the event may lack it, of a job that started
   and ended in between; then a report that has it is due. *)
CompletedIsFinal ==
    \A j \in JobIds :
        stream[j] \in Updates /\ stream[j].completed =>
            stream[j].data = data[j] /\ (stream[j].started \/ Due(j))

(* On the stream a job never goes back: it reports no less than before, does
   not lose its start or run again after its completion, and is silent after its
   removal, even when the removal comes between a snapshot and its publication. *)
ReportsNeverGoBack ==
    [][\A j \in JobIds :
          /\ stream[j] = Gone => stream'[j] = Gone
          /\ stream[j] \in Updates /\ stream'[j] \in Updates =>
                /\ stream[j].data <= stream'[j].data
                /\ stream[j].started => stream'[j].started
                /\ stream[j].completed => stream'[j].completed]_jobHubVars

(* Whatever a job reports gets to the stream, or the job's removal does: no
   change is lost between the exchange of m_dirty and the snapshot. *)
EveryChangePublished ==
    \A j \in JobIds :
        /\ \A n \in 0..MaxData : job[j] # "new" /\ data[j] = n
             ~> stream[j] = Gone \/ (stream[j] \in Updates /\ stream[j].data >= n)
        /\ started[j] ~> stream[j] = Gone \/ (stream[j] \in Updates /\ stream[j].started)
        /\ done[j] ~> stream[j] = Gone \/ (stream[j] \in Updates /\ stream[j].completed)
=============================================================================
