------------------------------ MODULE CalcJobs ------------------------------
(***************************************************************************)
(* The DB job queue: calc workers that poll estimate_calc_jobs             *)
(* (calcworker/worker.go, the queue functions of store/file_store.go)      *)
(* beside everything EstimateCalc does.  A worker leases a job, calculates *)
(* and writes the verdict to the line and to the job.  Worker processes of *)
(* this queue run with APP_QUEUE_MODE "db" or "dual".                      *)
(***************************************************************************)
EXTENDS EstimateCalc

CONSTANT Workers   \* goroutines of the calc worker's Manager

VARIABLE worker    \* what each of them is doing, with the job it has read

jobsVars == <<vars, worker>>

Polling == [phase |-> "polling", job |-> None]

JobsInit == Init /\ worker = [w \in Workers |-> Polling]

SameRow(j, held) == j.id = held.id /\ j.line = held.line

\* UPDATE estimate_calc_jobs ... WHERE id: whoever holds the lease by now.
JobSet(held, verdict) ==
  {IF SameRow(j, held) THEN [j EXCEPT !.status = verdict, !.due = FALSE] ELSE j : j \in jobs}

\* Some worker is still at the job under its current lease.
Held(j) == \E w \in Workers : worker[w].job # None /\ SameRow(j, worker[w].job)
                              /\ worker[w].job.attempt = j.attempt

Goes(w, phase) == worker' = [worker EXCEPT ![w].phase = phase]
Returns(w) == worker' = [worker EXCEPT ![w] = Polling]

-----------------------------------------------------------------------------
(* Worker.Run: claim a job, calculate it, complete or fail it.             *)

\* Seeded fault: an expired lease is not taken over.
ClaimQueuedOnly(w, j) ==
  LET leased == [j EXCEPT !.status = "leased", !.attempt = @ + 1, !.due = FALSE] IN
  /\ worker[w] = Polling
  /\ j.status = "queued" /\ j.due
  /\ jobs' = (jobs \ {j}) \cup {leased}
  /\ worker' = [worker EXCEPT ![w] = [phase |-> "claimed", job |-> leased]]
  /\ UNCHANGED <<header, lineVars, calcVars, outbox, nextId, server, publisher, queues, cons, faults>>

\* ClaimEstimateCalcJob, its first statement: SKIP LOCKED gives the job to one worker.
Claim(w, j) ==
  LET leased == [j EXCEPT !.status = "leased", !.attempt = @ + 1, !.due = FALSE] IN
  /\ worker[w] = Polling
  /\ j.status \in Live /\ j.due
  /\ jobs' = (jobs \ {j}) \cup {leased}
  /\ worker' = [worker EXCEPT ![w] = [phase |-> "claimed", job |-> leased]]
  /\ UNCHANGED <<header, lineVars, calcVars, outbox, nextId, server, publisher, queues, cons, faults>>

\* ... and its second, outside that statement: the line is shown as leased.
MarkLeased(w) ==
  LET job == worker[w].job IN
  /\ worker[w].phase = "claimed"
  /\ status' = [status EXCEPT ![job.line] = IF rev[job.line] = job.rev THEN "leased" ELSE @]
  /\ Goes(w, "work")
  /\ UNCHANGED <<header, content, rev, result, calcVars, events, server, publisher, queues, cons, faults>>

\* Its error is ignored.
MarkLeasedFails(w) ==
  /\ worker[w].phase = "claimed"
  /\ Fault("claim")
  /\ Goes(w, "work")
  /\ UNCHANGED <<header, lineVars, calcVars, events, server, publisher, queues, cons>>

\* Seeded fault: the UPDATE of the line does not compare the revision.
CompleteLeasedAnyRevision(w) ==
  LET job == worker[w].job IN
  /\ worker[w].phase = "work"
  /\ Exists(job.line) /\ RecordDone(job)
  /\ jobs' = JobSet(job, "done")
  /\ Returns(w)
  /\ UNCHANGED <<header, rev, outbox, nextId, server, publisher, queues, cons, faults>>

\* CompleteEstimateCalcJob with its job row.
CompleteLeased(w) ==
  LET job == worker[w].job IN
  /\ worker[w].phase = "work"
  /\ \/ rev[job.line] = job.rev /\ RecordDone(job) /\ jobs' = JobSet(job, "done")
     \/ rev[job.line] # job.rev /\ RecordStale(job) /\ jobs' = JobSet(job, "failed")
  /\ Returns(w)
  /\ UNCHANGED <<header, rev, outbox, nextId, server, publisher, queues, cons, faults>>

\* Lookup, pricing, the 40 s limit or the completing transaction fails.
LeasedError(w) ==
  /\ worker[w].phase = "work"
  /\ Goes(w, "failing")
  /\ UNCHANGED <<header, lineVars, calcVars, events, server, publisher, queues, cons, faults>>

\* FailEstimateCalcJob with its job row: back in the queue after a pause, or dead.
FailLeased(w) ==
  LET job == worker[w].job IN
  /\ worker[w].phase = "failing"
  /\ jobs' = JobSet(job, IF job.attempt >= MaxAttempts THEN "dead" ELSE "queued")
  /\ FailTx(job, jobs')
  /\ Returns(w)
  /\ UNCHANGED <<header, content, rev, result, rows, receipts, outbox, nextId, server, publisher,
                 queues, cons, faults>>

\* That transaction fails: the worker only logs it and goes on polling.
FailLeasedLost(w) ==
  /\ worker[w].phase = "failing"
  /\ Fault("fail")
  /\ Returns(w)
  /\ UNCHANGED <<header, lineVars, calcVars, events, server, publisher, queues, cons>>

\* The process dies, or the Manager replaces its group of workers: the context of the
\* old group is cancelled, so neither the verdict nor FailEstimateCalcJob is written.
StopWorker(w) ==
  /\ worker[w] # Polling
  /\ Fault("worker")
  /\ Returns(w)
  /\ UNCHANGED <<header, lineVars, calcVars, events, server, publisher, queues, cons>>

-----------------------------------------------------------------------------
(* Time and the Manager.                                                   *)

\* run_after or leased_until passes. That a lease ends before its worker (a pause, a
\* slow commit: only the calculation has a limit) is counted with the faults.
TimePasses(j) ==
  /\ j.status \in Live /\ ~j.due
  /\ IF j.status = "leased" /\ Held(j) THEN Fault("lease") ELSE UNCHANGED faults
  /\ jobs' = (jobs \ {j}) \cup {[j EXCEPT !.due = TRUE]}
  /\ UNCHANGED <<header, lineVars, calcVars, outbox, nextId, server, publisher, queues, cons, worker>>

\* ReleaseStuckCalcJobLeases, when a Manager starts.
ReleaseStuckLeases ==
  /\ \E j \in jobs : j.status = "leased" /\ j.due
  /\ jobs' = {IF j.status = "leased" /\ j.due THEN [j EXCEPT !.status = "queued"] ELSE j : j \in jobs}
  /\ UNCHANGED <<header, lineVars, calcVars, outbox, nextId, server, publisher, queues, cons, faults,
                 worker>>

WorkerStep(w) ==
  \/ \E j \in jobs : Claim(w, j)
  \/ MarkLeased(w) \/ MarkLeasedFails(w)
  \/ CompleteLeased(w) \/ LeasedError(w)
  \/ FailLeased(w) \/ FailLeasedLost(w) \/ StopWorker(w)

JobsNext ==
  \/ Next /\ UNCHANGED worker
  \/ \E w \in Workers : WorkerStep(w)
  \/ \E j \in jobs : TimePasses(j)
  \/ ReleaseStuckLeases

JobsSpec == JobsInit /\ [][JobsNext]_jobsVars

-----------------------------------------------------------------------------
(* Properties.                                                             *)

JobsTypeOK ==
  /\ TypeOK
  /\ worker \in [Workers -> [phase : {"polling", "claimed", "work", "failing"}, job : Job \cup {None}]]
  /\ \A j, k \in jobs : j.line = k.line /\ j.rev = k.rev => j = k

LiveJob(l) == \E j \in jobs : j.line = l /\ j.rev = rev[l] /\ j.status \in Live

(***************************************************************************)
(* No queued line is forgotten by the DB queue either: the job of its      *)
(* current revision is queued or leased, however the verdicts of workers   *)
(* that held it before, saves, cancels and failed claims crossed each      *)
(* other.  A line shown as leased is not promised that: its mark is a      *)
(* statement of its own, which may come after a cancel has killed the job. *)
(***************************************************************************)
QueuedLineHasLiveJob == \A l \in Lines : status[l] = "queued" => LiveJob(l)

\* Not kept by the code.  calc_batch.go says a cancel invalidates the jobs in flight, and
\* it makes them dead: a dead job of an earlier generation does not come back into the queue.
CancelledJobStaysDead ==
  [][\A j \in jobs, k \in jobs' :
       SameRow(k, j) /\ j.status = "dead" /\ j.rev.gen < gen => k.status \notin Live]_jobsVars

-----------------------------------------------------------------------------
(* Liveness.                                                               *)

\* Besides the server's goroutines: time passes, and a worker polls and finishes.
JobsFairness ==
  /\ \A s \in Saves : WF_jobsVars((CommitSave(s) \/ CheckAfterSave(s) \/ EnqueueAfterSave(s))
                                    /\ UNCHANGED worker)
  /\ \A t \in Starts :
       WF_jobsVars((RereadForStart(t) \/ ReadLines(t) \/ PrepareFull(t) \/ PrepareResumed(t)
                      \/ NothingToResume(t) \/ CheckGeneration(t) \/ PostBatch(t))
                    /\ UNCHANGED worker)
  /\ WF_jobsVars(\E j \in jobs : TimePasses(j) /\ UNCHANGED faults)
  /\ \A w \in Workers :
       /\ WF_jobsVars(\E j \in jobs : Claim(w, j))
       /\ WF_jobsVars(MarkLeased(w) \/ CompleteLeased(w) \/ FailLeased(w))

FairJobsSpec == JobsSpec /\ JobsFairness

(***************************************************************************)
(* HANDOFF.md: an expired lease is taken again and progress does not       *)
(* freeze.  A line that waits with a live job behind it gets its verdict,  *)
(* whoever dies, loses a lease or loses an update on the way.              *)
(***************************************************************************)
AwaitedLineSettles ==
  \A l \in Lines : status[l] \in Live /\ LiveJob(l) ~> status[l] \notin Live
=============================================================================
