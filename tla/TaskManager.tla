---------------------------- MODULE TaskManager ----------------------------
(***************************************************************************)
(* web/tasks.py with the two history routes: jobs run in the event loop of *)
(* the single web worker, their status lives in a dict and is mirrored to  *)
(* <task_id>.json when the job ends; a poll reads the dict, then the file. *)
(* The worker is restarted by systemd, gracefully (SIGTERM: asyncio.run    *)
(* cancels what is still pending) or by a kill, and a write may fail.      *)
(*                                                                         *)
(* Between two awaits the event loop runs one handler: each action is one  *)
(* such slice.  Results and errors are abstracted to "done" and "failed".  *)
(* cleanup_expired, which nothing in the service calls, is left out.       *)
(***************************************************************************)
EXTENDS Naturals

CONSTANT
  Tasks     \* task ids (uuid4, never issued twice)

VARIABLES
  worker,   \* "up", "closing" (SIGTERM received), "down"
  status,   \* _status: task -> "none", "running", "done", "failed"
  phase,    \* the coroutine _run: "none", "created", "awaiting", "over"
  disk,     \* the task's file: "absent", "torn", or the status it holds
  told,     \* auxiliary: last answer a poll for the task got
  unsaved   \* auxiliary: tasks whose last write_text failed

managerVars == <<worker, status, phase, disk, told, unsaved>>

Terminal == {"done", "failed"}
Live == {"created", "awaiting"}

-----------------------------------------------------------------------------
\* _persist: open("w") truncates, then the text is written; an OSError leaves
\* the old content, an empty file or a part of the text.
Persist(t, s) ==
  \/ /\ disk' = [disk EXCEPT ![t] = s]
     /\ unsaved' = unsaved \ {t}
  \/ /\ \E d \in {disk[t], "torn"} : disk' = [disk EXCEPT ![t] = d]
     /\ unsaved' = unsaved \cup {t}

\* POST /history once the account is found: an id is issued, the job scheduled.
Submit(t) ==
  /\ worker = "up"
  /\ status[t] = "none" /\ phase[t] = "none"
  /\ told[t] = "nothing" /\ disk[t] = "absent"
  /\ status' = [status EXCEPT ![t] = "running"]
  /\ phase' = [phase EXCEPT ![t] = "created"]
  /\ UNCHANGED <<worker, disk, told, unsaved>>

\* The task runs up to the first await of the job.
Begin(t) ==
  /\ worker # "down" /\ phase[t] = "created"
  /\ phase' = [phase EXCEPT ![t] = "awaiting"]
  /\ UNCHANGED <<worker, status, disk, told, unsaved>>

\* Mutant: an exception the handler does not catch leaves "running".
FinishNarrow(t) ==
  /\ worker # "down" /\ phase[t] = "awaiting"
  /\ \E s \in {"running", "done"} :
       /\ status' = [status EXCEPT ![t] = s]
       /\ Persist(t, s)
  /\ phase' = [phase EXCEPT ![t] = "over"]
  /\ UNCHANGED <<worker, told>>

\* Mutant: the file is written before the status is set.
FinishEarlySave(t) ==
  /\ worker # "down" /\ phase[t] = "awaiting"
  /\ Persist(t, status[t])
  /\ \E s \in Terminal : status' = [status EXCEPT ![t] = s]
  /\ phase' = [phase EXCEPT ![t] = "over"]
  /\ UNCHANGED <<worker, told>>

\* The job returns or raises: status, result and file in one slice.
Finish(t) ==
  /\ worker # "down" /\ phase[t] = "awaiting"
  /\ \E s \in Terminal :
       /\ status' = [status EXCEPT ![t] = s]
       /\ Persist(t, s)
  /\ phase' = [phase EXCEPT ![t] = "over"]
  /\ UNCHANGED <<worker, told>>

\* The answer to a poll: 404 "missing", 500 "error" on an unreadable file.
Lookup(t) ==
  IF status[t] # "none" THEN status[t]
  ELSE IF disk[t] = "absent" THEN "missing"
  ELSE IF disk[t] = "torn" THEN "error"
  ELSE disk[t]

\* GET /history/result/{task_id}
Poll(t) ==
  /\ worker = "up"
  /\ told' = [told EXCEPT ![t] = Lookup(t)]
  /\ UNCHANGED <<worker, status, phase, disk, unsaved>>

-----------------------------------------------------------------------------
(* The worker process *)

Sigterm ==
  /\ worker = "up"
  /\ worker' = "closing"
  /\ UNCHANGED <<status, phase, disk, told, unsaved>>

\* CancelledError is no Exception: the handler is skipped and `finally` writes
\* the status as it stands.  A task cancelled before its first slice never
\* enters the try.
Cancel(t) ==
  /\ worker = "closing" /\ phase[t] \in Live
  /\ phase' = [phase EXCEPT ![t] = "over"]
  /\ IF phase[t] = "awaiting" THEN Persist(t, status[t])
     ELSE UNCHANGED <<disk, unsaved>>
  /\ UNCHANGED <<worker, status, told>>

\* The process is gone, and with it the dict and the coroutines.
Gone ==
  /\ worker' = "down"
  /\ status' = [t \in Tasks |-> "none"]
  /\ phase' = [t \in Tasks |-> IF phase[t] = "none" THEN "none" ELSE "over"]
  /\ UNCHANGED told

Exit ==
  /\ worker = "closing" /\ \A t \in Tasks : phase[t] \notin Live
  /\ Gone
  /\ UNCHANGED <<disk, unsaved>>

\* SIGKILL or OOM, possibly in the middle of a write; the OS itself goes on.
Kill ==
  /\ worker # "down"
  /\ Gone
  /\ \/ UNCHANGED <<disk, unsaved>>
     \/ \E t \in Tasks :
          /\ phase[t] = "awaiting"
          /\ disk' = [disk EXCEPT ![t] = "torn"]
          /\ unsaved' = unsaved \cup {t}

Start ==
  /\ worker = "down"
  /\ worker' = "up"
  /\ UNCHANGED <<status, phase, disk, told, unsaved>>

-----------------------------------------------------------------------------
Init ==
  /\ worker = "up"
  /\ status = [t \in Tasks |-> "none"]
  /\ phase = [t \in Tasks |-> "none"]
  /\ disk = [t \in Tasks |-> "absent"]
  /\ told = [t \in Tasks |-> "nothing"]
  /\ unsaved = {}

Process == Sigterm \/ Exit \/ Kill \/ Start

Job(t) == Begin(t) \/ Finish(t) \/ Cancel(t)

Next ==
  \/ Process
  \/ \E t \in Tasks : Job(t) \/ Submit(t) \/ Poll(t)

Spec == Init /\ [][Next]_managerVars

-----------------------------------------------------------------------------
(* Properties *)

TypeOK ==
  /\ worker \in {"up", "closing", "down"}
  /\ status \in [Tasks -> {"none", "running"} \cup Terminal]
  /\ phase \in [Tasks -> {"none", "over"} \cup Live]
  /\ disk \in [Tasks -> {"absent", "torn", "running"} \cup Terminal]
  /\ told \in [Tasks -> {"nothing", "running", "missing", "error"} \cup Terminal]
  /\ unsaved \subseteq Tasks

\* Once a job has answered a poll with its result, every later poll answers the
\* same across restarts, unless a write of that task's file failed (tasks.py:
\* "Each task's status is mirrored to a JSON file").
AnswersStick ==
  [][\A t \in Tasks :
       told[t] \in Terminal /\ told'[t] # told[t] => t \in unsaved]_managerVars

\* A poll that says "running" speaks of a job that some live process is still
\* working on: the module docstring, "a poll that arrives after a worker
\* restart can still locate a terminal result".
RunningIsAlive ==
  \A t \in Tasks :
    worker = "up" /\ Lookup(t) = "running" => phase[t] \in Live

\* The dict never keeps a job running for ever: it ends or dies with its worker.
JobsSettle == \A t \in Tasks : []<>(status[t] # "running")
=============================================================================
