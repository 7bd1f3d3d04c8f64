---------------------------- MODULE HistoryPage ----------------------------
(***************************************************************************)
(* The history tab of the web UI (HistoryPage.tsx with its hook            *)
(* useTaskPoll.ts) against the task manager: a click posts the query, the  *)
(* id that comes back is polled until the job is done or failed.  App.tsx  *)
(* unmounts the page whenever another tab is chosen.                       *)
(*                                                                         *)
(* A render commit and the effects it triggers are separate steps, and a   *)
(* response is a message: it may arrive after the page has moved on.  The  *)
(* body of the form and the wording of errors are left out.                *)
(***************************************************************************)
EXTENDS TaskManager

CONSTANT NoTask

ASSUME NoTaskAssumption == NoTask \notin Tasks

VARIABLES
  mounted,   \* the history tab is the one shown
  busy,      \* useState busy
  post,      \* run(): "none", "token" (awaiting the csrf token), "sent",
             \* "refused" (an error response), "rejected" (getToken threw)
  posted,    \* the task id in the response of the POST, or NoTask
  taskId,    \* useState taskId
  pollFor,   \* the taskId the current effect of useTaskPoll runs for
  poll,      \* that effect: "off", "asking", "timer"
  answers,   \* responses to GET on their way: records [task, body]
  view,      \* useState status of the hook: "null", "running", "done", "failed"
  pollError  \* useState error of the hook is set

postVars == <<busy, post, posted>>
hookVars == <<pollFor, poll, answers, view, pollError>>
pageVars == <<mounted, busy, post, posted, taskId, pollFor, poll, answers,
              view, pollError>>
vars == <<managerVars, pageVars>>

\* const isPolling, and the condition of the button.
IsPolling == taskId # NoTask /\ view \notin Terminal
Enabled == ~busy /\ ~IsPolling

-----------------------------------------------------------------------------
(* run() *)

\* The state is set and the call goes on to await csrfStore.getToken.
Click ==
  /\ mounted /\ Enabled /\ post = "none"
  /\ busy' = TRUE
  /\ taskId' = NoTask
  /\ post' = "token"
  /\ UNCHANGED <<managerVars, mounted, posted, hookVars>>

\* GET /csrf failed: api.post rejects and run() has no catch.
TokenThrows ==
  /\ post = "token"
  /\ post' = "rejected"
  /\ UNCHANGED <<managerVars, mounted, busy, posted, taskId, hookVars>>

\* The POST reaches the worker, whether or not its response will come back.
Send ==
  /\ post = "token"
  /\ post' = "sent"
  /\ \E t \in Tasks : Submit(t) /\ posted' = t
  /\ UNCHANGED <<mounted, busy, taskId, hookVars>>

\* 4xx, 5xx, the worker down or the response lost.
Refused ==
  /\ post \in {"token", "sent"}
  /\ post' = "refused"
  /\ posted' = NoTask
  /\ UNCHANGED <<managerVars, mounted, busy, taskId, hookVars>>

Resume ==
  /\ mounted
  /\ post \in {"sent", "refused"}
  /\ taskId' = IF post = "sent" THEN posted ELSE taskId
  /\ busy' = FALSE
  /\ post' = "none"
  /\ posted' = NoTask
  /\ UNCHANGED <<managerVars, mounted, hookVars>>

-----------------------------------------------------------------------------
(* useTaskPoll *)

\* The effect on [taskId]: the old one is cancelled, the new one starts.
RunEffect ==
  /\ mounted /\ pollFor # taskId
  /\ pollFor' = taskId
  /\ view' = "null"
  /\ pollError' = FALSE
  /\ poll' = IF taskId = NoTask THEN "off" ELSE "asking"
  /\ UNCHANGED <<managerVars, mounted, postVars, taskId, answers>>

\* The request of tick() is served, or fails on the way or at the worker.
Serve ==
  /\ poll = "asking" /\ \A a \in answers : a.task # pollFor
  /\ \/ /\ Poll(pollFor)
        /\ answers' = answers \cup {[task |-> pollFor, body |-> Lookup(pollFor)]}
     \/ /\ answers' = answers \cup {[task |-> pollFor, body |-> "error"]}
        /\ UNCHANGED managerVars
  /\ UNCHANGED <<mounted, postVars, taskId, pollFor, poll, view, pollError>>

\* if (cancelled) return: the effect of another task id is running.
NeverIgnored(a) == pollFor = NoTask    \* mutant: only a page without a task ignores it
Ignored(a) == a.task # pollFor

\* r.error is set: a 4xx, a 5xx or no response at all.
OnlyServerFails(a) == a.body = "error"    \* mutant: a 404 is taken for data
IsFailure(a) == a.body \in {"missing", "error"}

IsDone(s) == s = "done"    \* mutant: a failed job is polled on
IsTerminal(s) == s \in Terminal

\* A response comes back.
Deliver(a) ==
  /\ a \in answers
  /\ answers' = answers \ {a}
  /\ \/ /\ Ignored(a)
        /\ UNCHANGED <<poll, view, pollError>>
     \/ /\ ~Ignored(a) /\ IsFailure(a)
        /\ pollError' = TRUE
        /\ poll' = "off"
        /\ UNCHANGED view
     \/ /\ ~Ignored(a) /\ ~IsFailure(a)
        /\ view' = a.body
        /\ poll' = IF IsTerminal(a.body) THEN "off" ELSE "timer"
        /\ UNCHANGED pollError
  /\ UNCHANGED <<managerVars, mounted, postVars, taskId, pollFor>>

\* setTimeout fires after 2 s.
Tick ==
  /\ poll = "timer"
  /\ poll' = "asking"
  /\ UNCHANGED <<managerVars, mounted, postVars, taskId, pollFor, answers,
                 view, pollError>>

-----------------------------------------------------------------------------
(* App.tsx: choosing another tab, and coming back *)

Unmount ==
  /\ mounted
  /\ mounted' = FALSE
  /\ taskId' = NoTask
  /\ busy' = FALSE
  /\ post' = "none"
  /\ posted' = NoTask
  /\ pollFor' = NoTask
  /\ poll' = "off"
  /\ view' = "null"
  /\ pollError' = FALSE
  /\ UNCHANGED <<managerVars, answers>>

Mount ==
  /\ ~mounted
  /\ mounted' = TRUE
  /\ UNCHANGED <<managerVars, postVars, taskId, hookVars>>

-----------------------------------------------------------------------------
PageInit ==
  /\ Init
  /\ mounted = TRUE
  /\ busy = FALSE
  /\ post = "none"
  /\ posted = NoTask
  /\ taskId = NoTask
  /\ pollFor = NoTask
  /\ poll = "off"
  /\ answers = {}
  /\ view = "null"
  /\ pollError = FALSE

Run == Send \/ Refused \/ Resume
Hook == RunEffect \/ Serve \/ Tick \/ \E a \in answers : Deliver(a)

\* What the worker does by itself, and what others ask of it: another browser tab
\* for a job of its own, or the run() of a page that was left while it awaited its
\* token.
Backend ==
  /\ Process \/ \E t \in Tasks : Job(t) \/ Submit(t) \/ (t # pollFor /\ Poll(t))
  /\ UNCHANGED pageVars

PageNext ==
  \/ Click \/ TokenThrows \/ Run \/ Hook \/ Unmount \/ Mount \/ Backend

PageSpec == PageInit /\ [][PageNext]_vars

\* The browser runs its queue, a request is answered or fails, a job ends, a
\* worker that went down comes back.
PageFairSpec ==
  /\ PageSpec
  /\ WF_vars(RunEffect) /\ WF_vars(Serve) /\ WF_vars(Tick)
  /\ WF_vars(\E a \in answers : Deliver(a))
  /\ WF_vars(Send \/ Refused) /\ WF_vars(Resume)
  /\ \A t \in Tasks : WF_vars(Job(t) /\ UNCHANGED pageVars)
  /\ WF_vars(Exit /\ UNCHANGED pageVars)
  /\ WF_vars(Start /\ UNCHANGED pageVars)

-----------------------------------------------------------------------------
(* Properties *)

PageTypeOK ==
  /\ TypeOK
  /\ mounted \in BOOLEAN /\ busy \in BOOLEAN /\ pollError \in BOOLEAN
  /\ post \in {"none", "token", "sent", "refused", "rejected"}
  /\ {posted, taskId, pollFor} \subseteq Tasks \cup {NoTask}
  /\ poll \in {"off", "asking", "timer"}
  /\ answers \subseteq
       [task : Tasks, body : {"running", "missing", "error"} \cup Terminal]
  /\ view \in {"null", "running"} \cup Terminal

\* The result on the page is the one the worker gave for the task on the page,
\* never that of an earlier query whose answer came late (useTaskPoll.ts
\* `cancelled`).
ResultIsOwn ==
  taskId # NoTask /\ pollFor = taskId /\ view \in Terminal =>
    told[taskId] = view

\* What the page shows is what the worker would answer again, after any restart and
\* whichever of the dict and the file it answers from, if it could write the file
\* (tasks.py get_status, _persist; useTaskPoll.ts does not ask again).
ResultIsKept ==
  taskId # NoTask /\ pollFor = taskId /\ view \in Terminal
    /\ taskId \notin unsaved =>
      Lookup(taskId) = view

\* A page that polls stops polling, with a result or an error, unless what the
\* worker left on disk says "running" for good or the worker keeps dying.
PollingEnds ==
  \A t \in Tasks :
    []<>(pollFor # t \/ poll = "off" \/ disk[t] = "running")
=============================================================================
