------------------------- MODULE HistoryPage_proofs -------------------------
(***************************************************************************)
(* The answers of the task manager do not change, for any set of tasks: a  *)
(* result that was polled once is polled again, across any number of       *)
(* restarts.  The history page is one of its clients, and shows nobody     *)
(* else's result.                                                          *)
(***************************************************************************)
EXTENDS HistoryPage, TLAPS

\* Whatever shows of the end of a job shows only when its coroutine is over, so
\* the file is not written again.
EndShown(t) ==
  status[t] \in Terminal \/ disk[t] # "absent" \/ told[t] \in Terminal => phase[t] = "over"

\* The answers of the dict, and those given before, are found again in the file.
StatusKept(t) == status[t] \in Terminal /\ t \notin unsaved => disk[t] = status[t]

ToldKept(t) ==
  told[t] \in Terminal /\ t \notin unsaved =>
    status[t] \in {"none", told[t]} /\ disk[t] = told[t]

\* What `finally` writes when a job is cancelled is always "running".
Works(t) == phase[t] \in Live => status[t] = "running"

AnswerInv ==
  TypeOK /\ \A t \in Tasks : Works(t) /\ EndShown(t) /\ StatusKept(t) /\ ToldKept(t)

\* A step that concerns task t keeps the invariant if it keeps it for t.
LEMMA OneTask ==
  ASSUME AnswerInv, TypeOK', NEW t \in Tasks,
         Works(t)', EndShown(t)', StatusKept(t)', ToldKept(t)',
         \A u \in Tasks \ {t} :
           /\ status'[u] = status[u] /\ phase'[u] = phase[u] /\ disk'[u] = disk[u]
           /\ told'[u] = told[u]
           /\ u \in unsaved' <=> u \in unsaved
  PROVE  AnswerInv'
BY DEF AnswerInv, Works, EndShown, StatusKept, ToldKept

\* The coroutine of a job (submit_history, _run).
LEMMA JobStep ==
  ASSUME AnswerInv, NEW t \in Tasks, Submit(t) \/ Job(t)
  PROVE  AnswerInv'
<1> USE DEF AnswerInv, TypeOK, Terminal, Live
<1>1. CASE Submit(t)
  BY <1>1 DEF Submit, Works, EndShown, StatusKept, ToldKept
<1>2. CASE Begin(t)
  BY <1>2 DEF Begin, Works, EndShown, StatusKept, ToldKept
<1>3. CASE Finish(t)
  <2>1. PICK s \in Terminal : status' = [status EXCEPT ![t] = s] /\ Persist(t, s)
    BY <1>3 DEF Finish
  <2>2. TypeOK'
    BY <1>3, <2>1 DEF Finish, Persist
  <2>3. Works(t)' /\ EndShown(t)' /\ StatusKept(t)' /\ ToldKept(t)'
    BY <1>3, <2>1 DEF Finish, Persist, Works, EndShown, StatusKept, ToldKept
  <2>4. \A u \in Tasks \ {t} :
         /\ status'[u] = status[u] /\ phase'[u] = phase[u] /\ disk'[u] = disk[u]
         /\ told'[u] = told[u]
         /\ u \in unsaved' <=> u \in unsaved
    BY <1>3, <2>1 DEF Finish, Persist
  <2> HIDE DEF AnswerInv, TypeOK, Terminal, Live
  <2> QED
    BY <2>2, <2>3, <2>4, OneTask
<1>4. CASE Cancel(t)
  <2>1. TypeOK'
    BY <1>4 DEF Cancel, Persist, Works
  <2>2. Works(t)' /\ EndShown(t)' /\ StatusKept(t)' /\ ToldKept(t)'
    BY <1>4 DEF Cancel, Persist, Works, EndShown, StatusKept, ToldKept
  <2>3. \A u \in Tasks \ {t} :
         /\ status'[u] = status[u] /\ phase'[u] = phase[u] /\ disk'[u] = disk[u]
         /\ told'[u] = told[u]
         /\ u \in unsaved' <=> u \in unsaved
    BY <1>4 DEF Cancel, Persist
  <2> QED
    BY <2>1, <2>2, <2>3, OneTask
<1> QED
  BY <1>1, <1>2, <1>3, <1>4 DEF Job

\* Polls (get_status).
LEMMA PollStep ==
  ASSUME AnswerInv, NEW t \in Tasks, Poll(t)
  PROVE  AnswerInv'
<1> USE DEF AnswerInv, TypeOK, Terminal, Live
<1>1. TypeOK'
  BY DEF Poll, Lookup
<1>2. Works(t)' /\ EndShown(t)' /\ StatusKept(t)' /\ ToldKept(t)'
  BY DEF Poll, Lookup, Works, EndShown, StatusKept, ToldKept
<1> QED
  BY <1>1, <1>2, OneTask DEF Poll

\* The process of the worker concerns all tasks at once.
LEMMA ProcessStep ==
  ASSUME AnswerInv, Process
  PROVE  AnswerInv'
<1> USE DEF AnswerInv, TypeOK, Terminal, Live
<1>1. CASE Sigterm
  BY <1>1 DEF Sigterm, Works, EndShown, StatusKept, ToldKept
<1>2. CASE Exit
  BY <1>2 DEF Exit, Gone, Works, EndShown, StatusKept, ToldKept
<1>3. CASE Kill
  <2>1. CASE UNCHANGED <<disk, unsaved>>
    BY <1>3, <2>1 DEF Kill, Gone, Works, EndShown, StatusKept, ToldKept
  <2>2. CASE \E t \in Tasks : /\ phase[t] = "awaiting"
                              /\ disk' = [disk EXCEPT ![t] = "torn"]
                              /\ unsaved' = unsaved \cup {t}
    BY <1>3, <2>2 DEF Kill, Gone, Works, EndShown, StatusKept, ToldKept
  <2> QED
    BY <1>3, <2>1, <2>2 DEF Kill
<1>4. CASE Start
  BY <1>4 DEF Start, Works, EndShown, StatusKept, ToldKept
<1> QED
  BY <1>1, <1>2, <1>3, <1>4 DEF Process

\* Every step of the manager keeps it.
LEMMA AnswerStep == AnswerInv /\ [Next]_managerVars => AnswerInv'
<1> SUFFICES ASSUME AnswerInv, [Next]_managerVars PROVE AnswerInv'
  OBVIOUS
<1>1. CASE Process
  BY <1>1, ProcessStep
<1>2. ASSUME NEW t \in Tasks, Job(t) \/ Submit(t) PROVE AnswerInv'
  BY <1>2, JobStep
<1>3. ASSUME NEW t \in Tasks, Poll(t) PROVE AnswerInv'
  BY <1>3, PollStep
<1>4. CASE UNCHANGED managerVars
  BY <1>4 DEF managerVars, AnswerInv, TypeOK, Works, EndShown, StatusKept, ToldKept
<1> QED
  BY <1>1, <1>2, <1>3, <1>4 DEF Next

\* A worker that was never started before has answered nothing.
LEMMA AnswerStart == Init => AnswerInv
BY DEF Init, AnswerInv, TypeOK, Terminal, Live, Works, EndShown, StatusKept, ToldKept

\* The invariant holds in every state (web/tasks.py).
LEMMA AnswersInvariant == Spec => []AnswerInv
BY AnswerStart, AnswerStep, PTL DEF Spec

\* Every variable keeps its type (web/tasks.py).
THEOREM TypeCorrect == Spec => []TypeOK
<1>1. AnswerInv => TypeOK
  BY DEF AnswerInv
<1> QED
  BY <1>1, AnswersInvariant, PTL

\* A result that was polled is polled again, unless it could not be written
\* (get_status reads the dict, then the file).
THEOREM AnswersAlwaysStick == Spec => AnswersStick
<1> DEFINE Stick(t) == told[t] \in Terminal /\ told'[t] # told[t] =>
                         t \in unsaved
<1>1. AnswerInv /\ [Next]_managerVars => \A t \in Tasks : Stick(t)
  <2> SUFFICES ASSUME AnswerInv, [Next]_managerVars, NEW t \in Tasks,
                      told[t] \in Terminal, told'[t] # told[t]
               PROVE  t \in unsaved
    OBVIOUS
  <2>1. PICK u \in Tasks : Poll(u)
    BY DEF Next, Process, Sigterm, Exit, Kill, Start, Gone, Job, Begin,
           Finish, Cancel, Submit, managerVars, AnswerInv
  <2>2. u = t /\ told'[t] = Lookup(t)
    BY <2>1 DEF Poll, AnswerInv, TypeOK
  <2> QED
    BY <2>2 DEF Lookup, AnswerInv, TypeOK, Terminal, ToldKept
<1> QED
  BY <1>1, AnswersInvariant, PTL DEF Spec, AnswersStick

\* A graceful stop finds no job at work; it may cancel one that did not begin yet.
SparesJobs == \A t \in Tasks : phase[t] = "awaiting" => ~Cancel(t)

\* Then no file says "running", and what the dict calls running is alive or left by
\* a worker on its way out.
AliveInv ==
  \A t \in Tasks :
    /\ disk[t] # "running"
    /\ status[t] = "running" => phase[t] \in Live \/ worker = "closing"

\* Only the `finally` of a cancelled job writes "running".
LEMMA AliveStep == AnswerInv /\ AliveInv /\ [Next /\ SparesJobs]_managerVars => AliveInv'
<1> SUFFICES ASSUME AnswerInv, AliveInv, [Next /\ SparesJobs]_managerVars,
                    NEW t \in Tasks
             PROVE  (/\ disk[t] # "running"
                     /\ status[t] = "running" => phase[t] \in Live \/ worker = "closing")'
  BY DEF AliveInv
<1> USE DEF AnswerInv, TypeOK, AliveInv, Terminal, Live
<1>1. CASE Process
  BY <1>1 DEF Process, Sigterm, Exit, Kill, Start, Gone
<1>2. ASSUME NEW u \in Tasks, Job(u), SparesJobs
      PROVE  (/\ disk[t] # "running"
              /\ status[t] = "running" => phase[t] \in Live \/ worker = "closing")'
  <2>1. CASE Begin(u)
    BY <2>1 DEF Begin
  <2>2. CASE Finish(u)
    BY <2>2 DEF Finish, Persist
  <2>3. CASE Cancel(u)
    <3>1. phase[u] = "created"
      BY <1>2, <2>3 DEF SparesJobs, Cancel
    <3> QED
      BY <2>3, <3>1 DEF Cancel
  <2> QED
    BY <1>2, <2>1, <2>2, <2>3 DEF Job
<1>3. ASSUME NEW u \in Tasks, Submit(u) \/ Poll(u)
      PROVE  (/\ disk[t] # "running"
              /\ status[t] = "running" => phase[t] \in Live \/ worker = "closing")'
  BY <1>3 DEF Submit, Poll
<1>4. CASE UNCHANGED managerVars
  BY <1>4 DEF managerVars
<1> QED
  BY <1>1, <1>2, <1>3, <1>4 DEF Next

\* "Running" speaks of a job somebody works on (tasks.py, the docstring), as long as
\* no graceful stop cancels a job at work; kills and failing writes do no harm.
THEOREM AliveUnlessCancelled ==
  Spec /\ [][SparesJobs]_managerVars => []RunningIsAlive
<1>1. Init => AliveInv
  BY DEF Init, AliveInv
<1>2. AnswerInv /\ AliveInv => RunningIsAlive
  BY DEF AnswerInv, TypeOK, AliveInv, RunningIsAlive, Lookup
<1>3. [Next]_managerVars /\ [SparesJobs]_managerVars => [Next /\ SparesJobs]_managerVars
  OBVIOUS
<1> QED
  BY <1>1, <1>2, <1>3, AliveStep, AnswersInvariant, PTL DEF Spec

-----------------------------------------------------------------------------
(* The page over the manager *)

\* Every task the page has to do with has been submitted.
Known ==
  \A t \in Tasks :
    t \in {posted, taskId, pollFor} \/ (\E a \in answers : a.task = t) => phase[t] # "none"

\* The id in the response of a POST is new to the page, and so a late answer is
\* never one for a task the page has yet to poll.
IdsAreNew ==
  /\ posted # NoTask => posted \notin {taskId, pollFor}
  /\ \A a \in answers : a.task # pollFor => a.task \notin {posted, taskId}

\* An answer on its way to the current effect is what the worker told last; a page
\* that shows a result has stopped polling for it.
CarriesTold(a) == a.task = pollFor /\ a.body \in Terminal => told[a.task] = a.body

ShowsTold == pollFor # NoTask /\ view \in Terminal => told[pollFor] = view /\ poll = "off"

\* Only a page with a task polls.
PollsTask == poll # "off" => pollFor # NoTask

PageCore == PageTypeOK /\ PollsTask /\ ShowsTold /\ \A a \in answers : CarriesTold(a)

PageInv == AnswerInv /\ Known /\ IdsAreNew /\ PageCore

\* A step of the page or of what goes on around it is a step of the manager or
\* leaves it alone: a client does nothing to the manager that the manager's own
\* specification does not allow.
LEMMA PageStepsManager == PageTypeOK /\ PollsTask /\ PageNext => [Next]_managerVars
<1> SUFFICES ASSUME PageTypeOK, PollsTask, PageNext PROVE [Next]_managerVars
  OBVIOUS
<1>1. CASE Click \/ TokenThrows \/ Unmount \/ Mount
  BY <1>1 DEF Click, TokenThrows, Unmount, Mount
<1>2. CASE Run
  BY <1>2 DEF Run, Send, Refused, Resume, Next
<1>3. CASE Hook
  <2>1. CASE RunEffect \/ Tick \/ \E a \in answers : Deliver(a)
    BY <2>1 DEF RunEffect, Tick, Deliver
  <2>2. CASE Serve
    <3>1. pollFor \in Tasks
      BY <2>2 DEF Serve, PollsTask, PageTypeOK
    <3> QED
      BY <2>2, <3>1 DEF Serve, Next
  <2> QED
    BY <1>3, <2>1, <2>2 DEF Hook
<1>4. CASE Backend
  BY <1>4 DEF Backend, Next
<1> QED
  BY <1>1, <1>2, <1>3, <1>4 DEF PageNext

\* A task that was submitted stays so.
LEMMA PhaseStays ==
  ASSUME TypeOK, [Next]_managerVars, NEW t \in Tasks, phase[t] # "none"
  PROVE  phase'[t] # "none"
BY DEF TypeOK, Next, Process, Sigterm, Exit, Kill, Start, Gone, Job, Begin, Finish, Cancel,
       Submit, Poll, managerVars

\* The ids the page knows: a new one comes with the response of a POST and replaces
\* the old ones in turn.
LEMMA IdsStep ==
  ASSUME PageInv, [PageNext]_vars
  PROVE  Known' /\ IdsAreNew'
<1> USE DEF PageInv, PageCore
<1>1. /\ {posted, taskId, pollFor} \subseteq Tasks \cup {NoTask}
      /\ \A a \in answers : a.task \in Tasks
  BY DEF PageTypeOK
<1>2. \A t \in Tasks : phase[t] # "none" => phase'[t] # "none"
  BY PageStepsManager, PhaseStays DEF AnswerInv, vars
<1> USE <1>1, <1>2, NoTaskAssumption DEF Known, IdsAreNew
<1>3. CASE Click \/ TokenThrows \/ Refused \/ Tick \/ Mount \/ Backend \/ UNCHANGED vars
  BY <1>3 DEF Click, TokenThrows, Refused, Tick, Mount, Backend, vars, pageVars, hookVars,
              postVars
<1>4. CASE Send
  <2>1. PICK t \in Tasks : phase[t] = "none" /\ phase'[t] # "none" /\ posted' = t
    BY <1>4 DEF Send, Submit, AnswerInv, TypeOK
  <2> QED
    BY <1>4, <2>1 DEF Send, hookVars
<1>5. CASE Resume
  BY <1>5 DEF Resume, hookVars
<1>6. CASE RunEffect
  BY <1>6 DEF RunEffect, postVars
<1>7. CASE Serve
  <2>1. pollFor \in Tasks
    BY <1>7 DEF Serve, PollsTask
  <2> QED
    BY <1>7, <2>1 DEF Serve, postVars
<1>8. ASSUME NEW a \in answers, Deliver(a) PROVE Known' /\ IdsAreNew'
  BY <1>8 DEF Deliver, postVars
<1>9. CASE Unmount
  BY <1>9 DEF Unmount
<1> QED
  BY <1>3, <1>4, <1>5, <1>6, <1>7, <1>8, <1>9 DEF PageNext, Run, Hook

\* Steps that tell nothing leave the page what it had from the worker.
LEMMA QuietStep ==
  ASSUME PageInv, told' = told, UNCHANGED <<answers, pollFor>>,
         PageTypeOK', PollsTask', ShowsTold'
  PROVE  PageCore'
BY DEF PageInv, PageCore, CarriesTold

\* The query: run() up to the id of its task.
LEMMA QueryStep ==
  ASSUME PageInv, AnswerInv', Click \/ TokenThrows \/ Run
  PROVE  PageCore'
<1>1. told' = told /\ UNCHANGED hookVars
  BY DEF Click, TokenThrows, Run, Send, Refused, Resume, Submit, managerVars
<1>2. TypeOK'
  BY DEF AnswerInv
<1>3. PageTypeOK'
  <2> USE <1>1, <1>2 DEF PageInv, PageCore, PageTypeOK, hookVars, postVars
  <2>1. CASE Click
    BY <2>1 DEF Click
  <2>2. CASE TokenThrows
    BY <2>2 DEF TokenThrows
  <2>3. CASE Send
    BY <2>3 DEF Send
  <2>4. CASE Refused
    BY <2>4 DEF Refused
  <2>5. CASE Resume
    BY <2>5 DEF Resume
  <2> QED
    BY <2>1, <2>2, <2>3, <2>4, <2>5 DEF Run
<1> QED
  BY <1>1, <1>3, QuietStep DEF PageInv, PageCore, PollsTask, ShowsTold, hookVars

\* A request for the status is served or fails: what it is told, it carries.
LEMMA ServeStep ==
  ASSUME PageInv, AnswerInv', Serve
  PROVE  PageCore'
<1>1. /\ poll = "asking" /\ pollFor \in Tasks /\ \A a \in answers : a.task # pollFor
      /\ UNCHANGED <<mounted, busy, post, posted, taskId, pollFor, poll, view, pollError>>
  BY DEF Serve, PageInv, PageCore, PollsTask, PageTypeOK, postVars
<1>2. PICK b : /\ answers' = answers \cup {[task |-> pollFor, body |-> b]}
               /\ \/ b = Lookup(pollFor) /\ told' = [told EXCEPT ![pollFor] = b]
                  \/ b = "error" /\ told' = told
  BY DEF Serve, Poll, managerVars
<1>3. TypeOK /\ TypeOK'
  BY DEF AnswerInv, PageInv, PageCore, PageCore
<1>4. Lookup(pollFor) \in {"running", "missing", "error"} \cup Terminal
  BY <1>1, <1>3 DEF TypeOK, Lookup
<1>5. PageTypeOK'
  BY <1>1, <1>2, <1>3, <1>4 DEF PageInv, PageCore, PageTypeOK
<1>6. \A a \in answers' : CarriesTold(a)'
  BY <1>1, <1>2, <1>3 DEF PageInv, PageCore, PageTypeOK, CarriesTold, TypeOK, Terminal
<1>7. PollsTask' /\ ShowsTold'
  BY <1>1, <1>2, <1>3 DEF PageInv, PageCore, PollsTask, ShowsTold
<1> QED
  BY <1>5, <1>6, <1>7 DEF PageInv, PageCore

\* An answer comes back: ignored, a failure, or the next status to show.
LEMMA DeliverStep ==
  ASSUME PageInv, AnswerInv', NEW a \in answers, Deliver(a)
  PROVE  PageCore'
<1>1. /\ answers' = answers \ {a} /\ told' = told
      /\ UNCHANGED <<mounted, busy, post, posted, taskId, pollFor>>
  BY DEF Deliver, managerVars, postVars
<1>2. TypeOK'
  BY DEF AnswerInv
<1>3. /\ a.task \in Tasks /\ a.body \in {"running", "missing", "error"} \cup Terminal
      /\ CarriesTold(a)
  BY DEF PageInv, PageCore, PageTypeOK
<1>4. PageTypeOK' /\ PollsTask' /\ ShowsTold'
  <2> USE <1>1, <1>2, <1>3, NoTaskAssumption
      DEF PageInv, PageCore, PageTypeOK, PollsTask, ShowsTold, Terminal
  <2>1. CASE Ignored(a) /\ UNCHANGED <<poll, view, pollError>>
    BY <2>1
  <2>2. CASE ~Ignored(a) /\ IsFailure(a) /\ pollError' = TRUE /\ poll' = "off" /\ UNCHANGED view
    BY <2>2
  <2>3. CASE /\ ~Ignored(a) /\ ~IsFailure(a) /\ view' = a.body /\ UNCHANGED pollError
             /\ poll' = IF IsTerminal(a.body) THEN "off" ELSE "timer"
    BY <2>3 DEF Ignored, IsFailure, IsTerminal, CarriesTold
  <2> QED
    BY <2>1, <2>2, <2>3 DEF Deliver
<1> QED
  BY <1>1, <1>4 DEF PageInv, PageCore, CarriesTold

\* Effects, timers and tabs.
LEMMA EffectStep ==
  ASSUME PageInv, AnswerInv', RunEffect \/ Tick \/ Unmount \/ Mount
  PROVE  PageCore'
<1>1. told' = told /\ UNCHANGED answers
  BY DEF RunEffect, Tick, Unmount, Mount, managerVars, hookVars
<1>2. TypeOK'
  BY DEF AnswerInv
<1>3. PageTypeOK' /\ PollsTask' /\ ShowsTold'
  <2> USE <1>1, <1>2 DEF PageInv, PageCore, PageTypeOK, PollsTask, ShowsTold, Terminal, postVars, hookVars
  <2>1. CASE RunEffect
    BY <2>1 DEF RunEffect
  <2>2. CASE Tick
    BY <2>2 DEF Tick
  <2>3. CASE Unmount
    BY <2>3 DEF Unmount
  <2>4. CASE Mount
    BY <2>4 DEF Mount
  <2> QED
    BY <2>1, <2>2, <2>3, <2>4
<1>4. \A a \in answers' : CarriesTold(a)'
  <2> SUFFICES ASSUME NEW a \in answers PROVE CarriesTold(a)'
    BY <1>1
  <2>1. a.task \in Tasks /\ (a.task # pollFor => a.task # taskId) /\ CarriesTold(a)
    BY DEF PageInv, PageCore, PageTypeOK, IdsAreNew
  <2>2. pollFor' = pollFor \/ pollFor' = NoTask \/ (pollFor' = taskId /\ pollFor # taskId)
    BY DEF RunEffect, Tick, Unmount, Mount, hookVars
  <2> QED
    BY <1>1, <2>1, <2>2, NoTaskAssumption DEF CarriesTold
<1> QED
  BY <1>3, <1>4 DEF PageCore

\* What others do leaves the task this page polls alone.
LEMMA BackendStep ==
  ASSUME PageInv, AnswerInv', Backend
  PROVE  PageCore'
<1>1. UNCHANGED pageVars /\ (pollFor # NoTask => told'[pollFor] = told[pollFor])
  BY DEF Backend, Process, Sigterm, Exit, Kill, Start, Gone, Job, Begin, Finish, Cancel,
         Submit, Poll, PageInv, PageCore, PageTypeOK, AnswerInv, TypeOK
<1>2. TypeOK'
  BY DEF AnswerInv
<1> QED
  BY <1>1, <1>2, NoTaskAssumption
     DEF PageInv, PageCore, PageTypeOK, PollsTask, ShowsTold, CarriesTold, pageVars

\* The page keeps what it knows of the manager's answers.
LEMMA PageInvariant == PageSpec => []PageInv
<1>1. PageInit => PageInv
  <2> SUFFICES ASSUME PageInit PROVE PageInv
    OBVIOUS
  <2>1. AnswerInv /\ TypeOK
    BY AnswerStart DEF PageInit, AnswerInv
  <2>2. PageCore
    BY <2>1 DEF PageInit, PageCore, PageTypeOK, PollsTask, ShowsTold, Terminal
  <2>3. Known /\ IdsAreNew
    BY NoTaskAssumption DEF PageInit, Known, IdsAreNew
  <2> QED
    BY <2>1, <2>2, <2>3 DEF PageInv
<1>2. PageInv /\ [PageNext]_vars => PageInv'
  <2> SUFFICES ASSUME PageInv, [PageNext]_vars PROVE PageInv'
    OBVIOUS
  <2>1. AnswerInv'
    BY PageStepsManager, AnswerStep DEF PageInv, PageCore, vars
  <2>2. PageCore'
    <3>1. CASE UNCHANGED vars
      BY <2>1, <3>1, QuietStep
         DEF PageInv, PageCore, AnswerInv, PageTypeOK, PollsTask, ShowsTold, vars, pageVars,
             managerVars
    <3>2. CASE PageNext
      BY <2>1, <3>2, QueryStep, ServeStep, DeliverStep, EffectStep, BackendStep
         DEF PageNext, Hook
    <3> QED
      BY <3>1, <3>2
  <2> QED
    BY <2>1, <2>2, IdsStep DEF PageInv
<1> QED
  BY <1>1, <1>2, PTL DEF PageSpec

\* Every variable of the page keeps its type (HistoryPage.tsx, useTaskPoll.ts).
THEOREM PageTypeCorrect == PageSpec => []PageTypeOK
<1>1. PageInv => PageTypeOK
  BY DEF PageInv, PageCore
<1> QED
  BY <1>1, PageInvariant, PTL

\* The result on the page is never that of another query (the `cancelled` flag of
\* useTaskPoll.ts), however many tasks there are and answers on their way.
THEOREM ResultAlwaysOwn == PageSpec => []ResultIsOwn
<1>1. PageInv => ResultIsOwn
  BY DEF PageInv, PageCore, ShowsTold, ResultIsOwn
<1> QED
  BY <1>1, PageInvariant, PTL

\* It is what a reload would find again, if the worker could write it down.
THEOREM ResultAlwaysKept == PageSpec => []ResultIsKept
<1>1. PageInv => ResultIsKept
  <2> SUFFICES ASSUME PageInv, taskId # NoTask, pollFor = taskId, view \in Terminal,
                      taskId \notin unsaved
               PROVE  Lookup(taskId) = view
    BY DEF ResultIsKept
  <2>1. taskId \in Tasks /\ told[taskId] = view
    BY DEF PageInv, PageCore, PageTypeOK, ShowsTold
  <2>2. status[taskId] \in {"none", view} /\ disk[taskId] = view
    BY <2>1 DEF PageInv, PageCore, AnswerInv, ToldKept
  <2> QED
    BY <2>2 DEF Lookup, Terminal
<1> QED
  BY <1>1, PageInvariant, PTL

\* The page uses the manager as its specification allows, so what holds of the
\* manager holds of the two together: answers stick (history.py, HistoryPage.tsx).
THEOREM PageUsesManager == PageSpec => Spec /\ AnswersStick
<1>1. PageInit => Init
  BY DEF PageInit
<1>2. PageInv /\ [PageNext]_vars => [Next]_managerVars
  BY PageStepsManager DEF PageInv, PageCore, vars
<1>3. PageSpec => Spec
  BY <1>1, <1>2, PageInvariant, PTL DEF PageSpec, Spec
<1> QED
  BY <1>3, AnswersAlwaysStick
=============================================================================
