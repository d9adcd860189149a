--------------------------- MODULE JobManagerProofs ---------------------------
(***************************************************************************)
(* Proofs about module JobManager, for every set of jobs, connections and  *)
(* observers and every choice of the abnormal events.                      *)
(***************************************************************************)
EXTENDS JobManager, TLAPS

USE DEF fields, workflow, stopping, vars

-----------------------------------------------------------------------------
(* The worker's position and the fields of its job. *)

Waiting    == {"uncreated", "start", "announce"}
Succeeding == {"okSummary", "okStatus", "okFinish", "okEvent"}
Failing    == {"errError", "errStatus", "errFinish", "errSummary", "errEvent", "died"}

\* The status follows the worker; the one of a success is the summary's.
StatusFollows(j) ==
    /\ pc[j] \in {"uncreated", "start"} => status[j] = "queued"
    /\ pc[j] \in {"announce", "work", "okSummary", "okStatus", "errError", "errStatus"}
           => status[j] = "running"
    /\ pc[j] \in {"okStatus", "okFinish", "okEvent"}
           => summary[j] \in IF j \in Reviewing THEN Outcome ELSE {"success"}
    /\ pc[j] \in {"okFinish", "okEvent"} => status[j] = summary[j]
    /\ pc[j] \in Failing \ {"errError", "errStatus"} => status[j] = "failure"
    /\ pc[j] = "done" => status[j] = IF error[j] THEN "failure" ELSE summary[j]
    /\ pc[j] = "done" => status[j] \in Outcome

\* The error is set on the way of a failure only, and before its status.
ErrorFollows(j) ==
    /\ pc[j] \in Failing \ {"errError"} => error[j]
    /\ error[j] => pc[j] \in (Failing \ {"errError"}) \cup {"done"}

FinishedFollows(j) ==
    pc[j] \in {"okEvent", "errSummary", "errEvent", "done", "died"} => finished[j]

\* The worker and its workflow: which way it has gone is what the workflow
\* came to.
PhaseFollows(j) ==
    /\ phase[j] = "idle" <=> pc[j] \in Waiting
    /\ phase[j] \in {"running", "committed"} <=> pc[j] = "work"
    /\ phase[j] = "ok" => pc[j] \in Succeeding \cup {"done"} /\ ~error[j]
    /\ phase[j] = "failed" => pc[j] \in Failing \cup {"done"} /\ (pc[j] = "done" => error[j])

\* A note is owed for a stop request that was made.
NotesOwed(j) == stopper[j] <= stops[j]

WorkerInv ==
    \A j \in Job : StatusFollows(j) /\ ErrorFollows(j) /\ FinishedFollows(j) /\ PhaseFollows(j) /\ NotesOwed(j)

IInv == TypeOK /\ WorkerInv

LEMMA InitIInv == Init => IInv
<1> SUFFICES ASSUME Init PROVE IInv
  OBVIOUS
<1> USE JobManagerAssumption DEF Init, Workflow!Init
<1>1. TypeOK
  <2>1. stream \in [Stream -> [state : {"unopened", "open", "left", "ended"},
                               holds : EventType \cup {"none"}]]
    OBVIOUS
  <2>2. view \in [Observer -> [next : {"status", "summary", "error", "done"},
                               status : {"queued", "running"} \cup Outcome,
                               summary : SummaryVal, error : BOOLEAN]]
    BY DEF SummaryVal
  <2>3. events \in [Job -> Seq(EventType \ {"elapsed"})]
    OBVIOUS
  <2>4. QED
    BY <2>1, <2>2, <2>3 DEF TypeOK, PcLabel, SummaryVal
<1>2. WorkerInv
  <2> SUFFICES ASSUME NEW j \in Job
               PROVE  StatusFollows(j) /\ ErrorFollows(j) /\ FinishedFollows(j) /\ PhaseFollows(j) /\ NotesOwed(j)
    BY DEF WorkerInv
  <2>1. /\ pc[j] = "uncreated" /\ status[j] = "queued" /\ error[j] = FALSE /\ phase[j] = "idle"
        /\ stopper[j] = 0 /\ stops[j] = 0
    OBVIOUS
  <2>2. QED
    BY <2>1 DEF StatusFollows, ErrorFollows, FinishedFollows, PhaseFollows, NotesOwed,
                Waiting, Succeeding, Failing
<1>3. QED
  BY <1>1, <1>2 DEF IInv

\* The records of the request threads.
StreamState == {"unopened", "open", "left", "ended"}
StreamEvent == EventType \cup {"none"}
Connection  == [state : StreamState, holds : StreamEvent]
Reads       == {"status", "summary", "error", "done"}
JobStatus   == {"queued", "running"} \cup Outcome
Snapshot    == [next : Reads, status : JobStatus, summary : SummaryVal, error : BOOLEAN]

LEMMA StateSet ==
    ASSUME NEW f \in [Stream -> Connection], NEW c \in Stream, NEW s \in StreamState
    PROVE  [f EXCEPT ![c].state = s] \in [Stream -> Connection]
BY DEF Connection

LEMMA HoldsSet ==
    ASSUME NEW f \in [Stream -> Connection], NEW c \in Stream, NEW e \in StreamEvent
    PROVE  [f EXCEPT ![c].holds = e] \in [Stream -> Connection]
BY DEF Connection

LEMMA BothSet ==
    ASSUME NEW f \in [Stream -> Connection], NEW c \in Stream, NEW s \in StreamState, NEW e \in StreamEvent
    PROVE  [f EXCEPT ![c].holds = e, ![c].state = s] \in [Stream -> Connection]
BY DEF Connection

LEMMA StatusSeen ==
    ASSUME NEW f \in [Observer -> Snapshot], NEW o \in Observer, NEW n \in Reads, NEW t \in JobStatus
    PROVE  [f EXCEPT ![o].next = n, ![o].status = t] \in [Observer -> Snapshot]
BY DEF Snapshot

LEMMA SummarySeen ==
    ASSUME NEW f \in [Observer -> Snapshot], NEW o \in Observer, NEW n \in Reads, NEW s \in SummaryVal
    PROVE  [f EXCEPT ![o].next = n, ![o].summary = s] \in [Observer -> Snapshot]
BY DEF Snapshot

LEMMA ErrorSeen ==
    ASSUME NEW f \in [Observer -> Snapshot], NEW o \in Observer, NEW n \in Reads, NEW e \in BOOLEAN
    PROVE  [f EXCEPT ![o].next = n, ![o].error = e] \in [Observer -> Snapshot]
BY DEF Snapshot

\* TypeOK in terms of the two.
LEMMA ThreadTypes ==
    /\ TypeOK => stream \in [Stream -> Connection] /\ view \in [Observer -> Snapshot]
    /\ TypeOK /\ UNCHANGED <<pc, fields, workflow, stopping>>
          /\ events' \in [Job -> Seq(EventType \ {"elapsed"})]
          /\ stream' \in [Stream -> Connection] /\ view' \in [Observer -> Snapshot] => TypeOK'
BY DEF TypeOK, Connection, StreamState, StreamEvent, Snapshot, Reads, JobStatus

LEMMA StreamTypes ==
    ASSUME TypeOK, NEW c \in Stream,
           Connect(c) \/ Take(c) \/ Deliver(c) \/ Leave(c) \/ WriteToNobody(c)
    PROVE  TypeOK'
<1>0. /\ stream \in [Stream -> Connection]
      /\ events \in [Job -> Seq(EventType \ {"elapsed"})]
      /\ JobOf[c] \in Job
  BY ThreadTypes, JobManagerAssumption DEF TypeOK
<1>1. CASE Connect(c) \/ Leave(c)
  <2>1. stream' = [stream EXCEPT ![c].state = "open"] \/ stream' = [stream EXCEPT ![c].state = "left"]
    BY <1>1 DEF Connect, Leave
  <2>2. "open" \in StreamState /\ "left" \in StreamState
    BY DEF StreamState
  <2>3. stream' \in [Stream -> Connection]
    BY <1>0, <2>1, <2>2, StateSet
  <2>4. QED
    BY <1>0, <1>1, <2>3, ThreadTypes DEF Connect, Leave
<1>2. CASE Take(c)
  <2>1. CASE events[JobOf[c]] = <<>>
    <3>1. stream' = [stream EXCEPT ![c].holds = "elapsed"]
      BY <1>2, <2>1 DEF Take
    <3>2. stream' \in [Stream -> Connection]
      BY <1>0, <3>1, HoldsSet DEF StreamEvent, EventType
    <3>3. QED
      BY <1>0, <1>2, <2>1, <3>2, ThreadTypes DEF Take
  <2>2. CASE events[JobOf[c]] # <<>>
    <3>1. Head(events[JobOf[c]]) \in StreamEvent /\ Tail(events[JobOf[c]]) \in Seq(EventType \ {"elapsed"})
      BY <1>0, <2>2 DEF StreamEvent
    <3>2. stream' = [stream EXCEPT ![c].holds = Head(events[JobOf[c]])]
          /\ events' = [events EXCEPT ![JobOf[c]] = Tail(@)]
      BY <1>2, <2>2 DEF Take
    <3>3. stream' \in [Stream -> Connection] /\ events' \in [Job -> Seq(EventType \ {"elapsed"})]
      BY <1>0, <3>1, <3>2, HoldsSet
    <3>4. QED
      BY <1>2, <3>3, ThreadTypes DEF Take
  <2>3. QED
    BY <2>1, <2>2
<1>3. CASE Deliver(c)
  <2>1. stream' = [stream EXCEPT ![c].state = "ended"] \/ stream' = [stream EXCEPT ![c].holds = "none"]
    BY <1>3, <1>0 DEF Deliver
  <2>2. "ended" \in StreamState /\ "none" \in StreamEvent
    BY DEF StreamState, StreamEvent
  <2>3. stream' \in [Stream -> Connection]
    <3>1. CASE stream' = [stream EXCEPT ![c].state = "ended"]
      BY <1>0, <2>2, <3>1, StateSet
    <3>2. CASE stream' = [stream EXCEPT ![c].holds = "none"]
      BY <1>0, <2>2, <3>2, HoldsSet
    <3>3. QED
      BY <2>1, <3>1, <3>2
  <2>4. QED
    BY <1>0, <1>3, <2>3, ThreadTypes DEF Deliver
<1>4. CASE WriteToNobody(c)
  <2>1. PICK s \in {"left", "ended"} : stream' = [stream EXCEPT ![c].holds = "none", ![c].state = s]
    BY <1>4 DEF WriteToNobody
  <2>2. stream' \in [Stream -> Connection]
    BY <1>0, <2>1, BothSet DEF StreamState, StreamEvent
  <2>3. QED
    BY <1>0, <1>4, <2>2, ThreadTypes DEF WriteToNobody
<1>5. QED
  BY <1>1, <1>2, <1>3, <1>4

LEMMA ObserverTypes == ASSUME TypeOK, NEW o \in Observer, Look(o) PROVE TypeOK'
<1>1. /\ view \in [Observer -> Snapshot]
      /\ status[Target[o]] \in JobStatus /\ summary[Target[o]] \in SummaryVal /\ error[Target[o]] \in BOOLEAN
  BY ThreadTypes, JobManagerAssumption DEF TypeOK, JobStatus
<1>2. view' \in [Observer -> Snapshot]
  <2>1. "summary" \in Reads /\ "error" \in Reads /\ "done" \in Reads
    BY DEF Reads
  <2>2. \/ view' = [view EXCEPT ![o].next = "summary", ![o].status = status[Target[o]]]
        \/ view' = [view EXCEPT ![o].next = "error", ![o].summary = summary[Target[o]]]
        \/ view' = [view EXCEPT ![o].next = "done", ![o].error = error[Target[o]]]
    BY DEF Look
  <2>3. QED
    BY <1>1, <2>1, <2>2, StatusSeen, SummarySeen, ErrorSeen
<1>3. events \in [Job -> Seq(EventType \ {"elapsed"})] /\ stream \in [Stream -> Connection]
  BY ThreadTypes DEF TypeOK
<1>4. QED
  BY <1>2, <1>3, ThreadTypes DEF Look

\* A step keeps the types: the status of a review is a summary that was set,
\* and there are no more notes owed than stops.
LEMMA TypeStep == IInv /\ [Next]_vars => TypeOK'
<1> SUFFICES ASSUME IInv, [Next]_vars PROVE TypeOK'
  OBVIOUS
<1> USE JobManagerAssumption DEF IInv, TypeOK, PcLabel, SummaryVal, EventType, Terminal, Outcome, Step, Goto, Put
<1>1. ASSUME NEW j \in Job, Create(j) PROVE TypeOK'
  BY <1>1 DEF Create
<1>2. ASSUME NEW j \in Job, SetRunning(j) PROVE TypeOK'
  BY <1>2 DEF SetRunning
<1>3. ASSUME NEW j \in Job, Announce(j) PROVE TypeOK'
  BY <1>3 DEF Announce, Workflow!Start
<1>4. ASSUME NEW j \in Job, LogLine(j) PROVE TypeOK'
  BY <1>4 DEF LogLine, Workflow!Active
<1>5. ASSUME NEW j \in Job, WorkflowCommits(j) PROVE TypeOK'
  BY <1>5 DEF WorkflowCommits, Workflow!Commit
<1>6. ASSUME NEW j \in Job, WorkflowReturns(j) PROVE TypeOK'
  BY <1>6 DEF WorkflowReturns, Workflow!Succeed
<1>7. ASSUME NEW j \in Job, WorkflowRaises(j) PROVE TypeOK'
  BY <1>7 DEF WorkflowRaises, Workflow!Fail, Workflow!Active
<1>8. ASSUME NEW j \in Job, SetSummary(j) PROVE TypeOK'
  BY <1>8 DEF SetSummary
<1>9. ASSUME NEW j \in Job, SetSuccess(j) PROVE TypeOK'
  <2>1. summary[j] \in Outcome
    BY <1>9 DEF SetSuccess, WorkerInv, StatusFollows
  <2>2. QED
    BY <1>9, <2>1 DEF SetSuccess
<1>10. ASSUME NEW j \in Job, SetFinished(j) PROVE TypeOK'
  BY <1>10 DEF SetFinished
<1>11. ASSUME NEW j \in Job, PutSummary(j) PROVE TypeOK'
  BY <1>11 DEF PutSummary
<1>12. ASSUME NEW j \in Job, SetError(j) PROVE TypeOK'
  BY <1>12 DEF SetError
<1>13. ASSUME NEW j \in Job, SetFailure(j) PROVE TypeOK'
  BY <1>13 DEF SetFailure
<1>14. ASSUME NEW j \in Job, ReadSummary(j) PROVE TypeOK'
  BY <1>14 DEF ReadSummary
<1>15. ASSUME NEW j \in Job, ReadSummaryRaises(j) PROVE TypeOK'
  BY <1>15 DEF ReadSummaryRaises
<1>16. ASSUME NEW j \in Job, PutError(j) PROVE TypeOK'
  BY <1>16 DEF PutError
<1>17. ASSUME NEW j \in Job, StopJob(j) PROVE TypeOK'
  <2>1. stopper[j] <= stops[j]
    BY DEF WorkerInv, NotesOwed
  <2>2. stops[j] + 1 \in 0 .. MaxStop /\ stopper[j] + 1 \in 0 .. MaxStop
    BY <1>17, <2>1 DEF StopJob
  <2>3. QED
    BY <1>17, <2>2 DEF StopJob, Workflow!RequestStop
<1>18. ASSUME NEW j \in Job, PutStopNote(j) PROVE TypeOK'
  BY <1>18 DEF PutStopNote
<1>19. ASSUME NEW c \in Stream, Connect(c) \/ Take(c) \/ Deliver(c) \/ Leave(c) \/ WriteToNobody(c) PROVE TypeOK'
  BY <1>19, StreamTypes
<1>20. ASSUME NEW o \in Observer, Look(o) PROVE TypeOK'
  BY <1>20, ObserverTypes
<1>21. CASE UNCHANGED vars
  BY <1>21
<1>22. QED
  BY <1>1, <1>2, <1>3, <1>4, <1>5, <1>6, <1>7, <1>8, <1>9, <1>10, <1>11, <1>12, <1>13, <1>14, <1>15, <1>16,
     <1>17, <1>18, <1>19, <1>20, <1>21 DEF Next, Bookkeeping, WorkflowStep

LEMMA WorkerStep == IInv /\ [Next]_vars => WorkerInv'
<1> SUFFICES ASSUME IInv, [Next]_vars PROVE WorkerInv'
  OBVIOUS
<1> USE JobManagerAssumption
    DEF IInv, TypeOK, PcLabel, SummaryVal, Outcome, Step, Goto, Put, Waiting, Succeeding, Failing,
        WorkerInv, StatusFollows, ErrorFollows, FinishedFollows, PhaseFollows, NotesOwed
<1>1. ASSUME NEW j \in Job, Create(j) PROVE WorkerInv'
  BY <1>1 DEF Create
<1>2. ASSUME NEW j \in Job, SetRunning(j) PROVE WorkerInv'
  BY <1>2 DEF SetRunning
<1>3. ASSUME NEW j \in Job, Announce(j) PROVE WorkerInv'
  BY <1>3 DEF Announce, Workflow!Start
<1>4. ASSUME NEW j \in Job, LogLine(j) PROVE WorkerInv'
  BY <1>4 DEF LogLine, Workflow!Active
<1>5. ASSUME NEW j \in Job, WorkflowCommits(j) PROVE WorkerInv'
  BY <1>5 DEF WorkflowCommits, Workflow!Commit
<1>6. ASSUME NEW j \in Job, WorkflowReturns(j) PROVE WorkerInv'
  BY <1>6 DEF WorkflowReturns, Workflow!Succeed
<1>7. ASSUME NEW j \in Job, WorkflowRaises(j) PROVE WorkerInv'
  BY <1>7 DEF WorkflowRaises, Workflow!Fail, Workflow!Active
<1>8. ASSUME NEW j \in Job, SetSummary(j) PROVE WorkerInv'
  BY <1>8 DEF SetSummary
<1>9. ASSUME NEW j \in Job, SetSuccess(j) PROVE WorkerInv'
  BY <1>9 DEF SetSuccess
<1>10. ASSUME NEW j \in Job, SetFinished(j) PROVE WorkerInv'
  BY <1>10 DEF SetFinished
<1>11. ASSUME NEW j \in Job, PutSummary(j) PROVE WorkerInv'
  BY <1>11 DEF PutSummary
<1>12. ASSUME NEW j \in Job, SetError(j) PROVE WorkerInv'
  BY <1>12 DEF SetError
<1>13. ASSUME NEW j \in Job, SetFailure(j) PROVE WorkerInv'
  BY <1>13 DEF SetFailure
<1>14. ASSUME NEW j \in Job, ReadSummary(j) PROVE WorkerInv'
  BY <1>14 DEF ReadSummary
<1>15. ASSUME NEW j \in Job, ReadSummaryRaises(j) PROVE WorkerInv'
  BY <1>15 DEF ReadSummaryRaises
<1>16. ASSUME NEW j \in Job, PutError(j) PROVE WorkerInv'
  BY <1>16 DEF PutError
<1>17. ASSUME NEW j \in Job, StopJob(j) PROVE WorkerInv'
  BY <1>17 DEF StopJob, Workflow!RequestStop
<1>18. ASSUME NEW j \in Job, PutStopNote(j) PROVE WorkerInv'
  BY <1>18 DEF PutStopNote
<1>19. ASSUME NEW c \in Stream, Connect(c) PROVE WorkerInv'
  BY <1>19 DEF Connect
<1>20. ASSUME NEW c \in Stream, Take(c) PROVE WorkerInv'
  BY <1>20 DEF Take
<1>21. ASSUME NEW c \in Stream, Deliver(c) PROVE WorkerInv'
  BY <1>21 DEF Deliver
<1>22. ASSUME NEW c \in Stream, Leave(c) PROVE WorkerInv'
  BY <1>22 DEF Leave
<1>23. ASSUME NEW c \in Stream, WriteToNobody(c) PROVE WorkerInv'
  BY <1>23 DEF WriteToNobody
<1>24. ASSUME NEW o \in Observer, Look(o) PROVE WorkerInv'
  BY <1>24 DEF Look
<1>25. CASE UNCHANGED vars
  BY <1>25
<1>26. QED
  BY <1>1, <1>2, <1>3, <1>4, <1>5, <1>6, <1>7, <1>8, <1>9, <1>10, <1>11, <1>12, <1>13, <1>14, <1>15, <1>16, <1>17, <1>18, <1>19, <1>20, <1>21, <1>22, <1>23, <1>24, <1>25 DEF Next, Bookkeeping, WorkflowStep

-----------------------------------------------------------------------------
(* The events of a job and the place they are announced from. *)

Seen(j) == InQueue(j) \cup Taken(j)

\* A terminal event is the worker's last act, and tells which way it went.
TerminalIsLast(j) ==
    /\ Seen(j) \cap Terminal # {} => pc[j] = "done"
    /\ "summary" \in Seen(j) => ~error[j]
    /\ "error" \in Seen(j) => error[j]

\* In the order of the queue, only notes come behind a terminal event.
NotesBehind(j) ==
    /\ \A i, k \in DOMAIN events[j] : i < k /\ events[j][i] \in Terminal => events[j][k] = "note"
    /\ Taken(j) \cap Terminal # {} => InQueue(j) \subseteq {"note"}

EventInv == \A j \in Job : TerminalIsLast(j) /\ NotesBehind(j)

\* What an event put at the end of a queue, or taken from its head, does to
\* the events in it.
LEMMA AppendElements ==
    ASSUME NEW S, NEW q \in Seq(S), NEW e \in S
    PROVE  /\ {Append(q, e)[i] : i \in DOMAIN Append(q, e)} = {q[i] : i \in DOMAIN q} \cup {e}
           /\ \A i, k \in DOMAIN Append(q, e) : i < k =>
                  /\ i \in DOMAIN q /\ Append(q, e)[i] = q[i]
                  /\ \/ k \in DOMAIN q /\ Append(q, e)[k] = q[k]
                     \/ Append(q, e)[k] = e
<1>1. /\ DOMAIN q = 1 .. Len(q) /\ Len(q) \in Nat
      /\ DOMAIN Append(q, e) = 1 .. Len(q) + 1
      /\ \A i \in 1 .. Len(q) : Append(q, e)[i] = q[i]
      /\ Append(q, e)[Len(q) + 1] = e
  OBVIOUS
<1>2. \A i \in DOMAIN Append(q, e) : i \in DOMAIN q \/ i = Len(q) + 1
  BY <1>1
<1>3. {Append(q, e)[i] : i \in DOMAIN Append(q, e)} = {q[i] : i \in DOMAIN q} \cup {e}
  <2>1. \A i \in DOMAIN Append(q, e) : Append(q, e)[i] \in {q[n] : n \in DOMAIN q} \cup {e}
    BY <1>1, <1>2
  <2>2. \A i \in DOMAIN q : i \in DOMAIN Append(q, e) /\ q[i] = Append(q, e)[i]
    BY <1>1
  <2>3. Len(q) + 1 \in DOMAIN Append(q, e) /\ e = Append(q, e)[Len(q) + 1]
    BY <1>1
  <2>4. QED
    BY <2>1, <2>2, <2>3
<1>4. QED
  BY <1>1, <1>2, <1>3

LEMMA TailElements ==
    ASSUME NEW S, NEW q \in Seq(S), q # <<>>
    PROVE  /\ Head(q) = q[1] /\ 1 \in DOMAIN q
           /\ \A i \in DOMAIN Tail(q) : i + 1 \in DOMAIN q /\ 1 < i + 1 /\ Tail(q)[i] = q[i + 1]
           /\ \A i, k \in DOMAIN Tail(q) : i < k => i + 1 < k + 1
           /\ {Tail(q)[i] : i \in DOMAIN Tail(q)} \subseteq {q[i] : i \in DOMAIN q}
<1>1. /\ DOMAIN q = 1 .. Len(q) /\ Len(q) \in Nat /\ Len(q) # 0
      /\ DOMAIN Tail(q) = 1 .. Len(q) - 1
      /\ \A i \in 1 .. Len(q) - 1 : Tail(q)[i] = q[i + 1]
      /\ Head(q) = q[1]
  OBVIOUS
<1>2. \A i \in DOMAIN Tail(q) : i + 1 \in DOMAIN q /\ 1 < i + 1 /\ Tail(q)[i] = q[i + 1]
  BY <1>1
<1>3. \A i, k \in DOMAIN Tail(q) : i < k => i + 1 < k + 1
  BY <1>1
<1>4. QED
  BY <1>1, <1>2, <1>3

LEMMA InitEventInv == Init => EventInv
<1> SUFFICES ASSUME Init, NEW j \in Job PROVE TerminalIsLast(j) /\ NotesBehind(j)
  BY DEF EventInv
<1>1. events[j] = <<>> /\ InQueue(j) = {}
  BY DEF Init, InQueue
<1>2. Taken(j) \subseteq {"none"}
  BY DEF Init, Taken, Holds
<1>3. QED
  BY <1>1, <1>2 DEF TerminalIsLast, NotesBehind, Seen, Terminal

\* Nothing that was settled is taken back: the worker stays where it ended.
DoneStays == \A j \in Job : pc[j] = "done" => pc'[j] = "done" /\ error'[j] = error[j]

LEMMA WorkerStays == IInv /\ [Next]_vars => DoneStays
<1> SUFFICES ASSUME IInv, [Next]_vars PROVE DoneStays
  OBVIOUS
<1> USE DEF IInv, TypeOK, DoneStays, Step, Goto, Put
<1>1. ASSUME NEW j \in Job, Create(j) \/ Bookkeeping(j) PROVE DoneStays
  BY <1>1 DEF Create, Bookkeeping, SetRunning, Announce, SetSummary, SetSuccess, SetFinished, PutSummary,
              SetError, SetFailure, ReadSummary, ReadSummaryRaises, PutError
<1>2. ASSUME NEW j \in Job, WorkflowStep(j) PROVE DoneStays
  BY <1>2 DEF WorkflowStep, LogLine, WorkflowCommits, WorkflowReturns, WorkflowRaises
<1>3. ASSUME NEW j \in Job, StopJob(j) \/ PutStopNote(j) PROVE DoneStays
  BY <1>3 DEF StopJob, PutStopNote
<1>4. ASSUME NEW c \in Stream, Connect(c) \/ Take(c) \/ Deliver(c) \/ Leave(c) \/ WriteToNobody(c) PROVE DoneStays
  BY <1>4 DEF Connect, Take, Deliver, Leave, WriteToNobody
<1>5. ASSUME NEW o \in Observer, Look(o) PROVE DoneStays
  BY <1>5 DEF Look
<1>6. CASE UNCHANGED vars
  BY <1>6
<1>7. QED
  BY <1>1, <1>2, <1>3, <1>4, <1>5, <1>6 DEF Next

LEMMA EventsKept ==
    ASSUME EventInv, DoneStays, UNCHANGED <<events, stream>> PROVE EventInv'
<1> SUFFICES ASSUME NEW j \in Job PROVE (TerminalIsLast(j) /\ NotesBehind(j))'
  BY DEF EventInv
<1>1. InQueue(j)' = InQueue(j) /\ Taken(j)' = Taken(j)
  BY DEF InQueue, Taken, Holds
<1>2. TerminalIsLast(j) /\ NotesBehind(j)
  BY DEF EventInv
<1>3. TerminalIsLast(j)'
  BY <1>1, <1>2 DEF TerminalIsLast, Seen, DoneStays, Terminal
<1>4. NotesBehind(j)'
  BY <1>1, <1>2 DEF NotesBehind
<1>5. QED
  BY <1>3, <1>4

\* An event is put before the worker is done, unless it is a note.
LEMMA EventPut ==
    ASSUME TypeOK, EventInv, DoneStays, UNCHANGED stream,
           NEW j \in Job, NEW e \in EventType \ {"elapsed"}, Put(j, e),
           pc[j] # "done" \/ e = "note",
           e \in Terminal => pc'[j] = "done" /\ (error'[j] <=> e = "error")
    PROVE  EventInv'
<1> SUFFICES ASSUME NEW k \in Job PROVE (TerminalIsLast(k) /\ NotesBehind(k))'
  BY DEF EventInv
<1>0. TerminalIsLast(k) /\ NotesBehind(k)
  BY DEF EventInv
<1>1. Taken(k)' = Taken(k)
  BY DEF Taken, Holds
<1>2. CASE k # j
  <2>1. events'[k] = events[k] /\ InQueue(k)' = InQueue(k)
    BY <1>2 DEF Put, TypeOK, InQueue
  <2>2. TerminalIsLast(k)'
    BY <1>0, <1>1, <2>1 DEF TerminalIsLast, Seen, DoneStays, Terminal
  <2>3. NotesBehind(k)'
    BY <1>0, <1>1, <2>1 DEF NotesBehind
  <2>4. QED
    BY <2>2, <2>3
<1>3. CASE k = j
  <2>1. /\ events[j] \in Seq(EventType \ {"elapsed"})
        /\ events'[j] = Append(events[j], e)
    BY DEF Put, TypeOK
  <2>2. InQueue(j)' = InQueue(j) \cup {e}
    BY <2>1, AppendElements DEF InQueue
  <2>3. TerminalIsLast(j)'
    BY <1>0, <1>1, <1>3, <2>2 DEF TerminalIsLast, Seen, DoneStays, Terminal
  <2>4. \A i, n \in DOMAIN events'[j] : i < n /\ events'[j][i] \in Terminal => events'[j][n] = "note"
    <3> SUFFICES ASSUME NEW i \in DOMAIN events'[j], NEW n \in DOMAIN events'[j],
                        i < n, events'[j][i] \in Terminal
                 PROVE  events'[j][n] = "note"
      OBVIOUS
    <3>1. /\ i \in DOMAIN events[j] /\ events'[j][i] = events[j][i]
          /\ (n \in DOMAIN events[j] /\ events'[j][n] = events[j][n]) \/ events'[j][n] = e
      BY <2>1, AppendElements
    <3>2. events[j][i] \in Seen(j) \cap Terminal
      BY <3>1 DEF Seen, InQueue
    <3>3. e = "note"
      BY <1>0, <1>3, <3>2 DEF TerminalIsLast
    <3>4. QED
      BY <1>0, <1>3, <3>1, <3>3 DEF NotesBehind
  <2>5. Taken(j)' \cap Terminal # {} => InQueue(j)' \subseteq {"note"}
    BY <1>0, <1>1, <1>3, <2>2 DEF NotesBehind, TerminalIsLast, Seen
  <2>6. QED
    BY <1>3, <2>3, <2>4, <2>5 DEF NotesBehind
<1>4. QED
  BY <1>2, <1>3

\* What a connection holds changes to nothing, or to the event it makes up
\* itself, unless it takes one from the queue.
LEMMA EventWritten ==
    ASSUME EventInv, DoneStays, UNCHANGED events,
           \A d \in Stream : Holds(d)' \in {Holds(d), "none", "elapsed"}
    PROVE  EventInv'
<1> SUFFICES ASSUME NEW j \in Job PROVE (TerminalIsLast(j) /\ NotesBehind(j))'
  BY DEF EventInv
<1>1. TerminalIsLast(j) /\ NotesBehind(j)
  BY DEF EventInv
<1>2. InQueue(j)' = InQueue(j)
  BY DEF InQueue
<1>3. Taken(j)' \subseteq Taken(j) \cup {"none", "elapsed"}
  BY DEF Taken
<1>4. TerminalIsLast(j)'
  BY <1>1, <1>2, <1>3 DEF TerminalIsLast, Seen, DoneStays, Terminal
<1>5. NotesBehind(j)'
  BY <1>1, <1>2, <1>3 DEF NotesBehind, Terminal
<1>6. QED
  BY <1>4, <1>5

LEMMA EventTaken == ASSUME TypeOK, EventInv, DoneStays, NEW c \in Stream, Take(c) PROVE EventInv'
<1>0. JobOf[c] \in Job /\ stream \in [Stream -> Connection]
  BY ThreadTypes, JobManagerAssumption
<1>1. CASE events[JobOf[c]] = <<>>
  <2>1. \A d \in Stream : Holds(d)' \in {Holds(d), "none", "elapsed"}
    BY <1>0, <1>1 DEF Take, Holds, Connection
  <2>2. QED
    BY <1>1, <2>1, EventWritten DEF Take
<1>2. CASE events[JobOf[c]] # <<>>
  <2> DEFINE q == events[JobOf[c]]
  <2>1. /\ q \in Seq(EventType \ {"elapsed"}) /\ q # <<>>
        /\ events' = [events EXCEPT ![JobOf[c]] = Tail(q)]
        /\ stream' = [stream EXCEPT ![c].holds = Head(q)]
    BY <1>0, <1>2 DEF Take, TypeOK
  <2>2. Holds(c)' = Head(q) /\ \A d \in Stream \ {c} : Holds(d)' = Holds(d)
    BY <1>0, <2>1 DEF Holds, Connection
  <2> SUFFICES ASSUME NEW j \in Job PROVE (TerminalIsLast(j) /\ NotesBehind(j))'
    BY DEF EventInv
  <2>3. TerminalIsLast(j) /\ NotesBehind(j)
    BY DEF EventInv
  <2>4. CASE j # JobOf[c]
    <3>1. events'[j] = events[j] /\ InQueue(j)' = InQueue(j)
      BY <2>1, <2>4 DEF TypeOK, InQueue
    <3>2. Taken(j)' = Taken(j)
      BY <2>2, <2>4 DEF Taken
    <3>3. TerminalIsLast(j)'
      BY <2>3, <3>1, <3>2 DEF TerminalIsLast, Seen, DoneStays, Terminal
    <3>4. NotesBehind(j)'
      BY <2>3, <3>1, <3>2 DEF NotesBehind
    <3>5. QED
      BY <3>3, <3>4
  <2>5. CASE j = JobOf[c]
    <3>1. events'[j] = Tail(q) /\ q = events[j]
      BY <1>0, <2>1, <2>5 DEF TypeOK
    <3>2. InQueue(j)' \subseteq InQueue(j) /\ Head(q) \in InQueue(j)
      BY <2>1, <3>1, TailElements DEF InQueue
    <3>3. Taken(j)' \subseteq Taken(j) \cup {Head(q)}
      BY <2>2 DEF Taken
    <3>4. Seen(j)' \subseteq Seen(j)
      BY <3>2, <3>3 DEF Seen
    <3>5. TerminalIsLast(j)'
      BY <2>3, <3>4 DEF TerminalIsLast, DoneStays, Terminal
    <3>6. \A i, k \in DOMAIN Tail(q) : i < k /\ Tail(q)[i] \in Terminal => Tail(q)[k] = "note"
      <4> SUFFICES ASSUME NEW i \in DOMAIN Tail(q), NEW k \in DOMAIN Tail(q), i < k, Tail(q)[i] \in Terminal
                   PROVE  Tail(q)[k] = "note"
        OBVIOUS
      <4>1. /\ i + 1 \in DOMAIN q /\ k + 1 \in DOMAIN q /\ i + 1 < k + 1
            /\ Tail(q)[i] = q[i + 1] /\ Tail(q)[k] = q[k + 1]
        BY <2>1, TailElements
      <4>2. QED
        BY <2>3, <3>1, <4>1 DEF NotesBehind
    <3>7. ASSUME Head(q) \in Terminal PROVE InQueue(j)' \subseteq {"note"}
      <4>1. \A i \in DOMAIN Tail(q) : Tail(q)[i] = "note"
        <5> SUFFICES ASSUME NEW i \in DOMAIN Tail(q) PROVE Tail(q)[i] = "note"
          OBVIOUS
        <5>1. /\ Head(q) = q[1] /\ 1 \in DOMAIN q
              /\ i + 1 \in DOMAIN q /\ 1 < i + 1 /\ Tail(q)[i] = q[i + 1]
          BY <2>1, TailElements
        <5>2. QED
          BY <2>3, <3>1, <3>7, <5>1 DEF NotesBehind
      <4>2. QED
        BY <3>1, <4>1 DEF InQueue
    <3>8. Taken(j)' \cap Terminal # {} => InQueue(j)' \subseteq {"note"}
      BY <2>3, <3>2, <3>3, <3>7 DEF NotesBehind
    <3>9. NotesBehind(j)'
      BY <3>1, <3>6, <3>8 DEF NotesBehind
    <3>10. QED
      BY <3>5, <3>9
  <2>6. QED
    BY <2>4, <2>5
<1>3. QED
  BY <1>1, <1>2

LEMMA EventStep == IInv /\ EventInv /\ [Next]_vars => EventInv'
<1> SUFFICES ASSUME IInv, EventInv, [Next]_vars PROVE EventInv'
  OBVIOUS
<1>0. TypeOK /\ DoneStays
  BY WorkerStays DEF IInv
<1>1. ASSUME NEW j \in Job,
             Create(j) \/ SetRunning(j) \/ SetSummary(j) \/ SetSuccess(j) \/ SetFinished(j) \/ SetError(j)
                \/ SetFailure(j) \/ ReadSummary(j) \/ ReadSummaryRaises(j)
                \/ WorkflowCommits(j) \/ WorkflowReturns(j) \/ WorkflowRaises(j) \/ StopJob(j)
      PROVE  EventInv'
  <2>1. UNCHANGED <<events, stream>>
    BY <1>1 DEF Create, SetRunning, SetSummary, SetSuccess, SetFinished, SetError, SetFailure, ReadSummary,
                ReadSummaryRaises, WorkflowCommits, WorkflowReturns, WorkflowRaises, StopJob
  <2>2. QED
    BY <1>0, <2>1, EventsKept
<1>2. ASSUME NEW j \in Job, Announce(j) PROVE EventInv'
  <2>1. Put(j, "status") /\ pc[j] = "announce" /\ UNCHANGED stream
    BY <1>2 DEF Announce, Step
  <2>2. QED
    BY <1>0, <2>1, EventPut DEF EventType, Terminal
<1>3. ASSUME NEW j \in Job, LogLine(j) PROVE EventInv'
  <2>1. Put(j, "log") /\ pc[j] = "work" /\ UNCHANGED stream
    BY <1>3 DEF LogLine
  <2>2. QED
    BY <1>0, <2>1, EventPut DEF EventType, Terminal
<1>4. ASSUME NEW j \in Job, PutSummary(j) PROVE EventInv'
  <2>1. Put(j, "summary") /\ pc[j] = "okEvent" /\ pc'[j] = "done" /\ UNCHANGED <<stream, error>>
    BY <1>0, <1>4 DEF PutSummary, Step, Goto, TypeOK
  <2>2. ~error[j]
    BY <2>1 DEF IInv, WorkerInv, ErrorFollows, Failing
  <2>3. QED
    BY <1>0, <2>1, <2>2, EventPut DEF EventType, Terminal
<1>5. ASSUME NEW j \in Job, PutError(j) PROVE EventInv'
  <2>1. Put(j, "error") /\ pc[j] = "errEvent" /\ pc'[j] = "done" /\ UNCHANGED <<stream, error>>
    BY <1>0, <1>5 DEF PutError, Step, Goto, TypeOK
  <2>2. error[j]
    BY <2>1 DEF IInv, WorkerInv, ErrorFollows, Failing
  <2>3. QED
    BY <1>0, <2>1, <2>2, EventPut DEF EventType, Terminal
<1>6. ASSUME NEW j \in Job, PutStopNote(j) PROVE EventInv'
  <2>1. Put(j, "note") /\ UNCHANGED stream
    BY <1>6 DEF PutStopNote
  <2>2. QED
    BY <1>0, <2>1, EventPut DEF EventType, Terminal
<1>7. ASSUME NEW c \in Stream, Take(c) PROVE EventInv'
  BY <1>0, <1>7, EventTaken
<1>8. ASSUME NEW c \in Stream, Connect(c) \/ Deliver(c) \/ Leave(c) \/ WriteToNobody(c) PROVE EventInv'
  <2>1. stream \in [Stream -> Connection]
    BY <1>0, ThreadTypes
  <2>2. \A d \in Stream : Holds(d)' \in {Holds(d), "none", "elapsed"}
    BY <1>8, <2>1 DEF Connect, Deliver, Leave, WriteToNobody, Holds, Connection
  <2>3. QED
    BY <1>0, <1>8, <2>2, EventWritten DEF Connect, Deliver, Leave, WriteToNobody
<1>9. ASSUME NEW o \in Observer, Look(o) PROVE EventInv'
  BY <1>0, <1>9, EventsKept DEF Look
<1>10. CASE UNCHANGED vars
  BY <1>0, <1>10, EventsKept
<1>11. QED
  BY <1>1, <1>2, <1>3, <1>4, <1>5, <1>6, <1>7, <1>8, <1>9, <1>10 DEF Next, Bookkeeping, WorkflowStep

-----------------------------------------------------------------------------
(* The snapshots. *)

\* What an observer has read explains what it read first.  A settled status is
\* there to stay, and so are the error and, without one, the summary.
Explained(o) ==
    LET v == view[o]
        j == Target[o]
    IN /\ v.next \in {"summary", "error"} /\ v.status \in Outcome => status[j] = v.status
       /\ v.next = "error" /\ v.status \in Outcome /\ ~error[j] => v.summary = v.status
       /\ v.next = "done" /\ v.status \in Outcome =>
              IF v.error THEN v.status = "failure" ELSE v.status = v.summary

ViewInv == \A o \in Observer : Explained(o)

LEMMA InitViewInv == Init => ViewInv
BY DEF Init, ViewInv, Explained, Outcome

\* A status is settled once: none of the fields that explain it changes after it,
\* but the summary of a failed job, which is not what explains it.
SettledStays ==
    \A j \in Job : status[j] \in Outcome =>
        status'[j] = status[j] /\ error'[j] = error[j] /\ (~error[j] => summary'[j] = summary[j])

LEMMA FieldsSettle == IInv /\ [Next]_vars => SettledStays
<1> SUFFICES ASSUME IInv, [Next]_vars PROVE SettledStays
  OBVIOUS
<1> USE DEF IInv, TypeOK, SettledStays, Step, Goto, Outcome, WorkerInv, StatusFollows, ErrorFollows, Failing
<1>1. ASSUME NEW j \in Job, Create(j) \/ Announce(j) \/ PutSummary(j) \/ PutError(j) \/ SetFinished(j)
                               \/ ReadSummaryRaises(j)
      PROVE  SettledStays
  BY <1>1 DEF Create, Announce, PutSummary, PutError, SetFinished, ReadSummaryRaises
<1>2. ASSUME NEW j \in Job, SetRunning(j) \/ SetSuccess(j) \/ SetFailure(j) PROVE SettledStays
  BY <1>2 DEF SetRunning, SetSuccess, SetFailure
<1>3. ASSUME NEW j \in Job, SetSummary(j) \/ ReadSummary(j) PROVE SettledStays
  BY <1>3 DEF SetSummary, ReadSummary
<1>4. ASSUME NEW j \in Job, SetError(j) PROVE SettledStays
  BY <1>4 DEF SetError
<1>5. ASSUME NEW j \in Job, WorkflowStep(j) PROVE SettledStays
  BY <1>5 DEF WorkflowStep, LogLine, WorkflowCommits, WorkflowReturns, WorkflowRaises
<1>6. ASSUME NEW j \in Job, StopJob(j) \/ PutStopNote(j) PROVE SettledStays
  BY <1>6 DEF StopJob, PutStopNote
<1>7. ASSUME NEW c \in Stream, Connect(c) \/ Take(c) \/ Deliver(c) \/ Leave(c) \/ WriteToNobody(c) PROVE SettledStays
  BY <1>7 DEF Connect, Take, Deliver, Leave, WriteToNobody
<1>8. ASSUME NEW o \in Observer, Look(o) PROVE SettledStays
  BY <1>8 DEF Look
<1>9. CASE UNCHANGED vars
  BY <1>9
<1>10. QED
  BY <1>1, <1>2, <1>3, <1>4, <1>5, <1>6, <1>7, <1>8, <1>9 DEF Next, Bookkeeping

\* The fields of a settled job, read at any moment, explain its status.
LEMMA SettledFields ==
    ASSUME IInv, NEW j \in Job, status[j] \in Outcome
    PROVE  IF error[j] THEN status[j] = "failure" ELSE status[j] = summary[j]
BY DEF IInv, TypeOK, WorkerInv, StatusFollows, ErrorFollows, Failing, Outcome, PcLabel

\* Only the observer's own steps change what it has read.
LEMMA OnlyLooks ==
    Next => UNCHANGED view \/ \E o \in Observer : Look(o)
BY DEF Next, Create, Bookkeeping, SetRunning, Announce, SetSummary, SetSuccess, SetFinished, PutSummary, SetError,
       SetFailure, ReadSummary, ReadSummaryRaises, PutError, WorkflowStep, LogLine, WorkflowCommits,
       WorkflowReturns, WorkflowRaises, StopJob, PutStopNote, Connect, Take, Deliver, Leave, WriteToNobody

LEMMA ViewStep == IInv /\ ViewInv /\ [Next]_vars => ViewInv'
<1> SUFFICES ASSUME IInv, ViewInv, [Next]_vars PROVE ViewInv'
  OBVIOUS
<1>1. SettledStays
  BY FieldsSettle
<1>2. view \in [Observer -> Snapshot]
  BY ThreadTypes DEF IInv
<1>3. CASE UNCHANGED view
  BY <1>1, <1>3, JobManagerAssumption DEF ViewInv, Explained, SettledStays
<1>4. ASSUME NEW p \in Observer, Look(p) PROVE ViewInv'
  <2> SUFFICES ASSUME NEW o \in Observer PROVE Explained(o)'
    BY DEF ViewInv
  <2>1. Explained(o) /\ UNCHANGED <<status, summary, error>>
    BY <1>4 DEF ViewInv, Look
  <2>2. CASE o # p
    <3>1. view'[o] = view[o]
      BY <1>2, <1>4, <2>2 DEF Look
    <3>2. QED
      BY <2>1, <3>1 DEF Explained
  <2>3. CASE o = p
    <3> DEFINE j == Target[o]
    <3>1. j \in Job /\ (status[j] \in Outcome => IF error[j] THEN status[j] = "failure" ELSE status[j] = summary[j])
      BY SettledFields, JobManagerAssumption
    <3>2. CASE view[o].next = "status" /\ view' = [view EXCEPT ![o].next = "summary", ![o].status = status[j]]
      <4>1. view'[o].next = "summary" /\ view'[o].status = status[j]
        BY <1>2, <3>2 DEF Snapshot
      <4>2. QED
        BY <2>1, <4>1 DEF Explained
    <3>3. CASE view[o].next = "summary" /\ view' = [view EXCEPT ![o].next = "error", ![o].summary = summary[j]]
      <4>1. view'[o].next = "error" /\ view'[o].status = view[o].status /\ view'[o].summary = summary[j]
        BY <1>2, <3>3 DEF Snapshot
      <4>2. QED
        BY <2>1, <3>1, <3>3, <4>1 DEF Explained
    <3>4. CASE view[o].next = "error" /\ view' = [view EXCEPT ![o].next = "done", ![o].error = error[j]]
      <4>1. /\ view'[o].next = "done" /\ view'[o].status = view[o].status
            /\ view'[o].summary = view[o].summary /\ view'[o].error = error[j]
        BY <1>2, <3>4 DEF Snapshot
      <4>2. QED
        BY <2>1, <3>1, <3>4, <4>1 DEF Explained
    <3>5. QED
      BY <1>4, <2>3, <3>2, <3>3, <3>4 DEF Look
  <2>4. QED
    BY <2>2, <2>3
<1>5. QED
  BY <1>3, <1>4, OnlyLooks

-----------------------------------------------------------------------------
(* Theorems. *)

\* At every step of its worker a job shows what that step says, its queue holds
\* what was put until then, and no snapshot has seen more than its fields had.
THEOREM JobsInductive == Spec => [](IInv /\ EventInv /\ ViewInv)
<1>1. Init => IInv /\ EventInv /\ ViewInv
  BY InitIInv, InitEventInv, InitViewInv
<1>2. IInv /\ EventInv /\ ViewInv /\ [Next]_vars => (IInv /\ EventInv /\ ViewInv)'
  BY TypeStep, WorkerStep, EventStep, ViewStep DEF IInv
<1>3. QED
  BY <1>1, <1>2, PTL DEF Spec

\* The fields of every job, its queue, the streams and the snapshots keep their
\* types: the status of a review is always one of the three outcomes, never the
\* "none" of a summary that was not set.
THEOREM TypeCorrect == Spec => []TypeOK
<1>1. IInv => TypeOK
  BY DEF IInv
<1>2. QED
  BY <1>1, JobsInductive, PTL

\* _run_job puts the terminal event last: whoever has seen it, in the queue or
\* in a stream's hand, finds status, summary or error, and finished_at settled.
THEOREM EventsComeAfterFields == Spec => []TerminalEventAfterFields
<1>1. IInv /\ EventInv => TerminalEventAfterFields
  <2> SUFFICES ASSUME IInv, EventInv, NEW j \in Job, Seen(j) \cap Terminal # {}
               PROVE  /\ status[j] \in Outcome /\ finished[j]
                      /\ "summary" \in Seen(j) => summary[j] = status[j]
                      /\ "error" \in Seen(j) => error[j]
    BY DEF TerminalEventAfterFields, Seen, Terminal
  <2>1. pc[j] = "done" /\ ("summary" \in Seen(j) => ~error[j]) /\ ("error" \in Seen(j) => error[j])
    BY DEF EventInv, TerminalIsLast
  <2>2. QED
    BY <2>1 DEF IInv, WorkerInv, StatusFollows, FinishedFollows
<1>2. QED
  BY <1>1, JobsInductive, PTL

\* A stream that stops reading at the terminal event leaves behind nothing of
\* the job, at most the note of a stop request, whatever streams compete for
\* the queue.
THEOREM NothingLostBehindTheEnd == Spec => []OnlyNotesAfterTerminal
<1>1. EventInv => OnlyNotesAfterTerminal
  BY DEF EventInv, NotesBehind, OnlyNotesAfterTerminal
<1>2. QED
  BY <1>1, JobsInductive, PTL

\* snapshot() reads the fields without a lock, one by one, while _run_job writes
\* them: a settled status in it comes with what explains it.
THEOREM SnapshotsExplainStatus == Spec => []SnapshotExplainsStatus
<1>1. ViewInv => SnapshotExplainsStatus
  BY DEF ViewInv, Explained, SnapshotExplainsStatus
<1>2. QED
  BY <1>1, JobsInductive, PTL

\* A job asked to stop before its workflow has committed.
Doomed(j) == stop[j] /\ phase[j] \in {"idle", "running", "failed"}

LEMMA DoomedStays ==
    ASSUME NEW j \in Job, IInv, [Next]_vars, Doomed(j) PROVE Doomed(j)'
<1> USE DEF Doomed, IInv, TypeOK
<1>1. ASSUME NEW k \in Job, Create(k) \/ Bookkeeping(k) PROVE Doomed(j)'
  BY <1>1 DEF Create, Bookkeeping, SetRunning, Announce, SetSummary, SetSuccess, SetFinished, PutSummary, SetError,
              SetFailure, ReadSummary, ReadSummaryRaises, PutError, Workflow!Start
<1>2. ASSUME NEW k \in Job, WorkflowStep(k) PROVE Doomed(j)'
  BY <1>2 DEF WorkflowStep, LogLine, WorkflowCommits, WorkflowReturns, WorkflowRaises,
              Workflow!Commit, Workflow!Succeed, Workflow!Fail
<1>3. ASSUME NEW k \in Job, StopJob(k) \/ PutStopNote(k) PROVE Doomed(j)'
  BY <1>3 DEF StopJob, PutStopNote, Workflow!RequestStop
<1>4. ASSUME NEW c \in Stream, Connect(c) \/ Take(c) \/ Deliver(c) \/ Leave(c) \/ WriteToNobody(c) PROVE Doomed(j)'
  BY <1>4 DEF Connect, Take, Deliver, Leave, WriteToNobody
<1>5. ASSUME NEW o \in Observer, Look(o) PROVE Doomed(j)'
  BY <1>5 DEF Look
<1>6. CASE UNCHANGED vars
  BY <1>6
<1>7. QED
  BY <1>1, <1>2, <1>3, <1>4, <1>5, <1>6 DEF Next

\* A stop request that the workflow still looks for turns the job into a
\* failure: it is never shown as a success nor announced by a summary.
THEOREM StopIsFinal == Spec => StoppedJobNeverSucceeds
<1>1. ASSUME NEW j \in Job
      PROVE  Spec => [](stop[j] /\ phase[j] \in {"idle", "running"}
                          => [](status[j] # "success" /\ "summary" \notin InQueue(j) \cup Taken(j)))
  <2>1. stop[j] /\ phase[j] \in {"idle", "running"} => Doomed(j)
    BY DEF Doomed
  <2>2. IInv /\ EventInv /\ Doomed(j) => status[j] # "success" /\ "summary" \notin InQueue(j) \cup Taken(j)
    <3> SUFFICES ASSUME IInv, EventInv, Doomed(j)
                 PROVE  status[j] # "success" /\ "summary" \notin InQueue(j) \cup Taken(j)
      OBVIOUS
    <3>1. pc[j] \in Waiting \cup Failing \cup {"work", "done"} /\ (pc[j] = "done" => error[j])
      BY DEF IInv, WorkerInv, PhaseFollows, Doomed, Waiting
    <3>2. status[j] # "success"
      BY <3>1 DEF IInv, WorkerInv, StatusFollows, Waiting, Failing
    <3>3. "summary" \notin Seen(j)
      BY <3>1 DEF EventInv, TerminalIsLast, Terminal
    <3>4. QED
      BY <3>2, <3>3 DEF Seen
  <2>3. IInv /\ [Next]_vars /\ Doomed(j) => Doomed(j)'
    BY DoomedStays
  <2>4. QED
    BY <2>1, <2>2, <2>3, JobsInductive, PTL DEF Spec
<1>2. QED
  BY <1>1 DEF StoppedJobNeverSucceeds

-----------------------------------------------------------------------------
(* A job of the manager goes through the lifecycle a client relies on. *)

\* The state and the announcement of a job under the mapping of Lifecycle.
State(j) == IF pc[j] = "uncreated" THEN "absent" ELSE status[j]
Told(j)  == IF pc[j] # "done" THEN "none" ELSE IF error[j] THEN "error" ELSE "summary"

\* A step that maps to a stutter, one that moves the state of one job, and one
\* that announces one job.
LEMMA MapsToStutter ==
    ASSUME \A k \in Job : State(k)' = State(k) /\ Told(k)' = Told(k)
    PROVE  [Lifecycle!Next]_Lifecycle!vars
BY DEF State, Told, Lifecycle!vars

LEMMA MapsToMove ==
    ASSUME NEW j \in Job, NEW from, NEW to, State(j) = from, State(j)' = to,
           \A k \in Job \ {j} : State(k)' = State(k),
           \A k \in Job : Told(k)' = Told(k)
    PROVE  Lifecycle!Move(j, from, to)
<1>1. [k \in Job |-> State(k)]' = [[k \in Job |-> State(k)] EXCEPT ![j] = to]
  OBVIOUS
<1>2. [k \in Job |-> State(k)][j] = from
  OBVIOUS
<1>3. [k \in Job |-> Told(k)]' = [k \in Job |-> Told(k)]
  OBVIOUS
<1>4. QED
  BY <1>1, <1>2, <1>3 DEF State, Told, Lifecycle!Move

LEMMA MapsToAnnounce ==
    ASSUME NEW j \in Job, State(j) \in Outcome, Told(j) = "none",
           Told(j)' \in IF State(j) = "failure" THEN {"summary", "error"} ELSE {"summary"},
           \A k \in Job \ {j} : Told(k)' = Told(k),
           \A k \in Job : State(k)' = State(k)
    PROVE  Lifecycle!Announce(j)
<1>1. [k \in Job |-> State(k)][j] = State(j) /\ [k \in Job |-> Told(k)][j] = "none"
  OBVIOUS
<1>2. [k \in Job |-> Told(k)]' = [[k \in Job |-> Told(k)] EXCEPT ![j] = Told(j)']
  OBVIOUS
<1>3. [k \in Job |-> State(k)]' = [k \in Job |-> State(k)]
  OBVIOUS
<1>4. \E e \in IF [k \in Job |-> State(k)][j] = "failure" THEN {"summary", "error"} ELSE {"summary"} :
          [k \in Job |-> Told(k)]' = [[k \in Job |-> Told(k)] EXCEPT ![j] = e]
  BY <1>1, <1>2
<1>5. QED
  BY <1>1, <1>3, <1>4 DEF State, Told, Lifecycle!Announce, Lifecycle!Outcome, Outcome

LEMMA LifecycleStep == IInv /\ [Next]_vars => [Lifecycle!Next]_Lifecycle!vars
<1> SUFFICES ASSUME IInv, [Next]_vars PROVE [Lifecycle!Next]_Lifecycle!vars
  OBVIOUS
<1> USE DEF IInv, TypeOK, Step, Goto
<1>1. ASSUME NEW j \in Job, Create(j) PROVE [Lifecycle!Next]_Lifecycle!vars
  <2>1. /\ State(j) = "absent" /\ State(j)' = "queued"
        /\ \A k \in Job \ {j} : State(k)' = State(k)
        /\ \A k \in Job : Told(k)' = Told(k)
    BY <1>1 DEF Create, State, Told, WorkerInv, StatusFollows
  <2>2. Lifecycle!Create(j)
    BY <2>1, MapsToMove DEF Lifecycle!Create
  <2>3. QED
    BY <2>2 DEF Lifecycle!Next
<1>2. ASSUME NEW j \in Job, SetRunning(j) PROVE [Lifecycle!Next]_Lifecycle!vars
  <2>1. /\ State(j) = "queued" /\ State(j)' = "running"
        /\ \A k \in Job \ {j} : State(k)' = State(k)
        /\ \A k \in Job : Told(k)' = Told(k)
    BY <1>2 DEF SetRunning, State, Told, WorkerInv, StatusFollows
  <2>2. Lifecycle!Run(j)
    BY <2>1, MapsToMove DEF Lifecycle!Run
  <2>3. QED
    BY <2>2 DEF Lifecycle!Next
<1>3. ASSUME NEW j \in Job, SetSuccess(j) \/ SetFailure(j) PROVE [Lifecycle!Next]_Lifecycle!vars
  <2>1. pc[j] \in {"okStatus", "errStatus"} /\ pc'[j] \in {"okFinish", "errFinish"}
    BY <1>3 DEF SetSuccess, SetFailure
  <2>2. State(j) = "running"
    BY <2>1 DEF State, WorkerInv, StatusFollows
  <2>3. State(j)' \in Outcome
    BY <1>3, <2>1 DEF SetSuccess, SetFailure, State, WorkerInv, StatusFollows, Outcome
  <2>4. /\ \A k \in Job \ {j} : State(k)' = State(k)
        /\ \A k \in Job : Told(k)' = Told(k)
    BY <1>3, <2>1 DEF SetSuccess, SetFailure, State, Told
  <2>5. PICK o \in Outcome : State(j)' = o
    BY <2>3
  <2>6. Lifecycle!Move(j, "running", o)
    BY <2>2, <2>4, <2>5, MapsToMove
  <2>7. Lifecycle!Settle(j)
    BY <2>6 DEF Lifecycle!Settle, Lifecycle!Outcome, Outcome
  <2>8. QED
    BY <2>7 DEF Lifecycle!Next
<1>4. ASSUME NEW j \in Job, PutSummary(j) \/ PutError(j) PROVE [Lifecycle!Next]_Lifecycle!vars
  <2>1. pc[j] \in {"okEvent", "errEvent"} /\ pc'[j] = "done" /\ UNCHANGED <<status, error>>
    BY <1>4 DEF PutSummary, PutError
  <2>2. State(j) = status[j] /\ Told(j) = "none"
    BY <2>1 DEF State, Told
  <2>3. status[j] \in Outcome /\ (error[j] => status[j] = "failure")
    BY <2>1 DEF WorkerInv, StatusFollows, ErrorFollows, Failing, Outcome
  <2>4. Told(j)' \in IF State(j) = "failure" THEN {"summary", "error"} ELSE {"summary"}
    BY <2>1, <2>2, <2>3 DEF Told
  <2>5. /\ \A k \in Job \ {j} : Told(k)' = Told(k)
        /\ \A k \in Job : State(k)' = State(k)
    BY <1>4, <2>1 DEF PutSummary, PutError, State, Told
  <2>6. Lifecycle!Announce(j)
    BY <2>2, <2>3, <2>4, <2>5, MapsToAnnounce
  <2>7. QED
    BY <2>6 DEF Lifecycle!Next
<1>5. ASSUME UNCHANGED status,
             \A k \in Job : /\ pc'[k] = "uncreated" <=> pc[k] = "uncreated"
                            /\ pc'[k] = "done" <=> pc[k] = "done"
                            /\ pc[k] = "done" => error'[k] = error[k]
      PROVE  [Lifecycle!Next]_Lifecycle!vars
  <2>1. \A k \in Job : State(k)' = State(k) /\ Told(k)' = Told(k)
    BY <1>5 DEF State, Told
  <2>2. QED
    BY <2>1, MapsToStutter
<1>6. ASSUME NEW j \in Job, Announce(j) \/ SetSummary(j) \/ SetFinished(j) \/ SetError(j) \/ ReadSummary(j)
                               \/ ReadSummaryRaises(j)
      PROVE  [Lifecycle!Next]_Lifecycle!vars
  BY <1>5, <1>6 DEF Announce, SetSummary, SetFinished, SetError, ReadSummary, ReadSummaryRaises
<1>7. ASSUME NEW j \in Job, WorkflowStep(j) \/ StopJob(j) \/ PutStopNote(j) PROVE [Lifecycle!Next]_Lifecycle!vars
  BY <1>5, <1>7 DEF WorkflowStep, LogLine, WorkflowCommits, WorkflowReturns, WorkflowRaises, StopJob, PutStopNote
<1>8. ASSUME NEW c \in Stream, Connect(c) \/ Take(c) \/ Deliver(c) \/ Leave(c) \/ WriteToNobody(c)
      PROVE  [Lifecycle!Next]_Lifecycle!vars
  BY <1>5, <1>8 DEF Connect, Take, Deliver, Leave, WriteToNobody
<1>9. ASSUME NEW o \in Observer, Look(o) PROVE [Lifecycle!Next]_Lifecycle!vars
  BY <1>5, <1>9 DEF Look
<1>10. CASE UNCHANGED vars
  BY <1>5, <1>10
<1>11. QED
  BY <1>1, <1>2, <1>3, <1>4, <1>6, <1>7, <1>8, <1>9, <1>10 DEF Next, Bookkeeping

\* What a client relies on holds of every job of every manager: it is created,
\* runs, settles once, and announces its one outcome once and with the right
\* event.
THEOREM JobsFollowLifecycle == Spec => Lifecycle!Spec
<1>1. Init => Lifecycle!Init
  BY DEF Init, Lifecycle!Init
<1>2. QED
  BY <1>1, LifecycleStep, JobsInductive, PTL DEF Spec, Lifecycle!Spec

=============================================================================
