------------------------- MODULE DispatcherProofs -------------------------
(* Theorems about Dispatcher, for every value of its constants.            *)
EXTENDS Dispatcher, SequenceTheorems, TLAPS

\* Removing an element leaves a sequence of elements of the same set, whose
\* earlier elements stay in place and whose later ones move up by one.
LEMMA RemoveAtLemma ==
    ASSUME NEW S, NEW s \in Seq(S), NEW i \in DOMAIN s
    PROVE  /\ RemoveAt(s, i) \in Seq(S)
           /\ Len(RemoveAt(s, i)) = Len(s) - 1
           /\ \A j \in 1..Len(s)-1 :
                RemoveAt(s, i)[j] = IF j < i THEN s[j] ELSE s[j+1]
<1> DEFINE a == SubSeq(s, 1, i-1)
           b == SubSeq(s, i+1, Len(s))
<1>1. Len(s) \in Nat /\ i \in 1..Len(s) /\ \A j \in 1..Len(s) : s[j] \in S
  BY LenProperties, ElementOfSeq
<1>2. /\ a \in Seq(S)
      /\ Len(a) = i - 1
      /\ \A j \in 1..i-1 : a[j] = s[j]
  <2>1. \A j \in 1..i-1 : s[j] \in S
    BY <1>1
  <2> QED BY <1>1, <2>1, SubSeqProperties
<1>3. /\ b \in Seq(S)
      /\ Len(b) = Len(s) - i
      /\ \A j \in 1..Len(s)-i : b[j] = s[i+j]
  <2>1. \A j \in i+1..Len(s) : s[j] \in S
    BY <1>1
  <2> QED BY <1>1, <2>1, SubSeqProperties
<1>4. /\ a \o b \in Seq(S)
      /\ Len(a \o b) = Len(a) + Len(b)
      /\ \A j \in 1..Len(a)+Len(b) :
            (a \o b)[j] = IF j <= Len(a) THEN a[j] ELSE b[j - Len(a)]
  BY <1>2, <1>3, ConcatProperties
<1>5. RemoveAt(s, i) = a \o b
  BY DEF RemoveAt
<1> HIDE DEF a, b
<1>6. Len(a \o b) = Len(s) - 1
  BY <1>1, <1>2, <1>3, <1>4
<1>7. ASSUME NEW j \in 1..Len(s)-1
      PROVE  (a \o b)[j] = IF j < i THEN s[j] ELSE s[j+1]
  <2>1. (a \o b)[j] = IF j <= i - 1 THEN a[j] ELSE b[j - (i - 1)]
    <3>1. j \in 1..Len(a) + Len(b)
      BY <1>1, <1>2, <1>3
    <3> QED BY <3>1, <1>2, <1>4
  <2>2. CASE j < i
    BY <2>1, <2>2, <1>1, <1>2
  <2>3. CASE j >= i
    <3>1. b[j - (i - 1)] = s[i + (j - (i - 1))]
      BY <2>3, <1>1, <1>3
    <3>2. i + (j - (i - 1)) = j + 1
      BY <1>1
    <3> QED BY <2>1, <2>3, <3>1, <3>2, <1>1
  <2>4. j < i \/ j >= i
    BY <1>1
  <2> QED BY <2>2, <2>3, <2>4
<1> QED BY <1>4, <1>5, <1>6, <1>7

LEMMA InitTypeOK == Init => TypeOK
<1> SUFFICES ASSUME Init PROVE TypeOK
  OBVIOUS
<1>1. call \in [Tasks -> [method : {"submit", "try"}, retries : Overrides \cup {NoOverride}]]
  BY DEF Init
<1>2. tasks \in Seq(Tasks)
  BY EmptySeq DEF Init
<1>3. stats \in [Counters -> Nat] /\ attempt \in [Workers -> Nat] /\ runs \in [Tasks -> Nat]
  BY DEF Init
<1> QED BY <1>1, <1>2, <1>3 DEF Init, TypeOK

LEMMA IncrementTypeOK ==
    ASSUME NEW S, NEW f \in [S -> Nat], NEW x
    PROVE  [f EXCEPT ![x] = @ + 1] \in [S -> Nat]
<1>1. ASSUME NEW y \in S PROVE [f EXCEPT ![x] = @ + 1][y] \in Nat
  BY <1>1
<1> QED BY <1>1

LEMMA CountTypeOK ==
    ASSUME NEW S, stats \in [Counters -> Nat], Count(S)
    PROVE  stats' \in [Counters -> Nat]
BY DEF Count

\* Every action preserves the type invariant.
LEMMA NextTypeOK == TypeOK /\ [Next]_vars => TypeOK'
<1> SUFFICES ASSUME TypeOK, [Next]_vars PROVE TypeOK'
  OBVIOUS
<1> USE DEF TypeOK, Returned, Outcomes, subVars, workVars, closeVars, histVars
<1> USE TaskAssumption
<1>1. ASSUME NEW t \in Tasks, SubmitInvalid(t) PROVE TypeOK'
  BY <1>1 DEF SubmitInvalid
<1>2. ASSUME NEW t \in Tasks, NEW m \in Methods \ {"invalid"}, NEW o \in Overrides,
             SubmitCall(t, m, o)
      PROVE  TypeOK'
  <2>1. [method |-> m, retries |-> o]
            \in [method : {"submit", "try"}, retries : Overrides \cup {NoOverride}]
    BY CallAssumption
  <2> QED BY <1>2, <2>1 DEF SubmitCall
<1>3. ASSUME NEW t \in Tasks, SubmitCtxDone(t) PROVE TypeOK'
  BY <1>3 DEF SubmitCtxDone
<1>4. ASSUME NEW t \in Tasks, RejectClosed(t) PROVE TypeOK'
  BY <1>4 DEF RejectClosed
<1>5. ASSUME NEW t \in Tasks, NEW w \in Workers, HandOff(t, w) PROVE TypeOK'
  BY <1>5 DEF HandOff
<1>6. ASSUME NEW t \in Tasks, Buffer(t) PROVE TypeOK'
  BY <1>6 DEF Buffer
<1>7. ASSUME NEW t \in Tasks, SubmitPark(t) PROVE TypeOK'
  BY <1>7 DEF SubmitPark
<1>8. ASSUME NEW t \in Tasks, SubmitCancelled(t) PROVE TypeOK'
  <2>1. tasks' \in Seq(Tasks)
    BY <1>8, RemoveAtLemma DEF SubmitCancelled
  <2>2. stats' \in [Counters -> Nat]
    BY <1>8, CountTypeOK DEF SubmitCancelled
  <2> QED BY <1>8, <2>1, <2>2 DEF SubmitCancelled
<1>9. ASSUME NEW t \in Tasks, TrySubmitFull(t) PROVE TypeOK'
  BY <1>9, CountTypeOK DEF TrySubmitFull
<1>10. ASSUME NEW t \in Tasks, SubmitReturns(t) PROVE TypeOK'
  BY <1>10, CountTypeOK DEF SubmitReturns
<1>11. ASSUME NEW w \in Workers, Receive(w) PROVE TypeOK'
  <2>1. Head(tasks) \in Tasks /\ tasks' \in Seq(Tasks)
    BY <1>11, HeadTailProperties DEF Receive
  <2> QED BY <1>11, <2>1 DEF Receive, SendersAfterReceive
<1>12. ASSUME NEW w \in Workers, WorkerPark(w) PROVE TypeOK'
  BY <1>12 DEF WorkerPark
<1>13. ASSUME NEW w \in Workers, WorkerExit(w) PROVE TypeOK'
  BY <1>13 DEF WorkerExit
<1>14. ASSUME NEW w \in Workers, BeginAttempt(w) PROVE TypeOK'
  <2>1. runs' \in [Tasks -> Nat]
    BY <1>14, IncrementTypeOK DEF BeginAttempt
  <2>2. wpc' \in [Workers -> {"recv", "parked", "loop", "run", "refusal", "sleep", "exited", "dead"}]
    BY <1>14 DEF BeginAttempt
  <2> QED BY <1>14, <2>1, <2>2 DEF BeginAttempt
<1>15. ASSUME NEW w \in Workers, NEW o \in Outcomes, NEW pc \in {"recv", "dead"}, NEW S,
              Count(S), LeaveExecute(w, o, pc)
       PROVE  TypeOK'
  BY <1>15, CountTypeOK DEF LeaveExecute
<1>16. ASSUME NEW w \in Workers, NEW delay \in Delays, Retry(w, delay) PROVE TypeOK'
  <2>1. stats' \in [Counters -> Nat]
    BY <1>16, CountTypeOK DEF Retry
  <2>2. attempt' \in [Workers -> Nat]
    <3>1. attempt' \in {attempt, [attempt EXCEPT ![w] = @ + 1]}
      BY <1>16 DEF Retry, NextAttempt
    <3>2. [attempt EXCEPT ![w] = @ + 1] \in [Workers -> Nat]
      BY IncrementTypeOK
    <3> QED BY <3>1, <3>2
  <2>3. wpc' \in [Workers -> {"recv", "parked", "loop", "run", "refusal", "sleep", "exited", "dead"}]
    <3>1. \/ wpc' = [wpc EXCEPT ![w] = "sleep"]
          \/ wpc' = [wpc EXCEPT ![w] = "loop"]
      BY <1>16 DEF Retry, NextAttempt
    <3> QED BY <3>1
  <2> QED BY <1>16, <2>1, <2>2, <2>3 DEF Retry
<1>17. ASSUME NEW w \in Workers, LastFailure(w) \/ Wake(w) PROVE TypeOK'
  <2>1. attempt' \in [Workers -> Nat]
    <3>1. attempt' \in {attempt, [attempt EXCEPT ![w] = @ + 1]}
      BY <1>17 DEF LastFailure, Wake, NextAttempt
    <3>2. [attempt EXCEPT ![w] = @ + 1] \in [Workers -> Nat]
      BY IncrementTypeOK
    <3> QED BY <3>1, <3>2
  <2>2. wpc' \in [Workers -> {"recv", "parked", "loop", "run", "refusal", "sleep", "exited", "dead"}]
    <3>1. wpc' = [wpc EXCEPT ![w] = "loop"]
      BY <1>17 DEF LastFailure, Wake, NextAttempt
    <3> QED BY <3>1
  <2> QED BY <1>17, <2>1, <2>2 DEF LastFailure, Wake
<1>18. ASSUME NEW c \in Closers, CloseInvalid(c) PROVE TypeOK'
  BY <1>18 DEF CloseInvalid
<1>19. ASSUME NEW c \in Closers, NEW m \in Modes \ {"invalid"}, CloseCall(c, m) PROVE TypeOK'
  BY <1>19, CallAssumption DEF CloseCall
<1>20. ASSUME NEW c \in Closers, CloseCtxDone(c) PROVE TypeOK'
  BY <1>20 DEF CloseCtxDone
<1>21. ASSUME NEW c \in Closers, CloseAnnounce(c) PROVE TypeOK'
  BY <1>21 DEF CloseAnnounce
<1>22. ASSUME NEW c \in Closers, CloseChannel(c) PROVE TypeOK'
  BY <1>22 DEF CloseChannel
<1>23. ASSUME NEW c \in Closers, CloseSignals(c) \/ CloseDrained(c) \/ CloseTimesOut(c)
       PROVE  TypeOK'
  <2>1. CASE CloseSignals(c)
    BY <2>1 DEF CloseSignals, SignalQuit
  <2>2. CASE CloseDrained(c)
    BY <2>2 DEF CloseDrained
  <2>3. CASE CloseTimesOut(c)
    BY <2>3 DEF CloseTimesOut, SignalQuit
  <2> QED BY <1>23, <2>1, <2>2, <2>3
<1>24. CASE UNCHANGED vars
  BY <1>24 DEF vars
<1>25. ASSUME NEW w \in Workers,
              JobSucceeds(w) \/ RefusalFails(w) \/ Exhausted(w) \/ Abandon(w)
       PROVE  TypeOK'
  BY <1>25, <1>15 DEF JobSucceeds, RefusalFails, Exhausted, Abandon
<1>26. ASSUME NEW w \in Workers, NEW counted \in SUBSET {"retried"}, WorkerPanics(w, counted)
       PROVE  TypeOK'
  BY <1>26, <1>15 DEF WorkerPanics
<1>27. ASSUME NEW w \in Workers, PredicateRefuses(w) PROVE TypeOK'
  <2>1. stats' \in [Counters -> Nat]
    BY <1>27, CountTypeOK DEF PredicateRefuses
  <2>2. wpc' = [wpc EXCEPT ![w] = "refusal"]
    BY <1>27 DEF PredicateRefuses
  <2>3. wpc' \in [Workers -> {"recv", "parked", "loop", "run", "refusal", "sleep", "exited", "dead"}]
    BY <2>2
  <2> QED BY <1>27, <2>1, <2>3 DEF PredicateRefuses
<1> QED
  BY <1>1, <1>2, <1>3, <1>4, <1>5, <1>6, <1>7, <1>8, <1>9, <1>10, <1>11, <1>12, <1>13,
     <1>14, <1>16, <1>17, <1>18, <1>19, <1>20, <1>21, <1>22, <1>23, <1>24, <1>25, <1>26, <1>27
  DEF Next, SubmitStep, WorkerStep, JobEnds, CloseStep, Terminated

\* The variables of the dispatcher keep their types, for any number of
\* submissions, workers and closers.
THEOREM TypeCorrect == Spec => []TypeOK
BY InitTypeOK, NextTypeOK, PTL DEF Spec

---------------------------------------------------------------------------
(* The channel and the lock.                                               *)

\* The order of the channel: no task stands in it twice, the tasks within the
\* capacity belong to submitters whose send is done, the later ones to blocked
\* submitters.  This is what makes a receive complete the send of the right
\* submitter, and what makes Readers cover every task beyond the capacity.
ChannelOrder ==
    /\ \A i, j \in DOMAIN tasks : tasks[i] = tasks[j] => i = j
    /\ \A i \in DOMAIN tasks : i <= QueueSize => spc[tasks[i]] \in {"sent", "ok"}
    /\ \A i \in DOMAIN tasks : i > QueueSize => spc[tasks[i]] = "parked"

ChannelInv == TypeOK /\ ChannelOrder /\ NoSenderOnClosedChannel

\* No step undoes a send or ends a blocked one, and none moves the queue.
SendsKept ==
    /\ tasks' = tasks
    /\ \A t \in Tasks : spc[t] = "parked" => spc'[t] = "parked"
    /\ \A t \in Tasks : spc[t] \in {"sent", "ok"} => spc'[t] \in {"sent", "ok"}

LEMMA SendsKeptLemma ==
    ASSUME TypeOK, ChannelOrder, SendsKept
    PROVE  ChannelOrder'
<1>1. \A i \in DOMAIN tasks : tasks[i] \in Tasks
  BY ElementOfSeq, LenProperties DEF TypeOK
<1> QED BY <1>1 DEF ChannelOrder, SendsKept

\* A sender that finds room, or finds none and waits, joins at the end.
LEMMA AppendKeepsOrder ==
    ASSUME TypeOK, ChannelOrder, NEW t \in Tasks, NEW pc,
           spc[t] = "locked",
           tasks' = Append(tasks, t),
           spc' = [spc EXCEPT ![t] = pc],
           \/ Len(tasks) < QueueSize /\ pc = "sent"
           \/ Len(tasks) >= QueueSize /\ pc = "parked"
    PROVE  ChannelOrder'
<1>1. /\ tasks \in Seq(Tasks)
      /\ Len(tasks) \in Nat
      /\ DOMAIN tasks = 1..Len(tasks)
      /\ \A i \in 1..Len(tasks) : tasks[i] \in Tasks
  BY ElementOfSeq, LenProperties DEF TypeOK
<1>2. /\ DOMAIN tasks' = 1..Len(tasks)+1
      /\ \A i \in 1..Len(tasks) : tasks'[i] = tasks[i]
      /\ tasks'[Len(tasks)+1] = t
  BY <1>1
<1>3. \A i \in 1..Len(tasks) : tasks[i] # t
  BY <1>1, QueueAssumption DEF ChannelOrder
<1>4. \A i \in 1..Len(tasks) : spc'[tasks[i]] = spc[tasks[i]]
  BY <1>1, <1>3 DEF TypeOK
<1>5. spc'[t] = pc
  BY DEF TypeOK
<1>6. \A i, j \in DOMAIN tasks' : tasks'[i] = tasks'[j] => i = j
  BY <1>1, <1>2, <1>3 DEF ChannelOrder
<1>7. \A i \in DOMAIN tasks' :
          /\ i <= QueueSize => spc'[tasks'[i]] \in {"sent", "ok"}
          /\ i > QueueSize => spc'[tasks'[i]] = "parked"
  <2> SUFFICES ASSUME NEW i \in 1..Len(tasks)+1
               PROVE  /\ i <= QueueSize => spc'[tasks'[i]] \in {"sent", "ok"}
                      /\ i > QueueSize => spc'[tasks'[i]] = "parked"
    BY <1>2
  <2>1. CASE i \in 1..Len(tasks)
    BY <2>1, <1>1, <1>2, <1>4 DEF ChannelOrder
  <2>2. CASE i = Len(tasks) + 1
    BY <2>2, <1>1, <1>2, <1>5, QueueAssumption
  <2> QED BY <2>1, <2>2, <1>1
<1> QED BY <1>6, <1>7 DEF ChannelOrder

\* A blocked sender that gives up leaves from beyond the capacity.
LEMMA RemoveKeepsOrder ==
    ASSUME TypeOK, ChannelOrder, NEW t \in Tasks, NEW k \in DOMAIN tasks,
           spc[t] = "parked",
           tasks[k] = t,
           tasks' = RemoveAt(tasks, k),
           spc' = [spc EXCEPT ![t] = "cancelled"]
    PROVE  ChannelOrder'
<1>1. /\ tasks \in Seq(Tasks)
      /\ Len(tasks) \in Nat
      /\ DOMAIN tasks = 1..Len(tasks)
      /\ \A i \in 1..Len(tasks) : tasks[i] \in Tasks
  BY ElementOfSeq, LenProperties DEF TypeOK
<1>2. k > QueueSize
  BY <1>1, QueueAssumption DEF ChannelOrder
<1>3. /\ tasks' \in Seq(Tasks)
      /\ Len(tasks') = Len(tasks) - 1
      /\ \A i \in 1..Len(tasks)-1 : tasks'[i] = IF i < k THEN tasks[i] ELSE tasks[i+1]
  BY <1>1, RemoveAtLemma
<1>4. DOMAIN tasks' = 1..Len(tasks)-1
  BY <1>3, LenProperties
<1>5. \A i \in 1..Len(tasks) : i # k => spc'[tasks[i]] = spc[tasks[i]]
  BY <1>1 DEF TypeOK, ChannelOrder
<1>6. ASSUME NEW i \in 1..Len(tasks)-1, NEW j \in 1..Len(tasks)-1, tasks'[i] = tasks'[j]
      PROVE  i = j
  <2> DEFINE place(n) == IF n < k THEN n ELSE n + 1
  <2>1. place(i) \in 1..Len(tasks) /\ place(j) \in 1..Len(tasks)
    BY <1>1
  <2>2. tasks[place(i)] = tasks[place(j)]
    BY <1>3, <1>6
  <2>3. place(i) = place(j)
    BY <2>1, <2>2, <1>1 DEF ChannelOrder
  <2> QED BY <2>3, <1>1
<1>7. ASSUME NEW i \in 1..Len(tasks)-1
      PROVE  /\ i <= QueueSize => spc'[tasks'[i]] \in {"sent", "ok"}
             /\ i > QueueSize => spc'[tasks'[i]] = "parked"
  <2>1. CASE i < k
    <3>1. i \in 1..Len(tasks) /\ i # k /\ tasks'[i] = tasks[i]
      BY <2>1, <1>1, <1>3
    <3>2. spc'[tasks'[i]] = spc[tasks[i]]
      BY <3>1, <1>5
    <3> QED BY <3>1, <3>2, <1>1 DEF ChannelOrder
  <2>2. CASE i >= k
    <3>1. i+1 \in 1..Len(tasks) /\ i+1 # k /\ tasks'[i] = tasks[i+1]
      BY <2>2, <1>1, <1>3
    <3>2. i > QueueSize /\ i+1 > QueueSize
      BY <2>2, <1>1, <1>2, QueueAssumption
    <3>3. spc'[tasks'[i]] = spc[tasks[i+1]]
      BY <3>1, <1>5
    <3> QED BY <3>1, <3>2, <3>3, <1>1, QueueAssumption DEF ChannelOrder
  <2>3. i < k \/ i >= k
    BY <1>1
  <2> QED BY <2>1, <2>2, <2>3
<1> QED BY <1>4, <1>6, <1>7 DEF ChannelOrder

\* A receive lets the first blocked sender in.
LEMMA ReceiveKeepsOrder ==
    ASSUME TypeOK, ChannelOrder, NEW w \in Workers, Receive(w)
    PROVE  ChannelOrder'
<1>1. /\ tasks \in Seq(Tasks)
      /\ tasks # <<>>
      /\ Len(tasks) \in Nat
      /\ DOMAIN tasks = 1..Len(tasks)
      /\ \A i \in 1..Len(tasks) : tasks[i] \in Tasks
  BY ElementOfSeq, LenProperties DEF TypeOK, Receive
<1>2. /\ tasks' \in Seq(Tasks)
      /\ Len(tasks') = Len(tasks) - 1
      /\ \A i \in 1..Len(tasks)-1 : tasks'[i] = tasks[i+1]
  BY <1>1, HeadTailProperties DEF Receive
<1>3. DOMAIN tasks' = 1..Len(tasks)-1
  BY <1>2, LenProperties
<1>4. ASSUME NEW i \in 1..Len(tasks)-1, NEW j \in 1..Len(tasks)-1, tasks'[i] = tasks'[j]
      PROVE  i = j
  <2>1. i + 1 \in 1..Len(tasks) /\ j + 1 \in 1..Len(tasks) /\ tasks[i+1] = tasks[j+1]
    BY <1>1, <1>2, <1>4
  <2>2. i + 1 = j + 1
    BY <2>1 DEF ChannelOrder
  <2> QED BY <2>2
<1>5. \A i \in 1..Len(tasks) : i # QueueSize + 1 => spc'[tasks[i]] = spc[tasks[i]]
  <2> SUFFICES ASSUME NEW i \in 1..Len(tasks), i # QueueSize + 1
               PROVE  spc'[tasks[i]] = spc[tasks[i]]
    OBVIOUS
  <2>1. CASE Len(tasks) > QueueSize
    <3>1. tasks[i] # tasks[QueueSize + 1]
      BY <2>1, <1>1, QueueAssumption DEF ChannelOrder
    <3> QED BY <2>1, <3>1, <1>1 DEF Receive, SendersAfterReceive, TypeOK
  <2>2. CASE ~(Len(tasks) > QueueSize)
    BY <2>2 DEF Receive, SendersAfterReceive
  <2> QED BY <2>1, <2>2
<1>6. Len(tasks) > QueueSize => spc'[tasks[QueueSize + 1]] = "sent"
  BY <1>1, QueueAssumption DEF Receive, SendersAfterReceive, TypeOK
<1>7. ASSUME NEW i \in 1..Len(tasks)-1
      PROVE  /\ i <= QueueSize => spc'[tasks'[i]] \in {"sent", "ok"}
             /\ i > QueueSize => spc'[tasks'[i]] = "parked"
  <2>1. i+1 \in 1..Len(tasks) /\ tasks'[i] = tasks[i+1]
    BY <1>1, <1>2
  <2>2. CASE i = QueueSize
    BY <2>1, <2>2, <1>1, <1>6, QueueAssumption
  <2>3. CASE i # QueueSize
    <3>1. spc'[tasks'[i]] = spc[tasks[i+1]]
      BY <2>1, <2>3, <1>5, QueueAssumption
    <3> QED BY <2>1, <2>3, <3>1, <1>1, QueueAssumption DEF ChannelOrder
  <2> QED BY <2>2, <2>3
<1> QED BY <1>3, <1>4, <1>7 DEF ChannelOrder

\* What a step may do to the channel, with one case per kind of action.
LEMMA NextChannelInv == ChannelInv /\ [Next]_vars => ChannelInv'
<1> SUFFICES ASSUME ChannelInv, [Next]_vars PROVE ChannelOrder' /\ NoSenderOnClosedChannel'
  BY NextTypeOK DEF ChannelInv
<1> USE DEF ChannelInv
<1>0. ASSUME SendsKept, closed' = closed,
             \A t \in Tasks : spc'[t] = "parked" => spc[t] = "parked"
      PROVE  ChannelOrder' /\ NoSenderOnClosedChannel'
  BY <1>0, SendsKeptLemma DEF NoSenderOnClosedChannel
<1>1. ASSUME NEW t \in Tasks, SubmitInvalid(t) PROVE ChannelOrder' /\ NoSenderOnClosedChannel'
  BY <1>0, <1>1 DEF SubmitInvalid, SendsKept, TypeOK
<1>2. ASSUME NEW t \in Tasks, NEW m, NEW o, SubmitCall(t, m, o)
      PROVE  ChannelOrder' /\ NoSenderOnClosedChannel'
  BY <1>0, <1>2 DEF SubmitCall, SendsKept, TypeOK
<1>3. ASSUME NEW t \in Tasks, RejectClosed(t) \/ TrySubmitFull(t) \/ SubmitReturns(t)
      PROVE  ChannelOrder' /\ NoSenderOnClosedChannel'
  BY <1>0, <1>3 DEF RejectClosed, TrySubmitFull, SubmitReturns, MaySend, SendsKept, TypeOK
<1>4. ASSUME NEW t \in Tasks, NEW w \in Workers, HandOff(t, w)
      PROVE  ChannelOrder' /\ NoSenderOnClosedChannel'
  BY <1>0, <1>4 DEF HandOff, MaySend, SendsKept, TypeOK
<1>5. ASSUME NEW t \in Tasks, Buffer(t) PROVE ChannelOrder' /\ NoSenderOnClosedChannel'
  <2>1. ChannelOrder'
    BY <1>5, AppendKeepsOrder DEF Buffer, MaySend
  <2>2. NoSenderOnClosedChannel'
    BY <1>5 DEF Buffer, MaySend, NoSenderOnClosedChannel
  <2> QED BY <2>1, <2>2
<1>6. ASSUME NEW t \in Tasks, SubmitPark(t) PROVE ChannelOrder' /\ NoSenderOnClosedChannel'
  <2>1. Len(tasks) >= QueueSize
    BY <1>6, LenProperties, QueueAssumption DEF SubmitPark, SendReady, TypeOK
  <2>2. ChannelOrder'
    BY <1>6, <2>1, AppendKeepsOrder DEF SubmitPark, MaySend
  <2>3. NoSenderOnClosedChannel'
    BY <1>6 DEF SubmitPark, MaySend, NoSenderOnClosedChannel
  <2> QED BY <2>2, <2>3
<1>7. ASSUME NEW t \in Tasks, SubmitCancelled(t) PROVE ChannelOrder' /\ NoSenderOnClosedChannel'
  <2>1. NoSenderOnClosedChannel'
    BY <1>7 DEF SubmitCancelled, NoSenderOnClosedChannel, TypeOK
  <2>2. CASE MaySend(t) /\ UNCHANGED tasks
    BY <2>1, <2>2, <1>7, SendsKeptLemma DEF SubmitCancelled, MaySend, SendsKept, TypeOK
  <2>3. CASE \E k \in DOMAIN tasks : tasks[k] = t /\ tasks' = RemoveAt(tasks, k)
    <3>1. PICK k \in DOMAIN tasks : tasks[k] = t /\ tasks' = RemoveAt(tasks, k)
      BY <2>3
    <3>2. spc[t] = "parked"
      <4>1. spc[t] \in {"sent", "ok", "parked"}
        BY <3>1, LenProperties, QueueAssumption DEF ChannelOrder, TypeOK
      <4> QED BY <4>1, <1>7 DEF SubmitCancelled, MaySend
    <3> QED BY <2>1, <3>1, <3>2, <1>7, RemoveKeepsOrder DEF SubmitCancelled
  <2> QED BY <2>2, <2>3, <1>7 DEF SubmitCancelled
<1>8. ASSUME NEW w \in Workers, Receive(w) PROVE ChannelOrder' /\ NoSenderOnClosedChannel'
  <2>1. NoSenderOnClosedChannel'
    BY <1>8 DEF Receive, SendersAfterReceive, NoSenderOnClosedChannel, TypeOK
  <2> QED BY <1>8, <2>1, ReceiveKeepsOrder
<1>9. ASSUME NEW c \in Closers, CloseChannel(c) PROVE ChannelOrder' /\ NoSenderOnClosedChannel'
  <2>1. SendsKept
    BY <1>9 DEF CloseChannel, SendsKept
  <2>2. \A t \in Tasks : spc[t] # "parked"
    BY <1>9 DEF CloseChannel, Readers
  <2>3. NoSenderOnClosedChannel'
    BY <1>9, <2>2 DEF CloseChannel, NoSenderOnClosedChannel
  <2> QED BY <2>1, <2>3, SendsKeptLemma
<1>10. ASSUME UNCHANGED <<spc, tasks, closed>> PROVE ChannelOrder' /\ NoSenderOnClosedChannel'
  BY <1>0, <1>10 DEF SendsKept
<1>11. ASSUME NEW t \in Tasks, SubmitCtxDone(t) PROVE UNCHANGED <<spc, tasks, closed>>
  BY <1>11 DEF SubmitCtxDone
<1>12. ASSUME NEW w \in Workers,
              \/ WorkerPark(w) \/ WorkerExit(w) \/ BeginAttempt(w) \/ RefusalFails(w)
              \/ Exhausted(w) \/ Abandon(w)
              \/ Wake(w) \/ JobEnds(w)
       PROVE  UNCHANGED <<spc, tasks, closed>>
  BY <1>12 DEF WorkerPark, WorkerExit, BeginAttempt, Exhausted, Abandon, Wake, JobEnds,
     JobSucceeds, PredicateRefuses, RefusalFails, Retry, LastFailure, WorkerPanics, LeaveExecute,
     subVars
<1>13. ASSUME NEW c \in Closers,
              \/ CloseInvalid(c) \/ CloseCtxDone(c) \/ CloseAnnounce(c)
              \/ CloseSignals(c) \/ CloseDrained(c) \/ CloseTimesOut(c)
              \/ \E m \in Modes \ {"invalid"} : CloseCall(c, m)
       PROVE  UNCHANGED <<spc, tasks, closed>>
  BY <1>13 DEF CloseInvalid, CloseCall, CloseCtxDone, CloseAnnounce, CloseSignals, CloseDrained,
     CloseTimesOut, SignalQuit, subVars
<1>14. CASE UNCHANGED vars
  BY <1>10, <1>14 DEF vars, subVars
<1> HIDE DEF ChannelInv
<1> QED
  BY <1>1, <1>2, <1>3, <1>4, <1>5, <1>6, <1>7, <1>8, <1>9, <1>10, <1>11, <1>12, <1>13, <1>14
  DEF Next, SubmitStep, WorkerStep, CloseStep, Terminated

LEMMA InitChannelInv == Init => ChannelInv
BY InitTypeOK DEF Init, ChannelInv, ChannelOrder, NoSenderOnClosedChannel

THEOREM ChannelInvariant == Spec => []ChannelInv
BY InitChannelInv, NextChannelInv, PTL DEF Spec

\* No call is left sending when CloseWithMode closes the channel, so Submit
\* cannot panic with a send on a closed channel.
THEOREM NoSendOnClosed == Spec => []NoSenderOnClosedChannel
<1>1. ChannelInv => NoSenderOnClosedChannel
  BY DEF ChannelInv
<1> QED BY <1>1, ChannelInvariant, PTL

LEMMA NextTakesNothing ==
    ChannelInv /\ ChannelInv' /\ [Next]_vars =>
        (closed => Accepted' \subseteq Accepted /\ Range(tasks') \subseteq Range(tasks))
<1> SUFFICES ASSUME ChannelInv, [Next]_vars, closed
             PROVE  Accepted' \subseteq Accepted /\ Range(tasks') \subseteq Range(tasks)
  OBVIOUS
<1> DEFINE Goal == Accepted' \subseteq Accepted /\ Range(tasks') \subseteq Range(tasks)
<1> USE DEF ChannelInv
<1>0. ASSUME UNCHANGED tasks,
             \A t \in Tasks : spc'[t] \in {"sent", "ok"} => spc[t] \in {"sent", "ok"}
      PROVE  Goal
  BY <1>0 DEF Accepted
<1>1. ASSUME NEW t \in Tasks, SubmitInvalid(t) PROVE Goal
  BY <1>0, <1>1 DEF SubmitInvalid, TypeOK
<1>2. ASSUME NEW t \in Tasks, NEW m, NEW o, SubmitCall(t, m, o) PROVE Goal
  BY <1>0, <1>2 DEF SubmitCall, TypeOK
<1>3. ASSUME NEW t \in Tasks, RejectClosed(t) \/ SubmitReturns(t) PROVE Goal
  <2>1. CASE RejectClosed(t)
    BY <1>0, <2>1 DEF RejectClosed, TypeOK
  <2>2. CASE SubmitReturns(t)
    BY <1>0, <2>2 DEF SubmitReturns, TypeOK
  <2> QED BY <1>3, <2>1, <2>2
<1>4. ASSUME NEW t \in Tasks PROVE ~MaySend(t) /\ spc[t] # "parked"
  BY DEF MaySend, NoSenderOnClosedChannel
<1>5. ASSUME NEW w \in Workers, Receive(w) PROVE Goal
  <2>1. /\ tasks \in Seq(Tasks) /\ tasks # <<>>
        /\ Len(tasks) \in Nat
        /\ DOMAIN tasks = 1..Len(tasks)
        /\ \A i \in 1..Len(tasks) : tasks[i] \in Tasks
    BY <1>5, ElementOfSeq, LenProperties DEF TypeOK, Receive
  <2>2. ~(Len(tasks) > QueueSize)
    BY <1>4, <2>1, QueueAssumption DEF ChannelOrder
  <2>3. Accepted' = Accepted
    BY <1>5, <2>2 DEF Receive, SendersAfterReceive, Accepted
  <2>4. tasks' = Tail(tasks)
    BY <1>5 DEF Receive
  <2>5. /\ tasks' \in Seq(Tasks)
        /\ Len(tasks') = Len(tasks) - 1
        /\ \A i \in 1..Len(tasks') : tasks'[i] = tasks[i+1]
    BY <2>1, <2>4, HeadTailProperties
  <2>6. DOMAIN tasks' = 1..Len(tasks)-1
    BY <2>5, LenProperties
  <2>7. ASSUME NEW i \in 1..Len(tasks)-1 PROVE tasks'[i] \in Range(tasks)
    <3>1. i + 1 \in 1..Len(tasks) /\ tasks'[i] = tasks[i+1]
      BY <2>1, <2>5
    <3> QED BY <2>1, <3>1 DEF Range
  <2>8. Range(tasks') \subseteq Range(tasks)
    BY <2>6, <2>7 DEF Range
  <2> QED BY <2>3, <2>8
<1>6. ASSUME NEW c \in Closers, CloseChannel(c) PROVE Goal
  BY <1>0, <1>6 DEF CloseChannel, TypeOK
<1>7. ASSUME UNCHANGED <<spc, tasks>> PROVE Goal
  BY <1>0, <1>7
<1>8. ASSUME NEW t \in Tasks, SubmitCtxDone(t) PROVE UNCHANGED <<spc, tasks>>
  BY <1>8 DEF SubmitCtxDone
<1>9. ASSUME NEW w \in Workers,
             \/ WorkerPark(w) \/ WorkerExit(w) \/ BeginAttempt(w) \/ RefusalFails(w)
             \/ Exhausted(w) \/ Abandon(w)
             \/ Wake(w) \/ JobEnds(w)
      PROVE  UNCHANGED <<spc, tasks>>
  BY <1>9 DEF WorkerPark, WorkerExit, BeginAttempt, Exhausted, Abandon, Wake, JobEnds,
     JobSucceeds, PredicateRefuses, RefusalFails, Retry, LastFailure, WorkerPanics, LeaveExecute,
     subVars
<1>10. ASSUME NEW c \in Closers,
              \/ CloseInvalid(c) \/ CloseCtxDone(c) \/ CloseAnnounce(c)
              \/ CloseSignals(c) \/ CloseDrained(c) \/ CloseTimesOut(c)
              \/ \E m \in Modes \ {"invalid"} : CloseCall(c, m)
       PROVE  UNCHANGED <<spc, tasks>>
  BY <1>10 DEF CloseInvalid, CloseCall, CloseCtxDone, CloseAnnounce, CloseSignals, CloseDrained,
     CloseTimesOut, SignalQuit, subVars
<1>11. CASE UNCHANGED vars
  BY <1>7, <1>11 DEF vars, subVars
<1>12. ASSUME NEW t \in Tasks, SubmitStep(t) PROVE Goal
  <2>1. RejectClosed(t) \/ SubmitReturns(t)
    BY <1>4, <1>12 DEF SubmitStep, HandOff, Buffer, SubmitPark, SubmitCancelled, TrySubmitFull
  <2> QED BY <2>1, <1>3
<1>13. ASSUME NEW t \in Tasks, SubmitCtxDone(t) PROVE Goal
  BY <1>7, <1>8, <1>13
<1>14. ASSUME NEW w \in Workers, WorkerStep(w) \/ JobEnds(w) \/ Wake(w) PROVE Goal
  BY <1>5, <1>7, <1>9, <1>14 DEF WorkerStep
<1>15. ASSUME NEW c \in Closers,
              \/ CloseInvalid(c) \/ CloseCtxDone(c) \/ CloseStep(c)
              \/ \E m \in Modes \ {"invalid"} : CloseCall(c, m)
       PROVE  Goal
  BY <1>6, <1>7, <1>10, <1>15 DEF CloseStep
<1> HIDE DEF ChannelInv
<1>16. Goal
  BY <1>1, <1>2, <1>11, <1>12, <1>13, <1>14, <1>15 DEF Next, Terminated
<1> QED BY <1>16 DEF Goal

\* Once the dispatcher is closed no call hands a task over or starts to wait
\* with one, however it was interleaved with Close.
THEOREM ClosedTakesNothing == Spec => ClosedQueueTakesNothing
<1>1. ChannelInv /\ ChannelInv' /\ [Next]_vars =>
        [closed => Accepted' \subseteq Accepted /\ Range(tasks') \subseteq Range(tasks)]_vars
  BY NextTakesNothing
<1> QED BY <1>1, ChannelInvariant, PTL DEF Spec, ClosedQueueTakesNothing

---------------------------------------------------------------------------
(* Where the tasks are.                                                    *)

Busy == {"loop", "run", "refusal", "sleep"}

\* A task in the channel, with a worker, or settled is in no second of these
\* places; a task is in one of them exactly when its send is done, apart from
\* the tasks of blocked senders, which are all in the channel.
Ledger ==
    /\ \A v, w \in Workers : wtask[v] = wtask[w] /\ wtask[v] # NoTask => v = w
    /\ \A w \in Workers : wtask[w] # NoTask <=> wpc[w] \in Busy
    /\ \A w \in Workers : wtask[w] # NoTask =>
          spc[wtask[w]] \in {"sent", "ok"} /\ outcome[wtask[w]] = "none"
    /\ \A t \in Range(tasks) : outcome[t] = "none" /\ \A w \in Workers : wtask[w] # t
    /\ \A t \in Tasks : outcome[t] # "none" => spc[t] \in {"sent", "ok"}
    /\ \A t \in Tasks : spc[t] \in {"sent", "ok"} =>
          outcome[t] # "none" \/ t \in Range(tasks) \/ \E w \in Workers : wtask[w] = t
    /\ \A t \in Tasks : spc[t] = "parked" => t \in Range(tasks)

\* The tasks in the channel are those of calls that sent or are sending.
LEMMA RangeLemma ==
    ASSUME TypeOK, ChannelOrder
    PROVE  /\ Range(tasks) \subseteq Tasks
           /\ \A t \in Range(tasks) : spc[t] \in {"sent", "ok", "parked"}
<1>1. /\ Len(tasks) \in Nat
      /\ DOMAIN tasks = 1..Len(tasks)
      /\ \A i \in 1..Len(tasks) : tasks[i] \in Tasks
  BY ElementOfSeq, LenProperties DEF TypeOK
<1>2. \A i \in 1..Len(tasks) : spc[tasks[i]] \in {"sent", "ok", "parked"}
  BY <1>1, QueueAssumption DEF ChannelOrder
<1> QED BY <1>1, <1>2 DEF Range

LEMMA RangeAppend ==
    ASSUME NEW S, NEW s \in Seq(S), NEW e \in S
    PROVE  Range(Append(s, e)) = Range(s) \cup {e}
<1>1. Len(s) \in Nat /\ DOMAIN s = 1..Len(s)
  BY LenProperties
<1>2. /\ DOMAIN Append(s, e) = 1..Len(s)+1
      /\ \A i \in 1..Len(s) : Append(s, e)[i] = s[i]
      /\ Append(s, e)[Len(s)+1] = e
  BY <1>1
<1>3. Range(Append(s, e)) \subseteq Range(s) \cup {e}
  <2> SUFFICES ASSUME NEW i \in 1..Len(s)+1
               PROVE  Append(s, e)[i] \in Range(s) \cup {e}
    BY <1>2 DEF Range
  <2>1. i \in 1..Len(s) \/ i = Len(s) + 1
    BY <1>1
  <2> QED BY <2>1, <1>1, <1>2 DEF Range
<1>4. Range(s) \subseteq Range(Append(s, e))
  <2> SUFFICES ASSUME NEW i \in 1..Len(s) PROVE s[i] \in Range(Append(s, e))
    BY <1>1 DEF Range
  <2>1. i \in 1..Len(s)+1
    BY <1>1
  <2> QED BY <2>1, <1>2 DEF Range
<1>5. e \in Range(Append(s, e))
  <2>1. Len(s)+1 \in 1..Len(s)+1
    BY <1>1
  <2> QED BY <2>1, <1>2 DEF Range
<1> QED BY <1>3, <1>4, <1>5

\* Removing an element of a sequence without duplicates removes it from its range.
LEMMA RangeRemoveAt ==
    ASSUME NEW S, NEW s \in Seq(S), NEW k \in DOMAIN s,
           \A i, j \in DOMAIN s : s[i] = s[j] => i = j
    PROVE  Range(RemoveAt(s, k)) = Range(s) \ {s[k]}
<1> DEFINE r == RemoveAt(s, k)
<1>1. Len(s) \in Nat /\ DOMAIN s = 1..Len(s)
  BY LenProperties
<1>2. /\ r \in Seq(S)
      /\ Len(r) = Len(s) - 1
      /\ \A j \in 1..Len(s)-1 : r[j] = IF j < k THEN s[j] ELSE s[j+1]
  BY RemoveAtLemma
<1>3. DOMAIN r = 1..Len(s)-1
  BY <1>2, LenProperties
<1> HIDE DEF r
<1>4. ASSUME NEW j \in 1..Len(s)-1 PROVE r[j] \in Range(s) \ {s[k]}
  <2>1. CASE j < k
    BY <2>1, <1>1, <1>2 DEF Range
  <2>2. CASE j >= k
    <3>1. j+1 \in 1..Len(s) /\ j+1 # k /\ r[j] = s[j+1]
      BY <2>2, <1>1, <1>2
    <3> QED BY <3>1, <1>1 DEF Range
  <2>3. j < k \/ j >= k
    BY <1>1
  <2> QED BY <2>1, <2>2, <2>3
<1>5. ASSUME NEW i \in 1..Len(s), i # k PROVE s[i] \in Range(r)
  <2>1. CASE i < k
    <3>1. i \in 1..Len(s)-1 /\ r[i] = s[i]
      BY <2>1, <1>1, <1>2
    <3> QED BY <3>1, <1>3 DEF Range
  <2>2. CASE i > k
    <3>1. i-1 \in 1..Len(s)-1 /\ ~(i-1 < k) /\ (i-1)+1 = i
      BY <2>2, <1>1
    <3>2. r[i-1] = s[i]
      BY <3>1, <1>2
    <3> QED BY <3>1, <3>2, <1>3 DEF Range
  <2>3. i < k \/ i > k
    BY <1>1, <1>5
  <2> QED BY <2>1, <2>2, <2>3
<1>6. Range(r) \subseteq Range(s) \ {s[k]}
  BY <1>3, <1>4 DEF Range
<1>7. Range(s) \ {s[k]} \subseteq Range(r)
  BY <1>1, <1>5 DEF Range
<1>8. Range(r) = Range(s) \ {s[k]}
  BY <1>6, <1>7
<1> QED BY <1>8 DEF r

\* The same for a receive, which takes the head.
LEMMA RangeTail ==
    ASSUME NEW S, NEW s \in Seq(S), s # <<>>,
           \A i, j \in DOMAIN s : s[i] = s[j] => i = j
    PROVE  Head(s) \in Range(s) /\ Range(Tail(s)) = Range(s) \ {Head(s)}
<1>1. Len(s) \in Nat /\ DOMAIN s = 1..Len(s) /\ Len(s) > 0
  BY LenProperties, EmptySeq
<1>2. /\ Tail(s) \in Seq(S)
      /\ Len(Tail(s)) = Len(s) - 1
      /\ \A i \in 1..Len(s)-1 : Tail(s)[i] = s[i+1]
  BY <1>1, HeadTailProperties
<1>3. DOMAIN Tail(s) = 1..Len(s)-1
  BY <1>2, LenProperties
<1>4. Head(s) = s[1] /\ 1 \in DOMAIN s
  BY <1>1
<1>5. ASSUME NEW i \in 1..Len(s)-1 PROVE Tail(s)[i] \in Range(s) \ {s[1]}
  <2>1. i+1 \in 1..Len(s) /\ i+1 # 1
    BY <1>1
  <2> QED BY <2>1, <1>1, <1>2, <1>4 DEF Range
<1>6. ASSUME NEW i \in 1..Len(s), i # 1 PROVE s[i] \in Range(Tail(s))
  <2>1. i-1 \in 1..Len(s)-1 /\ (i-1)+1 = i
    BY <1>1, <1>6
  <2>2. Tail(s)[i-1] = s[i]
    BY <2>1, <1>2
  <2> QED BY <2>1, <2>2, <1>3 DEF Range
<1>7. Range(Tail(s)) \subseteq Range(s) \ {s[1]}
  BY <1>3, <1>5 DEF Range
<1>8. Range(s) \ {s[1]} \subseteq Range(Tail(s))
  BY <1>1, <1>6 DEF Range
<1>9. Head(s) \in Range(s)
  BY <1>4 DEF Range
<1> QED BY <1>4, <1>7, <1>8, <1>9

\* No step that leaves the places alone, and neither completes nor undoes a
\* send, disturbs the ledger.
PlacesKept ==
    /\ UNCHANGED <<wtask, outcome>>
    /\ Range(tasks') = Range(tasks)
    /\ \A w \in Workers : wpc'[w] \in Busy <=> wpc[w] \in Busy
    /\ \A t \in Tasks : spc'[t] \in {"sent", "ok"} <=> spc[t] \in {"sent", "ok"}
    /\ \A t \in Tasks : spc'[t] = "parked" <=> spc[t] = "parked"

LEMMA PlacesKeptLemma ==
    ASSUME TypeOK, Ledger, PlacesKept
    PROVE  Ledger'
BY DEF TypeOK, Ledger, PlacesKept

\* A task that is sent to a waiting worker.
LEMMA HandOffLedger ==
    ASSUME TypeOK, ChannelOrder, Ledger, NEW t \in Tasks, NEW w \in Workers, HandOff(t, w)
    PROVE  Ledger'
<1>1. t \notin Range(tasks)
  BY RangeLemma DEF HandOff, MaySend
<1>2. outcome[t] = "none" /\ \A v \in Workers : wtask[v] # t
  BY TaskAssumption DEF HandOff, MaySend, Ledger
<1>3. \A u \in Tasks : spc'[u] = IF u = t THEN "sent" ELSE spc[u]
  BY DEF HandOff, TypeOK
<1>4. \A v \in Workers : /\ wtask'[v] = IF v = w THEN t ELSE wtask[v]
                         /\ wpc'[v] = IF v = w THEN "loop" ELSE wpc[v]
  BY DEF HandOff, TypeOK
<1>5. UNCHANGED <<tasks, outcome>> /\ spc[t] = "locked"
  BY DEF HandOff, MaySend, histVars
<1>6. Range(tasks) \subseteq Tasks
  BY RangeLemma
<1> USE <1>1, <1>2, <1>3, <1>4, <1>5, <1>6, TaskAssumption
<1>7. \A v, x \in Workers : wtask'[v] = wtask'[x] /\ wtask'[v] # NoTask => v = x
  BY DEF Ledger
<1>8. \A v \in Workers : wtask'[v] # NoTask <=> wpc'[v] \in Busy
  BY DEF Ledger, Busy
<1>9. \A v \in Workers : wtask'[v] # NoTask =>
          spc'[wtask'[v]] \in {"sent", "ok"} /\ outcome'[wtask'[v]] = "none"
  <2> SUFFICES ASSUME NEW v \in Workers, wtask'[v] # NoTask
               PROVE  spc'[wtask'[v]] \in {"sent", "ok"} /\ outcome'[wtask'[v]] = "none"
    OBVIOUS
  <2>1. CASE v = w
    BY <2>1
  <2>2. CASE v # w
    <3>1. wtask'[v] = wtask[v] /\ wtask[v] \in Tasks /\ wtask[v] # t
      BY <2>2 DEF TypeOK
    <3>2. spc[wtask[v]] \in {"sent", "ok"} /\ outcome[wtask[v]] = "none"
      BY <3>1 DEF Ledger
    <3> QED BY <3>1, <3>2
  <2> QED BY <2>1, <2>2
<1>10. \A u \in Range(tasks') : outcome'[u] = "none" /\ \A v \in Workers : wtask'[v] # u
  BY DEF Ledger
<1>11. \A u \in Tasks : outcome'[u] # "none" => spc'[u] \in {"sent", "ok"}
  BY DEF Ledger
<1>12. \A u \in Tasks : spc'[u] \in {"sent", "ok"} =>
          outcome'[u] # "none" \/ u \in Range(tasks') \/ \E v \in Workers : wtask'[v] = u
  <2> SUFFICES ASSUME NEW u \in Tasks, spc'[u] \in {"sent", "ok"},
                      outcome'[u] = "none", u \notin Range(tasks')
               PROVE  \E v \in Workers : wtask'[v] = u
    OBVIOUS
  <2>1. CASE u = t
    BY <2>1
  <2>2. CASE u # t
    <3>1. PICK v \in Workers : wtask[v] = u
      BY <2>2 DEF Ledger
    <3>2. v # w
      BY <3>1 DEF Ledger, HandOff, Busy
    <3> QED BY <3>1, <3>2
  <2> QED BY <2>1, <2>2
<1>13. \A u \in Tasks : spc'[u] = "parked" => u \in Range(tasks')
  BY DEF Ledger
<1> QED BY <1>7, <1>8, <1>9, <1>10, <1>11, <1>12, <1>13 DEF Ledger

\* A task that joins the channel, with its send done or blocked.
LEMMA JoinLedger ==
    ASSUME TypeOK, ChannelOrder, Ledger, NEW t \in Tasks, Buffer(t) \/ SubmitPark(t)
    PROVE  Ledger'
<1>1. t \notin Range(tasks)
  BY RangeLemma DEF Buffer, SubmitPark, MaySend
<1>2. outcome[t] = "none" /\ \A v \in Workers : wtask[v] # t
  BY TaskAssumption DEF Buffer, SubmitPark, MaySend, Ledger
<1>3. PICK pc \in {"sent", "parked"} : spc' = [spc EXCEPT ![t] = pc]
  BY DEF Buffer, SubmitPark
<1>4. \A u \in Tasks : spc'[u] = IF u = t THEN pc ELSE spc[u]
  BY <1>3 DEF TypeOK
<1>5. Range(tasks') = Range(tasks) \cup {t}
  <2>1. tasks' = Append(tasks, t) /\ tasks \in Seq(Tasks)
    BY DEF Buffer, SubmitPark, TypeOK
  <2> QED BY <2>1, RangeAppend
<1>6. UNCHANGED <<outcome, wtask, wpc>>
  BY DEF Buffer, SubmitPark, histVars, workVars
<1>7. Range(tasks) \subseteq Tasks /\ spc[t] = "locked"
  BY RangeLemma DEF Buffer, SubmitPark, MaySend
<1> USE <1>1, <1>2, <1>4, <1>5, <1>6, <1>7, TaskAssumption
<1>8. \A w \in Workers : wtask'[w] # NoTask =>
          spc'[wtask'[w]] \in {"sent", "ok"} /\ outcome'[wtask'[w]] = "none"
  <2> SUFFICES ASSUME NEW w \in Workers, wtask'[w] # NoTask
               PROVE  spc'[wtask'[w]] \in {"sent", "ok"} /\ outcome'[wtask'[w]] = "none"
    OBVIOUS
  <2>1. wtask'[w] = wtask[w] /\ wtask[w] \in Tasks /\ wtask[w] # t
    BY DEF TypeOK
  <2> QED BY <2>1 DEF Ledger
<1>9. \A u \in Range(tasks') : outcome'[u] = "none" /\ \A v \in Workers : wtask'[v] # u
  BY DEF Ledger
<1>10. \A u \in Tasks : outcome'[u] # "none" => spc'[u] \in {"sent", "ok"}
  BY DEF Ledger
<1>11. \A u \in Tasks : spc'[u] \in {"sent", "ok"} =>
          outcome'[u] # "none" \/ u \in Range(tasks') \/ \E v \in Workers : wtask'[v] = u
  BY DEF Ledger
<1>12. \A u \in Tasks : spc'[u] = "parked" => u \in Range(tasks')
  BY DEF Ledger
<1>13. /\ \A v, w \in Workers : wtask'[v] = wtask'[w] /\ wtask'[v] # NoTask => v = w
       /\ \A w \in Workers : wtask'[w] # NoTask <=> wpc'[w] \in Busy
  BY DEF Ledger
<1> QED BY <1>8, <1>9, <1>10, <1>11, <1>12, <1>13 DEF Ledger

\* A blocked sender that gives up leaves no trace.
LEMMA WithdrawLedger ==
    ASSUME TypeOK, ChannelOrder, Ledger, NEW t \in Tasks, SubmitCancelled(t)
    PROVE  Ledger'
<1>1. UNCHANGED <<outcome, wtask, wpc>> /\ spc[t] \in {"locked", "parked"}
  BY DEF SubmitCancelled, histVars, workVars, MaySend
<1>2. \A u \in Tasks : spc'[u] = IF u = t THEN "cancelled" ELSE spc[u]
  BY DEF SubmitCancelled, TypeOK
<1>3. CASE UNCHANGED tasks /\ MaySend(t)
  <2>1. Range(tasks') = Range(tasks) /\ spc[t] = "locked"
    BY <1>3 DEF MaySend
  <2> QED BY <1>1, <1>2, <2>1, PlacesKeptLemma DEF PlacesKept
<1>4. CASE \E k \in DOMAIN tasks : tasks[k] = t /\ tasks' = RemoveAt(tasks, k)
  <2>1. PICK k \in DOMAIN tasks : tasks[k] = t /\ tasks' = RemoveAt(tasks, k)
    BY <1>4
  <2>2. Range(tasks') = Range(tasks) \ {t}
    BY <2>1, RangeRemoveAt DEF TypeOK, ChannelOrder
  <2>3. Range(tasks) \subseteq Tasks
    BY RangeLemma
  <2> USE <1>1, <1>2, <2>2, <2>3, TaskAssumption
  <2>4. \A w \in Workers : wtask'[w] # NoTask =>
            spc'[wtask'[w]] \in {"sent", "ok"} /\ outcome'[wtask'[w]] = "none"
    <3> SUFFICES ASSUME NEW w \in Workers, wtask'[w] # NoTask
                 PROVE  spc'[wtask'[w]] \in {"sent", "ok"} /\ outcome'[wtask'[w]] = "none"
      OBVIOUS
    <3>1. wtask'[w] = wtask[w] /\ wtask[w] \in Tasks
      BY DEF TypeOK
    <3>2. spc[wtask[w]] \in {"sent", "ok"} /\ outcome[wtask[w]] = "none"
      BY <3>1 DEF Ledger
    <3> QED BY <3>1, <3>2
  <2>5. \A u \in Range(tasks') : outcome'[u] = "none" /\ \A v \in Workers : wtask'[v] # u
    BY DEF Ledger
  <2>6. \A u \in Tasks : outcome'[u] # "none" => spc'[u] \in {"sent", "ok"}
    BY DEF Ledger
  <2>7. \A u \in Tasks : spc'[u] \in {"sent", "ok"} =>
            outcome'[u] # "none" \/ u \in Range(tasks') \/ \E v \in Workers : wtask'[v] = u
    BY DEF Ledger
  <2>8. \A u \in Tasks : spc'[u] = "parked" => u \in Range(tasks')
    BY DEF Ledger
  <2>9. /\ \A v, w \in Workers : wtask'[v] = wtask'[w] /\ wtask'[v] # NoTask => v = w
        /\ \A w \in Workers : wtask'[w] # NoTask <=> wpc'[w] \in Busy
    BY DEF Ledger
  <2> QED BY <2>4, <2>5, <2>6, <2>7, <2>8, <2>9 DEF Ledger
<1> QED BY <1>3, <1>4 DEF SubmitCancelled

\* A receive moves the head to the worker and completes one blocked send.
LEMMA ReceiveLedger ==
    ASSUME TypeOK, ChannelOrder, Ledger, NEW w \in Workers, Receive(w)
    PROVE  Ledger'
<1> DEFINE h == Head(tasks)
<1>1. /\ h \in Range(tasks)
      /\ Range(tasks') = Range(tasks) \ {h}
      /\ Range(tasks) \subseteq Tasks
  BY RangeTail, RangeLemma DEF Receive, TypeOK, ChannelOrder
<1>2. UNCHANGED outcome /\ wpc[w] = "recv"
  BY DEF Receive, histVars
<1>3. \A v \in Workers : /\ wtask'[v] = IF v = w THEN h ELSE wtask[v]
                         /\ wpc'[v] = IF v = w THEN "loop" ELSE wpc[v]
  BY DEF Receive, TypeOK
<1>4. \A u \in Tasks : /\ spc[u] \in {"sent", "ok"} => spc'[u] \in {"sent", "ok"}
                       /\ spc'[u] = "parked" => spc[u] = "parked" /\ u # h
                       /\ spc'[u] \in {"sent", "ok"} => spc[u] \in {"sent", "ok"} \/ u \in Range(tasks)
  <2>1. /\ Len(tasks) \in Nat \ {0}
        /\ DOMAIN tasks = 1..Len(tasks)
        /\ \A i \in 1..Len(tasks) : tasks[i] \in Tasks
        /\ h = tasks[1]
    BY ElementOfSeq, LenProperties, EmptySeq DEF Receive, TypeOK
  <2>2. CASE Len(tasks) > QueueSize
    <3>1. QueueSize + 1 \in DOMAIN tasks
      BY <2>1, <2>2, QueueAssumption
    <3> DEFINE b == tasks[QueueSize + 1]
    <3>2. spc[b] = "parked" /\ b \in Range(tasks) /\ b \in Tasks
      BY <2>1, <3>1, QueueAssumption DEF ChannelOrder, Range
    <3>3. spc' = [spc EXCEPT ![b] = "sent"]
      BY <2>2 DEF Receive, SendersAfterReceive
    <3>4. \A u \in Tasks : spc'[u] = IF u = b THEN "sent" ELSE spc[u]
      BY <3>3 DEF TypeOK
    <3>5. spc[h] # "parked" \/ h = b
      <4>1. CASE QueueSize = 0
        BY <2>1, <4>1
      <4>2. CASE QueueSize # 0
        <5>1. 1 \in DOMAIN tasks /\ 1 <= QueueSize
          BY <2>1, <4>2, QueueAssumption
        <5> QED BY <2>1, <5>1 DEF ChannelOrder
      <4> QED BY <4>1, <4>2
    <3> HIDE DEF b, h
    <3> QED BY <3>2, <3>4, <3>5
  <2>3. CASE ~(Len(tasks) > QueueSize)
    <3>1. spc' = spc
      BY <2>3 DEF Receive, SendersAfterReceive
    <3>2. spc[h] # "parked"
      <4>1. 1 \in DOMAIN tasks /\ 1 <= QueueSize
        BY <2>1, <2>3, QueueAssumption
      <4> QED BY <2>1, <4>1 DEF ChannelOrder
    <3> QED BY <3>1, <3>2
  <2> QED BY <2>2, <2>3
<1>5. spc'[h] \in {"sent", "ok"}
  <2>1. spc'[h] # "parked" /\ h \in Tasks /\ spc[h] \in {"sent", "ok", "parked"}
    BY <1>1, <1>4, RangeLemma
  <2>2. spc'[h] \in {"sent", spc[h]}
    BY <2>1 DEF Receive, SendersAfterReceive, TypeOK
  <2> QED BY <2>1, <2>2
<1> HIDE DEF h
<1> USE <1>1, <1>2, <1>3, <1>4, <1>5, TaskAssumption
<1>6. wtask[w] = NoTask
  BY DEF Ledger, Busy
<1>7. \A v, x \in Workers : wtask'[v] = wtask'[x] /\ wtask'[v] # NoTask => v = x
  BY DEF Ledger
<1>8. \A v \in Workers : wtask'[v] # NoTask <=> wpc'[v] \in Busy
  BY DEF Ledger, Busy
<1>9. \A v \in Workers : wtask'[v] # NoTask =>
          spc'[wtask'[v]] \in {"sent", "ok"} /\ outcome'[wtask'[v]] = "none"
  <2> SUFFICES ASSUME NEW v \in Workers, wtask'[v] # NoTask
               PROVE  spc'[wtask'[v]] \in {"sent", "ok"} /\ outcome'[wtask'[v]] = "none"
    OBVIOUS
  <2>1. CASE v = w
    <3>1. wtask'[v] = h /\ outcome[h] = "none"
      BY <2>1 DEF Ledger
    <3> QED BY <3>1
  <2>2. CASE v # w
    <3>1. wtask'[v] = wtask[v] /\ wtask[v] \in Tasks /\ wtask[v] # h
      BY <2>2 DEF TypeOK, Ledger
    <3>2. spc[wtask[v]] \in {"sent", "ok"} /\ outcome[wtask[v]] = "none"
      BY <3>1 DEF Ledger
    <3> QED BY <3>1, <3>2
  <2> QED BY <2>1, <2>2
<1>10. \A u \in Range(tasks') : outcome'[u] = "none" /\ \A v \in Workers : wtask'[v] # u
  BY DEF Ledger
<1>11. \A u \in Tasks : outcome'[u] # "none" => spc'[u] \in {"sent", "ok"}
  BY DEF Ledger
<1>12. \A u \in Tasks : spc'[u] \in {"sent", "ok"} =>
          outcome'[u] # "none" \/ u \in Range(tasks') \/ \E v \in Workers : wtask'[v] = u
  <2> SUFFICES ASSUME NEW u \in Tasks, spc'[u] \in {"sent", "ok"},
                      outcome'[u] = "none", u \notin Range(tasks')
               PROVE  \E v \in Workers : wtask'[v] = u
    OBVIOUS
  <2>1. CASE u = h
    BY <2>1
  <2>2. CASE u # h
    <3>1. PICK v \in Workers : wtask[v] = u
      BY <2>2 DEF Ledger
    <3>2. v # w
      BY <3>1, <1>6
    <3> QED BY <3>1, <3>2
  <2> QED BY <2>1, <2>2
<1>13. \A u \in Tasks : spc'[u] = "parked" => u \in Range(tasks')
  BY DEF Ledger
<1> QED BY <1>7, <1>8, <1>9, <1>10, <1>11, <1>12, <1>13 DEF Ledger

\* execute ends and the task it held is settled.
LEMMA LeaveLedger ==
    ASSUME TypeOK, ChannelOrder, Ledger, NEW w \in Workers, wpc[w] \in Busy,
           NEW o \in Outcomes, NEW pc \in {"recv", "dead"}, LeaveExecute(w, o, pc)
    PROVE  Ledger'
<1> DEFINE t == wtask[w]
<1>1. t \in Tasks /\ spc[t] \in {"sent", "ok"} /\ t \notin Range(tasks)
  BY DEF Ledger, TypeOK
<1>2. UNCHANGED <<spc, tasks>>
  BY DEF LeaveExecute, subVars
<1>3. \A v \in Workers : /\ wtask'[v] = IF v = w THEN NoTask ELSE wtask[v]
                         /\ wpc'[v] = IF v = w THEN pc ELSE wpc[v]
  BY DEF LeaveExecute, TypeOK
<1>4. \A u \in Tasks : outcome'[u] = IF u = t THEN o ELSE outcome[u]
  BY DEF LeaveExecute, TypeOK
<1>5. o # "none"
  BY DEF Outcomes
<1>6. \A v \in Workers : v # w => wtask[v] # t
  BY <1>1, TaskAssumption DEF Ledger
<1>7. Range(tasks) \subseteq Tasks
  BY RangeLemma
<1> HIDE DEF t
<1> USE <1>1, <1>2, <1>3, <1>4, <1>5, <1>6, <1>7, TaskAssumption
<1>8. \A v, x \in Workers : wtask'[v] = wtask'[x] /\ wtask'[v] # NoTask => v = x
  BY DEF Ledger
<1>9. \A v \in Workers : wtask'[v] # NoTask <=> wpc'[v] \in Busy
  BY DEF Ledger, Busy
<1>10. \A v \in Workers : wtask'[v] # NoTask =>
          spc'[wtask'[v]] \in {"sent", "ok"} /\ outcome'[wtask'[v]] = "none"
  BY DEF Ledger, TypeOK
<1>11. \A u \in Range(tasks') : outcome'[u] = "none" /\ \A v \in Workers : wtask'[v] # u
  BY DEF Ledger
<1>12. \A u \in Tasks : outcome'[u] # "none" => spc'[u] \in {"sent", "ok"}
  BY DEF Ledger
<1>13. \A u \in Tasks : spc'[u] \in {"sent", "ok"} =>
          outcome'[u] # "none" \/ u \in Range(tasks') \/ \E v \in Workers : wtask'[v] = u
  <2> SUFFICES ASSUME NEW u \in Tasks, spc'[u] \in {"sent", "ok"},
                      outcome'[u] = "none", u \notin Range(tasks')
               PROVE  \E v \in Workers : wtask'[v] = u
    OBVIOUS
  <2>1. u # t
    OBVIOUS
  <2>2. PICK v \in Workers : wtask[v] = u
    BY <2>1 DEF Ledger
  <2>3. v # w
    BY <2>1, <2>2 DEF t
  <2> QED BY <2>2, <2>3
<1>14. \A u \in Tasks : spc'[u] = "parked" => u \in Range(tasks')
  BY DEF Ledger
<1> QED BY <1>8, <1>9, <1>10, <1>11, <1>12, <1>13, <1>14 DEF Ledger

LedgerInv == ChannelInv /\ Ledger

LEMMA InitLedgerInv == Init => LedgerInv
<1>1. Init => Range(tasks) = {}
  BY DEF Init, Range
<1>2. Init => Ledger
  BY <1>1, TaskAssumption DEF Init, Ledger, Busy
<1> QED BY <1>2, InitChannelInv DEF LedgerInv

\* The steps of a call that neither send nor withdraw a task.
LEMMA SubmitPlaces ==
    ASSUME TypeOK, NEW t \in Tasks,
           \/ SubmitInvalid(t) \/ SubmitCtxDone(t) \/ RejectClosed(t)
           \/ TrySubmitFull(t) \/ SubmitReturns(t)
           \/ \E m \in Methods \ {"invalid"}, o \in Overrides : SubmitCall(t, m, o)
    PROVE  PlacesKept
<1>1. UNCHANGED <<tasks, wpc, wtask, outcome>>
  BY DEF SubmitInvalid, SubmitCtxDone, RejectClosed, TrySubmitFull, SubmitReturns, SubmitCall,
     MaySend, histVars, workVars
<1>2. \/ spc' = spc
      \/ \E pc \in {"invalid", "closed", "full", "rlock", "locked"} :
            spc[t] \in {"new", "locked"} /\ spc' = [spc EXCEPT ![t] = pc]
      \/ spc[t] = "sent" /\ spc' = [spc EXCEPT ![t] = "ok"]
  BY DEF SubmitInvalid, SubmitCtxDone, RejectClosed, TrySubmitFull, SubmitReturns, SubmitCall, MaySend
<1>3. \A u \in Tasks : /\ spc'[u] \in {"sent", "ok"} <=> spc[u] \in {"sent", "ok"}
                       /\ spc'[u] = "parked" <=> spc[u] = "parked"
  BY <1>2 DEF TypeOK
<1> QED BY <1>1, <1>3 DEF PlacesKept

\* The steps of a worker between taking a task and settling it.
LEMMA WorkerPlaces ==
    ASSUME TypeOK, NEW w \in Workers,
           \/ WorkerPark(w) \/ WorkerExit(w) \/ BeginAttempt(w) \/ Wake(w) \/ LastFailure(w)
           \/ PredicateRefuses(w) \/ \E delay \in Delays : Retry(w, delay)
    PROVE  PlacesKept
<1>1. UNCHANGED <<spc, tasks, wtask, outcome>>
  BY DEF WorkerPark, WorkerExit, BeginAttempt, Wake, LastFailure, PredicateRefuses, Retry, subVars,
     histVars
<1>2. \E pc \in {"parked", "exited", "run", "loop", "refusal", "sleep"} :
          /\ wpc' = [wpc EXCEPT ![w] = pc]
          /\ pc \in Busy <=> wpc[w] \in Busy
  BY DEF WorkerPark, WorkerExit, BeginAttempt, Wake, LastFailure, PredicateRefuses, Retry,
     NextAttempt, Busy
<1>3. \A v \in Workers : wpc'[v] \in Busy <=> wpc[v] \in Busy
  BY <1>2 DEF TypeOK
<1> QED BY <1>1, <1>3 DEF PlacesKept

LEMMA ClosePlaces ==
    ASSUME TypeOK, NEW c \in Closers,
           \/ CloseInvalid(c) \/ CloseCtxDone(c) \/ CloseStep(c)
           \/ \E m \in Modes \ {"invalid"} : CloseCall(c, m)
    PROVE  PlacesKept
<1>1. CASE CloseChannel(c)
  <2>1. UNCHANGED <<tasks, wtask, outcome>>
    BY <1>1 DEF CloseChannel, histVars
  <2>2. \A w \in Workers : wpc'[w] \in Busy <=> wpc[w] \in Busy
    BY <1>1 DEF CloseChannel, Busy
  <2>3. \A u \in Tasks : /\ spc'[u] \in {"sent", "ok"} <=> spc[u] \in {"sent", "ok"}
                         /\ spc'[u] = "parked" <=> spc[u] = "parked"
    BY <1>1 DEF CloseChannel
  <2> QED BY <2>1, <2>2, <2>3 DEF PlacesKept
<1>2. CASE ~CloseChannel(c)
  <2>1. UNCHANGED <<spc, tasks, wpc, wtask, outcome>>
    BY <1>2 DEF CloseInvalid, CloseCtxDone, CloseStep, CloseCall, CloseAnnounce, CloseSignals,
       CloseDrained, CloseTimesOut, SignalQuit, subVars, workVars, histVars
  <2> QED BY <2>1 DEF PlacesKept
<1> QED BY <1>1, <1>2

\* The steps of a worker that settle its task.
LEMMA SettleLedger ==
    ASSUME TypeOK, ChannelOrder, Ledger, NEW w \in Workers,
           \/ JobSucceeds(w) \/ RefusalFails(w) \/ Exhausted(w) \/ Abandon(w)
           \/ \E counted \in SUBSET {"retried"} : WorkerPanics(w, counted)
    PROVE  Ledger'
<1>1. PICK o \in Outcomes, pc \in {"recv", "dead"} : LeaveExecute(w, o, pc)
  BY DEF JobSucceeds, RefusalFails, Exhausted, Abandon, WorkerPanics, Outcomes
<1>2. wpc[w] \in Busy
  BY DEF JobSucceeds, RefusalFails, Exhausted, Abandon, WorkerPanics, Busy
<1> QED BY <1>1, <1>2, LeaveLedger

LEMMA NextLedgerInv == LedgerInv /\ [Next]_vars => LedgerInv'
<1> SUFFICES ASSUME LedgerInv, [Next]_vars PROVE LedgerInv'
  OBVIOUS
<1>1. TypeOK /\ ChannelOrder /\ Ledger
  BY DEF LedgerInv, ChannelInv
<1>2. ASSUME PlacesKept PROVE Ledger'
  BY <1>1, <1>2, PlacesKeptLemma
<1>3. ASSUME NEW t \in Tasks,
             \/ SubmitInvalid(t)
             \/ \E m \in Methods \ {"invalid"}, o \in Overrides : SubmitCall(t, m, o)
             \/ SubmitCtxDone(t)
             \/ SubmitStep(t)
      PROVE  Ledger'
  <2>1. ASSUME NEW w \in Workers, HandOff(t, w) PROVE Ledger'
    BY <1>1, <2>1, HandOffLedger
  <2>2. CASE Buffer(t) \/ SubmitPark(t)
    BY <1>1, <2>2, JoinLedger
  <2>3. CASE SubmitCancelled(t)
    BY <1>1, <2>3, WithdrawLedger
  <2>4. CASE \/ SubmitInvalid(t) \/ SubmitCtxDone(t) \/ RejectClosed(t)
             \/ TrySubmitFull(t) \/ SubmitReturns(t)
             \/ \E m \in Methods \ {"invalid"}, o \in Overrides : SubmitCall(t, m, o)
    BY <1>1, <1>2, <2>4, SubmitPlaces
  <2> QED BY <1>3, <2>1, <2>2, <2>3, <2>4 DEF SubmitStep
<1>4. ASSUME NEW w \in Workers, WorkerStep(w) \/ JobEnds(w) \/ Wake(w) PROVE Ledger'
  <2>1. CASE Receive(w)
    BY <1>1, <2>1, ReceiveLedger
  <2>2. CASE \/ WorkerPark(w) \/ WorkerExit(w) \/ BeginAttempt(w) \/ Wake(w) \/ LastFailure(w)
             \/ PredicateRefuses(w) \/ \E delay \in Delays : Retry(w, delay)
    BY <1>1, <1>2, <2>2, WorkerPlaces
  <2>3. CASE \/ JobSucceeds(w) \/ RefusalFails(w) \/ Exhausted(w) \/ Abandon(w)
             \/ \E counted \in SUBSET {"retried"} : WorkerPanics(w, counted)
    BY <1>1, <2>3, SettleLedger
  <2> QED BY <1>4, <2>1, <2>2, <2>3 DEF WorkerStep, JobEnds
<1>5. ASSUME NEW c \in Closers,
             \/ CloseInvalid(c) \/ CloseCtxDone(c) \/ CloseStep(c)
             \/ \E m \in Modes \ {"invalid"} : CloseCall(c, m)
      PROVE  Ledger'
  BY <1>1, <1>2, <1>5, ClosePlaces
<1>6. ASSUME UNCHANGED vars PROVE Ledger'
  <2>1. PlacesKept
    BY <1>6 DEF vars, subVars, workVars, histVars, PlacesKept
  <2> QED BY <1>2, <2>1
<1>7. Ledger'
  BY <1>3, <1>4, <1>5, <1>6 DEF Next, Terminated
<1>8. ChannelInv'
  BY NextChannelInv DEF LedgerInv
<1> QED BY <1>7, <1>8 DEF LedgerInv

THEOREM LedgerInvariant == Spec => []LedgerInv
BY InitLedgerInv, NextLedgerInv, PTL DEF Spec

\* The order of the channel tells the buffer from the blocked senders.
LEMMA ChannelSplit ==
    ASSUME TypeOK, ChannelOrder
    PROVE  /\ Buffered = {t \in Range(tasks) : spc[t] \in {"sent", "ok"}}
           /\ BlockedSenders = {t \in Range(tasks) : spc[t] = "parked"}
<1>1. /\ Len(tasks) \in Nat
      /\ DOMAIN tasks = 1..Len(tasks)
      /\ \A i \in 1..Len(tasks) : tasks[i] \in Tasks
  BY ElementOfSeq, LenProperties DEF TypeOK
<1>2. \A i \in 1..Len(tasks) :
        /\ i <= QueueSize => spc[tasks[i]] \in {"sent", "ok"}
        /\ ~(i <= QueueSize) => spc[tasks[i]] = "parked"
  BY <1>1, QueueAssumption DEF ChannelOrder
<1>3. Range(tasks) = {tasks[i] : i \in 1..Len(tasks)}
  BY <1>1 DEF Range
<1>4. /\ \A i : i \in 1..Len(tasks) \cap 1..QueueSize <=> i \in 1..Len(tasks) /\ i <= QueueSize
      /\ \A i : i \in QueueSize+1..Len(tasks) <=> i \in 1..Len(tasks) /\ ~(i <= QueueSize)
  BY <1>1, QueueAssumption
<1>5. Buffered = {t \in Range(tasks) : spc[t] \in {"sent", "ok"}}
  BY <1>2, <1>3, <1>4 DEF Buffered
<1>6. BlockedSenders = {t \in Range(tasks) : spc[t] = "parked"}
  BY <1>2, <1>3, <1>4 DEF BlockedSenders
<1> QED BY <1>5, <1>6

LEMMA LedgerPlaces == LedgerInv => EachTaskInOnePlace
<1> SUFFICES ASSUME LedgerInv PROVE EachTaskInOnePlace
  OBVIOUS
<1>1. TypeOK /\ ChannelOrder /\ Ledger
  BY DEF LedgerInv, ChannelInv
<1>2. /\ Buffered = {t \in Range(tasks) : spc[t] \in {"sent", "ok"}}
      /\ BlockedSenders = {t \in Range(tasks) : spc[t] = "parked"}
      /\ Range(tasks) \subseteq Tasks
  BY <1>1, ChannelSplit, RangeLemma
<1>3. \A t : t \in Held <=> t # NoTask /\ \E w \in Workers : wtask[w] = t
  BY DEF Held
<1>4. Held \subseteq Accepted /\ Held \cap Settled = {}
  BY <1>1, <1>3 DEF Ledger, TypeOK, Accepted, Settled
<1>5. Settled \subseteq Accepted
  BY <1>1 DEF Ledger, Accepted, Settled
<1>6. Buffered \subseteq Accepted /\ Buffered \cap Held = {} /\ Buffered \cap Settled = {}
  BY <1>1, <1>2, <1>3 DEF Ledger, Accepted, Settled
<1>7. Accepted \subseteq Buffered \cup Held \cup Settled
  <2> SUFFICES ASSUME NEW t \in Tasks, spc[t] \in {"sent", "ok"}
               PROVE  t \in Buffered \cup Held \cup Settled
    BY DEF Accepted
  <2>1. outcome[t] # "none" \/ t \in Range(tasks) \/ \E w \in Workers : wtask[w] = t
    BY <1>1 DEF Ledger
  <2> QED BY <1>2, <1>3, <2>1, TaskAssumption DEF Settled
<1>8. BlockedSenders = {t \in Tasks : spc[t] = "parked"}
  BY <1>1, <1>2 DEF Ledger
<1>9. \A i, j \in DOMAIN tasks : tasks[i] = tasks[j] => i = j
  BY <1>1 DEF ChannelOrder
<1>10. \A v, w \in Workers : wtask[v] = wtask[w] /\ wtask[v] # NoTask => v = w
  BY <1>1 DEF Ledger
<1> QED BY <1>4, <1>5, <1>6, <1>7, <1>8, <1>9, <1>10 DEF EachTaskInOnePlace

\* No submission is lost, duplicated, or run although its call was refused or
\* cancelled: Submit, TrySubmit, the channel, the workers and Close never put
\* a task in two places or drop it, for every number of each.
THEOREM EachTaskOnePlace == Spec => []EachTaskInOnePlace
BY LedgerInvariant, LedgerPlaces, PTL
===========================================================================
