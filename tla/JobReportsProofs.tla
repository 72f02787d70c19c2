---------------------------- MODULE JobReportsProofs ----------------------------
(***************************************************************************)
(* The order in which the job queue runs its jobs, and what a callback may *)
(* rely on (JobQueue); and that what the jobs report reaches its recipient *)
(* in that order, all of it before plugin_stop returns (JobReports), for   *)
(* any recipients, any sizes of reports and messages, any limit and any    *)
(* number of jobs and reports.  The last part is about the pool of state   *)
(* databases (StateDbPool), which the runner asks for one with every job:  *)
(* for any configurations, any maximum and any times.                      *)
(*                                                                         *)
(* The reports of a job are flattened out of the parcels that were sent;   *)
(* the lemmas on FlattenSeq say what one sequence more does to the result. *)
(***************************************************************************)
EXTENDS JobReports, StateDbPool, NatSets, FiniteSetTheorems, SequenceTheorems, TLAPS

(* Jobs are outside the queue only where job_queue_main is outside the     *)
(* mutex: one in run_job, one that was run and is not counted.             *)
RunnerHasJob ==
  /\ running # << >> => runner = "run"
  /\ runner = "run" => Len(running) = 1
  /\ Len(ran) = IF runner = "measured" THEN jobsRun + 1 ELSE jobsRun

IInv == TypeOK /\ RunInOrder /\ RunnerHasJob

Numbers(n) == [i \in 1 .. n |-> i]

-----------------------------------------------------------------------------

(* The numbers of the jobs are a sequence of natural numbers.              *)
LEMMA NumbersType ==
  ASSUME NEW n \in Nat
  PROVE  /\ Numbers(n) \in Seq(Nat) /\ Len(Numbers(n)) = n
         /\ \A i \in 1 .. n : Numbers(n)[i] = i
<1>1. Numbers(n) \in Seq(Nat)
  BY DEF Numbers
<1> QED BY <1>1 DEF Numbers

(* The numbers of the jobs after one is pushed.                            *)
LEMMA NumbersAppend ==
  ASSUME NEW n \in Nat
  PROVE  Append(Numbers(n), n + 1) = Numbers(n + 1)
<1>1. /\ Numbers(n) \in Seq(Nat) /\ Len(Numbers(n)) = n
      /\ Numbers(n + 1) \in Seq(Nat) /\ Len(Numbers(n + 1)) = n + 1
  BY NumbersType
<1>2. /\ Append(Numbers(n), n + 1) \in Seq(Nat)
      /\ Len(Append(Numbers(n), n + 1)) = n + 1
  BY <1>1, AppendProperties
<1>3. \A i \in 1 .. n + 1 : Append(Numbers(n), n + 1)[i] = Numbers(n + 1)[i]
  BY <1>1, AppendProperties DEF Numbers
<1> QED BY <1>1, <1>2, <1>3, SeqEqual

(* The jobs run, running and queued are all the jobs: their numbers add up.*)
LEMMA JobsAddUp ==
  ASSUME TypeOK, RunInOrder
  PROVE  Len(ran) + Len(running) + Len(queue) = jobsPushed
<1>1. ran \in Seq(Nat) /\ running \in Seq(Nat) /\ queue \in Seq(Nat) /\ jobsPushed \in Nat
  BY JobQueueAssumption DEF TypeOK
<1>2. ran \o running \in Seq(Nat) /\ Len(ran \o running) = Len(ran) + Len(running)
  BY <1>1, ConcatProperties
<1>3. Len(ran \o running \o queue) = Len(ran \o running) + Len(queue)
  BY <1>1, <1>2, ConcatProperties
<1>4. Len(ran \o running \o queue) = jobsPushed
  BY <1>1, NumbersType DEF RunInOrder, Numbers
<1> QED BY <1>1, <1>2, <1>3, <1>4, LenProperties

(* A pushed job comes after all before it.                                 *)
LEMMA PushKeepsOrder ==
  ASSUME TypeOK, RunInOrder, Push, UNCHANGED <<ran, running>>
  PROVE  RunInOrder' /\ queue' \in Seq(Nat)
<1> DEFINE before == ran \o running
<1>1. queue \in Seq(Nat) /\ jobsPushed \in Nat /\ before \in Seq(Nat)
  BY JobQueueAssumption, ConcatProperties DEF TypeOK
<1>2. queue' = queue \o <<jobsPushed + 1>> /\ queue' \in Seq(Nat)
  <2>1. jobsPushed + 1 \in Nat /\ queue' = Append(queue, jobsPushed + 1)
    BY <1>1 DEF Push
  <2>2. Append(queue, jobsPushed + 1) = queue \o <<jobsPushed + 1>>
    BY <1>1, <2>1, AppendIsConcat
  <2>3. Append(queue, jobsPushed + 1) \in Seq(Nat)
    BY <1>1, <2>1, AppendProperties
  <2> QED BY <2>1, <2>2, <2>3
<1>3. <<jobsPushed + 1>> \in Seq(Nat)
  BY <1>1
<1>4. before \o queue' = (before \o queue) \o <<jobsPushed + 1>>
  <2> HIDE DEF before
  <2> QED BY <1>1, <1>2, <1>3, ConcatAssociative
<1>5. before \o queue = Numbers(jobsPushed)
  BY DEF RunInOrder, Numbers
<1>6. before \o queue' = Append(Numbers(jobsPushed), jobsPushed + 1)
  <2> HIDE DEF before
  <2> QED BY <1>1, <1>4, <1>5, AppendIsConcat, NumbersType
<1>7. before \o queue' = Numbers(jobsPushed + 1)
  BY <1>1, <1>6, NumbersAppend
<1> QED BY <1>2, <1>7 DEF RunInOrder, Numbers, Push

(* Taking the first job leaves the rest of the queue.                      *)
LEMMA TakeFirst ==
  ASSUME TypeOK, TakeJob
  PROVE  /\ Len(queue) \in Nat \ {0}
         /\ queue' = SubSeq(queue, 2, Len(queue)) /\ running' = <<queue[1]>>
         /\ queue' \in Seq(Nat) /\ running' \in Seq(Nat)
         /\ queue = running' \o queue'
<1>1. queue \in Seq(Nat) /\ Len(queue) \in Nat /\ DOMAIN queue = 1 .. Len(queue)
  BY LenProperties DEF TypeOK
<1>2. /\ 1 \in 1 .. Len(queue) /\ running' = <<queue[1]>>
      /\ queue' = SubSeq(queue, 1, 0) \o SubSeq(queue, 2, Len(queue))
  BY <1>1 DEF TakeJob, FirstFirst
<1>3. SubSeq(queue, 2, Len(queue)) \in Seq(Nat)
  BY <1>1, SubSeqProperties, ElementOfSeq
<1>4. SubSeq(queue, 1, 0) = << >>
  BY SubSeqEmpty
<1>5. queue' = SubSeq(queue, 2, Len(queue))
  BY <1>2, <1>3, <1>4, ConcatEmptySeq
<1>6. queue[1] \in Nat /\ <<queue[1]>> \in Seq(Nat)
  BY <1>1, <1>2, ElementOfSeq
<1>7. queue = <<queue[1]>> \o SubSeq(queue, 2, Len(queue))
  BY <1>1, <1>2, SubSeqFull, SubSeqRecursiveFirst
<1> QED BY <1>1, <1>2, <1>3, <1>5, <1>6, <1>7

-----------------------------------------------------------------------------
(* The statistics that a push and a job change.                            *)
LEMMA PushTypes ==
  ASSUME IInv, Push, UNCHANGED <<ran, running>>
  PROVE  /\ RunInOrder' /\ queue' \in Seq(Nat)
         /\ jobsPushed' \in 0 .. MaxJobs
         /\ maxSize' \in Len(queue') .. jobsPushed'
<1>1. RunInOrder' /\ queue' \in Seq(Nat)
  BY PushKeepsOrder DEF IInv
<1>2. /\ queue \in Seq(Nat) /\ jobsPushed \in 0 .. MaxJobs /\ MaxJobs \in Nat
      /\ maxSize \in Len(queue) .. jobsPushed
  BY JobQueueAssumption DEF IInv, TypeOK
<1>3. Len(queue') = Len(queue) + 1 /\ Len(queue) \in Nat
  BY <1>2 DEF Push
<1>4. Len(queue) <= jobsPushed
  BY <1>2, <1>3
<1> QED BY <1>1, <1>2, <1>3, <1>4 DEF Push

(* Taking a job from the queue (job_queue.c) keeps IInv.                   *)
LEMMA TakeJobKeepsInv ==
  ASSUME IInv, TakeJob
  PROVE  IInv'
<1>1. /\ Len(queue) \in Nat \ {0}
      /\ queue' = SubSeq(queue, 2, Len(queue)) /\ running' = <<queue[1]>>
      /\ queue' \in Seq(Nat) /\ running' \in Seq(Nat)
      /\ queue = running' \o queue'
  BY TakeFirst DEF IInv
<1>2. running = << >> /\ runner = "idle" /\ runner' = "run" /\ UNCHANGED <<ran, stats>>
  BY DEF IInv, RunnerHasJob, TakeJob
<1>3. ran \in Seq(Nat) /\ queue \in Seq(Nat)
  BY DEF IInv, TypeOK
<1>4. RunInOrder'
  <2>1. ran \o running = ran
    BY <1>2, <1>3, ConcatEmptySeq
  <2>2. ran \o running' \o queue' = ran \o queue
    <3>1. ran \in Seq(Nat) /\ running' \in Seq(Nat) /\ queue' \in Seq(Nat)
      BY <1>1, <1>3
    <3>2. \A s, t, u \in Seq(Nat) : (s \o t) \o u = s \o (t \o u)
      BY SMTT(20), ConcatAssociative
    <3>3. running' \o queue' = queue
      BY <1>1
    <3> QED BY <3>1, <3>2, <3>3
  <2> QED BY <1>2, <2>1, <2>2 DEF IInv, RunInOrder, stats
<1>5. Len(queue) = Len(running') + Len(queue')
  BY <1>1, ConcatProperties
<1>6. TypeOK'
  <2>1. Len(queue') \in Nat /\ Len(running') \in Nat
    BY <1>1, LenProperties
  <2>2. maxSize \in Len(queue') .. jobsPushed
    BY <1>1, <1>5, <2>1, JobQueueAssumption DEF IInv, TypeOK
  <2> QED BY <1>1, <1>2, <2>2 DEF IInv, TypeOK, TakeJob, RunnerStates, stats
<1>7. RunnerHasJob'
  <2>1. Len(running') = 1
    BY <1>1
  <2>2. Len(ran) = jobsRun /\ ran' = ran /\ jobsRun' = jobsRun
    BY <1>2 DEF IInv, RunnerHasJob, stats
  <2> QED BY <1>2, <2>1, <2>2 DEF RunnerHasJob
<1> QED BY <1>4, <1>6, <1>7 DEF IInv

(* Finishing a job (job_queue.c) keeps IInv.                               *)
LEMMA FinishJobKeepsInv ==
  ASSUME IInv, FinishJob
  PROVE  IInv'
<1>1. ran \in Seq(Nat) /\ running \in Seq(Nat) /\ queue \in Seq(Nat)
  BY DEF IInv, TypeOK
<1>2. /\ runner = "run" /\ runner' = "measured" /\ running' = << >>
      /\ ran' = ran \o running
      /\ UNCHANGED <<queue, jobsPushed, jobsRun, maxSize>>
  BY DEF FinishJob, stats
<1>3. ran' \in Seq(Nat) /\ running' \in Seq(Nat) /\ ran' \o running' = ran'
  BY <1>1, <1>2, ConcatProperties, ConcatEmptySeq, EmptySeq
<1>4. RunInOrder'
  BY <1>2, <1>3 DEF IInv, RunInOrder
<1>5. TypeOK'
  BY <1>2, <1>3, JobQueueAssumption DEF IInv, TypeOK, FinishJob, RunnerStates, stats
<1>6. RunnerHasJob'
  <2>1. Len(ran') = Len(ran) + Len(running)
    BY <1>1, <1>2, ConcatProperties
  <2>2. Len(running) = 1
    BY <1>2 DEF IInv, RunnerHasJob
  <2>3. Len(ran) = jobsRun
    BY <1>2 DEF IInv, RunnerHasJob
  <2> QED BY <1>2, <2>1, <2>2, <2>3 DEF RunnerHasJob
<1> QED BY <1>4, <1>5, <1>6 DEF IInv

(* A step that leaves the jobs where they are.                             *)
LEMMA JobsUntouched ==
  ASSUME IInv, UNCHANGED <<queue, running, ran, jobsPushed, maxSize>>,
         runner' \in RunnerStates, cb' \in BOOLEAN, called' \in Nat, stop' \in BOOLEAN,
         events' \in Nat, found' \in {"room", "full"}, jobsRun' \in Nat,
         RunnerHasJob'
  PROVE  IInv'
BY DEF IInv, TypeOK, RunInOrder

(* A push, from the event source or with a configuration.                  *)
LEMMA PushKeepsInv ==
  ASSUME IInv, Push, UNCHANGED <<running, ran, runner, cb, called, stop, jobsRun>>,
         events' \in Nat, found' \in {"room", "full"}
  PROVE  IInv'
<1>1. /\ RunInOrder' /\ queue' \in Seq(Nat)
      /\ jobsPushed' \in 0 .. MaxJobs
      /\ maxSize' \in Len(queue') .. jobsPushed'
  BY PushTypes
<1> QED BY <1>1 DEF IInv, TypeOK, RunnerHasJob

(* An empty queue, no job run: IInv holds when the queue is made           *)
(* (job_queue.c).                                                          *)
THEOREM InitInv == Init => IInv
<1> SUFFICES ASSUME Init PROVE IInv
  OBVIOUS
<1>1. << >> \in Seq(Nat) /\ Len(<< >>) = 0 /\ << >> \o << >> \o << >> = << >>
  BY EmptySeq, ConcatEmptySeq
<1>2. << >> = [i \in 1 .. 0 |-> i]
  OBVIOUS
<1>3. RunInOrder
  BY <1>1, <1>2 DEF Init, RunInOrder
<1>4. TypeOK
  <2>1. 0 \in 0 .. MaxJobs /\ 0 \in Len(<< >>) .. 0
    BY <1>1, JobQueueAssumption
  <2> QED BY <1>1, <2>1 DEF Init, TypeOK, RunnerStates
<1>5. RunnerHasJob
  BY <1>1 DEF Init, RunnerHasJob
<1> QED BY <1>3, <1>4, <1>5 DEF IInv

(* Every step of the pushers and of the runner keeps IInv.                 *)
THEOREM StepKeepsInv == IInv /\ [Next]_vars => IInv'
<1> SUFFICES ASSUME IInv, [Next]_vars PROVE IInv'
  OBVIOUS
<1>1. CASE EventReceived
  BY <1>1, PushKeepsInv DEF EventReceived, IInv, TypeOK
<1>2. CASE SetCallback
  BY <1>2, JobsUntouched DEF SetCallback, IInv, TypeOK, RunnerHasJob, stats
<1>3. CASE ConfigInstalled
  BY <1>3, PushKeepsInv DEF ConfigInstalled, IInv, TypeOK
<1>4. CASE CallBack
  <2>1. /\ UNCHANGED <<queue, running, ran, jobsPushed, maxSize>>
        /\ UNCHANGED <<runner, stop, events, found, jobsRun>>
        /\ cb' = FALSE /\ called' = called + 1
    BY <1>4 DEF CallBack, stats
  <2>2. called' \in Nat
    BY <2>1 DEF IInv, TypeOK
  <2>3. cb' \in BOOLEAN
    BY <2>1
  <2>4. RunnerHasJob'
    BY <2>1 DEF IInv, RunnerHasJob
  <2> QED BY <2>1, <2>2, <2>3, <2>4, JobsUntouched DEF IInv, TypeOK
<1>5. CASE TakeJob
  BY <1>5, TakeJobKeepsInv
<1>6. CASE FinishJob
  BY <1>6, FinishJobKeepsInv
<1>7. CASE CountJob
  BY <1>7, JobsUntouched DEF CountJob, IInv, TypeOK, RunnerHasJob, RunnerStates
<1>8. CASE RunnerEnds
  BY <1>8, JobsUntouched DEF RunnerEnds, IInv, TypeOK, RunnerHasJob, RunnerStates, stats
<1>9. CASE Stop
  BY <1>9, JobsUntouched DEF Stop, IInv, TypeOK, RunnerHasJob, stats
<1>10. CASE UNCHANGED vars
  BY <1>10, JobsUntouched DEF vars, IInv, TypeOK, RunnerHasJob, stats
<1> QED
  BY <1>1, <1>2, <1>3, <1>4, <1>5, <1>6, <1>7, <1>8, <1>9, <1>10
  DEF Next, Runner, Destroyed

(* The jobs are run in the order in which they were pushed, whichever step *)
(* the pushers and the runner are at (job_queue.c:122).                    *)
THEOREM InvHolds == Spec => []IInv
<1> QED BY InitInv, StepKeepsInv, PTL DEF Spec

-----------------------------------------------------------------------------
(* The types of the queue, the runner and the statistics.                  *)
THEOREM QueueTypeCorrect == Spec => []TypeOK
<1>1. IInv => TypeOK
  BY DEF IInv
<1> QED BY <1>1, InvHolds, PTL

(* Every job that was pushed is run in its turn, once, or still waits.     *)
THEOREM JobsRunInOrder == Spec => []RunInOrder
<1>1. IInv => RunInOrder
  BY DEF IInv
<1> QED BY <1>1, InvHolds, PTL

(* A callback finds every job that was ever pushed run and counted.        *)
THEOREM CallbackFindsAllRun == Spec => CalledBackWhenDrained
<1>1. ASSUME IInv, [Next]_vars
      PROVE  [called' # called => jobsRun = jobsPushed /\ running = << >>]_vars
  <2> SUFFICES ASSUME called' # called
               PROVE  jobsRun = jobsPushed /\ running = << >>
    OBVIOUS
  <2>1. CallBack
    BY <1>1 DEF Next, Runner, EventReceived, SetCallback, ConfigInstalled, TakeJob,
                FinishJob, CountJob, RunnerEnds, Stop, Destroyed, vars
  <2>2. running = << >> /\ queue = << >> /\ Len(ran) = jobsRun
    BY <1>1, <2>1 DEF CallBack, Empty, IInv, RunnerHasJob
  <2>3. Len(ran) + Len(running) + Len(queue) = jobsPushed
    BY <1>1, JobsAddUp DEF IInv
  <2>4. Len(ran) \in Nat
    BY <1>1, LenProperties DEF IInv, TypeOK
  <2> QED BY <2>2, <2>3, <2>4
<1> QED BY <1>1, InvHolds, PTL DEF Spec, CalledBackWhenDrained

-----------------------------------------------------------------------------
(* FlattenSeq, an element at a time                                        *)

(* f gathers the first n of the sequences in ss, as FlattenSeq does.       *)
Flattens(f, ss, n) ==
  f = [i \in 1 .. n |-> IF i = 1 THEN ss[i] ELSE f[i - 1] \o ss[i]]

Gathers(f, ss, n) ==
  \A i \in 1 .. n : f[i] = IF i = 1 THEN ss[i] ELSE f[i - 1] \o ss[i]

(* What the equation of such a function says of one place.                 *)
LEMMA FlattensAt ==
  ASSUME NEW f, NEW ss, NEW n, Flattens(f, ss, n), NEW i \in 1 .. n
  PROVE  f[i] = IF i = 1 THEN ss[i] ELSE f[i - 1] \o ss[i]
<1> DEFINE h == [j \in 1 .. n |-> IF j = 1 THEN ss[j] ELSE f[j - 1] \o ss[j]]
<1>1. h[i] = IF i = 1 THEN ss[i] ELSE f[i - 1] \o ss[i]
  OBVIOUS
<1>2. f = h
  BY DEF Flattens
<1> HIDE DEF h
<1>3. f[i] = h[i]
  BY <1>2
<1>. QED BY <1>1, <1>3

(* There is such a function, however many sequences there are.             *)
LEMMA FlattensExist ==
  ASSUME NEW ss, NEW n \in Nat
  PROVE  \E f : Flattens(f, ss, n)
<1> DEFINE P == {k \in Nat : \E f : Flattens(f, ss, k)}
<1>1. 0 \in P
  <2>1. Flattens([i \in 1 .. 0 |-> 0], ss, 0)
    BY DEF Flattens
  <2>. QED BY <2>1
<1>2. ASSUME NEW k \in P PROVE k + 1 \in P
  <2>1. PICK f : Flattens(f, ss, k)
    BY <1>2
  <2> DEFINE g == [i \in 1 .. k + 1 |-> IF i = 1 THEN ss[i] ELSE f[i - 1] \o ss[i]]
  <2>2. ASSUME NEW i \in 1 .. k PROVE g[i] = f[i] /\ i \in 1 .. k + 1
    <3>1. i \in 1 .. k + 1
      OBVIOUS
    <3>2. f[i] = IF i = 1 THEN ss[i] ELSE f[i - 1] \o ss[i]
      BY <2>1, FlattensAt
    <3>. QED BY <3>1, <3>2
  <2>3. ASSUME NEW i \in 1 .. k + 1, i # 1 PROVE g[i] = g[i - 1] \o ss[i]
    <3>1. i - 1 \in 1 .. k
      BY <2>3
    <3>. QED BY <3>1, <2>2, <2>3
  <2>4. 1 \in 1 .. k + 1 => g[1] = ss[1]
    OBVIOUS
  <2>5. Flattens(g, ss, k + 1)
    <3>1. g = [i \in 1 .. k + 1 |-> g[i]]
      OBVIOUS
    <3> HIDE DEF g
    <3>. QED BY <3>1, <2>3, <2>4 DEF Flattens
  <2>. QED BY <2>5
<1>3. P = Nat
  <2>1. P \in SUBSET Nat
    OBVIOUS
  <2> HIDE DEF P
  <2>. QED BY <1>1, <1>2, <2>1, NatSetInduction
<1>. QED BY <1>3

(* The same sequences gather to the same.                                  *)
LEMMA GathersAgree ==
  ASSUME NEW S, NEW k \in Nat, NEW ss, NEW f, Gathers(f, ss, k),
         NEW tt, NEW g, Gathers(g, tt, k),
         \A i \in 1 .. k : ss[i] = tt[i] /\ ss[i] \in Seq(S)
  PROVE  \A i \in 1 .. k : f[i] = g[i] /\ f[i] \in Seq(S)
<1> DEFINE P == {i \in Nat : i \in 1 .. k => f[i] = g[i] /\ f[i] \in Seq(S)}
<1>1. 0 \in P
  OBVIOUS
<1>2. ASSUME NEW i \in P PROVE i + 1 \in P
  <2> SUFFICES ASSUME i + 1 \in 1 .. k
               PROVE  f[i + 1] = g[i + 1] /\ f[i + 1] \in Seq(S)
    OBVIOUS
  <2>1. /\ f[i + 1] = IF i + 1 = 1 THEN ss[i + 1] ELSE f[(i + 1) - 1] \o ss[i + 1]
        /\ g[i + 1] = IF i + 1 = 1 THEN tt[i + 1] ELSE g[(i + 1) - 1] \o tt[i + 1]
    BY DEF Gathers
  <2>2. (i + 1) - 1 = i /\ ss[i + 1] = tt[i + 1] /\ ss[i + 1] \in Seq(S)
    OBVIOUS
  <2>3. i # 0 => f[i] = g[i] /\ f[i] \in Seq(S)
    OBVIOUS
  <2>4. i # 0 => f[i] \o ss[i + 1] \in Seq(S)
    BY <2>2, <2>3, ConcatProperties
  <2>. QED BY <2>1, <2>2, <2>3, <2>4
<1>3. P = Nat
  <2>1. P \in SUBSET Nat
    OBVIOUS
  <2> HIDE DEF P
  <2>. QED BY <1>1, <1>2, <2>1, NatSetInduction
<1>. QED BY <1>3

(* FlattenSeq chooses one.                                                 *)
LEMMA FlattenSeqFlattens ==
  ASSUME NEW ss, Len(ss) \in Nat, Len(ss) # 0
  PROVE  \E f : Gathers(f, ss, Len(ss)) /\ FlattenSeq(ss) = f[Len(ss)]
<1> DEFINE P(f) == Flattens(f, ss, Len(ss))
<1>1. FlattenSeq(ss) = (CHOOSE f : P(f))[Len(ss)]
  BY DEF FlattenSeq, Flattens
<1>2. \E f : P(f)
  BY FlattensExist
<1> HIDE DEF P
<1>3. P(CHOOSE f : P(f))
  BY <1>2
<1>4. Gathers(CHOOSE f : P(f), ss, Len(ss))
  BY <1>3, FlattensAt DEF P, Gathers
<1>. QED BY <1>1, <1>4

(* One sequence more.                                                      *)
LEMMA FlattenSeqAppend ==
  ASSUME NEW S, NEW ss \in Seq(Seq(S)), NEW tt \in Seq(Seq(S)),
         Len(tt) = Len(ss) + 1, \A i \in 1 .. Len(ss) : tt[i] = ss[i]
  PROVE  /\ FlattenSeq(ss) \in Seq(S)
         /\ FlattenSeq(tt) = FlattenSeq(ss) \o tt[Len(tt)]
<1> DEFINE n == Len(ss)
<1>1. n \in Nat /\ n + 1 \in Nat /\ n + 1 # 0 /\ Len(tt) = n + 1
  BY LenProperties
<1>2. (\A i \in 1 .. n : ss[i] \in Seq(S)) /\ tt[n + 1] \in Seq(S)
  BY <1>1, ElementOfSeq
<1>3. PICK g : Gathers(g, tt, n + 1) /\ FlattenSeq(tt) = g[n + 1]
  BY <1>1, FlattenSeqFlattens
<1>4. g[n + 1] = IF n + 1 = 1 THEN tt[n + 1] ELSE g[(n + 1) - 1] \o tt[n + 1]
  <2> HIDE DEF n
  <2>1. n + 1 \in 1 .. n + 1
    BY <1>1
  <2>. QED BY <1>3, <2>1 DEF Gathers
<1>5. CASE n = 0
  <2>1. ss = << >>
    BY <1>5, EmptySeq
  <2>2. FlattenSeq(ss) = << >>
    BY <1>5, <2>1 DEF FlattenSeq
  <2>3. << >> \o tt[n + 1] = tt[n + 1]
    BY <1>2, ConcatEmptySeq
  <2>4. g[n + 1] = tt[n + 1]
    BY <1>4, <1>5
  <2>. QED BY <1>1, <1>3, <2>2, <2>3, <2>4, EmptySeq
<1>6. CASE n # 0
  <2>1. PICK f : Gathers(f, ss, n) /\ FlattenSeq(ss) = f[n]
    BY <1>1, <1>6, FlattenSeqFlattens
  <2>2. \A i \in 1 .. n : f[i] = g[i] /\ f[i] \in Seq(S)
    <3> HIDE DEF n
    <3>1. Gathers(g, tt, n)
      BY SMTT(20), <1>1, <1>3 DEF Gathers
    <3>2. \A i \in 1 .. n : ss[i] = tt[i] /\ ss[i] \in Seq(S)
      BY <1>2 DEF n
    <3>. QED
      BY <1>1, <1>3, <2>1, <3>1, <3>2, GathersAgree
  <2>3. n \in 1 .. n /\ (n + 1) - 1 = n /\ n + 1 # 1
    BY <1>1, <1>6
  <2>. QED BY <1>1, <1>3, <1>4, <2>1, <2>2, <2>3
<1>. QED BY <1>5, <1>6

(* It returns a sequence of what the sequences hold.                       *)
LEMMA FlattenSeqType ==
  ASSUME NEW S, NEW ss \in Seq(Seq(S))
  PROVE  FlattenSeq(ss) \in Seq(S)
<1> DEFINE none == << >>
           tt == Append(ss, none)
           L == Seq(S)
<1>1. none \in L
  BY EmptySeq
<1>2. /\ tt \in Seq(Seq(S)) /\ Len(tt) = Len(ss) + 1
      /\ \A i \in 1 .. Len(ss) : tt[i] = ss[i]
  <2> HIDE DEF none, L
  <2>1. ss \in Seq(L)
    BY DEF L
  <2>. QED BY <1>1, <2>1, AppendProperties DEF L
<1> HIDE DEF tt
<1>. QED BY <1>2, FlattenSeqAppend

(* Appending to the second is appending to both.                           *)
LEMMA ConcatAppend ==
  ASSUME NEW S, NEW s \in Seq(S), NEW t \in Seq(S), NEW e \in S
  PROVE  s \o Append(t, e) = (s \o t) \o <<e>>
<1>1. Append(t, e) = t \o <<e>>
  BY AppendIsConcat
<1>2. <<e>> \in Seq(S)
  OBVIOUS
<1>. QED
  BY <1>1, <1>2, ConcatAssociative

-----------------------------------------------------------------------------
(* The accumulator's part of the state, the history, and plugin_stop.      *)
ReportsTyped ==
  /\ nodes \subseteq Recipients /\ toVisit \subseteq nodes
  /\ buffer \in [Recipients -> Seq(Nat)]
  /\ sent \in Seq([recipient : Recipients, minor : Nat, reports : Seq(Nat)])
  /\ minor \in Nat /\ added \in Nat /\ worker \in Acc!WorkerStates
  /\ closing \in BOOLEAN /\ plugin \in PluginSteps
  /\ recipient \in Seq(Recipients) /\ Len(recipient) = jobsPushed
  /\ author \in Seq(Nat \ {0}) /\ Len(author) = added

(* No report is of a job that did not run yet, and they are in order.      *)
AuthorsRan ==
  /\ \A n \in DOMAIN author : author[n] <= Len(ran) + Len(running)
  /\ \A m, n \in DOMAIN author : m < n => author[m] <= author[n]

(* A recipient without a node has no reports, and the last pass leaves     *)
(* none to those whose node it has visited.                                *)
BuffersVisited ==
  /\ \A r \in Recipients \ nodes : buffer[r] = << >>
  /\ worker \in {"last", "done"} =>
       closing /\ \A r \in nodes \ toVisit : buffer[r] = << >>
  /\ worker = "done" => toVisit = {}

(* plugin_stop ends the runner before it closes the accumulator.           *)
StopOrder ==
  /\ plugin \in {"pool", "accumulator", "stopped"} => runner = "done"
  /\ closing => plugin \in {"accumulator", "stopped"}
  /\ plugin = "stopped" => worker = "done"

Delivered == \A r \in Recipients : Acc!SentTo(r) \o buffer[r] = ReportsFor(r)

RInv ==
  /\ IInv
  /\ ReportsTyped
  /\ AuthorsRan
  /\ BuffersVisited
  /\ StopOrder
  /\ Delivered

-----------------------------------------------------------------------------
(* What was sent to q, a parcel at a time.                                 *)
PartFor(q, s) ==
  [i \in DOMAIN s |-> IF s[i].recipient = q THEN s[i].reports ELSE << >>]

(* It is a sequence of sequences of reports, one for each parcel.          *)
LEMMA PartForType ==
  ASSUME NEW q,
         NEW s \in Seq([recipient : Recipients, minor : Nat, reports : Seq(Nat)])
  PROVE  PartFor(q, s) \in Seq(Seq(Nat)) /\ Len(PartFor(q, s)) = Len(s)
<1>1. Len(s) \in Nat /\ DOMAIN s = 1 .. Len(s)
  BY LenProperties
<1>2. ASSUME NEW i \in 1 .. Len(s) PROVE PartFor(q, s)[i] \in Seq(Nat)
  <2> DEFINE Parcels == [recipient : Recipients, minor : Nat, reports : Seq(Nat)]
  <2>0. s[i] \in Parcels
    <3> HIDE DEF Parcels
    <3>1. s \in Seq(Parcels)
      BY DEF Parcels
    <3>. QED BY <3>1, ElementOfSeq
  <2>1. s[i].reports \in Seq(Nat)
    BY <2>0
  <2>2. << >> \in Seq(Nat)
    BY EmptySeq
  <2>. QED BY <1>1, <2>1, <2>2 DEF PartFor
<1>3. PartFor(q, s) \in [1 .. Len(s) -> Seq(Nat)]
  BY <1>1, <1>2 DEF PartFor
<1>. QED
  BY <1>1, <1>3, FunctionIsSeq

(* A parcel adds its reports to what its recipient was sent, and nothing   *)
(* to what the others were (accumulator.c).                                *)
LEMMA SendDelivers ==
  ASSUME ReportsTyped, NEW r \in Recipients, NEW q, Acc!Send(r)
  PROVE  /\ Acc!SentTo(q) \in Seq(Nat)
         /\ Acc!SentTo(q)' = Acc!SentTo(q) \o (IF r = q THEN buffer[r] ELSE << >>)
<1> DEFINE parcel == [recipient |-> r, minor |-> minor, reports |-> buffer[r]]
           Parcels == [recipient : Recipients, minor : Nat, reports : Seq(Nat)]
<1>1. parcel \in Parcels /\ sent \in Seq(Parcels) /\ sent' = Append(sent, parcel)
  BY DEF ReportsTyped, Acc!Send
<1>2. /\ sent' \in Seq(Parcels) /\ Len(sent') = Len(sent) + 1 /\ Len(sent) \in Nat
      /\ \A i \in 1 .. Len(sent) : sent'[i] = sent[i]
      /\ sent'[Len(sent) + 1] = parcel
      /\ DOMAIN sent = 1 .. Len(sent) /\ DOMAIN sent' = 1 .. Len(sent) + 1
  <2> HIDE DEF parcel, Parcels
  <2>. QED BY <1>1, AppendProperties, LenProperties
<1>3. /\ PartFor(q, sent) \in Seq(Seq(Nat)) /\ Len(PartFor(q, sent)) = Len(sent)
      /\ PartFor(q, sent') \in Seq(Seq(Nat)) /\ Len(PartFor(q, sent')) = Len(sent')
  BY <1>1, <1>2, PartForType
<1>4. \A i \in 1 .. Len(sent) : PartFor(q, sent')[i] = PartFor(q, sent)[i]
  <2> HIDE DEF parcel, Parcels
  <2>. QED BY <1>2 DEF PartFor
<1>5. PartFor(q, sent')[Len(sent')] = IF r = q THEN buffer[r] ELSE << >>
  BY <1>2 DEF PartFor
<1>6. /\ FlattenSeq(PartFor(q, sent)) \in Seq(Nat)
      /\ FlattenSeq(PartFor(q, sent')) = FlattenSeq(PartFor(q, sent)) \o PartFor(q, sent')[Len(sent')]
  <2> DEFINE ss == PartFor(q, sent)
             tt == PartFor(q, sent')
  <2>1. /\ ss \in Seq(Seq(Nat)) /\ tt \in Seq(Seq(Nat)) /\ Len(tt) = Len(ss) + 1
        /\ \A i \in 1 .. Len(ss) : tt[i] = ss[i] /\ Len(tt) = Len(sent')
    BY <1>2, <1>3, <1>4
  <2>2. Len(tt) = Len(sent')
    BY <1>3
  <2> HIDE DEF ss, tt
  <2>3. FlattenSeq(ss) \in Seq(Nat) /\ FlattenSeq(tt) = FlattenSeq(ss) \o tt[Len(tt)]
    BY <2>1, FlattenSeqAppend
  <2>. QED BY <2>2, <2>3 DEF ss, tt
<1>7. Acc!SentTo(q) = FlattenSeq(PartFor(q, sent)) /\ Acc!SentTo(q)' = FlattenSeq(PartFor(q, sent'))
  BY DEF Acc!SentTo, PartFor, FlattenSeq, Acc!FlattenSeq
<1>. QED
  BY <1>5, <1>6, <1>7

(* The number of each report, in a sequence of its own, or nothing.        *)
OwnReports(q, a, rc) ==
  [n \in DOMAIN a |-> IF rc[a[n]] = q THEN <<n>> ELSE << >>]

(* It is a sequence of sequences of numbers, one for each report.          *)
LEMMA OwnReportsType ==
  ASSUME NEW q, NEW rc, NEW S, NEW a \in Seq(S)
  PROVE  OwnReports(q, a, rc) \in Seq(Seq(Nat)) /\ Len(OwnReports(q, a, rc)) = Len(a)
<1>1. Len(a) \in Nat /\ DOMAIN a = 1 .. Len(a)
  BY LenProperties
<1>2. ASSUME NEW n \in 1 .. Len(a) PROVE OwnReports(q, a, rc)[n] \in Seq(Nat)
  <2>1. <<n>> \in Seq(Nat) /\ << >> \in Seq(Nat)
    BY EmptySeq
  <2>. QED BY <1>1, <2>1 DEF OwnReports
<1>3. OwnReports(q, a, rc) \in [1 .. Len(a) -> Seq(Nat)]
  BY <1>1, <1>2 DEF OwnReports
<1>. QED
  BY <1>1, <1>3, FunctionIsSeq

(* One report more is one more number at the end.                          *)
LEMMA OwnReportsGrow ==
  ASSUME NEW q, NEW rc, NEW S, NEW a \in Seq(S), NEW j \in S
  PROVE  /\ FlattenSeq(OwnReports(q, a, rc)) \in Seq(Nat)
         /\ FlattenSeq(OwnReports(q, Append(a, j), rc)) =
              FlattenSeq(OwnReports(q, a, rc))
                \o (IF rc[j] = q THEN <<Len(a) + 1>> ELSE << >>)
<1> DEFINE b  == Append(a, j)
           ss == OwnReports(q, a, rc)
           tt == OwnReports(q, b, rc)
<1>1. /\ b \in Seq(S) /\ Len(b) = Len(a) + 1 /\ b[Len(a) + 1] = j
      /\ \A i \in 1 .. Len(a) : b[i] = a[i]
  BY AppendProperties
<1> HIDE DEF b
<1>2. Len(a) \in Nat /\ DOMAIN a = 1 .. Len(a) /\ DOMAIN b = 1 .. Len(b)
  BY <1>1, LenProperties
<1>3. ss \in Seq(Seq(Nat)) /\ Len(ss) = Len(a)
  BY OwnReportsType
<1>4. tt \in Seq(Seq(Nat)) /\ Len(tt) = Len(b)
  BY <1>1, OwnReportsType
<1>5. \A i \in 1 .. Len(a) : tt[i] = ss[i]
  BY <1>1, <1>2 DEF OwnReports
<1>6. tt[Len(b)] = IF rc[j] = q THEN <<Len(a) + 1>> ELSE << >>
  BY <1>1, <1>2 DEF OwnReports
<1> HIDE DEF ss, tt
<1>7. FlattenSeq(ss) \in Seq(Nat) /\ FlattenSeq(tt) = FlattenSeq(ss) \o tt[Len(tt)]
  BY <1>1, <1>3, <1>4, <1>5, FlattenSeqAppend
<1>. QED
  BY <1>4, <1>6, <1>7 DEF ss, tt, b

(* The report a job adds comes last among those for the recipient it was   *)
(* made for, and changes no other's.                                       *)
LEMMA ReportIsLast ==
  ASSUME ReportsTyped, NEW j \in Nat \ {0}, author' = Append(author, j),
         UNCHANGED recipient, NEW q
  PROVE  /\ ReportsFor(q) \in Seq(Nat)
         /\ ReportsFor(q)' = ReportsFor(q) \o (IF recipient[j] = q THEN <<added + 1>> ELSE << >>)
<1> DEFINE J == Nat \ {0}
<1>1. author \in Seq(J) /\ Len(author) = added /\ j \in J
  BY DEF ReportsTyped
<1>2. /\ ReportsFor(q) = FlattenSeq(OwnReports(q, author, recipient))
      /\ ReportsFor(q)' = FlattenSeq(OwnReports(q, Append(author, j), recipient))
  BY DEF ReportsFor, OwnReports
<1> HIDE DEF J
<1>3. /\ FlattenSeq(OwnReports(q, author, recipient)) \in Seq(Nat)
      /\ FlattenSeq(OwnReports(q, Append(author, j), recipient)) =
           FlattenSeq(OwnReports(q, author, recipient))
             \o (IF recipient[j] = q THEN <<Len(author) + 1>> ELSE << >>)
  BY SMTT(20), <1>1, OwnReportsGrow
<1>. QED
  BY <1>1, <1>2, <1>3

-----------------------------------------------------------------------------
(* What the queue's steps mean for the jobs that report.                   *)
LEMMA RanGrows ==
  ASSUME IInv, [Next]_vars
  PROVE  /\ Len(ran) + Len(running) <= Len(ran') + Len(running')
         /\ runner = "done" => runner' = "done"
<1>1. ran \in Seq(Nat) /\ running \in Seq(Nat) /\ Len(ran) \in Nat /\ Len(running) \in Nat
  BY LenProperties DEF IInv, TypeOK
<1>2. CASE TakeJob
  <2>1. running = << >> /\ ran' = ran /\ running' \in Seq(Nat) /\ runner # "done"
    BY <1>2, TakeFirst DEF IInv, RunnerHasJob, TakeJob
  <2>2. Len(running) = 0 /\ Len(running') \in Nat
    BY <2>1, EmptySeq, LenProperties
  <2>. QED BY <1>1, <2>1, <2>2
<1>3. CASE FinishJob
  <2>1. ran' = ran \o running /\ running' = << >> /\ runner # "done"
    BY <1>3 DEF FinishJob
  <2>2. Len(ran') = Len(ran) + Len(running) /\ Len(running') = 0
    BY <1>1, <2>1, ConcatProperties, EmptySeq
  <2>. QED BY <1>1, <2>1, <2>2
<1>4. CASE UNCHANGED <<ran, running>> /\ (runner = "done" => runner' = "done")
  BY <1>1, <1>4
<1>. QED
  BY <1>2, <1>3, <1>4 DEF Next, Runner, EventReceived, SetCallback, ConfigInstalled,
     CallBack, CountJob, RunnerEnds, Stop, Destroyed, vars

(* The job that runs is the one after those that were run, and was pushed. *)
LEMMA RunningIsNext ==
  ASSUME IInv, runner = "run"
  PROVE  /\ running[1] = Len(ran) + 1 /\ Len(running) = 1
         /\ running[1] \in 1 .. jobsPushed
<1>1. /\ ran \in Seq(Nat) /\ running \in Seq(Nat) /\ queue \in Seq(Nat)
      /\ Len(ran) \in Nat /\ Len(queue) \in Nat /\ Len(running) = 1 /\ jobsPushed \in Nat
  BY LenProperties, JobQueueAssumption DEF IInv, TypeOK, RunnerHasJob
<1>2. /\ ran \o running \in Seq(Nat) /\ Len(ran \o running) = Len(ran) + 1
      /\ (ran \o running)[Len(ran) + 1] = running[1]
  <2>1. ran \o running \in Seq(Nat) /\ Len(ran \o running) = Len(ran) + 1
    <3>1. ran \in Seq(Nat) /\ running \in Seq(Nat)
      BY <1>1
    <3>2. ran \o running \in Seq(Nat) /\ Len(ran \o running) = Len(ran) + Len(running)
      BY <3>1, ConcatProperties
    <3>. QED BY <1>1, <3>2
  <2> DEFINE n == Len(ran) + 1
  <2>2. n \in 1 .. Len(ran) + Len(running) /\ ~(n <= Len(ran)) /\ n - Len(ran) = 1
    BY <1>1
  <2> HIDE DEF n
  <2>3. (ran \o running)[n] = running[n - Len(ran)]
    BY <1>1, <2>2, ConcatProperties
  <2>. QED BY <2>1, <2>2, <2>3 DEF n
<1>3. (ran \o running \o queue)[Len(ran) + 1] = running[1]
  <2> DEFINE s == ran \o running
  <2>1. s \in Seq(Nat) /\ Len(s) = Len(ran) + 1 /\ s[Len(ran) + 1] = running[1]
    BY <1>2
  <2> HIDE DEF s
  <2>2. (s \o queue)[Len(ran) + 1] = s[Len(ran) + 1]
    BY <1>1, <2>1, ConcatProperties
  <2>. QED BY <2>1, <2>2 DEF s
<1>4. Len(ran) + 1 + Len(queue) = jobsPushed
  BY <1>1, JobsAddUp DEF IInv
<1>5. Len(ran) + 1 \in 1 .. jobsPushed
  BY <1>1, <1>4
<1>6. running[1] = Len(ran) + 1
  BY <1>3, <1>5 DEF IInv, RunInOrder
<1>. QED
  BY <1>1, <1>5, <1>6

(* The jobs that have reported are jobs that were pushed.                  *)
LEMMA AuthorsPushed ==
  ASSUME IInv, ReportsTyped, AuthorsRan
  PROVE  \A n \in DOMAIN author : author[n] \in 1 .. jobsPushed
<1>1. /\ Len(ran) \in Nat /\ Len(running) \in Nat /\ Len(queue) \in Nat /\ jobsPushed \in Nat
  BY LenProperties, JobQueueAssumption DEF IInv, TypeOK
<1>2. Len(ran) + Len(running) <= jobsPushed
  BY <1>1, JobsAddUp DEF IInv
<1>3. \A n \in DOMAIN author : author[n] \in Nat \ {0}
  BY LenProperties DEF ReportsTyped
<1>. QED
  BY <1>1, <1>2, <1>3 DEF AuthorsRan

-----------------------------------------------------------------------------
(* What was sent to q is a sequence of reports.                            *)
LEMMA SentToType ==
  ASSUME ReportsTyped, NEW q
  PROVE  Acc!SentTo(q) \in Seq(Nat)
<1>1. PartFor(q, sent) \in Seq(Seq(Nat))
  BY PartForType DEF ReportsTyped
<1>2. FlattenSeq(PartFor(q, sent)) \in Seq(Nat)
  BY <1>1, FlattenSeqType
<1>3. Acc!SentTo(q) = FlattenSeq(PartFor(q, sent))
  BY DEF Acc!SentTo, PartFor, FlattenSeq, Acc!FlattenSeq
<1>. QED
  BY <1>2, <1>3

(* The queue goes on by itself.                                            *)
LEMMA QueueStepKeepsInv ==
  ASSUME RInv, [Next]_vars, jobsPushed' = jobsPushed,
         UNCHANGED <<accumulator, recipient, author>>,
         plugin' \in PluginSteps, StopOrder'
  PROVE  RInv'
<1>1. IInv'
  BY StepKeepsInv DEF RInv
<1>2. ReportsTyped'
  BY DEF RInv, ReportsTyped, accumulator
<1>3. AuthorsRan'
  <2>1. Len(ran) + Len(running) <= Len(ran') + Len(running')
    BY RanGrows DEF RInv
  <2>2. Len(ran) + Len(running) \in Nat /\ Len(ran') + Len(running') \in Nat
    BY <1>1, LenProperties DEF RInv, IInv, TypeOK
  <2>3. ASSUME NEW n \in DOMAIN author PROVE author[n] \in Nat
    BY LenProperties DEF RInv, ReportsTyped
  <2>. QED BY <2>1, <2>2, <2>3 DEF RInv, AuthorsRan
<1>4. BuffersVisited'
  BY DEF RInv, BuffersVisited, accumulator
<1>5. Delivered'
  BY DEF RInv, Delivered, ReportsFor, Acc!SentTo, accumulator
<1>. QED
  BY <1>1, <1>2, <1>3, <1>4, <1>5 DEF RInv

(* The worker goes on without sending.                                     *)
LEMMA QuietWorkerKeepsInv ==
  ASSUME RInv, UNCHANGED <<vars, nodes, buffer, sent, minor, added, recipient, author, plugin>>,
         toVisit' \subseteq nodes, worker' \in Acc!WorkerStates, closing' \in BOOLEAN,
         BuffersVisited', StopOrder'
  PROVE  RInv'
<1>1. IInv'
  BY StepKeepsInv DEF RInv
<1>2. ReportsTyped'
  BY DEF RInv, ReportsTyped, vars, stats
<1>3. AuthorsRan'
  BY DEF RInv, AuthorsRan, vars
<1>4. Delivered'
  BY DEF RInv, Delivered, ReportsFor, Acc!SentTo
<1>. QED
  BY <1>1, <1>2, <1>3, <1>4 DEF RInv

-----------------------------------------------------------------------------
(* A job is made: the reports so far are of jobs whose recipient is known  *)
(* and stays (create_job).                                                 *)
LEMMA JobForKeepsInv ==
  ASSUME RInv, NEW r \in Recipients, JobFor(r)
  PROVE  RInv'
<1>1. IInv'
  BY StepKeepsInv DEF RInv, JobFor, Next
<1>2. /\ jobsPushed' = jobsPushed + 1 /\ jobsPushed \in Nat
      /\ UNCHANGED <<ran, running, runner>>
      /\ UNCHANGED <<accumulator, author, plugin>>
  BY JobQueueAssumption DEF RInv, IInv, TypeOK, JobFor, EventReceived, ConfigInstalled, Push
<1>3. /\ recipient' \in Seq(Recipients) /\ Len(recipient') = jobsPushed + 1
      /\ \A i \in 1 .. jobsPushed : recipient'[i] = recipient[i]
  BY AppendProperties DEF RInv, ReportsTyped, JobFor
<1>4. ReportsTyped'
  BY <1>2, <1>3 DEF RInv, ReportsTyped, accumulator
<1>5. AuthorsRan'
  BY <1>2 DEF RInv, AuthorsRan
<1>6. BuffersVisited' /\ StopOrder'
  BY <1>2 DEF RInv, BuffersVisited, StopOrder, accumulator
<1>7. Delivered'
  <2>1. \A n \in DOMAIN author : recipient'[author[n]] = recipient[author[n]]
    BY <1>3, AuthorsPushed DEF RInv
  <2>2. ASSUME NEW q PROVE ReportsFor(q)' = ReportsFor(q)
    BY <1>2, <2>1 DEF ReportsFor
  <2>3. ASSUME NEW q PROVE Acc!SentTo(q)' = Acc!SentTo(q)
    BY <1>2 DEF Acc!SentTo, accumulator
  <2>. QED BY <1>2, <2>2, <2>3 DEF RInv, Delivered, accumulator
<1>. QED
  BY <1>1, <1>4, <1>5, <1>6, <1>7 DEF RInv

(* A job reports: it is the newest that has run, the accumulator is not    *)
(* being destroyed, and its report joins the end of the buffer and of the  *)
(* history (add_accumulator_message).                                      *)
LEMMA ReportKeepsInv ==
  ASSUME RInv, NEW sz \in ReportSizes, Report(sz)
  PROVE  RInv'
<1> DEFINE j == running[1]
           r == recipient[running[1]]
<1>1. IInv'
  BY StepKeepsInv DEF RInv, Report
<1>2. j = Len(ran) + 1 /\ Len(running) = 1 /\ j \in 1 .. jobsPushed /\ Len(ran) \in Nat
  BY RunningIsNext, LenProperties DEF RInv, Report, IInv, TypeOK
<1>3. r \in Recipients
  <2>1. recipient \in Seq(Recipients) /\ Len(recipient) = jobsPushed
    BY DEF RInv, ReportsTyped
  <2>. QED BY <1>2, <2>1, ElementOfSeq
<1>4. /\ nodes' = nodes \union {r} /\ added' = added + 1 /\ added \in Nat
      /\ buffer' = [buffer EXCEPT ![r] = Append(@, added + 1)]
      /\ UNCHANGED <<sent, minor, worker, toVisit, timeUp, closing>>
      /\ UNCHANGED <<vars, recipient, plugin>>
      /\ worker \in {"wait", "done"} /\ ~ closing
      /\ author' = Append(author, j)
  BY DEF RInv, ReportsTyped, Report, Acc!AddMessage, Acc!Unlocked
<1>5. /\ buffer \in [Recipients -> Seq(Nat)]
      /\ buffer' \in [Recipients -> Seq(Nat)]
      /\ buffer'[r] = Append(buffer[r], added + 1)
      /\ \A q \in Recipients \ {r} : buffer'[q] = buffer[q]
  <2>1. buffer \in [Recipients -> Seq(Nat)] /\ added + 1 \in Nat
    BY <1>4 DEF RInv, ReportsTyped
  <2>2. Append(buffer[r], added + 1) \in Seq(Nat)
    BY <1>3, <2>1, AppendProperties
  <2> HIDE DEF r
  <2>. QED BY <1>3, <1>4, <2>1, <2>2
<1>6. /\ author \in Seq(Nat \ {0}) /\ Len(author) = added
      /\ author' \in Seq(Nat \ {0}) /\ Len(author') = added + 1
      /\ \A i \in 1 .. added : author'[i] = author[i]
      /\ author'[added + 1] = j
      /\ DOMAIN author = 1 .. added /\ DOMAIN author' = 1 .. added + 1
  <2> DEFINE J == Nat \ {0}
  <2>1. author \in Seq(J) /\ Len(author) = added /\ j \in J
    BY <1>2 DEF RInv, ReportsTyped
  <2> HIDE DEF J, j
  <2>2. /\ author' \in Seq(J) /\ Len(author') = added + 1
        /\ \A i \in 1 .. added : author'[i] = author[i]
        /\ author'[added + 1] = j
    BY <1>4, <2>1, AppendProperties
  <2>3. DOMAIN author = 1 .. added /\ DOMAIN author' = 1 .. added + 1
    BY <2>1, <2>2, LenProperties
  <2>. QED BY <2>1, <2>2, <2>3 DEF J
<1>7. ReportsTyped'
  <2>1. nodes' \subseteq Recipients /\ toVisit' \subseteq nodes'
    BY <1>3, <1>4 DEF RInv, ReportsTyped
  <2> HIDE DEF r, j
  <2>. QED BY <1>4, <1>5, <1>6, <2>1 DEF RInv, ReportsTyped, vars, stats
<1>8. AuthorsRan'
  <2>1. \A n \in 1 .. added : author[n] <= j /\ author[n] \in Nat
    <3>1. \A n \in 1 .. added : author[n] <= Len(ran) + Len(running)
      BY <1>6 DEF RInv, AuthorsRan
    <3>2. \A n \in 1 .. added : author[n] \in Nat
      BY <1>6, ElementOfSeq
    <3>. QED BY <1>2, <3>1, <3>2
  <2>2. Len(ran') + Len(running') = j
    BY <1>2, <1>4 DEF vars
  <2>3. \A m, n \in 1 .. added : m < n => author[m] <= author[n]
    BY <1>6 DEF RInv, AuthorsRan
  <2>4. \A n \in 1 .. added + 1 : author'[n] <= j
    <3> HIDE DEF j
    <3>1. j \in Nat
      BY <1>2
    <3>. QED BY <1>4, <1>6, <2>1, <3>1
  <2>5. \A m, n \in 1 .. added + 1 : m < n => author'[m] <= author'[n]
    <3> HIDE DEF j
    <3> SUFFICES ASSUME NEW m \in 1 .. added + 1, NEW n \in 1 .. added + 1, m < n
                 PROVE  author'[m] <= author'[n]
      OBVIOUS
    <3>1. m \in 1 .. added
      BY <1>4
    <3>2. CASE n = added + 1
      BY <1>6, <2>1, <3>1, <3>2
    <3>3. CASE n \in 1 .. added
      BY <1>6, <2>3, <3>1, <3>3
    <3>4. added \in Nat
      BY <1>4
    <3>5. n = added + 1 \/ n \in 1 .. added
      BY <3>4
    <3>. QED BY <3>2, <3>3, <3>5
  <2> HIDE DEF j
  <2>. QED BY <1>6, <2>2, <2>4, <2>5 DEF AuthorsRan
<1>9. BuffersVisited'
  BY <1>3, <1>4, <1>5 DEF RInv, BuffersVisited
<1>10. StopOrder'
  BY <1>4 DEF RInv, StopOrder, vars
<1>11. Delivered'
  <2> SUFFICES ASSUME NEW q \in Recipients
               PROVE  Acc!SentTo(q)' \o buffer'[q] = ReportsFor(q)'
    BY DEF Delivered
  <2>1. Acc!SentTo(q)' = Acc!SentTo(q)
    BY <1>4 DEF Acc!SentTo
  <2>2. Acc!SentTo(q) \in Seq(Nat) /\ Acc!SentTo(q) \o buffer[q] = ReportsFor(q)
    BY SentToType DEF RInv, Delivered
  <2>3. /\ ReportsFor(q) \in Seq(Nat)
        /\ ReportsFor(q)' = ReportsFor(q) \o (IF r = q THEN <<added + 1>> ELSE << >>)
    <3>1. j \in Nat \ {0} /\ author' = Append(author, j) /\ UNCHANGED recipient
      BY <1>2, <1>4
    <3> HIDE DEF j
    <3>2. /\ ReportsFor(q) \in Seq(Nat)
          /\ ReportsFor(q)' = ReportsFor(q) \o (IF recipient[j] = q THEN <<added + 1>> ELSE << >>)
      BY <3>1, ReportIsLast DEF RInv
    <3>. QED BY <3>2 DEF j
  <2> HIDE DEF r
  <2>4. CASE q = r
    <3>1. buffer[q] \in Seq(Nat) /\ added + 1 \in Nat
      BY <1>4, <1>5
    <3>2. Acc!SentTo(q) \o Append(buffer[q], added + 1)
            = (Acc!SentTo(q) \o buffer[q]) \o <<added + 1>>
      <4> DEFINE x == added + 1
                 N == Nat
      <4>1. x \in N /\ Acc!SentTo(q) \in Seq(N) /\ buffer[q] \in Seq(N)
        BY <2>2, <3>1
      <4> HIDE DEF x, N
      <4>2. Acc!SentTo(q) \o Append(buffer[q], x) = (Acc!SentTo(q) \o buffer[q]) \o <<x>>
        BY <4>1, ConcatAppend
      <4>. QED BY <4>2 DEF x
    <3>. QED BY <1>5, <2>1, <2>2, <2>3, <2>4, <3>2
  <2>5. CASE q # r
    <3>1. ReportsFor(q)' = ReportsFor(q)
      BY <2>3, <2>5, ConcatEmptySeq
    <3>. QED BY <1>5, <2>1, <2>2, <2>5, <3>1
  <2>. QED BY <2>4, <2>5
<1>. QED
  BY <1>1, <1>7, <1>8, <1>9, <1>10, <1>11 DEF RInv

-----------------------------------------------------------------------------
(* Where nothing was sent nobody was sent anything.                        *)
LEMMA SendsNothing ==
  ASSUME NEW q, sent = << >>
  PROVE  Acc!SentTo(q) = << >>
<1>1. PartFor(q, sent) \in Seq({}) /\ Len(PartFor(q, sent)) = 0
  <2>1. PartFor(q, sent) \in [1 .. 0 -> {}]
    BY DEF PartFor
  <2>. QED BY <2>1, FunctionIsSeq
<1>2. PartFor(q, sent) = << >>
  BY <1>1, EmptySeq
<1>3. FlattenSeq(PartFor(q, sent)) = << >>
  BY <1>1, <1>2 DEF FlattenSeq
<1>. QED
  BY <1>3 DEF Acc!SentTo, PartFor, FlattenSeq, Acc!FlattenSeq

(* Where nothing was reported nothing was reported for anybody.            *)
LEMMA NothingReported ==
  ASSUME NEW q, author = << >>
  PROVE  ReportsFor(q) = << >>
<1> DEFINE own == OwnReports(q, author, recipient)
<1>1. own \in Seq({}) /\ Len(own) = 0
  <2>1. own \in [1 .. 0 -> {}]
    BY DEF OwnReports
  <2> HIDE DEF own
  <2>. QED BY <2>1, FunctionIsSeq
<1>2. own = << >>
  <2> HIDE DEF own
  <2>. QED BY <1>1, EmptySeq
<1>3. FlattenSeq(own) = << >>
  BY <1>1, <1>2 DEF FlattenSeq
<1>. QED
  BY <1>3 DEF ReportsFor, OwnReports

(* The plugin as it starts satisfies the invariant.                        *)
LEMMA InitRInv == AllInit => RInv
<1> SUFFICES ASSUME AllInit PROVE RInv
  OBVIOUS
<1>0. << >> \in Seq(Nat) /\ Len(<< >>) = 0
  BY EmptySeq
<1>1. IInv
  BY InitInv DEF AllInit
<1>2. ReportsTyped
  <2>1. \A S : << >> \in Seq(S)
    BY EmptySeq
  <2>2. buffer \in [Recipients -> Seq(Nat)]
    BY <1>0 DEF AllInit, Acc!Init
  <2>. QED
    BY <1>0, <2>1, <2>2 DEF AllInit, Init, Acc!Init, ReportsTyped, PluginSteps, Acc!WorkerStates
<1>3. AuthorsRan
  BY DEF AllInit, AuthorsRan
<1>4. BuffersVisited /\ StopOrder
  BY DEF AllInit, Acc!Init, BuffersVisited, StopOrder
<1>5. Delivered
  <2> SUFFICES ASSUME NEW q \in Recipients PROVE Acc!SentTo(q) \o buffer[q] = ReportsFor(q)
    BY DEF Delivered
  <2>1. Acc!SentTo(q) = << >> /\ ReportsFor(q) = << >> /\ buffer[q] = << >>
    BY SendsNothing, NothingReported DEF AllInit, Acc!Init
  <2>. QED BY <2>1, <1>0, ConcatEmptySeq
<1>. QED
  BY <1>1, <1>2, <1>3, <1>4, <1>5 DEF RInv

(* A buffer that is sent moves from the end of what is pending to the end  *)
(* of what was sent.                                                       *)
LEMMA SendKeepsInv ==
  ASSUME RInv, NEW r \in toVisit, worker \in {"pass", "last"}, Acc!Send(r),
         toVisit' = toVisit \ {r},
         UNCHANGED <<vars, nodes, worker, closing, added, recipient, author, plugin>>
  PROVE  RInv'
<1>1. IInv'
  BY StepKeepsInv DEF RInv
<1>2. /\ r \in Recipients /\ buffer \in [Recipients -> Seq(Nat)] /\ minor \in Nat
      /\ sent \in Seq([recipient : Recipients, minor : Nat, reports : Seq(Nat)])
  BY DEF RInv, ReportsTyped
<1>3. /\ buffer' \in [Recipients -> Seq(Nat)] /\ buffer'[r] = << >>
      /\ \A q \in Recipients \ {r} : buffer'[q] = buffer[q]
  <2>1. << >> \in Seq(Nat)
    BY EmptySeq
  <2>. QED BY <1>2, <2>1 DEF Acc!Send
<1>4. sent' \in Seq([recipient : Recipients, minor : Nat, reports : Seq(Nat)])
  <2> DEFINE parcel == [recipient |-> r, minor |-> minor, reports |-> buffer[r]]
             Parcels == [recipient : Recipients, minor : Nat, reports : Seq(Nat)]
  <2>1. parcel \in Parcels /\ sent \in Seq(Parcels) /\ sent' = Append(sent, parcel)
    BY <1>2 DEF Acc!Send
  <2>2. sent' \in Seq(Parcels)
    <3> HIDE DEF parcel, Parcels
    <3>. QED BY <2>1, AppendProperties
  <2>. QED BY <2>2
<1>5. minor' \in Nat
  BY <1>2 DEF Acc!Send
<1>6. ReportsTyped'
  BY <1>3, <1>4, <1>5 DEF RInv, ReportsTyped, vars, stats
<1>7. AuthorsRan'
  BY DEF RInv, AuthorsRan, vars
<1>8. BuffersVisited'
  BY <1>2, <1>3 DEF RInv, ReportsTyped, BuffersVisited
<1>9. StopOrder'
  BY DEF RInv, StopOrder, vars
<1>10. Delivered'
  <2> SUFFICES ASSUME NEW q \in Recipients
               PROVE  Acc!SentTo(q)' \o buffer'[q] = ReportsFor(q)'
    BY DEF Delivered
  <2>1. ReportsFor(q)' = ReportsFor(q) /\ ReportsFor(q) = Acc!SentTo(q) \o buffer[q]
    BY DEF ReportsFor, RInv, Delivered
  <2>2. /\ Acc!SentTo(q) \in Seq(Nat)
        /\ Acc!SentTo(q)' = Acc!SentTo(q) \o (IF r = q THEN buffer[r] ELSE << >>)
    BY <1>2, SendDelivers DEF RInv
  <2>3. buffer[q] \in Seq(Nat)
    BY <1>2
  <2>4. CASE q = r
    <3>1. Acc!SentTo(q) \o buffer[q] \in Seq(Nat)
      BY <2>2, <2>3, ConcatProperties
    <3>2. Acc!SentTo(q)' = Acc!SentTo(q) \o buffer[q]
      BY <2>2, <2>4
    <3>3. (Acc!SentTo(q) \o buffer[q]) \o << >> = Acc!SentTo(q) \o buffer[q]
      BY <3>1, ConcatEmptySeq
    <3>. QED BY <1>3, <2>1, <2>4, <3>2, <3>3
  <2>5. CASE q # r
    <3>1. Acc!SentTo(q)' = Acc!SentTo(q)
      BY <2>2, <2>5, ConcatEmptySeq
    <3>. QED BY <1>3, <2>1, <2>5, <3>1
  <2>. QED BY <2>4, <2>5
<1>. QED
  BY <1>1, <1>6, <1>7, <1>8, <1>9, <1>10 DEF RInv

(* The worker thread keeps the invariant; a pass after should_stop leaves  *)
(* nothing to the nodes it has visited (worker_main).                      *)
LEMMA WorkerKeepsInv ==
  ASSUME RInv, WorkerStep
  PROVE  RInv'
<1>1. toVisit \subseteq nodes /\ nodes \subseteq Recipients /\ closing \in BOOLEAN
  BY DEF RInv, ReportsTyped
<1>2. ASSUME NEW late \in BOOLEAN, Acc!StartPass(late) PROVE RInv'
  BY <1>1, <1>2, QuietWorkerKeepsInv
     DEF RInv, WorkerStep, Acc!StartPass, BuffersVisited, StopOrder, Acc!WorkerStates, vars
<1>3. ASSUME NEW r \in toVisit, Acc!Visit(r) PROVE RInv'
  <2>1. CASE Acc!Due(r)
    BY <1>3, <2>1, SendKeepsInv DEF WorkerStep, Acc!Visit, Acc!Rest
  <2>2. CASE ~ Acc!Due(r)
    <3>1. /\ UNCHANGED <<buffer, sent, minor, nodes, worker, closing, added>>
          /\ toVisit' = toVisit \ {r}
          /\ UNCHANGED <<vars, recipient, author, plugin>>
      BY <1>3, <2>2 DEF WorkerStep, Acc!Visit, Acc!Rest
    <3>2. worker = "last" => buffer[r] = << >>
      BY <2>2 DEF Acc!Due
    <3>3. worker # "done"
      BY <1>3 DEF Acc!Visit
    <3>4. BuffersVisited'
      BY <1>1, <3>1, <3>2, <3>3 DEF RInv, BuffersVisited
    <3>5. StopOrder'
      BY <3>1 DEF RInv, StopOrder, vars
    <3>6. toVisit' \subseteq nodes /\ worker' \in Acc!WorkerStates /\ closing' \in BOOLEAN
      BY <1>1, <3>1 DEF RInv, ReportsTyped
    <3>. QED BY <3>1, <3>4, <3>5, <3>6, QuietWorkerKeepsInv
  <2>. QED BY <2>1, <2>2
<1>4. CASE Acc!EndPass
  BY <1>1, <1>4, QuietWorkerKeepsInv
     DEF RInv, WorkerStep, Acc!EndPass, BuffersVisited, StopOrder, Acc!WorkerStates, vars
<1>5. CASE Acc!StartLastPass
  BY <1>1, <1>5, QuietWorkerKeepsInv
     DEF RInv, WorkerStep, Acc!StartLastPass, BuffersVisited, StopOrder, Acc!WorkerStates, vars
<1>6. CASE Acc!EndLastPass
  BY <1>1, <1>6, QuietWorkerKeepsInv
     DEF RInv, WorkerStep, Acc!EndLastPass, BuffersVisited, StopOrder, Acc!WorkerStates, vars
<1>. QED
  BY <1>2, <1>3, <1>4, <1>5, <1>6 DEF WorkerStep, Acc!Worker

(* plugin_stop keeps the invariant: the runner has ended before the        *)
(* accumulator is told to stop, and its worker before it returns.          *)
LEMMA PluginKeepsInv ==
  ASSUME RInv, StopPlugin \/ PluginStop
  PROVE  RInv'
<1>0. runner = "done" /\ [Next]_vars => runner' = "done"
  BY RanGrows DEF RInv
<1>1. CASE StopPlugin
  BY <1>1, QueueStepKeepsInv DEF RInv, StopPlugin, StopOrder, PluginSteps, vars, stats, accumulator
<1>2. CASE SourceDestroyed
  BY <1>2, QueueStepKeepsInv DEF RInv, SourceDestroyed, GoOn, Following, StopOrder, PluginSteps,
     vars, stats, accumulator
<1>3. CASE TellQueue
  <2>1. Next /\ plugin = "queue" /\ plugin' = "queue"
        /\ UNCHANGED <<accumulator, recipient, author, jobsPushed>>
    BY <1>3 DEF TellQueue, Stop, Next, stats
  <2>2. StopOrder'
    BY <2>1 DEF RInv, StopOrder, accumulator
  <2>. QED BY <2>1, <2>2, QueueStepKeepsInv DEF PluginSteps
<1>4. CASE QueueDestroyed
  BY <1>4, QueueStepKeepsInv DEF RInv, QueueDestroyed, RunnerJoined, GoOn, Following, StopOrder,
     PluginSteps, vars, stats, accumulator
<1>5. CASE PoolDestroyed
  BY <1>5, QueueStepKeepsInv DEF RInv, PoolDestroyed, GoOn, Following, StopOrder, PluginSteps,
     vars, stats, accumulator
<1>6. CASE TellAccumulator
  BY <1>6, QuietWorkerKeepsInv DEF RInv, ReportsTyped, TellAccumulator, Acc!Stop, Acc!Unlocked,
     BuffersVisited, StopOrder, vars
<1>7. CASE AccumulatorDestroyed
  BY <1>7, QueueStepKeepsInv DEF RInv, AccumulatorDestroyed, GoOn, Following, StopOrder,
     PluginSteps, vars, stats, accumulator
<1>. QED
  BY <1>1, <1>2, <1>3, <1>4, <1>5, <1>6, <1>7 DEF PluginStop

(* Every step keeps the invariant.                                         *)
LEMMA StepRInv == RInv /\ [AllNext]_all => RInv'
<1> SUFFICES ASSUME RInv, [AllNext]_all PROVE RInv'
  OBVIOUS
<1>1. ASSUME NEW r \in Recipients, JobFor(r) PROVE RInv'
  BY <1>1, JobForKeepsInv
<1>2. CASE CallbackIsSet
  BY <1>2, QueueStepKeepsInv DEF RInv, ReportsTyped, CallbackIsSet, SetCallback, Next, StopOrder,
     stats, accumulator
<1>3. ASSUME NEW sz \in ReportSizes, Report(sz) PROVE RInv'
  BY <1>3, ReportKeepsInv
<1>4. CASE RunnerStep
  <2>1. Next /\ UNCHANGED <<accumulator, recipient, author, plugin, jobsPushed>>
    BY <1>4 DEF RunnerStep, Next, Runner, CallBack, TakeJob, FinishJob, CountJob, RunnerEnds, stats
  <2>2. StopOrder'
    BY <2>1, RanGrows DEF RInv, StopOrder, accumulator
  <2>. QED BY <2>1, <2>2, QueueStepKeepsInv DEF RInv, ReportsTyped
<1>5. CASE WorkerStep
  BY <1>5, WorkerKeepsInv
<1>6. CASE StopPlugin \/ PluginStop
  BY <1>6, PluginKeepsInv
<1>7. CASE UNCHANGED all
  BY <1>7, QueueStepKeepsInv DEF RInv, ReportsTyped, StopOrder, all, vars, stats, accumulator
<1>. QED
  BY <1>1, <1>2, <1>3, <1>4, <1>5, <1>6, <1>7 DEF AllNext, Stopped

(* The invariant holds of everything the plugin can do.                    *)
THEOREM RInvHolds == AllSpec => []RInv
<1> QED BY InitRInv, StepRInv, PTL DEF AllSpec

(* The queue between plugin_start and plugin_stop is the queue of JobQueue,*)
(* so that what is proved of that holds here too.                          *)
THEOREM PluginRunsQueue == AllSpec => Spec
<1>1. AllInit => Init
  BY DEF AllInit
<1>2. ASSUME [AllNext]_all PROVE [Next]_vars
  BY <1>2 DEF AllNext, JobFor, CallbackIsSet, Report, RunnerStep, WorkerStep, StopPlugin,
     PluginStop, SourceDestroyed, TellQueue, QueueDestroyed, PoolDestroyed, TellAccumulator,
     AccumulatorDestroyed, Stopped, all, Next
<1> QED BY <1>1, <1>2, PTL DEF AllSpec, Spec

(* What the jobs find reaches its recipient in the order of the pushes,    *)
(* each report once, and all of it before plugin_stop returns; no job      *)
(* meets an accumulator that is being destroyed (file_plugin.c,            *)
(* job_queue.c, accumulator.c).                                            *)
THEOREM JobsReportInOrder == AllSpec => []JobsReported
<1>1. RInv => JobsReported
  <2> SUFFICES ASSUME RInv PROVE JobsReported
    OBVIOUS
  <2>1. plugin = "stopped" => \A r \in Recipients : buffer[r] = << >>
    BY DEF RInv, StopOrder, BuffersVisited
  <2>2. runner = "run" => ~ closing
    BY DEF RInv, StopOrder
  <2>. QED BY <2>1, <2>2 DEF RInv, AuthorsRan, Delivered, JobsReported
<1> QED BY <1>1, RInvHolds, PTL

-----------------------------------------------------------------------------
(* What every recipient has, as the outbox sees it.                        *)
Delivery == [r \in Recipients |-> Acc!SentTo(r)]

(* An accumulator that was just created is an empty outbox.                *)
LEMMA InitOutbox ==
  ASSUME AllInit
  PROVE  Acc!Box!Init
<1>1. \A q \in Recipients : Acc!SentTo(q) = << >>
  BY SendsNothing DEF AllInit, Acc!Init
<1>. QED
  BY <1>1 DEF AllInit, Acc!Init, Acc!Box!Init

(* A report is added to an outbox that is open.                            *)
LEMMA AddsToOutbox ==
  ASSUME RInv, NEW sz \in ReportSizes, Report(sz)
  PROVE  Acc!Box!Next
<1> DEFINE r == recipient[running[1]]
<1>1. running[1] \in 1 .. jobsPushed
  BY RunningIsNext DEF RInv, Report
<1>2. r \in Recipients
  <2>1. recipient \in Seq(Recipients) /\ Len(recipient) = jobsPushed
    BY DEF RInv, ReportsTyped
  <2>. QED BY <1>1, <2>1, ElementOfSeq
<1>3. added + 1 \in 1 .. MaxReports
  BY ReportsAssumption DEF RInv, ReportsTyped, Report, Acc!AddMessage
<1>4. (worker = "done") = FALSE /\ (worker = "done")' = FALSE
  BY DEF RInv, BuffersVisited, Report, Acc!AddMessage
<1>5. Acc!Box!Add(r, added + 1)
  BY <1>4 DEF Report, Acc!AddMessage, Acc!Box!Add, Acc!SentTo
<1>. QED
  BY <1>2, <1>3, <1>5 DEF Acc!Box!Next

(* A buffer that is sent is delivered as a whole.                          *)
LEMMA DeliversFromOutbox ==
  ASSUME RInv, NEW r \in toVisit, Acc!Visit(r), Acc!Due(r)
  PROVE  Acc!Box!Next
<1>1. Acc!Send(r) /\ buffer[r] # << >> /\ worker' = worker /\ worker # "done"
  BY DEF Acc!Visit, Acc!Due
<1>2. r \in Recipients /\ buffer \in [Recipients -> Seq(Nat)]
  BY DEF RInv, ReportsTyped
<1>3. \A q \in Recipients :
        /\ Acc!SentTo(q) \in Seq(Nat)
        /\ Acc!SentTo(q)' = Acc!SentTo(q) \o (IF r = q THEN buffer[r] ELSE << >>)
  BY <1>1, <1>2, SendDelivers DEF RInv
<1>4. \A q \in Recipients \ {r} : Acc!SentTo(q)' = Acc!SentTo(q)
  BY <1>3, ConcatEmptySeq
<1>5. Delivery' = [Delivery EXCEPT ![r] = @ \o buffer[r]]
  BY <1>2, <1>3, <1>4 DEF Delivery
<1>6. Acc!Box!Deliver(r)
  BY <1>1, <1>5 DEF Acc!Send, Acc!Box!Deliver, Delivery
<1>. QED
  BY <1>2, <1>6 DEF Acc!Box!Next

(* The worker ends with every buffer sent: the outbox closes empty.        *)
LEMMA ClosesOutbox ==
  ASSUME RInv, Acc!EndLastPass
  PROVE  Acc!Box!Next
<1>1. \A r \in Recipients : buffer[r] = << >>
  BY DEF RInv, BuffersVisited, Acc!EndLastPass
<1>2. Acc!Box!Close
  BY <1>1 DEF Acc!EndLastPass, Acc!Box!Close, Acc!SentTo
<1>. QED
  BY <1>2 DEF Acc!Box!Next

(* A step of the plugin is a step of the outbox, or none.                  *)
LEMMA StepsOutbox ==
  ASSUME RInv, [AllNext]_all
  PROVE  [Acc!Box!Next]_(Acc!Box!vars)
<1>1. CASE UNCHANGED <<buffer, sent>> /\ (worker' = "done") = (worker = "done")
  BY <1>1 DEF Acc!Box!vars, Acc!SentTo
<1>2. ASSUME NEW sz \in ReportSizes, Report(sz) PROVE Acc!Box!Next
  BY <1>2, AddsToOutbox
<1>3. CASE WorkerStep
  <2>1. ASSUME NEW r \in toVisit, Acc!Visit(r), Acc!Due(r) PROVE Acc!Box!Next
    BY <2>1, DeliversFromOutbox
  <2>2. ASSUME NEW r \in toVisit, Acc!Visit(r), ~ Acc!Due(r)
        PROVE  UNCHANGED <<buffer, sent, worker>>
    BY <2>2 DEF Acc!Visit
  <2>3. ASSUME NEW late \in BOOLEAN, Acc!StartPass(late)
        PROVE  UNCHANGED <<buffer, sent>> /\ worker # "done" /\ worker' # "done"
    BY <2>3 DEF Acc!StartPass
  <2>4. Acc!EndPass \/ Acc!StartLastPass
          => UNCHANGED <<buffer, sent>> /\ worker # "done" /\ worker' # "done"
    BY DEF Acc!EndPass, Acc!StartLastPass
  <2>5. Acc!EndLastPass => Acc!Box!Next
    BY ClosesOutbox
  <2>. QED BY <1>1, <1>3, <2>1, <2>2, <2>3, <2>4, <2>5 DEF WorkerStep, Acc!Worker
<1>4. ASSUME NEW r \in Recipients, JobFor(r) PROVE UNCHANGED <<buffer, sent, worker>>
  BY <1>4 DEF JobFor, accumulator
<1>5. CallbackIsSet \/ RunnerStep \/ StopPlugin \/ PluginStop \/ Stopped \/ UNCHANGED all
        => UNCHANGED <<buffer, sent, worker>>
  BY DEF CallbackIsSet, RunnerStep, StopPlugin, PluginStop, SourceDestroyed, TellQueue,
     QueueDestroyed, PoolDestroyed, TellAccumulator, Acc!Stop, AccumulatorDestroyed, Stopped,
     all, accumulator
<1>. QED
  BY <1>1, <1>2, <1>3, <1>4, <1>5 DEF AllNext

(* The accumulator between the job queue and the agent implements the      *)
(* outbox, whenever jobs report and plugin_stop is called: nothing is      *)
(* lost, repeated or reordered on the way to one recipient, and nothing is *)
(* left behind (accumulator.c).                                            *)
THEOREM AccumulatorImplementsOutbox == AllSpec => ImplementsOutbox
<1>1. AllInit => Acc!Box!Init
  BY InitOutbox
<1>2. RInv /\ [AllNext]_all => [Acc!Box!Next]_(Acc!Box!vars)
  BY StepsOutbox
<1> QED BY <1>1, <1>2, RInvHolds, PTL DEF AllSpec, ImplementsOutbox, Acc!ImplementsOutbox, Acc!Box!Spec


-----------------------------------------------------------------------------
(* The pool of state databases, which the jobs use.                       *)

(* The time in a node is the time of the last job that used it.            *)
TimesKept ==
  /\ \A c \in Open : pool[c] = usedAt[c] /\ usedAt[c] # 0
  /\ \A c \in Configs : usedAt[c] <= now

(* Time starts at 1, and no more databases are open than jobs asked for.   *)
Started == now # 0 /\ IsFiniteSet(Open) /\ (up \/ Open = {})

(* A database that is open has its file.                                   *)
OpenFilesExist == Open \subseteq Files

PoolInv ==
  /\ PoolTypeOK /\ TimesKept /\ Started /\ OpenFilesExist
  /\ PoolBounded /\ Retained /\ LastUsedStayOpen

-----------------------------------------------------------------------------
(* A pool that is not empty has exactly one oldest node.                   *)
LEMMA OneOldest ==
  ASSUME PoolTypeOK, Open # {}
  PROVE  \E c \in Open : Oldest(c) /\ {d \in Open : Oldest(d)} = {c}
<1> DEFINE times == {pool[c] : c \in Open}
<1>1. times \in SUBSET Nat /\ times # {}
  BY DEF PoolTypeOK
<1>2. PICK t \in times : \A u \in times : t <= u
  BY <1>1, NatMinimum
<1> DEFINE first == {c \in Open : pool[c] = t}
<1>3. first \in SUBSET Nat /\ first # {}
  BY PoolAssumption DEF PoolTypeOK
<1>4. PICK c \in first : \A d \in first : c <= d
  BY <1>3, NatMinimum
<1>5. \A d \in Open : pool[d] \in Nat /\ d \in Nat
  BY PoolAssumption DEF PoolTypeOK
<1>6. Oldest(c)
  BY <1>2, <1>4, <1>5 DEF Oldest
<1>7. ASSUME NEW d \in Open, Oldest(d) PROVE d = c
  BY <1>6, <1>7, <1>5 DEF Oldest
<1> QED BY <1>6, <1>7

(* The empty pool of a process that starts or is gone.                     *)
LEMMA EmptyPool == DOMAIN << >> = {} /\ IsFiniteSet({}) /\ Cardinality({}) = 0
BY FS_EmptySet

(* A pool just made is empty (state_db_pool.c:31).                         *)
THEOREM PoolInitInv == PoolInit => PoolInv
<1> SUFFICES ASSUME PoolInit PROVE PoolInv
  OBVIOUS
<1>1. Open = {} /\ Files = {}
  BY EmptyPool DEF PoolInit, Open, Files
<1> QED
  BY <1>1, EmptyPool, PoolAssumption
  DEF PoolInit, PoolInv, PoolTypeOK, TimesKept, Started, PoolBounded, Retained,
      LastUsedStayOpen, OpenFilesExist, NoJob

-----------------------------------------------------------------------------
(* What a get leaves open: a full pool gives up one database, another not. *)
LEMMA GetKeepsBound ==
  ASSUME PoolInv, NEW c \in Configs, c \notin Open
  PROVE  LET left == (Open \ Victims) \union {c}
             size == count - Cardinality(Victims) + 1
         IN  /\ IsFiniteSet(left)
             /\ size \in Nat /\ size = Cardinality(left)
             /\ size <= MaxDbs \/ size = 1
<1> DEFINE left == (Open \ Victims) \union {c}
<1> DEFINE size == count - Cardinality(Victims) + 1
<1>1. /\ IsFiniteSet(Open) /\ count = Cardinality(Open) /\ count \in Nat
      /\ MaxDbs \in Nat /\ (count <= MaxDbs \/ count = 1)
  BY PoolAssumption DEF PoolInv, PoolBounded, Started, PoolTypeOK
<1>2. CASE ~Full \/ Open = {}
  <2>1. Victims = {}
    BY <1>2 DEF Victims
  <2>2. Cardinality(Victims) = 0
    BY <2>1, FS_EmptySet
  <2>3. left = Open \union {c}
    BY <2>1
  <2>4. IsFiniteSet(left) /\ Cardinality(left) = Cardinality(Open) + 1
    BY <1>1, <2>3, FS_AddElement
  <2>5. count < MaxDbs \/ count = 0
    BY <1>1, <1>2, FS_EmptySet DEF Full
  <2> QED BY <1>1, <2>2, <2>4, <2>5
<1>3. CASE Full /\ Open # {}
  <2>1. PICK o \in Open : Victims = {o}
    BY <1>3, OneOldest DEF PoolInv, Victims
  <2>2. Cardinality(Victims) = 1
    BY <2>1, FS_Singleton
  <2>3. IsFiniteSet(Open \ {o}) /\ Cardinality(Open \ {o}) = Cardinality(Open) - 1
    BY <1>1, FS_RemoveElement
  <2>4. IsFiniteSet(left) /\ Cardinality(left) = Cardinality(Open \ {o}) + 1
    BY <2>1, <2>3, FS_AddElement
  <2> QED BY <1>1, <2>2, <2>3, <2>4
<1> QED BY <1>2, <1>3

(* What is left of the pool when a configuration is removed.               *)
LEMMA RemoveKeepsBound ==
  ASSUME PoolInv, NEW c \in Configs, Counted(c)
  PROVE  /\ IsFiniteSet(Open \ {c})
         /\ count' \in Nat /\ count' = Cardinality(Open \ {c})
         /\ count' <= MaxDbs \/ count' = 1
<1>1. /\ IsFiniteSet(Open) /\ count = Cardinality(Open) /\ count \in Nat
      /\ MaxDbs \in Nat /\ (count <= MaxDbs \/ count = 1)
  BY PoolAssumption DEF PoolInv, PoolBounded, Started, PoolTypeOK
<1>2. IsFiniteSet(Open \ {c}) /\ Cardinality(Open \ {c}) \in Nat
  BY <1>1, FS_RemoveElement, FS_CardinalityType
<1>3. Cardinality(Open \ {c}) = IF c \in Open THEN count - 1 ELSE count
  BY <1>1, FS_RemoveElement
<1> QED BY <1>1, <1>2, <1>3 DEF Counted

-----------------------------------------------------------------------------
(* Whoever asks for a database asks later than everybody before.           *)
LEMMA ClockAdvances ==
  ASSUME PoolInv, Tick
  PROVE  now' \in Nat /\ now <= now' /\ now' # 0
BY PoolAssumption DEF PoolInv, PoolTypeOK, Started, Tick

LEMMA GetOpenKeepsInv ==
  ASSUME PoolInv, NEW c \in Configs, GetOpen(c)
  PROVE  PoolInv'
<1>1. now' \in Nat /\ now <= now' /\ now' # 0
  BY ClockAdvances DEF GetOpen, StartJob
<1>2. Open' = Open /\ pool' = [pool EXCEPT ![c] = now']
  BY DEF GetOpen, Touched, Open
<1>3. usedAt' = [usedAt EXCEPT ![c] = now'] /\ UNCHANGED <<count, files, up, stored>>
  BY DEF GetOpen, StartJob
<1> USE <1>1, <1>2, <1>3 DEF PoolInv
<1>4. PoolTypeOK'
  BY DEF PoolTypeOK, GetOpen, StartJob, Files, Open
<1>5. TimesKept' /\ Started'
  <2>1. \A d \in Open : pool'[d] = IF d = c THEN now' ELSE pool[d]
    BY DEF Open
  <2>2. \A d \in Configs : usedAt'[d] = IF d = c THEN now' ELSE usedAt[d]
    BY DEF PoolTypeOK
  <2>3. now \in Nat /\ usedAt \in [Configs -> Nat] /\ Open \subseteq Configs
    BY DEF PoolTypeOK
  <2>4. TimesKept'
    BY <2>1, <2>2, <2>3 DEF TimesKept
  <2> QED BY <2>4 DEF Started
<1>6. PoolBounded'
  BY DEF PoolBounded
<1>7. Retained' /\ OpenFilesExist'
  BY DEF Retained, OpenFilesExist, Files
<1>8. LastUsedStayOpen'
  <2>1. \A d \in Configs : usedAt'[d] = IF d = c THEN now' ELSE usedAt[d]
    BY DEF PoolTypeOK
  <2>2. \A d \in Configs : usedAt[d] \in Nat /\ usedAt[d] <= now /\ now \in Nat
    BY DEF PoolTypeOK, TimesKept
  <2>3. c \in Open /\ Open \subseteq Configs
    BY DEF GetOpen, PoolTypeOK
  <2> QED BY <2>1, <2>2, <2>3 DEF LastUsedStayOpen
<1> QED BY <1>4, <1>5, <1>6, <1>7, <1>8

LEMMA GetClosedKeepsInv ==
  ASSUME PoolInv, NEW c \in Configs, GetClosed(c)
  PROVE  PoolInv'
<1>1. now' \in Nat /\ now <= now' /\ now' # 0
  BY ClockAdvances DEF GetClosed, StartJob
<1>2. /\ Open' = (Open \ Victims) \union {c}
      /\ \A d \in Open' : pool'[d] = IF d = c THEN now' ELSE pool[d]
  BY DEF GetClosed, Open
<1>3. /\ IsFiniteSet(Open') /\ count' \in Nat /\ count' = Cardinality(Open')
      /\ count' <= MaxDbs \/ count' = 1
  BY <1>2, GetKeepsBound DEF GetClosed
<1>4. /\ Files' = Files \union {c}
      /\ \A d \in Files' : files'[d] = IF d \in Files THEN files[d] ELSE {}
  BY DEF GetClosed, WithFile, KeptFiles, Files
<1>5. /\ \A d \in Configs : usedAt'[d] = IF d = c THEN now' ELSE usedAt[d]
      /\ usedAt' \in [Configs -> Nat]
      /\ UNCHANGED <<up, stored>>
  BY <1>1 DEF GetClosed, StartJob, PoolInv, PoolTypeOK
<1>6. /\ now \in Nat /\ Open \subseteq Configs /\ Files \subseteq Configs
      /\ \A d \in Configs : usedAt[d] \in Nat /\ usedAt[d] <= now
      /\ \A d \in Open : pool[d] \in Nat /\ pool[d] = usedAt[d] /\ usedAt[d] # 0
  BY DEF PoolInv, PoolTypeOK, TimesKept
<1>7. PoolTypeOK'
  <2>1. \A d \in Open' : pool'[d] \in Nat
    BY <1>1, <1>2, <1>6
  <2>2. \A d \in Files' : files'[d] \subseteq Elements
    BY <1>4 DEF PoolInv, PoolTypeOK
  <2> QED BY <1>1, <1>2, <1>3, <1>4, <1>5, <1>6, <2>1, <2>2
          DEF PoolInv, PoolTypeOK, GetClosed, StartJob
<1>8. TimesKept'
  BY <1>1, <1>2, <1>5, <1>6 DEF TimesKept
<1>9. Started' /\ PoolBounded'
  BY <1>1, <1>3, <1>5 DEF Started, PoolBounded, GetClosed, StartJob
<1>10. Retained' /\ OpenFilesExist'
  BY <1>2, <1>4, <1>5 DEF PoolInv, Retained, OpenFilesExist
<1>11. LastUsedStayOpen'
  <2> SUFFICES ASSUME NEW a \in Open', NEW d \in Configs \ Open', usedAt'[d] # 0
               PROVE  usedAt'[d] <= usedAt'[a]
    BY DEF LastUsedStayOpen
  <2>1. d # c /\ usedAt'[d] = usedAt[d] /\ usedAt[d] # 0
    BY <1>2, <1>5
  <2>2. CASE a = c
    BY <1>1, <1>5, <1>6, <2>1, <2>2
  <2>3. CASE a # c
    <3>1. a \in Open /\ usedAt'[a] = usedAt[a]
      BY <1>2, <1>5, <1>6, <2>3
    <3>2. CASE d \in Victims
      BY <1>6, <2>1, <3>1, <3>2 DEF Victims, Oldest
    <3>3. CASE d \notin Victims
      BY <1>2, <2>1, <3>1, <3>3 DEF PoolInv, LastUsedStayOpen
    <3> QED BY <3>2, <3>3
  <2> QED BY <2>2, <2>3
<1> QED BY <1>7, <1>8, <1>9, <1>10, <1>11 DEF PoolInv

LEMMA RemoveKeepsInv ==
  ASSUME PoolInv, NEW c \in Configs, RemoveFromPool(c)
  PROVE  PoolInv'
<1>1. /\ Open' = Open \ {c}
      /\ \A d \in Open' : pool'[d] = pool[d]
  BY DEF RemoveFromPool, Open
<1>2. /\ IsFiniteSet(Open') /\ count' \in Nat /\ count' = Cardinality(Open')
      /\ count' <= MaxDbs \/ count' = 1
  BY <1>1, RemoveKeepsBound DEF RemoveFromPool
<1>3. /\ Files' \subseteq Files
      /\ \A d \in Files' : files'[d] = files[d]
      /\ \A d \in Files : d # c => d \in Files'
  BY DEF RemoveFromPool, Files
<1>4. /\ \A d \in Configs : usedAt'[d] = IF d = c THEN 0 ELSE usedAt[d]
      /\ \A d \in Configs : stored'[d] = IF d = c THEN {} ELSE stored[d]
      /\ usedAt' \in [Configs -> Nat] /\ stored' \in [Configs -> SUBSET Elements]
      /\ up /\ UNCHANGED <<up, job, now>>
  BY DEF RemoveFromPool, PoolInv, PoolTypeOK
<1>5. PoolTypeOK'
  BY <1>1, <1>2, <1>3, <1>4 DEF PoolInv, PoolTypeOK
<1>6. TimesKept'
  BY <1>1, <1>4 DEF PoolInv, PoolTypeOK, TimesKept
<1>7. Started' /\ PoolBounded'
  BY <1>2, <1>4 DEF PoolInv, Started, PoolBounded
<1>8. Retained' /\ OpenFilesExist'
  BY <1>1, <1>3, <1>4 DEF PoolInv, Retained, OpenFilesExist
<1>9. LastUsedStayOpen'
  BY <1>1, <1>4 DEF PoolInv, PoolTypeOK, LastUsedStayOpen
<1> QED BY <1>5, <1>6, <1>7, <1>8, <1>9 DEF PoolInv

LEMMA StoreKeepsInv ==
  ASSUME PoolInv, NEW rows \in SUBSET Elements, Store(rows)
  PROVE  PoolInv'
<1>1. /\ job \in Configs /\ Files' = Files
      /\ \A d \in Files : files'[d] = IF d = job THEN rows ELSE files[d]
      /\ \A d \in Configs : stored'[d] = IF d = job THEN rows ELSE stored[d]
      /\ stored' \in [Configs -> SUBSET Elements]
      /\ UNCHANGED <<pool, count, up, job, now, usedAt>>
  BY DEF Store, PoolInv, PoolTypeOK, Files
<1>2. Open' = Open
  BY <1>1 DEF Open
<1>3. PoolTypeOK'
  BY <1>1, <1>2 DEF PoolInv, PoolTypeOK
<1>4. TimesKept' /\ Started' /\ PoolBounded' /\ LastUsedStayOpen'
  BY <1>1, <1>2 DEF PoolInv, TimesKept, Started, PoolBounded, LastUsedStayOpen
<1>5. Retained' /\ OpenFilesExist'
  BY <1>1, <1>2 DEF PoolInv, Retained, OpenFilesExist, Store
<1> QED BY <1>3, <1>4, <1>5 DEF PoolInv

LEMMA GoDownKeepsInv ==
  ASSUME PoolInv, GoDown
  PROVE  PoolInv'
<1>1. Open' = {} /\ Files' = Files /\ count' = 0
  BY EmptyPool DEF GoDown, Open, Files
<1>2. /\ \A d \in Configs : usedAt'[d] = 0
      /\ usedAt' \in [Configs -> Nat]
      /\ up' = FALSE /\ job' = NoJob /\ UNCHANGED <<files, now, stored>>
  BY DEF GoDown
<1>3. PoolTypeOK'
  <2>1. Open' \subseteq Configs /\ (\A c \in Open' : pool'[c] \in Nat) /\ count' \in Nat
    BY <1>1
  <2>2. Files' \subseteq Configs /\ (\A c \in Files' : files'[c] \subseteq Elements)
    BY <1>1, <1>2 DEF PoolInv, PoolTypeOK
  <2>3. up' \in BOOLEAN /\ job' \in Configs \union {NoJob} /\ now' \in Nat
    BY <1>2 DEF PoolInv, PoolTypeOK
  <2>4. stored' \in [Configs -> SUBSET Elements]
    BY <1>2 DEF PoolInv, PoolTypeOK
  <2> QED BY <1>2, <2>1, <2>2, <2>3, <2>4 DEF PoolTypeOK
<1>4. TimesKept' /\ Started'
  <2>1. now' = now /\ now \in Nat /\ now # 0
    BY <1>2 DEF PoolInv, PoolTypeOK, Started
  <2>2. TimesKept'
    BY <1>1, <1>2, <2>1 DEF TimesKept
  <2> QED BY <1>1, <2>1, <2>2, EmptyPool DEF Started
<1>5. PoolBounded'
  BY <1>1, EmptyPool, PoolAssumption DEF PoolBounded
<1>6. Retained' /\ LastUsedStayOpen' /\ OpenFilesExist'
  BY <1>1, <1>2 DEF PoolInv, Retained, LastUsedStayOpen, OpenFilesExist
<1> QED BY <1>3, <1>4, <1>5, <1>6 DEF PoolInv

LEMMA PoolUntouched ==
  ASSUME PoolInv, UNCHANGED <<pool, count, files, now, history>>,
         job' \in Configs \union {NoJob}, up' \in BOOLEAN, up' \/ UNCHANGED up
  PROVE  PoolInv'
<1>1. Open' = Open /\ Files' = Files
  BY DEF Open, Files
<1> QED
  BY <1>1 DEF PoolInv, PoolTypeOK, TimesKept, Started, PoolBounded, Retained,
              LastUsedStayOpen, OpenFilesExist, history

-----------------------------------------------------------------------------
(* Every step of the pool, of the jobs and of the plugin keeps PoolInv.    *)
THEOREM PoolStepKeepsInv == PoolInv /\ [PoolNext]_poolVars => PoolInv'
<1> SUFFICES ASSUME PoolInv, [PoolNext]_poolVars PROVE PoolInv'
  OBVIOUS
<1>1. CASE \E c \in Configs : GetOpen(c)
  BY <1>1, GetOpenKeepsInv
<1>2. CASE \E c \in Configs : GetClosed(c)
  BY <1>2, GetClosedKeepsInv
<1>3. CASE \E c \in Configs : GetFails(c)
  BY <1>3, GoDownKeepsInv DEF GetFails
<1>4. CASE \E c \in Configs : RemoveFromPool(c)
  BY <1>4, RemoveKeepsInv
<1>5. CASE \E rows \in SUBSET Elements : Store(rows)
  BY <1>5, StoreKeepsInv
<1>6. CASE StoreClosed
  <2>1. CASE UNCHANGED poolVars
    BY <2>1, PoolUntouched DEF poolVars, PoolInv, PoolTypeOK
  <2>2. CASE GoDown
    BY <2>2, GoDownKeepsInv
  <2> QED BY <1>6, <2>1, <2>2 DEF StoreClosed
<1>7. CASE EndJob
  BY <1>7, PoolUntouched DEF EndJob, PoolInv, PoolTypeOK
<1>8. CASE StopPool
  BY <1>8, GoDownKeepsInv DEF StopPool
<1>9. CASE Crash
  BY <1>9, GoDownKeepsInv DEF Crash
<1>10. CASE Start
  BY <1>10, PoolUntouched DEF Start, PoolInv, PoolTypeOK
<1>11. CASE UNCHANGED poolVars
  BY <1>11, PoolUntouched DEF poolVars, PoolInv, PoolTypeOK
<1> QED
  BY <1>1, <1>2, <1>3, <1>4, <1>5, <1>6, <1>7, <1>8, <1>9, <1>10, <1>11 DEF PoolNext

(* The invariant of the pool holds throughout: what is in the pool, what is*)
(* open and the times agree (state_db_pool.c).                             *)
THEOREM PoolInvHolds == PoolSpec => []PoolInv
<1> QED BY PoolInitInv, PoolStepKeepsInv, PTL DEF PoolSpec

(* The types of the pool, its files and the job that runs.                 *)
THEOREM PoolTypeCorrect == PoolSpec => []PoolTypeOK
<1>1. PoolInv => PoolTypeOK
  BY DEF PoolInv
<1> QED BY <1>1, PoolInvHolds, PTL

(* state_db_pool_size is the number of open databases and at most the      *)
(* maximum (or one), for any configurations, times and removals.           *)
THEOREM PoolIsBounded == PoolSpec => []PoolBounded
<1>1. PoolInv => PoolBounded
  BY DEF PoolInv
<1> QED BY <1>1, PoolInvHolds, PTL

(* Rows stay in their files until the configuration is removed.            *)
THEOREM PoolRetains == PoolSpec => []Retained
<1>1. PoolInv => Retained
  BY DEF PoolInv
<1> QED BY <1>1, PoolInvHolds, PTL

(* Only the database that was used longest ago is closed to make room.     *)
THEOREM PoolClosesOldest == PoolSpec => []LastUsedStayOpen
<1>1. PoolInv => LastUsedStayOpen
  BY DEF PoolInv
<1> QED BY <1>1, PoolInvHolds, PTL

=============================================================================
