------------------------- MODULE DataPipelineProofs -------------------------
(***************************************************************************)
(* The job runner for every finite set of jobs, every set of permits and   *)
(* every list limit, and the figures for every stream of orders and every  *)
(* series of numbers.                                                      *)
(*                                                                         *)
(* The run's three invariants of the runner are inductive together: that a *)
(* job with a running handler is not pending is what keeps an early        *)
(* cancellation honoured.                                                  *)
(*                                                                         *)
(* The figures' invariants follow from the type of the stream and of the   *)
(* series by what the operators compute.  Sums and concatenations are      *)
(* recursive functions of the community modules: a claim about them goes   *)
(* by induction over the subsets of a finite set or over an interval, from *)
(* the well-founded order of the library, for the set of those that        *)
(* satisfy it.                                                             *)
(***************************************************************************)
EXTENDS JobRunner, Analytics, FiniteSetTheorems, SequenceTheorems, TLAPS

RunnerInv == RunnerTypeOK /\ RunningIsExecuting /\ EarlyCancelHonoured

-----------------------------------------------------------------------------
LEMMA InitRunnerInv == RunnerInit => RunnerInv
  BY RunnerAssumption
  DEF RunnerInit, RunnerInv, RunnerTypeOK, RunningIsExecuting, EarlyCancelHonoured, Executing,
      RUNNING, Absent

LEMMA JobCountIsNat == Cardinality({k \in Jobs : status[k] # Absent}) \in Nat
  BY RunnerAssumption, FS_Subset, FS_CardinalityType

(* The API: a job is created, or its cancel event is set.                  *)
LEMMA ApiSteps ==
    ASSUME RunnerInv, NEW j \in Jobs, CreateJob(j) \/ CancelJob(j)
    PROVE  RunnerInv'
<1> USE DEF RunnerInv
<1>1. CASE CreateJob(j)
  <2>1. \A k \in Jobs : Executing(k)' <=> Executing(k)
    BY <1>1 DEF CreateJob, Executing
  <2>2. RunnerTypeOK'
    BY <1>1, JobCountIsNat DEF CreateJob, RunnerTypeOK
  <2>3. ~Executing(j) /\ j \notin early
    BY <1>1 DEF CreateJob, RunningIsExecuting, EarlyCancelHonoured, Absent, PENDING, CANCELLED
  <2>4. RunningIsExecuting'
    BY <1>1, <2>1, <2>3 DEF CreateJob, RunnerTypeOK, RunningIsExecuting, PENDING, RUNNING
  <2>5. EarlyCancelHonoured'
    BY <1>1, <2>1, <2>3 DEF CreateJob, RunnerTypeOK, EarlyCancelHonoured
  <2> QED
    BY <2>2, <2>4, <2>5
<1>2. CASE CancelJob(j)
  <2>1. \A k \in Jobs : Executing(k)' <=> Executing(k)
    BY <1>2 DEF CancelJob, Executing
  <2>2. RunnerTypeOK' /\ RunningIsExecuting'
    BY <1>2, <2>1 DEF CancelJob, RunnerTypeOK, RunningIsExecuting
  <2>3. EarlyCancelHonoured'
    BY <1>2, <2>1 DEF CancelJob, RunnerTypeOK, RunningIsExecuting, EarlyCancelHonoured
  <2> QED
    BY <2>2, <2>3
<1> QED
  BY <1>1, <1>2

(* A poll touches pending jobs only, and gives a task to none that is      *)
(* cancelled.                                                              *)
LEMMA PollStep == RunnerInv /\ Poll => RunnerInv'
<1> SUFFICES ASSUME RunnerInv, Poll PROVE RunnerInv'
  OBVIOUS
<1> USE DEF RunnerInv
<1>1. /\ \A j \in Jobs : \/ status'[j] = status[j]
                         \/ status[j] = PENDING /\ status'[j] = CANCELLED
      /\ \A j \in cancelSet : waiting'[j] = waiting[j]
      /\ \A j \in Jobs : waiting'[j] \in 0..MaxWaiting
      /\ DOMAIN status' = Jobs /\ DOMAIN waiting' = Jobs
      /\ UNCHANGED <<created, cancelSet, permit, loop, early>>
  BY RunnerAssumption DEF Poll, Listed, RunnerTypeOK
<1>2. RunnerTypeOK'
  <2>1. status' \in [Jobs -> Settled \union {Absent, PENDING, RUNNING}]
    BY <1>1 DEF Poll, RunnerTypeOK, Settled
  <2>2. waiting' \in [Jobs -> 0..MaxWaiting]
    BY <1>1 DEF Poll
  <2> QED
    BY <1>1, <2>1, <2>2 DEF RunnerTypeOK
<1>3. \A j \in Jobs : Executing(j)' <=> Executing(j)
  BY <1>1 DEF Executing
<1>4. RunningIsExecuting'
  BY <1>1, <1>3 DEF RunningIsExecuting, RUNNING, PENDING, CANCELLED, Absent
<1>5. EarlyCancelHonoured'
  BY <1>1, <1>3 DEF RunnerTypeOK, EarlyCancelHonoured
<1> QED
  BY <1>2, <1>4, <1>5

(* A task starts: none of its job's tasks waits for a job cancelled early. *)
LEMMA StartSteps ==
    ASSUME RunnerInv, NEW p \in Permits, NEW j \in Jobs, Start(p, j) \/ StartUnknown(p, j)
    PROVE  RunnerInv'
<1> USE RunnerAssumption DEF RunnerInv, TakesPermit
<1>1. permit[p] = NoJob /\ waiting[j] > 0 /\ j \notin early
  BY DEF Start, StartUnknown, RunnerTypeOK, EarlyCancelHonoured
<1>2. waiting' = [waiting EXCEPT ![j] = @ - 1] /\ UNCHANGED <<created, cancelSet, loop, early>>
  BY DEF Start, StartUnknown
<1>3. waiting' \in [Jobs -> 0..MaxWaiting] /\ \A k \in Jobs \ {j} : waiting'[k] = waiting[k]
  BY <1>1, <1>2 DEF RunnerTypeOK
<1>4. CASE Start(p, j)
  <2>1. /\ j \notin Unknown /\ status' = [status EXCEPT ![j] = RUNNING]
        /\ permit' = [permit EXCEPT ![p] = j]
    BY <1>4 DEF Start
  <2>2. RunnerTypeOK'
    BY <1>2, <1>3, <2>1 DEF RunnerTypeOK
  <2>3. Executing(j)' /\ \A k \in Jobs \ {j} : Executing(k)' <=> Executing(k)
    BY <1>1, <2>1 DEF RunnerTypeOK, Executing
  <2>4. RunningIsExecuting'
    BY <2>1, <2>3 DEF RunnerTypeOK, RunningIsExecuting, RUNNING, PENDING, Absent
  <2>5. EarlyCancelHonoured'
    BY <1>1, <1>2, <1>3, <2>1, <2>3 DEF RunnerTypeOK, EarlyCancelHonoured
  <2> QED
    BY <2>2, <2>4, <2>5
<1>5. CASE StartUnknown(p, j)
  <2>1. j \in Unknown /\ status' = [status EXCEPT ![j] = FAILED] /\ permit' = permit
    BY <1>5 DEF StartUnknown
  <2>2. RunnerTypeOK'
    BY <1>2, <1>3, <2>1 DEF RunnerTypeOK, Settled
  <2>3. \A k \in Jobs : Executing(k)' <=> Executing(k)
    BY <2>1 DEF Executing
  <2>4. RunningIsExecuting'
    BY <2>1, <2>3 DEF RunnerTypeOK, RunningIsExecuting, RUNNING, FAILED, PENDING, Absent
  <2>5. EarlyCancelHonoured'
    BY <1>1, <1>2, <1>3, <2>1, <2>3 DEF RunnerTypeOK, EarlyCancelHonoured
  <2> QED
    BY <2>2, <2>4, <2>5
<1> QED
  BY <1>4, <1>5

(* A handler ends, by itself or cancelled at shutdown.  Another task of    *)
(* its job may still run.                                                  *)
LEMMA EndsStep ==
    ASSUME RunnerInv, NEW p \in Permits, NEW s \in Settled, Ends(p, s)
    PROVE  RunnerInv'
<1> USE RunnerAssumption DEF RunnerInv
<1> PICK j \in Jobs : permit[p] = j
  BY DEF Ends, RunnerTypeOK
<1>1. /\ status' = [status EXCEPT ![j] = s] /\ permit' = [permit EXCEPT ![p] = NoJob]
      /\ UNCHANGED <<created, cancelSet, waiting, loop, early>>
  BY DEF Ends
<1>2. Executing(j) /\ j \notin early
  BY DEF Executing, EarlyCancelHonoured
<1>3. RunnerTypeOK'
  BY <1>1 DEF RunnerTypeOK
<1>4. /\ \A k \in Jobs : Executing(k)' => Executing(k)
      /\ \A k \in Jobs \ {j} : Executing(k) => Executing(k)'
  BY <1>1 DEF RunnerTypeOK, Executing
<1>5. RunningIsExecuting'
  <2>1. status'[j] \notin {RUNNING, PENDING, Absent}
    BY <1>1 DEF RunnerTypeOK, Settled, DONE, FAILED, CANCELLED, RUNNING, PENDING, Absent
  <2>2. \A k \in Jobs \ {j} : status'[k] = status[k]
    BY <1>1 DEF RunnerTypeOK
  <2> QED
    BY <1>4, <2>1, <2>2 DEF RunningIsExecuting
<1>6. EarlyCancelHonoured'
  BY <1>1, <1>2, <1>4 DEF RunnerTypeOK, EarlyCancelHonoured
<1> QED
  BY <1>3, <1>5, <1>6

(* Shutdown takes tasks away.                                              *)
LEMMA ShutdownSteps ==
    ASSUME RunnerInv, StopLoop \/ \E j \in Jobs : CancelWaiting(j)
    PROVE  RunnerInv'
<1> USE DEF RunnerInv
<1>1. /\ UNCHANGED <<status, created, cancelSet, permit, early>>
      /\ loop' \in {"running", "stopped"}
      /\ waiting' \in [Jobs -> 0..MaxWaiting]
      /\ \A k \in Jobs : waiting[k] = 0 => waiting'[k] = 0
  BY RunnerAssumption DEF StopLoop, CancelWaiting, RunnerTypeOK
<1>2. \A k \in Jobs : Executing(k)' <=> Executing(k)
  BY <1>1 DEF Executing
<1> QED
  BY <1>1, <1>2 DEF RunnerTypeOK, RunningIsExecuting, EarlyCancelHonoured

LEMMA NextRunnerInv == RunnerInv /\ [RunnerNext]_runnerVars => RunnerInv'
<1> SUFFICES ASSUME RunnerInv, [RunnerNext]_runnerVars PROVE RunnerInv'
  OBVIOUS
<1>1. ASSUME NEW j \in Jobs, CreateJob(j) \/ CancelJob(j) PROVE RunnerInv'
  BY <1>1, ApiSteps
<1>2. ASSUME NEW j \in Jobs, CancelWaiting(j) PROVE RunnerInv'
  BY <1>2, ShutdownSteps
<1>3. ASSUME NEW p \in Permits, NEW j \in Jobs, Start(p, j) \/ StartUnknown(p, j)
      PROVE  RunnerInv'
  BY <1>3, StartSteps
<1>4. ASSUME NEW p \in Permits, JobReturns(p) \/ JobRaises(p) \/ CancelRunning(p)
      PROVE  RunnerInv'
  BY <1>4, EndsStep DEF JobReturns, JobRaises, CancelRunning, Settled
<1>5. CASE Poll
  BY <1>5, PollStep
<1>6. CASE StopLoop
  BY <1>6, ShutdownSteps
<1>7. CASE UNCHANGED runnerVars
  BY <1>7 DEF runnerVars, RunnerInv, RunnerTypeOK, RunningIsExecuting, EarlyCancelHonoured, Executing
<1> QED
  BY <1>1, <1>2, <1>3, <1>4, <1>5, <1>6, <1>7 DEF RunnerNext

-----------------------------------------------------------------------------
(* The three invariants hold in every reachable state.                     *)
THEOREM RunnerInvariant == RunnerSafeSpec => []RunnerInv
<1>1. RunnerInit => RunnerInv
  BY InitRunnerInv
<1>2. RunnerInv /\ [RunnerNext]_runnerVars => RunnerInv'
  BY NextRunnerInv
<1> QED
  BY <1>1, <1>2, PTL DEF RunnerSafeSpec

(* Jobs, tasks and permits keep their shape; no permit is held for a job   *)
(* without a handler.                                                      *)
THEOREM RunnerTypeCorrect == RunnerSafeSpec => []RunnerTypeOK
<1>1. RunnerInv => RunnerTypeOK
  BY DEF RunnerInv
<1> QED
  BY <1>1, RunnerInvariant, PTL

(* No job reads as running without a handler, or as pending with one, for  *)
(* any number of duplicate tasks.                                          *)
THEOREM RunnerRunningIsExecuting == RunnerSafeSpec => []RunningIsExecuting
<1>1. RunnerInv => RunningIsExecuting
  BY DEF RunnerInv
<1> QED
  BY <1>1, RunnerInvariant, PTL

(* A job cancelled before it got a task never runs.                        *)
THEOREM RunnerEarlyCancelHonoured == RunnerSafeSpec => []EarlyCancelHonoured
<1>1. RunnerInv => EarlyCancelHonoured
  BY DEF RunnerInv
<1> QED
  BY <1>1, RunnerInvariant, PTL

-----------------------------------------------------------------------------
(* Induction over the subsets of a finite set, for a set Holds of those    *)
(* that satisfy a claim: first over the proper subsets of each, then one   *)
(* element at a time.                                                      *)
LEMMA SmallestSubset ==
  ASSUME NEW U, IsFiniteSet(U), NEW Some \in SUBSET SUBSET U, Some # {}
  PROVE  \E s \in Some : \A t \in Some : ~(t \subseteq s /\ t # s)
<1>1. IsWellFoundedOn(StrictSubsetOrdering(U), SUBSET U)
  BY FS_StrictSubsetOrderingWellFounded, FS_FiniteSubsetsOfFinite
<1>2. \E s \in Some : \A t \in Some : <<t, s>> \notin StrictSubsetOrdering(U)
  BY <1>1, WFMin
<1>. QED
  BY <1>2 DEF StrictSubsetOrdering

LEMMA SubsetInduction ==
  ASSUME NEW U, IsFiniteSet(U), NEW Holds,
         \A s \in SUBSET U : (\A t \in SUBSET s : t # s => t \in Holds) => s \in Holds
  PROVE  \A s \in SUBSET U : s \in Holds
<1>. DEFINE Fails == {s \in SUBSET U : s \notin Holds}
<1>1. Fails \in SUBSET SUBSET U
  OBVIOUS
<1>. SUFFICES ASSUME Fails # {} PROVE FALSE
  OBVIOUS
<1>2. PICK s \in Fails : \A t \in Fails : ~(t \subseteq s /\ t # s)
  <2>. HIDE DEF Fails
  <2>. QED
    BY <1>1, SmallestSubset
<1>. QED
  BY <1>2

LEMMA ElementInduction ==
  ASSUME NEW U, IsFiniteSet(U), NEW Holds, {} \in Holds,
         \A s \in SUBSET U, x \in U : s \in Holds /\ x \notin s => s \union {x} \in Holds
  PROVE  U \in Holds
<1>1. ASSUME NEW s \in SUBSET U, \A t \in SUBSET s : t # s => t \in Holds
      PROVE  s \in Holds
  <2>1. CASE s = {}
    BY <2>1
  <2>2. ASSUME NEW x \in s PROVE s \in Holds
    <3>1. s \ {x} \in SUBSET s /\ s \ {x} # s /\ s = (s \ {x}) \union {x} /\ s \ {x} \in SUBSET U
      BY <2>2
    <3>2. s \ {x} \in Holds
      BY <1>1, <3>1
    <3>3. (s \ {x}) \union {x} \in Holds
      BY <3>1, <3>2, <2>2
    <3>. QED
      BY <3>1, <3>3
  <2>. QED
    BY <2>1, <2>2
<1>. QED
  BY <1>1, SubsetInduction

-----------------------------------------------------------------------------
(* A sum over a finite set.  SumFunctionOnSet takes the elements in an     *)
(* order of its own, by a recursive function on the subsets: that there is *)
(* one has to be shown before anything is known of a sum.                  *)
Pick(s) == CHOOSE x \in s : TRUE

IsSum(g, f, U) ==
    g = [s \in SUBSET U |-> IF s = {} THEN 0 ELSE f[Pick(s)] + g[s \ {Pick(s)}]]

SumOf(f, U) == SumFunctionOnSet(f, U)

LEMMA SumChoice == \A f, U : SumOf(f, U) = (CHOOSE g : IsSum(g, f, U))[U]
BY DEF SumOf, SumFunctionOnSet, FoldFunctionOnSet, MapThenFoldSet, IsSum, Pick

LEMMA PickIn == ASSUME NEW s, s # {} PROVE Pick(s) \in s
BY DEF Pick

(* Two such functions agree wherever both are defined.                     *)
LEMMA SumUnique ==
  ASSUME NEW f, NEW U, IsFiniteSet(U), NEW V, IsFiniteSet(V),
         NEW g, IsSum(g, f, U), NEW h, IsSum(h, f, V)
  PROVE  \A s \in SUBSET U : s \in SUBSET V => g[s] = h[s]
<1>. DEFINE Holds == {s \in SUBSET U : s \in SUBSET V => g[s] = h[s]}
<1>1. ASSUME NEW s \in SUBSET U, \A t \in SUBSET s : t # s => t \in Holds
      PROVE  s \in Holds
  <2>. SUFFICES ASSUME s \in SUBSET V PROVE g[s] = h[s]
    OBVIOUS
  <2>1. /\ g[s] = IF s = {} THEN 0 ELSE f[Pick(s)] + g[s \ {Pick(s)}]
        /\ h[s] = IF s = {} THEN 0 ELSE f[Pick(s)] + h[s \ {Pick(s)}]
    BY DEF IsSum
  <2>2. s # {} => g[s \ {Pick(s)}] = h[s \ {Pick(s)}]
    <3>. SUFFICES ASSUME s # {} PROVE g[s \ {Pick(s)}] = h[s \ {Pick(s)}]
      OBVIOUS
    <3>1. s \ {Pick(s)} \in SUBSET s /\ s \ {Pick(s)} # s
      BY PickIn
    <3>. QED
      BY <1>1, <3>1
  <2>. QED
    BY <2>1, <2>2
<1>. HIDE DEF Holds
<1>2. \A s \in SUBSET U : s \in Holds
  BY <1>1, SubsetInduction
<1>. QED
  BY <1>2 DEF Holds

(* There is one, whose values are the sums.                                *)
LEMMA SumExists ==
  ASSUME NEW f, NEW U, IsFiniteSet(U)
  PROVE  /\ \E g : IsSum(g, f, U)
         /\ U # {} => SumOf(f, U) = f[Pick(U)] + SumOf(f, U \ {Pick(U)})
         /\ U = {} => SumOf(f, U) = 0
<1>. DEFINE Holds == {s \in SUBSET U : \E g : IsSum(g, f, s)}
<1>0. \A s \in SUBSET U : IsFiniteSet(s)
  BY FS_Subset
<1>1. ASSUME NEW s \in SUBSET U, NEW g, IsSum(g, f, s)
      PROVE  IsSum(CHOOSE h : IsSum(h, f, s), f, s)
  BY <1>1
<1>2. ASSUME NEW s \in SUBSET U, NEW g, IsSum(g, f, s), NEW t \in SUBSET s, t \in Holds
      PROVE  SumOf(f, t) = g[t]
  <2>. DEFINE h == CHOOSE h : IsSum(h, f, t)
  <2>1. IsSum(h, f, t)
    BY <1>2, <1>1
  <2>2. h[t] = g[t]
    BY <1>0, <1>2, <2>1, SumUnique
  <2>. QED
    BY <2>2, SumChoice
<1>3. ASSUME NEW s \in SUBSET U, \A t \in SUBSET s : t # s => t \in Holds
      PROVE  s \in Holds
  <2>. DEFINE g == [t \in SUBSET s |-> IF t = {} THEN 0 ELSE f[Pick(t)] + SumOf(f, t \ {Pick(t)})]
  <2>1. ASSUME NEW t \in SUBSET s, t # {}
        PROVE  SumOf(f, t \ {Pick(t)}) = g[t \ {Pick(t)}]
    <3>. DEFINE u == t \ {Pick(t)}
    <3>1. u \in SUBSET s /\ u # s
      BY <2>1, PickIn
    <3>2. u \in Holds
      BY <1>3, <3>1
    <3>3. PICK h : IsSum(h, f, u)
      BY <3>2
    <3>4. SumOf(f, u) = h[u]
      BY <1>2, <3>1, <3>2, <3>3
    <3>5. h[u] = IF u = {} THEN 0 ELSE f[Pick(u)] + h[u \ {Pick(u)}]
      BY <3>3 DEF IsSum
    <3>6. u # {} => SumOf(f, u \ {Pick(u)}) = h[u \ {Pick(u)}]
      <4>. SUFFICES ASSUME u # {} PROVE SumOf(f, u \ {Pick(u)}) = h[u \ {Pick(u)}]
        OBVIOUS
      <4>1. u \ {Pick(u)} \in SUBSET s /\ u \ {Pick(u)} # s /\ u \ {Pick(u)} \in SUBSET u
        BY <3>1, PickIn
      <4>2. u \in SUBSET U /\ u \ {Pick(u)} \in Holds
        BY <1>3, <3>1, <4>1
      <4>. HIDE DEF Holds, u
      <4>. QED
        BY <1>2, <3>3, <4>1, <4>2
    <3>7. g[u] = IF u = {} THEN 0 ELSE f[Pick(u)] + SumOf(f, u \ {Pick(u)})
      BY <3>1
    <3>. QED
      BY <3>4, <3>5, <3>6, <3>7
  <2>2. IsSum(g, f, s)
    BY <2>1 DEF IsSum
  <2>. QED
    BY <2>2
<1>4. \A s \in SUBSET U : s \in Holds
  <2>. HIDE DEF Holds
  <2>. QED
    BY <1>3, SubsetInduction
<1>5. PICK g : IsSum(g, f, U)
  BY <1>4
<1>6. \A s \in SUBSET U : SumOf(f, s) = g[s]
  BY <1>2, <1>4, <1>5
<1>7. g[U] = IF U = {} THEN 0 ELSE f[Pick(U)] + g[U \ {Pick(U)}]
  BY <1>5 DEF IsSum
<1>. QED
  BY <1>5, <1>6, <1>7

LEMMA SumEmpty == \A f : SumOf(f, {}) = 0
BY SumExists, FS_EmptySet

LEMMA SumInt ==
  ASSUME NEW U, IsFiniteSet(U), NEW f, \A x \in U : f[x] \in Int
  PROVE  \A s \in SUBSET U : SumOf(f, s) \in Int
<1>. DEFINE Holds == {s \in SUBSET U : SumOf(f, s) \in Int}
<1>1. ASSUME NEW s \in SUBSET U, \A t \in SUBSET s : t # s => t \in Holds
      PROVE  s \in Holds
  <2>1. CASE s = {}
    BY <2>1, SumEmpty
  <2>2. CASE s # {}
    <3>1. Pick(s) \in s /\ s \ {Pick(s)} \in SUBSET s /\ s \ {Pick(s)} # s
      BY <2>2, PickIn
    <3>2. SumOf(f, s) = f[Pick(s)] + SumOf(f, s \ {Pick(s)})
      BY <2>2, SumExists, FS_Subset
    <3>. QED
      BY <1>1, <3>1, <3>2
  <2>. QED
    BY <2>1, <2>2
<1>. HIDE DEF Holds
<1>2. \A s \in SUBSET U : s \in Holds
  BY <1>1, SubsetInduction
<1>. QED
  BY <1>2 DEF Holds

(* The order of the elements does not matter.                              *)
LEMMA SumRemove ==
  ASSUME NEW U, IsFiniteSet(U), NEW f, \A x \in U : f[x] \in Int
  PROVE  \A s \in SUBSET U : \A x \in s : SumOf(f, s) = f[x] + SumOf(f, s \ {x})
<1>. DEFINE Holds == {s \in SUBSET U : \A x \in s : SumOf(f, s) = f[x] + SumOf(f, s \ {x})}
<1>1. ASSUME NEW s \in SUBSET U, \A t \in SUBSET s : t # s => t \in Holds
      PROVE  s \in Holds
  <2>. SUFFICES ASSUME NEW x \in s PROVE SumOf(f, s) = f[x] + SumOf(f, s \ {x})
    OBVIOUS
  <2>. DEFINE p == Pick(s)
  <2>1. p \in s
    BY PickIn
  <2>2. SumOf(f, s) = f[p] + SumOf(f, s \ {p})
    BY SumExists, FS_Subset
  <2>. HIDE DEF p
  <2>3. CASE x = p
    BY <2>2, <2>3
  <2>4. CASE x # p
    <3>1. s \ {p} \in Holds /\ s \ {x} \in Holds
      BY <1>1, <2>1
    <3>2. SumOf(f, s \ {p}) = f[x] + SumOf(f, (s \ {p}) \ {x})
      BY <3>1, <2>4
    <3>3. SumOf(f, s \ {x}) = f[p] + SumOf(f, (s \ {x}) \ {p})
      BY <3>1, <2>1, <2>4
    <3>4. (s \ {p}) \ {x} = (s \ {x}) \ {p} /\ (s \ {p}) \ {x} \in SUBSET U
      OBVIOUS
    <3>5. f[x] \in Int /\ f[p] \in Int /\ SumOf(f, (s \ {p}) \ {x}) \in Int
      BY <2>1, <3>4, SumInt
    <3>. DEFINE rest == SumOf(f, (s \ {p}) \ {x})
    <3>6. SumOf(f, (s \ {x}) \ {p}) = rest
      BY <3>4
    <3>. HIDE DEF rest
    <3>7. SumOf(f, s) = f[p] + (f[x] + rest) /\ SumOf(f, s \ {x}) = f[p] + rest
      BY <2>2, <3>2, <3>3, <3>6 DEF rest
    <3>8. rest \in Int
      BY <3>5 DEF rest
    <3>. QED
      BY <3>5, <3>7, <3>8
  <2>. QED
    BY <2>3, <2>4
<1>. HIDE DEF Holds
<1>2. \A s \in SUBSET U : s \in Holds
  BY <1>1, SubsetInduction
<1>. QED
  BY <1>2 DEF Holds

LEMMA SumAdd ==
  ASSUME NEW U, IsFiniteSet(U), NEW f, \A x \in U : f[x] \in Int
  PROVE  \A s \in SUBSET U, x \in U : x \notin s => SumOf(f, s \union {x}) = f[x] + SumOf(f, s)
<1>. SUFFICES ASSUME NEW s \in SUBSET U, NEW x \in U, x \notin s
              PROVE  SumOf(f, s \union {x}) = f[x] + SumOf(f, s)
  OBVIOUS
<1>1. s \union {x} \in SUBSET U /\ (s \union {x}) \ {x} = s /\ x \in s \union {x}
  OBVIOUS
<1>. QED
  BY <1>1, SumRemove

(* Terms that are a combination of others sum up to the same combination.  *)
LEMMA SumLinear ==
  ASSUME NEW U, IsFiniteSet(U), NEW f, NEW g, NEW h, NEW a \in Int, NEW b \in Int, NEW c \in Int,
         \A x \in U : f[x] \in Int /\ g[x] \in Int /\ h[x] = a * f[x] + b * g[x] + c
  PROVE  SumOf(h, U) = a * SumOf(f, U) + b * SumOf(g, U) + c * Cardinality(U)
<1>. DEFINE F(s) == SumOf(f, s)
            G(s) == SumOf(g, s)
            N(s) == Cardinality(s)
            Holds == {s \in SUBSET U : SumOf(h, s) = a * F(s) + b * G(s) + c * N(s)}
<1>0. \A x \in U : h[x] \in Int
  OBVIOUS
<1>1. {} \in Holds
  BY SumEmpty, FS_EmptySet
<1>2. ASSUME NEW s \in SUBSET U, NEW x \in U, s \in Holds, x \notin s
      PROVE  s \union {x} \in Holds
  <2>1. /\ SumOf(h, s \union {x}) = h[x] + SumOf(h, s)
        /\ F(s \union {x}) = f[x] + F(s) /\ G(s \union {x}) = g[x] + G(s)
    BY <1>0, <1>2, SumAdd
  <2>2. N(s \union {x}) = N(s) + 1 /\ N(s) \in Int
    BY <1>2, FS_Subset, FS_AddElement, FS_CardinalityType
  <2>3. F(s) \in Int /\ G(s) \in Int /\ SumOf(h, s) \in Int
    BY <1>0, SumInt
  <2>. HIDE DEF F, G, N
  <2>4. SumOf(h, s) = a * F(s) + b * G(s) + c * N(s)
    BY <1>2
  <2>5. a * (f[x] + F(s)) = a * f[x] + a * F(s)
    BY <2>3
  <2>6. b * (g[x] + G(s)) = b * g[x] + b * G(s)
    BY <2>3
  <2>7. c * (N(s) + 1) = c * N(s) + c
    BY <2>2
  <2>8. SumOf(h, s \union {x}) = a * F(s \union {x}) + b * G(s \union {x}) + c * N(s \union {x})
    BY <2>1, <2>2, <2>3, <2>4, <2>5, <2>6, <2>7
  <2>. QED
    BY <2>8
<1>3. U \in Holds
  <2>. HIDE DEF Holds
  <2>. QED
    BY <1>1, <1>2, ElementInduction
<1>. QED
  BY <1>3

LEMMA SumOfSquares ==
  ASSUME NEW U, IsFiniteSet(U), NEW f, NEW g, NEW h, NEW m \in Int, NEW w \in Int,
         \A x \in U : /\ f[x] \in Int /\ g[x] = f[x] * f[x]
                      /\ h[x] = (m * f[x] + w) * (m * f[x] + w)
  PROVE  SumOf(h, U) = (m * m) * SumOf(g, U) + (2 * m * w) * SumOf(f, U) + (w * w) * Cardinality(U)
<1>. DEFINE a == m * m
            b == 2 * m * w
            c == w * w
<1>1. a \in Int /\ b \in Int /\ c \in Int
  OBVIOUS
<1>2. \A x \in U : g[x] \in Int /\ f[x] \in Int /\ h[x] = a * g[x] + b * f[x] + c
  <2>1. \A x \in Int : (m * x + w) * (m * x + w) = (m * m) * (x * x) + (2 * m * w) * x + w * w
    OBVIOUS
  <2>. QED
    BY <2>1
<1>. HIDE DEF a, b, c
<1>3. SumOf(h, U) = a * SumOf(g, U) + b * SumOf(f, U) + c * Cardinality(U)
  BY <1>1, <1>2, SumLinear
<1>. QED
  BY <1>3 DEF a, b, c

LEMMA SumSame ==
  ASSUME NEW U, IsFiniteSet(U), NEW f, NEW g, \A x \in U : f[x] \in Int /\ f[x] = g[x]
  PROVE  SumOf(f, U) = SumOf(g, U)
<1>1. \A x \in U : f[x] \in Int /\ f[x] \in Int /\ g[x] = 1 * f[x] + 0 * f[x] + 0
  OBVIOUS
<1>2. SumOf(g, U) = 1 * SumOf(f, U) + 0 * SumOf(f, U) + 0 * Cardinality(U)
  BY <1>1, SumLinear
<1>3. SumOf(f, U) \in Int /\ Cardinality(U) \in Int
  BY SumInt, FS_CardinalityType
<1>. QED
  BY <1>2, <1>3

LEMMA SumOnes ==
  ASSUME NEW U, IsFiniteSet(U), NEW f, \A x \in U : f[x] = 1
  PROVE  SumOf(f, U) = Cardinality(U)
<1>1. \A x \in U : f[x] \in Int /\ f[x] \in Int /\ f[x] = 0 * f[x] + 0 * f[x] + 1
  OBVIOUS
<1>2. SumOf(f, U) = 0 * SumOf(f, U) + 0 * SumOf(f, U) + 1 * Cardinality(U)
  BY <1>1, SumLinear
<1>3. SumOf(f, U) \in Int /\ Cardinality(U) \in Int
  BY SumInt, FS_CardinalityType
<1>. QED
  BY <1>2, <1>3

(* Two sums over sets that share nothing.                                  *)
LEMMA SumDisjoint ==
  ASSUME NEW U, IsFiniteSet(U), NEW f, \A x \in U : f[x] \in Int,
         NEW s \in SUBSET U, NEW t \in SUBSET U, s \intersect t = {}
  PROVE  SumOf(f, s \union t) = SumOf(f, s) + SumOf(f, t)
<1>. DEFINE Holds == {r \in SUBSET t : SumOf(f, s \union r) = SumOf(f, s) + SumOf(f, r)}
<1>0. IsFiniteSet(t)
  BY FS_Subset
<1>1. {} \in Holds
  <2>1. s \union {} = s /\ SumOf(f, s) \in Int
    BY SumInt
  <2>. QED
    BY <2>1, SumEmpty
<1>2. ASSUME NEW r \in SUBSET t, NEW x \in t, r \in Holds, x \notin r
      PROVE  r \union {x} \in Holds
  <2>1. SumOf(f, r \union {x}) = f[x] + SumOf(f, r)
    BY <1>2, SumAdd
  <2>2. x \in U /\ x \notin s \union r /\ s \union r \in SUBSET U
        /\ s \union (r \union {x}) = (s \union r) \union {x}
    BY <1>2
  <2>3. SumOf(f, s \union (r \union {x})) = f[x] + SumOf(f, s \union r)
    BY <2>2, SumAdd
  <2>4. f[x] \in Int /\ SumOf(f, r) \in Int /\ SumOf(f, s) \in Int
    BY <2>2, SumInt
  <2>. QED
    BY <1>2, <2>1, <2>3, <2>4
<1>3. t \in Holds
  <2>. HIDE DEF Holds
  <2>. QED
    BY <1>0, <1>1, <1>2, ElementInduction
<1>. QED
  BY <1>3

(* The sums over the parts of a set sum up to the sum over the set.        *)
LEMMA SumOfParts ==
  ASSUME NEW U, IsFiniteSet(U), NEW f, \A x \in U : f[x] \in Int,
         NEW T, IsFiniteSet(T), NEW Part, \A k \in T : Part[k] \in SUBSET U,
         \A j, k \in T : j # k => Part[j] \intersect Part[k] = {},
         NEW v, \A k \in T : v[k] = SumOf(f, Part[k])
  PROVE  SumOf(v, T) = SumOf(f, UNION {Part[k] : k \in T})
<1>. DEFINE All(s) == UNION {Part[k] : k \in s}
            Holds == {s \in SUBSET T : SumOf(v, s) = SumOf(f, All(s))}
<1>0. \A k \in T : v[k] \in Int
  BY SumInt
<1>1. {} \in Holds
  <2>1. All({}) = {}
    OBVIOUS
  <2>. QED
    BY <2>1, SumEmpty
<1>2. ASSUME NEW s \in SUBSET T, NEW k \in T, s \in Holds, k \notin s
      PROVE  s \union {k} \in Holds
  <2>1. SumOf(v, s \union {k}) = v[k] + SumOf(v, s)
    BY <1>0, <1>2, SumAdd
  <2>2. /\ All(s) \in SUBSET U /\ Part[k] \in SUBSET U
        /\ All(s) \intersect Part[k] = {}
        /\ All(s \union {k}) = All(s) \union Part[k]
    BY <1>2
  <2>. HIDE DEF All
  <2>3. SumOf(f, All(s \union {k})) = SumOf(f, All(s)) + SumOf(f, Part[k])
    <3>1. SumOf(f, All(s) \union Part[k]) = SumOf(f, All(s)) + SumOf(f, Part[k])
      BY <2>2, SumDisjoint
    <3>. QED
      BY <2>2, <3>1
  <2>4. SumOf(f, All(s)) \in Int /\ v[k] \in Int
    BY <1>0, <2>2, SumInt
  <2>5. SumOf(v, s) = SumOf(f, All(s))
    BY <1>2
  <2>6. SumOf(v, s \union {k}) = SumOf(f, All(s \union {k}))
    BY <2>1, <2>3, <2>4, <2>5
  <2>. QED
    BY <2>6
<1>3. T \in Holds
  <2>. HIDE DEF Holds
  <2>. QED
    BY <1>1, <1>2, ElementInduction
<1>. QED
  BY <1>3

(* A sum of terms that are not negative is at least each of them.          *)
LEMMA SumAtLeast ==
  ASSUME NEW U, IsFiniteSet(U), NEW f, \A x \in U : f[x] \in Nat
  PROVE  SumOf(f, U) \in Nat /\ \A x \in U : f[x] <= SumOf(f, U)
<1>. DEFINE Holds == {s \in SUBSET U : SumOf(f, s) \in Nat}
<1>0. \A x \in U : f[x] \in Int
  OBVIOUS
<1>1. {} \in Holds
  BY SumEmpty
<1>2. ASSUME NEW s \in SUBSET U, NEW x \in U, s \in Holds, x \notin s
      PROVE  s \union {x} \in Holds
  BY <1>0, <1>2, SumAdd
<1>. HIDE DEF Holds
<1>3. \A s \in SUBSET U : s \in Holds
  <2>1. ASSUME NEW s \in SUBSET U PROVE s \in Holds
    BY <1>1, <1>2, ElementInduction, FS_Subset
  <2>. QED
    BY <2>1
<1>4. ASSUME NEW x \in U PROVE f[x] <= SumOf(f, U)
  <2>1. SumOf(f, U) = f[x] + SumOf(f, U \ {x})
    BY <1>0, SumRemove
  <2>2. SumOf(f, U \ {x}) \in Nat
    BY <1>3 DEF Holds
  <2>. QED
    BY <2>1, <2>2
<1>. QED
  BY <1>3, <1>4 DEF Holds

-----------------------------------------------------------------------------
(* What the requests are about has its type.                               *)
FiguresTypeOK == stream \in Seq(OrderRows) /\ series \in Seq(Numbers)

LEMMA FiguresInvariant == FiguresSpec => []FiguresTypeOK
<1>1. FiguresInit => FiguresTypeOK
  BY AnalyticsAssumption DEF FiguresInit, FiguresTypeOK
<1>2. FiguresTypeOK /\ [FiguresNext]_figureVars => FiguresTypeOK'
  <2>. SUFFICES ASSUME FiguresTypeOK, [FiguresNext]_figureVars PROVE FiguresTypeOK'
    OBVIOUS
  <2>1. ASSUME NEW o \in OrderRows, OrderComes(o) PROVE FiguresTypeOK'
    BY <2>1, AppendProperties DEF OrderComes, FiguresTypeOK
  <2>2. ASSUME NEW v \in Numbers, NumberComes(v) PROVE FiguresTypeOK'
    BY <2>2, AppendProperties DEF NumberComes, FiguresTypeOK
  <2>3. CASE UNCHANGED figureVars
    BY <2>3 DEF figureVars, FiguresTypeOK
  <2>. QED
    BY <2>1, <2>2, <2>3 DEF FiguresNext
<1>. QED
  BY <1>1, <1>2, PTL DEF FiguresSpec

-----------------------------------------------------------------------------
(* Of n numbers with sum s and sum of squares q, none is further from the  *)
(* mean than the deviation times the root of n - 1: the squares of         *)
(* (n - 1) x + (v - s) add up to at least the one for x = v.               *)
LEMMA FurthestValue ==
  ASSUME NEW n \in Nat, n >= 2, NEW s \in Int, NEW q \in Int, NEW v \in Int,
         (n - 1) * (n - 1) * q + 2 * (n - 1) * (v - s) * s + n * ((v - s) * (v - s))
           >= (n * v - s) * (n * v - s)
  PROVE  (n * v - s) * (n * v - s) <= (n - 1) * (n * q - s * s)
<1>. DEFINE left == (n - 1) * (n - 1) * q + 2 * (n - 1) * (v - s) * s + n * ((v - s) * (v - s))
            dist == (n * v - s) * (n * v - s)
            bound == (n - 1) * (n * q - s * s)
<1>1. n * (left - dist) = (n - 1) * (bound - dist)
  OBVIOUS
<1>2. left \in Int /\ dist \in Int /\ bound \in Int /\ left - dist >= 0
  OBVIOUS
<1>. HIDE DEF left, dist, bound
<1>3. n * (left - dist) >= 0
  BY <1>2
<1>4. bound - dist < 0 => (n - 1) * (bound - dist) < 0
  BY <1>2
<1>5. bound - dist >= 0
  BY <1>1, <1>2, <1>3, <1>4
<1>. QED
  BY <1>2, <1>5 DEF dist, bound

LEMMA FurthestTerm ==
  ASSUME NEW U, IsFiniteSet(U), Cardinality(U) >= 2, NEW f, NEW g, NEW i \in U,
         \A x \in U : f[x] \in Int /\ g[x] = f[x] * f[x]
  PROVE  LET n == Cardinality(U)
             s == SumOf(f, U)
             q == SumOf(g, U)
         IN  /\ n \in Nat /\ s \in Int /\ q \in Int
             /\ (n * f[i] - s) * (n * f[i] - s) <= (n - 1) * (n * q - s * s)
<1>. DEFINE n == Cardinality(U)
            s == SumOf(f, U)
            q == SumOf(g, U)
<1>1. \A x \in U : g[x] \in Int
  OBVIOUS
<1>2. n \in Nat /\ s \in Int /\ q \in Int
  BY <1>1, SumInt, FS_CardinalityType
<1>0. n >= 2
  OBVIOUS
<1>. DEFINE m == n - 1
            w == f[i] - s
            h == [x \in U |-> (m * f[x] + w) * (m * f[x] + w)]
<1>3. m \in Int /\ w \in Int /\ f[i] \in Int
  BY <1>2
<1>4. \A x \in U : h[x] = (m * f[x] + w) * (m * f[x] + w)
  OBVIOUS
<1>. HIDE DEF h
<1>. HIDE DEF n, s, q
<1>5. \A x \in U : h[x] \in Nat
  <2>1. ASSUME NEW a \in Int PROVE a * a \in Nat
    OBVIOUS
  <2>2. \A x \in U : m * f[x] + w \in Int
    BY <1>3
  <2>. HIDE DEF m, w
  <2>. QED
    BY <2>1, <2>2, <1>4
<1>6. h[i] = (n * f[i] - s) * (n * f[i] - s)
  <2>1. m * f[i] + w = n * f[i] - s
    <3>. DEFINE v == f[i]
    <3>1. v \in Int
      BY <1>3
    <3>. HIDE DEF v
    <3>2. (n - 1) * v + (v - s) = n * v - s
      BY <1>2, <3>1
    <3>. QED
      BY <3>2 DEF v
  <2>. HIDE DEF m, w
  <2>. QED
    BY <1>4, <2>1
<1>7. SumOf(h, U) = (m * m) * q + (2 * m * w) * s + (w * w) * n
  <2>. HIDE DEF m, w
  <2>. QED
    BY <1>3, <1>4, SumOfSquares DEF n, s, q
<1>8. h[i] <= SumOf(h, U)
  BY <1>5, SumAtLeast
<1>9. (n - 1) * (n - 1) * q + 2 * (n - 1) * (f[i] - s) * s + n * ((f[i] - s) * (f[i] - s))
         >= (n * f[i] - s) * (n * f[i] - s)
  BY <1>2, <1>3, <1>6, <1>7, <1>8
<1>10. (n * f[i] - s) * (n * f[i] - s) <= (n - 1) * (n * q - s * s)
  BY <1>0, <1>2, <1>3, <1>9, FurthestValue
<1>. QED
  BY <1>2, <1>10 DEF n, s, q

(* ... and Sigma squared is at least n.                                    *)
LEMMA ShortSeries == FiguresTypeOK => ShortSeriesNeverAlarm
<1>. SUFFICES ASSUME FiguresTypeOK, Len(series) <= Sigma * Sigma, Len(series) >= 2,
                     NEW i \in 1..Len(series), i \in Anomalies(series)
              PROVE  FALSE
  BY AnalyticsAssumption DEF ShortSeriesNeverAlarm, Anomalies, FiguresTypeOK
<1>. DEFINE n == Len(series)
            U == 1..n
            squares == [j \in 1..n |-> series[j] * series[j]]
            s == SumOf(series, U)
            q == SumOf(squares, U)
            v == series[i]
<1>1. n \in Nat /\ DOMAIN series = U
  BY LenProperties DEF FiguresTypeOK
<1>2. IsFiniteSet(U) /\ Cardinality(U) = n
  BY <1>1, FS_Interval
<1>3. \A j \in U : series[j] \in Int /\ squares[j] = series[j] * series[j]
  <2>1. \A j \in U : series[j] \in Numbers
    BY ElementOfSeq DEF FiguresTypeOK
  <2>2. Numbers \subseteq Int
    BY AnalyticsAssumption
  <2>. QED
    BY <2>1, <2>2
<1>4. /\ n * q - s * s > 0
      /\ (n * v - s) * (n * v - s) >= Sigma * Sigma * (n * q - s * s)
  BY <1>1 DEF Anomalies, SumOf, SumFunction
<1>5. n >= 2 /\ i \in U /\ n <= Sigma * Sigma
  BY <1>1
<1>. HIDE DEF n, squares, U
<1>6. /\ s \in Int /\ q \in Int
      /\ (n * v - s) * (n * v - s) <= (n - 1) * (n * q - s * s)
  <2>1. s = SumOf(series, U) /\ q = SumOf(squares, U)
    OBVIOUS
  <2>. HIDE DEF s, q
  <2>. QED
    BY <1>2, <1>3, <1>5, <2>1, FurthestTerm
<1>7. v \in Int
  BY <1>3, <1>5
<1>. DEFINE spread == n * q - s * s
            limit == Sigma * Sigma
            dist == (n * v - s) * (n * v - s)
<1>. HIDE DEF s, q, v
<1>8. spread \in Int /\ limit \in Int /\ dist \in Int
  BY <1>1, <1>6, <1>7, AnalyticsAssumption
<1>9. spread > 0 /\ dist >= limit * spread /\ dist <= (n - 1) * spread /\ n <= limit
  BY <1>4, <1>5, <1>6
<1>10. \A x, a, b, d \in Int : ~(x > 0 /\ a <= b /\ d >= b * x /\ d <= (a - 1) * x)
  <2>. SUFFICES ASSUME NEW x \in Int, NEW a \in Int, NEW b \in Int, x > 0, a <= b
                PROVE  (a - 1) * x < b * x
    OBVIOUS
  <2>1. (a - 1) * x = a * x - x /\ a * x <= b * x
    OBVIOUS
  <2>. QED
    BY <2>1
<1>. HIDE DEF spread, limit, dist
<1>. QED
  BY <1>1, <1>8, <1>9, <1>10

(* No value of a series of at most sigma squared numbers is ever reported  *)
(* as an anomaly (detect_anomalies), whatever the numbers and the threshold*)
THEOREM FiguresShortSeriesNeverAlarm == FiguresSpec => []ShortSeriesNeverAlarm
BY FiguresInvariant, ShortSeries, PTL

-----------------------------------------------------------------------------
(* Reads in parts.  FlattenSeq, too, is a recursive function.              *)
LEMMA CountingInduction ==
  ASSUME NEW n \in Nat, NEW Holds, 1 \in Holds,
         \A k \in 1..(n - 1) : k \in Holds => k + 1 \in Holds
  PROVE  \A k \in 1..n : k \in Holds
<1>. DEFINE Some == {1..k : k \in {j \in 1..n : j \notin Holds}}
<1>. SUFFICES ASSUME NEW j \in 1..n, j \notin Holds PROVE FALSE
  OBVIOUS
<1>1. Some \in SUBSET SUBSET (1..n) /\ Some # {}
  OBVIOUS
<1>2. PICK s \in Some : \A t \in Some : ~(t \subseteq s /\ t # s)
  <2>. DEFINE U == 1..n
  <2>1. IsFiniteSet(U) /\ Some \in SUBSET SUBSET U /\ Some # {}
    BY <1>1, FS_Interval
  <2>. HIDE DEF Some, U
  <2>. QED
    BY <2>1, SmallestSubset
<1>3. PICK k \in 1..n : k \notin Holds /\ s = 1..k
  OBVIOUS
<1>4. k - 1 \in 1..(n - 1) /\ k - 1 \notin Holds
  <2>1. k # 1
    BY <1>3
  <2>2. k - 1 \in 1..(n - 1) /\ (k - 1) + 1 = k
    BY <2>1
  <2>. QED
    BY <1>3, <2>2
<1>5. 1..(k - 1) \in Some /\ 1..(k - 1) \subseteq s /\ 1..(k - 1) # s
  BY <1>3, <1>4
<1>. QED
  BY <1>2, <1>5

IsFlat(g, parts) ==
    g = [i \in 1..Len(parts) |-> IF i = 1 THEN parts[i] ELSE g[i - 1] \o parts[i]]

LEMMA FlattenChoice ==
  \A parts : Len(parts) # 0 =>
               FlattenSeq(parts) = (CHOOSE g : IsFlat(g, parts))[Len(parts)]
BY DEF FlattenSeq, IsFlat

(* Parts that end where the next begins are the sequence again.            *)
LEMMA FlattenParts ==
  ASSUME NEW S, NEW items \in Seq(S), NEW n \in Nat \ {0},
         NEW end \in [0..n -> 0..Len(items)], end[0] = 0, end[n] = Len(items),
         \A k \in 1..n : end[k - 1] <= end[k],
         NEW parts, Len(parts) = n,
         \A k \in 1..n : parts[k] = SubSeq(items, end[k - 1] + 1, end[k])
  PROVE  FlattenSeq(parts) = items
<1>0. Len(items) \in Nat
  BY LenProperties
<1>. DEFINE g == [k \in 1..n |-> SubSeq(items, 1, end[k])]
<1>1. \A k \in 1..n : g[k] = IF k = 1 THEN parts[k] ELSE g[k - 1] \o parts[k]
  <2>1. ASSUME NEW k \in 1..n, k # 1 PROVE g[k] = g[k - 1] \o parts[k]
    <3>1. k - 1 \in 1..n /\ k - 1 \in 0..n /\ k \in 0..n
      BY <2>1
    <3>. DEFINE a == end[k - 1]
                b == end[k]
    <3>2. a \in 1 - 1..Len(items) /\ b \in a..Len(items) /\ 1 \in 1..Len(items) + 1
      <4>1. a \in 0..Len(items) /\ b \in 0..Len(items)
        BY <3>1
      <4>2. a <= b
        BY <2>1
      <4>. HIDE DEF a, b
      <4>. QED
        BY <1>0, <4>1, <4>2
    <3>. HIDE DEF a, b
    <3>3. SubSeq(items, 1, a) \o SubSeq(items, a + 1, b) = SubSeq(items, 1, b)
      BY <3>2, ConcatAdjacentSubSeq
    <3>. USE DEF a, b
    <3>. QED
      BY <3>1, <3>3
  <2>2. g[1] = parts[1]
    <3>1. 1 \in 1..n /\ end[1 - 1] + 1 = 1
      OBVIOUS
    <3>2. parts[1] = SubSeq(items, end[1 - 1] + 1, end[1])
      BY <3>1
    <3>. QED
      BY <3>1, <3>2
  <2>. QED
    BY <2>1, <2>2
<1>2. IsFlat(g, parts)
  BY <1>1 DEF IsFlat
<1>3. ASSUME NEW h, IsFlat(h, parts) PROVE h[n] = items
  <2>. DEFINE Holds == {k \in 1..n : h[k] = g[k]}
  <2>1. \A k \in 1..n : h[k] = IF k = 1 THEN parts[k] ELSE h[k - 1] \o parts[k]
    BY <1>3 DEF IsFlat
  <2>. HIDE DEF g
  <2>2. 1 \in Holds
    BY <1>1, <2>1
  <2>3. \A k \in 1..(n - 1) : k \in Holds => k + 1 \in Holds
    <3>1. ASSUME NEW k \in 1..(n - 1), h[k] = g[k] PROVE h[k + 1] = g[k + 1]
      <4>1. k + 1 \in 1..n /\ k + 1 # 1 /\ (k + 1) - 1 = k
        OBVIOUS
      <4>2. h[k + 1] = h[k] \o parts[k + 1] /\ g[k + 1] = g[k] \o parts[k + 1]
        BY <1>1, <2>1, <4>1
      <4>. QED
        BY <3>1, <4>2
    <3>. QED
      BY <3>1
  <2>. HIDE DEF Holds
  <2>4. \A k \in 1..n : k \in Holds
    BY <2>2, <2>3, CountingInduction
  <2>5. h[n] = g[n]
    BY <2>4 DEF Holds
  <2>6. g[n] = items
    BY SubSeqFull DEF g
  <2>. QED
    BY <2>5, <2>6
<1>. HIDE DEF g
<1>. QED
  BY <1>2, <1>3, FlattenChoice

LEMMA MinOfTwo ==
  ASSUME NEW a \in Int, NEW b \in Int
  PROVE  Min({a, b}) = IF a <= b THEN a ELSE b
BY DEF Min

LEMMA Products ==
  ASSUME NEW c \in Nat
  PROVE  \A a, b \in Int : a <= b => a * c <= b * c
OBVIOUS

LEMMA Quotients ==
  ASSUME NEW a \in Nat, NEW b \in Nat \ {0}
  PROVE  a \div b \in Nat /\ (a \div b) * b <= a /\ a < (a \div b + 1) * b
OBVIOUS

(* The pages: one ends where the next begins, and the last at the end.     *)
LEMMA PagesAreOnce == FiguresTypeOK => PagesPartitionStream
<1>. SUFFICES ASSUME FiguresTypeOK, NEW limit \in 1..(MaxSeries + 1)
              PROVE  LET n == Len(series) \div limit + 1
                         pages == [k \in 1..n |-> Page(series, (k - 1) * limit, limit)]
                     IN  /\ FlattenSeq([k \in DOMAIN pages |-> pages[k].items]) = series
                         /\ \A k \in DOMAIN pages : (pages[k].seen > k * limit)
                                                      <=> (Len(series) > k * limit)
  BY DEF PagesPartitionStream
<1>. DEFINE size == Len(series)
            d == size \div limit
            n == d + 1
            end == [k \in 0..n |-> IF k = n THEN size ELSE k * limit]
            pages == [k \in 1..n |-> Page(series, (k - 1) * limit, limit)]
            parts == [k \in 1..n |-> pages[k].items]
<1>1. size \in Nat /\ limit \in Nat \ {0}
  BY LenProperties, AnalyticsAssumption DEF FiguresTypeOK
<1>2. d \in Nat /\ d * limit <= size /\ size < n * limit
  BY <1>1, Quotients
<1>. HIDE DEF size, d
<1>3. ASSUME NEW k \in 1..n
      PROVE  /\ (k - 1) * limit \in Nat /\ k * limit \in Nat /\ k * limit = (k - 1) * limit + limit
             /\ (k - 1) * limit <= size /\ (k < n => k * limit <= size)
  <2>1. k - 1 <= d /\ (k < n => k <= d) /\ k - 1 \in Nat /\ k \in Nat
    BY <1>2
  <2>2. (k - 1) * limit <= d * limit /\ (k < n => k * limit <= d * limit)
    BY <1>1, <1>2, <2>1, Products
  <2>3. (k - 1) * limit \in Nat /\ k * limit \in Nat /\ d * limit \in Nat
    BY <1>1, <1>2, <2>1
  <2>4. k * limit = (k - 1) * limit + limit
    BY <1>1, <2>1
  <2>. QED
    BY <1>1, <1>2, <2>2, <2>3, <2>4
<1>4. ASSUME NEW k \in 1..n
      PROVE  /\ pages[k].items = SubSeq(series, end[k - 1] + 1, end[k])
             /\ (pages[k].seen > k * limit) <=> (size > k * limit)
             /\ end[k - 1] <= end[k]
  <2>. DEFINE before == (k - 1) * limit
              after == k * limit
  <2>1. /\ before \in Nat /\ after = before + limit
        /\ before <= size /\ (k < n => after <= size) /\ (k = n => size < after)
    BY <1>1, <1>2, <1>3
  <2>2. end[k - 1] = before
    BY <1>2
  <2>3. end[k] = IF k = n THEN size ELSE after
    BY <1>2
  <2>. HIDE DEF before, after
  <2>4. Min({size, before + limit}) = end[k]
    BY <1>1, <1>2, <2>1, <2>3, MinOfTwo
  <2>5. Min({size, before + limit + 1}) = IF size <= after + 1 THEN size ELSE after + 1
    BY <1>1, <2>1, MinOfTwo
  <2>6. /\ pages[k].items = SubSeq(series, before + 1, end[k])
        /\ pages[k].seen = IF size <= after + 1 THEN size ELSE after + 1
    BY <2>4, <2>5 DEF Page, size, before
  <2>7. (pages[k].seen > after) <=> (size > after)
    BY <1>1, <2>1, <2>6
  <2>8. end[k - 1] <= end[k]
    BY <1>1, <1>2, <2>1, <2>2, <2>3
  <2>. QED
    BY <2>2, <2>6, <2>7, <2>8 DEF after
<1>5. end \in [0..n -> 0..size] /\ end[0] = 0 /\ end[n] = size
  <2>1. ASSUME NEW k \in 0..n PROVE end[k] \in 0..size
    <3>1. CASE k = n
      BY <1>1, <3>1
    <3>2. CASE k # n
      <4>1. k + 1 \in 1..n /\ (k + 1) - 1 = k
        BY <1>2, <3>2
      <4>2. k * limit \in Nat /\ k * limit <= size
        BY <1>3, <4>1
      <4>. QED
        BY <1>1, <3>2, <4>2
    <3>. QED
      BY <3>1, <3>2
  <2>. QED
    BY <1>1, <1>2, <2>1
<1>6. n \in Nat \ {0} /\ Len(parts) = n /\ DOMAIN pages = 1..n
  BY <1>2
<1>7. FlattenSeq(parts) = series
  <2>1. /\ \A k \in 1..n : end[k - 1] <= end[k]
        /\ \A k \in 1..n : parts[k] = SubSeq(series, end[k - 1] + 1, end[k])
    BY <1>4
  <2>2. series \in Seq(Numbers)
    BY DEF FiguresTypeOK
  <2>. HIDE DEF n, end, pages, parts
  <2>. QED
    BY <1>5, <1>6, <2>1, <2>2, FlattenParts DEF size
<1>. QED
  BY <1>4, <1>6, <1>7 DEF size, d

LEMMA ChunksAreOnce == FiguresTypeOK => ChunksPartition
<1>. SUFFICES ASSUME FiguresTypeOK, NEW size \in 1..(MaxSeries + 1)
              PROVE  LET chunks == Chunked(series, size)
                     IN  /\ FlattenSeq(chunks) = series
                         /\ \A k \in DOMAIN chunks : /\ chunks[k] # <<>>
                                                     /\ k < Len(chunks) => Len(chunks[k]) = size
  BY DEF ChunksPartition
<1>. DEFINE total == Len(series)
            n == (total + size - 1) \div size
            end == [k \in 0..n |-> IF k = n THEN total ELSE k * size]
            chunks == [k \in 1..n |-> SubSeq(series, (k - 1) * size + 1, Min({total, k * size}))]
<1>1. total \in Nat /\ size \in Nat \ {0} /\ Chunked(series, size) = chunks
  BY LenProperties, AnalyticsAssumption DEF FiguresTypeOK, Chunked
<1>2. n \in Nat /\ n * size <= total + size - 1 /\ total + size - 1 < (n + 1) * size
  BY <1>1, Quotients
<1>3. Len(chunks) = n /\ DOMAIN chunks = 1..n
  BY <1>2
<1>. HIDE DEF total, n
<1>4. (n + 1) * size = n * size + size /\ n * size \in Nat
  BY <1>1, <1>2
<1>5. ASSUME NEW k \in 1..n
      PROVE  /\ (k - 1) * size \in Nat /\ k * size = (k - 1) * size + size
             /\ (k - 1) * size < total /\ (k < n => k * size < total)
  <2>1. k <= n /\ (k < n => k + 1 <= n) /\ k - 1 \in Nat /\ k \in Nat
    BY <1>2
  <2>2. k * size <= n * size /\ (k < n => (k + 1) * size <= n * size)
    BY <1>1, <1>2, <2>1, Products
  <2>3. (k - 1) * size \in Nat /\ k * size = (k - 1) * size + size /\ (k + 1) * size = k * size + size
    BY <1>1, <2>1
  <2>. QED
    BY <1>1, <1>2, <1>4, <2>2, <2>3
<1>6. ASSUME NEW k \in 1..n
      PROVE  /\ chunks[k] = SubSeq(series, end[k - 1] + 1, end[k])
             /\ end[k - 1] < end[k] /\ end[k - 1] \in Nat /\ end[k] \in 0..total
             /\ k < n => end[k] = end[k - 1] + size
  <2>. DEFINE before == (k - 1) * size
              after == k * size
  <2>1. /\ before \in Nat /\ after = before + size
        /\ before < total /\ (k < n => after < total) /\ (k = n => total <= after)
    BY <1>1, <1>2, <1>4, <1>5
  <2>2. end[k - 1] = before
    BY <1>2
  <2>3. end[k] = IF k = n THEN total ELSE after
    BY <1>2
  <2>4. chunks[k] = SubSeq(series, before + 1, Min({total, after}))
    OBVIOUS
  <2>. HIDE DEF before, after
  <2>5. Min({total, after}) = end[k]
    BY <1>1, <1>2, <2>1, <2>3, MinOfTwo
  <2>. HIDE DEF chunks, end
  <2>6. chunks[k] = SubSeq(series, end[k - 1] + 1, end[k])
    BY <2>2, <2>4, <2>5
  <2>7. /\ end[k - 1] < end[k] /\ end[k - 1] \in Nat /\ end[k] \in 0..total
        /\ k < n => end[k] = end[k - 1] + size
    BY <1>1, <1>2, <2>1, <2>2, <2>3
  <2>. QED
    BY <2>6, <2>7
<1>7. FlattenSeq(chunks) = series
  <2>1. CASE total = 0
    <3>1. n = 0
      <4>1. n # 0 => size <= n * size
        <5>1. n # 0 => 1 * size <= n * size
          BY <1>1, <1>2, Products
        <5>. QED
          BY <1>1, <5>1
      <4>. QED
        BY <1>1, <1>2, <2>1, <4>1
    <3>2. Len(chunks) = 0 /\ chunks = <<>>
      BY <1>3, <3>1
    <3>3. series = <<>>
      BY <2>1, EmptySeq DEF FiguresTypeOK, total
    <3>. QED
      BY <3>2, <3>3 DEF FlattenSeq
  <2>2. CASE total # 0
    <3>1. n # 0
      BY <1>1, <1>2, <1>4, <2>2
    <3>2. end \in [0..n -> 0..total] /\ end[0] = 0 /\ end[n] = total
      <4>1. ASSUME NEW k \in 0..n PROVE end[k] \in 0..total
        BY <1>1, <1>2, <1>6
      <4>. QED
        BY <1>1, <1>2, <3>1, <4>1
    <3>4. series \in Seq(Numbers) /\ n \in Nat \ {0}
      BY <1>2, <3>1 DEF FiguresTypeOK
    <3>. HIDE DEF chunks, end
    <3>3. /\ \A k \in 1..n : end[k - 1] <= end[k]
          /\ \A k \in 1..n : chunks[k] = SubSeq(series, end[k - 1] + 1, end[k])
      <4>1. ASSUME NEW k \in 1..n PROVE end[k - 1] <= end[k]
        BY <1>1, <1>6
      <4>. QED
        BY <1>6, <4>1
    <3>. QED
      BY <1>3, <3>2, <3>3, <3>4, FlattenParts DEF total
  <2>. QED
    BY <2>1, <2>2
<1>8. ASSUME NEW k \in 1..n
      PROVE  chunks[k] # <<>> /\ (k < n => Len(chunks[k]) = size)
  <2>. DEFINE a == end[k - 1] + 1
              b == end[k]
  <2>1. a \in 1..b /\ b \in 1..total /\ chunks[k] = SubSeq(series, a, b)
        /\ (k < n => b = a + size - 1)
    <3>. HIDE DEF chunks, end
    <3>. QED
      BY <1>1, <1>6
  <2>. HIDE DEF a, b, chunks
  <2>2. \A i \in a..b : series[i] \in Numbers
    BY <1>1, <2>1, ElementOfSeq DEF FiguresTypeOK, total
  <2>3. Len(SubSeq(series, a, b)) = b - a + 1
    BY <1>1, <2>1, <2>2, SubSeqProperties
  <2>4. b - a + 1 >= 1 /\ (k < n => b - a + 1 = size)
    BY <1>1, <2>1
  <2>5. Len(chunks[k]) = b - a + 1
    BY <2>1, <2>3
  <2>6. b - a + 1 # 0 /\ Len(<<>>) = 0
    BY <1>1, <2>1
  <2>. QED
    BY <2>4, <2>5, <2>6
<1>. HIDE DEF chunks
<1>. QED
  BY <1>1, <1>3, <1>7, <1>8

(* Reading a stream page by page or in chunks misses and repeats nothing,  *)
(* for streams, pages and chunks of any length (api/datasets.py, chunked). *)
THEOREM FiguresReadOnce == FiguresSpec => []ReadOnce
<1>1. FiguresTypeOK => ReadOnce
  BY PagesAreOnce, ChunksAreOnce DEF ReadOnce
<1>. QED
  BY <1>1, FiguresInvariant, PTL

-----------------------------------------------------------------------------
(* Figures.  The values of a key are finitely many, and what a set counts  *)
(* or sums up to is the sum of its parts by key.                           *)
LEMMA ImageFinite ==
  ASSUME NEW U, IsFiniteSet(U), NEW key
  PROVE  IsFiniteSet({key[x] : x \in U})
<1>. DEFINE g == [x \in U |-> key[x]]
            K == {key[x] : x \in U}
<1>1. g \in Surjection(U, K)
  BY DEF Surjection
<1>. QED
  BY <1>1, FS_Surjection

LEMMA CountOfParts ==
  ASSUME NEW U, IsFiniteSet(U), NEW T, IsFiniteSet(T), NEW Part, \A k \in T : Part[k] \in SUBSET U,
         \A j, k \in T : j # k => Part[j] \intersect Part[k] = {},
         NEW v, \A k \in T : v[k] = Cardinality(Part[k])
  PROVE  SumOf(v, T) = Cardinality(UNION {Part[k] : k \in T})
<1>. DEFINE ones == [x \in U |-> 1]
            All == UNION {Part[k] : k \in T}
<1>1. \A s \in SUBSET U : SumOf(ones, s) = Cardinality(s)
  <2>. SUFFICES ASSUME NEW s \in SUBSET U PROVE SumOf(ones, s) = Cardinality(s)
    OBVIOUS
  <2>1. IsFiniteSet(s) /\ \A x \in s : ones[x] = 1
    BY FS_Subset
  <2>. HIDE DEF ones
  <2>. QED
    BY <2>1, SumOnes
<1>2. \A x \in U : ones[x] \in Int
  OBVIOUS
<1>3. All \in SUBSET U
  OBVIOUS
<1>. HIDE DEF ones
<1>4. \A k \in T : v[k] = SumOf(ones, Part[k])
  BY <1>1
<1>5. SumOf(v, T) = SumOf(ones, All)
  BY <1>2, <1>4, SumOfParts
<1>. QED
  BY <1>1, <1>3, <1>5

LEMMA PartsAddUp ==
  ASSUME NEW U, IsFiniteSet(U), NEW f, \A x \in U : f[x] \in Int,
         NEW T, IsFiniteSet(T), NEW Part, \A k \in T : Part[k] \in SUBSET U,
         \A j, k \in T : j # k => Part[j] \intersect Part[k] = {},
         \A x \in U : \E k \in T : x \in Part[k],
         NEW counts, \A k \in T : counts[k] = Cardinality(Part[k]),
         NEW totals, \A k \in T : totals[k] = SumOf(f, Part[k])
  PROVE  SumOf(counts, T) = Cardinality(U) /\ SumOf(totals, T) = SumOf(f, U)
<1>. DEFINE All == UNION {Part[k] : k \in T}
<1>1. All = U
  OBVIOUS
<1>2. SumOf(counts, T) = Cardinality(All)
  BY CountOfParts
<1>3. SumOf(totals, T) = SumOf(f, All)
  BY SumOfParts
<1>. HIDE DEF All
<1>. QED
  BY <1>1, <1>2, <1>3

LEMMA CountDisjoint ==
  ASSUME NEW s, IsFiniteSet(s), NEW t, IsFiniteSet(t), s \intersect t = {}
  PROVE  Cardinality(s \union t) = Cardinality(s) + Cardinality(t)
<1>1. Cardinality(s \union t) = Cardinality(s) + Cardinality(t) - Cardinality(s \intersect t)
  BY FS_Union
<1>2. Cardinality(s \intersect t) = 0
  BY FS_EmptySet
<1>3. Cardinality(s) \in Int /\ Cardinality(t) \in Int
  BY FS_CardinalityType
<1>. QED
  BY <1>1, <1>2, <1>3

-----------------------------------------------------------------------------
(* The orders of the stream.                                               *)
LEMMA StreamTypes ==
  ASSUME FiguresTypeOK
  PROVE  /\ IsFiniteSet(DOMAIN stream) /\ Len(stream) \in Nat /\ Cardinality(DOMAIN stream) = Len(stream)
         /\ \A i \in DOMAIN stream : /\ stream[i] \in OrderRows
                                     /\ stream[i].value \in Int /\ stream[i].ts \in Nat
                                     /\ stream[i].status \in Statuses
<1>1. Len(stream) \in Nat /\ DOMAIN stream = 1..Len(stream)
  BY LenProperties DEF FiguresTypeOK
<1>2. IsFiniteSet(1..Len(stream)) /\ Cardinality(1..Len(stream)) = Len(stream)
  <2>. DEFINE n == Len(stream)
  <2>1. n \in Nat
    BY <1>1
  <2>. HIDE DEF n
  <2>2. IsFiniteSet(1..n) /\ Cardinality(1..n) = n
    BY <2>1, FS_Interval
  <2>. QED
    BY <2>2 DEF n
<1>3. \A i \in DOMAIN stream : stream[i] \in OrderRows
  BY <1>1, ElementOfSeq DEF FiguresTypeOK
<1>4. (\A x \in Times : x \in Nat) /\ (\A x \in Amounts : x \in Int)
  BY AnalyticsAssumption
<1>5. \A o \in OrderRows : o.value \in Int /\ o.ts \in Nat /\ o.status \in Statuses
  <2>1. ASSUME NEW o \in OrderRows PROVE o.value \in Int /\ o.ts \in Nat /\ o.status \in Statuses
    <3>. DEFINE v == o.value
                t == o.ts
    <3>1. v \in Amounts /\ t \in Times /\ o.status \in Statuses
      BY DEF OrderRows
    <3>. HIDE DEF v, t
    <3>2. v \in Int /\ t \in Nat
      BY <1>4, <3>1
    <3>. QED
      BY <3>1, <3>2 DEF v, t
  <2>. QED
    BY <2>1
<1>. QED
  BY <1>1, <1>2, <1>3, <1>5

Values == [i \in DOMAIN stream |-> stream[i].value]

LEMMA TotalIsSum ==
  ASSUME FiguresTypeOK, NEW rows \in SUBSET DOMAIN stream
  PROVE  IsFiniteSet(rows) /\ Total(stream, rows) = SumOf(Values, rows)
<1>. DEFINE f == [i \in rows |-> stream[i].value]
<1>1. IsFiniteSet(rows)
  BY StreamTypes, FS_Subset
<1>2. \A i \in rows : f[i] \in Int /\ f[i] = Values[i]
  BY StreamTypes DEF Values
<1>. HIDE DEF f
<1>3. SumOf(f, rows) = SumOf(Values, rows)
  BY <1>1, <1>2, SumSame
<1>. QED
  BY <1>1, <1>3 DEF Total, SumOf, f

LEMMA PeriodsMeet == FiguresTypeOK => AdjacentPeriodsShareAnInstant
<1>. SUFFICES ASSUME FiguresTypeOK, NEW a \in Times, NEW m \in Times, NEW b \in Times, a <= m, m <= b
              PROVE  LET s(x, y) == SummarizeOrders(stream, x, y)
                         common == {i \in DOMAIN stream : stream[i].ts = m}
                     IN  /\ s(a, m).count + s(m, b).count = s(a, b).count + Cardinality(common)
                         /\ s(a, m).total + s(m, b).total = s(a, b).total + Total(stream, common)
  BY DEF AdjacentPeriodsShareAnInstant
<1>. DEFINE all == Period(stream, a, b)
            first == Period(stream, a, m)
            second == Period(stream, m, b)
            common == {i \in DOMAIN stream : stream[i].ts = m}
            rest == second \ common
<1>1. /\ all \in SUBSET DOMAIN stream /\ first \in SUBSET DOMAIN stream
      /\ second \in SUBSET DOMAIN stream /\ common \in SUBSET DOMAIN stream
      /\ rest \in SUBSET DOMAIN stream
  BY DEF Period
<1>2. /\ first \union rest = all /\ first \intersect rest = {}
      /\ common \union rest = second /\ common \intersect rest = {}
  <2>1. a \in Int /\ m \in Int /\ b \in Int /\ \A i \in DOMAIN stream : stream[i].ts \in Int
    BY AnalyticsAssumption, StreamTypes
  <2>. QED
    BY <2>1 DEF Period, InPeriod
<1>. HIDE DEF all, first, second, common, rest
<1>3. /\ IsFiniteSet(first) /\ IsFiniteSet(rest) /\ IsFiniteSet(common)
  BY <1>1, TotalIsSum
<1>4. Cardinality(all) = Cardinality(first) + Cardinality(rest)
      /\ Cardinality(second) = Cardinality(common) + Cardinality(rest)
  BY <1>2, <1>3, CountDisjoint
<1>6. \A i \in DOMAIN stream : Values[i] \in Int
  BY StreamTypes DEF Values
<1>7. /\ SumOf(Values, all) = SumOf(Values, first) + SumOf(Values, rest)
      /\ SumOf(Values, second) = SumOf(Values, common) + SumOf(Values, rest)
  <2>. DEFINE U == DOMAIN stream
  <2>1. IsFiniteSet(U) /\ \A i \in U : Values[i] \in Int
    BY <1>6, StreamTypes
  <2>2. first \in SUBSET U /\ rest \in SUBSET U /\ common \in SUBSET U
    BY <1>1
  <2>. HIDE DEF U
  <2>3. /\ SumOf(Values, first \union rest) = SumOf(Values, first) + SumOf(Values, rest)
        /\ SumOf(Values, common \union rest) = SumOf(Values, common) + SumOf(Values, rest)
    BY <1>2, <2>1, <2>2, SumDisjoint
  <2>. QED
    BY <1>2, <2>3
<1>8. /\ Cardinality(first) \in Int /\ Cardinality(rest) \in Int /\ Cardinality(common) \in Int
      /\ SumOf(Values, first) \in Int /\ SumOf(Values, rest) \in Int /\ SumOf(Values, common) \in Int
  BY <1>1, <1>3, <1>6, StreamTypes, SumInt, FS_CardinalityType
<1>9. /\ Total(stream, first) + Total(stream, second) = Total(stream, all) + Total(stream, common)
      /\ Cardinality(first) + Cardinality(second) = Cardinality(all) + Cardinality(common)
  <2>1. /\ Total(stream, first) = SumOf(Values, first) /\ Total(stream, second) = SumOf(Values, second)
        /\ Total(stream, all) = SumOf(Values, all) /\ Total(stream, common) = SumOf(Values, common)
    BY <1>1, TotalIsSum
  <2>. QED
    BY <1>4, <1>7, <1>8, <2>1
<1>. QED
  BY <1>9 DEF SummarizeOrders, all, first, second, common

LEMMA Breakdowns == FiguresTypeOK => BreakdownsAddUp
<1>. SUFFICES ASSUME FiguresTypeOK, NEW a \in Times, NEW b \in Times
              PROVE  LET o == SummarizeOrders(stream, a, b)
                         c == SummarizeCompensations(stream, a, b)
                         d == SummarizeDisputes(stream, a, b)
                     IN  /\ SumFunction(o.by_status) = o.count
                         /\ SumFunction(d.by_verdict) = d.count
                         /\ SumFunction(c.by_decision) = c.count
                         /\ SumFunction(c.by_amount) = c.total
  BY DEF BreakdownsAddUp
<1>. DEFINE rows == Period(stream, a, b)
            counts == CountBy(stream, rows)
            totals == TotalBy(stream, rows)
            K == Keys(stream, rows)
            Part == [k \in K |-> Of(stream, rows, k)]
<1>1. rows \in SUBSET DOMAIN stream
  BY DEF Period
<1>. HIDE DEF rows
<1>2. IsFiniteSet(rows) /\ \A i \in rows : Values[i] \in Int
  BY <1>1, StreamTypes, TotalIsSum DEF Values
<1>3. /\ DOMAIN counts = K /\ DOMAIN totals = K
      /\ \A k \in K : counts[k] = Cardinality(Part[k])
  BY DEF CountBy, TotalBy
<1>4. /\ \A k \in K : Part[k] \in SUBSET rows
      /\ \A j, k \in K : j # k => Part[j] \intersect Part[k] = {}
      /\ \A i \in rows : \E k \in K : i \in Part[k]
  BY DEF Keys, Of
<1>5. \A k \in K : totals[k] = SumOf(Values, Part[k])
  <2>1. ASSUME NEW k \in K PROVE totals[k] = SumOf(Values, Part[k])
    <3>1. totals[k] = Total(stream, Part[k])
      BY DEF TotalBy
    <3>. HIDE DEF Part
    <3>. QED
      BY <1>1, <1>4, <3>1, TotalIsSum
  <2>. QED
    BY <2>1
<1>8. IsFiniteSet(K)
  <2>. DEFINE key == [i \in rows |-> stream[i].status]
  <2>1. K = {key[i] : i \in rows}
    BY DEF Keys
  <2>. HIDE DEF key, K
  <2>. QED
    BY <1>2, <2>1, ImageFinite
<1>. HIDE DEF counts, totals, Part, K
<1>9. SumOf(counts, K) = Cardinality(rows) /\ SumOf(totals, K) = SumOf(Values, rows)
  BY <1>2, <1>3, <1>4, <1>5, <1>8, PartsAddUp
<1>6. Total(stream, rows) = SumOf(Values, rows)
  BY <1>1, TotalIsSum
<1>7. SumFunction(counts) = Cardinality(rows) /\ SumFunction(totals) = Total(stream, rows)
  BY <1>3, <1>6, <1>9 DEF SumOf, SumFunction
<1>. QED
  BY <1>7 DEF SummarizeOrders, SummarizeCompensations, SummarizeDisputes, rows, counts, totals

-----------------------------------------------------------------------------
(* An order stands in one step of a funnel.                                *)
LEMMA FunnelOnce == FiguresTypeOK => FunnelCountsOrdersOnce
<1>. SUFFICES ASSUME FiguresTypeOK, NEW steps \in SetToSeqs(Statuses)
              PROVE  SumFunction(Funnel(stream, steps)) <= Len(stream)
  BY DEF FunnelCountsOrdersOnce
<1>. DEFINE T == 1..Cardinality(Statuses)
            counts == Funnel(stream, steps)
            Part == [k \in T |-> {i \in DOMAIN stream : stream[i].status = steps[k]}]
            All == UNION {Part[k] : k \in T}
<1>1. IsFiniteSet(T)
  BY AnalyticsAssumption, FS_CardinalityType, FS_Interval
<1>2. DOMAIN steps = T /\ \A j, k \in T : j # k => steps[j] # steps[k]
  BY DEF SetToSeqs
<1>. HIDE DEF T
<1>3. DOMAIN counts = T /\ \A k \in T : counts[k] = Cardinality(Part[k])
  BY <1>2 DEF Funnel
<1>4. /\ \A k \in T : Part[k] \in SUBSET DOMAIN stream
      /\ \A j, k \in T : j # k => Part[j] \intersect Part[k] = {}
  BY <1>2
<1>5. All \in SUBSET DOMAIN stream
  BY <1>4
<1>6. SumOf(counts, T) = Cardinality(All)
  <2>. DEFINE U == DOMAIN stream
  <2>1. IsFiniteSet(U) /\ \A k \in T : Part[k] \in SUBSET U
    BY <1>4, StreamTypes
  <2>2. \A k \in T : counts[k] = Cardinality(Part[k])
    BY <1>3
  <2>3. \A j, k \in T : j # k => Part[j] \intersect Part[k] = {}
    BY <1>4
  <2>. HIDE DEF counts, Part, U
  <2>. QED
    BY <1>1, <2>1, <2>2, <2>3, CountOfParts
<1>. HIDE DEF All, counts
<1>7. Cardinality(All) <= Len(stream)
  <2>1. Cardinality(All) <= Cardinality(DOMAIN stream)
    BY <1>5, StreamTypes, FS_Subset
  <2>. QED
    BY <2>1, StreamTypes
<1>8. SumFunction(counts) <= Len(stream)
  BY <1>3, <1>6, <1>7 DEF SumOf, SumFunction
<1>. QED
  BY <1>8 DEF counts

(* An order's cohort starts on its own day.                                *)
LEMMA OffsetIsZero ==
  ASSUME NEW ts \in Nat, NEW size \in Nat \ {0}
  PROVE  CohortOffset(ts, size) = 0
<1>1. Day \in Nat \ {0}
  BY AnalyticsAssumption
<1>2. ts - Day * (ts \div Day) \in 0..(Day - 1)
  <2>1. ts \div Day \in Nat /\ (ts \div Day) * Day <= ts /\ ts < (ts \div Day + 1) * Day
    BY <1>1, Quotients
  <2>. DEFINE d == ts \div Day
  <2>. HIDE DEF d
  <2>2. (d + 1) * Day = Day * d + Day /\ d * Day = Day * d /\ Day * d \in Nat
    BY <1>1, <2>1 DEF d
  <2>. QED
    BY <1>1, <2>1, <2>2 DEF d
<1>. DEFINE r == ts - Day * (ts \div Day)
<1>3. \A x \in 0..(Day - 1) : x \div Day = 0
  BY <1>1
<1>. HIDE DEF r
<1>4. r \div Day = 0
  BY <1>2, <1>3 DEF r
<1>5. 0 \div size = 0
  OBVIOUS
<1>. QED
  BY <1>4, <1>5 DEF CohortOffset, CohortStart, r

(* Every cohort is retained completely in its period 0 and has no other.   *)
CohortsNeverAge ==
    \A size \in {1, 7, 30} :
       LET r == CohortRetention(stream, size)
       IN  \A l \in DOMAIN r : DOMAIN r[l] = {0} /\ r[l][0][1] = r[l][0][2]

LEMMA CohortsStay == FiguresTypeOK => CohortsNeverAge
<1>. SUFFICES ASSUME FiguresTypeOK, NEW size \in {1, 7, 30},
                     NEW l \in DOMAIN CohortRetention(stream, size)
              PROVE  LET r == CohortRetention(stream, size)
                     IN  DOMAIN r[l] = {0} /\ r[l][0][1] = r[l][0][2]
  BY DEF CohortsNeverAge
<1>. DEFINE known == {stream[i] : i \in DOMAIN stream}
            named == {o \in known : o.customer # NoCustomer}
            cohort == {o \in named : CohortLabel(o.ts, size) = l}
            of(s) == {o.customer : o \in s}
            r == CohortRetention(stream, size)
            ages == {CohortOffset(o.ts, size) : o \in cohort}
            kept(k) == {o \in cohort : CohortOffset(o.ts, size) = k}
<1>1. \A o \in cohort : CohortOffset(o.ts, size) = 0
  BY StreamTypes, OffsetIsZero
<1>2. cohort # {}
  BY DEF CohortRetention
<1>3. ages = {0} /\ kept(0) = cohort
  BY <1>1, <1>2
<1>4. r[l] = [k \in ages |-> <<Cardinality(of(kept(k))), Cardinality(of(cohort))>>]
  BY DEF CohortRetention
<1>. HIDE DEF ages, cohort, kept, r
<1>5. DOMAIN r[l] = {0} /\ r[l][0] = <<Cardinality(of(kept(0))), Cardinality(of(cohort))>>
  BY <1>3, <1>4
<1>6. of(kept(0)) = of(cohort)
  BY <1>3
<1>. HIDE DEF of
<1>7. r[l][0][1] = r[l][0][2]
  BY <1>5, <1>6
<1>. QED
  BY <1>5, <1>7 DEF r

-----------------------------------------------------------------------------
(* The segments of customers.                                              *)
LEMMA MaxIsThere ==
  ASSUME NEW U \in SUBSET Int, IsFiniteSet(U), U # {}
  PROVE  Max(U) \in U
<1>. DEFINE Holds == {s \in SUBSET U : s # {} => \E x \in s : \A y \in s : x >= y}
<1>1. {} \in Holds
  OBVIOUS
<1>2. ASSUME NEW s \in SUBSET U, NEW x \in U, s \in Holds, x \notin s
      PROVE  s \union {x} \in Holds
  <2>1. CASE s = {}
    BY <2>1
  <2>2. CASE s # {}
    <3>1. PICK m \in s : \A y \in s : m >= y
      BY <1>2, <2>2
    <3>2. CASE m >= x
      BY <3>1, <3>2
    <3>3. CASE x > m
      <4>1. \A y \in s \union {x} : x >= y
        BY <3>1, <3>3
      <4>. QED
        BY <4>1
    <3>. QED
      BY <3>2, <3>3
  <2>. QED
    BY <2>1, <2>2
<1>3. U \in Holds
  <2>. HIDE DEF Holds
  <2>. QED
    BY <1>1, <1>2, ElementInduction
<1>. QED
  BY <1>3 DEF Max

(* A customer who bought once or more is never "regular".                  *)
LEMMA Segments ==
  ASSUME NEW r \in Nat, NEW f \in Nat \ {0}, NEW m \in Int
  PROVE  ClassifySegment(r, f, m) \in {"champions", "loyal", "at_risk", "hibernating", "new"}
BY DEF ClassifySegment

LEMMA SegmentsMonotone ==
  ASSUME NEW r \in Nat, NEW f \in Nat \ {0}, NEW m \in Int,
         NEW s \in Nat, NEW g \in Nat \ {0}, NEW n \in Int, r <= s, f >= g, m >= n
  PROVE  Standing(ClassifySegment(r, f, m)) >= Standing(ClassifySegment(s, g, n))
<1>1. /\ Standing("hibernating") = 0 /\ Standing("at_risk") = 1 /\ Standing("new") = 2
      /\ Standing("loyal") = 3 /\ Standing("champions") = 4
  BY DEF Standing
<1>. QED
  BY <1>1 DEF ClassifySegment

LEMMA CustomerFigures ==
  ASSUME FiguresTypeOK, NEW c \in CustomersOf(stream)
  PROVE  LET x == Rfm(stream)[c]
         IN  /\ x.recency \in Nat /\ x.frequency \in Nat \ {0} /\ x.monetary \in Int
             /\ x.segment = ClassifySegment(x.recency, x.frequency, x.monetary)
<1>. DEFINE mine == {i \in DOMAIN stream : stream[i].customer = c}
            dates == {stream[i].ts : i \in mine}
            last == Max(dates)
            recency == IF Now < last THEN 0 ELSE (Now - last) \div Day
            monetary == SumFunctionOnSet([i \in mine |-> stream[i].value], mine)
            frequency == Cardinality(mine)
<1>1. mine # {} /\ mine \in SUBSET DOMAIN stream
  BY DEF CustomersOf
<1>2. IsFiniteSet(mine) /\ monetary = SumOf(Values, mine)
  BY <1>1, TotalIsSum DEF Total
<1>3. frequency \in Nat \ {0}
  BY <1>1, <1>2, FS_EmptySet, FS_CardinalityType
<1>4. monetary \in Int
  <2>1. IsFiniteSet(DOMAIN stream) /\ \A i \in DOMAIN stream : Values[i] \in Int
    BY StreamTypes DEF Values
  <2>. HIDE DEF monetary, mine
  <2>. QED
    BY <1>1, <1>2, <2>1, SumInt
<1>5. last \in Nat
  <2>. DEFINE ts == [i \in mine |-> stream[i].ts]
  <2>1. dates = {ts[i] : i \in mine} /\ dates \in SUBSET Nat /\ dates # {}
    BY <1>1, StreamTypes
  <2>. HIDE DEF ts, dates, mine
  <2>2. IsFiniteSet(dates)
    BY <1>2, <2>1, ImageFinite
  <2>. QED
    BY <2>1, <2>2, MaxIsThere
<1>. HIDE DEF last
<1>6. recency \in Nat
  BY <1>5, AnalyticsAssumption
<1>7. Rfm(stream)[c] = [recency |-> recency, frequency |-> frequency, monetary |-> monetary,
                        segment |-> ClassifySegment(recency, frequency, monetary)]
  BY DEF Rfm, last
<1>. HIDE DEF recency, monetary, frequency
<1>. QED
  BY <1>3, <1>4, <1>6, <1>7

LEMMA SegmentsAddUp == FiguresTypeOK => SumFunction(SegmentCounts(stream)) = Cardinality(CustomersOf(stream))
<1>. SUFFICES ASSUME FiguresTypeOK
              PROVE  SumFunction(SegmentCounts(stream)) = Cardinality(CustomersOf(stream))
  OBVIOUS
<1>. DEFINE C == CustomersOf(stream)
            rfm == Rfm(stream)
            counts == SegmentCounts(stream)
            S == {rfm[c].segment : c \in C}
            Part == [k \in S |-> {c \in C : rfm[c].segment = k}]
            All == UNION {Part[k] : k \in S}
<1>1. DOMAIN rfm = C
  BY DEF Rfm
<1>2. IsFiniteSet(C)
  <2>. DEFINE who == [i \in DOMAIN stream |-> stream[i].customer]
              U == DOMAIN stream
              people == {who[i] : i \in U}
  <2>1. C \subseteq people
    BY DEF CustomersOf
  <2>2. IsFiniteSet(U)
    BY StreamTypes
  <2>. HIDE DEF who, U
  <2>3. IsFiniteSet(people)
    BY <2>2, ImageFinite
  <2>. HIDE DEF C, people
  <2>. QED
    BY <2>1, <2>3, FS_Subset
<1>3. DOMAIN counts = S /\ \A k \in S : counts[k] = Cardinality(Part[k])
  BY <1>1 DEF SegmentCounts
<1>4. /\ \A k \in S : Part[k] \in SUBSET C
      /\ \A j, k \in S : j # k => Part[j] \intersect Part[k] = {}
      /\ All = C
  <2>1. \A k \in S : Part[k] = {c \in C : rfm[c].segment = k}
    OBVIOUS
  <2>2. \A c \in C : rfm[c].segment \in S
    OBVIOUS
  <2>. HIDE DEF Part, S, rfm, C
  <2>3. \A c \in C : c \in Part[rfm[c].segment]
    BY <2>1, <2>2
  <2>4. \A k \in S : Part[k] \in SUBSET C
    BY <2>1
  <2>5. \A j, k \in S : j # k => Part[j] \intersect Part[k] = {}
    BY <2>1
  <2>. QED
    BY <2>2, <2>3, <2>4, <2>5
<1>5. IsFiniteSet(S)
  <2>. DEFINE segment == [c \in C |-> rfm[c].segment]
  <2>1. S = {segment[c] : c \in C}
    OBVIOUS
  <2>. HIDE DEF segment, S, C
  <2>. QED
    BY <1>2, <2>1, ImageFinite
<1>6. SumOf(counts, S) = Cardinality(All)
  <2>1. \A k \in S : Part[k] \in SUBSET C
    BY <1>4
  <2>2. \A j, k \in S : j # k => Part[j] \intersect Part[k] = {}
    BY <1>4
  <2>3. \A k \in S : counts[k] = Cardinality(Part[k])
    BY <1>3
  <2>. HIDE DEF counts, S, Part, C
  <2>. QED
    BY <1>2, <1>5, <2>1, <2>2, <2>3, CountOfParts
<1>. HIDE DEF All, counts, S
<1>7. SumFunction(counts) = Cardinality(C)
  BY <1>3, <1>4, <1>6 DEF SumOf, SumFunction
<1>. QED
  BY <1>7 DEF counts

LEMMA RfmFigures ==
  ASSUME FiguresTypeOK, NEW c \in DOMAIN Rfm(stream)
  PROVE  LET x == Rfm(stream)[c]
         IN  /\ x.recency \in Nat /\ x.frequency \in Nat \ {0} /\ x.monetary \in Int
             /\ x.segment = ClassifySegment(x.recency, x.frequency, x.monetary)
<1>1. DOMAIN Rfm(stream) = CustomersOf(stream)
  BY DEF Rfm
<1>. QED
  BY <1>1, CustomerFigures

LEMMA SegmentsFollow == FiguresTypeOK => SegmentsFollowValue
<1>. SUFFICES ASSUME FiguresTypeOK PROVE SegmentsFollowValue
  OBVIOUS
<1>. DEFINE rfm == Rfm(stream)
<1>1. \A c \in DOMAIN rfm :
         /\ rfm[c].recency \in Nat /\ rfm[c].frequency \in Nat \ {0} /\ rfm[c].monetary \in Int
         /\ rfm[c].segment = ClassifySegment(rfm[c].recency, rfm[c].frequency, rfm[c].monetary)
  BY RfmFigures
<1>. HIDE DEF rfm
<1>2. ASSUME NEW c \in DOMAIN rfm, NEW d \in DOMAIN rfm, rfm[c].recency <= rfm[d].recency,
             rfm[c].frequency >= rfm[d].frequency, rfm[c].monetary >= rfm[d].monetary
      PROVE  Standing(rfm[c].segment) >= Standing(rfm[d].segment)
  BY <1>1, <1>2, SegmentsMonotone
<1>. QED
  BY <1>2, SegmentsAddUp DEF SegmentsFollowValue, rfm

(* The summaries of any orders are the sums of their parts, over time, by  *)
(* status, verdict, decision and amount; every customer stands in the one  *)
(* segment their orders earn, every order in one step of a funnel: for     *)
(* every stream, every set of times and amounts.                           *)
THEOREM FiguresAlwaysAddUp == FiguresSpec => []FiguresAddUp
<1>1. FiguresTypeOK => FiguresAddUp
  BY PeriodsMeet, Breakdowns, SegmentsFollow, FunnelOnce DEF FiguresAddUp
<1>. QED
  BY <1>1, FiguresInvariant, PTL

(* Two promises of the data pipeline's README that no stream of orders with*)
(* times in UTC, as the connector's are, can keep.  "Cohort retention - by day / week / month cohort" (README.md:36):*)
(* cohort_retention() starts a cohort on the order's own day, so whoever   *)
(* comes back is in period 0 of a cohort, as the first time.               *)
THEOREM FiguresCohortsNeverAge == FiguresSpec => []CohortsNeverAge
BY CohortsStay, FiguresInvariant, PTL

NobodyIsRegular == \A c \in DOMAIN Rfm(stream) : Rfm(stream)[c].segment # "regular"

(* "Segments: champions, loyal, at_risk, hibernating, new, regular"        *)
(* (README.md:34): _classify_segment() answers one of the other five for    *)
(* everybody who ordered.                                                  *)
THEOREM FiguresNobodyIsRegular == FiguresSpec => []NobodyIsRegular
<1>1. ASSUME FiguresTypeOK, NEW c \in DOMAIN Rfm(stream)
      PROVE  Rfm(stream)[c].segment # "regular"
  <2>. DEFINE x == Rfm(stream)[c]
  <2>1. /\ x.recency \in Nat /\ x.frequency \in Nat \ {0} /\ x.monetary \in Int
        /\ x.segment = ClassifySegment(x.recency, x.frequency, x.monetary)
    BY <1>1, RfmFigures
  <2>. HIDE DEF x
  <2>2. x.segment # "regular"
    BY <2>1, Segments
  <2>. QED
    BY <2>2 DEF x
<1>2. FiguresTypeOK => NobodyIsRegular
  BY <1>1 DEF NobodyIsRegular
<1>. QED
  BY <1>2, FiguresInvariant, PTL
=============================================================================
