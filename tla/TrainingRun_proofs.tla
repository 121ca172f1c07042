--------------------------- MODULE TrainingRun_proofs ---------------------------
(***************************************************************************)
(* Theorems about TrainingRun, for any configurations, intervals and       *)
(* losses, any number of batches per epoch and any number of crashes and   *)
(* resumes.                                                                *)
(*                                                                         *)
(* Inv is the inductive invariant: the run is the uninterrupted one up to  *)
(* its step and its gradients (RunInv), and so are the checkpoints that    *)
(* can be read (CheckpointsInv); as long as no process died, the log is    *)
(* whole (LogInv) and the best checkpoint is the best model it names       *)
(* (BestInv).                                                              *)
(***************************************************************************)
EXTENDS TrainingRun, SequenceTheorems, WellFoundedInduction, TLAPS

Parameters ==
    /\ BatchesPerEpoch \in Nat \ {0}
    /\ Accumulations \subseteq Nat \ {0} /\ Accumulations # {} /\ Stages # {}
    /\ StepLimits \subseteq 0 .. Len(ValidationLoss) /\ StepLimits # {}
    /\ ValidationLoss \in Seq(Int)
    /\ \A i \in 1 .. Len(ValidationLoss) : ValidationLoss[i] < Infinity

-----------------------------------------------------------------------------
(* The inductive invariant *)

\* The batches of the first n steps, and the batches up to a position.
Trained(c, n) == n * c.accumulation
Passed(p) == p.epoch * BatchesPerEpoch + p.index

\* The first n batches, as a run of c trains on them.
Batches(c, n) == [i \in 1 .. n |-> Batch(c, i - 1)]

Doing == {"dead", "training", "validating", "summary", "saving best", "saving step",
          "saving last", "saving missing best"}

\* The gradients are of the batches after the last step's, and the next batch comes
\* after them.
RunInv ==
    /\ doing \in Doing /\ config \in Config
    /\ step \in 0 .. Len(ValidationLoss)
    /\ doing = "training" => step < config.maxSteps
    /\ doing = "validating" => step # 0 /\ Due(ValidationInterval, step)
    /\ model = Batches(config, Trained(config, step))
    /\ gradients \in Seq(Nat \X Nat) /\ Len(gradients) < config.accumulation
    /\ \A i \in 1 .. Len(gradients) :
          gradients[i] = Batch(config, Trained(config, step) + i - 1)
    /\ position \in [epoch : Nat, index : 0 .. BatchesPerEpoch - 1]
    /\ Passed(position) = Trained(config, step) + Len(gradients)

Exact(c) ==
    /\ c.config \in Config /\ c.step \in 0 .. Len(ValidationLoss)
    /\ c.compatibility = Compatibility(c.config)
    /\ c.model = Batches(c.config, Trained(c.config, c.step))
CheckpointsInv ==
    \A name \in DOMAIN checkpoints : checkpoints[name].readable => Exact(checkpoints[name])

\* An uninterrupted run's log after n steps, and what it is while step n is validated.
EventsOf(i) ==
    IF Due(ValidationInterval, i) THEN <<TrainEvent(i), ValidationEvent(i)>> ELSE <<TrainEvent(i)>>
LogOf(n) == FlattenSeq([i \in 1 .. n |-> EventsOf(i)])

Event == [event : {"train", "validation"}, step : Nat, loss : Int]

\* As long as the run went forward it has logged an uninterrupted run, and no checkpoint is
\* ahead of it.
Forward == crashes = 0 /\ ~rewound
LogInv ==
    /\ log \in [events : Seq(Event), end : {"newline", "cut", "garbled"}]
    /\ crashes \in Nat /\ rewound \in BOOLEAN
    /\ crashes = 0 => log.end = "newline"
    /\ Forward =>
          /\ log.events = IF doing = "validating" THEN Append(LogOf(step - 1), TrainEvent(step))
                          ELSE LogOf(step)
          /\ IF step = 0 THEN log.events = <<>>
             ELSE log.events # <<>> /\ Last(log.events).step = step
          /\ \A name \in DOMAIN checkpoints : checkpoints[name].readable =>
                checkpoints[name].step <= step

\* The best loss is the least that was logged, and the best checkpoint has it, or will have
\* it as soon as it is saved.
BestHasLoss ==
    /\ <<"best">> \in DOMAIN checkpoints
    /\ LossAt(checkpoints[<<"best">>].step) = best
BestInv ==
    crashes = 0 =>
        /\ best \in Int /\ \A loss \in Validations : best <= loss
        /\ best \in Validations \/ (best = Infinity /\ Validations = {})
        /\ doing = "saving best" => LossAt(step) = best
        /\ doing # "saving best" /\ Validations # {} => BestHasLoss
        /\ doing = "saving missing best" => Validations = {}
        /\ SummaryNamesBest

Inv == RunInv /\ CheckpointsInv /\ LogInv /\ BestInv

-----------------------------------------------------------------------------
(* Arithmetic and configurations *)

LEMMA DivisionNamed ==
  ASSUME NEW n \in Nat, NEW d \in Nat \ {0}, NEW q \in Int, NEW r \in Int,
         q = n \div d, r = n % d
  PROVE  n = q * d + r /\ r \in 0 .. d - 1 /\ q \in Nat
OBVIOUS

LEMMA Distributed == ASSUME NEW m \in Nat, NEW d \in Nat PROVE (m + 1) * d = m * d + d
OBVIOUS

LEMMA ConfigFields ==
  ASSUME Parameters, NEW c \in Config
  PROVE  /\ c.accumulation \in Nat \ {0} /\ c.maxSteps \in Nat
         /\ c.maxSteps <= Len(ValidationLoss) /\ Len(ValidationLoss) \in Nat
         /\ Schedule(c) \in Nat
<1>1. /\ c.accumulation \in Accumulations /\ c.maxSteps \in StepLimits
      /\ Len(ValidationLoss) \in Nat
  BY DEF Parameters, Config
<1>2. c.accumulation \in Nat \ {0} /\ c.maxSteps \in 0 .. Len(ValidationLoss)
  BY <1>1 DEF Parameters
<1>3. c.maxSteps \in Nat /\ c.maxSteps <= Len(ValidationLoss)
  BY <1>1, <1>2
<1> QED BY <1>1, <1>2, <1>3 DEF Schedule, None

LEMMA TrainedSteps ==
  ASSUME Parameters, NEW c \in Config, NEW n \in Nat
  PROVE  /\ Trained(c, n) \in Nat /\ Trained(c, 0) = 0
         /\ Trained(c, n + 1) = Trained(c, n) + c.accumulation
<1>1. c.accumulation \in Nat
  BY ConfigFields
<1> QED BY <1>1, Distributed DEF Trained

\* The batches of a run that starts anew are found where the epochs are.
LEMMA StartsInPlace ==
  ASSUME Parameters, NEW n \in Nat
  PROVE  /\ StartAt(n) \in [epoch : Nat, index : 0 .. BatchesPerEpoch - 1]
         /\ Passed(StartAt(n)) = n
<1>1. PICK q \in Int, r \in Int : q = n \div BatchesPerEpoch /\ r = n % BatchesPerEpoch
  BY DEF Parameters
<1>2. BatchesPerEpoch \in Nat \ {0}
  BY DEF Parameters
<1>3. n = q * BatchesPerEpoch + r /\ r \in 0 .. BatchesPerEpoch - 1 /\ q \in Nat
  BY <1>1, <1>2, DivisionNamed
<1>4. StartAt(n) = [epoch |-> q, index |-> r]
  BY <1>1 DEF StartAt
<1> QED BY <1>3, <1>4 DEF Passed

\* The next batch is the one after those passed.
LEMMA NextInPlace ==
  ASSUME Parameters, NEW p \in [epoch : Nat, index : 0 .. BatchesPerEpoch - 1],
         NEW g \in Seq(Nat \X Nat)
  PROVE  LET next == NextBatch(p, g)
         IN  /\ next.position \in [epoch : Nat, index : 0 .. BatchesPerEpoch - 1]
             /\ Passed(p) \in Nat /\ Passed(next.position) = Passed(p) + 1
             /\ next.gradients = Append(g, Batch(config, Passed(p)))
<1>1. /\ BatchesPerEpoch \in Nat \ {0} /\ p.epoch \in Nat
      /\ p.index \in 0 .. BatchesPerEpoch - 1
  BY DEF Parameters
<1>2. p.epoch * BatchesPerEpoch \in Nat
  BY <1>1
<1>3. NextBatch(p, g).gradients = Append(g, Batch(config, Passed(p))) /\ Passed(p) \in Nat
  BY <1>1, <1>2 DEF NextBatch, Passed
<1>4. CASE p.index + 1 < BatchesPerEpoch
  <2>1. NextBatch(p, g).position = [p EXCEPT !.index = p.index + 1]
    BY <1>4 DEF NextBatch
  <2>2. [p EXCEPT !.index = p.index + 1] \in [epoch : Nat, index : 0 .. BatchesPerEpoch - 1]
    <3>1. p.index + 1 \in 0 .. BatchesPerEpoch - 1
      BY <1>1, <1>4
    <3> QED BY <3>1
  <2>3. Passed([p EXCEPT !.index = p.index + 1]) = p.epoch * BatchesPerEpoch + (p.index + 1)
    BY <1>1 DEF Passed
  <2> QED BY <1>1, <1>2, <1>3, <2>1, <2>2, <2>3 DEF Passed
<1>5. CASE ~(p.index + 1 < BatchesPerEpoch)
  <2>1. NextBatch(p, g).position = [epoch |-> p.epoch + 1, index |-> 0]
    BY <1>5 DEF NextBatch
  <2>2. p.index + 1 = BatchesPerEpoch
    BY <1>1, <1>5
  <2>3. (p.epoch + 1) * BatchesPerEpoch = p.epoch * BatchesPerEpoch + BatchesPerEpoch
    BY <1>1, Distributed
  <2>4. Passed([epoch |-> p.epoch + 1, index |-> 0]) = (p.epoch + 1) * BatchesPerEpoch + 0
    BY DEF Passed
  <2>5. [epoch |-> p.epoch + 1, index |-> 0] \in [epoch : Nat, index : 0 .. BatchesPerEpoch - 1]
    BY <1>1
  <2> QED BY <1>1, <1>2, <1>3, <2>1, <2>2, <2>3, <2>4, <2>5 DEF Passed
<1> QED BY <1>4, <1>5

\* Compatible configurations train alike: on the same batches in a step, under the same
\* schedule.
LEMMA CompatibleTrainAlike ==
  ASSUME NEW c \in Config, NEW d \in Config, Compatibility(c) = Compatibility(d)
  PROVE  c.accumulation = d.accumulation /\ Schedule(c) = Schedule(d)
<1>1. CASE c.stage = "pretrain" /\ d.stage = "pretrain"
  BY <1>1 DEF Compatibility
<1>2. CASE c.stage # "pretrain" /\ d.stage # "pretrain"
  BY <1>2 DEF Compatibility, Schedule, Config
<1>3. CASE c.stage = "pretrain" <=> d.stage # "pretrain"
  BY <1>3 DEF Compatibility, Config
<1> QED BY <1>1, <1>2, <1>3

LEMMA BatchesAlike ==
  ASSUME NEW c \in Config, NEW d \in Config, Compatibility(c) = Compatibility(d), NEW n
  PROVE  Trained(c, n) = Trained(d, n) /\ \A m : Batches(c, m) = Batches(d, m)
BY CompatibleTrainAlike DEF Trained, Batches, Batch

\* A step's batches follow those of the steps before.
LEMMA BatchesFollow ==
  ASSUME Parameters, NEW c \in Config, NEW m \in Nat, NEW g \in Seq(Nat \X Nat),
         \A i \in 1 .. Len(g) : g[i] = Batch(c, m + i - 1)
  PROVE  Batches(c, m) \o g = Batches(c, m + Len(g))
<1> DEFINE B == Batches(c, m)
<1>1. \A i \in 1 .. m : B[i] = Batch(c, i - 1) /\ Batch(c, i - 1) \in Nat \X Nat
  BY ConfigFields DEF Batches, Batch
<1>2. B \in Seq(Nat \X Nat) /\ Len(B) = m
  BY <1>1 DEF Batches
<1>3. Len(g) \in Nat
  OBVIOUS
<1> HIDE DEF B
<1>4. /\ B \o g \in Seq(Nat \X Nat) /\ Len(B \o g) = m + Len(g)
      /\ \A i \in 1 .. m + Len(g) :
            (B \o g)[i] = IF i <= m THEN B[i] ELSE g[i - m]
  BY <1>2, ConcatProperties
<1>5. \A i \in 1 .. m + Len(g) : (B \o g)[i] = Batch(c, i - 1)
  <2> SUFFICES ASSUME NEW i \in 1 .. m + Len(g) PROVE (B \o g)[i] = Batch(c, i - 1)
    OBVIOUS
  <2>1. CASE i <= m
    BY <1>1, <1>4, <2>1
  <2>2. CASE ~(i <= m)
    <3>1. i - m \in 1 .. Len(g) /\ m + (i - m) - 1 = i - 1
      BY <1>3, <2>2
    <3> QED BY <1>4, <2>2, <3>1
  <2> QED BY <2>1, <2>2
<1>6. B \o g = [i \in 1 .. m + Len(g) |-> (B \o g)[i]]
  <2>1. B \o g \in [1 .. m + Len(g) -> Nat \X Nat]
    BY <1>4, LenProperties
  <2> QED BY <2>1
<1>7. B \o g = [i \in 1 .. m + Len(g) |-> Batch(c, i - 1)]
  BY <1>5, <1>6
<1> QED BY <1>7 DEF B, Batches

-----------------------------------------------------------------------------
(* The uninterrupted log.  FlattenSeq is defined by recursion over the     *)
(* sequences it joins: that one sequence more is appended to what the      *)
(* others make is shown with a least counterexample.                       *)

LEMMA Smallest ==
  ASSUME NEW T, T \subseteq Nat, T # {}
  PROVE  \E x \in T : \A y \in T : x <= y
<1>1. PICK x \in T : \A y \in T : ~ (<<y, x>> \in OpToRel(<, Nat))
  BY NatLessThanWellFounded, WFMin
<1>2. \A y \in T : <<y, x>> \in OpToRel(<, Nat) <=> y < x
  BY DEF OpToRel
<1>3. \A y \in T : ~(y < x)
  BY <1>1, <1>2, Zenon
<1> HIDE <1>1, <1>2
<1> QED BY <1>3

\* f[i] joins the events of the first i steps.
Joins(f, n) == f = [i \in 1 .. n |-> IF i = 1 THEN EventsOf(i) ELSE f[i - 1] \o EventsOf(i)]

LEMMA JoinsExist == \A n \in Nat : \E f : Joins(f, n)
<1> DEFINE T == {n \in Nat : ~ \E f : Joins(f, n)}
<1> SUFFICES ASSUME T # {} PROVE FALSE
  OBVIOUS
<1>1. PICK n \in T : \A m \in T : n <= m
  <2>1. T \subseteq Nat
    OBVIOUS
  <2> HIDE DEF T
  <2> QED BY <2>1, Smallest
<1>2. CASE n = 0
  <2> DEFINE f == [i \in 1 .. 0 |-> EventsOf(i)]
  <2>1. f = [i \in 1 .. 0 |-> IF i = 1 THEN EventsOf(i) ELSE f[i - 1] \o EventsOf(i)]
    OBVIOUS
  <2> QED BY <1>1, <1>2, <2>1 DEF Joins
<1>3. CASE n # 0
  <2>1. n \in Nat /\ n - 1 \in Nat /\ n - 1 \notin T
    BY <1>1, <1>3
  <2>2. PICK g : Joins(g, n - 1)
    BY <2>1
  <2> DEFINE f == [i \in 1 .. n |-> IF i = n THEN IF n = 1 THEN EventsOf(n)
                                                  ELSE g[n - 1] \o EventsOf(n)
                                    ELSE g[i]]
  <2>3. ASSUME NEW i \in 1 .. n
        PROVE  f[i] = IF i = 1 THEN EventsOf(i) ELSE f[i - 1] \o EventsOf(i)
    <3>1. g = [j \in 1 .. n - 1 |-> IF j = 1 THEN EventsOf(j) ELSE g[j - 1] \o EventsOf(j)]
      BY <2>2 DEF Joins
    <3>2. CASE i = n
      <4>1. n # 1 => n - 1 \in 1 .. n /\ f[n - 1] = g[n - 1]
        BY <2>1
      <4> QED BY <3>2, <4>1
    <3>3. CASE i # n
      <4>1. i \in 1 .. n - 1 /\ f[i] = g[i]
        BY <2>1, <3>3
      <4>2. g[i] = IF i = 1 THEN EventsOf(i) ELSE g[i - 1] \o EventsOf(i)
        BY <3>1, <4>1
      <4>3. i # 1 => f[i - 1] = g[i - 1]
        BY <2>1, <3>3
      <4> QED BY <4>1, <4>2, <4>3
    <3> QED BY <3>2, <3>3
  <2>4. f = [i \in 1 .. n |-> IF i = 1 THEN EventsOf(i) ELSE f[i - 1] \o EventsOf(i)]
    <3>1. DOMAIN f = 1 .. n /\ f = [i \in DOMAIN f |-> f[i]]
      OBVIOUS
    <3> HIDE DEF f
    <3> QED BY <2>3, <3>1
  <2> QED BY <1>1, <2>4 DEF Joins
<1> QED BY <1>2, <1>3

LEMMA JoinsAgree ==
  ASSUME NEW m \in Nat, NEW n \in Nat, m <= n, NEW f, NEW g, Joins(f, m), Joins(g, n)
  PROVE  \A i \in 1 .. m : f[i] = g[i]
<1> DEFINE T == {i \in 1 .. m : f[i] # g[i]}
<1> SUFFICES ASSUME T # {} PROVE FALSE
  OBVIOUS
<1>1. PICK k \in T : \A j \in T : k <= j
  <2>1. T \subseteq Nat
    OBVIOUS
  <2> HIDE DEF T
  <2> QED BY <2>1, Smallest
<1>2. k \in 1 .. m /\ k \in 1 .. n /\ f[k] # g[k]
  BY <1>1
<1>3. /\ f[k] = IF k = 1 THEN EventsOf(k) ELSE f[k - 1] \o EventsOf(k)
      /\ g[k] = IF k = 1 THEN EventsOf(k) ELSE g[k - 1] \o EventsOf(k)
  BY <1>2 DEF Joins
<1>4. CASE k = 1
  BY <1>2, <1>3, <1>4
<1>5. CASE k # 1
  <2>1. k - 1 \in 1 .. m /\ ~(k <= k - 1)
    BY <1>2, <1>5
  <2>2. f[k - 1] = g[k - 1]
    BY <1>1, <2>1
  <2> QED BY <1>2, <1>3, <1>5, <2>2
<1> QED BY <1>4, <1>5

LEMMA LogJoins ==
  ASSUME NEW n \in Nat \ {0}
  PROVE  \E f : Joins(f, n) /\ LogOf(n) = f[n]
<1> DEFINE seqs == [i \in 1 .. n |-> EventsOf(i)]
           F == CHOOSE f : f = [i \in 1 .. Len(seqs) |-> IF i = 1 THEN seqs[i]
                                                         ELSE f[i - 1] \o seqs[i]]
           G == CHOOSE f : Joins(f, n)
<1>1. Len(seqs) = n /\ \A i \in 1 .. n : seqs[i] = EventsOf(i)
  OBVIOUS
<1>2. LogOf(n) = F[Len(seqs)]
  BY <1>1 DEF LogOf, FlattenSeq
<1>3. \A f : /\ Joins(f, n) => f = [i \in 1 .. Len(seqs) |-> IF i = 1 THEN seqs[i]
                                                             ELSE f[i - 1] \o seqs[i]]
             /\ f = [i \in 1 .. Len(seqs) |-> IF i = 1 THEN seqs[i] ELSE f[i - 1] \o seqs[i]]
                  => Joins(f, n)
  <2> SUFFICES ASSUME NEW f
               PROVE  [i \in 1 .. n |-> IF i = 1 THEN EventsOf(i) ELSE f[i - 1] \o EventsOf(i)]
                        = [i \in 1 .. Len(seqs) |-> IF i = 1 THEN seqs[i]
                                                    ELSE f[i - 1] \o seqs[i]]
    BY DEF Joins
  <2> HIDE DEF seqs
  <2> QED BY <1>1
<1>4. PICK h : Joins(h, n)
  BY JoinsExist
<1>5. h = [i \in 1 .. Len(seqs) |-> IF i = 1 THEN seqs[i] ELSE h[i - 1] \o seqs[i]]
  BY <1>3, <1>4
<1>6. F = [i \in 1 .. Len(seqs) |-> IF i = 1 THEN seqs[i] ELSE F[i - 1] \o seqs[i]]
  BY <1>5
<1>7. Joins(F, n)
  BY <1>3, <1>6
<1> QED BY <1>1, <1>2, <1>7

\* One step more adds its events to the log.
LEMMA LogGrows ==
  ASSUME NEW n \in Nat
  PROVE  /\ n = 0 => LogOf(n) = <<>>
         /\ n = 0 => LogOf(n + 1) = EventsOf(n + 1)
         /\ n # 0 => LogOf(n + 1) = LogOf(n) \o EventsOf(n + 1)
<1>1. ASSUME n = 0 PROVE LogOf(n) = <<>>
  BY <1>1 DEF LogOf, FlattenSeq
<1>2. PICK g : Joins(g, n + 1) /\ LogOf(n + 1) = g[n + 1]
  <2>1. n + 1 \in Nat \ {0}
    OBVIOUS
  <2> QED BY <2>1, LogJoins
<1>3. g[n + 1] = IF n = 0 THEN EventsOf(n + 1) ELSE g[n] \o EventsOf(n + 1)
  <2>1. PICK k \in Nat : k = n + 1
    OBVIOUS
  <2>2. k \in 1 .. k /\ k - 1 = n /\ (k = 1 <=> n = 0) /\ Joins(g, k)
    BY <1>2, <2>1
  <2>3. g[k] = IF k = 1 THEN EventsOf(k) ELSE g[k - 1] \o EventsOf(k)
    BY <2>2 DEF Joins
  <2> QED BY <2>1, <2>2, <2>3
<1>4. ASSUME n # 0 PROVE LogOf(n + 1) = LogOf(n) \o EventsOf(n + 1)
  <2>1. PICK f : Joins(f, n) /\ LogOf(n) = f[n]
    BY <1>4, LogJoins
  <2>2. n <= n + 1 /\ n + 1 \in Nat /\ n \in 1 .. n
    BY <1>4
  <2>3. f[n] = g[n]
    BY <1>2, <2>1, <2>2, JoinsAgree
  <2> QED BY <1>2, <1>3, <1>4, <2>1, <2>2, <2>3
<1> QED BY <1>1, <1>2, <1>3, <1>4

-----------------------------------------------------------------------------
(* The run *)

LEMMA SavingNames ==
  /\ DOMAIN Saving = {"saving best", "saving step", "saving last", "saving missing best"}
  /\ Saving["saving best"] = <<"best">> /\ Saving["saving missing best"] = <<"best">>
  /\ Saving["saving step"] = <<"step", step>> /\ Saving["saving last"] = <<"last">>
  /\ <<"step", step>> # <<"best">> /\ <<"last">> # <<"best">>
BY DEF Saving

\* What there is to show of the state after a step.
LEMMA RunInvNext ==
  ASSUME doing' \in Doing, config' \in Config, step' \in 0 .. Len(ValidationLoss),
         doing' = "training" => step' < config'.maxSteps,
         doing' = "validating" => step' # 0 /\ Due(ValidationInterval, step'),
         model' = Batches(config', Trained(config', step')),
         gradients' \in Seq(Nat \X Nat), Len(gradients') < config'.accumulation,
         \A i \in 1 .. Len(gradients') :
            gradients'[i] = Batch(config', Trained(config', step') + i - 1),
         position' \in [epoch : Nat, index : 0 .. BatchesPerEpoch - 1],
         Passed(position') = Trained(config', step') + Len(gradients')
  PROVE  RunInv'
BY DEF RunInv, Doing

\* Where the run goes on after step n.
LEMMA GoesOn ==
  ASSUME NEW c, NEW n
  PROVE  /\ After(c, n) \in {"training", "saving last"}
         /\ After(c, n) = "training" => n < c.maxSteps
         /\ AfterValidation(n) \in {"saving step", "training", "saving last"}
         /\ AfterValidation(n) = "training" => n < config.maxSteps
BY DEF After, AfterValidation

LEMMA Beginning ==
  ASSUME Parameters, NEW c \in Config, NEW n \in 0 .. Len(ValidationLoss),
         Begin(c, Batches(c, Trained(c, n)), n)
  PROVE  RunInv'
<1>1. n \in Nat /\ Trained(c, n) \in Nat /\ c.accumulation \in Nat \ {0}
  BY ConfigFields, TrainedSteps
<1>2. /\ config' = c /\ model' = Batches(c, Trained(c, n)) /\ step' = n
      /\ gradients' = <<>> /\ position' = StartAt(Trained(c, n)) /\ doing' = After(c, n)
  BY DEF Begin, Trained
<1>3. /\ position' \in [epoch : Nat, index : 0 .. BatchesPerEpoch - 1]
      /\ Passed(position') = Trained(c, n)
  BY <1>1, <1>2, StartsInPlace
<1>4. doing' \in Doing /\ (doing' = "training" => n < c.maxSteps) /\ doing' # "validating"
  BY <1>2, GoesOn, SavingNames DEF Doing
<1>5. /\ gradients' \in Seq(Nat \X Nat) /\ Len(gradients') = 0
  BY <1>2
<1>6. /\ config' \in Config /\ step' \in 0 .. Len(ValidationLoss)
      /\ model' = Batches(config', Trained(config', step'))
      /\ Passed(position') = Trained(config', step') + Len(gradients')
      /\ Len(gradients') < config'.accumulation
  BY <1>1, <1>2, <1>3, <1>5
<1> QED BY <1>2, <1>3, <1>4, <1>5, <1>6, RunInvNext

\* The types of what the run works on.
LEMMA RunTypes ==
  ASSUME Parameters, RunInv
  PROVE  /\ step \in Nat /\ Trained(config, step) \in Nat
         /\ Trained(config, step + 1) = Trained(config, step) + config.accumulation
         /\ config \in Config /\ config.accumulation \in Nat \ {0}
         /\ Len(ValidationLoss) \in Nat /\ config.maxSteps <= Len(ValidationLoss)
         /\ config.maxSteps \in Nat
         /\ gradients \in Seq(Nat \X Nat) /\ Len(gradients) \in Nat
BY ConfigFields, TrainedSteps DEF RunInv

\* One batch more, whether it completes a step or not.
LEMMA OneBatchMore ==
  ASSUME Parameters, RunInv
  PROVE  LET next == NextBatch(position, gradients)
         IN  /\ next.position \in [epoch : Nat, index : 0 .. BatchesPerEpoch - 1]
             /\ Passed(next.position) = Trained(config, step) + Len(gradients) + 1
             /\ next.gradients \in Seq(Nat \X Nat)
             /\ Len(next.gradients) = Len(gradients) + 1
             /\ \A i \in 1 .. Len(gradients) + 1 :
                   next.gradients[i] = Batch(config, Trained(config, step) + i - 1)
<1> DEFINE b == Batch(config, Trained(config, step) + Len(gradients))
<1>0. /\ config \in Config /\ Trained(config, step) \in Nat /\ Len(gradients) \in Nat
      /\ gradients \in Seq(Nat \X Nat)
      /\ Passed(position) = Trained(config, step) + Len(gradients)
      /\ position \in [epoch : Nat, index : 0 .. BatchesPerEpoch - 1]
      /\ \A i \in 1 .. Len(gradients) :
            gradients[i] = Batch(config, Trained(config, step) + i - 1)
  BY RunTypes DEF RunInv
<1>1. /\ NextBatch(position, gradients).position
            \in [epoch : Nat, index : 0 .. BatchesPerEpoch - 1]
      /\ Passed(NextBatch(position, gradients).position) = Passed(position) + 1
      /\ NextBatch(position, gradients).gradients = Append(gradients, b)
  BY <1>0, NextInPlace
<1>2. b \in Nat \X Nat
  BY <1>0, ConfigFields DEF Batch
<1>3. (Len(gradients) + 1) - 1 = Len(gradients)
  BY <1>0
<1>4. /\ Append(gradients, b) \in Seq(Nat \X Nat) /\ Len(Append(gradients, b)) = Len(gradients) + 1
      /\ \A i \in 1 .. Len(gradients) : Append(gradients, b)[i] = gradients[i]
      /\ Append(gradients, b)[Len(gradients) + 1] = b
  BY <1>0, <1>2, AppendProperties
<1>5. ASSUME NEW i \in 1 .. Len(gradients) + 1
      PROVE  Append(gradients, b)[i] = Batch(config, Trained(config, step) + i - 1)
  <2>1. CASE i = Len(gradients) + 1
    <3>1. Trained(config, step) + i - 1 = Trained(config, step) + Len(gradients)
      BY <1>0, <2>1
    <3> QED BY <1>4, <2>1, <3>1
  <2>2. CASE i # Len(gradients) + 1
    <3>1. i \in 1 .. Len(gradients)
      BY <1>0, <2>2
    <3> QED BY <1>0, <1>4, <3>1
  <2> QED BY <2>1, <2>2
<1>6. Passed(position) + 1 = Trained(config, step) + Len(gradients) + 1
  BY <1>0
<1> HIDE DEF b
<1> QED BY <1>1, <1>4, <1>5, <1>6

LEMMA RunStep == ASSUME Parameters, RunInv, CheckpointsInv, [Next]_vars PROVE RunInv'
<1>0. /\ step \in Nat /\ config \in Config /\ Trained(config, step) \in Nat
      /\ config.accumulation \in Nat \ {0} /\ Len(gradients) \in Nat
      /\ gradients \in Seq(Nat \X Nat) /\ Len(ValidationLoss) \in Nat
      /\ config.maxSteps \in Nat /\ config.maxSteps <= Len(ValidationLoss)
  BY RunTypes
<1>1. ASSUME NEW c \in Config, Start(c) PROVE RunInv'
  <2>1. Begin(c, <<>>, 0) /\ Trained(c, 0) = 0 /\ 0 \in 0 .. Len(ValidationLoss)
    BY <1>0, <1>1, TrainedSteps DEF Start
  <2>2. Batches(c, 0) = <<>>
    BY DEF Batches
  <2> QED BY <2>1, <2>2, Beginning
<1>2. ASSUME NEW c \in Config, NEW name \in DOMAIN checkpoints, Resume(name, c) PROVE RunInv'
  <2>1. /\ Exact(checkpoints[name]) /\ checkpoints[name].compatibility = Compatibility(c)
        /\ Begin(c, checkpoints[name].model, checkpoints[name].step)
    BY <1>2 DEF Resume, Loads, CheckpointsInv
  <2>2. checkpoints[name].model = Batches(c, Trained(c, checkpoints[name].step))
    <3> DEFINE k == checkpoints[name]
    <3>1. /\ k.config \in Config /\ Compatibility(k.config) = Compatibility(c)
          /\ k.model = Batches(k.config, Trained(k.config, k.step))
      BY <2>1 DEF Exact
    <3> HIDE DEF k
    <3>2. k.model = Batches(c, Trained(c, k.step))
      BY <3>1, BatchesAlike
    <3> QED BY <3>2 DEF k
  <2>3. checkpoints[name].step \in 0 .. Len(ValidationLoss)
    BY <2>1 DEF Exact
  <2> QED BY <2>1, <2>2, <2>3, Beginning
<1>3. CASE Accumulate
  <2>1. /\ gradients' = NextBatch(position, gradients).gradients
        /\ position' = NextBatch(position, gradients).position
        /\ Len(gradients) + 1 < config.accumulation
        /\ UNCHANGED <<doing, config, model, step>>
    BY <1>3 DEF Accumulate, starts
  <2>2. Trained(config, step) + (Len(gradients) + 1) = Trained(config, step) + Len(gradients) + 1
    BY <1>0
  <2>3. /\ gradients' \in Seq(Nat \X Nat) /\ Len(gradients') < config'.accumulation
        /\ \A i \in 1 .. Len(gradients') :
              gradients'[i] = Batch(config', Trained(config', step') + i - 1)
        /\ position' \in [epoch : Nat, index : 0 .. BatchesPerEpoch - 1]
        /\ Passed(position') = Trained(config', step') + Len(gradients')
    BY <2>1, <2>2, OneBatchMore
  <2> QED BY <2>1, <2>3, RunInvNext DEF RunInv
<1>4. CASE Step
  <2> DEFINE g == NextBatch(position, gradients).gradients
  <2>1. /\ model' = model \o g
        /\ position' = NextBatch(position, gradients).position
        /\ gradients' = <<>> /\ step' = step + 1 /\ config' = config
        /\ doing = "training"
        /\ doing' = IF Due(ValidationInterval, step + 1) THEN "validating"
                    ELSE AfterValidation(step + 1)
        /\ Len(gradients) + 1 >= config.accumulation
    BY <1>4 DEF Step, starts
  <2>2. Len(gradients) + 1 = config.accumulation
    BY <1>0, <2>1 DEF RunInv
  <2>3. /\ g \in Seq(Nat \X Nat) /\ Len(g) = config.accumulation
        /\ \A i \in 1 .. Len(g) : g[i] = Batch(config, Trained(config, step) + i - 1)
    BY <2>2, OneBatchMore
  <2>4. model' = Batches(config, Trained(config, step + 1))
    <3> HIDE DEF g
    <3>1. model = Batches(config, Trained(config, step))
      BY DEF RunInv
    <3>2. Batches(config, Trained(config, step)) \o g
             = Batches(config, Trained(config, step) + Len(g))
      BY <1>0, <2>3, BatchesFollow
    <3> QED BY <2>1, <2>3, <3>1, <3>2, RunTypes
  <2>5. step + 1 <= Len(ValidationLoss)
    BY <1>0, <2>1 DEF RunInv
  <2>6. Passed(position') = Trained(config, step + 1) + 0
    BY <1>0, <2>1, <2>2, OneBatchMore, RunTypes
  <2>7. /\ doing' \in Doing
        /\ doing' = "training" => step + 1 < config.maxSteps
        /\ doing' = "validating" => Due(ValidationInterval, step + 1)
    BY <2>1, GoesOn, SavingNames DEF Doing
  <2>8. /\ gradients' \in Seq(Nat \X Nat) /\ Len(gradients') = 0
        /\ step' \in 0 .. Len(ValidationLoss) /\ step' # 0
    BY <1>0, <2>1, <2>5
  <2>9. position' \in [epoch : Nat, index : 0 .. BatchesPerEpoch - 1]
    BY <2>1, OneBatchMore
  <2> HIDE DEF g
  <2>10. /\ config' \in Config /\ Len(gradients') < config'.accumulation
         /\ model' = Batches(config', Trained(config', step'))
         /\ Passed(position') = Trained(config', step') + Len(gradients')
         /\ doing' = "training" => step' < config'.maxSteps
         /\ doing' = "validating" => step' # 0 /\ Due(ValidationInterval, step')
    BY <1>0, <2>1, <2>4, <2>6, <2>7, <2>8
  <2> QED BY <2>7, <2>8, <2>9, <2>10, RunInvNext
<1>5. ASSUME UNCHANGED <<config, model, gradients, position, step>>,
             doing' \in Doing \ {"validating"}, doing' = "training" => step < config.maxSteps
      PROVE  RunInv'
  <2>1. /\ config' = config /\ model' = model /\ gradients' = gradients
        /\ position' = position /\ step' = step
    BY <1>5
  <2> QED BY <1>5, <2>1, RunInvNext DEF RunInv
<1>6. CASE Validate
  <2>1. UNCHANGED <<config, model, gradients, position, step>>
    BY <1>6 DEF Validate, starts
  <2>2. doing' \in {"saving best", AfterValidation(step)}
    BY <1>6 DEF Validate
  <2> QED BY <1>5, <2>1, <2>2, GoesOn, SavingNames DEF Doing
<1>7. CASE Save
  <2>1. UNCHANGED <<config, model, gradients, position, step>>
    BY <1>7 DEF Save, starts
  <2>2. doing' \in {AfterValidation(step), After(config, step), "saving missing best", "summary"}
    BY <1>7 DEF Save
  <2> QED BY <1>5, <2>1, <2>2, GoesOn, SavingNames DEF Doing
<1>8. CASE Summarize \/ Crash
  <2>1. UNCHANGED <<config, model, gradients, position, step>> /\ doing' = "dead"
    BY <1>8 DEF Summarize, Crash, starts
  <2> QED BY <1>5, <2>1 DEF Doing
<1>9. CASE UNCHANGED vars
  <2>1. /\ config' = config /\ model' = model /\ gradients' = gradients
        /\ position' = position /\ step' = step /\ doing' = doing
    BY <1>9 DEF vars
  <2> QED BY <2>1, RunInvNext DEF RunInv
<1> QED BY <1>1, <1>2, <1>3, <1>4, <1>6, <1>7, <1>8, <1>9 DEF Next

LEMMA CheckpointsStep ==
  ASSUME Parameters, RunInv, CheckpointsInv, [Next]_vars
  PROVE  CheckpointsInv'
<1>1. ASSUME NEW name, NEW c, Write(name, c), c.readable => Exact(c)
      PROVE  CheckpointsInv'
  BY <1>1 DEF Write, CheckpointsInv, Exact
<1>2. CASE Save
  <2>1. Exact(Checkpoint)
    BY DEF Checkpoint, Exact, RunInv
  <2> QED BY <1>1, <1>2, <2>1 DEF Save
<1>3. CASE Crash
  <2>1. UNCHANGED checkpoints \/ Write(Saving[doing], Torn)
    BY <1>3 DEF Crash
  <2>2. ~Torn.readable
    BY DEF Torn
  <2>3. CASE UNCHANGED checkpoints
    BY <2>3 DEF CheckpointsInv, Exact
  <2> QED BY <1>1, <2>1, <2>2, <2>3
<1>4. CASE ~Save /\ ~Crash
  <2>1. checkpoints' = checkpoints
    BY <1>4 DEF Next, vars, Start, Resume, Accumulate, Step, Validate, Summarize
  <2> QED BY <2>1 DEF CheckpointsInv, Exact
<1> QED BY <1>2, <1>3, <1>4

-----------------------------------------------------------------------------
(* The log *)

LogType == [events : Seq(Event), end : {"newline", "cut", "garbled"}]

LEMMA EventTypes ==
  ASSUME Parameters, NEW i \in 1 .. Len(ValidationLoss)
  PROVE  /\ TrainEvent(i) \in Event /\ ValidationEvent(i) \in Event
         /\ LossAt(i) \in Int /\ LossAt(i) < Infinity
         /\ TrainEvent(i).step = i /\ ValidationEvent(i).step = i
         /\ TrainEvent(i).event = "train" /\ ValidationEvent(i).event = "validation"
         /\ ValidationEvent(i).loss = LossAt(i)
<1>1. ValidationLoss \in Seq(Int) /\ Len(ValidationLoss) \in Nat
  BY DEF Parameters
<1>2. ValidationLoss[i] \in Int /\ i \in Nat
  BY <1>1
<1>3. ValidationLoss[i] < Infinity
  BY DEF Parameters
<1> QED BY <1>2, <1>3 DEF TrainEvent, ValidationEvent, LossAt, Event, None

\* A line is added to a log that ends where a line ends.
LEMMA LineAdded ==
  ASSUME log \in LogType, NEW e \in Event, Log(e)
  PROVE  /\ log' \in LogType
         /\ log.end = "newline" =>
               /\ log'.end = "newline" /\ log'.events = Append(log.events, e)
               /\ log'.events # <<>> /\ Last(log'.events) = e
<1>1. log.events \in Seq(Event)
  BY DEF LogType
<1>2. Append(log.events, e) \in Seq(Event) /\ Len(Append(log.events, e)) = Len(log.events) + 1
      /\ Append(log.events, e)[Len(log.events) + 1] = e
  BY <1>1, AppendProperties
<1>3. Append(log.events, e) # <<>> /\ Last(Append(log.events, e)) = e
  <2> DEFINE a == Append(log.events, e)
  <2>1. Len(a) \in Nat \ {0} /\ a[Len(a)] = e /\ Len(<<>>) = 0
    BY <1>1, <1>2
  <2> HIDE DEF a
  <2>2. a # <<>> /\ Last(a) = e
    BY <2>1 DEF Last
  <2> QED BY <2>2 DEF a
<1>4. CASE log.end = "newline"
  <2>1. log' = [log EXCEPT !.events = Append(log.events, e)]
    BY <1>4 DEF Log
  <2>2. log'.end = "newline" /\ log'.events = Append(log.events, e) /\ log' \in LogType
    BY <1>2, <1>4, <2>1 DEF LogType
  <2> QED BY <1>3, <2>2
<1>5. CASE log.end # "newline"
  BY <1>5 DEF Log, LogType
<1> QED BY <1>4, <1>5

\* The log of one step more, line by line.
LEMMA LogByLines ==
  ASSUME NEW n \in Nat, LogOf(n) \in Seq(Event), TrainEvent(n + 1) \in Event,
         ValidationEvent(n + 1) \in Event
  PROVE  LogOf(n + 1) = IF Due(ValidationInterval, n + 1)
                        THEN Append(Append(LogOf(n), TrainEvent(n + 1)), ValidationEvent(n + 1))
                        ELSE Append(LogOf(n), TrainEvent(n + 1))
<1>1. \A s \in Seq(Event), e \in Event, f \in Event :
         s \o <<e>> = Append(s, e) /\ s \o <<e, f>> = Append(Append(s, e), f)
  OBVIOUS
<1>2. EventsOf(n + 1) \in Seq(Event)
  BY DEF EventsOf
<1>3. <<>> \o EventsOf(n + 1) = EventsOf(n + 1)
  BY <1>2
<1>4. LogOf(n + 1) = LogOf(n) \o EventsOf(n + 1)
  BY <1>3, LogGrows
<1> QED BY <1>1, <1>4 DEF EventsOf

LEMMA LogIsTyped ==
  ASSUME Parameters
  PROVE  \A n \in 0 .. Len(ValidationLoss) : LogOf(n) \in Seq(Event)
<1> DEFINE T == {n \in 0 .. Len(ValidationLoss) : LogOf(n) \notin Seq(Event)}
<1> SUFFICES ASSUME T # {} PROVE FALSE
  OBVIOUS
<1>0. Len(ValidationLoss) \in Nat
  BY DEF Parameters
<1>1. PICK k \in T : \A m \in T : k <= m
  <2>1. T \subseteq Nat
    BY <1>0
  <2> HIDE DEF T
  <2> QED BY <2>1, Smallest
<1>2. k \in 0 .. Len(ValidationLoss) /\ LogOf(k) \notin Seq(Event)
  BY <1>1
<1>3. CASE k = 0
  <2>1. LogOf(0) = <<>> /\ <<>> \in Seq(Event)
    BY LogGrows
  <2>2. LogOf(0) \in Seq(Event)
    BY <2>1, Zenon
  <2> QED BY <1>2, <1>3, <2>2
<1>4. CASE k # 0
  <2>1. PICK n \in Nat : k = n + 1
    BY <1>0, <1>2, <1>4
  <2>2. n \in 0 .. Len(ValidationLoss) /\ ~(k <= n) /\ n + 1 \in 1 .. Len(ValidationLoss)
    BY <1>0, <1>2, <2>1
  <2>3. LogOf(n) \in Seq(Event)
    BY <1>1, <2>2
  <2>4. TrainEvent(n + 1) \in Event /\ ValidationEvent(n + 1) \in Event
    BY <2>2, EventTypes
  <2>5. LogOf(n + 1) \in Seq(Event)
    <3>1. \A s \in Seq(Event), e \in Event : Append(s, e) \in Seq(Event)
      OBVIOUS
    <3>2. LogOf(n + 1) \in {Append(LogOf(n), TrainEvent(n + 1)),
                            Append(Append(LogOf(n), TrainEvent(n + 1)), ValidationEvent(n + 1))}
      BY <2>3, <2>4, LogByLines
    <3> QED BY <2>3, <2>4, <3>1, <3>2
  <2> QED BY <1>2, <2>1, <2>5
<1> QED BY <1>3, <1>4

LEMMA LogStep ==
  ASSUME Parameters, RunInv, CheckpointsInv, LogInv, [Next]_vars
  PROVE  LogInv'
<1>0. /\ log \in LogType /\ crashes \in Nat /\ rewound \in BOOLEAN
      /\ crashes = 0 => log.end = "newline"
      /\ step \in Nat /\ step \in 0 .. Len(ValidationLoss) /\ Len(ValidationLoss) \in Nat
  BY RunTypes DEF LogInv, LogType, RunInv
<1>1. ASSUME UNCHANGED <<log, crashes, rewound, step>>, doing # "validating",
             doing' # "validating",
             Forward => \A name \in DOMAIN checkpoints' : checkpoints'[name].readable =>
                           checkpoints'[name].step <= step
      PROVE  LogInv'
  BY <1>1 DEF LogInv, Forward
<1>2. ASSUME NEW c \in Config, Start(c) PROVE LogInv'
  <2>1. /\ UNCHANGED <<log, crashes, rewound, checkpoints>> /\ doing = "dead" /\ step' = 0
        /\ log.events = <<>> /\ doing' = After(c, 0)
    BY <1>2 DEF Start, Begin
  <2>2. Forward => step = 0
    BY <2>1 DEF LogInv
  <2>3. doing' # "validating"
    BY <2>1, GoesOn
  <2> QED BY <2>1, <2>2, <2>3 DEF LogInv, Forward
<1>3. ASSUME NEW c \in Config, NEW name \in DOMAIN checkpoints, Resume(name, c) PROVE LogInv'
  <2>1. /\ UNCHANGED <<log, crashes, checkpoints>> /\ doing = "dead"
        /\ step' = checkpoints[name].step /\ doing' = After(c, checkpoints[name].step)
        /\ rewound' = (rewound \/ checkpoints[name].step < LastLogged)
        /\ checkpoints[name].readable
    BY <1>3 DEF Resume, Begin, Loads
  <2>2. checkpoints[name].step \in Nat
    BY <1>0, <2>1 DEF CheckpointsInv, Exact
  <2>3. ASSUME Forward' PROVE Forward /\ step' = step
    <3>1. Forward /\ ~(checkpoints[name].step < LastLogged)
      BY <2>1, <2>3 DEF Forward
    <3>2. LastLogged = step /\ checkpoints[name].step <= step
      BY <2>1, <3>1 DEF LogInv, LastLogged
    <3> QED BY <1>0, <2>1, <2>2, <3>1, <3>2
  <2>4. doing' # "validating"
    BY <2>1, GoesOn
  <2>5. rewound' \in BOOLEAN
    BY <1>0, <2>1
  <2> QED BY <1>0, <2>1, <2>3, <2>4, <2>5 DEF LogInv, LogType
<1>4. CASE Accumulate
  BY <1>1, <1>4 DEF Accumulate, starts, LogInv
<1>5. CASE Step
  <2>1. /\ step' = step + 1 /\ Log(TrainEvent(step + 1)) /\ doing = "training"
        /\ doing' = IF Due(ValidationInterval, step + 1) THEN "validating"
                    ELSE AfterValidation(step + 1)
        /\ UNCHANGED <<checkpoints, crashes, rewound>>
    BY <1>5 DEF Step, starts
  <2>2. step + 1 \in 1 .. Len(ValidationLoss)
    BY <1>0, <2>1, RunTypes DEF RunInv
  <2>3. /\ log' \in LogType
        /\ crashes = 0 => /\ log'.end = "newline"
                          /\ log'.events = Append(log.events, TrainEvent(step + 1))
                          /\ log'.events # <<>> /\ Last(log'.events) = TrainEvent(step + 1)
    BY <1>0, <2>1, <2>2, EventTypes, LineAdded
  <2>4. ASSUME Forward
        PROVE  /\ log'.events = IF doing' = "validating"
                                THEN Append(LogOf(step' - 1), TrainEvent(step'))
                                ELSE LogOf(step')
               /\ step' # 0 /\ log'.events # <<>> /\ Last(log'.events).step = step'
               /\ \A name \in DOMAIN checkpoints : checkpoints[name].readable =>
                     checkpoints[name].step <= step'
    <3>1. /\ log.events = LogOf(step)
          /\ \A name \in DOMAIN checkpoints : checkpoints[name].readable =>
                checkpoints[name].step <= step /\ checkpoints[name].step \in Nat
      BY <2>1, <2>4 DEF LogInv, CheckpointsInv, Exact
    <3>2. log'.events = Append(LogOf(step), TrainEvent(step + 1)) /\ LogOf(step) \in Seq(Event)
      BY <1>0, <2>3, <2>4, <3>1 DEF Forward, LogType
    <3>3. step' - 1 = step /\ step' # 0
      BY <1>0, <2>1
    <3>4. ~Due(ValidationInterval, step + 1) => LogOf(step + 1) = Append(LogOf(step), TrainEvent(step + 1))
      BY <1>0, <2>2, <3>2, EventTypes, LogByLines
    <3>5. doing' = "validating" <=> Due(ValidationInterval, step + 1)
      BY <2>1, GoesOn
    <3>6. Last(log'.events).step = step' /\ log'.events # <<>>
      BY <2>1, <2>2, <2>3, <2>4, EventTypes DEF Forward
    <3>7. \A name \in DOMAIN checkpoints : checkpoints[name].readable =>
             checkpoints[name].step <= step'
      BY <1>0, <2>1, <3>1
    <3>8. log'.events = IF doing' = "validating" THEN Append(LogOf(step' - 1), TrainEvent(step'))
                        ELSE LogOf(step')
      BY <2>1, <3>2, <3>3, <3>4, <3>5
    <3> QED BY <3>3, <3>6, <3>7, <3>8
  <2>5. crashes' = 0 => log'.end = "newline"
    BY <2>1, <2>3
  <2> QED BY <1>0, <2>1, <2>3, <2>4, <2>5 DEF LogInv, LogType, Forward
<1>6. CASE Validate
  <2>1. /\ step' = step /\ Log(ValidationEvent(step)) /\ doing = "validating"
        /\ doing' \in {"saving best", AfterValidation(step)}
        /\ UNCHANGED <<checkpoints, crashes, rewound>>
    BY <1>6 DEF Validate, starts
  <2>2. step \in 1 .. Len(ValidationLoss) /\ Due(ValidationInterval, step)
    <3>1. step # 0 /\ Due(ValidationInterval, step)
      BY <2>1 DEF RunInv
    <3> QED BY <1>0, <3>1
  <2>3. /\ log' \in LogType
        /\ crashes = 0 => /\ log'.end = "newline"
                          /\ log'.events = Append(log.events, ValidationEvent(step))
                          /\ log'.events # <<>> /\ Last(log'.events) = ValidationEvent(step)
    BY <1>0, <2>1, <2>2, EventTypes, LineAdded
  <2>4. doing' # "validating" /\ ValidationEvent(step).step = step
    BY <2>1, <2>2, GoesOn, EventTypes
  <2>5. Forward => log'.events = LogOf(step)
    <3> SUFFICES ASSUME Forward PROVE log'.events = LogOf(step)
      OBVIOUS
    <3>1. PICK n \in Nat : step = n + 1
      BY <2>2
    <3>2. log.events = Append(LogOf(n), TrainEvent(step))
      <4>1. log.events = Append(LogOf(step - 1), TrainEvent(step))
        BY <2>1 DEF LogInv
      <4>2. step - 1 = n
        BY <3>1
      <4> QED BY <4>1, <4>2
    <3>3. LogOf(n) \in Seq(Event)
      <4>1. n \in 0 .. Len(ValidationLoss)
        BY <1>0, <3>1
      <4> QED BY <4>1, LogIsTyped
    <3>4. LogOf(step) = Append(Append(LogOf(n), TrainEvent(step)), ValidationEvent(step))
      BY <2>2, <3>1, <3>3, EventTypes, LogByLines
    <3> QED BY <2>3, <3>2, <3>4 DEF Forward
  <2>6. crashes' = 0 => log'.end = "newline"
    BY <2>1, <2>3
  <2>7. Forward => /\ IF step = 0 THEN log'.events = <<>>
                      ELSE log'.events # <<>> /\ Last(log'.events).step = step
                   /\ \A name \in DOMAIN checkpoints : checkpoints[name].readable =>
                         checkpoints[name].step <= step
    BY <2>2, <2>3, <2>4 DEF LogInv, Forward
  <2> QED BY <1>0, <2>1, <2>3, <2>4, <2>5, <2>6, <2>7 DEF LogInv, LogType, Forward
<1>7. CASE Save
  <2>1. /\ UNCHANGED <<log, crashes, rewound, step>> /\ doing \in DOMAIN Saving
        /\ doing' \in {AfterValidation(step), After(config, step), "saving missing best", "summary"}
        /\ Write(Saving[doing], Checkpoint)
    BY <1>7 DEF Save, starts
  <2>2. doing # "validating" /\ doing' # "validating"
    BY <2>1, SavingNames, GoesOn
  <2>3. Forward => \A name \in DOMAIN checkpoints' : checkpoints'[name].readable =>
                      checkpoints'[name].step <= step
    <3>1. Checkpoint.step <= step
      BY <1>0 DEF Checkpoint
    <3> QED BY <2>1, <3>1 DEF Write, LogInv
  <2> QED BY <1>1, <2>1, <2>2, <2>3
<1>8. CASE Summarize
  BY <1>1, <1>8 DEF Summarize, starts, LogInv
<1>9. CASE Crash
  <2>1. crashes' = crashes + 1 /\ rewound' = rewound
        /\ (log' = log \/ \E end \in {"cut", "garbled"} : log' = [log EXCEPT !.end = end])
    BY <1>9 DEF Crash, starts
  <2>2. log' \in LogType /\ crashes' \in Nat /\ crashes' # 0
    BY <1>0, <2>1 DEF LogType
  <2> QED BY <1>0, <2>1, <2>2 DEF LogInv, LogType, Forward
<1>10. CASE UNCHANGED vars
  BY <1>10 DEF vars, LogInv, Forward
<1> QED BY <1>2, <1>3, <1>4, <1>5, <1>6, <1>7, <1>8, <1>9, <1>10 DEF Next

-----------------------------------------------------------------------------
(* The best checkpoint *)

\* The losses that are logged, as lines are added.
LEMMA ValidationsGrow ==
  ASSUME log \in LogType, NEW e \in Event
  PROVE  /\ Validations \subseteq Int
         /\ log' = log => Validations' = Validations
         /\ log'.events = Append(log.events, e) =>
               Validations' = Validations \union (IF e.event = "validation" THEN {e.loss} ELSE {})
<1> DEFINE L(s) == {s[i].loss : i \in {j \in DOMAIN s : s[j].event = "validation"}}
<1>1. Validations = L(log.events) /\ Validations' = L(log'.events)
  BY DEF Validations
<1>2. log.events \in Seq(Event)
  BY DEF LogType
<1>3. ASSUME NEW s \in Seq(Event)
      PROVE  /\ L(s) \subseteq Int
             /\ L(Append(s, e)) = L(s) \union (IF e.event = "validation" THEN {e.loss} ELSE {})
  <2> DEFINE a == Append(s, e)
             n == Len(s)
  <2>1. n \in Nat /\ DOMAIN s = 1 .. n /\ \A i \in 1 .. n : s[i] \in Event
    OBVIOUS
  <2>2. DOMAIN a = 1 .. n + 1 /\ a[n + 1] = e /\ \A i \in 1 .. n : a[i] = s[i]
    BY AppendProperties
  <2>3. L(s) \subseteq Int
    BY <2>1 DEF Event
  <2> HIDE DEF a, n
  <2>4. ASSUME NEW x \in L(a) PROVE x \in L(s) \/ (e.event = "validation" /\ x = e.loss)
    <3>1. PICK i \in DOMAIN a : a[i].event = "validation" /\ x = a[i].loss
      BY <2>4
    <3>2. CASE i = n + 1
      BY <2>2, <3>1, <3>2
    <3>3. CASE i # n + 1
      <4>1. i \in 1 .. n
        BY <2>1, <2>2, <3>3
      <4> QED BY <2>1, <2>2, <3>1, <4>1
    <3> QED BY <3>2, <3>3
  <2>5. ASSUME NEW x \in L(s) PROVE x \in L(a)
    <3>1. PICK i \in DOMAIN s : s[i].event = "validation" /\ x = s[i].loss
      BY <2>5
    <3>2. i \in DOMAIN a /\ a[i] = s[i]
      BY <2>1, <2>2
    <3> QED BY <3>1, <3>2
  <2>6. e.event = "validation" => e.loss \in L(a)
    <3>1. n + 1 \in DOMAIN a
      BY <2>1, <2>2
    <3> QED BY <2>2, <3>1
  <2>7. L(a) = L(s) \union (IF e.event = "validation" THEN {e.loss} ELSE {})
    <3> HIDE DEF L
    <3> QED BY <2>4, <2>5, <2>6
  <2> QED BY <2>3, <2>7 DEF a
<1> HIDE DEF L
<1> QED BY <1>1, <1>2, <1>3

\* The least loss is the best of BestInv.
LEMMA BestIsLeast ==
  ASSUME log \in LogType, crashes = 0, BestInv
  PROVE  BestLogged = best
<1>0. Validations \subseteq Int
  <2>1. [event |-> "train", step |-> 0, loss |-> 0] \in Event
    BY DEF Event
  <2> QED BY <2>1, ValidationsGrow
<1>1. /\ Validations \subseteq Int /\ best \in Int /\ \A loss \in Validations : best <= loss
      /\ best \in Validations \/ (best = Infinity /\ Validations = {})
  BY <1>0 DEF BestInv
<1>2. CASE Validations = {}
  BY <1>1, <1>2 DEF BestLogged
<1>3. CASE Validations # {}
  <2>1. best \in Validations
    BY <1>1, <1>3
  <2>2. \A l \in Validations : (\A k \in Validations : l <= k) => l = best
    BY <1>1, <2>1
  <2>3. Minimum(Validations) = best
    BY <1>1, <2>1, <2>2 DEF Minimum
  <2> QED BY <1>3, <2>3 DEF BestLogged
<1> QED BY <1>2, <1>3

LEMMA BestStep ==
  ASSUME Parameters, RunInv, CheckpointsInv, LogInv, BestInv, [Next]_vars
  PROVE  BestInv'
<1> SUFFICES ASSUME crashes' = 0 PROVE BestInv'
  BY DEF BestInv
<1>0. /\ log \in LogType /\ crashes \in Nat /\ step \in Nat
      /\ step \in 0 .. Len(ValidationLoss) /\ Infinity \in Int
  BY RunTypes DEF LogInv, LogType, RunInv, Infinity
<1>1. crashes' \in {crashes, crashes + 1}
  BY DEF Next, vars, starts, Start, Resume, Accumulate, Step, Validate, Save, Summarize, Crash
<1>2. crashes = 0 /\ log.end = "newline" /\ ~Crash
  BY <1>0, <1>1 DEF LogInv, Crash
<1>3. /\ best \in Int /\ \A loss \in Validations : best <= loss
      /\ best \in Validations \/ (best = Infinity /\ Validations = {})
      /\ doing = "saving best" => LossAt(step) = best
      /\ doing # "saving best" /\ Validations # {} => BestHasLoss
      /\ doing = "saving missing best" => Validations = {}
      /\ SummaryNamesBest
  BY <1>2 DEF BestInv
<1>4. ASSUME Validations' = Validations, best' = best, checkpoints' = checkpoints,
             summary' = summary, doing # "saving best", doing' # "saving best",
             doing' = "saving missing best" => Validations = {}
      PROVE  BestInv'
  BY <1>2, <1>3, <1>4 DEF BestInv, BestHasLoss, SummaryNamesBest
<1>5. log' = log => Validations' = Validations
  BY DEF Validations
<1>6. ASSUME NEW c \in Config, NEW m, NEW n, Begin(c, m, n), doing = "dead",
             UNCHANGED <<log, checkpoints, summary>>
      PROVE  BestInv'
  <2>1. best' = best
    BY <1>0, <1>2, <1>6, BestIsLeast DEF Begin, BestSoFar
  <2>2. doing' \in {"training", "saving last"}
    BY <1>6, GoesOn DEF Begin
  <2> QED BY <1>4, <1>5, <1>6, <2>1, <2>2
<1>7. ASSUME NEW c \in Config, Start(c) PROVE BestInv'
  BY <1>6, <1>7 DEF Start
<1>8. ASSUME NEW c \in Config, NEW name \in DOMAIN checkpoints, Resume(name, c) PROVE BestInv'
  BY <1>6, <1>8 DEF Resume
<1>9. CASE Accumulate
  BY <1>4, <1>5, <1>9 DEF Accumulate
<1>10. CASE Step
  <2>1. /\ doing = "training" /\ Log(TrainEvent(step + 1))
        /\ doing' \in {"validating", AfterValidation(step + 1)}
        /\ UNCHANGED <<best, checkpoints, summary>>
    BY <1>10 DEF Step
  <2>2. step + 1 \in 1 .. Len(ValidationLoss)
    BY <1>0, <2>1, RunTypes DEF RunInv
  <2>3. Validations' = Validations
    <3> DEFINE e == TrainEvent(step + 1)
    <3>1. e \in Event /\ e.event = "train" /\ Log(e)
      BY <2>1, <2>2, EventTypes
    <3> HIDE DEF e
    <3>2. log'.events = Append(log.events, e)
      BY <1>0, <1>2, <3>1, LineAdded
    <3> QED BY <1>0, <3>1, <3>2, ValidationsGrow
  <2> QED BY <1>4, <2>1, <2>3, GoesOn
<1>11. CASE Validate
  <2>1. /\ doing = "validating" /\ Log(ValidationEvent(step))
        /\ best' = IF Better(LossAt(step)) THEN LossAt(step) ELSE best
        /\ doing' = IF Better(LossAt(step)) THEN "saving best" ELSE AfterValidation(step)
        /\ UNCHANGED <<step, checkpoints, summary>>
    BY <1>11 DEF Validate
  <2>2. step \in 1 .. Len(ValidationLoss)
    <3>1. step # 0
      BY <2>1 DEF RunInv
    <3> QED BY <1>0, <3>1
  <2>3. LossAt(step) \in Int /\ LossAt(step) < Infinity
    BY <2>2, EventTypes
  <2>4. Validations' = Validations \union {LossAt(step)} /\ Validations \subseteq Int
    <3> DEFINE e == ValidationEvent(step)
    <3>1. e \in Event /\ e.event = "validation" /\ e.loss = LossAt(step) /\ Log(e)
      BY <2>1, <2>2, EventTypes
    <3> HIDE DEF e
    <3>2. log'.events = Append(log.events, e)
      BY <1>0, <1>2, <3>1, LineAdded
    <3> QED BY <1>0, <3>1, <3>2, ValidationsGrow
  <2>5. SummaryNamesBest'
    BY <1>2, <1>3, <2>1 DEF SummaryNamesBest
  <2>6. CASE LossAt(step) < best
    <3>1. best' = LossAt(step) /\ doing' = "saving best"
      BY <2>1, <2>6 DEF Better
    <3>2. \A loss \in Validations' : best' <= loss
      <4> SUFFICES ASSUME NEW loss \in Validations' PROVE LossAt(step) <= loss
        BY <3>1
      <4>1. CASE loss = LossAt(step)
        <5> QED BY <2>3, <4>1
      <4>2. CASE loss \in Validations
        <5>1. loss \in Int /\ best \in Int /\ best <= loss
          BY <1>3, <2>4, <4>2
        <5> QED BY <2>3, <2>6, <5>1
      <4> QED BY <2>4, <4>1, <4>2
    <3> QED BY <2>1, <2>3, <2>4, <2>5, <3>1, <3>2 DEF BestInv
  <2>7. CASE ~(LossAt(step) < best)
    <3>1. best' = best /\ doing' = AfterValidation(step)
      BY <2>1, <2>7 DEF Better
    <3>2. Validations # {} /\ best \in Validations
      BY <1>3, <2>3, <2>7
    <3>3. \A loss \in Validations' : best' <= loss
      <4> SUFFICES ASSUME NEW loss \in Validations' PROVE best <= loss
        BY <3>1
      <4>1. CASE loss = LossAt(step)
        <5>1. best \in Int
          BY <1>3
        <5> QED BY <2>3, <2>7, <4>1, <5>1
      <4>2. CASE loss \in Validations
        <5> QED BY <1>3, <4>2
      <4> QED BY <2>4, <4>1, <4>2
    <3>4. BestHasLoss'
      BY <1>3, <2>1, <3>1, <3>2 DEF BestHasLoss
    <3>5. doing' \notin {"saving best", "saving missing best"}
      BY <3>1, GoesOn
    <3> QED BY <1>3, <2>4, <2>5, <3>1, <3>2, <3>3, <3>4, <3>5 DEF BestInv
  <2> QED BY <2>6, <2>7
<1>12. CASE Save
  <2>1. /\ UNCHANGED <<log, best, step, summary>> /\ doing \in DOMAIN Saving
        /\ Write(Saving[doing], Checkpoint) /\ Checkpoint.step = step
    BY <1>12 DEF Save, Checkpoint
  <2>2. Validations' = Validations /\ SummaryNamesBest'
    BY <1>2, <1>3, <1>5, <2>1 DEF SummaryNamesBest
  <2>3. doing' \in {AfterValidation(step), After(config, step), "saving missing best", "summary"}
    BY <1>12 DEF Save
  <2>4. doing' = "saving missing best" => doing = "saving last" /\ <<"best">> \notin DOMAIN checkpoints
    BY <1>12, SavingNames, GoesOn DEF Save
  <2>5. doing' = "saving missing best" => Validations = {}
    BY <1>3, <2>4 DEF BestHasLoss
  <2>6. Validations # {} => BestHasLoss'
    <3>1. CASE doing = "saving best"
      BY <1>3, <2>1, <3>1, SavingNames DEF Write, BestHasLoss
    <3>2. CASE doing \in {"saving step", "saving last"}
      <4>1. Saving[doing] # <<"best">>
        BY <3>2, SavingNames
      <4> QED BY <1>3, <2>1, <3>2, <4>1 DEF Write, BestHasLoss
    <3>3. CASE doing = "saving missing best"
      BY <1>3, <3>3
    <3> QED BY <2>1, <3>1, <3>2, <3>3, SavingNames
  <2>7. doing' # "saving best"
    BY <2>3, GoesOn
  <2> QED BY <1>3, <2>1, <2>2, <2>5, <2>6, <2>7 DEF BestInv
<1>13. CASE Summarize
  <2>1. /\ doing = "summary" /\ doing' = "dead" /\ UNCHANGED <<log, best, step, checkpoints>>
        /\ summary' = [written |-> TRUE, best_loss |-> BestLogged,
                       last |-> checkpoints[<<"last">>], best |-> checkpoints[<<"best">>]]
    BY <1>2, <1>13 DEF Summarize
  <2>2. BestLogged = best
    BY <1>0, <1>2, BestIsLeast
  <2>3. summary'.best_loss = best /\ summary'.best = checkpoints[<<"best">>]
    BY <2>1, <2>2
  <2>4. SummaryNamesBest'
    BY <1>3, <2>1, <2>3 DEF SummaryNamesBest, BestHasLoss
  <2>5. Validations' = Validations /\ (Validations # {} => BestHasLoss')
    BY <1>3, <1>5, <2>1 DEF BestHasLoss
  <2> QED BY <1>3, <2>1, <2>4, <2>5 DEF BestInv
<1>14. CASE UNCHANGED vars
  BY <1>3, <1>5, <1>14 DEF vars, BestInv, BestHasLoss, SummaryNamesBest
<1> QED BY <1>2, <1>7, <1>8, <1>9, <1>10, <1>11, <1>12, <1>13, <1>14 DEF Next

-----------------------------------------------------------------------------
(* The invariant *)

LEMMA InitInv == ASSUME Parameters, Init PROVE Inv
<1>1. /\ config \in Config /\ config.accumulation \in Nat \ {0} /\ Len(ValidationLoss) \in Nat
  <2>1. \E c \in Config : TRUE
    <3>1. PICK s \in Stages, a \in Accumulations, m \in StepLimits : TRUE
      BY DEF Parameters
    <3>2. [stage |-> s, accumulation |-> a, maxSteps |-> m] \in Config
      BY DEF Config
    <3> QED BY <3>2
  <2>2. config \in Config
    BY <2>1 DEF Init
  <2> QED BY <2>2, ConfigFields
<1>2. /\ doing = "dead" /\ model = <<>> /\ gradients = <<>> /\ step = 0 /\ best = Infinity
      /\ position = [epoch |-> 0, index |-> 0] /\ DOMAIN checkpoints = {}
      /\ log = [events |-> <<>>, end |-> "newline"] /\ summary = [written |-> FALSE]
      /\ crashes = 0 /\ rewound = FALSE
  BY DEF Init
<1>3. Trained(config, step) = 0
  BY <1>1, <1>2, TrainedSteps
<1>4. RunInv
  <2>1. Batches(config, 0) = <<>>
    BY DEF Batches
  <2>2. position \in [epoch : Nat, index : 0 .. BatchesPerEpoch - 1]
    BY <1>2 DEF Parameters
  <2>3. Passed(position) = 0
    BY <1>2 DEF Passed, Parameters
  <2>4. gradients \in Seq(Nat \X Nat) /\ Len(gradients) = 0
    BY <1>2
  <2> QED BY <1>1, <1>2, <1>3, <2>1, <2>2, <2>3, <2>4 DEF RunInv, Doing
<1>5. CheckpointsInv
  BY <1>2 DEF CheckpointsInv
<1>6. LogInv
  <2>1. LogOf(0) = <<>>
    BY LogGrows
  <2>2. log \in [events : Seq(Event), end : {"newline", "cut", "garbled"}]
    BY <1>2
  <2>3. log.events = <<>> /\ log.end = "newline"
    BY <1>2
  <2> QED BY <1>2, <2>1, <2>2, <2>3 DEF LogInv
<1>7. BestInv
  <2>1. Validations = {}
    BY <1>2 DEF Validations
  <2> QED BY <1>2, <2>1 DEF BestInv, SummaryNamesBest, Infinity
<1> QED BY <1>4, <1>5, <1>6, <1>7 DEF Inv

LEMMA Invariance == ASSUME Parameters PROVE Spec => []Inv
<1>1. Init => Inv
  BY InitInv
<1>2. Inv /\ [Next]_vars => Inv'
  BY RunStep, CheckpointsStep, LogStep, BestStep DEF Inv
<1> QED BY <1>1, <1>2, PTL DEF Spec

-----------------------------------------------------------------------------
(* Theorems *)

\* The process is at a step of the run, before the last loss there is, with fewer gradients
\* than complete a step.
THEOREM TypesAreRight == ASSUME Parameters PROVE Spec => []TypeOK
<1>1. Inv => TypeOK
  <2> SUFFICES ASSUME Inv PROVE TypeOK
    OBVIOUS
  <2>1. doing \in Activities
    BY SavingNames DEF Inv, RunInv, Doing, Activities
  <2>2. position.index \in 0 .. BatchesPerEpoch - 1 /\ log.end \in {"newline", "cut", "garbled"}
    BY DEF Inv, RunInv, LogInv
  <2> QED BY <2>1, <2>2 DEF Inv, RunInv, TypeOK
<1> QED BY <1>1, Invariance, PTL

\* However often and from wherever a run was interrupted and resumed, a checkpoint is that of
\* a run that never was; and so is the log if no process died and no resume went back.
THEOREM ResumeIsAlwaysExact == ASSUME Parameters PROVE Spec => []ResumeIsExact
<1>1. Inv => ResumeIsExact
  <2> SUFFICES ASSUME Inv PROVE ResumeIsExact
    OBVIOUS
  <2>1. \A c, n : Uninterrupted(c, n).model = Batches(c, Trained(c, n))
    BY DEF Uninterrupted, Batches, Trained
  <2>2. \A c, n : Uninterrupted(c, n).events = LogOf(n)
    BY DEF Uninterrupted, LogOf, EventsOf
  <2>3. \A name \in DOMAIN checkpoints : checkpoints[name].readable =>
           checkpoints[name].model
              = Uninterrupted(checkpoints[name].config, checkpoints[name].step).model
    BY <2>1 DEF Inv, CheckpointsInv, Exact
  <2>4. crashes = 0 /\ ~rewound /\ doing = "training" =>
           log.events = Uninterrupted(config, step).events
    BY <2>2 DEF Inv, LogInv, Forward
  <2> QED BY <2>3, <2>4 DEF ResumeIsExact
<1> QED BY <1>1, Invariance, PTL

\* The best checkpoint that a summary names has the best_loss beside it, unless a process
\* died on the way: for any losses, equal ones among them, and any resumes.
THEOREM SummaryAlwaysNamesBest == ASSUME Parameters PROVE Spec => []SummaryNamesBest
<1>1. Inv => SummaryNamesBest
  BY DEF Inv, BestInv, SummaryNamesBest
<1> QED BY <1>1, Invariance, PTL
=============================================================================
