------------------------------ MODULE TrainingRun ------------------------------
(***************************************************************************)
(* train (training/engine.py) and its checkpoints (training/checkpoint.py):*)
(* one run directory with a metrics log and checkpoint files that are      *)
(* overwritten in place, a process that may die at any point, and resuming *)
(* from any checkpoint that can be read.                                   *)
(*                                                                         *)
(* A model is the sequence of batches it has been trained on, each with    *)
(* the schedule its learning rate came from; a batch is named by its       *)
(* number since the first epoch, which with the seed of its epoch decides  *)
(* what is in it.  Losses are functions of the step.                       *)
(***************************************************************************)
EXTENDS Integers, Sequences, SequencesExt, FiniteSets

CONSTANTS BatchesPerEpoch,
          Stages, Accumulations, StepLimits,       \* of training configurations
          ValidationInterval, CheckpointInterval,  \* in steps; None for never
          ValidationLoss,                          \* at each step
          MaxStarts                                \* bound: resumes after the first start

None == 0
Infinity == 1000

\* training.stage, gradient_accumulation_steps and max_steps.
Config == [stage : Stages, accumulation : Accumulations, maxSteps : StepLimits]

VARIABLES doing,        \* what the process is at, "dead" when there is none
          config,       \* what it was started with
          model,        \* what the model is trained on
          gradients,    \* the batches accumulated since the last step
          position,     \* epoch and index of the next batch
          step,         \* step
          best,         \* best_validation_loss
          log,          \* metrics.jsonl: its events, and how its last line ends
          checkpoints,  \* the files that exist: <<"best">>, <<"last">>, <<"step", n>>
          summary,      \* training-summary.json
          resumes, crashes,
          rewound       \* history: a resume has gone back behind what was logged

vars == <<doing, config, model, gradients, position, step, best, log, checkpoints, summary,
          resumes, crashes, rewound>>
starts == <<config, resumes, rewound>>

\* Variant: the number of steps is left out for every stage.
CompatibilityButSteps(c) == [c EXCEPT !.maxSteps = None]

\* _resume_compatibility_digest: more steps are another schedule of learning rates in
\* one stage, and only more steps in the others.
Compatibility(c) == IF c.stage = "pretrain" THEN c ELSE [c EXCEPT !.maxSteps = None]
Schedule(c) == IF c.stage = "pretrain" THEN c.maxSteps ELSE None

Torn == [readable |-> FALSE]

\* The checkpoint of this moment, with what _checkpoint_metadata says of it.
Checkpoint ==
    [readable |-> TRUE, model |-> model, step |-> step, config |-> config,
     compatibility |-> Compatibility(config)]

\* save_checkpoint
Write(name, c) ==
    checkpoints' = [n \in DOMAIN checkpoints \union {name} |->
                      IF n = name THEN c ELSE checkpoints[n]]

Init ==
    /\ doing = "dead" /\ model = <<>> /\ gradients = <<>>
    /\ config = CHOOSE c \in Config : TRUE
    /\ position = [epoch |-> 0, index |-> 0] /\ step = 0 /\ best = Infinity
    /\ log = [events |-> <<>>, end |-> "newline"]
    /\ checkpoints = <<>> /\ summary = [written |-> FALSE]
    /\ resumes = 0 /\ crashes = 0 /\ rewound = FALSE

-----------------------------------------------------------------------------
(* The metrics log *)

\* _write_metrics: on a line of its own only if the last one was ended.
Log(event) ==
    log' = IF log.end = "newline" THEN [log EXCEPT !.events = Append(@, event)]
           ELSE [log EXCEPT !.end = "garbled"]

Validations ==
    {log.events[i].loss : i \in {j \in DOMAIN log.events : log.events[j].event = "validation"}}

\* _best_logged_validation; a line that is not JSON makes it raise.
Minimum(losses) == CHOOSE l \in losses : \A k \in losses : l <= k
BestLogged == IF Validations = {} THEN Infinity ELSE Minimum(Validations)

\* Variant: a resumed run knows nothing of the validations before it.
BestOfThisStart == Infinity

BestSoFar == BestLogged

Due(interval, n) == interval # None /\ n % interval = 0

-----------------------------------------------------------------------------
(* The run *)

\* start_epoch and first_batch_in_epoch.
StartAt(batches) ==
    [epoch |-> batches \div BatchesPerEpoch, index |-> batches % BatchesPerEpoch]

\* What follows the work at a step n.
After(c, n) == IF n < c.maxSteps THEN "training" ELSE "saving last"

\* Model and step are a new run's or a checkpoint's.
Begin(c, m, n) ==
    /\ config' = c /\ model' = m /\ step' = n /\ gradients' = <<>>
    /\ position' = StartAt(n * c.accumulation)
    /\ best' = BestSoFar
    /\ doing' = After(c, n)

Start(c) ==
    /\ doing = "dead" /\ log.events = <<>> /\ resumes = 0 /\ crashes = 0
    /\ Begin(c, <<>>, 0)
    /\ UNCHANGED <<log, checkpoints, summary, resumes, crashes, rewound>>

\* load_checkpoint
Loads(name) == name \in DOMAIN checkpoints /\ checkpoints[name].readable

LastLogged == IF log.events = <<>> THEN 0 ELSE Last(log.events).step

\* A log with a line that is not JSON makes it raise.
Resume(name, c) ==
    /\ doing = "dead" /\ resumes < MaxStarts /\ resumes' = resumes + 1
    /\ Loads(name) /\ checkpoints[name].compatibility = Compatibility(c)
    /\ log.end # "garbled"
    /\ Begin(c, checkpoints[name].model, checkpoints[name].step)
    /\ rewound' = (rewound \/ checkpoints[name].step < LastLogged)
    /\ UNCHANGED <<log, checkpoints, summary, crashes>>

\* Batch n of the run, as it is trained on.
Batch(c, n) == <<n, Schedule(c)>>

\* The loop over the loaders: an epoch's batches, then the next epoch's.
NextBatch(p, g) ==
    [position |-> IF p.index + 1 < BatchesPerEpoch THEN [p EXCEPT !.index = @ + 1]
                  ELSE [epoch |-> p.epoch + 1, index |-> 0],
     gradients |-> Append(g, Batch(config, p.epoch * BatchesPerEpoch + p.index))]

AfterValidation(n) == IF Due(CheckpointInterval, n) THEN "saving step" ELSE After(config, n)

\* backward only.
Accumulate ==
    /\ doing = "training" /\ Len(gradients) + 1 < config.accumulation
    /\ gradients' = NextBatch(position, gradients).gradients
    /\ position' = NextBatch(position, gradients).position
    /\ UNCHANGED <<doing, model, step, best, log, checkpoints, summary, crashes, starts>>

TrainEvent(n) == [event |-> "train", step |-> n, loss |-> None]

\* The batch that completes a step.
Step ==
    /\ doing = "training" /\ Len(gradients) + 1 >= config.accumulation
    /\ model' = model \o NextBatch(position, gradients).gradients
    /\ position' = NextBatch(position, gradients).position
    /\ gradients' = <<>>
    /\ step' = step + 1
    /\ Log(TrainEvent(step + 1))
    /\ doing' = IF Due(ValidationInterval, step + 1) THEN "validating"
                ELSE AfterValidation(step + 1)
    /\ UNCHANGED <<best, checkpoints, summary, crashes, starts>>

\* _evaluate_loss_components
LossAt(n) == ValidationLoss[n]
ValidationEvent(n) == [event |-> "validation", step |-> n, loss |-> LossAt(n)]

Better(loss) == loss < best

Validate ==
    /\ doing = "validating"
    /\ Log(ValidationEvent(step))
    /\ best' = IF Better(LossAt(step)) THEN LossAt(step) ELSE best
    /\ doing' = IF Better(LossAt(step)) THEN "saving best" ELSE AfterValidation(step)
    /\ UNCHANGED <<model, gradients, position, step, checkpoints, summary, crashes, starts>>

Saving == [name \in {"saving best", "saving step", "saving last", "saving missing best"} |->
             CASE name \in {"saving best", "saving missing best"} -> <<"best">>
               [] name = "saving step" -> <<"step", step>>
               [] name = "saving last" -> <<"last">>]

Save ==
    /\ doing \in DOMAIN Saving
    /\ Write(Saving[doing], Checkpoint)
    /\ doing' = CASE doing = "saving best" -> AfterValidation(step)
                  [] doing = "saving step" -> After(config, step)
                  [] doing = "saving last" /\ <<"best">> \notin DOMAIN checkpoints ->
                        "saving missing best"
                  [] OTHER -> "summary"
    /\ UNCHANGED <<model, gradients, position, step, best, log, summary, crashes, starts>>

\* _training_summary; it raises when a line of the log is not JSON.
Summarize ==
    /\ doing = "summary"
    /\ doing' = "dead"
    /\ summary' = IF log.end = "garbled" THEN summary
                  ELSE [written |-> TRUE, best_loss |-> BestLogged,
                        last |-> checkpoints[<<"last">>], best |-> checkpoints[<<"best">>]]
    /\ UNCHANGED <<model, gradients, position, step, best, log, checkpoints, crashes, starts>>

\* The process dies: the file it was writing is torn, the line it was adding to
\* the log lacks its newline or more, or nothing.
Crash ==
    /\ doing # "dead" /\ crashes' = crashes + 1
    /\ doing' = "dead"
    /\ \/ /\ doing \in DOMAIN Saving
          /\ Write(Saving[doing], Torn)
          /\ UNCHANGED log
       \/ /\ doing \in {"training", "validating"}
          /\ \E end \in {"cut", "garbled"} : log' = [log EXCEPT !.end = end]
          /\ UNCHANGED checkpoints
       \/ UNCHANGED <<log, checkpoints>>
    /\ UNCHANGED <<model, gradients, position, step, best, summary, starts>>

Next ==
    \/ \E c \in Config : Start(c) \/ \E name \in DOMAIN checkpoints : Resume(name, c)
    \/ Accumulate \/ Step \/ Validate \/ Save \/ Summarize \/ Crash

Spec == Init /\ [][Next]_vars

-----------------------------------------------------------------------------
(* Properties *)

Activities == DOMAIN Saving \union {"dead", "training", "validating", "summary"}

TypeOK ==
    /\ doing \in Activities /\ config \in Config
    /\ step \in 0 .. Len(ValidationLoss)
    /\ Len(gradients) < config.accumulation
    /\ position.index \in 0 .. BatchesPerEpoch - 1
    /\ log.end \in {"newline", "cut", "garbled"}

\* A run of n steps that nobody interrupts: what validate_training_method compares a
\* resumed one with.
Uninterrupted(c, n) ==
    [model |-> [i \in 1 .. n * c.accumulation |-> Batch(c, i - 1)],
     events |-> FlattenSeq([i \in 1 .. n |->
                    IF Due(ValidationInterval, i) THEN <<TrainEvent(i), ValidationEvent(i)>>
                    ELSE <<TrainEvent(i)>>])]

\* "exact checkpoint resume" (README.md): a checkpoint of step n is that of a run that was
\* never interrupted, trained on each of its batches once and in order under one schedule,
\* however often and from wherever the run was interrupted and resumed; and the log is that
\* run's too if no process died and no resume went back.
ResumeIsExact ==
    /\ \A name \in DOMAIN checkpoints : checkpoints[name].readable =>
          LET c == checkpoints[name]
          IN  c.model = Uninterrupted(c.config, c.step).model
    /\ crashes = 0 /\ ~rewound /\ doing = "training" =>
          log.events = Uninterrupted(config, step).events

\* The best checkpoint that a summary names is the best validated model, as the
\* best_loss beside it says, unless a process died on the way: best.pt is written
\* after the loss is logged, and a loss that is logged is not beaten again.
SummaryNamesBest ==
    summary.written /\ crashes = 0 /\ summary.best_loss # Infinity =>
        LossAt(summary.best.step) = summary.best_loss
=============================================================================
