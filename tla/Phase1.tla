------------------------------- MODULE Phase1 -------------------------------
(***************************************************************************)
(* The programs of phase 1: cmd/pc3, which trains the first model, and     *)
(* cmd/pc3-analysis.  Both load the dataset with loader.Run (Loader) and   *)
(* then compute and write their files one after another; pc3 trains with   *)
(* ml.TrainParallel (TrainParallel).  The main goroutine is the reader of  *)
(* the load and the caller of the training.                                *)
(*                                                                         *)
(* The files may be there from an earlier run.  Whatever fails ends the    *)
(* program at once with log.Fatal, and every goroutine with it.  What no   *)
(* later step reads is dropped from the state as soon as it is not read.   *)
(***************************************************************************)
EXTENDS Features

CONSTANTS
  Reasons, Commands,       \* Commands: the command lines, each with its dataset
  MinSamples,              \* 10 in the code
  Shuffle(_),              \* what rng.Shuffle does to n positions with seed 42
  TestRatio,               \* -test-ratio once in range, in percent
  Values,                  \* the powers of the records at hand
  Bins,                    \* 20 in the code
  IterationsAsked,         \* the values of -iterations
  DefaultIterations

ASSUME Phase1Assumption ==
  /\ "invalid_datetime" \in Reasons
  /\ Reasons \cap {"header", "valid", "oversized"} = {}
  /\ \A c \in Commands :
       /\ c = [program |-> c.program, lines |-> c.lines,
               workers |-> c.workers, limit |-> c.limit]
       /\ c.program \in {"pc3", "analysis"}
       /\ c.lines \in Seq(Reasons \cup {"header", "valid", "oversized"})
       /\ c.workers \in Int /\ c.limit \in Int
  /\ MinSamples \in Nat /\ MinSamples > 1
  /\ TestRatio \in 1..49
  /\ Values \subseteq Nat
  /\ Bins \in Nat \ {0}
  /\ IterationsAsked \subseteq Int
  /\ DefaultIterations \in Nat \ {0}

\* How many records the datasets at hand may yield.
Sizes == UNION {0..Len(c.lines) : c \in Commands}

\* rng.Shuffle moves positions and makes none up.
ASSUME ShuffleAssumption == \A n \in Sizes : Shuffle(n) \in [1..n -> 1..n]

VARIABLES
  at,              \* the step of main under way, or the end it came to
  cfg,             \* the command line
  reader, lineNumber, sent, jobs, parsed, worker, loaded,       \* Loader
  count, workers, weights, spawned, running, waitGroup, partials,
  result, iterations, pass, history,                     \* TrainParallel
  data,            \* what main holds of the records
  files            \* output file -> what it holds

loaderVars == <<reader, lineNumber, sent, jobs, parsed, worker, loaded>>
fitVars == <<count, workers, weights, spawned, running, waitGroup, partials,
             result, iterations, pass, history>>
vars == <<at, cfg, loaderVars, fitVars, data, files>>

Load == INSTANCE Loader WITH Configs <- Commands,
                             partials <- parsed, result <- loaded
Fit == INSTANCE TrainParallel

\* The steps of each program.  Those that are not files are actions below.
Steps ==
  [pc3 |-> <<"prepare", "parametros_ejecucion.json", "load",
             "resumen_limpieza.json", "build", "normalize",
             "features_high_demand.csv", "train", "score",
             "metricas_modelo.json", "modelo_entrenado.json",
             "predicciones_muestra.csv", "benchmark_concurrencia.json">>,
   analysis |-> <<"prepare", "load", "analyze",
             "estadisticas_descriptivas.json", "estadisticas_descriptivas.csv",
             "consumo_por_hora.csv", "consumo_por_dia_semana.csv",
             "consumo_por_mes.csv", "matriz_correlacion.csv",
             "distribucion_high_demand.json",
             "histograma_global_active_power.json", "analisis_resumen.md",
             "distribucion_global_active_power.svg",
             "consumo_promedio_por_hora.svg", "consumo_por_dia_semana.svg",
             "consumo_por_mes.svg", "matriz_correlacion.svg",
             "matriz_confusion.svg", "curva_loss.svg">>]

Csv == {"features_high_demand.csv", "predicciones_muestra.csv",
        "estadisticas_descriptivas.csv", "consumo_por_hora.csv",
        "consumo_por_dia_semana.csv", "consumo_por_mes.csv",
        "matriz_correlacion.csv"}
\* Drawn from the metrics that a run of pc3 left; errors are ignored.
Optional == {"matriz_confusion.svg", "curva_loss.svg"}
Computations == {"prepare", "load", "build", "normalize", "train", "score",
                 "analyze"}

Main == Steps[cfg.program]
Checked(n) == Main[n] \notin Csv \cup Optional
Outputs == {n \in DOMAIN Main : Main[n] \notin Computations}

Fatal == 0
Completed == Len(Main) + 1
Now == IF at \in DOMAIN Main THEN Main[at] ELSE "ended"

NoData == [st |-> "none"]

\* Every variable has its type, also those of the goroutines.
Phase1TypeOK ==
  /\ at \in 0..Completed
  /\ Now = "load" => Load!TypeOK
  /\ Fit!TrainTypeOK
  /\ data.st \in {"none", "loaded", "built", "normalized", "analyzed", "split",
                  "scored", "invalid"}
  /\ files \in [Outputs -> {"earlier", "whole", "cut", "skipped"}]

Init ==
  /\ Load!Init
  /\ Fit!Idle
  /\ at = 1
  /\ data = NoData
  /\ files = [n \in Outputs |-> "earlier"]

-----------------------------------------------------------------------------
(***************************************************************************)
(* Files.                                                                  *)
(***************************************************************************)

\* What the steps after a file still read: the labels of the test set and the
\* sizes.
Kept == IF data.st = "normalized"
        THEN [st |-> "split", train |-> Len(data.train), actual |-> Ys(data.test)]
        ELSE IF data.st \in {"analyzed", "scored"} THEN NoData ELSE data

Writing == at \in Outputs

\* Mutation: the error of os.WriteFile is ignored.
WriteJsonUnchecked ==
  /\ Writing /\ Checked(at)
  /\ \/ data.st # "invalid" /\ files' = [files EXCEPT ![at] = "whole"]
     \/ files' = files
     \/ files' = [files EXCEPT ![at] = "cut"]
  /\ at' = at + 1
  /\ data' = Kept
  /\ UNCHANGED <<cfg, loaderVars, fitVars>>

\* json.MarshalIndent, which refuses NaN before anything is written, and
\* os.WriteFile, which may not open the file or stop within it.
WriteJson ==
  /\ Writing /\ Checked(at)
  /\ \/ /\ data.st # "invalid"
        /\ files' = [files EXCEPT ![at] = "whole"]
        /\ at' = at + 1
        /\ data' = Kept
     \/ /\ files' = files \/ files' = [files EXCEPT ![at] = "cut"]
        /\ at' = Fatal
        /\ data' = NoData
  /\ UNCHANGED <<cfg, loaderVars, fitVars>>

\* A CSV file: as above, but the last flush is deferred past the check of
\* writer.Error, so a file may be cut and nobody know.
WriteCsv ==
  /\ Writing /\ Now \in Csv
  /\ \/ /\ \E content \in {"whole", "cut"} : files' = [files EXCEPT ![at] = content]
        /\ at' = at + 1
        /\ data' = Kept
     \/ /\ files' = files \/ files' = [files EXCEPT ![at] = "cut"]
        /\ at' = Fatal
        /\ data' = NoData
  /\ UNCHANGED <<cfg, loaderVars, fitVars>>

WriteOptional ==
  /\ Writing /\ Now \in Optional
  /\ \E content \in {"earlier", "whole", "cut"} :
       files' = [files EXCEPT ![at] = content]
  /\ at' = at + 1
  /\ UNCHANGED <<cfg, loaderVars, fitVars, data>>

\* -save-processed=false
SkipProcessed ==
  /\ Now = "features_high_demand.csv"
  /\ files' = [files EXCEPT ![at] = "skipped"]
  /\ at' = at + 1
  /\ data' = Kept
  /\ UNCHANGED <<cfg, loaderVars, fitVars>>

-----------------------------------------------------------------------------
(***************************************************************************)
(* The steps of main.                                                      *)
(***************************************************************************)

Step(holds) ==
  /\ at' = at + 1
  /\ data' = holds
  /\ UNCHANGED <<cfg, loaderVars, fitVars, files>>

Die ==
  /\ at' = Fatal
  /\ data' = NoData
  /\ UNCHANGED <<cfg, loaderVars, fitVars, files>>

\* MkdirAll of the output directories.
Prepare == Now = "prepare" /\ (Step(data) \/ Die)

LoadStep ==
  /\ Now = "load"
  /\ Load!Reader
  /\ UNCHANGED <<at, fitVars, data, files>>

\* loader.Run returns: an error is fatal, the goroutines it left die with the
\* process.
LoadReturns ==
  /\ Now = "load" /\ reader = "returned"
  /\ IF loaded.status = "ok"
     THEN /\ at' = at + 1
          /\ data' = [st |-> "loaded", n |-> Len(loaded.summary.records)]
     ELSE at' = Fatal /\ data' = NoData
  /\ cfg' = [cfg EXCEPT !.lines = <<>>, !.limit = 0]
  /\ reader' = "returned" /\ lineNumber' = 0 /\ sent' = 0
  /\ jobs' = <<>> /\ parsed' = <<>> /\ loaded' = [status |-> "pending"]
  /\ worker' = <<>>
  /\ UNCHANGED <<fitVars, files>>

\* The powers the records may have.  One record in the dataset may be NaN.
Powers == {values \in [1..data.n -> Values \cup {NaN}] :
             Cardinality({i \in 1..data.n : values[i] = NaN}) <= 1}

\* BuildSamples and SplitTrainTest.
Build ==
  /\ Now = "build"
  /\ \/ data.n < MinSamples /\ Die
     \/ /\ data.n >= MinSamples
        /\ \E values \in Powers :
             LET built == BuildSamples(values) IN
               Step([st |-> "built", threshold |-> built.threshold,
                     all |-> built.samples,
                     train |-> At(built.samples, Train(Shuffle(data.n), TestRatio)),
                     test |-> At(built.samples, Test(Shuffle(data.n), TestRatio))])

\* Mutation: the normaliser is fitted on the whole dataset.
NormalizeOnAll ==
  /\ Now = "normalize"
  /\ IF Finite(Xs(data.all))
     THEN LET normalizer == FitMinMax(data.all) IN
            Step([st |-> "normalized", all |-> data.all,
                  train |-> TransformSamples(normalizer, data.train),
                  test |-> TransformSamples(normalizer, data.test)])
     ELSE Die

\* FitMinMax on the training samples, TransformSamples on both sets: a feature
\* that is not finite is an error of the one or of the other.
Normalize ==
  /\ Now = "normalize"
  /\ IF Finite(Xs(data.train)) /\ Finite(Xs(data.test))
     THEN LET normalizer == FitMinMax(data.train) IN
            Step([st |-> "normalized", all |-> data.all,
                  train |-> TransformSamples(normalizer, data.train),
                  test |-> TransformSamples(normalizer, data.test)])
     ELSE Die

CallTrain ==
  /\ Now = "train" /\ iterations = 0
  /\ \E asked \in IterationsAsked : Fit!Call(data.train, Load!Threads, asked)
  /\ UNCHANGED <<at, cfg, loaderVars, data, files>>

TrainStep ==
  /\ Now = "train"
  /\ Fit!Caller
  /\ UNCHANGED <<at, cfg, loaderVars, data, files>>

TrainReturns ==
  /\ Now = "train"
  /\ Fit!Forget
  /\ at' = at + 1
  /\ UNCHANGED <<cfg, loaderVars, data, files>>

\* PredictBatch and ComputeClassification, whatever the model predicts.
Score ==
  /\ Now = "score"
  /\ \E predicted \in [DOMAIN data.actual -> {0, 1}] :
       Step([st |-> "scored", actual |-> data.actual, predicted |-> predicted,
             report |-> ComputeClassification(data.actual, predicted)])

\* AnalyzeRecords: with a NaN among the values the statistics are NaN too.
Analyze ==
  /\ Now = "analyze"
  /\ \/ data.n = 0 /\ Step(NoData)
     \/ /\ data.n > 0
        /\ \E values \in Powers :
             Step(IF Finite(values)
                  THEN [st |-> "analyzed", values |-> values,
                        high |-> Cardinality({i \in DOMAIN values :
                                   AtLeast(values[i], Percentile75(values))}),
                        histogram |-> Histogram(values, Bins)]
                  ELSE [st |-> "invalid"])

\* Main on its own, and main among its goroutines.
Alone ==
  \/ WriteJson \/ WriteCsv \/ WriteOptional \/ SkipProcessed
  \/ Prepare \/ Build \/ Normalize \/ Score \/ Analyze

Caller == LoadStep \/ LoadReturns \/ CallTrain \/ TrainStep \/ TrainReturns

\* The goroutines of the load and of the training.
LoaderGoroutine(w) ==
  /\ Now = "load" /\ w \in Load!Workers
  /\ Load!Worker(w)
  /\ UNCHANGED <<at, fitVars, data, files>>

GradientGoroutine(w) ==
  /\ Now = "train"
  /\ Fit!Worker(w)
  /\ UNCHANGED <<at, cfg, loaderVars, data, files>>

Goroutines == 1..Max({1} \cup {c.workers : c \in Commands})

Next ==
  \/ Alone \/ Caller
  \/ \E g \in Goroutines : LoaderGoroutine(g) \/ GradientGoroutine(g - 1)

\* On its own main can always go on to its next step or die, and does: this is
\* WF_vars(Alone), in a form TLC evaluates without trying every Powers.
Proceeds == Now \notin {"load", "train", "ended"} /\ at' \in 0..Completed

\* The Go scheduler runs every goroutine that is not blocked.
Spec ==
  /\ Init /\ [][Next]_vars
  /\ WF_at(Proceeds) /\ WF_vars(Caller)
  /\ \A g \in Goroutines :
       WF_vars(LoaderGoroutine(g)) /\ WF_vars(GradientGoroutine(g - 1))

-----------------------------------------------------------------------------

\* The load of either program returns what a sequential reading would.
LoadIsSequential == Now = "load" => Load!SameAsSequential

\* Each pass of the training counts every sample once, at the weights of the
\* model, which do not change under its goroutines however they interleave.
EverySampleOnce == Fit!EverySampleOnce

\* The goroutines of the training share no cell and no sample, and the caller
\* reads their cells only when all have written.
NoRace == Fit!NoRace

\* The updates and the losses that metricas_modelo.json reports.
LossCurve == Fit!LossCurve

Below(t) == {i \in DOMAIN data.all : data.all[i].x < t}
UpTo(t) == {i \in DOMAIN data.all : data.all[i].x <= t}

\* The threshold is the 75th percentile, the least value that three quarters of
\* the records do not exceed, so that at least a quarter are high demand.
HighDemandIsTheTopQuarter ==
  data.st = "built" /\ Finite(Xs(data.all)) =>
    /\ 4 * Cardinality(Below(data.threshold)) < 3 * Len(data.all)
    /\ 4 * Cardinality(UpTo(data.threshold)) >= 3 * Len(data.all)
    /\ \A i \in DOMAIN data.all :
         data.all[i].y = 0 <=> i \in Below(data.threshold)

\* "El split ocurre antes de ajustar la normalizacion para evitar data
\* leakage": the training samples, and they alone, span the unit interval.
NormaliserFitsTheTrainingSet ==
  data.st = "normalized" =>
    /\ \A i \in DOMAIN data.train :
         LET x == data.train[i].x IN 0 <= x.num /\ x.num <= x.den /\ x.den > 0
    /\ \E i \in DOMAIN data.train : data.train[i].x.num = 0
    /\ \/ \A i \in DOMAIN data.train : data.train[i].x.num = 0
       \/ \E i \in DOMAIN data.train : data.train[i].x.num = data.train[i].x.den

\* Rows and columns of the confusion matrix add up to what was actual and to
\* what was predicted.
ConfusionMatrixAddsUp ==
  data.st = "scored" =>
    LET ones(labels) == Cardinality({i \in DOMAIN labels : labels[i] = 1})
        r == data.report
    IN  /\ r.tp + r.fn = ones(data.actual)
        /\ r.tp + r.fp = ones(data.predicted)
        /\ r.tp + r.tn + r.fp + r.fn = Len(data.actual)

\* Every record is in a bin of the histogram, the largest one in the last.
HistogramIsComplete ==
  data.st = "analyzed" =>
    /\ AddedUp(data.histogram) = Len(data.values)
    /\ data.histogram[Len(data.histogram)] > 0

\* A file of this run vouches for those before it: whoever finds it, or sees the
\* program end well as pc3-benchmark does, finds the others whole, except that
\* nobody vouches for a CSV file or for the optional figures.
FilesVouchForEarlierOnes ==
  LET ofThisRun(n) ==
        IF Checked(n) THEN files[n] = "whole"
                      ELSE Main[n] \in Csv => files[n] # "earlier"
  IN  /\ \A m, n \in Outputs :
           m < n /\ Checked(n) /\ files[n] # "earlier" => ofThisRun(m)
      /\ at = Completed => \A n \in Outputs : ofThisRun(n)

\* Either program ends, in its last step or in log.Fatal: no goroutine of the
\* load or of the training waits for ever, nor does main for them.
ProgramEnds == <>(at \in {Fatal, Completed})

=============================================================================
