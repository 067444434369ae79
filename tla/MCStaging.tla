----------------------------- MODULE MCStaging -----------------------------
(* The processors that stage files, each on its own: an initial state has one
   processor of either module, the other module stays as it is. *)
EXTENDS SentinelBatch, Series

vars == <<batchVars, seriesVars>>

Init == \/ BatchInit /\ SeriesStart("none")
        \/ Start("none") /\ SeriesInit

\* A step of the module that has the processor: A of SentinelBatch, B of Series.
Either(A, B) ==
    \/ kind # "none" /\ A /\ UNCHANGED seriesVars
    \/ device # "none" /\ B /\ UNCHANGED batchVars

Next == Either(BatchNext, SeriesNext)

\* The application keeps taking events, an item in the pipeline comes to its
\* end, and time passes.
Fairness == /\ WF_vars(Either(BatchStep, SeriesStep))
            /\ WF_vars(Either(TimePasses, SeriesTick))

Spec == Init /\ [][Next]_vars /\ Fairness
=============================================================================
