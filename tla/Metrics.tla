------------------------------- MODULE Metrics -------------------------------
(***************************************************************************)
(* A metric as hamerkop declares it (hamerkop/src/executor/runtime.rs):    *)
(* static RECV_CQE_DIST: LazyCell<DDSketch>.  A thread forces the cell and *)
(* updates the sketch through the reference it gets; whoever initialises   *)
(* the cell writes a new sketch into it.                                   *)
(***************************************************************************)
EXTENDS LazyCell, DDSketch

ASSUME SameThreads == Users = Threads

metricVars == <<vars, sketchVars>>

MetricInit == Init /\ SketchInit

\* The initialiser's write of the value: DDSketch::new.
Construct(th) == WriteValue(th) /\ SketchNew

\* The other steps of the cell; a reference ends after the calls made with it.
CellStep(th) ==
  /\ pc[th] # "write" /\ todo[th] = <<>>
  /\ Step(th)
  /\ UNCHANGED sketchVars

Use(th) == pc[th] = "ref" /\ SketchStep(th) /\ UNCHANGED vars

\* The owner alone: force_mut, into_inner and drop.
Owner ==
  \/ ForceMut /\ SketchNew
  \/ (ForceMutPanics \/ DropCell \/ IntoInner) /\ UNCHANGED sketchVars

MetricNext ==
  \/ \E th \in Threads : Construct(th) \/ CellStep(th) \/ Use(th)
  \/ Owner

MetricSpec == MetricInit /\ [][MetricNext]_metricVars

Forcing(th) ==
  \/ Construct(th)
  \/ pc[th] # "write" /\ Shared(th) /\ UNCHANGED sketchVars

\* Threads inside force keep running and the closure terminates.
FairMetricSpec == MetricSpec /\ \A th \in Threads : WF_metricVars(Forcing(th))

-----------------------------------------------------------------------------
Settled == alive /\ value = "live" /\ Idle

\* Whatever threads race to initialise the metric and to update it, all their
\* samples end up in one sketch and none is lost.
NothingLost == Settled => Complete

\* Queries of a sketch at rest are as accurate as their comments say.
QuantileAccurate == Settled => Accurate
=============================================================================
