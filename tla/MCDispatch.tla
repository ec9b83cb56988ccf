------------------------------ MODULE MCDispatch ------------------------------
(* Three dispatch calls, two of them for one cron occurrence, and a run. *)
EXTENDS Dispatch, TLC

CONSTANTS cron1, cron2, http, run

MCCalls == {cron1, cron2, http}
MCRuns == {run}
MCRecords == MCCalls \union MCRuns
MCTaskOf == (cron1 :> "job" @@ cron2 :> "job" @@ http :> "post" @@ run :> "own")
=============================================================================
