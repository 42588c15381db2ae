----------------------------- MODULE MCPipeline -----------------------------
(* Bounds and symmetry for the runs of Pipeline.                            *)
EXTENDS Pipeline, TLC

Bound(start, cancel, replay, crash, fault, evict) ==
  "start" :> start @@ "cancel" :> cancel @@ "replay" :> replay @@
  "crash" :> crash @@ "fault" :> fault @@ "evict" :> evict

TwoStarts      == Bound(2, 0, 0, 0, 0, 0)
StartCancel    == Bound(1, 1, 0, 0, 0, 0)
StartReplay    == Bound(1, 0, 1, 0, 0, 0)
StartCrash     == Bound(1, 0, 0, 1, 0, 0)
RestartCancel  == Bound(2, 1, 0, 0, 0, 1)
SingleRun      == Bound(1, 1, 1, 0, 0, 1)
Failures       == Bound(1, 0, 1, 1, 1, 0)

ClientSymmetry == Permutations(Clients)
=============================================================================
