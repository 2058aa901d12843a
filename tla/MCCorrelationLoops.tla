------------------------- MODULE MCCorrelationLoops -------------------------
(* Inputs for CorrelationLoops: windows 60/300/600 s scaled to 1/2/4. *)
EXTENDS CorrelationLoops

Kind(src, scenario, type, registry, status) ==
  [source |-> src, scenario |-> scenario, type |-> type, registry |-> registry, status |-> status]

Dependency == Kind("range", "malicious-dependency", "other", "none", "success")
Secret     == Kind("range", "leaked-secret", "other", "none", "failure")
Secret2    == Kind("ci", "leaked-secret", "other", "none", "success")
FailedRun  == Kind("range", "malicious-dependency", "other", "none", "error")
Probe      == Kind("range", "other", "other", "none", "failure")
Request    == Kind("range", "other", "http_request", "none", "success")
Pull       == Kind("range", "other", "container_image_pull", "evil.example", "success")
TrustedPull == Kind("ci", "other", "container_image_pull", "ghcr.io", "success")
DependencyPull == Kind("ci", "malicious-dependency", "container_image_pull", "evil.example", "success")

MCTrusted  == {"docker.io", "ghcr.io"}

MCMenus ==
  { \* every kind of event, and waits that run out between 1 and 4
    [kinds |-> {Dependency, Secret, FailedRun, Probe, Request, Pull, TrustedPull, DependencyPull},
     timestamps |-> {0, 1, 3}, receipts |-> {0, 1}, nows |-> {Batch, 2}, rows |-> 3],
    \* enough candidates of both halves for pairings that compete
    [kinds |-> {Dependency, Secret, Secret2},
     timestamps |-> 0..3, receipts |-> {0}, nows |-> {Batch}, rows |-> 4],
    \* long bursts of one source
    [kinds |-> {Probe},
     timestamps |-> 0..5, receipts |-> {0}, nows |-> {Batch}, rows |-> 5] }
=============================================================================
