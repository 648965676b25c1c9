---- MODULE MCLifecycle ----
(* Instances of Lifecycle: a few configuration files. *)
EXTENDS Lifecycle, TLC

File(sections, ints, trues) ==
    [sections |-> sections, ints |-> ints, trues |-> trues,
     strings |-> {"interface", "program", "database"}]

(* All features; no section for the interface; servers off, a capture length *)
(* of 0; too many workers, and a number of workers that wraps to 4.          *)
AllSections == {"network", "thresholds", "xdp", "geoip", "api", "dashboard"}
SomeFiles ==
    {File(AllSections, "snaplen" :> 256, {"xdp.enabled", "api.enabled", "dashboard.enabled"}),
     File({"api"}, "workers" :> 2, {"api.enabled"}),
     File({"network"}, "snaplen" :> 0, {}),
     File({"network", "dashboard"}, "workers" :> MaxWorkers + 1, {"dashboard.enabled"}),
     File({"network", "dashboard"}, "workers" :> U32 + 4, {"dashboard.enabled"})}
====
