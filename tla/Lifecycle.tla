----------------------------- MODULE Lifecycle ------------------------------
(***************************************************************************)
(* Start-up, threads and shutdown of the daemon: main, signal_handler,     *)
(* stats_thread_func and cleanup_thread_func of src/src/core/main.c, the   *)
(* two server threads of src/src/api/, packet_capture_init and _start of   *)
(* src/src/packet/capture.c, with the configuration of Config.             *)
(*                                                                         *)
(* at is where main stands.  A thread goes round its loop: "check" reads   *)
(* the loop's condition, "work" follows the sleep.  Whoever touches the    *)
(* ddos_context_t after it was freed is recorded in misuse, and reads      *)
(* anything.                                                               *)
(***************************************************************************)
EXTENDS Config, FiniteSets

CONSTANTS Files,            \* configuration files
          MaxSignals        \* bound on SIGINT and SIGTERM

ASSUME LifecycleAssumption == MaxSignals \in Nat

Loopers == {"stats", "cleanup"}     \* created by main, joined after the capture
Servers == {"api", "websocket"}     \* each with a running flag of its own
Threads == Loopers \cup Servers

(* The points of main, in the order of the code. *)
Points == {"start", "signals", "context", "firewall", "analyzer", "servers", "threads",
           "capture", "capturing", "join", "stop", "release",
           "free", "null", "end", "exited", "killed"}

VARIABLES at, config,
          handlers,         \* are the signal handlers installed
          ctx,              \* the context: "none", "live" or "freed"
          g_ctx,            \* is the global pointer set
          running,          \* g_ctx->running
          g_shutdown,
          thread,           \* where each thread stands
          server,           \* the servers' structs: "none", "idle", "running"
          firewall, xdp,    \* are rules and program in the kernel
          refused,          \* history: what the commands of the release failed to take out
          opened,           \* history: the capture was opened
          ret,              \* main's return value
          signals,
          handler,          \* signal_handler between its test of g_ctx and its write
          misuse

vars == <<at, config, handlers, ctx, g_ctx, running, g_shutdown, thread, server,
          firewall, xdp, refused, opened, ret, signals, handler, misuse>>
outside == <<g_shutdown, signals, handler>>
shared  == <<ctx, g_ctx, running, misuse>>
kernel  == <<firewall, xdp, refused>>
process == <<thread, server>>

Running == at \notin {"exited", "killed"}
GoTo(from, to) == at = from /\ at' = to

Init == /\ at = "start" /\ config \in {parse_config_json(f) : f \in Files}
        /\ handlers = FALSE /\ ctx = "none" /\ g_ctx = FALSE
        /\ running = FALSE /\ g_shutdown = FALSE
        /\ thread = [t \in Threads |-> "none"]
        /\ server = [s \in Servers |-> "none"]
        /\ firewall = FALSE /\ xdp = FALSE /\ refused = {} /\ opened = FALSE /\ ret = 1
        /\ signals = 0 /\ handler = FALSE /\ misuse = {}

-----------------------------------------------------------------------------
(* config_load, config_validate, logger_init; each failure returns at once. *)
Start(ok) ==
    /\ IF ok /\ config_validate(config) THEN GoTo("start", "signals") ELSE GoTo("start", "exited")
    /\ UNCHANGED <<config, handlers, opened, ret, outside, shared, kernel, process>>

(* setup_signals; from here on a failure goes to the label cleanup. *)
SetupSignals(ok) ==
    /\ IF ok THEN GoTo("signals", "context") /\ handlers' = TRUE
       ELSE GoTo("signals", "free") /\ UNCHANGED handlers
    /\ UNCHANGED <<config, opened, ret, outside, shared, kernel, process>>

(* init_context sets running whatever signal has come before. *)
InitContext(ok) ==
    /\ IF ok THEN /\ GoTo("context", "firewall")
                  /\ ctx' = "live" /\ g_ctx' = TRUE /\ running' = TRUE
       ELSE GoTo("context", "free") /\ UNCHANGED <<ctx, g_ctx, running>>
    /\ UNCHANGED <<config, handlers, opened, ret, outside, misuse, kernel, process>>

(* firewall_init fails without memory; a failing command is not noticed. *)
FirewallInit(ok) ==
    /\ IF ok THEN GoTo("firewall", "analyzer") /\ firewall' \in BOOLEAN
       ELSE GoTo("firewall", "free") /\ UNCHANGED firewall
    /\ UNCHANGED <<config, handlers, opened, ret, outside, shared, xdp, refused, process>>

(* The protection modules' results are ignored; analyzer_init; GeoIP keeps  *)
(* no state; ebpf_load_program.                                             *)
AnalyzerInit(ok) ==
    /\ IF ok THEN GoTo("analyzer", "servers") /\ xdp' = (config.enable_xdp /\ config.xdp_program_path)
       ELSE GoTo("analyzer", "free") /\ UNCHANGED xdp
    /\ UNCHANGED <<config, handlers, opened, ret, outside, shared, firewall, refused, process>>

(* api_server_start and websocket_server_start: a server whose thread       *)
(* cannot be created stays idle, which main ignores.                        *)
ServersStart(up) ==
    LET enabled == {s \in Servers : IF s = "api" THEN config.enable_api ELSE config.enable_dashboard}
    IN  /\ GoTo("servers", "threads")
        /\ server' = [s \in Servers |-> IF s \notin enabled THEN "none"
                                        ELSE IF s \in up THEN "running" ELSE "idle"]
        /\ thread' = [t \in Threads |-> IF t \in enabled \cap up THEN "check" ELSE thread[t]]
        /\ UNCHANGED <<config, handlers, opened, ret, outside, shared, kernel>>

(* pthread_create of both loopers. *)
ThreadsStart ==
    /\ GoTo("threads", "capture")
    /\ thread' = [t \in Threads |-> IF t \in Loopers THEN "check" ELSE thread[t]]
    /\ UNCHANGED <<config, handlers, opened, ret, outside, shared, kernel, server>>

(* packet_capture_init; on failure the threads go on while main cleans up. *)
CaptureInit(ok) ==
    /\ GoTo("capture", IF ok THEN "capturing" ELSE "free")
    /\ opened' = ok
    /\ UNCHANGED <<config, handlers, ret, outside, shared, kernel, process>>

(* pcap_loop returns: nobody calls packet_capture_stop, so by an error. *)
CaptureError ==
    /\ GoTo("capturing", "join")
    /\ UNCHANGED <<config, handlers, opened, ret, outside, shared, kernel, process>>

-----------------------------------------------------------------------------
(* Mutant: only the statistics thread is waited for. *)
MutJoin ==
    /\ thread["stats"] = "ended"
    /\ GoTo("join", "stop")
    /\ UNCHANGED <<config, handlers, opened, ret, outside, shared, kernel, process>>

(* pthread_join of the statistics and the cleanup thread. *)
Join ==
    /\ \A t \in Loopers : thread[t] = "ended"
    /\ GoTo("join", "stop")
    /\ UNCHANGED <<config, handlers, opened, ret, outside, shared, kernel, process>>

(* Mutant: the join comes before the flag. *)
MutStopServer(s) ==
    /\ at = "stop" /\ server[s] = "running" /\ thread[s] = "ended"
    /\ server' = [server EXCEPT ![s] = "idle"]
    /\ UNCHANGED <<at, config, handlers, opened, ret, outside, shared, kernel, thread>>

(* websocket_server_stop, then api_server_stop: the flag, then the join. *)
StopServer(s) ==
    /\ at = "stop" /\ server[s] = "running"
    /\ s = "api" => server["websocket"] # "running" /\ thread["websocket"] \in {"none", "ended"}
    /\ server' = [server EXCEPT ![s] = "idle"]
    /\ UNCHANGED <<at, config, handlers, opened, ret, outside, shared, kernel, thread>>

(* Both joins are through: the servers' structs are freed. *)
ServersStopped ==
    /\ GoTo("stop", "release")
    /\ \A s \in Servers : server[s] # "running" /\ thread[s] \in {"none", "ended"}
    /\ server' = [s \in Servers |-> "none"]
    /\ UNCHANGED <<config, handlers, opened, ret, outside, shared, kernel, thread>>

(* Mutant: the XDP program is never taken off. *)
MutRelease(left) ==
    /\ GoTo("release", "free")
    /\ firewall' = (firewall /\ "firewall" \in left)
    /\ refused' = left /\ ret' = 0
    /\ UNCHANGED <<config, handlers, opened, outside, shared, xdp, process>>

(* ebpf_unload_program, analyzer and protection cleanup, firewall_cleanup.  *)
(* Nobody looks at the result of their commands: what is in left stays.     *)
Release(left) ==
    /\ GoTo("release", "free")
    /\ xdp' = (xdp /\ "xdp" \in left)
    /\ firewall' = (firewall /\ "firewall" \in left)
    /\ refused' = left /\ ret' = 0
    /\ UNCHANGED <<config, handlers, opened, outside, shared, process>>

(* The label cleanup: cleanup_context frees the context, if there is one, ... *)
FreeContext ==
    /\ GoTo("free", IF g_ctx THEN "null" ELSE "end")
    /\ ctx' = IF g_ctx THEN "freed" ELSE ctx
    /\ UNCHANGED <<config, handlers, opened, ret, outside, g_ctx, running, misuse, kernel, process>>

(* ... and only then is the global pointer cleared. *)
ClearPointer ==
    /\ GoTo("null", "end")
    /\ g_ctx' = FALSE
    /\ UNCHANGED <<config, handlers, opened, ret, outside, ctx, running, misuse, kernel, process>>

(* config_free, logger_cleanup, return: the other threads end with main. *)
Exit ==
    /\ GoTo("end", "exited")
    /\ UNCHANGED <<config, handlers, opened, ret, outside, shared, kernel, process>>

Main == \/ \E ok \in BOOLEAN : Start(ok) \/ SetupSignals(ok) \/ InitContext(ok)
                               \/ FirewallInit(ok) \/ AnalyzerInit(ok) \/ CaptureInit(ok)
        \/ \E up \in SUBSET Servers : ServersStart(up)
        \/ ThreadsStart \/ Join \/ (\E s \in Servers : StopServer(s)) \/ ServersStopped
        \/ (\E left \in SUBSET {"firewall", "xdp"} : Release(left)) \/ FreeContext \/ ClearPointer \/ Exit

-----------------------------------------------------------------------------
(* A use of the context by t; of a freed one it is undefined. *)
Touch(t) == misuse' = IF ctx = "freed" THEN misuse \cup {t} ELSE misuse
Step(t, to) == thread' = [thread EXCEPT ![t] = to]

(* Mutant: the loop's condition looks at the context only. *)
MutLooperCheck(t) ==
    /\ Running /\ thread[t] = "check" /\ Touch(t)
    /\ \/ (ctx = "live" => running) /\ Step(t, "work")
       \/ (ctx = "live" => ~running) /\ Step(t, "ended")
    /\ UNCHANGED <<at, config, handlers, opened, ret, outside, ctx, g_ctx, running, kernel, server>>

(* while (ctx->running && !g_shutdown). *)
LooperCheck(t) ==
    /\ Running /\ thread[t] = "check" /\ Touch(t)
    /\ \/ ~g_shutdown /\ (ctx = "live" => running) /\ Step(t, "work")
       \/ (ctx = "live" /\ running => g_shutdown) /\ Step(t, "ended")
    /\ UNCHANGED <<at, config, handlers, opened, ret, outside, ctx, g_ctx, running, kernel, server>>

(* The statistics or the connection cache, after the sleep. *)
LooperWork(t) ==
    /\ Running /\ thread[t] = "work" /\ Touch(t) /\ Step(t, "check")
    /\ UNCHANGED <<at, config, handlers, opened, ret, outside, ctx, g_ctx, running, kernel, server>>

(* while (server->running). *)
ServerCheck(s) ==
    /\ Running /\ thread[s] = "check"
    /\ Step(s, IF server[s] = "running" THEN "work" ELSE "ended")
    /\ UNCHANGED <<at, config, handlers, opened, ret, outside, shared, kernel, server>>

(* After the sleep; the WebSocket server broadcasts the statistics. *)
ServerWork(s) ==
    /\ Running /\ thread[s] = "work" /\ Step(s, "check")
    /\ IF s = "websocket" THEN Touch(s) ELSE UNCHANGED misuse
    /\ UNCHANGED <<at, config, handlers, opened, ret, outside, ctx, g_ctx, running, kernel, server>>

(* signal_handler: the flag, the test of g_ctx ... *)
Signal ==
    /\ Running /\ handlers /\ ~handler /\ signals < MaxSignals
    /\ signals' = signals + 1 /\ g_shutdown' = TRUE /\ handler' = g_ctx
    /\ UNCHANGED <<at, config, handlers, opened, ret, shared, kernel, process>>

(* ... and the write of running, by whatever thread runs the handler. *)
SignalWrite ==
    /\ Running /\ handler /\ handler' = FALSE
    /\ Touch("handler") /\ running' = FALSE
    /\ UNCHANGED <<at, config, handlers, opened, ret, g_shutdown, signals, ctx, g_ctx, kernel, process>>

(* No handler is installed for SIGHUP: its default action is the end. *)
Hangup ==
    /\ Running /\ at' = "killed"
    /\ UNCHANGED <<config, handlers, opened, ret, outside, shared, kernel, process>>

Thread(t) == IF t \in Loopers THEN LooperCheck(t) \/ LooperWork(t) ELSE ServerCheck(t) \/ ServerWork(t)

Next == Main \/ CaptureError \/ (\E t \in Threads : Thread(t)) \/ Signal \/ SignalWrite \/ Hangup

Spec == Init /\ [][Next]_vars

(* main and every thread are scheduled; a capture error, a signal or a      *)
(* hang-up need never come.                                                 *)
FairSpec == /\ Spec /\ WF_vars(Main) /\ WF_vars(SignalWrite)
            /\ \A t \in Threads : WF_vars(Thread(t))

-----------------------------------------------------------------------------
(* Every variable has its type. *)
TypeOK == /\ at \in Points
          /\ {handlers, g_ctx, running, g_shutdown, firewall, xdp, opened, handler} \subseteq BOOLEAN
          /\ ctx \in {"none", "live", "freed"} /\ ret \in {0, 1}
          /\ thread \in [Threads -> {"none", "check", "work", "ended"}]
          /\ server \in [Servers -> {"none", "idle", "running"}]
          /\ refused \subseteq {"firewall", "xdp"}
          /\ signals \in 0..MaxSignals /\ misuse \subseteq Threads \cup {"handler"}

(* Once the capture was opened, the context is freed only after the last    *)
(* thread that uses it has gone: no thread touches freed memory, whatever   *)
(* the order of signals, errors and thread steps (main.c:413-427, 450).     *)
ThreadsGoneBeforeFree == opened => /\ ctx = "freed" => \A t \in Threads : thread[t] \in {"none", "ended"}
                                   /\ misuse \cap Threads = {}

(* Success is only returned with all servers freed, the context released    *)
(* and the rules and the program taken out of the kernel, as far as the     *)
(* commands of the release did not fail (main.c:417-452; firewall.c:47-49   *)
(* and ebpf_loader.c:55 go on after a failing command).                     *)
SuccessReleasesAll == at = "exited" /\ ret = 0 =>
    /\ ctx = "freed" /\ ~g_ctx /\ \A s \in Servers : server[s] = "none"
    /\ firewall => "firewall" \in refused
    /\ xdp => "xdp" \in refused

(* Rules outlive main only if it was killed, failed after firewall_init     *)
(* (main.c:336, 393), or a command of firewall_cleanup failed               *)
(* (firewall.c:47-49): any other exit leaves the firewall as it was.        *)
RulesLeftOnlyByFailure == at = "exited" /\ firewall =>
    (ret = 1 /\ ~opened) \/ "firewall" \in refused

(* A signal ends the loops of both threads, also one that came before they  *)
(* or the context existed (main.c:95, 121).                                 *)
LoopersNotice == \A t \in Loopers : g_shutdown /\ thread[t] # "none" ~> thread[t] = "ended" \/ ~Running

(* Once the capture has ended and a signal has come, main gets through the  *)
(* joins, stops the servers and exits (main.c:413-462).                     *)
ShutdownCompletes == g_shutdown /\ at \in {"join", "stop", "release", "free", "null", "end"} ~> ~Running
=============================================================================
