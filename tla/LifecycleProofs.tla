-------------------------- MODULE LifecycleProofs ---------------------------
(***************************************************************************)
(* Proofs about Lifecycle for any configuration files and any number of    *)
(* signals: when main frees the context, every thread has gone or the      *)
(* capture was never opened, and what a return of main leaves behind.      *)
(***************************************************************************)
EXTENDS Lifecycle, TLAPS

Gone(t) == thread[t] \in {"none", "ended"}

Before  == {"start", "signals", "context", "firewall", "analyzer", "servers"}
Opened  == {"capturing", "join", "stop", "release"}
Failing == {"free", "null", "end", "exited"}
Over    == {"null", "end", "exited", "killed"}

ThreadTypes == /\ thread \in [Threads -> {"none", "check", "work", "ended"}]
               /\ server \in [Servers -> {"none", "idle", "running"}]

(* Where the threads may be, by the point main has reached. *)
ThreadsByPoint ==
    /\ at \in Before => \A t \in Threads : thread[t] = "none"
    /\ opened => at \in Opened \cup Failing \cup {"killed"}
    /\ at \in Opened => opened
    /\ at \in {"stop", "release"} => \A t \in Loopers : thread[t] = "ended"
    /\ opened /\ at \in Failing => \A t \in Loopers : thread[t] = "ended"
    /\ at = "release" => \A s \in Servers : Gone(s) /\ server[s] = "none"
    /\ opened /\ at \in Failing => \A s \in Servers : Gone(s) /\ server[s] = "none"

(* The context, and who has touched it. *)
ContextByPoint ==
    /\ ctx = "freed" => at \in Over
    /\ ctx # "freed" => misuse \cap Threads = {}
    /\ at \in {"firewall", "analyzer", "servers", "threads", "capture"} \cup Opened
         => ctx = "live" /\ g_ctx
    /\ opened /\ at = "free" => ctx = "live" /\ g_ctx
    /\ opened /\ at \in {"null", "end", "exited"} => ctx = "freed"
    /\ opened /\ at \in {"end", "exited"} => ~g_ctx

(* The kernel: a way past the opened capture to the end went through the     *)
(* release, and what is left there its commands failed to take out.          *)
KernelByPoint ==
    /\ opened /\ at \in Failing => /\ firewall => "firewall" \in refused
                                   /\ xdp => "xdp" \in refused
    /\ ret = 0 => opened
    /\ ret \in {0, 1}

IInv == ThreadTypes /\ ThreadsByPoint /\ ContextByPoint /\ KernelByPoint /\ ThreadsGoneBeforeFree

(* It holds before main has done anything. *)
LEMMA InitHolds == Init => IInv
  BY DEF Init, IInv, ThreadTypes, ThreadsByPoint, ContextByPoint, KernelByPoint,
         ThreadsGoneBeforeFree, Gone, Before, Opened, Failing, Over, Threads, Loopers, Servers

USE DEF GoTo, outside, shared, kernel, process, Before, Opened, Failing, Over, Threads, Loopers, Servers,
        ThreadTypes, ThreadsByPoint, ContextByPoint, KernelByPoint, ThreadsGoneBeforeFree, Gone

(* The steps of main up to the capture. *)
LEMMA StartUpKeeps == ASSUME IInv, NEW ok \in BOOLEAN,
                             \/ Start(ok) \/ SetupSignals(ok) \/ InitContext(ok)
                             \/ FirewallInit(ok) \/ AnalyzerInit(ok) \/ CaptureInit(ok)
                      PROVE  IInv'
<1>1. CASE Start(ok)
  BY <1>1 DEF IInv, Start
<1>2. CASE SetupSignals(ok)
  BY <1>2 DEF IInv, SetupSignals
<1>3. CASE InitContext(ok)
  BY <1>3 DEF IInv, InitContext
<1>4. CASE FirewallInit(ok)
  BY <1>4 DEF IInv, FirewallInit
<1>5. CASE AnalyzerInit(ok)
  BY <1>5 DEF IInv, AnalyzerInit
<1>6. CASE CaptureInit(ok)
  BY <1>6 DEF IInv, CaptureInit
<1> QED
  BY <1>1, <1>2, <1>3, <1>4, <1>5, <1>6

(* The creation of threads, and the steps of main from the capture's end on. *)
LEMMA ShutDownKeeps == ASSUME IInv,
                              \/ \E up \in SUBSET Servers : ServersStart(up)
                              \/ ThreadsStart \/ CaptureError \/ Join
                              \/ (\E s \in Servers : StopServer(s)) \/ ServersStopped
                              \/ (\E left \in SUBSET {"firewall", "xdp"} : Release(left))
                              \/ FreeContext \/ ClearPointer \/ Exit
                       PROVE  IInv'
<1>1. ASSUME NEW up \in SUBSET Servers, ServersStart(up) PROVE IInv'
  BY <1>1 DEF IInv, ServersStart
<1>2. CASE ThreadsStart
  BY <1>2 DEF IInv, ThreadsStart
<1>3. CASE CaptureError
  BY <1>3 DEF IInv, CaptureError
<1>4. CASE Join
  BY <1>4 DEF IInv, Join
<1>5. ASSUME NEW s \in Servers, StopServer(s) PROVE IInv'
  BY <1>5 DEF IInv, StopServer
<1>6. CASE ServersStopped
  BY <1>6 DEF IInv, ServersStopped
<1>7. ASSUME NEW left \in SUBSET {"firewall", "xdp"}, Release(left) PROVE IInv'
  BY <1>7 DEF IInv, Release
<1>8. CASE FreeContext
  BY <1>8 DEF IInv, FreeContext
<1>9. CASE ClearPointer
  BY <1>9 DEF IInv, ClearPointer
<1>10. CASE Exit
  BY <1>10 DEF IInv, Exit
<1> QED
  BY <1>1, <1>2, <1>3, <1>4, <1>5, <1>6, <1>7, <1>8, <1>9, <1>10

(* The threads, and signals at any point. *)
LEMMA OthersKeep == ASSUME IInv,
                           (\E t \in Threads : Thread(t)) \/ Signal \/ SignalWrite \/ Hangup
                    PROVE  IInv'
<1>1. ASSUME NEW t \in Loopers, LooperCheck(t) PROVE IInv'
  BY <1>1 DEF IInv, LooperCheck, Touch, Step, Running
<1>2. ASSUME NEW t \in Loopers, LooperWork(t) PROVE IInv'
  BY <1>2 DEF IInv, LooperWork, Touch, Step, Running
<1>3. ASSUME NEW s \in Servers, ServerCheck(s) PROVE IInv'
  BY <1>3 DEF IInv, ServerCheck, Step, Running
<1>4. ASSUME NEW s \in Servers, ServerWork(s) PROVE IInv'
  BY <1>4 DEF IInv, ServerWork, Touch, Step, Running
<1>5. CASE Signal
  BY <1>5 DEF IInv, Signal
<1>6. CASE SignalWrite
  BY <1>6 DEF IInv, SignalWrite, Touch
<1>7. CASE Hangup
  BY <1>7 DEF IInv, Hangup, Running
<1> QED
  BY <1>1, <1>2, <1>3, <1>4, <1>5, <1>6, <1>7 DEF Thread

(* Every step keeps the inductive invariant. *)
LEMMA IInvInductive == IInv /\ [Next]_vars => IInv'
<1> SUFFICES ASSUME IInv, [Next]_vars PROVE IInv'
  OBVIOUS
<1>1. CASE UNCHANGED vars
  BY <1>1 DEF IInv, vars
<1>2. CASE Next
  BY <1>2, StartUpKeeps, ShutDownKeeps, OthersKeep DEF Next, Main
<1> QED
  BY <1>1, <1>2

(* Main's position always bounds the threads, the context and the kernel. *)
THEOREM IInvCorrect == Spec => []IInv
  BY InitHolds, IInvInductive, PTL DEF Spec

(* No thread uses the context after main has freed it, once the capture was  *)
(* opened (main.c:413-450).                                                  *)
THEOREM ThreadsGoneCorrect == Spec => []ThreadsGoneBeforeFree
<1>1. IInv => ThreadsGoneBeforeFree
  BY DEF IInv
<1> QED
  BY IInvCorrect, <1>1, PTL

(* A return of 0 leaves nothing behind but what a failing command of the     *)
(* release left (main.c:417-452, firewall.c:47-49, ebpf_loader.c:55).        *)
THEOREM SuccessCorrect == Spec => []SuccessReleasesAll
<1>1. IInv => SuccessReleasesAll
  BY DEF IInv, SuccessReleasesAll
<1> QED
  BY IInvCorrect, <1>1, PTL

(* Rules outlive a return of main only after a failed start (main.c:336,     *)
(* 393) or a failing command of firewall_cleanup (firewall.c:47-49).         *)
THEOREM RulesCorrect == Spec => []RulesLeftOnlyByFailure
<1>1. IInv => RulesLeftOnlyByFailure
  BY DEF IInv, RulesLeftOnlyByFailure
<1> QED
  BY IInvCorrect, <1>1, PTL

(* Every variable keeps its type, for any files and number of signals. *)
THEOREM TypeCorrect == Spec => []TypeOK
<1>1. ASSUME Init PROVE TypeOK
  <2>1. {handlers, g_ctx, running, g_shutdown, firewall, xdp, opened, handler} \subseteq BOOLEAN
    BY <1>1, Zenon DEF Init
  <2>2. /\ thread \in [Threads -> {"none", "check", "work", "ended"}]
        /\ server \in [Servers -> {"none", "idle", "running"}]
    BY <1>1 DEF Init
  <2>3. at \in Points /\ ctx \in {"none", "live", "freed"} /\ ret \in {0, 1}
    BY <1>1 DEF Init, Points
  <2>4. refused \subseteq {"firewall", "xdp"} /\ signals \in 0..MaxSignals /\ misuse \subseteq Threads \cup {"handler"}
    BY <1>1, LifecycleAssumption DEF Init
  <2> QED
    BY <2>1, <2>2, <2>3, <2>4 DEF TypeOK
<1>2. ASSUME TypeOK, [Next]_vars PROVE TypeOK'
  <2> USE DEF TypeOK, Points
  <2>1. ASSUME NEW ok \in BOOLEAN,
               \/ Start(ok) \/ SetupSignals(ok) \/ InitContext(ok)
               \/ FirewallInit(ok) \/ CaptureInit(ok)
        PROVE  TypeOK'
    BY <1>2, <2>1 DEF Start, SetupSignals, InitContext, FirewallInit, CaptureInit
  <2>2. ASSUME NEW ok \in BOOLEAN, AnalyzerInit(ok) PROVE TypeOK'
    BY <1>2, <2>2 DEF AnalyzerInit
  <2>3. ASSUME NEW up \in SUBSET Servers, ServersStart(up) PROVE TypeOK'
    BY <1>2, <2>3 DEF ServersStart
  <2>4. CASE ThreadsStart \/ CaptureError \/ Join \/ ServersStopped
    BY <1>2, <2>4 DEF ThreadsStart, CaptureError, Join, ServersStopped
  <2>5. ASSUME NEW s \in Servers, StopServer(s) PROVE TypeOK'
    BY <1>2, <2>5 DEF StopServer
  <2>6. CASE FreeContext \/ ClearPointer \/ Exit
    BY <1>2, <2>6 DEF FreeContext, ClearPointer, Exit
  <2>10. ASSUME NEW left \in SUBSET {"firewall", "xdp"}, Release(left) PROVE TypeOK'
    <3>1. firewall' \in BOOLEAN /\ xdp' \in BOOLEAN
      BY <2>10, Zenon DEF Release
    <3> QED
      BY <1>2, <2>10, <3>1 DEF Release
  <2>7. ASSUME NEW t \in Threads, LooperCheck(t) \/ LooperWork(t) \/ ServerCheck(t) \/ ServerWork(t)
        PROVE  TypeOK'
    <3>1. misuse' \subseteq Threads \cup {"handler"}
      BY <1>2, <2>7 DEF LooperCheck, LooperWork, ServerCheck, ServerWork, Touch
    <3>2. thread' \in [Threads -> {"none", "check", "work", "ended"}]
      BY <1>2, <2>7 DEF LooperCheck, LooperWork, ServerCheck, ServerWork, Step
    <3>3. /\ at' = at /\ handlers' = handlers /\ g_ctx' = g_ctx /\ running' = running
          /\ g_shutdown' = g_shutdown /\ firewall' = firewall /\ xdp' = xdp /\ refused' = refused
          /\ opened' = opened /\ handler' = handler /\ ctx' = ctx /\ ret' = ret
          /\ server' = server /\ signals' = signals
      BY <2>7 DEF LooperCheck, LooperWork, ServerCheck, ServerWork
    <3> QED
      BY <1>2, <3>1, <3>2, <3>3
  <2>8. CASE Signal \/ SignalWrite \/ Hangup
    <3>1. CASE Signal
      <4>1. signals' \in 0..MaxSignals
        BY <1>2, <3>1, LifecycleAssumption DEF Signal
      <4>2. handler' \in BOOLEAN /\ g_shutdown' \in BOOLEAN
        BY <1>2, <3>1, Zenon DEF Signal
      <4> QED
        BY <1>2, <3>1, <4>1, <4>2 DEF Signal
    <3>2. CASE SignalWrite
      BY <1>2, <3>2 DEF SignalWrite, Touch
    <3>3. CASE Hangup
      BY <1>2, <3>3 DEF Hangup
    <3> QED
      BY <2>8, <3>1, <3>2, <3>3
  <2>9. CASE UNCHANGED vars
    BY <1>2, <2>9 DEF vars
  <2> QED
    BY <1>2, <2>1, <2>2, <2>3, <2>4, <2>5, <2>6, <2>7, <2>8, <2>9, <2>10 DEF Next, Main, Thread
<1> QED
  BY <1>1, <1>2, PTL DEF Spec
=============================================================================
