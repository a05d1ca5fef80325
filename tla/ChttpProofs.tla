---------------------------- MODULE ChttpProofs ----------------------------
(***************************************************************************)
(* Proofs about the HTTP bridge: starting and stopping the processor, for  *)
(* every number of bindings and of attempts to stop; and the resource that *)
(* lends one response at a time, for every limit and any number of         *)
(* responses.  Each has its inductive invariant, one lemma per group of    *)
(* operations and its theorem.                                             *)
(***************************************************************************)
EXTENDS ChttpProcessor, ChttpResource, WellFoundedInduction, TLAPS

(***************************************************************************)
(* The life of the processor (scxml_chttp_event_io.c).                     *)
(***************************************************************************)

\* What scxml_chttp_processor_impl and the worker thread hold.
Processors ==
    [state : {"INITIALIZED", "RUNNING", "STOPPING", "STOPPED"},
     stop_active : BOOLEAN, stop_requested : BOOLEAN,
     stop_attempt_complete : BOOLEAN,
     worker_started : BOOLEAN, worker_ready : BOOLEAN,
     worker_exited : BOOLEAN, init_failed : BOOLEAN,
     server_stopped : BOOLEAN, client_stopped : BOOLEAN,
     client_destroyed : BOOLEAN, stop_generation : 0 .. MaxStops,
     stop_failed : BOOLEAN, terminal_error : BOOLEAN,
     live_bindings : 0 .. MaxBindings]
Workers == [pc : {"none", "init", "loop", "stopping", "waiting", "exited"},
            generation : 0 .. MaxStops]

\* start has begun exactly while the processor is INITIALIZED and a thread or a
\* failed start is under way; stop works on a STOPPING processor.
HostInv ==
    /\ processor.stop_active <=>
          host.pc \in {"stop_server", "stop_worker", "stop_wait", "join", "finish"}
    /\ processor.stop_active => processor.state = "STOPPING"
    /\ host.pc \in {"starting", "start_failed"} => processor.state = "INITIALIZED"
    /\ host.pc \in {"stop_wait", "join"} => processor.worker_started
    /\ host.pc \in {"stop_server", "stop_worker"} =>
          processor.stop_generation < MaxStops
    /\ host.pc = "destroyed" => processor.state = "STOPPED"
    /\ processor.state = "INITIALIZED" =>
          /\ ~processor.server_stopped
          /\ host.pc \in {"idle", "starting", "start_failed"}
          /\ host.pc = "starting" <=> processor.worker_started
    /\ processor.state = "INITIALIZED" /\ host.pc = "idle" => pr_worker.pc = "none"
    /\ processor.state = "STOPPING" /\ processor.worker_started => processor.worker_ready
    /\ processor.state = "RUNNING" => processor.worker_started /\ processor.worker_ready
    /\ processor.state = "STOPPED" => Stopped(processor)

\* What the worker has written says where it is.
WorkerInv ==
    /\ processor.worker_started => pr_worker.pc # "none"
    /\ ~processor.worker_started => pr_worker.pc \in {"none", "exited"}
    /\ processor.worker_ready <=> pr_worker.pc \notin {"none", "init"}
    /\ processor.worker_exited <=> pr_worker.pc = "exited"
    /\ processor.client_destroyed <=> pr_worker.pc \in {"none", "init", "exited"}
    /\ processor.init_failed => pr_worker.pc = "exited"
    /\ pr_worker.pc \in {"none", "init"} => pr_client = "none" /\ processor.client_stopped
    /\ pr_worker.pc \in {"loop", "stopping", "waiting"} =>
          /\ pr_client \in {"running", "stopped"}
          /\ processor.client_stopped => pr_client = "stopped"
    /\ pr_worker.pc = "exited" => pr_client \in {"none", "destroyed"}

\* What is reported of an attempt to stop is about the attempt that was asked
\* for, and a worker that reported a failure waits for the next one.
AttemptInv ==
    /\ processor.stop_failed => pr_worker.pc # "exited"
    /\ processor.stop_attempt_complete /\ pr_worker.pc # "exited" =>
          /\ processor.stop_failed
          /\ pr_worker.generation = processor.stop_generation
    /\ host.pc = "join" => pr_worker.pc = "exited"
    /\ pr_worker.pc \in {"none", "init"} =>
          /\ ~processor.stop_attempt_complete /\ ~processor.stop_requested
          /\ ~processor.stop_failed

ServerInv ==
    /\ processor.server_stopped => server \in {"stopped", "destroyed"}
    /\ server = "destroyed" => host.pc = "destroyed"

ProcessorInv ==
    /\ ProcessorTypeOK /\ NoBindingAfterStop
    /\ HostInv /\ WorkerInv /\ AttemptInv /\ ServerInv

\* start, from its first step to the label stop_server.
LEMMA StartKeeps ==
    ASSUME ProcessorAssumption, ProcessorInv, Start
    PROVE  ProcessorInv'
  <1>0. /\ processor \in Processors /\ pr_worker \in Workers
        /\ MaxStops \in Nat /\ MaxBindings \in Nat
    BY DEF ProcessorInv, ProcessorTypeOK, Processors, Workers, ProcessorAssumption
  <1>1. CASE start_begin
    <2>1. ProcessorTypeOK'
      BY <1>0, <1>1
         DEF start_begin, At, ProcessorInv, ProcessorTypeOK, Processors, Workers
    <2>2. (NoBindingAfterStop /\ HostInv)'
      BY <1>0, <1>1
         DEF start_begin, At, ProcessorInv, NoBindingAfterStop, HostInv, Stopped,
             Processors, Workers, WorkerInv, AttemptInv
    <2>3. WorkerInv'
      BY <1>0, <1>1
         DEF start_begin, At, ProcessorInv, WorkerInv, Processors, Workers, HostInv
    <2>4. AttemptInv'
      BY <1>0, <1>1
         DEF start_begin, At, ProcessorInv, AttemptInv, Processors, Workers,
             HostInv, WorkerInv
    <2>5. ServerInv'
      BY <1>0, <1>1
         DEF start_begin, At, ProcessorInv, ServerInv, Processors, Workers, HostInv
    <2> QED BY <2>1, <2>2, <2>3, <2>4, <2>5 DEF ProcessorInv
  <1>2. CASE start_no_worker
    <2>1. ProcessorTypeOK'
      BY <1>0, <1>2
         DEF start_no_worker, At, ProcessorInv, ProcessorTypeOK, Processors, Workers
    <2>2. (NoBindingAfterStop /\ HostInv)'
      BY <1>0, <1>2
         DEF start_no_worker, At, ProcessorInv, NoBindingAfterStop, HostInv,
             Stopped, Processors, Workers, WorkerInv, AttemptInv
    <2>3. WorkerInv'
      BY <1>0, <1>2
         DEF start_no_worker, At, ProcessorInv, WorkerInv, Processors, Workers,
             HostInv
    <2>4. AttemptInv'
      BY <1>0, <1>2
         DEF start_no_worker, At, ProcessorInv, AttemptInv, Processors, Workers,
             HostInv, WorkerInv
    <2>5. ServerInv'
      BY <1>0, <1>2
         DEF start_no_worker, At, ProcessorInv, ServerInv, Processors, Workers,
             HostInv
    <2> QED BY <2>1, <2>2, <2>3, <2>4, <2>5 DEF ProcessorInv
  <1>3. CASE start_ready
    <2>1. ProcessorTypeOK'
      BY <1>0, <1>3
         DEF start_ready, At, ProcessorInv, ProcessorTypeOK, Processors, Workers
    <2>2. (NoBindingAfterStop /\ HostInv)'
      BY <1>0, <1>3
         DEF start_ready, At, ProcessorInv, NoBindingAfterStop, HostInv, Stopped,
             Processors, Workers, WorkerInv, AttemptInv
    <2>3. WorkerInv'
      BY <1>0, <1>3
         DEF start_ready, At, ProcessorInv, WorkerInv, Processors, Workers, HostInv
    <2>4. AttemptInv'
      BY <1>0, <1>3
         DEF start_ready, At, ProcessorInv, AttemptInv, Processors, Workers,
             HostInv, WorkerInv
    <2>5. ServerInv'
      BY <1>0, <1>3
         DEF start_ready, At, ProcessorInv, ServerInv, Processors, Workers, HostInv
    <2> QED BY <2>1, <2>2, <2>3, <2>4, <2>5 DEF ProcessorInv
  <1>4. CASE start_init_failed
    <2>1. ProcessorTypeOK'
      BY <1>0, <1>4
         DEF start_init_failed, At, ProcessorInv, ProcessorTypeOK, Processors,
             Workers
    <2>2. (NoBindingAfterStop /\ HostInv)'
      BY <1>0, <1>4
         DEF start_init_failed, At, ProcessorInv, NoBindingAfterStop, HostInv,
             Stopped, Processors, Workers, WorkerInv, AttemptInv
    <2>3. WorkerInv'
      BY <1>0, <1>4
         DEF start_init_failed, At, ProcessorInv, WorkerInv, Processors, Workers,
             HostInv
    <2>4. AttemptInv'
      BY <1>0, <1>4
         DEF start_init_failed, At, ProcessorInv, AttemptInv, Processors, Workers,
             HostInv, WorkerInv
    <2>5. ServerInv'
      BY <1>0, <1>4
         DEF start_init_failed, At, ProcessorInv, ServerInv, Processors, Workers,
             HostInv
    <2> QED BY <2>1, <2>2, <2>3, <2>4, <2>5 DEF ProcessorInv
  <1>5. ASSUME NEW stopped \in BOOLEAN, start_stop_server(stopped) PROVE ProcessorInv'
    <2>1. ProcessorTypeOK'
      BY <1>0, <1>5
         DEF start_stop_server, At, ProcessorInv, ProcessorTypeOK, Processors,
             Workers
    <2>2. (NoBindingAfterStop /\ HostInv)'
      BY <1>0, <1>5
         DEF start_stop_server, At, ProcessorInv, NoBindingAfterStop, HostInv,
             Stopped, Processors, Workers, WorkerInv, AttemptInv
    <2>3. WorkerInv'
      BY <1>0, <1>5
         DEF start_stop_server, At, ProcessorInv, WorkerInv, Processors, Workers,
             HostInv
    <2>4. AttemptInv'
      BY <1>0, <1>5
         DEF start_stop_server, At, ProcessorInv, AttemptInv, Processors, Workers,
             HostInv, WorkerInv
    <2>5. ServerInv'
      BY <1>0, <1>5
         DEF start_stop_server, At, ProcessorInv, ServerInv, Processors, Workers,
             HostInv
    <2> QED BY <2>1, <2>2, <2>3, <2>4, <2>5 DEF ProcessorInv
  <1> QED BY <1>1, <1>2, <1>3, <1>4, <1>5 DEF Start

\* The worker thread.
LEMMA WorkerKeeps ==
    ASSUME ProcessorAssumption, ProcessorInv, Worker
    PROVE  ProcessorInv'
  <1>0. /\ processor \in Processors /\ pr_worker \in Workers
        /\ MaxStops \in Nat /\ MaxBindings \in Nat
    BY DEF ProcessorInv, ProcessorTypeOK, Processors, Workers, ProcessorAssumption
  <1>1. ASSUME NEW ok \in BOOLEAN, worker_init(ok) PROVE ProcessorInv'
    <2>1. ProcessorTypeOK'
      <3>1. \A b \in BOOLEAN :
               [processor EXCEPT !.init_failed = b, !.worker_ready = TRUE,
                                 !.client_stopped = b, !.client_destroyed = b,
                                 !.worker_exited = b] \in Processors
        BY <1>0 DEF Processors
      <3>2. processor' \in Processors
        <4>1. (~ok) \in BOOLEAN
          OBVIOUS
        <4> QED BY <1>1, <3>1, <4>1, Zenon DEF worker_init
      <3>3. /\ pr_worker' \in Workers /\ UNCHANGED <<host, server>>
            /\ pr_client' \in {"running", pr_client}
        BY <1>0, <1>1 DEF worker_init, Workers
      <3> QED BY <3>2, <3>3 DEF ProcessorInv, ProcessorTypeOK, Processors, Workers
    <2>2. (NoBindingAfterStop /\ HostInv)'
      BY <1>0, <1>1
         DEF worker_init, At, ProcessorInv, NoBindingAfterStop, HostInv, Stopped,
             Processors, Workers, WorkerInv, AttemptInv
    <2>3. WorkerInv'
      BY <1>0, <1>1
         DEF worker_init, At, ProcessorInv, WorkerInv, Processors, Workers, HostInv
    <2>4. AttemptInv'
      BY <1>0, <1>1
         DEF worker_init, At, ProcessorInv, AttemptInv, Processors, Workers,
             HostInv, WorkerInv
    <2>5. ServerInv'
      BY <1>0, <1>1
         DEF worker_init, At, ProcessorInv, ServerInv, Processors, Workers, HostInv
    <2> QED BY <2>1, <2>2, <2>3, <2>4, <2>5 DEF ProcessorInv
  <1>2. CASE worker_stop_begin
    <2>1. ProcessorTypeOK'
      BY <1>0, <1>2
         DEF worker_stop_begin, At, ProcessorInv, ProcessorTypeOK, Processors,
             Workers
    <2>2. (NoBindingAfterStop /\ HostInv)'
      BY <1>0, <1>2
         DEF worker_stop_begin, At, ProcessorInv, NoBindingAfterStop, HostInv,
             Stopped, Processors, Workers, WorkerInv, AttemptInv
    <2>3. WorkerInv'
      BY <1>0, <1>2
         DEF worker_stop_begin, At, ProcessorInv, WorkerInv, Processors, Workers,
             HostInv
    <2>4. AttemptInv'
      BY <1>0, <1>2
         DEF worker_stop_begin, At, ProcessorInv, AttemptInv, Processors, Workers,
             HostInv, WorkerInv
    <2>5. ServerInv'
      BY <1>0, <1>2
         DEF worker_stop_begin, At, ProcessorInv, ServerInv, Processors, Workers,
             HostInv
    <2> QED BY <2>1, <2>2, <2>3, <2>4, <2>5 DEF ProcessorInv
  <1>3. CASE worker_stop_done
    <2>1. ProcessorTypeOK'
      BY <1>0, <1>3
         DEF worker_stop_done, At, Exited, ProcessorInv, ProcessorTypeOK,
             Processors, Workers
    <2>2. (NoBindingAfterStop /\ HostInv)'
      BY <1>0, <1>3
         DEF worker_stop_done, At, Exited, ProcessorInv, NoBindingAfterStop,
             HostInv, Stopped, Processors, Workers, WorkerInv, AttemptInv
    <2>3. WorkerInv'
      BY <1>0, <1>3
         DEF worker_stop_done, At, Exited, ProcessorInv, WorkerInv, Processors,
             Workers, HostInv
    <2>4. AttemptInv'
      BY <1>0, <1>3
         DEF worker_stop_done, At, Exited, ProcessorInv, AttemptInv, Processors,
             Workers, HostInv, WorkerInv
    <2>5. ServerInv'
      BY <1>0, <1>3
         DEF worker_stop_done, At, Exited, ProcessorInv, ServerInv, Processors,
             Workers, HostInv
    <2> QED BY <2>1, <2>2, <2>3, <2>4, <2>5 DEF ProcessorInv
  <1>4. ASSUME NEW stopped \in BOOLEAN, worker_stop_failed(stopped) PROVE ProcessorInv'
    <2>1. ProcessorTypeOK'
      BY <1>0, <1>4
         DEF worker_stop_failed, At, Reported, ProcessorInv, ProcessorTypeOK,
             Processors, Workers
    <2>2. (NoBindingAfterStop /\ HostInv)'
      BY <1>0, <1>4
         DEF worker_stop_failed, At, Reported, ProcessorInv, NoBindingAfterStop,
             HostInv, Stopped, Processors, Workers, WorkerInv, AttemptInv
    <2>3. WorkerInv'
      BY <1>0, <1>4
         DEF worker_stop_failed, At, Reported, ProcessorInv, WorkerInv, Processors,
             Workers, HostInv
    <2>4. AttemptInv'
      BY <1>0, <1>4
         DEF worker_stop_failed, At, Reported, ProcessorInv, AttemptInv, Processors,
             Workers, HostInv, WorkerInv
    <2>5. ServerInv'
      BY <1>0, <1>4
         DEF worker_stop_failed, At, Reported, ProcessorInv, ServerInv, Processors,
             Workers, HostInv
    <2> QED BY <2>1, <2>2, <2>3, <2>4, <2>5 DEF ProcessorInv
  <1>5. CASE worker_stop_again
    <2>1. ProcessorTypeOK'
      BY <1>0, <1>5
         DEF worker_stop_again, At, Next_attempt, ProcessorInv, ProcessorTypeOK,
             Processors, Workers
    <2>2. (NoBindingAfterStop /\ HostInv)'
      BY <1>0, <1>5
         DEF worker_stop_again, At, Next_attempt, ProcessorInv, NoBindingAfterStop,
             HostInv, Stopped, Processors, Workers, WorkerInv, AttemptInv
    <2>3. WorkerInv'
      BY <1>0, <1>5
         DEF worker_stop_again, At, Next_attempt, ProcessorInv, WorkerInv,
             Processors, Workers, HostInv
    <2>4. AttemptInv'
      BY <1>0, <1>5
         DEF worker_stop_again, At, Next_attempt, ProcessorInv, AttemptInv,
             Processors, Workers, HostInv, WorkerInv
    <2>5. ServerInv'
      BY <1>0, <1>5
         DEF worker_stop_again, At, Next_attempt, ProcessorInv, ServerInv,
             Processors, Workers, HostInv
    <2> QED BY <2>1, <2>2, <2>3, <2>4, <2>5 DEF ProcessorInv
  <1> QED BY <1>1, <1>2, <1>3, <1>4, <1>5 DEF Worker

\* stop, and its retries.
LEMMA StopKeeps ==
    ASSUME ProcessorAssumption, ProcessorInv, Stop
    PROVE  ProcessorInv'
  <1>0. /\ processor \in Processors /\ pr_worker \in Workers
        /\ MaxStops \in Nat /\ MaxBindings \in Nat
    BY DEF ProcessorInv, ProcessorTypeOK, Processors, Workers, ProcessorAssumption
  <1>1. CASE stop_begin
    <2>1. ProcessorTypeOK'
      BY <1>0, <1>1
         DEF stop_begin, At, ProcessorInv, ProcessorTypeOK, Processors, Workers
    <2>2. (NoBindingAfterStop /\ HostInv)'
      BY <1>0, <1>1
         DEF stop_begin, At, ProcessorInv, NoBindingAfterStop, HostInv, Stopped,
             Processors, Workers, WorkerInv, AttemptInv
    <2>3. WorkerInv'
      BY <1>0, <1>1
         DEF stop_begin, At, ProcessorInv, WorkerInv, Processors, Workers, HostInv
    <2>4. AttemptInv'
      BY <1>0, <1>1
         DEF stop_begin, At, ProcessorInv, AttemptInv, Processors, Workers, HostInv,
             WorkerInv
    <2>5. ServerInv'
      BY <1>0, <1>1
         DEF stop_begin, At, ProcessorInv, ServerInv, Processors, Workers, HostInv
    <2> QED BY <2>1, <2>2, <2>3, <2>4, <2>5 DEF ProcessorInv
  <1>2. ASSUME NEW terminal_error \in BOOLEAN, stop_server(terminal_error)
        PROVE  ProcessorInv'
    <2>1. /\ host.pc = "stop_server" /\ host' = [pc |-> "stop_worker"]
          /\ UNCHANGED <<pr_worker, pr_client>>
      BY <1>2 DEF stop_server, At
    <2>2. CASE processor.server_stopped
      <3>1. UNCHANGED <<processor, server>>
        BY <1>2, <2>2 DEF stop_server
      <3>2. ProcessorTypeOK' /\ NoBindingAfterStop'
        BY <2>1, <3>1 DEF ProcessorInv, ProcessorTypeOK, NoBindingAfterStop
      <3>3. HostInv'
        BY <2>1, <3>1 DEF ProcessorInv, HostInv, Stopped
      <3>4. WorkerInv' /\ AttemptInv' /\ ServerInv'
        BY <2>1, <3>1 DEF ProcessorInv, WorkerInv, AttemptInv, ServerInv
      <3> QED BY <3>2, <3>3, <3>4 DEF ProcessorInv
    <2>3. CASE ~processor.server_stopped
      <3>1. /\ server' = "stopped"
            /\ processor' = [processor EXCEPT !.server_stopped = TRUE,
                               !.terminal_error = @ \/ terminal_error]
        BY <1>2, <2>3 DEF stop_server
      <3>2. processor' \in Processors
        <4>1. (processor.terminal_error \/ terminal_error) \in BOOLEAN
          OBVIOUS
        <4> QED BY <1>0, <3>1, <4>1, Zenon DEF Processors
      <3>3. ProcessorTypeOK'
        BY <1>0, <2>1, <3>1, <3>2
           DEF ProcessorInv, ProcessorTypeOK, Processors, Workers
      <3>4. NoBindingAfterStop'
        BY <1>0, <3>1 DEF ProcessorInv, NoBindingAfterStop, Processors
      <3>5. HostInv'
        <4>1. processor.stop_active /\ processor.state = "STOPPING"
          BY <2>1 DEF ProcessorInv, HostInv
        <4>2. /\ processor'.state = "STOPPING" /\ processor'.stop_active
              /\ processor'.worker_started = processor.worker_started
              /\ processor'.worker_ready = processor.worker_ready
              /\ processor'.stop_generation = processor.stop_generation
          BY <1>0, <3>1, <4>1 DEF Processors
        <4> QED BY <2>1, <4>1, <4>2 DEF ProcessorInv, HostInv
      <3>6. WorkerInv'
        <4>1. /\ processor'.worker_started = processor.worker_started
              /\ processor'.worker_ready = processor.worker_ready
              /\ processor'.worker_exited = processor.worker_exited
              /\ processor'.init_failed = processor.init_failed
              /\ processor'.client_stopped = processor.client_stopped
              /\ processor'.client_destroyed = processor.client_destroyed
          BY <1>0, <3>1 DEF Processors
        <4> QED BY <2>1, <4>1 DEF ProcessorInv, WorkerInv
      <3>7. AttemptInv'
        <4>1. /\ processor'.stop_failed = processor.stop_failed
              /\ processor'.stop_requested = processor.stop_requested
              /\ processor'.stop_attempt_complete = processor.stop_attempt_complete
              /\ processor'.stop_generation = processor.stop_generation
          BY <1>0, <3>1 DEF Processors
        <4> QED BY <2>1, <4>1 DEF ProcessorInv, AttemptInv
      <3>8. ServerInv'
        BY <2>1, <3>1 DEF ServerInv
      <3> QED BY <3>3, <3>4, <3>5, <3>6, <3>7, <3>8 DEF ProcessorInv
    <2> QED BY <2>2, <2>3
  <1>3. CASE stop_server_failed
    <2>1. ProcessorTypeOK'
      BY <1>0, <1>3
         DEF stop_server_failed, At, ProcessorInv, ProcessorTypeOK, Processors,
             Workers
    <2>2. (NoBindingAfterStop /\ HostInv)'
      BY <1>0, <1>3
         DEF stop_server_failed, At, ProcessorInv, NoBindingAfterStop, HostInv,
             Stopped, Processors, Workers, WorkerInv, AttemptInv
    <2>3. WorkerInv'
      BY <1>0, <1>3
         DEF stop_server_failed, At, ProcessorInv, WorkerInv, Processors, Workers,
             HostInv
    <2>4. AttemptInv'
      BY <1>0, <1>3
         DEF stop_server_failed, At, ProcessorInv, AttemptInv, Processors, Workers,
             HostInv, WorkerInv
    <2>5. ServerInv'
      BY <1>0, <1>3
         DEF stop_server_failed, At, ProcessorInv, ServerInv, Processors, Workers,
             HostInv
    <2> QED BY <2>1, <2>2, <2>3, <2>4, <2>5 DEF ProcessorInv
  <1>4. CASE stop_request
    <2>1. CASE UNCHANGED processor
      <3>1. ProcessorTypeOK' /\ NoBindingAfterStop'
        BY <1>0, <1>4, <2>1
           DEF stop_request, At, ProcessorInv, ProcessorTypeOK, NoBindingAfterStop
      <3>2. HostInv' /\ WorkerInv' /\ AttemptInv' /\ ServerInv'
        BY <1>0, <1>4, <2>1
           DEF stop_request, At, ProcessorInv, HostInv, WorkerInv, AttemptInv,
               ServerInv, Stopped, Processors
      <3> QED BY <3>1, <3>2 DEF ProcessorInv
    <2>2. CASE processor' = Attempt
      <3>1. /\ host.pc = "stop_worker" /\ processor.worker_started
            /\ ~processor.worker_exited /\ host' = [pc |-> "stop_wait"]
            /\ UNCHANGED <<pr_worker, server, pr_client>>
        <4>1. Attempt # processor
          <5>1. processor.stop_generation \in Nat
            BY <1>0 DEF Processors
          <5>2. Attempt.stop_generation = processor.stop_generation + 1
            BY <1>0 DEF Attempt, Processors
          <5> QED BY <5>1, <5>2
        <4> QED BY <1>4, <2>2, <4>1 DEF stop_request, At
      <3>2. processor.stop_generation + 1 \in 0 .. MaxStops
        BY <1>0, <3>1 DEF ProcessorInv, HostInv, Processors
      <3>3. /\ processor' = [processor EXCEPT
                               !.stop_generation = processor.stop_generation + 1,
                               !.stop_requested = TRUE, !.stop_attempt_complete = FALSE]
            /\ processor' \in Processors
        BY <1>0, <2>2, <3>2 DEF Attempt, Processors
      <3>4. ProcessorTypeOK'
        BY <1>0, <3>1, <3>3 DEF ProcessorInv, ProcessorTypeOK, Processors, Workers
      <3>5. (NoBindingAfterStop /\ HostInv)'
        BY <1>0, <3>1, <3>3
           DEF ProcessorInv, NoBindingAfterStop, HostInv, Stopped, Processors
      <3>6. WorkerInv' /\ AttemptInv' /\ ServerInv'
        BY <1>0, <3>1, <3>3
           DEF ProcessorInv, HostInv, WorkerInv, AttemptInv, ServerInv, Processors
      <3> QED BY <3>4, <3>5, <3>6 DEF ProcessorInv
    <2> QED BY <1>4, <2>1, <2>2 DEF stop_request
  <1>5. CASE stop_wait
    <2>1. ProcessorTypeOK'
      BY <1>0, <1>5
         DEF stop_wait, At, Joinable, ProcessorInv, ProcessorTypeOK, Processors,
             Workers
    <2>2. (NoBindingAfterStop /\ HostInv)'
      BY <1>0, <1>5
         DEF stop_wait, At, Joinable, ProcessorInv, NoBindingAfterStop, HostInv,
             Stopped, Processors, Workers, WorkerInv, AttemptInv
    <2>3. WorkerInv'
      BY <1>0, <1>5
         DEF stop_wait, At, Joinable, ProcessorInv, WorkerInv, Processors, Workers,
             HostInv
    <2>4. AttemptInv'
      BY <1>0, <1>5
         DEF stop_wait, At, Joinable, ProcessorInv, AttemptInv, Processors, Workers,
             HostInv, WorkerInv
    <2>5. ServerInv'
      BY <1>0, <1>5
         DEF stop_wait, At, Joinable, ProcessorInv, ServerInv, Processors, Workers,
             HostInv
    <2> QED BY <2>1, <2>2, <2>3, <2>4, <2>5 DEF ProcessorInv
  <1>6. CASE stop_timeout
    <2>1. ProcessorTypeOK'
      BY <1>0, <1>6
         DEF stop_timeout, At, ProcessorInv, ProcessorTypeOK, Processors, Workers
    <2>2. (NoBindingAfterStop /\ HostInv)'
      BY <1>0, <1>6
         DEF stop_timeout, At, ProcessorInv, NoBindingAfterStop, HostInv, Stopped,
             Processors, Workers, WorkerInv, AttemptInv
    <2>3. WorkerInv'
      BY <1>0, <1>6
         DEF stop_timeout, At, ProcessorInv, WorkerInv, Processors, Workers, HostInv
    <2>4. AttemptInv'
      BY <1>0, <1>6
         DEF stop_timeout, At, ProcessorInv, AttemptInv, Processors, Workers,
             HostInv, WorkerInv
    <2>5. ServerInv'
      BY <1>0, <1>6
         DEF stop_timeout, At, ProcessorInv, ServerInv, Processors, Workers, HostInv
    <2> QED BY <2>1, <2>2, <2>3, <2>4, <2>5 DEF ProcessorInv
  <1>7. CASE stop_join
    <2>1. ProcessorTypeOK'
      BY <1>0, <1>7
         DEF stop_join, At, ProcessorInv, ProcessorTypeOK, Processors, Workers
    <2>2. (NoBindingAfterStop /\ HostInv)'
      BY <1>0, <1>7
         DEF stop_join, At, ProcessorInv, NoBindingAfterStop, HostInv, Stopped,
             Processors, Workers, WorkerInv, AttemptInv
    <2>3. WorkerInv'
      BY <1>0, <1>7
         DEF stop_join, At, ProcessorInv, WorkerInv, Processors, Workers, HostInv
    <2>4. AttemptInv'
      BY <1>0, <1>7
         DEF stop_join, At, ProcessorInv, AttemptInv, Processors, Workers, HostInv,
             WorkerInv
    <2>5. ServerInv'
      BY <1>0, <1>7
         DEF stop_join, At, ProcessorInv, ServerInv, Processors, Workers, HostInv
    <2> QED BY <2>1, <2>2, <2>3, <2>4, <2>5 DEF ProcessorInv
  <1>8. CASE stop_finish
    <2>1. ProcessorTypeOK'
      <3>1. /\ processor' \in Processors /\ host' = [pc |-> "idle"]
            /\ UNCHANGED <<pr_worker, server, pr_client>>
        <4>1. (IF Stopped(processor) THEN "STOPPED" ELSE processor.state)
                 \in {"INITIALIZED", "RUNNING", "STOPPING", "STOPPED"}
          BY <1>0 DEF Processors
        <4> QED BY <1>0, <1>8, <4>1, Zenon DEF stop_finish, At, Processors
      <3> QED BY <3>1 DEF ProcessorInv, ProcessorTypeOK, Processors, Workers
    <2>2. (NoBindingAfterStop /\ HostInv)'
      BY <1>0, <1>8
         DEF stop_finish, At, Stopped, ProcessorInv, NoBindingAfterStop, HostInv,
             Processors, Workers, WorkerInv, AttemptInv
    <2>3. WorkerInv'
      BY <1>0, <1>8
         DEF stop_finish, At, Stopped, ProcessorInv, WorkerInv, Processors, Workers,
             HostInv
    <2>4. AttemptInv'
      BY <1>0, <1>8
         DEF stop_finish, At, Stopped, ProcessorInv, AttemptInv, Processors,
             Workers, HostInv, WorkerInv
    <2>5. ServerInv'
      BY <1>0, <1>8
         DEF stop_finish, At, Stopped, ProcessorInv, ServerInv, Processors, Workers,
             HostInv
    <2> QED BY <2>1, <2>2, <2>3, <2>4, <2>5 DEF ProcessorInv
  <1> QED BY <1>1, <1>2, <1>3, <1>4, <1>5, <1>6, <1>7, <1>8 DEF Stop

\* destroy, and the bindings other threads make and destroy.
LEMMA OtherKeeps ==
    ASSUME ProcessorAssumption, ProcessorInv,
           processor_destroy \/ binding_init \/ binding_destroy
    PROVE  ProcessorInv'
  <1>0. /\ processor \in Processors /\ pr_worker \in Workers
        /\ MaxStops \in Nat /\ MaxBindings \in Nat
    BY DEF ProcessorInv, ProcessorTypeOK, Processors, Workers, ProcessorAssumption
  <1>1. CASE processor_destroy
    <2>1. ProcessorTypeOK'
      BY <1>0, <1>1
         DEF processor_destroy, At, ProcessorInv, ProcessorTypeOK, Processors,
             Workers
    <2>2. (NoBindingAfterStop /\ HostInv)'
      BY <1>0, <1>1
         DEF processor_destroy, At, ProcessorInv, NoBindingAfterStop, HostInv,
             Stopped, Processors, Workers, WorkerInv, AttemptInv
    <2>3. WorkerInv'
      BY <1>0, <1>1
         DEF processor_destroy, At, ProcessorInv, WorkerInv, Processors, Workers,
             HostInv
    <2>4. AttemptInv'
      BY <1>0, <1>1
         DEF processor_destroy, At, ProcessorInv, AttemptInv, Processors, Workers,
             HostInv, WorkerInv
    <2>5. ServerInv'
      BY <1>0, <1>1
         DEF processor_destroy, At, ProcessorInv, ServerInv, Processors, Workers,
             HostInv
    <2> QED BY <2>1, <2>2, <2>3, <2>4, <2>5 DEF ProcessorInv
  <1>2. CASE binding_init
    <2>1. ProcessorTypeOK'
      BY <1>0, <1>2
         DEF binding_init, At, ProcessorInv, ProcessorTypeOK, Processors, Workers
    <2>2. (NoBindingAfterStop /\ HostInv)'
      BY <1>0, <1>2
         DEF binding_init, At, ProcessorInv, NoBindingAfterStop, HostInv, Stopped,
             Processors, Workers, WorkerInv, AttemptInv
    <2>3. WorkerInv'
      BY <1>0, <1>2
         DEF binding_init, At, ProcessorInv, WorkerInv, Processors, Workers, HostInv
    <2>4. AttemptInv'
      BY <1>0, <1>2
         DEF binding_init, At, ProcessorInv, AttemptInv, Processors, Workers,
             HostInv, WorkerInv
    <2>5. ServerInv'
      BY <1>0, <1>2
         DEF binding_init, At, ProcessorInv, ServerInv, Processors, Workers, HostInv
    <2> QED BY <2>1, <2>2, <2>3, <2>4, <2>5 DEF ProcessorInv
  <1>3. CASE binding_destroy
    <2>1. ProcessorTypeOK'
      BY <1>0, <1>3
         DEF binding_destroy, At, ProcessorInv, ProcessorTypeOK, Processors, Workers
    <2>2. (NoBindingAfterStop /\ HostInv)'
      BY <1>0, <1>3
         DEF binding_destroy, At, ProcessorInv, NoBindingAfterStop, HostInv,
             Stopped, Processors, Workers, WorkerInv, AttemptInv
    <2>3. WorkerInv'
      BY <1>0, <1>3
         DEF binding_destroy, At, ProcessorInv, WorkerInv, Processors, Workers,
             HostInv
    <2>4. AttemptInv'
      BY <1>0, <1>3
         DEF binding_destroy, At, ProcessorInv, AttemptInv, Processors, Workers,
             HostInv, WorkerInv
    <2>5. ServerInv'
      BY <1>0, <1>3
         DEF binding_destroy, At, ProcessorInv, ServerInv, Processors, Workers,
             HostInv
    <2> QED BY <2>1, <2>2, <2>3, <2>4, <2>5 DEF ProcessorInv
  <1> QED BY <1>1, <1>2, <1>3

\* A new processor satisfies the invariant.
LEMMA InitialProcessor == ProcessorAssumption /\ ProcessorInit => ProcessorInv
  BY DEF ProcessorAssumption, ProcessorInit, ProcessorInv, ProcessorTypeOK,
         NoBindingAfterStop,
         HostInv, WorkerInv, AttemptInv, ServerInv, Stopped

\* Every step of host, worker and other threads keeps the invariant.
LEMMA ProcessorStep ==
    ProcessorAssumption /\ ProcessorInv /\ [ProcessorNext]_prVars => ProcessorInv'
  <1> SUFFICES ASSUME ProcessorAssumption, ProcessorInv, [ProcessorNext]_prVars
               PROVE  ProcessorInv'
    OBVIOUS
  <1>1. CASE UNCHANGED prVars
    BY <1>1 DEF prVars, ProcessorInv, ProcessorTypeOK, NoBindingAfterStop,
                HostInv, WorkerInv, AttemptInv, ServerInv, Stopped
  <1>2. CASE ProcessorNext
    BY <1>2, StartKeeps, WorkerKeeps, StopKeeps, OtherKeeps DEF ProcessorNext
  <1> QED BY <1>1, <1>2

\* The invariant gives what host and worker rely on.
LEMMA ProcessorConsequences == ProcessorInv => ProcessorSound
  <1> SUFFICES ASSUME ProcessorInv PROVE ProcessorSound
    OBVIOUS
  <1>1. StoppedIsStopped
    BY DEF ProcessorInv, HostInv, WorkerInv, ServerInv, Stopped, StoppedIsStopped
  <1>2. OutcomeOfThisAttempt /\ JoinWillReturn
    BY DEF ProcessorInv, AttemptInv, OutcomeOfThisAttempt, JoinWillReturn
  <1>3. ClientFlagsTrue
    BY DEF ProcessorInv, ProcessorTypeOK, WorkerInv, ClientFlagsTrue
  <1> QED BY <1>1, <1>2, <1>3 DEF ProcessorInv, ProcessorSound

\* For every number of bindings and of attempts to stop: STOPPED means that
\* nothing of the processor runs, the host is only told of the attempt it asked
\* for, its flags are true and a join returns (chttp_event_io.c).
THEOREM ProcessorCorrect == ProcessorAssumption => (ProcessorSpec => []ProcessorSound)
  <1> SUFFICES ASSUME ProcessorAssumption PROVE ProcessorSpec => []ProcessorSound
    OBVIOUS
  <1>1. ProcessorInit => ProcessorInv
    BY InitialProcessor
  <1>2. ProcessorInv /\ [ProcessorNext]_prVars => ProcessorInv'
    BY ProcessorStep
  <1>3. ProcessorInv => ProcessorSound
    BY ProcessorConsequences
  <1> QED BY <1>1, <1>2, <1>3, PTL DEF ProcessorSpec

(***************************************************************************)
(* The resource and its bridge (scxml_chttp_resource.c,                    *)
(* voicexml_chttp_resource.c).                                             *)
(***************************************************************************)

\* What is known of the states and of the responses.
Impls == [live : BOOLEAN, raw_profile : BOOLEAN,
          active : {"NONE", "DATA", "TEXT"}, decoder : BOOLEAN,
          response : 0 .. MaxResponses]
Bodies == [state : {"none", "live", "destroyed"}, size : 0 .. MaxSize]

\* Exactly one user holds the active response, which lives and respects the
\* limit; without one nobody holds anything.
ActiveInv ==
    /\ impl.active = "NONE" => \A u \in Users : user[u] = 0
    /\ impl.active # "NONE" =>
          /\ impl.live /\ impl.response \in Responses
          /\ response[impl.response].state = "live"
          /\ response[impl.response].size <= max_response_body_bytes
          /\ \E u \in Users : /\ user[u] = impl.response
                              /\ \A w \in Users \ {u} : user[w] = 0
    /\ impl.decoder <=> impl.active = "DATA" /\ ~impl.raw_profile

\* What acquire_response and release_active keep, whoever calls them.
LeaseInv ==
    /\ impl \in Impls /\ user \in [Users -> 0 .. MaxResponses]
    /\ response \in [Responses -> Bodies] /\ decoder \subseteq Responses
    /\ ActiveInv /\ NoResponseLost /\ DecoderClosed

ResourceInv == ResourceTypeOK /\ LeaseInv /\ BridgeBusyMeansLent

\* Every nonempty set of natural numbers has a least element.
LEMMA LeastResponse ==
    ASSUME NEW T \in SUBSET Nat, T # {}
    PROVE  \E n \in T : \A m \in T : n <= m
  <1> DEFINE R == {p \in Nat \X Nat : p[1] < p[2]}
  <1>1. IsWellFoundedOn(R, Nat)
    <2>1. OpToRel(<, Nat) = R
      BY Zenon DEF OpToRel
    <2> QED BY <2>1, NatLessThanWellFounded, Zenon
  <1>2. PICK x \in T : \A y \in T : <<y, x>> \notin R
    <2> HIDE DEF R
    <2> QED BY <1>1, WFMin
  <1>3. ASSUME NEW y \in T PROVE x <= y
    BY <1>2, <<y, x>> \in Nat \X Nat
  <1> QED BY <1>3

\* The response that comes is one that was never given out.
LEMMA GotIsFresh ==
    ASSUME ResourceAssumption, Fresh # {}
    PROVE  Got \in Fresh
  <1>1. Fresh \in SUBSET Nat
    BY DEF Fresh, Responses, ResourceAssumption
  <1>2. \E r \in Fresh : \A q \in Fresh : r <= q
    BY <1>1, LeastResponse
  <1> QED BY <1>2, Zenon DEF Got

\* The limit of a request is never above the limit of the configuration.
LEMMA LimitOfRequest ==
    ASSUME ResourceAssumption, NEW kind, NEW max \in 1 .. MaxSize
    PROVE  /\ BodyLimit(kind, max) \in Nat
           /\ BodyLimit(kind, max) <= max_response_body_bytes
  BY DEF BodyLimit, ResourceAssumption

\* A response destroyed on an error path leaves everything as it was.
LEMMA RejectedKeeps ==
    ASSUME ResourceAssumption, LeaseInv, Fresh # {}, NEW reply \in Replies,
           Rejected(reply), UNCHANGED <<impl, user, decoder>>
    PROVE  LeaseInv'
  <1>1. Got \in Responses /\ response[Got].state = "none"
    BY GotIsFresh DEF Fresh
  <1>2. [state |-> "destroyed", size |-> reply.size] \in Bodies
    BY DEF Replies, Bodies
  <1>3. /\ response' \in [Responses -> Bodies]
        /\ response'[Got].state = "destroyed"
        /\ \A r \in Responses \ {Got} : response'[r] = response[r]
    BY <1>1, <1>2, Zenon DEF Rejected, LeaseInv
  <1>4. ActiveInv'
    BY <1>1, <1>3 DEF LeaseInv, ActiveInv
  <1>5. NoResponseLost'
    BY <1>1, <1>3 DEF LeaseInv, NoResponseLost
  <1>6. DecoderClosed'
    BY DEF LeaseInv, DecoderClosed
  <1> QED BY <1>3, <1>4, <1>5, <1>6 DEF LeaseInv

\* A response that is kept is the only one that lives, and its user the only one.
LEMMA KeptKeeps ==
    ASSUME ResourceAssumption, LeaseInv, MayAcquire, Fresh # {},
           NEW u \in Users, NEW kind \in {"DATA", "TEXT"}, NEW reply \in Replies,
           reply.size <= max_response_body_bytes,
           Kept(u, kind, reply, kind = "DATA" /\ ~impl.raw_profile)
    PROVE  LeaseInv' /\ user'[u] # 0 /\ \A w \in Users \ {u} : user'[w] = user[w]
  <1> DEFINE decodes == kind = "DATA" /\ ~impl.raw_profile
  <1>0. decodes \in BOOLEAN
    OBVIOUS
  <1>1. Got \in Responses /\ Got # 0
    BY GotIsFresh DEF Fresh, Responses, ResourceAssumption
  <1>2. [state |-> "live", size |-> reply.size] \in Bodies
    BY DEF Replies, Bodies
  <1>3. /\ response' \in [Responses -> Bodies]
        /\ response'[Got] = [state |-> "live", size |-> reply.size]
        /\ \A r \in Responses \ {Got} : response'[r] = response[r]
    BY <1>1, <1>2, Zenon DEF Kept, LeaseInv
  <1>4. /\ user' \in [Users -> 0 .. MaxResponses] /\ user'[u] = Got
        /\ \A w \in Users \ {u} : user'[w] = user[w] /\ user[w] = 0
    <2>1. /\ Got \in 0 .. MaxResponses /\ user \in [Users -> 0 .. MaxResponses]
          /\ user' = [user EXCEPT ![u] = Got]
      BY <1>1 DEF Kept, LeaseInv, Responses
    <2>2. \A w \in Users : user[w] = 0
      BY DEF LeaseInv, ActiveInv, MayAcquire
    <2> QED BY <2>1, <2>2, Zenon
  <1>5. /\ impl' \in Impls /\ impl'.active = kind /\ impl'.response = Got
        /\ impl'.live = impl.live /\ impl'.raw_profile = impl.raw_profile
        /\ impl'.decoder = decodes
    <2> HIDE DEF decodes
    <2>1. impl' = [impl EXCEPT !.active = kind, !.response = Got, !.decoder = decodes]
      BY Zenon DEF Kept, decodes
    <2>2. Got \in 0 .. MaxResponses
      BY <1>1 DEF Responses
    <2>3. impl \in Impls
      BY DEF LeaseInv
    <2> QED BY <1>0, <2>1, <2>2, <2>3, Zenon DEF Impls
  <1>6. decoder = {}
    BY DEF LeaseInv, DecoderClosed, MayAcquire
  <1>7. decoder' = IF decodes THEN {Got} ELSE {}
    BY <1>6 DEF Kept
  <1>8. ActiveInv'
    <2>1. impl'.active # "NONE" /\ impl'.live
      BY <1>5 DEF MayAcquire
    <2>2. /\ impl'.response \in Responses /\ response'[impl'.response].state = "live"
          /\ response'[impl'.response].size <= max_response_body_bytes
      BY <1>1, <1>3, <1>5
    <2>3. /\ user'[u] = impl'.response
          /\ \A w \in Users \ {u} : user'[w] = 0
      BY <1>4, <1>5
    <2>4. impl'.decoder <=> impl'.active = "DATA" /\ ~impl'.raw_profile
      BY <1>5
    <2> QED BY <2>1, <2>2, <2>3, <2>4 DEF ActiveInv
  <1>9. NoResponseLost'
    <2>1. \A r \in Responses : response[r].state # "live"
      BY DEF LeaseInv, ActiveInv, NoResponseLost, MayAcquire, Responses
    <2> QED BY <2>1, <1>3, <1>4 DEF NoResponseLost
  <1>10. DecoderClosed'
    BY <1>5, <1>7 DEF DecoderClosed
  <1>11. decoder' \subseteq Responses
    BY <1>1, <1>7
  <1> QED BY <1>1, <1>3, <1>4, <1>5, <1>8, <1>9, <1>10, <1>11 DEF LeaseInv

\* acquire_response, for any user: a response is kept for it exactly when it
\* was judged well.
LEMMA AcquireKeeps ==
    ASSUME ResourceAssumption, LeaseInv,
           NEW u \in Users, NEW kind \in {"DATA", "TEXT"}, NEW max \in 1 .. MaxSize,
           NEW reply \in Replies, NEW ready \in BOOLEAN,
           acquire_response(u, kind, max, reply, ready)
    PROVE  /\ LeaseInv'
           /\ \A w \in Users \ {u} : user'[w] = user[w]
           /\ kind = "TEXT" =>
                (user'[u] # 0 <=> Judged(reply, kind, max) = "OK" \/ user[u] # 0)
  <1>1. MayAcquire /\ Fresh # {}
    BY DEF acquire_response
  <1>2. CASE Judged(reply, kind, max) # "OK"
    <2>1. Rejected(reply) /\ UNCHANGED <<impl, user, decoder>>
      BY <1>2 DEF acquire_response
    <2> QED BY <1>1, <1>2, <2>1, RejectedKeeps
  <1>3. CASE /\ Judged(reply, kind, max) = "OK"
             /\ kind = "DATA" /\ ~impl.raw_profile /\ ~ready
    <2>1. Rejected(reply) /\ UNCHANGED <<impl, user, decoder>>
      BY <1>3 DEF acquire_response, Unready
    <2> QED BY <1>1, <1>3, <2>1, RejectedKeeps
  <1>4. CASE /\ Judged(reply, kind, max) = "OK"
             /\ ~(kind = "DATA" /\ ~impl.raw_profile /\ ~ready)
    <2>1. Kept(u, kind, reply, kind = "DATA" /\ ~impl.raw_profile)
      BY <1>4 DEF acquire_response
    <2>2. ~(reply.size > BodyLimit(kind, max))
      BY <1>4 DEF Judged
    <2>3. reply.size \in Int
      BY DEF Replies
    <2>4. reply.size <= max_response_body_bytes
      BY <2>2, <2>3, LimitOfRequest DEF ResourceAssumption
    <2>5. LeaseInv' /\ user'[u] # 0 /\ \A w \in Users \ {u} : user'[w] = user[w]
      BY <1>1, <2>1, <2>4, KeptKeeps
    <2> QED BY <1>4, <2>5
  <1> QED BY <1>2, <1>3, <1>4

\* release_active, for the user that holds the active response.
LEMMA ReleaseKeeps ==
    ASSUME ResourceAssumption, LeaseInv, NEW u \in Users, user[u] # 0,
           impl.active # "NONE", release_active, user' = [user EXCEPT ![u] = 0]
    PROVE  LeaseInv'
  <1> DEFINE r == impl.response
  <1>1. /\ r \in Responses /\ user[u] = r
        /\ \A w \in Users \ {u} : user[w] = 0
    BY DEF LeaseInv, ActiveInv
  <1>2. /\ impl' \in Impls /\ impl'.active = "NONE" /\ impl'.decoder = FALSE
        /\ impl'.raw_profile = impl.raw_profile
    BY DEF release_active, LeaseInv, Impls
  <1>3. /\ response' \in [Responses -> Bodies] /\ response'[r].state = "destroyed"
        /\ \A q \in Responses \ {r} : response'[q] = response[q]
    BY <1>1 DEF release_active, LeaseInv, Bodies
  <1>4. /\ user' \in [Users -> 0 .. MaxResponses]
        /\ \A w \in Users : user'[w] = 0
    BY <1>1 DEF LeaseInv, ResourceAssumption
  <1>5. decoder' = {}
    BY DEF release_active, Decoders, LeaseInv, ActiveInv, DecoderClosed
  <1>6. ActiveInv'
    BY <1>2, <1>4 DEF ActiveInv
  <1>7. NoResponseLost'
    BY <1>1, <1>3 DEF LeaseInv, NoResponseLost, Responses, ResourceAssumption
  <1>8. DecoderClosed'
    BY <1>2, <1>5 DEF DecoderClosed
  <1> QED BY <1>2, <1>3, <1>4, <1>5, <1>6, <1>7, <1>8 DEF LeaseInv

\* What LeaseInv says of the variables is the rest of ResourceTypeOK.
LEMMA TypeFromLease ==
    ResourceTypeOK <=>
        /\ impl \in Impls /\ user \in [Users -> 0 .. MaxResponses]
        /\ response \in [Responses -> Bodies] /\ decoder \subseteq Responses
        /\ voice \in [live : BOOLEAN, active : BOOLEAN,
                      last_status : {"OK"} \cup ResourceErrors]
  BY DEF ResourceTypeOK, Impls, Bodies

\* A step that leaves the leases alone, and the bridge as busy as it was.
LEMMA LeaseUnchanged ==
    ASSUME LeaseInv, UNCHANGED <<impl, user, response, decoder>>
    PROVE  LeaseInv'
  BY DEF LeaseInv, ActiveInv, NoResponseLost, DecoderClosed

\* A new resource and a new bridge satisfy the invariant.
LEMMA InitialResource == ResourceAssumption /\ ResourceInit => ResourceInv
  <1> SUFFICES ASSUME ResourceAssumption, ResourceInit PROVE ResourceInv
    OBVIOUS
  <1>1. LeaseInv
    BY DEF ResourceInit, LeaseInv, ActiveInv, NoResponseLost, DecoderClosed,
           Impls, Bodies, ResourceAssumption
  <1>2. /\ voice \in [live : BOOLEAN, active : BOOLEAN,
                      last_status : {"OK"} \cup ResourceErrors]
        /\ BridgeBusyMeansLent
    BY DEF ResourceInit, BridgeBusyMeansLent, Users
  <1> QED BY <1>1, <1>2, TypeFromLease DEF ResourceInv, LeaseInv

\* Judging always ends in a status the bridge can report.
LEMMA JudgedStatus ==
    ASSUME NEW reply, NEW kind, NEW max
    PROVE  Judged(reply, kind, max) \in {"OK"} \cup ResourceErrors
  BY DEF Judged, map_http_status, ResourceErrors

\* The calls of a data and of a text user.
LEMMA UserKeeps ==
    ASSUME ResourceAssumption, ResourceInv,
           \/ data_open \/ text_open
           \/ resource_close("data", "DATA") \/ resource_close("text", "TEXT")
    PROVE  ResourceInv'
  <1>0. LeaseInv /\ UNCHANGED voice
    BY DEF ResourceInv, data_open, text_open, resource_close
  <1>1. ASSUME NEW u \in {"data", "text"}, NEW kind \in {"DATA", "TEXT"},
               NEW max \in 1 .. MaxSize, NEW reply \in Replies, NEW ready \in BOOLEAN,
               acquire_response(u, kind, max, reply, ready)
        PROVE  LeaseInv' /\ user'["document"] = user["document"]
    BY <1>0, <1>1, AcquireKeeps DEF Users
  <1>2. ASSUME NEW u \in {"data", "text"}, NEW kind \in {"DATA", "TEXT"},
               resource_close(u, kind)
        PROVE  LeaseInv' /\ user'["document"] = user["document"]
    <2>1. LeaseInv'
      BY <1>0, <1>2, ReleaseKeeps DEF resource_close, Users
    <2> QED BY <1>0, <1>2, <2>1 DEF resource_close, LeaseInv, Users
  <1>3. LeaseInv' /\ user'["document"] = user["document"]
    <2>1. CASE UNCHANGED <<impl, user, response, decoder>>
      BY <1>0, <2>1, LeaseUnchanged
    <2>2. CASE data_open /\ ~UNCHANGED <<impl, user, response, decoder>>
      BY <1>1, <2>2 DEF data_open, Nothing
    <2>3. CASE text_open /\ ~UNCHANGED <<impl, user, response, decoder>>
      BY <1>1, <2>3 DEF text_open, Nothing
    <2>4. CASE resource_close("data", "DATA") \/ resource_close("text", "TEXT")
      BY <1>2, <2>4
    <2> QED BY <2>1, <2>2, <2>3, <2>4
  <1>4. BridgeBusyMeansLent'
    BY <1>0, <1>3 DEF ResourceInv, BridgeBusyMeansLent
  <1> QED BY <1>0, <1>3, <1>4, TypeFromLease
             DEF ResourceInv, ResourceTypeOK, LeaseInv, Impls, Bodies

\* The calls of the dialog manager, through the bridge.
LEMMA DocumentKeeps ==
    ASSUME ResourceAssumption, ResourceInv,
           document_open \/ document_open_with_policy \/ document_close
    PROVE  ResourceInv'
  <1> DEFINE Voices == [live : BOOLEAN, active : BOOLEAN,
                        last_status : {"OK"} \cup ResourceErrors]
  <1>0. /\ LeaseInv /\ BridgeBusyMeansLent /\ voice \in Voices
        /\ user \in [Users -> 0 .. MaxResponses]
    BY DEF ResourceInv, ResourceTypeOK, LeaseInv
  <1>1. CASE /\ Nothing
             /\ \E status \in ResourceErrors :
                   voice' = [voice EXCEPT !.last_status = status]
    <2>1. LeaseInv'
      BY <1>0, <1>1, LeaseUnchanged DEF Nothing
    <2>2. voice' \in Voices /\ BridgeBusyMeansLent'
      BY <1>0, <1>1 DEF Nothing, BridgeBusyMeansLent
    <2> QED BY <2>1, <2>2, TypeFromLease
               DEF ResourceInv, ResourceTypeOK, LeaseInv, Impls, Bodies
  <1>2. ASSUME NEW max \in 1 .. MaxSize, NEW reply \in Replies, ~voice.active,
               acquire_response("document", "TEXT", max, reply, TRUE),
               voice' = [voice EXCEPT !.active = (Judged(reply, "TEXT", max) = "OK"),
                                      !.last_status = Judged(reply, "TEXT", max)]
        PROVE  ResourceInv'
    <2>1. /\ LeaseInv'
          /\ user'["document"] # 0 <=>
                Judged(reply, "TEXT", max) = "OK" \/ user["document"] # 0
      BY <1>0, <1>2, AcquireKeeps DEF Users
    <2>2. user["document"] = 0
      BY <1>0, <1>2 DEF BridgeBusyMeansLent
    <2>3. Judged(reply, "TEXT", max) \in {"OK"} \cup ResourceErrors
      BY JudgedStatus
    <2>4. /\ voice' \in Voices
          /\ voice'.active = (Judged(reply, "TEXT", max) = "OK")
      <3> HIDE DEF Judged
      <3>1. (Judged(reply, "TEXT", max) = "OK") \in BOOLEAN
        OBVIOUS
      <3> QED BY <1>0, <1>2, <2>3, <3>1, Zenon
    <2>5. BridgeBusyMeansLent'
      BY <2>1, <2>2, <2>4 DEF BridgeBusyMeansLent
    <2> QED BY <2>1, <2>4, <2>5, TypeFromLease
            DEF ResourceInv, ResourceTypeOK, LeaseInv, Impls, Bodies
  <1>3. CASE document_open
    BY <1>1, <1>2, <1>3 DEF document_open
  <1>4. CASE document_open_with_policy
    <2>1. LeaseInv'
      BY <1>0, <1>4, LeaseUnchanged DEF document_open_with_policy
    <2>2. voice' \in Voices /\ BridgeBusyMeansLent'
      BY <1>0, <1>4 DEF document_open_with_policy, BridgeBusyMeansLent, ResourceErrors
    <2> QED BY <2>1, <2>2, TypeFromLease
               DEF ResourceInv, ResourceTypeOK, LeaseInv, Impls, Bodies
  <1>5. CASE document_close
    <2>1. user["document"] # 0 /\ "document" \in Users
      BY <1>0, <1>5 DEF document_close, BridgeBusyMeansLent, Users
    <2>2. LeaseInv'
      BY <1>0, <1>5, <2>1, ReleaseKeeps DEF document_close
    <2>3. voice' \in Voices /\ BridgeBusyMeansLent'
      BY <1>0, <1>5, <2>1 DEF document_close, BridgeBusyMeansLent
    <2> QED BY <2>2, <2>3, TypeFromLease
               DEF ResourceInv, ResourceTypeOK, LeaseInv, Impls, Bodies
  <1> QED BY <1>3, <1>4, <1>5

\* Destroying the resource or the bridge: only when nothing is lent.
LEMMA DestroyKeeps ==
    ASSUME ResourceAssumption, ResourceInv, resource_destroy \/ voice_destroy
    PROVE  ResourceInv'
  <1> DEFINE Voices == [live : BOOLEAN, active : BOOLEAN,
                        last_status : {"OK"} \cup ResourceErrors]
  <1>0. LeaseInv /\ BridgeBusyMeansLent /\ voice \in Voices
    BY DEF ResourceInv, ResourceTypeOK
  <1>1. CASE resource_destroy
    <2>1. impl' \in Impls /\ UNCHANGED <<user, response, decoder, voice>>
      BY <1>0, <1>1 DEF resource_destroy, LeaseInv, Impls
    <2>2. /\ impl.active = "NONE" /\ impl'.active = "NONE" /\ impl'.decoder = impl.decoder
          /\ impl'.raw_profile = impl.raw_profile
      BY <1>0, <1>1 DEF resource_destroy, LeaseInv, Impls
    <2>3. LeaseInv'
      BY <1>0, <2>1, <2>2 DEF LeaseInv, ActiveInv, NoResponseLost, DecoderClosed
    <2>4. voice' \in Voices /\ BridgeBusyMeansLent'
      BY <1>0, <2>1 DEF BridgeBusyMeansLent
    <2> QED BY <2>3, <2>4, TypeFromLease
               DEF ResourceInv, ResourceTypeOK, LeaseInv, Impls, Bodies
  <1>2. CASE voice_destroy
    <2>1. LeaseInv'
      BY <1>0, <1>2, LeaseUnchanged DEF voice_destroy
    <2>2. voice' \in Voices /\ BridgeBusyMeansLent'
      BY <1>0, <1>2 DEF voice_destroy, BridgeBusyMeansLent
    <2> QED BY <2>1, <2>2, TypeFromLease
               DEF ResourceInv, ResourceTypeOK, LeaseInv, Impls, Bodies
  <1> QED BY <1>1, <1>2

\* Every call keeps the invariant.
LEMMA ResourceStep ==
    ResourceAssumption /\ ResourceInv /\ [ResourceNext]_reVars => ResourceInv'
  <1> SUFFICES ASSUME ResourceAssumption, ResourceInv, [ResourceNext]_reVars
               PROVE  ResourceInv'
    OBVIOUS
  <1>1. CASE UNCHANGED reVars
    <2>1. LeaseInv'
      BY <1>1, LeaseUnchanged DEF reVars, ResourceInv
    <2> QED BY <1>1, <2>1 DEF reVars, ResourceInv, ResourceTypeOK, BridgeBusyMeansLent
  <1>2. CASE ResourceNext
    BY <1>2, UserKeeps, DocumentKeeps, DestroyKeeps DEF ResourceNext
  <1> QED BY <1>1, <1>2

\* The invariant gives what the users rely on.
LEMMA ResourceConsequences == ResourceAssumption /\ ResourceInv => ResourceSound
  <1> SUFFICES ASSUME ResourceAssumption, ResourceInv PROVE ResourceSound
    OBVIOUS
  <1>1. /\ ResourceTypeOK /\ NoResponseLost /\ DecoderClosed /\ BridgeBusyMeansLent
        /\ ActiveInv
    BY DEF ResourceInv, LeaseInv
  <1>2. ASSUME NEW u \in Users, user[u] # 0
        PROVE  /\ impl.live /\ impl.active # "NONE" /\ impl.response = user[u]
               /\ response[user[u]].state = "live"
               /\ response[user[u]].size <= max_response_body_bytes
               /\ \A w \in Users \ {u} : user[w] # user[u]
    BY <1>1, <1>2 DEF ActiveInv
  <1>3. LentIsAlive /\ LentWithinLimit
    BY <1>2 DEF LentIsAlive, LentWithinLimit
  <1> QED BY <1>1, <1>3 DEF ResourceSound

\* For every limit of the configuration and of the callers, and any number of
\* responses: one response at a time is lent to one user, alive and within the
\* limit, and none is lost on any error path (scxml_chttp_resource.c).
THEOREM ResourceCorrect == ResourceAssumption => (ResourceSpec => []ResourceSound)
  <1> SUFFICES ASSUME ResourceAssumption PROVE ResourceSpec => []ResourceSound
    OBVIOUS
  <1>1. ResourceInit => ResourceInv
    BY InitialResource
  <1>2. ResourceInv /\ [ResourceNext]_reVars => ResourceInv'
    BY ResourceStep
  <1>3. ResourceInv => ResourceSound
    BY ResourceConsequences
  <1> QED BY <1>1, <1>2, <1>3, PTL DEF ResourceSpec
=============================================================================
