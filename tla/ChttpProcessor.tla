---------------------------- MODULE ChttpProcessor ----------------------------
(***************************************************************************)
(* Starting, stopping and destroying the BasicHTTP processor               *)
(* (chttp_event_io.c).  start waits for the worker thread to create the    *)
(* HTTP client; stop first stops the server, then asks the worker to stop  *)
(* and destroy the client within a deadline, and may be called again after *)
(* a timeout, while the worker is still busy with the previous attempt.    *)
(*                                                                         *)
(* Time is not counted: a step that waits may end by its deadline at any   *)
(* moment.  An action is one critical section of start, stop or the worker.*)
(***************************************************************************)
EXTENDS Integers

CONSTANTS
    MaxBindings,   \* bound: bindings at the same time
    MaxStops       \* bound: attempts to stop

ProcessorAssumption == MaxBindings \in Nat \ {0} /\ MaxStops \in Nat \ {0}

VARIABLES
    processor,   \* the struct scxml_chttp_processor_impl
    pr_worker,      \* the worker thread: where it is, and the attempt it works on
    host,        \* the host thread inside start or stop
    server,      \* external: the HTTP server
    pr_client       \* external: the HTTP client

prVars == <<processor, pr_worker, host, server, pr_client>>

ProcessorTypeOK ==
    /\ processor \in
         [state : {"INITIALIZED", "RUNNING", "STOPPING", "STOPPED"},
          stop_active : BOOLEAN, stop_requested : BOOLEAN,
          stop_attempt_complete : BOOLEAN,
          worker_started : BOOLEAN, worker_ready : BOOLEAN,
          worker_exited : BOOLEAN, init_failed : BOOLEAN,
          server_stopped : BOOLEAN, client_stopped : BOOLEAN,
          client_destroyed : BOOLEAN, stop_generation : 0 .. MaxStops,
          stop_failed : BOOLEAN, terminal_error : BOOLEAN,
          live_bindings : 0 .. MaxBindings]
    /\ pr_worker \in [pc : {"none", "init", "loop", "stopping", "waiting", "exited"},
                   generation : 0 .. MaxStops]
    /\ host \in [pc : {"idle", "starting", "start_failed", "stop_server",
                       "stop_worker", "stop_wait", "join", "finish", "destroyed"}]
    /\ server \in {"new", "running", "stopped", "destroyed"}
    /\ pr_client \in {"none", "running", "stopped", "destroyed"}

ProcessorInit ==
    /\ processor =
         [state |-> "INITIALIZED", stop_active |-> FALSE, stop_requested |-> FALSE,
          stop_attempt_complete |-> FALSE, worker_started |-> FALSE,
          worker_ready |-> FALSE, worker_exited |-> FALSE, init_failed |-> FALSE,
          server_stopped |-> FALSE, client_stopped |-> TRUE,
          client_destroyed |-> TRUE, stop_generation |-> 0,
          stop_failed |-> FALSE, terminal_error |-> FALSE, live_bindings |-> 0]
    /\ pr_worker = [pc |-> "none", generation |-> 0]
    /\ host = [pc |-> "idle"]
    /\ server = "new"
    /\ pr_client = "none"

At(pc) == host' = [pc |-> pc]

-----------------------------------------------------------------------------
(* start                                                                   *)

\* chttp_server_start has failed: nothing has changed.  Otherwise the thread
\* is created and start waits, with the lock released, for the worker.
start_begin ==
    /\ host.pc = "idle" /\ processor.state = "INITIALIZED" /\ ~processor.worker_started
    /\ server' = "running"
    /\ processor' = [processor EXCEPT !.worker_started = TRUE]
    /\ pr_worker' = [pr_worker EXCEPT !.pc = "init"]
    /\ At("starting")
    /\ UNCHANGED pr_client

\* The port cannot be had, or the thread cannot be created.
start_no_worker ==
    /\ host.pc = "idle" /\ processor.state = "INITIALIZED" /\ ~processor.worker_started
    /\ server' = "running"
    /\ At("start_failed")
    /\ UNCHANGED <<processor, pr_worker, pr_client>>

start_ready ==
    /\ host.pc = "starting" /\ processor.worker_ready /\ ~processor.init_failed
    /\ processor' = [processor EXCEPT !.state = "RUNNING"]
    /\ At("idle")
    /\ UNCHANGED <<pr_worker, server, pr_client>>

\* The worker could not create its client and has returned; it is joined.
start_init_failed ==
    /\ host.pc = "starting" /\ processor.worker_ready /\ processor.init_failed
    /\ processor' = [processor EXCEPT !.worker_started = FALSE]
    /\ At("start_failed")
    /\ UNCHANGED <<pr_worker, server, pr_client>>

\* The label stop_server: the processor is STOPPED, or a stop has to follow.
start_stop_server(stopped) ==
    /\ host.pc = "start_failed"
    /\ server' = IF stopped THEN "stopped" ELSE server
    /\ processor' = [processor EXCEPT
          !.server_stopped = stopped,
          !.state = IF stopped /\ processor.client_destroyed /\ ~processor.worker_started
                      THEN "STOPPED" ELSE "STOPPING"]
    /\ At("idle")
    /\ UNCHANGED <<pr_worker, pr_client>>

-----------------------------------------------------------------------------
(* The worker.                                                             *)

worker_init(ok) ==
    /\ pr_worker.pc = "init"
    /\ processor' = [processor EXCEPT
          !.init_failed = ~ok, !.worker_ready = TRUE, !.client_stopped = ~ok,
          !.client_destroyed = ~ok, !.worker_exited = ~ok]
    /\ pr_client' = IF ok THEN "running" ELSE pr_client
    /\ pr_worker' = [pr_worker EXCEPT !.pc = IF ok THEN "loop" ELSE "exited"]
    /\ UNCHANGED <<host, server>>

\* The loop sees the request and takes its generation along.
worker_stop_begin ==
    /\ pr_worker.pc = "loop" /\ processor.stop_requested
    /\ pr_worker' = [pc |-> "stopping", generation |-> processor.stop_generation]
    /\ UNCHANGED <<processor, host, server, pr_client>>

\* Fault: the worker returns without saying so.
Exited_Silently(p) == [p EXCEPT !.stop_failed = FALSE, !.stop_attempt_complete = TRUE]

Exited(p) == [p EXCEPT !.stop_failed = FALSE, !.stop_attempt_complete = TRUE,
                       !.worker_exited = TRUE]

\* The client is stopped and destroyed: the worker returns.
worker_stop_done ==
    /\ pr_worker.pc = "stopping"
    /\ pr_client' = "destroyed"
    /\ processor' = Exited([processor EXCEPT !.client_stopped = TRUE,
                                             !.client_destroyed = TRUE])
    /\ pr_worker' = [pr_worker EXCEPT !.pc = "exited"]
    /\ UNCHANGED <<host, server>>

\* Fault: the outcome of an old attempt is reported for the current one.
Reported_Always == TRUE

\* Only the attempt the host still waits for is reported.
Reported == processor.stop_generation = pr_worker.generation

\* Stopping or destroying the client has failed or timed out.  The worker waits
\* for the next attempt, or tries at once when there is one already.
worker_stop_failed(stopped) ==
    /\ pr_worker.pc = "stopping"
    /\ pr_client' = IF stopped THEN "stopped" ELSE pr_client
    /\ processor' = LET p == [processor EXCEPT !.client_stopped = @ \/ stopped]
                    IN IF Reported
                         THEN [p EXCEPT !.stop_failed = TRUE,
                                        !.stop_attempt_complete = TRUE]
                         ELSE p
    /\ pr_worker' = [pr_worker EXCEPT !.pc = IF Reported THEN "waiting" ELSE "loop"]
    /\ UNCHANGED <<host, server>>

Next_attempt == processor.stop_generation # pr_worker.generation

worker_stop_again ==
    /\ pr_worker.pc = "waiting" /\ Next_attempt
    /\ pr_worker' = [pr_worker EXCEPT !.pc = "loop"]
    /\ UNCHANGED <<processor, host, server, pr_client>>

-----------------------------------------------------------------------------
(* stop                                                                    *)

stop_begin ==
    /\ host.pc = "idle" /\ processor.live_bindings = 0 /\ ~processor.stop_active
    /\ processor.state \in {"RUNNING", "STOPPING"}
    /\ processor.stop_generation < MaxStops
    /\ processor' = [processor EXCEPT !.stop_active = TRUE, !.state = "STOPPING"]
    /\ At("stop_server")
    /\ UNCHANGED <<pr_worker, server, pr_client>>

\* The server is stopped; an error after which it no longer runs is kept for
\* the result of stop.
stop_server(terminal_error) ==
    /\ host.pc = "stop_server"
    /\ IF processor.server_stopped THEN UNCHANGED <<processor, server>>
       ELSE /\ server' = "stopped"
            /\ processor' = [processor EXCEPT !.server_stopped = TRUE,
                                              !.terminal_error = @ \/ terminal_error]
    /\ At("stop_worker")
    /\ UNCHANGED <<pr_worker, pr_client>>

\* The deadline has passed, or the server still runs.
stop_server_failed ==
    /\ host.pc = "stop_server" /\ ~processor.server_stopped
    /\ At("finish")
    /\ UNCHANGED <<processor, pr_worker, server, pr_client>>

Attempt == [processor EXCEPT !.stop_generation = @ + 1, !.stop_requested = TRUE,
                             !.stop_attempt_complete = FALSE]

\* A new attempt is published to the worker, unless it has returned.
stop_request ==
    /\ host.pc = "stop_worker"
    /\ IF ~processor.worker_started
         THEN At("finish") /\ UNCHANGED processor
         ELSE /\ At("stop_wait")
              /\ IF processor.worker_exited THEN UNCHANGED processor
                 ELSE processor' = Attempt
    /\ UNCHANGED <<pr_worker, server, pr_client>>

Joinable == processor.worker_exited \/ ~processor.stop_failed

stop_wait ==
    /\ host.pc = "stop_wait"
    /\ processor.stop_attempt_complete \/ processor.worker_exited
    /\ At(IF Joinable THEN "join" ELSE "finish")
    /\ UNCHANGED <<processor, pr_worker, server, pr_client>>

stop_timeout ==
    /\ host.pc = "stop_wait"
    /\ ~(processor.stop_attempt_complete \/ processor.worker_exited)
    /\ At("finish")
    /\ UNCHANGED <<processor, pr_worker, server, pr_client>>

\* cmeta_thread_join returns when the worker has.
stop_join ==
    /\ host.pc = "join" /\ pr_worker.pc = "exited"
    /\ processor' = [processor EXCEPT !.worker_started = FALSE]
    /\ At("finish")
    /\ UNCHANGED <<pr_worker, server, pr_client>>

Stopped(p) == p.server_stopped /\ ~p.worker_started /\ p.client_destroyed

stop_finish ==
    /\ host.pc = "finish"
    /\ processor' = [processor EXCEPT
          !.stop_active = FALSE,
          !.state = IF Stopped(processor) THEN "STOPPED" ELSE @]
    /\ At("idle")
    /\ UNCHANGED <<pr_worker, server, pr_client>>

processor_destroy ==
    /\ host.pc = "idle" /\ processor.state = "STOPPED"
    /\ processor.client_destroyed /\ processor.live_bindings = 0
    /\ server' = "destroyed"
    /\ At("destroyed")
    /\ UNCHANGED <<processor, pr_worker, pr_client>>

-----------------------------------------------------------------------------
(* Bindings, made and destroyed on other threads.                          *)

binding_init ==
    /\ host.pc # "destroyed" /\ processor.state = "RUNNING"
    /\ processor.live_bindings < MaxBindings
    /\ processor' = [processor EXCEPT !.live_bindings = @ + 1]
    /\ UNCHANGED <<pr_worker, host, server, pr_client>>

binding_destroy ==
    /\ host.pc # "destroyed" /\ processor.live_bindings > 0
    /\ processor' = [processor EXCEPT !.live_bindings = @ - 1]
    /\ UNCHANGED <<pr_worker, host, server, pr_client>>

Start == start_begin \/ start_no_worker \/ start_ready \/ start_init_failed
            \/ \E stopped \in BOOLEAN : start_stop_server(stopped)
Worker == \/ \E ok \in BOOLEAN : worker_init(ok)
          \/ worker_stop_begin \/ worker_stop_done \/ worker_stop_again
          \/ \E stopped \in BOOLEAN : worker_stop_failed(stopped)
Stop == \/ stop_begin \/ stop_server_failed \/ stop_request \/ stop_wait
        \/ stop_timeout \/ stop_join \/ stop_finish
        \/ \E terminal_error \in BOOLEAN : stop_server(terminal_error)

ProcessorNext ==
    Start \/ Worker \/ Stop \/ processor_destroy \/ binding_init \/ binding_destroy

ProcessorSpec == ProcessorInit /\ [][ProcessorNext]_prVars

\* Threads that are not waiting go on.  Nothing is assumed of timeouts, of the
\* server or of the client.
ProcessorFairness ==
    /\ WF_prVars(Worker)
    /\ WF_prVars(start_ready \/ start_init_failed
                 \/ \E stopped \in BOOLEAN : start_stop_server(stopped))
    /\ WF_prVars(stop_server_failed \/ stop_request \/ stop_wait
                 \/ stop_join \/ stop_finish
                 \/ \E terminal_error \in BOOLEAN : stop_server(terminal_error))

ProcessorFairSpec == ProcessorSpec /\ ProcessorFairness

-----------------------------------------------------------------------------
(* What has to hold.                                                       *)

\* A processor that stops or has stopped has no bindings and gets none, so that
\* a binding's rows always find it RUNNING.
NoBindingAfterStop == processor.live_bindings > 0 => processor.state = "RUNNING"

\* STOPPED means stopped: no thread of the processor runs, neither server nor
\* client is alive, and what destroy frees is used by nobody.
StoppedIsStopped ==
    processor.state = "STOPPED" =>
        /\ pr_worker.pc \in {"none", "exited"}
        /\ server \in {"stopped", "destroyed"}
        /\ pr_client \in {"none", "destroyed"}

\* The host is only told of the attempt it asked for: a failure of an attempt
\* that timed out before is never taken for the outcome of the next one.
OutcomeOfThisAttempt ==
    host.pc = "stop_wait" /\ processor.stop_attempt_complete /\ processor.stop_failed
        => pr_worker.generation = processor.stop_generation

\* Every flag of the client that lets the host go on says what CNet would.
ClientFlagsTrue ==
    /\ processor.client_destroyed => pr_client \in {"none", "destroyed"}
    /\ processor.client_stopped => pr_client \in {"none", "stopped", "destroyed"}

\* The worker is joined once it has exited, and exits only with its client gone.
JoinWillReturn == host.pc = "join" => pr_worker.pc = "exited"

\* start and stop return, whatever times out or fails.
CallsReturn == []<>(host.pc \in {"idle", "destroyed"})

\* A worker that was asked to stop never goes to sleep over a newer request.
NoLostRequest ==
    processor.stop_requested ~>
        \/ pr_worker.pc = "exited"
        \/ pr_worker.pc = "waiting" /\ processor.stop_attempt_complete

\* What host and worker tell each other about a stop is true whenever it is
\* acted upon, however many attempts timed out before.
ProcessorSound ==
    /\ ProcessorTypeOK
    /\ NoBindingAfterStop /\ StoppedIsStopped
    /\ OutcomeOfThisAttempt /\ ClientFlagsTrue /\ JoinWillReturn
=============================================================================
