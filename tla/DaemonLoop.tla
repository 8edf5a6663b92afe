----------------------------- MODULE DaemonLoop -----------------------------
(***************************************************************************)
(* The life of the daemon: main() of movid.cpp from the parsed options to  *)
(* the exit.  It loads the pipeline given on the command line, binds the   *)
(* web server, and then loops: poll a started pipeline, log the errors of  *)
(* its modules, serve the pending requests.  SIGTERM and SIGINT may arrive *)
(* between any two steps.                                                  *)
(*                                                                         *)
(* Of a module the model keeps whether it exists and whether its is_error  *)
(* is set; of a preset file whether it parses.                             *)
(***************************************************************************)
EXTENDS Naturals, FiniteSets

CONSTANTS
  Module,      \* the modules a pipeline may hold
  Slot,        \* the preset slots a request may load
  Preset,      \* Preset[s]: "good", "bad" (a parse error) or "missing"
  Options,     \* the records [preset, http, test] the command line may give
  MaxRequests  \* how many requests one event_base_loop call serves at most

VARIABLES
  options,              \* config_pipelinefn, config_httpserver, test_mode
  pc,                   \* where main() is
  want_quit,
  modules, is_started,  \* the pipeline
  errors,               \* modules whose is_error is set
  last_internal_error,  \* is moPipeline::last_internal_error non-empty?
  requests,             \* requests this event_base_loop call may still serve
  port_busy,            \* does another process hold port 7500?
  term, bye             \* history: a signal, a quit request arrived

pipe == <<modules, is_started, errors, last_internal_error>>
env == <<options, port_busy>>
vars == <<options, pc, want_quit, pipe, requests, port_busy, term, bye>>

Init ==
  /\ options \in Options /\ pc = "parse" /\ want_quit = FALSE
  /\ modules = {} /\ is_started = FALSE /\ errors = {}
  /\ last_internal_error = FALSE
  /\ requests = 0 /\ port_busy \in BOOLEAN
  /\ term = FALSE /\ bye = FALSE
-----------------------------------------------------------------------------
(* Loading a preset and starting: operators on the pipeline.               *)

\* moPipeline::parse on an empty pipeline; a bad file leaves what came first.
parse(preset) ==
  /\ modules' \in IF preset = "good" THEN {Module}
                  ELSE IF preset = "bad" THEN SUBSET Module ELSE {{}}
  /\ errors' = {}
  /\ last_internal_error' = (last_internal_error \/ preset = "missing")

\* A started or updated module may set its error.
MayFail == \E E \in SUBSET modules : errors' = errors \cup E

haveError == last_internal_error \/ errors # {}
-----------------------------------------------------------------------------
(* Start-up.                                                               *)

After(p) == pc' = p /\ UNCHANGED <<want_quit, requests, term, bye>>

ParseNothing ==
  /\ pc = "parse" /\ options.preset = "none"
  /\ After(IF options.http THEN "bind" ELSE "exit")
  /\ UNCHANGED <<env, pipe>>

ParseFails ==
  /\ pc = "parse" /\ options.preset \in {"bad", "missing"}
  /\ parse(options.preset)
  /\ After("exit")
  /\ UNCHANGED <<env, is_started>>

ParseAndStart ==
  /\ pc = "parse" /\ options.preset = "good"
  /\ modules' = Module /\ is_started' = TRUE
  /\ errors' \in SUBSET Module
  /\ After(IF options.http THEN "bind" ELSE "loop")
  /\ UNCHANGED <<env, last_internal_error>>

\* evhttp_bind_socket is retried every three seconds while it fails.
Bind ==
  /\ pc = "bind" /\ ~port_busy
  /\ After("loop")
  /\ UNCHANGED <<env, pipe>>

PortFreed ==
  /\ port_busy /\ port_busy' = FALSE
  /\ UNCHANGED <<options, pc, want_quit, pipe, requests, term, bye>>
-----------------------------------------------------------------------------
(* The main loop.                                                          *)

\* Faulty: a started pipeline keeps the loop running.
Loop_UntilStopped ==
  /\ pc = "loop"
  /\ After(IF want_quit /\ ~is_started THEN "exit"
           ELSE IF is_started THEN "poll" ELSE "serve")
  /\ UNCHANGED <<env, pipe>>

Loop ==
  /\ pc = "loop"
  /\ After(IF want_quit THEN "exit" ELSE IF is_started THEN "poll" ELSE "serve")
  /\ UNCHANGED <<env, pipe>>

\* Faulty: goes on to the requests at once.
Poll_SkipsErrors ==
  /\ pc = "poll" /\ MayFail
  /\ After("serve")
  /\ UNCHANGED <<env, modules, is_started, last_internal_error>>

Poll ==
  /\ pc = "poll" /\ MayFail
  /\ After("errors")
  /\ UNCHANGED <<env, modules, is_started, last_internal_error>>

\* Faulty: test mode does not end the loop.
LogError_GoesOn ==
  /\ pc = "errors" /\ haveError
  /\ IF last_internal_error THEN UNCHANGED errors
     ELSE \E m \in errors : errors' = errors \ {m}
  /\ UNCHANGED <<env, pc, want_quit, modules, is_started, last_internal_error,
                 requests, term, bye>>

\* Faulty: leaves the error set.
LogError_Keeps ==
  /\ pc = "errors" /\ haveError
  /\ want_quit' = (want_quit \/ options.test)
  /\ UNCHANGED <<env, pc, pipe, requests, term, bye>>

\* getLastError returns the internal error, else that of a module, reset.
LogError ==
  /\ pc = "errors" /\ haveError
  /\ IF last_internal_error THEN UNCHANGED errors
     ELSE \E m \in errors : errors' = errors \ {m}
  /\ want_quit' = (want_quit \/ options.test)
  /\ UNCHANGED <<env, pc, modules, is_started, last_internal_error, requests,
                 term, bye>>

ErrorsLogged ==
  /\ pc = "errors" /\ ~haveError
  /\ After("serve")
  /\ UNCHANGED <<env, pipe>>

Serve ==
  /\ pc = "serve"
  /\ pc' = IF options.http THEN "events" ELSE "loop"
  /\ requests' = MaxRequests
  /\ UNCHANGED <<env, want_quit, pipe, term, bye>>

Served ==
  /\ pc = "events"
  /\ After("loop")
  /\ UNCHANGED <<env, pipe>>

Exit ==
  /\ pc = "exit"
  /\ pc' = "exited"
  /\ modules' = {} /\ errors' = {} /\ is_started' = FALSE
  /\ UNCHANGED <<env, want_quit, last_internal_error, requests, term, bye>>
-----------------------------------------------------------------------------
(* Requests.                                                               *)

Request ==
  /\ pc = "events" /\ requests > 0
  /\ requests' = requests - 1
  /\ UNCHANGED <<env, pc, term>>

web_pipeline_start ==
  /\ Request
  /\ is_started' = TRUE /\ MayFail
  /\ UNCHANGED <<want_quit, modules, last_internal_error, bye>>

web_pipeline_stop ==
  /\ Request
  /\ is_started' = FALSE
  /\ UNCHANGED <<want_quit, modules, errors, last_internal_error, bye>>

web_pipeline_create(m) ==
  /\ Request /\ m \notin modules
  /\ modules' = modules \cup {m}
  /\ UNCHANGED <<want_quit, is_started, errors, last_internal_error, bye>>

\* Faulty: the module stays on the list of errors.
web_pipeline_remove_Keeps(m) ==
  /\ Request /\ m \in modules
  /\ modules' = modules \ {m}
  /\ UNCHANGED <<want_quit, is_started, errors, last_internal_error, bye>>

web_pipeline_remove(m) ==
  /\ Request /\ m \in modules
  /\ modules' = modules \ {m} /\ errors' = errors \ {m}
  /\ UNCHANGED <<want_quit, is_started, last_internal_error, bye>>

\* Connecting or setting a property may set the module's error.
web_pipeline_set(m) ==
  /\ Request /\ m \in modules
  /\ errors' \in {errors, errors \cup {m}}
  /\ UNCHANGED <<want_quit, modules, is_started, last_internal_error, bye>>

web_pipeline_slot_load(s) ==
  /\ Request
  /\ is_started' = FALSE
  /\ parse(Preset[s])
  /\ UNCHANGED <<want_quit, bye>>

web_pipeline_quit ==
  /\ Request
  /\ want_quit' = FALSE /\ bye' = TRUE
  /\ UNCHANGED pipe

signal_term ==
  /\ pc # "exited"
  /\ want_quit' = TRUE /\ term' = TRUE
  /\ UNCHANGED <<env, pc, pipe, requests, bye>>
-----------------------------------------------------------------------------
Main ==
  \/ ParseNothing \/ ParseFails \/ ParseAndStart \/ Bind
  \/ Loop \/ Poll \/ LogError \/ ErrorsLogged \/ Serve \/ Served \/ Exit

Requests ==
  \/ web_pipeline_start \/ web_pipeline_stop \/ web_pipeline_quit
  \/ \E m \in Module : web_pipeline_create(m) \/ web_pipeline_remove(m)
                         \/ web_pipeline_set(m)
  \/ \E s \in Slot : web_pipeline_slot_load(s)

\* The process ends here: nothing more happens.
Ended == pc = "exited" /\ UNCHANGED vars

Next == Main \/ Requests \/ signal_term \/ PortFreed \/ Ended

Spec == Init /\ [][Next]_vars

(* The main thread runs, and a port that is in use becomes free.           *)
FairSpec == Spec /\ WF_vars(Main) /\ WF_vars(PortFreed)
-----------------------------------------------------------------------------
TypeOK ==
  /\ options \in Options
  /\ pc \in {"parse", "bind", "loop", "poll", "errors", "serve", "events",
             "exit", "exited"}
  /\ want_quit \in BOOLEAN /\ is_started \in BOOLEAN
  /\ modules \subseteq Module /\ errors \subseteq modules
  /\ last_internal_error \in BOOLEAN /\ port_busy \in BOOLEAN
  /\ requests \in 0..MaxRequests
  /\ term \in BOOLEAN /\ bye \in BOOLEAN

Logging == pc = "errors"
Gone == pc = "exited" \/ bye
Terminated == term /\ ~bye
Failed(m) == m \in errors /\ is_started
TestFails == options.test /\ pc = "errors" /\ haveError

(* The loop that logs the errors of the pipeline after a poll ends:        *)
(* getLastError resets what haveError found.                               *)
ErrorLoopEnds == Logging ~> ~Logging

(* After SIGTERM or SIGINT the daemon leaves main(), unless a quit request *)
(* resets want_quit.                                                       *)
TermEnds == Terminated ~> Gone

(* An error that a module of a started pipeline has set is logged, unless  *)
(* the module is deleted or the pipeline is stopped first.                 *)
ErrorsAreLogged == \A m \in Module : Failed(m) ~> ~Failed(m)

(* In test mode the first error the main loop meets ends the program,      *)
(* unless a quit request resets want_quit.                                 *)
TestModeStops == TestFails ~> Gone
=============================================================================
