------------------------------- MODULE Server --------------------------------
(***************************************************************************)
(* cmd/server: main mounts the two endpoints, serves, and shuts down on a  *)
(* signal: a goroutine drains the requests in flight (srv.Shutdown, ten    *)
(* seconds), closes the parser and closes "done", which main waits for.    *)
(*                                                                         *)
(* A path is a sequence of characters; net/http is modelled from its use,  *)
(* its ServeMux for paths without "}", "." and "%" (wildcards that are    *)
(* well formed, dot segments and escapes).                                 *)
(***************************************************************************)
EXTENDS Naturals, Sequences, FiniteSetsExt

CONSTANTS
    Requests,   \* the requests clients send
    Characters, \* the characters of paths
    Settings    \* <<UA_BASE_PATH, UA_ROUTE_PATH, UA_HEALTH_PATH>>, each a
                \* sequence of characters, empty when unset

ASSUME SettingsAssumption ==
    /\ {"/", "h"} \subseteq Characters
    /\ Characters \intersect {"}", ".", "%"} = {}
    /\ Settings \subseteq Seq(Characters) \X Seq(Characters) \X Seq(Characters)

VARIABLES
    env,           \* the settings of this process
    mux,           \* pattern -> handler
    main,          \* where main stands
    ctxDone,       \* the signal came: ctx, which is the updater's too, is done
    listening,     \* the listener accepts
    inShutdown,    \* srv.Shutdown was called
    drain,         \* where the shutdown goroutine stands
    drainErr,      \* srv.Shutdown gave up after ten seconds
    parserClosed,  \* parser.Close() was called
    req,           \* request -> "out", "handling" or "answered"
    asked,         \* its method, path and body
    answer         \* the handler's answer to it

server == <<env, mux, listening, inShutdown>>
shutting == <<drain, drainErr, parserClosed>>
requests == <<req, asked, answer>>
vars == <<server, main, ctxDone, shutting, requests>>

-----------------------------------------------------------------------------
(***************************************************************************)
(* The paths                                                               *)
(***************************************************************************)
Slash == <<"/">>
Health == <<"/", "h">>  \* "/health"

EnvOr(v, def) == IF v = <<>> THEN def ELSE v

NormalizePath(p) == IF p = <<>> \/ p[1] # "/" THEN Slash \o p ELSE p

\* strings.TrimRight(p, "/")
TrimRight(p) == SubSeq(p, 1, Max({0} \union {n \in 1..Len(p) : p[n] # "/"}))

JoinPath(base, sub) ==
    LET full == TrimRight(TrimRight(NormalizePath(base)) \o NormalizePath(sub))
    IN  IF full = <<>> THEN Slash ELSE full

RoutePath == JoinPath(env[1], EnvOr(env[2], Slash))
HealthPath == JoinPath(env[1], EnvOr(env[3], Health))

\* What a client that read the README asks for: what is between the slashes at
\* the ends of the base and of the endpoint, one slash before each.
Bare(s) ==
    LET at == {i \in DOMAIN s : s[i] # "/"}
    IN  IF at = {} THEN <<>> ELSE SubSeq(s, Min(at), Max(at))
Under(s) == IF Bare(s) = <<>> THEN <<>> ELSE Slash \o Bare(s)
Documented(base, sub) ==
    IF Under(base) \o Under(sub) = <<>> THEN Slash ELSE Under(base) \o Under(sub)
DocumentedRoute == Documented(env[1], env[2])
DocumentedHealth == Documented(env[1], EnvOr(env[3], Health))

(***************************************************************************)
(* The handlers                                                            *)
(***************************************************************************)
Serve(handler, method, body) ==
    IF handler \in {"health", "both"} /\ method = "GET" THEN "health"
    ELSE IF handler \in {"parse", "both"} /\ method = "POST"
         THEN IF body = "json" THEN "parse" ELSE "400"
    ELSE "405"

\* ServeMux: a path with a doubled slash is redirected to the one without;
\* another is looked up: the pattern itself, or "/", which stands for every path.
Unclean(path) == \E i \in 1..(Len(path) - 1) : path[i] = "/" /\ path[i + 1] = "/"
Answer(method, path, body) ==
    IF Unclean(path) THEN "redirect"
    ELSE IF path \in DOMAIN mux THEN Serve(mux[path], method, body)
    ELSE IF Slash \in DOMAIN mux THEN Serve(mux[Slash], method, body)
    ELSE "404"

-----------------------------------------------------------------------------
Handling == {r \in Requests : req[r] = "handling"}
Ended == {"exited", "fatal", "panicked"}
Alive == main \notin Ended
NotAsked == <<>>
NoAnswer == "none"

Init ==
    /\ env \in Settings
    /\ mux = [p \in {} |-> "none"]
    /\ main = "setup"
    /\ ctxDone = FALSE
    /\ listening = FALSE
    /\ inShutdown = FALSE
    /\ drain = "off"
    /\ drainErr = FALSE
    /\ parserClosed = FALSE
    /\ req = [r \in Requests |-> "out"]
    /\ asked = [r \in Requests |-> NotAsked]
    /\ answer = [r \in Requests |-> NoAnswer]

-----------------------------------------------------------------------------
(***************************************************************************)
(* main                                                                    *)
(***************************************************************************)

\* HandleFunc panics on such a pattern: what precedes a blank is no method, and
\* the brace begins no wildcard.
Malformed(pattern) == \E i \in DOMAIN pattern : pattern[i] \in {" ", "{"}
Rejected == Malformed(RoutePath) \/ Malformed(HealthPath)

\* mutant: both endpoints are registered, whatever their paths: the second
\* HandleFunc of one pattern panics
MountBoth ==
    /\ main = "setup"
    /\ mux' = [p \in {RoutePath, HealthPath} |-> IF p = RoutePath THEN "parse" ELSE "health"]
    /\ main' = IF HealthPath = RoutePath \/ Rejected THEN "panicked" ELSE "listen"
    /\ drain' = IF HealthPath = RoutePath \/ Rejected THEN "off" ELSE "wait"
    /\ UNCHANGED <<env, listening, inShutdown, ctxDone, drainErr, parserClosed, requests>>

\* The endpoints are mounted and the shutdown goroutine starts.
Mount ==
    /\ main = "setup"
    /\ mux' = IF HealthPath = RoutePath
              THEN [p \in {RoutePath} |-> "both"]
              ELSE [p \in {RoutePath, HealthPath} |->
                      IF p = RoutePath THEN "parse" ELSE "health"]
    /\ main' = IF Rejected THEN "panicked" ELSE "listen"
    /\ drain' = IF Rejected THEN "off" ELSE "wait"
    /\ UNCHANGED <<env, listening, inShutdown, ctxDone, drainErr, parserClosed, requests>>

\* srv.ListenAndServe(): ErrServerClosed at once when Shutdown came first.
ListenAndServe ==
    /\ main = "listen"
    /\ main' = IF inShutdown THEN "wait" ELSE "serve"
    /\ listening' = ~inShutdown
    /\ UNCHANGED <<env, mux, inShutdown, ctxDone, shutting, requests>>

\* The port is taken, or Accept fails for good: log.Fatalf.
ListenerFails ==
    /\ main \in {"listen", "serve"}
    /\ ~inShutdown
    /\ main' = "fatal"
    /\ listening' = FALSE
    /\ UNCHANGED <<env, mux, inShutdown, ctxDone, shutting, requests>>

\* ListenAndServe returns as soon as Shutdown is called.
ServeReturns ==
    /\ main = "serve"
    /\ inShutdown
    /\ main' = "wait"
    /\ UNCHANGED <<server, ctxDone, shutting, requests>>

MainReturnsAtOnce ==  \* mutant: main does not wait for done
    /\ main = "wait"
    /\ main' = "exited"
    /\ UNCHANGED <<server, ctxDone, shutting, requests>>

\* <-done, and the process ends.
MainReturns ==
    /\ main = "wait"
    /\ drain = "done"
    /\ main' = "exited"
    /\ UNCHANGED <<server, ctxDone, shutting, requests>>

-----------------------------------------------------------------------------
(***************************************************************************)
(* The shutdown goroutine                                                  *)
(***************************************************************************)

\* SIGINT or SIGTERM: NotifyContext ends ctx; a second signal changes nothing.
Signal ==
    /\ Alive
    /\ ~ctxDone
    /\ ctxDone' = TRUE
    /\ UNCHANGED <<server, main, shutting, requests>>

\* <-ctx.Done(), then srv.Shutdown closes the listener.
BeginShutdown ==
    /\ Alive /\ drain = "wait" /\ ctxDone
    /\ drain' = "draining"
    /\ inShutdown' = TRUE
    /\ listening' = FALSE
    /\ UNCHANGED <<env, mux, main, ctxDone, drainErr, parserClosed, requests>>

\* Shutdown returns nil: no connection is active.
Drained ==
    /\ Alive /\ drain = "draining"
    /\ Handling = {}
    /\ drain' = "close"
    /\ UNCHANGED <<server, main, ctxDone, drainErr, parserClosed, requests>>

DrainTimeoutNever == FALSE /\ UNCHANGED vars  \* mutant: Shutdown gets a context without a timeout

\* Shutdown returns the error of its context: ten seconds are over.
DrainTimeout ==
    /\ Alive /\ drain = "draining"
    /\ Handling # {}
    /\ drain' = "close"
    /\ drainErr' = TRUE
    /\ UNCHANGED <<server, main, ctxDone, parserClosed, requests>>

\* parser.Close()
CloseParser ==
    /\ Alive /\ drain = "close"
    /\ parserClosed' = TRUE
    /\ drain' = "closed"
    /\ UNCHANGED <<server, main, ctxDone, drainErr, requests>>

\* The deferred close(done)
CloseDone ==
    /\ Alive /\ drain = "closed"
    /\ drain' = "done"
    /\ UNCHANGED <<server, main, ctxDone, drainErr, parserClosed, requests>>

-----------------------------------------------------------------------------
(***************************************************************************)
(* The clients                                                             *)
(***************************************************************************)
Accept(r) ==
    /\ Alive /\ listening
    /\ req[r] = "out"
    /\ req' = [req EXCEPT ![r] = "handling"]
    /\ \E method \in {"GET", "POST"}, path \in {DocumentedRoute, DocumentedHealth},
          body \in {"json", "broken"} :
          asked' = [asked EXCEPT ![r] = <<method, path, body>>]
    /\ UNCHANGED <<server, main, ctxDone, shutting, answer>>

\* healthHandler and parseHandler keep answering while the process lives, a
\* closed parser included: Close stops the updater only.
Respond(r) ==
    /\ Alive
    /\ req[r] = "handling"
    /\ req' = [req EXCEPT ![r] = "answered"]
    /\ answer' = [answer EXCEPT ![r] = Answer(asked[r][1], asked[r][2], asked[r][3])]
    /\ UNCHANGED <<server, main, ctxDone, shutting, asked>>

-----------------------------------------------------------------------------
MainStep == Mount \/ ListenAndServe \/ ServeReturns \/ MainReturns
DrainStep == BeginShutdown \/ Drained \/ DrainTimeout \/ CloseParser \/ CloseDone

Next ==
    \/ MainStep \/ DrainStep
    \/ ListenerFails \/ Signal
    \/ \E r \in Requests : Accept(r) \/ Respond(r)

Spec == Init /\ [][Next]_vars

\* Both goroutines run.  A request need not end: its client may send the body
\* slowly, and the server has no read timeout.
Fairness == WF_vars(MainStep) /\ WF_vars(DrainStep)

FairSpec == Spec /\ Fairness

-----------------------------------------------------------------------------
(***************************************************************************)
(* Properties                                                              *)
(***************************************************************************)

\* The type invariant.
TypeOK ==
    /\ env \in Settings
    /\ \A p \in DOMAIN mux : mux[p] \in {"health", "parse", "both"}
    /\ main \in {"setup", "listen", "serve", "wait"} \union Ended
    /\ drain \in {"off", "wait", "draining", "close", "closed", "done"}
    /\ {ctxDone, listening, inShutdown, drainErr, parserClosed} \subseteq BOOLEAN
    /\ req \in [Requests -> {"out", "handling", "answered"}]
    /\ answer \in [Requests -> {NoAnswer, "health", "parse", "400", "405", "404", "redirect"}]

\* A signal loses no request: when main returned, or the parser is closed, with a
\* request unanswered, the ten seconds of the drain were over (main.go:179-180,
\* :198-199).
CutOnlyByTimeout == (main = "exited" \/ parserClosed) /\ Handling # {} => drainErr

\* After a signal the process ends, however long a request hangs.
SignalEndsServer == ctxDone ~> main \in Ended

\* Slashes that meet before a name: they stay in the path.
Doubled(s) == \E i \in 1..(Len(s) - 1) : /\ s[i] = "/" /\ s[i + 1] = "/"
                                        /\ \E j \in DOMAIN s : j > i /\ s[j] # "/"

\* The server starts with any settings whose patterns ServeMux takes, two
\* endpoints on one path included (README.md:404); and unless slashes meet within
\* a setting, whatever slashes are at its ends or missing, a GET of the
\* documented health path is a health check and a POST of the documented parse
\* path a parse.
EndpointsServed ==
    /\ main = "panicked" => \E i \in 1..3 : Malformed(env[i])
    /\ (\A i \in 1..3 : ~Doubled(env[i])) =>
        \A r \in Requests : req[r] = "answered" =>
          /\ asked[r][1] = "GET" /\ asked[r][2] = DocumentedHealth => answer[r] = "health"
          /\ asked[r] = <<"POST", DocumentedRoute, "json">> => answer[r] = "parse"

=============================================================================
