------------------------------- MODULE Server -------------------------------
(***************************************************************************)
(* The process: start, reload of the configuration, stop                   *)
(* (cmd/server; internal/app/app.go; internal/config/config.go: Load,      *)
(* Reload, StartReloadWatcher; internal/store/db.go: New, Close;           *)
(* internal/middleware/ratelimit.go: Stop).                                *)
(*                                                                         *)
(* The goroutines are Run itself, the watcher of SIGHUP, the timers and    *)
(* the requests.  They share the global configuration, the copy of it that *)
(* each service holds, and the connection pool.  The process may be killed *)
(* at any time, also by a signal that has no handler yet or no longer.     *)
(***************************************************************************)
EXTENDS Migrations

CONSTANTS
    Fixed,      \* the settings a reload leaves alone: database and jwt_secret
    Free,       \* all the other settings
    Contents,   \* what config.toml may say
    Unfit,      \* what Load or Run refuses: bcrypt_cost below 4; a jwt_secret that
                \* is missing, short or well known
    Broken,     \* a file that is not TOML
    NoConfig,
    Timers,     \* the daily and hourly jobs
    MaxRequests \* bound: requests under way at one time

ASSUME ServerAssumption ==
    /\ Contents \subseteq [fixed : Fixed, free : Free]
    /\ {Broken, NoConfig} \cap [fixed : Fixed, free : Free] = {}
    /\ MaxRequests \in Nat

VARIABLES
    file,       \* the content of config.toml, under the environment
    phase,      \* where Run is
    started,    \* the configuration Run loaded: router, middleware, handlers, pool
    global,     \* config.global
    conf,       \* the configuration each service holds
    watcher,    \* where the goroutine of StartReloadWatcher is
    hup,        \* a SIGHUP waits in sigCh, which holds one
    term,       \* a SIGINT or SIGTERM waits in quit
    requests,   \* requests under way
    timers,     \* where the goroutine of each timer is
    pool,       \* the connection pool is open
    cut,        \* connections were left to themselves: Shutdown timed out, or the listener failed
    asked       \* a SIGHUP came since the file was edited

processVars == <<phase, started, global, conf, watcher, hup, term, requests, timers, pool, cut>>
serverVars == <<schemaVars, file, asked, processVars>>

Config == [fixed : Fixed, free : Free]
Services == {"user", "thumbnail", "file", "share"}
Order == <<"user", "thumbnail", "file", "share">>   \* in which onReload updates them

Off == [pc |-> "off"]
Waits == [pc |-> "wait"]
Watchers == {Off, Waits} \cup [pc : {"merge"}, read : Config] \cup [pc : {"update"}, next : 1..Len(Order)]

ServerTypeOK ==
    /\ MigrationsTypeOK
    /\ file \in Contents \cup {Broken}
    /\ phase \in {"down", "connect", "migrate", "make", "watch", "serve",
                  "shutdown", "timers", "limiter", "pool", "exit"}
    /\ {started, global} \subseteq Config \cup {NoConfig}
    /\ conf \in [Services -> Config \cup {NoConfig}]
    /\ watcher \in Watchers
    /\ {hup, term, pool, cut, asked} \subseteq BOOLEAN
    /\ requests \in 0..MaxRequests
    /\ timers \in [Timers -> {"off", "wait", "run"}]

Nobody ==
    /\ phase = "down"
    /\ started = NoConfig
    /\ global = NoConfig
    /\ conf = [s \in Services |-> NoConfig]
    /\ watcher = Off
    /\ timers = [t \in Timers |-> "off"]
    /\ requests = 0
    /\ hup = FALSE /\ term = FALSE /\ pool = FALSE /\ cut = FALSE

ServerInit == MigrationsInit /\ file \in Contents /\ asked = FALSE /\ Nobody

\* The process is gone, with all its memory.
Gone ==
    /\ phase' = "down"
    /\ started' = NoConfig
    /\ global' = NoConfig
    /\ conf' = [s \in Services |-> NoConfig]
    /\ watcher' = Off
    /\ timers' = [t \in Timers |-> "off"]
    /\ requests' = 0
    /\ hup' = FALSE /\ term' = FALSE /\ pool' = FALSE /\ cut' = FALSE
    /\ asked' = FALSE
    /\ at' = Idle

-----------------------------------------------------------------------------
(* Run: start *)

\* config.Load and the checks of the secret.
Fit(c) == c \in Contents \ Unfit

Start ==
    /\ phase = "down"
    /\ Fit(file)
    /\ phase' = "connect"
    /\ started' = file
    /\ global' = file
    /\ UNCHANGED <<schemaVars, file, conf, watcher, hup, term, requests, timers, pool, cut, asked>>

\* store.New
Connect ==
    /\ phase = "connect"
    /\ phase' = "migrate"
    /\ pool' = TRUE
    /\ UNCHANGED <<schemaVars, file, started, global, conf, watcher, hup, term, requests, timers, cut, asked>>

RunMigrations ==
    /\ phase = "migrate"
    /\ \/ Migrate /\ UNCHANGED phase
       \/ at = Done /\ phase' = "make" /\ UNCHANGED schemaVars
    /\ UNCHANGED <<file, started, global, conf, watcher, hup, term, requests, timers, pool, cut, asked>>

\* Storage, services, handlers, router, timers.
MakeServices ==
    /\ phase = "make"
    /\ phase' = "watch"
    /\ conf' = [s \in Services |-> started]
    /\ timers' = [t \in Timers |-> "wait"]
    /\ UNCHANGED <<schemaVars, file, started, global, watcher, hup, term, requests, pool, cut, asked>>

\* StartReloadWatcher; then ListenAndServe, in a goroutine, and signal.Notify(quit).
Watch ==
    /\ phase = "watch" /\ watcher = Off
    /\ watcher' = Waits
    /\ UNCHANGED <<schemaVars, file, phase, started, global, conf, hup, term, requests, timers, pool, cut, asked>>

Listen ==
    /\ phase = "watch" /\ watcher # Off
    /\ phase' = "serve"
    /\ UNCHANGED <<schemaVars, file, started, global, conf, watcher, hup, term, requests, timers, pool, cut, asked>>

\* An error of any part; that of the INSERT may come after it took effect.
StartFails ==
    /\ phase \in {"connect", "migrate", "make"}
    /\ \/ UNCHANGED versions
       \/ phase = "migrate" /\ Recording /\ InsertVersion
    /\ Gone
    /\ UNCHANGED <<tables, sums, file>>

\* What must fail.
StartRefused ==
    /\ phase = "migrate"
    /\ ChecksumChanged \/ Exists
    /\ Gone
    /\ UNCHANGED <<tables, versions, sums, file>>

-----------------------------------------------------------------------------
(* The watcher *)

\* Mutant: sigCh holds no signal, so that one that comes during a reload is lost.
SighupUnbuffered ==
    /\ watcher # Off
    /\ hup' = (watcher = Waits)
    /\ asked' = TRUE
    /\ UNCHANGED <<schemaVars, file, phase, started, global, conf, watcher, term, requests, timers, pool, cut>>

\* One more than sigCh holds is dropped.  Without the watcher it kills: Killed.
Sighup ==
    /\ watcher # Off
    /\ hup' = TRUE
    /\ asked' = TRUE
    /\ UNCHANGED <<schemaVars, file, phase, started, global, conf, watcher, term, requests, timers, pool, cut>>

\* The file is read after the signal is taken; one that is broken changes nothing.
\* Reload does not repeat the checks of Load.
TakeHup ==
    /\ watcher = Waits /\ hup
    /\ hup' = FALSE
    /\ watcher' = IF file = Broken THEN Waits ELSE [pc |-> "merge", read |-> file]
    /\ UNCHANGED <<schemaVars, file, phase, started, global, conf, term, requests, timers, pool, cut, asked>>

\* Mutant: the fixed settings of the file go with the others.
MergeAll ==
    /\ watcher.pc = "merge"
    /\ global' = watcher.read
    /\ watcher' = [pc |-> "update", next |-> 1]
    /\ UNCHANGED <<schemaVars, file, phase, started, conf, hup, term, requests, timers, pool, cut, asked>>

mergeReloadable ==
    /\ watcher.pc = "merge"
    /\ global' = [watcher.read EXCEPT !.fixed = global.fixed]
    /\ watcher' = [pc |-> "update", next |-> 1]
    /\ UNCHANGED <<schemaVars, file, phase, started, conf, hup, term, requests, timers, pool, cut, asked>>

\* Mutant: the last service is forgotten.
UpdateButLast ==
    /\ watcher.pc = "update"
    /\ conf' = [conf EXCEPT ![Order[watcher.next]] = global]
    /\ watcher' = IF watcher.next >= Len(Order) - 1 THEN Waits ELSE [watcher EXCEPT !.next = @ + 1]
    /\ UNCHANGED <<schemaVars, file, phase, started, global, hup, term, requests, timers, pool, cut, asked>>

UpdateConfig ==
    /\ watcher.pc = "update"
    /\ conf' = [conf EXCEPT ![Order[watcher.next]] = global]
    /\ watcher' = IF watcher.next = Len(Order) THEN Waits ELSE [watcher EXCEPT !.next = @ + 1]
    /\ UNCHANGED <<schemaVars, file, phase, started, global, hup, term, requests, timers, pool, cut, asked>>

\* reloadDone is closed: the select takes it, also while a signal waits.
Stopping == phase \in {"shutdown", "timers", "limiter", "pool", "exit"}
StopWatching ==
    /\ watcher = Waits /\ Stopping
    /\ watcher' = Off
    /\ hup' = FALSE
    /\ UNCHANGED <<schemaVars, file, phase, started, global, conf, term, requests, timers, pool, cut, asked>>

-----------------------------------------------------------------------------
(* Requests and timers *)

\* On an open connection: Shutdown closes the idle ones, but not one that has yet
\* to send its first request; nobody closes those that were left to themselves.
Accept ==
    /\ phase \in {"serve", "shutdown"} \/ (Stopping /\ cut)
    /\ requests < MaxRequests
    /\ requests' = requests + 1
    /\ UNCHANGED <<schemaVars, file, phase, started, global, conf, watcher, hup, term, timers, pool, cut, asked>>

Answer ==
    /\ requests > 0
    /\ requests' = requests - 1
    /\ UNCHANGED <<schemaVars, file, phase, started, global, conf, watcher, hup, term, timers, pool, cut, asked>>

\* The deferred close of the channels of the timers.
TimersClosed == phase \in {"limiter", "pool", "exit"}
SetTimer(t, s) ==
    /\ timers' = [timers EXCEPT ![t] = s]
    /\ UNCHANGED <<schemaVars, file, phase, started, global, conf, watcher, hup, term, requests, pool, cut, asked>>

TimerFires(t) == timers[t] = "wait" /\ SetTimer(t, "run")
\* safeCall: whether the job returned or panicked.
JobEnds(t) == timers[t] = "run" /\ SetTimer(t, "wait")
TimerStops(t) == timers[t] = "wait" /\ TimersClosed /\ SetTimer(t, "off")

-----------------------------------------------------------------------------
(* Run: stop *)

Sigterm ==
    /\ phase = "serve"
    /\ term' = TRUE
    /\ UNCHANGED <<schemaVars, file, phase, started, global, conf, watcher, hup, requests, timers, pool, cut, asked>>

Stop(p, c) ==
    /\ phase' = p
    /\ term' = FALSE
    /\ cut' = c
    /\ UNCHANGED <<schemaVars, file, started, global, conf, watcher, hup, requests, timers, pool, asked>>

\* signal.Stop(quit), close(reloadDone), Shutdown: no new connections.
TakeTerm == phase = "serve" /\ term /\ Stop("shutdown", FALSE)

\* serverErr: the connections are left to themselves.
ListenFails == phase = "serve" /\ Stop("timers", TRUE)

\* Mutant: the server is closed at once.
ShutdownAtOnce == phase = "shutdown" /\ Stop("timers", FALSE)

\* Shutdown returns when every request has its answer,
Shutdown == phase = "shutdown" /\ requests = 0 /\ Stop("timers", FALSE)

\* or when server.shutdown_timeout is over.
ShutdownTimesOut == phase = "shutdown" /\ requests > 0 /\ Stop("timers", TRUE)

Goes(p, q, open) ==
    /\ phase = p
    /\ phase' = q
    /\ pool' = open
    /\ UNCHANGED <<schemaVars, file, started, global, conf, watcher, hup, term, requests, timers, cut, asked>>

\* The deferred calls.  Closing stopCh, which was never made, panics; the calls
\* deferred before it are made all the same.
CloseTimers == Goes("timers", "limiter", pool)

\* Mutant: it sends to stopCh, which blocks for ever.
StopRateLimiterSends == FALSE

StopRateLimiter == Goes("limiter", "pool", pool)

CloseStore == Goes("pool", "exit", FALSE)

Exit ==
    /\ phase = "exit"
    /\ Gone
    /\ UNCHANGED <<tables, versions, sums, file>>

-----------------------------------------------------------------------------
(* The world, the next-state relation *)

EditConfig ==
    /\ file' \in (Contents \cup {Broken}) \ {file}
    /\ asked' = FALSE
    /\ UNCHANGED <<schemaVars, processVars>>

\* A release replaces the files of the migrations while nothing runs.
EditFile == phase = "down" /\ \E m \in Edited \cap Migration : EditMigration(m) /\ UNCHANGED <<file, asked, processVars>>

Killed ==
    /\ phase # "down"
    /\ Gone
    /\ UNCHANGED <<tables, versions, sums, file>>

Run ==
    \/ Connect \/ RunMigrations \/ MakeServices \/ Watch \/ Listen \/ StartRefused
    \/ TakeTerm \/ Shutdown \/ ShutdownTimesOut \/ CloseTimers \/ StopRateLimiter \/ CloseStore \/ Exit

Watcher == TakeHup \/ mergeReloadable \/ UpdateConfig \/ StopWatching

ServerNext ==
    \/ Start \/ Run \/ Watcher
    \/ StartFails \/ ListenFails \/ Killed
    \/ Accept \/ Answer
    \/ \E t \in Timers : TimerFires(t) \/ JobEnds(t) \/ TimerStops(t)
    \/ Sighup \/ Sigterm
    \/ EditConfig \/ EditFile

ServerSpec == ServerInit /\ [][ServerNext]_serverVars

\* Goroutines go on, and Shutdown has its timeout.
ServerFairSpec == ServerSpec /\ WF_serverVars(Run) /\ WF_serverVars(Watcher)

-----------------------------------------------------------------------------
(* Properties *)

Up == phase \in {"watch", "serve"} \/ Stopping

\* What serves, or runs a job, has every table: the files before it were all
\* executed to the end, in whichever start, and recorded with their checksum.
SchemaIsWhole ==
    /\ RecordedIsWhole
    /\ Up => \A m \in Migration : Statements(m) \subseteq tables

\* A migration that was cut short after a statement that cannot be executed again
\* is never completed nor recorded: the server does not start any more, until
\* somebody repairs the database.
TornStays == [][\A m \in Migration : Torn(m) => Torn(m)']_serverVars

\* However often the file is edited and reloaded, every service keeps the secret
\* that the middleware checks tokens with, and the database the pool was opened for.
FixedUntilRestart ==
    phase # "down" =>
        /\ global.fixed = started.fixed
        /\ Up => \A s \in Services : conf[s].fixed = started.fixed

\* The services disagree only while a reload is under way.
AgreeWhenIdle == watcher = Waits => \A s \in Services : conf[s] = global

\* The pool is closed under a request only when Shutdown timed out or the
\* listener failed.
PoolOutlivesRequests == requests > 0 /\ ~cut => pool

\* The inductive invariant.
PhaseSound ==
    /\ phase \in {"down", "connect"} => at = Idle
    /\ phase = "make" \/ Up => at = Done
    /\ phase \in {"migrate", "make"} \/ (Up /\ phase # "exit") => pool
    /\ watcher # Off => Up
    /\ requests > 0 => phase = "serve" \/ Stopping
    /\ Stopping /\ phase # "shutdown" /\ requests > 0 => cut

ConfSound ==
    /\ phase # "down" => {started, global} \subseteq Config
    /\ phase \in {"connect", "migrate", "make"} => global = started
    /\ Up => conf \in [Services -> Config]
    /\ watcher.pc = "merge" \/ (phase = "watch" /\ watcher = Off) => \A s \in Services : conf[s] = global
    /\ watcher.pc = "update" =>
        \A i \in 1..Len(Order) : i < watcher.next => conf[Order[i]] = global

ServerIInv ==
    /\ ServerTypeOK
    /\ AtIsSound
    /\ PhaseSound
    /\ ConfSound
    /\ SchemaIsWhole
    /\ FixedUntilRestart
    /\ AgreeWhenIdle
    /\ PoolOutlivesRequests

\* The content a SIGHUP asks for reaches every service, also when the signal comes
\* during a reload, unless the file is edited again or the server stops.
Reloaded(c) == \A s \in Services : conf[s].free = c.free
ReloadReaches ==
    \A c \in Contents : asked /\ file = c ~> file # c \/ watcher = Off \/ Reloaded(c)

\* A signal to stop ends the process, whatever requests and jobs do.
StopsOnTerm == term ~> phase = "down"
=============================================================================
