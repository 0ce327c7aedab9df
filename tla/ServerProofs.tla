---------------------------- MODULE ServerProofs ----------------------------
(***************************************************************************)
(* Theorems about Server and Migrations, for any migrations, contents of   *)
(* the configuration, timers and numbers of requests.                      *)
(***************************************************************************)
EXTENDS Server, TLAPS

-----------------------------------------------------------------------------
(* Migrations *)

LEMMA SchemaType ==
    /\ Len(Schema) \in Nat
    /\ \A m \in Migration : Schema[m] \in Seq({"once", "again"}) /\ Len(Schema[m]) \in Nat
BY MigrationsAssumption DEF Migration

SchemaInv == MigrationsTypeOK /\ AtIsSound /\ RecordedIsWhole

LEMMA PlaceFields ==
    ASSUME MigrationsTypeOK
    PROVE  /\ at.file \in 0..Len(Schema) + 1
           /\ at.stmt \in Nat
           /\ at.file \in Migration => at.stmt \in 0..Len(Schema[at.file]) + 1
           /\ InLoop => at = [file |-> at.file, stmt |-> at.stmt, sum |-> at.sum]
           /\ InLoop /\ at.stmt > 0 => at.sum \in Sums
BY SchemaType DEF MigrationsTypeOK, Idle, LoopTop, Migration, InLoop

LEMMA InitSchema == MigrationsInit => SchemaInv
<1> SUFFICES ASSUME MigrationsInit PROVE SchemaInv
    OBVIOUS
<1>1. MigrationsTypeOK
    BY DEF MigrationsInit, MigrationsTypeOK, Idle, Sums
<1>2. AtIsSound
    BY DEF MigrationsInit, AtIsSound, Idle
<1>3. RecordedIsWhole
    BY DEF MigrationsInit, RecordedIsWhole, Recorded
<1> QED
    BY <1>1, <1>2, <1>3 DEF SchemaInv

\* The process is gone: what it had recorded stays.
LEMMA GoneSchema ==
    ASSUME SchemaInv, at' = Idle, UNCHANGED <<tables, sums>>,
           UNCHANGED versions \/ (Recording /\ InsertVersion)
    PROVE  SchemaInv'
<1> USE DEF SchemaInv
<1>1. CASE UNCHANGED versions
    <2>1. MigrationsTypeOK'
        BY <1>1 DEF MigrationsTypeOK
    <2>2. AtIsSound'
        BY <1>1 DEF AtIsSound, Idle
    <2>3. RecordedIsWhole'
        BY <1>1 DEF RecordedIsWhole, Recorded
    <2> QED
        BY <2>1, <2>2, <2>3
<1>2. CASE Recording /\ InsertVersion
    <2> DEFINE f == at.file
    <2>0. f \in Migration /\ at.sum \in Sums /\ at.stmt = Len(Schema[f]) + 1 /\ at.stmt > 0
        BY <1>2, PlaceFields, SchemaType DEF Recording, InLoop
    <2>1. MigrationsTypeOK'
        BY <1>2, <2>0 DEF MigrationsTypeOK, InsertVersion
    <2>2. AtIsSound'
        BY DEF AtIsSound, Idle
    <2>3. RecordedIsWhole'
        <3>1. versions' = [versions EXCEPT ![f] = at.sum]
            BY <1>2 DEF InsertVersion
        <3>2. Statements(f) \subseteq tables
            BY <2>0, SchemaType DEF AtIsSound, Statements, Migration
        <3>3. \A l \in Migration : l < f => Recorded(l)
            BY <2>0 DEF AtIsSound, Migration
        <3>4. \A m \in Migration : m # f => versions'[m] = versions[m]
            BY <3>1 DEF MigrationsTypeOK
        <3>5. \A m \in Migration : Recorded(m) => Recorded(m)'
            BY <3>1, <3>4, <2>0, MigrationsAssumption DEF Recorded, MigrationsTypeOK, Sums
        <3> QED
            BY <3>2, <3>3, <3>4, <3>5 DEF RecordedIsWhole, Recorded
    <2> QED
        BY <2>1, <2>2, <2>3
<1> QED
    BY <1>1, <1>2

LEMMA MigrateSchema ==
    ASSUME SchemaInv, Migrate
    PROVE  SchemaInv'
<1> USE DEF SchemaInv
<1> DEFINE f == at.file
<1>0. Len(Schema) \in Nat /\ f \in Nat /\ at.stmt \in Nat
    BY SchemaType, PlaceFields
<1>1. CASE ReadVersions
    <2>1. MigrationsTypeOK'
        BY <1>1, <1>0 DEF ReadVersions, MigrationsTypeOK
    <2>2. AtIsSound'
        BY <1>1 DEF ReadVersions, AtIsSound, LoopTop, Migration
    <2>3. RecordedIsWhole'
        BY <1>1 DEF ReadVersions, RecordedIsWhole, Recorded
    <2> QED
        BY <2>1, <2>2, <2>3
<1>2. CASE SkipApplied
    <2>0. f \in Migration /\ f + 1 \in 1..Len(Schema) + 1 /\ versions[f] = sums[f]
        BY <1>2, <1>0 DEF SkipApplied, Opening, InLoop, Migration
    <2>1. MigrationsTypeOK'
        BY <1>2, <2>0 DEF SkipApplied, MigrationsTypeOK
    <2>2. AtIsSound'
        <3>1. Recorded(f)
            BY <2>0, MigrationsAssumption DEF Recorded, MigrationsTypeOK, Sums
        <3>2. \A l \in Migration : l < f + 1 => Recorded(l)
            BY <3>1, <2>0 DEF AtIsSound, Migration
        <3>3. at' = LoopTop(f + 1) /\ UNCHANGED versions
            BY <1>2 DEF SkipApplied
        <3> QED
            BY <3>2, <3>3 DEF AtIsSound, LoopTop, Recorded
    <2>3. RecordedIsWhole'
        BY <1>2 DEF SkipApplied, RecordedIsWhole, Recorded
    <2> QED
        BY <2>1, <2>2, <2>3
<1>3. CASE OpenFile
    <2>0. /\ f \in Migration /\ sums[f] \in Sums
          /\ at' = [file |-> f, stmt |-> 1, sum |-> sums[f]]
          /\ UNCHANGED <<tables, versions, sums>>
        BY <1>3, PlaceFields DEF OpenFile, Opening, InLoop, MigrationsTypeOK
    <2>1. MigrationsTypeOK'
        <3>1. Len(Schema[f]) \in Nat
            BY <2>0, SchemaType
        <3> QED
            BY <2>0, <3>1 DEF MigrationsTypeOK
    <2>2. AtIsSound'
        BY <2>0, SchemaType DEF AtIsSound, Recorded, Migration
    <2>3. RecordedIsWhole'
        BY <2>0 DEF RecordedIsWhole, Recorded
    <2> QED
        BY <2>1, <2>2, <2>3
<1>4. CASE Execute
    <2>0. /\ f \in Migration /\ at.stmt \in 1..Len(Schema[f]) /\ at.sum \in Sums
          /\ at' = [file |-> f, stmt |-> at.stmt + 1, sum |-> at.sum]
          /\ tables' = tables \cup {<<f, at.stmt>>}
          /\ UNCHANGED <<versions, sums>>
        BY <1>4, PlaceFields DEF Execute, Executing, InLoop
    <2>1. MigrationsTypeOK'
        <3>1. Len(Schema[f]) \in Nat
            BY <2>0, SchemaType
        <3>2. at.stmt + 1 \in 1..Len(Schema[f]) + 1
            BY <2>0, <3>1
        <3>3. <<f, at.stmt>> \in Statements(f)
            BY <2>0 DEF Statements
        <3>4. tables' \subseteq UNION {Statements(m) : m \in Migration}
            BY <2>0, <3>3 DEF MigrationsTypeOK
        <3>5. at'.file \in Migration /\ at' \in [file : {at'.file}, stmt : 1..Len(Schema[at'.file]) + 1, sum : Sums]
            BY <2>0, <3>2
        <3>6. versions' \in [Migration -> Sums \cup {NoSum}] /\ sums' \in [Migration -> Sums]
            BY <2>0 DEF MigrationsTypeOK
        <3> QED
            BY <3>4, <3>5, <3>6 DEF MigrationsTypeOK
    <2>2. AtIsSound'
        <3>1. \A l \in Migration : l < f => Recorded(l)
            BY <2>0 DEF AtIsSound, Migration
        <3>2. \A i \in 1..Len(Schema[f]) : i < at.stmt + 1 => <<f, i>> \in tables'
            BY <2>0, SchemaType DEF AtIsSound
        <3> QED
            BY <2>0, <3>1, <3>2 DEF AtIsSound, Recorded
    <2>3. RecordedIsWhole'
        BY <2>0 DEF RecordedIsWhole, Recorded
    <2> QED
        BY <2>1, <2>2, <2>3
<1>5. CASE Record
    <2>0. /\ f \in Migration /\ at.sum \in Sums /\ at.stmt > 0
          /\ versions' = [versions EXCEPT ![f] = at.sum]
          /\ at' = LoopTop(f + 1) /\ f + 1 \in 1..Len(Schema) + 1
          /\ UNCHANGED <<tables, sums>> /\ at.stmt = Len(Schema[f]) + 1
        BY <1>5, <1>0, PlaceFields, SchemaType DEF Record, Recording, InLoop, InsertVersion, Migration
    <2>1. MigrationsTypeOK'
        BY <2>0 DEF MigrationsTypeOK
    <2>2. \A m \in Migration : m # f => versions'[m] = versions[m]
        BY <2>0 DEF MigrationsTypeOK
    <2>3. \A m \in Migration : Recorded(m) \/ m = f => Recorded(m)'
        BY <2>0, <2>2, MigrationsAssumption DEF Recorded, MigrationsTypeOK, Sums
    <2>4. \A l \in Migration : l < f => Recorded(l)
        BY <2>0 DEF AtIsSound, Migration
    <2>5. AtIsSound'
        <3>1. \A l \in Migration : l < f + 1 => Recorded(l)'
            BY <2>0, <2>3, <2>4 DEF Migration
        <3> QED
            BY <2>0, <3>1 DEF AtIsSound, LoopTop
    <2>6. RecordedIsWhole'
        <3>1. Statements(f) \subseteq tables
            BY <2>0, SchemaType DEF AtIsSound, Statements
        <3> QED
            BY <2>0, <2>2, <2>3, <2>4, <3>1 DEF RecordedIsWhole, Recorded
    <2> QED
        BY <2>1, <2>5, <2>6
<1> QED
    BY <1>1, <1>2, <1>3, <1>4, <1>5 DEF Migrate

LEMMA EditSchema ==
    ASSUME SchemaInv, NEW m \in Migration, EditMigration(m)
    PROVE  SchemaInv'
<1> USE DEF SchemaInv
<1>1. MigrationsTypeOK'
    BY DEF EditMigration, MigrationsTypeOK, Sums
<1>2. AtIsSound'
    BY DEF EditMigration, AtIsSound, Recorded
<1>3. RecordedIsWhole'
    BY DEF EditMigration, RecordedIsWhole, Recorded
<1> QED
    BY <1>1, <1>2, <1>3

LEMMA SameSchema == SchemaInv /\ UNCHANGED schemaVars => SchemaInv'
BY DEF SchemaInv, schemaVars, MigrationsTypeOK, AtIsSound, RecordedIsWhole, Recorded

\* When Run is done with the files, every table is there.
LEMMA DoneIsWhole ==
    ASSUME SchemaInv, at = Done
    PROVE  \A m \in Migration : Statements(m) \subseteq tables
BY SchemaType DEF SchemaInv, AtIsSound, RecordedIsWhole, Done, LoopTop, Migration

-----------------------------------------------------------------------------
(* The process *)

Flags == hup \in BOOLEAN /\ term \in BOOLEAN /\ pool \in BOOLEAN /\ cut \in BOOLEAN /\ asked \in BOOLEAN

DataTypes ==
    /\ file \in Contents \cup {Broken}
    /\ phase \in {"down", "connect", "migrate", "make", "watch", "serve",
                  "shutdown", "timers", "limiter", "pool", "exit"}
    /\ {started, global} \subseteq Config \cup {NoConfig}
    /\ conf \in [Services -> Config \cup {NoConfig}]
    /\ watcher \in Watchers
    /\ requests \in 0..MaxRequests
    /\ timers \in [Timers -> {"off", "wait", "run"}]

ProcessTypes == DataTypes /\ Flags

SchemaPart == SchemaInv /\ (Up => \A m \in Migration : Statements(m) \subseteq tables)
ConfPart == ConfSound /\ FixedUntilRestart /\ AgreeWhenIdle
PhasePart == PhaseSound /\ PoolOutlivesRequests

\* The inductive invariant in parts that change together.
LEMMA Parts == ServerIInv <=> SchemaPart /\ ProcessTypes /\ ConfPart /\ PhasePart
<1>1. Flags <=> {hup, term, pool, cut, asked} \subseteq BOOLEAN
    BY Zenon DEF Flags
<1> QED
    BY <1>1 DEF ServerIInv, ServerTypeOK, SchemaPart, SchemaInv, ProcessTypes, DataTypes, ConfPart, PhasePart, SchemaIsWhole

\* What the watcher holds, by the place it has reached.
LEMMA WatcherFields ==
    ASSUME watcher \in Watchers
    PROVE  /\ watcher.pc \in {"off", "wait", "merge", "update"}
           /\ watcher = Off <=> watcher.pc = "off"
           /\ watcher = Waits <=> watcher.pc = "wait"
           /\ watcher.pc = "merge" => watcher.read \in Config
           /\ watcher.pc = "update" => /\ watcher.next \in 1..4
                                       /\ watcher = [pc |-> "update", next |-> watcher.next]
BY DEF Watchers, Off, Waits, Order

LEMMA WatcherKinds ==
    /\ Off \in Watchers /\ Waits \in Watchers
    /\ \A c \in Config : [pc |-> "merge", read |-> c] \in Watchers
    /\ \A i \in 1..4 : [pc |-> "update", next |-> i] \in Watchers
    /\ Off.pc = "off" /\ Waits.pc = "wait" /\ Off # Waits
BY DEF Watchers, Off, Waits, Order

LEMMA EveryService == Services = {Order[i] : i \in 1..4} /\ Len(Order) = 4
BY DEF Services, Order

\* The process is gone.
LEMMA GoneParts ==
    ASSUME SchemaPart, ProcessTypes, Gone, UNCHANGED <<tables, sums, file>>,
           UNCHANGED versions \/ (Recording /\ InsertVersion)
    PROVE  SchemaPart' /\ ProcessTypes' /\ ConfPart' /\ PhasePart'
<1>1. SchemaPart'
    BY GoneSchema DEF SchemaPart, Gone, Up, Stopping
<1>2. DataTypes'
    BY WatcherKinds, ServerAssumption DEF ProcessTypes, DataTypes, Gone
<1>5. Flags'
    BY DEF Flags, Gone
<1>3. ConfPart'
    BY WatcherKinds DEF ConfPart, ConfSound, FixedUntilRestart, AgreeWhenIdle, Gone, Up, Stopping
<1>4. PhasePart'
    BY DEF PhasePart, PhaseSound, PoolOutlivesRequests, Gone, Up, Stopping
<1> QED
    BY <1>1, <1>2, <1>3, <1>4, <1>5 DEF ProcessTypes

\* Steps of the process that leave the schema alone.
LEMMA SchemaStep ==
    ASSUME SchemaPart, PhasePart, [ServerNext]_serverVars
    PROVE  SchemaPart'
<1>1. CASE UNCHANGED schemaVars /\ (Up' => Up \/ phase = "make")
    <2>1. SchemaInv'
        BY <1>1, SameSchema DEF SchemaPart
    <2>2. Up' => \A m \in Migration : Statements(m) \subseteq tables
        BY <1>1, DoneIsWhole DEF SchemaPart, PhasePart, PhaseSound
    <2> QED
        BY <1>1, <2>1, <2>2 DEF SchemaPart, schemaVars
<1>2. CASE RunMigrations
    <2>1. CASE Migrate
        BY <1>2, <2>1, MigrateSchema DEF RunMigrations, SchemaPart, Up, Stopping
    <2>2. CASE UNCHANGED schemaVars
        BY <1>2, <2>2, SameSchema DEF RunMigrations, SchemaPart, Up, Stopping, Migrate
    <2> QED
        BY <1>2, <2>1, <2>2 DEF RunMigrations
<1>3. CASE StartFails \/ StartRefused \/ Exit \/ Killed
    BY <1>3, GoneSchema DEF StartFails, StartRefused, Exit, Killed, Gone, SchemaPart, Up, Stopping
<1>4. CASE EditFile
    <2>1. SchemaInv'
        BY <1>4, EditSchema DEF EditFile, SchemaPart
    <2>2. ~Up'
        BY <1>4 DEF EditFile, Up, Stopping, processVars
    <2> QED
        BY <2>1, <2>2 DEF SchemaPart
<1>5. CASE Start \/ Connect \/ MakeServices \/ Watch \/ Listen \/ Watcher
    BY <1>5, <1>1 DEF Start, Connect, MakeServices, Watch, Listen, Watcher, TakeHup, mergeReloadable,
        UpdateConfig, StopWatching, Up, Stopping
<1>6. CASE TakeTerm \/ Shutdown \/ ShutdownTimesOut \/ CloseTimers \/ StopRateLimiter \/ CloseStore \/ ListenFails
    BY <1>6, <1>1 DEF TakeTerm, Shutdown, ShutdownTimesOut, CloseTimers, StopRateLimiter, CloseStore,
        ListenFails, Stop, Goes, Up, Stopping
<1>7. CASE Accept \/ Answer \/ Sighup \/ Sigterm \/ EditConfig
    BY <1>7, <1>1 DEF Accept, Answer, Sighup, Sigterm, EditConfig, processVars, Up, Stopping
<1>8. CASE \E t \in Timers : TimerFires(t) \/ JobEnds(t) \/ TimerStops(t)
    BY <1>8, <1>1 DEF TimerFires, JobEnds, TimerStops, SetTimer, Up, Stopping
<1>9. CASE UNCHANGED serverVars
    BY <1>9, <1>1 DEF serverVars, processVars, Up, Stopping
<1> QED
    BY <1>2, <1>3, <1>4, <1>5, <1>6, <1>7, <1>8, <1>9 DEF ServerNext, Run

LEMMA DataStep ==
    ASSUME ProcessTypes, ConfPart, PhasePart, [ServerNext]_serverVars
    PROVE  DataTypes'
<1> USE ServerAssumption DEF ProcessTypes, DataTypes
<1>1. CASE Start \/ Connect \/ RunMigrations \/ MakeServices \/ Watch \/ Listen
    BY <1>1, WatcherKinds DEF Start, Fit, Config, Connect, RunMigrations, MakeServices, Watch, Listen
<1>2. CASE StartFails \/ StartRefused \/ Exit \/ Killed
    BY <1>2, WatcherKinds DEF StartFails, StartRefused, Exit, Killed, Gone
<1>3. CASE TakeHup
    BY <1>3, WatcherKinds DEF TakeHup, Config
<1>4. CASE mergeReloadable
    <2>1. watcher.read \in Config /\ watcher # Off
        BY <1>4, WatcherFields, WatcherKinds DEF mergeReloadable
    <2>2. global \in Config
        BY <2>1 DEF ConfPart, ConfSound, PhasePart, PhaseSound, Up, Stopping
    <2>3. global' \in Config
        BY <1>4, <2>1, <2>2 DEF mergeReloadable, Config
    <2>4. watcher' \in Watchers
        BY <1>4, WatcherKinds DEF mergeReloadable
    <2> QED
        BY <1>4, <2>3, <2>4 DEF mergeReloadable
<1>5. CASE UpdateConfig
    <2>1. watcher.next \in 1..4 /\ watcher = [pc |-> "update", next |-> watcher.next]
        BY <1>5, WatcherFields DEF UpdateConfig
    <2>2. watcher' \in Watchers
        BY <1>5, <2>1, WatcherKinds, EveryService DEF UpdateConfig
    <2>3. conf' \in [Services -> Config \cup {NoConfig}]
        BY <1>5 DEF UpdateConfig
    <2> QED
        BY <1>5, <2>2, <2>3 DEF UpdateConfig
<1>6. CASE StopWatching
    BY <1>6, WatcherKinds DEF StopWatching
<1>7. CASE TakeTerm \/ Shutdown \/ ShutdownTimesOut \/ ListenFails
    BY <1>7 DEF TakeTerm, Shutdown, ShutdownTimesOut, ListenFails, Stop
<1>11. CASE CloseTimers \/ StopRateLimiter \/ CloseStore
    BY <1>11 DEF CloseTimers, StopRateLimiter, CloseStore, Goes
<1>8. CASE Accept \/ Answer \/ Sighup \/ Sigterm
    BY <1>8 DEF Accept, Answer, Sighup, Sigterm
<1>12. CASE EditConfig \/ EditFile
    BY <1>12 DEF EditConfig, EditFile, processVars
<1>9. CASE \E t \in Timers : TimerFires(t) \/ JobEnds(t) \/ TimerStops(t)
    BY <1>9 DEF TimerFires, JobEnds, TimerStops, SetTimer
<1>10. CASE UNCHANGED serverVars
    BY <1>10 DEF serverVars, processVars
<1> QED
    BY <1>1, <1>2, <1>3, <1>4, <1>5, <1>6, <1>7, <1>8, <1>9, <1>10, <1>11, <1>12 DEF ServerNext, Run, Watcher

LEMMA FlagStep ==
    ASSUME ProcessTypes, [ServerNext]_serverVars
    PROVE  Flags'
<1> USE DEF ProcessTypes, Flags
<1>1. CASE Start \/ Connect \/ RunMigrations \/ MakeServices \/ Watch \/ Listen
    BY <1>1 DEF Start, Connect, RunMigrations, MakeServices, Watch, Listen
<1>2. CASE StartFails \/ StartRefused \/ Exit \/ Killed
    BY <1>2 DEF StartFails, StartRefused, Exit, Killed, Gone
<1>3. CASE Watcher
    BY <1>3 DEF Watcher, TakeHup, mergeReloadable, UpdateConfig, StopWatching
<1>4. CASE TakeTerm \/ Shutdown \/ ShutdownTimesOut
    BY <1>4, Zenon DEF TakeTerm, Shutdown, ShutdownTimesOut, Stop
<1>5. CASE ListenFails
    <2>1. term' = FALSE /\ cut' = TRUE /\ UNCHANGED <<hup, pool, asked>>
        BY <1>5, Zenon DEF ListenFails, Stop
    <2> QED
        BY <2>1, Zenon
<1>6. CASE CloseTimers \/ StopRateLimiter \/ CloseStore
    BY <1>6, Zenon DEF CloseTimers, StopRateLimiter, CloseStore, Goes
<1>7. CASE Accept \/ Answer \/ Sighup \/ Sigterm \/ EditConfig \/ EditFile
    BY <1>7, Zenon DEF Accept, Answer, Sighup, Sigterm, EditConfig, EditFile, processVars
<1>8. CASE \E t \in Timers : TimerFires(t) \/ JobEnds(t) \/ TimerStops(t)
    BY <1>8, Zenon DEF TimerFires, JobEnds, TimerStops, SetTimer
<1>9. CASE UNCHANGED serverVars
    BY <1>9 DEF serverVars, processVars
<1> QED
    BY <1>1, <1>2, <1>3, <1>4, <1>5, <1>6, <1>7, <1>8, <1>9 DEF ServerNext, Run

LEMMA PhaseStep ==
    ASSUME ProcessTypes, PhasePart, [ServerNext]_serverVars
    PROVE  PhasePart'
<1> USE DEF PhasePart, PhaseSound, PoolOutlivesRequests, Up, Stopping
<1>1. CASE Start \/ Connect \/ MakeServices \/ Watch \/ Listen
    BY <1>1, WatcherKinds DEF Start, Connect, MakeServices, Watch, Listen, schemaVars
<1>4. CASE RunMigrations
    BY <1>4 DEF RunMigrations, schemaVars
<1>2. CASE StartFails \/ StartRefused \/ Exit \/ Killed
    BY <1>2, WatcherKinds DEF StartFails, StartRefused, Exit, Killed, Gone
<1>3. CASE Watcher
    BY <1>3, WatcherKinds, WatcherFields DEF ProcessTypes, DataTypes, Watcher, TakeHup, mergeReloadable, UpdateConfig, StopWatching, schemaVars
<1>5. CASE TakeTerm \/ Shutdown \/ ShutdownTimesOut
    BY <1>5 DEF TakeTerm, Shutdown, ShutdownTimesOut, Stop, schemaVars, ProcessTypes, DataTypes
<1>6. CASE ListenFails
    <2>1. phase = "serve" /\ phase' = "timers" /\ cut' = TRUE
          /\ UNCHANGED <<schemaVars, pool, watcher, requests>>
        BY <1>6, Zenon DEF ListenFails, Stop
    <2> QED
        BY <2>1 DEF schemaVars
<1>7. CASE CloseTimers \/ StopRateLimiter \/ CloseStore
    BY <1>7 DEF CloseTimers, StopRateLimiter, CloseStore, Goes, schemaVars
<1>8. CASE Accept \/ Answer \/ Sighup \/ Sigterm \/ EditConfig \/ EditFile
    BY <1>8 DEF ProcessTypes, DataTypes, Accept, Answer, Sighup, Sigterm, EditConfig, EditFile, EditMigration, processVars, schemaVars
<1>9. CASE \E t \in Timers : TimerFires(t) \/ JobEnds(t) \/ TimerStops(t)
    BY <1>9 DEF TimerFires, JobEnds, TimerStops, SetTimer, schemaVars
<1>10. CASE UNCHANGED serverVars
    BY <1>10 DEF serverVars, processVars, schemaVars
<1> QED
    BY <1>1, <1>2, <1>3, <1>4, <1>5, <1>6, <1>7, <1>8, <1>9, <1>10 DEF ServerNext, Run

LEMMA ConfStep ==
    ASSUME ProcessTypes, ConfPart, PhasePart, [ServerNext]_serverVars
    PROVE  ConfPart'
<1> USE DEF ConfPart, ConfSound, FixedUntilRestart, AgreeWhenIdle
<1>1. CASE Start
    BY <1>1, ServerAssumption, WatcherKinds, WatcherFields DEF Start, Fit, Config, ProcessTypes, DataTypes, PhasePart, PhaseSound, Up, Stopping
<1>2. CASE Connect \/ RunMigrations
    BY <1>2, WatcherKinds, WatcherFields DEF Connect, RunMigrations, ProcessTypes, DataTypes, PhasePart, PhaseSound, Up, Stopping
<1>3. CASE MakeServices
    BY <1>3, WatcherKinds, WatcherFields DEF MakeServices, ProcessTypes, DataTypes, PhasePart, PhaseSound, Up, Stopping
<1>4. CASE Watch \/ Listen
    BY <1>4, WatcherKinds, WatcherFields DEF Watch, Listen, ProcessTypes, DataTypes, Up, Stopping
<1>5. CASE TakeHup \/ StopWatching
    BY <1>5, WatcherKinds DEF TakeHup, StopWatching, Up, Stopping, Waits
<1>6. CASE mergeReloadable
    <2>1. watcher.read \in Config /\ watcher # Off
        BY <1>6, WatcherFields, WatcherKinds DEF mergeReloadable, ProcessTypes, DataTypes
    <2>2. global \in Config /\ Up
        BY <2>1 DEF PhasePart, PhaseSound, Up, Stopping
    <2>3. global' \in Config /\ global'.fixed = global.fixed
        BY <1>6, <2>1, <2>2 DEF mergeReloadable, Config
    <2> QED
        BY <1>6, <2>1, <2>2, <2>3, WatcherKinds DEF mergeReloadable, PhasePart, PhaseSound, Up, Stopping
<1>7. CASE UpdateConfig
    <2> DEFINE n == watcher.next
    <2>1. n \in 1..4 /\ watcher = [pc |-> "update", next |-> n] /\ watcher # Off
        BY <1>7, WatcherFields, WatcherKinds DEF UpdateConfig, ProcessTypes, DataTypes
    <2>2. global \in Config /\ Up /\ conf \in [Services -> Config]
        BY <2>1 DEF PhasePart, PhaseSound, Up, Stopping
    <2>3. conf' = [conf EXCEPT ![Order[n]] = global] /\ Order[n] \in Services
        BY <1>7, <2>1, EveryService DEF UpdateConfig
    <2>4. \A i \in 1..4 : i < n + 1 => conf'[Order[i]] = global
        BY <1>7, <2>1, <2>2, <2>3, EveryService DEF UpdateConfig
    <2>5. conf' \in [Services -> Config] /\ \A s \in Services : conf'[s].fixed = started.fixed
        BY <2>2, <2>3 DEF Up, Stopping
    <2>6. CASE n = 4
        <3>1. watcher' = Waits /\ \A s \in Services : conf'[s] = global
            BY <1>7, <2>4, <2>6, EveryService DEF UpdateConfig
        <3> QED
            BY <1>7, <2>2, <2>5, <3>1, WatcherKinds DEF UpdateConfig, Up, Stopping
    <2>7. CASE n # 4
        <3>1. watcher' = [pc |-> "update", next |-> n + 1]
            BY <1>7, <2>1, <2>7, EveryService DEF UpdateConfig
        <3>2. watcher'.pc = "update" /\ watcher'.next = n + 1 /\ watcher' # Waits /\ watcher' # Off
            BY <3>1 DEF Waits, Off
        <3> QED
            BY <1>7, <2>2, <2>4, <2>5, <3>2, EveryService DEF UpdateConfig, Up, Stopping
    <2> QED
        BY <2>6, <2>7
<1>8. CASE StartFails \/ StartRefused \/ Exit \/ Killed
    BY <1>8, WatcherKinds DEF StartFails, StartRefused, Exit, Killed, Gone, Up, Stopping
<1>9. CASE TakeTerm \/ Shutdown \/ ShutdownTimesOut \/ ListenFails
    BY <1>9 DEF TakeTerm, Shutdown, ShutdownTimesOut, ListenFails, Stop, Up, Stopping
<1>10. CASE CloseTimers \/ StopRateLimiter \/ CloseStore
    BY <1>10 DEF CloseTimers, StopRateLimiter, CloseStore, Goes, Up, Stopping
<1>11. CASE Accept \/ Answer \/ Sighup \/ Sigterm
    BY <1>11 DEF Accept, Answer, Sighup, Sigterm, Up, Stopping
<1>12. CASE EditConfig \/ EditFile
    BY <1>12 DEF EditConfig, EditFile, processVars, Up, Stopping
<1>13. CASE \E t \in Timers : TimerFires(t) \/ JobEnds(t) \/ TimerStops(t)
    BY <1>13 DEF TimerFires, JobEnds, TimerStops, SetTimer, Up, Stopping
<1>14. CASE UNCHANGED serverVars
    BY <1>14 DEF serverVars, processVars, Up, Stopping
<1> QED
    BY <1>1, <1>2, <1>3, <1>4, <1>5, <1>6, <1>7, <1>8, <1>9, <1>10, <1>11, <1>12, <1>13, <1>14
    DEF ServerNext, Run, Watcher

LEMMA InitParts == ServerInit => SchemaPart /\ ProcessTypes /\ ConfPart /\ PhasePart
<1> SUFFICES ASSUME ServerInit PROVE SchemaPart /\ ProcessTypes /\ ConfPart /\ PhasePart
    OBVIOUS
<1> USE DEF ServerInit, Nobody
<1>1. SchemaPart
    BY InitSchema DEF SchemaPart, Up, Stopping
<1>2. DataTypes
    BY WatcherKinds, ServerAssumption DEF DataTypes
<1>3. Flags
    BY DEF Flags
<1>4. ConfPart
    BY WatcherKinds DEF ConfPart, ConfSound, FixedUntilRestart, AgreeWhenIdle, Up, Stopping
<1>5. PhasePart
    BY DEF PhasePart, PhaseSound, PoolOutlivesRequests, Up, Stopping, MigrationsInit
<1> QED
    BY <1>1, <1>2, <1>3, <1>4, <1>5 DEF ProcessTypes

\* The invariant of the process and of its migrations holds in every state.
THEOREM ServerInductive == ServerSpec => []ServerIInv
<1>1. ServerInit => ServerIInv
    BY InitParts, Parts
<1>2. ServerIInv /\ [ServerNext]_serverVars => ServerIInv'
    <2> SUFFICES ASSUME ServerIInv, [ServerNext]_serverVars PROVE ServerIInv'
        OBVIOUS
    <2>1. SchemaPart /\ ProcessTypes /\ ConfPart /\ PhasePart
        BY Parts
    <2>2. SchemaPart' /\ ConfPart' /\ PhasePart' /\ DataTypes' /\ Flags'
        BY <2>1, SchemaStep, DataStep, FlagStep, ConfStep, PhaseStep
    <2>3. ProcessTypes'
        BY <2>2 DEF ProcessTypes
    <2>4. (ServerIInv <=> SchemaPart /\ ProcessTypes /\ ConfPart /\ PhasePart)'
        BY Parts, PTL
    <2> QED
        BY <2>2, <2>3, <2>4
<1> QED
    BY <1>1, <1>2, PTL DEF ServerSpec

\* What serves has every table, and what is recorded was executed to the end.
THEOREM SchemaStaysWhole == ServerSpec => []SchemaIsWhole
<1>1. ServerIInv => SchemaIsWhole
    BY DEF ServerIInv
<1> QED
    BY <1>1, ServerInductive, PTL

\* No reload changes the secret or the database of the process.
THEOREM FixedSettings == ServerSpec => []FixedUntilRestart
<1>1. ServerIInv => FixedUntilRestart
    BY DEF ServerIInv
<1> QED
    BY <1>1, ServerInductive, PTL

\* The services agree when no reload is under way.
THEOREM ServicesAgree == ServerSpec => []AgreeWhenIdle
<1>1. ServerIInv => AgreeWhenIdle
    BY DEF ServerIInv
<1> QED
    BY <1>1, ServerInductive, PTL

\* Requests lose the pool only when the stop could not wait for them.
THEOREM PoolIsThere == ServerSpec => []PoolOutlivesRequests
<1>1. ServerIInv => PoolOutlivesRequests
    BY DEF ServerIInv
<1> QED
    BY <1>1, ServerInductive, PTL

-----------------------------------------------------------------------------
(* Migrations that were cut short *)

\* A statement that took effect, cannot be executed again and is still to come.
Ahead(m, i) ==
    /\ i \in 1..Len(Schema[m]) /\ Schema[m][i] = "once" /\ <<m, i>> \in tables
    /\ at.file = m => ~(i < at.stmt)

LEMMA TornAhead ==
    ASSUME NEW m \in Migration
    PROVE  Torn(m) <=> ~Recorded(m) /\ \E i \in 1..Len(Schema[m]) : Ahead(m, i)
BY DEF Torn, Ahead

LEMMA TornMigrate ==
    ASSUME SchemaInv, NEW m \in Migration, NEW i \in 1..Len(Schema[m]), ~Recorded(m), Ahead(m, i),
           Migrate
    PROVE  ~Recorded(m)' /\ Ahead(m, i)'
<1> USE DEF Ahead
<1>0. /\ i \in Nat /\ i > 0 /\ at.stmt \in Nat /\ at.file \in Nat
      /\ versions \in [Migration -> Sums \cup {NoSum}]
    BY SchemaType, PlaceFields DEF SchemaInv, MigrationsTypeOK
<1>1. CASE ReadVersions \/ SkipApplied
    BY <1>0, <1>1 DEF ReadVersions, SkipApplied, LoopTop, Recorded
<1>2. CASE OpenFile
    <2>1. at'.stmt = 1 /\ UNCHANGED <<tables, versions>>
        BY <1>2, PlaceFields DEF OpenFile, Opening, SchemaInv
    <2> QED
        BY <1>0, <2>1 DEF Recorded
<1>3. CASE Execute
    <2>1. at'.file = at.file /\ at'.stmt = at.stmt + 1 /\ UNCHANGED versions
        BY <1>3, PlaceFields DEF Execute, Executing, SchemaInv
    <2>2. tables \subseteq tables'
        BY <1>3 DEF Execute
    <2>3. at.file = m => i # at.stmt
        BY <1>3 DEF Execute, Executing, Exists
    <2> QED
        BY <1>0, <2>1, <2>2, <2>3 DEF Recorded
<1>4. CASE Record
    <2>1. /\ at.file \in Migration /\ at.stmt = Len(Schema[at.file]) + 1 /\ UNCHANGED tables
          /\ versions' = [versions EXCEPT ![at.file] = at.sum] /\ at' = LoopTop(at.file + 1)
        BY <1>4 DEF Record, Recording, InLoop, InsertVersion
    <2>2. at.file # m
        BY <1>0, <2>1, SchemaType
    <2> QED
        BY <1>0, <2>1, <2>2 DEF Recorded, LoopTop
<1> QED
    BY <1>1, <1>2, <1>3, <1>4 DEF Migrate

LEMMA TornGone ==
    ASSUME SchemaInv, NEW m \in Migration, NEW i \in 1..Len(Schema[m]), ~Recorded(m), Ahead(m, i),
           at' = Idle, UNCHANGED tables, UNCHANGED versions \/ (Recording /\ InsertVersion)
    PROVE  ~Recorded(m)' /\ Ahead(m, i)'
<1>1. Ahead(m, i)'
    BY DEF Ahead, Idle, Migration
<1>2. CASE UNCHANGED versions
    BY <1>1, <1>2 DEF Recorded
<1>3. CASE Recording /\ InsertVersion
    <2>1. at.file # m
        BY <1>3, SchemaType, PlaceFields DEF Recording, Ahead, SchemaInv
    <2> QED
        BY <1>1, <1>3, <2>1 DEF InsertVersion, Recorded, SchemaInv, MigrationsTypeOK
<1> QED
    BY <1>2, <1>3

LEMMA TornStep ==
    ASSUME SchemaInv, NEW m \in Migration, Torn(m), [ServerNext]_serverVars
    PROVE  Torn(m)'
<1>1. PICK i \in 1..Len(Schema[m]) : Ahead(m, i)
    BY TornAhead
<1>2. ~Recorded(m)
    BY DEF Torn
<1>3. SUFFICES ~Recorded(m)' /\ Ahead(m, i)'
    BY DEF Torn, Ahead
<1>4. CASE UNCHANGED <<tables, versions, at>>
    BY <1>1, <1>2, <1>4 DEF Recorded, Ahead
<1>5. CASE RunMigrations
    BY <1>1, <1>2, <1>4, <1>5, TornMigrate DEF RunMigrations, schemaVars
<1>6. CASE StartFails \/ StartRefused \/ Exit \/ Killed
    BY <1>1, <1>2, <1>6, TornGone DEF StartFails, StartRefused, Exit, Killed, Gone
<1>7. CASE EditFile
    BY <1>4, <1>7 DEF EditFile, EditMigration
<1>8. CASE Start \/ Connect \/ MakeServices \/ Watch \/ Listen \/ Watcher
    BY <1>4, <1>8 DEF Start, Connect, MakeServices, Watch, Listen, Watcher, TakeHup, mergeReloadable,
        UpdateConfig, StopWatching, schemaVars
<1>9. CASE TakeTerm \/ Shutdown \/ ShutdownTimesOut \/ CloseTimers \/ StopRateLimiter \/ CloseStore \/ ListenFails
    BY <1>4, <1>9 DEF TakeTerm, Shutdown, ShutdownTimesOut, CloseTimers, StopRateLimiter, CloseStore,
        ListenFails, Stop, Goes, schemaVars
<1>10. CASE Accept \/ Answer \/ Sighup \/ Sigterm \/ EditConfig
    BY <1>4, <1>10 DEF Accept, Answer, Sighup, Sigterm, EditConfig, schemaVars
<1>11. CASE \E t \in Timers : TimerFires(t) \/ JobEnds(t) \/ TimerStops(t)
    BY <1>4, <1>11 DEF TimerFires, JobEnds, TimerStops, SetTimer, schemaVars
<1>12. CASE UNCHANGED serverVars
    BY <1>4, <1>12 DEF serverVars, schemaVars
<1> QED
    BY <1>5, <1>6, <1>7, <1>8, <1>9, <1>10, <1>11, <1>12 DEF ServerNext, Run

\* A migration that was cut short stays so in every start that follows.
THEOREM TornForGood == ServerSpec => TornStays
<1>1. ServerIInv /\ [ServerNext]_serverVars => [\A m \in Migration : Torn(m) => Torn(m)']_serverVars
    <2> SUFFICES ASSUME ServerIInv, [ServerNext]_serverVars, NEW m \in Migration, Torn(m)
                 PROVE  Torn(m)'
        OBVIOUS
    <2> QED
        BY TornStep, Parts DEF SchemaPart
<1> QED
    BY <1>1, ServerInductive, PTL DEF ServerSpec, TornStays
=============================================================================
