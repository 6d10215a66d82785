------------------------------ MODULE Pipeline ------------------------------
(***************************************************************************)
(* Runs of the compiler's command line (cmd.go), and the compiled game     *)
(* that writes a profile for it (core.c, profile.c).  Runs of the same ROM *)
(* and output directory go on side by side, each in its own temporary      *)
(* directories; the game may be killed at any moment.                      *)
(*                                                                         *)
(* Every step of a run may fail, and must() then ends the process without  *)
(* the deferred removals: so does a kill.  The tools, clang and opt, are   *)
(* external: they read their inputs and write their output, or fail.       *)
(***************************************************************************)
EXTENDS Profile

CONSTANTS RUNS,         \* the runs of the compiler
          SCENARIOS,    \* which runs there are, with which options, and a bound on the
                        \* dumps of the game
          NAMES,        \* of temporary directories
          RECORDED,     \* the addresses a game may record
          None

ASSUME PipelineAssumption == None \notin NAMES /\ RECORDED \subseteq Addresses

VARIABLES
    scenario,
    pc,                 \* of each run: its next step, or "ok", "failed"
    work, runtimeDir,   \* of each run: its directories
    buf, seeds,         \* of each run: what it read of the profile
    reads,              \* of each run: how many chunks that took
    temp,               \* the temporary directories: what is in them
    out,                \* the output directory: the binary and the saved IR
    game,               \* "off", "on", "dump": what the game is doing
    profile_map,        \* the addresses it recorded
    file,               \* the profile
    dumps, dumped,      \* the dumps so far, and the addresses in any of them
    whole,              \* the last dump was finished
    steady              \* of each run: the profile was whole when it opened it, and not dumped since

run_vars  == <<pc, work, runtimeDir, buf, seeds, reads>>
game_vars == <<scenario, game, profile_map, file, dumps, dumped, whole, steady>>
vars == <<run_vars, game_vars, temp, out>>

Init ==
    /\ scenario \in SCENARIOS
    /\ pc = [r \in RUNS |-> IF r \in DOMAIN scenario.options THEN "parseFlags" ELSE "failed"]
    /\ work = [r \in RUNS |-> None] /\ runtimeDir = [r \in RUNS |-> None]
    /\ buf = [r \in RUNS |-> <<>>] /\ seeds = [r \in RUNS |-> {}] /\ reads = [r \in RUNS |-> 0]
    /\ temp = <<>> /\ out = [binary |-> None, ll |-> None]
    /\ game = "off" /\ profile_map = {} /\ file = <<>> /\ dumps = 0 /\ dumped = {}
    /\ whole = TRUE /\ steady = [r \in RUNS |-> FALSE]
-----------------------------------------------------------------------------
(* The run *)

At(r, step) == pc[r] = step /\ UNCHANGED game_vars
Goto(r, step) == pc' = [pc EXCEPT ![r] = step]
Keep(r) == UNCHANGED <<work, runtimeDir, buf, seeds, reads>>

\* Mutant: all runs work in the same directory.
MkdirTemp_shared(d) == d = CHOOSE n \in NAMES : TRUE

\* A name that no directory has.
MkdirTemp(d) == d \notin DOMAIN temp

RemoveAll(dirs) == [d \in DOMAIN temp \ dirs |-> temp[d]]
MakeDir(d, r) == [n \in DOMAIN temp \cup {d} |-> IF n = d THEN [owner |-> r, ll |-> None, romObj |-> None, libObj |-> None]
                                              ELSE temp[n]]
Put(d, name, what) == temp' = [temp EXCEPT ![d][name] = what]
InWork(r, name) == IF work[r] \in DOMAIN temp THEN temp[work[r]][name] ELSE None

\* must: a step that failed ends the process, and so does a kill.
must(r) ==
    /\ pc[r] \notin {"ok", "failed"}
    /\ Goto(r, "failed")
    /\ UNCHANGED <<game_vars, temp, out>> /\ Keep(r)

parseFlags(r) ==
    /\ At(r, "parseFlags")
    /\ Goto(r, IF scenario.options[r].profile THEN "open" ELSE "analyze")
    /\ UNCHANGED <<temp, out>> /\ Keep(r)

\* readSeeds opens the profile and reads it to its end.
open(r) ==
    /\ pc[r] = "open" /\ Goto(r, "read")
    /\ steady' = [steady EXCEPT ![r] = whole]
    /\ UNCHANGED <<scenario, game, profile_map, file, dumps, dumped, whole, temp, out>> /\ Keep(r)
read(r) ==
    LET more == Refilled(buf[r], file)
    IN  /\ At(r, "read") /\ UNCHANGED <<temp, out, work, runtimeDir>>
        /\ IF more # buf[r]
           THEN /\ buf' = [buf EXCEPT ![r] = more]
                /\ reads' = [reads EXCEPT ![r] = @ + 1]
                /\ UNCHANGED <<pc, seeds>>
           ELSE /\ seeds' = [seeds EXCEPT ![r] = readSeeds(buf[r])]
                /\ Goto(r, "analyze") /\ UNCHANGED <<buf, reads>>

\* The analysis, and the work directory.
analyze(r) ==
    /\ At(r, "analyze") /\ Goto(r, "generate")
    /\ \E d \in NAMES :
          /\ MkdirTemp(d)
          /\ work' = [work EXCEPT ![r] = d]
          /\ temp' = MakeDir(d, r)
    /\ UNCHANGED <<out, runtimeDir, buf, seeds, reads>>

\* codegen.New and WriteTo.
generate(r) ==
    /\ At(r, "generate") /\ Goto(r, "opt")
    /\ work[r] \in DOMAIN temp /\ Put(work[r], "ll", [by |-> r, optimized |-> FALSE])
    /\ UNCHANGED out /\ Keep(r)

\* opt rewrites the IR in place.
opt(r) ==
    /\ At(r, "opt") /\ Goto(r, "save")
    /\ InWork(r, "ll") # None /\ Put(work[r], "ll", [InWork(r, "ll") EXCEPT !.optimized = TRUE])
    /\ UNCHANGED out /\ Keep(r)

\* Mutant: a run returns without its deferred removals.
finish_without_cleanup(r) == Goto(r, "ok") /\ UNCHANGED temp

\* Run returns, and the deferred calls remove what it made.
finish(r) == Goto(r, "ok") /\ temp' = RemoveAll({work[r], runtimeDir[r]})

save(r) ==
    /\ At(r, "save") /\ InWork(r, "ll") # None
    /\ out' = IF scenario.options[r].onlyIR \/ scenario.options[r].saveIR THEN [out EXCEPT !.ll = InWork(r, "ll")] ELSE out
    /\ IF scenario.options[r].onlyIR THEN finish(r) ELSE Goto(r, "extract") /\ UNCHANGED temp
    /\ Keep(r)

\* The runtime is unpacked into a directory, which is removed when that fails.
extractRuntime(r) ==
    /\ At(r, "extract")
    /\ \/ /\ \E d \in NAMES :
                /\ MkdirTemp(d)
                /\ runtimeDir' = [runtimeDir EXCEPT ![r] = d]
                /\ temp' = MakeDir(d, r)
          /\ Goto(r, "compile")
       \/ Goto(r, "failed") /\ UNCHANGED <<temp, runtimeDir>>
    /\ UNCHANGED <<out, work, buf, seeds, reads>>

compile(r) ==
    /\ At(r, "compile") /\ Goto(r, "compileRuntime")
    /\ InWork(r, "ll") # None /\ Put(work[r], "romObj", InWork(r, "ll"))
    /\ UNCHANGED out /\ Keep(r)

\* collectSources finds the sources unpacked before.
compileRuntime(r) ==
    /\ At(r, "compileRuntime") /\ Goto(r, "link")
    /\ runtimeDir[r] \in DOMAIN temp /\ work[r] \in DOMAIN temp
    /\ Put(work[r], "libObj", [by |-> temp[runtimeDir[r]].owner])
    /\ UNCHANGED out /\ Keep(r)

\* A linker that fails may have spoilt the output.
link(r) ==
    /\ At(r, "link")
    /\ \/ /\ InWork(r, "romObj") # None /\ InWork(r, "libObj") # None
          /\ out' = [out EXCEPT !.binary = [rom |-> InWork(r, "romObj"), lib |-> InWork(r, "libObj")]]
          /\ Goto(r, "return")
       \/ out' = [out EXCEPT !.binary = None] /\ Goto(r, "failed")
    /\ UNCHANGED temp /\ Keep(r)

return(r) == At(r, "return") /\ finish(r) /\ UNCHANGED out /\ Keep(r)

Run(r) == \/ must(r) \/ parseFlags(r) \/ open(r) \/ read(r) \/ analyze(r) \/ generate(r) \/ opt(r) \/ save(r)
          \/ extractRuntime(r) \/ compile(r) \/ compileRuntime(r) \/ link(r) \/ return(r)
-----------------------------------------------------------------------------
(* The game *)

Others == UNCHANGED <<scenario, run_vars, temp, out>>

start ==
    /\ game = "off" /\ dumps < scenario.dumps
    /\ game' = "on" /\ profile_map' = {}
    /\ UNCHANGED <<file, dumps, dumped, whole, steady>> /\ Others

profile_record(a) ==
    /\ game = "on" /\ a \notin profile_map
    /\ profile_map' = profile_map \cup {a}
    /\ UNCHANGED <<game, file, dumps, dumped, whole, steady>> /\ Others

\* gb_profile_tick and gb_profile_flush: the file is emptied ...
profile_dump ==
    /\ game = "on" /\ dumps < scenario.dumps
    /\ game' = "dump" /\ file' = <<>>
    /\ dumps' = dumps + 1 /\ dumped' = dumped \cup profile_map
    /\ whole' = FALSE /\ steady' = [r \in RUNS |-> FALSE]
    /\ UNCHANGED profile_map /\ Others

\* ... written as the buffer fills, and closed.
flush ==
    /\ game = "dump"
    /\ file' = Flushed(file, profile_map)
    /\ whole' = (file' = Dump(profile_map))
    /\ game' = IF whole' THEN "on" ELSE "dump"
    /\ UNCHANGED <<profile_map, dumps, dumped, steady>> /\ Others

\* The player quits, or the game is killed, also in the middle of a dump.
stop ==
    /\ game # "off" /\ game' = "off"
    /\ UNCHANGED <<profile_map, file, dumps, dumped, whole, steady>> /\ Others

Next == (\E r \in RUNS : Run(r)) \/ start \/ (\E a \in RECORDED : profile_record(a)) \/ profile_dump \/ flush \/ stop
Spec == Init /\ [][Next]_vars
-----------------------------------------------------------------------------
(* Properties *)

\* What a run links and saves, it made itself, from the IR it generated and optimized,
\* whatever other runs do to the same outputs meanwhile (MkdirTemp, link, save).
OwnBuild ==
    [][\A r \in RUNS :
        /\ link(r) /\ pc'[r] = "return" => out'.binary = [rom |-> [by |-> r, optimized |-> TRUE], lib |-> [by |-> r]]
        /\ save(r) /\ out' # out => out'.ll = [by |-> r, optimized |-> TRUE]]_vars

\* A run never loses a directory before its end, leaves none behind when it succeeds, and
\* when it fails, at any step, at most the two it made (the deferred RemoveAll).
Directories ==
    \A r \in RUNS :
        LET own == {d \in DOMAIN temp : temp[d].owner = r}
        IN  /\ own \subseteq {work[r], runtimeDir[r]}
            /\ pc[r] = "ok" => own = {}
            /\ pc[r] # "ok" => own = {work[r], runtimeDir[r]} \ {None}

\* The seeds lie in the ROM.  A profile that was complete when it was opened, and not
\* dumped anew before its end was read, gives every address in it that lies there; in any other
\* case, a dump cut off by a kill or overtaken by the reader among them, there is at most
\* one address per chunk read that no game recorded (profile_dump, readSeeds).
SeedsRecorded ==
    \A r \in RUNS : pc[r] = "analyze" /\ scenario.options[r].profile =>
        /\ seeds[r] \subseteq 0..ROM_END - 1
        /\ steady[r] => \E map \in SUBSET dumped :
                           file = Dump(map) /\ seeds[r] = {a \in map : a < ROM_END}
        /\ Cardinality(seeds[r] \ dumped) <= reads[r]
=============================================================================
