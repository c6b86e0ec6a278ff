------------------------------ MODULE HostTool ------------------------------
(***************************************************************************)
(* The processes of the host tool: main of crates/ncd/src/main.rs, which   *)
(* makes sure of the bundle and then edits, deletes or runs the one        *)
(* configuration file, HostConfig::load and save of config.rs, and         *)
(* get_all_devices of adapter_loader/list.rs.  A process may be killed at  *)
(* any moment.                                                             *)
(***************************************************************************)
EXTENDS Bundle, Editor

CONSTANTS
    InitialConfigs,   \* what an older version may have left in the file
    MaxStarts         \* bound: processes started

\* What the digits of a port number say when the last ones are missing.
PortPieces(port) ==
    {port} \cup ({port \div 10, port \div 100, port \div 1000, port \div 10000} \ {0})

ASSUME HostToolAssumption ==
    /\ MaxStarts \in Nat
    /\ \A config \in InitialConfigs : IsConfig(config)
    /\ \A port \in Ports : PortPieces(port) \subseteq Ports

VARIABLES
    file_exists,  \* there is a configuration file
    config_toml,  \* what it says, NoConfig if it is empty
    mpc,          \* mpc[p]: "off", "init", "edit", "save", "run" or "exit"
    command,      \* command[p]
    starts,       \* processes started so far
    saved,        \* what the save last begun is to write, or was there at first
    torn          \* history: has that save not been completed?

fileVars == <<file_exists, config_toml, saved, torn>>
mainVars == <<mpc, command, starts>>
vars     == <<bundleVars, editorVars, fileVars, mainVars>>

Commands == {"config", "clean", "run"}

TypeOK ==
    /\ BundleTypeOK
    /\ EditorTypeOK
    /\ file_exists \in BOOLEAN
    /\ IsConfig(config_toml)
    /\ mpc \in [Procs -> {"off", "init", "edit", "save", "run", "exit"}]
    /\ command \in [Procs -> Commands]
    /\ starts \in 0..MaxStarts
    /\ IsConfig(saved)
    /\ torn \in BOOLEAN

Init ==
    /\ BundleInit
    /\ EditorInit
    /\ config_toml \in InitialConfigs
    /\ file_exists = (config_toml # NoConfig)
    /\ mpc = [p \in Procs |-> "off"]
    /\ command = [p \in Procs |-> "run"]
    /\ starts = 0
    /\ saved = config_toml
    /\ torn = FALSE

MainGoto(p, label) ==
    /\ mpc' = [mpc EXCEPT ![p] = label]
    /\ UNCHANGED <<command, starts>>

\* HostConfig::load, None and no devices being the same to what follows.
load == IF file_exists THEN config_toml ELSE NoConfig

-----------------------------------------------------------------------------
Start(p) ==
    /\ mpc[p] = "off"
    /\ starts < MaxStarts
    /\ InitStart(p)
    /\ \E c \in Commands : command' = [command EXCEPT ![p] = c]
    /\ mpc' = [mpc EXCEPT ![p] = "init"]
    /\ starts' = starts + 1
    /\ UNCHANGED <<editorVars, fileVars>>

InitBundle(p) ==
    /\ mpc[p] = "init"
    /\ BundleStep(p)
    /\ UNCHANGED <<editorVars, fileVars, mainVars>>

Ready(p, c) == mpc[p] = "init" /\ bpc[p] = "ready" /\ command[p] = c

\* ncd config.  Bound: one editor at a time.
Config(p) ==
    /\ Ready(p, "config")
    /\ \A q \in Procs : mpc[q] \notin {"edit", "save"}
    /\ \E listed \in Listings : new(listed, load)
    /\ MainGoto(p, "edit")
    /\ UNCHANGED <<bundleVars, fileVars>>

Edit(p) ==
    /\ mpc[p] = "edit"
    /\ EditorStep
    /\ UNCHANGED <<bundleVars, fileVars, mainVars>>

EditorGone == rows' = <<>> /\ selected' = 1 /\ mode' = Normal /\ touched' = {}
                 /\ base' = NoConfig

\* q or Esc; or s, and the file cannot be opened.
Quit(p) ==
    /\ mpc[p] = "edit"
    /\ mode = Normal
    /\ EditorGone
    /\ MainGoto(p, "exit")
    /\ UNCHANGED <<bundleVars, fileVars>>

\* What load makes of a beginning of the text of saved: the first entries, in the
\* order of the devices, of which the last one may lack options, or its options and
\* the last digits of its port; nothing, when the text does not parse.
EntryPieces(e) ==
    {[e EXCEPT !.options = [key \in keys |-> e.options[key]]] :
        keys \in SUBSET DOMAIN e.options}
    \cup {[port |-> port, options |-> << >>] : port \in PortPieces(e.port)}

Beginning(i, piece) ==
    [d \in {Devices[j] : j \in 1..i} \cap DOMAIN saved |->
        IF d = Devices[i] THEN piece ELSE saved[d]]

Beginnings ==
    {NoConfig} \cup UNION {{Beginning(i, piece) : piece \in EntryPieces(saved[Devices[i]])} :
                          i \in {i \in DOMAIN Devices : Devices[i] \in DOMAIN saved}}

\* What the file says once a save has written this.  A file that ncd clean has
\* removed in between is written to no end.
Written(config) == IF file_exists THEN config ELSE config_toml

\* s: run_tui returns what build_config makes, and HostConfig::save begins to write
\* it.  fs::write truncates the file first.
SaveTruncates(p) ==
    /\ mpc[p] = "edit"
    /\ mode = Normal
    /\ saved' = build_config
    /\ EditorGone
    /\ file_exists' = TRUE
    /\ config_toml' = NoConfig
    /\ torn' = TRUE
    /\ MainGoto(p, "save")
    /\ UNCHANGED bundleVars

\* A call of write that takes a part of the text only.
SaveWritesSome(p) ==
    /\ mpc[p] = "save"
    /\ config_toml' \in {Written(config) : config \in Beginnings}
    /\ UNCHANGED <<bundleVars, editorVars, file_exists, saved, torn, mainVars>>

\* Mutant: one call of write, whatever it has taken.
SaveWritesOnce(p) ==
    /\ mpc[p] = "save"
    /\ config_toml' \in {Written(config) : config \in Beginnings}
    /\ torn' = FALSE
    /\ MainGoto(p, "exit")
    /\ UNCHANGED <<bundleVars, editorVars, file_exists, saved>>

\* The call that takes the rest.
SaveWrites(p) ==
    /\ mpc[p] = "save"
    /\ config_toml' = Written(saved)
    /\ torn' = FALSE
    /\ MainGoto(p, "exit")
    /\ UNCHANGED <<bundleVars, editorVars, file_exists, saved>>

\* A write fails, when the disk is full for example: main prints the error, and the
\* file stays as it is.
SaveFails(p) ==
    /\ mpc[p] = "save"
    /\ MainGoto(p, "exit")
    /\ UNCHANGED <<bundleVars, editorVars, fileVars>>

\* ncd clean.
Clean(p) ==
    /\ Ready(p, "clean")
    /\ file_exists' = FALSE
    /\ config_toml' = NoConfig
    /\ saved' = NoConfig
    /\ torn' = FALSE
    /\ MainGoto(p, "exit")
    /\ UNCHANGED <<bundleVars, editorVars>>

\* ncd: run what is configured, if anything is.
Run(p) ==
    /\ Ready(p, "run")
    /\ load # NoConfig
    /\ MainGoto(p, "run")
    /\ UNCHANGED <<bundleVars, editorVars, fileVars>>

RunNothing(p) ==
    /\ Ready(p, "run")
    /\ load = NoConfig
    /\ MainGoto(p, "exit")
    /\ UNCHANGED <<bundleVars, editorVars, fileVars>>

\* The process exits, or is killed.
Exit(p) ==
    /\ mpc[p] # "off"
    /\ ProcessEnds(p)
    /\ IF mpc[p] = "edit" THEN EditorGone ELSE UNCHANGED editorVars
    /\ mpc' = [mpc EXCEPT ![p] = "off"]
    /\ UNCHANGED <<fileVars, command, starts>>

Next == \E p \in Procs :
    \/ Start(p) \/ InitBundle(p) \/ Config(p) \/ Edit(p) \/ Quit(p)
    \/ SaveTruncates(p) \/ SaveWritesSome(p) \/ SaveWrites(p) \/ SaveFails(p)
    \/ Clean(p) \/ Run(p) \/ RunNothing(p) \/ Exit(p)

Spec == Init /\ [][Next]_vars

-----------------------------------------------------------------------------
\* A beginning of saved: each of its entries is the saved one, but for options and
\* digits that the last one may lack.
IsCut(config) ==
    \E last \in DOMAIN config :
        /\ DOMAIN config \subseteq DOMAIN saved
        /\ \A d \in DOMAIN config \ {last} : config[d] = saved[d]
        /\ config[last].port \in PortPieces(saved[last].port)
        /\ \A key \in DOMAIN config[last].options :
              /\ key \in DOMAIN saved[last].options
              /\ config[last].options[key] = saved[last].options[key]

\* A host runs the configuration that was saved last, as a whole, or a beginning of
\* it when that save was killed or has failed or is still at it: never a mixture
\* with an older one, whatever kills, failures and deletions there were
\* (HostConfig::save, load, main).
RunsWhatWasSaved ==
    [][\A p \in Procs : mpc[p] # "run" /\ mpc'[p] = "run"
           => load = saved \/ (torn /\ IsCut(load))]_vars
=============================================================================
