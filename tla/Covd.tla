-------------------------------- MODULE Covd --------------------------------
(***************************************************************************)
(* The covd command line: the home directory with its configuration file and *)
(* keyring, the commands init, create-key and start, and edits of the file   *)
(* by the operator. init and create-key do not run at the same time; either  *)
(* may be killed, or fail, between any two of its steps, and start may run   *)
(* beside it. The path of --home is the same for all commands.               *)
(***************************************************************************)
EXTENDS Naturals, Sequences

CONSTANTS
    Home,           \* the home directory
    FallbackDir,    \* ~/.covenant-emulator
    KeyNames,       \* values of --key-name
    Backends,       \* values of --keyring-backend
    MaxInterrupts,  \* bound on the writings of the file that are interrupted
    Edits,          \* the operator's edits: pairs of an option and its new value
    Missing,        \* what the file says of an option it has no line for
    NoKey           \* no key has the name

\* The options of Config and then those of BBNConfig, in the order of the fields,
\* which is the order of the lines of the file.
OptionOrder ==
    <<"LogLevel", "QueryInterval", "DelegationLimit", "SigsBatchSize", "BitcoinNetwork",
      "Key", "ChainID", "RPCAddr", "GRPCAddr", "AccountPrefix", "KeyringBackend",
      "GasAdjustment", "GasPrices", "KeyDirectory", "Debug", "Timeout", "BlockTimeout",
      "OutputFormat", "SignModeStr">>

Options == {OptionOrder[i] : i \in DOMAIN OptionOrder}

\* The content of a file that does not exist.
NoFile == [o \in {} |-> Missing]

LineOf(o) == CHOOSE i \in DOMAIN OptionOrder : OptionOrder[i] = o

\* var cfg Config: numbers are 0; the zero value of any other type is written "".
ZeroConfig ==
    [o \in Options |->
        IF o \in {"QueryInterval", "DelegationLimit", "SigsBatchSize", "Timeout", "BlockTimeout"}
        THEN 0 ELSE ""]

\* The defaults of the Babylon client, in seconds where they are durations, but for
\* BlockTimeout and the KeyDirectory, which stays empty.
DefaultBBNConfig(o) ==
    CASE o = "KeyringBackend" -> "test"
      [] o = "KeyDirectory" -> ""
      [] o = "Timeout" -> 20
      [] o = "BlockTimeout" -> 60
      [] OTHER -> "default"

DefaultConfigWithHomePath ==
    [o \in Options |->
        CASE o = "LogLevel" -> "debug"
          [] o = "QueryInterval" -> 15
          [] o = "DelegationLimit" -> 100
          [] o = "SigsBatchSize" -> 20
          [] o = "BitcoinNetwork" -> "simnet"
          [] o = "Key" -> "covenant-key"
          [] o = "KeyDirectory" -> Home
          [] OTHER -> DefaultBBNConfig(o)]

\* The choice tags of the two fields that have some: a line with another value
\* is a parse error.
LogLevelChoices == {"trace", "debug", "info", "warn", "error", "fatal"}

BitcoinNetworkChoices == {"mainnet", "regtest", "testnet", "simnet", "signet"}

\* The levels NewRootLogger knows.
LoggerLevels == {"panic", "fatal", "error", "warn", "warning", "info", "debug"}

ASSUME DirsAssumption ==
    Home # "" /\ Home # Missing

ASSUME NamesAssumption == Missing \notin KeyNames \cup Backends

VARIABLES
    home,           \* does the home directory exist?
    file,           \* covd.conf: the value on each option's line
    keys,           \* the keyring: directory, backend and name of each key
    cli,            \* init or create-key: where it stands, its cfg and its key
    daemon,         \* start: where it stands, its cfg and its key
    intended,       \* history: the whole configuration that the file should hold
    saved,          \* history: the key of the create-key that wrote the file as it is
    edited,         \* history: what the operator has set while no command ran
    interrupts      \* the number of writings of the file that were interrupted

vars == <<home, file, keys, cli, daemon, intended, saved, edited, interrupts>>

\* A key is identified by the place it is kept at: NewAccount refuses a name in
\* use, so that no place gets a second key.
KeyAt(dir, backend, name) == <<dir, backend, name>>

\* cli.meant is history: the whole configuration that cli.cfg should be, also when it
\* was loaded from a file that had only been written in part.
Idle == [pc |-> "idle", cfg |-> ZeroConfig, meant |-> NoFile, key |-> NoKey, line |-> 0]

Down == [pc |-> "down", cfg |-> ZeroConfig, key |-> NoKey, whole |-> NoFile]

\* The operator has set nothing.
Unedited == [o \in Options |-> Missing]

Init ==
    /\ home = FALSE
    /\ file = NoFile
    /\ keys = {}
    /\ cli = Idle
    /\ daemon = Down
    /\ intended = NoFile
    /\ saved = NoKey
    /\ edited = Unedited
    /\ interrupts = 0

-----------------------------------------------------------------------------
\* A file that holds the lines of the first n options of a configuration.
FirstLines(cfg, n) == [o \in Options |-> IF LineOf(o) <= n THEN cfg[o] ELSE Missing]

Parses(f) ==
    /\ f["LogLevel"] \in LogLevelChoices \cup {Missing}
    /\ f["BitcoinNetwork"] \in BitcoinNetworkChoices \cup {Missing}

\* What LoadConfig makes of a file: options without a line keep their zero value.
Parsed(f) == [o \in Options |-> IF f[o] = Missing THEN ZeroConfig[o] ELSE f[o]]

Validate(cfg) == cfg["BitcoinNetwork"] \in BitcoinNetworkChoices

FileExists(f) == f # NoFile

\* LoadConfig returns a configuration.
Loads(f) ==
    /\ FileExists(f)
    /\ Parses(f)
    /\ Validate(Parsed(f))

\* CreateClientCtx: an empty directory stands for one below the user's home.
KeyringDir(dir) == IF dir = "" THEN FallbackDir ELSE dir

CreateKeyring(backend) == backend # ""

NewChainKeyringControllerWithKeyring(name) == name # ""

\* GetChainPrivKey, on the keyring that the configuration names.
KeyFor(cfg) ==
    LET key == KeyAt(KeyringDir(cfg["KeyDirectory"]), cfg["KeyringBackend"], cfg["Key"])
    IN  IF /\ CreateKeyring(cfg["KeyringBackend"])
           /\ NewChainKeyringControllerWithKeyring(cfg["Key"])
           /\ key \in keys
        THEN key ELSE NoKey

NewChainKeyringController(name, backend) == name # "" /\ backend # ""

CreateChainKey(key) == key \notin keys /\ keys' = keys \cup {key}

CreateCovenantKey(key) ==
    /\ NewChainKeyringController(key[3], key[2])
    /\ CreateChainKey(key)

\* The home directory, and logs below it.
MakeDirectory == home' = TRUE

-----------------------------------------------------------------------------
\* initHome up to the writing of the file.
InitHome(force) ==
    /\ cli.pc = "idle"
    /\ home => force
    /\ MakeDirectory
    /\ cli' = [cli EXCEPT !.pc = "save", !.cfg = DefaultConfigWithHomePath,
                          !.meant = DefaultConfigWithHomePath]
    /\ UNCHANGED <<file, keys, daemon, intended, saved, edited, interrupts>>

\* Mutant: createKey begins with the defaults, as init does.
CreateKeyOverDefaults(name, backend) ==
    /\ cli.pc = "idle"
    /\ Loads(file)
    /\ cli' = [cli EXCEPT !.pc = "create",
                          !.cfg = DefaultConfigWithHomePath,
                          !.meant = intended,
                          !.key = KeyAt(KeyringDir(Home), backend, name)]
    /\ UNCHANGED <<home, file, keys, daemon, intended, saved, edited, interrupts>>

\* createKey loads the configuration.
CreateKeyLoads(name, backend) ==
    /\ cli.pc = "idle"
    /\ Loads(file)
    /\ cli' = [cli EXCEPT !.pc = "create",
                          !.cfg = Parsed(file),
                          !.meant = intended,
                          !.key = KeyAt(KeyringDir(Home), backend, name)]
    /\ UNCHANGED <<home, file, keys, daemon, intended, saved, edited, interrupts>>

WithKey(cfg, key) == [cfg EXCEPT !["Key"] = key[3], !["KeyringBackend"] = key[2]]

\* Mutant: createKey leaves the backend of the configuration as it is.
CreateKeyKeepsBackend ==
    /\ cli.pc = "create"
    /\ CreateCovenantKey(cli.key)
    /\ cli' = [cli EXCEPT !.pc = "save",
                          !.cfg = [@ EXCEPT !["Key"] = cli.key[3]],
                          !.meant = WithKey(@, cli.key)]
    /\ UNCHANGED <<home, file, daemon, intended, saved, edited, interrupts>>

\* createKey creates the key and changes the configuration it has loaded.
CreateKeyStores ==
    /\ cli.pc = "create"
    /\ CreateCovenantKey(cli.key)
    /\ cli' = [cli EXCEPT !.pc = "save",
                          !.cfg = WithKey(@, cli.key),
                          !.meant = WithKey(@, cli.key)]
    /\ UNCHANGED <<home, file, daemon, intended, saved, edited, interrupts>>

\* Mutant: the old lines of the file stay until they are overwritten.
CreateFileInPlace ==
    /\ cli.pc = "save"
    /\ cli' = [cli EXCEPT !.pc = "write"]
    /\ file' = IF file = NoFile THEN FirstLines(cli.cfg, 0) ELSE file
    /\ intended' = cli.meant
    /\ saved' = NoKey
    /\ edited' = IF cli.key = NoKey THEN Unedited
                 ELSE [edited EXCEPT !["Key"] = Missing, !["KeyringBackend"] = Missing]
    /\ UNCHANGED <<home, keys, daemon, interrupts>>

\* WriteFile: the file is truncated and then filled line by line.
CreateFile ==
    /\ cli.pc = "save"
    /\ cli' = [cli EXCEPT !.pc = "write"]
    /\ file' = FirstLines(cli.cfg, 0)
    /\ intended' = cli.meant
    /\ saved' = NoKey
    /\ edited' = IF cli.key = NoKey THEN Unedited
                 ELSE [edited EXCEPT !["Key"] = Missing, !["KeyringBackend"] = Missing]
    /\ UNCHANGED <<home, keys, daemon, interrupts>>

WriteLine ==
    /\ cli.pc = "write"
    /\ cli.line < Len(OptionOrder)
    /\ cli' = [cli EXCEPT !.line = @ + 1]
    /\ file' = [file EXCEPT ![OptionOrder[cli.line + 1]] =
                   cli.cfg[OptionOrder[cli.line + 1]]]
    /\ UNCHANGED <<home, keys, daemon, intended, saved, edited, interrupts>>

\* The command returns after the last line.
FileWritten ==
    /\ cli.pc = "write"
    /\ cli.line = Len(OptionOrder)
    /\ cli' = Idle
    /\ saved' = cli.key
    /\ UNCHANGED <<home, file, keys, daemon, intended, edited, interrupts>>

\* init or create-key returns an error (a name in use, a full disk) or is killed.
Interrupted ==
    /\ \/ /\ cli.pc \in {"create", "save"}
          /\ UNCHANGED <<edited, interrupts>>
       \/ /\ cli.pc = "write" /\ interrupts < MaxInterrupts
          /\ edited' = Unedited
          /\ interrupts' = interrupts + 1
    /\ cli' = Idle
    /\ UNCHANGED <<home, file, keys, daemon, intended, saved>>

\* The operator changes one line of the file with an editor, not while a command
\* writes it. Whatever the file then says is what the operator wants.
Edit(option, value) ==
    /\ file # NoFile
    /\ cli.pc # "write"
    /\ file' = [file EXCEPT ![option] = value]
    /\ intended' = file'
    /\ saved' = NoKey
    /\ edited' = [edited EXCEPT ![option] = IF cli.pc = "idle" THEN value ELSE Missing]
    /\ UNCHANGED <<home, keys, cli, daemon, interrupts>>

-----------------------------------------------------------------------------
\* start reads the file while another command may be writing it.
StartLoads ==
    /\ daemon.pc = "down"
    /\ Loads(file)
    /\ daemon' = [daemon EXCEPT !.pc = "loaded", !.cfg = Parsed(file), !.whole = intended]
    /\ UNCHANGED <<home, file, keys, cli, intended, saved, edited, interrupts>>

NewRootLogger ==
    /\ daemon.pc = "loaded"
    /\ daemon.cfg["LogLevel"] \in LoggerLevels
    /\ daemon' = [daemon EXCEPT !.pc = "logging"]
    /\ UNCHANGED <<home, file, keys, cli, intended, saved, edited, interrupts>>

\* Mutant: the configuration of the Babylon client is not validated.
NewBabylonControllerUnvalidated ==
    /\ daemon.pc = "logging"
    /\ daemon' = [daemon EXCEPT !.pc = "connected"]
    /\ UNCHANGED <<home, file, keys, cli, intended, saved, edited, interrupts>>

\* Validate of the Babylon client's configuration refuses a timeout that is not positive.
ClientConfigValid(cfg) == cfg["Timeout"] > 0

\* NewBabylonController does not read the keys; its failure is a StartReturns.
NewBabylonController ==
    /\ daemon.pc = "logging"
    /\ ClientConfigValid(daemon.cfg)
    /\ daemon' = [daemon EXCEPT !.pc = "connected"]
    /\ UNCHANGED <<home, file, keys, cli, intended, saved, edited, interrupts>>

NewCovenantEmulator ==
    /\ daemon.pc = "connected"
    /\ KeyFor(daemon.cfg) # NoKey
    /\ daemon' = [daemon EXCEPT !.pc = "running", !.key = KeyFor(daemon.cfg)]
    /\ UNCHANGED <<home, file, keys, cli, intended, saved, edited, interrupts>>

\* start returns an error (no such key, a wrong passphrase, no node), or the
\* daemon ends.
StartReturns ==
    /\ daemon.pc # "down"
    /\ daemon' = Down
    /\ UNCHANGED <<home, file, keys, cli, intended, saved, edited, interrupts>>

-----------------------------------------------------------------------------
Next ==
    \/ \E force \in BOOLEAN : InitHome(force)
    \/ \E name \in KeyNames, backend \in Backends : CreateKeyLoads(name, backend)
    \/ CreateKeyStores
    \/ CreateFile \/ WriteLine \/ FileWritten
    \/ Interrupted
    \/ \E e \in Edits : Edit(e[1], e[2])
    \/ StartLoads \/ NewRootLogger \/ NewBabylonController \/ NewCovenantEmulator
    \/ StartReturns

Spec == Init /\ [][Next]_vars

-----------------------------------------------------------------------------
\* An option whose line is not after that of Timeout.
UpToTimeout(o) == LineOf(o) <= LineOf("Timeout")

\* The daemon runs with the values that the whole configuration gives to every option
\* up to Timeout (all but BlockTimeout, OutputFormat and SignModeStr), although start
\* may read the file in the middle of a WriteFile of init or create-key, or after one
\* that was interrupted, and although create-key may load what such a file holds and
\* save it. Neither LoadConfig nor WriteFile takes care of this: it is due to the order
\* of the options and to the Babylon client, which refuses an empty timeout. The three
\* options after it can be lost.
RunsWithWholeConfig ==
    daemon.pc = "running" =>
        \A o \in Options : UpToTimeout(o) => daemon.cfg[o] = Parsed(daemon.whole)[o]

\* After create-key has returned, and until the file is written again, start finds
\* the key that create-key has created and printed (README.md:242-246), whatever
\* was saved, killed or edited before, and between create-key's reading and its
\* writing of the file. This holds if KeyDirectory is the home directory, as init
\* sets it: a create-key that has read an interrupted init's file saves it empty.
SavedKeyFound ==
    saved # NoKey /\ file["KeyDirectory"] = Home => KeyFor(Parsed(file)) = saved

\* What the operator sets while neither init nor create-key runs stays set until it
\* is edited again: a create-key that returns gives the file back as it has read it,
\* but for Key and KeyringBackend, and one that stops before it writes leaves it
\* alone. Only init --force, and a writing that is interrupted, undo an edit; one
\* that is made while create-key runs may be lost, because the file is read first and
\* written last (cmd/covd/key.go:69, 99).
EditsKept ==
    \A o \in Options : cli.pc # "write" /\ edited[o] # Missing => file[o] = edited[o]

\* A function that gives every option a value.
IsConfig(cfg) == cfg = [o \in Options |-> cfg[o]]

\* The key is in the home directory under the names that the options give.
NamesKey(cfg, key) ==
    /\ key \in keys
    /\ key = KeyAt(Home, cfg["KeyringBackend"], cfg["Key"])
    /\ cfg["KeyringBackend"] \in Backends \ {""} /\ cfg["Key"] \in KeyNames \ {""}

\* What has a timeout has all options before it: it is part of the whole configuration.
Agrees(cfg, whole) ==
    Parsed(cfg)["Timeout"] # 0 =>
        \A o \in Options : UpToTimeout(o) => Parsed(cfg)[o] = Parsed(whole)[o]

\* The file is part of what it should be, and what create-key has saved names its key.
FileInv ==
    /\ home \in BOOLEAN
    /\ file # NoFile =>
          IsConfig(file) /\ IsConfig(intended) /\ Agrees(file, intended)
    /\ saved # NoKey => file # NoFile /\ NamesKey(file, saved)

\* The command that runs, field by field.
Cli == [pc |-> cli.pc, cfg |-> cli.cfg, meant |-> cli.meant, key |-> cli.key, line |-> cli.line]

\* A command that writes the file has written its first lines, and a create-key
\* that writes, or is about to, gives the file the names of its key.
CliInv ==
    /\ cli = Cli
    /\ IsConfig(cli.cfg)
    /\ cli.pc # "idle" => IsConfig(cli.meant) /\ Agrees(cli.cfg, cli.meant)
    /\ \/ cli.pc = "idle" /\ cli.line = 0 /\ cli.key = NoKey
       \/ /\ cli.pc = "create" /\ cli.line = 0
          /\ \E backend \in Backends, name \in KeyNames : cli.key = KeyAt(Home, backend, name)
       \/ /\ cli.pc = "save" /\ cli.line = 0
          /\ cli.key # NoKey => NamesKey(cli.cfg, cli.key)
       \/ /\ cli.pc = "write" /\ cli.line \in 0..Len(OptionOrder)
          /\ cli.key # NoKey => NamesKey(cli.cfg, cli.key)
          /\ file # NoFile /\ intended = cli.meant /\ file = FirstLines(cli.cfg, cli.line)
          /\ saved = NoKey

\* A create-key has the operator's settings from when it has read the file to when it
\* has written it.
EditsInv ==
    /\ IsConfig(edited)
    /\ EditsKept
    /\ \A o \in Options : edited[o] # Missing =>
          /\ file # NoFile
          /\ cli.pc = "write" => cli.cfg[o] = edited[o]
          /\ /\ cli.pc \in {"create", "save"} /\ cli.key # NoKey
             /\ o \notin {"Key", "KeyringBackend"}
             => cli.cfg[o] = edited[o]

\* What a starting daemon has read is part of some whole configuration, and has a timeout
\* once it gets past the Babylon client.
DaemonInv ==
    /\ daemon = [pc |-> daemon.pc, cfg |-> daemon.cfg, key |-> daemon.key, whole |-> daemon.whole]
    /\ daemon.pc \in {"down", "loaded", "logging", "connected", "running"}
    /\ daemon.pc # "down" =>
          daemon.cfg = Parsed(daemon.cfg) /\ Agrees(daemon.cfg, daemon.whole)
    /\ daemon.pc \in {"connected", "running"} => daemon.cfg["Timeout"] # 0
    /\ RunsWithWholeConfig

\* The inductive invariant, with the types: the promises of the writers of the file
\* (init, create-key, the operator) and of its reader (start).
Inv == FileInv /\ CliInv /\ DaemonInv /\ EditsInv

=============================================================================
