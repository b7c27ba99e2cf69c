----------------------------- MODULE CovdProofs -----------------------------
(***************************************************************************)
(* Proofs for Covd.                                                         *)
(***************************************************************************)
EXTENDS Covd, TLAPS

\* The backends that a leaf without one is tried with, and their time in seconds.
USE SMTT(20), ZenonT(20)

\* The lines are those of the options, one for each.
LEMMA Lines ==
    /\ Len(OptionOrder) = 19
    /\ \A o \in Options : LineOf(o) \in 1..19 /\ OptionOrder[LineOf(o)] = o
    /\ \A i \in 1..19 : OptionOrder[i] \in Options /\ LineOf(OptionOrder[i]) = i
<1>1. Len(OptionOrder) = 19 /\ DOMAIN OptionOrder = 1..19
  BY DEF OptionOrder
<1>2. ASSUME NEW o \in Options
      PROVE  LineOf(o) \in 1..19 /\ OptionOrder[LineOf(o)] = o
  <2>1. \E i \in DOMAIN OptionOrder : OptionOrder[i] = o
    BY DEF Options
  <2> QED  BY <1>1, <2>1 DEF LineOf
<1>3. \A i, j \in 1..19 : OptionOrder[i] = OptionOrder[j] => i = j
  BY DEF OptionOrder
<1>4. \A i \in 1..19 : OptionOrder[i] \in Options
  BY <1>1 DEF Options
<1> QED  BY <1>1, <1>2, <1>3, <1>4

\* The options that the commands look at.
LEMMA OptionNames ==
    {"LogLevel", "BitcoinNetwork", "Key", "KeyringBackend", "KeyDirectory", "Timeout"}
        \subseteq Options
<1>1. /\ OptionOrder[1] = "LogLevel" /\ OptionOrder[5] = "BitcoinNetwork"
      /\ OptionOrder[6] = "Key" /\ OptionOrder[11] = "KeyringBackend"
      /\ OptionOrder[14] = "KeyDirectory" /\ OptionOrder[16] = "Timeout"
  BY DEF OptionOrder
<1> QED  BY <1>1, Lines

\* WriteLine adds one line to a file that holds the first lines.
LEMMA OneMoreLine ==
    ASSUME NEW cfg, NEW n \in 0..18
    PROVE  [FirstLines(cfg, n) EXCEPT ![OptionOrder[n + 1]] = cfg[OptionOrder[n + 1]]]
             = FirstLines(cfg, n + 1)
<1>1. \A o \in Options : LineOf(o) <= n + 1 <=> LineOf(o) <= n \/ o = OptionOrder[n + 1]
  BY Lines
<1>2. \A o \in Options : o = OptionOrder[n + 1] => LineOf(o) = n + 1
  BY Lines
<1> QED  BY <1>1, <1>2, Zenon DEF FirstLines

\* A file with all its lines is the configuration.
LEMMA AllLines ==
    ASSUME NEW cfg, IsConfig(cfg)
    PROVE  FirstLines(cfg, 19) = cfg
BY Lines DEF FirstLines, IsConfig

\* The configurations that the code builds give every option a value.
LEMMA AreConfigs ==
    /\ IsConfig(ZeroConfig)
    /\ IsConfig(DefaultConfigWithHomePath)
    /\ \A f : IsConfig(Parsed(f))
    /\ \A cfg, n : IsConfig(FirstLines(cfg, n))
<1>1. IsConfig(ZeroConfig)
  BY Zenon DEF IsConfig, ZeroConfig
<1>2. IsConfig(DefaultConfigWithHomePath)
  BY Zenon DEF IsConfig, DefaultConfigWithHomePath
<1>3. \A f : IsConfig(Parsed(f))
  BY Zenon DEF IsConfig, Parsed
<1>4. \A cfg, n : IsConfig(FirstLines(cfg, n))
  BY Zenon DEF IsConfig, FirstLines
<1> QED  BY <1>1, <1>2, <1>3, <1>4, Zenon

\* Saving and loading a configuration that was loaded does not change it.
LEMMA ParsedTwice == \A f : Parsed(Parsed(f)) = Parsed(f)
BY Zenon DEF Parsed

\* What is parsed of an option depends on its line only.
LEMMA ParsedOption ==
    ASSUME NEW f, NEW g, NEW o \in Options, f[o] = g[o]
    PROVE  Parsed(f)[o] = Parsed(g)[o]
BY Zenon DEF Parsed

\* A file that lacks a line up to Timeout lacks the line of Timeout: a part of a
\* configuration agrees with whatever the configuration agrees with.
LEMMA PartAgrees ==
    ASSUME NEW cfg, NEW whole, NEW n \in Nat, Agrees(cfg, whole)
    PROVE  Agrees(FirstLines(cfg, n), whole)
<1> DEFINE part == FirstLines(cfg, n)
<1> SUFFICES ASSUME Parsed(part)["Timeout"] # 0, NEW o \in Options, UpToTimeout(o)
             PROVE  Parsed(part)[o] = Parsed(whole)[o]
  BY Zenon DEF Agrees
<1>1. ZeroConfig["Timeout"] = 0
  BY OptionNames DEF ZeroConfig
<1>2. part["Timeout"] # Missing
  BY <1>1, OptionNames DEF Parsed
<1>3. LineOf("Timeout") <= n
  BY <1>2, OptionNames, Zenon DEF FirstLines
<1>4. LineOf(o) <= n
  BY <1>3, Lines, OptionNames DEF UpToTimeout
<1>5. part[o] = cfg[o] /\ part["Timeout"] = cfg["Timeout"]
  BY <1>3, <1>4, OptionNames, Zenon DEF FirstLines
<1> HIDE DEF part
<1>6. Parsed(part)[o] = Parsed(cfg)[o] /\ Parsed(part)["Timeout"] = Parsed(cfg)["Timeout"]
  BY <1>5, OptionNames, ParsedOption
<1> QED  BY <1>6, Zenon DEF Agrees

\* Agreement is about what is parsed.
LEMMA ParsedAgrees ==
    ASSUME NEW cfg, NEW whole, Agrees(cfg, whole)
    PROVE  Agrees(Parsed(cfg), whole)
BY ParsedTwice, Zenon DEF Agrees

\* Giving both the names of the same key keeps the agreement.
LEMMA KeyAgrees ==
    ASSUME NEW cfg, NEW whole, NEW key, IsConfig(cfg), IsConfig(whole), Agrees(cfg, whole)
    PROVE  /\ Agrees(WithKey(cfg, key), WithKey(whole, key))
           /\ IsConfig(WithKey(cfg, key)) /\ IsConfig(WithKey(whole, key))
           /\ WithKey(cfg, key)["Key"] = key[3] /\ WithKey(cfg, key)["KeyringBackend"] = key[2]
<1> DEFINE c == WithKey(cfg, key)
           w == WithKey(whole, key)
<1>1. IsConfig(c) /\ IsConfig(w)
  BY Zenon DEF WithKey, IsConfig
<1>2. c["Key"] = key[3] /\ c["KeyringBackend"] = key[2]
  BY OptionNames DEF WithKey, IsConfig
<1>3. \A o \in Options : IF o \in {"Key", "KeyringBackend"} THEN c[o] = w[o]
                        ELSE c[o] = cfg[o] /\ w[o] = whole[o]
  BY OptionNames DEF WithKey, IsConfig
<1> HIDE DEF c, w
<1>4. Parsed(c)["Timeout"] = Parsed(cfg)["Timeout"]
  BY <1>3, OptionNames, ParsedOption
<1>5. ASSUME NEW o \in Options
      PROVE  \/ Parsed(c)[o] = Parsed(w)[o]
             \/ Parsed(c)[o] = Parsed(cfg)[o] /\ Parsed(w)[o] = Parsed(whole)[o]
  <2>1. CASE o \in {"Key", "KeyringBackend"}
    <3>1. c[o] = w[o]
      BY <1>3, <2>1
    <3> QED  BY <3>1, ParsedOption, Zenon
  <2>2. CASE o \notin {"Key", "KeyringBackend"}
    <3>1. c[o] = cfg[o] /\ w[o] = whole[o]
      BY <1>3, <2>2
    <3> QED  BY <3>1, ParsedOption, Zenon
  <2> QED  BY <2>1, <2>2
<1>6. Agrees(c, w)
  BY <1>4, <1>5 DEF Agrees
<1> QED  BY <1>1, <1>2, <1>6 DEF c, w

\* A file with content exists.
LEMMA ContentExists == \A f : IsConfig(f) => f # NoFile
<1>1. DOMAIN NoFile = {}
  BY DEF NoFile
<1>2. \A f : IsConfig(f) => DOMAIN f = Options
  BY DEF IsConfig
<1> QED  BY <1>1, <1>2, OptionNames

\* A step of a command that sets one field leaves the others alone.
LEMMA CliFields ==
    ASSUME cli = Cli
    PROVE  /\ \A v : LET c == [cli EXCEPT !.pc = v]
                    IN  /\ c.pc = v /\ c.cfg = cli.cfg /\ c.meant = cli.meant
                        /\ c.key = cli.key /\ c.line = cli.line
                        /\ c = [pc |-> c.pc, cfg |-> c.cfg, meant |-> c.meant, key |-> c.key,
                                line |-> c.line]
           /\ \A v : LET c == [cli EXCEPT !.line = v]
                    IN  /\ c.pc = cli.pc /\ c.cfg = cli.cfg /\ c.meant = cli.meant
                        /\ c.key = cli.key /\ c.line = v
                        /\ c = [pc |-> c.pc, cfg |-> c.cfg, meant |-> c.meant, key |-> c.key,
                                line |-> c.line]
BY DEF Cli

\* A key that is named stays named as long as no key is removed.
LEMMA NamedStays ==
    ASSUME keys \subseteq keys'
    PROVE  \A cfg, key : NamesKey(cfg, key) => NamesKey(cfg, key)'
BY DEF NamesKey

-----------------------------------------------------------------------------
\* The initial state: nothing exists and nothing runs.
LEMMA InitInv == Init => Inv
<1> SUFFICES ASSUME Init PROVE Inv
  OBVIOUS
<1>1. FileInv
  BY Zenon DEF Init, FileInv
<1>2. CliInv
  BY AreConfigs DEF Init, CliInv, Cli, Idle
<1>3. DaemonInv
  BY DEF Init, DaemonInv, Down, RunsWithWholeConfig
<1>4. EditsInv
  BY DEF Init, EditsInv, EditsKept, IsConfig, Unedited
<1> QED  BY <1>1, <1>2, <1>3, <1>4 DEF Inv

\* The steps of start change nothing but the daemon.
LEMMA StartInv ==
    ASSUME Inv,
           StartLoads \/ NewRootLogger \/ NewBabylonController \/ NewCovenantEmulator
             \/ StartReturns
    PROVE  (FileInv /\ CliInv /\ DaemonInv)'
<1>1. UNCHANGED <<home, file, keys, cli, intended, saved>>
  BY Zenon DEF StartLoads, NewRootLogger, NewBabylonController, NewCovenantEmulator, StartReturns
<1>2. FileInv'
  BY <1>1 DEF Inv, FileInv, NamesKey
<1>3. CliInv'
  BY <1>1 DEF Inv, CliInv, Cli, NamesKey
<1>4. DaemonInv'
  <2>1. CASE StartLoads
    <3>1. Agrees(Parsed(file), intended)
      BY <2>1, ParsedAgrees, Zenon DEF StartLoads, Loads, FileExists, Inv, FileInv
    <3>2. /\ daemon' = [pc |-> "loaded", cfg |-> Parsed(file),
                        key |-> daemon.key, whole |-> intended]
      BY <2>1, Zenon DEF StartLoads, Inv, DaemonInv
    <3> QED  BY <3>1, <3>2, ParsedTwice DEF DaemonInv, RunsWithWholeConfig
  <2>2. CASE NewRootLogger
    BY <2>2 DEF NewRootLogger, Inv, DaemonInv, RunsWithWholeConfig
  <2>3. CASE NewBabylonController
    <3>1. daemon.cfg["Timeout"] # 0
      BY <2>3 DEF NewBabylonController, ClientConfigValid
    <3> QED  BY <2>3, <3>1 DEF NewBabylonController, Inv, DaemonInv, RunsWithWholeConfig
  <2>4. CASE NewCovenantEmulator
    <3>1. /\ daemon.pc = "connected" /\ daemon.cfg["Timeout"] # 0
          /\ daemon.cfg = Parsed(daemon.cfg) /\ Agrees(daemon.cfg, daemon.whole)
      BY <2>4, Zenon DEF NewCovenantEmulator, Inv, DaemonInv
    <3>2. \A o \in Options : UpToTimeout(o) => daemon.cfg[o] = Parsed(daemon.whole)[o]
      BY <3>1, Zenon DEF Agrees
    <3>4. /\ daemon'.pc = "running"
          /\ daemon'.cfg = daemon.cfg
          /\ daemon'.whole = daemon.whole
          /\ daemon' = [pc |-> daemon'.pc, cfg |-> daemon'.cfg, key |-> daemon'.key,
                        whole |-> daemon'.whole]
      BY <2>4, Zenon DEF NewCovenantEmulator, Inv, DaemonInv
    <3> QED  BY <3>1, <3>2, <3>4, Zenon DEF DaemonInv, RunsWithWholeConfig
  <2>5. CASE StartReturns
    BY <2>5 DEF StartReturns, Down, DaemonInv, RunsWithWholeConfig
  <2> QED  BY <2>1, <2>2, <2>3, <2>4, <2>5
<1> QED  BY <1>2, <1>3, <1>4 DEF Inv

\* The steps of init and create-key before the file is touched.
LEMMA PrepareInv ==
    ASSUME Inv,
           \/ \E force \in BOOLEAN : InitHome(force)
           \/ \E name \in KeyNames, backend \in Backends : CreateKeyLoads(name, backend)
           \/ CreateKeyStores
           \/ Interrupted
    PROVE  (FileInv /\ CliInv /\ DaemonInv)'
<1>1. UNCHANGED <<file, daemon, intended, saved>> /\ keys \subseteq keys'
  BY Zenon DEF InitHome, MakeDirectory, CreateKeyLoads, CreateKeyStores, CreateCovenantKey,
     CreateChainKey, Interrupted
<1>2. DaemonInv'
  BY <1>1 DEF Inv, DaemonInv, RunsWithWholeConfig
<1>4. (home \in BOOLEAN)'
  <2>1. home' = TRUE \/ UNCHANGED home
    BY Zenon DEF InitHome, MakeDirectory, CreateKeyLoads, CreateKeyStores, CreateCovenantKey,
     CreateChainKey, Interrupted
  <2> QED  BY <2>1, Zenon DEF Inv, FileInv
<1>5. FileInv'
  BY <1>1, <1>4, NamedStays DEF Inv, FileInv
<1>6. CliInv'
  <2>1. CASE \E force \in BOOLEAN : InitHome(force)
    <3>1. /\ cli' = [pc |-> "save", cfg |-> DefaultConfigWithHomePath,
                     meant |-> DefaultConfigWithHomePath, key |-> NoKey, line |-> 0]
      BY <2>1, Zenon DEF InitHome, Inv, CliInv, Cli
    <3>2. Agrees(DefaultConfigWithHomePath, DefaultConfigWithHomePath)
      BY Zenon DEF Agrees
    <3> QED  BY <3>1, <3>2, AreConfigs DEF CliInv, Cli
  <2>2. CASE \E name \in KeyNames, backend \in Backends : CreateKeyLoads(name, backend)
    <3>1. PICK name \in KeyNames, backend \in Backends : CreateKeyLoads(name, backend)
      BY <2>2
    <3>2. /\ cli' = [pc |-> "create", cfg |-> Parsed(file), meant |-> intended,
                     key |-> KeyAt(Home, backend, name), line |-> 0]
      BY <3>1, DirsAssumption DEF CreateKeyLoads, KeyringDir, Inv, CliInv, Cli
    <3>3. IsConfig(intended) /\ Agrees(Parsed(file), intended)
      BY <3>1, ParsedAgrees, Zenon DEF CreateKeyLoads, Loads, FileExists, Inv, FileInv
    <3> QED  BY <3>2, <3>3, AreConfigs DEF CliInv, Cli
  <2>3. CASE CreateKeyStores
    <3>1. PICK backend \in Backends, name \in KeyNames : cli.key = KeyAt(Home, backend, name)
      BY <2>3 DEF CreateKeyStores, Inv, CliInv
    <3>2. cli.key[2] = backend /\ cli.key[3] = name
      BY <3>1 DEF KeyAt
    <3> DEFINE cfg == WithKey(cli.cfg, cli.key)
               meant == WithKey(cli.meant, cli.key)
    <3>a. IsConfig(cli.cfg) /\ IsConfig(cli.meant) /\ Agrees(cli.cfg, cli.meant)
      BY <2>3 DEF CreateKeyStores, Inv, CliInv
    <3>3. /\ IsConfig(cfg) /\ IsConfig(meant) /\ Agrees(cfg, meant)
          /\ cfg["Key"] = name
          /\ cfg["KeyringBackend"] = backend
      BY <3>2, <3>a, KeyAgrees
    <3>4. /\ cli' = [pc |-> "save", cfg |-> cfg, meant |-> meant, key |-> cli.key, line |-> 0]
          /\ cli.key \in keys' /\ name # "" /\ backend # ""
      BY <2>3, <3>2 DEF CreateKeyStores, CreateCovenantKey, CreateChainKey,
         NewChainKeyringController, Inv, CliInv, Cli
    <3> HIDE DEF cfg, meant
    <3>5. cli'.pc = "save" /\ cli'.cfg = cfg /\ cli'.meant = meant /\ cli'.key = cli.key /\ cli'.line = 0
      BY <3>4
    <3>6. NamesKey(cli.cfg, cli.key)'
      BY <3>1, <3>3, <3>4, <3>5 DEF NamesKey
    <3> QED  BY <3>3, <3>4, <3>5, <3>6 DEF CliInv, Cli
  <2>4. CASE Interrupted
    BY <2>4, AreConfigs DEF Interrupted, Idle, CliInv, Cli
  <2> QED  BY <2>1, <2>2, <2>3, <2>4
<1> QED  BY <1>2, <1>5, <1>6, Zenon DEF Inv

\* The steps that write the file. A line that create-key writes is one of a whole
\* configuration that names its key; truncating and editing end what was saved.
LEMMA WriteInv ==
    ASSUME Inv, CreateFile \/ WriteLine \/ FileWritten \/ \E e \in Edits : Edit(e[1], e[2])
    PROVE  (FileInv /\ CliInv /\ DaemonInv)'
<1>1. UNCHANGED <<home, keys, daemon>>
  BY DEF CreateFile, WriteLine, FileWritten, Edit
<1>2. DaemonInv'
  BY <1>1 DEF Inv, DaemonInv, RunsWithWholeConfig
<1>3. (home \in BOOLEAN)'
  BY <1>1 DEF Inv, FileInv
<1>4. CASE CreateFile
  <2>1. /\ cli' = [cli EXCEPT !.pc = "write"]
        /\ cli.line = 0 /\ cli'.line = 0
        /\ cli'.pc = "write" /\ cli'.cfg = cli.cfg /\ cli'.key = cli.key
        /\ cli'.meant = cli.meant /\ cli' = Cli'
        /\ IsConfig(cli.cfg) /\ IsConfig(cli.meant) /\ Agrees(cli.cfg, cli.meant)
        /\ cli.key # NoKey => NamesKey(cli.cfg, cli.key)
    <3>1. /\ cli = Cli /\ cli.line = 0 /\ cli.pc = "save"
          /\ IsConfig(cli.cfg) /\ IsConfig(cli.meant) /\ Agrees(cli.cfg, cli.meant)
          /\ cli.key # NoKey => NamesKey(cli.cfg, cli.key)
      BY <1>4 DEF CreateFile, Inv, CliInv
    <3>2. cli' = [cli EXCEPT !.pc = "write"]
      BY <1>4, Zenon DEF CreateFile
    <3> QED  BY <3>1, <3>2, CliFields DEF Cli
  <2>2. file' = FirstLines(cli.cfg, 0) /\ intended' = cli.meant /\ saved' = NoKey
    BY <1>4 DEF CreateFile
  <2>3. IsConfig(file') /\ file' # NoFile
    BY <2>2, AreConfigs, ContentExists
  <2>4. FileInv'
    <3>1. Agrees(file', intended')
      BY <2>1, <2>2, PartAgrees
    <3> QED  BY <1>3, <2>1, <2>2, <2>3, <3>1 DEF FileInv
  <2>5. CliInv'
    <3>1. cli'.line \in 0..Len(OptionOrder)
      BY <2>1, Lines
    <3>2. cli'.key # NoKey => NamesKey(cli.cfg, cli.key)'
      BY <1>1, <2>1 DEF NamesKey
    <3> QED  BY <2>1, <2>2, <2>3, <3>1, <3>2, Zenon DEF CliInv, Agrees
  <2> QED  BY <1>2, <2>4, <2>5 DEF Inv
<1>5. CASE WriteLine
  <2>1. /\ cli.pc = "write" /\ cli.line \in 0..18
        /\ cli'.pc = "write" /\ cli'.cfg = cli.cfg /\ cli'.key = cli.key
        /\ cli'.line = cli.line + 1
        /\ cli'.meant = cli.meant /\ cli' = Cli'
        /\ IsConfig(cli.cfg) /\ IsConfig(cli.meant) /\ Agrees(cli.cfg, cli.meant)
        /\ cli.key # NoKey => NamesKey(cli.cfg, cli.key)
        /\ intended = cli.meant /\ file = FirstLines(cli.cfg, cli.line)
    <3>1. cli = Cli /\ cli.pc = "write" /\ cli.line < 19
      BY <1>5, Lines DEF WriteLine, Inv, CliInv
    <3>2. /\ cli.line \in 0..19
          /\ IsConfig(cli.cfg) /\ IsConfig(cli.meant) /\ Agrees(cli.cfg, cli.meant)
          /\ cli.key # NoKey => NamesKey(cli.cfg, cli.key)
          /\ intended = cli.meant /\ file = FirstLines(cli.cfg, cli.line)
      BY <3>1, Lines DEF Inv, CliInv
    <3>3. cli' = [cli EXCEPT !.line = cli.line + 1]
      BY <1>5, Zenon DEF WriteLine
    <3>4. cli.line \in 0..18
      BY <3>1, <3>2
    <3> QED  BY <3>1, <3>2, <3>3, <3>4, CliFields DEF Cli
  <2>2. file' = FirstLines(cli.cfg, cli.line + 1) /\ intended' = cli.meant /\ saved' = saved
    <3>1. [FirstLines(cli.cfg, cli.line) EXCEPT
              ![OptionOrder[cli.line + 1]] = cli.cfg[OptionOrder[cli.line + 1]]]
            = FirstLines(cli.cfg, cli.line + 1)
      BY <2>1, OneMoreLine, Zenon
    <3>2. file' = [FirstLines(cli.cfg, cli.line) EXCEPT
                      ![OptionOrder[cli.line + 1]] = cli.cfg[OptionOrder[cli.line + 1]]]
      BY <1>5, <2>1 DEF WriteLine
    <3> QED  BY <1>5, <2>1, <3>1, <3>2 DEF WriteLine
  <2>3. IsConfig(file') /\ file' # NoFile
    BY <2>2, AreConfigs, ContentExists
  <2>4. saved = NoKey
    BY <2>1 DEF Inv, CliInv
  <2>5. FileInv'
    <3>1. Agrees(file', intended')
      BY <2>1, <2>2, PartAgrees
    <3> QED  BY <1>3, <2>1, <2>2, <2>3, <2>4, <3>1 DEF FileInv
  <2>6. CliInv'
    <3>1. cli'.line \in 0..Len(OptionOrder)
      BY <2>1, Lines
    <3>2. cli'.key # NoKey => NamesKey(cli.cfg, cli.key)'
      BY <1>1, <2>1 DEF NamesKey
    <3>3. IsConfig(cli'.cfg) /\ intended' = cli'.meant /\ file' = FirstLines(cli'.cfg, cli'.line)
      BY <2>1, <2>2
    <3> QED  BY <2>1, <2>2, <2>3, <2>4, <3>1, <3>2, <3>3, Zenon DEF CliInv, Agrees
  <2> QED  BY <1>2, <2>5, <2>6 DEF Inv
<1>6. CASE FileWritten
  <2>1. /\ UNCHANGED <<file, intended>> /\ saved' = cli.key
        /\ IsConfig(cli.cfg) /\ file # NoFile /\ file = FirstLines(cli.cfg, 19)
        /\ cli.key # NoKey => NamesKey(cli.cfg, cli.key)
    BY <1>6, Lines DEF FileWritten, Inv, CliInv
  <2>2. file = cli.cfg
    BY <2>1, AllLines
  <2>3. saved' # NoKey => NamesKey(file, saved)'
    BY <1>1, <2>1, <2>2 DEF NamesKey
  <2>4. FileInv'
    BY <1>3, <2>1, <2>3 DEF Inv, FileInv
  <2>5. CliInv'
    BY <1>6, AreConfigs DEF FileWritten, Idle, CliInv, Cli
  <2> QED  BY <1>2, <2>4, <2>5 DEF Inv
<1>7. CASE \E e \in Edits : Edit(e[1], e[2])
  <2>1. PICK e \in Edits : Edit(e[1], e[2])
    BY <1>7
  <2>2. /\ file' = [file EXCEPT ![e[1]] = e[2]] /\ intended' = file' /\ saved' = NoKey
        /\ cli.pc # "write" /\ cli' = cli /\ IsConfig(file)
    BY <2>1 DEF Edit, Inv, FileInv
  <2>3. IsConfig(file')
    BY <2>2 DEF IsConfig
  <2>4. Agrees(file', intended')
    BY <2>2, Zenon DEF Agrees
  <2>5. FileInv'
    BY <1>3, <2>2, <2>3, <2>4, Zenon DEF FileInv
  <2>6. CliInv'
    BY <1>1, <2>2, NamedStays DEF Inv, CliInv, Cli
  <2> QED  BY <1>2, <2>5, <2>6 DEF Inv
<1> QED  BY <1>4, <1>5, <1>6, <1>7

\* What the operator has set goes from the file to create-key and back.
LEMMA EditsStep ==
    ASSUME Inv, [Next]_vars
    PROVE  EditsInv'
<1> USE OptionNames
<1>a. /\ IsConfig(edited) /\ EditsKept /\ cli = Cli
      /\ IsConfig(cli.cfg) /\ (file # NoFile => IsConfig(file)) /\ IsConfig(Unedited)
  <2>1. IsConfig(Unedited)
    BY Zenon DEF IsConfig, Unedited
  <2> QED  BY <2>1, Zenon DEF Inv, EditsInv, CliInv, FileInv
<1>1. CASE UNCHANGED <<file, cli, edited>>
  BY <1>1 DEF Inv, EditsInv, EditsKept, IsConfig
<1>2. CASE edited' = Unedited
  BY <1>2 DEF EditsInv, EditsKept, IsConfig, Unedited
<1>3. CASE \E force \in BOOLEAN : InitHome(force)
  <2>1. UNCHANGED <<file, edited>> /\ cli.pc = "idle" /\ cli.key = NoKey
    BY <1>3 DEF InitHome, Inv, CliInv
  <2>2. cli'.pc = "save" /\ cli'.key = NoKey
    BY <1>a, <1>3, <2>1 DEF InitHome
  <2> QED  BY <1>a, <2>1, <2>2 DEF Inv, EditsInv, EditsKept, IsConfig
<1>4. CASE \E name \in KeyNames, backend \in Backends : CreateKeyLoads(name, backend)
  <2>1. UNCHANGED <<file, edited>> /\ cli.pc = "idle"
    BY <1>4 DEF CreateKeyLoads
  <2>2. cli'.pc = "create" /\ cli'.cfg = Parsed(file)
    BY <1>a, <1>4 DEF CreateKeyLoads
  <2>3. \A o \in Options : edited[o] # Missing => Parsed(file)[o] = edited[o]
    BY <1>a, <2>1 DEF EditsKept, Parsed
  <2> QED  BY <1>a, <2>1, <2>2, <2>3 DEF Inv, EditsInv, EditsKept, IsConfig
<1>5. CASE CreateKeyStores
  <2>1. UNCHANGED <<file, edited>> /\ cli.pc = "create"
    BY <1>5 DEF CreateKeyStores
  <2>2. cli'.pc = "save" /\ cli'.key = cli.key
        /\ \A o \in Options \ {"Key", "KeyringBackend"} : cli'.cfg[o] = cli.cfg[o]
    BY <1>a, <1>5 DEF CreateKeyStores, WithKey, IsConfig
  <2> QED  BY <1>a, <2>1, <2>2 DEF Inv, EditsInv, EditsKept, IsConfig
<1>6. CASE CreateFile
  <2>1. CASE cli.key = NoKey
    BY <1>2, <1>6, <2>1 DEF CreateFile
  <2>2. CASE cli.key # NoKey
    <3>1. /\ cli.pc = "save" /\ cli'.pc = "write" /\ cli'.cfg = cli.cfg
          /\ edited' = [edited EXCEPT !["Key"] = Missing, !["KeyringBackend"] = Missing]
          /\ file' # NoFile
      BY <1>a, <1>6, <2>2, AreConfigs, ContentExists DEF CreateFile
    <3>2. IsConfig(edited') /\ edited'["Key"] = Missing /\ edited'["KeyringBackend"] = Missing
      BY <1>a, <3>1, Zenon DEF IsConfig
    <3>3. \A o \in Options \ {"Key", "KeyringBackend"} : edited'[o] = edited[o]
      BY <1>a, <3>1 DEF IsConfig
    <3> QED  BY <2>2, <3>1, <3>2, <3>3, Zenon DEF Inv, EditsInv, EditsKept
  <2> QED  BY <2>1, <2>2
<1>7. CASE WriteLine
  <2>1. UNCHANGED edited /\ cli.pc = "write" /\ cli'.pc = "write" /\ cli'.cfg = cli.cfg
    BY <1>a, <1>7 DEF WriteLine
  <2>2. file' # NoFile
    <3>1. IsConfig(file)
      BY <1>a, <2>1 DEF Inv, CliInv
    <3>2. IsConfig(file')
      BY <1>7, <3>1 DEF WriteLine, IsConfig
    <3> QED  BY <3>2, ContentExists
  <2> QED  BY <1>a, <2>1, <2>2 DEF Inv, EditsInv, EditsKept, IsConfig
<1>8. CASE FileWritten
  <2>1. UNCHANGED <<file, edited>> /\ cli.pc = "write" /\ cli'.pc = "idle"
    BY <1>8 DEF FileWritten, Idle
  <2>2. file = cli.cfg
    BY <1>a, <1>8, Lines, AllLines DEF FileWritten, Inv, CliInv
  <2> QED  BY <1>a, <2>1, <2>2 DEF Inv, EditsInv, EditsKept, IsConfig
<1>9. CASE Interrupted
  <2>1. CASE cli.pc = "write"
    BY <1>2, <1>9, <2>1 DEF Interrupted
  <2>2. CASE cli.pc # "write"
    BY <1>a, <1>9, <2>2 DEF Interrupted, Idle, Inv, EditsInv, EditsKept, IsConfig
  <2> QED  BY <2>1, <2>2
<1>10. CASE \E e \in Edits : Edit(e[1], e[2])
  <2>1. PICK e \in Edits : Edit(e[1], e[2])
    BY <1>10
  <2> DEFINE option == e[1]
             value == IF cli.pc = "idle" THEN e[2] ELSE Missing
  <2>2. /\ UNCHANGED cli /\ cli.pc # "write" /\ IsConfig(file)
        /\ file' = [file EXCEPT ![option] = e[2]]
        /\ edited' = [edited EXCEPT ![option] = value]
    BY <1>a, <2>1 DEF Edit
  <2>3. IsConfig(edited') /\ IsConfig(file') /\ file' # NoFile /\ file # NoFile
    <3>1. IsConfig(edited') /\ IsConfig(file')
      BY <1>a, <2>2, Zenon DEF IsConfig
    <3> QED  BY <2>2, <3>1, ContentExists, Zenon
  <2>4. \A o \in Options : /\ o = option => file'[o] = e[2] /\ edited'[o] = value
                           /\ o # option => file'[o] = file[o] /\ edited'[o] = edited[o]
    BY <1>a, <2>2 DEF IsConfig
  <2>5. edited'[option] # Missing /\ option \in Options => cli.pc = "idle"
    BY <2>4
  <2> QED  BY <1>a, <2>2, <2>3, <2>4, <2>5 DEF Inv, EditsInv, EditsKept
<1>11. CASE StartLoads \/ NewRootLogger \/ NewBabylonController \/ NewCovenantEmulator
              \/ StartReturns \/ UNCHANGED vars
  BY <1>1, <1>11 DEF StartLoads, NewRootLogger, NewBabylonController, NewCovenantEmulator,
     StartReturns, vars
<1> QED
  BY <1>3, <1>4, <1>5, <1>6, <1>7, <1>8, <1>9, <1>10, <1>11 DEF Next

\* The invariant holds in every reachable state, for all names, backends and edits.
THEOREM Invariance == Spec => []Inv
<1>1. Inv /\ [Next]_vars => Inv'
  <2> SUFFICES ASSUME Inv, [Next]_vars PROVE Inv'
    OBVIOUS
  <2>1. EditsInv'
    BY EditsStep
  <2>2. CASE UNCHANGED vars
    BY <2>1, <2>2 DEF vars, Inv, FileInv, CliInv, Cli, DaemonInv, RunsWithWholeConfig, NamesKey
  <2>3. CASE Next
    <3>1. (FileInv /\ CliInv /\ DaemonInv)'
      BY <2>3, StartInv, PrepareInv, WriteInv DEF Next
    <3> QED  BY <2>1, <3>1 DEF Inv
  <2> QED  BY <2>2, <2>3
<1> QED  BY InitInv, <1>1, PTL DEF Spec

\* start never gets to run on a file that was written in part.
THEOREM WholeConfigSafe == Spec => []RunsWithWholeConfig
<1>1. Inv => RunsWithWholeConfig
  BY DEF Inv, DaemonInv
<1> QED  BY <1>1, Invariance, PTL

\* The key that create-key has saved is found by the file it has written.
THEOREM SavedKeySafe == Spec => []SavedKeyFound
<1>1. Inv => SavedKeyFound
  <2> SUFFICES ASSUME Inv, saved # NoKey, file["KeyDirectory"] = Home
               PROVE  KeyFor(Parsed(file)) = saved
    BY DEF SavedKeyFound
  <2>1. NamesKey(file, saved)
    BY DEF Inv, FileInv
  <2>2. /\ Parsed(file)["Key"] = file["Key"]
        /\ Parsed(file)["KeyringBackend"] = file["KeyringBackend"]
        /\ Parsed(file)["KeyDirectory"] = Home
    BY <2>1, OptionNames, NamesAssumption, DirsAssumption DEF Parsed, NamesKey,
       DefaultConfigWithHomePath
  <2> QED  BY <2>1, <2>2, DirsAssumption DEF KeyFor, KeyringDir, NamesKey, CreateKeyring,
     NewChainKeyringControllerWithKeyring
<1> QED  BY <1>1, Invariance, PTL

\* What the operator has set survives create-key, however often it runs or fails.
THEOREM EditsSafe == Spec => []EditsKept
<1>1. Inv => EditsKept
  BY DEF Inv, EditsInv
<1> QED  BY <1>1, Invariance, PTL

=============================================================================
