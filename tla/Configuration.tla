---------------------------- MODULE Configuration ----------------------------
(***************************************************************************)
(* RunMode::parse (src/config.rs): what the program is to do, from the     *)
(* command line and the configuration file.                                *)
(*                                                                         *)
(* A command line is a record: replay (the subcommand), target (whether    *)
(* there is one), flags (those given) and numbers (a function on those     *)
(* given).  A file is a record: status ("absent", "unreadable",            *)
(* "malformed" or "toml") and sections, a function from the sections       *)
(* present to functions from the settings present.  --no-buffer goes by    *)
(* the name of its setting, passthrough.                                   *)
(***************************************************************************)
EXTENDS Integers

Flags == {"passthrough", "adaptive", "predict", "stats", "reconnect"}

\* Flags of the command line that have no place in the file.
CliFlags == Flags \cup {"verbose", "record"}

\* The numbers, and what they are when nothing says otherwise.
BuiltIn ==
    [flush_interval_ms |-> 20, max_size |-> 512,
     reconnect_timeout_ms |-> 10000, reconnect_initial_delay_ms |-> 100,
     reconnect_max_delay_ms |-> 2000]

Numbers == DOMAIN BuiltIn

Section(setting) ==
    CASE setting \in {"flush_interval_ms", "max_size", "passthrough", "adaptive"}
                                             -> "proxy"
      [] setting \in {"predict", "stats"}    -> "display"
      [] OTHER                               -> "persistence"

InFile(sections, setting) ==
    /\ Section(setting) \in DOMAIN sections
    /\ setting \in DOMAIN sections[Section(setting)]

Setting(sections, setting) == sections[Section(setting)][setting]

\* The command line comes first, then the file.
Number(cli, sections, n) ==
    CASE n \in DOMAIN cli.numbers -> cli.numbers[n]
      [] n \notin DOMAIN cli.numbers /\ InFile(sections, n) -> Setting(sections, n)
      [] OTHER -> BuiltIn[n]

Flag_Present(cli, sections, f) == f \in cli.flags \/ InFile(sections, f)

\* Either enables; a flag of the command line cannot disable.
Flag(cli, sections, f) ==
    f \in cli.flags \/ (InFile(sections, f) /\ Setting(sections, f))

\* The Config, but for target, extra_ssh_args and config_path.
ConfigOf(cli, sections) ==
    LET number(n) == Number(cli, sections, n)
        flag(f) == Flag(cli, sections, f)
    IN  [buffer |-> [flush_interval_ms |-> number("flush_interval_ms"),
                     max_size |-> number("max_size"),
                     passthrough |-> flag("passthrough"),
                     adaptive |-> flag("adaptive")],
         show_stats |-> flag("stats"),
         verbose |-> "verbose" \in cli.flags,
         predict |-> flag("predict"),
         record |-> "record" \in cli.flags,
         persistence |-> [reconnect |-> flag("reconnect"),
                          timeout |-> number("reconnect_timeout_ms"),
                          initial_delay |-> number("reconnect_initial_delay_ms"),
                          max_delay |-> number("reconnect_max_delay_ms")]]

\* load_file_config: a file that is not there is an empty one.
Loads(file) == file.status \in {"absent", "toml"}

\* RunMode::parse
RunMode(cli, file) ==
    CASE cli.replay -> "replay"
      [] ~cli.replay /\ cli.target /\ Loads(file) -> "proxy"
      [] OTHER -> "error"

-----------------------------------------------------------------------------
\* The other places that state the defaults.

\* BufferConfig::default
DefaultBuffer ==
    [flush_interval_ms |-> 20, max_size |-> 512, passthrough |-> FALSE,
     adaptive |-> FALSE]

\* PersistenceConfig::default
DefaultPersistence ==
    [reconnect |-> FALSE, timeout |-> 10000, initial_delay |-> 100,
     max_delay |-> 2000]

Nothing == [x \in {} |-> 0]

\* The three places agree.
ASSUME DefaultsAgree ==
    LET bare == [replay |-> FALSE, target |-> TRUE, flags |-> {},
                 numbers |-> Nothing]
        config == ConfigOf(bare, Nothing)
    IN  config.buffer = DefaultBuffer /\ config.persistence = DefaultPersistence

=============================================================================
