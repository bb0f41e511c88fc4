------------------------------ MODULE Drivers -------------------------------
(***************************************************************************)
(* The two programs of drivers/: the server (main.cpp) and the command     *)
(* line client (cli.cpp), started in one environment, with SIGINT arriving *)
(* at either of them at any moment.  common/env.hpp, common/interrupts.hpp *)
(* and networking::init are the parts they share.                          *)
(*                                                                         *)
(* Texts are atomic; what the code finds out about them (the number stoi   *)
(* reads, the part after "--host=") is given by constants.  The calls of   *)
(* the client library, modelled step by step in module Bus, are one step   *)
(* each here: they succeed or throw.                                       *)
(***************************************************************************)
EXTENDS Integers, Sequences, FiniteSetsExt

CONSTANTS
  Argvs,              \* command lines, without the program's name
  EnvHosts, EnvPorts, \* values of SPRAYBUS_HOST and SPRAYBUS_PORT, Unset included
  Unset,
  HostIs, PortIs,     \* "--host=x" |-> "x", "--port=n" |-> "n"
  Numerals,           \* texts stoi accepts |-> [value, whole: was all of it read?]
  Resolvable,         \* host names that have an address
  ServerHost,         \* the name of the host the server runs on
  MaxPending          \* bound: events waiting in the server's ENet host

ASSUME DriversAssumption ==
  /\ Unset \in EnvHosts /\ Unset \in EnvPorts
  /\ Argvs \subseteq Seq(STRING)
  /\ Numerals \in [DOMAIN Numerals -> [value: Int, whole: BOOLEAN]]
  /\ {"6767"} \subseteq DOMAIN Numerals
  /\ ServerHost \in Resolvable
  /\ MaxPending \in Nat \ {0}

VARIABLES
  env,                \* SPRAYBUS_HOST and SPRAYBUS_PORT
  server,             \* where the server program is
  server_port,        \* the port its host is bound to
  pending,            \* events its ENet host has ready
  busy,               \* are other programs sending to it?
  cli,                \* where the command line client is
  argv, i,            \* its command line, and parse_options' index into it
  options,            \* Options
  from_args,          \* host_from_args and port_from_args
  code,               \* its exit code
  did,                \* history: what it has got done
  should_run,         \* program -> the flag of interrupts_impl
  interrupted         \* history: the programs that were sent SIGINT

serverVars == <<server, server_port, pending>>
parserVars == <<argv, i, options, from_args>>
vars == <<env, serverVars, busy, cli, parserVars, code, did, should_run, interrupted>>

Programs == {"server", "cli"}

(* Before main runs; the flags are static data.                            *)
DriversInit ==
  /\ env \in [host: EnvHosts, port: EnvPorts]
  /\ server = "start" /\ server_port = 0 /\ pending = 0
  /\ busy \in BOOLEAN
  /\ cli = "parse"
  /\ argv \in Argvs /\ i = 1
  /\ options = [host |-> "localhost", port |-> 6767, command |-> "", args |-> <<>>]
  /\ from_args = [host |-> FALSE, port |-> FALSE]
  /\ code = 0 /\ did = "nothing"
  /\ should_run = [p \in Programs |-> TRUE]
  /\ interrupted = {}

get_env_or(value, default) == IF value = Unset THEN default ELSE value

-----------------------------------------------------------------------------
(* main.cpp.                                                               *)

PortRange == 0 .. 65535

(* Mutant: the environment is not consulted.                               *)
ServerPortText_Default == "6767"

ServerPortText == get_env_or(env.port, "6767")

(* stoi, which takes a number followed by anything, then init and the      *)
(* constructor of Server, which checks the range and binds the port.  Any  *)
(* exception leaves main.                                                  *)
StartServer ==
  /\ server = "start"
  /\ \/ /\ ServerPortText \in DOMAIN Numerals
        /\ Numerals[ServerPortText].value \in PortRange
        /\ server' = "bound"
        /\ server_port' = Numerals[ServerPortText].value
     \/ server' = "aborted" /\ UNCHANGED server_port
  /\ UNCHANGED <<env, pending, busy, cli, parserVars, code, did, should_run, interrupted>>

(* run_forever: setup, then the test of should_run before every process(). *)
SetupServer == server = "bound" /\ server' = "loop" /\ UNCHANGED pending
EnterProcess == server = "loop" /\ should_run["server"] /\ server' = "process" /\ UNCHANGED pending
LeaveLoop == server = "loop" /\ ~should_run["server"] /\ server' = "exited" /\ UNCHANGED pending

(* Mutant: what enet_host_service returns is not compared with 0.          *)
EventReady_Unchecked == TRUE

EventReady == pending > 0

(* process: one event after the other until none is ready.                 *)
HandleEvent ==
  /\ server = "process" /\ EventReady
  /\ pending' = pending - 1
  /\ UNCHANGED server

(* Mutant: process waits for an event instead of returning.                *)
NoEvent_Blocks == FALSE

NoEvent == pending = 0

LeaveProcess == server = "process" /\ NoEvent /\ server' = "loop" /\ UNCHANGED pending

ServerStep ==
  /\ SetupServer \/ EnterProcess \/ LeaveLoop \/ HandleEvent \/ LeaveProcess
  /\ UNCHANGED <<env, server_port, busy, cli, parserVars, code, did, should_run, interrupted>>

Serving == server \in {"loop", "process"}

(* Other programs: events of theirs, and that they fall silent or start    *)
(* again.  (The few events the command line client causes are not told     *)
(* from theirs.)                                                           *)
Traffic ==
  /\ \/ busy /\ Serving /\ pending < MaxPending /\ pending' = pending + 1 /\ UNCHANGED busy
     \/ busy' = ~busy /\ UNCHANGED pending
  /\ UNCHANGED <<env, server, server_port, cli, parserVars, code, did, should_run, interrupted>>

-----------------------------------------------------------------------------
(* cli.cpp: parse_options.                                                 *)

Exit(with) == cli' = "exited" /\ code' = with

(* An exception ends in main's handler.                                    *)
Throw == Exit(1)

(* parse_port accepts the text; the value is Numerals[text].value.         *)
ValidPort(text) ==
  text \in DOMAIN Numerals /\ Numerals[text].whole /\ Numerals[text].value \in PortRange

HelpWords == {"--help", "-h"}
HostFlags == {"--host", "-H"}
PortFlags == {"--port", "-p"}

Arg == argv[i]
Parsing == cli = "parse" /\ i <= Len(argv)

ArgHelp ==
  /\ Parsing /\ Arg \in HelpWords
  /\ cli' = "help"
  /\ options' = [options EXCEPT !.command = "help"]
  /\ UNCHANGED <<i, from_args, code>>

SetHost(host, next) ==
  /\ options' = [options EXCEPT !.host = host]
  /\ from_args' = [from_args EXCEPT !.host = TRUE]
  /\ i' = next
  /\ UNCHANGED <<cli, code>>

SetPort(text, next) ==
  \/ /\ ValidPort(text)
     /\ options' = [options EXCEPT !.port = Numerals[text].value]
     /\ from_args' = [from_args EXCEPT !.port = TRUE]
     /\ i' = next
     /\ UNCHANGED <<cli, code>>
  \/ /\ ~ValidPort(text)
     /\ Throw
     /\ UNCHANGED <<options, from_args, i>>

(* A flag is followed by its value, whatever that looks like.              *)
HasValue == i < Len(argv)
ArgHost == Parsing /\ Arg \in HostFlags /\ HasValue /\ SetHost(argv[i + 1], i + 2)
ArgHostIs == Parsing /\ Arg \in DOMAIN HostIs /\ SetHost(HostIs[Arg], i + 1)
ArgPort == Parsing /\ Arg \in PortFlags /\ HasValue /\ SetPort(argv[i + 1], i + 2)
ArgPortIs == Parsing /\ Arg \in DOMAIN PortIs /\ SetPort(PortIs[Arg], i + 1)
ArgNoValue ==
  /\ Parsing /\ Arg \in HostFlags \cup PortFlags /\ ~HasValue
  /\ Throw
  /\ UNCHANGED <<options, from_args, i>>

(* A word that starts with "--host=" is no other option, nor is one that   *)
(* starts with "--port=".                                                  *)
ASSUME WordsAssumption ==
  /\ DOMAIN HostIs \cap (HelpWords \cup HostFlags \cup PortFlags \cup DOMAIN PortIs) = {}
  /\ DOMAIN PortIs \cap (HelpWords \cup HostFlags \cup PortFlags) = {}

IsOption(arg) == arg \in HelpWords \cup HostFlags \cup PortFlags \cup DOMAIN HostIs \cup DOMAIN PortIs

(* Mutant: the environment goes before the flags.                          *)
Host_EnvFirst == get_env_or(env.host, options.host)

(* The host and the port once the command line has been read.              *)
Host == IF from_args.host THEN options.host ELSE get_env_or(env.host, options.host)
PortText == get_env_or(env.port, "6767")

(* The first word that is no option is the command, the rest its           *)
(* arguments; then the environment fills in what no flag has set.          *)
ArgCommand ==
  /\ Parsing /\ ~IsOption(Arg)
  /\ \/ /\ Arg # "" /\ (from_args.port \/ ValidPort(PortText))
        /\ options' = [host |-> Host,
                       port |-> IF from_args.port THEN options.port ELSE Numerals[PortText].value,
                       command |-> Arg,
                       args |-> SubSeq(argv, i + 1, Len(argv))]
        /\ i' = Len(argv) + 1
        /\ cli' = IF Arg = "help" THEN "help" ELSE "connect"
        /\ UNCHANGED code
     \/ /\ Arg = "" \/ ~(from_args.port \/ ValidPort(PortText))
        /\ Throw
        /\ UNCHANGED <<options, i>>
  /\ UNCHANGED from_args

NoCommand == cli = "parse" /\ i > Len(argv) /\ Throw /\ UNCHANGED <<options, from_args, i>>

ParseStep ==
  /\ \/ ArgHelp \/ ArgHost \/ ArgHostIs \/ ArgPort \/ ArgPortIs
     \/ ArgNoValue \/ ArgCommand \/ NoCommand
  /\ UNCHANGED <<env, serverVars, busy, argv, did, should_run, interrupted>>
-----------------------------------------------------------------------------
(* cli.cpp: run.                                                           *)

PrintUsage == cli = "help" /\ Exit(0) /\ did' = "help"

(* init and the constructor of Client.  Whether the name resolves is not   *)
(* checked: without an address the connection goes wherever the            *)
(* uninitialised field points, the server's address included.              *)
CanReach(host, port) ==
  /\ Serving /\ port = server_port /\ port # 0
  /\ host = ServerHost \/ host \notin Resolvable

Connect ==
  /\ cli = "connect"
  /\ CanReach(options.host, options.port)
  /\ cli' = "command"
  /\ UNCHANGED <<code, did>>

(* init fails, or there is no CONNECT event for 5 seconds.                 *)
ConnectFails == cli = "connect" /\ Throw /\ UNCHANGED did

PubArgs == Len(options.args) >= 2
SubArgs == Len(options.args) = 1

(* The way out of run once there is a client: its destructor, which may    *)
(* take seconds, comes before the end of main.                             *)
Close(with) == cli' = "closing" /\ code' = with

(* client.publish and client.subscribe return only if the server answers   *)
(* the request for the key.                                                *)
Publish ==
  /\ cli = "command" /\ options.command = "pub" /\ PubArgs
  /\ CanReach(options.host, options.port)
  /\ Close(0)
  /\ did' = "published"

Subscribe ==
  /\ cli = "command" /\ options.command = "sub" /\ SubArgs
  /\ CanReach(options.host, options.port)
  /\ cli' = "subscribed"
  /\ did' = "subscribed"
  /\ UNCHANGED code

(* They throw, or the command or the number of its arguments is wrong.     *)
CommandThrows == cli = "command" /\ Close(1) /\ UNCHANGED did

(* run_forever: setup, then, while the test finds should_run set, process()*)
(* and a nap.                                                              *)
SetupCli == cli = "subscribed" /\ cli' = "loop" /\ UNCHANGED <<code, did>>
EnterPoll == cli = "loop" /\ should_run["cli"] /\ cli' = "poll" /\ UNCHANGED <<code, did>>
PollCli == cli = "poll" /\ cli' = "nap" /\ UNCHANGED <<code, did>>
WakeUp == cli = "nap" /\ cli' = "loop" /\ UNCHANGED <<code, did>>

(* Mutant: the flag is not looked at.                                      *)
LeaveLoopCli_Never == FALSE /\ UNCHANGED <<cli, code, did>>

LeaveLoopCli == cli = "loop" /\ ~should_run["cli"] /\ Close(0) /\ UNCHANGED did

(* Mutant: the exception is swallowed and the program ends as if asked to. *)
Disconnected_Silent == cli = "poll" /\ Close(0) /\ UNCHANGED did

(* process() throws "Disconnected from server.", whatever has become of    *)
(* should_run since it was tested.                                         *)
Disconnected == cli = "poll" /\ Close(1) /\ did' = "disconnected"

(* ~Client returns.                                                        *)
Closed == cli = "closing" /\ cli' = "exited" /\ UNCHANGED <<code, did>>

CliRuns ==
  \/ PrintUsage \/ Connect \/ ConnectFails \/ Publish \/ Subscribe \/ CommandThrows
  \/ SetupCli \/ EnterPoll \/ PollCli \/ WakeUp \/ LeaveLoopCli \/ Disconnected \/ Closed

CliStep == CliRuns /\ UNCHANGED <<env, serverVars, busy, parserVars, should_run, interrupted>>
-----------------------------------------------------------------------------
(* SIGINT: sigint_handler once setup has installed it, else the default    *)
(* action, which ends the process without any of its destructors.          *)
Handled(p) ==
  IF p = "server" THEN Serving
  ELSE \/ cli \in {"loop", "poll", "nap"}
       \/ cli = "closing" /\ did \in {"subscribed", "disconnected"}

Sigint(p) ==
  /\ p \notin interrupted
  /\ interrupted' = interrupted \cup {p}
  /\ \/ /\ Handled(p)
        /\ should_run' = [should_run EXCEPT ![p] = FALSE]
        /\ UNCHANGED <<server, cli>>
     \/ /\ p = "server" /\ server \in {"start", "bound"}
        /\ server' = "killed"
        /\ UNCHANGED <<cli, should_run>>
     \/ /\ p = "cli" /\ ~Handled("cli") /\ cli # "exited"
        /\ cli' = "killed"
        /\ UNCHANGED <<server, should_run>>
  /\ UNCHANGED <<env, server_port, pending, busy, parserVars, code, did>>

DriversNext ==
  \/ StartServer \/ ServerStep \/ Traffic
  \/ ParseStep \/ CliStep
  \/ \E p \in Programs : Sigint(p)

DriversSpec == DriversInit /\ [][DriversNext]_vars

(* The programs run: neither stops between two statements, and ENet does   *)
(* notice in the end that the server is gone.                              *)
FairDriversSpec ==
  /\ DriversSpec
  /\ WF_vars(ServerStep)
  /\ WF_vars(ParseStep)
  /\ WF_vars(CliStep)
  /\ SF_vars(~Serving /\ Disconnected
               /\ UNCHANGED <<env, serverVars, busy, parserVars, should_run, interrupted>>)
-----------------------------------------------------------------------------
DriversTypeOK ==
  /\ env \in [host: EnvHosts, port: EnvPorts]
  /\ server \in {"start", "bound", "loop", "process", "exited", "aborted", "killed"}
  /\ server_port \in PortRange /\ pending \in 0 .. MaxPending /\ busy \in BOOLEAN
  /\ cli \in {"parse", "help", "connect", "command", "subscribed", "loop", "poll", "nap",
              "closing", "exited", "killed"}
  /\ argv \in Argvs /\ i \in 1 .. Len(argv) + 1
  /\ options.port \in PortRange
  /\ from_args \in [host: BOOLEAN, port: BOOLEAN]
  /\ code \in {0, 1}
  /\ did \in {"nothing", "help", "published", "subscribed", "disconnected"}
  /\ should_run \in [Programs -> BOOLEAN] /\ interrupted \subseteq Programs

(* The command line as the README and the usage text mean it, without a    *)
(* loop.  A flag takes the next word, so in a row of flag words every      *)
(* second one is a value: position j is a value if the flag words directly *)
(* before it are odd in number.                                            *)
FlagsBefore(j) ==
  Max({n \in 0 .. j - 1 : \A m \in j - n .. j - 1 : argv[m] \in HostFlags \cup PortFlags})
IsValue(j) == FlagsBefore(j) % 2 = 1
CommandAt ==
  Min({j \in DOMAIN argv : ~IsValue(j) /\ ~IsOption(argv[j])} \cup {Len(argv) + 1})

(* The texts given for an option, by position; the last one counts.        *)
Given(flags, is) ==
  {j \in 1 .. CommandAt - 1 : ~IsValue(j) /\ argv[j] \in flags \cup DOMAIN is}
Chosen(flags, is, env_value, default) ==
  IF Given(flags, is) = {} THEN get_env_or(env_value, default)
  ELSE LET j == Max(Given(flags, is))
       IN  IF argv[j] \in DOMAIN is THEN is[argv[j]] ELSE argv[j + 1]

(* Before it connects, the client has understood the command line: the     *)
(* command is the first word that is neither an option nor the value of    *)
(* one, host and port are those of the last flag, or else of the           *)
(* environment, or else the defaults ("Command-line flags take precedence  *)
(* over environment variables."), and the port is a whole number in range. *)
ParsedAsMeant ==
  cli \in {"connect", "command", "subscribed", "loop", "poll", "nap"} =>
    /\ CommandAt <= Len(argv) /\ options.command = argv[CommandAt]
    /\ options.args = SubSeq(argv, CommandAt + 1, Len(argv))
    /\ options.host = Chosen(HostFlags, HostIs, env.host, "localhost")
    /\ LET port == Chosen(PortFlags, PortIs, env.port, "6767")
       IN  Numerals[port] = [value |-> options.port, whole |-> TRUE]

(* The exit code tells the truth: 0 if and only if the usage was asked     *)
(* for, a pub with a topic and a message went out, or a sub with one topic *)
(* was ended by SIGINT.  A sub whose connection broke ends with 1, even if *)
(* SIGINT came after the last test of should_run; one that ends with 0 has *)
(* been interrupted.  A malformed command never publishes or subscribes,   *)
(* although the client connects before it looks at the arguments.          *)
ExitHonest ==
  /\ cli = "exited" =>
       /\ code = 0 <=> did \in {"help", "published", "subscribed"}
       /\ did = "subscribed" => "cli" \in interrupted
  /\ did = "published" => argv[CommandAt] = "pub" /\ CommandAt + 2 <= Len(argv)
  /\ did \in {"subscribed", "disconnected"} =>
       argv[CommandAt] = "sub" /\ CommandAt + 1 = Len(argv)

(* In one environment, and without a port flag, the two programs meet: the *)
(* strict reading of SPRAYBUS_PORT in the client and the lax one in the    *)
(* server give the same port whenever both accept it.                      *)
SamePort ==
  (Serving /\ cli = "connect" /\ ~from_args.port) => options.port = server_port

(* SIGINT ends the server once the other programs fall silent: process     *)
(* goes on while events are ready and never looks at should_run, so        *)
(* unbroken traffic keeps an interrupted server alive.                     *)
StopsWhenQuiet ==
  <>[](~busy) => (Serving /\ "server" \in interrupted ~> server = "exited")

(* A sub ends with 0 when SIGINT finds it before the test of should_run or *)
(* in its nap.  When SIGINT finds it in process() it ends too, but with 1  *)
(* if that call throws.  And it ends by itself when the server has stopped.*)
SubEnds ==
  /\ (cli \in {"loop", "nap"} /\ "cli" \in interrupted) ~> (cli = "exited" /\ code = 0)
  /\ (cli = "poll" /\ "cli" \in interrupted) ~>
       (cli = "exited" /\ code = IF did = "disconnected" THEN 1 ELSE 0)
  /\ (cli = "loop" /\ ~Serving) ~> cli = "exited"
=============================================================================
