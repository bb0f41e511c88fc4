---------------------------- MODULE DriversProofs ---------------------------
(***************************************************************************)
(* Theorems about module Drivers, for every set of command lines and every *)
(* environment.                                                            *)
(***************************************************************************)
EXTENDS Drivers, SequenceTheorems, TLAPS

USE DEF serverVars, parserVars, vars

-----------------------------------------------------------------------------
(* The inductive invariant.                                                *)

OptionsRecord ==
  options = [host |-> options.host, port |-> options.port,
             command |-> options.command, args |-> options.args]

(* The two ports come from the same text.                                  *)
PortsRead ==
  /\ Serving \/ server = "bound" => server_port = Numerals[ServerPortText].value
  /\ cli = "connect" /\ ~from_args.port => options.port = Numerals[PortText].value

(* There are n flag words directly before position j, and no more.         *)
Flags == HostFlags \cup PortFlags
Run(j, n) ==
  /\ n \in 0 .. j - 1
  /\ \A m \in j - n .. j - 1 : argv[m] \in Flags
  /\ n = j - 1 \/ argv[j - n - 1] \notin Flags

(* Position j gives the host, or the port, and this is the text.           *)
GivesHost(j) == ~IsValue(j) /\ argv[j] \in HostFlags \cup DOMAIN HostIs
GivesPort(j) == ~IsValue(j) /\ argv[j] \in PortFlags \cup DOMAIN PortIs
HostText(j) == IF argv[j] \in DOMAIN HostIs THEN HostIs[argv[j]] ELSE argv[j + 1]
PortTextAt(j) == IF argv[j] \in DOMAIN PortIs THEN PortIs[argv[j]] ELSE argv[j + 1]

(* What parse_options knows when it looks at word i: this word is not the  *)
(* value of a flag, all words before it are values or options, and the     *)
(* last of them that gave a host, or a port, has been obeyed.              *)
AtWord == \E n \in 0 .. i - 1 : Run(i, n) /\ n % 2 = 0
WordsRead == \A j \in 1 .. i - 1 : IsValue(j) \/ IsOption(argv[j])
HostSoFar ==
  IF from_args.host
  THEN \E j \in 1 .. i - 1 : /\ GivesHost(j) /\ options.host = HostText(j)
                             /\ \A l \in 1 .. i - 1 : GivesHost(l) => l <= j
  ELSE options.host = "localhost" /\ \A l \in 1 .. i - 1 : ~GivesHost(l)
PortSoFar ==
  IF from_args.port
  THEN \E j \in 1 .. i - 1 :
         /\ GivesPort(j) /\ Numerals[PortTextAt(j)] = [value |-> options.port, whole |-> TRUE]
         /\ \A l \in 1 .. i - 1 : GivesPort(l) => l <= j
  ELSE \A l \in 1 .. i - 1 : ~GivesPort(l)
ParseInv == cli = "parse" => AtWord /\ WordsRead /\ HostSoFar /\ PortSoFar

(* The flag of interrupts_impl and SIGINT; what has been done where.       *)
FlagTrue ==
  /\ ~should_run["cli"] => "cli" \in interrupted
  /\ cli \in {"loop", "poll", "nap"} /\ "cli" \in interrupted => ~should_run["cli"]
  /\ cli \in {"parse", "help", "connect", "command", "subscribed"} => "cli" \notin interrupted
DoneThere ==
  /\ cli \in {"parse", "help", "connect", "command"} => did = "nothing"
  /\ cli \in {"subscribed", "loop", "poll", "nap"} => did = "subscribed"
  /\ cli \notin {"closing", "exited", "killed"} => code = 0
  /\ cli \in {"closing", "exited"} =>
       /\ code = 0 <=> did \in {"help", "published", "subscribed"}
       /\ did = "subscribed" => "cli" \in interrupted

(* Once it is parsed, the command line has a command.                      *)
Parsed == ParsedAsMeant /\ (cli \in {"connect", "command"} => CommandAt \in 1 .. Len(argv))

DriversInv ==
  /\ DriversTypeOK /\ OptionsRecord /\ PortsRead /\ ParseInv /\ Parsed
  /\ FlagTrue /\ DoneThere /\ ExitHonest

-----------------------------------------------------------------------------
(* What the definitions of the README's meaning amount to.                 *)

(* A largest element is the maximum, a smallest one the minimum.           *)
LEMMA MaxIs ==
  ASSUME NEW S, NEW x \in S, S \subseteq Int, \A y \in S : y <= x
  PROVE  Max(S) = x
<1>1. \A y \in S : x >= y
  OBVIOUS
<1>2. Max(S) \in S /\ \A y \in S : Max(S) >= y
  BY <1>1 DEF Max
<1>3. Max(S) >= x /\ Max(S) <= x /\ Max(S) \in Int /\ x \in Int
  BY <1>2
<1> QED
  BY <1>3

LEMMA MinIs ==
  ASSUME NEW S, NEW x \in S, S \subseteq Int, \A y \in S : x <= y
  PROVE  Min(S) = x
<1>1. Min(S) \in S /\ \A y \in S : Min(S) =< y
  BY DEF Min
<1>2. Min(S) >= x /\ Min(S) <= x /\ Min(S) \in Int /\ x \in Int
  BY <1>1
<1> QED
  BY <1>2

LEMMA RunCounts ==
  ASSUME NEW j \in Nat, NEW n, Run(j, n)
  PROVE  FlagsBefore(j) = n
<1> DEFINE S == {k \in 0 .. j - 1 : \A m \in j - k .. j - 1 : argv[m] \in HostFlags \cup PortFlags}
<1>1. n \in S
  BY DEF Run, Flags
<1>2. ASSUME NEW k \in S PROVE k <= n
  <2>1. SUFFICES ASSUME k > n PROVE FALSE
    BY DEF Run
  <2>2. j - n - 1 \in j - k .. j - 1 /\ n # j - 1
    BY <2>1 DEF Run
  <2>3. argv[j - n - 1] \in HostFlags \cup PortFlags
    BY <2>2
  <2> QED
    BY <2>2, <2>3 DEF Run, Flags
<1>3. S \subseteq Int
  OBVIOUS
<1>4. Max(S) = n
  BY <1>1, <1>2, <1>3, MaxIs
<1> QED
  BY <1>4 DEF FlagsBefore

(* Past a word that is no flag there is no flag; past a flag there is one  *)
(* more than before it.                                                    *)
LEMMA RunSteps ==
  ASSUME NEW j \in Nat, j # 0
  PROVE  /\ argv[j] \notin Flags => Run(j + 1, 0)
         /\ \A n : Run(j, n) /\ argv[j] \in Flags => Run(j + 1, n + 1)
<1>1. ASSUME argv[j] \notin Flags PROVE Run(j + 1, 0)
  <2>1. j + 1 - 0 - 1 = j /\ 0 \in 0 .. j + 1 - 1
    OBVIOUS
  <2>2. \A m \in j + 1 - 0 .. j + 1 - 1 : FALSE
    OBVIOUS
  <2> QED
    BY <1>1, <2>1, <2>2 DEF Run
<1>2. ASSUME NEW n, Run(j, n), argv[j] \in Flags PROVE Run(j + 1, n + 1)
  <2>1. n \in 0 .. j - 1 /\ n + 1 \in 0 .. j + 1 - 1
    BY <1>2 DEF Run
  <2>2. ASSUME NEW m \in j + 1 - (n + 1) .. j + 1 - 1 PROVE argv[m] \in Flags
    <3>1. m = j \/ m \in j - n .. j - 1
      BY <2>1
    <3> QED
      BY <1>2, <3>1 DEF Run
  <2>3. n + 1 = j + 1 - 1 \/ argv[j + 1 - (n + 1) - 1] \notin Flags
    <3>1. j + 1 - (n + 1) - 1 = j - n - 1
      BY <2>1
    <3> QED
      BY <1>2, <2>1, <3>1 DEF Run
  <2> QED
    BY <2>1, <2>2, <2>3 DEF Run
<1> QED
  BY <1>1, <1>2

LEMMA Parity ==
  ASSUME NEW n \in Nat
  PROVE  /\ n % 2 = 0 => (n + 1) % 2 = 1 /\ (n + 2) % 2 = 0
         /\ 0 % 2 = 0
OBVIOUS

-----------------------------------------------------------------------------
(* The loop of parse_options.                                              *)

(* The meaning of the command line does not change while it is read.       *)
LEMMA SameLine ==
  ASSUME UNCHANGED argv
  PROVE  /\ \A j : IsValue(j)' = IsValue(j)
         /\ CommandAt' = CommandAt
<1>1. \A j : IsValue(j)' = IsValue(j)
  BY DEF IsValue, FlagsBefore
<1> QED
  BY <1>1 DEF CommandAt

LEMMA WordRole ==
  ASSUME DriversTypeOK, AtWord
  PROVE  /\ ~IsValue(i)
         /\ argv[i] \notin Flags => \E n \in 0 .. i : Run(i + 1, n) /\ n % 2 = 0
         /\ argv[i] \in Flags => /\ IsValue(i + 1)
                                 /\ \E n \in 0 .. i + 1 : Run(i + 2, n) /\ n % 2 = 0
<1>1. i \in Nat /\ i # 0 /\ i + 1 \in Nat /\ i + 1 # 0 /\ i + 1 + 1 = i + 2
  BY DriversAssumption DEF DriversTypeOK
<1>2. PICK n \in 0 .. i - 1 : Run(i, n) /\ n % 2 = 0
  BY DEF AtWord
<1>3. n \in Nat /\ (n + 1) % 2 = 1 /\ (n + 2) % 2 = 0 /\ 0 % 2 = 0
  BY <1>1, <1>2, Parity
<1>4. ~IsValue(i)
  <2>1. FlagsBefore(i) = n
    BY <1>1, <1>2, RunCounts
  <2> QED
    BY <1>2, <2>1 DEF IsValue
<1>5. CASE argv[i] \notin Flags
  <2>1. Run(i + 1, 0) /\ 0 \in 0 .. i
    BY <1>1, <1>5, RunSteps
  <2> QED
    BY <1>3, <1>4, <1>5, <2>1
<1>6. CASE argv[i] \in Flags
  <2>1. Run(i + 1, n + 1)
    BY <1>1, <1>2, <1>6, RunSteps
  <2>2. FlagsBefore(i + 1) = n + 1
    BY <1>1, <2>1, RunCounts
  <2>3. IsValue(i + 1)
    BY <1>3, <2>2 DEF IsValue
  <2>4. CASE argv[i + 1] \in Flags
    <3>1. Run(i + 1 + 1, n + 1 + 1)
      BY <1>1, <2>1, <2>4, RunSteps
    <3>2. n + 1 + 1 = n + 2 /\ n + 2 \in 0 .. i + 1
      BY <1>1, <1>2, <1>3
    <3> QED
      BY <1>1, <1>3, <1>4, <1>6, <2>3, <3>1, <3>2
  <2>5. CASE argv[i + 1] \notin Flags
    <3>1. Run(i + 1 + 1, 0) /\ 0 \in 0 .. i + 1
      BY <1>1, <2>5, RunSteps
    <3> QED
      BY <1>1, <1>3, <1>4, <1>6, <2>3, <3>1
  <2> QED
    BY <2>4, <2>5
<1> QED
  BY <1>5, <1>6

(* How the loop goes on after word i: past the word, or past the flag and  *)
(* its value.                                                              *)
Advances ==
  /\ UNCHANGED argv
  /\ \/ argv[i] \notin Flags /\ i' = i + 1
     \/ argv[i] \in Flags /\ i' = i + 2

LEMMA ReadOn ==
  ASSUME DriversTypeOK, AtWord, WordsRead, Advances, IsOption(argv[i])
  PROVE  /\ AtWord' /\ WordsRead'
         /\ i \in 1 .. i' - 1 /\ ~IsValue(i) /\ i \in Nat /\ i' \in Nat
         /\ \A j \in 1 .. i' - 1 : j \in 1 .. i - 1 \/ j = i \/ (j = i + 1 /\ IsValue(j))
         /\ \A j \in 1 .. i - 1 : j \in 1 .. i' - 1 /\ j < i
<1>1. i \in Nat /\ i # 0
  BY DriversAssumption DEF DriversTypeOK
<1>2. /\ ~IsValue(i)
      /\ \A j : IsValue(j)' = IsValue(j)
  BY WordRole, SameLine DEF Advances
<1>3. \E n \in 0 .. i' - 1 : Run(i', n) /\ n % 2 = 0
  <2>1. CASE argv[i] \notin Flags /\ i' = i + 1
    <3>1. \E n \in 0 .. i : Run(i + 1, n) /\ n % 2 = 0
      BY <2>1, WordRole
    <3> QED
      BY <1>1, <2>1, <3>1 DEF Run
  <2>2. CASE argv[i] \in Flags /\ i' = i + 2
    <3>1. \E n \in 0 .. i + 1 : Run(i + 2, n) /\ n % 2 = 0
      BY <2>2, WordRole
    <3> QED
      BY <1>1, <2>2, <3>1 DEF Run
  <2> QED
    BY <2>1, <2>2 DEF Advances
<1>4. AtWord'
  BY <1>3 DEF AtWord, Run, Advances
<1>5. \A j \in 1 .. i' - 1 : j \in 1 .. i - 1 \/ j = i \/ (j = i + 1 /\ IsValue(j))
  <2>1. CASE argv[i] \notin Flags /\ i' = i + 1
    BY <1>1, <2>1
  <2>2. CASE argv[i] \in Flags /\ i' = i + 2
    <3>1. IsValue(i + 1)
      BY <2>2, WordRole
    <3> QED
      BY <1>1, <2>2, <3>1
  <2> QED
    BY <2>1, <2>2 DEF Advances
<1>6. WordsRead'
  <2> SUFFICES ASSUME NEW j \in 1 .. i' - 1
               PROVE  IsValue(j)' \/ IsOption(argv'[j])
    BY DEF WordsRead
  <2> QED
    BY <1>2, <1>5 DEF WordsRead, Advances
<1>7. i \in 1 .. i' - 1 /\ i' \in Nat /\ \A j \in 1 .. i - 1 : j \in 1 .. i' - 1 /\ j < i
  BY <1>1 DEF Advances
<1> QED
  BY <1>1, <1>2, <1>4, <1>5, <1>6, <1>7

(* The last option word that gave the host counts.                         *)
LEMMA HostAdvances ==
  ASSUME DriversTypeOK, AtWord, WordsRead, HostSoFar, Advances, IsOption(argv[i]),
         \/ /\ argv[i] \in HostFlags \cup DOMAIN HostIs
            /\ from_args'.host = TRUE /\ options'.host = HostText(i)
         \/ /\ argv[i] \notin HostFlags \cup DOMAIN HostIs
            /\ from_args'.host = from_args.host /\ options'.host = options.host
  PROVE  HostSoFar'
<1>1. /\ i \in 1 .. i' - 1 /\ ~IsValue(i) /\ i \in Nat /\ i' \in Nat
      /\ \A j \in 1 .. i' - 1 : j \in 1 .. i - 1 \/ j = i \/ (j = i + 1 /\ IsValue(j))
      /\ \A j \in 1 .. i - 1 : j \in 1 .. i' - 1 /\ j < i
  BY ReadOn
<1>2. \A j : GivesHost(j)' = GivesHost(j) /\ HostText(j)' = HostText(j)
  BY SameLine DEF GivesHost, HostText, Advances
<1>3. CASE /\ argv[i] \in HostFlags \cup DOMAIN HostIs
           /\ from_args'.host = TRUE /\ options'.host = HostText(i)
  <2>0. GivesHost(i)
    BY <1>1, <1>3 DEF GivesHost
  <2>1. ASSUME NEW l \in 1 .. i' - 1, GivesHost(l) PROVE l <= i
    <3>1. l \in 1 .. i - 1 \/ l = i \/ IsValue(l)
      BY <1>1
    <3>2. ~IsValue(l)
      BY <2>1 DEF GivesHost
    <3> QED
      BY <1>1, <3>1, <3>2
  <2> QED
    BY <1>1, <1>2, <1>3, <2>0, <2>1 DEF HostSoFar
<1>4. CASE /\ argv[i] \notin HostFlags \cup DOMAIN HostIs
           /\ from_args'.host = from_args.host /\ options'.host = options.host
  <2>1. \A l \in 1 .. i' - 1 : GivesHost(l) => l \in 1 .. i - 1
    BY <1>1, <1>4 DEF GivesHost
  <2> QED
    BY <1>1, <1>2, <1>4, <2>1 DEF HostSoFar
<1> QED
  BY <1>3, <1>4

(* And so does the last one that gave the port.                            *)
LEMMA PortAdvances ==
  ASSUME DriversTypeOK, AtWord, WordsRead, PortSoFar, Advances, IsOption(argv[i]),
         \/ /\ argv[i] \in PortFlags \cup DOMAIN PortIs
            /\ from_args'.port = TRUE
            /\ Numerals[PortTextAt(i)] = [value |-> options'.port, whole |-> TRUE]
         \/ /\ argv[i] \notin PortFlags \cup DOMAIN PortIs
            /\ from_args'.port = from_args.port /\ options'.port = options.port
  PROVE  PortSoFar'
<1>1. /\ i \in 1 .. i' - 1 /\ ~IsValue(i) /\ i \in Nat /\ i' \in Nat
      /\ \A j \in 1 .. i' - 1 : j \in 1 .. i - 1 \/ j = i \/ (j = i + 1 /\ IsValue(j))
      /\ \A j \in 1 .. i - 1 : j \in 1 .. i' - 1 /\ j < i
  BY ReadOn
<1>2. \A j : GivesPort(j)' = GivesPort(j) /\ PortTextAt(j)' = PortTextAt(j)
  BY SameLine DEF GivesPort, PortTextAt, Advances
<1>3. CASE /\ argv[i] \in PortFlags \cup DOMAIN PortIs
           /\ from_args'.port = TRUE
           /\ Numerals[PortTextAt(i)] = [value |-> options'.port, whole |-> TRUE]
  <2>0. GivesPort(i)
    BY <1>1, <1>3 DEF GivesPort
  <2>1. ASSUME NEW l \in 1 .. i' - 1, GivesPort(l) PROVE l <= i
    <3>1. l \in 1 .. i - 1 \/ l = i \/ IsValue(l)
      BY <1>1
    <3>2. ~IsValue(l)
      BY <2>1 DEF GivesPort
    <3> QED
      BY <1>1, <3>1, <3>2
  <2> QED
    BY <1>1, <1>2, <1>3, <2>0, <2>1 DEF PortSoFar
<1>4. CASE /\ argv[i] \notin PortFlags \cup DOMAIN PortIs
           /\ from_args'.port = from_args.port /\ options'.port = options.port
  <2>1. \A l \in 1 .. i' - 1 : GivesPort(l) => l \in 1 .. i - 1
    BY <1>1, <1>4 DEF GivesPort
  <2> QED
    BY <1>1, <1>2, <1>4, <2>1 DEF PortSoFar
<1> QED
  BY <1>3, <1>4

(* A port that is accepted is the whole of its text.                       *)
LEMMA PortAccepted ==
  ASSUME NEW text, ValidPort(text)
  PROVE  /\ Numerals[text] = [value |-> Numerals[text].value, whole |-> TRUE]
         /\ Numerals[text].value \in PortRange
<1>1. Numerals[text] \in [value: Int, whole: BOOLEAN]
  BY DriversAssumption DEF ValidPort
<1> QED
  BY <1>1 DEF ValidPort

(* A step that reads an option keeps the invariant of the loop.            *)
LEMMA OptionKeepsParse ==
  ASSUME DriversTypeOK, OptionsRecord, ParseInv, UNCHANGED argv,
         ArgHost \/ ArgHostIs \/ ArgPort \/ ArgPortIs, cli' = "parse"
  PROVE  /\ ParseInv' /\ OptionsRecord'
         /\ i' \in 1 .. Len(argv) + 1 /\ options'.port \in PortRange
         /\ from_args' \in [host: BOOLEAN, port: BOOLEAN]
<1>1. /\ AtWord /\ WordsRead /\ HostSoFar /\ PortSoFar /\ i <= Len(argv)
      /\ i \in 1 .. Len(argv) + 1 /\ Len(argv) \in Nat
      /\ from_args \in [host: BOOLEAN, port: BOOLEAN] /\ options.port \in PortRange
  BY DriversAssumption DEF ArgHost, ArgHostIs, ArgPort, ArgPortIs, Parsing, ParseInv, DriversTypeOK
<1>2. HostFlags \cap PortFlags = {}
  BY DEF HostFlags, PortFlags
<1> HIDE DEF HostFlags, PortFlags
<1>3. CASE ArgHost \/ ArgHostIs
  <2>1. /\ argv[i] \in HostFlags \cup DOMAIN HostIs /\ argv[i] \notin PortFlags \cup DOMAIN PortIs
        /\ \/ argv[i] \in HostFlags /\ i < Len(argv) /\ i' = i + 2
           \/ argv[i] \in DOMAIN HostIs /\ i' = i + 1
    BY <1>2, <1>3, WordsAssumption DEF ArgHost, ArgHostIs, SetHost, Arg, HasValue
  <2>2. Advances /\ IsOption(argv[i])
    BY <2>1, WordsAssumption DEF Advances, Flags, IsOption
  <2>3. /\ options' = [options EXCEPT !.host = HostText(i)]
        /\ from_args' = [from_args EXCEPT !.host = TRUE]
    BY <1>3, WordsAssumption DEF ArgHost, ArgHostIs, SetHost, Arg, HostText
  <2>4. /\ options'.host = HostText(i) /\ options'.port = options.port /\ OptionsRecord'
        /\ from_args'.host = TRUE /\ from_args'.port = from_args.port
        /\ from_args' \in [host: BOOLEAN, port: BOOLEAN]
    BY <1>1, <2>3 DEF OptionsRecord
  <2>5. AtWord' /\ WordsRead'
    BY <1>1, <2>2, ReadOn
  <2>6. HostSoFar'
    BY <1>1, <2>1, <2>2, <2>4, HostAdvances
  <2>7. PortSoFar'
    BY <1>1, <2>1, <2>2, <2>4, PortAdvances
  <2>8. i' \in 1 .. Len(argv) + 1
    BY <1>1, <2>1
  <2> QED
    BY <1>1, <2>4, <2>5, <2>6, <2>7, <2>8 DEF ParseInv
<1>4. CASE ArgPort \/ ArgPortIs
  <2>0. ValidPort(PortTextAt(i)) /\ SetPort(PortTextAt(i), i')
    <3>1. CASE ArgPort
      <4>1. PortTextAt(i) = argv[i + 1] /\ SetPort(PortTextAt(i), i + 2)
        BY <3>1, WordsAssumption DEF ArgPort, Arg, PortTextAt
      <4> QED
        BY <4>1 DEF SetPort, Throw, Exit
    <3>2. CASE ArgPortIs
      <4>1. PortTextAt(i) = PortIs[argv[i]] /\ SetPort(PortTextAt(i), i + 1)
        BY <3>2 DEF ArgPortIs, Arg, PortTextAt
      <4> QED
        BY <4>1 DEF SetPort, Throw, Exit
    <3> QED
      BY <1>4, <3>1, <3>2
  <2>1. /\ argv[i] \in PortFlags \cup DOMAIN PortIs /\ argv[i] \notin HostFlags \cup DOMAIN HostIs
        /\ \/ argv[i] \in PortFlags /\ i < Len(argv) /\ i' = i + 2
           \/ argv[i] \in DOMAIN PortIs /\ i' = i + 1
    BY <1>2, <1>4, <2>0, WordsAssumption DEF ArgPort, ArgPortIs, SetPort, Throw, Exit, Arg, HasValue
  <2>2. Advances /\ IsOption(argv[i])
    BY <2>1, WordsAssumption DEF Advances, Flags, IsOption
  <2>3. /\ options' = [options EXCEPT !.port = Numerals[PortTextAt(i)].value]
        /\ from_args' = [from_args EXCEPT !.port = TRUE]
    BY <2>0 DEF SetPort
  <2>4. /\ options'.host = options.host /\ options'.port = Numerals[PortTextAt(i)].value /\ OptionsRecord'
        /\ from_args'.port = TRUE /\ from_args'.host = from_args.host
        /\ from_args' \in [host: BOOLEAN, port: BOOLEAN]
    BY <1>1, <2>3 DEF OptionsRecord
  <2>5. AtWord' /\ WordsRead'
    BY <1>1, <2>2, ReadOn
  <2>6. HostSoFar'
    BY <1>1, <2>1, <2>2, <2>4, HostAdvances
  <2>7. PortSoFar' /\ options'.port \in PortRange
    <3>1. /\ Numerals[PortTextAt(i)] = [value |-> options'.port, whole |-> TRUE]
          /\ options'.port \in PortRange
      BY <2>0, <2>4, PortAccepted
    <3> QED
      BY <1>1, <2>1, <2>2, <2>4, <3>1, PortAdvances
  <2>8. i' \in 1 .. Len(argv) + 1
    BY <1>1, <2>1
  <2> QED
    BY <1>1, <2>4, <2>5, <2>6, <2>7, <2>8 DEF ParseInv
<1> QED
  BY <1>3, <1>4

(* The first word that is neither an option nor a value is the command.    *)
LEMMA CommandHere ==
  ASSUME DriversTypeOK, AtWord, WordsRead, i <= Len(argv), ~IsOption(argv[i])
  PROVE  CommandAt = i /\ i \in 1 .. Len(argv)
<1> DEFINE S == {j \in DOMAIN argv : ~IsValue(j) /\ ~IsOption(argv[j])} \cup {Len(argv) + 1}
<1>1. /\ argv \in Seq(STRING) /\ Len(argv) \in Nat /\ DOMAIN argv = 1 .. Len(argv)
      /\ i \in 1 .. Len(argv)
  BY DriversAssumption DEF DriversTypeOK
<1>2. i \in S
  BY <1>1, WordRole
<1>3. ASSUME NEW j \in S PROVE i <= j
  <2>1. CASE j = Len(argv) + 1
    BY <1>1, <2>1
  <2>2. CASE j \in 1 .. Len(argv) /\ ~IsValue(j) /\ ~IsOption(argv[j])
    <3>1. j \notin 1 .. i - 1
      BY <2>2 DEF WordsRead
    <3> QED
      BY <1>1, <2>2, <3>1
  <2> QED
    BY <1>1, <2>1, <2>2
<1>4. S \subseteq Int
  BY <1>1
<1>5. Min(S) = i
  BY <1>2, <1>3, <1>4, MinIs
<1> QED
  BY <1>1, <1>5 DEF CommandAt

(* The host and the port that have been read are the ones that are meant.  *)
LEMMA HostMeant ==
  ASSUME DriversTypeOK, HostSoFar, CommandAt = i
  PROVE  Host = Chosen(HostFlags, HostIs, env.host, "localhost")
<1> DEFINE G == Given(HostFlags, HostIs)
<1>0. i \in Nat
  BY DriversAssumption DEF DriversTypeOK
<1>1. G = {j \in 1 .. i - 1 : GivesHost(j)}
  BY DEF Given, GivesHost
<1>2. CASE from_args.host
  <2>1. PICK j \in 1 .. i - 1 : /\ GivesHost(j) /\ options.host = HostText(j)
                                /\ \A l \in 1 .. i - 1 : GivesHost(l) => l <= j
    BY <1>2 DEF HostSoFar
  <2>2. Max(G) = j
    <3>1. j \in G /\ G \subseteq Int /\ \A l \in G : l <= j
      BY <1>0, <1>1, <2>1
    <3> HIDE DEF G
    <3> QED
      BY <3>1, MaxIs
  <2>3. G # {}
    BY <1>1, <2>1
  <2> QED
    BY <1>2, <2>1, <2>2, <2>3 DEF Chosen, Host, HostText
<1>3. CASE ~from_args.host
  BY <1>1, <1>3 DEF HostSoFar, Chosen, Host
<1> QED
  BY <1>2, <1>3

LEMMA PortMeant ==
  ASSUME DriversTypeOK, PortSoFar, CommandAt = i, NEW port,
         from_args.port \/ ValidPort(PortText),
         port = IF from_args.port THEN options.port ELSE Numerals[PortText].value
  PROVE  Numerals[Chosen(PortFlags, PortIs, env.port, "6767")] = [value |-> port, whole |-> TRUE]
<1> DEFINE G == Given(PortFlags, PortIs)
<1>0. i \in Nat
  BY DriversAssumption DEF DriversTypeOK
<1>1. G = {j \in 1 .. i - 1 : GivesPort(j)}
  BY DEF Given, GivesPort
<1>2. CASE from_args.port
  <2>1. PICK j \in 1 .. i - 1 :
          /\ GivesPort(j) /\ Numerals[PortTextAt(j)] = [value |-> options.port, whole |-> TRUE]
          /\ \A l \in 1 .. i - 1 : GivesPort(l) => l <= j
    BY <1>2 DEF PortSoFar
  <2>2. Max(G) = j
    <3>1. j \in G /\ G \subseteq Int /\ \A l \in G : l <= j
      BY <1>0, <1>1, <2>1
    <3> HIDE DEF G
    <3> QED
      BY <3>1, MaxIs
  <2>3. G # {}
    BY <1>1, <2>1
  <2>4. Chosen(PortFlags, PortIs, env.port, "6767") = PortTextAt(j)
    BY <2>2, <2>3 DEF Chosen, PortTextAt
  <2> QED
    BY <1>2, <2>1, <2>4
<1>3. CASE ~from_args.port
  <2>1. G = {}
    BY <1>1, <1>3 DEF PortSoFar
  <2>2. Chosen(PortFlags, PortIs, env.port, "6767") = PortText
    BY <2>1 DEF Chosen, PortText
  <2> QED
    BY <1>3, <2>2, PortAccepted
<1> QED
  BY <1>2, <1>3

(* What is meant does not change.                                          *)
LEMMA SameMeaning ==
  ASSUME UNCHANGED <<argv, env>>
  PROVE  /\ CommandAt' = CommandAt
         /\ Chosen(HostFlags, HostIs, env.host, "localhost")'
              = Chosen(HostFlags, HostIs, env.host, "localhost")
         /\ Chosen(PortFlags, PortIs, env.port, "6767")'
              = Chosen(PortFlags, PortIs, env.port, "6767")
<1>1. CommandAt' = CommandAt /\ \A j : IsValue(j)' = IsValue(j)
  BY SameLine
<1>2. /\ Given(HostFlags, HostIs)' = Given(HostFlags, HostIs)
      /\ Given(PortFlags, PortIs)' = Given(PortFlags, PortIs)
  BY <1>1 DEF Given
<1> QED
  BY <1>1, <1>2 DEF Chosen, get_env_or

LEMMA CommandParsed ==
  ASSUME DriversTypeOK, OptionsRecord, ParseInv, UNCHANGED <<argv, env>>, ArgCommand, cli' # "exited"
  PROVE  /\ Parsed' /\ OptionsRecord'
         /\ i' \in 1 .. Len(argv) + 1 /\ options'.port \in PortRange
         /\ cli' \in {"help", "connect"} /\ UNCHANGED <<code, from_args>>
         /\ ~from_args'.port => options'.port = Numerals[PortText].value
<1>1. /\ AtWord /\ WordsRead /\ HostSoFar /\ PortSoFar /\ i <= Len(argv) /\ ~IsOption(argv[i])
      /\ Len(argv) \in Nat
  <2>1. cli = "parse" /\ i <= Len(argv) /\ ~IsOption(argv[i])
    BY DEF ArgCommand, Parsing, Arg
  <2>2. argv \in Seq(STRING)
    BY DriversAssumption DEF DriversTypeOK
  <2> QED
    BY <2>1, <2>2 DEF ParseInv
<1>2. CommandAt = i /\ i \in 1 .. Len(argv)
  BY <1>1, CommandHere
<1>3. /\ from_args.port \/ ValidPort(PortText)
      /\ options' = [host |-> Host,
                     port |-> IF from_args.port THEN options.port ELSE Numerals[PortText].value,
                     command |-> argv[i], args |-> SubSeq(argv, i + 1, Len(argv))]
      /\ i' = Len(argv) + 1 /\ cli' \in {"help", "connect"} /\ UNCHANGED <<code, from_args>>
  BY DEF ArgCommand, Throw, Exit, Arg
<1>4. /\ options'.host = Host /\ options'.command = argv[i]
      /\ options'.args = SubSeq(argv, i + 1, Len(argv))
      /\ options'.port = IF from_args.port THEN options.port ELSE Numerals[PortText].value
      /\ OptionsRecord'
  BY <1>3 DEF OptionsRecord
<1>5. /\ options'.host = Chosen(HostFlags, HostIs, env.host, "localhost")
      /\ Numerals[Chosen(PortFlags, PortIs, env.port, "6767")] = [value |-> options'.port, whole |-> TRUE]
  BY <1>1, <1>2, <1>3, <1>4, HostMeant, PortMeant
<1>6. options'.port \in PortRange
  BY <1>3, <1>4, PortAccepted DEF DriversTypeOK
<1>7. CommandAt' = i /\ CommandAt' \in 1 .. Len(argv')
  BY <1>2, SameMeaning
<1>8. ParsedAsMeant'
  BY <1>1, <1>2, <1>4, <1>5, <1>7, SameMeaning DEF ParsedAsMeant
<1> QED
  BY <1>1, <1>3, <1>4, <1>6, <1>7, <1>8 DEF Parsed

-----------------------------------------------------------------------------
(* The steps of the programs.                                              *)

LEMMA ParseSame ==
  ASSUME ParseInv, UNCHANGED parserVars, cli' = "parse" => cli = "parse"
  PROVE  ParseInv'
<1>1. \A j : IsValue(j)' = IsValue(j)
  BY SameLine
<1>2. \A j : /\ GivesHost(j)' = GivesHost(j) /\ HostText(j)' = HostText(j)
             /\ GivesPort(j)' = GivesPort(j) /\ PortTextAt(j)' = PortTextAt(j)
  BY <1>1 DEF GivesHost, HostText, GivesPort, PortTextAt
<1> SUFFICES ASSUME cli' = "parse" PROVE AtWord' /\ WordsRead' /\ HostSoFar' /\ PortSoFar'
  BY DEF ParseInv
<1>3. AtWord /\ WordsRead /\ HostSoFar /\ PortSoFar
  BY DEF ParseInv
<1>4. AtWord'
  BY <1>3 DEF AtWord, Run
<1>5. WordsRead'
  BY <1>1, <1>3 DEF WordsRead
<1>6. HostSoFar'
  BY <1>2, <1>3 DEF HostSoFar
<1>7. PortSoFar'
  BY <1>2, <1>3 DEF PortSoFar
<1> QED
  BY <1>4, <1>5, <1>6, <1>7

LEMMA ParsedSame ==
  ASSUME Parsed, UNCHANGED <<argv, env, options>>,
         cli' = cli \/ (/\ cli \in {"connect", "command", "subscribed", "loop", "poll", "nap"}
                        /\ cli' # "connect" /\ (cli' = "command" => cli = "connect"))
                    \/ cli' \notin {"connect", "command", "subscribed", "loop", "poll", "nap"}
  PROVE  Parsed'
<1>1. ParsedAsMeant'
  BY SameMeaning DEF Parsed, ParsedAsMeant
<1>2. cli' \in {"connect", "command"} => CommandAt' \in 1 .. Len(argv')
  BY SameMeaning DEF Parsed
<1> QED
  BY <1>1, <1>2 DEF Parsed

LEMMA ServerKeepsInv ==
  ASSUME DriversInv, StartServer \/ ServerStep \/ Traffic
  PROVE  DriversInv'
<1>1. UNCHANGED <<env, cli, argv, i, options, from_args, code, did, should_run, interrupted>>
  BY DEF StartServer, ServerStep, Traffic
<1>2. ParseInv' /\ Parsed'
  BY <1>1, ParseSame, ParsedSame DEF DriversInv
<1>3. OptionsRecord' /\ FlagTrue' /\ DoneThere' /\ ExitHonest'
  BY <1>1, SameMeaning DEF DriversInv, OptionsRecord, FlagTrue, DoneThere, ExitHonest
<1>4. DriversTypeOK
  BY DEF DriversInv
<1>5. /\ server' \in {"start", "bound", "loop", "process", "exited", "aborted", "killed"}
      /\ server_port' \in PortRange /\ pending' \in 0 .. MaxPending /\ busy' \in BOOLEAN
  <2>1. CASE StartServer
    BY <1>4, <2>1 DEF StartServer, DriversTypeOK
  <2>2. CASE ServerStep
    <3>1. pending' \in 0 .. MaxPending
      BY <1>4, <2>2, DriversAssumption DEF ServerStep, SetupServer, EnterProcess, LeaveLoop,
           HandleEvent, LeaveProcess, EventReady, DriversTypeOK
    <3> QED
      BY <1>4, <2>2, <3>1 DEF ServerStep, SetupServer, EnterProcess, LeaveLoop,
           HandleEvent, LeaveProcess, DriversTypeOK
  <2>3. CASE Traffic
    <3>1. pending' \in 0 .. MaxPending /\ UNCHANGED <<server, server_port>>
      BY <1>4, <2>3, DriversAssumption DEF Traffic, DriversTypeOK
    <3>2. busy \in BOOLEAN /\ (busy' = busy \/ busy' = ~busy)
      BY <1>4, <2>3 DEF Traffic, DriversTypeOK
    <3>3. busy' \in BOOLEAN
      BY <3>2, Zenon
    <3> QED
      BY <1>4, <3>1, <3>3 DEF DriversTypeOK
  <2> QED
    BY <2>1, <2>2, <2>3
<1>6. DriversTypeOK'
  BY <1>1, <1>4, <1>5 DEF DriversTypeOK
<1>7. PortsRead'
  <2>1. PortsRead
    BY DEF DriversInv
  <2>2. CASE StartServer
    BY <1>1, <2>1, <2>2 DEF PortsRead, StartServer, Serving, ServerPortText, PortText, get_env_or
  <2>3. CASE ServerStep \/ Traffic
    BY <1>1, <2>1, <2>3 DEF PortsRead, ServerStep, SetupServer, EnterProcess, LeaveLoop,
         HandleEvent, LeaveProcess, Traffic, Serving, ServerPortText, PortText, get_env_or
  <2> QED
    BY <2>2, <2>3
<1> QED
  BY <1>2, <1>3, <1>6, <1>7 DEF DriversInv

LEMMA ParseKeepsInv ==
  ASSUME DriversInv, ParseStep
  PROVE  DriversInv'
<1>0. DriversTypeOK /\ OptionsRecord /\ PortsRead /\ ParseInv /\ Parsed /\ FlagTrue /\ DoneThere /\ ExitHonest
  BY DEF DriversInv
<1>1. UNCHANGED <<env, server, server_port, pending, busy, argv, did, should_run, interrupted>>
  BY DEF ParseStep
<1>2. cli = "parse" /\ code = 0 /\ did = "nothing" /\ "cli" \notin interrupted
  BY <1>0 DEF ParseStep, ArgHelp, ArgHost, ArgHostIs, ArgPort, ArgPortIs, ArgNoValue, ArgCommand,
       NoCommand, Parsing, DoneThere, FlagTrue
(* It is enough to look at the variables of the parser.                    *)
<1>3. ASSUME /\ ParseInv' /\ Parsed' /\ OptionsRecord'
             /\ i' \in 1 .. Len(argv) + 1 /\ options'.port \in PortRange
             /\ from_args' \in [host: BOOLEAN, port: BOOLEAN],
             \/ cli' \in {"parse", "help", "connect"} /\ code' = 0
             \/ cli' = "exited" /\ code' = 1,
             cli' = "connect" /\ ~from_args'.port => options'.port = Numerals[PortText].value
      PROVE  DriversInv'
  <2>1. DriversTypeOK'
    BY <1>0, <1>1, <1>3 DEF DriversTypeOK
  <2>2. PortsRead'
    BY <1>0, <1>1, <1>3 DEF PortsRead, Serving, ServerPortText, PortText, get_env_or
  <2>3. FlagTrue' /\ DoneThere'
    BY <1>0, <1>1, <1>2, <1>3 DEF FlagTrue, DoneThere
  <2>4. ExitHonest'
    BY <1>0, <1>1, <1>2, <1>3 DEF ExitHonest
  <2> QED
    BY <1>3, <2>1, <2>2, <2>3, <2>4 DEF DriversInv
<1>4. ASSUME UNCHANGED <<options, from_args, i>>, Throw PROVE DriversInv'
  <2>1. ParseInv' /\ Parsed' /\ cli' = "exited" /\ code' = 1
    BY <1>0, <1>1, <1>4, ParseSame, ParsedSame DEF Throw, Exit
  <2> QED
    BY <1>0, <1>3, <1>4, <2>1 DEF DriversTypeOK, OptionsRecord
<1>5. CASE ArgHelp
  <2>1. cli' = "help" /\ options' = [options EXCEPT !.command = "help"] /\ UNCHANGED <<i, from_args, code>>
    BY <1>5 DEF ArgHelp
  <2>2. OptionsRecord' /\ options'.port = options.port
    BY <1>0, <2>1 DEF OptionsRecord
  <2>3. ParseInv' /\ Parsed'
    BY <2>1 DEF ParseInv, Parsed, ParsedAsMeant
  <2> QED
    BY <1>0, <1>2, <1>3, <2>1, <2>2, <2>3 DEF DriversTypeOK
<1>6. CASE ArgHost \/ ArgHostIs \/ ArgPort \/ ArgPortIs
  <2>1. (UNCHANGED <<cli, code>>) \/ (Throw /\ UNCHANGED <<options, from_args, i>>)
    BY <1>6 DEF ArgHost, ArgHostIs, ArgPort, ArgPortIs, SetHost, SetPort
  <2>2. CASE UNCHANGED <<cli, code>>
    <3>1. Parsed'
      BY <1>2, <2>2 DEF Parsed, ParsedAsMeant
    <3> QED
      BY <1>0, <1>1, <1>2, <1>3, <1>6, <2>2, <3>1, OptionKeepsParse
  <2> QED
    BY <1>4, <2>1, <2>2
<1>7. CASE ArgNoValue \/ NoCommand
  BY <1>4, <1>7 DEF ArgNoValue, NoCommand
<1>8. CASE ArgCommand
  <2>1. CASE cli' # "exited"
    <3>1. /\ Parsed' /\ OptionsRecord'
          /\ i' \in 1 .. Len(argv) + 1 /\ options'.port \in PortRange
          /\ cli' \in {"help", "connect"} /\ UNCHANGED <<code, from_args>>
          /\ ~from_args'.port => options'.port = Numerals[PortText].value
      BY <1>0, <1>1, <1>8, <2>1, CommandParsed
    <3>2. ParseInv'
      BY <3>1 DEF ParseInv
    <3> QED
      BY <1>0, <1>2, <1>3, <3>1, <3>2 DEF DriversTypeOK
  <2>2. CASE cli' = "exited"
    BY <1>4, <1>8, <2>2 DEF ArgCommand
  <2> QED
    BY <2>1, <2>2
<1> QED
  BY <1>5, <1>6, <1>7, <1>8 DEF ParseStep

LEMMA CliKeepsInv ==
  ASSUME DriversInv, CliStep
  PROVE  DriversInv'
<1>0. DriversTypeOK /\ OptionsRecord /\ PortsRead /\ ParseInv /\ Parsed /\ FlagTrue /\ DoneThere /\ ExitHonest
  BY DEF DriversInv
<1>1. UNCHANGED <<env, server, server_port, pending, busy, argv, i, options, from_args, should_run, interrupted>>
  BY DEF CliStep
<1>2. CommandAt' = CommandAt
  BY <1>1, SameMeaning
<1>3. CliRuns
  BY DEF CliStep
<1> USE DEF Exit, Throw, Close
(* Where the step leads.                                                   *)
<1>4. /\ cli' \in {"command", "subscribed", "loop", "poll", "nap", "closing", "exited"} /\ cli' # cli
      /\ cli' = "command" => cli = "connect"
      /\ cli' \in {"subscribed", "loop", "poll", "nap"} => cli \in {"command", "subscribed", "loop", "poll", "nap"}
      /\ cli' \in {"closing", "exited"} \/ code' = code
      /\ code' \in {0, 1} /\ did' \in {"nothing", "help", "published", "subscribed", "disconnected"}
  <2>1. code \in {0, 1} /\ did \in {"nothing", "help", "published", "subscribed", "disconnected"}
    BY <1>0 DEF DriversTypeOK
  <2> QED
    BY <1>3, <2>1 DEF CliRuns, PrintUsage, Connect, ConnectFails, Publish, Subscribe, CommandThrows,
         SetupCli, EnterPoll, PollCli, WakeUp, LeaveLoopCli, Disconnected, Closed
<1>5. ParseInv'
  BY <1>0, <1>1, <1>4, ParseSame
<1>6. Parsed'
  BY <1>0, <1>1, <1>4, ParsedSame
<1>7. DriversTypeOK' /\ OptionsRecord'
  BY <1>0, <1>1, <1>4 DEF DriversTypeOK, OptionsRecord
<1>8. PortsRead'
  BY <1>0, <1>1, <1>4 DEF PortsRead, Serving, ServerPortText, PortText, get_env_or
<1>9. FlagTrue'
  BY <1>0, <1>1, <1>3, <1>4 DEF FlagTrue, CliRuns, PrintUsage, Connect, ConnectFails, Publish,
       Subscribe, CommandThrows, SetupCli, EnterPoll, PollCli, WakeUp, LeaveLoopCli, Disconnected, Closed
<1>10. DoneThere'
  BY <1>0, <1>1, <1>3, <1>4 DEF DoneThere, FlagTrue, CliRuns, PrintUsage, Connect, ConnectFails, Publish,
       Subscribe, CommandThrows, SetupCli, EnterPoll, PollCli, WakeUp, LeaveLoopCli, Disconnected, Closed
(* How many arguments the command has.                                     *)
<1>11. cli = "command" => /\ options.command = argv[CommandAt] /\ CommandAt \in Nat /\ Len(argv) \in Nat
                          /\ Len(options.args) = Len(argv) - CommandAt
  <2>1. SUFFICES ASSUME cli = "command"
                 PROVE  /\ options.command = argv[CommandAt] /\ CommandAt \in Nat /\ Len(argv) \in Nat
                        /\ Len(options.args) = Len(argv) - CommandAt
    OBVIOUS
  <2>2. argv \in Seq(STRING) /\ Len(argv) \in Nat
    BY <1>0, DriversAssumption DEF DriversTypeOK
  <2>3. /\ CommandAt \in 1 .. Len(argv) /\ options.command = argv[CommandAt]
        /\ options.args = SubSeq(argv, CommandAt + 1, Len(argv))
    BY <1>0, <2>1 DEF Parsed, ParsedAsMeant
  <2>4. PICK c \in 1 .. Len(argv) : CommandAt = c
    BY <2>3
  <2>5. Len(SubSeq(argv, c + 1, Len(argv))) = Len(argv) - c
    BY <2>2, <2>4
  <2> QED
    BY <2>2, <2>3, <2>4, <2>5
<1>12. did' = "published" => argv[CommandAt] = "pub" /\ CommandAt + 2 <= Len(argv)
  <2>1. SUFFICES ASSUME did' = "published" PROVE argv[CommandAt] = "pub" /\ CommandAt + 2 <= Len(argv)
    OBVIOUS
  <2>2. CASE did = "published"
    BY <1>0, <2>2 DEF ExitHonest
  <2>3. CASE Publish
    <3>1. cli = "command" /\ options.command = "pub" /\ Len(options.args) >= 2
      BY <2>3 DEF Publish, PubArgs
    <3> QED
      BY <1>11, <3>1
  <2> QED
    BY <1>3, <2>1, <2>2, <2>3 DEF CliRuns, PrintUsage, Connect, ConnectFails, Subscribe, CommandThrows,
         SetupCli, EnterPoll, PollCli, WakeUp, LeaveLoopCli, Disconnected, Closed
<1>13. did' \in {"subscribed", "disconnected"} => argv[CommandAt] = "sub" /\ CommandAt + 1 = Len(argv)
  <2>1. SUFFICES ASSUME did' \in {"subscribed", "disconnected"}
                 PROVE  argv[CommandAt] = "sub" /\ CommandAt + 1 = Len(argv)
    OBVIOUS
  <2>2. CASE did \in {"subscribed", "disconnected"}
    BY <1>0, <2>2 DEF ExitHonest
  <2>3. CASE Subscribe
    <3>1. cli = "command" /\ options.command = "sub" /\ Len(options.args) = 1
      BY <2>3 DEF Subscribe, SubArgs
    <3> QED
      BY <1>11, <3>1
  <2>4. CASE Disconnected
    BY <1>0, <2>2, <2>4 DEF Disconnected, DoneThere
  <2> QED
    BY <1>3, <2>1, <2>2, <2>3, <2>4 DEF CliRuns, PrintUsage, Connect, ConnectFails, Publish, CommandThrows,
         SetupCli, EnterPoll, PollCli, WakeUp, LeaveLoopCli, Closed
<1>14. ExitHonest'
  BY <1>1, <1>2, <1>10, <1>12, <1>13 DEF ExitHonest, DoneThere
<1> QED
  BY <1>5, <1>6, <1>7, <1>8, <1>9, <1>10, <1>14 DEF DriversInv

LEMMA SigintKeepsInv ==
  ASSUME DriversInv, NEW p \in Programs, Sigint(p)
  PROVE  DriversInv'
<1>0. DriversTypeOK /\ OptionsRecord /\ PortsRead /\ ParseInv /\ Parsed /\ FlagTrue /\ DoneThere /\ ExitHonest
  BY DEF DriversInv
<1>1. /\ UNCHANGED <<env, server_port, pending, busy, argv, i, options, from_args, code, did>>
      /\ cli' = cli \/ cli' = "killed"
  BY DEF Sigint
<1>2. ParseInv' /\ Parsed'
  BY <1>0, <1>1, ParseSame, ParsedSame
<1>3. DriversTypeOK'
  <2>1. server' \in {server, "killed"} /\ interrupted' \subseteq Programs
        /\ should_run' \in [Programs -> BOOLEAN]
    BY <1>0 DEF Sigint, DriversTypeOK
  <2> QED
    BY <1>0, <1>1, <2>1 DEF DriversTypeOK
<1>4. OptionsRecord' /\ PortsRead'
  BY <1>0, <1>1 DEF Sigint, OptionsRecord, PortsRead, Serving, ServerPortText, PortText, get_env_or
<1>5. FlagTrue'
  BY <1>0 DEF Sigint, FlagTrue, Handled, Programs, DriversTypeOK
<1>6. DoneThere'
  BY <1>0, <1>1 DEF DoneThere, Sigint
<1>7. (cli' = "exited" => cli = "exited") /\ interrupted \subseteq interrupted'
  BY <1>1 DEF Sigint
<1>8. ExitHonest'
  BY <1>0, <1>1, <1>7, SameMeaning DEF ExitHonest
<1> QED
  BY <1>2, <1>3, <1>4, <1>5, <1>6, <1>8 DEF DriversInv

LEMMA InitDriversInv == DriversInit => DriversInv
<1> SUFFICES ASSUME DriversInit PROVE DriversInv
  OBVIOUS
<1>0. /\ argv \in Argvs /\ i = 1 /\ cli = "parse" /\ server = "start" /\ code = 0
      /\ did = "nothing" /\ interrupted = {}
  BY DEF DriversInit
<1>1. argv \in Seq(STRING) /\ Len(argv) \in Nat
  BY <1>0, DriversAssumption
<1>2. /\ options.host = "localhost" /\ options.port = 6767 /\ OptionsRecord
      /\ ~from_args.host /\ ~from_args.port /\ from_args \in [host: BOOLEAN, port: BOOLEAN]
      /\ should_run["cli"] /\ should_run \in [Programs -> BOOLEAN]
  <2> DEFINE none == ""
  <2>1. options = [host |-> "localhost", port |-> 6767, command |-> none, args |-> <<>>]
    BY DEF DriversInit
  <2> HIDE DEF none
  <2>2. options.host = "localhost" /\ options.port = 6767 /\ OptionsRecord
    BY <2>1 DEF OptionsRecord
  <2>3. from_args = [host |-> FALSE, port |-> FALSE]
    BY DEF DriversInit
  <2>4. ~from_args.host /\ ~from_args.port /\ from_args \in [host: BOOLEAN, port: BOOLEAN]
    BY <2>3
  <2>5. should_run["cli"] /\ should_run \in [Programs -> BOOLEAN]
    BY DEF DriversInit, Programs
  <2> QED
    BY <2>2, <2>4, <2>5
<1>6. DriversTypeOK
  <2>1. server_port = 0 /\ pending = 0 /\ busy \in BOOLEAN /\ env \in [host: EnvHosts, port: EnvPorts]
    BY DEF DriversInit
  <2>2. i \in 1 .. Len(argv) + 1 /\ 0 \in 0 .. MaxPending /\ 0 \in PortRange /\ 6767 \in PortRange
    BY <1>0, <1>1, DriversAssumption DEF PortRange
  <2> QED
    BY <1>0, <1>2, <2>1, <2>2 DEF DriversTypeOK
<1>3. PortsRead /\ Parsed /\ FlagTrue /\ DoneThere /\ ExitHonest
  BY <1>0, <1>2 DEF PortsRead, Serving, Parsed, ParsedAsMeant, FlagTrue, DoneThere, ExitHonest
<1>4. AtWord
  <2>1. Run(1, 0)
    BY DEF Run
  <2> QED
    BY <1>0, <2>1, Parity DEF AtWord
<1>5. WordsRead /\ HostSoFar /\ PortSoFar
  BY <1>0, <1>2 DEF WordsRead, HostSoFar, PortSoFar
<1> QED
  BY <1>2, <1>3, <1>4, <1>5, <1>6 DEF DriversInv, ParseInv

(* The inductive invariant of the drivers: what parse_options has read of  *)
(* the command line so far, what the two programs made of it and of the    *)
(* environment, and what the exit code will say.                           *)
THEOREM DriversInvariant == DriversSpec => []DriversInv
<1>1. DriversInv /\ [DriversNext]_vars => DriversInv'
  <2> SUFFICES ASSUME DriversInv, [DriversNext]_vars PROVE DriversInv'
    OBVIOUS
  <2>1. CASE UNCHANGED vars
    <3>1. ParseInv' /\ Parsed'
      BY <2>1, ParseSame, ParsedSame DEF DriversInv
    <3>2. DriversTypeOK' /\ OptionsRecord' /\ PortsRead' /\ FlagTrue' /\ DoneThere'
      BY <2>1 DEF DriversInv, DriversTypeOK, OptionsRecord, PortsRead, Serving, ServerPortText,
           PortText, get_env_or, FlagTrue, DoneThere
    <3>3. ExitHonest'
      BY <2>1, SameMeaning DEF DriversInv, ExitHonest
    <3> QED
      BY <3>1, <3>2, <3>3 DEF DriversInv
  <2> QED
    BY <2>1, ServerKeepsInv, ParseKeepsInv, CliKeepsInv, SigintKeepsInv DEF DriversNext
<1> QED
  BY <1>1, InitDriversInv, PTL DEF DriversSpec

(* The state of the two programs is well typed; in particular the port the *)
(* client goes on with is in range and its index never leaves the command  *)
(* line, whatever flag is its last word.                                   *)
THEOREM DriversTypeCorrect == DriversSpec => []DriversTypeOK
<1>1. DriversInv => DriversTypeOK
  BY DEF DriversInv
<1> QED
  BY <1>1, DriversInvariant, PTL

(* Whatever the command line and the environment, a client that connects   *)
(* does so with the command, the arguments, the host and the port that the *)
(* README says they mean.                                                  *)
THEOREM CommandLineIsUnderstood == DriversSpec => []ParsedAsMeant
<1>1. DriversInv => ParsedAsMeant
  BY DEF DriversInv, Parsed
<1> QED
  BY <1>1, DriversInvariant, PTL

(* The exit code of the command line client tells what it has done,        *)
(* whenever SIGINT comes, between the test of should_run and a process()   *)
(* that throws as well, and wherever it fails.                             *)
THEOREM ExitCodeIsHonest == DriversSpec => []ExitHonest
<1>1. DriversInv => ExitHonest
  BY DEF DriversInv
<1> QED
  BY <1>1, DriversInvariant, PTL

(* Without a port flag, client and server agree on the port, although one  *)
(* reads SPRAYBUS_PORT strictly and the other does not.                    *)
THEOREM PortsMeet == DriversSpec => []SamePort
<1>1. DriversInv => SamePort
  BY DEF DriversInv, PortsRead, SamePort, ServerPortText, PortText
<1> QED
  BY <1>1, DriversInvariant, PTL
=============================================================================
