----------------------------- MODULE MCDrivers ------------------------------
(* Module Drivers for TLC: up to two option words, well or badly formed,   *)
(* before command lines of every shape.                                    *)
EXTENDS Drivers, SequencesExt

OptionWords == {"-h", "-H", "--host=far", "-p", "--port=1", "1x"}
CommandLines ==
  {<<>>, <<"">>, <<"help">>, <<"pub", "t">>, <<"pub", "t", "m", "--port=1">>,
   <<"sub", "t">>, <<"sub", "-h", "t">>, <<"-p", "1", "-H", "localhost", "sub", "t">>}

MCArgvs == {words \o line : words \in BoundedSeq(OptionWords, 2), line \in CommandLines}
MCHostIs == [word \in {"--host=far"} |-> "far"]
MCPortIs == [word \in {"--port=1"} |-> "1"]
MCNumerals ==
  [text \in {"6767", "1", "1x", "70000", "0"} |->
     [value |-> CASE text = "6767" -> 6767 [] text = "70000" -> 70000 [] text = "0" -> 0
                  [] OTHER -> 1,
      whole |-> text # "1x"]]
=============================================================================
