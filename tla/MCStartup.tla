----------------------------- MODULE MCStartup -----------------------------
(* Files of up to three lines, any of them blank, without value, or repeated. *)
EXTENDS Startup

Number ==
    [word \in {"", "text", "INFO", "8080", "40000", "-5", "3", "0"} |->
        CASE word = "8080" -> 8080 [] word = "40000" -> 40000 [] word = "-5" -> -5
          [] word = "3" -> 3 [] OTHER -> 0]
Words == DOMAIN Number
LevelWords == {"INFO", "ERROR", "FATAL"} \cap Words

Line(key, value) == [key |-> key, value |-> value]
Lines ==
    {Line("", ""), Line("log", "text"), Line("log", ""), Line("logLevel", "INFO")}
        \cup {Line("port", value) : value \in {"", "8080", "40000", "-5"}}
        \cup {Line("processorCount", value) : value \in {"3", "0", "-5"}}

Sheets == BoundedSeq(Lines, 3)
Shorts == {-1, 8080}
=============================================================================
