----------------------------- MODULE LogWriter -----------------------------
(***************************************************************************)
(* uv::LogWriter, one for the program: what passes its level goes to the    *)
(* registered interface or to standard output.  Texts are left out.         *)
(***************************************************************************)
EXTENDS Integers, Sequences

Levels == <<"Debug", "Info", "Warn", "Error", "Fatal">>
Debug == 0
Warn == 2
Error == 3
LevelSize == Len(Levels)

\* name: the name last looked up for a message; quieted: history, the level was
\* once above Warn.
NewLog == [level |-> 0, registered |-> FALSE, name |-> "none", quieted |-> FALSE]

registerInterface(log) == [log EXCEPT !.registered = TRUE]

setLevel(log, level) ==
    [log EXCEPT !.level = level, !.quieted = @ \/ level > Warn]

PassesAbove(log, level) == level <= Error /\ level > log.level  \* mutant

\* The test of write(): no Fatal message passes it.
Passes(log, level) == level <= Error /\ level >= log.level /\ level >= Debug

\* One past the last level the name is read beyond the end of the vector.
getLevelName(level) ==
    IF level \in 0..(LevelSize - 1) THEN Levels[level + 1]
    ELSE IF level = LevelSize THEN "beyond" ELSE "NullLevel"

\* Standard output shows the level's name, and so does the interface that
\* examples/all_example registers.
write(log, level) ==
    IF Passes(log, level) THEN [log EXCEPT !.name = getLevelName(level)] ELSE log
=============================================================================
