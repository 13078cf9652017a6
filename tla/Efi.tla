-------------------------------- MODULE Efi --------------------------------
(***************************************************************************)
(* efi/start_main.c: the life of an image, how the write hooks print on    *)
(* the console, and how main() gets its arguments.  A write neither starts *)
(* nor ends a frame, arguments are retrieved before there is one, and they *)
(* share no state, so a behaviour is of one of them, chosen at the start.  *)
(***************************************************************************)
EXTENDS Integers, Sequences

CONSTANTS
  Chunk, Texts,   \* of EfiConsole
  ExitCodes,      \* of EfiStart
  PtrSize, Argvs  \* of EfiArgv

VARIABLES part, s8, size, pos, s16, console, taken, result,
          frames, exc_jmp_buf, main_retval, err, status, methods, ended, crashed,
          Argv, data, i, buff, argc, argv, step

Console == INSTANCE EfiConsole
Start == INSTANCE EfiStart
Arguments == INSTANCE EfiArgv

ASSUME EfiAssumption ==
  /\ Console!EfiConsoleAssumption /\ Start!EfiStartAssumption
  /\ Arguments!EfiArgvAssumption

consoleVars == <<s8, size, pos, s16, console, taken, result>>
startVars == <<frames, exc_jmp_buf, main_retval, err, status, methods, ended, crashed>>
argvVars == <<Argv, data, i, buff, argc, argv, step>>
vars == <<part, consoleVars, startVars, argvVars>>
Off == "off"

ConsoleOff ==
  /\ s8 = Off /\ size = Off /\ pos = Off /\ s16 = Off /\ console = Off
  /\ taken = Off /\ result = Off
ArgvOff ==
  /\ Argv = Off /\ data = Off /\ i = Off /\ buff = Off /\ argc = Off /\ argv = Off
  /\ step = Off

Init ==
  /\ Start!Init
  /\ part \in {"console", "start", "argv"}
  /\ IF part = "console" THEN Console!Init ELSE ConsoleOff
  /\ IF part = "argv" THEN Arguments!Init ELSE ArgvOff

ConsoleStep == part = "console" /\ Console!Next /\ UNCHANGED <<part, startVars, argvVars>>
StartStep == part = "start" /\ Start!Next /\ UNCHANGED <<part, consoleVars, argvVars>>
ArgvStep == part = "argv" /\ Arguments!Next /\ UNCHANGED <<part, consoleVars, startVars>>

Next == ConsoleStep \/ StartStep \/ ArgvStep

(* A write that has begun goes on by itself.                               *)
Spec == Init /\ [][Next]_vars /\ WF_vars(ConsoleStep)

(* The wide string of a chunk fits in its buffer and is terminated.        *)
WideStringOK == part = "console" => Console!WideStringOK

(* The console shows the text to its first NUL, wherever the chunks fall.  *)
ShowsText == part = "console" => Console!ShowsText

(* A write returns.                                                        *)
Returns == <>(part = "console" => result >= 0)

(* The EFI status tells how main() ended.                                  *)
StatusTellsResult == Start!StatusTellsResult

(* An exit() ends the call it was made in, in a frame that is alive.       *)
CaughtByOwnTry == Start!CaughtByOwnTry

(* main() gets the shell's arguments as C says.                            *)
ArgvExact == part = "argv" => Arguments!ArgvExact
=============================================================================
