------------------------------ MODULE EfiArgv -------------------------------
(***************************************************************************)
(* retrieve_argv() of efi/start_main.c: the UCS-2 arguments of the shell   *)
(* become argc and argv of main(), the pointers, their NULL and the        *)
(* strings in one block.                                                   *)
(***************************************************************************)
EXTENDS Integers, Sequences, SequencesExt

CONSTANTS
  Argvs,   \* arguments of the shell: sequences of sequences of characters
  PtrSize  \* sizeof(char *)

EfiArgvAssumption == PtrSize \in Nat \ {0} /\ \A x \in Argvs : x \in Seq(Seq(1 .. 65535))

VARIABLES
  Argv,    \* the shell's arguments
  data,    \* the cells of the block, << >> while there is none
  i,       \* the argument the last loop is at
  buff,    \* where its next character goes
  argc,    \* what is returned
  argv,    \* the address of the block handed out, 0 for NULL, or 1
  step

vars == <<Argv, data, i, buff, argc, argv, step>>

NULL == 0
Garbage == -1

Init ==
  /\ Argv \in Argvs
  /\ data = << >> /\ i = 0 /\ buff = 0 /\ argc = 0 /\ argv = NULL /\ step = "ask"

Fail == step' = "returned" /\ argc' = -1 /\ UNCHANGED <<data, i, buff, argv>>

PtrsSizeNoNull == Len(Argv) * PtrSize
PtrsSize == (Len(Argv) + 1) * PtrSize

(* The shell has no arguments to tell, there is none, or malloc fails.     *)
Allocate ==
  /\ step = "ask"
  /\ LET sz == Len(FlattenSeq([j \in DOMAIN Argv |-> Append(Argv[j], 0)])) IN
     \/ Fail
     \/ /\ sz > 0
        /\ data' = [c \in 1 .. (PtrsSize + sz) |-> Garbage]
        /\ argv' = 1 /\ buff' = PtrsSize + 1 /\ i' = 0
        /\ step' = "copy" /\ UNCHANGED argc
  /\ UNCHANGED Argv

(* A store of xs at cell c on; behind the block it would be an error.      *)
Stored(block, c, xs) ==
  [j \in 1 .. (IF c + Len(xs) - 1 > Len(block) THEN c + Len(xs) - 1 ELSE Len(block)) |->
     IF j \in c .. (c + Len(xs) - 1) THEN xs[j - c + 1] ELSE block[j]]

Pointer(address) == [c \in 1 .. PtrSize |-> address]

(* argv[i] and its string, each character narrowed to a byte.              *)
CopyString ==
  /\ step = "copy" /\ i < Len(Argv)
  /\ LET bytes == [j \in DOMAIN Argv[i + 1] |-> Argv[i + 1][j] % 256] IN
     /\ data' = Stored(Stored(data, i * PtrSize + 1, Pointer(buff)), buff, Append(bytes, 0))
     /\ buff' = buff + Len(bytes) + 1
  /\ i' = i + 1
  /\ UNCHANGED <<Argv, argc, argv, step>>

Finish ==
  /\ step = "copy" /\ i = Len(Argv)
  /\ data' = Stored(data, i * PtrSize + 1, Pointer(NULL))
  /\ argc' = Len(Argv) /\ step' = "returned"
  /\ UNCHANGED <<Argv, i, buff, argv>>

Next == Allocate \/ CopyString \/ Finish

Spec == Init /\ [][Next]_vars

-----------------------------------------------------------------------------
(* Properties.                                                             *)

(* main() gets argc and argv as C says: argv[0] to argv[argc - 1] point to *)
(* the shell's strings, one behind the other, argv[argc] is NULL, and the  *)
(* block is used to its last byte and not beyond.  If there is no such     *)
(* block argc is -1 and argv is NULL.                                      *)
ArgvExact ==
  step = "returned" =>
    IF argc = -1 THEN argv = NULL /\ data = << >>
    ELSE LET pointer(j) == data[j * PtrSize + 1]
             shell == FlattenSeq([j \in DOMAIN Argv |-> Append(Argv[j], 0)])
         IN /\ argc = Len(Argv) /\ pointer(argc) = NULL
            /\ SubSeq(data, (argc + 1) * PtrSize + 1, Len(data)) = shell
            /\ \A j \in 0 .. (argc - 1) :
                 IsPrefix(Append(Argv[j + 1], 0), SubSeq(data, pointer(j), Len(data)))
            /\ \A c \in DOMAIN data : data[c] # Garbage
=============================================================================
