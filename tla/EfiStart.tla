------------------------------ MODULE EfiStart ------------------------------
(***************************************************************************)
(* efi/start_main.c and efi/gnu_efi_crt.h: the life of a nanolibc image    *)
(* under UEFI.  libnanolibc_start() sets the libC up, runs main() inside a *)
(* TRY block so that exit() can come back to it, and maps the result to an *)
(* EFI status.  The image may stay resident; the firmware then calls       *)
(* methods of it, which run libC code with EFI_NANOLIBC_CALL.              *)
(*                                                                         *)
(* There is one jmp_buf for all TRY blocks.  A longjmp is only sound if    *)
(* the frame that called setjmp is still on the stack, so the model keeps  *)
(* the stack of frames and the position in it of the frame of the last TRY.*)
(***************************************************************************)
EXTENDS Integers, Sequences

CONSTANT ExitCodes  \* the values main() returns and exit() is called with

EfiStartAssumption == ExitCodes \subseteq Int

EXIT_SUCCESS == 0
EXIT_FAILURE == 1
EFI_SUCCESS == "EFI_SUCCESS"
EFI_UNSUPPORTED == "EFI_UNSUPPORTED"
EFI_OUT_OF_RESOURCES == "EFI_OUT_OF_RESOURCES"
FAILURE == "retval_failure"

Running == "running"
UNSET == 0
DEAD == -1

VARIABLES
  frames,       \* the stack: "start", "call_main", "main", "method", "fct"
  exc_jmp_buf,  \* position of the frame of the last TRY, UNSET or DEAD
  main_retval,  \* private_nnlc_efi_context.main_retval
  err,          \* the console behind stderr, "none" before initialization
  status,       \* what libnanolibc_start returned, or Running
  methods,      \* results of the methods that have returned
  ended,        \* {v} once main() has ended, by returning v or by exit(v)
  crashed       \* a longjmp to a frame that is gone, or never was

vars == <<frames, exc_jmp_buf, main_retval, err, status, methods, ended, crashed>>

Top == frames[Len(frames)]

(* The frames above position n return: a TRY in one of them is dead now.   *)
PopTo(n) ==
  /\ frames' = SubSeq(frames, 1, n)
  /\ exc_jmp_buf' = IF exc_jmp_buf > n THEN DEAD ELSE exc_jmp_buf

Init ==
  /\ frames = <<"start">>
  /\ exc_jmp_buf = UNSET
  /\ main_retval = EXIT_FAILURE
  /\ err = "none"
  /\ status = Running
  /\ methods = {}
  /\ ended = {}
  /\ crashed = FALSE

(* libnanolibc_start() gives up without ConOut; StdErr may be missing: the *)
(* write hook of stderr is then that of stdout.  _nnlc_initialize cannot   *)
(* fail (c/libc.c:39).                                                     *)
NoConsole ==
  /\ frames = <<"start">> /\ status = Running /\ err = "none"
  /\ status' = EFI_OUT_OF_RESOURCES
  /\ PopTo(0)
  /\ UNCHANGED <<main_retval, err, methods, ended, crashed>>

Initialize ==
  /\ frames = <<"start">> /\ status = Running /\ err = "none"
  /\ err' \in {"StdErr", "ConOut"}
  /\ UNCHANGED <<frames, exc_jmp_buf, main_retval, status, methods, ended, crashed>>

CallMainUntried ==
  /\ frames = <<"start">> /\ err # "none" /\ ended = {}
  /\ frames' = <<"start", "call_main", "main">>
  /\ main_retval' = EXIT_FAILURE
  /\ UNCHANGED <<exc_jmp_buf, err, status, methods, ended, crashed>>

(* call_main(): TRY, and main() is entered, with or without its arguments. *)
CallMain ==
  /\ frames = <<"start">> /\ err # "none" /\ ended = {}
  /\ frames' = <<"start", "call_main", "main">>
  /\ exc_jmp_buf' = 2
  /\ main_retval' = EXIT_FAILURE
  /\ UNCHANGED <<err, status, methods, ended, crashed>>

MainReturns(v) ==
  /\ frames # << >> /\ Top = "main"
  /\ main_retval' = v
  /\ ended' = {v}
  /\ PopTo(1)
  /\ UNCHANGED <<err, status, methods, crashed>>

(* EFI_NANOLIBC_THROW(): control is back in the frame of the TRY, whose    *)
(* CATCH block ends it: call_main returns, EFI_NANOLIBC_CALL yields        *)
(* retval_failure.                                                         *)
Throw ==
  IF exc_jmp_buf \notin 1 .. Len(frames)
  THEN crashed' = TRUE /\ UNCHANGED <<frames, exc_jmp_buf, methods>>
  ELSE /\ PopTo(exc_jmp_buf - 1)
       /\ methods' = IF frames[exc_jmp_buf] = "method" THEN methods \cup {FAILURE}
                                                       ELSE methods
       /\ UNCHANGED crashed

(* exit(v), and abort() and a failed assert() as exit(-1), called by       *)
(* main() or by the function of a method: efi_exit().                      *)
Exit(v) ==
  /\ frames # << >> /\ Top \in {"main", "fct"}
  /\ ended' = IF Top = "main" THEN {v} ELSE ended
  /\ main_retval' = v
  /\ Throw
  /\ UNCHANGED <<err, status>>

StatusOfExit == IF main_retval = EXIT_FAILURE THEN EFI_UNSUPPORTED ELSE EFI_SUCCESS

Status == IF main_retval # EXIT_SUCCESS THEN EFI_UNSUPPORTED ELSE EFI_SUCCESS

StartReturns ==
  /\ frames = <<"start">> /\ ended # {}
  /\ status' = Status
  /\ PopTo(0)
  /\ UNCHANGED <<main_retval, err, methods, ended, crashed>>

Idle == frames = << >> /\ status \in {EFI_SUCCESS, EFI_UNSUPPORTED}

(* The firmware calls a method, which calls a function of the image with   *)
(* EFI_NANOLIBC_CALL: a TRY of its own.  It "CAN NOT BE NESTED"            *)
(* (gnu_efi_crt.h:47), so the stack is empty then.                         *)
MethodCalled ==
  /\ Idle
  /\ frames' = frames \o <<"method", "fct">>
  /\ exc_jmp_buf' = Len(frames) + 1
  /\ UNCHANGED <<main_retval, err, status, methods, ended, crashed>>

FctReturns(v) ==
  /\ frames # << >> /\ Top = "fct"
  /\ methods' = methods \cup {IF v = 0 THEN EFI_SUCCESS ELSE FAILURE}
  /\ PopTo(Len(frames) - 2)
  /\ UNCHANGED <<main_retval, err, status, ended, crashed>>

Next ==
  /\ ~crashed
  /\ \/ NoConsole
     \/ Initialize
     \/ CallMain
     \/ \E v \in ExitCodes : MainReturns(v)
     \/ \E v \in ExitCodes : Exit(v)
     \/ StartReturns
     \/ MethodCalled
     \/ \E v \in ExitCodes : FctReturns(v)

Spec == Init /\ [][Next]_vars

-----------------------------------------------------------------------------
(* Properties.                                                             *)

(* start_main.c:338-343: the status tells whether main() ended well, by    *)
(* returning or by exit().                                                 *)
StatusTellsResult ==
  status \in {EFI_SUCCESS, EFI_UNSUPPORTED} =>
    (status = EFI_SUCCESS) <=> (ended = {EXIT_SUCCESS})

(* exit() never jumps to a frame that is gone, and is caught by the TRY of *)
(* the call it was made in: wherever libC code runs that may call it, an   *)
(* exit() of a method ends that method and one of main() ends main().      *)
CaughtByOwnTry ==
  [][/\ ~crashed'
     /\ frames # << >> /\ Len(frames') < Len(frames) =>
          \/ Top = "fct" /\ Len(frames') = Len(frames) - 2
          \/ Top = "main" /\ frames' = <<"start">>
          \/ Top = "start" /\ frames' = << >>]_vars
=============================================================================
