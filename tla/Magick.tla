------------------------------- MODULE Magick -------------------------------
(***************************************************************************)
(* The GraphicsMagick glue (src/modules/media/magick.cc).  The library     *)
(* keeps one process-wide table of handlers for warnings, errors and fatal *)
(* errors.  call, callex and callpf save the table, install the module's   *)
(* handlers, run a library function f and restore the saved handlers in an *)
(* unwind, on return and when an exception leaves the frame; callpf runs f *)
(* through call, so two frames are stacked.  callex gives f an             *)
(* ExceptionInfo and passes it to CatchException, which calls the handler  *)
(* installed for the recorded severity; its error handler throws.  While f *)
(* runs, the library may also call an installed handler itself.            *)
(* handle_fatal logs and terminates the process.  The module's init and    *)
(* fini start and stop the library.  All of it runs on one thread and f    *)
(* does not suspend, so a call is a sequence of steps nothing interleaves. *)
(***************************************************************************)
EXTENDS Naturals, Sequences

Slots == {"warning", "fatal", "error"}

\* The handlers in force before any call of the module: the library's own.
AppHandlers == [s \in Slots |-> "default"]

Handlers == {"default", "handle_warning", "handle_fatal", "handle_error",
             "handle_exception"}

\* ExceptionType severities, as CatchException sorts them.
Severities == {"none", "warning", "error", "fatal"}

Fns == {"callex", "callpf", "call"}

VARIABLES
    loaded,  \* magick::init ran and fini did not (the library is up)
    logm,    \* the library's log method
    h,       \* the library's handler table
    frames,  \* the call/callex/callpf frames: the function and the saved table
    pc,      \* idle | pf | f | catch | ret | pfret | unwind | dead
    ei,      \* the severity recorded in callex's ExceptionInfo
    eiLive,  \* the ExceptionInfo is allocated (GetExceptionInfo)
    ok,      \* what f returned (callpf tests it)
    out      \* how the last outermost call ended

vars == <<loaded, logm, h, frames, pc, ei, eiLive, ok, out>>

MagickTypeOK ==
    /\ loaded \in BOOLEAN
    /\ logm \in {"default", "handle_log"}
    /\ h \in [Slots -> Handlers]
    /\ frames \in Seq([fn : Fns, saved : [Slots -> Handlers]])
    /\ pc \in {"idle", "pf", "f", "catch", "ret", "pfret", "unwind", "dead"}
    /\ ei \in Severities
    /\ eiLive \in BOOLEAN
    /\ ok \in BOOLEAN
    /\ out \in {"none", "returned", "threw"}

Top == frames[Len(frames)]

\* What calling the handler hd does: log and return, throw error, or
\* terminate (handle_log, handle_warning, handle_error log;
\* handle_exception throws error; handle_fatal calls ircd::terminate).
Effect(hd) ==
    CASE hd = "handle_exception" -> "throw"
      [] hd = "handle_fatal"     -> "terminate"
      [] OTHER                   -> "log"

\* Mutant: the pc of the two outcomes swapped.
AfterSwapped(e, next) == IF e = "throw" THEN next ELSE "throw"

\* The pc after a handler with effect e returned or threw.
After(e, next) == IF e = "throw" THEN "unwind" ELSE next

\* Mutant: callex installs handle_error, as call and callpf do.
InstalledNoThrow(fn) ==
    [warning |-> "handle_warning", fatal |-> "handle_fatal",
     error   |-> "handle_error"]

\* The three Set*Handler calls at the top of each function.
Installed(fn) ==
    [warning |-> "handle_warning", fatal |-> "handle_fatal",
     error   |-> IF fn = "callex" THEN "handle_exception" ELSE "handle_error"]

\* Push a frame that saves the table, and install fn's handlers.
Push(fn) ==
    /\ frames' = Append(frames, [fn |-> fn, saved |-> h])
    /\ h' = Installed(fn)

\* The frame's unwind reset: Set*Handler back to the saved handlers.
Reset(fr) == fr.saved

Init ==
    /\ loaded = FALSE /\ logm = "default"
    /\ h = AppHandlers
    /\ frames = <<>> /\ pc = "idle"
    /\ ei = "none" /\ eiLive = FALSE /\ ok = FALSE
    /\ out = "none"

\* magick::init: (version check, logged) InitializeMagick; SetLogMethod.
MagickInit ==
    /\ ~loaded /\ pc = "idle"
    /\ loaded' = TRUE /\ logm' = "handle_log"
    /\ UNCHANGED <<h, frames, pc, ei, eiLive, ok, out>>

\* magick::fini: DestroyMagick; the log method is left as it is.
MagickFini ==
    /\ loaded /\ pc = "idle"
    /\ loaded' = FALSE
    /\ UNCHANGED <<logm, h, frames, pc, ei, eiLive, ok, out>>

\* An outermost call of callex, callpf or call.  callex also runs
\* GetExceptionInfo(&ei) before f.
Enter(fn) ==
    /\ loaded /\ pc = "idle"
    /\ Push(fn)
    /\ pc' = IF fn = "callpf" THEN "pf" ELSE "f"
    /\ IF fn = "callex" THEN ei' = "none" /\ eiLive' = TRUE
                        ELSE UNCHANGED <<ei, eiLive>>
    /\ UNCHANGED <<loaded, logm, ok, out>>

\* callpf: if(!call(f, a...)): call pushes its own frame.
CallpfCall ==
    /\ pc = "pf"
    /\ Push("call")
    /\ pc' = "f"
    /\ UNCHANGED <<loaded, logm, ei, eiLive, ok, out>>

\* f returns r; under callex it may have recorded severity rec in ei.
\* A handler the library called inside f and that returned only logged.
FReturn ==
    /\ pc = "f"
    /\ \E r \in BOOLEAN, rec \in Severities :
        /\ ok' = r
        /\ IF Top.fn = "callex" THEN ei' = rec /\ pc' = "catch"
                                ELSE ei' = ei /\ pc' = "ret"
    /\ UNCHANGED <<loaded, logm, h, frames, eiLive, out>>

\* Inside f the library calls the installed error or fatal handler itself:
\* handle_error logs and f goes on (FReturn); handle_exception throws out
\* of f; handle_fatal terminates.
FRaise ==
    /\ pc = "f"
    /\ \E s \in {"error", "fatal"} :
        /\ Effect(h[s]) # "log"
        /\ pc' = IF Effect(h[s]) = "throw" THEN "unwind" ELSE "dead"
    /\ UNCHANGED <<loaded, logm, h, frames, ei, eiLive, ok, out>>

\* CatchException(&ei): the warning, error or fatal handler for the
\* recorded severity, nothing when none was recorded.
Catch ==
    /\ pc = "catch"
    /\ LET e == IF ei = "none" THEN "log" ELSE Effect(h[ei])
       IN  pc' = IF e = "terminate" THEN "dead" ELSE After(e, "ret")
    /\ UNCHANGED <<loaded, logm, h, frames, ei, eiLive, ok, out>>

\* Return through the top frame: callex's unwinds DestroyExceptionInfo and
\* reset run in reverse order of construction; call's reset; callpf's call
\* returned to callpf, which tests ok next.
Ret ==
    /\ pc = "ret"
    /\ h' = Reset(Top)
    /\ frames' = SubSeq(frames, 1, Len(frames) - 1)
    /\ IF Top.fn = "callex" THEN eiLive' = FALSE ELSE UNCHANGED eiLive
    /\ IF Len(frames) = 1
       THEN pc' = "idle" /\ out' = "returned"
       ELSE pc' = "pfret" /\ UNCHANGED out
    /\ UNCHANGED <<loaded, logm, ei, ok>>

\* callpf: throw error{} when call returned false; else return through
\* callpf's reset.
PfRet ==
    /\ pc = "pfret"
    /\ IF ok
       THEN /\ h' = Reset(Top)
            /\ frames' = <<>>
            /\ pc' = "idle" /\ out' = "returned"
       ELSE /\ pc' = "unwind"
            /\ UNCHANGED <<h, frames, out>>
    /\ UNCHANGED <<loaded, logm, ei, eiLive, ok>>

\* Mutant: the handlers are put back on return only, not by an unwind.
UnwindNoReset ==
    /\ pc = "unwind"
    /\ frames' = SubSeq(frames, 1, Len(frames) - 1)
    /\ IF Top.fn = "callex" THEN eiLive' = FALSE ELSE UNCHANGED eiLive
    /\ IF Len(frames) = 1 THEN pc' = "idle" /\ out' = "threw"
                          ELSE UNCHANGED <<pc, out>>
    /\ UNCHANGED <<loaded, logm, h, ei, ok>>

\* Mutant: the ExceptionInfo is destroyed on return only.
UnwindNoDestroy ==
    /\ pc = "unwind"
    /\ h' = Reset(Top)
    /\ frames' = SubSeq(frames, 1, Len(frames) - 1)
    /\ IF Len(frames) = 1 THEN pc' = "idle" /\ out' = "threw"
                          ELSE UNCHANGED <<pc, out>>
    /\ UNCHANGED <<loaded, logm, eiLive, ei, ok>>

\* An exception (error) leaves the top frame: its unwinds run; at the
\* outermost frame it reaches the caller.
Unwind ==
    /\ pc = "unwind"
    /\ h' = Reset(Top)
    /\ frames' = SubSeq(frames, 1, Len(frames) - 1)
    /\ IF Top.fn = "callex" THEN eiLive' = FALSE ELSE UNCHANGED eiLive
    /\ IF Len(frames) = 1 THEN pc' = "idle" /\ out' = "threw"
                          ELSE UNCHANGED <<pc, out>>
    /\ UNCHANGED <<loaded, logm, ei, ok>>

Next ==
    \/ MagickInit \/ MagickFini
    \/ \E fn \in Fns : Enter(fn)
    \/ CallpfCall \/ FReturn \/ FRaise \/ Catch \/ Ret \/ PfRet \/ Unwind

\* ircd::terminate() ends the process: pc = "dead" has no successor.
Spec == Init /\ [][Next]_vars

-----------------------------------------------------------------------------
(* Properties                                                              *)

\* Whatever the library did inside f, and whichever way the outermost call
\* ended (return, error from CatchException or from the library's own
\* handler call, callpf's throw on false), the handler table is the one
\* the call found: call/callex/callpf's unwind resets restore it.
HandlersRestored == pc = "idle" => h = AppHandlers

\* callex's ExceptionInfo is destroyed however callex ends.
ExceptionInfoDestroyed == pc = "idle" => ~eiLive

\* callex surfaces an error recorded in its ExceptionInfo: it returns
\* only when CatchException found no error (its handle_exception threw
\* otherwise, and a fatal one terminated).
CallexErrorThrows ==
    [][(pc = "ret" /\ Top.fn = "callex") => ei \in {"none", "warning"}]_vars

=============================================================================
