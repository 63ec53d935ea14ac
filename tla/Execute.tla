------------------------------ MODULE Execute ------------------------------
(***************************************************************************)
(* fs_execute_command of src/src/process.c: the parent makes a pipe, forks *)
(* a child, writes the input and waits; the child arranges its standard    *)
(* descriptors and becomes the program.  Both are processes with a         *)
(* descriptor table of their own.  The daemon may have been started with   *)
(* any standard descriptor closed, so whatever it opens, its log, a socket *)
(* or an end of the pipe, may get one of the numbers 0 to 2.               *)
(***************************************************************************)
EXTENDS Integers, FiniteSetsExt

CONSTANTS MaxFd,     \* bound: the largest descriptor
          MaxInput,  \* bound: the longest input, in pieces
          PipeSize   \* pieces the kernel buffers in a pipe

ASSUME SizesAssumption == MaxFd \in Nat /\ MaxFd >= 2 /\ MaxInput \in Nat /\ PipeSize \in Nat \ {0}

Fd == 0..MaxFd
Std == 0..2

VARIABLES fds,        \* the parent's descriptors: what each number is open on
          kidfds,     \* the child's
          pc,         \* "idle" "pipe" "move" "fork" "write" "close" "wait"
          kid,        \* "none" "sinks" "stdin" "exec" "program" "exited"
          call,       \* the arguments, and the program's nature
          pipefd,     \* the read and the write end
          left, pipe, got,  \* input still to be written, in the pipe, and read
          io_failed,
          status,     \* how the child ended
          ret,        \* what the last call returned
          before      \* ghost: the parent's descriptors when it was called

parent == <<fds, pc, call, pipefd, left, io_failed, ret, before>>
child  == <<kidfds, kid, got, status>>
vars   == <<parent, child, pipe>>

NoCall == [silent |-> TRUE, input |-> FALSE, length |-> 0, reads |-> FALSE]

(* A program that is given input either reads all of it before it ends, as  *)
(* nft -f - does, or ends when it likes.                                    *)
Calls == {c \in [silent : BOOLEAN, input : BOOLEAN, length : 0..MaxInput, reads : BOOLEAN] :
            ~c.input => c.length = 0 /\ ~c.reads}
-----------------------------------------------------------------------------
Free(t, from)    == {d \in Fd : d >= from /\ t[d] = "closed"}
Lowest(t, from)  == Min(Free(t, from))
Opened(t, what)  == [t EXCEPT ![Lowest(t, 0)] = what]
Close(t, ds)     == [d \in Fd |-> IF d \in ds THEN "closed" ELSE t[d]]

Inherited == [d \in Std |-> CASE d = 0 -> "in" [] d = 1 -> "out" [] d = 2 -> "err"]
Started(open) == [d \in Fd |-> IF d \in open THEN Inherited[d] ELSE "closed"]

Init ==
  /\ \E open \in SUBSET Std :
       fds \in {Started(open), Opened(Started(open), "log"), Opened(Started(open), "socket"),
                Opened(Opened(Started(open), "log"), "socket")}
  /\ kidfds = [d \in Fd |-> "closed"]
  /\ pc = "idle" /\ kid = "none" /\ call = NoCall
  /\ pipefd = <<-1, -1>>
  /\ left = 0 /\ pipe = 0 /\ got = 0
  /\ io_failed = FALSE /\ status = "none" /\ ret = 0
  /\ before = fds

Call(c) ==
  /\ pc = "idle"
  /\ call' = c
  /\ pc' = IF c.input THEN "pipe" ELSE "fork"
  /\ pipefd' = <<-1, -1>>
  /\ left' = c.length /\ pipe' = 0 /\ got' = 0
  /\ io_failed' = FALSE /\ status' = "none" /\ kid' = "none"
  /\ before' = fds
  /\ UNCHANGED <<fds, kidfds, ret>>

Return(rc) == pc' = "idle" /\ ret' = rc

Pipe ==
  /\ pc = "pipe" /\ Cardinality(Free(fds, 0)) >= 2
  /\ LET r == Lowest(fds, 0)
         w == Lowest(fds, r + 1)
     IN  /\ pipefd' = <<r, w>>
         /\ fds' = [fds EXCEPT ![r] = "read end", ![w] = "write end"]
  /\ pc' = "move"
  /\ UNCHANGED <<call, left, io_failed, ret, before, child, pipe>>

PipeFails ==
  /\ pc = "pipe" /\ Return(-1)
  /\ UNCHANGED <<fds, call, pipefd, left, io_failed, before, child, pipe>>

Low == {k \in 1..2 : pipefd[k] \in Std}

(* Mutants: only a read end on stdin is moved; the old number stays open.   *)
MoveOnlyFromZero ==
  /\ pc = "move"
  /\ IF pipefd[1] # 0 THEN pc' = "fork" /\ UNCHANGED <<fds, pipefd>>
     ELSE LET to == Lowest(fds, 3) IN
          /\ Free(fds, 3) # {}
          /\ fds' = [fds EXCEPT ![to] = fds[0], ![0] = "closed"]
          /\ pipefd' = [pipefd EXCEPT ![1] = to]
          /\ UNCHANGED pc
  /\ UNCHANGED <<call, left, io_failed, ret, before, child, pipe>>
MoveKeepingOld ==
  /\ pc = "move"
  /\ IF Low = {} THEN pc' = "fork" /\ UNCHANGED <<fds, pipefd>>
     ELSE LET k == Min(Low)  to == Lowest(fds, 3) IN
          /\ Free(fds, 3) # {}
          /\ fds' = [fds EXCEPT ![to] = fds[pipefd[k]]]
          /\ pipefd' = [pipefd EXCEPT ![k] = to]
          /\ UNCHANGED pc
  /\ UNCHANGED <<call, left, io_failed, ret, before, child, pipe>>

(* An end of the pipe on a standard descriptor is duplicated above them.    *)
Move ==
  /\ pc = "move"
  /\ IF Low = {} THEN pc' = "fork" /\ UNCHANGED <<fds, pipefd>>
     ELSE LET k == Min(Low)  to == Lowest(fds, 3) IN
          /\ Free(fds, 3) # {}
          /\ fds' = [fds EXCEPT ![to] = fds[pipefd[k]], ![pipefd[k]] = "closed"]
          /\ pipefd' = [pipefd EXCEPT ![k] = to]
          /\ UNCHANGED pc
  /\ UNCHANGED <<call, left, io_failed, ret, before, child, pipe>>

(* No descriptor, or no process: both ends are closed.                      *)
Ends == IF call.input THEN {pipefd[1], pipefd[2]} ELSE {}
GiveUp ==
  /\ (pc = "move" /\ Low # {}) \/ pc = "fork"
  /\ fds' = Close(fds, Ends)
  /\ Return(-1)
  /\ UNCHANGED <<call, pipefd, left, io_failed, before, child, pipe>>

(* The parent closes the read end at once; that may report an error.        *)
Fork ==
  /\ pc = "fork"
  /\ kidfds' = fds
  /\ kid' = "sinks"
  /\ IF call.input
     THEN pc' = "write" /\ fds' = Close(fds, {pipefd[1]}) /\ io_failed' \in BOOLEAN
     ELSE pc' = "wait" /\ UNCHANGED <<fds, io_failed>>
  /\ UNCHANGED <<call, pipefd, left, ret, before, got, status, pipe>>
-----------------------------------------------------------------------------
OpenOn(what) == (\E d \in Fd : fds[d] = what) \/ (\E d \in Fd : kidfds[d] = what)

(* A write takes what fits; it is repeated after EINTR, blocks while the    *)
(* pipe is full and fails with EPIPE when nobody can read it.               *)
Write ==
  /\ pc = "write" /\ left > 0 /\ OpenOn("read end")
  /\ \E n \in 1..left :
       /\ n <= PipeSize - pipe
       /\ pipe' = pipe + n /\ left' = left - n
  /\ UNCHANGED <<fds, pc, call, pipefd, io_failed, ret, before, child>>

(* Mutant: the failed write is forgotten. *)
BrokenPipeForgotten ==
  /\ pc = "write" /\ left > 0 /\ ~OpenOn("read end")
  /\ pc' = "close"
  /\ UNCHANGED <<fds, call, pipefd, left, io_failed, ret, before, child, pipe>>
BrokenPipe ==
  /\ pc = "write" /\ left > 0 /\ ~OpenOn("read end")
  /\ io_failed' = TRUE
  /\ pc' = "close"
  /\ UNCHANGED <<fds, call, pipefd, left, ret, before, child, pipe>>

CloseWriteEnd ==
  /\ pc = "close" \/ (pc = "write" /\ left = 0)
  /\ fds' = Close(fds, {pipefd[2]})
  /\ io_failed' \in {io_failed, TRUE}
  /\ pc' = "wait"
  /\ UNCHANGED <<call, pipefd, left, ret, before, child, pipe>>

(* waitpid, repeated after EINTR.  It fails once the child has ended if     *)
(* the daemon was started with SIGCHLD ignored.                             *)
Wait(lost) ==
  /\ pc = "wait" /\ kid = "exited"
  /\ Return(IF ~lost /\ ~io_failed /\ status = "success" THEN 0 ELSE -1)
  /\ UNCHANGED <<fds, call, pipefd, left, io_failed, before, child, pipe>>
-----------------------------------------------------------------------------
KidExits(how) ==
  /\ kid' = "exited" /\ status' = how
  /\ kidfds' = [d \in Fd |-> "closed"]

(* stdout and stderr on one descriptor, which is then closed unless it is   *)
(* one of them.                                                             *)
BothOn(t, fd) ==
  Close([t EXCEPT ![1] = t[fd], ![2] = t[fd]], {fd} \ {1, 2})

LogFd == {d \in Fd : kidfds[d] = "log"}

(* They go to /dev/null, to the log file, or stay as inherited.             *)
Sinks ==
  /\ kid = "sinks"
  /\ \/ /\ call.silent /\ Free(kidfds, 0) # {}
        /\ kidfds' = BothOn(Opened(kidfds, "null"), Lowest(kidfds, 0))
     \/ ~call.silent /\ LogFd # {} /\ kidfds' = BothOn(kidfds, Min(LogFd))
     \/ ~call.silent /\ LogFd = {} /\ UNCHANGED kidfds
  /\ kid' = "stdin"
  /\ UNCHANGED <<parent, got, status, pipe>>

(* Mutant: the child keeps the end it does not use. *)
StdinKeepingWriteEnd ==
  /\ kid = "stdin"
  /\ IF call.input THEN kidfds' = Close([kidfds EXCEPT ![0] = kidfds[pipefd[1]]], {pipefd[1]})
     ELSE UNCHANGED kidfds
  /\ kid' = "exec"
  /\ UNCHANGED <<parent, got, status, pipe>>
(* The write end is closed, the read end becomes stdin.                     *)
Stdin ==
  /\ kid = "stdin"
  /\ IF call.input
     THEN LET t == Close(kidfds, {pipefd[2]}) IN
          kidfds' = Close([t EXCEPT ![0] = t[pipefd[1]]], {pipefd[1]})
     ELSE UNCHANGED kidfds
  /\ kid' = "exec"
  /\ UNCHANGED <<parent, got, status, pipe>>

(* open, dup2 or execvp fails *)
SetupFails ==
  /\ kid \in {"sinks", "stdin", "exec"}
  /\ KidExits("failure")
  /\ UNCHANGED <<parent, got, pipe>>

Exec == kid = "exec" /\ kid' = "program" /\ UNCHANGED <<parent, kidfds, got, status, pipe>>

ProgramReads ==
  /\ kid = "program" /\ kidfds[0] = "read end" /\ pipe > 0
  /\ got' = got + pipe /\ pipe' = 0
  /\ UNCHANGED <<parent, kidfds, kid, status>>

EndOfFile == pipe = 0 /\ ~OpenOn("write end")

ProgramEnds(how) ==
  /\ kid = "program"
  /\ call.reads => EndOfFile
  /\ KidExits(how)
  /\ UNCHANGED <<parent, got, pipe>>

Killed ==
  /\ kid \in {"sinks", "stdin", "exec", "program"}
  /\ KidExits("signal")
  /\ UNCHANGED <<parent, got, pipe>>

ParentStep ==
  \/ Pipe \/ PipeFails \/ Move \/ GiveUp \/ Fork
  \/ Write \/ BrokenPipe \/ CloseWriteEnd
  \/ \E lost \in BOOLEAN : Wait(lost)

KidStep ==
  \/ Sinks \/ Stdin \/ SetupFails \/ Exec \/ ProgramReads
  \/ \E how \in {"success", "failure"} : ProgramEnds(how)

Next == (\E c \in Calls : Call(c)) \/ ParentStep \/ KidStep \/ Killed

Spec == Init /\ [][Next]_vars

(* Both processes are scheduled; a program ends, those that read their      *)
(* input once they have seen its end.                                       *)
FairSpec == Spec /\ WF_vars(ParentStep) /\ WF_vars(KidStep)
-----------------------------------------------------------------------------
Objects == {"closed", "in", "out", "err", "log", "socket", "null", "read end", "write end"}

TypeOK ==
  /\ fds \in [Fd -> Objects] /\ kidfds \in [Fd -> Objects]
  /\ pc \in {"idle", "pipe", "move", "fork", "write", "close", "wait"}
  /\ kid \in {"none", "sinks", "stdin", "exec", "program", "exited"}
  /\ call \in Calls
  /\ pipefd[1] \in Fd \cup {-1} /\ pipefd[2] \in Fd \cup {-1}
  /\ left + pipe + got = call.length
  /\ io_failed \in BOOLEAN /\ ret \in {0, -1}
  /\ status \in {"none", "success", "failure", "signal"}

(* Whichever standard descriptors the daemon was started without, a program *)
(* that is given input reads it from stdin and from nowhere else, holds no  *)
(* write end, and its output goes to /dev/null, to the log file, or where   *)
(* the daemon's would (process.c:52-67, :83-131).                           *)
PluggedIn ==
  /\ TypeOK
  /\ kid = "program" =>
       /\ {d \in Fd : kidfds[d] = "read end"} = IF call.input THEN {0} ELSE {}
       /\ \A d \in Fd : kidfds[d] # "write end"
       /\ \A d \in {1, 2} : kidfds[d] = IF call.silent THEN "null"
                                        ELSE IF \E l \in Fd : before[l] = "log" THEN "log"
                                        ELSE before[d]

(* However a call ends, the daemon has the descriptors it had before: one   *)
(* that lost or kept a few with each command would run out of them, as      *)
(* setup and cleanup run dozens (process.c:43-78, :143-173).                *)
NoDescriptorLost == pc = "idle" => fds = before

(* Success is reported only if the whole input went into the pipe and, of a *)
(* program that reads it, into the program; a child that could not be set   *)
(* up, or an input that broke off, is a failure (process.c:143-186).        *)
SuccessIsComplete ==
  pc = "idle" /\ ret = 0 /\ kid = "exited" =>
    left = 0 /\ status = "success" /\ (call.reads => got = call.length)

(* Every call returns: the parent never waits for a reader that waits for   *)
(* the end of its input, whether the program reads it, ends early or never  *)
(* starts (process.c:120-125, :144-173).                                    *)
EveryCallReturns == pc # "idle" ~> pc = "idle"
=============================================================================
