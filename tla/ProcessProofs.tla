---------------------------- MODULE ProcessProofs ----------------------------
(***************************************************************************)
(* Theorems about the two places where the daemon deals with processes:    *)
(* fs_execute_command, for every number of descriptors, size of a pipe and *)
(* length of an input, and fakesip -k, for every number of processes.      *)
(***************************************************************************)
EXTENDS Execute, KillRunning, WellFoundedInduction, FiniteSetTheorems, TLAPS

(* A set of natural numbers that is not empty has a least element.          *)
LEMMA LeastOf ==
  ASSUME NEW S \in SUBSET Nat, S # {}
  PROVE  Min(S) \in S /\ \A n \in S : Min(S) <= n
<1> DEFINE less == OpToRel(<, Nat)
<1>1. IsWellFoundedOn(less, Nat)
  BY NatLessThanWellFounded
<1>2. ASSUME NEW a \in Nat, NEW b \in Nat, a < b PROVE <<a, b>> \in less
  <2>1. <<a, b>> \in Nat \X Nat /\ <<a, b>>[1] < <<a, b>>[2]
    BY <1>2
  <2>2. less = {ss \in Nat \X Nat : ss[1] < ss[2]}
    BY Zenon DEF OpToRel
  <2> QED
    BY <2>1, <2>2, Zenon
<1> HIDE DEF less
<1>3. PICK least \in S : \A n \in S : ~ (<<n, least>> \in less)
  BY <1>1, WFMin
<1>4. ASSUME NEW n \in S PROVE least <= n
  <2>1. n \in Nat /\ least \in Nat
    OBVIOUS
  <2>2. ~ (n < least)
    BY <1>2, <1>3, <2>1
  <2> QED
    BY <2>1, <2>2
<1> QED
  BY <1>4 DEF Min
-----------------------------------------------------------------------------
(* Two descriptors, none of them standard unless the call is being prepared, *)
(* that were free when the command was called: the ends of its pipe.         *)
AreEnds(r, w) == r \in Fd /\ w \in Fd /\ r # w /\ before[r] = "closed" /\ before[w] = "closed"
WithEnds(r, w) == [before EXCEPT ![r] = "read end", ![w] = "write end"]

(* What the daemon has: what it had, and the ends it has not closed yet.     *)
Holding ==
  /\ before \in [Fd -> Objects \ {"null", "read end", "write end"}]
  /\ pipefd \in (Fd \cup {-1}) \X (Fd \cup {-1})
  /\ call.input /\ pc \in {"move", "fork", "write", "close", "wait"} => AreEnds(pipefd[1], pipefd[2])
  /\ call.input /\ pc \in {"fork", "write", "close", "wait"} => pipefd[1] > 2 /\ pipefd[2] > 2
  /\ pc \in {"pipe", "move", "write", "close"} => call.input
  /\ pc \in {"idle", "pipe", "wait"} \/ ~call.input => fds = before
  /\ pc \in {"move", "fork"} /\ call.input => fds = WithEnds(pipefd[1], pipefd[2])
  /\ pc \in {"write", "close"} => fds = [before EXCEPT ![pipefd[2]] = "write end"]

(* Where the output of the program goes.                                     *)
Sunk ==
  \A d \in {1, 2} :
    kidfds[d] = IF call.silent THEN "null" ELSE IF \E l \in Fd : before[l] = "log" THEN "log" ELSE before[d]

(* What the child has, from the fork on.                                     *)
KidHolding ==
  /\ kid = "sinks" => kidfds = IF call.input THEN WithEnds(pipefd[1], pipefd[2]) ELSE before
  /\ kid \in {"stdin", "exec", "program"} => Sunk
  /\ kid = "stdin" =>
       \A d \in Fd : /\ kidfds[d] = "read end" <=> call.input /\ d = pipefd[1]
                     /\ kidfds[d] = "write end" <=> call.input /\ d = pipefd[2]
  /\ kid \in {"exec", "program"} =>
       \A d \in Fd : /\ kidfds[d] = "read end" <=> call.input /\ d = 0
                     /\ kidfds[d] # "write end"

(* There is a child from the fork on, and the daemon waits for its end.      *)
Ages ==
  /\ pc \in {"pipe", "move", "fork"} => kid = "none"
  /\ pc = "idle" => kid \in {"none", "exited"}
  /\ pc \in {"write", "close", "wait"} => kid # "none"
  /\ kid = "exited" <=> status # "none"

(* Where the input is: only an error keeps the daemon from writing all of    *)
(* it, and a program that reads it has ended when there was no more.         *)
Counted ==
  /\ left \in Nat /\ pipe \in Nat /\ got \in Nat
  /\ ~call.input \/ (pc \in {"close", "wait"} /\ ~io_failed) => left = 0
  /\ status = "success" /\ call.reads => pipe = 0 /\ pc \notin {"write", "close"}

CommandInv == TypeOK /\ Holding /\ KidHolding /\ Ages /\ Counted /\ SuccessIsComplete

LEMMA LowestIsFree ==
  ASSUME NEW t, NEW from \in Nat, Free(t, from) # {}
  PROVE  /\ Lowest(t, from) \in Fd /\ Lowest(t, from) >= from
         /\ t[Lowest(t, from)] = "closed"
<1>1. Free(t, from) \in SUBSET Nat
  BY SizesAssumption DEF Free, Fd
<1>2. Lowest(t, from) \in Free(t, from)
  BY <1>1, LeastOf DEF Lowest
<1> QED
  BY <1>2 DEF Free

(* Of two free descriptors one is above the lowest.                          *)
LEMMA SecondIsFree ==
  ASSUME NEW t, Cardinality(Free(t, 0)) >= 2
  PROVE  Free(t, 0) # {} /\ Free(t, Lowest(t, 0) + 1) # {}
<1>1. Free(t, 0) # {}
  BY FS_EmptySet
<1>2. Lowest(t, 0) \in Free(t, 0) /\ \A d \in Free(t, 0) : Lowest(t, 0) <= d
  <2>1. Free(t, 0) \in SUBSET Nat
    BY SizesAssumption DEF Free, Fd
  <2> QED
    BY <1>1, <2>1, LeastOf DEF Lowest
<1>3. Cardinality({Lowest(t, 0)}) = 1
  BY FS_Singleton
<1>4. PICK d \in Free(t, 0) : d # Lowest(t, 0)
  BY <1>2, <1>3
<1>5. d \in Free(t, Lowest(t, 0) + 1)
  BY <1>2, <1>4, SizesAssumption DEF Free, Fd
<1> QED
  BY <1>1, <1>5

LEMMA CommandInit == Init => CommandInv
<1> SUFFICES ASSUME Init PROVE CommandInv
  OBVIOUS
<1> DEFINE Kept == Objects \ {"null", "read end", "write end"}
<1>1. PICK open \in SUBSET Std :
        fds \in {Started(open), Opened(Started(open), "log"), Opened(Started(open), "socket"),
                Opened(Opened(Started(open), "log"), "socket")}
  BY DEF Init
<1>2. Started(open) \in [Fd -> Kept]
  <2>1. Std = {0, 1, 2}
    BY DEF Std
  <2>2. ASSUME NEW d \in open PROVE Inherited[d] \in Kept
    BY <2>1 DEF Inherited, Objects
  <2> QED
    BY <2>2 DEF Started, Objects
<1>3. ASSUME NEW t \in [Fd -> Kept], NEW what \in {"log", "socket"}
      PROVE  Opened(t, what) \in [Fd -> Kept]
  BY DEF Opened, Objects
<1>4. fds \in [Fd -> Kept]
  <2>1. Opened(Started(open), "log") \in [Fd -> Kept]
    BY <1>2, <1>3
  <2> QED
    BY <1>1, <1>2, <1>3, <2>1
<1>5. NoCall \in Calls
  BY SizesAssumption DEF NoCall, Calls
<1>6. TypeOK
  <2>1. fds \in [Fd -> Objects] /\ kidfds \in [Fd -> Objects]
    BY <1>4 DEF Init, Objects
  <2>2. call \in Calls /\ left + pipe + got = call.length
    BY <1>5 DEF Init, NoCall
  <2>3. pipefd[1] \in Fd \cup {-1} /\ pipefd[2] \in Fd \cup {-1}
    BY DEF Init
  <2> QED
    BY <2>1, <2>2, <2>3 DEF Init, TypeOK
<1>7. Holding
  BY <1>4 DEF Init, Holding, NoCall
<1> QED
  BY <1>6, <1>7 DEF Init, CommandInv, KidHolding, Ages, Counted, SuccessIsComplete, NoCall

LEMMA CallKeeps ==
  ASSUME CommandInv, NEW c \in Calls, Call(c)
  PROVE  CommandInv'
<1>1. c.length \in Nat /\ (~c.input => c.length = 0) /\ c.input \in BOOLEAN
  BY SizesAssumption DEF Calls
<1>2. TypeOK'
  <2>1. call' \in Calls /\ (left + pipe + got = call.length)'
    BY <1>1 DEF Call
  <2>2. pipefd'[1] \in Fd \cup {-1} /\ pipefd'[2] \in Fd \cup {-1}
    BY DEF Call
  <2> QED
    BY <2>1, <2>2 DEF Call, CommandInv, TypeOK
<1>3. Holding'
  BY <1>1 DEF Call, CommandInv, Holding
<1> QED
  BY <1>1, <1>2, <1>3 DEF Call, CommandInv, KidHolding, Ages, Counted, SuccessIsComplete

LEMMA PipeKeeps ==
  ASSUME CommandInv, Pipe
  PROVE  CommandInv'
<1>1. PICK r \in Fd, w \in Fd :
        /\ r # w /\ fds[r] = "closed" /\ fds[w] = "closed" /\ pipefd' = <<r, w>>
        /\ fds' = [fds EXCEPT ![r] = "read end", ![w] = "write end"]
  <2> DEFINE r == Lowest(fds, 0)
             w == Lowest(fds, r + 1)
  <2>1. Free(fds, 0) # {} /\ Free(fds, r + 1) # {}
    BY SecondIsFree DEF Pipe
  <2>2. r \in Fd /\ fds[r] = "closed"
    BY <2>1, LowestIsFree
  <2>3. r \in Nat /\ r + 1 \in Nat
    BY <2>2, SizesAssumption DEF Fd
  <2>4. w \in Fd /\ w >= r + 1 /\ fds[w] = "closed"
    BY <2>1, <2>3, LowestIsFree
  <2>5. pipefd' = <<r, w>> /\ fds' = [fds EXCEPT ![r] = "read end", ![w] = "write end"]
    BY DEF Pipe
  <2> HIDE DEF r, w
  <2>6. r # w
    BY <2>3, <2>4, SizesAssumption DEF Fd
  <2> QED
    BY <2>2, <2>4, <2>5, <2>6
<1>2. /\ pc = "pipe" /\ pc' = "move" /\ fds = before /\ kid = "none"
      /\ UNCHANGED <<call, left, io_failed, ret, before, kidfds, kid, got, status, pipe>>
  BY DEF Pipe, child, CommandInv, Holding, Ages
<1>3. TypeOK'
  BY <1>1, <1>2 DEF CommandInv, TypeOK, Objects
<1>4. Holding'
  BY <1>1, <1>2 DEF CommandInv, Holding, AreEnds, WithEnds
<1> QED
  BY <1>2, <1>3, <1>4 DEF CommandInv, KidHolding, Ages, Counted, SuccessIsComplete

LEMMA PipeFailsKeeps ==
  ASSUME CommandInv, PipeFails
  PROVE  CommandInv'
<1>1. /\ pc = "pipe" /\ pc' = "idle" /\ ret' = -1 /\ kid = "none"
      /\ UNCHANGED <<fds, call, pipefd, left, io_failed, before, kidfds, kid, got, status, pipe>>
  BY DEF PipeFails, Return, child, CommandInv, Ages
<1>2. TypeOK' /\ Holding'
  BY <1>1 DEF CommandInv, TypeOK, Holding
<1> QED
  BY <1>1, <1>2 DEF CommandInv, KidHolding, Ages, Counted, SuccessIsComplete

(* Where the ends are while the call is being prepared.                      *)
LEMMA Between ==
  ASSUME CommandInv, pc = "move"
  PROVE  /\ call.input /\ kid = "none" /\ fds = WithEnds(pipefd[1], pipefd[2])
         /\ AreEnds(pipefd[1], pipefd[2]) /\ pipefd = <<pipefd[1], pipefd[2]>>
         /\ before \in [Fd -> Objects \ {"null", "read end", "write end"}]
<1>1. call.input /\ kid = "none" /\ before \in [Fd -> Objects \ {"null", "read end", "write end"}]
  BY DEF CommandInv, Holding, Ages
<1>2. pipefd \in (Fd \cup {-1}) \X (Fd \cup {-1})
  BY DEF CommandInv, Holding
<1>3. fds = WithEnds(pipefd[1], pipefd[2]) /\ AreEnds(pipefd[1], pipefd[2])
  BY <1>1 DEF CommandInv, Holding
<1>4. pipefd = <<pipefd[1], pipefd[2]>>
  BY <1>2
<1> QED
  BY <1>1, <1>3, <1>4

LEMMA MoveKeeps ==
  ASSUME CommandInv, Move
  PROVE  CommandInv'
<1> DEFINE r == pipefd[1]
           w == pipefd[2]
<1>1. /\ pc = "move" /\ kid = "none" /\ call.input /\ fds = WithEnds(r, w) /\ AreEnds(r, w)
      /\ before \in [Fd -> Objects \ {"null", "read end", "write end"}]
      /\ UNCHANGED <<call, left, io_failed, ret, before, kidfds, kid, got, status, pipe>>
  BY Between DEF Move, child
<1>2. CASE Low = {}
  <2>1. pc' = "fork" /\ UNCHANGED <<fds, pipefd>>
    BY <1>2 DEF Move
  <2>2. pipefd[1] \notin Std /\ pipefd[2] \notin Std
    BY <1>2 DEF Low
  <2>3. pipefd[1] > 2 /\ pipefd[2] > 2
    <3>1. pipefd[1] \in Nat /\ pipefd[2] \in Nat
      <4>1. pipefd[1] \in Fd /\ pipefd[2] \in Fd
        BY <1>1 DEF AreEnds
      <4> QED
        BY <4>1, SizesAssumption DEF Fd
    <3> QED
      BY <2>2, <3>1 DEF Std
  <2>4. TypeOK' /\ Holding'
    BY <1>1, <2>1, <2>3 DEF CommandInv, TypeOK, Holding, AreEnds, WithEnds
  <2> QED
    BY <1>1, <2>1, <2>4 DEF CommandInv, KidHolding, Ages, Counted, SuccessIsComplete
<1>3. CASE Low # {}
  <2>1. PICK k \in {1, 2}, to \in Fd :
          /\ fds[to] = "closed" /\ pc' = pc
          /\ fds' = [fds EXCEPT ![to] = fds[pipefd[k]], ![pipefd[k]] = "closed"]
          /\ pipefd' = [pipefd EXCEPT ![k] = to]
    <3>1. Min(Low) \in {1, 2}
      BY <1>3, LeastOf DEF Low
    <3>2. Lowest(fds, 3) \in Fd /\ fds[Lowest(fds, 3)] = "closed"
      BY <1>3, LowestIsFree DEF Move
    <3> QED
      BY <1>3, <3>1, <3>2 DEF Move
  <2>2. PICK r1 \in Fd, w1 \in Fd : pipefd' = <<r1, w1>> /\ AreEnds(r1, w1) /\ fds' = WithEnds(r1, w1)
    <3>1. r \in Fd /\ w \in Fd /\ r # w /\ before[r] = "closed" /\ before[w] = "closed"
      BY <1>1 DEF AreEnds
    <3>2. before[to] = "closed" /\ to # r /\ to # w
      BY <1>1, <2>1, <3>1 DEF WithEnds
    <3>3. CASE k = 1
      <4>1. pipefd' = <<to, w>>
        <5>1. pipefd = <<r, w>>
          BY <1>1, Between
        <5> HIDE DEF r, w
        <5> QED
          BY <2>1, <3>3, <5>1
      <4>2. AreEnds(to, w)
        BY <3>1, <3>2 DEF AreEnds
      <4>3. fds' = WithEnds(to, w)
        BY <1>1, <2>1, <3>1, <3>2, <3>3 DEF WithEnds
      <4> QED
        BY <3>1, <4>1, <4>2, <4>3
    <3>4. CASE k = 2
      <4>1. pipefd' = <<r, to>>
        <5>1. pipefd = <<r, w>>
          BY <1>1, Between
        <5> HIDE DEF r, w
        <5> QED
          BY <2>1, <3>4, <5>1
      <4>2. AreEnds(r, to)
        BY <3>1, <3>2 DEF AreEnds
      <4>3. fds' = WithEnds(r, to)
        BY <1>1, <2>1, <3>1, <3>2, <3>4 DEF WithEnds
      <4> QED
        BY <3>1, <4>1, <4>2, <4>3
    <3> QED
      BY <3>3, <3>4
  <2>3. fds' \in [Fd -> Objects]
    BY <1>1, <2>2 DEF WithEnds, Objects
  <2>4. TypeOK'
    <3>1. pipefd'[1] \in Fd \cup {-1} /\ pipefd'[2] \in Fd \cup {-1}
      BY <2>2
    <3> QED
      BY <1>1, <2>1, <2>3, <3>1 DEF CommandInv, TypeOK
  <2>5. Holding'
    <3>1. AreEnds(pipefd[1], pipefd[2])' /\ (fds = WithEnds(pipefd[1], pipefd[2]))'
      BY <1>1, <2>2 DEF AreEnds, WithEnds
    <3>2. pipefd' \in (Fd \cup {-1}) \X (Fd \cup {-1})
      BY <2>2
    <3> QED
      BY <1>1, <2>1, <3>1, <3>2 DEF Holding
  <2> QED
    BY <1>1, <2>1, <2>4, <2>5 DEF CommandInv, KidHolding, Ages, Counted, SuccessIsComplete
<1> QED
  BY <1>2, <1>3

LEMMA GiveUpKeeps ==
  ASSUME CommandInv, GiveUp
  PROVE  CommandInv'
<1>1. /\ pc \in {"move", "fork"} /\ pc' = "idle" /\ ret' = -1 /\ kid = "none" /\ fds' = Close(fds, Ends)
      /\ UNCHANGED <<call, pipefd, left, io_failed, before, kidfds, kid, got, status, pipe>>
  BY DEF GiveUp, Return, child, CommandInv, Ages
<1>2. fds' = before
  <2>1. before \in [Fd -> Objects]
    BY DEF CommandInv, Holding
  <2>2. CASE call.input
    BY <1>1, <2>1, <2>2 DEF CommandInv, Holding, Close, Ends, AreEnds, WithEnds
  <2>3. CASE ~call.input
    BY <1>1, <2>1, <2>3 DEF CommandInv, Holding, Close, Ends
  <2> QED
    BY <2>2, <2>3
<1>3. TypeOK' /\ Holding'
  BY <1>1, <1>2 DEF CommandInv, TypeOK, Holding
<1> QED
  BY <1>1, <1>3 DEF CommandInv, KidHolding, Ages, Counted, SuccessIsComplete

LEMMA ForkKeeps ==
  ASSUME CommandInv, Fork
  PROVE  CommandInv'
<1>1. /\ pc = "fork" /\ kid = "none" /\ kid' = "sinks" /\ kidfds' = fds
      /\ UNCHANGED <<call, pipefd, left, ret, before, got, status, pipe>>
  BY DEF Fork, CommandInv, Ages
<1>2. before \in [Fd -> Objects] /\ fds \in [Fd -> Objects] /\ call.input \in BOOLEAN
  BY DEF CommandInv, TypeOK, Holding, Calls
<1>3. CASE call.input
  <2>1. pc' = "write" /\ fds' = Close(fds, {pipefd[1]}) /\ io_failed' \in BOOLEAN
    BY <1>3 DEF Fork
  <2>2. fds = WithEnds(pipefd[1], pipefd[2]) /\ AreEnds(pipefd[1], pipefd[2])
    BY <1>1, <1>3 DEF CommandInv, Holding
  <2>3. fds' = [before EXCEPT ![pipefd[2]] = "write end"]
    BY <1>2, <2>1, <2>2 DEF Close, AreEnds, WithEnds
  <2>4. TypeOK'
    BY <1>1, <1>2, <2>1, <2>3 DEF CommandInv, TypeOK, Objects
  <2>5. Holding'
    BY <1>1, <1>3, <2>1, <2>2, <2>3 DEF CommandInv, Holding, AreEnds
  <2>6. KidHolding'
    BY <1>1, <1>3, <2>2 DEF KidHolding, WithEnds
  <2> QED
    BY <1>1, <2>1, <2>4, <2>5, <2>6 DEF CommandInv, Ages, Counted, SuccessIsComplete
<1>4. CASE ~call.input
  <2>1. pc' = "wait" /\ UNCHANGED <<fds, io_failed>> /\ fds = before
    BY <1>4 DEF Fork, CommandInv, Holding
  <2>2. TypeOK' /\ Holding' /\ KidHolding'
    BY <1>1, <1>2, <1>4, <2>1 DEF CommandInv, TypeOK, Holding, KidHolding
  <2> QED
    BY <1>1, <1>4, <2>1, <2>2 DEF CommandInv, Ages, Counted, SuccessIsComplete
<1> QED
  BY <1>2, <1>3, <1>4

LEMMA WriteKeeps ==
  ASSUME CommandInv, Write \/ BrokenPipe
  PROVE  CommandInv'
<1>1. /\ pc = "write" /\ left > 0
      /\ UNCHANGED <<fds, call, pipefd, ret, before, kidfds, kid, got, status>>
      /\ pc' \in {"write", "close"} /\ io_failed' \in BOOLEAN
      /\ pc' = "close" => io_failed'
  BY DEF Write, BrokenPipe, child, CommandInv, TypeOK
<1>2. left' \in Nat /\ pipe' \in Nat /\ left' + pipe' = left + pipe
  <2>1. left \in Nat /\ pipe \in Nat
    BY DEF CommandInv, Counted
  <2>2. CASE Write
    <3>1. PICK n \in 1..left : pipe' = pipe + n /\ left' = left - n
      BY <2>2 DEF Write
    <3> QED
      BY <2>1, <3>1
  <2> QED
    BY <2>1, <2>2 DEF BrokenPipe
<1>3. TypeOK'
  <2>1. (left + pipe + got = call.length)'
    BY <1>1, <1>2 DEF CommandInv, TypeOK, Counted
  <2> QED
    BY <1>1, <2>1 DEF CommandInv, TypeOK
<1>4. Counted'
  <2>1. call.input /\ ~ (status = "success" /\ call.reads)
    BY <1>1 DEF CommandInv, Counted, Holding
  <2> QED
    BY <1>1, <1>2, <2>1 DEF CommandInv, Counted
<1> QED
  BY <1>1, <1>3, <1>4 DEF CommandInv, Holding, AreEnds, WithEnds, KidHolding, Sunk, Ages,
     SuccessIsComplete

LEMMA CloseKeeps ==
  ASSUME CommandInv, CloseWriteEnd
  PROVE  CommandInv'
<1>1. /\ pc = "close" \/ (pc = "write" /\ left = 0)
      /\ fds' = Close(fds, {pipefd[2]}) /\ io_failed' \in {io_failed, TRUE} /\ pc' = "wait"
      /\ UNCHANGED <<call, pipefd, left, ret, before, kidfds, kid, got, status, pipe>>
  BY DEF CloseWriteEnd, child
<1>2. fds' = before
  BY <1>1 DEF CommandInv, Holding, Close, AreEnds
<1>3. TypeOK' /\ Holding'
  <2>1. TypeOK'
    <3>1. fds' \in [Fd -> Objects]
      BY <1>2 DEF CommandInv, Holding
    <3>2. io_failed' \in BOOLEAN
      BY <1>1 DEF CommandInv, TypeOK
    <3> QED
      BY <1>1, <3>1, <3>2 DEF CommandInv, TypeOK
  <2>2. /\ before \in [Fd -> Objects \ {"null", "read end", "write end"}]
        /\ pipefd \in (Fd \cup {-1}) \X (Fd \cup {-1})
    BY DEF CommandInv, Holding
  <2>3. call.input => AreEnds(pipefd[1], pipefd[2]) /\ pipefd[1] > 2 /\ pipefd[2] > 2
    BY <1>1 DEF CommandInv, Holding
  <2> QED
    BY <1>1, <1>2, <2>1, <2>2, <2>3 DEF Holding, AreEnds
<1>4. Counted'
  <2>1. ~io_failed' => ~io_failed
    BY <1>1 DEF CommandInv, TypeOK
  <2>2. pc = "close" /\ ~io_failed => left = 0
    BY DEF CommandInv, Counted
  <2>3. ~io_failed' => left = 0
    BY <1>1, <2>1, <2>2
  <2> QED
    BY <1>1, <2>3 DEF CommandInv, Counted
<1> QED
  BY <1>1, <1>3, <1>4 DEF CommandInv, KidHolding, Sunk, WithEnds, Ages, SuccessIsComplete

LEMMA WaitKeeps ==
  ASSUME CommandInv, NEW lost \in BOOLEAN, Wait(lost)
  PROVE  CommandInv'
<1>1. /\ pc = "wait" /\ kid = "exited" /\ pc' = "idle" /\ ret' \in {0, -1}
      /\ ret' = 0 => ~io_failed /\ status = "success"
      /\ UNCHANGED <<fds, call, pipefd, left, io_failed, before, kidfds, kid, got, status, pipe>>
  BY DEF Wait, Return, child
<1>2. TypeOK' /\ Holding'
  BY <1>1 DEF CommandInv, TypeOK, Holding
<1>3. SuccessIsComplete'
  BY <1>1 DEF CommandInv, TypeOK, Counted, SuccessIsComplete
<1> QED
  BY <1>1, <1>2, <1>3 DEF CommandInv, KidHolding, Ages, Counted

LEMMA HoldingStays ==
  ASSUME CommandInv, UNCHANGED <<fds, pc, call, pipefd, before>>
  PROVE  Holding'
BY DEF CommandInv, Holding, AreEnds, WithEnds

(* A step of the child: the daemon's side and what it had stay.              *)
LEMMA KidDies ==
  ASSUME CommandInv, NEW how \in {"success", "failure", "signal"}, KidExits(how),
         kid \in {"sinks", "stdin", "exec", "program"}, UNCHANGED <<parent, got, pipe>>,
         how = "success" /\ call.reads => EndOfFile
  PROVE  CommandInv'
<1>1. /\ UNCHANGED <<fds, pc, call, pipefd, left, io_failed, ret, before, got, pipe>>
      /\ kid' = "exited" /\ status' = how /\ kidfds' = [d \in Fd |-> "closed"]
      /\ pc \in {"write", "close", "wait"}
  BY DEF KidExits, parent, CommandInv, TypeOK, Ages
<1>2. TypeOK' /\ Holding'
  <2>1. TypeOK'
    BY <1>1 DEF CommandInv, TypeOK, Objects
  <2> QED
    BY <1>1, <2>1, HoldingStays
<1>3. Counted'
  <2>1. ASSUME how = "success", call.reads PROVE pipe = 0 /\ pc \notin {"write", "close"}
    <3>1. pipe = 0 /\ \A d \in Fd : fds[d] # "write end"
      BY <2>1 DEF EndOfFile, OpenOn
    <3>2. ASSUME pc \in {"write", "close"} PROVE FALSE
      <4>1. AreEnds(pipefd[1], pipefd[2]) /\ fds = [before EXCEPT ![pipefd[2]] = "write end"]
        BY <3>2 DEF CommandInv, Holding
      <4>2. pipefd[2] \in Fd /\ before \in [Fd -> Objects \ {"null", "read end", "write end"}]
        BY <4>1 DEF AreEnds, CommandInv, Holding
      <4>3. fds[pipefd[2]] = "write end"
        BY <4>1, <4>2
      <4> QED
        BY <3>1, <4>2, <4>3
    <3> QED
      BY <3>1, <3>2
  <2> QED
    BY <1>1, <2>1 DEF CommandInv, Counted
<1> QED
  BY <1>1, <1>2, <1>3 DEF CommandInv, KidHolding, Ages, SuccessIsComplete

LEMMA ReadsKeep ==
  ASSUME CommandInv, ProgramReads
  PROVE  CommandInv'
<1>1. /\ UNCHANGED <<fds, pc, call, pipefd, left, io_failed, ret, before, kidfds, kid, status>>
      /\ kid = "program" /\ got' = got + pipe /\ pipe' = 0
  BY DEF ProgramReads, parent
<1>2. TypeOK' /\ Counted'
  BY <1>1 DEF CommandInv, TypeOK, Counted
<1>3. Holding' /\ KidHolding'
  <2>1. KidHolding'
    BY <1>1 DEF CommandInv, KidHolding, Sunk
  <2> QED
    BY <1>1, <2>1, HoldingStays
<1> QED
  BY <1>1, <1>2, <1>3 DEF CommandInv, Ages, SuccessIsComplete

LEMMA ExecKeeps ==
  ASSUME CommandInv, Exec
  PROVE  CommandInv'
<1>1. /\ UNCHANGED <<fds, pc, call, pipefd, left, io_failed, ret, before, kidfds, got, status, pipe>>
      /\ kid = "exec" /\ kid' = "program"
  BY DEF Exec, parent
<1>2. Holding' /\ KidHolding'
  <2>1. KidHolding'
    BY <1>1 DEF CommandInv, KidHolding, Sunk
  <2> QED
    BY <1>1, <2>1, HoldingStays
<1> QED
  BY <1>1, <1>2 DEF CommandInv, TypeOK, Counted, Ages, SuccessIsComplete

(* What the child had when it set out.                                       *)
LEMMA AtSinks ==
  ASSUME CommandInv, kid = "sinks"
  PROVE  /\ pc \in {"write", "close", "wait"} /\ status = "none"
         /\ kidfds \in [Fd -> Objects] /\ {1, 2} \subseteq Fd
         /\ call.input => pipefd[1] \in Fd \ {0, 1, 2} /\ pipefd[2] \in Fd \ {0, 1, 2}
         /\ \A d \in Fd :
              /\ kidfds[d] = "read end" <=> call.input /\ d = pipefd[1]
              /\ kidfds[d] = "write end" <=> call.input /\ d = pipefd[2]
              /\ kidfds[d] = "log" <=> before[d] = "log"
              /\ d \in {1, 2} => kidfds[d] = before[d]
<1>1. /\ pc \in {"write", "close", "wait"} /\ status = "none" /\ kidfds \in [Fd -> Objects]
      /\ call.input \in BOOLEAN
  BY DEF CommandInv, TypeOK, Ages, Calls
<1>2. before \in [Fd -> Objects \ {"null", "read end", "write end"}]
  BY DEF CommandInv, Holding
<1>3. {1, 2} \subseteq Fd
  BY SizesAssumption DEF Fd
<1>4. CASE call.input
  <2>1. AreEnds(pipefd[1], pipefd[2]) /\ pipefd[1] > 2 /\ pipefd[2] > 2
    BY <1>1, <1>4 DEF CommandInv, Holding
  <2>2. pipefd[1] \in Fd \ {0, 1, 2} /\ pipefd[2] \in Fd \ {0, 1, 2} /\ pipefd[1] # pipefd[2]
        /\ before[pipefd[1]] = "closed" /\ before[pipefd[2]] = "closed"
    BY <2>1 DEF AreEnds
  <2>3. kidfds = WithEnds(pipefd[1], pipefd[2])
    BY <1>4 DEF CommandInv, KidHolding
  <2> QED
    BY <1>1, <1>2, <1>3, <1>4, <2>2, <2>3 DEF WithEnds
<1>5. CASE ~call.input
  <2>1. kidfds = before
    BY <1>5 DEF CommandInv, KidHolding
  <2> QED
    BY <1>1, <1>2, <1>3, <1>5, <2>1
<1> QED
  BY <1>1, <1>4, <1>5

LEMMA BothOnEach ==
  ASSUME NEW t \in [Fd -> Objects], NEW fd \in Fd, {1, 2} \subseteq Fd
  PROVE  /\ BothOn(t, fd) \in [Fd -> Objects]
         /\ \A d \in Fd : BothOn(t, fd)[d] = IF d \in {1, 2} THEN t[fd]
                                            ELSE IF d = fd THEN "closed" ELSE t[d]
<1> DEFINE u == [t EXCEPT ![1] = t[fd], ![2] = t[fd]]
<1>1. u \in [Fd -> Objects] /\ \A d \in Fd : u[d] = IF d \in {1, 2} THEN t[fd] ELSE t[d]
  OBVIOUS
<1>2. BothOn(t, fd) = [d \in Fd |-> IF d \in {fd} \ {1, 2} THEN "closed" ELSE u[d]]
  BY DEF BothOn, Close
<1> HIDE DEF u
<1>3. \A d \in Fd : u[d] \in Objects /\ "closed" \in Objects
  BY <1>1 DEF Objects
<1>4. BothOn(t, fd) \in [Fd -> Objects]
  BY <1>2, <1>3
<1>5. ASSUME NEW d \in Fd
      PROVE  BothOn(t, fd)[d] = IF d \in {1, 2} THEN t[fd] ELSE IF d = fd THEN "closed" ELSE t[d]
  <2>1. BothOn(t, fd)[d] = IF d \in {fd} \ {1, 2} THEN "closed" ELSE u[d]
    BY <1>2
  <2> QED
    BY <1>1, <2>1
<1> QED
  BY <1>4, <1>5

LEMMA SinksKeep ==
  ASSUME CommandInv, Sinks
  PROVE  CommandInv'
<1>1. /\ UNCHANGED <<fds, pc, call, pipefd, left, io_failed, ret, before, got, status, pipe>>
      /\ kid = "sinks" /\ kid' = "stdin"
  BY DEF Sinks, parent
<1>2. /\ pc \in {"write", "close", "wait"} /\ status = "none"
      /\ kidfds \in [Fd -> Objects] /\ {1, 2} \subseteq Fd
      /\ call.input => pipefd[1] \in Fd \ {0, 1, 2} /\ pipefd[2] \in Fd \ {0, 1, 2}
      /\ \A d \in Fd :
           /\ kidfds[d] = "read end" <=> call.input /\ d = pipefd[1]
           /\ kidfds[d] = "write end" <=> call.input /\ d = pipefd[2]
           /\ kidfds[d] = "log" <=> before[d] = "log"
           /\ d \in {1, 2} => kidfds[d] = before[d]
  BY <1>1, AtSinks
<1> DEFINE Out == IF call.silent THEN "null"
                  ELSE IF \E l \in Fd : before[l] = "log" THEN "log" ELSE "inherited"
<1>3. /\ kidfds' \in [Fd -> Objects]
      /\ \A d \in {1, 2} : kidfds'[d] = IF Out = "inherited" THEN before[d] ELSE Out
      /\ \A d \in Fd \ {1, 2} : /\ kidfds'[d] = "read end" <=> kidfds[d] = "read end"
                                /\ kidfds'[d] = "write end" <=> kidfds[d] = "write end"
  <2>1. CASE call.silent
    <3> DEFINE fd == Lowest(kidfds, 0)
               t == [kidfds EXCEPT ![fd] = "null"]
    <3>1. fd \in Fd /\ kidfds[fd] = "closed" /\ kidfds' = BothOn(t, fd)
      BY <2>1, LowestIsFree DEF Sinks, Opened
    <3>2. t \in [Fd -> Objects] /\ t[fd] = "null" /\ \A d \in Fd \ {fd} : t[d] = kidfds[d]
      BY <1>2, <3>1 DEF Objects
    <3> HIDE DEF fd, t
    <3>3. /\ BothOn(t, fd) \in [Fd -> Objects]
          /\ \A d \in Fd : BothOn(t, fd)[d] = IF d \in {1, 2} THEN t[fd]
                                             ELSE IF d = fd THEN "closed" ELSE t[d]
      <4>1. fd \in Fd /\ {1, 2} \subseteq Fd /\ t \in [Fd -> Objects]
        BY <1>2, <3>1, <3>2
      <4> QED
        BY <4>1, BothOnEach
    <3>4. Out = "null" /\ {1, 2} \subseteq Fd
      BY <1>2, <2>1
    <3> HIDE DEF Out
    <3>5. \A d \in Fd \ {1, 2} : kidfds'[d] = IF d = fd THEN "closed" ELSE kidfds[d]
      BY <3>1, <3>2, <3>3
    <3>6. \A d \in {1, 2} : kidfds'[d] = "null"
      BY <3>1, <3>2, <3>3, <3>4
    <3>7. kidfds' \in [Fd -> Objects]
      BY <3>1, <3>3
    <3> QED
      BY <3>1, <3>4, <3>5, <3>6, <3>7
  <2>2. CASE ~call.silent /\ LogFd # {}
    <3> DEFINE fd == Min(LogFd)
    <3>1. LogFd \in SUBSET Nat
      BY SizesAssumption DEF LogFd, Fd
    <3>2. fd \in LogFd
      BY <2>2, <3>1, LeastOf
    <3>3. fd \in Fd /\ kidfds[fd] = "log" /\ kidfds' = BothOn(kidfds, fd)
      BY <2>2, <3>2 DEF Sinks, LogFd
    <3> HIDE DEF fd
    <3>4. /\ BothOn(kidfds, fd) \in [Fd -> Objects]
          /\ \A d \in Fd : BothOn(kidfds, fd)[d] = IF d \in {1, 2} THEN kidfds[fd]
                                                  ELSE IF d = fd THEN "closed" ELSE kidfds[d]
      BY <1>2, <3>3, BothOnEach
    <3>5. Out = "log"
      BY <1>2, <2>2, <3>3
    <3> HIDE DEF Out
    <3> QED
      BY <1>2, <3>3, <3>4, <3>5
  <2>3. CASE ~call.silent /\ LogFd = {}
    <3>1. kidfds' = kidfds
      BY <2>3 DEF Sinks
    <3>2. Out = "inherited"
      BY <1>2, <2>3 DEF LogFd
    <3> HIDE DEF Out
    <3> QED
      BY <1>2, <3>1, <3>2
  <2> QED
    BY <2>1, <2>2, <2>3 DEF CommandInv, TypeOK, Calls
<1>4. KidHolding'
  <2>1. Sunk'
    BY <1>1, <1>3 DEF Sunk
  <2>2. \A d \in {1, 2} : kidfds'[d] # "read end" /\ kidfds'[d] # "write end"
    <3>1. \A d \in {1, 2} : before[d] # "read end" /\ before[d] # "write end"
      BY <1>2 DEF CommandInv, Holding
    <3> QED
      BY <1>3, <3>1
  <2>3. \A d \in Fd : /\ kidfds'[d] = "read end" <=> call.input /\ d = pipefd[1]
                      /\ kidfds'[d] = "write end" <=> call.input /\ d = pipefd[2]
    BY <1>2, <1>3, <2>2
  <2>4. kid' = "stdin" /\ call' = call /\ pipefd' = pipefd
    BY <1>1
  <2> QED
    BY <1>1, <2>1, <2>3 DEF KidHolding
<1>5. TypeOK' /\ Holding'
  <2>1. TypeOK'
    BY <1>1, <1>3 DEF CommandInv, TypeOK
  <2> QED
    BY <1>1, <2>1, HoldingStays
<1> QED
  BY <1>1, <1>2, <1>4, <1>5 DEF CommandInv, Ages, Counted, SuccessIsComplete

LEMMA StdinKeeps ==
  ASSUME CommandInv, Stdin
  PROVE  CommandInv'
<1>1. /\ UNCHANGED <<fds, pc, call, pipefd, left, io_failed, ret, before, got, status, pipe>>
      /\ kid = "stdin" /\ kid' = "exec"
  BY DEF Stdin, parent
<1>2. /\ pc \in {"write", "close", "wait"} /\ Sunk
      /\ \A d \in Fd : /\ kidfds[d] = "read end" <=> call.input /\ d = pipefd[1]
                       /\ kidfds[d] = "write end" <=> call.input /\ d = pipefd[2]
  BY <1>1 DEF CommandInv, TypeOK, Ages, KidHolding
<1>3. kidfds \in [Fd -> Objects] /\ {0, 1, 2} \subseteq Fd
  BY SizesAssumption DEF CommandInv, TypeOK, Fd
<1>4. /\ kidfds' \in [Fd -> Objects]
      /\ \A d \in {1, 2} : kidfds'[d] = kidfds[d]
      /\ \A d \in Fd : /\ kidfds'[d] = "read end" <=> call.input /\ d = 0
                       /\ kidfds'[d] # "write end"
  <2>1. CASE call.input
    <3>1. AreEnds(pipefd[1], pipefd[2]) /\ pipefd[1] > 2 /\ pipefd[2] > 2
      BY <1>2, <2>1 DEF CommandInv, Holding
    <3> DEFINE r == pipefd[1]
               w == pipefd[2]
    <3>2. r \in Fd \ {0, 1, 2} /\ w \in Fd \ {0, 1, 2} /\ r # w
      BY <3>1 DEF AreEnds
    <3>3. kidfds' = [d \in Fd |-> IF d \in {r} THEN "closed"
                                ELSE [Close(kidfds, {w}) EXCEPT ![0] = Close(kidfds, {w})[r]][d]]
      BY <2>1 DEF Stdin, Close
    <3>4. \A d \in Fd : kidfds'[d] = IF d = r \/ d = w THEN "closed"
                                    ELSE IF d = 0 THEN kidfds[r] ELSE kidfds[d]
      <4> HIDE DEF r, w
      <4> QED
        BY <1>3, <3>2, <3>3 DEF Close
    <3>5. kidfds[r] = "read end" /\ \A d \in Fd \ {r} : kidfds[d] # "read end"
      BY <1>2, <2>1, <3>2
    <3>6. \A d \in Fd \ {w} : kidfds[d] # "write end"
      BY <1>2, <2>1
    <3> HIDE DEF r, w
    <3>7. kidfds' = [d \in Fd |-> IF d = r \/ d = w THEN "closed"
                                ELSE IF d = 0 THEN kidfds[r] ELSE kidfds[d]]
      BY <1>3, <3>2, <3>3 DEF Close
    <3>8. kidfds' \in [Fd -> Objects]
      BY <1>3, <3>2, <3>7 DEF Objects
    <3>9. \A d \in {1, 2} : kidfds'[d] = kidfds[d]
      BY <1>3, <3>2, <3>4
    <3>10. ASSUME NEW d \in Fd
           PROVE  (kidfds'[d] = "read end" <=> d = 0) /\ kidfds'[d] # "write end"
      BY <3>2, <3>4, <3>5, <3>6
    <3> QED
      BY <2>1, <3>8, <3>9, <3>10
  <2>2. CASE ~call.input
    <3>1. kidfds' = kidfds
      BY <2>2 DEF Stdin
    <3> QED
      BY <1>2, <1>3, <2>2, <3>1
  <2> QED
    BY <2>1, <2>2
<1>5. KidHolding'
  <2>1. Sunk'
    <3>1. call' = call /\ before' = before
      BY <1>1
    <3>2. \A d \in {1, 2} : kidfds'[d] = kidfds[d]
      BY <1>4
    <3>3. Sunk
      BY <1>2
    <3> QED
      BY <3>1, <3>2, <3>3 DEF Sunk
  <2> QED
    BY <1>1, <1>4, <2>1 DEF KidHolding
<1>6. TypeOK' /\ Holding'
  <2>1. TypeOK'
    BY <1>1, <1>4 DEF CommandInv, TypeOK
  <2> QED
    BY <1>1, <2>1, HoldingStays
<1> QED
  BY <1>1, <1>5, <1>6 DEF CommandInv, Ages, Counted, SuccessIsComplete

LEMMA CommandStep == CommandInv /\ [Next]_vars => CommandInv'
<1> SUFFICES ASSUME CommandInv, [Next]_vars PROVE CommandInv'
  OBVIOUS
<1>1. ASSUME NEW c \in Calls, Call(c) PROVE CommandInv'
  BY <1>1, CallKeeps
<1>2. CASE ParentStep
  BY <1>2, PipeKeeps, PipeFailsKeeps, MoveKeeps, GiveUpKeeps, ForkKeeps, WriteKeeps,
     CloseKeeps, WaitKeeps
     DEF ParentStep
<1>3. CASE SetupFails
  BY <1>3, KidDies DEF SetupFails
<1>4. ASSUME NEW how \in {"success", "failure"}, ProgramEnds(how) PROVE CommandInv'
  BY <1>4, KidDies DEF ProgramEnds
<1>5. CASE Killed
  BY <1>5, KidDies DEF Killed
<1>6. CASE KidStep
  BY <1>3, <1>4, <1>6, SinksKeep, StdinKeeps, ExecKeeps, ReadsKeep DEF KidStep
<1>7. CASE UNCHANGED vars
  <2>1. UNCHANGED <<fds, kidfds, pc, kid, call, pipefd, left, pipe, got, io_failed, status, ret, before>>
    BY <1>7 DEF vars, parent, child
  <2>2. TypeOK'
    BY <2>1 DEF CommandInv, TypeOK
  <2>4. Holding'
    BY <2>1 DEF CommandInv, Holding, AreEnds, WithEnds
  <2>3. KidHolding'
    BY <2>1 DEF CommandInv, KidHolding, WithEnds, Sunk
  <2> QED
    BY <2>1, <2>2, <2>3, <2>4 DEF CommandInv, Ages, Counted, SuccessIsComplete
<1> QED
  BY <1>1, <1>2, <1>5, <1>6, <1>7 DEF Next

LEMMA Commanded == Spec => []CommandInv
  BY CommandInit, CommandStep, PTL DEF Spec

(* Whatever standard descriptors the daemon was started without, and however *)
(* many it holds, a program that is given input reads it from its stdin and  *)
(* nowhere else, holds no write end, and prints where it was told to         *)
(* (process.c:52-67, :83-131).                                               *)
THEOREM ProgramPluggedIn == Spec => []PluggedIn
<1>1. ASSUME CommandInv PROVE PluggedIn
  <2>1. SUFFICES ASSUME kid = "program" PROVE PluggedIn
    BY <1>1 DEF PluggedIn, CommandInv
  <2>2. Sunk /\ \A d \in Fd : /\ kidfds[d] = "read end" <=> call.input /\ d = 0
                              /\ kidfds[d] # "write end"
    BY <1>1, <2>1 DEF CommandInv, KidHolding
  <2>3. 0 \in Fd
    BY SizesAssumption DEF Fd
  <2>4. {d \in Fd : kidfds[d] = "read end"} = IF call.input THEN {0} ELSE {}
    BY <2>2, <2>3
  <2> QED
    BY <1>1, <2>2, <2>4 DEF PluggedIn, CommandInv, Sunk
<1> QED
  BY <1>1, Commanded, PTL

(* However a command ends, at whatever step it failed, the daemon's          *)
(* descriptors are those it had (process.c:43-78, :143-173).                 *)
THEOREM DescriptorsKept == Spec => []NoDescriptorLost
<1>1. CommandInv => NoDescriptorLost
  BY DEF CommandInv, Holding, NoDescriptorLost
<1> QED
  BY <1>1, Commanded, PTL

(* A command that is reported to have succeeded has had all its input, and   *)
(* a program that reads it has read it all (process.c:143-186).              *)
THEOREM SuccessMeansComplete == Spec => []SuccessIsComplete
<1>1. CommandInv => SuccessIsComplete
  BY DEF CommandInv
<1> QED
  BY <1>1, Commanded, PTL
-----------------------------------------------------------------------------
Walking == at \in {"next", "look", "kill"}

(* Every FakeSIP the walk has passed is still to be looked at, or has the    *)
(* signal, or its link could not be read, or there was an error.             *)
Passed(p) ==
  p \in buffer \/ p \in signalled \/ p \in unread \/ (at \in {"look", "kill"} /\ p = pid) \/ err
Covered ==
  Walking => \A p \in steady \ {1, Self} : p <= read => Passed(p)

(* Who ran throughout is FakeSIP, nothing is signalled without a match, and  *)
(* a match is signalled or counts as an error.                               *)
Steady ==
  /\ \A p \in steady : p \in Pid /\ exe[p] = "fakesip"
  /\ at = "start" => read = 0
  /\ signalled # {} \/ at = "kill" => matched
  /\ matched => signalled # {} \/ at = "kill" \/ err
  /\ at \in {"look", "kill"} => pid \in Pid \ {1, Self}
  /\ at = "kill" => exe[pid] = "fakesip" \/ swapped

WalkInv == WalkTypeOK /\ Steady /\ Covered /\ ReportsTruly

LEMMA WalkStarts == WalkInit => WalkInv
  BY SelfAssumption DEF WalkInit, WalkInv, WalkTypeOK, Steady, Covered, Walking, ReportsTruly,
         Pid

(* What other processes do to the walk: who stays FakeSIP was FakeSIP.       *)
Moved ==
  /\ UNCHANGED <<at, read, buffer, pid, matched, err, result, unread, signalled>>
  /\ at # "start" => steady' \subseteq steady
  /\ \A p \in steady' : p \in Pid /\ exe'[p] = "fakesip"
  /\ exe' \in [Pid -> {"none", "fakesip", "deleted", "other"}]
  /\ at = "kill" /\ (exe[pid] = "fakesip" \/ swapped) => exe'[pid] = "fakesip" \/ swapped'

LEMMA OthersMove ==
  ASSUME WalkInv, Others
  PROVE  Moved
<1>1. ASSUME NEW p \in Pid, NEW what \in {"none", "fakesip", "deleted", "other"},
             Becomes(p, what)
      PROVE  Moved
  <2>1. exe \in [Pid -> {"none", "fakesip", "deleted", "other"}]
    BY DEF WalkInv, WalkTypeOK
  <2>2. exe' \in [Pid -> {"none", "fakesip", "deleted", "other"}]
    BY <1>1, <2>1 DEF Becomes
  <2>3. \A q \in steady' : q \in Pid /\ exe'[q] = "fakesip"
    BY <1>1, <2>1 DEF WalkInv, Steady, Becomes
  <2> QED
    BY <1>1, <2>1, <2>2, <2>3 DEF WalkInv, Steady, Moved, Becomes, walk
<1>2. ASSUME NEW p \in Pid, ProcessForks(p) PROVE Moved
  BY <1>1, <1>2 DEF ProcessForks, Running, WalkInv, WalkTypeOK
<1>3. ASSUME NEW p \in Pid, ProcessExecs(p) \/ ProcessEnds(p) PROVE Moved
  BY <1>1, <1>3 DEF ProcessExecs, ProcessEnds
<1>4. CASE Upgrade
  BY <1>4 DEF Upgrade, walk, WalkInv, WalkTypeOK, Moved
<1> QED
  BY <1>2, <1>3, <1>4 DEF Others

LEMMA OthersKeep ==
  ASSUME WalkInv, at # "done", Moved
  PROVE  WalkInv'
<1>1. WalkTypeOK'
  BY DEF WalkInv, WalkTypeOK, Moved
<1>2. Steady'
  BY DEF WalkInv, Steady, Moved
<1>3. Covered'
  BY DEF WalkInv, Covered, Walking, Passed, Moved
<1> QED
  BY <1>1, <1>2, <1>3 DEF WalkInv, ReportsTruly, Moved

LEMMA BeginKeeps ==
  ASSUME WalkInv, Begin \/ BeginFails
  PROVE  WalkInv'
<1>1. /\ UNCHANGED <<exe, read, buffer, pid, matched, steady, swapped, unread, signalled>>
      /\ at = "start"
      /\ \/ at' = "next" /\ UNCHANGED <<err, result>>
         \/ at' = "done" /\ err' = TRUE /\ result' = -1
  BY DEF Begin, BeginFails, Goto, Finish, world
<1>2. WalkTypeOK' /\ Steady'
  BY <1>1 DEF WalkInv, WalkTypeOK, Steady
<1>3. Covered'
  BY <1>1 DEF WalkInv, Steady, Covered, Walking, Pid
<1> QED
  BY <1>1, <1>2, <1>3 DEF WalkInv, ReportsTruly

(* Whoever the kernel's answer skips has no process.                         *)
LEMMA FillKeeps ==
  ASSUME WalkInv, Fill
  PROVE  WalkInv'
<1>1. PICK last \in Beyond : buffer' = {p \in Beyond : p <= last} /\ read' = last
  BY DEF Fill
<1>2. at = "next" /\ UNCHANGED <<exe, at, pid, matched, err, result, steady, swapped, unread, signalled>> /\ buffer = {}
  BY DEF Fill, world
<1>3. last \in Pid /\ last > read /\ read \in Nat /\ MaxPid \in Nat
  BY <1>1, SelfAssumption DEF Beyond, Running, Pid, WalkInv, WalkTypeOK
<1>4. WalkTypeOK'
  <2>1. buffer' \subseteq 1..last
    BY <1>1, <1>3 DEF Beyond, Running, Pid
  <2> QED
    BY <1>1, <1>2, <1>3, <2>1 DEF WalkInv, WalkTypeOK
<1>5. Steady'
  BY <1>2 DEF WalkInv, Steady
<1>6. Covered'
  <2> SUFFICES ASSUME NEW p \in steady \ {1, Self}, p <= last PROVE Passed(p)'
    BY <1>1, <1>2 DEF Covered, Walking
  <2>1. p \in Running /\ p \in Nat
    BY DEF WalkInv, Steady, Running, Pid
  <2>2. CASE p <= read
    BY <1>2, <2>2 DEF WalkInv, Covered, Walking, Passed
  <2>3. CASE p > read
    BY <1>1, <2>1, <2>3 DEF Beyond, Passed
  <2> QED
    BY <1>3, <2>1, <2>2, <2>3
<1> QED
  BY <1>2, <1>4, <1>5, <1>6 DEF WalkInv, ReportsTruly

LEMMA EntryKeeps ==
  ASSUME WalkInv, Entry
  PROVE  WalkInv'
<1> DEFINE p == Min(buffer)
<1>1. /\ at = "next" /\ buffer' = buffer \ {p}
      /\ UNCHANGED <<exe, read, matched, err, result, steady, swapped, unread, signalled>>
      /\ IF p <= 1 \/ p = Self THEN UNCHANGED <<at, pid>> ELSE at' = "look" /\ pid' = p
  BY DEF Entry, world, Skip
<1>2. p \in buffer /\ p \in Pid
  <2>1. buffer \in SUBSET Nat /\ buffer # {} /\ buffer \subseteq Pid
    BY SelfAssumption DEF Entry, WalkInv, WalkTypeOK, Pid
  <2>2. p = Min(buffer)
    BY DEF Min, Min
  <2> QED
    BY <2>1, <2>2, LeastOf
<1> HIDE DEF p
<1>3. p <= 1 <=> p = 1
  BY <1>2 DEF Pid
<1>4. WalkTypeOK'
  BY <1>1, <1>2, <1>3 DEF WalkInv, WalkTypeOK
<1>5. Steady'
  BY <1>1, <1>2, <1>3 DEF WalkInv, Steady
<1>6. Covered'
  BY <1>1, <1>3 DEF WalkInv, Covered, Walking, Passed
<1>7. at' # "done"
  BY <1>1
<1> QED
  BY <1>4, <1>5, <1>6, <1>7 DEF WalkInv, ReportsTruly

LEMMA LookKeeps ==
  ASSUME WalkInv, Look
  PROVE  WalkInv'
<1>1. /\ at = "look" /\ matched' = (matched \/ exe[pid] = "fakesip") /\ swapped' = FALSE
      /\ at' = IF exe[pid] = "fakesip" THEN "kill" ELSE "next"
      /\ UNCHANGED <<exe, steady, read, buffer, pid, err, result, unread, signalled>>
  BY DEF Look
<1>2. WalkTypeOK'
  BY <1>1 DEF WalkInv, WalkTypeOK
<1>3. Steady'
  BY <1>1 DEF WalkInv, Steady
<1>4. Covered'
  BY <1>1 DEF WalkInv, Steady, Covered, Walking, Passed
<1> QED
  BY <1>1, <1>2, <1>3, <1>4 DEF WalkInv, ReportsTruly

LEMMA LookFailsKeeps ==
  ASSUME WalkInv, LookFails
  PROVE  WalkInv'
<1>1. /\ at = "look" /\ at' = "next" /\ unread' = unread \cup {pid}
      /\ UNCHANGED <<exe, steady, read, buffer, pid, matched, err, result, signalled>>
  BY DEF LookFails
<1>2. WalkTypeOK' /\ Steady'
  <2>1. pid \in Pid
    BY <1>1 DEF WalkInv, Steady
  <2> QED
    BY <1>1, <2>1 DEF WalkInv, WalkTypeOK, Steady
<1>3. Covered'
  BY <1>1 DEF WalkInv, Covered, Walking, Passed
<1> QED
  BY <1>1, <1>2, <1>3 DEF WalkInv, ReportsTruly

LEMMA KillKeeps ==
  ASSUME WalkInv, Kill \/ KillFails
  PROVE  WalkInv'
<1>1. /\ at = "kill" /\ at' = "next"
      /\ UNCHANGED <<exe, steady, read, buffer, pid, matched, result, unread>>
      /\ \/ signalled' = signalled \cup {pid} /\ UNCHANGED err
         \/ err' = TRUE /\ UNCHANGED signalled
  BY DEF Kill, KillFails, Goto, world
<1>2. WalkTypeOK'
  BY <1>1 DEF WalkInv, WalkTypeOK, Steady
<1>3. Steady'
  BY <1>1 DEF WalkInv, Steady
<1>4. Covered'
  BY <1>1 DEF WalkInv, Covered, Walking, Passed
<1> QED
  BY <1>1, <1>2, <1>3, <1>4 DEF WalkInv, ReportsTruly

(* At the end everyone who ran throughout was passed.                        *)
LEMMA EndKeeps ==
  ASSUME WalkInv, NEW close_fails \in BOOLEAN, End(close_fails)
  PROVE  WalkInv'
<1>1. /\ at = "next" /\ buffer = {} /\ Beyond = {} /\ at' = "done"
      /\ err' = (err \/ close_fails)
      /\ result' = IF matched /\ ~err' THEN 0 ELSE -1
      /\ UNCHANGED <<exe, read, buffer, pid, matched, steady, swapped, unread, signalled>>
  BY DEF End, Finish, world
<1>2. WalkTypeOK' /\ Steady' /\ Covered'
  BY <1>1 DEF WalkInv, WalkTypeOK, Steady, Covered, Walking
<1>3. ASSUME NEW p \in steady \ {1, Self} PROVE p \in signalled \cup unread \/ err
  <2>1. p \in Running /\ p \in Nat
    BY DEF WalkInv, Steady, Running, Pid
  <2>2. p <= read
    <3>1. read \in Nat
      BY DEF WalkInv, WalkTypeOK, Pid
    <3> QED
      BY <1>1, <2>1, <3>1 DEF Beyond
  <2> QED
    BY <1>1, <2>2 DEF WalkInv, Covered, Walking, Passed
<1>4. /\ ~err /\ ~matched => signalled = {} /\ steady \subseteq {1, Self} \cup unread
      /\ ~err /\ matched => signalled # {}
  BY <1>1, <1>3 DEF WalkInv, Steady
<1>5. err \in BOOLEAN /\ matched \in BOOLEAN
  BY DEF WalkInv, WalkTypeOK
<1>6. ReportsTruly'
  <2>1. CASE matched /\ ~err'
    <3>1. /\ signalled' # {} /\ result' = 0
          /\ steady' \ {1, Self} \subseteq signalled' \cup unread'
      BY <1>1, <1>3, <1>4, <2>1
    <3> QED
      BY <1>2, <3>1 DEF ReportsTruly
  <2>2. CASE err'
    BY <1>1, <1>2, <2>2 DEF ReportsTruly
  <2>3. CASE ~err' /\ ~matched
    <3>1. /\ signalled' = {} /\ result' = -1
          /\ steady' \subseteq {1, Self} \cup unread'
      BY <1>1, <1>4, <2>3
    <3> QED
      BY <1>2, <3>1 DEF ReportsTruly
  <2> QED
    BY <1>5, <2>1, <2>2, <2>3
<1> QED
  BY <1>2, <1>6 DEF WalkInv

LEMMA WalkKeeps == WalkInv /\ [WalkNext]_system => WalkInv'
<1> SUFFICES ASSUME WalkInv, [WalkNext]_system PROVE WalkInv'
  OBVIOUS
<1>1. CASE at # "done" /\ Others
  BY <1>1, OthersMove, OthersKeep
<1>2. CASE Walker
  BY <1>2, BeginKeeps, FillKeeps, EntryKeeps, LookKeeps, LookFailsKeeps, KillKeeps, EndKeeps DEF Walker
<1>3. CASE UNCHANGED system
  <2>1. UNCHANGED <<exe, at, read, buffer, pid, matched, err, result, steady, swapped, unread, signalled>>
    BY <1>3 DEF system, world, walk
  <2> QED
    BY <2>1 DEF WalkInv, WalkTypeOK, Steady, Covered, Walking, Passed, ReportsTruly
<1> QED
  BY <1>1, <1>2, <1>3 DEF WalkNext

LEMMA WalkInvariance == WalkSpec => []WalkInv
  BY WalkStarts, WalkKeeps, PTL DEF WalkSpec

(* What -k reports is what happened, for every number of processes and       *)
(* whatever they do during the walk: success if somebody has the signal and  *)
(* so has every FakeSIP that runs since before and whose link could be read, *)
(* failure if there was an error or no such FakeSIP (signals.c:112-162).     *)
THEOREM WalkReports == WalkSpec => []ReportsTruly
<1>1. WalkInv => ReportsTruly
  BY DEF WalkInv
<1> QED
  BY <1>1, WalkInvariance, PTL

(* The signal never goes to the sender, and to another program only if the   *)
(* process changed after its link was read (signals.c:122-142).              *)
THEOREM WalkSignalsFakesip == WalkSpec => OnlyFakesipSignalled
<1>1. WalkInv /\ [WalkNext]_system
        => [at = "kill" /\ signalled' # signalled =>
              pid # Self /\ (exe[pid] = "fakesip" \/ swapped)]_system
  BY SelfAssumption DEF WalkInv, Steady
<1> QED
  BY <1>1, WalkInvariance, PTL DEF WalkSpec, OnlyFakesipSignalled
=============================================================================
