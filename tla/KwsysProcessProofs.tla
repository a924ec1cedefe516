------------------------- MODULE KwsysProcessProofs -------------------------
(***************************************************************************)
(* Proofs about KwsysProcess, for every length of the pipeline and every   *)
(* set of options: what the runs check on a pipeline of two.               *)
(***************************************************************************)
EXTENDS KwsysProcess, FiniteSetTheorems, SequenceTheorems, TLAPS

(***************************************************************************)
(* The inductive invariant.                                                *)
(***************************************************************************)

CreatePcs  == {"register", "pipes", "create", "pid", "execWait", "cleanup"}
WaitPcs    == {"handle", "destroy", "arm", "select", "timeout"}
KillPcs    == {"closeSignal", "closePipes", "kill", "killed"}
CleanupPcs == {"remove", "release"}

Calls == [op : {"none", "Execute", "WaitForData", "WaitForExit", "Delete",
                "Kill", "Disown"},
          user : {"none", "zero", "later", "due"},
          after : {"none", "client", "again", "timeout", "select", "disown"}]

CallTypeOK ==
    /\ pc \in CreatePcs \cup WaitPcs \cup KillPcs \cup CleanupPcs
                \cup {"idle", "outcome", "crashed"}
    /\ call \in Calls
    /\ fate \in [Cmds -> {"none", "exit0", "exit1", "signal", "sigkill"}]
    /\ errorPipe \in Seq({"pid", "fail", "message"})

(* Where the client is during which call, and in which state of the object. *)
ThreadInv ==
    /\ pc = "idle" => call = NoCall
    /\ pc = "crashed" => state = "deleted"
    /\ state = "deleted" => pc \in {"idle", "crashed"}
    /\ pc \in CreatePcs => /\ call.op = "Execute" /\ call.after = "none"
                           /\ state \in {"Starting", "Error"}
    /\ pc \in CreatePcs \ {"cleanup"} => state = "Starting"
    /\ pc \in WaitPcs \cup KillPcs \cup {"outcome"} =>
           call.op \notin {"none", "Execute"} /\ state = "Executing"
    /\ pc \in WaitPcs \cup {"outcome"} => call.after = "none"
    /\ pc \in KillPcs => call.after # "none"
    /\ pc \in KillPcs \ {"closePipes"} => call.after # "disown"
    /\ pc \in CleanupPcs => /\ call.op # "none"
                            /\ call.op = "Execute" => state = "Error"
                            /\ call.after \in {"none", "disown"}
                            /\ state \notin {"Starting", "Executing"}
    /\ call.op = "Execute" => pc \in CreatePcs \cup CleanupPcs

(* The loops' counter, and what is only met in a detached execution. *)
LoopInv ==
    /\ pc \in {"create", "pid", "execWait", "cleanup", "destroy", "kill"} =>
           idx \in Cmds
    /\ pc = "handle" => idx \in 1 .. Len(Pipes)
    /\ middle => pc = "pid"
    /\ pc = "pid" \/ call.after = "disown" => opt.detach

(* What has gone wrong so far, and what of it may be forgotten. *)
FlagsInv ==
    /\ call.op = "Execute" => flags = {} /\ ~deadline
    /\ pc \in WaitPcs => flags \subseteq {"SelectError"} /\ (~opt.detach => flags = {})
    /\ pc \in {"kill", "killed"} => "Killed" \in flags
    /\ /\ pc \in {"closeSignal", "closePipes"}
       /\ call.after \in {"client", "timeout", "select"}
       => "Killed" \notin flags
    /\ call.after \in {"timeout", "select"} =>
           pc \in KillPcs /\ "TimeoutExpired" \notin flags
    /\ ~opt.detach /\ pc \in {"closeSignal", "closePipes"} =>
           (flags # {} => call.after = "again")
    /\ "TimeoutExpired" \in flags \/ call.after = "timeout" \/ pc = "timeout" =>
           deadline

(* The descriptors, and the two that the handler uses. *)
EndsInv ==
    /\ HandlerHasReader
    /\ opt.detach => "signalPipe" \notin ends /\ ~registered
    /\ pc = "idle" /\ state # "Executing" => ends \subseteq {"fout"} /\ ~registered
    /\ pc = "release" => ~registered /\ "signalPipe" \notin ends
    /\ pc = "closePipes" => "signalPipe" \notin ends
    /\ pc = "register" => ends = {} /\ ~opt.detach
    /\ pc = "pipes" => ends = IF opt.detach THEN {} ELSE {"sig", "signalPipe"}
    /\ pc \in {"create", "pid", "execWait"} =>
           ends \ {"errorPipe", "between"} =
               {"out", "err", "childStd"}
                    \cup IF opt.detach THEN {} ELSE {"sig", "signalPipe"}
    /\ pc \in {"cleanup"} \cup CleanupPcs =>
           "errorPipe" \notin ends /\ "between" \notin ends
    /\ state = "Executing" =>
           ends \subseteq PipeNames \cup {"signalPipe"}
    /\ "fout" \in ends =>
           opt.toFile /\ (pc = "cleanup" \/ state \in {"Error", "deleted"})
    /\ state = "Executing" /\ flags # {} => ends = {}

(* The counters tell what they count: the pipes still open, of which a detached
   process has one less, and the children not yet waited for. *)
Unreaped == {c \in Cmds : forkPid[c] = "child"}
CountersInv ==
    /\ state = "Executing" /\ ~opt.detach =>
           pipesLeft = Cardinality(ends \cap PipeNames)
    /\ state = "Executing" => pipesLeft >= Cardinality(ends \cap PipeNames)
    /\ state = "Executing" /\ flags = {} => commandsLeft = Cardinality(Unreaped)
    /\ pc \in {"create", "pid"} => commandsLeft = idx - 1
    /\ pc = "execWait" => commandsLeft = idx
    /\ pc \in {"register", "pipes"} => commandsLeft = 0

(* The pids that Execute has filled in, and what else may stand in ForkPIDs. *)
PidsInv ==
    /\ pc \in {"register", "pipes"} =>
           \A c \in Cmds : forkPid[c] = "zero" /\ child[c] = "none"
    /\ pc \in {"create", "pid", "execWait"} =>
           \A c \in Cmds : /\ c < idx => forkPid[c] = "child"
                           /\ c > idx => forkPid[c] = "zero" /\ child[c] = "none"
    /\ pc \in {"create", "pid"} => forkPid[idx] = "zero"
    /\ pc = "create" => child[idx] = "none"
    /\ pc = "execWait" => \/ forkPid[idx] = "child"
                          \/ forkPid[idx] = "garbled" /\ errorPipe # <<>>
    /\ \A c \in Cmds :
          /\ child[c] = "zombie" => ~opt.detach
          /\ forkPid[c] = "minusOne" => pc \in {"cleanup"} \cup CleanupPcs
          /\ forkPid[c] = "garbled" =>
                 opt.detach /\ pc \in {"execWait", "cleanup"} \cup CleanupPcs

(* The children of an attached execution: a pid stands in ForkPIDs until the
   process has been waited for, unless they were killed; how the last one ended
   is known; and when the signal pipe is closed, all have been waited for. *)
Unwaited(c) == child[c] \notin {"none", "gone"}
ChildInv(c) ==
    /\ Unwaited(c) => forkPid[c] = "child"
    /\ child[c] = "forked" => pc = "execWait" /\ c = idx
    /\ child[c] \in {"none", "forked", "running"} => fate[c] = "none"
    /\ child[c] = "zombie" => fate[c] \notin {"none", "sigkill"}
    /\ pc \in {"cleanup", "kill"} /\ c < idx => ~Unwaited(c)
    /\ state = "Executing" /\ flags # {} /\ pc # "kill" => ~Unwaited(c)
    /\ state \notin {"Starting", "Executing"} /\ pc # "cleanup" => ~Unwaited(c)
    /\ pc = "idle" /\ state # "Executing" => ~Unwaited(c)
    /\ forkPid[c] = "child" /\ ~Unwaited(c) =>
           \/ pc \in CleanupPcs
           \/ pc = "cleanup" /\ c < idx
           \/ flags # {} /\ (pc = "kill" /\ c >= idx => call.after = "again")

ChildrenInv == ~opt.detach => \A c \in Cmds : ChildInv(c)

LastInv ==
    ~opt.detach =>
        /\ pc = "execWait" /\ fate[idx] = "exit1" => errorPipe # <<>>
        /\ state = "Executing" => fate[NumCommands] # "exit1"
        /\ state = "Executing" /\ flags = {} /\ forkPid[NumCommands] = "zero" =>
               exitCode[NumCommands] = fate[NumCommands]
        /\ state = "Executing" /\ pc # "closePipes" /\ flags = {} =>
               ("signalPipe" \in ends <=> commandsLeft > 0)
        /\ pc = "outcome" => ends = {}

(* The answer that the cleanup will make known is so. *)
AnswerInv ==
    pc \in CleanupPcs =>
        /\ state = "Killed" => "Killed" \in flags
        /\ state = "Expired" => deadline /\ "Killed" \notin flags
        /\ state = "Disowned" => opt.detach
        /\ state = "Exited" /\ ~opt.detach => fate[NumCommands] = "exit0"
        /\ state = "Exception" /\ ~opt.detach => fate[NumCommands] = "signal"

Inv ==
    /\ TypeOK /\ CallTypeOK /\ ThreadInv /\ LoopInv /\ FlagsInv /\ EndsInv
    /\ CountersInv /\ PidsInv /\ ChildrenInv /\ LastInv /\ AnswerInv

(* The three pipes. *)
LEMMA LenPipes == Len(Pipes) = 3
    BY DEF Pipes

(* The children whose pid is kept can be counted. *)
LEMMA UnreapedFinite == IsFiniteSet(Unreaped)
<1>1. IsFiniteSet(Cmds)
    BY NumCommandsAssumption, FS_Interval DEF Cmds
<1>2. Unreaped \in SUBSET Cmds
    BY DEF Unreaped
<1> QED
    BY <1>1, <1>2, FS_Subset

(* Once the signal pipe is closed, every child has been waited for. *)
LEMMA AllWaited ==
    ASSUME Inv, ~opt.detach, state = "Executing", pc # "kill", pc # "closePipes",
           "signalPipe" \notin ends
    PROVE  \A c \in Cmds : child[c] = "gone" \/ child[c] = "none"
<1>1. CASE flags = {}
  <2>1. commandsLeft = 0 /\ Cardinality(Unreaped) = 0
      BY <1>1 DEF Inv, TypeOK, LastInv, CountersInv
  <2>2. Unreaped = {}
      BY <2>1, UnreapedFinite, FS_EmptySet
  <2> QED
      BY <2>2 DEF Unreaped, Inv, ChildrenInv, ChildInv, Unwaited
<1>2. CASE flags # {}
    BY <1>2 DEF Inv, ChildrenInv, ChildInv, Unwaited
<1> QED
    BY <1>1, <1>2

(* There are three pipes, of which any part may be open. *)
LEMMA CountPipes ==
    /\ IsFiniteSet(PipeNames) /\ Cardinality(PipeNames) = 3
    /\ \A S : /\ IsFiniteSet(S \cap PipeNames)
              /\ Cardinality(S \cap PipeNames) \in 0 .. 3
<1>1. IsFiniteSet(PipeNames) /\ Cardinality(PipeNames) = 3
  <2>1. IsFiniteSet({"out"}) /\ Cardinality({"out"}) = 1
    BY FS_Singleton
  <2>2. /\ IsFiniteSet({"out"} \cup {"err"})
        /\ Cardinality({"out"} \cup {"err"}) = 2
    <3>1. "err" \notin {"out"}
        OBVIOUS
    <3> HIDE DEF PipeNames
    <3> QED BY <2>1, <3>1, FS_AddElement
  <2>3. /\ IsFiniteSet(({"out"} \cup {"err"}) \cup {"sig"})
        /\ Cardinality(({"out"} \cup {"err"}) \cup {"sig"}) = 3
    <3>1. "sig" \notin {"out"} \cup {"err"}
        OBVIOUS
    <3> QED BY <2>2, <3>1, FS_AddElement
  <2>4. PipeNames = ({"out"} \cup {"err"}) \cup {"sig"}
     BY DEF PipeNames
  <2> QED BY <2>3, <2>4
<1>2. \A S : S \cap PipeNames \in SUBSET PipeNames
    OBVIOUS
<1> QED BY <1>1, <1>2, FS_Subset, FS_CardinalityType

(* The steps of the world keep the invariant. *)
LEMMA WorldKeeps ==
    ASSUME Inv, World
    PROVE  Inv'
<1> USE NumCommandsAssumption, OptionsAssumption, LenPipes
<1> USE DEF object, process, handler, thread, CreatePcs, WaitPcs, KillPcs,
            CleanupPcs, Cmds, PipeNames, NoCall, Goto, Return
<1>1. ASSUME NEW c \in Cmds, Exec(c) PROVE Inv'
    BY <1>1 DEF Inv, TypeOK, CallTypeOK, ThreadInv, LoopInv, FlagsInv, EndsInv,
           CountersInv, PidsInv, ChildrenInv, LastInv, AnswerInv, Calls,
           HandlerHasReader, Unreaped, ChildInv, Unwaited, Exec
<1>2. ASSUME NEW c \in Cmds, ExecFails(c) PROVE Inv'
  <2>1. TypeOK'
      BY <1>2 DEF Inv, TypeOK, ExecFails, End
  <2>2. CallTypeOK'
      BY <1>2 DEF Inv, CallTypeOK, Calls, ExecFails, End
  <2>3. ThreadInv' /\ LoopInv' /\ FlagsInv'
      BY <1>2 DEF Inv, CallTypeOK, ThreadInv, TypeOK, LoopInv, FlagsInv,
             ExecFails, End
  <2>4. EndsInv'
      BY <1>2 DEF Inv, TypeOK, ThreadInv, LoopInv, FlagsInv, EndsInv,
             HandlerHasReader, ExecFails, End
  <2>5. CountersInv'
      BY <1>2 DEF Inv, TypeOK, ThreadInv, LoopInv, FlagsInv, EndsInv,
             CountersInv, Unreaped, ExecFails, End
  <2>6. PidsInv'
    <3>1. errorPipe' # <<>> /\ child[c] = "forked"
        BY <1>2 DEF ExecFails, Inv, CallTypeOK
    <3>2. child' = [child EXCEPT ![c] = IF opt.detach THEN "gone" ELSE "zombie"]
        BY <1>2 DEF ExecFails, End
    <3>3. /\ child \in [Cmds -> {"none", "forked", "running", "zombie", "gone"}]
          /\ UNCHANGED <<opt, pc, idx, forkPid>>
        BY <1>2 DEF ExecFails, Inv, TypeOK
    <3>4. \A d \in Cmds : /\ child[d] = "none" => child'[d] = "none"
                          /\ child'[d] = "zombie" => child[d] = "zombie" \/ ~opt.detach
        BY <3>1, <3>2, <3>3
    <3>5. pc = "create" => idx \in Cmds
        BY DEF Inv, LoopInv
    <3> QED
        BY <3>1, <3>3, <3>4, <3>5 DEF Inv, PidsInv
  <2>7. ChildrenInv'
      BY <1>2 DEF Inv, TypeOK, CallTypeOK, ThreadInv, LoopInv, FlagsInv,
             PidsInv, ChildrenInv, ChildInv, Unwaited, ExecFails, End
  <2>8. LastInv'
    <3>1. errorPipe' # <<>>
        BY <1>2 DEF ExecFails, Inv, CallTypeOK
    <3>2. ~opt.detach => pc = "execWait" /\ state = "Starting"
        BY <1>2 DEF ExecFails, Inv, ThreadInv, ChildrenInv, ChildInv
    <3> QED
        BY <1>2, <3>1, <3>2 DEF ExecFails, End, LastInv
  <2>9. AnswerInv'
      BY <1>2 DEF Inv, TypeOK, CallTypeOK, ThreadInv, LoopInv, FlagsInv,
             ChildrenInv, ChildInv, Unwaited, AnswerInv, ExecFails, End
  <2> QED
      BY <2>1, <2>2, <2>3, <2>4, <2>5, <2>6, <2>7, <2>8, <2>9 DEF Inv
<1>3. ASSUME NEW c \in Cmds, Exits(c) PROVE Inv'
  <2>1. TypeOK'
      BY <1>3 DEF Inv, TypeOK, Exits, End
  <2>2. CallTypeOK'
      BY <1>3 DEF Inv, CallTypeOK, Calls, Exits, End
  <2>3. ThreadInv' /\ LoopInv' /\ FlagsInv'
      BY <1>3 DEF Inv, CallTypeOK, ThreadInv, TypeOK, LoopInv, FlagsInv, Exits,
             End
  <2>4. EndsInv'
      BY <1>3 DEF Inv, TypeOK, ThreadInv, LoopInv, FlagsInv, EndsInv,
             HandlerHasReader, Exits, End
  <2>5. CountersInv'
      BY <1>3 DEF Inv, TypeOK, ThreadInv, LoopInv, FlagsInv, EndsInv,
             CountersInv, Unreaped, Exits, End
  <2>6. PidsInv'
      BY <1>3 DEF Inv, TypeOK, CallTypeOK, ThreadInv, LoopInv, PidsInv, Exits,
             End
  <2>7. ChildrenInv'
      BY <1>3 DEF Inv, TypeOK, CallTypeOK, ThreadInv, LoopInv, FlagsInv,
             PidsInv, ChildrenInv, ChildInv, Unwaited, Exits, End
  <2>8. LastInv'
      BY <1>3 DEF Inv, TypeOK, CallTypeOK, ThreadInv, LoopInv, FlagsInv,
             EndsInv, PidsInv, CountersInv, ChildrenInv, ChildInv, Unwaited,
             LastInv, Exits, End
  <2>9. AnswerInv'
      BY <1>3 DEF Inv, TypeOK, CallTypeOK, ThreadInv, LoopInv, FlagsInv,
             ChildrenInv, ChildInv, Unwaited, AnswerInv, Exits, End
  <2> QED
      BY <2>1, <2>2, <2>3, <2>4, <2>5, <2>6, <2>7, <2>8, <2>9 DEF Inv
<1>4. ASSUME NEW p \in {"out", "err"}, Writes(p) PROVE Inv'
    BY <1>4 DEF Inv, TypeOK, CallTypeOK, ThreadInv, LoopInv, FlagsInv, EndsInv,
           CountersInv, PidsInv, ChildrenInv, LastInv, AnswerInv, Calls,
           HandlerHasReader, Unreaped, ChildInv, Unwaited, Writes
<1>5. ASSUME Report PROVE Inv'
    BY <1>5 DEF Inv, TypeOK, CallTypeOK, ThreadInv, LoopInv, FlagsInv, EndsInv,
           CountersInv, PidsInv, ChildrenInv, LastInv, AnswerInv, Calls,
           HandlerHasReader, Unreaped, ChildInv, Unwaited, Report
<1>6. ASSUME GrandchildBorn PROVE Inv'
    BY <1>6 DEF Inv, TypeOK, CallTypeOK, ThreadInv, LoopInv, FlagsInv, EndsInv,
           CountersInv, PidsInv, ChildrenInv, LastInv, AnswerInv, Calls,
           HandlerHasReader, Unreaped, ChildInv, Unwaited, GrandchildBorn
<1>7. ASSUME GrandchildEnds PROVE Inv'
    BY <1>7 DEF Inv, TypeOK, CallTypeOK, ThreadInv, LoopInv, FlagsInv, EndsInv,
           CountersInv, PidsInv, ChildrenInv, LastInv, AnswerInv, Calls,
           HandlerHasReader, Unreaped, ChildInv, Unwaited, GrandchildEnds
<1>8. ASSUME DeadlinePasses PROVE Inv'
    BY <1>8 DEF Inv, TypeOK, CallTypeOK, ThreadInv, LoopInv, FlagsInv, EndsInv,
           CountersInv, PidsInv, ChildrenInv, LastInv, AnswerInv, Calls,
           HandlerHasReader, Unreaped, ChildInv, Unwaited, DeadlinePasses
<1>9. ASSUME UserTimePasses PROVE Inv'
  <2>1. TypeOK'
      BY <1>9 DEF Inv, TypeOK, UserTimePasses
  <2>2. CallTypeOK'
      BY <1>9 DEF Inv, CallTypeOK, Calls, UserTimePasses
  <2>3. ThreadInv' /\ LoopInv' /\ FlagsInv'
      BY <1>9 DEF Inv, CallTypeOK, ThreadInv, TypeOK, LoopInv, FlagsInv,
             UserTimePasses
  <2>4. EndsInv' /\ CountersInv'
      BY <1>9 DEF Inv, TypeOK, ThreadInv, LoopInv, FlagsInv, EndsInv,
             HandlerHasReader, CountersInv, Unreaped, UserTimePasses
  <2>5. PidsInv' /\ ChildrenInv'
      BY <1>9 DEF Inv, TypeOK, CallTypeOK, ThreadInv, LoopInv, PidsInv,
             FlagsInv, ChildrenInv, ChildInv, Unwaited, UserTimePasses
  <2>6. LastInv' /\ AnswerInv'
      BY <1>9 DEF Inv, TypeOK, CallTypeOK, ThreadInv, LoopInv, FlagsInv,
             EndsInv, PidsInv, CountersInv, ChildrenInv, ChildInv, Unwaited,
             LastInv, AnswerInv, UserTimePasses
  <2> QED
      BY <2>1, <2>2, <2>3, <2>4, <2>5, <2>6 DEF Inv
<1>10. ASSUME SelectFails PROVE Inv'
  <2>1. TypeOK'
      BY <1>10 DEF Inv, TypeOK, SelectFails
  <2>2. CallTypeOK'
      BY <1>10 DEF Inv, CallTypeOK, Calls, SelectFails
  <2>3. ThreadInv' /\ LoopInv' /\ FlagsInv'
      BY <1>10 DEF Inv, CallTypeOK, ThreadInv, TypeOK, LoopInv, FlagsInv,
             SelectFails
  <2>4. EndsInv' /\ CountersInv'
      BY <1>10 DEF Inv, TypeOK, ThreadInv, LoopInv, FlagsInv, EndsInv,
             HandlerHasReader, CountersInv, Unreaped, SelectFails
  <2>5. PidsInv' /\ ChildrenInv'
      BY <1>10 DEF Inv, TypeOK, CallTypeOK, ThreadInv, LoopInv, PidsInv,
             FlagsInv, ChildrenInv, ChildInv, Unwaited, SelectFails
  <2>6. LastInv' /\ AnswerInv'
      BY <1>10 DEF Inv, TypeOK, CallTypeOK, ThreadInv, LoopInv, FlagsInv,
             EndsInv, PidsInv, CountersInv, ChildrenInv, ChildInv, Unwaited,
             LastInv, AnswerInv, SelectFails
  <2> QED
      BY <2>1, <2>2, <2>3, <2>4, <2>5, <2>6 DEF Inv
<1> QED
    BY <1>1, <1>2, <1>3, <1>4, <1>5, <1>6, <1>7, <1>8, <1>9, <1>10 DEF World

(* So does the handler, on whatever thread it runs. *)
LEMMA HandlerKeeps ==
    ASSUME Inv, Handler
    PROVE  Inv'
<1> USE NumCommandsAssumption, OptionsAssumption, LenPipes
<1> USE DEF object, process, handler, thread, CreatePcs, WaitPcs, KillPcs,
            CleanupPcs, Cmds, PipeNames, NoCall, Goto, Return
<1>1. ASSUME HandlerRead PROVE Inv'
  <2>1. TypeOK'
      BY <1>1 DEF Inv, TypeOK, HandlerRead
  <2>2. CallTypeOK'
      BY <1>1 DEF Inv, CallTypeOK, Calls, HandlerRead
  <2>3. ThreadInv' /\ LoopInv' /\ FlagsInv'
      BY <1>1 DEF Inv, CallTypeOK, ThreadInv, TypeOK, LoopInv, FlagsInv,
             HandlerRead
  <2>4. EndsInv' /\ CountersInv'
      BY <1>1 DEF Inv, TypeOK, ThreadInv, LoopInv, FlagsInv, EndsInv,
             HandlerHasReader, CountersInv, Unreaped, HandlerRead
  <2>5. PidsInv' /\ ChildrenInv'
      BY <1>1 DEF Inv, TypeOK, CallTypeOK, ThreadInv, LoopInv, PidsInv,
             FlagsInv, ChildrenInv, ChildInv, Unwaited, HandlerRead
  <2>6. LastInv' /\ AnswerInv'
      BY <1>1 DEF Inv, TypeOK, CallTypeOK, ThreadInv, LoopInv, FlagsInv,
             EndsInv, PidsInv, CountersInv, ChildrenInv, ChildInv, Unwaited,
             LastInv, AnswerInv, HandlerRead
  <2> QED
      BY <2>1, <2>2, <2>3, <2>4, <2>5, <2>6 DEF Inv
<1>2. ASSUME HandlerWrite PROVE Inv'
    BY <1>2 DEF Inv, TypeOK, CallTypeOK, ThreadInv, LoopInv, FlagsInv, EndsInv,
           CountersInv, PidsInv, ChildrenInv, LastInv, AnswerInv, Calls,
           HandlerHasReader, Unreaped, ChildInv, Unwaited, HandlerWrite
<1>3. ASSUME HandlerDangles PROVE Inv'
    BY <1>3 DEF Inv, TypeOK, CallTypeOK, ThreadInv, LoopInv, FlagsInv, EndsInv,
           CountersInv, PidsInv, ChildrenInv, LastInv, AnswerInv, Calls,
           HandlerHasReader, Unreaped, ChildInv, Unwaited, HandlerDangles
<1> QED
    BY <1>1, <1>2, <1>3 DEF Handler

(* With the last command started, all are, and all pipes are open. *)
LEMMA ExecWaitKeeps ==
    ASSUME Inv, ExecWait
    PROVE  Inv'
<1> USE NumCommandsAssumption, OptionsAssumption, LenPipes
<1> USE DEF object, process, handler, thread, CreatePcs, WaitPcs, KillPcs,
            CleanupPcs, Cmds, PipeNames, NoCall, Goto, Return, CreateFails
<1>1. /\ state = "Starting" /\ flags = {} /\ pc = "execWait"
      /\ idx \in Cmds /\ commandsLeft = idx
      /\ ends \ {"errorPipe", "between"} =
            {"out", "err", "childStd"}
                  \cup IF opt.detach THEN {} ELSE {"sig", "signalPipe"}
    BY DEF Inv, ThreadInv, FlagsInv, CountersInv, LoopInv, EndsInv, ExecWait
<1>2. CASE errorPipe = <<>> /\ idx = NumCommands
  <2>1. /\ Started /\ errorPipe' = <<>> /\ child[idx] # "forked"
        /\ UNCHANGED <<opt, forkPid, exitCode, commandsLeft, flags, pipeSet,
                       process, data, handler, deadline, hit>>
      BY <1>2 DEF ExecWait
  <2>2. \A c \in Cmds : forkPid[c] = "child"
      BY <1>1, <1>2 DEF Inv, PidsInv
  <2>3. TypeOK' /\ CallTypeOK'
      BY <1>1, <1>2, <2>1 DEF Started, Inv, TypeOK, CallTypeOK, Calls
  <2>4. ThreadInv' /\ LoopInv' /\ FlagsInv'
      BY <1>1, <1>2, <2>1 DEF Started, Inv, ThreadInv, LoopInv, FlagsInv
  <2>5. EndsInv'
      BY <1>1, <1>2, <2>1 DEF Started, Inv, EndsInv, HandlerHasReader
  <2>6. CountersInv'
    <3>1. Unreaped' = 1 .. NumCommands
        BY <2>1, <2>2 DEF Unreaped
    <3>2. Cardinality(Unreaped') = NumCommands
        BY <3>1, FS_Interval
    <3>3. opt.detach \/ ends' \cap PipeNames = PipeNames
        BY <1>1, <2>1 DEF Started
    <3>4. /\ pipesLeft' = 3 /\ commandsLeft' = NumCommands
          /\ pc' = "idle" /\ opt' = opt
        BY <1>1, <1>2, <2>1 DEF Started
    <3> HIDE DEF PipeNames
    <3>5. Cardinality(ends' \cap PipeNames) \in 0 .. 3
        BY CountPipes
    <3>6. opt.detach \/ Cardinality(ends' \cap PipeNames) = 3
        BY <3>3, CountPipes
    <3> QED
        BY <3>2, <3>4, <3>5, <3>6 DEF CountersInv
  <2>7. PidsInv' /\ ChildrenInv'
      BY <1>1, <1>2, <2>1, <2>2
         DEF Started, Inv, PidsInv, ChildrenInv, ChildInv, Unwaited
  <2>8. LastInv' /\ AnswerInv'
      BY <1>1, <1>2, <2>1, <2>2 DEF Started, Inv, LastInv, AnswerInv
  <2> QED
      BY <2>3, <2>4, <2>5, <2>6, <2>7, <2>8 DEF Inv
<1>3. CASE ~(errorPipe = <<>> /\ idx = NumCommands)
  <2>1. TypeOK' /\ CallTypeOK'
      BY <1>1, <1>3 DEF ExecWait, Inv, TypeOK, CallTypeOK
  <2>2. ThreadInv' /\ LoopInv' /\ FlagsInv'
      BY <1>1, <1>3 DEF ExecWait, Inv, ThreadInv, LoopInv, FlagsInv
  <2>3. EndsInv'
      BY <1>1, <1>3 DEF ExecWait, Inv, ThreadInv, EndsInv, HandlerHasReader
  <2>4. CountersInv'
      BY <1>1, <1>3 DEF ExecWait, Inv, CountersInv, Unreaped
  <2>5. PidsInv'
      BY <1>1, <1>3 DEF ExecWait, Inv, TypeOK, PidsInv
  <2>6. ChildrenInv'
      BY <1>1, <1>3 DEF ExecWait, Inv, ChildrenInv, ChildInv, Unwaited
  <2>7. LastInv' /\ AnswerInv'
      BY <1>1, <1>3 DEF ExecWait, Inv, LastInv, AnswerInv
  <2> QED
      BY <2>1, <2>2, <2>3, <2>4, <2>5, <2>6, <2>7 DEF Inv
<1> QED
    BY <1>2, <1>3

(* So does every step of Execute. *)
LEMMA ExecutingKeeps ==
    ASSUME Inv, Executing
    PROVE  Inv'
<1> USE NumCommandsAssumption, OptionsAssumption, LenPipes
<1> USE DEF object, process, handler, thread, CreatePcs, WaitPcs, KillPcs,
            CleanupPcs, Cmds, PipeNames, NoCall, Goto, Return, CreateFails,
            MakePipes
<1>1. ASSUME Register PROVE Inv'
  <2>1. TypeOK'
    <3>1. registered' \in BOOLEAN
        BY <1>1 DEF Register, Inv, TypeOK
    <3>2. ends' \subseteq Descriptors
        BY <1>1 DEF Register, Inv, TypeOK, Descriptors
    <3> QED
        BY <1>1, <3>1, <3>2 DEF Register, Inv, TypeOK
  <2>2. CallTypeOK'
      BY <1>1 DEF Inv, CallTypeOK, Calls, Register
  <2>3. ThreadInv' /\ LoopInv' /\ FlagsInv'
      BY <1>1 DEF Inv, CallTypeOK, ThreadInv, TypeOK, LoopInv, FlagsInv,
             Register
  <2>4. EndsInv' /\ CountersInv'
    <3>1. ends = {} /\ ~opt.detach /\ state = "Starting"
        BY <1>1 DEF Register, Inv, EndsInv, ThreadInv
    <3>2. EndsInv'
        BY <1>1, <3>1 DEF Register, EndsInv, HandlerHasReader
    <3> QED
        BY <1>1, <3>1, <3>2 DEF Register, Inv, CountersInv
  <2>5. PidsInv' /\ ChildrenInv'
      BY <1>1 DEF Inv, TypeOK, CallTypeOK, ThreadInv, LoopInv, PidsInv,
             FlagsInv, ChildrenInv, ChildInv, Unwaited, Register
  <2>6. LastInv' /\ AnswerInv'
      BY <1>1 DEF Inv, TypeOK, CallTypeOK, ThreadInv, LoopInv, FlagsInv,
             EndsInv, PidsInv, CountersInv, ChildrenInv, ChildInv, Unwaited,
             LastInv, AnswerInv, Register
  <2> QED
      BY <2>1, <2>2, <2>3, <2>4, <2>5, <2>6 DEF Inv
<1>2. ASSUME OpenPipes PROVE Inv'
  <2>1. TypeOK'
    <3>1. ends' \subseteq Descriptors
        BY <1>2 DEF OpenPipes, Inv, TypeOK, Descriptors
    <3> QED
        BY <1>2, <3>1 DEF OpenPipes, Inv, TypeOK
  <2>2. CallTypeOK'
      BY <1>2 DEF Inv, CallTypeOK, Calls, OpenPipes
  <2>3. ThreadInv' /\ LoopInv' /\ FlagsInv'
      BY <1>2 DEF Inv, CallTypeOK, ThreadInv, TypeOK, LoopInv, FlagsInv,
             OpenPipes
  <2>4. EndsInv'
    <3>1. /\ ends = IF opt.detach THEN {} ELSE {"sig", "signalPipe"}
          /\ state = "Starting" /\ (opt.detach => ~registered)
        BY <1>2 DEF OpenPipes, Inv, EndsInv, ThreadInv
    <3>2. HandlerHasReader' /\ "errorPipe" \notin ends' /\ "between" \notin ends'
        BY <1>2, <3>1 DEF OpenPipes, HandlerHasReader
    <3>3. "fout" \in ends' => opt.toFile /\ pc' = "cleanup"
        BY <1>2, <3>1 DEF OpenPipes
    <3>4. pc' # "cleanup" => /\ pc' = "create"
                             /\ ends' = ends \cup {"out", "err", "childStd"}
        BY <1>2 DEF OpenPipes
    <3>5. opt.detach => "signalPipe" \notin ends'
        BY <1>2, <3>1 DEF OpenPipes
    <3>6. pc' \in {"cleanup", "create"} /\ UNCHANGED <<opt, state, registered>>
        BY <1>2 DEF OpenPipes
    <3> QED
        BY <3>1, <3>2, <3>3, <3>4, <3>5, <3>6 DEF EndsInv
  <2>5. CountersInv'
      BY <1>2 DEF Inv, TypeOK, ThreadInv, LoopInv, FlagsInv, EndsInv,
             CountersInv, Unreaped, OpenPipes
  <2>6. PidsInv' /\ ChildrenInv'
      BY <1>2 DEF Inv, TypeOK, CallTypeOK, ThreadInv, LoopInv, PidsInv,
             FlagsInv, ChildrenInv, ChildInv, Unwaited, OpenPipes
  <2>7. LastInv' /\ AnswerInv'
      BY <1>2 DEF Inv, TypeOK, CallTypeOK, ThreadInv, LoopInv, FlagsInv,
             EndsInv, PidsInv, CountersInv, ChildrenInv, ChildInv, Unwaited,
             LastInv, AnswerInv, OpenPipes
  <2> QED
      BY <2>1, <2>2, <2>3, <2>4, <2>5, <2>6, <2>7 DEF Inv
<1>3. ASSUME Create PROVE Inv'
  <2>1. TypeOK'
    <3>1. commandsLeft = idx - 1 /\ idx \in Cmds
        BY <1>3 DEF Create, Inv, CountersInv, LoopInv
    <3>2. /\ commandsLeft' \in {commandsLeft, commandsLeft + 1}
          /\ idx' \in {1, idx}
          /\ \E p \in {forkPid[idx], "minusOne", "child"} :
                forkPid' = [forkPid EXCEPT ![idx] = p]
          /\ \E b \in {child[idx], "forked", "none"} :
                child' = [child EXCEPT ![idx] = b]
        BY <1>3, <3>1 DEF Create, Fork, Inv, TypeOK
    <3>3. UNCHANGED <<opt, state, exitCode, pipesLeft, flags, pipeSet, data,
                      handler, deadline, hit>>
        BY <1>3 DEF Create
    <3>9. ends' \subseteq ends \cup {"errorPipe", "between"}
        BY <1>3 DEF Create, Fork
    <3>4. commandsLeft' \in 0 .. NumCommands
        BY <3>1, <3>2, NumCommandsAssumption DEF Cmds
    <3>5. idx' \in 1 .. NumCommands + Len(Pipes)
        BY <3>1, <3>2, NumCommandsAssumption DEF Inv, TypeOK, Cmds
    <3>6. forkPid' \in [Cmds -> {"zero", "child", "minusOne", "garbled"}]
        BY <3>1, <3>2 DEF Inv, TypeOK
    <3>7. child' \in [Cmds -> {"none", "forked", "running", "zombie", "gone"}]
        BY <3>1, <3>2 DEF Inv, TypeOK
    <3>8. UNCHANGED <<registered, sigchld, handlerPc>>
        BY <3>3 DEF handler
    <3> QED
        BY <3>3, <3>4, <3>5, <3>6, <3>7, <3>8, <3>9
           DEF Inv, TypeOK, Descriptors
  <2>2. CallTypeOK'
      BY <1>3 DEF Inv, CallTypeOK, Calls, Create, Fork
  <2>3. ThreadInv' /\ LoopInv' /\ FlagsInv'
      BY <1>3 DEF Inv, CallTypeOK, ThreadInv, TypeOK, LoopInv, FlagsInv,
             Create, Fork
  <2>4. EndsInv'
      BY <1>3 DEF Inv, TypeOK, ThreadInv, LoopInv, FlagsInv, EndsInv,
             HandlerHasReader, Create, Fork
  <2>5. CountersInv'
      BY <1>3 DEF Inv, TypeOK, ThreadInv, LoopInv, FlagsInv, EndsInv,
             CountersInv, Unreaped, Create, Fork
  <2>6. PidsInv'
      BY <1>3 DEF Inv, TypeOK, CallTypeOK, ThreadInv, LoopInv, PidsInv, Create,
             Fork
  <2>7. ChildrenInv'
      BY <1>3 DEF Inv, TypeOK, CallTypeOK, ThreadInv, LoopInv, FlagsInv,
             PidsInv, ChildrenInv, ChildInv, Unwaited, Create, Fork
  <2>8. LastInv'
      BY <1>3 DEF Inv, TypeOK, CallTypeOK, ThreadInv, LoopInv, FlagsInv,
             EndsInv, PidsInv, CountersInv, ChildrenInv, ChildInv, Unwaited,
             LastInv, Create, Fork
  <2>9. AnswerInv'
      BY <1>3 DEF Inv, TypeOK, CallTypeOK, ThreadInv, LoopInv, FlagsInv,
             ChildrenInv, ChildInv, Unwaited, AnswerInv, Create, Fork
  <2> QED
      BY <2>1, <2>2, <2>3, <2>4, <2>5, <2>6, <2>7, <2>8, <2>9 DEF Inv
<1>4. ASSUME ReadPid PROVE Inv'
  <2>1. TypeOK'
    <3>1. commandsLeft = idx - 1 /\ idx \in Cmds
        BY <1>4 DEF ReadPid, Inv, CountersInv, LoopInv
    <3>2. \E pid \in {"child", "minusOne", "garbled"} :
              forkPid' = [forkPid EXCEPT ![idx] = pid]
      <4>1. Head(errorPipe) \in {"pid", "fail", "message"}
          BY <1>4 DEF ReadPid, Inv, CallTypeOK
      <4> QED
          BY <1>4, <4>1 DEF ReadPid
    <3>3. /\ commandsLeft' \in {commandsLeft, commandsLeft + 1}
          /\ pc' \in {"execWait", "cleanup"} /\ idx' \in {1, idx}
        BY <1>4 DEF ReadPid
    <3>4. /\ UNCHANGED <<opt, state, exitCode, pipesLeft, flags, pipeSet, process,
                         data, handler, deadline, hit>>
          /\ ends' \subseteq ends
        BY <1>4 DEF ReadPid
    <3> QED
        BY <3>1, <3>2, <3>3, <3>4 DEF Inv, TypeOK
  <2>2. CallTypeOK'
    <3>1. Tail(errorPipe) \in Seq({"pid", "fail", "message"})
        BY <1>4, HeadTailProperties DEF ReadPid, Inv, CallTypeOK
    <3>2. errorPipe' = errorPipe \/ errorPipe' = Tail(errorPipe)
        BY <1>4 DEF ReadPid
    <3>3. errorPipe \in Seq({"pid", "fail", "message"})
        BY DEF Inv, CallTypeOK
    <3>4. errorPipe' \in Seq({"pid", "fail", "message"})
        BY <3>1, <3>2, <3>3, Zenon
    <3>5. pc' \in {"execWait", "cleanup"}
        BY <1>4 DEF ReadPid
    <3> QED
        BY <1>4, <3>4, <3>5 DEF ReadPid, Inv, CallTypeOK
  <2>3. ThreadInv' /\ LoopInv' /\ FlagsInv'
      BY <1>4 DEF Inv, CallTypeOK, ThreadInv, TypeOK, LoopInv, FlagsInv,
             ReadPid
  <2>4. EndsInv' /\ CountersInv'
      BY <1>4 DEF Inv, TypeOK, ThreadInv, LoopInv, FlagsInv, EndsInv,
             HandlerHasReader, CountersInv, Unreaped, ReadPid
  <2>5. PidsInv' /\ ChildrenInv'
      BY <1>4 DEF Inv, TypeOK, CallTypeOK, ThreadInv, LoopInv, PidsInv,
             FlagsInv, ChildrenInv, ChildInv, Unwaited, ReadPid
  <2>6. LastInv' /\ AnswerInv'
      BY <1>4 DEF Inv, TypeOK, CallTypeOK, ThreadInv, LoopInv, FlagsInv,
             EndsInv, PidsInv, CountersInv, ChildrenInv, ChildInv, Unwaited,
             LastInv, AnswerInv, ReadPid
  <2> QED
      BY <2>1, <2>2, <2>3, <2>4, <2>5, <2>6 DEF Inv
<1>5. ASSUME CleanupError PROVE Inv'
  <2>1. TypeOK'
    <3>1. sigchld' \in BOOLEAN
        BY <1>5 DEF CleanupError, KillAndReap, Inv, TypeOK
    <3> QED
        BY <1>5, <3>1 DEF CleanupError, KillAndReap, NextCmd, Inv, TypeOK, LoopInv
  <2>2. CallTypeOK'
      BY <1>5 DEF Inv, CallTypeOK, Calls, CleanupError, KillAndReap, NextCmd,
             Alive
  <2>3. ThreadInv' /\ LoopInv' /\ FlagsInv'
      BY <1>5 DEF Inv, CallTypeOK, ThreadInv, TypeOK, LoopInv, FlagsInv,
             CleanupError, KillAndReap, NextCmd, Alive
  <2>4. EndsInv'
      BY <1>5 DEF Inv, TypeOK, ThreadInv, LoopInv, FlagsInv, EndsInv,
             HandlerHasReader, CleanupError, KillAndReap, NextCmd, Alive
  <2>5. CountersInv'
      BY <1>5 DEF Inv, TypeOK, ThreadInv, LoopInv, FlagsInv, EndsInv,
             CountersInv, Unreaped, CleanupError, KillAndReap, NextCmd, Alive
  <2>6. PidsInv'
      BY <1>5 DEF Inv, TypeOK, CallTypeOK, ThreadInv, LoopInv, PidsInv,
             CleanupError, KillAndReap, NextCmd, Alive
  <2>7. ChildrenInv'
    <3> SUFFICES ASSUME ~opt.detach, NEW c \in Cmds PROVE ChildInv(c)'
        BY <1>5 DEF CleanupError, ChildrenInv
    <3>1. /\ pc = "cleanup" /\ idx \in Cmds /\ state' = "Error"
          /\ \/ pc' = "cleanup" /\ idx' = idx + 1
             \/ pc' = "remove" /\ idx = NumCommands
          /\ UNCHANGED <<forkPid, flags>> /\ flags = {}
        BY <1>5 DEF CleanupError, NextCmd, Inv, ThreadInv, LoopInv, FlagsInv
    <3>2. ChildInv(c)
        BY DEF Inv, ChildrenInv
    <3>3. \/ forkPid[idx] = "child" /\ child' = [child EXCEPT ![idx] = "gone"]
          \/ /\ forkPid[idx] # "child" \/ child[idx] = "gone"
             /\ UNCHANGED <<child, fate>>
        BY <1>5 DEF CleanupError, KillAndReap
    <3>4. CASE c # idx
      <4>1. child'[c] = child[c] /\ fate'[c] = fate[c]
          BY <1>5, <3>4 DEF Inv, TypeOK, CallTypeOK, CleanupError, KillAndReap
      <4> QED
          BY <3>1, <3>2, <3>4, <4>1 DEF ChildInv, Unwaited
    <3>5. CASE c = idx
      <4>1. /\ child'[c] \in {"none", "gone"}
            /\ child'[c] = "none" => fate'[c] = "none"
          BY <3>2, <3>3, <3>5 DEF Inv, TypeOK, ChildInv, Unwaited
      <4> QED
          BY <3>1, <3>2, <3>5, <4>1 DEF ChildInv, Unwaited
    <3> QED
        BY <3>4, <3>5
  <2>8. LastInv'
      BY <1>5 DEF Inv, TypeOK, CallTypeOK, ThreadInv, LoopInv, FlagsInv,
             EndsInv, PidsInv, CountersInv, ChildrenInv, ChildInv, Unwaited,
             LastInv, CleanupError, KillAndReap, NextCmd, Alive
  <2>9. AnswerInv'
      BY <1>5 DEF Inv, TypeOK, CallTypeOK, ThreadInv, LoopInv, FlagsInv,
             ChildrenInv, ChildInv, Unwaited, AnswerInv, CleanupError,
             KillAndReap, NextCmd, Alive
  <2> QED
      BY <2>1, <2>2, <2>3, <2>4, <2>5, <2>6, <2>7, <2>8, <2>9 DEF Inv
<1> QED
    BY <1>1, <1>2, <1>3, <1>4, ExecWaitKeeps, <1>5 DEF Executing

(* A pipe that is closed at its end is counted off. *)
LEMMA HandlePipeKeeps ==
    ASSUME Inv, HandlePipe
    PROVE  Inv'
<1> USE NumCommandsAssumption, OptionsAssumption, LenPipes
<1> USE DEF object, process, handler, thread, CreatePcs, WaitPcs, KillPcs,
            CleanupPcs, Cmds, PipeNames, NoCall, Goto, Return
<1> DEFINE p == Pipes[idx]
<1>1. /\ pc = "handle" /\ idx \in 1 .. 3 /\ p \in PipeNames
      /\ state = "Executing" /\ call.after = "none"
    BY DEF HandlePipe, Inv, ThreadInv, LoopInv, Pipes
<1>2. \/ pc' = pc /\ idx' = idx + 1 /\ idx < 3 /\ call' = call
      \/ pc' \in {"arm", "destroy"} /\ idx' = 1 /\ call' = call
      \/ pc' = "idle" /\ idx' = 1 /\ call' = NoCall
    BY <1>1 DEF HandlePipe, NextPipe
<1>3. \/ UNCHANGED <<ends, pipesLeft>>
      \/ /\ p \in ends /\ ~Written(p)
         /\ ends' = ends \ {p} /\ pipesLeft' = pipesLeft - 1
    BY DEF HandlePipe
<1>4. data' \subseteq data /\ pipeSet' \subseteq pipeSet
    BY DEF HandlePipe
<1>5. UNCHANGED <<opt, state, forkPid, exitCode, commandsLeft, flags, process,
                  errorPipe, handler, deadline, hit>>
    BY DEF HandlePipe
<1> HIDE DEF p
<1>6. /\ Cardinality(ends' \cap PipeNames) \in Nat
      /\ Cardinality(ends \cap PipeNames) \in Nat
      /\ pipesLeft' - Cardinality(ends' \cap PipeNames) =
             pipesLeft - Cardinality(ends \cap PipeNames)
  <2>1. /\ Cardinality(ends' \cap PipeNames) \in Nat
        /\ Cardinality(ends \cap PipeNames) \in Nat
      BY CountPipes
  <2>2. CASE UNCHANGED <<ends, pipesLeft>>
      BY <2>1, <2>2 DEF Inv, TypeOK
  <2>3. CASE /\ p \in ends /\ ends' = ends \ {p}
             /\ pipesLeft' = pipesLeft - 1
    <3>1. ends' \cap PipeNames = (ends \cap PipeNames) \ {p}
        BY <2>3
    <3>2. p \in ends \cap PipeNames
        BY <2>3, <1>1
    <3>3. Cardinality((ends \cap PipeNames) \ {p}) =
              Cardinality(ends \cap PipeNames) - 1
        BY <3>2, CountPipes, FS_RemoveElement
    <3>4. pipesLeft \in Int /\ pipesLeft' = pipesLeft - 1
        BY <2>3 DEF Inv, TypeOK
    <3>5. Cardinality(ends' \cap PipeNames) =
              Cardinality(ends \cap PipeNames) - 1
        BY <3>1, <3>3
    <3> HIDE DEF PipeNames
    <3> QED
        BY <2>1, <3>4, <3>5
  <2> QED
      BY <1>3, <2>2, <2>3
<1>7. pipesLeft' \in 0 .. 3
    BY <1>1, <1>3, <1>6 DEF Inv, TypeOK, CountersInv
<1>8. TypeOK'
  <2>1. ends' \subseteq ends /\ idx' \in 1 .. 3
      BY <1>1, <1>2, <1>3
  <2> QED
      BY <1>4, <1>5, <1>7, <2>1 DEF Inv, TypeOK
<1>9. CallTypeOK'
    BY <1>1, <1>2, <1>5 DEF Inv, CallTypeOK, Calls
<1>10. ThreadInv'
    BY <1>1, <1>2, <1>5 DEF Inv, ThreadInv
<1>11. LoopInv'
    BY <1>1, <1>2, <1>5 DEF Inv, LoopInv
<1>12. FlagsInv'
    BY <1>1, <1>2, <1>5 DEF Inv, TypeOK, FlagsInv
<1>13. EndsInv'
  <2>1. p = "sig" /\ ~Written(p) => "signalPipe" \notin ends
      BY DEF Written
  <2> QED
      BY <1>1, <1>2, <1>3, <1>5, <2>1 DEF Inv, EndsInv, HandlerHasReader
<1>14. CountersInv'
    BY <1>1, <1>2, <1>5, <1>6, <1>7 DEF Inv, TypeOK, CountersInv, Unreaped
<1>15. PidsInv' /\ ChildrenInv' /\ AnswerInv'
    BY <1>1, <1>2, <1>5
       DEF Inv, TypeOK, PidsInv, ChildrenInv, ChildInv, Unwaited, AnswerInv
<1>16. LastInv'
    BY <1>1, <1>2, <1>3, <1>5 DEF Inv, TypeOK, LastInv
<1> QED
    BY <1>8, <1>9, <1>10, <1>11, <1>12, <1>13, <1>14, <1>15, <1>16 DEF Inv

(* A child that is waited for is counted off, and with the last one the write
   end of the signal pipe is closed. *)
LEMMA DestroyKeeps ==
    ASSUME Inv, Destroy
    PROVE  Inv'
<1> USE NumCommandsAssumption, OptionsAssumption, LenPipes
<1> USE DEF object, process, handler, thread, CreatePcs, WaitPcs, KillPcs,
            CleanupPcs, Cmds, PipeNames, NoCall, Goto, Return
<1>1. /\ pc = "destroy" /\ idx \in Cmds /\ state = "Executing"
      /\ commandsLeft \in 0 .. NumCommands
    BY DEF Destroy, DestroyOne, Inv, ThreadInv, LoopInv, TypeOK
<1>2. pc' \in {"destroy", "arm"} /\ idx' \in 1 .. NumCommands
    BY <1>1 DEF Destroy, DestroyOne, NextCmd
<1>3. UNCHANGED <<data, opt, state, pipesLeft, flags, pipeSet, call, fate,
                  grandchild, middle, errorPipe, handler, deadline, hit>>
    BY DEF Destroy, DestroyOne
<1>4. CallTypeOK' /\ ThreadInv' /\ LoopInv' /\ FlagsInv' /\ AnswerInv'
    BY <1>1, <1>2, <1>3
       DEF Inv, CallTypeOK, ThreadInv, LoopInv, FlagsInv, AnswerInv
<1>5. PidsInv' /\ ChildrenInv'
    BY DEF Destroy, DestroyOne, NextCmd, Inv, TypeOK, ThreadInv, LoopInv,
           FlagsInv, PidsInv, ChildrenInv, ChildInv, Unwaited
<1>6. CASE ~(forkPid[idx] = "child" /\ child[idx] = "zombie")
  <2>1. UNCHANGED <<child, exitCode, forkPid, commandsLeft, ends>>
      BY <1>6 DEF Destroy, DestroyOne
  <2>2. TypeOK'
      BY <1>1, <1>2, <1>3, <2>1 DEF Inv, TypeOK
  <2>3. EndsInv' /\ CountersInv' /\ LastInv'
      BY <1>1, <1>2, <1>3, <2>1
         DEF Inv, EndsInv, HandlerHasReader, CountersInv, Unreaped, LastInv
  <2> QED
      BY <1>4, <1>5, <2>2, <2>3 DEF Inv
<1>7. CASE forkPid[idx] = "child" /\ child[idx] = "zombie"
  <2>1. /\ child' = [child EXCEPT ![idx] = "gone"]
        /\ exitCode' = [exitCode EXCEPT ![idx] = fate[idx]]
        /\ forkPid' = [forkPid EXCEPT ![idx] = "zero"]
        /\ commandsLeft' = commandsLeft - 1
        /\ ends' = IF commandsLeft' = 0 THEN ends \ {"signalPipe"} ELSE ends
      BY <1>7 DEF Destroy, DestroyOne
  <2>2. Unreaped' = Unreaped \ {idx} /\ idx \in Unreaped
      BY <1>1, <1>7, <2>1 DEF Inv, TypeOK, Unreaped
  <2>3. /\ Cardinality(Unreaped) \in Nat /\ Cardinality(Unreaped') \in Nat
        /\ Cardinality(Unreaped') = Cardinality(Unreaped) - 1
    <3>1. IsFiniteSet(Unreaped \ {idx})
        BY UnreapedFinite, FS_RemoveElement
    <3> QED
        BY <2>2, <3>1, UnreapedFinite, FS_RemoveElement, FS_CardinalityType
  <2>4. ~opt.detach /\ flags = {} /\ commandsLeft = Cardinality(Unreaped)
      BY <1>1, <1>7 DEF Inv, PidsInv, FlagsInv, CountersInv
  <2>5. fate[idx] \in {"exit0", "exit1", "signal"}
      BY <1>1, <1>7, <2>4 DEF Inv, CallTypeOK, ChildrenInv, ChildInv
  <2>6. TypeOK'
      BY <1>1, <1>2, <1>3, <2>1, <2>3, <2>4, <2>5 DEF Inv, TypeOK
  <2>7. EndsInv'
      BY <1>1, <1>2, <1>3, <2>1, <2>4 DEF Inv, EndsInv, HandlerHasReader
  <2>8. CountersInv'
    <3>1. ends' \cap PipeNames = ends \cap PipeNames
        BY <2>1
    <3> QED
        BY <1>1, <1>2, <1>3, <2>1, <2>3, <2>4, <3>1 DEF Inv, CountersInv
  <2>9. LastInv'
      BY <1>1, <1>2, <1>3, <2>1, <2>4, <2>6 DEF Inv, TypeOK, LastInv
  <2> QED
      BY <1>4, <1>5, <2>6, <2>7, <2>8, <2>9 DEF Inv
<1> QED
    BY <1>6, <1>7

(* What WaitForExit concludes is so. *)
LEMMA OutcomeKeeps ==
    ASSUME Inv, Outcome
    PROVE  Inv'
<1> USE NumCommandsAssumption, OptionsAssumption, LenPipes
<1> USE DEF object, process, handler, thread, CreatePcs, WaitPcs, KillPcs,
            CleanupPcs, Cmds, PipeNames, NoCall, Goto, Return
<1>1. pc = "outcome" /\ state = "Executing" /\ call.after = "none"
    BY DEF Outcome, Inv, ThreadInv
<1>2. \/ "SelectError" \in flags \/ "Killed" \in flags
      \/ flags = {"TimeoutExpired"} \/ flags = {}
  <2>1. flags \subseteq {"Killed", "TimeoutExpired", "SelectError"}
      BY DEF Inv, TypeOK
  <2> QED
      BY <2>1
<1>3. state' \in {"Error", "Killed", "Expired", "Exited", "Exception"}
    BY <1>2 DEF Outcome
<1>4. ~opt.detach => ends = {} /\ \A c \in Cmds : ~Unwaited(c)
    BY AllWaited, <1>1 DEF Inv, LastInv, Unwaited
<1>5. ~opt.detach /\ flags = {} =>
          /\ exitCode[NumCommands] = fate[NumCommands]
          /\ fate[NumCommands] # "exit1"
  <2> SUFFICES ASSUME ~opt.detach, flags = {}
               PROVE  /\ exitCode[NumCommands] = fate[NumCommands]
                      /\ fate[NumCommands] # "exit1"
      OBVIOUS
  <2>1. forkPid[NumCommands] # "child"
      BY <1>1, <1>4 DEF Inv, ChildrenInv, ChildInv
  <2>2. forkPid[NumCommands] = "zero"
      BY <1>1, <2>1 DEF Inv, TypeOK, PidsInv
  <2> QED
      BY <1>1, <2>2 DEF Inv, LastInv
<1>6. TypeOK' /\ CallTypeOK'
  <2>1. TypeOK'
    <3>1. idx' \in 1 .. NumCommands + 3
        BY DEF Outcome
    <3> QED
        BY <1>3, <3>1 DEF Outcome, Inv, TypeOK
  <2> QED
      BY <2>1 DEF Outcome, Inv, CallTypeOK
<1>7. ThreadInv' /\ LoopInv' /\ FlagsInv'
    BY <1>1, <1>3
       DEF Outcome, Inv, TypeOK, CallTypeOK, ThreadInv, LoopInv, FlagsInv
<1>8. EndsInv' /\ CountersInv'
    BY <1>1, <1>3
       DEF Outcome, Inv, EndsInv, HandlerHasReader, CountersInv
<1>9. PidsInv'
    BY <1>1 DEF Outcome, Inv, PidsInv
<1>10. ChildrenInv'
    BY <1>3, <1>4
       DEF Outcome, Inv, TypeOK, ThreadInv, ChildrenInv, ChildInv, Unwaited
<1>11. LastInv'
    BY <1>1, <1>3 DEF Outcome, Inv, LastInv
<1>12. AnswerInv'
  <2>1. CASE "SelectError" \in flags
      BY <2>1 DEF Outcome, AnswerInv
  <2>2. CASE "SelectError" \notin flags /\ "Killed" \in flags
      BY <2>2 DEF Outcome, AnswerInv
  <2>3. CASE flags = {"TimeoutExpired"}
      BY <2>3 DEF Outcome, AnswerInv, Inv, FlagsInv
  <2>4. CASE flags = {}
    <3>1. /\ state' = IF exitCode[NumCommands] \in {"exit0", "exit1"}
                      THEN "Exited" ELSE "Exception"
          /\ UNCHANGED <<opt, fate>>
        BY <2>4 DEF Outcome
    <3>2. exitCode[NumCommands] \in {"exit0", "exit1", "signal"}
        BY DEF Inv, TypeOK
    <3> QED
        BY <1>5, <2>4, <3>1, <3>2 DEF AnswerInv
  <2> QED
      BY <1>2, <2>1, <2>2, <2>3, <2>4
<1> QED
    BY <1>6, <1>7, <1>8, <1>9, <1>10, <1>11, <1>12 DEF Inv

(* So does every step of a wait. *)
LEMMA WaitingKeeps ==
    ASSUME Inv, Waiting
    PROVE  Inv'
<1> USE NumCommandsAssumption, OptionsAssumption, LenPipes
<1> USE DEF object, process, handler, thread, CreatePcs, WaitPcs, KillPcs,
            CleanupPcs, Cmds, PipeNames, NoCall, Goto, Return
<1>1. ASSUME Arm PROVE Inv'
  <2>1. TypeOK' /\ CallTypeOK'
      BY <1>1 DEF Inv, TypeOK, CallTypeOK, Calls, Arm, TimeUp, Expire, Drained
  <2>2. ThreadInv' /\ LoopInv' /\ FlagsInv'
      BY <1>1 DEF Inv, CallTypeOK, ThreadInv, TypeOK, LoopInv, FlagsInv, Arm,
             TimeUp, Expire, Drained
  <2>3. EndsInv' /\ CountersInv'
      BY <1>1 DEF Inv, TypeOK, ThreadInv, LoopInv, FlagsInv, EndsInv,
             HandlerHasReader, CountersInv, Unreaped, Arm, TimeUp, Expire,
             Drained
  <2>4. PidsInv' /\ ChildrenInv'
      BY <1>1 DEF Inv, TypeOK, CallTypeOK, ThreadInv, LoopInv, PidsInv,
             FlagsInv, ChildrenInv, ChildInv, Unwaited, Arm, TimeUp, Expire,
             Drained
  <2>5. LastInv'
    <3>1. CASE ends \cap PipeNames = {} /\ ~opt.detach
        BY <1>1, <3>1
           DEF Arm, TimeUp, Drained, Expire, Inv, TypeOK, ThreadInv, FlagsInv,
               EndsInv, HandlerHasReader, LastInv
    <3>2. CASE ends \cap PipeNames # {}
        BY <1>1, <3>2
           DEF Arm, TimeUp, Drained, Expire, Inv, TypeOK, ThreadInv, FlagsInv,
               EndsInv, HandlerHasReader, LastInv
    <3>3. CASE opt.detach
        BY <1>1, <3>3 DEF Arm, LastInv
    <3> QED
        BY <3>1, <3>2, <3>3
  <2>6. AnswerInv'
      BY <1>1 DEF Inv, TypeOK, CallTypeOK, ThreadInv, LoopInv, FlagsInv,
             ChildrenInv, ChildInv, Unwaited, AnswerInv, Arm, TimeUp, Expire,
             Drained
  <2> QED
      BY <2>1, <2>2, <2>3, <2>4, <2>5, <2>6 DEF Inv
<1>2. ASSUME Select PROVE Inv'
    BY <1>2 DEF Inv, TypeOK, CallTypeOK, ThreadInv, LoopInv, FlagsInv, EndsInv,
           CountersInv, PidsInv, ChildrenInv, LastInv, AnswerInv, Calls,
           HandlerHasReader, Unreaped, ChildInv, Unwaited, Select, Expire,
           TimeUp
<1>3. ASSUME TimeoutKills PROVE Inv'
  <2>1. TypeOK'
      BY <1>3 DEF Inv, TypeOK, TimeoutKills
  <2>2. CallTypeOK'
      BY <1>3 DEF Inv, CallTypeOK, Calls, TimeoutKills
  <2>3. ThreadInv' /\ LoopInv' /\ FlagsInv'
      BY <1>3 DEF Inv, CallTypeOK, ThreadInv, TypeOK, LoopInv, FlagsInv,
             TimeoutKills
  <2>4. EndsInv' /\ CountersInv'
      BY <1>3 DEF Inv, TypeOK, ThreadInv, LoopInv, FlagsInv, EndsInv,
             HandlerHasReader, CountersInv, Unreaped, TimeoutKills
  <2>5. PidsInv' /\ ChildrenInv'
      BY <1>3 DEF Inv, TypeOK, CallTypeOK, ThreadInv, LoopInv, PidsInv,
             FlagsInv, ChildrenInv, ChildInv, Unwaited, TimeoutKills
  <2>6. LastInv' /\ AnswerInv'
      BY <1>3 DEF Inv, TypeOK, CallTypeOK, ThreadInv, LoopInv, FlagsInv,
             EndsInv, PidsInv, CountersInv, ChildrenInv, ChildInv, Unwaited,
             LastInv, AnswerInv, TimeoutKills
  <2> QED
      BY <2>1, <2>2, <2>3, <2>4, <2>5, <2>6 DEF Inv
<1> QED
    BY HandlePipeKeeps, DestroyKeeps, <1>1, <1>2, <1>3, OutcomeKeeps DEF Waiting

(* The pipes that were open are counted off. *)
LEMMA ClosePipesKeeps ==
    ASSUME Inv, ClosePipes
    PROVE  Inv'
<1> USE NumCommandsAssumption, OptionsAssumption, LenPipes
<1> USE DEF object, process, handler, thread, CreatePcs, WaitPcs, KillPcs,
            CleanupPcs, Cmds, PipeNames, NoCall, Goto, Return
<1>1. /\ state = "Executing" /\ UNCHANGED <<opt, commandsLeft, forkPid>>
      /\ ends' \subseteq ends /\ ends' \cap PipeNames = {}
      /\ pipesLeft' = pipesLeft - Cardinality(ends \cap PipeNames)
    BY DEF ClosePipes, Inv, ThreadInv
<1>2. pipesLeft' \in 0 .. 3 /\ (~opt.detach => pipesLeft' = 0)
  <2>1. Cardinality(ends \cap PipeNames) \in 0 .. 3
      BY CountPipes
  <2> QED
      BY <1>1, <2>1 DEF Inv, TypeOK, CountersInv
<1>3. TypeOK'
  <2>1. /\ state' \in {state, "Disowned"}
        /\ flags' \in {flags, flags \cup {"Killed"}}
      BY DEF ClosePipes
  <2>2. /\ idx' = 1 /\ data' \subseteq data /\ pipeSet' \subseteq pipeSet
        /\ UNCHANGED <<exitCode, process, handler, deadline, hit>>
      BY DEF ClosePipes
  <2> QED
      BY <1>1, <1>2, <2>1, <2>2 DEF Inv, TypeOK
<1>4. CallTypeOK'
    BY DEF ClosePipes, Inv, CallTypeOK
<1>5. ThreadInv' /\ LoopInv' /\ FlagsInv'
    BY DEF ClosePipes, Inv, TypeOK, CallTypeOK, ThreadInv, LoopInv, FlagsInv
<1>6. EndsInv'
    BY DEF ClosePipes, Inv, TypeOK, ThreadInv, LoopInv, FlagsInv, EndsInv,
           HandlerHasReader
<1>7. CountersInv'
  <2>1. Cardinality(ends' \cap PipeNames) = 0
      BY <1>1, FS_EmptySet
  <2>2. /\ pc' \notin CreatePcs
        /\ state' = "Executing" => flags' # {}
      BY <1>1 DEF ClosePipes
  <2> HIDE DEF PipeNames
  <2> QED
      BY <1>1, <1>2, <2>1, <2>2 DEF CountersInv
<1>8. PidsInv' /\ ChildrenInv'
    BY DEF ClosePipes, Inv, TypeOK, CallTypeOK, ThreadInv, LoopInv, FlagsInv,
           PidsInv, ChildrenInv, ChildInv, Unwaited
<1>9. LastInv' /\ AnswerInv'
    BY DEF ClosePipes, Inv, TypeOK, ThreadInv, LoopInv, FlagsInv, EndsInv,
           LastInv, AnswerInv
<1> QED
    BY <1>3, <1>4, <1>5, <1>6, <1>7, <1>8, <1>9 DEF Inv

(* A child killed has been waited for. *)
LEMMA KillChildKeeps ==
    ASSUME Inv, KillChild
    PROVE  Inv'
<1> USE NumCommandsAssumption, OptionsAssumption, LenPipes
<1> USE DEF object, process, handler, thread, CreatePcs, WaitPcs, KillPcs,
            CleanupPcs, Cmds, PipeNames, NoCall, Goto, Return
<1>1. /\ pc = "kill" /\ idx \in Cmds /\ state = "Executing" /\ flags # {}
      /\ \/ pc' = "kill" /\ idx' = idx + 1 /\ idx < NumCommands
         \/ pc' = "killed" /\ idx' = 1 /\ idx = NumCommands
      /\ UNCHANGED <<opt, state, forkPid, flags, call>>
    BY DEF KillChild, NextCmd, Inv, ThreadInv, LoopInv, FlagsInv
<1>2. TypeOK'
  <2>1. sigchld' \in BOOLEAN
      BY DEF KillChild, KillAndReap, Inv, TypeOK
  <2> QED
      BY <2>1 DEF KillChild, KillAndReap, NextCmd, Inv, TypeOK, LoopInv
<1>3. CallTypeOK'
    BY DEF KillChild, KillAndReap, NextCmd, Inv, CallTypeOK
<1>4. ThreadInv' /\ LoopInv' /\ FlagsInv'
    BY <1>1 DEF KillChild, Inv, TypeOK, CallTypeOK, ThreadInv, LoopInv, FlagsInv
<1>5. EndsInv' /\ CountersInv'
    BY <1>1
       DEF KillChild, KillAndReap, Inv, TypeOK, ThreadInv, EndsInv,
           HandlerHasReader, CountersInv, Unreaped
<1>6. PidsInv'
    BY <1>1 DEF KillChild, KillAndReap, Inv, TypeOK, PidsInv
<1>7. ChildrenInv'
  <2> SUFFICES ASSUME ~opt.detach, NEW c \in Cmds PROVE ChildInv(c)'
      BY <1>1 DEF ChildrenInv
  <2>1. ChildInv(c)
      BY DEF Inv, ChildrenInv
  <2>2. \/ forkPid[idx] = "child" /\ child' = [child EXCEPT ![idx] = "gone"]
        \/ /\ forkPid[idx] # "child" \/ child[idx] = "gone"
           /\ UNCHANGED <<child, fate>>
      BY DEF KillChild, KillAndReap
  <2>3. CASE c # idx
    <3>1. child'[c] = child[c] /\ fate'[c] = fate[c]
        BY <2>3 DEF Inv, TypeOK, CallTypeOK, KillChild, KillAndReap
    <3> QED
        BY <1>1, <2>1, <2>3, <3>1 DEF ChildInv, Unwaited
  <2>4. CASE c = idx
    <3>1. child'[c] \in {"none", "gone"} /\ (child'[c] = "none" => fate'[c] = "none")
        BY <2>1, <2>2, <2>4 DEF Inv, TypeOK, ChildInv, Unwaited
    <3> QED
        BY <1>1, <2>1, <2>4, <3>1 DEF ChildInv, Unwaited
  <2> QED
      BY <2>3, <2>4
<1>8. LastInv' /\ AnswerInv'
  <2>1. fate'[NumCommands] \in {fate[NumCommands], "sigkill"}
      BY DEF KillChild, KillAndReap, Inv, CallTypeOK
  <2> QED
      BY <1>1, <2>1 DEF Inv, LastInv, AnswerInv
<1> QED
    BY <1>2, <1>3, <1>4, <1>5, <1>6, <1>7, <1>8 DEF Inv

(* After the last child nothing is left to wait for. *)
LEMMA KilledKeeps ==
    ASSUME Inv, Killed
    PROVE  Inv'
<1> USE NumCommandsAssumption, OptionsAssumption, LenPipes
<1> USE DEF object, process, handler, thread, CreatePcs, WaitPcs, KillPcs,
            CleanupPcs, Cmds, PipeNames, NoCall, Goto, Return
<1>1. /\ pc = "killed" /\ idx' = 1 /\ commandsLeft' = 0
      /\ \/ pc' = "idle" /\ call' = NoCall
         \/ pc' = "outcome" /\ call' = [NoCall EXCEPT !.op = call.op]
         \/ /\ pc' = "handle" /\ call' = [call EXCEPT !.after = "none"]
            /\ call.after = "select" /\ pipesLeft > 0
      /\ UNCHANGED <<opt, state, forkPid, exitCode, pipesLeft, pipeSet, ends,
                     process, data, errorPipe, handler, deadline, hit>>
    BY DEF Killed, Drained
<1>2. \/ /\ call.after = "timeout"
         /\ flags' = (flags \ {"Killed"}) \cup {"TimeoutExpired"}
      \/ /\ call.after = "select"
         /\ flags' = (flags \ {"Killed"}) \cup {"SelectError"}
      \/ call.after \notin {"timeout", "select"} /\ flags' = flags
    BY DEF Killed
<1>3. state = "Executing" /\ flags # {} /\ flags' # {}
    BY <1>1, <1>2 DEF Inv, ThreadInv, FlagsInv
<1>4. pipesLeft > 0 => opt.detach
  <2>1. ends \cap PipeNames = {}
      BY <1>3 DEF Inv, EndsInv
  <2> QED
      BY <1>3, <2>1, FS_EmptySet DEF Inv, CountersInv
<1>5. TypeOK' /\ CallTypeOK'
    BY <1>1, <1>2 DEF Inv, TypeOK, CallTypeOK, Calls
<1>6. ThreadInv'
    BY <1>1 DEF Inv, ThreadInv, CallTypeOK, Calls
<1>7. LoopInv'
    BY <1>1 DEF Inv, ThreadInv, LoopInv, CallTypeOK, Calls
<1>8. FlagsInv'
  <2>1. CASE pc' = "idle" /\ call' = NoCall
      BY <1>1, <1>2, <2>1 DEF Inv, TypeOK, ThreadInv, FlagsInv
  <2>2. CASE pc' = "outcome" /\ call' = [NoCall EXCEPT !.op = call.op]
      BY <1>1, <1>2, <2>2 DEF Inv, TypeOK, ThreadInv, FlagsInv, CallTypeOK, Calls
  <2>3. CASE /\ pc' = "handle" /\ call' = [call EXCEPT !.after = "none"]
             /\ call.after = "select" /\ pipesLeft > 0
      BY <1>1, <1>2, <1>4, <2>3
         DEF Inv, TypeOK, ThreadInv, FlagsInv, CallTypeOK, Calls
  <2> QED
      BY <1>1, <2>1, <2>2, <2>3
<1>9. EndsInv'
    BY <1>1, <1>3 DEF Inv, EndsInv, HandlerHasReader
<1>10. CountersInv'
    BY <1>1, <1>3 DEF Inv, CountersInv
<1>11. PidsInv'
    BY <1>1 DEF Inv, PidsInv
<1>12. ChildrenInv'
    BY <1>1, <1>3 DEF Inv, ChildrenInv, ChildInv, Unwaited
<1>13. LastInv'
  <2>1. ends = {}
      BY <1>3 DEF Inv, EndsInv
  <2> QED
      BY <1>1, <1>3, <2>1 DEF Inv, LastInv
<1>14. AnswerInv'
    BY <1>1 DEF AnswerInv
<1> QED
    BY <1>5, <1>6, <1>7, <1>8, <1>9, <1>10, <1>11, <1>12, <1>13, <1>14 DEF Inv

(* So do Kill, Disown and the cleanup. *)
LEMMA EndingKeeps ==
    ASSUME Inv, Ending
    PROVE  Inv'
<1> USE NumCommandsAssumption, OptionsAssumption, LenPipes
<1> USE DEF object, process, handler, thread, CreatePcs, WaitPcs, KillPcs,
            CleanupPcs, Cmds, PipeNames, NoCall, Goto, Return
<1>1. ASSUME CloseSignal PROVE Inv'
  <2>1. TypeOK' /\ CallTypeOK'
      BY <1>1 DEF Inv, TypeOK, CallTypeOK, Calls, CloseSignal
  <2>2. ThreadInv' /\ LoopInv' /\ FlagsInv'
      BY <1>1 DEF Inv, CallTypeOK, ThreadInv, TypeOK, LoopInv, FlagsInv,
             CloseSignal
  <2>3. EndsInv' /\ CountersInv'
    <3>1. /\ pc = "closeSignal" /\ pc' = "closePipes" /\ state = "Executing"
          /\ ends' = ends \ {"signalPipe"}
          /\ UNCHANGED <<opt, state, flags, registered, forkPid>>
          /\ UNCHANGED <<pipesLeft, commandsLeft>>
        BY <1>1 DEF CloseSignal, Inv, ThreadInv
    <3>2. EndsInv'
        BY <3>1 DEF Inv, EndsInv, HandlerHasReader
    <3>3. ends' \cap PipeNames = ends \cap PipeNames
        BY <3>1
    <3> HIDE DEF PipeNames
    <3> QED
        BY <3>1, <3>2, <3>3 DEF Inv, CountersInv, Unreaped
  <2>4. PidsInv' /\ ChildrenInv'
      BY <1>1 DEF Inv, TypeOK, CallTypeOK, ThreadInv, LoopInv, PidsInv,
             FlagsInv, ChildrenInv, ChildInv, Unwaited, CloseSignal
  <2>5. LastInv' /\ AnswerInv'
      BY <1>1 DEF Inv, TypeOK, CallTypeOK, ThreadInv, LoopInv, FlagsInv,
             EndsInv, PidsInv, CountersInv, ChildrenInv, ChildInv, Unwaited,
             LastInv, AnswerInv, CloseSignal
  <2> QED
      BY <2>1, <2>2, <2>3, <2>4, <2>5 DEF Inv
<1>2. ASSUME Remove PROVE Inv'
  <2>1. TypeOK'
    <3>1. registered' \in BOOLEAN /\ sigchld' \in BOOLEAN /\ ends' \subseteq ends
        BY <1>2 DEF Remove, Inv, TypeOK
    <3> QED
        BY <1>2, <3>1 DEF Remove, Inv, TypeOK
  <2>2. CallTypeOK'
      BY <1>2 DEF Inv, CallTypeOK, Calls, Remove
  <2>3. ThreadInv' /\ LoopInv' /\ FlagsInv'
      BY <1>2 DEF Inv, CallTypeOK, ThreadInv, TypeOK, LoopInv, FlagsInv, Remove
  <2>4. EndsInv' /\ CountersInv'
    <3>1. /\ pc = "remove" /\ pc' = "release" /\ UNCHANGED <<opt, state, flags>>
          /\ state \notin {"Starting", "Executing"}
        BY <1>2 DEF Remove, Inv, ThreadInv
    <3>2. /\ ends' \subseteq ends /\ ("sig" \in ends => "sig" \in ends')
          /\ "signalPipe" \notin ends' /\ ~registered'
        BY <1>2 DEF Remove, Inv, EndsInv
    <3>3. EndsInv'
        BY <3>1, <3>2 DEF Inv, EndsInv, HandlerHasReader
    <3> QED
        BY <3>1, <3>3 DEF CountersInv
  <2>5. PidsInv' /\ ChildrenInv'
      BY <1>2 DEF Inv, TypeOK, CallTypeOK, ThreadInv, LoopInv, PidsInv,
             FlagsInv, ChildrenInv, ChildInv, Unwaited, Remove
  <2>6. LastInv' /\ AnswerInv'
      BY <1>2 DEF Inv, TypeOK, CallTypeOK, ThreadInv, LoopInv, FlagsInv,
             EndsInv, PidsInv, CountersInv, ChildrenInv, ChildInv, Unwaited,
             LastInv, AnswerInv, Remove
  <2> QED
      BY <2>1, <2>2, <2>3, <2>4, <2>5, <2>6 DEF Inv
<1>3. ASSUME Release PROVE Inv'
  <2>1. TypeOK' /\ CallTypeOK'
      BY <1>3 DEF Inv, TypeOK, CallTypeOK, Calls, Release
  <2>2. ThreadInv' /\ LoopInv' /\ FlagsInv'
      BY <1>3 DEF Inv, CallTypeOK, ThreadInv, TypeOK, LoopInv, FlagsInv, Release
  <2>3. EndsInv' /\ CountersInv'
    <3>1. /\ pc = "release" /\ pc' = "idle" /\ UNCHANGED <<opt, registered>>
          /\ state \notin {"Starting", "Executing"}
          /\ state' \in {state, "deleted"}
        BY <1>3 DEF Release, Inv, ThreadInv
    <3>2. ends' = ends \ (PipeNames \cup {"childStd"})
        BY <1>3 DEF Release
    <3>3. ends \subseteq Descriptors /\ ~registered /\ "signalPipe" \notin ends
          /\ "errorPipe" \notin ends /\ "between" \notin ends
          /\ ("fout" \in ends => opt.toFile /\ state \in {"Error", "deleted"})
        BY <3>1 DEF Inv, TypeOK, EndsInv
    <3>4. ends' \subseteq {"fout"}
        BY <3>2, <3>3 DEF Descriptors
    <3>5. EndsInv'
        BY <3>1, <3>2, <3>3, <3>4 DEF EndsInv, HandlerHasReader
    <3> QED
        BY <3>1, <3>5 DEF CountersInv
  <2>4. PidsInv' /\ ChildrenInv'
      BY <1>3 DEF Inv, TypeOK, CallTypeOK, ThreadInv, LoopInv, PidsInv,
             FlagsInv, ChildrenInv, ChildInv, Unwaited, Release
  <2>5. LastInv' /\ AnswerInv'
      BY <1>3 DEF Inv, TypeOK, CallTypeOK, ThreadInv, LoopInv, FlagsInv,
             EndsInv, PidsInv, CountersInv, ChildrenInv, ChildInv, Unwaited,
             LastInv, AnswerInv, Release
  <2> QED
      BY <2>1, <2>2, <2>3, <2>4, <2>5 DEF Inv
<1> QED
    BY <1>1, ClosePipesKeeps, KillChildKeeps, KilledKeeps, <1>2, <1>3 DEF Ending

(* WaitForData and WaitForExit may be called whenever the object executes. *)
LEMMA WaitKeeps ==
    ASSUME Inv, NEW op \in {"WaitForData", "WaitForExit", "Delete"},
           NEW user \in {"none", "zero", "later"}, Wait(op, user)
    PROVE  Inv'
<1> USE NumCommandsAssumption, OptionsAssumption, LenPipes
<1> USE DEF object, process, handler, thread, CreatePcs, WaitPcs, KillPcs,
            CleanupPcs, Cmds, PipeNames, NoCall, Goto, Return
<1>1. /\ pc = "idle" /\ state = "Executing" /\ call = NoCall
      /\ ~opt.detach /\ flags # {} => pipesLeft = 0
    BY FS_EmptySet DEF Wait, Inv, ThreadInv, EndsInv, CountersInv
<1>2. TypeOK' /\ CallTypeOK'
    BY DEF Wait, Waitable, Drained, Inv, TypeOK, CallTypeOK, Calls
<1>3. ThreadInv'
    BY DEF Wait, Waitable, Drained, Inv, CallTypeOK, ThreadInv
<1>4. LoopInv'
    BY DEF Wait, Waitable, Drained, Inv, TypeOK, ThreadInv, LoopInv
<1>5. FlagsInv'
  <2>1. CASE Waitable /\ pipesLeft > 0
      BY <1>1, <2>1 DEF Wait, Waitable, Inv, FlagsInv, TypeOK
  <2>2. CASE ~(Waitable /\ pipesLeft > 0)
      BY <1>1, <2>2 DEF Wait, Waitable, Drained, Inv, FlagsInv, TypeOK
  <2> QED
      BY <2>1, <2>2
<1>6. EndsInv' /\ CountersInv'
    BY DEF Wait, Waitable, Drained, Inv, TypeOK, ThreadInv, EndsInv,
           HandlerHasReader, CountersInv, Unreaped
<1>7. PidsInv' /\ ChildrenInv'
    BY DEF Wait, Waitable, Drained, Inv, TypeOK, CallTypeOK, ThreadInv, PidsInv,
           ChildrenInv, ChildInv, Unwaited
<1>8. pc' = "outcome" /\ ~opt.detach => ends = {}
  <2> SUFFICES ASSUME pc' = "outcome", ~opt.detach PROVE ends = {}
      OBVIOUS
  <2>1. CASE flags # {}
      BY <1>1, <2>1 DEF Inv, EndsInv
  <2>2. CASE flags = {}
    <3>1. pipesLeft = 0
        BY <1>1, <2>2 DEF Wait, Waitable, Inv, TypeOK
    <3>2. ends \cap PipeNames = {}
        BY <1>1, <3>1, CountPipes, FS_EmptySet DEF Inv, CountersInv
    <3> QED
        BY <1>1, <3>2 DEF Inv, TypeOK, EndsInv, HandlerHasReader
  <2> QED
      BY <2>1, <2>2
<1>9. LastInv'
    BY <1>1, <1>8 DEF Wait, Waitable, Drained, Inv, LastInv
<1>10. AnswerInv'
    BY DEF Wait, Waitable, Drained, AnswerInv
<1> QED
    BY <1>2, <1>3, <1>4, <1>5, <1>6, <1>7, <1>8, <1>9, <1>10 DEF Inv

(* So do the calls. *)
LEMMA CallKeeps ==
    ASSUME Inv, Call
    PROVE  Inv'
<1> USE NumCommandsAssumption, OptionsAssumption, LenPipes
<1> USE DEF object, process, handler, thread, CreatePcs, WaitPcs, KillPcs,
            CleanupPcs, Cmds, PipeNames, NoCall, Goto, Return
<1>1. ASSUME Execute PROVE Inv'
  <2>1. TypeOK'
    <3>1. deadline' \in BOOLEAN
        BY <1>1 DEF Execute
    <3> QED
        BY <1>1, <3>1 DEF Execute, Initialized, Inv, TypeOK
  <2>2. CallTypeOK'
      BY <1>1 DEF Inv, CallTypeOK, Calls, Execute, Initialized
  <2>3. ThreadInv' /\ LoopInv' /\ FlagsInv'
      BY <1>1 DEF Inv, CallTypeOK, ThreadInv, TypeOK, LoopInv, FlagsInv,
             Execute, Initialized
  <2>4. EndsInv' /\ CountersInv'
      BY <1>1 DEF Inv, TypeOK, ThreadInv, LoopInv, FlagsInv, EndsInv,
             HandlerHasReader, CountersInv, Unreaped, Execute, Initialized
  <2>5. PidsInv' /\ ChildrenInv'
      BY <1>1 DEF Inv, TypeOK, CallTypeOK, ThreadInv, LoopInv, PidsInv,
             FlagsInv, ChildrenInv, ChildInv, Unwaited, Execute, Initialized
  <2>6. LastInv' /\ AnswerInv'
      BY <1>1 DEF Inv, TypeOK, CallTypeOK, ThreadInv, LoopInv, FlagsInv,
             EndsInv, PidsInv, CountersInv, ChildrenInv, ChildInv, Unwaited,
             LastInv, AnswerInv, Execute, Initialized
  <2> QED
      BY <2>1, <2>2, <2>3, <2>4, <2>5, <2>6 DEF Inv
<1>2. ASSUME Kill PROVE Inv'
  <2>1. TypeOK' /\ CallTypeOK'
      BY <1>2 DEF Inv, TypeOK, CallTypeOK, Calls, Kill
  <2>2. ThreadInv' /\ LoopInv' /\ FlagsInv'
      BY <1>2 DEF Inv, CallTypeOK, ThreadInv, TypeOK, LoopInv, FlagsInv, Kill
  <2>3. EndsInv' /\ CountersInv'
      BY <1>2 DEF Inv, TypeOK, ThreadInv, LoopInv, FlagsInv, EndsInv,
             HandlerHasReader, CountersInv, Unreaped, Kill
  <2>4. PidsInv' /\ ChildrenInv'
      BY <1>2 DEF Inv, TypeOK, CallTypeOK, ThreadInv, LoopInv, PidsInv,
             FlagsInv, ChildrenInv, ChildInv, Unwaited, Kill
  <2>5. LastInv' /\ AnswerInv'
      BY <1>2 DEF Inv, TypeOK, CallTypeOK, ThreadInv, LoopInv, FlagsInv,
             EndsInv, PidsInv, CountersInv, ChildrenInv, ChildInv, Unwaited,
             LastInv, AnswerInv, Kill
  <2> QED
      BY <2>1, <2>2, <2>3, <2>4, <2>5 DEF Inv
<1>3. ASSUME Delete PROVE Inv'
    BY <1>3 DEF Inv, TypeOK, CallTypeOK, ThreadInv, LoopInv, FlagsInv, EndsInv,
           CountersInv, PidsInv, ChildrenInv, LastInv, AnswerInv, Calls,
           HandlerHasReader, Unreaped, ChildInv, Unwaited, Delete, Waitable
<1>4. ASSUME NEW op \in {"Disown", "Delete"}, Disown(op) PROVE Inv'
    BY <1>4 DEF Inv, TypeOK, CallTypeOK, ThreadInv, LoopInv, FlagsInv, EndsInv,
           CountersInv, PidsInv, ChildrenInv, LastInv, AnswerInv, Calls,
           HandlerHasReader, Unreaped, ChildInv, Unwaited, Disown, Waitable
<1> QED
    BY <1>1, <1>2, <1>3, WaitKeeps, <1>4 DEF Call

(***************************************************************************)
(* The invariant holds, and with it what it was made for.                  *)
(***************************************************************************)

LEMMA InvInit == Init => Inv
<1> SUFFICES ASSUME Init PROVE Inv
    OBVIOUS
<1> USE NumCommandsAssumption, OptionsAssumption, LenPipes
<1> USE DEF Init, CreatePcs, WaitPcs, KillPcs, CleanupPcs, Cmds, PipeNames, NoCall
<1>1. TypeOK
  <2>1. /\ registered \in BOOLEAN /\ sigchld \in BOOLEAN /\ deadline \in BOOLEAN
        /\ ends \subseteq PipeNames \cup {"signalPipe", "childStd",
                    "errorPipe", "between", "fout"}
      OBVIOUS
  <2> QED
      BY <2>1 DEF TypeOK
<1>2. CallTypeOK
  <2>1. <<>> \in Seq({"pid", "fail", "message"})
      OBVIOUS
  <2> QED
      BY <2>1 DEF CallTypeOK, Calls
<1>3. ThreadInv /\ LoopInv /\ FlagsInv /\ EndsInv
    BY DEF ThreadInv, LoopInv, FlagsInv, EndsInv, HandlerHasReader
<1>4. CountersInv /\ PidsInv /\ ChildrenInv /\ LastInv /\ AnswerInv
    BY DEF CountersInv, PidsInv, ChildrenInv, ChildInv, Unwaited, LastInv, AnswerInv
<1> QED
    BY <1>1, <1>2, <1>3, <1>4 DEF Inv

LEMMA InvStep == Inv /\ [Next]_vars => Inv'
<1> SUFFICES ASSUME Inv, [Next]_vars PROVE Inv'
    OBVIOUS
<1>1. CASE Next
  <2>1. CASE Terminating
      BY <2>1 DEF Inv, TypeOK, CallTypeOK, ThreadInv, LoopInv, FlagsInv, EndsInv,
             CountersInv, PidsInv, ChildrenInv, LastInv, AnswerInv, Calls,
             HandlerHasReader, Unreaped, ChildInv, Unwaited, Terminating, vars,
             object, process, handler, thread
  <2> QED
      BY <1>1, <2>1, WorldKeeps, HandlerKeeps, ExecutingKeeps, WaitingKeeps,
         EndingKeeps, CallKeeps DEF Next, Client
<1>2. CASE UNCHANGED vars
    BY <1>2 DEF Inv, TypeOK, CallTypeOK, ThreadInv, LoopInv, FlagsInv, EndsInv,
           CountersInv, PidsInv, ChildrenInv, LastInv, AnswerInv, Calls,
           HandlerHasReader, Unreaped, ChildInv, Unwaited, vars, object, process,
           handler, thread
<1> QED
    BY <1>1, <1>2

LEMMA InvAlways == Spec => []Inv
    BY InvInit, InvStep, PTL DEF Spec

(* The model's variables keep the ranges that the code's have: no counter runs
   under zero or over the number of commands or of pipes, however the calls, the
   exits and the failures fall. *)
THEOREM TypeCorrect == Spec => []TypeOK
<1>1. Inv => TypeOK
    BY DEF Inv
<1> QED
    BY <1>1, InvAlways, PTL

(* The handler never writes to a signal pipe without a reader: SIGPIPE would end
   the program. *)
THEOREM ReaderThere == Spec => []HandlerHasReader
<1>1. Inv => HandlerHasReader
    BY DEF Inv, EndsInv
<1> QED
    BY <1>1, InvAlways, PTL

(* Whoever ends an execution, and whatever part of it has failed, its descriptors
   are closed and the handler forgets it. *)
THEOREM AllClosed == Spec => []NothingLeftOpen
<1>1. Inv => NothingLeftOpen
    BY DEF Inv, EndsInv, ThreadInv, NothingLeftOpen, Over
<1> QED
    BY <1>1, InvAlways, PTL

(* kill() hits a pid that may be somebody else's only in the three cases that
   NoStrayKill names. *)
THEOREM KillsOwn == Spec => NoStrayKill
<1> DEFINE new == hit' \ hit
           Fine == /\ "stale" \in new => opt.detach \/ call.after = "again"
                   /\ "everybody" \in new => pc = "cleanup"
                   /\ "stranger" \in new => pc = "cleanup" /\ opt.detach
<1>1. ASSUME Inv, [Next]_vars PROVE [Fine]_vars
  <2>1. CASE hit' = hit \/ hit' = {}
      BY <2>1
  <2>2. CASE CleanupError
    <3>1. /\ pc = "cleanup" /\ idx \in Cmds /\ flags = {} /\ state # "Executing"
        BY <1>1, <2>2 DEF CleanupError, Inv, ThreadInv, LoopInv, FlagsInv, CreatePcs
    <3>2. "stale" \in new => forkPid[idx] = "child" /\ child[idx] = "gone"
        BY <1>1, <2>2, <3>1 DEF CleanupError, KillAndReap, Inv, TypeOK
    <3>3. "stranger" \in new => forkPid[idx] = "garbled"
        BY <2>2 DEF CleanupError, KillAndReap
    <3> QED
        BY <1>1, <3>1, <3>2, <3>3
           DEF Inv, PidsInv, ChildrenInv, ChildInv, Unwaited, CleanupPcs, Cmds
  <2>3. CASE KillChild
    <3>1. /\ pc = "kill" /\ idx \in Cmds
        BY <1>1, <2>3 DEF KillChild, Inv, LoopInv
    <3>2. "stale" \in new => forkPid[idx] = "child" /\ child[idx] = "gone"
        BY <1>1, <2>3, <3>1 DEF KillChild, KillAndReap, Inv, TypeOK
    <3>3. /\ "everybody" \in new => forkPid[idx] = "minusOne"
          /\ "stranger" \in new => forkPid[idx] = "garbled"
        BY <2>3 DEF KillChild, KillAndReap
    <3> QED
        BY <1>1, <3>1, <3>2, <3>3, NumCommandsAssumption
           DEF Inv, PidsInv, ChildrenInv, ChildInv, Unwaited, CleanupPcs, Cmds
  <2> QED
      BY <1>1, <2>1, <2>2, <2>3
         DEF Next, vars, Client, Call, Handler, World, Terminating, Executing,
             Waiting, Ending, Register, OpenPipes, Create, ReadPid, ExecWait,
             HandlePipe, Destroy, DestroyOne, Arm, Select, TimeoutKills, Outcome,
             CloseSignal, ClosePipes, Killed, Remove, Release, Execute, Kill,
             Delete, Wait, Disown, HandlerRead, HandlerWrite, HandlerDangles,
             Exec, ExecFails, Exits, Writes, Report, GrandchildBorn,
             GrandchildEnds, DeadlinePasses, UserTimePasses, SelectFails
<1> QED
    BY <1>1, InvAlways, PTL DEF Spec, NoStrayKill

(***************************************************************************)
(* The promises of ChildProcess are kept, one step of the process at a     *)
(* time.                                                                   *)
(***************************************************************************)

(* What the client sees has not changed. *)
Unseen == UNCHANGED <<Answered, ~opt.detach, Left, LastEnd, KillAsked, deadline>>
Step == [Contract!Next]_Contract!vars

LEMMA UnseenStep == Unseen => Step
    BY DEF Unseen, Step, Contract!vars

(* The end of a child is seen if it is the last one of an attached execution. *)
LEMMA EndSeen ==
    ASSUME Inv, NEW c \in Cmds, child[c] \in {"forked", "running"},
           NEW how \in {"exit0", "exit1", "signal"}, End(c, how),
           how = "exit1" => child[c] = "forked",
           UNCHANGED <<opt, object, pc, call, deadline>>
    PROVE  Step
<1> USE DEF object
<1>1. UNCHANGED <<Answered, ~opt.detach, KillAsked, deadline>>
    BY DEF Answered, KillAsked
<1>2. Left' = Left
    BY DEF Left, End, Inv, TypeOK
<1>3. CASE opt.detach \/ c # NumCommands
  <2>1. LastEnd' = LastEnd
      BY <1>3 DEF LastEnd, End, Inv, CallTypeOK
  <2> QED
      BY <1>1, <1>2, <2>1, UnseenStep DEF Unseen
<1>4. CASE ~opt.detach /\ c = NumCommands
  <2>1. fate[c] = "none" /\ fate'[c] = how
      BY <1>4 DEF End, Inv, CallTypeOK, ChildrenInv, ChildInv
  <2>2. LastEnd = "none" /\ LastEnd' = IF how = "exit0" THEN "exit" ELSE how
      BY <1>4, <2>1 DEF LastEnd
  <2>3. Left # {}
      BY <1>4 DEF Left
  <2>4. /\ Answered \in {"creating", "Executing"}
        /\ child[c] = "forked" => Answered = "creating"
      BY <1>4 DEF Answered, Inv, ThreadInv, ChildrenInv, ChildInv, Unwaited,
             CreatePcs, CleanupPcs
  <2>5. Contract!End
      BY <1>1, <1>2, <2>2, <2>3, <2>4 DEF Contract!End, Contract!Pending
  <2> QED
      BY <2>5 DEF Step, Contract!Next
<1> QED
    BY <1>3, <1>4

(* Killing and reaping a child is seen if it had not been waited for. *)
LEMMA ReapSeen ==
    ASSUME Inv, NEW c \in Cmds, pc = "cleanup" \/ pc = "kill", KillAndReap(c),
           UNCHANGED <<Answered, ~opt.detach, KillAsked, deadline>>
    PROVE  Step
<1>1. CASE opt.detach \/ child[c] \in {"none", "gone"}
  <2>1. Left' = Left
      BY <1>1 DEF Left, KillAndReap, Inv, TypeOK
  <2>2. LastEnd' = LastEnd
      BY <1>1 DEF LastEnd, KillAndReap, Alive
  <2> QED
      BY <2>1, <2>2, UnseenStep DEF Unseen
<1>2. CASE ~opt.detach /\ child[c] \notin {"none", "gone"}
  <2>1. forkPid[c] = "child"
      BY <1>2 DEF Inv, ChildrenInv, ChildInv, Unwaited
  <2>2. /\ child' = [child EXCEPT ![c] = "gone"]
        /\ fate' = IF Alive(c) THEN [fate EXCEPT ![c] = "sigkill"] ELSE fate
      BY <1>2, <2>1 DEF KillAndReap
  <2>3. c \in Left /\ Left' = Left \ {c}
      BY <1>2, <2>2 DEF Left, Inv, TypeOK
  <2>4. IF Alive(c) THEN fate[c] = "none" ELSE fate[c] # "none"
      BY <1>2 DEF Alive, Inv, TypeOK, ChildrenInv, ChildInv
  <2>5. LastEnd' = IF c = NumCommands /\ LastEnd = "none" THEN "sigkill" ELSE LastEnd
      BY <1>2, <2>2, <2>4 DEF LastEnd, Inv, CallTypeOK
  <2>6. Answered \in {"creating", "Executing"}
      BY DEF Answered, Inv, ThreadInv, CreatePcs, KillPcs
  <2>7. Contract!Reap
      BY <2>3, <2>5, <2>6 DEF Contract!Reap, Contract!Pending
  <2> QED
      BY <2>7 DEF Step, Contract!Next
<1> QED
    BY <1>1, <1>2

(* Each group of actions takes the abstract object one step, or none. *)
LEMMA WorldSeen ==
    ASSUME Inv, World
    PROVE  Step
<1> USE DEF object, process, handler, thread
<1>1. ASSUME NEW c \in Cmds, Exec(c) PROVE Step
  <2>1. Left' = Left
      BY <1>1 DEF Exec, Left, Inv, TypeOK
  <2> QED
      BY <1>1, <2>1, UnseenStep DEF Exec, Unseen, Answered, LastEnd, KillAsked
<1>2. ASSUME NEW c \in Cmds, ExecFails(c) PROVE Step
    BY <1>2, EndSeen DEF ExecFails
<1>3. ASSUME NEW c \in Cmds, Exits(c) PROVE Step
    BY <1>3, EndSeen DEF Exits
<1>4. ASSUME NEW p \in {"out", "err"}, Writes(p) PROVE Step
    BY <1>4, UnseenStep DEF Writes, Unseen, Answered, Left, LastEnd, KillAsked
<1>5. CASE Report \/ GrandchildBorn \/ GrandchildEnds
    BY <1>5, UnseenStep
       DEF Report, GrandchildBorn, GrandchildEnds, Unseen, Answered, Left, LastEnd,
           KillAsked
<1>6. CASE DeadlinePasses
  <2>1. UNCHANGED <<Answered, ~opt.detach, Left, LastEnd, KillAsked>>
      BY <1>6 DEF DeadlinePasses, Answered, Left, LastEnd, KillAsked
  <2>2. Answered = "Executing"
      BY <1>6 DEF DeadlinePasses, Answered, Inv, ThreadInv, CreatePcs, CleanupPcs
  <2>3. Contract!TimePasses
      BY <1>6, <2>1, <2>2 DEF DeadlinePasses, Contract!TimePasses
  <2> QED
      BY <2>3 DEF Step, Contract!Next
<1>7. CASE UserTimePasses
  <2>1. call'.op = call.op /\ call'.after = call.after
      BY <1>7 DEF UserTimePasses, Inv, CallTypeOK, Calls
  <2> QED
      BY <1>7, <2>1, UnseenStep
         DEF UserTimePasses, Unseen, Answered, Left, LastEnd, KillAsked
<1>8. CASE SelectFails
  <2>1. call'.op = call.op /\ call'.after = "select" /\ pc' = "closeSignal"
      BY <1>8 DEF SelectFails, Goto, Inv, CallTypeOK, Calls
  <2>2. pc = "select" /\ call.after = "none" /\ "Killed" \notin flags
      BY <1>8 DEF SelectFails, Inv, ThreadInv, FlagsInv, WaitPcs
  <2> QED
      BY <1>8, <2>1, <2>2, UnseenStep
         DEF SelectFails, Unseen, Answered, Left, LastEnd, KillAsked
<1> QED
    BY <1>1, <1>2, <1>3, <1>4, <1>5, <1>6, <1>7, <1>8 DEF World

LEMMA HandlerSeen ==
    ASSUME Inv, Handler
    PROVE  Step
<1>1. state' = state /\ (state = "deleted" \/ pc' = pc)
    BY DEF Handler, HandlerRead, HandlerWrite, HandlerDangles, thread, object
<1> QED
    BY <1>1, UnseenStep
       DEF Handler, HandlerRead, HandlerWrite, HandlerDangles, object, process,
           thread, Unseen, Answered, Left, LastEnd, KillAsked

(* While Execute runs, and does not return, the answer is open. *)
LEMMA Creating ==
    ASSUME Inv, pc \in CreatePcs
    PROVE  /\ Answered = "creating" /\ ~KillAsked
           /\ pc' \in CreatePcs \cup CleanupPcs /\ state' \in {state, "Error"}
              /\ UNCHANGED <<opt, call, flags, deadline>> =>
                  UNCHANGED <<Answered, ~opt.detach, KillAsked, deadline>>
    BY DEF Answered, KillAsked, CreatePcs, CleanupPcs, Inv, ThreadInv, FlagsInv

LEMMA ExecutingSeen ==
    ASSUME Inv, Executing
    PROVE  Step
<1> USE DEF object, process, handler, thread, Goto, CreateFails
<1>1. CASE Register \/ OpenPipes \/ ReadPid
  <2>1. UNCHANGED <<Left, LastEnd>>
      BY <1>1 DEF Register, OpenPipes, ReadPid, Left, LastEnd
  <2>2. UNCHANGED <<Answered, ~opt.detach, KillAsked, deadline>>
      BY <1>1, Creating DEF Register, OpenPipes, ReadPid, CreatePcs
  <2> QED
      BY <2>1, <2>2, UnseenStep DEF Unseen
<1>2. CASE Create
  <2>1. pc = "create" /\ idx \in Cmds /\ child[idx] = "none"
      BY <1>2 DEF Create, Inv, LoopInv, PidsInv
  <2>2. UNCHANGED <<Answered, ~opt.detach, KillAsked, deadline>>
      BY <1>2, Creating DEF Create, Fork, CreatePcs
  <2>3. LastEnd' = LastEnd
      BY <1>2 DEF Create, LastEnd
  <2>4. CASE opt.detach \/ child' = child
    <3>1. Left' = Left
        BY <1>2, <2>4 DEF Left, Create
    <3> QED
        BY <2>2, <2>3, <3>1, UnseenStep DEF Unseen
  <2>5. CASE ~opt.detach /\ child' # child
    <3>1. child' = [child EXCEPT ![idx] = "forked"]
        BY <1>2, <2>5 DEF Create, Fork
    <3>2. idx \notin Left /\ Left' = Left \cup {idx}
        BY <1>2, <2>1, <2>5, <3>1 DEF Left, Create, Inv, TypeOK
    <3>3. child[NumCommands] = "none"
        BY <2>1, NumCommandsAssumption DEF Inv, PidsInv, Cmds
    <3>4. LastEnd = "none"
        BY <2>5, <3>3, NumCommandsAssumption
           DEF LastEnd, Inv, ChildrenInv, ChildInv, Cmds
    <3>5. Answered = "creating"
        BY <2>1, Creating DEF CreatePcs
    <3>6. Contract!Start
        BY <2>1, <2>2, <2>3, <2>5, <3>2, <3>4, <3>5 DEF Contract!Start
    <3> QED
        BY <3>6 DEF Step, Contract!Next
  <2> QED
      BY <2>4, <2>5
<1>3. CASE ExecWait
  <2>1. UNCHANGED <<Left, LastEnd, deadline, opt, flags>>
      BY <1>3 DEF ExecWait, Left, LastEnd
  <2>2. CASE pc' \in CreatePcs
    <3>1. UNCHANGED <<state, call>>
        BY <1>3, <2>2 DEF ExecWait, Started, Return, CreatePcs
    <3>2. UNCHANGED <<Answered, ~opt.detach, KillAsked, deadline>>
        BY <1>3, <2>1, <2>2, <3>1, Creating DEF ExecWait, CreatePcs
    <3> QED
        BY <2>1, <3>2, UnseenStep DEF Unseen
  <2>3. CASE pc' \notin CreatePcs
    <3>1. /\ pc = "execWait" /\ errorPipe = <<>> /\ idx = NumCommands
          /\ pc' = "idle" /\ state' = "Executing" /\ call' = NoCall
        BY <1>3, <2>3 DEF ExecWait, Started, Return, CreatePcs
    <3>2. Answered = "creating" /\ ~KillAsked
        BY <3>1, Creating DEF CreatePcs
    <3>3. Answered' = "Executing"
        BY <3>1 DEF Answered, NoCall
    <3>4. flags = {}
        BY <3>1 DEF Inv, ThreadInv, FlagsInv, CreatePcs
    <3>5. ~KillAsked'
        BY <2>1, <3>1, <3>4 DEF KillAsked, NoCall
    <3>6. ASSUME ~opt.detach PROVE Left = Cmds /\ LastEnd # "exit1"
      <4>1. \A c \in Cmds : forkPid[c] = "child"
          BY <3>1, <3>6, NumCommandsAssumption DEF Inv, PidsInv, Cmds
      <4>2. \A c \in Cmds : child[c] \notin {"none", "gone"}
          BY <3>1, <3>4, <3>6, <4>1
             DEF Inv, ChildrenInv, ChildInv, Unwaited, CleanupPcs
      <4>3. fate[NumCommands] # "exit1"
          BY <3>1, <3>6 DEF Inv, LastInv
      <4> QED
          BY <3>6, <4>2, <4>3 DEF Left, LastEnd
    <3>7. Contract!Started
        BY <2>1, <3>2, <3>3, <3>5, <3>6 DEF Contract!Started, KillAsked
    <3> QED
        BY <3>7 DEF Step, Contract!Next
  <2> QED
      BY <2>2, <2>3
<1>4. CASE CleanupError
  <2>1. /\ pc = "cleanup" /\ idx \in Cmds /\ KillAndReap(idx) /\ state' = "Error"
        /\ pc' \in {"cleanup", "remove"} /\ UNCHANGED <<opt, call, flags, deadline>>
      BY <1>4 DEF CleanupError, NextCmd, Inv, LoopInv
  <2>2. UNCHANGED <<Answered, ~opt.detach, KillAsked, deadline>>
      BY <2>1, Creating DEF CreatePcs, CleanupPcs
  <2> QED
      BY <2>1, <2>2, ReapSeen
<1> QED
    BY <1>1, <1>2, <1>3, <1>4 DEF Executing

(* While the client waits, or ends the execution, it has no answer either. *)
LEMMA Pending ==
    ASSUME Inv, state = "Executing", pc # "idle"
    PROVE  Answered = "Executing"
    BY DEF Answered, CreatePcs, CleanupPcs, Inv, ThreadInv

(* What keeps the process as it is, and takes a call on, or ends it without an
   answer, is not seen. *)
LEMMA GoesOn ==
    ASSUME Inv, Inv', UNCHANGED <<opt, process, deadline>>,
           Answered = "Executing",
           \/ state' = "Executing"
           \/ /\ pc' \notin {"idle", "crashed"} /\ call'.op # "Execute"
              /\ state' # "deleted",
           KillAsked' = KillAsked
    PROVE  Step
<1> USE DEF process
<1>1. Answered' = "Executing"
    BY DEF Answered, Inv, ThreadInv, CreatePcs, CleanupPcs
<1>2. UNCHANGED <<Left, LastEnd>>
    BY DEF Left, LastEnd
<1> QED
    BY <1>1, <1>2, UnseenStep DEF Unseen

LEMMA WaitingSeen ==
    ASSUME Inv, Inv', Waiting
    PROVE  Step
<1> USE DEF object, process, handler, thread, Goto, Return, NoCall
<1>1. /\ Answered = "Executing" /\ state = "Executing"
      /\ call.after = "none" /\ call.op # "Execute"
      /\ ("Killed" \in flags => pc = "outcome")
  <2>1. pc \in WaitPcs \cup {"outcome"}
      BY DEF Waiting, HandlePipe, Destroy, DestroyOne, Arm, Select, TimeoutKills,
             Outcome, WaitPcs
  <2> QED
      BY <2>1, Pending DEF Inv, ThreadInv, FlagsInv, WaitPcs
<1>2. CASE HandlePipe \/ Arm \/ Select
  <2>1. call' = call \/ call'.after = "none"
      BY <1>2 DEF HandlePipe, Arm, Select, Expire, Drained
  <2>2. UNCHANGED <<opt, process, deadline, state, flags>>
      BY <1>2 DEF HandlePipe, Arm, Select
  <2>3. KillAsked' = KillAsked
      BY <1>1, <2>1, <2>2 DEF KillAsked
  <2> QED
      BY <1>1, <2>2, <2>3, GoesOn
<1>3. CASE TimeoutKills
  <2>1. call'.after = "timeout" /\ pc = "timeout"
      BY <1>3 DEF TimeoutKills, Inv, CallTypeOK, Calls
  <2>2. KillAsked' = KillAsked
      BY <1>1, <2>1 DEF KillAsked
  <2> QED
      BY <1>1, <1>3, <2>2, GoesOn DEF TimeoutKills
<1>4. CASE Outcome
  <2>1. KillAsked' = KillAsked
      BY <1>4 DEF Outcome, KillAsked
  <2>2. state' \in {"Error", "Killed", "Expired", "Exited", "Exception"}
      BY <1>4 DEF Outcome, Inv, TypeOK
  <2> QED
      BY <1>1, <1>4, <2>1, <2>2, GoesOn DEF Outcome
<1>5. CASE Destroy
  <2>1. UNCHANGED <<~opt.detach, KillAsked, deadline, fate>>
      BY <1>5 DEF Destroy, DestroyOne, KillAsked
  <2>2. Answered' = "Executing"
      BY <1>1, <1>5 DEF Destroy, DestroyOne, NextCmd, Answered
  <2>3. LastEnd' = LastEnd
      BY <1>5 DEF Destroy, DestroyOne, LastEnd
  <2>4. CASE child' = child
    <3>1. Left' = Left
        BY <2>4, <1>5 DEF Left, Destroy, DestroyOne
    <3> QED
        BY <1>1, <2>1, <2>2, <2>3, <3>1, UnseenStep DEF Unseen
  <2>5. CASE child' # child
    <3>1. /\ child[idx] = "zombie" /\ child' = [child EXCEPT ![idx] = "gone"]
          /\ idx \in Cmds /\ ~opt.detach
        BY <1>5, <2>5 DEF Destroy, DestroyOne, Inv, LoopInv, PidsInv
    <3>2. idx \in Left /\ Left' = Left \ {idx}
        BY <1>5, <3>1 DEF Left, Destroy, DestroyOne, Inv, TypeOK
    <3>3. idx = NumCommands => LastEnd # "none"
        BY <3>1 DEF LastEnd, Inv, ChildrenInv, ChildInv
    <3>4. Contract!Reap
        BY <1>1, <2>1, <2>2, <2>3, <3>2, <3>3 DEF Contract!Reap, Contract!Pending
    <3> QED
        BY <3>4 DEF Step, Contract!Next
  <2> QED
      BY <2>4, <2>5
<1> QED
    BY <1>2, <1>3, <1>4, <1>5 DEF Waiting

LEMMA EndingSeen ==
    ASSUME Inv, Inv', Ending
    PROVE  Step
<1> USE DEF object, process, handler, thread, Goto, Return, NoCall
<1>1. CASE CloseSignal \/ ClosePipes \/ KillChild \/ Killed
  <2>1. /\ Answered = "Executing" /\ state = "Executing"
        /\ call.after # "none" /\ call.op # "Execute"
        /\ pc \in KillPcs
    <3>1. pc \in KillPcs
        BY <1>1 DEF CloseSignal, ClosePipes, KillChild, Killed, KillPcs
    <3> QED
        BY <3>1, Pending DEF Inv, ThreadInv, KillPcs
  <2>2. CASE CloseSignal
      BY <2>1, <2>2, GoesOn DEF CloseSignal, KillAsked
  <2>3. CASE ClosePipes
    <3>1. KillAsked' = KillAsked
        BY <2>1, <2>3 DEF ClosePipes, KillAsked, Inv, CallTypeOK, Calls
    <3> QED
        BY <2>1, <2>3, <3>1, GoesOn DEF ClosePipes
  <2>4. CASE KillChild
    <3>1. UNCHANGED <<Answered, ~opt.detach, KillAsked, deadline>>
        BY <2>1, <2>4 DEF KillChild, NextCmd, Answered, KillAsked
    <3> QED
        BY <2>4, <3>1, ReapSeen DEF KillChild, Inv, LoopInv
  <2>5. CASE Killed
    <3>1. "Killed" \in flags /\ pc = "killed"
        BY <2>5 DEF Killed, Inv, FlagsInv
    <3>2. call'.after = "none"
        BY <2>5 DEF Killed, Drained, Inv, CallTypeOK, Calls
    <3>3. KillAsked' = KillAsked
        BY <2>1, <2>5, <3>1, <3>2
           DEF Killed, KillAsked, Inv, CallTypeOK, Calls, ThreadInv, KillPcs
    <3> QED
        BY <2>1, <2>5, <3>3, GoesOn DEF Killed
  <2> QED
      BY <1>1, <2>2, <2>3, <2>4, <2>5
<1>2. CASE Remove
  <2>1. UNCHANGED <<Answered, ~opt.detach, Left, LastEnd, KillAsked, deadline>>
      BY <1>2 DEF Remove, Answered, Left, LastEnd, KillAsked
  <2> QED
      BY <2>1, UnseenStep DEF Unseen
<1>3. CASE Release
  <2>1. /\ pc = "release" /\ pc' = "idle" /\ call' = NoCall
        /\ state' = IF call.op = "Delete" THEN "deleted" ELSE state
        /\ UNCHANGED <<opt, child, fate, flags, deadline>>
      BY <1>3 DEF Release
  <2>2. UNCHANGED <<~opt.detach, Left, LastEnd, deadline>>
      BY <2>1 DEF Left, LastEnd
  <2>3. /\ state \notin {"Starting", "Executing", "deleted"}
        /\ call.op = "Execute" => state = "Error"
        /\ call.after \in {"none", "disown"}
      BY <2>1 DEF Inv, ThreadInv, CleanupPcs
  <2>4. KillAsked' = KillAsked /\ (KillAsked <=> "Killed" \in flags)
      BY <2>1, <2>3 DEF KillAsked
  <2>5. Left = {}
      BY <2>1, <2>3 DEF Left, Inv, ChildrenInv, ChildInv, Unwaited
  <2>6. /\ Answered = IF call.op = "Execute" THEN "creating" ELSE "Executing"
        /\ Answered' = state'
      BY <2>1, <2>3 DEF Answered
  <2>7. CASE call.op = "Execute"
    <3>1. Contract!Fail
        BY <2>1, <2>2, <2>3, <2>4, <2>5, <2>6, <2>7 DEF Contract!Fail
    <3> QED
        BY <3>1 DEF Step, Contract!Next
  <2>8. CASE call.op = "Delete"
    <3>1. Contract!Free
        BY <2>1, <2>2, <2>4, <2>5, <2>6, <2>8 DEF Contract!Free
    <3> QED
        BY <3>1 DEF Step, Contract!Next
  <2>9. CASE call.op \notin {"Execute", "Delete"}
    <3>1. state \in {"Exited", "Exception", "Killed", "Expired", "Disowned", "Error"}
        BY <2>3 DEF Inv, TypeOK
    <3>2. /\ state = "Killed" => KillAsked
          /\ state = "Expired" => deadline /\ ~KillAsked
          /\ state = "Disowned" => opt.detach
          /\ state = "Exited" /\ ~opt.detach => LastEnd = "exit"
          /\ state = "Exception" /\ ~opt.detach => LastEnd = "signal"
        BY <2>1, <2>4 DEF Inv, AnswerInv, CleanupPcs, LastEnd
    <3>3. Contract!Answer
        BY <2>1, <2>2, <2>4, <2>5, <2>6, <2>9, <3>1, <3>2 DEF Contract!Answer
    <3> QED
        BY <3>3 DEF Step, Contract!Next
  <2> QED
      BY <2>7, <2>8, <2>9
<1> QED
    BY <1>1, <1>2, <1>3 DEF Ending

LEMMA CallSeen ==
    ASSUME Inv, Inv', Call
    PROVE  Step
<1> USE DEF object, process, handler, thread, Goto, Return, NoCall
<1>1. CASE Execute
  <2>1. /\ pc = "idle" /\ call.after = "none" /\ call.op = "none"
        /\ state \notin {"Executing", "deleted"}
      BY <1>1 DEF Execute, Inv, ThreadInv
  <2>2. Answered = state
      BY <2>1 DEF Answered
  <2>3. state \in {"Starting", "Error", "Exited", "Exception", "Killed", "Expired",
                  "Disowned"}
      BY <2>1 DEF Inv, TypeOK
  <2>4. Answered' \in {"creating", "Error"}
      BY <1>1, <2>1 DEF Execute, Answered
  <2>5. /\ flags' = {} /\ call'.after = "none" /\ deadline' = FALSE /\ opt' = opt
        /\ child' = [c \in Cmds |-> "none"] /\ fate' = [c \in Cmds |-> "none"]
      BY <1>1, <2>1 DEF Execute, Initialized
  <2>6. Left' = {} /\ LastEnd' = "none" /\ KillAsked' = FALSE
      BY <2>5, NumCommandsAssumption DEF Left, LastEnd, KillAsked, Cmds
  <2>7. Contract!Begin
      BY <2>2, <2>3, <2>4, <2>5, <2>6 DEF Contract!Begin, Contract!Pending
  <2> QED
      BY <2>7 DEF Step, Contract!Next
<1>2. CASE Kill
  <2>1. /\ pc = "idle" /\ state = "Executing" /\ pc' = "closeSignal"
        /\ call.op = "none" /\ call'.op = "Kill" /\ call'.after \in {"client", "again"}
        /\ UNCHANGED <<opt, state, child, fate, deadline>>
      BY <1>2 DEF Kill, Inv, ThreadInv
  <2>2. Answered = "Executing" /\ Answered' = "Executing" /\ KillAsked' = TRUE
      BY <2>1 DEF Answered, KillAsked
  <2>3. UNCHANGED <<~opt.detach, Left, LastEnd, deadline>>
      BY <2>1 DEF Left, LastEnd
  <2>4. Contract!AskKill
      BY <2>2, <2>3 DEF Contract!AskKill
  <2> QED
      BY <2>4 DEF Step, Contract!Next
<1>3. CASE Delete
  <2>1. /\ pc = "idle" /\ state # "deleted" /\ state' = "deleted"
        /\ call.op = "none" /\ pc' = pc
        /\ state = "Executing" => opt.detach
        /\ UNCHANGED <<opt, child, fate, flags, call, deadline>>
      BY <1>3 DEF Delete, Inv, ThreadInv
  <2>2. Answered = state /\ Answered' = "deleted"
      BY <2>1 DEF Answered
  <2>3. UNCHANGED <<~opt.detach, Left, LastEnd, KillAsked, deadline>>
      BY <2>1 DEF Left, LastEnd, KillAsked
  <2>4. Left = {}
      BY <2>1 DEF Left, Inv, ChildrenInv, ChildInv, Unwaited
  <2>5. Contract!Free
      BY <2>1, <2>2, <2>3, <2>4 DEF Contract!Free, Inv, TypeOK
  <2> QED
      BY <2>5 DEF Step, Contract!Next
<1>4. ASSUME NEW op \in {"WaitForData", "WaitForExit", "Delete"},
             NEW user \in {"none", "zero", "later"}, Wait(op, user)
      PROVE  Step
  <2>1. /\ pc = "idle" /\ state = "Executing" /\ call'.after = "none"
        /\ UNCHANGED <<opt, process, deadline, state, flags>>
      BY <1>4 DEF Wait, Drained
  <2>2. Answered = "Executing" /\ call.after = "none"
      BY <2>1 DEF Answered, Inv, ThreadInv
  <2>3. KillAsked' = KillAsked
      BY <2>1, <2>2 DEF KillAsked
  <2> QED
      BY <2>1, <2>2, <2>3, GoesOn
<1>5. ASSUME NEW op \in {"Disown", "Delete"}, Disown(op) PROVE Step
  <2>1. /\ pc = "idle" /\ state = "Executing" /\ call'.after = "disown"
        /\ "Killed" \notin flags
        /\ UNCHANGED <<opt, process, deadline, state, flags>>
      BY <1>5 DEF Disown, Waitable
  <2>2. Answered = "Executing" /\ call.after = "none"
      BY <2>1 DEF Answered, Inv, ThreadInv
  <2>3. KillAsked' = KillAsked
      BY <2>1, <2>2 DEF KillAsked
  <2> QED
      BY <2>1, <2>2, <2>3, GoesOn
<1> QED
    BY <1>1, <1>2, <1>3, <1>4, <1>5 DEF Call

(* Every execution comes to one answer, which is true, and an attached one has
   none of its children left by then: what kwsys_Process.h promises its client,
   and WaitForExit, Kill, Disown, Delete and the failures of Execute keep in every
   interleaving with the children, the handler and time. *)
THEOREM ContractKept == Spec => ImplementsContract
<1>1. ASSUME Init PROVE Contract!Init
  <2>1. opt.detach \in BOOLEAN
      BY <1>1, OptionsAssumption DEF Init, AllOptions
  <2>2. Answered = "Starting" /\ KillAsked = FALSE
      BY <1>1 DEF Init, Answered, KillAsked, NoCall
  <2>3. Left = {} /\ LastEnd = "none"
      BY <1>1, NumCommandsAssumption DEF Init, Left, LastEnd, Cmds
  <2> QED
      BY <1>1, <2>1, <2>2, <2>3 DEF Init, Contract!Init
<1>2. ASSUME Inv, Inv', [Next]_vars PROVE Step
  <2>1. CASE UNCHANGED vars
      BY <2>1, UnseenStep
         DEF vars, object, process, thread, Unseen, Answered, Left, LastEnd, KillAsked
  <2> QED
      BY <1>2, <2>1, WorldSeen, HandlerSeen, ExecutingSeen, WaitingSeen,
         EndingSeen, CallSeen DEF Next, Client, Terminating
<1> QED
    BY <1>1, <1>2, InvAlways, PTL DEF Spec, ImplementsContract, Contract!Spec, Step

(* What the contract means for the client, drawn from it and so kept by this
   implementation: an answered attached execution leaves no child behind, and the
   answer is what happened. *)
THEOREM AnswersAreTrue == Spec => [](Contract!NoChildLeft /\ Contract!AnswerIsTrue)
<1> DEFINE Promise == Contract!NoChildLeft /\ Contract!AnswerIsTrue
<1> USE DEF Contract!NoChildLeft, Contract!AnswerIsTrue, Contract!Pending
<1>1. Contract!Init => Promise
    BY DEF Contract!Init
<1>2. Promise /\ [Contract!Next]_(Contract!vars) => Promise'
  <2> SUFFICES ASSUME Promise, [Contract!Next]_(Contract!vars) PROVE Promise'
      OBVIOUS
  <2>1. CASE Contract!Begin
      BY <2>1 DEF Contract!Begin
  <2>2. CASE Contract!Start \/ Contract!End \/ Contract!Reap
      BY <2>2 DEF Contract!Start, Contract!End, Contract!Reap
  <2>3. CASE Contract!Started \/ Contract!Fail \/ Contract!Free
      BY <2>3 DEF Contract!Started, Contract!Fail, Contract!Free
  <2>4. CASE Contract!AskKill \/ Contract!TimePasses
      BY <2>4 DEF Contract!AskKill, Contract!TimePasses
  <2>5. CASE Contract!Answer
      BY <2>5 DEF Contract!Answer
  <2>6. CASE UNCHANGED Contract!vars
      BY <2>6 DEF Contract!vars
  <2> QED
      BY <2>1, <2>2, <2>3, <2>4, <2>5, <2>6 DEF Contract!Next
<1>3. Contract!Spec => []Promise
    BY <1>1, <1>2, PTL DEF Contract!Spec
<1> QED
    BY <1>3, ContractKept, PTL DEF ImplementsContract

=============================================================================
