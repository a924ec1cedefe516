-------------------------- MODULE KwsysWin32Proofs --------------------------
(***************************************************************************)
(* Proofs about KwsysWin32, for every length of the pipeline, every set of *)
(* options and any number of chunks: what the run checks on a pipeline of  *)
(* two and one chunk.                                                      *)
(***************************************************************************)
EXTENDS KwsysWin32, SequenceTheorems, TLAPS

(***************************************************************************)
(* The inductive invariant.                                                *)
(***************************************************************************)

CreatePcs == {"pipes", "create", "start", "cleanup"}
WaitPcs   == {"top", "select"}
OtherPcs  == {"disable", "await", "kill", "release", "reset", "close"}
Calls == [op : {"none", "Execute", "WaitForData", "WaitForExit", "Delete", "Kill",
                "Disown"},
          user : {"none", "zero", "later", "due"},
          after : {"none", "client", "timeout", "disown"}]
KilledFlags == {"Killed", "TimeoutExpired"}

TypeOK ==
    /\ opt \in Options
    /\ state \in {"Starting", "Executing", "Exited", "Exception", "Killed", "Expired",
                  "Error", "Disowned", "deleted"}
    /\ flags \subseteq {"Killed", "TimeoutExpired", "Terminated"}
    /\ pipesLeft \in 0 .. 2 /\ read \in [PipeNames -> {"none", "open", "closed"}]
    /\ write \subseteq PipeNames
    /\ pc \in {"idle", "join"} \cup CreatePcs \cup WaitPcs \cup OtherPcs
    /\ idx \in Nat \ {0} /\ call \in Calls
    /\ note \subseteq {"stray", "disabled"}

ProcessTypeOK ==
    /\ exitCode \in [Cmds -> {"none", "exit", "signal", "sigkill"}]
    /\ events \subseteq Cmds /\ hProcess \in [Cmds -> {"none", "open", "closed"}]
    /\ child \in [Cmds -> {"none", "suspended", "running", "ended"}]
    /\ fate \in [Cmds -> {"none", "exit", "signal", "sigkill"}]
    /\ held \subseteq PipeNames

ThreadTypeOK ==
    /\ currentIndex \in PipeNames \cup {None} /\ sharedIndex \in PipeNames \cup {None}
    /\ closed \subseteq PipeNames /\ go \subseteq Threads /\ reset \subseteq Threads
    /\ threadPc \in [Threads -> {"ready", "go", "read", "report", "write", "ended"}]

(* Where the client's thread is during which call, and in which state of the
   object. *)
CallInv ==
    /\ pc = "idle" => call = NoCall
    /\ state = "deleted" => pc = "idle"
    /\ pc \in CreatePcs => /\ call = [NoCall EXCEPT !.op = "Execute"]
                           /\ state \notin {"Executing", "deleted"}
    /\ pc \notin CreatePcs => call.op # "Execute"
    /\ pc \in WaitPcs \cup OtherPcs => state = "Executing"
    /\ pc \in WaitPcs => /\ call.op \in {"WaitForData", "WaitForExit", "Delete"}
                         /\ call.after = "none"
                         /\ Waitable /\ pipesLeft > 0 /\ "disabled" \notin note
    /\ pc = "select" => currentIndex = None
    /\ pc \in {"disable", "await", "kill"} => call.op # "none" /\ call.after # "none"
    /\ pc = "kill" => call.after # "disown"
    /\ pc \in {"release", "reset", "close", "join"} => call.after \in {"none", "disown"}
    /\ pc = "release" => call.after = "none"
    /\ pc = "join" => /\ call.op = "Delete"
                      /\ state = "Executing" => opt.detach /\ flags # {}
    /\ call.after = "disown" \/ state = "Disowned" => opt.detach
    /\ call.after = "timeout" => deadline /\ pc \in {"disable", "await", "kill"}
    /\ pc \in {"create", "kill"} => idx \in Cmds
    /\ pc = "cleanup" => idx \in 1 .. NumCommands + 1
    /\ pc \in {"reset", "join"} => idx \in 1 .. 4

(* What has happened to the execution: as soon as there is no pipe to wait for,
   either all processes have been noticed to have ended, or somebody has ended
   them. *)
FlagsInv ==
    /\ pc \in CreatePcs => flags = {} /\ ~deadline
    /\ pc \in {"disable", "await"} => flags \cap KilledFlags = {}
    /\ pc = "kill" => flags = {"Killed"}
    /\ ~(KilledFlags \subseteq flags)
    /\ "TimeoutExpired" \in flags => deadline
    /\ state = "Executing" /\ flags \cap KilledFlags # {} /\ pc # "await" => pipesLeft = 0
    /\ pc \in {"kill", "release", "reset", "close"} => pipesLeft = 0
    /\ /\ state = "Executing" /\ pipesLeft = 0 /\ pc # "await"
       /\ call.after # "disown"
       => flags # {}
    /\ "Terminated" \in flags => events = {} /\ write = {}

(* The handles of the pipes. *)
Opened == pc \in {"create", "start", "cleanup"}
Open(p) == IF read[p] = "open" THEN 1 ELSE 0
HandlesInv ==
    /\ /\ state # "Executing" /\ ~Opened
       /\ ~(state = "deleted" /\ opt.detach /\ flags # {})
       => (\A p \in PipeNames : read[p] # "open") /\ write = {} /\ ~childStd
    /\ state = "Executing" =>
           /\ ~childStd
           /\ pipesLeft = Open("out") + Open("err")
           /\ "Terminated" \notin flags => write = PipeNames
    /\ pc \in {"create", "start"} =>
           (\A p \in PipeNames : read[p] = "open") /\ write = PipeNames

(* The processes and their handles. *)
ProcessInv(c) ==
    /\ hProcess[c] = "none" <=> child[c] = "none"
    /\ hProcess[c] = "closed" => ~Living(c)
    /\ hProcess[c] = "open" => c \in events
    /\ child[c] = "suspended" => Opened
    /\ Opened /\ hProcess[c] = "open" => child[c] = "suspended"
    /\ child[c] = "running" => ~Opened
    /\ fate[c] = "none" <=> child[c] \in {"none", "suspended", "running"}
    /\ pc = "pipes" => hProcess[c] = "none"
    /\ pc = "create" => hProcess[c] = IF c < idx THEN "open" ELSE "none"
    /\ pc = "start" => hProcess[c] = "open"
    /\ state = "Executing" => hProcess[c] # "none"
    /\ state = "Executing" /\ fate[c] = "sigkill" => flags \cap KilledFlags # {}
    /\ state = "Executing" /\ c \notin events =>
           exitCode[c] = fate[c] /\ fate[c] \in {"exit", "signal"}
    /\ pc \in {"cleanup", "kill"} /\ c < idx => hProcess[c] # "open"
    /\ flags \cap KilledFlags # {} /\ pc # "kill" => hProcess[c] # "open"
    /\ state \notin {"Executing", "Disowned", "deleted"} /\ ~Opened =>
           hProcess[c] # "open"
    /\ state = "deleted" /\ ~opt.detach => hProcess[c] # "open"
ProcessesInv ==
    /\ \A c \in Cmds : ProcessInv(c)
    /\ pc \in CreatePcs => held = {}

(* The threads that have reset, or need not: the client's thread waits for them
   in order. *)
Idle(t) == At(t, "ready") \/ At(t, "ended")
Passed(i) == pc = "close" \/ (pc = "reset" /\ i < idx)
ThreadInv(i) ==
    LET t == InOrder[i] IN
    /\ At(t, "ended") => pc = "join" \/ state = "deleted"
    /\ state = "deleted" => At(t, "ended")
    /\ pc = "join" => (At(t, "ended") <=> i < idx)
    /\ state = "Executing" => (Idle(t) <=> t \in reset \/ Passed(i))
    /\ state = "Executing" => ~(t \in reset /\ Passed(i))
    /\ state \notin {"Executing", "deleted"} => Idle(t)
ThreadsInv ==
    /\ \A i \in 1 .. 4 : ThreadInv(i)
    /\ state \notin {"Executing", "deleted"} =>
           sharedIndex = None /\ reset = {} /\ closed = {}

(* A reader: it has its token and is about to read, or it reads, reports, has
   reported, or its data are with the client's thread; until its pipe is closed. *)
Busy(p) == At(Reader(p), "read") \/ At(Reader(p), "report") \/ sharedIndex = p
ReaderInv(p) ==
    LET t == Reader(p) IN
    /\ ~At(t, "write")
    /\ At(t, "read") => sharedIndex # p /\ p \notin closed
    /\ At(t, "report") => sharedIndex # p
    /\ sharedIndex = p => At(t, "go")
    /\ Busy(p) => read[p] = "open" /\ t \notin go /\ currentIndex # p
    /\ Idle(t) => t \in go
    /\ state = "Executing" =>
          /\ read[p] # "none" /\ (read[p] = "closed" => p \in closed)
          /\ t \notin go => Busy(p) \/ currentIndex = p
          /\ currentIndex = p =>
                /\ At(t, "go") \/ t \in go
                /\ t \notin go => pc \in {"idle", "top", "disable", "release", "join"}
                /\ read[p] = "open" => p \notin closed /\ At(t, "go") /\ t \notin go
          /\ p \in closed /\ read[p] = "open" => Busy(p)
    /\ p \in closed /\ "disabled" \notin note => ~Written(p)

(* A waker: nobody wakes a reader before the threads are disabled. *)
WakerInv(p) ==
    LET t == Waker(p) IN
    /\ ~At(t, "read") /\ ~At(t, "report")
    /\ t \in go /\ "stray" \notin note =>
          /\ At(t, "go") /\ state = "Executing"
          /\ "disabled" \in note \/ read[p] = "closed"
    /\ state = "Executing" /\ ~At(t, "go") /\ "stray" \notin note =>
          "disabled" \in note \/ read[p] = "closed"
    /\ At(t, "write") /\ "stray" \notin note => "disabled" \in note

NoteInv ==
    /\ "disabled" \in note => state \in {"Executing", "deleted"}
    /\ state = "Executing" /\ "disabled" \in note /\ pc # "await" => pipesLeft = 0
    /\ pc \in {"await", "kill"} => "disabled" \in note

Inv ==
    /\ TypeOK /\ ProcessTypeOK /\ ThreadTypeOK /\ CallInv /\ FlagsInv /\ HandlesInv
    /\ ProcessesInv /\ ThreadsInv /\ NoteInv
    /\ \A p \in PipeNames : ReaderInv(p) /\ WakerInv(p)

-----------------------------------------------------------------------------

(* The four threads. *)
LEMMA ThreadNames ==
    /\ \A p \in PipeNames : Reader(p) \in Threads /\ Waker(p) \in Threads
    /\ \A p, q \in PipeNames : /\ Reader(p) # Waker(q)
                               /\ Reader(p) = Reader(q) => p = q
                               /\ Waker(p) = Waker(q) => p = q
    /\ \A i \in 1 .. 4 : InOrder[i] \in Threads
    /\ InOrder[1] = Reader("out") /\ InOrder[2] = Waker("out")
    /\ InOrder[3] = Reader("err") /\ InOrder[4] = Waker("err")
    /\ \A t \in Threads : \E i \in 1 .. 4 : t = InOrder[i]
    /\ \A i, j \in 1 .. 4 : InOrder[i] = InOrder[j] => i = j
    /\ \A p \in PipeNames : /\ \E i \in 1 .. 4 : Reader(p) = InOrder[i]
                            /\ \E i \in 1 .. 4 : Waker(p) = InOrder[i]
    /\ Len(InOrder) = 4 /\ None \notin PipeNames
<1> USE DEF Reader, Waker, Threads, PipeNames, InOrder, None
<1>1. \A i \in 1 .. 4 : i = 1 \/ i = 2 \/ i = 3 \/ i = 4
    OBVIOUS
<1>2. \A t \in Threads : \/ t = InOrder[1] \/ t = InOrder[2]
                        \/ t = InOrder[3] \/ t = InOrder[4]
    OBVIOUS
<1>3. \A t \in Threads : \E i \in 1 .. 4 : t = InOrder[i]
    BY <1>2
<1>4. \A i, j \in 1 .. 4 : InOrder[i] = InOrder[j] => i = j
    BY <1>1
<1>5. \A i \in 1 .. 4 : InOrder[i] \in Threads
    BY <1>1
<1> QED
    BY <1>3, <1>4, <1>5

(* The children and time. *)
LEMMA WorldKeeps ==
    ASSUME Inv, World
    PROVE  Inv'
<1> USE CommandsAssumption, OptionsAssumption, ThreadNames
<1> USE DEF object, pipes, tokens, main, world, CreatePcs, WaitPcs, OtherPcs,
            KilledFlags, Cmds, PipeNames, NoCall, Goto, Return, At, To
<1>1. ASSUME NEW c \in Cmds, ChildEnds(c) PROVE Inv'
  <2>1. TypeOK' /\ ProcessTypeOK' /\ ThreadTypeOK'
      BY <1>1 DEF Inv, TypeOK, Calls, CallInv, FlagsInv, HandlesInv, Open,
         ProcessTypeOK, ThreadTypeOK, ChildEnds
  <2>2. CallInv' /\ FlagsInv' /\ NoteInv'
      BY <1>1 DEF Inv, TypeOK, Calls, CallInv, FlagsInv, Waitable, ProcessesInv,
         NoteInv, ChildEnds
  <2>3. HandlesInv' /\ ProcessesInv'
      BY <1>1 DEF Inv, TypeOK, Calls, CallInv, FlagsInv, HandlesInv, Opened, Open,
         ProcessTypeOK, ProcessesInv, ProcessInv, Living, ChildEnds
  <2>4. ThreadsInv' /\ (\A q \in PipeNames : ReaderInv(q) /\ WakerInv(q))'
      BY <1>1 DEF Inv, TypeOK, ThreadTypeOK, CallInv, ThreadsInv, ThreadInv, Idle,
         Passed, FlagsInv, HandlesInv, Opened, ReaderInv, Busy, ProcessesInv,
         ProcessInv, Living, Written, NoteInv, WakerInv, ChildEnds
  <2> QED
      BY <2>1, <2>2, <2>3, <2>4 DEF Inv
<1>2. ASSUME NEW p \in PipeNames, ChildWrites(p) PROVE Inv'
    BY <1>2 DEF Inv, TypeOK, Calls, CallInv, FlagsInv, HandlesInv, Open,
       ProcessTypeOK, ThreadTypeOK, Waitable, ProcessesInv, NoteInv, Opened,
       ProcessInv, Living, ThreadsInv, ThreadInv, Idle, Passed, ReaderInv, Busy,
       Written, WakerInv, ChildWrites
<1>3. ASSUME GrandchildEnds PROVE Inv'
    BY <1>3 DEF Inv, TypeOK, Calls, CallInv, FlagsInv, HandlesInv, Open,
       ProcessTypeOK, ThreadTypeOK, Waitable, ProcessesInv, NoteInv, Opened,
       ProcessInv, Living, ThreadsInv, ThreadInv, Idle, Passed, ReaderInv, Busy,
       Written, WakerInv, GrandchildEnds
<1>4. ASSUME DeadlinePasses PROVE Inv'
    BY <1>4 DEF Inv, TypeOK, Calls, CallInv, FlagsInv, HandlesInv, Open,
       ProcessTypeOK, ThreadTypeOK, Waitable, ProcessesInv, NoteInv, Opened,
       ProcessInv, Living, ThreadsInv, ThreadInv, Idle, Passed, ReaderInv, Busy,
       Written, WakerInv, DeadlinePasses
<1>5. ASSUME UserTimePasses PROVE Inv'
  <2>1. TypeOK' /\ ProcessTypeOK' /\ ThreadTypeOK'
    <3>1. call' \in Calls
        BY <1>5 DEF UserTimePasses, Inv, TypeOK, Calls
    <3> QED
        BY <1>5, <3>1 DEF UserTimePasses, Inv, TypeOK, ProcessTypeOK, ThreadTypeOK
  <2>2. CallInv' /\ FlagsInv' /\ NoteInv'
      BY <1>5 DEF Inv, TypeOK, Calls, CallInv, FlagsInv, Waitable, ProcessesInv,
         NoteInv, UserTimePasses
  <2>3. HandlesInv' /\ ProcessesInv'
      BY <1>5 DEF Inv, TypeOK, Calls, CallInv, FlagsInv, HandlesInv, Opened, Open,
         ProcessTypeOK, ProcessesInv, ProcessInv, Living, UserTimePasses
  <2>4. ThreadsInv' /\ (\A q \in PipeNames : ReaderInv(q) /\ WakerInv(q))'
      BY <1>5 DEF Inv, TypeOK, ThreadTypeOK, CallInv, ThreadsInv, ThreadInv, Idle,
         Passed, FlagsInv, HandlesInv, Opened, ReaderInv, Busy, ProcessesInv,
         ProcessInv, Living, Written, NoteInv, WakerInv, UserTimePasses
  <2> QED
      BY <2>1, <2>2, <2>3, <2>4 DEF Inv
<1> QED
    BY <1>1, <1>2, <1>3, <1>4, <1>5 DEF World

(* The readers and the wakers. *)
LEMMA PipeThreadsKeep ==
    ASSUME Inv, NEW p \in PipeNames, ReaderThread(p) \/ WakerThread(p)
    PROVE  Inv'
<1> USE CommandsAssumption, OptionsAssumption, ThreadNames
<1> USE DEF object, pipes, tokens, main, world, CreatePcs, WaitPcs, OtherPcs,
            KilledFlags, Cmds, PipeNames, NoCall, Goto, Return, At, To
<1>1. ASSUME ReaderGo(p) PROVE Inv'
  <2>1. TypeOK'
      BY <1>1 DEF Inv, TypeOK, Calls, CallInv, FlagsInv, HandlesInv, Open,
         ReaderGo
  <2>2. ProcessTypeOK'
      BY <1>1 DEF Inv, TypeOK, CallInv, ProcessTypeOK, ReaderGo
  <2>3. ThreadTypeOK'
      BY <1>1 DEF Inv, ThreadTypeOK, ReaderGo
  <2>4. CallInv'
      BY <1>1 DEF Inv, TypeOK, Calls, CallInv, FlagsInv, Waitable, ProcessesInv,
         ReaderGo
  <2>5. FlagsInv'
      BY <1>1 DEF Inv, TypeOK, Calls, CallInv, FlagsInv, Waitable, NoteInv,
         ReaderGo
  <2>6. HandlesInv'
      BY <1>1 DEF Inv, TypeOK, Calls, CallInv, FlagsInv, HandlesInv, Opened, Open,
         ReaderGo
  <2>7. ProcessesInv'
      BY <1>1 DEF Inv, TypeOK, ProcessTypeOK, Calls, CallInv, FlagsInv,
         ProcessesInv, ProcessInv, Living, Opened, ReaderGo
  <2>8. ThreadsInv'
      BY <1>1 DEF Inv, TypeOK, ThreadTypeOK, CallInv, ThreadsInv, ThreadInv, Idle,
         Passed, ReaderGo
  <2>9. NoteInv'
      BY <1>1 DEF Inv, TypeOK, CallInv, FlagsInv, NoteInv, ReaderGo
  <2>10. (\A q \in PipeNames : ReaderInv(q))'
      BY <1>1 DEF Inv, TypeOK, ThreadTypeOK, CallInv, FlagsInv, HandlesInv,
         Opened, ReaderInv, Busy, Idle, ThreadsInv, ThreadInv, ProcessesInv,
         ProcessInv, Living, Written, NoteInv, ReaderGo
  <2>11. (\A q \in PipeNames : WakerInv(q))'
      BY <1>1 DEF Inv, TypeOK, ThreadTypeOK, CallInv, NoteInv, WakerInv,
         ReaderInv, Busy, HandlesInv, Opened, ThreadsInv, ThreadInv, Idle, Passed,
         ReaderGo
  <2> QED
      BY <2>1, <2>2, <2>3, <2>4, <2>5, <2>6, <2>7, <2>8, <2>9, <2>10, <2>11
         DEF Inv
<1>2. ASSUME ReaderReads(p) PROVE Inv'
  <2>1. TypeOK' /\ ProcessTypeOK' /\ ThreadTypeOK'
      BY <1>2 DEF Inv, TypeOK, Calls, CallInv, FlagsInv, HandlesInv, Open,
         ProcessTypeOK, ThreadTypeOK, ReaderReads
  <2>2. CallInv' /\ FlagsInv' /\ NoteInv'
      BY <1>2 DEF Inv, TypeOK, Calls, CallInv, FlagsInv, Waitable, ProcessesInv,
         NoteInv, ReaderReads
  <2>3. HandlesInv' /\ ProcessesInv'
      BY <1>2 DEF Inv, TypeOK, Calls, CallInv, FlagsInv, HandlesInv, Opened, Open,
         ProcessTypeOK, ProcessesInv, ProcessInv, Living, ReaderReads
  <2>4. ThreadsInv' /\ (\A q \in PipeNames : ReaderInv(q) /\ WakerInv(q))'
      BY <1>2 DEF Inv, TypeOK, ThreadTypeOK, CallInv, ThreadsInv, ThreadInv, Idle,
         Passed, FlagsInv, HandlesInv, Opened, ReaderInv, Busy, ProcessesInv,
         ProcessInv, Living, Written, NoteInv, WakerInv, ReaderReads
  <2> QED
      BY <2>1, <2>2, <2>3, <2>4 DEF Inv
<1>3. ASSUME ReaderReports(p) PROVE Inv'
  <2>1. TypeOK' /\ ProcessTypeOK' /\ ThreadTypeOK'
      BY <1>3 DEF Inv, TypeOK, Calls, CallInv, FlagsInv, HandlesInv, Open,
         ProcessTypeOK, ThreadTypeOK, ReaderReports
  <2>2. CallInv' /\ FlagsInv' /\ NoteInv'
      BY <1>3 DEF Inv, TypeOK, Calls, CallInv, FlagsInv, Waitable, ProcessesInv,
         NoteInv, ReaderReports
  <2>3. HandlesInv' /\ ProcessesInv'
      BY <1>3 DEF Inv, TypeOK, Calls, CallInv, FlagsInv, HandlesInv, Opened, Open,
         ProcessTypeOK, ProcessesInv, ProcessInv, Living, ReaderReports
  <2>4. ThreadsInv' /\ (\A q \in PipeNames : ReaderInv(q) /\ WakerInv(q))'
      BY <1>3 DEF Inv, TypeOK, ThreadTypeOK, CallInv, ThreadsInv, ThreadInv, Idle,
         Passed, FlagsInv, HandlesInv, Opened, ReaderInv, Busy, ProcessesInv,
         ProcessInv, Living, Written, NoteInv, WakerInv, ReaderReports
  <2> QED
      BY <2>1, <2>2, <2>3, <2>4 DEF Inv
<1>4. ASSUME WakerGo(p) PROVE Inv'
  <2>1. TypeOK'
      BY <1>4 DEF Inv, TypeOK, Calls, CallInv, FlagsInv, HandlesInv, Open, WakerGo
  <2>2. ProcessTypeOK'
      BY <1>4 DEF Inv, TypeOK, CallInv, ProcessTypeOK, WakerGo
  <2>3. ThreadTypeOK'
      BY <1>4 DEF Inv, ThreadTypeOK, WakerGo
  <2>4. CallInv'
      BY <1>4 DEF Inv, TypeOK, Calls, CallInv, FlagsInv, Waitable, ProcessesInv,
         WakerGo
  <2>5. FlagsInv'
      BY <1>4 DEF Inv, TypeOK, Calls, CallInv, FlagsInv, Waitable, NoteInv,
         WakerGo
  <2>6. HandlesInv'
      BY <1>4 DEF Inv, TypeOK, Calls, CallInv, FlagsInv, HandlesInv, Opened, Open,
         WakerGo
  <2>7. ProcessesInv'
      BY <1>4 DEF Inv, TypeOK, ProcessTypeOK, Calls, CallInv, FlagsInv,
         ProcessesInv, ProcessInv, Living, Opened, WakerGo
  <2>8. ThreadsInv'
      BY <1>4 DEF Inv, TypeOK, ThreadTypeOK, CallInv, ThreadsInv, ThreadInv, Idle,
         Passed, WakerGo
  <2>9. NoteInv'
      BY <1>4 DEF Inv, TypeOK, CallInv, FlagsInv, NoteInv, WakerGo
  <2>10. (\A q \in PipeNames : ReaderInv(q))'
      BY <1>4 DEF Inv, TypeOK, ThreadTypeOK, CallInv, FlagsInv, HandlesInv,
         Opened, ReaderInv, Busy, Idle, ThreadsInv, ThreadInv, ProcessesInv,
         ProcessInv, Living, Written, NoteInv, WakerGo
  <2>11. (\A q \in PipeNames : WakerInv(q))'
      BY <1>4 DEF Inv, TypeOK, ThreadTypeOK, CallInv, NoteInv, WakerInv,
         ReaderInv, Busy, HandlesInv, Opened, ThreadsInv, ThreadInv, Idle, Passed,
         WakerGo
  <2> QED
      BY <2>1, <2>2, <2>3, <2>4, <2>5, <2>6, <2>7, <2>8, <2>9, <2>10, <2>11
         DEF Inv
<1>5. ASSUME WakerWrites(p) PROVE Inv'
  <2>1. TypeOK' /\ ProcessTypeOK' /\ ThreadTypeOK'
      BY <1>5 DEF Inv, TypeOK, Calls, CallInv, FlagsInv, HandlesInv, Open,
         ProcessTypeOK, ThreadTypeOK, WakerWrites
  <2>2. CallInv' /\ FlagsInv' /\ NoteInv'
      BY <1>5 DEF Inv, TypeOK, Calls, CallInv, FlagsInv, Waitable, ProcessesInv,
         NoteInv, WakerWrites
  <2>3. HandlesInv' /\ ProcessesInv'
      BY <1>5 DEF Inv, TypeOK, Calls, CallInv, FlagsInv, HandlesInv, Opened, Open,
         ProcessTypeOK, ProcessesInv, ProcessInv, Living, WakerWrites
  <2>4. ThreadsInv' /\ (\A q \in PipeNames : ReaderInv(q) /\ WakerInv(q))'
      BY <1>5 DEF Inv, TypeOK, ThreadTypeOK, CallInv, ThreadsInv, ThreadInv, Idle,
         Passed, FlagsInv, HandlesInv, Opened, ReaderInv, Busy, ProcessesInv,
         ProcessInv, Living, Written, NoteInv, WakerInv, WakerWrites
  <2> QED
      BY <2>1, <2>2, <2>3, <2>4 DEF Inv
<1> QED
    BY <1>1, <1>2, <1>3, <1>4, <1>5 DEF ReaderThread, WakerThread

(* Execute. *)
LEMMA ExecutingKeeps ==
    ASSUME Inv, Executing
    PROVE  Inv'
<1> USE CommandsAssumption, OptionsAssumption, ThreadNames
<1> USE DEF object, pipes, tokens, main, world, CreatePcs, WaitPcs, OtherPcs,
            KilledFlags, Cmds, PipeNames, NoCall, Goto, Return, At, To
<1>1. ASSUME OpenPipes PROVE Inv'
  <2>1. TypeOK' /\ ProcessTypeOK' /\ ThreadTypeOK'
      BY <1>1 DEF Inv, TypeOK, Calls, CallInv, FlagsInv, HandlesInv, Open,
         ProcessTypeOK, ThreadTypeOK, OpenPipes
  <2>2. CallInv' /\ FlagsInv' /\ NoteInv'
      BY <1>1 DEF Inv, TypeOK, Calls, CallInv, FlagsInv, Waitable, ProcessesInv,
         NoteInv, OpenPipes
  <2>3. HandlesInv' /\ ProcessesInv'
      BY <1>1 DEF Inv, TypeOK, Calls, CallInv, FlagsInv, HandlesInv, Opened, Open,
         ProcessTypeOK, ProcessesInv, ProcessInv, Living, OpenPipes
  <2>4. ThreadsInv' /\ (\A q \in PipeNames : ReaderInv(q) /\ WakerInv(q))'
      BY <1>1 DEF Inv, TypeOK, ThreadTypeOK, CallInv, ThreadsInv, ThreadInv, Idle,
         Passed, FlagsInv, HandlesInv, Opened, ReaderInv, Busy, ProcessesInv,
         ProcessInv, Living, Written, NoteInv, WakerInv, OpenPipes
  <2> QED
      BY <2>1, <2>2, <2>3, <2>4 DEF Inv
<1>2. ASSUME Create PROVE Inv'
  <2>1. TypeOK' /\ ThreadTypeOK'
      BY <1>2 DEF Inv, TypeOK, Calls, CallInv, FlagsInv, HandlesInv, Open,
         ThreadTypeOK, Create
  <2>2. ProcessTypeOK'
    <3>1. idx \in Cmds
        BY <1>2 DEF Create, Inv, CallInv
    <3>2. /\ \E b \in {child[idx], "suspended"} : child' = [child EXCEPT ![idx] = b]
          /\ \E b \in {hProcess[idx], "open"} : hProcess' = [hProcess EXCEPT ![idx] = b]
          /\ events' \in {events, events \cup {idx}}
        BY <1>2, <3>1 DEF Create, Inv, ProcessTypeOK
    <3> QED
        BY <1>2, <3>1, <3>2 DEF Create, Inv, ProcessTypeOK
  <2>3. CallInv' /\ FlagsInv' /\ NoteInv'
      BY <1>2 DEF Inv, TypeOK, Calls, CallInv, FlagsInv, Waitable, ProcessesInv,
         NoteInv, Create
  <2>4. HandlesInv' /\ ProcessesInv'
      BY <1>2 DEF Inv, TypeOK, Calls, CallInv, FlagsInv, HandlesInv, Opened, Open,
         ProcessTypeOK, ProcessesInv, ProcessInv, Living, Create
  <2>5. ThreadsInv' /\ (\A q \in PipeNames : ReaderInv(q) /\ WakerInv(q))'
      BY <1>2 DEF Inv, TypeOK, ThreadTypeOK, CallInv, ThreadsInv, ThreadInv, Idle,
         Passed, FlagsInv, HandlesInv, Opened, ReaderInv, Busy, ProcessesInv,
         ProcessInv, Living, Written, NoteInv, WakerInv, Create
  <2> QED
      BY <2>1, <2>2, <2>3, <2>4, <2>5 DEF Inv
<1>3. ASSUME Resume PROVE Inv'
  <2>1. TypeOK'
    <3>1. pipesLeft' = 2 /\ call' = NoCall
        BY <1>3 DEF Resume, Pipes
    <3> QED
        BY <1>3, <3>1 DEF Resume, Inv, TypeOK, Calls
  <2>2. ProcessTypeOK' /\ ThreadTypeOK'
      BY <1>3 DEF Inv, TypeOK, CallInv, ProcessTypeOK, ThreadTypeOK, Resume
  <2>3. CallInv' /\ NoteInv'
      BY <1>3 DEF Inv, TypeOK, Calls, CallInv, FlagsInv, Waitable, ProcessesInv,
         NoteInv, Resume
  <2>4. FlagsInv'
    <3>1. pipesLeft' = 2
        BY <1>3 DEF Resume, Pipes
    <3> QED
        BY <1>3, <3>1 DEF Resume, Inv, FlagsInv
  <2>5. HandlesInv'
    <3>1. /\ \A p \in PipeNames : read[p] = "open"
          /\ write = PipeNames /\ UNCHANGED <<read, write>> /\ pipesLeft' = 2
          /\ childStd' = FALSE /\ state' = "Executing" /\ pc' = "idle"
        BY <1>3 DEF Inv, Resume, HandlesInv, Pipes
    <3> QED
        BY <1>3, <3>1 DEF HandlesInv, Opened, Open
  <2>6. ProcessesInv'
    <3>1. \A c \in Cmds : ProcessInv(c)'
        BY <1>3 DEF Inv, Resume, CallInv, FlagsInv, ProcessesInv, ProcessInv,
           Living, Opened
    <3> QED
        BY <1>3, <3>1 DEF ProcessesInv, Resume
  <2>7. ThreadsInv' /\ (\A q \in PipeNames : ReaderInv(q) /\ WakerInv(q))'
      BY <1>3 DEF Inv, TypeOK, ThreadTypeOK, CallInv, ThreadsInv, ThreadInv, Idle,
         Passed, FlagsInv, HandlesInv, Opened, ReaderInv, Busy, ProcessesInv,
         ProcessInv, Living, Written, NoteInv, WakerInv, Resume
  <2> QED
      BY <2>1, <2>2, <2>3, <2>4, <2>5, <2>6, <2>7 DEF Inv
<1>4. ASSUME CleanupError PROVE Inv'
  <2>1. TypeOK' /\ ThreadTypeOK'
      BY <1>4 DEF Inv, TypeOK, Calls, CallInv, FlagsInv, HandlesInv, Open,
         ThreadTypeOK, CleanupError, ClosePipes, Forgotten, Terminate
  <2>2. ProcessTypeOK'
    <3>1. CASE idx <= NumCommands
      <4>1. idx \in Cmds /\ Terminate(idx) /\ UNCHANGED <<exitCode, events, held>>
          BY <1>4, <3>1 DEF CleanupError, Inv, CallInv
      <4>2. /\ \E b \in {child[idx], "ended"} : child' = [child EXCEPT ![idx] = b]
            /\ \E b \in {fate[idx], "sigkill"} : fate' = [fate EXCEPT ![idx] = b]
            /\ \E b \in {hProcess[idx], "closed"} :
                   hProcess' = [hProcess EXCEPT ![idx] = b]
          BY <1>4, <4>1 DEF Terminate, Inv, ProcessTypeOK
      <4>3. child' \in [Cmds -> {"none", "suspended", "running", "ended"}]
          BY <1>4, <4>1, <4>2 DEF Inv, ProcessTypeOK
      <4>4. fate' \in [Cmds -> {"none", "exit", "signal", "sigkill"}]
          BY <1>4, <4>1, <4>2 DEF Inv, ProcessTypeOK
      <4>5. hProcess' \in [Cmds -> {"none", "open", "closed"}]
          BY <1>4, <4>1, <4>2 DEF Inv, ProcessTypeOK
      <4> QED
          BY <1>4, <4>1, <4>3, <4>4, <4>5 DEF Inv, ProcessTypeOK
    <3>2. CASE ~(idx <= NumCommands)
        BY <1>4, <3>2 DEF CleanupError, Inv, ProcessTypeOK
    <3> QED
        BY <3>1, <3>2
  <2>3. CallInv' /\ FlagsInv' /\ NoteInv'
      BY <1>4 DEF Inv, TypeOK, Calls, CallInv, FlagsInv, Waitable, ProcessesInv,
         NoteInv, CleanupError, ClosePipes, Forgotten, Terminate
  <2>4. HandlesInv'
      BY <1>4 DEF Inv, TypeOK, Calls, CallInv, FlagsInv, HandlesInv, Opened, Open,
         CleanupError, ClosePipes, Forgotten, Terminate
  <2>5. ProcessesInv'
    <3>1. CASE idx <= NumCommands
      <4>1. idx \in Cmds /\ Terminate(idx) /\ idx' = idx + 1 /\ pc' = pc /\ pc = "cleanup"
            /\ UNCHANGED <<exitCode, flags, events, held, state, opt>>
          BY <1>4, <3>1 DEF CleanupError, Inv, CallInv
      <4>2. SUFFICES ASSUME NEW c \in Cmds PROVE ProcessInv(c)'
          BY <1>4, <4>1 DEF ProcessesInv, Inv
      <4>3. CASE c = idx
          BY <1>4, <4>1, <4>3 DEF Terminate, Inv, ProcessTypeOK, ProcessesInv,
             ProcessInv, Living, Opened, CallInv, FlagsInv
      <4>4. CASE c # idx
        <5>1. UNCHANGED <<child[c], fate[c], hProcess[c]>>
            BY <1>4, <4>1, <4>4 DEF Terminate, Inv, ProcessTypeOK
        <5>2. c < idx' => c < idx
            BY <1>4, <4>1, <4>4
        <5> QED
            BY <1>4, <4>1, <5>1, <5>2 DEF Inv, ProcessesInv, ProcessInv, Living,
               Opened
      <4> QED
          BY <1>4, <4>3, <4>4
    <3>2. CASE ~(idx <= NumCommands)
      <4>1. /\ pc = "cleanup" /\ pc' = "idle" /\ state' = "Error"
            /\ \A c \in Cmds : c < idx
            /\ UNCHANGED <<child, fate, hProcess, exitCode, flags, events, held, opt>>
          BY <1>4, <3>2 DEF CleanupError, Inv, TypeOK
      <4>2. ASSUME NEW c \in Cmds PROVE ProcessInv(c)'
        <5>1. hProcess[c] # "open" /\ ~Living(c)
            BY <1>4, <4>1 DEF Inv, ProcessTypeOK, ProcessesInv, ProcessInv, Living
        <5> QED
            BY <1>4, <4>1, <5>1 DEF Inv, ProcessTypeOK, ProcessesInv, ProcessInv,
               Living, Opened
      <4> QED
          BY <1>4, <4>1, <4>2 DEF ProcessesInv
    <3> QED
        BY <3>1, <3>2
  <2>6. ThreadsInv' /\ (\A q \in PipeNames : ReaderInv(q) /\ WakerInv(q))'
      BY <1>4 DEF Inv, TypeOK, ThreadTypeOK, CallInv, ThreadsInv, ThreadInv, Idle,
         Passed, FlagsInv, HandlesInv, Opened, ReaderInv, Busy, ProcessesInv,
         ProcessInv, Living, Written, NoteInv, WakerInv, CleanupError, ClosePipes,
         Forgotten, Terminate
  <2> QED
      BY <2>1, <2>2, <2>3, <2>4, <2>5, <2>6 DEF Inv
<1> QED
    BY <1>1, <1>2, <1>3, <1>4 DEF Executing

(* WaitForData. *)
LEMMA WaitingKeeps ==
    ASSUME Inv, Waiting
    PROVE  Inv'
<1> USE CommandsAssumption, OptionsAssumption, ThreadNames
<1> USE DEF object, pipes, tokens, main, world, CreatePcs, WaitPcs, OtherPcs,
            KilledFlags, Cmds, PipeNames, NoCall, Goto, Return, At, To
<1>1. ASSUME Top PROVE Inv'
  <2>1. TypeOK' /\ ProcessTypeOK' /\ ThreadTypeOK'
      BY <1>1 DEF Inv, TypeOK, Calls, CallInv, FlagsInv, HandlesInv, Open,
         ProcessTypeOK, ThreadTypeOK, Top, ReleaseReader, Expire, TimeUp
  <2>2. CallInv' /\ FlagsInv' /\ NoteInv'
      BY <1>1 DEF Inv, TypeOK, Calls, CallInv, FlagsInv, Waitable, ProcessesInv,
         NoteInv, Top, ReleaseReader, Expire, TimeUp
  <2>3. HandlesInv' /\ ProcessesInv'
      BY <1>1 DEF Inv, TypeOK, Calls, CallInv, FlagsInv, HandlesInv, Opened, Open,
         ProcessTypeOK, ProcessesInv, ProcessInv, Living, Top, ReleaseReader,
         Expire, TimeUp
  <2>4. ThreadsInv' /\ (\A q \in PipeNames : ReaderInv(q) /\ WakerInv(q))'
      BY <1>1 DEF Inv, TypeOK, ThreadTypeOK, CallInv, ThreadsInv, ThreadInv, Idle,
         Passed, FlagsInv, HandlesInv, Opened, ReaderInv, Busy, ProcessesInv,
         ProcessInv, Living, Written, NoteInv, WakerInv, Top, ReleaseReader,
         Expire, TimeUp
  <2> QED
      BY <2>1, <2>2, <2>3, <2>4 DEF Inv
<1>2. ASSUME SelectPipe PROVE Inv'
  <2> DEFINE p == sharedIndex
  <2>a. /\ p \in PipeNames /\ pc = "select" /\ currentIndex = None /\ state = "Executing"
        /\ At(Reader(p), "go") /\ Reader(p) \notin go /\ read[p] = "open"
        /\ Waitable /\ pipesLeft \in {1, 2} /\ "disabled" \notin note
        /\ pipesLeft = Open("out") + Open("err")
        /\ call.op \in {"WaitForData", "WaitForExit", "Delete"} /\ call.after = "none"
      BY <1>2 DEF SelectPipe, TakeFull, Inv, TypeOK, ThreadTypeOK, CallInv,
         HandlesInv, ReaderInv, Busy
  <2>b. /\ currentIndex' = p /\ sharedIndex' = None
        /\ UNCHANGED <<opt, object, write, childStd, closed, reset, threadPc, world,
                       note>>
      BY <1>2 DEF SelectPipe, TakeFull
  <2>c. ASSUME p \in closed
        PROVE  /\ read' = [read EXCEPT ![p] = "closed"] /\ go' = go \cup {Waker(p)}
               /\ pipesLeft' = pipesLeft - 1 /\ idx' = 1
               /\ \/ pipesLeft = 2 /\ pc' = "top" /\ call' = call
                  \/ /\ pipesLeft = 1 /\ pc' = "release"
                     /\ call' = [NoCall EXCEPT !.op = call.op]
                     /\ call.op \in {"WaitForExit", "Delete"}
                  \/ pipesLeft = 1 /\ pc' = "idle" /\ call' = NoCall
      BY <1>2, <2>a, <2>c DEF SelectPipe, Drained
  <2>d. ASSUME p \notin closed
        PROVE  /\ UNCHANGED <<read, go, pipesLeft>> /\ idx' = 1
               /\ \/ pc' = "top" /\ call' = call
                  \/ pc' = "idle" /\ call' = NoCall
      BY <1>2, <2>d DEF SelectPipe
  <2>e. p \in closed /\ pipesLeft = 1 => "Terminated" \in flags
      BY <1>2, <2>a DEF Inv, ReaderInv, Written, HandlesInv
  <2> HIDE DEF p
  <2>1. TypeOK'
    <3>1. CASE p \in closed
        BY <1>2, <2>a, <2>b, <2>c, <2>e, <3>1 DEF Inv, TypeOK, Calls
    <3>2. CASE p \notin closed
        BY <1>2, <2>a, <2>b, <2>d, <3>2 DEF Inv, TypeOK, Calls
    <3> QED
        BY <3>1, <3>2
  <2>2. ProcessTypeOK'
    <3>1. CASE p \in closed
        BY <1>2, <2>a, <2>b, <2>c, <2>e, <3>1 DEF Inv, ProcessTypeOK
    <3>2. CASE p \notin closed
        BY <1>2, <2>a, <2>b, <2>d, <3>2 DEF Inv, ProcessTypeOK
    <3> QED
        BY <3>1, <3>2
  <2>3. ThreadTypeOK'
    <3>1. CASE p \in closed
        BY <1>2, <2>a, <2>b, <2>c, <2>e, <3>1 DEF Inv, ThreadTypeOK
    <3>2. CASE p \notin closed
        BY <1>2, <2>a, <2>b, <2>d, <3>2 DEF Inv, ThreadTypeOK
    <3> QED
        BY <3>1, <3>2
  <2>4. CallInv'
    <3>1. CASE p \in closed
        BY <1>2, <2>a, <2>b, <2>c, <2>e, <3>1 DEF Inv, CallInv, Waitable, TypeOK
    <3>2. CASE p \notin closed
        BY <1>2, <2>a, <2>b, <2>d, <3>2 DEF Inv, CallInv, Waitable, TypeOK
    <3> QED
        BY <3>1, <3>2
  <2>5. FlagsInv'
    <3>1. CASE p \in closed
        BY <1>2, <2>a, <2>b, <2>c, <2>e, <3>1 DEF Inv, FlagsInv, Waitable, TypeOK
    <3>2. CASE p \notin closed
        BY <1>2, <2>a, <2>b, <2>d, <3>2 DEF Inv, FlagsInv, Waitable, TypeOK
    <3> QED
        BY <3>1, <3>2
  <2>6. HandlesInv'
    <3>1. CASE p \in closed
        BY <1>2, <2>a, <2>b, <2>c, <2>e, <3>1
           DEF Inv, HandlesInv, Opened, Open, TypeOK
    <3>2. CASE p \notin closed
        BY <1>2, <2>a, <2>b, <2>d, <3>2 DEF Inv, HandlesInv, Opened, Open, TypeOK
    <3> QED
        BY <3>1, <3>2
  <2>7. ProcessesInv'
    <3>1. CASE p \in closed
        BY <1>2, <2>a, <2>b, <2>c, <2>e, <3>1
           DEF Inv, ProcessesInv, ProcessInv, Living, Opened
    <3>2. CASE p \notin closed
        BY <1>2, <2>a, <2>b, <2>d, <3>2
           DEF Inv, ProcessesInv, ProcessInv, Living, Opened
    <3> QED
        BY <3>1, <3>2
  <2>8. ThreadsInv'
    <3>1. CASE p \in closed
        BY <1>2, <2>a, <2>b, <2>c, <2>e, <3>1
           DEF Inv, ThreadsInv, ThreadInv, Idle, Passed, CallInv
    <3>2. CASE p \notin closed
        BY <1>2, <2>a, <2>b, <2>d, <3>2
           DEF Inv, ThreadsInv, ThreadInv, Idle, Passed, CallInv
    <3> QED
        BY <3>1, <3>2
  <2>9. NoteInv'
    <3>1. CASE p \in closed
        BY <1>2, <2>a, <2>b, <2>c, <2>e, <3>1 DEF Inv, NoteInv, CallInv
    <3>2. CASE p \notin closed
        BY <1>2, <2>a, <2>b, <2>d, <3>2 DEF Inv, NoteInv, CallInv
    <3> QED
        BY <3>1, <3>2
  <2>10. (\A q \in PipeNames : ReaderInv(q))'
    <3> SUFFICES ASSUME NEW q \in PipeNames PROVE ReaderInv(q)'
        OBVIOUS
    <3>1. CASE p \in closed
        BY <1>2, <2>a, <2>b, <2>c, <3>1
           DEF Inv, ReaderInv, Busy, Idle, Written, Living, TypeOK, ThreadTypeOK
    <3>2. CASE p \notin closed
        BY <1>2, <2>a, <2>b, <2>d, <3>2
           DEF Inv, ReaderInv, Busy, Idle, Written, Living, TypeOK, ThreadTypeOK
    <3> QED
        BY <3>1, <3>2
  <2>11. (\A q \in PipeNames : WakerInv(q))'
    <3> SUFFICES ASSUME NEW q \in PipeNames PROVE WakerInv(q)'
        OBVIOUS
    <3>1. CASE p \in closed
        BY <1>2, <2>a, <2>b, <2>c, <3>1 DEF Inv, WakerInv, TypeOK, ThreadTypeOK
    <3>2. CASE p \notin closed
        BY <1>2, <2>a, <2>b, <2>d, <3>2 DEF Inv, WakerInv, TypeOK, ThreadTypeOK
    <3> QED
        BY <3>1, <3>2
  <2> QED
      BY <2>1, <2>2, <2>3, <2>4, <2>5, <2>6, <2>7, <2>8, <2>9, <2>10, <2>11
         DEF Inv
<1>3. ASSUME SelectTimesOut PROVE Inv'
  <2>1. TypeOK' /\ ProcessTypeOK' /\ ThreadTypeOK'
      BY <1>3 DEF Inv, TypeOK, Calls, CallInv, FlagsInv, HandlesInv, Open,
         ProcessTypeOK, ThreadTypeOK, SelectTimesOut, Expire, TimeUp, Noticed
  <2>2. CallInv' /\ FlagsInv' /\ NoteInv'
      BY <1>3 DEF Inv, TypeOK, Calls, CallInv, FlagsInv, Waitable, ProcessesInv,
         NoteInv, SelectTimesOut, Expire, TimeUp, Noticed
  <2>3. HandlesInv' /\ ProcessesInv'
      BY <1>3 DEF Inv, TypeOK, Calls, CallInv, FlagsInv, HandlesInv, Opened, Open,
         ProcessTypeOK, ProcessesInv, ProcessInv, Living, SelectTimesOut, Expire,
         TimeUp, Noticed
  <2>4. ThreadsInv' /\ (\A q \in PipeNames : ReaderInv(q) /\ WakerInv(q))'
      BY <1>3 DEF Inv, TypeOK, ThreadTypeOK, CallInv, ThreadsInv, ThreadInv, Idle,
         Passed, FlagsInv, HandlesInv, Opened, ReaderInv, Busy, ProcessesInv,
         ProcessInv, Living, Written, NoteInv, WakerInv, SelectTimesOut, Expire,
         TimeUp, Noticed
  <2> QED
      BY <2>1, <2>2, <2>3, <2>4 DEF Inv
<1>4. ASSUME Destroy PROVE Inv'
  <2>1. TypeOK' /\ ProcessTypeOK' /\ ThreadTypeOK'
      BY <1>4 DEF Inv, TypeOK, Calls, CallInv, FlagsInv, HandlesInv, Open,
         ProcessTypeOK, ThreadTypeOK, Destroy, Noticed
  <2>2. CallInv' /\ FlagsInv' /\ NoteInv'
      BY <1>4 DEF Inv, TypeOK, Calls, CallInv, FlagsInv, Waitable, ProcessesInv,
         NoteInv, Destroy, Noticed
  <2>3. HandlesInv'
      BY <1>4 DEF Inv, TypeOK, Calls, CallInv, FlagsInv, HandlesInv, Opened, Open,
         Destroy, Noticed
  <2>4. ProcessesInv'
    <3>1. PICK d \in Noticed :
              /\ exitCode' = [exitCode EXCEPT ![d] = fate[d]]
              /\ hProcess' = [hProcess EXCEPT ![d] = "closed"]
              /\ events' = events \ {d}
        BY <1>4 DEF Destroy
    <3>2. /\ state = "Executing" /\ pc = "select" /\ pc' = "top"
          /\ flags \cap KilledFlags = {}
          /\ UNCHANGED <<child, fate, state, held, opt>>
          /\ flags' \cap KilledFlags = flags \cap KilledFlags
        BY <1>4 DEF Destroy, Inv, CallInv, Waitable
    <3>4. /\ d \in Cmds /\ child[d] = "ended"
        BY <1>4 DEF Noticed, Inv, ProcessTypeOK
    <3>5. fate[d] \in {"exit", "signal"}
        BY <1>4, <3>2, <3>4 DEF Inv, ProcessTypeOK, ProcessesInv, ProcessInv
    <3>3. ASSUME NEW c \in Cmds PROVE ProcessInv(c)'
        BY <1>4, <3>1, <3>2, <3>4, <3>5
           DEF Inv, ProcessTypeOK, ProcessesInv, ProcessInv, Living, Opened
    <3> QED
        BY <1>4, <3>2, <3>3 DEF ProcessesInv
  <2>5. ThreadsInv' /\ (\A q \in PipeNames : ReaderInv(q) /\ WakerInv(q))'
      BY <1>4 DEF Inv, TypeOK, ThreadTypeOK, CallInv, ThreadsInv, ThreadInv, Idle,
         Passed, FlagsInv, HandlesInv, Opened, ReaderInv, Busy, ProcessesInv,
         ProcessInv, Living, Written, NoteInv, WakerInv, Destroy, Noticed
  <2> QED
      BY <2>1, <2>2, <2>3, <2>4, <2>5 DEF Inv
<1> QED
    BY <1>1, <1>2, <1>3, <1>4 DEF Waiting

(* The pipe threads disabled, the children killed, the threads waited for. *)
LEMMA EndingKeeps ==
    ASSUME Inv, Ending
    PROVE  Inv'
<1> USE CommandsAssumption, OptionsAssumption, ThreadNames
<1> USE DEF object, pipes, tokens, main, world, CreatePcs, WaitPcs, OtherPcs,
            KilledFlags, Cmds, PipeNames, NoCall, Goto, Return, At, To
<1>1. ASSUME Disable PROVE Inv'
  <2>1. TypeOK' /\ ProcessTypeOK' /\ ThreadTypeOK'
      BY <1>1 DEF Inv, TypeOK, Calls, CallInv, FlagsInv, HandlesInv, Open,
         ProcessTypeOK, ThreadTypeOK, Disable
  <2>2. CallInv' /\ FlagsInv' /\ NoteInv'
      BY <1>1 DEF Inv, TypeOK, Calls, CallInv, FlagsInv, Waitable, ProcessesInv,
         NoteInv, Disable
  <2>3. HandlesInv' /\ ProcessesInv'
      BY <1>1 DEF Inv, TypeOK, Calls, CallInv, FlagsInv, HandlesInv, Opened, Open,
         ProcessTypeOK, ProcessesInv, ProcessInv, Living, Disable
  <2>4. ThreadsInv' /\ (\A q \in PipeNames : ReaderInv(q))'
      BY <1>1 DEF Inv, TypeOK, ThreadTypeOK, CallInv, ThreadsInv, ThreadInv, Idle,
         Passed, FlagsInv, HandlesInv, Opened, ReaderInv, Busy, ProcessesInv,
         ProcessInv, Living, Written, NoteInv, Disable
  <2>5. (\A q \in PipeNames : WakerInv(q))'
    <3> SUFFICES ASSUME NEW q \in PipeNames PROVE WakerInv(q)'
        OBVIOUS
    <3>1. /\ UNCHANGED <<threadPc, read, state>> /\ "disabled" \in note'
          /\ "stray" \notin note' => "stray" \notin note /\ read[q] # "closed"
          /\ state = "Executing"
        BY <1>1 DEF Disable, Inv, CallInv, ThreadTypeOK
    <3>2. CASE "stray" \in note'
        BY <1>1, <3>1, <3>2 DEF Inv, WakerInv
    <3>3. CASE "stray" \notin note'
      <4>1. read[q] = "open" /\ pipesLeft > 0
          BY <1>1, <3>1, <3>3 DEF Inv, ReaderInv, TypeOK, HandlesInv, Open
      <4>2. "disabled" \notin note
          BY <1>1, <3>1, <4>1 DEF Inv, NoteInv, Disable
      <4>3. At(Waker(q), "go")
          BY <1>1, <3>1, <3>3, <4>1, <4>2 DEF Inv, WakerInv
      <4> QED
          BY <1>1, <3>1, <3>3, <4>3 DEF Inv, WakerInv
    <3> QED
        BY <1>1, <3>2, <3>3
  <2> QED
      BY <2>1, <2>2, <2>3, <2>4, <2>5 DEF Inv
<1>2. ASSUME AwaitReader PROVE Inv'
  <2> DEFINE p == sharedIndex
  <2>a. /\ p \in PipeNames /\ pc = "await" /\ state = "Executing"
        /\ At(Reader(p), "go") /\ Reader(p) \notin go /\ read[p] = "open"
        /\ pipesLeft \in {1, 2} /\ pipesLeft = Open("out") + Open("err")
      BY <1>2 DEF AwaitReader, TakeFull, Inv, TypeOK, ThreadTypeOK, CallInv,
         HandlesInv, ReaderInv, Busy
  <2>b. /\ currentIndex' = p /\ sharedIndex' = None
        /\ closed' = closed \cup {p} /\ read' = [read EXCEPT ![p] = "closed"]
        /\ go' = go \cup {Reader(p)} /\ pipesLeft' = pipesLeft - 1
        /\ UNCHANGED <<opt, object, write, childStd, reset, threadPc, main, world, note>>
      BY <1>2 DEF AwaitReader, TakeFull
  <2> HIDE DEF p
  <2>1. TypeOK'
      BY <1>2, <2>a, <2>b DEF Inv, TypeOK, Calls
  <2>2. ProcessTypeOK'
      BY <1>2, <2>a, <2>b DEF Inv, ProcessTypeOK
  <2>3. ThreadTypeOK'
      BY <1>2, <2>a, <2>b DEF Inv, ThreadTypeOK
  <2>4. CallInv'
      BY <1>2, <2>a, <2>b DEF Inv, CallInv, Waitable, TypeOK
  <2>5. FlagsInv'
      BY <1>2, <2>a, <2>b DEF Inv, FlagsInv, Waitable, TypeOK
  <2>6. HandlesInv'
      BY <1>2, <2>a, <2>b DEF Inv, HandlesInv, Opened, Open, TypeOK
  <2>7. ProcessesInv'
      BY <1>2, <2>a, <2>b DEF Inv, ProcessesInv, ProcessInv, Living, Opened
  <2>8. ThreadsInv'
      BY <1>2, <2>a, <2>b DEF Inv, ThreadsInv, ThreadInv, Idle, Passed, CallInv
  <2>9. NoteInv'
      BY <1>2, <2>a, <2>b DEF Inv, NoteInv, CallInv
  <2>10. (\A q \in PipeNames : ReaderInv(q))'
      BY <1>2, <2>a, <2>b DEF Inv, NoteInv, ReaderInv, Busy, Idle, Written,
         Living, TypeOK, ThreadTypeOK
  <2>11. (\A q \in PipeNames : WakerInv(q))'
      BY <1>2, <2>a, <2>b DEF Inv, NoteInv, WakerInv, TypeOK, ThreadTypeOK
  <2> QED
      BY <2>1, <2>2, <2>3, <2>4, <2>5, <2>6, <2>7, <2>8, <2>9, <2>10, <2>11
         DEF Inv
<1>3. ASSUME Disabled PROVE Inv'
  <2>1. TypeOK' /\ ProcessTypeOK' /\ ThreadTypeOK'
      BY <1>3 DEF Inv, TypeOK, Calls, CallInv, FlagsInv, HandlesInv, Open,
         ProcessTypeOK, ThreadTypeOK, Disabled, TimedOut, Drained
  <2>2. CallInv' /\ FlagsInv' /\ NoteInv'
      BY <1>3 DEF Inv, TypeOK, Calls, CallInv, FlagsInv, Waitable, ProcessesInv,
         NoteInv, Disabled, TimedOut, Drained
  <2>3. HandlesInv' /\ ProcessesInv'
      BY <1>3 DEF Inv, TypeOK, Calls, CallInv, FlagsInv, HandlesInv, Opened, Open,
         ProcessTypeOK, ProcessesInv, ProcessInv, Living, Disabled, TimedOut,
         Drained
  <2>4. ThreadsInv' /\ (\A q \in PipeNames : ReaderInv(q) /\ WakerInv(q))'
      BY <1>3 DEF Inv, TypeOK, ThreadTypeOK, CallInv, ThreadsInv, ThreadInv, Idle,
         Passed, FlagsInv, HandlesInv, Opened, ReaderInv, Busy, ProcessesInv,
         ProcessInv, Living, Written, NoteInv, WakerInv, Disabled, TimedOut,
         Drained
  <2> QED
      BY <2>1, <2>2, <2>3, <2>4 DEF Inv
<1>4. ASSUME KillChild PROVE Inv'
  <2>1. TypeOK' /\ ProcessTypeOK' /\ ThreadTypeOK'
      BY <1>4 DEF Inv, TypeOK, Calls, CallInv, FlagsInv, HandlesInv, Open,
         ProcessTypeOK, ThreadTypeOK, KillChild, Terminate, TimedOut, Drained
  <2>2. CallInv' /\ FlagsInv' /\ NoteInv'
      BY <1>4 DEF Inv, TypeOK, Calls, CallInv, FlagsInv, Waitable, ProcessesInv,
         NoteInv, KillChild, Terminate, TimedOut, Drained
  <2>3. HandlesInv' /\ ProcessesInv'
      BY <1>4 DEF Inv, TypeOK, Calls, CallInv, FlagsInv, HandlesInv, Opened, Open,
         ProcessTypeOK, ProcessesInv, ProcessInv, Living, KillChild, Terminate,
         TimedOut, Drained
  <2>4. ThreadsInv' /\ (\A q \in PipeNames : ReaderInv(q) /\ WakerInv(q))'
      BY <1>4 DEF Inv, TypeOK, ThreadTypeOK, CallInv, ThreadsInv, ThreadInv, Idle,
         Passed, FlagsInv, HandlesInv, Opened, ReaderInv, Busy, ProcessesInv,
         ProcessInv, Living, Written, NoteInv, WakerInv, KillChild, Terminate,
         TimedOut, Drained
  <2> QED
      BY <2>1, <2>2, <2>3, <2>4 DEF Inv
<1>5. ASSUME Release PROVE Inv'
    BY <1>5 DEF Inv, TypeOK, Calls, CallInv, FlagsInv, HandlesInv, Open,
       ProcessTypeOK, ThreadTypeOK, Waitable, ProcessesInv, NoteInv, Opened,
       ProcessInv, Living, ThreadsInv, ThreadInv, Idle, Passed, ReaderInv, Busy,
       Written, WakerInv, Release, ReleaseReader
<1>6. ASSUME AwaitReset PROVE Inv'
  <2>1. TypeOK' /\ ProcessTypeOK' /\ ThreadTypeOK'
      BY <1>6 DEF Inv, TypeOK, Calls, CallInv, FlagsInv, HandlesInv, Open,
         ProcessTypeOK, ThreadTypeOK, AwaitReset
  <2>2. CallInv' /\ FlagsInv' /\ NoteInv'
      BY <1>6 DEF Inv, TypeOK, Calls, CallInv, FlagsInv, Waitable, ProcessesInv,
         NoteInv, AwaitReset
  <2>3. HandlesInv' /\ ProcessesInv'
      BY <1>6 DEF Inv, TypeOK, Calls, CallInv, FlagsInv, HandlesInv, Opened, Open,
         ProcessTypeOK, ProcessesInv, ProcessInv, Living, AwaitReset
  <2>4. ThreadsInv' /\ (\A q \in PipeNames : ReaderInv(q) /\ WakerInv(q))'
      BY <1>6 DEF Inv, TypeOK, ThreadTypeOK, CallInv, ThreadsInv, ThreadInv, Idle,
         Passed, FlagsInv, HandlesInv, Opened, ReaderInv, Busy, ProcessesInv,
         ProcessInv, Living, Written, NoteInv, WakerInv, AwaitReset
  <2> QED
      BY <2>1, <2>2, <2>3, <2>4 DEF Inv
<1>7. ASSUME Close PROVE Inv'
  <2>1. TypeOK'
    <3>1. state' \in {"Exited", "Exception", "Killed", "Expired", "Disowned"}
        BY <1>7 DEF Close
    <3>2. read' \in [PipeNames -> {"none", "open", "closed"}] /\ write' = {}
        BY <1>7 DEF Close, ClosePipes, Inv, TypeOK
    <3>3. /\ pc' \in {"idle", "join"} /\ idx' = 1 /\ call' \in {call, NoCall}
          /\ note' = note \ {"disabled"} /\ UNCHANGED <<opt, flags, pipesLeft>>
        BY <1>7 DEF Close, ClosePipes, Forgotten
    <3> QED
        BY <1>7, <3>1, <3>2, <3>3 DEF Inv, TypeOK, Calls
  <2>2. ProcessTypeOK' /\ ThreadTypeOK'
      BY <1>7 DEF Inv, TypeOK, CallInv, ProcessTypeOK, ThreadTypeOK, Close,
         ClosePipes, Forgotten
  <2>3. CallInv' /\ FlagsInv' /\ NoteInv'
      BY <1>7 DEF Inv, TypeOK, Calls, CallInv, FlagsInv, Waitable, ProcessesInv,
         NoteInv, Close, ClosePipes, Forgotten
  <2>4. HandlesInv' /\ ProcessesInv'
      BY <1>7 DEF Inv, TypeOK, Calls, CallInv, FlagsInv, HandlesInv, Opened, Open,
         ProcessTypeOK, ProcessesInv, ProcessInv, Living, Close, ClosePipes,
         Forgotten
  <2>5. ThreadsInv'
    <3>1. \A i \in 1 .. 4 : Idle(InOrder[i]) /\ InOrder[i] \notin reset
        BY <1>7 DEF Inv, CallInv, ThreadsInv, ThreadInv, Passed, Close
    <3>2. reset' = {} /\ sharedIndex' = None /\ closed' = {}
      <4>1. \A p \in PipeNames : Idle(Reader(p))
          BY <1>7, <3>1
      <4>2. \A p \in PipeNames : sharedIndex # p
          BY <1>7, <4>1 DEF Inv, ReaderInv, Idle
      <4>3. \A t \in Threads : t \notin reset
          BY <1>7, <3>1
      <4> QED
          BY <1>7, <4>2, <4>3 DEF Inv, ThreadTypeOK, Close, ClosePipes
    <3>3. /\ \A i \in 1 .. 4 : ~At(InOrder[i], "ended")
          /\ state' \notin {"Executing", "deleted"} /\ threadPc' = threadPc
        BY <1>7 DEF Inv, CallInv, ThreadsInv, ThreadInv, Close
    <3>4. pc' = "join" => idx' = 1
        BY <1>7 DEF Close
    <3> QED
        BY <1>7, <3>1, <3>2, <3>3, <3>4 DEF ThreadsInv, ThreadInv, Idle
  <2>6. (\A q \in PipeNames : ReaderInv(q))'
    <3>1. \A i \in 1 .. 4 : Idle(InOrder[i])
        BY <1>7 DEF Inv, CallInv, ThreadsInv, ThreadInv, Passed, Close
    <3>2. \A p \in PipeNames : Idle(Reader(p))
        BY <1>7, <3>1
    <3>3. /\ closed' = {} /\ UNCHANGED <<threadPc, go, sharedIndex>>
          /\ state' # "Executing"
        BY <1>7 DEF Close, ClosePipes
    <3> QED
        BY <1>7, <3>2, <3>3 DEF Inv, ReaderInv, Busy, Idle
  <2>7. (\A q \in PipeNames : WakerInv(q))'
      BY <1>7 DEF Inv, TypeOK, ThreadTypeOK, CallInv, NoteInv, WakerInv,
         ReaderInv, Busy, HandlesInv, Opened, ThreadsInv, ThreadInv, Idle, Passed,
         Close, ClosePipes, Forgotten
  <2> QED
      BY <2>1, <2>2, <2>3, <2>4, <2>5, <2>6, <2>7 DEF Inv
<1>8. ASSUME JoinThread PROVE Inv'
  <2>1. TypeOK' /\ ProcessTypeOK' /\ ThreadTypeOK'
      BY <1>8 DEF Inv, TypeOK, Calls, CallInv, FlagsInv, HandlesInv, Open,
         ProcessTypeOK, ThreadTypeOK, JoinThread
  <2>2. CallInv' /\ FlagsInv' /\ NoteInv'
      BY <1>8 DEF Inv, TypeOK, Calls, CallInv, FlagsInv, Waitable, ProcessesInv,
         NoteInv, JoinThread
  <2>3. HandlesInv' /\ ProcessesInv'
      BY <1>8 DEF Inv, TypeOK, Calls, CallInv, FlagsInv, HandlesInv, Opened, Open,
         ProcessTypeOK, ProcessesInv, ProcessInv, Living, JoinThread
  <2>4. ThreadsInv' /\ (\A q \in PipeNames : ReaderInv(q) /\ WakerInv(q))'
      BY <1>8 DEF Inv, TypeOK, ThreadTypeOK, CallInv, ThreadsInv, ThreadInv, Idle,
         Passed, FlagsInv, HandlesInv, Opened, ReaderInv, Busy, ProcessesInv,
         ProcessInv, Living, Written, NoteInv, WakerInv, JoinThread
  <2> QED
      BY <2>1, <2>2, <2>3, <2>4 DEF Inv
<1> QED
    BY <1>1, <1>2, <1>3, <1>4, <1>5, <1>6, <1>7, <1>8 DEF Ending

(* The calls. *)
LEMMA CallKeeps ==
    ASSUME Inv, Call
    PROVE  Inv'
<1> USE CommandsAssumption, OptionsAssumption, ThreadNames
<1> USE DEF object, pipes, tokens, main, world, CreatePcs, WaitPcs, OtherPcs,
            KilledFlags, Cmds, PipeNames, NoCall, Goto, Return, At, To
<1>1. ASSUME Execute PROVE Inv'
  <2>1. TypeOK' /\ ProcessTypeOK' /\ ThreadTypeOK'
      BY <1>1 DEF Inv, TypeOK, Calls, CallInv, FlagsInv, HandlesInv, Open,
         ProcessTypeOK, ThreadTypeOK, Execute
  <2>2. CallInv' /\ FlagsInv' /\ NoteInv'
      BY <1>1 DEF Inv, TypeOK, Calls, CallInv, FlagsInv, Waitable, ProcessesInv,
         NoteInv, Execute
  <2>3. HandlesInv' /\ ProcessesInv'
      BY <1>1 DEF Inv, TypeOK, Calls, CallInv, FlagsInv, HandlesInv, Opened, Open,
         ProcessTypeOK, ProcessesInv, ProcessInv, Living, Execute
  <2>4. ThreadsInv' /\ (\A q \in PipeNames : ReaderInv(q) /\ WakerInv(q))'
      BY <1>1 DEF Inv, TypeOK, ThreadTypeOK, CallInv, ThreadsInv, ThreadInv, Idle,
         Passed, FlagsInv, HandlesInv, Opened, ReaderInv, Busy, ProcessesInv,
         ProcessInv, Living, Written, NoteInv, WakerInv, Execute
  <2> QED
      BY <2>1, <2>2, <2>3, <2>4 DEF Inv
<1>2. ASSUME Kill PROVE Inv'
    BY <1>2 DEF Inv, TypeOK, Calls, CallInv, FlagsInv, HandlesInv, Open,
       ProcessTypeOK, ThreadTypeOK, Waitable, ProcessesInv, NoteInv, Opened,
       ProcessInv, Living, ThreadsInv, ThreadInv, Idle, Passed, ReaderInv, Busy,
       Written, WakerInv, Kill
<1>3. ASSUME Delete PROVE Inv'
    BY <1>3 DEF Inv, TypeOK, Calls, CallInv, FlagsInv, HandlesInv, Open,
       ProcessTypeOK, ThreadTypeOK, Waitable, ProcessesInv, NoteInv, Opened,
       ProcessInv, Living, ThreadsInv, ThreadInv, Idle, Passed, ReaderInv, Busy,
       Written, WakerInv, Delete, MayDisown
<1>4. ASSUME NEW op \in {"WaitForData", "WaitForExit", "Delete"},
             NEW user \in {"none", "zero", "later"}, Wait(op, user) PROVE Inv'
  <2>1. TypeOK' /\ ProcessTypeOK' /\ ThreadTypeOK'
      BY <1>4 DEF Inv, TypeOK, Calls, CallInv, FlagsInv, HandlesInv, Open,
         ProcessTypeOK, ThreadTypeOK, Wait, Drained, Waitable
  <2>2. CallInv'
    <3>1. /\ pc = "idle" /\ call = NoCall /\ state = "Executing" /\ state' = state
          /\ UNCHANGED <<opt, flags, pipesLeft, note>>
        BY <1>4 DEF Wait, Inv, CallInv
    <3>2. CASE Waitable /\ pipesLeft > 0
      <4>1. /\ pc' = "top" /\ call'.op = op /\ call'.after = "none"
            /\ call' \in [op : {op}, after : {"none"}, user : {"none", user}]
          BY <1>4, <3>2 DEF Wait
      <4>2. "disabled" \notin note
          BY <1>4, <3>1, <3>2 DEF Inv, NoteInv
      <4> QED
          BY <1>4, <3>1, <3>2, <4>1, <4>2 DEF Inv, CallInv, Waitable, Wait
    <3>3. CASE ~(Waitable /\ pipesLeft > 0)
        BY <1>4, <3>1, <3>3 DEF Inv, CallInv, Wait, Drained
    <3> QED
        BY <1>4, <3>2, <3>3
  <2>3. FlagsInv'
    <3>1. /\ pc = "idle" /\ call = NoCall /\ state = "Executing" /\ state' = state
          /\ UNCHANGED <<opt, flags, pipesLeft, events, write, deadline>>
        BY <1>4 DEF Wait, Inv, CallInv
    <3>2. CASE Waitable /\ pipesLeft > 0
        BY <1>4, <3>1, <3>2 DEF Inv, FlagsInv, Wait, Waitable
    <3>3. CASE ~(Waitable /\ pipesLeft > 0)
        BY <1>4, <3>1, <3>3 DEF Inv, FlagsInv, Wait, Drained, Waitable, TypeOK,
           HandlesInv
    <3> QED
        BY <1>4, <3>2, <3>3
  <2>4. HandlesInv' /\ ProcessesInv'
      BY <1>4 DEF Inv, TypeOK, Calls, CallInv, FlagsInv, HandlesInv, Opened, Open,
         ProcessTypeOK, ProcessesInv, ProcessInv, Living, Wait, Drained, Waitable
  <2>5. ThreadsInv' /\ (\A q \in PipeNames : ReaderInv(q) /\ WakerInv(q))'
      BY <1>4 DEF Inv, TypeOK, ThreadTypeOK, CallInv, ThreadsInv, ThreadInv, Idle,
         Passed, FlagsInv, HandlesInv, Opened, ReaderInv, Busy, ProcessesInv,
         ProcessInv, Living, Written, NoteInv, WakerInv, Wait, Drained, Waitable
  <2>6. NoteInv'
      BY <1>4 DEF Inv, TypeOK, CallInv, FlagsInv, NoteInv, Wait, Drained, Waitable
  <2> QED
      BY <2>1, <2>2, <2>3, <2>4, <2>5, <2>6 DEF Inv
<1>5. ASSUME NEW op \in {"Disown", "Delete"}, Disown(op) PROVE Inv'
    BY <1>5 DEF Inv, TypeOK, Calls, CallInv, FlagsInv, HandlesInv, Open,
       ProcessTypeOK, ThreadTypeOK, Waitable, ProcessesInv, NoteInv, Opened,
       ProcessInv, Living, ThreadsInv, ThreadInv, Idle, Passed, ReaderInv, Busy,
       Written, WakerInv, Disown, MayDisown
<1> QED
    BY <1>1, <1>2, <1>3, <1>4, <1>5 DEF Call

(* kwsysProcess_New. *)
LEMMA InvInit == Init => Inv
<1> SUFFICES ASSUME Init PROVE Inv
    OBVIOUS
<1> USE CommandsAssumption, OptionsAssumption, ThreadNames
    DEF PipeNames, CreatePcs, WaitPcs, OtherPcs, KilledFlags, NoCall, At, Init
<1>1. TypeOK /\ ProcessTypeOK
    BY DEF TypeOK, ProcessTypeOK, Calls
<1>2. ThreadTypeOK
    BY DEF ThreadTypeOK
<1>3. CallInv /\ FlagsInv /\ NoteInv
    BY DEF CallInv, FlagsInv, NoteInv
<1>4. HandlesInv /\ ProcessesInv
    BY DEF HandlesInv, Opened, Open, ProcessesInv, ProcessInv, Living
<1>5. ThreadsInv
    BY DEF ThreadsInv, ThreadInv, Idle, Passed
<1>6. \A p \in PipeNames : ReaderInv(p) /\ WakerInv(p)
    BY DEF ReaderInv, WakerInv, Busy, Idle
<1> QED
    BY <1>1, <1>2, <1>3, <1>4, <1>5, <1>6 DEF Inv

LEMMA InvStep == Inv /\ [Next]_vars => Inv'
<1> SUFFICES ASSUME Inv, [Next]_vars PROVE Inv'
    OBVIOUS
<1>1. CASE Client
    BY <1>1, ExecutingKeeps, WaitingKeeps, EndingKeeps DEF Client
<1>2. CASE Call
    BY <1>2, CallKeeps
<1>3. CASE World
    BY <1>3, WorldKeeps
<1>4. CASE \E p \in PipeNames : ReaderThread(p) \/ WakerThread(p)
    BY <1>4, PipeThreadsKeep
<1>5. CASE UNCHANGED vars
  <2> USE <1>5 DEF vars, object, pipes, tokens, main, world
  <2>1. (TypeOK /\ ProcessTypeOK /\ ThreadTypeOK)'
      BY DEF Inv, TypeOK, ProcessTypeOK, ThreadTypeOK
  <2>2. (CallInv /\ FlagsInv /\ NoteInv)'
      BY DEF Inv, CallInv, FlagsInv, NoteInv, Waitable
  <2>3. (HandlesInv /\ ProcessesInv)'
      BY DEF Inv, HandlesInv, Opened, Open, ProcessesInv, ProcessInv, Living
  <2>4. ThreadsInv'
      BY DEF Inv, ThreadsInv, ThreadInv, Idle, Passed, At
  <2>5. \A p \in PipeNames : ReaderInv(p)' /\ WakerInv(p)'
      BY DEF Inv, ReaderInv, WakerInv, Busy, Idle, At, Written, Living
  <2> QED
      BY <2>1, <2>2, <2>3, <2>4, <2>5 DEF Inv
<1> QED
    BY <1>1, <1>2, <1>3, <1>4, <1>5 DEF Next

LEMMA InvAlways == Spec => []Inv
    BY InvInit, InvStep, PTL DEF Spec

(* "Wait for all pipe threads to reset": an execution that is over, whatever way
   it ended, leaves every reader and waker waiting for its Ready and every
   semaphore as a new object has it, but for the wakers' tokens that a wake-up
   after a pipe was closed leaves. *)
THEOREM ThreadsAreReset == Spec => []ThreadsReset
<1>1. Inv => ThreadsReset
  <2> SUFFICES ASSUME Inv, pc = "idle", state \notin {"Executing", "deleted"}
               PROVE  /\ sharedIndex = None /\ reset = {} /\ closed = {}
                      /\ \A t \in Threads : At(t, "ready")
                      /\ {Reader(p) : p \in PipeNames} \subseteq go
                      /\ (\E p \in PipeNames : Waker(p) \in go) => "stray" \in note
      BY DEF ThreadsReset
  <2>1. \A i \in 1 .. 4 : At(InOrder[i], "ready")
      BY DEF Inv, ThreadsInv, ThreadInv, Idle
  <2>2. \A t \in Threads : At(t, "ready")
      BY <2>1, ThreadNames
  <2>3. \A p \in PipeNames : Reader(p) \in go
      BY <2>2, ThreadNames DEF Inv, ReaderInv, Idle
  <2>4. \A p \in PipeNames : Waker(p) \in go => "stray" \in note
      BY DEF Inv, WakerInv
  <2> QED
      BY <2>2, <2>3, <2>4 DEF Inv, ThreadsInv
<1> QED
    BY <1>1, InvAlways, PTL

(* Whatever part of an execution fails and whoever ends it, its pipes are closed,
   and the process handles with them unless the children were disowned. *)
THEOREM HandlesAreClosed == Spec => []HandlesClosed
<1>1. Inv => HandlesClosed
  <2> SUFFICES ASSUME Inv, pc = "idle", state \notin {"Starting", "Executing"},
                      ~(state = "deleted" /\ opt.detach /\ flags # {})
               PROVE  /\ \A p \in PipeNames : read[p] # "open" /\ p \notin write
                      /\ ~childStd
                      /\ state # "Disowned" /\ ~(state = "deleted" /\ opt.detach) =>
                            \A c \in Cmds : hProcess[c] # "open"
      BY DEF HandlesClosed
  <2>1. ~Opened
      BY DEF Opened
  <2>2. (\A p \in PipeNames : read[p] # "open") /\ write = {} /\ ~childStd
      BY <2>1 DEF Inv, HandlesInv
  <2>3. state # "Disowned" /\ ~(state = "deleted" /\ opt.detach) =>
            \A c \in Cmds : hProcess[c] # "open"
      BY <2>1 DEF Inv, ProcessesInv, ProcessInv
  <2> QED
      BY <2>2, <2>3
<1> QED
    BY <1>1, InvAlways, PTL

(***************************************************************************)
(* The data.                                                               *)
(***************************************************************************)

DataTypeOK ==
    /\ buffer \in [PipeNames -> Seq(Nat)] /\ content \in [PipeNames -> Seq(Nat)]
    /\ got \in [PipeNames -> Seq(Nat)] /\ wrote \in [PipeNames -> Nat]

(* What the children have written to a pipe is with the client, in the reader's
   buffer and in the pipe, in this order, until the threads are disabled. *)
ChunksInv(p) ==
    \E m, n \in 0 .. wrote[p] :
        /\ m <= n /\ Chunks(got[p], 0, m) /\ Chunks(buffer[p], m, n)
        /\ Chunks(content[p], n, wrote[p])
DataInv(p) ==
    /\ \E n \in 0 .. wrote[p] : Chunks(got[p], 0, n)
    /\ state = "Executing" /\ "disabled" \notin note => ChunksInv(p)
    /\ buffer[p] # <<>> => At(Reader(p), "report") \/ sharedIndex = p
    /\ p \in closed /\ "disabled" \notin note => content[p] = <<>> /\ buffer[p] = <<>>
    /\ state \notin {"Executing", "deleted"} =>
           content[p] = <<>> /\ got[p] = <<>> /\ wrote[p] = 0
    /\ "stray" \notin note => 0 \notin Range(got[p])
    /\ "stray" \notin note /\ "disabled" \notin note =>
           0 \notin Range(content[p]) /\ 0 \notin Range(buffer[p])
DataOK == DataTypeOK /\ \A p \in PipeNames : DataInv(p)

(* Nothing is the chunks of an empty interval, and of no other. *)
LEMMA ChunksEmpty ==
    /\ \A n \in Nat : Chunks(<<>>, n, n)
    /\ \A m, n \in Nat : m <= n /\ Chunks(<<>>, m, n) => m = n
    /\ Range(<<>>) = {}
<1>1. DOMAIN <<>> = {}
    OBVIOUS
<1>2. Range(<<>>) = {}
    BY <1>1 DEF Range
<1>3. ASSUME NEW n \in Nat PROVE Chunks(<<>>, n, n)
    BY <1>1, <1>2 DEF Chunks
<1>4. ASSUME NEW m \in Nat, NEW n \in Nat, m <= n, Chunks(<<>>, m, n) PROVE m = n
  <2>1. (m + 1) .. n = {}
      BY <1>2, <1>4 DEF Chunks
  <2>2. m < n => m + 1 \in (m + 1) .. n
      OBVIOUS
  <2> QED
      BY <1>4, <2>1, <2>2
<1> QED
    BY <1>2, <1>3, <1>4

(* The chunks of two intervals in a row, one after the other. *)
LEMMA ChunksJoin ==
    ASSUME NEW k \in Nat, NEW m \in Nat, NEW n \in Nat, k <= m, m <= n,
           NEW s \in Seq(Nat), NEW t \in Seq(Nat),
           Chunks(s, k, m), Chunks(t, m, n)
    PROVE  /\ Chunks(s \o t, k, n) /\ s \o t \in Seq(Nat)
           /\ Range(s \o t) = Range(s) \cup Range(t)
<1> DEFINE u == s \o t
<1>1. /\ DOMAIN s = 1 .. Len(s) /\ DOMAIN t = 1 .. Len(t) /\ DOMAIN u = 1 .. Len(u)
      /\ u \in Seq(Nat) /\ Len(s) \in Nat /\ Len(t) \in Nat /\ Len(u) = Len(s) + Len(t)
    BY ConcatProperties, LenProperties
<1>2. \A i \in DOMAIN u : IF i <= Len(s) THEN i \in DOMAIN s /\ u[i] = s[i]
                          ELSE i - Len(s) \in DOMAIN t /\ u[i] = t[i - Len(s)]
    BY <1>1, ConcatProperties
<1>3. \A i \in DOMAIN s : i \in DOMAIN u /\ u[i] = s[i]
    BY <1>1, ConcatProperties
<1>4. \A i \in DOMAIN t : i + Len(s) \in DOMAIN u /\ u[i + Len(s)] = t[i]
    BY <1>1, ConcatProperties
<1> HIDE DEF u
<1>5. Range(u) = Range(s) \cup Range(t)
  <2>1. ASSUME NEW i \in DOMAIN u PROVE u[i] \in Range(s) \cup Range(t)
      BY <1>2 DEF Range
  <2>2. Range(s) \subseteq Range(u) /\ Range(t) \subseteq Range(u)
      BY <1>3, <1>4 DEF Range
  <2> QED
      BY <2>1, <2>2 DEF Range
<1>6. Range(u) \ {0} = (k + 1) .. n
  <2>1. Range(u) \ {0} = ((k + 1) .. m) \cup ((m + 1) .. n)
      BY <1>5 DEF Chunks
  <2> QED
      BY <2>1
<1>7. ASSUME NEW i \in DOMAIN u, NEW j \in DOMAIN u, i < j, u[j] # 0 PROVE u[i] < u[j]
  <2>0. i \in Nat /\ j \in Nat
      BY <1>1
  <2>1. CASE j <= Len(s)
      BY <1>1, <1>2, <1>7, <2>0, <2>1 DEF Chunks
  <2>2. CASE i > Len(s)
    <3>1. /\ i - Len(s) \in DOMAIN t /\ u[i] = t[i - Len(s)]
          /\ j - Len(s) \in DOMAIN t /\ u[j] = t[j - Len(s)]
        BY <1>1, <1>2, <1>7, <2>0, <2>2
    <3>2. i - Len(s) < j - Len(s)
        BY <1>1, <1>7, <2>0
    <3> QED
        BY <1>7, <3>1, <3>2 DEF Chunks
  <2>3. CASE ~(j <= Len(s)) /\ ~(i > Len(s))
    <3>0. /\ i \in DOMAIN s /\ u[i] = s[i]
          /\ j - Len(s) \in DOMAIN t /\ u[j] = t[j - Len(s)]
        BY <1>1, <1>2, <1>7, <2>0, <2>3
    <3>1. u[i] \in Range(s) /\ u[j] \in Range(t) \ {0}
        BY <1>7, <3>0 DEF Range
    <3>2. u[i] = 0 \/ u[i] \in (k + 1) .. m
        BY <3>1 DEF Chunks
    <3>3. u[j] \in (m + 1) .. n
        BY <3>1 DEF Chunks
    <3> QED
        BY <3>2, <3>3
  <2> QED
      BY <2>1, <2>2, <2>3
<1> QED
    BY <1>1, <1>5, <1>6, <1>7 DEF Chunks, u

(* What is written to a pipe: the next chunk, or a waker's byte. *)
LEMMA ChunksAppend ==
    ASSUME NEW m \in Nat, NEW n \in Nat, m <= n, NEW s \in Seq(Nat), Chunks(s, m, n)
    PROVE  /\ Chunks(Append(s, n + 1), m, n + 1) /\ Append(s, n + 1) \in Seq(Nat)
           /\ Range(Append(s, n + 1)) = Range(s) \cup {n + 1}
           /\ Chunks(Append(s, 0), m, n) /\ Append(s, 0) \in Seq(Nat)
<1>1. ASSUME NEW x \in Nat, NEW r \in Nat, n <= r, Chunks(<<x>>, n, r)
      PROVE  /\ Chunks(Append(s, x), m, r) /\ Append(s, x) \in Seq(Nat)
             /\ Range(Append(s, x)) = Range(s) \cup {x}
  <2> DEFINE t == <<x>>
  <2>1. t \in Seq(Nat) /\ Append(s, x) = s \o t /\ Append(s, x) \in Seq(Nat)
      OBVIOUS
  <2>2. Range(t) = {x}
      BY DEF Range
  <2>3. Chunks(t, n, r)
      BY <1>1
  <2> HIDE DEF t
  <2>4. Chunks(s \o t, m, r) /\ Range(s \o t) = Range(s) \cup Range(t)
      BY <1>1, <2>1, <2>3, ChunksJoin
  <2> QED
      BY <2>1, <2>2, <2>4
<1>2. Chunks(<<n + 1>>, n, n + 1) /\ Chunks(<<0>>, n, n)
    BY DEF Chunks, Range
<1>3. /\ Chunks(Append(s, n + 1), m, n + 1) /\ Append(s, n + 1) \in Seq(Nat)
      /\ Range(Append(s, n + 1)) = Range(s) \cup {n + 1}
    BY <1>1, <1>2
<1>4. Chunks(Append(s, 0), m, n) /\ Append(s, 0) \in Seq(Nat)
    BY <1>1, <1>2
<1> QED
    BY <1>3, <1>4

(* What nobody touches. *)
Holding(p) == At(Reader(p), "report") \/ sharedIndex = p
LEMMA DataKept ==
    ASSUME NEW p \in PipeNames, DataInv(p),
           UNCHANGED <<buffer[p], content[p], got[p], wrote[p]>>,
           p \in closed' => p \in closed, note \subseteq note',
           state' = "Executing" => state = "Executing",
           state' \notin {"Executing", "deleted"} =>
               state \notin {"Executing", "deleted"},
           Holding(p) => Holding(p)'
    PROVE  DataInv(p)'
    BY DEF DataInv, ChunksInv, Holding

LEMMA AllDataKept ==
    ASSUME DataOK, UNCHANGED <<buffer, content, got, wrote>>,
           closed' \subseteq closed, note \subseteq note',
           state' = "Executing" => state = "Executing",
           state' \notin {"Executing", "deleted"} =>
               state \notin {"Executing", "deleted"},
           \A p \in PipeNames : Holding(p) => Holding(p)'
    PROVE  DataOK'
    BY DataKept DEF DataOK, DataTypeOK

(* Between two executions the readers hold nothing. *)
LEMMA NothingHeld ==
    ASSUME Inv, DataOK, NEW p \in PipeNames,
           state \notin {"Executing", "deleted"} \/ pc = "close"
    PROVE  buffer[p] = <<>> /\ ~Holding(p)
<1>1. Idle(Reader(p))
  <2>1. \A i \in 1 .. 4 : Idle(InOrder[i])
      BY DEF Inv, CallInv, OtherPcs, ThreadsInv, ThreadInv, Passed
  <2> QED
      BY <2>1, ThreadNames
<1>2. ~Holding(p)
    BY <1>1 DEF Inv, ReaderInv, Idle, Holding, At
<1> QED
    BY <1>2 DEF DataOK, DataInv, Holding

(* The children write to pipes that are open and that the reader has not found
   broken. *)
LEMMA WorldKeepsData ==
    ASSUME Inv, DataOK, World
    PROVE  DataOK'
<1> USE DEF object, pipes, main, world, tokens
<1>1. ASSUME NEW c \in Cmds, ChildEnds(c) PROVE DataOK'
    BY <1>1, AllDataKept DEF ChildEnds, Holding, At
<1>2. ASSUME NEW p \in PipeNames, ChildWrites(p) PROVE DataOK'
  <2>1. Written(p) /\ read[p] = "open"
      BY <1>2 DEF ChildWrites, Written, Living
  <2>2. p \notin closed \/ "disabled" \in note
      BY <2>1 DEF Inv, ReaderInv
  <2>3. state \in {"Executing", "deleted"}
    <3>1. ~Opened
        BY <1>2 DEF ChildWrites, Inv, ProcessesInv, ProcessInv, Opened, CreatePcs
    <3> QED
        BY <2>1, <3>1 DEF Inv, HandlesInv
  <2>4. /\ content' = [content EXCEPT ![p] = Append(content[p], wrote[p] + 1)]
        /\ wrote' = [wrote EXCEPT ![p] = wrote[p] + 1]
        /\ UNCHANGED <<buffer, got, closed, note, state, sharedIndex, threadPc>>
      BY <1>2 DEF ChildWrites
  <2>5. \A q \in PipeNames \ {p} : DataInv(q)'
      BY <2>4, DataKept DEF DataOK, DataTypeOK, Holding, At
  <2>6. /\ content[p] \in Seq(Nat) /\ wrote[p] \in Nat
        /\ content'[p] = Append(content[p], wrote[p] + 1) /\ wrote'[p] = wrote[p] + 1
        /\ Append(content[p], wrote[p] + 1) \in Seq(Nat)
      BY <2>4 DEF DataOK, DataTypeOK
  <2>7. DataTypeOK'
      BY <2>4, <2>6 DEF DataOK, DataTypeOK
  <2>8. ChunksInv(p) => ChunksInv(p)'
    <3> SUFFICES ASSUME NEW m \in 0 .. wrote[p], NEW n \in 0 .. wrote[p],
                        m <= n, Chunks(got[p], 0, m), Chunks(buffer[p], m, n),
                        Chunks(content[p], n, wrote[p])
                 PROVE  ChunksInv(p)'
        BY DEF ChunksInv
    <3>1. Chunks(content'[p], n, wrote'[p])
        BY <2>6, ChunksAppend
    <3> QED
        BY <2>4, <2>6, <3>1 DEF ChunksInv
  <2>9. 0 \notin Range(content[p]) => 0 \notin Range(content'[p])
      BY <2>6 DEF Range
  <2>10. DataInv(p)'
      BY <2>2, <2>3, <2>4, <2>6, <2>8, <2>9 DEF DataOK, DataInv, At
  <2> QED
      BY <2>5, <2>7, <2>10 DEF DataOK
<1>3. CASE GrandchildEnds \/ DeadlinePasses \/ UserTimePasses
    BY <1>3, AllDataKept
       DEF GrandchildEnds, DeadlinePasses, UserTimePasses, Holding, At
<1> QED
    BY <1>1, <1>2, <1>3 DEF World

(* A reader takes what is in its pipe, and a waker, once it has been told, puts
   its byte into a pipe that has not broken. *)
LEMMA PipeThreadsKeepData ==
    ASSUME Inv, DataOK, NEW p \in PipeNames, ReaderThread(p) \/ WakerThread(p)
    PROVE  DataOK'
<1> USE ThreadNames DEF object, pipes, main, world, tokens
<1>1. ASSUME ReaderGo(p) PROVE DataOK'
    BY <1>1, AllDataKept DEF ReaderGo, Holding, At, To, Inv, ThreadTypeOK
<1>2. ASSUME ReaderReads(p) PROVE DataOK'
  <2>1. /\ p \notin closed /\ ~Holding(p) /\ state \in {"Executing", "deleted"}
        /\ Reader(p) \in Threads
    <3>1. At(Reader(p), "read") /\ \E i \in 1 .. 4 : Reader(p) = InOrder[i]
        BY <1>2 DEF ReaderReads
    <3> QED
        BY <3>1 DEF Inv, ReaderInv, ThreadsInv, ThreadInv, Idle, At, Holding
  <2>2. /\ buffer' = [buffer EXCEPT ![p] = content[p]]
        /\ content' = [content EXCEPT ![p] = <<>>]
        /\ closed' = IF content[p] = <<>> THEN closed \cup {p} ELSE closed
        /\ threadPc' = [threadPc EXCEPT ![Reader(p)] = "report"]
        /\ UNCHANGED <<got, wrote, note, state, sharedIndex>>
      BY <1>2 DEF ReaderReads, To
  <2>3. \A q \in PipeNames : Holding(q) => Holding(q)'
      BY <2>1, <2>2 DEF Holding, At, Inv, ThreadTypeOK
  <2>4. \A q \in PipeNames \ {p} : DataInv(q)'
      BY <2>2, <2>3, DataKept DEF DataOK, DataTypeOK
  <2>5. /\ buffer[p] = <<>> /\ buffer'[p] = content[p] /\ content'[p] = <<>>
        /\ At(Reader(p), "report")'
      BY <2>1, <2>2 DEF DataOK, DataTypeOK, DataInv, Holding, At, Inv, ThreadTypeOK
  <2>6. DataTypeOK'
      BY <2>2, EmptySeq DEF DataOK, DataTypeOK
  <2>7. ChunksInv(p) => ChunksInv(p)'
    <3> SUFFICES ASSUME NEW m \in 0 .. wrote[p], NEW n \in 0 .. wrote[p],
                        m <= n, Chunks(got[p], 0, m), Chunks(<<>>, m, n),
                        Chunks(content[p], n, wrote[p])
                 PROVE  ChunksInv(p)'
        BY <2>5 DEF ChunksInv
    <3>1. m = n /\ wrote[p] \in Nat /\ Chunks(<<>>, wrote[p], wrote[p])
        BY ChunksEmpty DEF DataOK, DataTypeOK
    <3> QED
        BY <2>2, <2>5, <3>1 DEF ChunksInv
  <2>8. DataInv(p)'
      BY <2>1, <2>2, <2>5, <2>7, ChunksEmpty DEF DataOK, DataInv
  <2> QED
      BY <2>4, <2>6, <2>8 DEF DataOK
<1>3. ASSUME ReaderReports(p) PROVE DataOK'
    BY <1>3, AllDataKept DEF ReaderReports, Holding, At, To, Inv, ThreadTypeOK
<1>4. ASSUME WakerGo(p) PROVE DataOK'
    BY <1>4, AllDataKept DEF WakerGo, Holding, At, To, Inv, ThreadTypeOK
<1>5. ASSUME WakerWrites(p) PROVE DataOK'
  <2>1. /\ state \in {"Executing", "deleted"}
        /\ "stray" \in note \/ "disabled" \in note
    <3>1. At(Waker(p), "write") /\ \E i \in 1 .. 4 : Waker(p) = InOrder[i]
        BY <1>5 DEF WakerWrites
    <3> QED
        BY <3>1 DEF Inv, WakerInv, ThreadsInv, ThreadInv, Idle, At
  <2>2. /\ UNCHANGED <<buffer, got, wrote, note, closed, state, sharedIndex>>
        /\ \A q \in PipeNames : At(Reader(q), "report") => At(Reader(q), "report")'
      BY <1>5 DEF WakerWrites, To, At, Inv, ThreadTypeOK
  <2>3. \A q \in PipeNames : Holding(q) => Holding(q)'
      BY <2>2 DEF Holding
  <2>4. CASE content' = content
      BY <2>2, <2>3, <2>4, AllDataKept
  <2>5. CASE /\ p \in write
             /\ content' = [content EXCEPT ![p] = Append(content[p], 0)]
    <3>1. \A q \in PipeNames \ {p} : DataInv(q)'
        BY <2>2, <2>3, <2>5, DataKept DEF DataOK, DataTypeOK
    <3>2. /\ content[p] \in Seq(Nat) /\ wrote[p] \in Nat
          /\ content'[p] = Append(content[p], 0) /\ Append(content[p], 0) \in Seq(Nat)
        BY <2>5 DEF DataOK, DataTypeOK
    <3>3. DataTypeOK'
        BY <2>2, <2>5, <3>2 DEF DataOK, DataTypeOK
    <3>4. p \notin closed \/ "disabled" \in note
        BY <2>5 DEF Inv, ReaderInv, Written
    <3>5. ChunksInv(p) => ChunksInv(p)'
      <4> SUFFICES ASSUME NEW m \in 0 .. wrote[p], NEW n \in 0 .. wrote[p],
                          m <= n, Chunks(got[p], 0, m), Chunks(buffer[p], m, n),
                          Chunks(content[p], n, wrote[p])
                   PROVE  ChunksInv(p)'
          BY DEF ChunksInv
      <4>1. Chunks(content'[p], n, wrote[p])
          BY <3>2, ChunksAppend
      <4> QED
          BY <2>2, <4>1 DEF ChunksInv
    <3>6. DataInv(p)'
        BY <2>1, <2>2, <2>3, <3>4, <3>5 DEF DataOK, DataInv, Holding
    <3> QED
        BY <3>1, <3>3, <3>6 DEF DataOK
  <2> QED
      BY <1>5, <2>4, <2>5 DEF WakerWrites
<1> QED
    BY <1>1, <1>2, <1>3, <1>4, <1>5 DEF ReaderThread, WakerThread

(* kwsysProcessCleanup drops what was left in the pipes. *)
LEMMA ForgottenData ==
    ASSUME Inv, DataOK, Forgotten, closed' = {}, buffer' = buffer,
           state \notin {"Executing", "deleted"} \/ pc = "close"
    PROVE  DataOK'
<1>1. \A p \in PipeNames : /\ buffer'[p] = <<>> /\ content'[p] = <<>>
                           /\ got'[p] = <<>> /\ wrote'[p] = 0
    BY NothingHeld DEF Forgotten
<1>2. DataTypeOK'
    BY EmptySeq DEF Forgotten, DataOK, DataTypeOK
<1>3. Chunks(<<>>, 0, 0) /\ Range(<<>>) = {}
    BY ChunksEmpty
<1>4. ASSUME NEW p \in PipeNames PROVE DataInv(p)'
    BY <1>1, <1>3 DEF DataInv, ChunksInv
<1> QED
    BY <1>2, <1>4 DEF DataOK

LEMMA ExecutingKeepsData ==
    ASSUME Inv, DataOK, Executing
    PROVE  DataOK'
<1> USE DEF object, pipes, main, world, tokens, Goto, Return
<1>1. CASE OpenPipes \/ Create
    BY <1>1, AllDataKept DEF OpenPipes, Create, Holding, At
<1>2. CASE Resume
  <2>1. state \notin {"Executing", "deleted"}
      BY <1>2 DEF Resume, Inv, CallInv, CreatePcs
  <2>2. /\ UNCHANGED <<buffer, content, got, wrote, closed, note>>
        /\ state' = "Executing"
      BY <1>2 DEF Resume
  <2>3. Chunks(<<>>, 0, 0) /\ Range(<<>>) = {}
      BY ChunksEmpty
  <2>4. ASSUME NEW p \in PipeNames PROVE DataInv(p)'
    <3>1. buffer[p] = <<>> /\ content[p] = <<>> /\ got[p] = <<>> /\ wrote[p] = 0
        BY <2>1, NothingHeld DEF DataOK, DataInv
    <3> QED
        BY <2>2, <2>3, <3>1 DEF DataInv, ChunksInv
  <2> QED
      BY <2>2, <2>4 DEF DataOK, DataTypeOK
<1>3. CASE CleanupError
  <2>1. state \notin {"Executing", "deleted"}
      BY <1>3 DEF CleanupError, Inv, CallInv, CreatePcs
  <2>2. CASE idx <= NumCommands
      BY <1>3, <2>2, AllDataKept DEF CleanupError, Holding, At
  <2>3. CASE ~(idx <= NumCommands)
      BY <1>3, <2>1, <2>3, ForgottenData DEF CleanupError, ClosePipes
  <2> QED
      BY <2>2, <2>3
<1> QED
    BY <1>1, <1>2, <1>3 DEF Executing

(* WaitForData: the data of a reader that has reported go to the caller. *)
LEMMA WaitingKeepsData ==
    ASSUME Inv, DataOK, Waiting
    PROVE  DataOK'
<1> USE DEF object, pipes, main, world, tokens, Goto, Return
<1>1. CASE Top \/ SelectTimesOut
    BY <1>1, AllDataKept DEF Top, SelectTimesOut, Holding, At
<1>2. CASE Destroy
    BY <1>2, AllDataKept DEF Destroy, Holding, At
<1>3. CASE SelectPipe
  <2>1. PICK p \in PipeNames : p = sharedIndex
      BY <1>3 DEF SelectPipe, TakeFull, Inv, ThreadTypeOK
  <2>2. state = "Executing" /\ "disabled" \notin note
      BY <1>3 DEF SelectPipe, Inv, CallInv, WaitPcs, OtherPcs
  <2>3. /\ sharedIndex' = None /\ buffer' = [buffer EXCEPT ![p] = <<>>]
        /\ UNCHANGED <<content, wrote, closed, note, state, threadPc>>
        /\ got' = IF p \in closed THEN got
                  ELSE [got EXCEPT ![p] = got[p] \o buffer[p]]
      BY <1>3, <2>1 DEF SelectPipe, TakeFull
  <2>4. \A q \in PipeNames \ {p} : Holding(q) => Holding(q)'
      BY <2>1, <2>3 DEF Holding, At
  <2>5. \A q \in PipeNames \ {p} : DataInv(q)'
      BY <2>2, <2>3, <2>4, DataKept DEF DataOK, DataTypeOK
  <2>6. PICK m \in 0 .. wrote[p], n \in 0 .. wrote[p] :
            /\ m <= n /\ Chunks(got[p], 0, m) /\ Chunks(buffer[p], m, n)
            /\ Chunks(content[p], n, wrote[p])
      BY <2>2 DEF DataOK, DataInv, ChunksInv
  <2>7. /\ buffer[p] \in Seq(Nat) /\ got[p] \in Seq(Nat) /\ wrote[p] \in Nat
        /\ buffer'[p] = <<>>
      BY <2>2, <2>3 DEF DataOK, DataTypeOK
  <2>8. /\ got'[p] \in Seq(Nat) /\ Chunks(got'[p], 0, n)
        /\ "stray" \notin note => 0 \notin Range(got'[p])
    <3>1. CASE p \in closed
      <4>1. buffer[p] = <<>> /\ got' = got
          BY <2>2, <2>3, <3>1 DEF DataOK, DataInv
      <4> QED
          BY <2>2, <2>6, <2>7, <4>1, ChunksEmpty DEF DataOK, DataInv
    <3>2. CASE p \notin closed
      <4>1. got'[p] = got[p] \o buffer[p]
          BY <2>2, <2>3, <3>2 DEF DataOK, DataTypeOK
      <4>2. /\ Chunks(got[p] \o buffer[p], 0, n) /\ got[p] \o buffer[p] \in Seq(Nat)
            /\ Range(got[p] \o buffer[p]) = Range(got[p]) \cup Range(buffer[p])
          BY <2>6, <2>7, ChunksJoin
      <4> QED
          BY <2>2, <4>1, <4>2 DEF DataOK, DataInv
    <3> QED
        BY <3>1, <3>2
  <2>9. DataTypeOK'
      BY <2>2, <2>3, <2>7, <2>8, EmptySeq DEF DataOK, DataTypeOK
  <2>10. ChunksInv(p)'
    <3>1. Chunks(buffer'[p], n, n)
        BY <2>7, ChunksEmpty
    <3> QED
        BY <2>3, <2>6, <2>8, <3>1 DEF ChunksInv
  <2>11. DataInv(p)'
      BY <2>2, <2>3, <2>6, <2>7, <2>8, <2>10, ChunksEmpty DEF DataOK, DataInv
  <2> QED
      BY <2>5, <2>9, <2>11 DEF DataOK
<1> QED
    BY <1>1, <1>2, <1>3 DEF Waiting

(* Once the threads are disabled nobody is given anything more. *)
LEMMA EndingKeepsData ==
    ASSUME Inv, DataOK, Ending
    PROVE  DataOK'
<1> USE DEF object, pipes, main, world, tokens, Goto, Return
<1>1. CASE Disable \/ Release \/ AwaitReset
    BY <1>1, AllDataKept DEF Disable, Release, AwaitReset, Holding, At
<1>2. CASE Disabled \/ KillChild
    BY <1>2, AllDataKept DEF Disabled, KillChild, Holding, At
<1>3. CASE AwaitReader
  <2>1. PICK p \in PipeNames : p = sharedIndex
      BY <1>3 DEF AwaitReader, TakeFull, Inv, ThreadTypeOK
  <2>2. state = "Executing" /\ "disabled" \in note
      BY <1>3 DEF AwaitReader, Inv, CallInv, NoteInv, OtherPcs
  <2>3. /\ sharedIndex' = None /\ buffer' = [buffer EXCEPT ![p] = <<>>]
        /\ UNCHANGED <<content, got, wrote, note, state, threadPc>>
        /\ closed' = closed \cup {p}
      BY <1>3, <2>1 DEF AwaitReader, TakeFull
  <2>4. \A q \in PipeNames \ {p} : Holding(q) => Holding(q)'
      BY <2>1, <2>3 DEF Holding, At
  <2>5. \A q \in PipeNames \ {p} : DataInv(q)'
      BY <2>2, <2>3, <2>4, DataKept DEF DataOK, DataTypeOK
  <2>6. buffer'[p] = <<>> /\ DataTypeOK'
      BY <2>2, <2>3, EmptySeq DEF DataOK, DataTypeOK
  <2>7. DataInv(p)'
      BY <2>2, <2>3, <2>6 DEF DataOK, DataInv
  <2> QED
      BY <2>5, <2>6, <2>7 DEF DataOK
<1>4. CASE Close
    BY <1>4, ForgottenData DEF Close, ClosePipes
<1>5. CASE JoinThread
  <2>1. /\ UNCHANGED <<buffer, content, got, wrote, closed, note, sharedIndex>>
        /\ state' = state \/ state' = "deleted"
        /\ \A p \in PipeNames : At(Reader(p), "report") => At(Reader(p), "report")'
      BY <1>5 DEF JoinThread, To, At, Inv, ThreadTypeOK
  <2> QED
      BY <2>1, AllDataKept DEF Holding
<1> QED
    BY <1>1, <1>2, <1>3, <1>4, <1>5 DEF Ending

LEMMA CallKeepsData ==
    ASSUME Inv, DataOK, Call
    PROVE  DataOK'
<1> USE DEF object, pipes, main, world, tokens, Goto, Return
<1>1. CASE Execute
    BY <1>1, AllDataKept DEF Execute, Holding, At
<1>2. CASE Kill \/ Delete
    BY <1>2, AllDataKept DEF Kill, Delete, Holding, At
<1>3. ASSUME NEW op \in {"WaitForData", "WaitForExit", "Delete"},
             NEW user \in {"none", "zero", "later"}, Wait(op, user)
      PROVE  DataOK'
    BY <1>3, AllDataKept DEF Wait, Holding, At
<1>4. ASSUME NEW op \in {"Disown", "Delete"}, Disown(op) PROVE DataOK'
    BY <1>4, AllDataKept DEF Disown, Holding, At
<1> QED
    BY <1>1, <1>2, <1>3, <1>4 DEF Call

LEMMA DataInit == Init => DataOK
<1> SUFFICES ASSUME Init PROVE DataOK
    OBVIOUS
<1>1. DataTypeOK
    BY EmptySeq DEF Init, DataTypeOK
<1>2. Chunks(<<>>, 0, 0) /\ Range(<<>>) = {}
    BY ChunksEmpty
<1>3. ASSUME NEW p \in PipeNames PROVE DataInv(p)
    BY <1>2 DEF Init, DataInv
<1> QED
    BY <1>1, <1>3 DEF DataOK

LEMMA DataStep == Inv /\ DataOK /\ [Next]_vars => DataOK'
<1> SUFFICES ASSUME Inv, DataOK, [Next]_vars PROVE DataOK'
    OBVIOUS
<1>1. CASE Client
    BY <1>1, ExecutingKeepsData, WaitingKeepsData, EndingKeepsData DEF Client
<1>2. CASE Call
    BY <1>2, CallKeepsData
<1>3. CASE World
    BY <1>3, WorldKeepsData
<1>4. CASE \E p \in PipeNames : ReaderThread(p) \/ WakerThread(p)
    BY <1>4, PipeThreadsKeepData
<1>5. CASE UNCHANGED vars
    BY <1>5, AllDataKept DEF vars, object, pipes, main, world, tokens, Holding, At
<1> QED
    BY <1>1, <1>2, <1>3, <1>4, <1>5 DEF Next

(* What the children write to a pipe reaches the client once, in order and, when
   all pipes have closed by themselves, completely; none of the wakers' bytes is
   among it until one has been told to wake a closed pipe. *)
THEOREM DataArrives == Spec => []DataOnceInOrder
<1>1. Inv /\ DataOK => DataOnceInOrder
  <2> SUFFICES ASSUME Inv, DataOK, NEW p \in PipeNames
               PROVE  /\ \E n \in 0 .. wrote[p] : Chunks(got[p], 0, n)
                      /\ state = "Executing" /\ pipesLeft = 0 /\ "disabled" \notin note
                            => Chunks(got[p], 0, wrote[p])
                      /\ 0 \in Range(got[p]) => "stray" \in note
      BY DEF DataOnceInOrder
  <2>1. ASSUME state = "Executing", pipesLeft = 0, "disabled" \notin note
        PROVE  Chunks(got[p], 0, wrote[p])
    <3>1. p \in closed
      <4>1. read[p] # "open"
          BY <2>1 DEF Inv, HandlesInv, Open, PipeNames
      <4> QED
          BY <2>1, <4>1 DEF Inv, TypeOK, ReaderInv
    <3>2. content[p] = <<>> /\ buffer[p] = <<>> /\ wrote[p] \in Nat
        BY <2>1, <3>1 DEF DataOK, DataInv, DataTypeOK
    <3>3. PICK m \in 0 .. wrote[p], n \in 0 .. wrote[p] :
              /\ m <= n /\ Chunks(got[p], 0, m) /\ Chunks(<<>>, m, n)
              /\ Chunks(<<>>, n, wrote[p])
        BY <2>1, <3>2 DEF DataOK, DataInv, ChunksInv
    <3>4. m = n /\ n = wrote[p]
        BY <3>2, <3>3, ChunksEmpty
    <3> QED
        BY <3>3, <3>4
  <2> QED
      BY <2>1 DEF DataOK, DataInv
<1>2. Spec => []DataOK
    BY InvAlways, DataInit, DataStep, PTL DEF Spec
<1> QED
    BY <1>1, <1>2, InvAlways, PTL

(***************************************************************************)
(* The promises of ChildProcess are kept, one step of a thread at a time.  *)
(***************************************************************************)

(* What the client sees has not changed. *)
Unseen == UNCHANGED <<Answered, ~opt.detach, Left, LastEnd, KillAsked, deadline>>
Step == [Contract!Next]_Contract!vars

LEMMA UnseenStep == Unseen => Step
    BY DEF Unseen, Step, Contract!vars

LEMMA GoesOn ==
    ASSUME UNCHANGED <<opt, state, hProcess, fate, deadline, KillAsked>>,
           call'.op = "Execute" <=> call.op = "Execute"
    PROVE  Step
<1>1. Unseen
    BY DEF Unseen, Answered, Left, LastEnd
<1> QED
    BY <1>1, UnseenStep

(* A command that is terminated, and whose handle is closed, has been waited for. *)
LEMMA ReapSeen ==
    ASSUME Inv, NEW c \in Cmds, Terminate(c), opt' = opt,
           UNCHANGED <<Answered, KillAsked, deadline>>,
           Answered \in {"creating", "Executing"}
    PROVE  Step
<1> USE DEF Cmds
<1>1. CASE opt.detach \/ hProcess[c] # "open"
  <2>1. Left' = Left
      BY <1>1 DEF Left, Terminate, Inv, ProcessTypeOK
  <2>2. LastEnd' = LastEnd
    <3>1. hProcess[c] # "open" => ~Living(c)
        BY DEF Inv, ProcessTypeOK, ProcessesInv, ProcessInv, Living
    <3> QED
        BY <1>1, <3>1 DEF LastEnd, Terminate
  <2> QED
      BY <2>1, <2>2, UnseenStep DEF Unseen
<1>2. CASE ~opt.detach /\ hProcess[c] = "open"
  <2>1. c \in Left /\ Left' = Left \ {c}
      BY <1>2 DEF Left, Terminate, Inv, ProcessTypeOK
  <2>2. IF Living(c) THEN fate[c] = "none" /\ fate' = [fate EXCEPT ![c] = "sigkill"]
        ELSE fate[c] # "none" /\ fate' = fate
    <3>1. child[c] # "none"
        BY <1>2 DEF Inv, ProcessesInv, ProcessInv
    <3>2. fate[c] = "none" <=> Living(c)
        BY <3>1 DEF Inv, ProcessesInv, ProcessInv, Living
    <3> QED
        BY <3>2 DEF Terminate
  <2>3. LastEnd' = IF c = NumCommands /\ LastEnd = "none" THEN "sigkill" ELSE LastEnd
      BY <1>2, <2>2, CommandsAssumption DEF LastEnd, Inv, ProcessTypeOK
  <2>4. Contract!Reap
      BY <1>2, <2>1, <2>3 DEF Contract!Reap, Contract!Pending
  <2> QED
      BY <2>4 DEF Step, Contract!Next
<1> QED
    BY <1>1, <1>2

(* Only Execute creates. *)
LEMMA Answers ==
    ASSUME Inv
    PROVE  /\ pc \in CreatePcs => Answered = "creating" /\ ~KillAsked
           /\ pc \notin CreatePcs => Answered = state
           /\ state = "Executing" => Answered = "Executing"
    BY DEF Inv, CallInv, FlagsInv, Answered, KillAsked, NoCall, CreatePcs

(* The end of the last child is seen while an attached execution lasts. *)
LEMMA WorldSeen ==
    ASSUME Inv, World
    PROVE  Step
<1> USE DEF object, pipes, main, tokens
<1>1. ASSUME NEW c \in Cmds, ChildEnds(c) PROVE Step
  <2>1. UNCHANGED <<Answered, ~opt.detach, Left, KillAsked, deadline>>
      BY <1>1 DEF ChildEnds, Answered, Left, KillAsked
  <2>2. PICK how \in {"exit", "signal"} : fate' = [fate EXCEPT ![c] = how]
      BY <1>1 DEF ChildEnds
  <2>3. CASE opt.detach \/ c # NumCommands
    <3>1. LastEnd' = LastEnd
        BY <1>1, <2>2, <2>3, CommandsAssumption
           DEF LastEnd, ChildEnds, Inv, ProcessTypeOK, Cmds
    <3> QED
        BY <2>1, <3>1, UnseenStep DEF Unseen
  <2>4. CASE ~opt.detach /\ c = NumCommands
    <3>1. /\ child[c] = "running" /\ fate[c] = "none" /\ hProcess[c] = "open" /\ ~Opened
          /\ pc # "pipes"
        BY <1>1 DEF ChildEnds, Inv, ProcessTypeOK, ProcessesInv, ProcessInv, Living
    <3>2. state = "Executing"
        BY <2>4, <3>1 DEF Inv, TypeOK, ProcessesInv, ProcessInv, CallInv
    <3>3. Answered = "Executing"
        BY <3>2, Answers
    <3>4. LastEnd = "none" /\ LastEnd' = how
        BY <1>1, <2>2, <2>4, <3>1 DEF LastEnd, ChildEnds, Inv, ProcessTypeOK
    <3>5. Left # {}
        BY <2>4, <3>1 DEF Left
    <3>6. Contract!End
        BY <2>1, <3>3, <3>4, <3>5 DEF Contract!End, Contract!Pending
    <3> QED
        BY <3>6 DEF Step, Contract!Next
  <2> QED
      BY <2>3, <2>4
<1>2. ASSUME NEW p \in PipeNames, ChildWrites(p) PROVE Step
    BY <1>2, GoesOn DEF ChildWrites, KillAsked
<1>3. CASE GrandchildEnds
    BY <1>3, GoesOn DEF GrandchildEnds, KillAsked
<1>4. CASE DeadlinePasses
  <2>1. UNCHANGED <<Answered, ~opt.detach, Left, LastEnd, KillAsked>>
      BY <1>4 DEF DeadlinePasses, Answered, Left, LastEnd, KillAsked
  <2>2. Answered = "Executing"
      BY <1>4, Answers DEF DeadlinePasses
  <2>3. Contract!TimePasses
      BY <1>4, <2>1, <2>2 DEF DeadlinePasses, Contract!TimePasses
  <2> QED
      BY <2>3 DEF Step, Contract!Next
<1>5. CASE UserTimePasses
  <2>1. call'.op = call.op /\ call'.after = call.after
      BY <1>5 DEF UserTimePasses, Inv, TypeOK, Calls
  <2> QED
      BY <1>5, <2>1, GoesOn DEF UserTimePasses, world, KillAsked
<1> QED
    BY <1>1, <1>2, <1>3, <1>4, <1>5 DEF World

LEMMA PipeThreadsSeen ==
    ASSUME NEW p \in PipeNames, ReaderThread(p) \/ WakerThread(p)
    PROVE  Step
    BY GoesOn DEF ReaderThread, WakerThread, ReaderGo, ReaderReads, ReaderReports,
       WakerGo, WakerWrites, object, main, world, KillAsked

LEMMA ExecutingSeen ==
    ASSUME Inv, Inv', Executing
    PROVE  Step
<1> USE DEF object, pipes, main, world, tokens, Goto, Return
<1>1. CASE OpenPipes
    BY <1>1, GoesOn DEF OpenPipes, KillAsked
<1>2. CASE Create
  <2>1. /\ pc = "create" /\ idx \in Cmds /\ hProcess[idx] = "none"
        /\ Answered = "creating"
      BY <1>2, Answers
         DEF Create, Inv, CallInv, ProcessesInv, ProcessInv, CreatePcs, TypeOK, Cmds
  <2>2. UNCHANGED <<Answered, ~opt.detach, LastEnd, KillAsked, deadline>>
      BY <1>2 DEF Create, Answered, LastEnd, KillAsked
  <2>3. CASE opt.detach \/ hProcess' = hProcess
    <3>1. Left' = Left
        BY <1>2, <2>3 DEF Left, Create
    <3> QED
        BY <2>2, <3>1, UnseenStep DEF Unseen
  <2>4. CASE ~opt.detach /\ hProcess' = [hProcess EXCEPT ![idx] = "open"]
    <3>1. idx \in Cmds \ Left /\ Left' = Left \cup {idx}
        BY <1>2, <2>1, <2>4 DEF Left, Create, Inv, ProcessTypeOK
    <3>2. LastEnd = "none"
      <4>1. NumCommands \in Cmds
          BY CommandsAssumption DEF Cmds
      <4>2. \A c \in Cmds : fate[c] = "none"
          BY <2>1 DEF Inv, ProcessTypeOK, ProcessesInv, ProcessInv, Opened
      <4> QED
          BY <2>4, <4>1, <4>2 DEF LastEnd
    <3>3. Contract!Start
        BY <2>1, <2>2, <2>4, <3>1, <3>2 DEF Contract!Start
    <3> QED
        BY <3>3 DEF Step, Contract!Next
  <2> QED
      BY <1>2, <2>3, <2>4 DEF Create
<1>3. CASE Resume
  <2>1. /\ pc = "start" /\ state' = "Executing" /\ call' = NoCall
        /\ UNCHANGED <<opt, flags, hProcess, fate, deadline>>
      BY <1>3 DEF Resume
  <2>2. Answered = "creating" /\ Answered' = "Executing" /\ ~KillAsked
      BY <2>1, Answers DEF CreatePcs, Answered, NoCall
  <2>3. UNCHANGED <<~opt.detach, Left, LastEnd, deadline>> /\ KillAsked' = KillAsked
      BY <2>1, <2>2 DEF Left, LastEnd, KillAsked, Inv, FlagsInv, CreatePcs
  <2>4. ~opt.detach => Left = Cmds /\ LastEnd # "exit1"
    <3>1. \A c \in Cmds : hProcess[c] = "open" /\ fate[c] # "exit1"
        BY <2>1 DEF Inv, ProcessTypeOK, ProcessesInv, ProcessInv
    <3> QED
        BY <3>1, CommandsAssumption DEF Left, LastEnd, Cmds
  <2>5. Contract!Started
      BY <2>2, <2>3, <2>4 DEF Contract!Started
  <2> QED
      BY <2>5 DEF Step, Contract!Next
<1>4. CASE CleanupError
  <2>1. /\ pc = "cleanup" /\ Answered = "creating" /\ ~KillAsked
        /\ flags = {} /\ flags' = flags /\ opt' = opt /\ deadline' = deadline
      BY <1>4, Answers DEF CleanupError, Inv, FlagsInv, CreatePcs
  <2>2. CASE idx <= NumCommands
    <3>1. idx \in Cmds /\ Terminate(idx)
        BY <1>4, <2>2 DEF CleanupError, Inv, CallInv, Cmds
    <3>2. UNCHANGED <<Answered, KillAsked>>
        BY <1>4, <2>2 DEF CleanupError, Answered, KillAsked
    <3> QED
        BY <2>1, <3>1, <3>2, ReapSeen
  <2>3. CASE ~(idx <= NumCommands)
    <3>1. /\ state' = "Error" /\ call' = NoCall
          /\ UNCHANGED <<hProcess, fate>> /\ \A c \in Cmds : c < idx
        BY <1>4, <2>3, CommandsAssumption DEF CleanupError, Inv, TypeOK, Cmds
    <3>2. Answered' = "Error"
        BY <3>1 DEF Answered, NoCall
    <3>3. UNCHANGED <<~opt.detach, Left, LastEnd, KillAsked, deadline>>
        BY <2>1, <3>1 DEF Left, LastEnd, KillAsked
    <3>4. Left = {}
        BY <2>1, <3>1 DEF Left, Inv, ProcessesInv, ProcessInv
    <3>5. Contract!Fail
        BY <2>1, <3>2, <3>3, <3>4 DEF Contract!Fail
    <3> QED
        BY <3>5 DEF Step, Contract!Next
  <2> QED
      BY <2>2, <2>3
<1> QED
    BY <1>1, <1>2, <1>3, <1>4 DEF Executing

LEMMA WaitingSeen ==
    ASSUME Inv, Inv', Waiting
    PROVE  Step
<1> USE DEF object, pipes, main, world, tokens, Goto, Return
<1>1. /\ state = "Executing" /\ Answered = "Executing" /\ "Killed" \notin flags
      /\ call.op # "Execute" /\ pc \in WaitPcs
  <2>1. pc \in WaitPcs
      BY DEF Waiting, Top, SelectPipe, SelectTimesOut, Destroy, WaitPcs
  <2> QED
      BY <2>1, Answers DEF Inv, CallInv, Waitable
<1>2. CASE Top \/ SelectPipe \/ SelectTimesOut
  <2>1. UNCHANGED <<opt, state, flags, hProcess, fate, deadline>>
      BY <1>2 DEF Top, SelectPipe, SelectTimesOut
  <2>2. KillAsked' = KillAsked
      BY <1>1, <2>1 DEF KillAsked
  <2>3. call'.op # "Execute"
    <3>1. CASE Top \/ SelectTimesOut
        BY <1>1, <3>1 DEF Top, SelectTimesOut, Expire, NoCall, Inv, TypeOK, Calls
    <3>2. CASE SelectPipe
      <4>1. call' = call \/ call' = NoCall \/ Drained(call.op)
          BY <3>2 DEF SelectPipe
      <4> QED
          BY <1>1, <4>1 DEF Drained, NoCall
    <3> QED
        BY <1>2, <3>1, <3>2
  <2> QED
      BY <1>1, <2>1, <2>2, <2>3, GoesOn
<1>3. CASE Destroy
  <2>1. PICK c \in Noticed : hProcess' = [hProcess EXCEPT ![c] = "closed"]
      BY <1>3 DEF Destroy
  <2>2. /\ c \in Cmds /\ child[c] = "ended"
        /\ fate[c] # "none"
      BY DEF Noticed, Inv, ProcessTypeOK, ProcessesInv, ProcessInv
  <2>3. UNCHANGED <<Answered, ~opt.detach, LastEnd, KillAsked, deadline>>
      BY <1>1, <1>3 DEF Destroy, Answered, LastEnd, KillAsked
  <2>4. CASE c \notin Left
    <3>1. Left' = Left
        BY <1>3, <2>1, <2>2, <2>4 DEF Left, Destroy, Inv, ProcessTypeOK
    <3> QED
        BY <2>3, <3>1, UnseenStep DEF Unseen
  <2>5. CASE c \in Left
    <3>1. Left' = Left \ {c}
        BY <1>3, <2>1, <2>2 DEF Left, Destroy, Inv, ProcessTypeOK
    <3>2. ~(c = NumCommands /\ LastEnd = "none")
        BY <2>2, <2>5 DEF LastEnd, Left
    <3>3. Contract!Reap
        BY <1>1, <2>3, <2>5, <3>1, <3>2 DEF Contract!Reap, Contract!Pending
    <3> QED
        BY <3>3 DEF Step, Contract!Next
  <2> QED
      BY <2>4, <2>5
<1> QED
    BY <1>2, <1>3 DEF Waiting

LEMMA EndingSeen ==
    ASSUME Inv, Inv', Ending
    PROVE  Step
<1> USE DEF object, pipes, main, world, tokens, Goto, Return
<1>1. CASE Disable \/ AwaitReader \/ Release \/ AwaitReset
    BY <1>1, GoesOn DEF Disable, AwaitReader, Release, AwaitReset, KillAsked
<1>2. CASE Disabled
  <2>1. /\ pc = "await" /\ state = "Executing" /\ Answered = "Executing"
        /\ call.op # "Execute" /\ call.after # "none" /\ "Killed" \notin flags
        /\ UNCHANGED <<opt, state, hProcess, fate, deadline>>
      BY <1>2, Answers
         DEF Disabled, Inv, CallInv, FlagsInv, OtherPcs, CreatePcs, KilledFlags
  <2>2. call'.op # "Execute"
      BY <1>2, <2>1 DEF Disabled, Drained, NoCall
  <2>3. CASE "Killed" \notin flags'
      BY <2>1, <2>2, <2>3, GoesOn DEF KillAsked
  <2>4. CASE "Killed" \in flags'
    <3>1. call' = call /\ call.after # "disown"
        BY <1>2, <2>1, <2>4 DEF Disabled, TimedOut
    <3>2. CASE call.after = "timeout"
      <4>1. KillAsked' = KillAsked
          BY <3>1, <3>2 DEF KillAsked
      <4> QED
          BY <2>1, <2>2, <4>1, GoesOn
    <3>3. CASE call.after # "timeout"
      <4>1. KillAsked' = TRUE /\ Answered' = "Executing"
          BY <2>1, <2>2, <2>4, <3>1, <3>3 DEF KillAsked, Answered
      <4>2. UNCHANGED <<~opt.detach, Left, LastEnd, deadline>>
          BY <2>1 DEF Left, LastEnd
      <4>3. Contract!AskKill
          BY <2>1, <4>1, <4>2 DEF Contract!AskKill
      <4> QED
          BY <4>3 DEF Step, Contract!Next
    <3> QED
        BY <3>2, <3>3
  <2> QED
      BY <2>3, <2>4
<1>3. CASE KillChild
  <2>1. /\ pc = "kill" /\ idx \in Cmds /\ flags = {"Killed"}
        /\ state = "Executing" /\ Answered = "Executing"
        /\ call.op # "Execute" /\ call.after \notin {"none", "disown"}
      BY <1>3, Answers DEF KillChild, Inv, CallInv, FlagsInv, OtherPcs, CreatePcs
  <2>2. call'.op # "Execute"
      BY <1>3, <2>1 DEF KillChild, Drained, NoCall
  <2>3. KillAsked' = KillAsked
    <3>1. CASE idx < NumCommands
        BY <1>3, <3>1 DEF KillChild, KillAsked
    <3>2. CASE ~(idx < NumCommands) /\ call.after = "timeout"
        BY <1>3, <3>2 DEF KillChild, KillAsked, TimedOut
    <3>3. CASE ~(idx < NumCommands) /\ call.after # "timeout"
        BY <1>3, <2>1, <3>3 DEF KillChild, KillAsked, NoCall
    <3> QED
        BY <3>1, <3>2, <3>3
  <2>4. Terminate(idx) /\ UNCHANGED <<opt, state, deadline>>
      BY <1>3 DEF KillChild
  <2>5. Answered' = Answered
      BY <2>1, <2>2, <2>4 DEF Answered
  <2> QED
      BY <2>1, <2>3, <2>4, <2>5, ReapSeen
<1>4. CASE Close
  <2>1. /\ pc = "close" /\ pipesLeft = 0 /\ Answered = "Executing"
        /\ call.op # "Execute" /\ call.after \in {"none", "disown"}
        /\ call' \in {call, NoCall}
        /\ UNCHANGED <<opt, flags, hProcess, fate, deadline>>
      BY <1>4, Answers DEF Close, Inv, CallInv, FlagsInv, OtherPcs, CreatePcs
  <2>2. Answered' = state' /\ KillAsked' = KillAsked
      BY <2>1 DEF Answered, KillAsked, NoCall
  <2>3. UNCHANGED <<~opt.detach, Left, LastEnd, deadline>>
      BY <2>1 DEF Left, LastEnd
  <2>4. CASE call.after = "disown"
    <3>1. state' = "Disowned" /\ opt.detach
        BY <1>4, <2>4 DEF Close, Inv, CallInv
    <3>2. Contract!Answer
        BY <2>1, <2>2, <2>3, <3>1 DEF Contract!Answer, Left
    <3> QED
        BY <3>2 DEF Step, Contract!Next
  <2>5. CASE call.after # "disown"
    <3>1. \/ state' = "Killed" /\ "Killed" \in flags
          \/ state' = "Expired" /\ flags \cap KilledFlags = {"TimeoutExpired"}
          \/ /\ flags \cap KilledFlags = {}
             /\ state' = IF exitCode[NumCommands] = "signal" THEN "Exception"
                         ELSE "Exited"
        BY <1>4, <2>5 DEF Close, KilledFlags
    <3>2. Left = {}
      <4>1. ~Opened' /\ state' \notin {"Executing", "Disowned", "deleted"}
          BY <1>4, <3>1 DEF Close, Opened
      <4>2. \A c \in Cmds : hProcess'[c] # "open"
          BY <4>1 DEF Inv, ProcessesInv, ProcessInv
      <4> QED
          BY <2>1, <4>2 DEF Left
    <3>3. "Killed" \in flags => KillAsked
        BY <2>1 DEF KillAsked
    <3>4. /\ "TimeoutExpired" \in flags => deadline
          /\ flags \cap KilledFlags = {"TimeoutExpired"} => ~KillAsked
        BY DEF Inv, FlagsInv, KillAsked, KilledFlags
    <3>5. ASSUME flags \cap KilledFlags = {}, ~opt.detach
          PROVE  LastEnd = exitCode[NumCommands] /\ LastEnd \in {"exit", "signal"}
      <4>1. flags # {} /\ flags \subseteq {"Terminated"}
          BY <1>4, <2>1, <2>5, <3>5
             DEF Close, Inv, TypeOK, FlagsInv, CallInv, OtherPcs, KilledFlags
      <4>2. events = {} /\ NumCommands \in Cmds /\ state = "Executing"
          BY <2>1, <4>1, CommandsAssumption DEF Inv, FlagsInv, CallInv, OtherPcs, Cmds
      <4> QED
          BY <3>5, <4>2 DEF LastEnd, Inv, ProcessesInv, ProcessInv
    <3>6. Contract!Answer
        BY <2>1, <2>2, <2>3, <3>1, <3>2, <3>3, <3>4, <3>5 DEF Contract!Answer
    <3> QED
        BY <3>6 DEF Step, Contract!Next
  <2> QED
      BY <2>4, <2>5
<1>5. CASE JoinThread
  <2>1. /\ pc = "join" /\ call.op = "Delete" /\ call.after \in {"none", "disown"}
        /\ UNCHANGED <<opt, flags, hProcess, fate, deadline>>
      BY <1>5 DEF JoinThread, Inv, CallInv
  <2>2. CASE UNCHANGED <<state, call>>
      BY <2>1, <2>2, GoesOn DEF KillAsked
  <2>3. CASE state' = "deleted" /\ call' = NoCall
    <3>1. Answered = state /\ Answered' = "deleted" /\ KillAsked' = KillAsked
        BY <2>1, <2>3 DEF Answered, KillAsked, NoCall
    <3>2. UNCHANGED <<~opt.detach, Left, LastEnd, deadline>>
        BY <2>1 DEF Left, LastEnd
    <3>3. Left = {}
      <4>1. ~opt.detach => \A c \in Cmds : hProcess'[c] # "open"
          BY <2>1, <2>3 DEF Inv, ProcessesInv, ProcessInv
      <4> QED
          BY <2>1, <4>1 DEF Left
    <3>4. state \notin {"creating", "deleted"}
        BY <2>1 DEF Inv, TypeOK, CallInv
    <3>5. Contract!Free
        BY <3>1, <3>2, <3>3, <3>4 DEF Contract!Free
    <3> QED
        BY <3>5 DEF Step, Contract!Next
  <2> QED
      BY <1>5, <2>2, <2>3 DEF JoinThread
<1> QED
    BY <1>1, <1>2, <1>3, <1>4, <1>5 DEF Ending

LEMMA CallSeen ==
    ASSUME Inv, Call
    PROVE  Step
<1> USE DEF object, pipes, main, world, tokens, Goto, Return
<1>0. /\ pc = "idle" /\ call = NoCall /\ Answered = state
      /\ KillAsked <=> "Killed" \in flags
  <2>1. pc = "idle"
      BY DEF Call, Execute, Kill, Delete, Wait, Disown
  <2> QED
      BY <2>1 DEF Inv, CallInv, NoCall, Answered, KillAsked
<1>1. CASE Execute
  <2>1. /\ state \notin {"Executing", "deleted"} /\ state # "creating"
        /\ flags' = {} /\ deadline' = FALSE /\ opt' = opt
        /\ hProcess' = [c \in Cmds |-> "none"] /\ fate' = [c \in Cmds |-> "none"]
        /\ \/ state' = "Error" /\ call' = NoCall
           \/ call' = [NoCall EXCEPT !.op = "Execute"]
      BY <1>1 DEF Execute, Inv, TypeOK
  <2>2. Answered' \in {"creating", "Error"}
      BY <2>1 DEF Answered, NoCall
  <2>3. Left' = {} /\ LastEnd' = "none" /\ KillAsked' = FALSE
      BY <2>1, CommandsAssumption DEF Left, LastEnd, KillAsked, Cmds
  <2>4. Contract!Begin
      BY <1>0, <2>1, <2>2, <2>3 DEF Contract!Begin, Contract!Pending
  <2> QED
      BY <2>4 DEF Step, Contract!Next
<1>2. CASE Kill
    BY <1>0, <1>2, GoesOn DEF Kill, Waitable, KillAsked, NoCall
<1>3. CASE Delete
    BY <1>0, <1>3, GoesOn DEF Delete, KillAsked, NoCall
<1>4. ASSUME NEW op \in {"WaitForData", "WaitForExit", "Delete"},
             NEW user \in {"none", "zero", "later"}, Wait(op, user)
      PROVE  Step
  <2>1. /\ call'.op # "Execute" /\ call'.after = "none"
        /\ UNCHANGED <<opt, state, flags, hProcess, fate, deadline>>
      BY <1>4 DEF Wait, Drained, NoCall
  <2> QED
      BY <1>0, <2>1, GoesOn DEF KillAsked, NoCall
<1>5. ASSUME NEW op \in {"Disown", "Delete"}, Disown(op) PROVE Step
    BY <1>0, <1>5, GoesOn DEF Disown, KillAsked, NoCall
<1> QED
    BY <1>1, <1>2, <1>3, <1>4, <1>5 DEF Call

(* Every execution comes to one answer, which is true, and an attached one has
   none of its children left by then: what kwsys_Process.h promises its client
   holds on Windows too, in every interleaving of the client's thread, the four
   pipe threads, the children and time. *)
THEOREM ContractKept == Spec => ImplementsContract
<1>1. ASSUME Init PROVE Contract!Init
  <2>1. opt.detach \in BOOLEAN
      BY <1>1, OptionsAssumption DEF Init, AllOptions
  <2>2. Answered = "Starting" /\ KillAsked = FALSE
      BY <1>1 DEF Init, Answered, KillAsked, NoCall
  <2>3. Left = {} /\ LastEnd = "none"
      BY <1>1, CommandsAssumption DEF Init, Left, LastEnd, Cmds
  <2> QED
      BY <1>1, <2>1, <2>2, <2>3 DEF Init, Contract!Init
<1>2. ASSUME Inv, Inv', [Next]_vars PROVE Step
  <2>1. CASE UNCHANGED vars
      BY <2>1, UnseenStep
         DEF vars, object, main, world, Unseen, Answered, Left, LastEnd, KillAsked
  <2> QED
      BY <1>2, <2>1, WorldSeen, PipeThreadsSeen, ExecutingSeen, WaitingSeen,
         EndingSeen, CallSeen DEF Next, Client
<1> QED
    BY <1>1, <1>2, InvAlways, PTL DEF Spec, ImplementsContract, Contract!Spec, Step

(* What the contract means for the client, drawn from it and so kept by this
   implementation: an answered attached execution leaves no child behind, and the
   answer is what happened. *)
THEOREM AnswersAreTrue == Spec => [](Contract!NoChildLeft /\ Contract!AnswerIsTrue)
<1> DEFINE Promise == Contract!NoChildLeft /\ Contract!AnswerIsTrue
<1> USE DEF Contract!NoChildLeft, Contract!AnswerIsTrue, Contract!Pending
<1>1. Contract!Init => Promise
    BY DEF Contract!Init
<1>2. Promise /\ [Contract!Next]_(Contract!vars) => Promise'
  <2> SUFFICES ASSUME Promise, [Contract!Next]_(Contract!vars) PROVE Promise'
      OBVIOUS
  <2>1. CASE Contract!Begin
      BY <2>1 DEF Contract!Begin
  <2>2. CASE Contract!Start \/ Contract!End \/ Contract!Reap
      BY <2>2 DEF Contract!Start, Contract!End, Contract!Reap
  <2>3. CASE Contract!Started \/ Contract!Fail \/ Contract!Free
      BY <2>3 DEF Contract!Started, Contract!Fail, Contract!Free
  <2>4. CASE Contract!AskKill \/ Contract!TimePasses
      BY <2>4 DEF Contract!AskKill, Contract!TimePasses
  <2>5. CASE Contract!Answer
      BY <2>5 DEF Contract!Answer
  <2>6. CASE UNCHANGED Contract!vars
      BY <2>6 DEF Contract!vars
  <2> QED
      BY <2>1, <2>2, <2>3, <2>4, <2>5, <2>6 DEF Contract!Next
<1>3. Contract!Spec => []Promise
    BY <1>1, <1>2, PTL DEF Contract!Spec
<1> QED
    BY <1>3, ContractKept, PTL DEF ImplementsContract

=============================================================================
