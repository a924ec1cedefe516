------------------------ MODULE StdinCommandsProofs ------------------------
(***************************************************************************)
(* Proofs about StdinCommands, for every input, whatever the bounds: the   *)
(* lines typed are interpreted in order, getline does not block, and the   *)
(* command runner reads the output of its own command.                     *)
(***************************************************************************)
EXTENDS StdinCommands, SequenceTheorems, TLAPS

(***************************************************************************)
(* The poller.                                                             *)
(***************************************************************************)

PollerTypeOK ==
    /\ terminal \in BOOLEAN /\ closed \in BOOLEAN /\ good \in BOOLEAN
    /\ beyond \in BOOLEAN
    /\ kernel \in Seq(Commands \cup {Newline})
    /\ buffer \in Seq(Commands \cup {Newline})
    /\ line \in Commands \cup {""}
    /\ pc \in {"startUp", "test", "suspended", "getline", "execute", "job", "done",
               "threw"}
    /\ typed \in Seq(Commands) /\ executed \in Seq(Commands)

(* What has been written and not yet been taken for a line: commands, each with
   its newline, the last one perhaps without.  How it is cut into what the stream
   has read and what it has not does not matter, but a terminal hands over whole
   lines. *)
Held(buf, rest) == buf \o rest
stream == Held(buffer, kernel)
CommandsIn(str) == (Len(str) + 1) \div 2
StreamInv ==
    /\ \A k \in 1 .. Len(stream) :
          IF k % 2 = 0 THEN stream[k] = Newline ELSE stream[k] \in Commands
    /\ terminal => Len(buffer) % 2 = 0 /\ Len(kernel) % 2 = 0

(* As long as the stream is good, the lines typed are those interpreted, the one
   about to be, and those in the stream. *)
taken == Len(executed) + IF pc = "execute" THEN 1 ELSE 0
GoodInv ==
    good => /\ Len(typed) = taken + CommandsIn(stream)
            /\ \A k \in 1 .. Len(executed) : executed[k] = typed[k]
            /\ pc = "execute" => line = typed[taken]
            /\ \A k \in 1 .. CommandsIn(stream) :
                  stream[2 * k - 1] = typed[taken + k]

(* After that nothing comes any more, and `line` keeps what was cut off. *)
EndInv ==
    ~good => /\ closed /\ stream = <<>>
             /\ line = "" => executed = typed
             /\ line # "" =>
                   \/ IsPrefix(typed, executed)
                   \/ /\ pc = "execute" /\ Len(typed) = Len(executed) + 1
                      /\ IsPrefix(executed, typed)
                      /\ line = typed[Len(typed)]

PollerInv == PollerTypeOK /\ StreamInv /\ GoodInv /\ EndInv /\ GetlineNeverBlocks

(* What a user writes. *)
Symbols == Commands \cup {Newline}

(* The symbols of the stream, the buffer's first. *)
LEMMA StreamSeq ==
    ASSUME PollerTypeOK
    PROVE  /\ buffer \in Seq(Symbols) /\ kernel \in Seq(Symbols)
           /\ Len(buffer) \in Nat /\ Len(kernel) \in Nat
           /\ stream \in Seq(Symbols) /\ Len(stream) = Len(buffer) + Len(kernel)
           /\ \A k \in 1 .. Len(stream) :
                 stream[k] = IF k <= Len(buffer) THEN buffer[k]
                             ELSE kernel[k - Len(buffer)]
<1>1. buffer \in Seq(Symbols) /\ kernel \in Seq(Symbols)
    BY DEF PollerTypeOK, Symbols
<1>2. Len(buffer) \in Nat /\ Len(kernel) \in Nat
    BY <1>1, LenProperties
<1> QED
    BY <1>1, <1>2, ConcatProperties DEF stream, Held

(* Half a line has been written iff the number of symbols is odd. *)
LEMMA OpenIsOdd ==
    ASSUME PollerTypeOK, StreamInv
    PROVE  LineOpen <=> Len(stream) % 2 = 1
<1>1. kernel \o buffer # <<>> <=> Len(stream) > 0
  <2>1. /\ kernel \o buffer \in Seq(Symbols)
        /\ Len(kernel \o buffer) = Len(stream) /\ Len(stream) \in Nat
      BY StreamSeq, ConcatProperties
  <2> QED
      BY <2>1, EmptySeq
<1>2. CASE Len(stream) = 0
    BY <1>1, <1>2 DEF LineOpen
<1>3. CASE Len(stream) > 0
  <2>1. Len(stream) \in 1 .. Len(stream)
      BY <1>3, StreamSeq
  <2>2. LineOpen <=> stream[Len(stream)] # Newline
      BY <1>1, <1>3 DEF LineOpen, Last, stream, Held
  <2>3. IF Len(stream) % 2 = 0 THEN stream[Len(stream)] = Newline
                               ELSE stream[Len(stream)] \in Commands
      BY <2>1 DEF StreamInv
  <2>4. Len(stream) % 2 \in {0, 1}
      BY <2>1
  <2> QED
      BY <2>2, <2>3, <2>4, StdinAssumption
<1> QED
    BY <1>2, <1>3, StreamSeq

(* How the stream is cut does not matter. *)
LEMMA HeldTogether ==
    ASSUME NEW S, NEW b \in Seq(S), NEW m \in Seq(S), NEW r \in Seq(S)
    PROVE  Held(Held(b, m), r) = Held(b, Held(m, r))
    BY ConcatAssociative DEF Held

(* The user writes another symbol, or two. *)
LEMMA StreamGrows ==
    ASSUME PollerTypeOK, StreamInv, NEW more \in Seq(Symbols),
           kernel' = kernel \o more, buffer' = buffer
    PROVE  /\ kernel' \in Seq(Symbols)
           /\ Len(kernel') = Len(kernel) + Len(more)
           /\ Len(stream') = Len(stream) + Len(more)
           /\ \A k \in 1 .. Len(stream) : stream'[k] = stream[k]
           /\ \A k \in 1 .. Len(more) : stream'[Len(stream) + k] = more[k]
<1>1. stream' = stream \o more
  <2>1. Held(stream, more) = Held(buffer, Held(kernel, more))
    <3>1. \A b, p, r \in Seq(Symbols) : Held(Held(b, p), r) = Held(b, Held(p, r))
        BY HeldTogether
    <3>2. buffer \in Seq(Symbols) /\ kernel \in Seq(Symbols) /\ more \in Seq(Symbols)
        BY StreamSeq
    <3> QED
        BY ONLY <3>1, <3>2 DEF stream
  <2>2. stream' = Held(buffer, Held(kernel, more))
      BY DEF stream, Held
  <2> QED
      BY <2>1, <2>2 DEF Held
<1>2. Len(more) \in Nat
    BY LenProperties
<1>3. /\ kernel' \in Seq(Symbols)
      /\ Len(kernel') = Len(kernel) + Len(more)
    BY StreamSeq, ConcatProperties
<1>4. /\ Len(stream') = Len(stream) + Len(more)
      /\ \A k \in 1 .. Len(stream) + Len(more) :
            stream'[k] = IF k <= Len(stream) THEN stream[k] ELSE more[k - Len(stream)]
    BY <1>1, StreamSeq, ConcatProperties
<1>5. Len(stream) \in Nat
    BY StreamSeq
<1>6. ASSUME NEW k \in 1 .. Len(stream) PROVE stream'[k] = stream[k]
    BY <1>2, <1>4, <1>5
<1>7. ASSUME NEW k \in 1 .. Len(more) PROVE stream'[Len(stream) + k] = more[k]
  <2>1. /\ Len(stream) + k \in 1 .. Len(stream) + Len(more)
        /\ ~(Len(stream) + k <= Len(stream)) /\ (Len(stream) + k) - Len(stream) = k
      BY <1>2, <1>5
  <2> QED
      BY <1>4, <2>1
<1> QED
    BY <1>3, <1>4, <1>6, <1>7

(* The stream reads from the kernel: what comes first there is moved over. *)
LEMMA MoveKeeps ==
    ASSUME buffer \in Seq(Symbols), kernel \in Seq(Symbols), NEW n \in 0 .. Len(kernel),
           buffer' = buffer \o SubSeq(kernel, 1, n),
           kernel' = SubSeq(kernel, n + 1, Len(kernel))
    PROVE  /\ buffer' \in Seq(Symbols) /\ Len(buffer') = Len(buffer) + n
           /\ kernel' \in Seq(Symbols) /\ Len(kernel') = Len(kernel) - n
           /\ stream' = stream
<1> DEFINE m == SubSeq(kernel, 1, n)
<1>1. Len(kernel) \in Nat /\ \A i \in 1 .. Len(kernel) : kernel[i] \in Symbols
    BY LenProperties, ElementOfSeq
<1>2. m \in Seq(Symbols) /\ Len(m) = n
    BY <1>1, SubSeqProperties
<1>3. kernel' \in Seq(Symbols) /\ Len(kernel') = Len(kernel) - n
    BY <1>1, SubSeqProperties
<1>4. m \o kernel' = kernel
  <2>1. SubSeq(kernel, 1, Len(kernel)) = kernel
      BY SubSeqFull
  <2>2. /\ 1 \in 1 .. Len(kernel) + 1 /\ n \in 1 - 1 .. Len(kernel)
        /\ Len(kernel) \in n .. Len(kernel)
      BY <1>1
  <2> QED
      BY <2>1, <2>2, ConcatAdjacentSubSeq
<1>5. buffer' = buffer \o m
    OBVIOUS
<1> HIDE DEF m
<1>6. Held(Held(buffer, m), kernel') = Held(buffer, Held(m, kernel'))
  <2>1. \A b, p, r \in Seq(Symbols) : Held(Held(b, p), r) = Held(b, Held(p, r))
      BY HeldTogether
  <2>2. buffer \in Seq(Symbols) /\ m \in Seq(Symbols) /\ kernel' \in Seq(Symbols)
      BY <1>2, <1>3
  <2> QED
      BY ONLY <2>1, <2>2
<1>7. buffer' \in Seq(Symbols) /\ Len(buffer') = Len(buffer) + n
    BY <1>2, <1>5, ConcatProperties
<1>8. stream' = stream
  <2>1. Held(m, kernel') = kernel /\ Held(buffer, m) = buffer'
      BY <1>4, <1>5 DEF Held
  <2> QED
      BY <1>6, <2>1 DEF stream
<1> QED
    BY <1>3, <1>7, <1>8

(* The type invariant, in terms of Symbols. *)
LEMMA SymbolsSeq == \A s : s \in Seq(Commands \cup {Newline}) <=> s \in Seq(Symbols)
    BY DEF Symbols

(* A command takes two symbols, or one if its newline has not come yet. *)
LEMMA TwoSymbols ==
    ASSUME NEW s, Len(s) \in Nat
    PROVE  /\ CommandsIn(s) \in Nat
           /\ Len(s) % 2 \in {0, 1}
           /\ Len(s) % 2 = 0 => Len(s) = 2 * CommandsIn(s)
           /\ Len(s) % 2 = 1 => Len(s) = 2 * CommandsIn(s) - 1
    BY DEF CommandsIn

(* The user types a line; what the poller has of it comes last. *)
LEMMA TypeKeeps ==
    ASSUME PollerInv, NEW cmd \in Commands, Type(cmd)
    PROVE  PollerInv'
<1> DEFINE more == IF terminal THEN <<cmd, Newline>> ELSE <<cmd>>
<1>1. /\ PollerTypeOK /\ StreamInv /\ GoodInv /\ EndInv /\ ~closed /\ good
      /\ Len(stream) % 2 = 0 /\ Len(stream) \in Nat
      /\ UNCHANGED <<terminal, closed, beyond, buffer, good, line, pc, executed>>
  <2>1. PollerTypeOK /\ StreamInv /\ GoodInv /\ EndInv /\ Len(stream) \in Nat
      BY StreamSeq DEF PollerInv
  <2>2. ~LineOpen /\ ~closed
      BY DEF Type
  <2>3. Len(stream) % 2 = 0
      BY <2>1, <2>2, OpenIsOdd, TwoSymbols
  <2> QED
      BY <2>1, <2>2, <2>3 DEF Type, EndInv
<1>2. /\ more \in Seq(Symbols) /\ Len(more) = (IF terminal THEN 2 ELSE 1)
      /\ more[1] = cmd /\ (terminal => more[2] = Newline)
  <2>1. CASE terminal
    <3>1. more = <<cmd, Newline>> /\ cmd \in Symbols /\ Newline \in Symbols
        BY <2>1 DEF Symbols
    <3> QED
        BY <2>1, <3>1
  <2>2. CASE ~terminal
    <3>1. more = <<cmd>> /\ cmd \in Symbols
        BY <2>2 DEF Symbols
    <3> QED
        BY <2>2, <3>1
  <2> QED
      BY <2>1, <2>2
<1>3. kernel' = kernel \o more
    BY DEF Type
<1> HIDE DEF more
<1>4. /\ kernel' \in Seq(Symbols)
      /\ Len(kernel') = Len(kernel) + Len(more)
      /\ Len(stream') = Len(stream) + Len(more)
      /\ \A k \in 1 .. Len(stream) : stream'[k] = stream[k]
      /\ \A k \in 1 .. Len(more) : stream'[Len(stream) + k] = more[k]
    BY <1>1, <1>2, <1>3, StreamGrows
<1>5. /\ typed \in Seq(Commands) /\ typed' \in Seq(Commands) /\ Len(typed) \in Nat
      /\ Len(typed') = Len(typed) + 1 /\ typed'[Len(typed) + 1] = cmd
      /\ \A k \in 1 .. Len(typed) : typed'[k] = typed[k]
  <2>1. typed \in Seq(Commands) /\ typed' = Append(typed, cmd)
      BY <1>1 DEF Type, PollerTypeOK
  <2> QED
      BY <2>1, AppendProperties, LenProperties
<1>6. PollerTypeOK'
    BY <1>1, <1>4, <1>5, SymbolsSeq DEF PollerTypeOK
<1>7. StreamInv'
  <2>1. ASSUME NEW k \in 1 .. Len(stream')
        PROVE  IF k % 2 = 0 THEN stream'[k] = Newline ELSE stream'[k] \in Commands
    <3>1. CASE k \in 1 .. Len(stream)
      <4>1. IF k % 2 = 0 THEN stream[k] = Newline ELSE stream[k] \in Commands
          BY <1>1, <3>1 DEF StreamInv
      <4> QED
          BY <1>4, <3>1, <4>1
    <3>2. CASE k = Len(stream) + 1
      <4>1. stream'[k] = cmd
          BY <1>2, <1>4, <3>2
      <4> QED
          BY <1>1, <3>2, <4>1
    <3>3. CASE k = Len(stream) + 2 /\ terminal
      <4>1. stream'[k] = Newline
          BY <1>2, <1>4, <3>3
      <4> QED
          BY <1>1, <3>3, <4>1
    <3>4. Len(stream') = Len(stream) + (IF terminal THEN 2 ELSE 1)
        BY <1>2, <1>4
    <3>5. \/ k \in 1 .. Len(stream) \/ k = Len(stream) + 1
          \/ k = Len(stream) + 2 /\ terminal
      <4>1. Len(stream) \in Nat
          BY <1>1
      <4> QED
          BY <3>4, <4>1
    <3> QED
        BY <3>1, <3>2, <3>3, <3>5
  <2>2. terminal => Len(buffer) % 2 = 0 /\ Len(kernel') % 2 = 0
      BY <1>1, <1>2, <1>4, StreamSeq DEF StreamInv
  <2> QED
      BY <1>1, <2>1, <2>2 DEF StreamInv
<1>8. GoodInv'
  <2> DEFINE m == CommandsIn(stream)
  <2>1. /\ m \in Nat /\ 2 * m = Len(stream) /\ CommandsIn(stream)' = m + 1
    <3>1. m \in Nat /\ 2 * m = Len(stream)
        BY <1>1, TwoSymbols
    <3>2. Len(stream') = Len(stream) + 1 \/ Len(stream') = Len(stream) + 2
        BY <1>2, <1>4
    <3>3. (Len(stream') + 1) \div 2 = m + 1
        BY <3>1, <3>2
    <3> QED
        BY <3>1, <3>3 DEF CommandsIn
  <2>2. /\ taken' = taken /\ taken \in Nat /\ Len(typed) = taken + m
        /\ Len(executed) \in Nat /\ Len(executed) <= taken
        /\ pc = "execute" => taken > 0
    <3>1. Len(executed) \in Nat
        BY <1>1, LenProperties DEF PollerTypeOK
    <3>2. Len(typed) = taken + m
        BY <1>1 DEF GoodInv
    <3> QED
        BY <1>1, <3>1, <3>2 DEF taken
  <2> HIDE DEF m
  <2>3. ASSUME NEW k \in 1 .. m + 1 PROVE stream'[2 * k - 1] = typed'[taken + k]
    <3>1. CASE k = m + 1
      <4>1. 2 * k - 1 = Len(stream) + 1 /\ taken + k = Len(typed) + 1
          BY <1>1, <1>5, <2>1, <2>2, <3>1
      <4>2. stream'[Len(stream) + 1] = cmd
          BY <1>2, <1>4
      <4> QED
          BY <1>5, <4>1, <4>2
    <3>2. CASE k \in 1 .. m
      <4>1. 2 * k - 1 \in 1 .. Len(stream) /\ taken + k \in 1 .. Len(typed)
          BY <2>1, <2>2, <3>2
      <4>2. stream[2 * k - 1] = typed[taken + k]
          BY <1>1, <3>2 DEF GoodInv, m
      <4> QED
          BY <1>4, <1>5, <4>1, <4>2
    <3> QED
        BY <2>1, <3>1, <3>2
  <2>4. Len(typed') = taken' + CommandsIn(stream)'
      BY <1>5, <2>1, <2>2
  <2>5. \A k \in 1 .. Len(executed) : executed[k] = typed'[k]
    <3>1. Len(executed) \in Nat /\ Len(executed) <= Len(typed)
        BY <2>1, <2>2
    <3> QED
        BY <1>1, <1>5, <3>1 DEF GoodInv
  <2>6. pc = "execute" => line = typed'[taken]
    <3>1. pc = "execute" => taken \in 1 .. Len(typed)
        BY <1>5, <2>1, <2>2
    <3> QED
        BY <1>1, <1>5, <3>1 DEF GoodInv
  <2> QED
      BY <1>1, <2>1, <2>2, <2>3, <2>4, <2>5, <2>6 DEF GoodInv
<1>9. kernel' # <<>>
    BY <1>2, <1>4, StreamSeq, <1>1
<1> QED
    BY <1>1, <1>6, <1>7, <1>8, <1>9 DEF PollerInv, EndInv, GetlineNeverBlocks

(* The newline comes, which a terminal has sent with the line. *)
LEMMA EndLineKeeps ==
    ASSUME PollerInv, EndLine
    PROVE  PollerInv'
<1>1. /\ PollerTypeOK /\ StreamInv /\ GoodInv /\ EndInv /\ ~closed /\ good
      /\ Len(stream) % 2 = 1 /\ Len(stream) \in Nat
      /\ UNCHANGED <<terminal, closed, beyond, buffer, good, line, pc, typed, executed>>
  <2>1. PollerTypeOK /\ StreamInv /\ GoodInv /\ EndInv /\ Len(stream) \in Nat
      BY StreamSeq DEF PollerInv
  <2>2. LineOpen /\ ~closed
      BY DEF EndLine
  <2>3. Len(stream) % 2 = 1
      BY <2>1, <2>2, OpenIsOdd
  <2> QED
      BY <2>1, <2>2, <2>3 DEF EndLine, user, EndInv
<1>2. /\ <<Newline>> \in Seq(Symbols) /\ Len(<<Newline>>) = 1
      /\ <<Newline>>[1] = Newline
    BY DEF Symbols
<1>3. kernel' = kernel \o <<Newline>>
    BY <1>1, AppendIsConcat, StreamSeq DEF EndLine, Symbols
<1>4. /\ kernel' \in Seq(Symbols)
      /\ Len(kernel') = Len(kernel) + 1
      /\ Len(stream') = Len(stream) + 1
      /\ \A k \in 1 .. Len(stream) : stream'[k] = stream[k]
      /\ stream'[Len(stream) + 1] = Newline
  <2>1. /\ kernel' \in Seq(Symbols)
        /\ Len(kernel') = Len(kernel) + Len(<<Newline>>)
        /\ Len(stream') = Len(stream) + Len(<<Newline>>)
        /\ \A k \in 1 .. Len(stream) : stream'[k] = stream[k]
        /\ \A k \in 1 .. Len(<<Newline>>) :
              stream'[Len(stream) + k] = <<Newline>>[k]
      BY <1>1, <1>2, <1>3, StreamGrows
  <2> QED
      BY <1>2, <2>1
<1>5. ~terminal
    BY <1>1, StreamSeq DEF StreamInv
<1>6. PollerTypeOK'
    BY <1>1, <1>4, SymbolsSeq DEF PollerTypeOK
<1>7. StreamInv'
  <2>1. ASSUME NEW k \in 1 .. Len(stream')
        PROVE  IF k % 2 = 0 THEN stream'[k] = Newline ELSE stream'[k] \in Commands
    <3>1. CASE k \in 1 .. Len(stream)
      <4>1. IF k % 2 = 0 THEN stream[k] = Newline ELSE stream[k] \in Commands
          BY <1>1, <3>1 DEF StreamInv
      <4> QED
          BY <1>4, <3>1, <4>1
    <3>2. CASE k = Len(stream) + 1
        BY <1>1, <1>4, <3>2
    <3> QED
        BY <1>1, <1>4, <3>1, <3>2
  <2> QED
      BY <1>1, <1>5, <2>1 DEF StreamInv
<1>8. GoodInv'
  <2>1. CommandsIn(stream)' = CommandsIn(stream)
      BY <1>1, <1>4 DEF CommandsIn
  <2>2. \A k \in 1 .. CommandsIn(stream) : 2 * k - 1 \in 1 .. Len(stream)
      BY <1>1, TwoSymbols
  <2>3. taken' = taken
      BY <1>1 DEF taken
  <2> QED
      BY <1>1, <1>4, <2>1, <2>2, <2>3 DEF GoodInv
<1>9. kernel' # <<>>
    BY <1>1, <1>4, StreamSeq
<1> QED
    BY <1>1, <1>6, <1>7, <1>8, <1>9 DEF PollerInv, EndInv, GetlineNeverBlocks

(* The first newline of a stream comes second. *)
LEMMA FirstNewline ==
    ASSUME NEW s, Len(s) \in Nat, s[1] # Newline, s[2] = Newline,
           Contains(s, Newline)
    PROVE  SelectInSeq(s, LAMBDA c : c = Newline) = 2 /\ Len(s) >= 2
<1> DEFINE I == {i \in 1 .. Len(s) : s[i] = Newline}
<1>1. 2 \in I /\ \A i \in I : 2 <= i
    BY DEF Contains
<1>2. ASSUME NEW x \in I, \A i \in I : x <= i PROVE x = 2
    BY <1>1, <1>2
<1>3. Min(I) = 2
    BY <1>1, <1>2 DEF Min
<1> QED
    BY <1>1, <1>3 DEF SelectInSeq

(* Where a symbol stands in the buffer. *)
LEMMA BufferInv ==
    ASSUME PollerTypeOK, StreamInv
    PROVE  /\ Contains(buffer, Newline) <=> Len(buffer) >= 2
           /\ Len(buffer) >= 2 =>
                 /\ SelectInSeq(buffer, LAMBDA c : c = Newline) = 2
                 /\ buffer[1] = stream[1] /\ stream[1] \in Commands
<1>1. \A k \in 1 .. Len(buffer) :
          IF k % 2 = 0 THEN buffer[k] = Newline ELSE buffer[k] \in Commands
    BY StreamSeq DEF StreamInv
<1>2. CASE Len(buffer) >= 2
  <2>1. 1 \in 1 .. Len(buffer) /\ 2 \in 1 .. Len(buffer)
      BY <1>2, StreamSeq
  <2>2. buffer[2] = Newline /\ buffer[1] \in Commands /\ buffer[1] = stream[1]
      BY <1>1, <2>1, StreamSeq
  <2> QED
      BY <1>2, <2>1, <2>2, FirstNewline, StreamSeq, StdinAssumption DEF Contains
<1>3. CASE ~(Len(buffer) >= 2)
  <2>1. \A k \in 1 .. Len(buffer) : k = 1
      BY <1>3, StreamSeq
  <2> QED
      BY <1>1, <1>3, <2>1, StdinAssumption DEF Contains
<1> QED
    BY <1>2, <1>3

(* getline reads on: from a terminal a whole line, from a pipe all there is. *)
LEMMA FillKeeps ==
    ASSUME PollerInv, Fill
    PROVE  PollerInv'
<1> DEFINE n == IF terminal THEN SelectInSeq(kernel, LAMBDA c : c = Newline)
                            ELSE Len(kernel)
<1>1. /\ PollerTypeOK /\ StreamInv /\ GoodInv /\ EndInv /\ good
      /\ Len(kernel) \in Nat /\ Len(buffer) \in Nat /\ Len(kernel) > 0
      /\ UNCHANGED <<terminal, closed, beyond, good, line, pc, typed, executed>>
  <2>1. PollerTypeOK /\ StreamInv /\ GoodInv /\ EndInv
      BY DEF PollerInv
  <2>2. kernel # <<>> /\ kernel \in Seq(Symbols) /\ Len(kernel) \in Nat
      BY <2>1, StreamSeq DEF Fill
  <2>3. Len(kernel) > 0
      BY <2>2, EmptySeq
  <2> QED
      BY <2>1, <2>2, <2>3, StreamSeq DEF Fill, user
<1>2. terminal => n = 2 /\ Len(kernel) >= 2
  <2> SUFFICES ASSUME terminal PROVE n = 2 /\ Len(kernel) >= 2
      OBVIOUS
  <2>1. Len(buffer) % 2 = 0 /\ Len(kernel) >= 2
      BY <1>1 DEF StreamInv
  <2>2. \A k \in 1 .. Len(kernel) : kernel[k] = stream[Len(buffer) + k]
    <3>1. SUFFICES ASSUME NEW k \in 1 .. Len(kernel)
                   PROVE  kernel[k] = stream[Len(buffer) + k]
        OBVIOUS
    <3>2. /\ Len(buffer) + k \in 1 .. Len(stream) /\ ~(Len(buffer) + k <= Len(buffer))
          /\ (Len(buffer) + k) - Len(buffer) = k
        BY <1>1, StreamSeq
    <3> QED
        BY <1>1, <3>2, StreamSeq
  <2>3. kernel[1] \in Commands /\ kernel[2] = Newline
    <3>1. /\ Len(buffer) + 1 \in 1 .. Len(stream) /\ (Len(buffer) + 1) % 2 = 1
          /\ Len(buffer) + 2 \in 1 .. Len(stream) /\ (Len(buffer) + 2) % 2 = 0
      <4>1. Len(stream) = Len(buffer) + Len(kernel)
          BY <1>1, StreamSeq
      <4> QED
          BY <1>1, <2>1, <4>1
    <3>2. stream[Len(buffer) + 1] \in Commands /\ stream[Len(buffer) + 2] = Newline
        BY <1>1, <3>1 DEF StreamInv
    <3> QED
        BY <1>1, <2>1, <2>2, <3>2
  <2>4. Contains(kernel, Newline)
      BY <1>1, <2>1, <2>3 DEF Contains
  <2> QED
      BY <1>1, <2>1, <2>3, <2>4, FirstNewline, StdinAssumption
<1>3. n \in 1 .. Len(kernel)
    BY <1>1, <1>2
<1>4. /\ buffer' = buffer \o SubSeq(kernel, 1, n)
      /\ kernel' = SubSeq(kernel, n + 1, Len(kernel))
    BY DEF Fill
<1> HIDE DEF n
<1>5. /\ stream' = stream
      /\ buffer' \in Seq(Symbols) /\ kernel' \in Seq(Symbols)
      /\ Len(buffer') = Len(buffer) + n /\ Len(kernel') = Len(kernel) - n
  <2>1. kernel \in Seq(Symbols) /\ buffer \in Seq(Symbols)
      BY <1>1, StreamSeq
  <2>2. n \in 0 .. Len(kernel)
      BY <1>1, <1>3
  <2> QED
      BY <1>4, <2>1, <2>2, MoveKeeps DEF stream
<1>6. PollerTypeOK'
    BY <1>1, <1>5, SymbolsSeq DEF PollerTypeOK
<1>7. StreamInv'
  <2>1. terminal => Len(buffer') % 2 = 0 /\ Len(kernel') % 2 = 0
      BY <1>1, <1>2, <1>5 DEF StreamInv
  <2> QED
      BY <1>1, <1>5, <2>1 DEF StreamInv
<1>8. GoodInv' /\ EndInv'
    BY <1>1, <1>5 DEF GoodInv, EndInv, taken
<1>9. GetlineNeverBlocks'
  <2> SUFFICES ASSUME ~LineOpen' PROVE Contains(buffer', Newline)
      BY DEF GetlineNeverBlocks
  <2>1. LineOpen' = LineOpen
    <3>1. /\ kernel \o buffer \in Seq(Symbols) /\ Len(kernel \o buffer) > 0
          /\ kernel' \o buffer' \in Seq(Symbols) /\ Len(kernel' \o buffer') > 0
      <4>1. Len(kernel \o buffer) = Len(kernel) + Len(buffer)
          BY <1>1, StreamSeq, ConcatProperties
      <4>2. Len(kernel' \o buffer') = Len(kernel') + Len(buffer')
          BY <1>5, ConcatProperties
      <4>3. /\ kernel \o buffer \in Seq(Symbols)
            /\ kernel' \o buffer' \in Seq(Symbols)
          BY <1>1, <1>5, StreamSeq, ConcatProperties
      <4> QED
          BY <1>1, <1>3, <1>5, <4>1, <4>2, <4>3
    <3>2. kernel \o buffer # <<>> /\ kernel' \o buffer' # <<>>
        BY <3>1
    <3> QED
        BY <1>5, <3>2 DEF LineOpen, stream, Held
  <2>2. Len(stream) % 2 = 0 /\ Len(stream) >= 2
    <3>1. Len(stream) % 2 # 1
        BY <1>1, <2>1, OpenIsOdd
    <3>2. Len(stream) \in Nat /\ Len(stream) > 0
        BY <1>1, StreamSeq
    <3> QED
        BY <3>1, <3>2
  <2>3. Len(buffer') >= 2
    <3>1. CASE terminal
        BY <1>1, <1>2, <1>5, <3>1
    <3>2. CASE ~terminal
      <4>1. Len(buffer') = Len(stream)
          BY <1>1, <1>5, <3>2, StreamSeq DEF n
      <4> QED
          BY <2>2, <4>1
    <3> QED
        BY <3>1, <3>2
  <2>4. buffer'[2] = stream[2]
    <3>1. 2 \in 1 .. Len(buffer') + Len(kernel') /\ 2 <= Len(buffer')
        BY <1>1, <1>3, <1>5, <2>3
    <3>2. stream'[2] = buffer'[2]
        BY <1>5, <3>1, ConcatProperties DEF stream, Held
    <3> QED
        BY <1>5, <3>2
  <2>5. stream[2] = Newline
      BY <1>1, <2>2 DEF StreamInv
  <2> QED
      BY <1>1, <1>3, <1>5, <2>3, <2>4, <2>5 DEF Contains
<1> QED
    BY <1>6, <1>7, <1>8, <1>9 DEF PollerInv

(* A line leaves the buffer. *)
LEMMA GetLineKeeps ==
    ASSUME PollerInv, GetLine
    PROVE  PollerInv'
<1> DEFINE n == SelectInSeq(buffer, LAMBDA c : c = Newline)
<1>1. /\ PollerTypeOK /\ StreamInv /\ GoodInv /\ good /\ pc = "getline"
      /\ Len(buffer) \in Nat /\ Len(buffer) >= 2 /\ Len(kernel) \in Nat
      /\ Len(stream) = Len(buffer) + Len(kernel)
      /\ pc' = "execute"
      /\ UNCHANGED <<terminal, closed, beyond, kernel, good, typed, executed>>
  <2>1. PollerTypeOK /\ StreamInv /\ GoodInv
      BY DEF PollerInv
  <2>2. Contains(buffer, Newline)
      BY DEF GetLine
  <2>3. Len(buffer) >= 2
      BY <2>1, <2>2, BufferInv
  <2> QED
      BY <2>1, <2>3, StreamSeq DEF GetLine, user
<1>2. n = 2 /\ buffer[1] = stream[1] /\ stream[1] \in Commands
    BY <1>1, BufferInv
<1>3. line' = stream[1] /\ buffer' = SubSeq(buffer, 3, Len(buffer))
  <2>1. /\ line' = IF n = 1 THEN "" ELSE buffer[n - 1]
        /\ buffer' = SubSeq(buffer, n + 1, Len(buffer))
      BY DEF GetLine
  <2> HIDE DEF n
  <2> QED
      BY <1>2, <2>1
<1>4. /\ buffer' \in Seq(Symbols) /\ Len(buffer') = Len(buffer) - 2
      /\ \A k \in 1 .. Len(buffer) - 2 : buffer'[k] = buffer[k + 2]
  <2>1. buffer \in Seq(Symbols) /\ \A k \in 3 .. Len(buffer) : buffer[k] \in Symbols
      BY <1>1, StreamSeq, ElementOfSeq
  <2>2. /\ SubSeq(buffer, 3, Len(buffer)) \in Seq(Symbols)
        /\ Len(SubSeq(buffer, 3, Len(buffer))) =
              IF 3 <= Len(buffer) THEN Len(buffer) - 3 + 1 ELSE 0
        /\ \A k \in 1 .. Len(buffer) - 3 + 1 :
              SubSeq(buffer, 3, Len(buffer))[k] = buffer[3 + k - 1]
      BY <1>1, <2>1, SubSeqProperties
  <2>3. /\ (IF 3 <= Len(buffer) THEN Len(buffer) - 3 + 1 ELSE 0) = Len(buffer) - 2
        /\ Len(buffer) - 3 + 1 = Len(buffer) - 2
    <3>1. \A m \in Nat :
             m >= 2 => /\ (IF 3 <= m THEN m - 3 + 1 ELSE 0) = m - 2
                       /\ m - 3 + 1 = m - 2
        OBVIOUS
    <3> QED
        BY <1>1, <3>1
  <2>4. /\ buffer' \in Seq(Symbols) /\ Len(buffer') = Len(buffer) - 2
        /\ \A k \in 1 .. Len(buffer) - 2 : buffer'[k] = buffer[3 + k - 1]
      BY <1>3, <2>2, <2>3
  <2>5. ASSUME NEW k \in 1 .. Len(buffer) - 2 PROVE 3 + k - 1 = k + 2
      BY <1>1
  <2> QED
      BY <2>4, <2>5
<1>5. PollerTypeOK'
    BY <1>1, <1>2, <1>3, <1>4, SymbolsSeq DEF PollerTypeOK
<1>6. /\ Len(stream') = Len(stream) - 2 /\ Len(stream') \in Nat
      /\ \A k \in 1 .. Len(stream') : stream'[k] = stream[k + 2]
  <2>1. /\ Len(stream') = Len(buffer') + Len(kernel)
        /\ \A k \in 1 .. Len(buffer') + Len(kernel) :
              stream'[k] = IF k <= Len(buffer') THEN buffer'[k]
                           ELSE kernel[k - Len(buffer')]
    <3>1. stream' = buffer' \o kernel /\ kernel \in Seq(Symbols)
        BY <1>1, StreamSeq DEF stream, Held
    <3> QED
        BY <1>4, <3>1, ConcatProperties
  <2>2. ASSUME NEW k \in 1 .. Len(stream') PROVE stream'[k] = stream[k + 2]
    <3>1. /\ k + 2 \in 1 .. Len(stream)
          /\ k + 2 <= Len(buffer) <=> k <= Len(buffer')
          /\ k - Len(buffer') = (k + 2) - Len(buffer)
          /\ k <= Len(buffer') => k \in 1 .. Len(buffer) - 2
        BY <1>1, <1>4, <2>1
    <3>2. stream[k + 2] = IF k + 2 <= Len(buffer) THEN buffer[k + 2]
                          ELSE kernel[(k + 2) - Len(buffer)]
        BY <1>1, <3>1, StreamSeq
    <3> QED
        BY <1>4, <2>1, <3>1, <3>2
  <2> QED
      BY <1>1, <1>4, <2>1, <2>2
<1>7. StreamInv'
  <2>1. ASSUME NEW k \in 1 .. Len(stream')
        PROVE  IF k % 2 = 0 THEN stream'[k] = Newline ELSE stream'[k] \in Commands
    <3>1. /\ k + 2 \in 1 .. Len(stream) /\ (k + 2) % 2 = k % 2
        BY <1>1, <1>6
    <3>2. IF (k + 2) % 2 = 0 THEN stream[k + 2] = Newline
                             ELSE stream[k + 2] \in Commands
        BY <1>1, <3>1 DEF StreamInv
    <3> QED
        BY <1>6, <3>1, <3>2
  <2>2. terminal => Len(buffer') % 2 = 0 /\ Len(kernel) % 2 = 0
      BY <1>1, <1>4 DEF StreamInv
  <2> QED
      BY <1>1, <2>1, <2>2 DEF StreamInv
<1>8. GoodInv'
  <2>1. /\ CommandsIn(stream') = CommandsIn(stream) - 1
        /\ CommandsIn(stream) \in Nat /\ CommandsIn(stream) >= 1
        /\ 2 * CommandsIn(stream) - 1 <= Len(stream)
    <3>1. (Len(stream) - 2 + 1) \div 2 = (Len(stream) + 1) \div 2 - 1
        BY <1>1
    <3>2. /\ (Len(stream) + 1) \div 2 \in Nat /\ (Len(stream) + 1) \div 2 >= 1
          /\ 2 * ((Len(stream) + 1) \div 2) - 1 <= Len(stream)
        BY <1>1
    <3> QED
        BY <1>6, <3>1, <3>2 DEF CommandsIn
  <2>2. taken \in Nat /\ taken' = taken + 1
    <3>1. Len(executed) \in Nat
        BY <1>1, LenProperties DEF PollerTypeOK
    <3> QED
        BY <1>1, <3>1 DEF taken
  <2>3. Len(typed) = taken' + CommandsIn(stream')
      BY <1>1, <2>1, <2>2 DEF GoodInv
  <2>4. line' = typed[taken']
    <3>1. stream[2 * 1 - 1] = typed[taken + 1]
        BY <1>1, <2>1 DEF GoodInv
    <3> QED
        BY <1>3, <2>2, <3>1
  <2>5. ASSUME NEW k \in 1 .. CommandsIn(stream')
        PROVE  stream'[2 * k - 1] = typed[taken' + k]
    <3>1. /\ k + 1 \in 1 .. CommandsIn(stream) /\ 2 * k - 1 \in 1 .. Len(stream')
          /\ (2 * k - 1) + 2 = 2 * (k + 1) - 1
          /\ taken' + k = taken + (k + 1)
        BY <1>1, <1>6, <2>1, <2>2
    <3>2. stream[2 * (k + 1) - 1] = typed[taken + (k + 1)]
        BY <1>1, <3>1 DEF GoodInv
    <3> QED
        BY <1>6, <3>1, <3>2
  <2> QED
      BY <1>1, <2>3, <2>4, <2>5 DEF GoodInv
<1> QED
    BY <1>1, <1>5, <1>7, <1>8 DEF PollerInv, EndInv, GetlineNeverBlocks

(* A prefix, element by element. *)
LEMMA PrefixElements ==
    ASSUME NEW S, NEW s \in Seq(S), NEW t \in Seq(S)
    PROVE  IsPrefix(s, t) <=>
              Len(s) <= Len(t) /\ \A k \in 1 .. Len(s) : s[k] = t[k]
<1>1. /\ Len(s) \in Nat /\ Len(t) \in Nat
      /\ \A k \in 1 .. Len(s) : s[k] \in S
      /\ \A k \in 1 .. Len(t) : t[k] \in S
    BY LenProperties, ElementOfSeq
<1>2. SubSeq(s, 1, Len(s)) = s
    BY SubSeqFull
<1>3. CASE Len(s) <= Len(t)
  <2> DEFINE p == SubSeq(t, 1, Len(s))
  <2>1. \A k \in 1 .. Len(s) : t[k] \in S
      BY <1>1, <1>3
  <2>2. /\ p \in Seq(S)
        /\ Len(p) = IF 1 <= Len(s) THEN Len(s) - 1 + 1 ELSE 0
        /\ \A k \in 1 .. Len(s) - 1 + 1 : p[k] = t[1 + k - 1]
      BY <1>1, <2>1, SubSeqProperties
  <2> HIDE DEF p
  <2>3. /\ Len(p) = Len(s)
        /\ \A k \in 1 .. Len(s) : p[k] = t[k]
      BY <1>1, <2>2
  <2>4. s = p <=> \A k \in 1 .. Len(s) : s[k] = p[k]
      BY <2>2, <2>3, SeqEqual
  <2> QED
      BY <1>2, <1>3, <2>3, <2>4 DEF IsPrefix, p
<1>4. CASE ~(Len(s) <= Len(t))
    BY <1>4 DEF IsPrefix
<1> QED
    BY <1>3, <1>4

(* A step of the poller that takes nothing from the stream and interprets
   nothing. *)
LEMMA PcKeeps ==
    ASSUME PollerInv, UNCHANGED <<terminal, kernel, buffer, good, line, typed, executed>>,
           closed' \in BOOLEAN, closed => closed', beyond' \in BOOLEAN,
           pc' \in {"startUp", "test", "suspended", "getline", "execute", "job",
                    "done", "threw"},
           pc = "execute" => pc' = "execute",
           pc' = "execute" => pc = "execute" \/ ~good,
           GetlineNeverBlocks'
    PROVE  PollerInv'
<1>1. stream' = stream
    BY DEF stream
<1>2. PollerTypeOK'
    BY DEF PollerInv, PollerTypeOK
<1>3. StreamInv'
    BY <1>1 DEF PollerInv, StreamInv
<1>4. GoodInv'
  <2>1. good => taken' = taken /\ (pc' = "execute" <=> pc = "execute")
      BY DEF taken
  <2> QED
      BY <1>1, <2>1 DEF PollerInv, GoodInv
<1>5. EndInv'
    BY <1>1 DEF PollerInv, EndInv
<1> QED
    BY <1>2, <1>3, <1>4, <1>5 DEF PollerInv

(* Where getline does not read, or has nothing to. *)
LEMMA PcSteps ==
    ASSUME PollerInv,
           \/ Close \/ TypeMore
           \/ (Apply \/ Poll \/ Resume \/ GetNothing)
           \/ UNCHANGED <<user, kernel, buffer, good, line, executed>> /\ pc' \in {"test", "threw"} /\ pc # "execute"
           \/ UNCHANGED vars
    PROVE  PollerInv'
<1>1. closed \in BOOLEAN /\ beyond \in BOOLEAN /\ GetlineNeverBlocks
    BY DEF PollerInv, PollerTypeOK
<1>2. pc \in {"startUp", "test", "suspended", "getline", "execute", "job", "done",
              "threw"}
    BY DEF PollerInv, PollerTypeOK
<1>3. CASE Close \/ TypeMore
  <2>1. GetlineNeverBlocks'
      BY <1>1, <1>3 DEF Close, TypeMore, GetlineNeverBlocks, LineOpen
  <2> QED
      BY <1>1, <1>2, <1>3, <2>1, PcKeeps DEF Close, TypeMore
<1>4. CASE Apply \/ Poll \/ Resume \/ GetNothing
  <2>1. GetlineNeverBlocks'
      BY <1>4 DEF Apply, Poll, Resume, GetNothing, GetlineNeverBlocks,
         InputAvailable, user
  <2> QED
      BY <1>1, <1>2, <1>4, <2>1, PcKeeps DEF Apply, Poll, Resume, GetNothing, user
<1>5. CASE UNCHANGED <<user, kernel, buffer, good, line, executed>>
           /\ pc' \in {"test", "threw"} /\ pc # "execute"
  <2>1. GetlineNeverBlocks'
      BY <1>5 DEF GetlineNeverBlocks
  <2> QED
      BY <1>1, <1>2, <1>5, <2>1, PcKeeps DEF user
<1>6. CASE UNCHANGED vars
  <2>1. GetlineNeverBlocks'
      BY <1>1, <1>6 DEF vars, GetlineNeverBlocks, LineOpen
  <2> QED
      BY <1>1, <1>2, <1>6, <2>1, PcKeeps DEF vars
<1> QED
    BY <1>3, <1>4, <1>5, <1>6

(* The end of the input: what is left, if anything, is the last line. *)
LEMMA GetRestKeeps ==
    ASSUME PollerInv, GetRest
    PROVE  PollerInv'
<1>1. /\ PollerTypeOK /\ StreamInv /\ GoodInv /\ good /\ pc = "getline" /\ closed
      /\ kernel = <<>> /\ buffer' = <<>> /\ good' = FALSE /\ pc' = "execute"
      /\ UNCHANGED <<terminal, closed, beyond, kernel, typed, executed>>
    BY DEF GetRest, user, PollerInv
<1>2. /\ Len(kernel) = 0 /\ Len(buffer) \in {0, 1} /\ Len(stream) = Len(buffer)
      /\ buffer \in Seq(Symbols)
  <2>1. ~(Len(buffer) >= 2)
      BY <1>1, BufferInv DEF GetRest
  <2>2. Len(kernel) = 0
      BY <1>1, EmptySeq
  <2>3. /\ Len(buffer) \in Nat /\ Len(stream) = Len(buffer) + Len(kernel)
        /\ buffer \in Seq(Symbols)
      BY <1>1, StreamSeq
  <2> QED
      BY <2>1, <2>2, <2>3
<1>3. buffer = <<>> <=> Len(buffer) = 0
    BY <1>2, EmptySeq
<1>4. Len(typed) = Len(executed) + Len(buffer) /\ Len(executed) \in Nat
  <2>1. CommandsIn(stream) = Len(buffer)
      BY <1>2 DEF CommandsIn
  <2>2. Len(executed) \in Nat
      BY <1>1, LenProperties DEF PollerTypeOK
  <2> QED
      BY <1>1, <2>1, <2>2 DEF GoodInv, taken
<1>5. /\ executed \in Seq(Commands) /\ typed \in Seq(Commands)
      /\ \A k \in 1 .. Len(executed) : executed[k] = typed[k]
    BY <1>1 DEF GoodInv, PollerTypeOK
<1>6. ASSUME Len(buffer) = 0 PROVE line' = "" /\ executed = typed
  <2>1. line' = ""
      BY <1>3, <1>6 DEF GetRest
  <2>2. executed = typed
      BY <1>4, <1>5, <1>6, SeqEqual
  <2> QED
      BY <2>1, <2>2
<1>7. ASSUME Len(buffer) = 1
      PROVE  /\ line' \in Commands /\ line' # "" /\ line' = typed[Len(typed)]
             /\ Len(typed) = Len(executed) + 1 /\ IsPrefix(executed, typed)
  <2>1. line' = buffer[1]
      BY <1>3, <1>7 DEF GetRest
  <2>2. buffer[1] = stream[1] /\ stream[1] \in Commands
      BY <1>1, <1>2, <1>7, StreamSeq DEF StreamInv
  <2>3. line' # ""
      BY <2>1, <2>2, StdinAssumption
  <2>4. stream[1] = typed[Len(typed)]
    <3>1. CommandsIn(stream) = 1 /\ taken = Len(executed)
        BY <1>1, <1>2, <1>7 DEF CommandsIn, taken
    <3>2. stream[2 * 1 - 1] = typed[taken + 1]
        BY <1>1, <3>1 DEF GoodInv
    <3> QED
        BY <1>4, <1>7, <3>1, <3>2
  <2>5. IsPrefix(executed, typed)
      BY <1>4, <1>5, <1>7, PrefixElements
  <2> QED
      BY <1>1, <1>4, <1>7, <2>1, <2>2, <2>3, <2>4, <2>5
<1>8. stream' = <<>> /\ Len(stream') = 0
    BY <1>1, EmptySeq DEF stream, Held
<1>9. PollerTypeOK'
  <2>1. line' \in Commands \cup {""}
      BY <1>2, <1>6, <1>7
  <2> QED
      BY <1>1, <2>1 DEF PollerTypeOK
<1>10. StreamInv'
  <2>1. Len(buffer') % 2 = 0 /\ Len(kernel') % 2 = 0
      BY <1>1, EmptySeq
  <2> QED
      BY <1>8, <2>1 DEF StreamInv
<1>11. EndInv'
    BY <1>1, <1>2, <1>6, <1>7, <1>8 DEF EndInv
<1> QED
    BY <1>1, <1>9, <1>10, <1>11 DEF PollerInv, GoodInv, GetlineNeverBlocks

(* A command too many leaves a prefix a prefix, and the missing one makes the
   sequences the same. *)
LEMMA AppendPrefix ==
    ASSUME NEW S, NEW s \in Seq(S), NEW t \in Seq(S), NEW x \in S,
           \/ IsPrefix(t, s)
           \/ Len(t) = Len(s) + 1 /\ IsPrefix(s, t) /\ x = t[Len(t)]
    PROVE  IsPrefix(t, Append(s, x))
<1> DEFINE r == Append(s, x)
<1>1. /\ r \in Seq(S) /\ Len(r) = Len(s) + 1 /\ r[Len(s) + 1] = x
      /\ \A k \in 1 .. Len(s) : r[k] = s[k]
    BY AppendProperties
<1>2. Len(s) \in Nat /\ Len(t) \in Nat
    BY LenProperties
<1> HIDE DEF r
<1>3. Len(t) <= Len(r) /\ \A k \in 1 .. Len(t) : t[k] = r[k]
  <2>1. CASE IsPrefix(t, s)
    <3>1. Len(t) <= Len(s) /\ \A k \in 1 .. Len(t) : t[k] = s[k]
        BY <2>1, PrefixElements
    <3> QED
        BY <1>1, <1>2, <3>1
  <2>2. CASE Len(t) = Len(s) + 1 /\ IsPrefix(s, t) /\ x = t[Len(t)]
    <3>1. \A k \in 1 .. Len(s) : s[k] = t[k]
        BY <2>2, PrefixElements
    <3> QED
        BY <1>1, <1>2, <2>2, <3>1
  <2> QED
      BY <2>1, <2>2
<1>4. IsPrefix(t, r)
    BY <1>1, <1>3, PrefixElements
<1> QED
    BY <1>4 DEF r

(* The line is interpreted: the next one typed, or, once the stream is no longer
   good, what was cut off, again. *)
LEMMA ExecuteKeeps ==
    ASSUME PollerInv, Execute
    PROVE  PollerInv'
<1>1. /\ PollerTypeOK /\ StreamInv /\ GoodInv /\ EndInv /\ pc = "execute"
      /\ pc' \in {"done", "threw", "job", "test"}
      /\ executed' = IF line = "" THEN executed ELSE Append(executed, line)
      /\ UNCHANGED <<terminal, closed, beyond, typed, kernel, buffer, good, line>>
      /\ stream' = stream
    BY DEF PollerInv, Execute, user, stream
<1>2. /\ executed \in Seq(Commands) /\ Len(executed) \in Nat
      /\ typed \in Seq(Commands) /\ Len(typed) \in Nat
    BY <1>1, LenProperties DEF PollerTypeOK
<1>3. ASSUME line # ""
      PROVE  /\ executed' \in Seq(Commands) /\ Len(executed') = Len(executed) + 1
             /\ executed'[Len(executed) + 1] = line
             /\ \A k \in 1 .. Len(executed) : executed'[k] = executed[k]
  <2>1. line \in Commands /\ executed' = Append(executed, line)
      BY <1>1, <1>3 DEF PollerTypeOK
  <2> QED
      BY <1>2, <2>1, AppendProperties
<1>4. PollerTypeOK'
  <2>1. executed' \in Seq(Commands)
      BY <1>1, <1>2, <1>3
  <2> QED
      BY <1>1, <2>1 DEF PollerTypeOK
<1>5. StreamInv'
    BY <1>1 DEF StreamInv
<1>6. GoodInv'
  <2> SUFFICES ASSUME good PROVE GoodInv'
      BY <1>1 DEF GoodInv
  <2>1. /\ Len(typed) = taken + CommandsIn(stream) /\ taken = Len(executed) + 1
        /\ line = typed[taken] /\ CommandsIn(stream) \in Nat
    <3>1. Len(stream) \in Nat
      <4>1. PollerTypeOK
          BY <1>1
      <4> QED
          BY <4>1, StreamSeq
    <3> QED
        BY <1>1, <3>1, TwoSymbols DEF GoodInv, taken
  <2>2. line # ""
    <3>1. taken \in 1 .. Len(typed)
        BY <1>2, <2>1
    <3>2. line \in Commands
        BY <1>2, <2>1, <3>1, ElementOfSeq
    <3> QED
        BY <3>2, StdinAssumption
  <2>3. taken' = taken
    <3>1. Len(executed') = Len(executed) + 1
        BY <1>3, <2>2
    <3>2. pc' # "execute"
        BY <1>1
    <3> QED
        BY <1>2, <2>1, <3>1, <3>2 DEF taken
  <2>4. \A k \in 1 .. Len(executed') : executed'[k] = typed[k]
    <3>1. \A k \in 1 .. Len(executed) : executed[k] = typed[k]
        BY <1>1 DEF GoodInv
    <3>2. SUFFICES ASSUME NEW k \in 1 .. Len(executed) + 1 PROVE executed'[k] = typed[k]
        BY <1>3, <2>2
    <3>3. k \in 1 .. Len(executed) \/ k = Len(executed) + 1
        BY <1>2
    <3> QED
        BY <1>3, <2>1, <2>2, <3>1, <3>3
  <2> QED
      BY <1>1, <2>1, <2>3, <2>4 DEF GoodInv
<1>7. EndInv'
  <2> SUFFICES ASSUME ~good, line # "" PROVE IsPrefix(typed, executed')
      BY <1>1 DEF EndInv
  <2>1. line \in Commands /\ executed' = Append(executed, line)
      BY <1>1 DEF PollerTypeOK
  <2>2. \/ IsPrefix(typed, executed)
        \/ /\ Len(typed) = Len(executed) + 1 /\ IsPrefix(executed, typed)
           /\ line = typed[Len(typed)]
      BY <1>1 DEF EndInv
  <2> QED
      BY <1>2, <2>1, <2>2, AppendPrefix
<1> QED
    BY <1>1, <1>4, <1>5, <1>6, <1>7 DEF PollerInv, GetlineNeverBlocks

(***************************************************************************)
(* The command runner.                                                     *)
(***************************************************************************)

(* Where the runner still has a file of the current command's. *)
InCall == {"execute", "wait", "disown", "delete", "read"}

RunnerTypeOK ==
    /\ runPc \in {"off", "tempFile", "threw"} \cup InCall
    /\ operation \in Seq(Operations)
    /\ file \in Int
    /\ DOMAIN files \subseteq 0 .. job
    /\ files \in [DOMAIN files -> SUBSET Int]
    /\ DOMAIN detached \subseteq {j \in 1 .. job : operation[j] = "detach"}
    /\ detached \in [DOMAIN detached -> Int]
    /\ stage \in {"none", "redirected", "started"}
    /\ left \subseteq {"child"}
    /\ how \in {"none", "exit", "signal", "exit1", "sigkill"}

(* The process object of the current command, and how far Execute has come. *)
ProcessInv ==
    /\ runPc # "off" => job > 0
    /\ runPc # "off" => (attached <=> operation[job] # "detach")
    /\ runPc = "disown" => ~attached
    /\ runPc \in {"wait", "read", "threw"} => attached
    /\ left # {} =>
          /\ stage = "started" /\ attached
          /\ runPc \in {"execute", "wait", "delete"}
    /\ how # "none" =>
          stage = "started" /\ attached /\ runPc \in InCall \cup {"threw"}
    /\ runPc = "tempFile" => stage = "none"
    /\ runPc \in InCall => file \in {job, FallbackName}
    /\ runPc \in InCall /\ stage # "none" => file \in DOMAIN files

(* A temporary file is that of the current command until that has been read, or
   a detached command's; and nobody else's output is in it. *)
FilesInv ==
    \A f \in DOMAIN files :
        /\ f # FallbackName =>
              /\ files[f] \subseteq {f}
              /\ \/ operation[f] = "detach"
                 \/ f = job /\ runPc \in InCall /\ file = job
        /\ f = FallbackName =>
              \A j \in files[f] :
                  \/ j \in 1 .. job /\ operation[j] = "detach"
                  \/ j = job /\ runPc \in InCall /\ file = FallbackName

(* A detached command keeps the file it was given. *)
DetachedInv ==
    \A j \in DOMAIN detached : detached[j] \in {j, FallbackName, Unlinked}

(* A command that has come to its end has written its output. *)
WrittenInv ==
    runPc \in InCall /\ how = "exit" => file \in DOMAIN files /\ job \in files[file]

RunnerInv == RunnerTypeOK /\ ProcessInv /\ FilesInv /\ DetachedInv /\ WrittenInv

(* No command has been run yet. *)
LEMMA RunnerStart == RunnerInit => RunnerInv
<1> SUFFICES ASSUME RunnerInit PROVE RunnerInv
    OBVIOUS
<1> USE DEF RunnerInit, process, InCall, job, FallbackName, Unlinked
<1>1. RunnerTypeOK
  <2>1. DOMAIN files = {} /\ DOMAIN detached = {} /\ operation \in Seq(Operations)
      OBVIOUS
  <2> QED
      BY <2>1 DEF RunnerTypeOK
<1>2. ProcessInv /\ FilesInv /\ DetachedInv /\ WrittenInv
    BY DEF ProcessInv, FilesInv, DetachedInv, WrittenInv
<1> QED
    BY <1>1, <1>2 DEF RunnerInv

(* The runner within a call, its child, and the detached commands. *)
LEMMA RunnerKeeps ==
    ASSUME RunnerInv, Runner \/ CommandWorld
    PROVE  RunnerInv'
<1> USE DEF process, With, InCall, job, FallbackName, Unlinked
<1>1. CASE GetTempFile
  <2>1. RunnerTypeOK'
      BY <1>1 DEF GetTempFile, RunnerInv, RunnerTypeOK, ProcessInv
  <2>2. ProcessInv'
      BY <1>1 DEF GetTempFile, RunnerInv, RunnerTypeOK, ProcessInv
  <2>3. FilesInv'
      BY <1>1 DEF GetTempFile, RunnerInv, RunnerTypeOK, ProcessInv, FilesInv,
         DetachedInv
  <2>4. DetachedInv' /\ WrittenInv'
      BY <1>1 DEF GetTempFile, RunnerInv, RunnerTypeOK, ProcessInv, FilesInv,
             DetachedInv, WrittenInv
  <2> QED
      BY <2>1, <2>2, <2>3, <2>4 DEF RunnerInv
<1>2. CASE ExecuteProcess
    BY <1>2 DEF ExecuteProcess, Process!Begin, RunnerInv, RunnerTypeOK,
       ProcessInv, FilesInv, DetachedInv, WrittenInv
<1>3. CASE RedirectOutput
  <2>1. RunnerTypeOK'
      BY <1>3 DEF RedirectOutput, RunnerInv, RunnerTypeOK, ProcessInv
  <2>2. ProcessInv'
      BY <1>3 DEF RedirectOutput, RunnerInv, RunnerTypeOK, ProcessInv
  <2>3. FilesInv'
      BY <1>3 DEF RedirectOutput, RunnerInv, RunnerTypeOK, ProcessInv, FilesInv,
         DetachedInv
  <2>4. DetachedInv' /\ WrittenInv'
      BY <1>3 DEF RedirectOutput, RunnerInv, RunnerTypeOK, ProcessInv, FilesInv,
             DetachedInv, WrittenInv
  <2> QED
      BY <2>1, <2>2, <2>3, <2>4 DEF RunnerInv
<1>4. CASE StartChild
  <2>1. RunnerTypeOK'
      BY <1>4 DEF StartChild, Process!Start, Process!vars, RunnerInv,
         RunnerTypeOK, ProcessInv
  <2>2. ProcessInv'
      BY <1>4 DEF StartChild, Process!Start, Process!vars, RunnerInv,
         RunnerTypeOK, ProcessInv
  <2>3. FilesInv'
      BY <1>4 DEF StartChild, Process!Start, Process!vars, RunnerInv,
         RunnerTypeOK, ProcessInv, FilesInv, DetachedInv
  <2>4. DetachedInv' /\ WrittenInv'
      BY <1>4 DEF StartChild, Process!Start, Process!vars, RunnerInv,
         RunnerTypeOK, ProcessInv, FilesInv, DetachedInv, WrittenInv
  <2> QED
      BY <2>1, <2>2, <2>3, <2>4 DEF RunnerInv
<1>5. CASE ExecuteEnds
    BY <1>5 DEF ExecuteEnds, Process!Started, Process!Fail, RunnerInv,
       RunnerTypeOK, ProcessInv, FilesInv, DetachedInv, WrittenInv
<1>6. CASE ExecuteReturns
    BY <1>6 DEF ExecuteReturns, RunnerInv, RunnerTypeOK, ProcessInv, FilesInv,
       DetachedInv, WrittenInv
<1>7. CASE ReapChild
    BY <1>7 DEF ReapChild, Process!Reap, RunnerInv, RunnerTypeOK, ProcessInv,
       FilesInv, DetachedInv, WrittenInv
<1>8. CASE AnswerCall
    BY <1>8 DEF AnswerCall, Process!Answer, RunnerInv, RunnerTypeOK, ProcessInv,
       FilesInv, DetachedInv, WrittenInv
<1>9. CASE WaitReturns
    BY <1>9 DEF WaitReturns, RunnerInv, RunnerTypeOK, ProcessInv, FilesInv,
       DetachedInv, WrittenInv
<1>10. CASE Delete
    BY <1>10 DEF Delete, Process!Free, RunnerInv, RunnerTypeOK, ProcessInv,
       FilesInv, DetachedInv, WrittenInv
<1>11. CASE ReadOutput
  <2>1. RunnerTypeOK'
      BY <1>11 DEF ReadOutput, Restrict, RunnerInv, RunnerTypeOK, ProcessInv
  <2>2. ProcessInv'
      BY <1>11 DEF ReadOutput, Restrict, RunnerInv, RunnerTypeOK, ProcessInv
  <2>3. FilesInv'
      BY <1>11 DEF ReadOutput, Restrict, RunnerInv, RunnerTypeOK, ProcessInv,
         FilesInv, DetachedInv
  <2>4. DetachedInv' /\ WrittenInv'
      BY <1>11 DEF ReadOutput, Restrict, RunnerInv, RunnerTypeOK, ProcessInv,
         FilesInv, DetachedInv, WrittenInv
  <2> QED
      BY <2>1, <2>2, <2>3, <2>4 DEF RunnerInv
<1>12. CASE FileMissing
    BY <1>12 DEF FileMissing, RunnerInv, RunnerTypeOK, ProcessInv, FilesInv,
       DetachedInv, WrittenInv
<1>13. CASE ChildWrites
  <2>1. RunnerTypeOK'
      BY <1>13 DEF ChildWrites, Wrote, RunnerInv, RunnerTypeOK, ProcessInv
  <2>2. ProcessInv'
      BY <1>13 DEF ChildWrites, Wrote, RunnerInv, RunnerTypeOK, ProcessInv
  <2>3. FilesInv'
      BY <1>13 DEF ChildWrites, Wrote, RunnerInv, RunnerTypeOK, ProcessInv,
         FilesInv, DetachedInv
  <2>4. DetachedInv' /\ WrittenInv'
      BY <1>13 DEF ChildWrites, Wrote, RunnerInv, RunnerTypeOK, ProcessInv, FilesInv,
             DetachedInv, WrittenInv
  <2> QED
      BY <2>1, <2>2, <2>3, <2>4 DEF RunnerInv
<1>14. CASE ChildEnds
  <2>1. RunnerTypeOK'
      BY <1>14 DEF ChildEnds, Process!End, RunnerInv, RunnerTypeOK, ProcessInv
  <2>2. ProcessInv'
      BY <1>14 DEF ChildEnds, Process!End, RunnerInv, RunnerTypeOK, ProcessInv
  <2>3. FilesInv'
      BY <1>14 DEF ChildEnds, Process!End, RunnerInv, RunnerTypeOK, ProcessInv,
         FilesInv, DetachedInv
  <2>4. DetachedInv' /\ WrittenInv'
      BY <1>14 DEF ChildEnds, Process!End, RunnerInv, RunnerTypeOK, ProcessInv,
         FilesInv, DetachedInv, WrittenInv
  <2> QED
      BY <2>1, <2>2, <2>3, <2>4 DEF RunnerInv
<1>15. CASE TimePasses
    BY <1>15 DEF TimePasses, Process!TimePasses, RunnerInv, RunnerTypeOK,
       ProcessInv, FilesInv, DetachedInv, WrittenInv
<1>16. CASE WaitFails
    BY <1>16 DEF WaitFails, Process!Reap, RunnerInv, RunnerTypeOK, ProcessInv,
       FilesInv, DetachedInv, WrittenInv
<1>17. ASSUME NEW j \in DOMAIN detached, DetachedWrites(j) PROVE RunnerInv'
  <2>1. RunnerTypeOK'
      BY <1>17 DEF DetachedWrites, Wrote, RunnerInv, RunnerTypeOK, ProcessInv
  <2>2. ProcessInv'
      BY <1>17 DEF DetachedWrites, Wrote, RunnerInv, RunnerTypeOK, ProcessInv
  <2>3. FilesInv'
      BY <1>17 DEF DetachedWrites, Wrote, RunnerInv, RunnerTypeOK, ProcessInv,
         FilesInv, DetachedInv
  <2>4. DetachedInv' /\ WrittenInv'
      BY <1>17 DEF DetachedWrites, Wrote, RunnerInv, RunnerTypeOK, ProcessInv,
         FilesInv, DetachedInv, WrittenInv
  <2> QED
      BY <2>1, <2>2, <2>3, <2>4 DEF RunnerInv
<1>18. ASSUME NEW j \in DOMAIN detached, DetachedEnds(j) PROVE RunnerInv'
    BY <1>18 DEF DetachedEnds, Restrict, RunnerInv, RunnerTypeOK, ProcessInv,
       FilesInv, DetachedInv, WrittenInv
<1>19. CASE GrandchildEnds
    BY <1>19 DEF GrandchildEnds, RunnerInv, RunnerTypeOK, ProcessInv, FilesInv,
       DetachedInv, WrittenInv
<1> QED
    BY <1>1, <1>2, <1>3, <1>4, <1>5, <1>6, <1>7, <1>8, <1>9, <1>10, <1>11, <1>12,
       <1>13, <1>14, <1>15, <1>16, <1>17, <1>18, <1>19 DEF Runner, CommandWorld

(* A call: the file of the command before has gone, unless that was detached. *)
LEMMA CallKeeps ==
    ASSUME RunnerInv, NEW op \in Operations, RunCommand(op)
    PROVE  RunnerInv'
<1> USE DEF process, InCall, job, FallbackName, Unlinked
<1>1. /\ operation \in Seq(Operations) /\ operation' = Append(operation, op)
      /\ runPc = "off" /\ runPc' = "tempFile"
      /\ UNCHANGED <<file, files, detached>>
    BY DEF RunCommand, RunnerInv, RunnerTypeOK
<1>2. /\ Len(operation) \in Nat /\ Len(operation') = Len(operation) + 1
      /\ operation' \in Seq(Operations) /\ operation'[Len(operation) + 1] = op
      /\ \A j \in 1 .. Len(operation) : operation'[j] = operation[j]
    BY <1>1, AppendProperties, LenProperties
<1>3. RunnerTypeOK'
  <2>1. DOMAIN files \subseteq 0 .. Len(operation')
      BY <1>2 DEF RunnerInv, RunnerTypeOK
  <2>2. DOMAIN detached \subseteq {j \in 1 .. Len(operation') : operation'[j] = "detach"}
      BY <1>2 DEF RunnerInv, RunnerTypeOK
  <2> QED
      BY <1>1, <1>2, <2>1, <2>2 DEF RunCommand, RunnerInv, RunnerTypeOK
<1>4. ProcessInv'
  <2>1. operation'[Len(operation')] = op /\ Len(operation') > 0
      BY <1>2
  <2>2. /\ stage' = "none" /\ attached' = (op # "detach") /\ left' = {} /\ how' = "none"
        /\ runPc' = "tempFile"
      BY DEF RunCommand
  <2>3. attached' <=> operation'[Len(operation')] # "detach"
      BY <2>1, <2>2
  <2> QED
      BY <2>1, <2>2, <2>3 DEF ProcessInv
<1>5. FilesInv'
  <2> SUFFICES ASSUME NEW f \in DOMAIN files
               PROVE  /\ f # 0 => files[f] \subseteq {f} /\ operation'[f] = "detach"
                      /\ f = 0 => \A j \in files[f] :
                            j \in 1 .. Len(operation') /\ operation'[j] = "detach"
      BY <1>1 DEF FilesInv
  <2>1. /\ f # 0 => files[f] \subseteq {f} /\ operation[f] = "detach"
        /\ f = 0 => \A j \in files[f] :
              j \in 1 .. Len(operation) /\ operation[j] = "detach"
      BY <1>1 DEF RunnerInv, FilesInv
  <2>2. f # 0 => f \in 1 .. Len(operation)
      BY <1>2 DEF RunnerInv, RunnerTypeOK
  <2> QED
      BY <1>2, <2>1, <2>2
<1>6. DetachedInv' /\ WrittenInv'
    BY <1>1 DEF RunnerInv, DetachedInv, WrittenInv
<1> QED
    BY <1>3, <1>4, <1>5, <1>6 DEF RunnerInv

(***************************************************************************)
(* The two together.                                                       *)
(***************************************************************************)

StdinInv == PollerInv /\ RunnerInv

(* Nothing has been typed. *)
LEMMA StdinStart == StdinInit => StdinInv
<1> SUFFICES ASSUME StdinInit PROVE StdinInv
    OBVIOUS
<1>1. Init /\ RunnerInv
    BY RunnerStart DEF StdinInit
<1>2. /\ buffer = <<>> /\ kernel = <<>> /\ typed = <<>> /\ executed = <<>>
      /\ good /\ pc = "startUp" /\ terminal \in BOOLEAN /\ closed = FALSE /\ line = ""
      /\ beyond = FALSE
    BY <1>1 DEF Init
<1>3. /\ stream = <<>> /\ Len(stream) = 0 /\ Len(buffer) = 0 /\ Len(kernel) = 0
      /\ Len(typed) = 0 /\ Len(executed) = 0
  <2>1. <<>> \o <<>> = <<>>
      BY EmptySeq, ConcatEmptySeq
  <2>2. stream = <<>>
      BY <1>2, <2>1 DEF stream, Held
  <2> QED
      BY <1>2, <2>2, EmptySeq
<1>4. PollerTypeOK
    BY <1>2, EmptySeq DEF PollerTypeOK
<1>5. StreamInv
  <2>1. Len(buffer) % 2 = 0 /\ Len(kernel) % 2 = 0
      BY <1>3
  <2> QED
      BY <1>3, <2>1 DEF StreamInv
<1>6. GoodInv
  <2>1. CommandsIn(stream) = 0
      BY <1>3 DEF CommandsIn
  <2>2. pc # "execute"
      BY <1>2
  <2>3. taken = 0
      BY <1>3, <2>2 DEF taken
  <2> QED
      BY <1>3, <2>1, <2>2, <2>3 DEF GoodInv
<1> QED
    BY <1>1, <1>2, <1>4, <1>5, <1>6 DEF StdinInv, PollerInv, EndInv,
       GetlineNeverBlocks

(* The poller and the runner do not write each other's variables, except that a
   line interpreted may start a call. *)
LEMMA StdinStep ==
    ASSUME StdinInv, [StdinNext]_all
    PROVE  StdinInv'
<1> USE DEF StdinInv
<1>1. ASSUME UNCHANGED vars PROVE PollerInv'
    BY <1>1, PcSteps
<1>2. ASSUME UNCHANGED runner PROVE RunnerInv'
    BY <1>2 DEF runner, process, RunnerInv, RunnerTypeOK, ProcessInv, FilesInv,
       DetachedInv, WrittenInv, job
<1>3. CASE TestShellCommand
    BY <1>1, <1>3, CallKeeps DEF TestShellCommand, Operations
<1>4. CASE StartPolling
    BY <1>2, <1>4, PcSteps DEF StartPolling
<1>5. CASE ExecuteLine
  <2>1. PollerInv'
      BY <1>5, ExecuteKeeps DEF ExecuteLine
  <2>2. RunnerInv'
      BY <1>2, <1>5, CallKeeps DEF ExecuteLine, Operations
  <2> QED
      BY <2>1, <2>2
<1>6. CASE CommandReturns
  <2>1. UNCHANGED runner /\ UNCHANGED <<user, kernel, buffer, good, line, executed>>
        /\ pc' \in {"test", "threw"} /\ pc # "execute"
      BY <1>6 DEF CommandReturns
  <2> QED
      BY <1>2, <2>1, PcSteps
<1>7. CASE (Poll \/ Resume \/ Fill \/ GetLine \/ GetRest \/ GetNothing) /\ UNCHANGED runner
    BY <1>2, <1>7, PcSteps, FillKeeps, GetLineKeeps, GetRestKeeps
<1>8. CASE (Runner \/ CommandWorld) /\ UNCHANGED vars
    BY <1>1, <1>8, RunnerKeeps
<1>9. CASE User /\ UNCHANGED runner
    BY <1>2, <1>9, TypeKeeps, EndLineKeeps, PcSteps DEF User
<1>10. CASE UNCHANGED all
    BY <1>1, <1>2, <1>10 DEF all
<1> QED
    BY <1>3, <1>4, <1>5, <1>6, <1>7, <1>8, <1>9, <1>10 DEF StdinNext, StdinThread

(* So the invariant holds throughout. *)
LEMMA StdinAlways == StdinSpec => []StdinInv
<1> QED
    BY StdinStart, StdinStep, PTL DEF StdinSpec

(* Between two commands the temporary files that exist are those of detached
   commands: ExecuteAndCapture has removed its own, CommandCapture.cpp:87. *)
THEOREM FilesRemoved == StdinSpec => []OnlyDetachedFilesStay
<1>1. StdinInv => OnlyDetachedFilesStay
    BY DEF StdinInv, RunnerInv, FilesInv, OnlyDetachedFilesStay, InCall
<1> QED
    BY <1>1, StdinAlways, PTL

(* A capture reads what its own command wrote, all of it if the command came to
   its end, although WaitForExit may return at once (CommandCapture.cpp:64):
   Delete waits for the child. *)
THEOREM ReadsOwnOutput == StdinSpec => []CaptureReadsOutput
<1>1. StdinInv => CaptureReadsOutput
  <2> SUFFICES ASSUME StdinInv, runPc = "read", file \in DOMAIN files
               PROVE  /\ left = {}
                      /\ how = "exit" => job \in files[file]
                      /\ \A j \in files[file] \ {job} :
                            file = FallbackName /\ operation[j] = "detach"
      BY DEF CaptureReadsOutput
  <2>1. left = {}
      BY DEF StdinInv, RunnerInv, ProcessInv, InCall
  <2>2. how = "exit" => job \in files[file]
      BY DEF StdinInv, RunnerInv, WrittenInv, InCall
  <2>3. file \in {job, FallbackName}
      BY DEF StdinInv, RunnerInv, ProcessInv, InCall
  <2>4. \A j \in files[file] \ {job} :
            file = FallbackName /\ operation[j] = "detach"
      BY <2>3 DEF StdinInv, RunnerInv, FilesInv
  <2> QED
      BY <2>1, <2>2, <2>4
<1> QED
    BY <1>1, StdinAlways, PTL

(* Once getline is called it has a line, or the end of file, and does not block
   the polling thread: main.cpp:513. *)
THEOREM NeverBlocks == StdinSpec => []GetlineNeverBlocks
<1>1. StdinInv => GetlineNeverBlocks
    BY DEF StdinInv, PollerInv
<1> QED
    BY <1>1, StdinAlways, PTL

(* The lines typed are interpreted in order, none twice, however they are cut
   into reads (main.cpp:541), unless the input ends in the middle of the last
   one. *)
THEOREM InOrder == StdinSpec => []ExecutedInOrder
<1>1. StdinInv => ExecutedInOrder
  <2> SUFFICES ASSUME StdinInv PROVE ExecutedInOrder
      OBVIOUS
  <2>1. /\ GoodInv /\ EndInv /\ executed \in Seq(Commands) /\ typed \in Seq(Commands)
        /\ good \in BOOLEAN /\ Len(executed) \in Nat
      BY LenProperties DEF StdinInv, PollerInv, PollerTypeOK
  <2>2. CASE good
    <3>1. Len(stream) \in Nat
        BY StreamSeq DEF StdinInv, PollerInv
    <3>2. CommandsIn(stream) \in Nat
        BY <3>1, TwoSymbols
    <3>3. Len(executed) <= Len(typed)
        BY <2>1, <2>2, <3>2 DEF GoodInv, taken
    <3>4. \A k \in 1 .. Len(executed) : executed[k] = typed[k]
        BY <2>1, <2>2 DEF GoodInv
    <3> QED
        BY <2>1, <3>3, <3>4, PrefixElements DEF ExecutedInOrder
  <2>3. CASE ~good /\ line = ""
    <3>1. executed = typed
        BY <2>1, <2>3 DEF EndInv
    <3> QED
        BY <2>1, <3>1 DEF ExecutedInOrder, IsPrefix
  <2>4. CASE ~good /\ line # ""
      BY <2>1, <2>4 DEF EndInv, ExecutedInOrder, CutOff
  <2> QED
      BY <2>1, <2>2, <2>3, <2>4
<1> QED
    BY <1>1, StdinAlways, PTL

=============================================================================
