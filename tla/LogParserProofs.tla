-------------------------- MODULE LogParserProofs --------------------------
(***************************************************************************)
(* The log parsers for all files: the numbers of the messages of an .asc   *)
(* file; that bytes from different places of a .blf file are only put      *)
(* together after a loss; that the parsers implement LogReader; and that   *)
(* each turn of the loop over a container goes further.  TextInv,          *)
(* StreamInv and ReaderInv are the inductive invariants.                   *)
(***************************************************************************)
EXTENDS LogParser, FiniteSetTheorems, SequenceTheorems, WellFoundedInduction, TLAPS

(* The counter of an .asc file has the number of the next message.         *)
TextInv ==
  /\ textMessages \in Seq([number : Nat, dir : {"RX", "TX"}, dlc : Int, line : Nat])
  /\ lines \in Seq(Lines) /\ number \in Nat
  /\ extension = "asc" => number = Len(textMessages)
  /\ NumbersHaveNoGaps

(* An object of the stream begins at this place, or the stream ends.       *)
AtObject(place) == place = Blf!StreamEnd \/ \E k \in DOMAIN stream : place = stream[k].at

(* The file is whole, as far as it was read.                               *)
Whole == real = Blf!StreamEnd

(* No container was skipped or cut in a padding, and the file is whole.    *)
NothingLost == Whole /\ ~skipped /\ ~paddingCut

(* Where the bytes begin that are parsed next.                             *)
Resumes ==
  IF Blf!Size(remain) # 0 THEN remain.lo
  ELSE IF blfPc = "parseObject" THEN containerData.lo ELSE filePos

BytesOK ==
  /\ stream \in Streams /\ filePos \in 0 .. Blf!StreamEnd
  /\ remain.hi \in Nat /\ containerData.hi \in Nat
  /\ DOMAIN containerData = {"lo", "hi"}
  /\ blfPc = "parseObject" => containerData.hi = filePos
  /\ NothingLost => /\ remain.lo \in Nat /\ containerData.lo \in Nat
                    /\ blfPc = "parseObject" => containerData.lo < filePos

(* What was carried over ends where the container begins.                  *)
Adjacent ==
  IF blfPc = "parseObject" THEN Blf!Size(remain) # 0 => remain.hi = containerData.lo
  ELSE Whole /\ Blf!Size(remain) # 0 => remain.hi = filePos

(* While nothing was lost, what is parsed next begins with an object.      *)
StreamInv ==
  /\ BytesOK
  /\ ~paddingCut => ~Blf!CutsPadding(filePos)
  /\ ~skipped /\ ~paddingCut => blfPc # "mixed" /\ Adjacent
  /\ NothingLost => AtObject(Resumes)

-----------------------------------------------------------------------------
(* Numbers have a least one.                                               *)
LEMMA LeastNumber ==
  ASSUME NEW T, T \subseteq Nat, T # {}
  PROVE  \E m \in T : \A n \in T : m <= n
<1> DEFINE R == OpToRel(<, Nat)
<1>1. IsWellFoundedOn(R, Nat)
  BY NatLessThanWellFounded
<1>2. \A i, j \in Nat : i < j => <<i, j>> \in R
  BY DEF OpToRel
<1> HIDE DEF R
<1>3. PICK m \in T : \A n \in T : ~ (<<n, m>> \in R)
  BY <1>1, WFMin
<1>4. \A n \in T : m \in Nat /\ n \in Nat /\ ~(n < m)
  BY <1>2, <1>3
<1>5. QED
  BY <1>4

(* What the parser assumes of the lines and of the streams.                *)
LEMMA FileAssumptions == Text!LinesAssumption /\ Blf!StreamsAssumption
BY ParserAssumption

(* One turn of TextDriver::parse, with parseLine of either driver.         *)
LEMMA TextStep ==
  ASSUME TextInv, Text!Next, UNCHANGED extension
  PROVE  TextInv'
<1> USE DEF TextInv, NumbersHaveNoGaps, Text!NumbersHaveNoGaps
<1>1. CASE Text!Open
  BY <1>1 DEF Text!Open
<1>2. CASE Text!AtEnd
  BY <1>2 DEF Text!AtEnd
<1>3. ASSUME NEW line \in Lines, Text!ParseLine(line) PROVE TextInv'
  <2>1. lines' \in Seq(Lines) /\ Len(lines) \in Nat
    BY <1>3, AppendProperties, LenProperties DEF Text!ParseLine
  <2>2. CASE Text!Accept(line)
    <3>1. line.dlc \in Nat
      BY <1>3, FileAssumptions DEF Text!LinesAssumption
    <3> DEFINE m == [number |-> IF extension = "asc" THEN number ELSE 0,
                     dir |-> Text!Dir(line.dir), dlc |-> Text!Dlc(line),
                     line |-> Len(lines) + 1]
               Message == [number : Nat, dir : {"RX", "TX"}, dlc : Int, line : Nat]
    <3>2. m \in Message
      BY <2>1, <3>1 DEF Text!Dir, Text!Dlc
    <3>3. m.number = IF extension = "asc" THEN number ELSE 0
      OBVIOUS
    <3>4. textMessages' = Append(textMessages, m)
      BY <2>2 DEF Text!Accept
    <3> HIDE DEF m
    <3>5. /\ textMessages' \in Seq(Message)
          /\ Len(textMessages') = Len(textMessages) + 1
          /\ \A i \in 1 .. Len(textMessages) : textMessages'[i] = textMessages[i]
          /\ textMessages'[Len(textMessages) + 1] = m
          /\ DOMAIN textMessages' = 1 .. Len(textMessages) + 1
          /\ DOMAIN textMessages = 1 .. Len(textMessages)
          /\ Len(textMessages) \in Nat
      BY <3>2, <3>4, AppendProperties, LenProperties
    <3>6. number' = IF extension = "asc" THEN number + 1 ELSE number
      BY <2>2 DEF Text!Accept
    <3>7. ASSUME extension' = "asc", NEW i \in DOMAIN textMessages'
          PROVE  textMessages'[i].number = i - 1
      <4>1. extension = "asc" /\ number = Len(textMessages)
        BY <3>7
      <4>2. CASE i = Len(textMessages) + 1
        BY <3>3, <3>5, <4>1, <4>2
      <4>3. CASE i # Len(textMessages) + 1
        <5>1. i \in 1 .. Len(textMessages)
          BY <3>5, <3>7, <4>3
        <5>2. textMessages'[i] = textMessages[i] /\ i \in DOMAIN textMessages
          BY <3>5, <5>1
        <5>3. QED
          BY <4>1, <5>2
      <4>4. QED
        BY <4>2, <4>3
    <3>8. extension' = "asc" => number' = Len(textMessages')
      BY <3>5, <3>6
    <3>9. number' \in Nat
      BY <3>6
    <3>10. QED
      BY <2>1, <3>5, <3>7, <3>8, <3>9
  <2>3. CASE UNCHANGED <<textMessages, number>>
    BY <2>1, <2>3
  <2>4. QED
    BY <1>3, <2>2, <2>3 DEF Text!ParseLine, Text!Crash, Text!Reject
<1>4. QED
  BY <1>1, <1>2, <1>3 DEF Text!Next

(***************************************************************************)
(* The messages of an .asc file are numbered without gaps, however many    *)
(* lines are rejected between them.                                        *)
(***************************************************************************)
THEOREM ParserNumbersHaveNoGaps == Spec => []NumbersHaveNoGaps
<1>1. Init => TextInv
  BY EmptySeq DEF Init, Text!Init, TextInv, NumbersHaveNoGaps, Text!NumbersHaveNoGaps
<1>2. TextInv /\ [Next]_vars => TextInv'
  <2> SUFFICES ASSUME TextInv, [Next]_vars PROVE TextInv'
    OBVIOUS
  <2>1. CASE TextDriver(Text!Next)
    BY <2>1, TextStep DEF TextDriver
  <2>2. CASE UNCHANGED <<extension, lines, textMessages, number>>
    BY <2>2 DEF TextInv, NumbersHaveNoGaps, Text!NumbersHaveNoGaps
  <2>3. QED
    BY <2>1, <2>2 DEF Next, BlfParser, NullDriver, vars, textVars
<1>3. TextInv => NumbersHaveNoGaps
  BY DEF TextInv
<1>4. QED
  BY <1>1, <1>2, <1>3, PTL DEF Spec

-----------------------------------------------------------------------------
(* An object of a stream, by its place, its size and its type.             *)
LEMMA ObjectType ==
  ASSUME NEW s \in Streams
  PROVE  /\ Len(s) \in Nat /\ DOMAIN s = 1 .. Len(s)
         /\ \A k \in DOMAIN s :
              /\ s[k].at \in Nat /\ s[k].size \in Nat /\ s[k].size >= 16
              /\ s[k].at = IF k = 1 THEN 0 ELSE Blf!After(s[k - 1])
              /\ Blf!After(s[k]) \in Nat
              /\ Blf!After(s[k]) >= s[k].at + s[k].size
<1>1. s \in Seq([at : Nat, size : Nat, can : BOOLEAN])
  BY FileAssumptions DEF Blf!StreamsAssumption
<1>2. Len(s) \in Nat /\ DOMAIN s = 1 .. Len(s)
  BY <1>1, LenProperties
<1>3. ASSUME NEW k \in DOMAIN s
      PROVE  /\ s[k].at \in Nat /\ s[k].size \in Nat /\ s[k].size >= 16
             /\ s[k].at = IF k = 1 THEN 0 ELSE Blf!After(s[k - 1])
  <2>1. s[k] \in [at : Nat, size : Nat, can : BOOLEAN]
    BY <1>1, <1>2, <1>3, ElementOfSeq
  <2>2. /\ s[k].size >= Blf!objHeaderSize
        /\ s[k].at = IF k = 1 THEN 0 ELSE Blf!After(s[k - 1])
    BY <1>3, FileAssumptions DEF Blf!StreamsAssumption
  <2>3. QED
    BY <2>1, <2>2 DEF Blf!objHeaderSize
<1>4. ASSUME NEW k \in DOMAIN s
      PROVE  Blf!After(s[k]) \in Nat /\ Blf!After(s[k]) >= s[k].at + s[k].size
  BY <1>3, <1>4 DEF Blf!After, Blf!Padding
<1>5. QED
  BY <1>2, <1>3, <1>4

(* The objects lie one behind the other.                                   *)
LEMMA ObjectsApart ==
  ASSUME NEW s \in Streams, NEW i \in DOMAIN s, NEW j \in DOMAIN s, i < j
  PROVE  Blf!After(s[i]) <= s[j].at
<1> DEFINE T == {n \in DOMAIN s : i < n /\ s[n].at < Blf!After(s[i])}
<1>1. /\ Len(s) \in Nat /\ DOMAIN s = 1 .. Len(s)
      /\ \A k \in DOMAIN s : /\ s[k].at \in Nat /\ s[k].size \in Nat
                             /\ Blf!After(s[k]) \in Nat
                             /\ s[k].at <= Blf!After(s[k])
                             /\ k # 1 => s[k].at = Blf!After(s[k - 1])
  BY ObjectType
<1>2. SUFFICES ASSUME T # {} PROVE FALSE
  BY <1>1
<1>0. T \subseteq Nat
  BY <1>1
<1>3. PICK m \in T : \A n \in T : m <= n
  <2> HIDE DEF T
  <2>1. QED
    BY <1>0, <1>2, LeastNumber
<1>4. /\ m \in DOMAIN s /\ i < m /\ s[m].at < Blf!After(s[i])
      /\ m - 1 \in DOMAIN s /\ ~(m <= m - 1)
  BY <1>1, <1>3
<1>5. s[m].at = Blf!After(s[m - 1])
  BY <1>1, <1>4
<1>6. m - 1 # i
  BY <1>1, <1>4, <1>5
<1>7. i < m - 1 /\ m - 1 \notin T
  BY <1>1, <1>3, <1>4, <1>6
<1>8. s[m - 1].at >= Blf!After(s[i])
  BY <1>1, <1>4, <1>7
<1>9. QED
  BY <1>1, <1>4, <1>5, <1>8

(* The stream ends with its last object.                                   *)
LEMMA EndFacts ==
  ASSUME stream \in Streams
  PROVE  /\ Blf!StreamEnd \in Nat
         /\ \A k \in DOMAIN stream : Blf!After(stream[k]) <= Blf!StreamEnd
         /\ \A k \in DOMAIN stream : AtObject(Blf!After(stream[k]))
<1>1. /\ Len(stream) \in Nat /\ DOMAIN stream = 1 .. Len(stream)
      /\ \A k \in DOMAIN stream : /\ stream[k].at \in Nat /\ Blf!After(stream[k]) \in Nat
                                  /\ stream[k].at <= Blf!After(stream[k])
                                  /\ k # 1 => stream[k].at = Blf!After(stream[k - 1])
  BY ObjectType
<1>2. stream \in Seq([at : Nat, size : Nat, can : BOOLEAN])
  BY FileAssumptions DEF Blf!StreamsAssumption
<1>3. CASE stream = <<>>
  BY <1>1, <1>3 DEF Blf!StreamEnd
<1>4. CASE stream # <<>>
  <2>1. Len(stream) \in DOMAIN stream
    BY <1>1, <1>2, <1>4, EmptySeq
  <2>2. Blf!StreamEnd = Blf!After(stream[Len(stream)])
    BY <1>4 DEF Blf!StreamEnd, Blf!Last
  <2>3. ASSUME NEW k \in DOMAIN stream
        PROVE  /\ Blf!After(stream[k]) <= Blf!StreamEnd
               /\ AtObject(Blf!After(stream[k]))
    <3>1. CASE k = Len(stream)
      BY <1>1, <2>1, <2>2, <3>1 DEF AtObject
    <3>2. CASE k # Len(stream)
      <4>1. k < Len(stream)
        BY <1>1, <3>2
      <4>2. Blf!After(stream[k]) <= stream[Len(stream)].at
        BY <2>1, <4>1, ObjectsApart
      <4>3. k + 1 \in DOMAIN stream /\ k + 1 # 1 /\ (k + 1) - 1 = k
        BY <1>1, <4>1
      <4>4. stream[k + 1].at = Blf!After(stream[k])
        BY <1>1, <4>3
      <4>5. QED
        BY <1>1, <2>1, <2>2, <4>2, <4>3, <4>4 DEF AtObject
    <3>3. QED
      BY <3>1, <3>2
  <2>4. QED
    BY <1>1, <2>1, <2>2, <2>3
<1>5. QED
  BY <1>3, <1>4

(* The first signature in bytes that begin with an object is its own.      *)
LEMMA IndexOfFirst ==
  ASSUME stream \in Streams, NEW bytes, NEW k \in DOMAIN stream,
         k \in Blf!Signatures(bytes, stream[k].at)
  PROVE  Blf!IndexOf(bytes, stream[k].at) = k
<1> DEFINE S == Blf!Signatures(bytes, stream[k].at)
<1>1. DOMAIN stream = 1 .. Len(stream) /\ Len(stream) \in Nat
  BY ObjectType
<1>2. ASSUME NEW j \in S PROVE j \in DOMAIN stream /\ k <= j
  <2>1. j \in DOMAIN stream /\ stream[j].at >= stream[k].at
    BY <1>2 DEF Blf!Signatures
  <2>2. /\ stream[j].at \in Nat /\ stream[j].size \in Nat /\ stream[j].size >= 16
        /\ Blf!After(stream[j]) \in Nat
        /\ Blf!After(stream[j]) >= stream[j].at + stream[j].size
        /\ stream[k].at \in Nat
    BY <2>1, ObjectType
  <2>3. j < k => FALSE
    <3>1. SUFFICES ASSUME j < k PROVE FALSE
      OBVIOUS
    <3>2. Blf!After(stream[j]) <= stream[k].at
      BY <2>1, <3>1, ObjectsApart
    <3>3. QED
      BY <2>1, <2>2, <3>2
  <2>4. QED
    BY <1>1, <2>1, <2>3
<1>3. k \in S
  OBVIOUS
<1>4. Blf!IndexOf(bytes, stream[k].at) = CHOOSE i \in S : \A j \in S : i <= j
  BY DEF Blf!IndexOf
<1> HIDE DEF S
<1>5. \A i \in S : (\A j \in S : i <= j) => i = k
  BY <1>1, <1>2, <1>3
<1>6. QED
  BY <1>2, <1>3, <1>4, <1>5

-----------------------------------------------------------------------------
(* One iteration of the loop over a container, on the bytes with what was  *)
(* carried over before them: from an object of a whole file it goes on at  *)
(* the next one.                                                           *)
LEMMA TakenFromObject ==
  ASSUME BytesOK, Whole, ~Blf!CutsPadding(filePos),
         NEW bytes, bytes.lo \in Nat, bytes.hi = filePos, AtObject(bytes.lo),
         bytes.hi - bytes.lo >= 16
  PROVE  \E k \in DOMAIN stream :
           /\ bytes.lo = stream[k].at
           /\ k \in Blf!Signatures(bytes, bytes.lo)
           /\ Blf!IndexOf(bytes, bytes.lo) = k
           /\ Blf!ObjSize(bytes, k) = stream[k].size
<1>1. /\ stream \in Streams /\ filePos \in 0 .. Blf!StreamEnd
      /\ Blf!StreamEnd \in Nat
      /\ real = Blf!StreamEnd
  BY EndFacts DEF BytesOK, Whole
<1>2. PICK k \in DOMAIN stream : bytes.lo = stream[k].at
  BY <1>1 DEF AtObject
<1>3. stream[k].at + 16 <= bytes.hi /\ bytes.hi <= real /\ stream[k].at \in Nat
      /\ bytes.hi \in Nat /\ real \in Nat
  BY <1>1, <1>2
<1>4. k \in Blf!Signatures(bytes, bytes.lo)
  BY <1>2, <1>3 DEF Blf!Signatures, Blf!Least, Blf!signatureSize
<1>5. Blf!IndexOf(bytes, bytes.lo) = k
  BY <1>1, <1>2, <1>4, IndexOfFirst
<1>6. Blf!ObjSize(bytes, k) = stream[k].size
  <2>1. /\ ~(stream[k].at + Blf!sizeEnd > bytes.hi \/ real <= stream[k].at + Blf!sizeAt)
        /\ stream[k].at + Blf!sizeEnd <= real
    BY <1>3 DEF Blf!sizeAt, Blf!sizeEnd
  <2>2. QED
    BY <2>1, Zenon DEF Blf!ObjSize
<1>7. QED
  BY <1>2, <1>4, <1>5, <1>6

(* Past an object and its padding, or at the next signature, there is an   *)
(* object or the end of the stream.                                        *)
LEMMA NextAtObject ==
  ASSUME BytesOK, Whole, ~Blf!CutsPadding(filePos),
         NEW bytes, bytes.lo \in Nat, bytes.hi = filePos,
         NEW k \in DOMAIN stream, bytes.lo = stream[k].at,
         NEW nextPos, nextPos = stream[k].at + stream[k].size, nextPos <= bytes.hi
  PROVE  LET next == Blf!NextAt(bytes, nextPos)
         IN  next \in Nat /\ bytes.lo < next /\ next <= bytes.hi /\ AtObject(next)
<1>1. /\ stream \in Streams /\ filePos \in 0 .. Blf!StreamEnd
      /\ Blf!StreamEnd \in Nat /\ bytes.hi \in Nat
      /\ real = Blf!StreamEnd
  BY EndFacts DEF BytesOK, Whole
<1>2. /\ stream[k].at \in Nat /\ stream[k].size \in Nat /\ stream[k].size >= 16
      /\ Blf!After(stream[k]) \in Nat
      /\ Len(stream) \in Nat /\ DOMAIN stream = 1 .. Len(stream)
  BY <1>1, ObjectType
<1>3. CASE Blf!Signatures(bytes, nextPos) # {}
  <2> DEFINE S == Blf!Signatures(bytes, nextPos)
             j == Blf!IndexOf(bytes, nextPos)
  <2>1. S \subseteq Nat /\ S \subseteq DOMAIN stream
    BY <1>2 DEF Blf!Signatures
  <2>2. \E m \in S : \A n \in S : m <= n
    <3> HIDE DEF S
    <3>1. QED
      BY <1>3, <2>1, LeastNumber DEF S
  <2>3. j \in S
    <3>1. j = CHOOSE m \in S : \A n \in S : m <= n
      BY DEF Blf!IndexOf
    <3> HIDE DEF S, j
    <3>2. QED
      BY <2>2, <3>1
  <2>4. /\ j \in DOMAIN stream
        /\ stream[j].at >= nextPos
        /\ stream[j].at + 4 <= Blf!Least(bytes.hi, real)
    BY <2>3 DEF Blf!Signatures, Blf!signatureSize
  <2>5. Blf!NextAt(bytes, nextPos) = stream[j].at
    BY <1>3, Zenon DEF Blf!NextAt
  <2> HIDE DEF j
  <2>6. stream[j].at \in Nat
    BY <1>1, <2>4, ObjectType
  <2>7. stream[j].at <= bytes.hi /\ bytes.lo < stream[j].at
    BY <1>1, <1>2, <2>4, <2>6 DEF Blf!Least
  <2>8. QED
    BY <2>4, <2>5, <2>6, <2>7 DEF AtObject
<1>4. CASE Blf!Signatures(bytes, nextPos) = {}
  <2> DEFINE to == nextPos + ((nextPos - bytes.lo) % 4)
  <2>1. to = Blf!After(stream[k])
    <3>1. nextPos - bytes.lo = stream[k].size
      BY <1>2
    <3>2. QED
      BY <3>1 DEF Blf!After, Blf!Padding
  <2>2. Blf!NextAt(bytes, nextPos) = IF to < bytes.hi THEN to ELSE bytes.hi
    BY <1>4, Zenon DEF Blf!NextAt
  <2> HIDE DEF to
  <2>3. AtObject(to) /\ to \in Nat /\ bytes.lo < to
    <3>1. Blf!After(stream[k]) >= stream[k].at + stream[k].size
      BY <1>1, ObjectType
    <3>2. QED
      BY <1>1, <1>2, <2>1, <3>1, EndFacts
  <2>4. CASE to < bytes.hi
    BY <1>1, <2>2, <2>3, <2>4
  <2>5. CASE ~(to < bytes.hi)
    <3>1. ~(Blf!End(k) <= filePos /\ filePos < Blf!After(stream[k]))
      BY DEF Blf!CutsPadding
    <3>2. Blf!End(k) <= filePos
      BY DEF Blf!End
    <3>3. to = bytes.hi
      BY <1>1, <2>1, <2>3, <2>5, <3>1, <3>2
    <3>4. QED
      BY <1>1, <2>2, <2>3, <3>3
  <2>6. QED
    BY <2>4, <2>5
<1>5. QED
  BY <1>3, <1>4

(* The objects stay where they are.                                        *)
LEMMA SameObjects ==
  ASSUME stream' = stream
  PROVE  /\ Blf!StreamEnd' = Blf!StreamEnd
         /\ \A to : Blf!CutsPadding(to)' = Blf!CutsPadding(to)
         /\ \A place : AtObject(place) /\ place = Resumes' => AtObject(Resumes)'
<1>1. Blf!StreamEnd' = Blf!StreamEnd
  BY DEF Blf!StreamEnd, Blf!Last
<1>2. \A to : Blf!CutsPadding(to)' = Blf!CutsPadding(to)
  BY DEF Blf!CutsPadding, Blf!End
<1>3. \A place : AtObject(place) /\ place = Resumes' => AtObject(Resumes)'
  BY <1>1 DEF AtObject
<1>4. QED
  BY <1>1, <1>2, <1>3

(* What an iteration of the loop leaves alone.                             *)
LEMMA ParseKeeps ==
  ASSUME StreamInv, Blf!ParseObject
  PROVE  /\ stream' = stream /\ filePos' = filePos /\ real' = real
         /\ skipped' = skipped /\ paddingCut' = paddingCut
         /\ blfPc = "parseObject" /\ (~paddingCut => ~Blf!CutsPadding(filePos))'
<1>1. /\ stream' = stream /\ filePos' = filePos /\ real' = real
      /\ skipped' = skipped /\ paddingCut' = paddingCut
      /\ blfPc = "parseObject"
  BY DEF Blf!ParseObject, Blf!file, Blf!history
<1>2. (~paddingCut => ~Blf!CutsPadding(filePos))'
  BY <1>1 DEF StreamInv, Blf!CutsPadding, Blf!End
<1>3. QED
  BY <1>1, <1>2

(* parseObject, and what getObject does with its result.                   *)
LEMMA ParseStep ==
  ASSUME StreamInv, Blf!ParseObject
  PROVE  StreamInv'
<1>1. /\ stream' = stream /\ filePos' = filePos /\ real' = real
      /\ skipped' = skipped /\ paddingCut' = paddingCut
      /\ blfPc = "parseObject" /\ (~paddingCut => ~Blf!CutsPadding(filePos))'
  BY ParseKeeps
<1>2. /\ BytesOK /\ filePos \in Nat
      /\ Blf!StreamEnd' = Blf!StreamEnd /\ Whole' = Whole
      /\ NothingLost' = NothingLost
      /\ \A place : AtObject(place) /\ place = Resumes' => AtObject(Resumes)'
  BY <1>1, SameObjects, EndFacts DEF StreamInv, BytesOK, NothingLost, Whole
<1>3. CASE /\ Blf!Size(remain) # 0 /\ remain.hi # containerData.lo
           /\ blfPc' = "mixed" /\ UNCHANGED <<containerData, remain>>
  <2>1. skipped \/ paddingCut
    BY <1>1, <1>3 DEF StreamInv, Adjacent
  <2>2. BytesOK'
    BY <1>1, <1>2, <1>3 DEF BytesOK
  <2>3. QED
    BY <1>1, <1>2, <2>1, <2>2 DEF StreamInv, NothingLost
<1> DEFINE bytes == [containerData EXCEPT !.lo = IF Blf!Size(remain) = 0 THEN @ ELSE remain.lo]
           k == Blf!IndexOf(bytes, bytes.lo)
<1>4. /\ bytes.hi = filePos
      /\ bytes.lo = Resumes
      /\ NothingLost => bytes.lo \in Nat /\ AtObject(bytes.lo)
  <2>1. bytes.hi = filePos /\ bytes.lo = Resumes
    BY <1>1, <1>2 DEF BytesOK, Resumes
  <2>2. NothingLost => Resumes \in Nat
    BY <1>1, <1>2 DEF BytesOK, Resumes
  <2>3. NothingLost => AtObject(Resumes)
    BY DEF StreamInv
  <2> HIDE DEF bytes
  <2>4. QED
    BY <2>1, <2>2, <2>3
<1>5. Blf!Size(Blf!Empty) = 0 /\ Blf!Empty.hi = 0 /\ Blf!Empty.lo = 0
      /\ DOMAIN Blf!Empty = {"lo", "hi"}
  BY DEF Blf!Size, Blf!Empty
<1> HIDE DEF bytes, k
<1>6. CASE Blf!CarryOver(bytes)
  <2>1. /\ remain' = bytes
        /\ containerData' = [lo |-> filePos, hi |-> filePos]
        /\ blfPc' = "getObject"
    BY <1>2, <1>4, <1>6 DEF Blf!CarryOver, Blf!Loop, Blf!Size
  <2>2. BytesOK'
    BY <1>1, <1>2, <1>4, <2>1 DEF BytesOK
  <2>3. ~skipped /\ ~paddingCut => Adjacent'
    BY <1>1, <1>4, <2>1 DEF Adjacent
  <2>4. NothingLost => Resumes' = bytes.lo
    BY <1>1, <1>2, <1>4, <2>1 DEF Resumes, Blf!Size
  <2>5. QED
    BY <1>1, <1>2, <1>4, <2>1, <2>2, <2>3, <2>4 DEF StreamInv
<1>7. CASE /\ Blf!Size(bytes) >= Blf!objHeaderSize
           /\ Blf!Signatures(bytes, bytes.lo) = {}
           /\ Blf!GiveUp
  <2>1. remain' = remain /\ containerData' = Blf!Empty /\ blfPc' = "getObject"
    BY <1>7 DEF Blf!GiveUp
  <2>2. BytesOK'
    BY <1>1, <1>2, <1>5, <2>1 DEF BytesOK
  <2>3. ~NothingLost
    <3>1. SUFFICES ASSUME NothingLost PROVE FALSE
      OBVIOUS
    <3>2. bytes.hi - bytes.lo >= 16
      BY <1>7 DEF Blf!Size, Blf!objHeaderSize
    <3>3. Blf!Signatures(bytes, bytes.lo) # {}
      BY <1>2, <1>4, <3>1, <3>2, TakenFromObject DEF StreamInv, NothingLost
    <3>4. QED
      BY <1>7, <3>3
  <2>4. ~skipped /\ ~paddingCut => Adjacent'
    BY <1>1, <1>2, <2>1, <2>3 DEF Adjacent, NothingLost
  <2>5. QED
    BY <1>1, <1>2, <2>1, <2>2, <2>3, <2>4 DEF StreamInv
<1>8. CASE /\ Blf!Size(bytes) >= Blf!objHeaderSize
           /\ ~(stream[k].at + Blf!ObjSize(bytes, k) > bytes.hi)
           /\ Blf!TakeObject(bytes, k)
  <2> DEFINE nextPos == stream[k].at + Blf!ObjSize(bytes, k)
             next == Blf!NextAt(bytes, nextPos)
  <2>1. /\ remain' = Blf!Empty
        /\ containerData' = IF next > bytes.lo THEN [lo |-> next, hi |-> bytes.hi] ELSE Blf!Empty
        /\ blfPc' = IF Blf!Size(containerData') = 0 THEN "getObject" ELSE "parseObject"
    BY <1>8 DEF Blf!TakeObject, Blf!LoopFrom, Blf!Loop
  <2>2. ASSUME NothingLost
        PROVE  next \in Nat /\ bytes.lo < next /\ next <= filePos /\ AtObject(next)
    <3>1. bytes.hi - bytes.lo >= 16
      BY <1>8 DEF Blf!Size, Blf!objHeaderSize
    <3>2. Whole /\ ~Blf!CutsPadding(filePos)
      BY <2>2 DEF StreamInv, NothingLost
    <3>3. /\ k \in DOMAIN stream /\ bytes.lo = stream[k].at
          /\ Blf!ObjSize(bytes, k) = stream[k].size
      BY <1>2, <1>4, <2>2, <3>1, <3>2, TakenFromObject DEF k
    <3> HIDE DEF nextPos
    <3>4. nextPos = stream[k].at + stream[k].size /\ nextPos <= bytes.hi
      BY <1>2, <1>4, <1>8, <3>3, ObjectType DEF nextPos, BytesOK
    <3>5. QED
      BY <1>2, <1>4, <2>2, <3>2, <3>3, <3>4, NextAtObject
  <2> HIDE DEF next, nextPos
  <2>3. ASSUME NothingLost
        PROVE  /\ containerData' = [lo |-> next, hi |-> filePos]
               /\ blfPc' = IF next = filePos THEN "getObject" ELSE "parseObject"
    BY <1>2, <1>4, <2>1, <2>2, <2>3 DEF Blf!Size
  <2>4. /\ Blf!Size(remain') = 0 /\ remain'.hi = 0 /\ remain'.lo = 0
        /\ DOMAIN containerData' = {"lo", "hi"}
        /\ containerData'.hi \in {0, filePos} /\ blfPc' # "mixed"
        /\ blfPc' = "parseObject" => containerData'.hi = filePos
    BY <1>4, <1>5, <2>1
  <2>5. BytesOK'
    BY <1>1, <1>2, <2>2, <2>3, <2>4 DEF BytesOK
  <2>6. NothingLost => Resumes' = next
    BY <1>1, <2>3, <2>4 DEF Resumes
  <2>7. Adjacent'
    BY <2>4 DEF Adjacent
  <2>8. QED
    BY <1>1, <1>2, <2>2, <2>4, <2>5, <2>6, <2>7 DEF StreamInv
<1>9. QED
  BY <1>3, <1>6, <1>7, <1>8 DEF Blf!ParseObject, bytes, k

(* The next object of the file, be it a container or not.                  *)
LEMMA NextObjectFacts ==
  ASSUME StreamInv, NEW to \in 0 .. Blf!StreamEnd, Blf!NextObject(to)
  PROVE  /\ stream' = stream /\ filePos' = to /\ filePos <= to
         /\ blfPc = "getObject" /\ Whole
         /\ Blf!StreamEnd \in Nat /\ Blf!StreamEnd' = Blf!StreamEnd
         /\ stream \in Streams /\ filePos \in Nat /\ to \in Nat
         /\ (~paddingCut => ~Blf!CutsPadding(filePos))'
         /\ paddingCut => paddingCut'
<1>1. /\ stream' = stream /\ filePos' = to /\ blfPc = "getObject" /\ Whole
      /\ paddingCut' = (paddingCut \/ Blf!CutsPadding(to)) /\ to >= filePos
  BY DEF Blf!NextObject, Whole
<1>2. /\ stream \in Streams /\ filePos \in 0 .. Blf!StreamEnd
      /\ Blf!StreamEnd \in Nat /\ Blf!StreamEnd' = Blf!StreamEnd
  BY <1>1, EndFacts, SameObjects DEF StreamInv, BytesOK
<1>3. ~paddingCut' => ~Blf!CutsPadding(filePos)'
  BY <1>1 DEF Blf!CutsPadding, Blf!End
<1>4. (~paddingCut => ~Blf!CutsPadding(filePos))'
  BY <1>3
<1>5. filePos \in Nat /\ to \in Nat /\ filePos <= to
  BY <1>1, <1>2
<1>6. QED
  BY <1>1, <1>2, <1>4, <1>5

(* getObject on a container, the last of a file that is not whole included.*)
LEMMA ContainerStep ==
  ASSUME StreamInv, NEW to \in 0 .. Blf!StreamEnd, Blf!NextObject(to),
         Blf!Loop([lo |-> filePos, hi |-> to]),
         real' = real \/ real' < to,
         UNCHANGED <<remain, skipped>>
  PROVE  StreamInv'
<1>1. /\ stream' = stream /\ filePos' = to /\ filePos <= to
      /\ blfPc = "getObject" /\ Whole
      /\ Blf!StreamEnd \in Nat /\ Blf!StreamEnd' = Blf!StreamEnd
      /\ stream \in Streams /\ filePos \in Nat /\ to \in Nat
      /\ (~paddingCut => ~Blf!CutsPadding(filePos))'
      /\ paddingCut => paddingCut'
  BY NextObjectFacts
<1>2. /\ containerData' = [lo |-> filePos, hi |-> to]
      /\ blfPc' = IF to = filePos THEN "getObject" ELSE "parseObject"
  BY <1>1 DEF Blf!Loop, Blf!Size
<1>3. NothingLost' => real' = real /\ NothingLost
  BY <1>1 DEF NothingLost, Whole
<1>4. BytesOK'
  BY <1>1, <1>2, <1>3 DEF StreamInv, BytesOK
<1>5. NothingLost' => Resumes' = Resumes
  BY <1>1, <1>2 DEF Resumes, Blf!Size
<1>6. ~skipped' /\ ~paddingCut' => Adjacent'
  <2>1. Blf!Size(remain)' = Blf!Size(remain)
    BY DEF Blf!Size
  <2>2. QED
    BY <1>1, <1>2, <2>1 DEF StreamInv, Adjacent
<1>7. NothingLost' => AtObject(Resumes)'
  <2>1. SUFFICES ASSUME NothingLost' PROVE AtObject(Resumes)'
    OBVIOUS
  <2>2. AtObject(Resumes) /\ Resumes' = Resumes
    BY <1>3, <1>5, <2>1 DEF StreamInv
  <2>3. QED
    BY <1>1, <2>2, SameObjects
<1>8. QED
  BY <1>1, <1>2, <1>4, <1>6, <1>7 DEF StreamInv

(* getObject where nothing of a container is to be parsed.                 *)
LEMMA OtherStep ==
  ASSUME StreamInv, stream' = stream, UNCHANGED <<containerData, remain>>,
         blfPc # "parseObject", blfPc' \in {"getObject", "thrown", "done"},
         filePos' \in 0 .. Blf!StreamEnd, filePos' = filePos \/ skipped',
         real' = real, skipped => skipped', paddingCut => paddingCut',
         (~paddingCut => ~Blf!CutsPadding(filePos))'
  PROVE  StreamInv'
<1>1. Blf!StreamEnd' = Blf!StreamEnd /\ Blf!Size(remain)' = Blf!Size(remain)
  BY SameObjects DEF Blf!Size
<1>2. NothingLost' => NothingLost /\ filePos' = filePos
  BY <1>1 DEF NothingLost, Whole
<1>3. BytesOK'
  BY <1>1, <1>2 DEF StreamInv, BytesOK
<1>4. ~skipped' /\ ~paddingCut' => Adjacent'
  BY <1>1 DEF StreamInv, Adjacent, Whole
<1>5. NothingLost' => AtObject(Resumes)'
  <2>1. SUFFICES ASSUME NothingLost' PROVE AtObject(Resumes)'
    OBVIOUS
  <2>2. AtObject(Resumes) /\ Resumes' = Resumes
    BY <1>1, <1>2, <2>1 DEF StreamInv, Resumes
  <2>3. QED
    BY <2>2, SameObjects
<1>6. QED
  BY <1>3, <1>4, <1>5 DEF StreamInv

(* Every step of BlfParser::parse keeps the invariant.                     *)
LEMMA BlfStep ==
  ASSUME StreamInv, Blf!Next
  PROVE  StreamInv'
<1>0. filePos \in 0 .. Blf!StreamEnd /\ Blf!StreamEnd \in Nat /\ stream \in Streams
  BY EndFacts DEF StreamInv, BytesOK
<1>1. CASE Blf!Open \/ Blf!HeaderCut \/ Blf!Done
  <2>1. /\ UNCHANGED <<stream, filePos, real, containerData, remain, skipped, paddingCut>>
        /\ blfPc # "parseObject" /\ blfPc' \in {"getObject", "thrown", "done"}
    BY <1>1 DEF Blf!Open, Blf!HeaderCut, Blf!Done, Blf!file, Blf!history
  <2>2. (~paddingCut => ~Blf!CutsPadding(filePos))'
    BY <2>1 DEF StreamInv, Blf!CutsPadding, Blf!End
  <2>3. QED
    BY <1>0, <2>1, <2>2, OtherStep
<1>2. ASSUME NEW to \in 0 .. Blf!StreamEnd, Blf!Container(to) PROVE StreamInv'
  BY <1>2, ContainerStep DEF Blf!Container
<1>3. ASSUME NEW to \in 0 .. Blf!StreamEnd, Blf!TruncatedContainer(to) PROVE StreamInv'
  BY <1>3, ContainerStep DEF Blf!TruncatedContainer
<1>4. ASSUME NEW to \in 0 .. Blf!StreamEnd, Blf!SkippedContainer(to) PROVE StreamInv'
  <2>1. Blf!NextObject(to) /\ skipped'
        /\ UNCHANGED <<real, containerData, remain, blfMessages, blfPc>>
    BY <1>4 DEF Blf!SkippedContainer
  <2>2. QED
    BY <1>0, <2>1, NextObjectFacts, OtherStep
<1>5. CASE Blf!OtherObject
  <2>1. Blf!NextObject(filePos)
        /\ UNCHANGED <<real, containerData, remain, blfMessages, blfPc, skipped>>
    BY <1>5 DEF Blf!OtherObject
  <2>2. QED
    BY <1>0, <2>1, NextObjectFacts, OtherStep
<1>6. CASE Blf!ParseObject
  BY <1>6, ParseStep
<1>7. QED
  BY <1>1, <1>2, <1>3, <1>4, <1>5, <1>6 DEF Blf!Next, Blf!GetObject

(* A step that leaves the .blf reader alone keeps the invariant.           *)
LEMMA StreamAlone ==
  ASSUME StreamInv, UNCHANGED blfVars
  PROVE  StreamInv'
<1>1. Blf!StreamEnd' = Blf!StreamEnd
  BY DEF blfVars, Blf!StreamEnd, Blf!Last
<1>2. BytesOK' /\ NothingLost' = NothingLost
  BY <1>1 DEF blfVars, StreamInv, BytesOK, NothingLost, Whole
<1>3. (~paddingCut => ~Blf!CutsPadding(filePos))'
  BY DEF blfVars, StreamInv, Blf!CutsPadding, Blf!End
<1>4. Adjacent' = Adjacent
  BY <1>1 DEF blfVars, Adjacent, Whole, Blf!Size
<1>5. NothingLost' => AtObject(Resumes)'
  <2>1. Resumes' = Resumes
    BY DEF blfVars, Resumes, Blf!Size
  <2>2. QED
    BY <1>2, <2>1, SameObjects DEF blfVars, StreamInv
<1>6. QED
  BY <1>2, <1>3, <1>4, <1>5 DEF blfVars, StreamInv

(* The invariant holds before the file is opened.                          *)
LEMMA InitStream == Init => StreamInv
<1> SUFFICES ASSUME Init PROVE StreamInv
  OBVIOUS
<1>1. /\ stream \in Streams /\ filePos = 0 /\ Whole
      /\ containerData = Blf!Empty /\ remain = Blf!Empty /\ blfPc = "open"
  BY DEF Init, Blf!Init, Whole
<1>2. Blf!StreamEnd \in Nat
  BY <1>1, EndFacts
<1>3. remain.lo = 0 /\ remain.hi = 0 /\ Blf!Size(remain) = 0
      /\ containerData.lo = 0 /\ containerData.hi = 0
      /\ DOMAIN containerData = {"lo", "hi"}
  BY <1>1 DEF Blf!Empty, Blf!Size
<1>4. BytesOK
  BY <1>1, <1>2, <1>3 DEF BytesOK
<1>5. ~Blf!CutsPadding(filePos)
  <2>1. \A k \in DOMAIN stream : ~(stream[k].at + stream[k].size <= 0)
    BY <1>1, ObjectType
  <2>2. QED
    BY <1>1, <2>1 DEF Blf!CutsPadding, Blf!End
<1>6. AtObject(0)
  <2>1. CASE stream = <<>>
    BY <2>1 DEF AtObject, Blf!StreamEnd
  <2>2. CASE stream # <<>>
    <3>1. stream \in Seq([at : Nat, size : Nat, can : BOOLEAN])
      BY <1>1, FileAssumptions DEF Blf!StreamsAssumption
    <3>2. 1 \in DOMAIN stream
      BY <2>2, <3>1, EmptySeq, LenProperties
    <3>3. QED
      BY <1>1, <3>2, ObjectType DEF AtObject
  <2>3. QED
    BY <2>1, <2>2
<1>7. QED
  BY <1>1, <1>3, <1>4, <1>5, <1>6 DEF StreamInv, Adjacent, Resumes

(***************************************************************************)
(* Bytes from different places of a .blf file are parsed as one object     *)
(* only if a container was skipped, or one ended before or in a padding,   *)
(* wherever else the containers are cut and whatever the objects' sizes.   *)
(***************************************************************************)
THEOREM ParserMixesOnlyAfterLoss == Spec => []MixedOnlyAfterLoss
<1>1. Init => StreamInv
  BY InitStream
<1>2. StreamInv /\ [Next]_vars => StreamInv'
  <2> SUFFICES ASSUME StreamInv, [Next]_vars PROVE StreamInv'
    OBVIOUS
  <2>1. CASE BlfParser(Blf!Next)
    BY <2>1, BlfStep DEF BlfParser
  <2>2. CASE UNCHANGED blfVars
    BY <2>2, StreamAlone
  <2>3. QED
    BY <2>1, <2>2 DEF Next, TextDriver, NullDriver, vars
<1>3. StreamInv => MixedOnlyAfterLoss
  BY DEF StreamInv, MixedOnlyAfterLoss, Blf!MixedOnlyAfterLoss
<1>4. QED
  BY <1>1, <1>2, <1>3, PTL DEF Spec

-----------------------------------------------------------------------------
(* Ranks: one after the other, from 1 to the number of messages.           *)
LEMMA RankFacts ==
  ASSUME NEW n \in Nat, NEW S, S \subseteq 1 .. n
  PROVE  /\ Cardinality(S) \in Nat
         /\ \A k \in S : Rank(S, k) \in 1 .. Cardinality(S)
         /\ \A j, k \in S : j < k => Rank(S, j) < Rank(S, k)
         /\ \A r \in 1 .. Cardinality(S) : \E k \in S : Rank(S, k) = r
<1> DEFINE N == Cardinality(S)
           Below(k) == {j \in S : j <= k}
           rank == [k \in S |-> Rank(S, k)]
<1>1. S \subseteq Int /\ IsFiniteSet(S) /\ N \in Nat
  <2>1. 1 \in Int /\ n \in Int
    OBVIOUS
  <2>2. IsFiniteSet(1 .. n)
    BY <2>1, FS_Interval
  <2>3. S \in SUBSET (1 .. n) /\ S \subseteq Int
    OBVIOUS
  <2>4. IsFiniteSet(S)
    BY <2>2, <2>3, FS_Subset
  <2>5. QED
    BY <2>3, <2>4, FS_CardinalityType
<1>0. \A k : Rank(S, k) = Cardinality(Below(k))
  BY DEF Rank
<1>2. ASSUME NEW k \in S
      PROVE  IsFiniteSet(Below(k)) /\ Rank(S, k) \in 1 .. N
  <2>1. Below(k) \in SUBSET S /\ Below(k) # {}
    BY <1>1
  <2>2. IsFiniteSet(Below(k)) /\ Cardinality(Below(k)) <= N
    BY <1>1, <2>1, FS_Subset
  <2>3. Cardinality(Below(k)) \in Nat /\ Cardinality(Below(k)) # 0
    BY <2>1, <2>2, FS_CardinalityType, FS_EmptySet
  <2>4. Rank(S, k) = Cardinality(Below(k))
    BY <1>0
  <2> HIDE DEF Below, N
  <2>5. QED
    BY <1>1, <2>2, <2>3, <2>4
<1>3. ASSUME NEW j \in S, NEW k \in S, j < k PROVE Rank(S, j) < Rank(S, k)
  <2>0. \A p \in S : p \in Int
    BY <1>1
  <2>1. Below(j) \in SUBSET Below(k) /\ Below(j) # Below(k)
    <3>1. \A p \in Below(j) : p \in Below(k)
      BY <1>3, <2>0
    <3>2. k \in Below(k) /\ k \notin Below(j)
      BY <1>3, <2>0
    <3>3. QED
      BY <3>1, <3>2
  <2>2. /\ Cardinality(Below(j)) <= Cardinality(Below(k))
        /\ Cardinality(Below(k)) # Cardinality(Below(j))
    BY <1>2, <2>1, FS_Subset
  <2>3. Rank(S, j) \in Int /\ Rank(S, k) \in Int
    <3> HIDE DEF N, Below, rank
    <3>1. QED
      BY <1>1, <1>2
  <2>4. Rank(S, j) = Cardinality(Below(j)) /\ Rank(S, k) = Cardinality(Below(k))
    BY <1>0
  <2> HIDE DEF Below
  <2>5. QED
    BY <2>2, <2>3, <2>4
<1>4. rank \in Surjection(S, 1 .. N)
  <2>1. rank \in [S -> 1 .. N]
    BY <1>2
  <2>2. ASSUME NEW j \in S, NEW k \in S, rank[j] = rank[k] PROVE j = k
    <3>0. rank[j] = Rank(S, j) /\ rank[k] = Rank(S, k)
      OBVIOUS
    <3>1. j \in Int /\ k \in Int /\ Rank(S, j) \in Int /\ Rank(S, j) = Rank(S, k)
      <4>1. j \in Int /\ k \in Int
        BY <1>1
      <4>2. Rank(S, j) = Rank(S, k)
        BY <2>2, <3>0, Zenon
      <4> HIDE DEF rank, N, Below
      <4>3. Rank(S, j) \in Int
        BY <1>1, <1>2
      <4>4. QED
        BY <4>1, <4>2, <4>3
    <3>2. ~(j < k) /\ ~(k < j)
      <4> HIDE DEF rank, N, Below
      <4>1. QED
        BY <1>3, <3>1
    <3>3. QED
      BY <3>1, <3>2
  <2> HIDE DEF rank
  <2>3. rank \in Injection(S, 1 .. N)
    BY <2>1, <2>2 DEF Injection, IsInjective
  <2>4. IsFiniteSet(1 .. N) /\ Cardinality(1 .. N) = N
    <3>1. 1 \in Int /\ N \in Int
      BY <1>1
    <3>2. QED
      BY <1>1, <3>1, FS_Interval
  <2>5. QED
    BY <2>3, <2>4, FS_Injection
<1>5. \A r \in 1 .. N : \E k \in S : Rank(S, k) = r
  <2>1. \A r \in 1 .. N : \E k \in S : rank[k] = r
    <3> HIDE DEF rank, N
    <3>1. QED
      BY <1>4 DEF Surjection
  <2>2. QED
    BY <2>1
<1> HIDE DEF N
<1>6. QED
  BY <1>1, <1>2, <1>3, <1>5 DEF N

(* The messages grow at the end of the file.                               *)
GrowTo(messages, more) ==
  messages \subseteq more /\ \A i \in messages, j \in more \ messages : i < j

(* Messages that are met later leave the ranks of the others.              *)
LEMMA RankKept ==
  ASSUME NEW n \in Nat, NEW S, NEW S2, GrowTo(S, S2), S2 \subseteq 1 .. n
  PROVE  /\ \A k \in S : Rank(S2, k) = Rank(S, k)
         /\ Cardinality(S) <= Cardinality(S2)
<1> USE DEF GrowTo
<1>1. ASSUME NEW k \in S PROVE Rank(S2, k) = Rank(S, k)
  <2>0. k \in S2 /\ \A j \in S2 : j \in Int
    BY <1>1
  <2>1. ASSUME NEW j \in S2, j <= k PROVE j \in S
    <3>1. j \notin S => k < j
      BY <1>1, <2>1
    <3>2. QED
      BY <2>0, <2>1, <3>1
  <2>2. QED
    BY <2>0, <2>1 DEF Rank
<1>2. IsFiniteSet(S2)
  <2>1. IsFiniteSet(1 .. n) /\ S2 \in SUBSET (1 .. n)
    <3>1. 1 \in Int /\ n \in Int
      OBVIOUS
    <3>2. QED
      BY <3>1, FS_Interval
  <2>2. QED
    BY <2>1, FS_Subset
<1>3. Cardinality(S) <= Cardinality(S2)
  <2>1. S \in SUBSET S2
    OBVIOUS
  <2>2. QED
    BY <1>2, <2>1, FS_Subset
<1>4. QED
  BY <1>1, <1>3

(* The messages are in the order of the file.                              *)
InOrder(messages) == \A i, j \in DOMAIN messages : i < j => messages[i] < messages[j]

(* The ranks of the messages taken, and which messages are behind them.    *)
LEMMA LastRank ==
  ASSUME NEW n \in Nat, NEW S, S \subseteq 1 .. n, NEW q \in Seq(S), InOrder(q)
  PROVE  LET last == Reader!LastRead(RanksOf(S, q))
         IN  /\ Len(q) \in Nat /\ DOMAIN q = 1 .. Len(q)
             /\ \A i \in DOMAIN q : q[i] \in S
             /\ RanksOf(S, q) \in Seq(1 .. Cardinality(S))
             /\ Len(RanksOf(S, q)) = Len(q)
             /\ last \in 0 .. Cardinality(S)
             /\ \A k \in S : last < Rank(S, k) <=> \A i \in DOMAIN q : q[i] < k
<1> DEFINE N == Cardinality(S)
           ranks == RanksOf(S, q)
           last == Reader!LastRead(ranks)
<1>1. /\ N \in Nat
      /\ \A k \in S : Rank(S, k) \in 1 .. N
      /\ \A j, k \in S : j < k => Rank(S, j) < Rank(S, k)
  BY RankFacts
<1>2. /\ Len(q) \in Nat /\ DOMAIN q = 1 .. Len(q)
      /\ \A i \in DOMAIN q : q[i] \in S
  BY LenProperties, ElementOfSeq
<1>3. /\ ranks \in Seq(1 .. N) /\ Len(ranks) = Len(q)
      /\ \A i \in DOMAIN q : ranks[i] = Rank(S, q[i])
  <2>1. ranks = [i \in 1 .. Len(q) |-> Rank(S, q[i])]
    BY <1>2 DEF RanksOf
  <2> HIDE DEF N, ranks
  <2>2. \A i \in 1 .. Len(q) : Rank(S, q[i]) \in 1 .. N
    BY <1>1, <1>2
  <2>3. ranks \in Seq(1 .. N)
    BY <1>2, <2>1, <2>2, IsASeq
  <2>4. DOMAIN ranks = 1 .. Len(q) /\ DOMAIN ranks = 1 .. Len(ranks) /\ Len(ranks) \in Nat
    BY <2>1, <2>3, LenProperties
  <2>5. QED
    BY <1>2, <2>1, <2>3, <2>4
<1> HIDE DEF N, ranks
<1>4. \A k \in S : k \in Int
  OBVIOUS
<1>5. CASE q = <<>>
  <2>1. Len(q) = 0 /\ ranks = <<>>
    BY <1>2, <1>3, <1>5, EmptySeq
  <2>2. last = 0
    BY <2>1 DEF Reader!LastRead
  <2> HIDE DEF last
  <2>3. QED
    BY <1>1, <1>2, <1>3, <2>1, <2>2 DEF N, ranks, last
<1>6. CASE q # <<>>
  <2>1. Len(q) \in DOMAIN q /\ ranks # <<>>
    BY <1>2, <1>3, <1>6, EmptySeq
  <2>2. last = Rank(S, q[Len(q)])
    BY <1>3, <2>1 DEF Reader!LastRead
  <2> HIDE DEF last
  <2> DEFINE m == q[Len(q)]
  <2>3. m \in S /\ last \in 1 .. N
    BY <1>1, <1>2, <2>1, <2>2
  <2>4. \A i \in DOMAIN q : q[i] = m \/ q[i] < m
    BY <1>2, <2>1 DEF InOrder
  <2>5. ASSUME NEW k \in S
        PROVE  last < Rank(S, k) <=> \A i \in DOMAIN q : q[i] < k
    <3>1. m < k => last < Rank(S, k)
      BY <1>1, <2>2, <2>3
    <3>2. k < m => Rank(S, k) < last
      BY <1>1, <2>2, <2>3
    <3>3. k \in Int /\ m \in Int /\ Rank(S, k) \in Int /\ last \in Int
      <4> HIDE DEF m
      <4>1. k \in Int /\ m \in Int
        BY <1>4, <2>3
      <4>2. Rank(S, k) \in Int /\ last \in Int
        BY <1>1, <2>3
      <4>3. QED
        BY <4>1, <4>2
    <3>4. k = m => last = Rank(S, k)
      BY <2>2
    <3> HIDE DEF m
    <3>5. last < Rank(S, k) <=> m < k
      BY <3>1, <3>2, <3>3, <3>4
    <3>6. m < k <=> \A i \in DOMAIN q : q[i] < k
      <4>1. (\A i \in DOMAIN q : q[i] < k) => m < k
        BY <2>1 DEF m
      <4>2. ASSUME m < k, NEW i \in DOMAIN q PROVE q[i] < k
        <5>1. q[i] \in Int
          BY <1>2, <1>4
        <5>2. QED
          BY <2>4, <3>3, <4>2, <5>1
      <4>3. QED
        BY <4>1, <4>2
    <3>7. QED
      BY <3>5, <3>6
  <2>6. QED
    BY <1>1, <1>2, <1>3, <2>3, <2>5 DEF N, ranks, last
<1>7. QED
  BY <1>5, <1>6

(* Whatever is behind the messages taken is spoiled, if all others are.    *)
LEMMA NothingLeft ==
  ASSUME NEW n \in Nat, NEW S, S \subseteq 1 .. n, NEW q \in Seq(S), InOrder(q),
         NEW T, NEW to \in 0 .. Cardinality(S),
         \A j \in S : \/ Rank(S, j) > to \/ j \in T \/ \E i \in DOMAIN q : q[i] = j
  PROVE  Reader!LastRead(RanksOf(S, q)) + 1 .. to \subseteq Ranks(S, T)
<1> DEFINE last == Reader!LastRead(RanksOf(S, q))
           N == Cardinality(S)
<1>1. /\ last \in 0 .. N /\ DOMAIN q = 1 .. Len(q)
      /\ \A i \in DOMAIN q : q[i] \in S
      /\ \A k \in S : last < Rank(S, k) <=> \A i \in DOMAIN q : q[i] < k
  BY LastRank
<1>2. N \in Nat /\ \A r \in 1 .. N : \E k \in S : Rank(S, k) = r
  BY RankFacts
<1>3. \A k \in S : ~(k < k)
  OBVIOUS
<1>4. to \in 0 .. N
  OBVIOUS
<1> HIDE DEF last, N
<1>5. ASSUME NEW r \in last + 1 .. to PROVE r \in Ranks(S, T)
  <2>1. r \in 1 .. N /\ last < r /\ ~(r > to)
    BY <1>1, <1>2, <1>4
  <2>2. PICK k \in S : Rank(S, k) = r
    BY <1>2, <2>1
  <2>3. \A i \in DOMAIN q : q[i] < k
    BY <1>1, <2>1, <2>2
  <2>4. \A i \in DOMAIN q : q[i] # k
    BY <1>3, <2>3
  <2>5. k \in T
    BY <2>1, <2>2, <2>4
  <2>6. QED
    BY <2>2, <2>5 DEF Ranks
<1>6. QED
  BY <1>5 DEF last

(* None of the messages is taken, or one behind those taken before; those  *)
(* between them are spoiled.                                               *)
TakesNext(messages, some, before, after) ==
  \/ after = before
  \/ \E k \in messages :
       /\ \A i \in DOMAIN before : before[i] < k
       /\ \A j \in messages :
            j < k => j \in some \/ \E i \in DOMAIN before : before[i] = j
       /\ after = Append(before, k)

(* What LogReader allows, in terms of the ranks.                           *)
ReadsTo(S, T, q, S2, T2, q2) ==
  LET last == Reader!LastRead(RanksOf(S, q))
  IN  /\ Cardinality(S2) \in Nat /\ Cardinality(S2) >= Cardinality(S)
      /\ Ranks(S, T) \subseteq Ranks(S2, T2)
      /\ Ranks(S2, T2) \subseteq 1 .. Cardinality(S2)
      /\ \/ RanksOf(S2, q2) = RanksOf(S, q)
         \/ \E r \in last + 1 .. Cardinality(S2) :
              /\ last + 1 .. r - 1 \subseteq Ranks(S2, T2)
              /\ RanksOf(S2, q2) = Append(RanksOf(S, q), r)

(* Reading on, which may meet messages behind the others, spoil some and   *)
(* take one: what that is of their ranks.                                  *)
LEMMA ReadStep ==
  ASSUME NEW n \in Nat, NEW S, NEW S2, GrowTo(S, S2), S2 \subseteq 1 .. n,
         NEW T, NEW T2, T \subseteq S, T \subseteq T2, T2 \subseteq S2,
         NEW q \in Seq(S), InOrder(q), NEW q2, TakesNext(S2, T2, q, q2)
  PROVE  ReadsTo(S, T, q, S2, T2, q2)
<1>0. S \subseteq S2
  BY DEF GrowTo
<1> DEFINE N == Cardinality(S2)
           last == Reader!LastRead(RanksOf(S, q))
<1>1. /\ N \in Nat /\ \A k \in S2 : Rank(S2, k) \in 1 .. N
      /\ \A j, k \in S2 : j < k => Rank(S2, j) < Rank(S2, k)
  BY RankFacts
<1>2. /\ \A k \in S : Rank(S2, k) = Rank(S, k)
      /\ Cardinality(S) <= N
  BY RankKept
<1>3. Cardinality(S) \in Nat
  <2>1. S \subseteq 1 .. n
    BY <1>0
  <2>2. QED
    BY <2>1, RankFacts
<1>4. q \in Seq(S2)
  BY <1>0, SeqMonotonic
<1>5. /\ Len(q) \in Nat /\ DOMAIN q = 1 .. Len(q)
      /\ \A i \in DOMAIN q : q[i] \in S
      /\ RanksOf(S, q) \in Seq(1 .. Cardinality(S))
  <2>1. S \subseteq 1 .. n
    BY <1>0
  <2>2. QED
    BY <2>1, LastRank
<1>6. RanksOf(S2, q) = RanksOf(S, q)
  BY <1>2, <1>5 DEF RanksOf
<1>7. /\ RanksOf(S2, q) \in Seq(1 .. N) /\ Len(RanksOf(S2, q)) = Len(q)
      /\ last \in 0 .. N
      /\ \A k \in S2 : last < Rank(S2, k) <=> \A i \in DOMAIN q : q[i] < k
  BY <1>4, <1>6, LastRank
<1>8. Ranks(S, T) \subseteq Ranks(S2, T2) /\ Ranks(S2, T2) \subseteq 1 .. N
  BY <1>0, <1>1, <1>2 DEF Ranks
<1>9. ASSUME NEW k \in S2,
             \A i \in DOMAIN q : q[i] < k,
             \A j \in S2 : j < k => j \in T2 \/ \E i \in DOMAIN q : q[i] = j,
             q2 = Append(q, k)
      PROVE  \E r \in last + 1 .. N :
               /\ last + 1 .. r - 1 \subseteq Ranks(S2, T2)
               /\ RanksOf(S2, q2) = Append(RanksOf(S, q), r)
  <2> DEFINE r == Rank(S2, k)
  <2>1. r \in 1 .. N /\ last < r
    BY <1>1, <1>7, <1>9
  <2>2. RanksOf(S2, q2) = Append(RanksOf(S2, q), r)
    <3>1. /\ q2 \in Seq(S2) /\ Len(q2) = Len(q) + 1 /\ DOMAIN q2 = 1 .. Len(q) + 1
          /\ \A i \in 1 .. Len(q) : q2[i] = q[i]
          /\ q2[Len(q) + 1] = k
      BY <1>4, <1>9, AppendProperties, LenProperties
    <3> DEFINE long == Append(RanksOf(S2, q), r)
               whole == RanksOf(S2, q2)
    <3>2. /\ long \in Seq(1 .. N) /\ Len(long) = Len(q) + 1 /\ DOMAIN long = 1 .. Len(q) + 1
          /\ \A i \in 1 .. Len(q) : long[i] = RanksOf(S2, q)[i]
          /\ long[Len(q) + 1] = r
      <4> HIDE DEF r, N
      <4>1. QED
        BY <1>5, <1>7, <2>1, AppendProperties, LenProperties
    <3>3. /\ whole = [i \in 1 .. Len(q) + 1 |-> Rank(S2, q2[i])]
          /\ \A i \in 1 .. Len(q) : RanksOf(S2, q)[i] = Rank(S2, q[i])
      BY <1>5, <3>1 DEF RanksOf
    <3>4. Len(q) + 1 \in Nat
      BY <1>5
    <3>5. long = [i \in 1 .. Len(q) + 1 |-> long[i]]
      <4>1. long \in [1 .. Len(long) -> 1 .. N]
        <5> HIDE DEF long, N
        <5>1. QED
          BY <3>2, LenProperties
      <4> HIDE DEF long
      <4>2. QED
        BY <3>2, <4>1
    <3>6. \A i \in 1 .. Len(q) + 1 : long[i] = Rank(S2, q2[i])
      <4> SUFFICES ASSUME NEW i \in 1 .. Len(q) + 1 PROVE long[i] = Rank(S2, q2[i])
        OBVIOUS
      <4> HIDE DEF long
      <4>1. CASE i = Len(q) + 1
        BY <3>1, <3>2, <4>1
      <4>2. CASE i # Len(q) + 1
        <5>1. i \in 1 .. Len(q)
          BY <1>5, <4>2
        <5>2. QED
          BY <3>1, <3>2, <3>3, <5>1
      <4>3. QED
        BY <4>1, <4>2
    <3> HIDE DEF long, whole
    <3>7. QED
      BY <3>3, <3>5, <3>6 DEF long, whole
  <2>3. last + 1 .. r - 1 \subseteq Ranks(S2, T2)
    <3>1. r - 1 \in 0 .. N
      <4> HIDE DEF r, N
      <4>1. QED
        BY <1>1, <2>1
    <3>2. ASSUME NEW j \in S2
          PROVE  \/ Rank(S2, j) > r - 1 \/ j \in T2 \/ \E i \in DOMAIN q : q[i] = j
      <4>1. Rank(S2, j) \in Nat /\ r \in Nat
        <5> HIDE DEF r, N
        <5>1. QED
          BY <1>1, <2>1
      <4>2. k < j => r < Rank(S2, j)
        BY <1>1
      <4>3. j < k \/ j = k \/ k < j
        BY <1>4
      <4> HIDE DEF r
      <4>4. k = j => r = Rank(S2, j)
        BY DEF r
      <4>5. QED
        BY <1>9, <4>1, <4>2, <4>3, <4>4
    <3> HIDE DEF r
    <3>3. Reader!LastRead(RanksOf(S2, q)) + 1 .. r - 1 \subseteq Ranks(S2, T2)
      BY <1>4, <3>1, <3>2, NothingLeft
    <3>4. QED
      BY <1>6, <3>3
  <2> HIDE DEF last, r, N
  <2>4. r \in last + 1 .. N
    BY <1>1, <1>7, <2>1
  <2>5. QED
    BY <1>6, <2>2, <2>3, <2>4
<1> HIDE DEF last, N
<1>10. q2 = q => RanksOf(S2, q2) = RanksOf(S, q)
  BY <1>6
<1>11. Cardinality(S2) \in Nat /\ Cardinality(S2) >= Cardinality(S)
  BY <1>1, <1>2, <1>3 DEF N
<1>12. QED
  BY <1>8, <1>9, <1>10, <1>11 DEF last, N, TakesNext, ReadsTo

(* A step that reads on, in the terms of LogReader.                        *)
LEMMA ReadsOn ==
  ASSUME NEW n \in Nat, GrowTo(MessagesMet, MessagesMet'), MessagesMet' \subseteq 1 .. n,
         SpoiledMessages \subseteq MessagesMet, SpoiledMessages \subseteq SpoiledMessages',
         SpoiledMessages' \subseteq MessagesMet',
         Taken \in Seq(MessagesMet), InOrder(Taken),
         TakesNext(MessagesMet', SpoiledMessages', Taken, Taken'),
         textPc # "done", blfPc # "done", textPc' # "done", blfPc' # "done"
  PROVE  Reader!ReadOn
<1>1. PICK S, S2, T, T2, q, q2 :
        /\ S = MessagesMet /\ S2 = MessagesMet'
        /\ T = SpoiledMessages /\ T2 = SpoiledMessages'
        /\ q = Taken /\ q2 = Taken'
  OBVIOUS
<1>2. /\ GrowTo(S, S2) /\ S2 \subseteq 1 .. n
      /\ T \subseteq S /\ T \subseteq T2 /\ T2 \subseteq S2
      /\ q \in Seq(S) /\ InOrder(q) /\ TakesNext(S2, T2, q, q2)
  <2>1. InOrder(q)
    BY <1>1 DEF InOrder
  <2>2. TakesNext(S2, T2, q, q2)
    BY <1>1
  <2>3. QED
    BY <1>1, <2>1, <2>2
<1>3. ReadsTo(S, T, q, S2, T2, q2)
  BY <1>2, ReadStep
<1>4. /\ Cardinality(MessagesMet) = Cardinality(S)
      /\ Ranks(MessagesMet, SpoiledMessages) = Ranks(S, T)
      /\ RanksOf(MessagesMet, Taken) = RanksOf(S, q)
  BY <1>1
<1>5. /\ Cardinality(MessagesMet)' = Cardinality(S2)
      /\ Ranks(MessagesMet, SpoiledMessages)' = Ranks(S2, T2)
      /\ RanksOf(MessagesMet, Taken)' = RanksOf(S2, q2)
  BY <1>1 DEF Ranks, RanksOf, Rank
<1>6. ~(textPc = "done" \/ blfPc = "done")
      /\ (textPc = "done" \/ blfPc = "done")' = (textPc = "done" \/ blfPc = "done")
  OBVIOUS
<1>7. QED
  <2> DEFINE last == Reader!LastRead(RanksOf(MessagesMet, Taken))
  <2>1. last = Reader!LastRead(RanksOf(S, q))
    BY <1>4
  <2> HIDE DEF last
  <2>2. /\ Cardinality(MessagesMet)' \in Nat
        /\ Cardinality(MessagesMet)' >= Cardinality(MessagesMet)
        /\ Ranks(MessagesMet, SpoiledMessages) \subseteq Ranks(MessagesMet, SpoiledMessages)'
        /\ Ranks(MessagesMet, SpoiledMessages)' \subseteq 1 .. Cardinality(MessagesMet)'
    BY <1>3, <1>4, <1>5 DEF ReadsTo
  <2>3. \/ RanksOf(MessagesMet, Taken)' = RanksOf(MessagesMet, Taken)
        \/ \E r \in last + 1 .. Cardinality(MessagesMet)' :
             /\ last + 1 .. r - 1 \subseteq Ranks(MessagesMet, SpoiledMessages)'
             /\ RanksOf(MessagesMet, Taken)' = Append(RanksOf(MessagesMet, Taken), r)
    BY <1>3, <1>4, <1>5, <2>1, Zenon DEF ReadsTo
  <2>4. QED
    BY <1>6, <2>2, <2>3, Zenon DEF Reader!ReadOn, last

(* The end of the file, in the terms of LogReader.                         *)
LEMMA Finishes ==
  ASSUME NEW n \in Nat, MessagesMet \subseteq 1 .. n,
         Taken \in Seq(MessagesMet), InOrder(Taken),
         \A j \in MessagesMet :
           j \in SpoiledMessages \/ \E i \in DOMAIN Taken : Taken[i] = j,
         UNCHANGED <<MessagesMet, SpoiledMessages, Taken>>,
         textPc # "done", blfPc # "done", (textPc = "done" \/ blfPc = "done")'
  PROVE  Reader!Finish
<1>1. PICK S, T, q : S = MessagesMet /\ T = SpoiledMessages /\ q = Taken
  OBVIOUS
<1>2. /\ S \subseteq 1 .. n /\ q \in Seq(S) /\ InOrder(q)
      /\ \A j \in S : j \in T \/ \E i \in DOMAIN q : q[i] = j
  BY <1>1 DEF InOrder
<1>3. Cardinality(S) \in 0 .. Cardinality(S)
  <2>1. PICK N : N = Cardinality(S)
    OBVIOUS
  <2>2. N \in Nat
    BY <1>2, <2>1, RankFacts
  <2>3. N \in 0 .. N
    BY <2>2
  <2>4. QED
    BY <2>1, <2>3
<1>4. Reader!LastRead(RanksOf(S, q)) + 1 .. Cardinality(S) \subseteq Ranks(S, T)
  BY <1>2, <1>3, NothingLeft
<1>5. UNCHANGED <<Cardinality(MessagesMet), Ranks(MessagesMet, SpoiledMessages),
                  RanksOf(MessagesMet, Taken)>>
  BY DEF Ranks, RanksOf, Rank
<1>6. ~(textPc = "done" \/ blfPc = "done") /\ (textPc = "done" \/ blfPc = "done")' = TRUE
  OBVIOUS
<1>7. QED
  BY <1>1, <1>4, <1>5, <1>6 DEF Reader!Finish, Reader!LastRead

(* A step of which the reader's promise says nothing.                      *)
LEMMA ReadsNothing ==
  ASSUME UNCHANGED <<MessagesMet, SpoiledMessages, Taken>>,
         (textPc = "done" \/ blfPc = "done")' = (textPc = "done" \/ blfPc = "done")
  PROVE  UNCHANGED Reader!vars
BY DEF Reader!vars, Ranks, RanksOf, Rank

-----------------------------------------------------------------------------
(* A text file has given every line that is a message and is not spoiled,  *)
(* up to one whose data overflow; those taken are in order.                *)
LinesInv ==
  /\ \A i \in DOMAIN textMessages : textMessages[i].line \in Text!MessageLines
  /\ \A i, j \in DOMAIN textMessages : i < j => textMessages[i].line < textMessages[j].line
  /\ textPc \in {"open", "reading"} =>
       \A k \in Text!MessageLines :
         lines[k].dlc > Text!CAN_MAX_DLC \/ \E i \in DOMAIN textMessages : textMessages[i].line = k

(* The lines that are messages, before and after another one is read.      *)
LEMMA LineAppended ==
  ASSUME lines \in Seq(Lines), NEW line \in Lines, lines' = Append(lines, line)
  PROVE  /\ Len(lines) \in Nat /\ DOMAIN lines = 1 .. Len(lines)
         /\ lines' \in Seq(Lines) /\ DOMAIN lines' = 1 .. Len(lines) + 1
         /\ \A k \in DOMAIN lines : lines'[k] = lines[k] /\ k # Len(lines) + 1 /\ k < Len(lines) + 1
         /\ lines'[Len(lines) + 1] = line
         /\ Text!MessageLines \subseteq DOMAIN lines
         /\ \A k : k \in Text!MessageLines' <=>
                     k \in Text!MessageLines \/ (k = Len(lines) + 1 /\ line.kind = "message")
<1>1. /\ Len(lines) \in Nat /\ DOMAIN lines = 1 .. Len(lines)
      /\ lines' \in Seq(Lines) /\ Len(lines') = Len(lines) + 1
      /\ DOMAIN lines' = 1 .. Len(lines')
      /\ \A k \in 1 .. Len(lines) : lines'[k] = lines[k]
      /\ lines'[Len(lines) + 1] = line
  BY AppendProperties, LenProperties
<1>2. \A k \in DOMAIN lines : k # Len(lines) + 1 /\ k < Len(lines) + 1
  BY <1>1
<1>3. Text!MessageLines \subseteq DOMAIN lines
  BY DEF Text!MessageLines
<1>4. ASSUME NEW k
      PROVE  k \in Text!MessageLines' <=>
               k \in Text!MessageLines \/ (k = Len(lines) + 1 /\ line.kind = "message")
  <2>1. k \in DOMAIN lines' <=> k \in DOMAIN lines \/ k = Len(lines) + 1
    BY <1>1
  <2>2. k \in DOMAIN lines => lines'[k] = lines[k]
    BY <1>1
  <2>3. /\ k \in Text!MessageLines' <=> k \in DOMAIN lines' /\ lines'[k].kind = "message"
        /\ k \in Text!MessageLines <=> k \in DOMAIN lines /\ lines[k].kind = "message"
    BY DEF Text!MessageLines
  <2>4. QED
    BY <1>1, <1>2, <2>1, <2>2, <2>3
<1>5. QED
  BY <1>1, <1>2, <1>3, <1>4

(* One turn of TextDriver::parse keeps it.                                 *)
LEMMA LinesStep ==
  ASSUME TextInv, LinesInv, Text!Next
  PROVE  LinesInv'
<1>1. CASE Text!Open \/ Text!AtEnd
  BY <1>1 DEF LinesInv, Text!Open, Text!AtEnd, Text!MessageLines
<1>2. ASSUME NEW line \in Lines, Text!ParseLine(line) PROVE LinesInv'
  <2> DEFINE Message == [number : Nat, dir : {"RX", "TX"}, dlc : Int, line : Nat]
             last == Len(lines) + 1
  <2>0. lines' = Append(lines, line) /\ textPc = "reading" /\ lines \in Seq(Lines)
    BY <1>2 DEF Text!ParseLine, TextInv
  <2>1. /\ Len(lines) \in Nat /\ DOMAIN lines = 1 .. Len(lines)
        /\ lines' \in Seq(Lines)
        /\ \A k \in DOMAIN lines : lines'[k] = lines[k] /\ k # last /\ k < last
        /\ lines'[last] = line
        /\ Text!MessageLines \subseteq DOMAIN lines
        /\ \A k : k \in Text!MessageLines' <=>
                    k \in Text!MessageLines \/ (k = last /\ line.kind = "message")
    BY <2>0, LineAppended
  <2>2. line.dlc \in Nat
    BY FileAssumptions DEF Text!LinesAssumption
  <2> HIDE DEF last
  <2>3. CASE /\ UNCHANGED textMessages
             /\ textPc' = "undefined" \/ ~Text!Accepted(line)
    <3>1. textPc' # "undefined" /\ line.kind = "message" => line.dlc > Text!CAN_MAX_DLC
      BY <2>2, <2>3 DEF Text!Accepted, Text!Dlc, Text!CAN_MAX_DLC
    <3>2. \A k \in Text!MessageLines : k \in Text!MessageLines' /\ lines'[k] = lines[k]
      BY <2>1
    <3>3. \A i \in DOMAIN textMessages : textMessages[i].line \in Text!MessageLines'
      BY <3>2 DEF LinesInv
    <3>4. ASSUME textPc' \in {"open", "reading"}, NEW k \in Text!MessageLines'
          PROVE  \/ lines'[k].dlc > Text!CAN_MAX_DLC
                 \/ \E i \in DOMAIN textMessages : textMessages[i].line = k
      <4>1. CASE k \in Text!MessageLines
        BY <2>0, <3>2, <4>1 DEF LinesInv
      <4>2. CASE k = last /\ line.kind = "message"
        BY <2>1, <3>1, <3>4, <4>2
      <4>3. QED
        BY <2>1, <4>1, <4>2
    <3>5. textMessages' = textMessages
      BY <2>3
    <3>6. QED
      BY <2>1, <3>3, <3>4, <3>5 DEF LinesInv, Text!CAN_MAX_DLC
  <2>4. CASE Text!Accepted(line) /\ Text!Accept(line)
    <3>1. PICK m : /\ textMessages' = Append(textMessages, m)
                   /\ m \in Message /\ m.line = last /\ line.kind = "message"
      <4> DEFINE m == [number |-> IF extension = "asc" THEN number ELSE 0,
                       dir |-> Text!Dir(line.dir), dlc |-> Text!Dlc(line), line |-> last]
      <4>1. textMessages' = Append(textMessages, m)
        BY <2>4 DEF Text!Accept, last
      <4>2. m \in Message
        BY <2>0, <2>1, <2>2 DEF Text!Dir, Text!Dlc, last, TextInv
      <4>3. m.line = last /\ line.kind = "message"
        BY <2>4 DEF Text!Accepted
      <4> HIDE DEF m
      <4>4. QED
        BY <4>1, <4>2, <4>3
    <3>2. /\ textMessages \in Seq(Message) /\ textMessages' \in Seq(Message)
          /\ Len(textMessages) \in Nat
          /\ DOMAIN textMessages = 1 .. Len(textMessages)
          /\ DOMAIN textMessages' = 1 .. Len(textMessages) + 1
          /\ \A i \in 1 .. Len(textMessages) : textMessages'[i] = textMessages[i]
          /\ textMessages'[Len(textMessages) + 1] = m
      BY <3>1, AppendProperties, LenProperties DEF TextInv
    <3>3. /\ DOMAIN textMessages \subseteq DOMAIN textMessages'
          /\ \A i \in DOMAIN textMessages :
               textMessages'[i] = textMessages[i] /\ i # Len(textMessages) + 1
          /\ \A i \in DOMAIN textMessages' :
               i \in DOMAIN textMessages \/ i = Len(textMessages) + 1
          /\ Len(textMessages) + 1 \in DOMAIN textMessages'
      <4>1. DOMAIN textMessages \subseteq DOMAIN textMessages'
        BY <3>2
      <4>2. \A i \in DOMAIN textMessages :
              textMessages'[i] = textMessages[i] /\ i # Len(textMessages) + 1
        BY <3>2
      <4>3. \A i \in 1 .. Len(textMessages) + 1 :
              i \in 1 .. Len(textMessages) \/ i = Len(textMessages) + 1
        BY <3>2
      <4>4. Len(textMessages) + 1 \in 1 .. Len(textMessages) + 1
        BY <3>2
      <4>5. QED
        BY <3>2, <4>1, <4>2, <4>3, <4>4
    <3>4. last \in Text!MessageLines' /\ Text!MessageLines \subseteq Text!MessageLines'
      BY <2>1, <3>1
    <3>5. \A i \in DOMAIN textMessages' : textMessages'[i].line \in Text!MessageLines'
      BY <3>1, <3>2, <3>3, <3>4 DEF LinesInv
    <3>6. ASSUME NEW i \in DOMAIN textMessages', NEW j \in DOMAIN textMessages', i < j
          PROVE  textMessages'[i].line < textMessages'[j].line
      <4>1. i \in DOMAIN textMessages
        BY <3>2, <3>6
      <4>2. CASE j \in DOMAIN textMessages
        BY <3>3, <3>6, <4>1, <4>2 DEF LinesInv
      <4>3. CASE j = Len(textMessages) + 1
        <5>1. textMessages[i].line \in DOMAIN lines
          BY <2>1, <4>1 DEF LinesInv
        <5>2. QED
          BY <2>1, <3>1, <3>2, <3>3, <4>1, <4>3, <5>1
      <4>4. QED
        BY <3>3, <4>2, <4>3
    <3>7. ASSUME NEW k \in Text!MessageLines'
          PROVE  \/ lines'[k].dlc > Text!CAN_MAX_DLC
                 \/ \E i \in DOMAIN textMessages' : textMessages'[i].line = k
      <4>1. CASE k \in Text!MessageLines
        <5>1. lines'[k] = lines[k]
          BY <2>1, <4>1
        <5>2. \/ lines[k].dlc > Text!CAN_MAX_DLC
              \/ \E i \in DOMAIN textMessages : textMessages[i].line = k
          BY <2>0, <4>1 DEF LinesInv
        <5>3. (\E i \in DOMAIN textMessages : textMessages[i].line = k)
                => \E i \in DOMAIN textMessages' : textMessages'[i].line = k
          BY <3>3
        <5>4. QED
          BY <5>1, <5>2, <5>3
      <4>2. CASE k = last
        BY <3>1, <3>2, <3>3, <4>2
      <4>3. QED
        BY <2>1, <4>1, <4>2
    <3>8. QED
      BY <3>5, <3>6, <3>7 DEF LinesInv, Text!CAN_MAX_DLC
  <2>5. QED
    BY <1>2, <2>3, <2>4 DEF Text!ParseLine, Text!Crash, Text!Reject
<1>3. QED
  BY <1>1, <1>2 DEF Text!Next

(* What a text file has given, in the terms of the refinement.             *)
LEMMA TextTaken ==
  ASSUME TextInv, LinesInv, ~IsBlf
  PROVE  /\ Len(lines) \in Nat /\ DOMAIN lines = 1 .. Len(lines)
         /\ MessagesMet = Text!MessageLines /\ MessagesMet \subseteq 1 .. Len(lines)
         /\ SpoiledMessages = {k \in Text!MessageLines : lines[k].dlc > Text!CAN_MAX_DLC}
         /\ Taken = [i \in DOMAIN textMessages |-> textMessages[i].line]
         /\ Taken \in Seq(MessagesMet) /\ InOrder(Taken)
<1>1. /\ Len(lines) \in Nat /\ DOMAIN lines = 1 .. Len(lines)
      /\ Len(textMessages) \in Nat /\ DOMAIN textMessages = 1 .. Len(textMessages)
  BY LenProperties DEF TextInv
<1>2. /\ MessagesMet = Text!MessageLines
      /\ SpoiledMessages = {k \in Text!MessageLines : lines[k].dlc > Text!CAN_MAX_DLC}
      /\ Taken = [i \in DOMAIN textMessages |-> textMessages[i].line]
  BY DEF MessagesMet, SpoiledMessages, Taken
<1>3. MessagesMet \subseteq 1 .. Len(lines)
  BY <1>1, <1>2 DEF Text!MessageLines
<1>4. Taken \in Seq(MessagesMet)
  <2>1. \A i \in 1 .. Len(textMessages) : textMessages[i].line \in MessagesMet
    BY <1>1, <1>2 DEF LinesInv
  <2>2. Taken = [i \in 1 .. Len(textMessages) |-> textMessages[i].line]
    BY <1>1, <1>2
  <2>3. QED
    BY <1>1, <2>1, <2>2, IsASeq
<1>5. InOrder(Taken)
  BY <1>2 DEF InOrder, LinesInv
<1>6. QED
  BY <1>1, <1>2, <1>3, <1>4, <1>5

(* Every turn of TextDriver::parse is one LogReader allows.                *)
LEMMA TextReads ==
  ASSUME TextInv, LinesInv, Text!Next, ~IsBlf, UNCHANGED extension,
         blfPc = "open", blfPc' = "open"
  PROVE  [Reader!Next]_(Reader!vars)
<1>1. TextInv' /\ LinesInv' /\ ~IsBlf'
  BY TextStep, LinesStep DEF IsBlf
<1>2. /\ Len(lines) \in Nat /\ DOMAIN lines = 1 .. Len(lines)
      /\ MessagesMet = Text!MessageLines /\ MessagesMet \subseteq 1 .. Len(lines)
      /\ SpoiledMessages = {k \in Text!MessageLines : lines[k].dlc > Text!CAN_MAX_DLC}
      /\ Taken = [i \in DOMAIN textMessages |-> textMessages[i].line]
      /\ Taken \in Seq(MessagesMet) /\ InOrder(Taken)
  BY TextTaken
<1>3. /\ MessagesMet' = Text!MessageLines'
      /\ SpoiledMessages' = {k \in Text!MessageLines' : lines'[k].dlc > Text!CAN_MAX_DLC}
      /\ Taken' = [i \in DOMAIN textMessages' |-> textMessages'[i].line]
  BY <1>1 DEF MessagesMet, SpoiledMessages, Taken, Text!CAN_MAX_DLC
<1>4. CASE Text!Open \/ Text!AtEnd
  <2>1. UNCHANGED <<lines, textMessages>>
    BY <1>4 DEF Text!Open, Text!AtEnd
  <2>2. UNCHANGED <<MessagesMet, SpoiledMessages, Taken>>
    BY <1>2, <1>3, <2>1 DEF Text!MessageLines
  <2>3. CASE Text!Open
    <3>1. (textPc = "done" \/ blfPc = "done")' = (textPc = "done" \/ blfPc = "done")
      BY <2>3 DEF Text!Open
    <3>2. QED
      BY <2>2, <3>1, ReadsNothing
  <2>4. CASE Text!AtEnd
    <3>1. textPc = "reading" /\ textPc' = "done"
      BY <2>4 DEF Text!AtEnd
    <3>2. \A j \in MessagesMet :
            j \in SpoiledMessages \/ \E i \in DOMAIN Taken : Taken[i] = j
      BY <1>2, <3>1 DEF LinesInv
    <3>3. Reader!Finish
      BY <1>2, <2>2, <3>1, <3>2, Finishes
    <3>4. QED
      BY <3>3 DEF Reader!Next
  <2>5. QED
    BY <1>4, <2>3, <2>4
<1>5. ASSUME NEW line \in Lines, Text!ParseLine(line) PROVE Reader!ReadOn
  <2> DEFINE last == Len(lines) + 1
  <2>0. /\ lines' = Append(lines, line) /\ textPc = "reading"
        /\ textPc' \in {"reading", "undefined"} /\ lines \in Seq(Lines)
    BY <1>5 DEF Text!ParseLine, Text!Accept, Text!Reject, Text!Crash, TextInv
  <2>1. /\ lines' \in Seq(Lines) /\ DOMAIN lines' = 1 .. last /\ last \in Nat
        /\ \A k \in DOMAIN lines : lines'[k] = lines[k] /\ k # last /\ k < last
        /\ lines'[last] = line
        /\ Text!MessageLines \subseteq DOMAIN lines
        /\ \A k : k \in Text!MessageLines' <=>
                    k \in Text!MessageLines \/ (k = last /\ line.kind = "message")
    BY <1>2, <2>0, LineAppended
  <2> HIDE DEF last
  <2>2. MessagesMet' \subseteq 1 .. last
    BY <1>3, <2>1 DEF Text!MessageLines
  <2>3. GrowTo(MessagesMet, MessagesMet')
    BY <1>2, <1>3, <2>1 DEF GrowTo
  <2>4. SpoiledMessages \subseteq MessagesMet /\ SpoiledMessages' \subseteq MessagesMet'
    BY <1>2, <1>3
  <2>5. SpoiledMessages \subseteq SpoiledMessages'
    BY <1>2, <1>3, <2>1
  <2>6. TakesNext(MessagesMet', SpoiledMessages', Taken, Taken')
    <3>1. CASE textMessages' = textMessages
      BY <1>2, <1>3, <3>1 DEF TakesNext
    <3>2. CASE Text!Accepted(line) /\ Text!Accept(line)
      <4>1. last \in MessagesMet'
        BY <1>3, <2>1, <3>2 DEF Text!Accepted
      <4>2. \A i \in DOMAIN Taken : Taken[i] \in MessagesMet /\ Taken[i] < last
        BY <1>2, <2>1 DEF LinesInv
      <4>3. ASSUME NEW j \in MessagesMet', j < last
            PROVE  j \in SpoiledMessages' \/ \E i \in DOMAIN Taken : Taken[i] = j
        <5>1. j \in Text!MessageLines /\ lines'[j] = lines[j]
          BY <1>3, <2>1, <4>3
        <5>2. \/ lines[j].dlc > Text!CAN_MAX_DLC
              \/ \E i \in DOMAIN textMessages : textMessages[i].line = j
          BY <2>0, <5>1 DEF LinesInv
        <5>3. QED
          BY <1>2, <1>3, <5>1, <5>2
      <4>4. Taken' = Append(Taken, last)
        <5>1. PICK m : textMessages' = Append(textMessages, m) /\ m.line = last
          <6> DEFINE m == [number |-> IF extension = "asc" THEN number ELSE 0,
                           dir |-> Text!Dir(line.dir), dlc |-> Text!Dlc(line), line |-> last]
          <6>1. textMessages' = Append(textMessages, m)
            BY <3>2 DEF Text!Accept, last
          <6>2. m.line = last
            OBVIOUS
          <6> HIDE DEF m
          <6>3. QED
            BY <6>1, <6>2
        <5>2. /\ Len(textMessages) \in Nat
              /\ DOMAIN textMessages = 1 .. Len(textMessages)
          BY LenProperties DEF TextInv
        <5>3. /\ DOMAIN textMessages' = 1 .. Len(textMessages) + 1
              /\ \A i \in 1 .. Len(textMessages) : textMessages'[i] = textMessages[i]
              /\ textMessages'[Len(textMessages) + 1] = m
          BY <5>1, <5>2
        <5>4. Len(Taken) = Len(textMessages) /\ DOMAIN Taken = 1 .. Len(textMessages)
          BY <1>2, <5>2
        <5>5. QED
          BY <1>2, <1>3, <5>1, <5>2, <5>3, <5>4
      <4>5. QED
        BY <4>1, <4>2, <4>3, <4>4 DEF TakesNext
    <3>3. QED
      BY <1>5, <3>1, <3>2 DEF Text!ParseLine, Text!Reject, Text!Crash
  <2>7. QED
    BY <1>2, <2>0, <2>1, <2>2, <2>3, <2>4, <2>5, <2>6, ReadsOn
<1>6. QED
  BY <1>4, <1>5 DEF Text!Next, Reader!Next

-----------------------------------------------------------------------------
(* The bytes lie in what the containers so far have held.                  *)
BytesType ==
  /\ real \in 0 .. Blf!StreamEnd
  /\ remain.lo \in Nat /\ remain.hi \in remain.lo .. filePos
  /\ containerData.lo \in Nat /\ containerData.hi \in containerData.lo .. filePos
  /\ blfPc = "parseObject" => containerData.lo < filePos

(* What was carried over has no complete object, unless something was lost.*)
CarriedIsIncomplete ==
  NothingLost /\ blfPc \in {"open", "getObject"} /\ Blf!Size(remain) # 0 =>
    \A k \in DOMAIN stream : stream[k].at >= remain.lo => Blf!End(k) > filePos

(* Where an object begins, how long it is and where it ends.               *)
LEMMA ObjectEnds ==
  ASSUME stream \in Streams
  PROVE  /\ \A k \in DOMAIN stream :
              /\ k \in Nat /\ k \in 1 .. Len(stream)
              /\ stream[k].at \in Nat /\ stream[k].size \in Nat /\ stream[k].size >= 16
              /\ Blf!End(k) = stream[k].at + stream[k].size
              /\ Blf!End(k) \in Nat /\ stream[k].at + 16 <= Blf!End(k)
         /\ \A j, k \in DOMAIN stream : j < k => Blf!End(j) <= stream[k].at
<1>1. ASSUME NEW k \in DOMAIN stream
      PROVE  /\ k \in Nat /\ k \in 1 .. Len(stream)
             /\ stream[k].at \in Nat /\ stream[k].size \in Nat /\ stream[k].size >= 16
             /\ Blf!End(k) = stream[k].at + stream[k].size
             /\ Blf!End(k) \in Nat /\ stream[k].at + 16 <= Blf!End(k)
  <2>1. k \in Nat /\ stream[k].at \in Nat /\ stream[k].size \in Nat /\ stream[k].size >= 16
        /\ k \in 1 .. Len(stream)
    BY ObjectType
  <2>2. Blf!End(k) = stream[k].at + stream[k].size
    BY DEF Blf!End
  <2>3. QED
    BY <2>1, <2>2
<1>2. ASSUME NEW j \in DOMAIN stream, NEW k \in DOMAIN stream, j < k
      PROVE  Blf!End(j) <= stream[k].at
  <2>1. Blf!After(stream[j]) <= stream[k].at /\ Blf!After(stream[j]) \in Nat
        /\ Blf!After(stream[j]) >= stream[j].at + stream[j].size
    BY <1>2, ObjectsApart, ObjectType
  <2>2. QED
    BY <1>1, <2>1
<1>3. QED
  BY <1>1, <1>2

(* An object that lies behind another is a later one.                      *)
LEMMA LaterObject ==
  ASSUME stream \in Streams, NEW j \in DOMAIN stream, NEW k \in DOMAIN stream
  PROVE  /\ stream[j].at < stream[k].at => j < k
         /\ Blf!End(j) < Blf!End(k) => j < k
         /\ Blf!End(j) <= stream[k].at => j < k
         /\ j < k => stream[j].at < stream[k].at
<1>1. /\ j \in Nat /\ k \in Nat
      /\ stream[j].at \in Nat /\ stream[k].at \in Nat
      /\ Blf!End(j) \in Nat /\ Blf!End(k) \in Nat
      /\ stream[j].at + 16 <= Blf!End(j) /\ stream[k].at + 16 <= Blf!End(k)
      /\ k < j => Blf!End(k) <= stream[j].at
      /\ j < k => Blf!End(j) <= stream[k].at
  BY ObjectEnds
<1>2. j < k \/ j = k \/ k < j
  BY <1>1
<1>3. QED
  BY <1>1, <1>2

(* indexOf finds the first signature.                                      *)
LEMMA IndexFound ==
  ASSUME stream \in Streams, NEW bytes, NEW from, Blf!Signatures(bytes, from) # {}
  PROVE  /\ Blf!IndexOf(bytes, from) \in DOMAIN stream
         /\ Blf!IndexOf(bytes, from) \in Blf!Signatures(bytes, from)
         /\ stream[Blf!IndexOf(bytes, from)].at >= from
         /\ stream[Blf!IndexOf(bytes, from)].at + 4 <= Blf!Least(bytes.hi, real)
         /\ \A j \in Blf!Signatures(bytes, from) : Blf!IndexOf(bytes, from) <= j
<1> DEFINE S == Blf!Signatures(bytes, from)
           k == Blf!IndexOf(bytes, from)
<1>1. S \subseteq Nat /\ S \subseteq DOMAIN stream
  BY ObjectType DEF Blf!Signatures
<1>2. \E m \in S : \A n \in S : m <= n
  <2> HIDE DEF S
  <2>1. QED
    BY <1>1, LeastNumber DEF S
<1>3. k \in S /\ \A j \in S : k <= j
  <2>1. k = CHOOSE m \in S : \A n \in S : m <= n
    BY DEF Blf!IndexOf
  <2> HIDE DEF S, k
  <2>2. QED
    BY <1>2, <2>1
<1>4. /\ k \in DOMAIN stream /\ stream[k].at >= from
      /\ stream[k].at + 4 <= Blf!Least(bytes.hi, real)
  <2> HIDE DEF k
  <2>1. QED
    BY <1>3 DEF Blf!Signatures, Blf!signatureSize
<1>5. QED
  BY <1>3, <1>4

(* The size that is read is a number, whatever the file lacks of it.       *)
LEMMA ObjSizeType ==
  ASSUME stream \in Streams, real \in Nat, NEW bytes, bytes.hi \in Nat,
         NEW k \in DOMAIN stream
  PROVE  Blf!ObjSize(bytes, k) \in Nat
<1> DEFINE place == stream[k].at + Blf!sizeAt
<1>1. stream[k].at \in Nat /\ stream[k].size \in Nat
  BY ObjectType
<1>2. CASE stream[k].at + Blf!sizeEnd > bytes.hi \/ real <= place
  <2>1. Blf!ObjSize(bytes, k) = 0
    BY <1>2, Zenon DEF Blf!ObjSize
  <2>2. QED
    BY <2>1
<1>3. CASE /\ ~(stream[k].at + Blf!sizeEnd > bytes.hi \/ real <= place)
           /\ stream[k].at + Blf!sizeEnd <= real
  <2>1. Blf!ObjSize(bytes, k) = stream[k].size
    BY <1>3, Zenon DEF Blf!ObjSize
  <2>2. QED
    BY <1>1, <2>1
<1>4. CASE /\ ~(stream[k].at + Blf!sizeEnd > bytes.hi \/ real <= place)
           /\ ~(stream[k].at + Blf!sizeEnd <= real)
  <2>1. Blf!ObjSize(bytes, k) = stream[k].size % Blf!weight[real - place]
    BY <1>4, Zenon DEF Blf!ObjSize
  <2>2. real - place \in 1 .. 3
    BY <1>1, <1>4 DEF Blf!sizeAt, Blf!sizeEnd
  <2> HIDE DEF place
  <2>3. \A i \in 1 .. 3 : Blf!weight[i] \in Nat /\ Blf!weight[i] > 0
    BY DEF Blf!weight
  <2>4. PICK w \in Nat : w > 0 /\ w = Blf!weight[real - place]
    BY <2>2, <2>3
  <2>5. stream[k].size % w \in Nat
    BY <1>1, <2>4
  <2>6. QED
    BY <2>1, <2>4, <2>5
<1>5. QED
  BY <1>2, <1>3, <1>4

(* The loop goes on behind what was taken.                                 *)
LEMMA NextAtBounds ==
  ASSUME stream \in Streams, real \in Nat, NEW bytes, bytes.lo \in Nat, bytes.hi \in Nat,
         NEW nextPos \in Nat, bytes.lo <= nextPos, nextPos <= bytes.hi
  PROVE  Blf!NextAt(bytes, nextPos) \in nextPos .. bytes.hi
<1>1. CASE Blf!Signatures(bytes, nextPos) # {}
  <2>1. Blf!NextAt(bytes, nextPos) = stream[Blf!IndexOf(bytes, nextPos)].at
    BY <1>1, Zenon DEF Blf!NextAt
  <2>2. PICK k \in DOMAIN stream :
          /\ k = Blf!IndexOf(bytes, nextPos) /\ stream[k].at >= nextPos
          /\ stream[k].at + 4 <= Blf!Least(bytes.hi, real)
    BY <1>1, IndexFound
  <2>3. stream[k].at \in Nat
    BY ObjectType
  <2>4. QED
    BY <2>1, <2>2, <2>3 DEF Blf!Least
<1>2. CASE Blf!Signatures(bytes, nextPos) = {}
  <2> DEFINE to == nextPos + ((nextPos - bytes.lo) % 4)
  <2>1. Blf!NextAt(bytes, nextPos) = IF to < bytes.hi THEN to ELSE bytes.hi
    BY <1>2, Zenon DEF Blf!NextAt
  <2>2. to \in Nat /\ nextPos <= to
    BY SMT
  <2> HIDE DEF to
  <2>3. QED
    BY <2>1, <2>2
<1>3. QED
  BY <1>1, <1>2

(* An object after k does not lie before the place where the loop goes on  *)
(* after k.                                                                *)
LEMMA NextIsNext ==
  ASSUME BytesOK, Whole, NEW bytes, bytes.lo \in Nat, bytes.hi = filePos,
         NEW k \in DOMAIN stream, bytes.lo = stream[k].at,
         NEW nextPos, nextPos = stream[k].at + stream[k].size, nextPos <= bytes.hi,
         NEW j \in DOMAIN stream, k < j
  PROVE  Blf!NextAt(bytes, nextPos) <= stream[j].at
<1>1. /\ stream \in Streams /\ filePos \in 0 .. Blf!StreamEnd
      /\ Blf!StreamEnd \in Nat /\ bytes.hi \in Nat /\ real = Blf!StreamEnd
  BY EndFacts DEF BytesOK, Whole
<1>2. /\ stream[k].at \in Nat /\ stream[k].size \in Nat /\ stream[j].at \in Nat
      /\ Blf!After(stream[k]) \in Nat /\ Blf!After(stream[k]) <= stream[j].at
      /\ nextPos <= Blf!After(stream[k]) /\ nextPos \in Nat
  BY <1>1, ObjectType, ObjectsApart
<1>3. CASE Blf!Signatures(bytes, nextPos) # {}
  <2>1. Blf!NextAt(bytes, nextPos) = stream[Blf!IndexOf(bytes, nextPos)].at
    BY <1>3, Zenon DEF Blf!NextAt
  <2>2. PICK i \in DOMAIN stream :
          /\ i = Blf!IndexOf(bytes, nextPos) /\ stream[i].at >= nextPos
          /\ stream[i].at + 4 <= Blf!Least(bytes.hi, real)
          /\ \A m \in Blf!Signatures(bytes, nextPos) : i <= m
    BY <1>1, <1>3, IndexFound
  <2>3. i \in Nat /\ j \in Nat /\ stream[i].at \in Nat
    BY <1>1, ObjectEnds
  <2>4. j < i => stream[j].at < stream[i].at
    BY <1>1, LaterObject
  <2>5. j < i => j \in Blf!Signatures(bytes, nextPos)
    BY <1>1, <1>2, <2>2, <2>3, <2>4 DEF Blf!Signatures, Blf!signatureSize, Blf!Least
  <2>6. i < j => stream[i].at < stream[j].at
    BY <1>1, LaterObject
  <2>7. stream[i].at <= stream[j].at
    BY <1>2, <2>2, <2>3, <2>5, <2>6
  <2>8. QED
    BY <2>1, <2>2, <2>7
<1>4. CASE Blf!Signatures(bytes, nextPos) = {}
  <2> DEFINE to == nextPos + ((nextPos - bytes.lo) % 4)
  <2>1. to = Blf!After(stream[k])
    <3>1. nextPos - bytes.lo = stream[k].size
      BY <1>2
    <3>2. QED
      BY <3>1 DEF Blf!After, Blf!Padding
  <2>2. Blf!NextAt(bytes, nextPos) = IF to < bytes.hi THEN to ELSE bytes.hi
    BY <1>4, Zenon DEF Blf!NextAt
  <2> HIDE DEF to
  <2>3. QED
    BY <1>1, <1>2, <2>1, <2>2
<1>5. QED
  BY <1>3, <1>4

(* A message is taken of the bytes that are parsed next, or none is.       *)
Takes(k) ==
  /\ k \in DOMAIN stream /\ stream[k].can /\ Resumes <= stream[k].at
  /\ blfMessages' = Append(blfMessages, k)
  /\ Blf!End(k) <= Resumes'

(* The objects before the place where the reader goes on are those before  *)
(* the one it came from and those that are taken now.                      *)
PassesOnly(k) ==
  \A j \in DOMAIN stream :
    stream[j].can /\ stream[j].at < Resumes' => stream[j].at < Resumes \/ j = k

(* What an iteration of the loop over a container does.                    *)
LEMMA ParseSummary ==
  ASSUME StreamInv, BytesType, Blf!ParseObject
  PROVE  /\ BytesType' /\ CarriedIsIncomplete'
         /\ blfPc' \in {"getObject", "parseObject", "mixed"}
         /\ \/ blfPc' = "mixed" /\ blfMessages' = blfMessages /\ ~NothingLost
            \/ /\ blfPc' # "mixed"
               /\ Resumes \in Nat /\ Resumes' \in Nat /\ Resumes <= Resumes'
               /\ \/ blfMessages' = blfMessages /\ (NothingLost => PassesOnly(0))
                  \/ \E k \in DOMAIN stream : Takes(k) /\ (NothingLost => PassesOnly(k))
<1>1. /\ stream' = stream /\ filePos' = filePos /\ real' = real
      /\ skipped' = skipped /\ paddingCut' = paddingCut
      /\ blfPc = "parseObject" /\ (~paddingCut => ~Blf!CutsPadding(filePos))'
  BY ParseKeeps
<1>2. /\ BytesOK /\ filePos \in Nat /\ stream \in Streams /\ real \in Nat
      /\ Blf!StreamEnd \in Nat
      /\ Blf!StreamEnd' = Blf!StreamEnd /\ Whole' = Whole
      /\ NothingLost' = NothingLost
      /\ containerData.hi = filePos
  BY <1>1, SameObjects, EndFacts DEF StreamInv, BytesOK, NothingLost, Whole, BytesType
<1>3. CASE /\ Blf!Size(remain) # 0 /\ remain.hi # containerData.lo
           /\ blfPc' = "mixed" /\ UNCHANGED <<containerData, remain, blfMessages>>
  <2>1. ~NothingLost
    BY <1>1, <1>3 DEF StreamInv, Adjacent, NothingLost
  <2>2. BytesType'
    BY <1>1, <1>2, <1>3 DEF BytesType
  <2>3. QED
    BY <1>2, <1>3, <2>1, <2>2 DEF CarriedIsIncomplete
<1> DEFINE bytes == [containerData EXCEPT !.lo = IF Blf!Size(remain) = 0 THEN @ ELSE remain.lo]
           k == Blf!IndexOf(bytes, bytes.lo)
<1>4. /\ bytes.hi = filePos /\ bytes.lo = Resumes /\ bytes.lo \in 0 .. filePos
      /\ NothingLost => AtObject(bytes.lo) /\ Whole /\ ~Blf!CutsPadding(filePos)
  <2>1. bytes.hi = filePos /\ bytes.lo = Resumes
    BY <1>1, <1>2 DEF BytesOK, Resumes
  <2>2. Resumes \in 0 .. filePos
    BY <1>1, <1>2 DEF BytesType, Resumes
  <2>3. NothingLost => AtObject(Resumes) /\ Whole /\ ~Blf!CutsPadding(filePos)
    BY DEF StreamInv, NothingLost
  <2> HIDE DEF bytes
  <2>4. QED
    BY <2>1, <2>2, <2>3
<1>5. Blf!Size(Blf!Empty) = 0 /\ Blf!Empty.hi = 0 /\ Blf!Empty.lo = 0
  BY DEF Blf!Size, Blf!Empty
<1> HIDE DEF bytes, k
<1>6. ASSUME Blf!Size(bytes) >= Blf!objHeaderSize, NothingLost
      PROVE  /\ k \in DOMAIN stream /\ bytes.lo = stream[k].at
             /\ Blf!Signatures(bytes, bytes.lo) # {}
             /\ Blf!ObjSize(bytes, k) = stream[k].size
             /\ stream[k].at + 16 <= real
  <2>1. bytes.hi - bytes.lo >= 16 /\ bytes.lo \in Nat
    BY <1>2, <1>4, <1>6 DEF Blf!Size, Blf!objHeaderSize
  <2>2. /\ k \in DOMAIN stream /\ bytes.lo = stream[k].at
        /\ Blf!Signatures(bytes, bytes.lo) # {}
        /\ Blf!ObjSize(bytes, k) = stream[k].size
    BY <1>2, <1>4, <1>6, <2>1, TakenFromObject DEF k
  <2>3. filePos <= real
    BY <1>2, <1>4, <1>6 DEF Whole, BytesOK
  <2>4. QED
    BY <1>2, <1>4, <2>1, <2>2, <2>3
<1>7. CASE Blf!CarryOver(bytes) /\
           (Blf!Size(bytes) < Blf!objHeaderSize \/
             (Blf!Size(bytes) >= Blf!objHeaderSize /\ stream[k].at + Blf!ObjSize(bytes, k) > bytes.hi))
  <2>1. /\ remain' = bytes
        /\ containerData' = [lo |-> filePos, hi |-> filePos]
        /\ blfPc' = "getObject" /\ blfMessages' = blfMessages
    BY <1>2, <1>4, <1>7 DEF Blf!CarryOver, Blf!Loop, Blf!Size
  <2>2. BytesType'
    BY <1>1, <1>2, <1>4, <2>1 DEF BytesType
  <2>3. Resumes' = bytes.lo
    BY <1>1, <1>2, <1>4, <2>1 DEF Resumes, Blf!Size
  <2>4. ASSUME NothingLost, NEW j \in DOMAIN stream, stream[j].at >= bytes.lo
        PROVE  Blf!End(j) > filePos
    <3>1. /\ stream[j].at \in Nat /\ Blf!End(j) \in Nat /\ stream[j].at + 16 <= Blf!End(j)
      BY <1>2, ObjectEnds
    <3>2. CASE Blf!Size(bytes) < Blf!objHeaderSize
      BY <1>2, <1>4, <2>4, <3>1, <3>2 DEF Blf!Size, Blf!objHeaderSize
    <3>3. CASE Blf!Size(bytes) >= Blf!objHeaderSize
      <4>1. /\ k \in DOMAIN stream /\ bytes.lo = stream[k].at
            /\ Blf!ObjSize(bytes, k) = stream[k].size
        BY <1>6, <2>4, <3>3
      <4>2. Blf!End(k) > filePos /\ Blf!End(k) \in Nat
        <5>1. Blf!End(k) = stream[k].at + stream[k].size /\ Blf!End(k) \in Nat
          BY <1>2, <4>1, ObjectEnds
        <5>2. ~(Blf!Size(bytes) < Blf!objHeaderSize)
          BY <1>2, <1>4, <3>3 DEF Blf!Size, Blf!objHeaderSize
        <5>3. QED
          BY <1>4, <1>7, <4>1, <5>1, <5>2
      <4>3. j < k => stream[j].at < stream[k].at
        BY <1>2, <4>1, LaterObject
      <4>4. k < j => Blf!End(k) <= stream[j].at
        BY <1>2, <4>1, ObjectEnds
      <4>5. j \in Nat /\ k \in Nat /\ stream[k].at \in Nat
        BY <1>2, <4>1, ObjectEnds
      <4>6. QED
        BY <1>2, <2>4, <3>1, <4>1, <4>2, <4>3, <4>4, <4>5
    <3>4. QED
      BY <1>2, <1>4, <3>2, <3>3 DEF Blf!Size, Blf!objHeaderSize
  <2>5. CarriedIsIncomplete'
    BY <1>1, <1>2, <2>1, <2>4 DEF CarriedIsIncomplete, Blf!End
  <2>6. PassesOnly(0)
    BY <1>4, <2>3 DEF PassesOnly
  <2>7. Resumes \in Nat /\ Resumes' \in Nat /\ Resumes <= Resumes'
    BY <1>2, <1>4, <2>3
  <2>8. QED
    BY <2>1, <2>2, <2>5, <2>6, <2>7
<1>8. CASE /\ Blf!Size(bytes) >= Blf!objHeaderSize
           /\ Blf!Signatures(bytes, bytes.lo) = {}
           /\ Blf!GiveUp
  <2>1. /\ remain' = remain /\ containerData' = Blf!Empty /\ blfPc' = "getObject"
        /\ blfMessages' = blfMessages
    BY <1>8 DEF Blf!GiveUp
  <2>2. ~NothingLost
    BY <1>6, <1>8
  <2>3. BytesType'
    BY <1>1, <1>2, <1>5, <2>1 DEF BytesType
  <2>4. Resumes' = IF Blf!Size(remain) # 0 THEN remain.lo ELSE filePos
    BY <1>1, <2>1 DEF Resumes, Blf!Size
  <2>5. Resumes \in Nat /\ Resumes' \in Nat /\ Resumes <= Resumes'
    BY <1>1, <1>2, <1>4, <2>4 DEF Resumes, BytesType
  <2>6. CarriedIsIncomplete'
    BY <1>2, <2>2 DEF CarriedIsIncomplete
  <2>7. QED
    BY <2>1, <2>2, <2>3, <2>5, <2>6
<1>9. CASE /\ Blf!Size(bytes) >= Blf!objHeaderSize
           /\ Blf!Signatures(bytes, bytes.lo) # {}
           /\ ~(stream[k].at + Blf!ObjSize(bytes, k) > bytes.hi)
           /\ Blf!TakeObject(bytes, k)
  <2> DEFINE nextPos == stream[k].at + Blf!ObjSize(bytes, k)
             next == Blf!NextAt(bytes, nextPos)
  <2>1. /\ remain' = Blf!Empty
        /\ containerData' = IF next > bytes.lo THEN [lo |-> next, hi |-> bytes.hi] ELSE Blf!Empty
        /\ blfPc' = IF Blf!Size(containerData') = 0 THEN "getObject" ELSE "parseObject"
        /\ blfMessages' = IF nextPos = Blf!End(k) /\ Blf!IsMessage(k)
                          THEN Append(blfMessages, k) ELSE blfMessages
    BY <1>9 DEF Blf!TakeObject, Blf!LoopFrom, Blf!Loop
  <2>2. /\ k \in DOMAIN stream /\ stream[k].at >= bytes.lo
        /\ stream[k].at \in Nat /\ Blf!End(k) \in Nat /\ stream[k].at + 16 <= Blf!End(k)
        /\ Blf!End(k) = stream[k].at + stream[k].size
    BY <1>2, <1>9, IndexFound, ObjectEnds DEF k
  <2>3. nextPos \in Nat /\ bytes.lo <= nextPos /\ nextPos <= bytes.hi
    <3>1. bytes.hi \in Nat
      BY <1>2, <1>4
    <3>2. Blf!ObjSize(bytes, k) \in Nat
      BY <1>2, <2>2, <3>1, ObjSizeType
    <3>3. QED
      BY <1>4, <1>9, <2>2, <3>1, <3>2
  <2> HIDE DEF nextPos
  <2>4. next \in nextPos .. filePos
    BY <1>2, <1>4, <2>3, NextAtBounds
  <2> HIDE DEF next
  <2>5. next \in Nat /\ next <= filePos /\ bytes.lo <= next /\ bytes.lo \in Nat
    BY <1>2, <1>4, <2>3, <2>4
  <2>6. /\ containerData'.lo \in Nat /\ containerData'.hi \in containerData'.lo .. filePos
        /\ blfPc' = "parseObject" => containerData'.lo < filePos /\ containerData'.lo = next
        /\ blfPc' \in {"getObject", "parseObject"}
        /\ blfPc' = "getObject" => next = filePos \/ next = bytes.lo
    BY <1>2, <1>4, <1>5, <2>1, <2>5 DEF Blf!Size
  <2>7. /\ Blf!Size(remain') = 0 /\ remain'.lo = 0 /\ remain'.hi = 0
    BY <1>5, <2>1
  <2>8. BytesType'
    BY <1>1, <1>2, <2>6, <2>7 DEF BytesType
  <2>9. CarriedIsIncomplete'
    BY <2>7 DEF CarriedIsIncomplete
  <2>10. Resumes' = IF blfPc' = "parseObject" THEN next ELSE filePos
    BY <1>1, <2>6, <2>7 DEF Resumes
  <2>11. Resumes \in Nat /\ Resumes' \in Nat /\ Resumes <= Resumes' /\ next <= Resumes'
    BY <1>2, <1>4, <2>5, <2>6, <2>10
  <2>12. ASSUME NothingLost
         PROVE  /\ nextPos = Blf!End(k) /\ Blf!IsMessage(k) = stream[k].can
                /\ Resumes' = next
                /\ \A j \in DOMAIN stream : stream[j].at < next => stream[j].at < Resumes \/ j = k
    <3>1. /\ bytes.lo = stream[k].at /\ Blf!ObjSize(bytes, k) = stream[k].size
          /\ stream[k].at + 16 <= real
      BY <1>6, <1>9, <2>12
    <3>2. nextPos = stream[k].at + stream[k].size
      BY <3>1 DEF nextPos
    <3>3. nextPos = Blf!End(k)
      BY <2>2, <3>2
    <3>4. stream[k].can \in BOOLEAN
      <4>1. stream \in Seq([at : Nat, size : Nat, can : BOOLEAN])
        BY <1>2, FileAssumptions DEF Blf!StreamsAssumption
      <4>2. k \in 1 .. Len(stream)
        BY <2>2, <1>2, ObjectEnds
      <4>3. stream[k] \in [at : Nat, size : Nat, can : BOOLEAN]
        BY <4>1, <4>2, ElementOfSeq
      <4>4. QED
        BY <4>3
    <3>5. stream[k].at + 12 < real
      BY <1>2, <2>2, <3>1
    <3>6. Blf!IsMessage(k) = stream[k].can
      BY <3>4, <3>5 DEF Blf!IsMessage, Blf!sizeEnd
    <3>7. next > bytes.lo
      BY <2>2, <2>3, <2>4, <2>5, <3>1, <3>3
    <3>8. Resumes' = next
      BY <1>2, <2>5, <2>6, <2>10, <3>7
    <3>9. ASSUME NEW j \in DOMAIN stream, stream[j].at < next
          PROVE  stream[j].at < Resumes \/ j = k
      <4>1. k < j => next <= stream[j].at
        BY <1>2, <1>4, <2>2, <2>3, <2>5, <2>12, <3>1, <3>2, NextIsNext DEF next, NothingLost
      <4>2. j < k => stream[j].at < stream[k].at
        BY <1>2, <2>2, LaterObject
      <4>3. j \in Nat /\ k \in Nat /\ stream[j].at \in Nat
        BY <1>2, <2>2, ObjectEnds
      <4>4. QED
        BY <1>4, <2>5, <3>1, <3>9, <4>1, <4>2, <4>3
    <3>10. QED
      BY <3>3, <3>6, <3>8, <3>9
  <2>13. CASE nextPos = Blf!End(k) /\ Blf!IsMessage(k)
    <3>1. Takes(k)
      BY <1>4, <2>1, <2>2, <2>4, <2>5, <2>11, <2>13 DEF Takes, Blf!IsMessage
    <3>2. NothingLost => PassesOnly(k)
      BY <2>12 DEF PassesOnly
    <3>3. QED
      BY <2>2, <2>6, <2>8, <2>9, <2>11, <3>1, <3>2
  <2>14. CASE ~(nextPos = Blf!End(k) /\ Blf!IsMessage(k))
    <3>1. NothingLost => PassesOnly(0)
      BY <2>12, <2>14 DEF PassesOnly
    <3>2. blfMessages' = blfMessages
      BY <2>1, <2>14
    <3>3. QED
      BY <2>6, <2>8, <2>9, <2>11, <3>1, <3>2
  <2>15. QED
    BY <2>13, <2>14
<1>10. QED
  BY <1>3, <1>7, <1>8, <1>9 DEF Blf!ParseObject, bytes, k

(* The reader goes on.                                                     *)
Going == blfPc \in {"open", "getObject", "parseObject"}

(* The objects taken from a .blf file lie, in order, before the bytes that *)
(* are parsed next, and while nothing was lost they are all that do.       *)
ObjectsTaken ==
  /\ blfMessages \in Seq(Blf!Met) /\ InOrder(blfMessages)
  /\ Going => \A i \in DOMAIN blfMessages : Blf!End(blfMessages[i]) <= Resumes
  /\ Going /\ NothingLost =>
       \A k \in DOMAIN stream :
         stream[k].can /\ stream[k].at < Resumes => \E i \in DOMAIN blfMessages : blfMessages[i] = k

BlfTaken == BytesType /\ CarriedIsIncomplete /\ ObjectsTaken

(* More objects are met behind the others.                                 *)
LEMMA MetGrows ==
  ASSUME stream \in Streams, stream' = stream, filePos \in Nat, filePos' \in Nat,
         filePos <= filePos'
  PROVE  /\ GrowTo(Blf!Met, Blf!Met') /\ Blf!Met \subseteq Blf!Met'
         /\ Blf!Met' \subseteq 1 .. Len(stream) /\ Len(stream) \in Nat
<1>1. /\ Blf!Met = {k \in DOMAIN stream : stream[k].can /\ Blf!End(k) <= filePos}
      /\ Blf!Met' = {k \in DOMAIN stream : stream[k].can /\ Blf!End(k) <= filePos'}
  BY DEF Blf!Met, Blf!End
<1>2. \A k \in DOMAIN stream : Blf!End(k) \in Nat /\ k \in 1 .. Len(stream)
  BY ObjectEnds
<1>3. Blf!Met \subseteq Blf!Met'
  BY <1>1, <1>2
<1>4. ASSUME NEW i \in Blf!Met, NEW j \in Blf!Met' \ Blf!Met PROVE i < j
  <2>1. i \in DOMAIN stream /\ j \in DOMAIN stream /\ Blf!End(i) < Blf!End(j)
    BY <1>1, <1>2, <1>4
  <2>2. QED
    BY <2>1, LaterObject
<1>5. Blf!Met' \subseteq 1 .. Len(stream) /\ Len(stream) \in Nat
  BY <1>1, <1>2, ObjectType
<1>6. QED
  BY <1>3, <1>4, <1>5 DEF GrowTo

(* A container with what is to be parsed.                                  *)
LEMMA ContainerSummary ==
  ASSUME StreamInv, BytesType, CarriedIsIncomplete,
         NEW to \in 0 .. Blf!StreamEnd, Blf!NextObject(to),
         Blf!Loop([lo |-> filePos, hi |-> to]),
         real' = real \/ (real' \in Nat /\ real' < to),
         UNCHANGED <<remain, skipped>>
  PROVE  /\ BytesType' /\ CarriedIsIncomplete'
         /\ blfPc' \in {"getObject", "parseObject"}
         /\ Resumes \in Nat /\ Resumes' \in Nat /\ Resumes <= Resumes'
         /\ NothingLost' => NothingLost /\ Resumes' = Resumes
<1>1. /\ stream' = stream /\ filePos' = to /\ filePos <= to
      /\ blfPc = "getObject" /\ Whole
      /\ Blf!StreamEnd \in Nat /\ Blf!StreamEnd' = Blf!StreamEnd
      /\ stream \in Streams /\ filePos \in Nat /\ to \in Nat
      /\ paddingCut => paddingCut'
  BY NextObjectFacts
<1>2. /\ containerData' = [lo |-> filePos, hi |-> to]
      /\ blfPc' = IF to = filePos THEN "getObject" ELSE "parseObject"
  BY <1>1 DEF Blf!Loop, Blf!Size
<1>3. NothingLost' => real' = real /\ NothingLost
  BY <1>1 DEF NothingLost, Whole
<1>4. BytesType'
  BY <1>1, <1>2 DEF BytesType, Whole
<1>5. Resumes' = Resumes
  BY <1>1, <1>2 DEF Resumes, Blf!Size
<1>6. Resumes \in Nat
  BY <1>1 DEF Resumes, BytesType
<1>7. CarriedIsIncomplete'
  <2>1. Blf!Size(remain)' = Blf!Size(remain)
    BY DEF Blf!Size
  <2>2. \A k : Blf!End(k)' = Blf!End(k)
    BY <1>1 DEF Blf!End
  <2>3. QED
    BY <1>1, <1>2, <1>3, <2>1, <2>2 DEF CarriedIsIncomplete
<1>8. QED
  BY <1>2, <1>3, <1>4, <1>5, <1>6, <1>7

(* An object of the file of which nothing is parsed.                       *)
LEMMA OtherSummary ==
  ASSUME StreamInv, BytesType, CarriedIsIncomplete,
         NEW to \in 0 .. Blf!StreamEnd, Blf!NextObject(to), to = filePos \/ skipped',
         skipped => skipped', UNCHANGED <<real, containerData, remain, blfPc>>
  PROVE  /\ BytesType' /\ CarriedIsIncomplete'
         /\ Resumes \in Nat /\ Resumes' \in Nat /\ Resumes <= Resumes'
         /\ NothingLost' => NothingLost /\ Resumes' = Resumes
<1>1. /\ stream' = stream /\ filePos' = to /\ filePos <= to
      /\ blfPc = "getObject" /\ Whole
      /\ Blf!StreamEnd \in Nat /\ Blf!StreamEnd' = Blf!StreamEnd
      /\ stream \in Streams /\ filePos \in Nat /\ to \in Nat
      /\ paddingCut => paddingCut'
  BY NextObjectFacts
<1>2. NothingLost' => NothingLost /\ filePos' = filePos
  BY <1>1 DEF NothingLost, Whole
<1>3. BytesType'
  BY <1>1 DEF BytesType
<1>4. Blf!Size(remain)' = Blf!Size(remain)
  BY DEF Blf!Size
<1>5. /\ Resumes = IF Blf!Size(remain) # 0 THEN remain.lo ELSE filePos
      /\ Resumes' = IF Blf!Size(remain) # 0 THEN remain.lo ELSE to
  BY <1>1, <1>4 DEF Resumes
<1>6. Resumes \in Nat /\ Resumes' \in Nat /\ Resumes <= Resumes'
  BY <1>1, <1>5 DEF BytesType
<1>7. CarriedIsIncomplete'
  <2>1. \A k : Blf!End(k)' = Blf!End(k)
    BY <1>1 DEF Blf!End
  <2>2. QED
    BY <1>1, <1>2, <1>4, <2>1 DEF CarriedIsIncomplete
<1>8. QED
  BY <1>1, <1>2, <1>3, <1>5, <1>6, <1>7

(* What getObject does up to its loop.                                     *)
LEMMA GetSummary ==
  ASSUME StreamInv, BytesType, CarriedIsIncomplete,
         \/ \E to \in 0 .. Blf!StreamEnd :
              \/ Blf!Container(to) \/ Blf!SkippedContainer(to)
              \/ (Blf!TruncatedContainer(to) /\ Cuts[stream] \subseteq Nat)
         \/ Blf!OtherObject
  PROVE  /\ BytesType' /\ CarriedIsIncomplete'
         /\ blfPc = "getObject" /\ blfPc' \in {"getObject", "parseObject"}
         /\ stream' = stream /\ filePos \in Nat /\ filePos' \in Nat /\ filePos <= filePos'
         /\ blfMessages' = blfMessages
         /\ Resumes \in Nat /\ Resumes' \in Nat /\ Resumes <= Resumes'
         /\ NothingLost' => NothingLost /\ Resumes' = Resumes
<1>1. ASSUME NEW to \in 0 .. Blf!StreamEnd, Blf!NextObject(to)
      PROVE  /\ blfPc = "getObject" /\ stream' = stream
             /\ filePos \in Nat /\ filePos' \in Nat /\ filePos <= filePos'
  BY <1>1, NextObjectFacts
<1>2. ASSUME NEW to \in 0 .. Blf!StreamEnd, Blf!Container(to)
      PROVE  /\ BytesType' /\ CarriedIsIncomplete'
             /\ Blf!NextObject(to) /\ blfPc' \in {"getObject", "parseObject"}
             /\ blfMessages' = blfMessages
             /\ Resumes \in Nat /\ Resumes' \in Nat /\ Resumes <= Resumes'
             /\ NothingLost' => NothingLost /\ Resumes' = Resumes
  <2>1. /\ Blf!NextObject(to) /\ Blf!Loop([lo |-> filePos, hi |-> to])
        /\ real' = real /\ UNCHANGED <<remain, skipped, blfMessages>>
    BY <1>2 DEF Blf!Container
  <2>2. QED
    BY <2>1, ContainerSummary
<1>3. ASSUME NEW to \in 0 .. Blf!StreamEnd, Blf!TruncatedContainer(to),
             Cuts[stream] \subseteq Nat
      PROVE  /\ BytesType' /\ CarriedIsIncomplete'
             /\ Blf!NextObject(to) /\ blfPc' \in {"getObject", "parseObject"}
             /\ blfMessages' = blfMessages
             /\ Resumes \in Nat /\ Resumes' \in Nat /\ Resumes <= Resumes'
             /\ NothingLost' => NothingLost /\ Resumes' = Resumes
  <2>1. /\ Blf!NextObject(to) /\ Blf!Loop([lo |-> filePos, hi |-> to])
        /\ real' \in Nat /\ real' < to /\ UNCHANGED <<remain, skipped, blfMessages>>
    BY <1>3 DEF Blf!TruncatedContainer
  <2>2. QED
    BY <2>1, ContainerSummary
<1>4. ASSUME NEW to \in 0 .. Blf!StreamEnd,
             Blf!SkippedContainer(to) \/ (Blf!OtherObject /\ to = filePos)
      PROVE  /\ BytesType' /\ CarriedIsIncomplete'
             /\ Blf!NextObject(to) /\ blfPc' = blfPc
             /\ blfMessages' = blfMessages
             /\ Resumes \in Nat /\ Resumes' \in Nat /\ Resumes <= Resumes'
             /\ NothingLost' => NothingLost /\ Resumes' = Resumes
  <2>1. /\ Blf!NextObject(to) /\ (to = filePos \/ skipped') /\ (skipped => skipped')
        /\ UNCHANGED <<real, containerData, remain, blfPc, blfMessages>>
    BY <1>4 DEF Blf!SkippedContainer, Blf!OtherObject
  <2>2. QED
    BY <2>1, OtherSummary
<1>5. CASE \E to \in 0 .. Blf!StreamEnd :
             \/ Blf!Container(to) \/ Blf!SkippedContainer(to)
             \/ (Blf!TruncatedContainer(to) /\ Cuts[stream] \subseteq Nat)
  <2>1. PICK to \in 0 .. Blf!StreamEnd :
             \/ Blf!Container(to) \/ Blf!SkippedContainer(to)
             \/ (Blf!TruncatedContainer(to) /\ Cuts[stream] \subseteq Nat)
    BY <1>5
  <2>2. CASE Blf!Container(to)
    BY <1>1, <1>2, <2>2
  <2>3. CASE Blf!SkippedContainer(to)
    BY <1>1, <1>4, <2>3
  <2>4. CASE Blf!TruncatedContainer(to) /\ Cuts[stream] \subseteq Nat
    BY <1>1, <1>3, <2>4
  <2>5. QED
    BY <2>1, <2>2, <2>3, <2>4
<1>6. CASE Blf!OtherObject
  <2>1. filePos \in 0 .. Blf!StreamEnd
    BY DEF StreamInv, BytesOK
  <2>2. PICK to : to = filePos
    OBVIOUS
  <2>3. QED
    BY <1>1, <1>4, <1>6, <2>1, <2>2
<1>7. QED
  BY <1>5, <1>6

(* What a .blf file has given, in the terms of the refinement.             *)
LEMMA BlfRead ==
  ASSUME StreamInv, BlfTaken, IsBlf
  PROVE  /\ stream \in Streams /\ filePos \in Nat /\ Len(stream) \in Nat
         /\ Blf!Met \subseteq 1 .. Len(stream)
         /\ MessagesMet = Blf!Met /\ Taken = blfMessages
         /\ SpoiledMessages = IF NothingLost THEN {} ELSE Blf!Met
         /\ Taken \in Seq(MessagesMet) /\ InOrder(Taken)
<1>1. stream \in Streams /\ filePos \in Nat /\ Blf!StreamEnd \in Nat
  BY EndFacts DEF StreamInv, BytesOK
<1>2. Blf!Lossy <=> ~NothingLost
  BY <1>1 DEF Blf!Lossy, NothingLost, Whole, BlfTaken, BytesType
<1>3. /\ MessagesMet = Blf!Met /\ Taken = blfMessages
      /\ SpoiledMessages = IF NothingLost THEN {} ELSE Blf!Met
  BY <1>2 DEF MessagesMet, Taken, SpoiledMessages
<1>4. Len(stream) \in Nat /\ Blf!Met \subseteq 1 .. Len(stream)
  BY <1>1, ObjectType DEF Blf!Met
<1>5. QED
  BY <1>1, <1>3, <1>4 DEF BlfTaken, ObjectsTaken

(* A step that leaves the messages taken as they are, or takes one more.   *)
LEMMA TakenStep ==
  ASSUME StreamInv, BlfTaken, BytesType', Going, Going',
         stream' = stream, filePos \in Nat, filePos' \in Nat, filePos <= filePos',
         Resumes \in Nat, Resumes' \in Nat, Resumes <= Resumes',
         NothingLost' => NothingLost,
         \/ blfMessages' = blfMessages /\ (NothingLost' => PassesOnly(0))
         \/ \E k \in DOMAIN stream : Takes(k) /\ (NothingLost' => PassesOnly(k))
  PROVE  /\ ObjectsTaken'
         /\ TakesNext(Blf!Met', IF NothingLost' THEN {} ELSE Blf!Met', blfMessages, blfMessages')
<1>1. /\ stream \in Streams
      /\ Blf!Met' = {k \in DOMAIN stream : stream[k].can /\ Blf!End(k) <= filePos'}
      /\ Blf!Met \subseteq Blf!Met' /\ Blf!Met \subseteq DOMAIN stream
      /\ \A k : Blf!End(k)' = Blf!End(k)
  BY MetGrows DEF StreamInv, BytesOK, Blf!Met, Blf!End
<1>2. /\ blfMessages \in Seq(Blf!Met) /\ blfMessages \in Seq(Blf!Met')
      /\ Len(blfMessages) \in Nat /\ DOMAIN blfMessages = 1 .. Len(blfMessages)
      /\ \A i \in DOMAIN blfMessages : blfMessages[i] \in Blf!Met
  BY <1>1, SeqMonotonic, LenProperties, ElementOfSeq DEF BlfTaken, ObjectsTaken
<1>3. \A i \in DOMAIN blfMessages :
        /\ blfMessages[i] \in DOMAIN stream /\ Blf!End(blfMessages[i]) \in Nat
        /\ Blf!End(blfMessages[i]) <= Resumes
  BY <1>1, <1>2, ObjectEnds DEF BlfTaken, ObjectsTaken
<1>4. \A j \in DOMAIN stream : /\ j \in Nat /\ j # 0
                               /\ stream[j].at \in Nat /\ Blf!End(j) \in Nat
                               /\ stream[j].at + 16 <= Blf!End(j)
  BY <1>1, ObjectEnds
<1>5. ASSUME NothingLost', NEW j \in DOMAIN stream, stream[j].can, stream[j].at < Resumes
      PROVE  \E i \in DOMAIN blfMessages : blfMessages[i] = j
  BY <1>5 DEF BlfTaken, ObjectsTaken
<1>6. CASE blfMessages' = blfMessages /\ (NothingLost' => PassesOnly(0))
  <2>1. \A i \in DOMAIN blfMessages : Blf!End(blfMessages[i])' <= Resumes'
    BY <1>1, <1>3, <1>6
  <2>2. ASSUME NothingLost', NEW j \in DOMAIN stream, stream[j].can, stream[j].at < Resumes'
        PROVE  \E i \in DOMAIN blfMessages : blfMessages[i] = j
    BY <1>4, <1>5, <1>6, <2>2 DEF PassesOnly
  <2>3. InOrder(blfMessages)'
    BY <1>6 DEF BlfTaken, ObjectsTaken, InOrder
  <2>4. \A i \in DOMAIN blfMessages' : Blf!End(blfMessages[i])' <= Resumes'
    BY <1>1, <1>3, <1>6 DEF Blf!End
  <2>5. ObjectsTaken'
    BY <1>1, <1>2, <1>6, <2>2, <2>3, <2>4 DEF ObjectsTaken
  <2>6. QED
    BY <1>6, <2>5 DEF TakesNext
<1>7. ASSUME NEW k \in DOMAIN stream, Takes(k), NothingLost' => PassesOnly(k)
      PROVE  /\ ObjectsTaken'
             /\ TakesNext(Blf!Met', IF NothingLost' THEN {} ELSE Blf!Met', blfMessages, blfMessages')
  <2>1. /\ stream[k].can /\ Resumes <= stream[k].at /\ Blf!End(k) <= Resumes'
        /\ blfMessages' = Append(blfMessages, k)
    BY <1>7 DEF Takes
  <2>2. Resumes' <= filePos'
    BY DEF Resumes, BytesType
  <2>3. k \in Blf!Met'
    BY <1>1, <1>4, <2>1, <2>2
  <2>4. /\ blfMessages' \in Seq(Blf!Met')
        /\ DOMAIN blfMessages' = 1 .. Len(blfMessages) + 1
        /\ \A i \in 1 .. Len(blfMessages) : blfMessages'[i] = blfMessages[i]
        /\ blfMessages'[Len(blfMessages) + 1] = k
    <3>1. PICK S : S = Blf!Met'
      OBVIOUS
    <3>2. blfMessages \in Seq(S) /\ k \in S
      BY <1>2, <2>3, <3>1
    <3>3. /\ blfMessages' \in Seq(S)
          /\ Len(blfMessages') = Len(blfMessages) + 1
          /\ DOMAIN blfMessages' = 1 .. Len(blfMessages')
          /\ \A i \in 1 .. Len(blfMessages) : blfMessages'[i] = blfMessages[i]
          /\ blfMessages'[Len(blfMessages) + 1] = k
      BY <2>1, <3>2, AppendProperties, LenProperties
    <3>4. QED
      BY <3>1, <3>3
  <2>5. \A i \in DOMAIN blfMessages : blfMessages[i] < k
    <3>1. \A i \in DOMAIN blfMessages : Blf!End(blfMessages[i]) <= stream[k].at
      BY <1>3, <1>4, <2>1
    <3>2. QED
      BY <1>1, <1>3, <3>1, LaterObject
  <2>6. \A i \in DOMAIN blfMessages' :
          \/ i \in DOMAIN blfMessages /\ blfMessages'[i] = blfMessages[i]
          \/ i = Len(blfMessages) + 1 /\ blfMessages'[i] = k
    BY <1>2, <2>4
  <2>7. InOrder(blfMessages)'
    <3>1. ASSUME NEW i \in DOMAIN blfMessages', NEW j \in DOMAIN blfMessages', i < j
          PROVE  blfMessages'[i] < blfMessages'[j]
      <4>1. i \in DOMAIN blfMessages /\ blfMessages'[i] = blfMessages[i]
        BY <1>2, <2>4, <3>1
      <4>2. CASE j \in DOMAIN blfMessages /\ blfMessages'[j] = blfMessages[j]
        BY <3>1, <4>1, <4>2 DEF BlfTaken, ObjectsTaken, InOrder
      <4>3. CASE blfMessages'[j] = k
        BY <2>5, <4>1, <4>3
      <4>4. QED
        BY <2>6, <4>2, <4>3
    <3>2. QED
      BY <3>1 DEF InOrder
  <2>8. \A i \in DOMAIN blfMessages' : Blf!End(blfMessages[i])' <= Resumes'
    <3>1. ASSUME NEW i \in DOMAIN blfMessages' PROVE Blf!End(blfMessages[i])' <= Resumes'
      <4>1. Blf!End(blfMessages[i])' = Blf!End(blfMessages'[i])
        BY DEF Blf!End
      <4>2. CASE i \in DOMAIN blfMessages /\ blfMessages'[i] = blfMessages[i]
        BY <1>3, <4>1, <4>2
      <4>3. CASE blfMessages'[i] = k
        BY <2>1, <4>1, <4>3
      <4>4. QED
        BY <2>6, <4>2, <4>3
    <3>2. QED
      BY <3>1
  <2>9. ASSUME NothingLost', NEW j \in DOMAIN stream, stream[j].can, stream[j].at < Resumes'
        PROVE  j = k \/ \E i \in DOMAIN blfMessages : blfMessages[i] = j
    BY <1>5, <1>7, <2>9 DEF PassesOnly
  <2>10. ASSUME NothingLost', NEW j \in DOMAIN stream, stream[j].can, stream[j].at < Resumes'
         PROVE  \E i \in DOMAIN blfMessages' : blfMessages'[i] = j
    <3>1. Len(blfMessages) + 1 \in DOMAIN blfMessages'
      BY <1>2, <2>4
    <3>2. DOMAIN blfMessages \subseteq DOMAIN blfMessages'
      BY <1>2, <2>4
    <3>3. QED
      BY <1>2, <2>4, <2>9, <2>10, <3>1, <3>2
  <2>11. ObjectsTaken'
    BY <2>4, <2>7, <2>8, <2>10 DEF ObjectsTaken
  <2>12. ASSUME NEW j \in Blf!Met', j < k
         PROVE  \/ j \in IF NothingLost' THEN {} ELSE Blf!Met'
                \/ \E i \in DOMAIN blfMessages : blfMessages[i] = j
    <3>1. CASE NothingLost'
      <4>1. j \in DOMAIN stream /\ stream[j].can
        BY <1>1
      <4>2. stream[j].at < stream[k].at
        BY <1>1, <2>12, <4>1, LaterObject
      <4>3. stream[j].at < Resumes'
        BY <1>4, <2>1, <4>1, <4>2
      <4>4. j # k
        BY <1>4, <2>12
      <4>5. QED
        BY <2>9, <3>1, <4>1, <4>3, <4>4
    <3>2. QED
      BY <3>1
  <2>13. TakesNext(Blf!Met', IF NothingLost' THEN {} ELSE Blf!Met', blfMessages, blfMessages')
    BY <2>1, <2>3, <2>5, <2>12 DEF TakesNext
  <2>14. QED
    BY <2>11, <2>13
<1>8. QED
  BY <1>6, <1>7

(* A step that meets and takes messages, in the terms of LogReader.        *)
LEMMA BlfReadsOn ==
  ASSUME StreamInv, BlfTaken, StreamInv', BytesType', CarriedIsIncomplete',
         IsBlf, IsBlf', textPc = "open", textPc' = "open", Going, Going',
         stream' = stream, filePos \in Nat, filePos' \in Nat, filePos <= filePos',
         Resumes \in Nat, Resumes' \in Nat, Resumes <= Resumes',
         NothingLost' => NothingLost,
         \/ blfMessages' = blfMessages /\ (NothingLost' => PassesOnly(0))
         \/ \E k \in DOMAIN stream : Takes(k) /\ (NothingLost' => PassesOnly(k))
  PROVE  BlfTaken' /\ Reader!ReadOn
<1>1. /\ ObjectsTaken'
      /\ TakesNext(Blf!Met', IF NothingLost' THEN {} ELSE Blf!Met', blfMessages, blfMessages')
  BY TakenStep
<1>2. BlfTaken'
  BY <1>1 DEF BlfTaken
<1>3. /\ MessagesMet = Blf!Met /\ Taken = blfMessages
      /\ SpoiledMessages = IF NothingLost THEN {} ELSE Blf!Met
      /\ Taken \in Seq(MessagesMet) /\ InOrder(Taken) /\ stream \in Streams
  BY BlfRead
<1>4. /\ MessagesMet' = Blf!Met' /\ Taken' = blfMessages'
      /\ SpoiledMessages' = IF NothingLost' THEN {} ELSE Blf!Met'
  <2>1. Blf!StreamEnd' \in Nat
    BY <1>3, SameObjects, EndFacts
  <2>2. Blf!Lossy' <=> ~NothingLost'
    BY <2>1 DEF Blf!Lossy, NothingLost, Whole, BytesType
  <2>3. QED
    BY <2>2 DEF MessagesMet, Taken, SpoiledMessages
<1>5. /\ GrowTo(MessagesMet, MessagesMet') /\ Len(stream) \in Nat
      /\ MessagesMet \subseteq MessagesMet' /\ MessagesMet' \subseteq 1 .. Len(stream)
  BY <1>3, <1>4, MetGrows
<1>6. /\ SpoiledMessages \subseteq MessagesMet
      /\ SpoiledMessages \subseteq SpoiledMessages' /\ SpoiledMessages' \subseteq MessagesMet'
  BY <1>3, <1>4, <1>5
<1>7. TakesNext(MessagesMet', SpoiledMessages', Taken, Taken')
  BY <1>1, <1>3, <1>4
<1>8. textPc # "done" /\ blfPc # "done" /\ textPc' # "done" /\ blfPc' # "done"
  BY DEF Going
<1>9. PICK n \in Nat : n = Len(stream)
  BY <1>5
<1>10. Reader!ReadOn
  BY <1>3, <1>5, <1>6, <1>7, <1>8, <1>9, ReadsOn
<1>11. QED
  BY <1>2, <1>10

(* At the end of the file nothing is left that is not spoiled.             *)
LEMMA BlfEnds ==
  ASSUME StreamInv, BlfTaken, IsBlf, blfPc = "getObject", NEW j \in MessagesMet
  PROVE  j \in SpoiledMessages \/ \E i \in DOMAIN Taken : Taken[i] = j
<1>1. /\ MessagesMet = Blf!Met /\ Taken = blfMessages /\ stream \in Streams
      /\ SpoiledMessages = IF NothingLost THEN {} ELSE Blf!Met
      /\ filePos \in Nat
  BY BlfRead
<1>2. j \in DOMAIN stream /\ stream[j].can /\ Blf!End(j) <= filePos
  BY <1>1 DEF Blf!Met
<1>3. stream[j].at \in Nat /\ Blf!End(j) \in Nat /\ stream[j].at + 16 <= Blf!End(j)
  BY <1>1, <1>2, ObjectEnds
<1>4. NothingLost => stream[j].at < Resumes
  <2>1. CASE Blf!Size(remain) = 0
    <3>1. Resumes = filePos
      BY <2>1 DEF Resumes
    <3>2. QED
      BY <1>1, <1>2, <1>3, <3>1
  <2>2. CASE Blf!Size(remain) # 0
    <3>1. Resumes = remain.lo /\ remain.lo \in Nat
      BY <2>2 DEF Resumes, BlfTaken, BytesType
    <3>2. NothingLost /\ stream[j].at >= remain.lo => Blf!End(j) > filePos
      BY <1>2, <2>2 DEF BlfTaken, CarriedIsIncomplete
    <3>3. QED
      BY <1>1, <1>2, <1>3, <3>1, <3>2
  <2>3. QED
    BY <2>1, <2>2
<1>5. QED
  BY <1>1, <1>2, <1>4 DEF BlfTaken, ObjectsTaken, Going

(* Every step of BlfParser::parse is one LogReader allows.                 *)
LEMMA BlfReads ==
  ASSUME StreamInv, BlfTaken, Blf!Next, IsBlf, UNCHANGED extension,
         textPc = "open", textPc' = "open"
  PROVE  BlfTaken' /\ [Reader!Next]_(Reader!vars)
<1>1. StreamInv' /\ IsBlf'
  BY BlfStep DEF IsBlf
<1>2. /\ MessagesMet = Blf!Met /\ Taken = blfMessages /\ stream \in Streams
      /\ Len(stream) \in Nat /\ MessagesMet \subseteq 1 .. Len(stream)
      /\ SpoiledMessages = IF NothingLost THEN {} ELSE Blf!Met
      /\ Taken \in Seq(MessagesMet) /\ InOrder(Taken)
  BY BlfRead
<1>3. BytesType /\ CarriedIsIncomplete /\ ObjectsTaken
  BY DEF BlfTaken
<1>4. ASSUME UNCHANGED <<Blf!file, containerData, remain, blfMessages, skipped, paddingCut>>
      PROVE  /\ UNCHANGED <<MessagesMet, SpoiledMessages, Taken>>
             /\ NothingLost' = NothingLost /\ stream' = stream
             /\ Blf!Size(remain)' = Blf!Size(remain)
             /\ Blf!StreamEnd' = Blf!StreamEnd
             /\ Blf!Met' = Blf!Met /\ \A k : Blf!End(k)' = Blf!End(k)
  <2>1. UNCHANGED <<stream, filePos, real, containerData, remain, blfMessages, skipped, paddingCut>>
    BY <1>4 DEF Blf!file
  <2>2. Blf!StreamEnd' = Blf!StreamEnd
    BY <2>1, SameObjects
  <2>3. Blf!Met' = Blf!Met /\ \A k : Blf!End(k)' = Blf!End(k)
    BY <2>1 DEF Blf!Met, Blf!End
  <2>4. NothingLost' = NothingLost /\ Blf!Lossy' = Blf!Lossy
    BY <2>1, <2>2 DEF NothingLost, Whole, Blf!Lossy
  <2>5. UNCHANGED <<MessagesMet, SpoiledMessages, Taken>>
    BY <1>1, <2>1, <2>3, <2>4 DEF MessagesMet, SpoiledMessages, Taken
  <2>6. QED
    BY <2>1, <2>2, <2>3, <2>4, <2>5 DEF Blf!Size
<1>5. CASE Blf!Open
  <2>1. /\ blfPc = "open" /\ blfPc' \in {"getObject", "thrown"}
        /\ UNCHANGED <<Blf!file, containerData, remain, blfMessages, skipped, paddingCut>>
    BY <1>5 DEF Blf!Open, Blf!history
  <2>2. UNCHANGED <<stream, filePos, real>>
    BY <2>1 DEF Blf!file
  <2>3. BytesType'
    BY <1>3, <1>4, <2>1, <2>2 DEF BytesType
  <2>4. CarriedIsIncomplete'
    BY <1>3, <1>4, <2>1, <2>2 DEF CarriedIsIncomplete
  <2>5. Resumes' = Resumes
    BY <1>4, <2>1, <2>2 DEF Resumes
  <2>6. ObjectsTaken'
    BY <1>3, <1>4, <2>1, <2>2, <2>5 DEF ObjectsTaken, InOrder, Going, Blf!End
  <2>7. (textPc = "done" \/ blfPc = "done")' = (textPc = "done" \/ blfPc = "done")
    BY <2>1
  <2>8. QED
    BY <1>4, <2>1, <2>3, <2>4, <2>6, <2>7, ReadsNothing DEF BlfTaken
<1>6. CASE Blf!HeaderCut \/ Blf!Done
  <2>1. /\ blfPc = "getObject" /\ blfPc' \in {"done", "thrown"}
        /\ UNCHANGED <<Blf!file, containerData, remain, blfMessages, skipped, paddingCut>>
    BY <1>6 DEF Blf!HeaderCut, Blf!Done, Blf!history
  <2>2. UNCHANGED <<stream, filePos, real>>
    BY <2>1 DEF Blf!file
  <2>3. BytesType'
    BY <1>3, <1>4, <2>1, <2>2 DEF BytesType
  <2>4. CarriedIsIncomplete'
    BY <2>1 DEF CarriedIsIncomplete
  <2>5. ObjectsTaken'
    BY <1>3, <1>4, <2>1, <2>2 DEF ObjectsTaken, InOrder, Going
  <2>6. CASE blfPc' = "thrown"
    <3>1. (textPc = "done" \/ blfPc = "done")' = (textPc = "done" \/ blfPc = "done")
      BY <2>1, <2>6
    <3>2. QED
      BY <1>4, <2>1, <2>3, <2>4, <2>5, <3>1, ReadsNothing DEF BlfTaken
  <2>7. CASE blfPc' = "done"
    <3>1. \A j \in MessagesMet : j \in SpoiledMessages \/ \E i \in DOMAIN Taken : Taken[i] = j
      BY <2>1, BlfEnds
    <3>2. PICK n \in Nat : n = Len(stream)
      BY <1>2
    <3>3. Reader!Finish
      BY <1>2, <1>4, <2>1, <2>7, <3>1, <3>2, Finishes
    <3>4. QED
      BY <2>3, <2>4, <2>5, <3>3 DEF BlfTaken, Reader!Next
  <2>8. QED
    BY <2>1, <2>6, <2>7
<1>7. CASE \/ \E to \in Cuts[stream] \cap (0 .. Blf!StreamEnd) :
                \/ Blf!Container(to) \/ Blf!SkippedContainer(to)
                \/ Blf!TruncatedContainer(to)
           \/ Blf!OtherObject
  <2>1. Cuts[stream] \subseteq Nat
    BY <1>2, FileAssumptions DEF Blf!StreamsAssumption
  <2>2. /\ BytesType' /\ CarriedIsIncomplete'
        /\ blfPc = "getObject" /\ blfPc' \in {"getObject", "parseObject"}
        /\ stream' = stream /\ filePos \in Nat /\ filePos' \in Nat /\ filePos <= filePos'
        /\ blfMessages' = blfMessages
        /\ Resumes \in Nat /\ Resumes' \in Nat /\ Resumes <= Resumes'
        /\ NothingLost' => NothingLost /\ Resumes' = Resumes
    BY <1>3, <1>7, <2>1, GetSummary
  <2>3. NothingLost' => PassesOnly(0)
    BY <2>2 DEF PassesOnly
  <2>4. Going /\ Going'
    BY <2>2 DEF Going
  <2>5. BlfTaken' /\ Reader!ReadOn
    BY <1>1, <2>2, <2>3, <2>4, BlfReadsOn
  <2>6. QED
    BY <2>5 DEF Reader!Next
<1>8. CASE Blf!ParseObject
  <2>1. /\ stream' = stream /\ filePos' = filePos /\ real' = real
        /\ skipped' = skipped /\ paddingCut' = paddingCut
        /\ blfPc = "parseObject"
    BY <1>8, ParseKeeps
  <2>2. /\ BytesType' /\ CarriedIsIncomplete'
        /\ blfPc' \in {"getObject", "parseObject", "mixed"}
        /\ \/ blfPc' = "mixed" /\ blfMessages' = blfMessages /\ ~NothingLost
           \/ /\ blfPc' # "mixed"
              /\ Resumes \in Nat /\ Resumes' \in Nat /\ Resumes <= Resumes'
              /\ \/ blfMessages' = blfMessages /\ (NothingLost => PassesOnly(0))
                 \/ \E k \in DOMAIN stream : Takes(k) /\ (NothingLost => PassesOnly(k))
    BY <1>3, <1>8, ParseSummary
  <2>3. /\ Blf!StreamEnd' = Blf!StreamEnd /\ NothingLost' = NothingLost
        /\ Blf!Met' = Blf!Met
    BY <2>1, SameObjects DEF NothingLost, Whole, Blf!Met, Blf!End
  <2>4. CASE blfPc' = "mixed" /\ blfMessages' = blfMessages
    <3>1. ObjectsTaken'
      BY <1>3, <2>3, <2>4 DEF ObjectsTaken, InOrder, Going
    <3>2. Blf!Lossy' = Blf!Lossy
      BY <2>1, <2>3 DEF Blf!Lossy
    <3>3. UNCHANGED <<MessagesMet, SpoiledMessages, Taken>>
      BY <1>1, <2>3, <2>4, <3>2 DEF MessagesMet, SpoiledMessages, Taken
    <3>4. (textPc = "done" \/ blfPc = "done")' = (textPc = "done" \/ blfPc = "done")
      BY <2>1, <2>4
    <3>5. QED
      BY <2>2, <3>1, <3>3, <3>4, ReadsNothing DEF BlfTaken
  <2>5. CASE blfPc' # "mixed"
    <3>1. Going /\ Going'
      BY <2>1, <2>2, <2>5 DEF Going
    <3>2. filePos \in Nat /\ filePos' \in Nat /\ filePos <= filePos'
      <4>1. filePos \in Nat
        BY BlfRead
      <4>2. QED
        BY <2>1, <4>1
    <3>3. \/ blfMessages' = blfMessages /\ (NothingLost' => PassesOnly(0))
          \/ \E k \in DOMAIN stream : Takes(k) /\ (NothingLost' => PassesOnly(k))
      BY <2>2, <2>3, <2>5
    <3>4. BlfTaken' /\ Reader!ReadOn
      BY <1>1, <2>1, <2>2, <2>3, <2>5, <3>1, <3>2, <3>3, BlfReadsOn
    <3>5. QED
      BY <3>4 DEF Reader!Next
  <2>6. QED
    BY <2>2, <2>4, <2>5
<1>9. QED
  BY <1>5, <1>6, <1>7, <1>8 DEF Blf!Next, Blf!GetObject

-----------------------------------------------------------------------------
(* One of the two readers runs, or none.                                   *)
OneReader ==
  /\ ~IsBlf => blfPc = "open"
  /\ IsBlf => textPc = "open"

ReaderInv == TextInv /\ LinesInv /\ StreamInv /\ BlfTaken /\ OneReader

(* It holds before the file is opened, and nothing has been read.          *)
LEMMA InitReader == Init => ReaderInv /\ Reader!Init
<1> SUFFICES ASSUME Init PROVE ReaderInv /\ Reader!Init
  OBVIOUS
<1>1. StreamInv
  BY InitStream
<1>2. /\ lines = <<>> /\ textMessages = <<>> /\ number = 0 /\ textPc = "open"
      /\ stream \in Streams /\ filePos = 0 /\ real = Blf!StreamEnd
      /\ containerData = Blf!Empty /\ remain = Blf!Empty
      /\ blfMessages = <<>> /\ blfPc = "open"
  BY DEF Init, Text!Init, Blf!Init
<1>3. TextInv
  BY <1>2, EmptySeq DEF TextInv, NumbersHaveNoGaps, Text!NumbersHaveNoGaps
<1>4. Text!MessageLines = {}
  BY <1>2 DEF Text!MessageLines
<1>5. Blf!Met = {}
  <2>1. \A k \in DOMAIN stream : ~(Blf!End(k) <= 0)
    BY <1>2, ObjectEnds
  <2>2. QED
    BY <1>2, <2>1 DEF Blf!Met
<1>6. LinesInv
  BY <1>2, <1>4 DEF LinesInv
<1>7. /\ Blf!Size(remain) = 0 /\ remain.lo = 0 /\ remain.hi = 0
      /\ containerData.lo = 0 /\ containerData.hi = 0
  BY <1>2 DEF Blf!Empty, Blf!Size
<1>8. Blf!StreamEnd \in Nat
  BY <1>2, EndFacts
<1>9. Resumes = 0
  BY <1>2, <1>7 DEF Resumes
<1>10. \A k \in DOMAIN stream : ~(stream[k].at < 0)
  BY <1>2, ObjectEnds
<1>11. BlfTaken
  BY <1>2, <1>7, <1>8, <1>9, <1>10, EmptySeq
     DEF BlfTaken, BytesType, CarriedIsIncomplete, ObjectsTaken, InOrder
<1>12. MessagesMet = {} /\ SpoiledMessages = {} /\ Taken = <<>>
  BY <1>2, <1>4, <1>5 DEF MessagesMet, SpoiledMessages, Taken
<1>13. /\ Cardinality(MessagesMet) = 0
       /\ Ranks(MessagesMet, SpoiledMessages) = {}
       /\ RanksOf(MessagesMet, Taken) = <<>>
  BY <1>12, FS_EmptySet DEF Ranks, RanksOf
<1>14. (textPc = "done" \/ blfPc = "done") = FALSE
  BY <1>2
<1>15. Reader!Init
  BY <1>13, <1>14 DEF Reader!Init
<1>16. QED
  BY <1>1, <1>2, <1>3, <1>6, <1>11, <1>15 DEF ReaderInv, OneReader

(* A step that leaves the .blf reader alone keeps what is known of it.     *)
LEMMA BlfAlone ==
  ASSUME StreamInv, BlfTaken, UNCHANGED blfVars
  PROVE  StreamInv' /\ BlfTaken'
<1>1. UNCHANGED <<stream, filePos, real, containerData, remain, blfMessages, blfPc,
                  skipped, paddingCut>>
  BY DEF blfVars
<1>2. StreamInv'
  BY StreamAlone
<1>3. /\ Blf!StreamEnd' = Blf!StreamEnd /\ Blf!Met' = Blf!Met
      /\ Blf!Size(remain)' = Blf!Size(remain)
      /\ \A k : Blf!End(k)' = Blf!End(k)
  BY <1>1, SameObjects DEF Blf!Met, Blf!End, Blf!Size
<1>4. NothingLost' = NothingLost /\ Resumes' = Resumes
  BY <1>1, <1>3 DEF NothingLost, Whole, Resumes
<1>5. BytesType'
  BY <1>1, <1>3 DEF BlfTaken, BytesType
<1>6. CarriedIsIncomplete'
  BY <1>1, <1>3, <1>4 DEF BlfTaken, CarriedIsIncomplete
<1>7. ObjectsTaken'
  BY <1>1, <1>3, <1>4 DEF BlfTaken, ObjectsTaken, InOrder, Going, Blf!End
<1>8. QED
  BY <1>2, <1>5, <1>6, <1>7 DEF BlfTaken

(* Every step of Parser::parse keeps all of it, and is one of LogReader.   *)
LEMMA ReaderStep ==
  ReaderInv /\ [Next]_vars => ReaderInv' /\ [Reader!Next]_(Reader!vars)
<1> SUFFICES ASSUME ReaderInv, [Next]_vars
             PROVE  ReaderInv' /\ [Reader!Next]_(Reader!vars)
  OBVIOUS
<1> USE DEF ReaderInv
<1>1. CASE TextDriver(Text!Next)
  <2>1. ~IsBlf /\ ~IsBlf' /\ UNCHANGED extension /\ Text!Next /\ UNCHANGED blfVars
    BY <1>1 DEF TextDriver, IsText, IsBlf
  <2>2. blfPc = "open" /\ blfPc' = "open"
    BY <2>1 DEF OneReader, blfVars
  <2>3. TextInv' /\ LinesInv'
    BY <2>1, TextStep, LinesStep
  <2>4. StreamInv' /\ BlfTaken'
    BY <2>1, BlfAlone
  <2>5. [Reader!Next]_(Reader!vars)
    BY <2>1, <2>2, TextReads
  <2>6. OneReader'
    BY <2>1, <2>2 DEF OneReader
  <2>7. QED
    BY <2>3, <2>4, <2>5, <2>6
<1>2. CASE BlfParser(Blf!Next)
  <2>1. IsBlf /\ IsBlf' /\ UNCHANGED extension /\ Blf!Next /\ UNCHANGED textVars
    BY <1>2 DEF BlfParser, IsBlf
  <2>2. textPc = "open" /\ textPc' = "open"
    BY <2>1 DEF OneReader, textVars
  <2>3. TextInv' /\ LinesInv'
    BY <2>1 DEF textVars, TextInv, LinesInv, NumbersHaveNoGaps, Text!NumbersHaveNoGaps,
                Text!MessageLines, Text!CAN_MAX_DLC
  <2>4. StreamInv'
    BY <2>1, BlfStep
  <2>5. BlfTaken' /\ [Reader!Next]_(Reader!vars)
    BY <2>1, <2>2, BlfReads
  <2>6. OneReader'
    BY <2>1, <2>2 DEF OneReader
  <2>7. QED
    BY <2>3, <2>4, <2>5, <2>6
<1>3. CASE NullDriver \/ UNCHANGED vars
  <2>1. UNCHANGED <<extension, lines, textMessages, number>> /\ UNCHANGED blfVars
    BY <1>3 DEF NullDriver, vars, textVars
  <2>2. textPc' = textPc \/ (textPc' = "undefined" /\ textPc = "open" /\ ~IsBlf)
    BY <1>3 DEF NullDriver, vars, textVars
  <2>3. TextInv' /\ LinesInv'
    BY <2>1, <2>2 DEF TextInv, LinesInv, NumbersHaveNoGaps, Text!NumbersHaveNoGaps,
                      Text!MessageLines, Text!CAN_MAX_DLC
  <2>4. StreamInv' /\ BlfTaken'
    BY <2>1, BlfAlone
  <2>5. UNCHANGED <<stream, filePos, real, blfMessages, blfPc, skipped, paddingCut>>
    BY <2>1 DEF blfVars
  <2>6. UNCHANGED <<MessagesMet, SpoiledMessages, Taken>>
    <3>1. Blf!Lossy' = Blf!Lossy /\ Blf!Met' = Blf!Met
      BY <2>5, SameObjects DEF Blf!Lossy, Blf!Met, Blf!End
    <3>2. Text!MessageLines' = Text!MessageLines /\ IsBlf' = IsBlf
      BY <2>1 DEF Text!MessageLines, IsBlf
    <3>3. QED
      BY <2>1, <2>5, <3>1, <3>2 DEF MessagesMet, SpoiledMessages, Taken, Text!CAN_MAX_DLC
  <2>7. (textPc = "done" \/ blfPc = "done")' = (textPc = "done" \/ blfPc = "done")
    BY <2>2, <2>5
  <2>8. UNCHANGED Reader!vars
    BY <2>6, <2>7, ReadsNothing
  <2>9. OneReader'
    BY <2>1, <2>2, <2>5 DEF OneReader, IsBlf
  <2>10. QED
    BY <2>3, <2>4, <2>8, <2>9
<1>4. QED
  BY <1>1, <1>2, <1>3 DEF Next

(* What the parsers have read, in every state.                             *)
LEMMA ParserInvariant == Spec => []ReaderInv
BY InitReader, ReaderStep, PTL DEF Spec

(***************************************************************************)
(* Parser::parse implements LogReader for files of any size: the messages  *)
(* it returns are those of the file in their order, without repetition,    *)
(* whatever lines are rejected and wherever the containers are cut, and    *)
(* complete where the file does not spoil them.                            *)
(***************************************************************************)
THEOREM ParserImplementsLogReader == Spec => ImplementsLogReader
BY InitReader, ReaderStep, PTL DEF Spec, ImplementsLogReader, Reader!Spec

(***************************************************************************)
(* A turn of the loop over a container, after which the loop goes on, goes *)
(* on behind where it was and before the container's end, whatever sizes   *)
(* are read, of a file that is cut or not, and after a loss too: what      *)
(* ReadingEnds takes besides the fairness of the loop.  It is stated of    *)
(* the action, in states of the invariant that ParserInvariant says always *)
(* holds, for an action property lets pass a turn that changes nothing,    *)
(* the one that never ends.                                                *)
(***************************************************************************)
GoesFurther ==
  blfPc' = "parseObject" =>
    /\ Resumes \in Nat /\ Resumes' \in Nat
    /\ Resumes < Resumes' /\ Resumes' < filePos
    /\ filePos' = filePos

THEOREM ParserGoesFurther ==
  ReaderInv /\ BlfParser(Blf!ParseObject) => GoesFurther
<1>1. ASSUME ReaderInv, Blf!ParseObject, blfPc' = "parseObject"
      PROVE  GoesFurther
  <2> DEFINE bytes == [containerData EXCEPT !.lo = IF Blf!Size(remain) = 0 THEN @ ELSE remain.lo]
             k == Blf!IndexOf(bytes, bytes.lo)
             nextPos == stream[k].at + Blf!ObjSize(bytes, k)
             next == Blf!NextAt(bytes, nextPos)
  <2>1. /\ stream \in Streams /\ real \in Nat /\ filePos \in Nat /\ Blf!StreamEnd \in Nat
        /\ filePos' = filePos /\ blfPc = "parseObject"
        /\ bytes.hi = filePos /\ bytes.lo = Resumes
    <3>1. BytesOK /\ BytesType
      BY <1>1 DEF ReaderInv, StreamInv, BlfTaken
    <3>2. filePos' = filePos /\ blfPc = "parseObject"
      BY <1>1, ParseKeeps DEF ReaderInv
    <3>3. bytes.hi = filePos /\ bytes.lo = Resumes
      BY <3>1, <3>2 DEF BytesOK, Resumes
    <3> HIDE DEF bytes
    <3>4. QED
      BY <3>1, <3>2, <3>3, EndFacts DEF BytesOK, BytesType
  <2>2. Resumes \in 0 .. filePos
    BY <1>1, <2>1 DEF ReaderInv, BlfTaken, BytesType, Resumes
  <2> HIDE DEF bytes, k
  <2>3. /\ Blf!Signatures(bytes, bytes.lo) # {}
        /\ ~(stream[k].at + Blf!ObjSize(bytes, k) > bytes.hi)
        /\ Blf!TakeObject(bytes, k)
    <3>1. ~Blf!CarryOver(bytes)
      BY <1>1, <2>1 DEF Blf!CarryOver, Blf!Loop, Blf!Size
    <3>2. ~Blf!GiveUp
      BY <1>1 DEF Blf!GiveUp
    <3>3. QED
      BY <1>1, <3>1, <3>2 DEF Blf!ParseObject, bytes, k
  <2>4. k \in DOMAIN stream /\ stream[k].at \in Nat /\ stream[k].at >= bytes.lo
    BY <2>1, <2>2, <2>3, IndexFound, ObjectEnds DEF k
  <2>5. Blf!ObjSize(bytes, k) \in Nat
    BY <2>1, <2>4, ObjSizeType
  <2>6. nextPos \in Nat /\ bytes.lo <= nextPos /\ nextPos <= bytes.hi
    BY <2>1, <2>2, <2>3, <2>4, <2>5
  <2>7. /\ remain' = Blf!Empty
        /\ containerData' = IF next > bytes.lo THEN [lo |-> next, hi |-> bytes.hi] ELSE Blf!Empty
        /\ Blf!Size(containerData') # 0
    BY <1>1, <2>3 DEF Blf!TakeObject, Blf!LoopFrom, Blf!Loop
  <2> HIDE DEF nextPos
  <2>8. next \in nextPos .. filePos
    BY <2>1, <2>2, <2>6, NextAtBounds
  <2> HIDE DEF next
  <2>9. next > bytes.lo /\ next < filePos /\ containerData'.lo = next
    BY <2>1, <2>2, <2>6, <2>7, <2>8 DEF Blf!Empty, Blf!Size
  <2>10. Resumes' = next
    BY <1>1, <2>7, <2>9 DEF Resumes, Blf!Empty, Blf!Size
  <2>11. QED
    BY <2>1, <2>2, <2>6, <2>8, <2>9, <2>10 DEF GoesFurther
<1>2. QED
  BY <1>1 DEF BlfParser, GoesFurther
=============================================================================
